---------------------------- MODULE SendspinProofs ----------------------------
(***************************************************************************)
(* Sendspin, for every value of the constants.                             *)
(*                                                                         *)
(* Admission: no more connections hold a slot than there are, the admitted *)
(* one holds one, of those ever admitted it alone has a socket, and a      *)
(* paired server's connection yields only to a paired server's or its own  *)
(* (ServersInTurn).  The three invariants need one another.  The           *)
(* connection a newcomer replaces must not be the admitted one, and the    *)
(* admitted one must not give its slot back: PlaceInv says how far a       *)
(* connection's thread is when it may be admitted, and that the accept     *)
(* thread has in hand one whose thread has not started.                    *)
(*                                                                         *)
(* The application: a session that needs what was switched off has its end *)
(* ahead in the window's thread, and the sessions of Music Assistant are   *)
(* counted (SessionsCounted).                                              *)
(*                                                                         *)
(* The player: chunks do not overlap, and none follows the end of the      *)
(* stream (TimelineSound).                                                 *)
(*                                                                         *)
(* Pairing: the server stores first and does not fall back (PairingKept),  *)
(* and each message arrives under its reader's key (KeysInStep).           *)
(***************************************************************************)
EXTENDS MCSendspin, FiniteSetTheorems, SequenceTheorems, TLAPS

Keys == {"LongTerm", "Pairing", "Sentinel"}
Active == {"loop", "pairing", "ending"}     \* where a connection's thread may be admitted
Entries == [id : Conns \cup {None}, rank : 0 .. 2, server : Servers \cup {None},
            pairing : BOOLEAN, category : Keys]

\* The conjuncts whose values are records, places and keys ...
TypeOK ==
    /\ next \in Nat \ {0}
    /\ making = Nothing \/ making \in Conns \X (Conns \cup {None})
    /\ admitted \in Entries
    /\ phase \in [Conns -> {"none", "handshake", "ended"} \cup Active]
    /\ addr \in [Conns -> Addrs \cup {None}]
    /\ category \in [Conns -> Keys]

\* ... and those that are flags.
FlagsOK == open \in [Conns -> BOOLEAN] /\ in \in [Conns -> BOOLEAN] /\ stop \in BOOLEAN

PlaceInv ==
    /\ held \subseteq {c \in Conns : c < next}
    /\ \A c \in Conns : c >= next => phase[c] = "none"
    /\ making # Nothing => making[1] < next /\ phase[making[1]] = "none" /\ addr[making[1]] \in Addrs
    /\ \A c \in Conns : phase[c] \in {"handshake"} \cup Active => addr[c] \in Addrs
    /\ admitted.id = None => admitted = Nobody
    /\ \A c \in Conns : admitted.id = c => c \in held /\ phase[c] \in Active

\* Only a thread that has got past the handshake was ever admitted.
InInv == \A c \in Conns : in[c] => phase[c] \in Active

IInv == TypeOK /\ FlagsOK /\ PlaceInv /\ InInv /\ SlotsBounded /\ OneTalks

-----------------------------------------------------------------------------
\* Connections are numbers, and None is none of them.
LEMMA ConnsAreNumbers == IsFiniteSet(Conns) /\ Conns \subseteq Nat \ {0} /\ None \notin Conns
  BY AdmissionAssumption, FS_CardinalityType DEF ConstantsOK, None

\* A slot more for one connection that had none.
LEMMA OneMore ==
  ASSUME NEW S, IsFiniteSet(S), NEW x, NEW T, T \subseteq S \cup {x}
  PROVE  IsFiniteSet(T) /\ Cardinality(T) \in Nat /\ Cardinality(T) <= Cardinality(S) + 1
  <1>1. IsFiniteSet(S \cup {x}) /\ Cardinality(S \cup {x}) \in Nat /\ Cardinality(S) \in Nat
          /\ Cardinality(S \cup {x}) <= Cardinality(S) + 1
    BY FS_AddElement, FS_CardinalityType
  <1>2. IsFiniteSet(T) /\ Cardinality(T) \in Nat /\ Cardinality(T) <= Cardinality(S \cup {x})
    BY <1>1, FS_Subset, FS_CardinalityType
  <1> QED BY <1>1, <1>2

\* Fewer connections at places that are no others hold no more slots.
LEMMA NoMore ==
  ASSUME IInv, held' \subseteq held, \A c \in held' : addr'[c] = addr[c]
  PROVE  SlotsBounded'
  <1>1. IsFiniteSet(held) /\ Cardinality(held') <= Cardinality(held) /\ Cardinality(held') \in Nat
          /\ Cardinality(held) \in Nat
    BY ConnsAreNumbers, FS_Subset, FS_CardinalityType DEF IInv, PlaceInv
  <1>2. ASSUME NEW a \in Addrs
        PROVE  Share(a, held)' <= MAX_CONNECTIONS_PER_ADDRESS
    <2> DEFINE S == {h \in held : addr[h] = a}
               T == {h \in held' : addr'[h] = a}
    <2>1. T \subseteq S /\ IsFiniteSet(S)
      BY <1>1, FS_Subset
    <2>2. Cardinality(T) <= Cardinality(S) /\ Cardinality(T) \in Nat /\ Cardinality(S) \in Nat
      BY <2>1, FS_Subset, FS_CardinalityType
    <2>3. Cardinality(S) <= MAX_CONNECTIONS_PER_ADDRESS
      BY DEF IInv, SlotsBounded, Share
    <2>4. MAX_CONNECTIONS_PER_ADDRESS \in Nat
      BY AdmissionAssumption DEF ConstantsOK
    <2> HIDE DEF S, T
    <2>5. Cardinality(T) <= MAX_CONNECTIONS_PER_ADDRESS
      BY <2>2, <2>3, <2>4
    <2> QED BY <2>5 DEF T, Share
  <1> QED BY <1>1, <1>2, AdmissionAssumption DEF ConstantsOK, IInv, SlotsBounded

\* Initially no connection has a slot, and none is admitted.
LEMMA InitAdmission == Init => IInv
  <1> SUFFICES ASSUME Init PROVE IInv
    OBVIOUS
  <1>1. TypeOK
    BY ConnsAreNumbers DEF Init, TypeOK, Nobody, Entries, Keys, Nothing
  <1>2. FlagsOK /\ InInv /\ OneTalks
    BY DEF Init, FlagsOK, InInv, OneTalks
  <1>3. PlaceInv
    BY ConnsAreNumbers DEF Init, PlaceInv, Nobody, Active
  <1>4. SlotsBounded
    <2>1. \A a \in Addrs : {h \in held : addr[h] = a} = {}
      BY DEF Init
    <2> QED BY <2>1, FS_EmptySet, AdmissionAssumption DEF Init, SlotsBounded, Share, ConstantsOK
  <1> QED BY <1>1, <1>2, <1>3, <1>4 DEF IInv

-----------------------------------------------------------------------------
(* The accept thread. *)

\* A newcomer gets a slot that was free or another's, never the admitted one's.
LEMMA AcceptHolds ==
  ASSUME IInv, Accept
  PROVE  IInv'
  <1>1. CASE UNCHANGED <<held, making, open, addr>>
    <2>1. TypeOK'
      BY <1>1 DEF IInv, TypeOK, Accept
    <2>2. FlagsOK' /\ InInv' /\ OneTalks'
      BY <1>1 DEF IInv, FlagsOK, InInv, OneTalks, Accept, conn
    <2>3. PlaceInv'
      BY <1>1, ConnsAreNumbers DEF IInv, TypeOK, PlaceInv, Accept
    <2> QED BY <2>1, <2>2, <2>3, NoMore, <1>1 DEF IInv
  <1>2. ASSUME NEW a \in Addrs,
               NEW g \in IF Cardinality(held) < MAX_CONNECTIONS THEN {None} ELSE MakesWay(admitted.id),
               Share(a, held) < MAX_CONNECTIONS_PER_ADDRESS,
               held' = (held \ {g}) \cup {next},
               making' = <<next, g>>,
               open' = [open EXCEPT ![next] = TRUE],
               addr' = [addr EXCEPT ![next] = a]
        PROVE  IInv'
    <2>1. next \in Conns /\ next' = next + 1 /\ UNCHANGED <<admitted, phase, category, in, stop>>
      BY DEF Accept
    <2>2. g # admitted.id \/ g = None
      BY DEF MakesWay
    <2>3. next \notin held /\ phase[next] = "none" /\ held \subseteq Conns
      BY <2>1, ConnsAreNumbers DEF IInv, TypeOK, PlaceInv
    <2>4. g \in held \/ (g = None /\ Cardinality(held) < MAX_CONNECTIONS)
      BY DEF MakesWay
    <2>5. TypeOK'
      <3>1. making' \in Conns \X (Conns \cup {None})
        BY <1>2, <2>1, <2>3, <2>4
      <3>2. addr' \in [Conns -> Addrs \cup {None}] /\ next' \in Nat \ {0}
        BY <1>2, <2>1 DEF IInv, TypeOK
      <3> QED BY <2>1, <3>1, <3>2 DEF IInv, TypeOK
    <2>6. FlagsOK' /\ InInv'
      BY <1>2, <2>1 DEF IInv, FlagsOK, InInv
    <2>7. OneTalks'
      BY <1>2, <2>1, <2>3 DEF IInv, FlagsOK, OneTalks, InInv, Active
    <2>8. PlaceInv'
      <3>1. held' \subseteq {c \in Conns : c < next'}
        <4>1. next \in Nat /\ \A c \in held : c \in Conns /\ c < next /\ c \in Nat
          BY ConnsAreNumbers DEF IInv, TypeOK, PlaceInv
        <4>2. \A c \in held' : c \in held \/ c = next
          BY <1>2
        <4> QED BY <4>1, <4>2, <2>1
      <3>2. \A c \in Conns : c >= next' => phase'[c] = "none"
        BY <2>1, ConnsAreNumbers DEF IInv, TypeOK, PlaceInv
      <3>3. making'[1] < next' /\ phase'[making'[1]] = "none" /\ addr'[making'[1]] \in Addrs
        BY <1>2, <2>1, <2>3, ConnsAreNumbers DEF IInv, TypeOK
      <3>4. \A c \in Conns : phase'[c] \in {"handshake"} \cup Active => addr'[c] \in Addrs
        BY <1>2, <2>1 DEF IInv, TypeOK, PlaceInv
      <3>5. \A c \in Conns : admitted'.id = c => c \in held' /\ phase'[c] \in Active
        BY <1>2, <2>1, <2>2, ConnsAreNumbers DEF IInv, PlaceInv
      <3> QED BY <2>1, <3>1, <3>2, <3>3, <3>4, <3>5 DEF IInv, PlaceInv
    <2>9. SlotsBounded'
      <3>1. IsFiniteSet(held) /\ Cardinality(held) \in Nat /\ Cardinality(held) <= MAX_CONNECTIONS
              /\ MAX_CONNECTIONS \in Nat
        BY <2>3, ConnsAreNumbers, FS_Subset, FS_CardinalityType, AdmissionAssumption
        DEF IInv, SlotsBounded, ConstantsOK
      <3>2. Cardinality(held') <= MAX_CONNECTIONS
        <4>1. CASE g \in held
          <5>1. IsFiniteSet(held \ {g}) /\ Cardinality(held \ {g}) = Cardinality(held) - 1
            BY <3>1, <4>1, FS_RemoveElement
          <5>2. held' \subseteq (held \ {g}) \cup {next}
            BY <1>2
          <5>3. Cardinality(held') \in Nat /\ Cardinality(held') <= Cardinality(held \ {g}) + 1
            BY <5>1, <5>2, OneMore
          <5> QED BY <3>1, <5>1, <5>3
        <4>2. CASE g \notin held
          <5>1. Cardinality(held') \in Nat /\ Cardinality(held') <= Cardinality(held) + 1
            BY <3>1, <1>2, OneMore
          <5> QED BY <3>1, <2>4, <4>2, <5>1
        <4> QED BY <4>1, <4>2
      <3>3. ASSUME NEW b \in Addrs
            PROVE  Share(b, held)' <= MAX_CONNECTIONS_PER_ADDRESS
        <4> DEFINE S == {h \in held : addr[h] = b}
                   T == {h \in held' : addr'[h] = b}
        <4>1. IsFiniteSet(S) /\ Cardinality(S) \in Nat
          BY <3>1, FS_Subset, FS_CardinalityType
        <4>2. \A h \in held : addr'[h] = addr[h]
          BY <1>2, <2>3 DEF IInv, TypeOK
        <4>3. addr'[next] = a
          BY <1>2, <2>1 DEF IInv, TypeOK
        <4>4. Cardinality(S) <= MAX_CONNECTIONS_PER_ADDRESS /\ MAX_CONNECTIONS_PER_ADDRESS \in Nat
          BY AdmissionAssumption DEF IInv, SlotsBounded, Share, ConstantsOK
        <4>5. a = b => Cardinality(S) < MAX_CONNECTIONS_PER_ADDRESS
          BY <1>2 DEF Share
        <4>6. T \subseteq S \cup {next} /\ (a # b => T \subseteq S)
          BY <1>2, <4>2, <4>3
        <4> HIDE DEF S, T
        <4>7. Cardinality(T) \in Nat /\ Cardinality(T) <= Cardinality(S) + 1
                /\ (a # b => Cardinality(T) <= Cardinality(S))
          BY <4>1, <4>6, OneMore, FS_Subset
        <4>8. Cardinality(T) <= MAX_CONNECTIONS_PER_ADDRESS
          BY <4>1, <4>4, <4>5, <4>7
        <4> QED BY <4>8 DEF T, Share
      <3> QED BY <3>2, <3>3 DEF SlotsBounded
    <2> QED BY <2>5, <2>6, <2>7, <2>8, <2>9 DEF IInv
  <1>3. \A a \in Addrs : ~(Share(a, held) >= MAX_CONNECTIONS_PER_ADDRESS)
          => Share(a, held) < MAX_CONNECTIONS_PER_ADDRESS
    <2> SUFFICES ASSUME NEW a \in Addrs
                 PROVE  Share(a, held) \in Nat /\ MAX_CONNECTIONS_PER_ADDRESS \in Nat
      OBVIOUS
    <2>1. {h \in held : addr[h] = a} \subseteq Conns
      BY DEF IInv, PlaceInv
    <2> QED BY <2>1, ConnsAreNumbers, FS_Subset, FS_CardinalityType, AdmissionAssumption
            DEF Share, ConstantsOK
  <1> QED BY <1>1, <1>2, <1>3 DEF Accept

\* The newcomer's thread starts at the handshake.
LEMMA SpawnHolds ==
  ASSUME IInv, Spawn
  PROVE  IInv'
  <1>1. making[1] \in Conns /\ making[1] < next /\ phase[making[1]] = "none" /\ addr[making[1]] \in Addrs
    BY DEF IInv, TypeOK, PlaceInv, Spawn
  <1>2. TypeOK'
    BY <1>1 DEF IInv, TypeOK, Spawn, conn, Nothing
  <1>3. FlagsOK' /\ OneTalks'
    BY DEF IInv, FlagsOK, OneTalks, Spawn, conn
  <1>4. \A c \in Conns : phase'[c] = phase[c] \/ (c = making[1] /\ phase'[c] = "handshake")
    BY <1>1 DEF IInv, TypeOK, Spawn
  <1>5. InInv'
    BY <1>1, <1>4 DEF IInv, InInv, Spawn, conn, Active
  <1>6. PlaceInv'
    BY <1>1, <1>4, ConnsAreNumbers DEF IInv, TypeOK, PlaceInv, Spawn, conn, Nothing, Active
  <1> QED BY <1>2, <1>3, <1>5, <1>6, NoMore DEF IInv, Spawn, conn

\* The slot given back is one whose thread has not started.
LEMMA SpawnFailsHolds ==
  ASSUME IInv, SpawnFails
  PROVE  IInv'
  <1>1. making[1] \in Conns /\ phase[making[1]] = "none"
    BY DEF IInv, TypeOK, PlaceInv, SpawnFails
  <1>2. TypeOK'
    BY DEF IInv, TypeOK, SpawnFails, conn, Nothing
  <1>3. FlagsOK' /\ OneTalks' /\ InInv'
    BY DEF IInv, FlagsOK, OneTalks, InInv, SpawnFails, conn
  <1>4. PlaceInv'
    BY <1>1 DEF IInv, PlaceInv, SpawnFails, conn, Active
  <1> QED BY <1>2, <1>3, <1>4, NoMore DEF IInv, SpawnFails, conn

-----------------------------------------------------------------------------
(* A connection's thread. *)

\* A step of a thread that moves from one of the places where it may be admitted to
\* another, or to the handler's end, and of a socket that at most closes.
LEMMA ThreadHolds ==
  ASSUME IInv, NEW c \in Conns, NEW p \in {"handshake"} \cup Active, p \in Active \/ phase[c] \notin Active,
         phase[c] \in {"handshake"} \cup Active,
         phase' = [phase EXCEPT ![c] = p],
         open' = open \/ open' = [open EXCEPT ![c] = FALSE],
         category' \in [Conns -> Keys],
         admitted' \in Entries, admitted'.id = admitted.id, admitted.id = None => admitted' = admitted,
         UNCHANGED <<next, held, making, addr, in, stop>>
  PROVE  IInv'
  <1>1. TypeOK'
    BY DEF IInv, TypeOK
  <1>2. FlagsOK' /\ OneTalks'
    BY DEF IInv, FlagsOK, OneTalks
  <1>3. \A d \in Conns : phase'[d] = phase[d] \/ (d = c /\ phase'[d] = p)
    BY DEF IInv, TypeOK
  <1>4. InInv'
    BY <1>3 DEF IInv, InInv
  <1>5. \A d \in Conns : d = making[1] /\ making # Nothing => d # c
    BY DEF IInv, PlaceInv, Active
  <1>6. PlaceInv'
    <2>1. making' # Nothing => making'[1] < next' /\ phase'[making'[1]] = "none" /\ addr'[making'[1]] \in Addrs
      BY <1>3, <1>5 DEF IInv, TypeOK, PlaceInv
    <2>2. \A d \in Conns : d >= next' => phase'[d] = "none"
      BY <1>3 DEF IInv, PlaceInv, Active
    <2>3. \A d \in Conns : phase'[d] \in {"handshake"} \cup Active => addr'[d] \in Addrs
      BY <1>3 DEF IInv, PlaceInv
    <2>4. \A d \in Conns : admitted'.id = d => d \in held' /\ phase'[d] \in Active
      BY <1>3 DEF IInv, PlaceInv
    <2> QED BY <2>1, <2>2, <2>3, <2>4 DEF IInv, PlaceInv
  <1> QED BY <1>1, <1>2, <1>4, <1>6, NoMore DEF IInv

\* The handshake settles on keys and nothing else.
LEMMA HandshakeHolds ==
  ASSUME IInv, NEW c \in Conns, Handshake(c)
  PROVE  IInv'
  <1>1. category' \in [Conns -> Keys]
    BY AdmissionAssumption DEF IInv, TypeOK, Handshake, Resolved, ConstantsOK, Keys
  <1> QED BY <1>1, ThreadHolds DEF IInv, TypeOK, Handshake, Active, stored

\* A thread that ends its connection leaves admission to Release.
LEMMA LeavesHolds ==
  ASSUME IInv, NEW c \in Conns, phase[c] \in {"handshake"} \cup Active, Leaves(c),
         UNCHANGED <<next, held, making, admitted, conn, stop>>
  PROVE  IInv'
  BY ThreadHolds DEF IInv, TypeOK, Leaves, Active, conn

\* An entry made for c is c's.
LEMMA EntryTyped ==
  ASSUME IInv, NEW c \in Conns, addr[c] \in Addrs, NEW a \in Acts
  PROVE  /\ Entry(c, a) \in Entries /\ Entry(c, a).id = c /\ Entry(c, a).category = category[c]
  BY AdmissionAssumption DEF IInv, TypeOK, Entry, Entries, Rank, Acts, Server, ConstantsOK

\* When an attempt is over its entry stays whose it was.
LEMMA AttemptOverTyped ==
  ASSUME NEW e \in Entries
  PROVE  /\ AttemptOver(e) \in Entries /\ AttemptOver(e).id = e.id
         /\ AttemptOver(e).category = e.category /\ AttemptOver(e).server = e.server
  <1> DEFINE f == [e EXCEPT !.pairing = FALSE, !.rank = 0]
             g == [id |-> e.id, rank |-> 0, server |-> e.server, pairing |-> FALSE, category |-> e.category]
  <1>1. f = g
    <2>1. DOMAIN f = DOMAIN g
      BY DEF Entries
    <2>2. f.id = e.id /\ f.server = e.server /\ f.category = e.category
      BY DEF Entries
    <2>3. f.rank = 0
      BY DEF Entries
    <2>4. f.pairing = FALSE
      BY Zenon DEF Entries
    <2>5. g.id = e.id /\ g.server = e.server /\ g.category = e.category /\ g.rank = 0
      OBVIOUS
    <2>6. g.pairing = FALSE
      BY Zenon
    <2>7. DOMAIN g = {"id", "rank", "server", "pairing", "category"}
      OBVIOUS
    <2> HIDE DEF f, g
    <2>8. \A x \in DOMAIN g : f[x] = g[x]
      BY <2>2, <2>3, <2>4, <2>5, <2>6, <2>7, Zenon
    <2> USE DEF f, g
    <2> QED BY <2>1, <2>8
  <1>2. f \in Entries /\ f.id = e.id /\ f.category = e.category /\ f.server = e.server
    <2>1. e.id \in Conns \cup {None} /\ e.server \in Servers \cup {None} /\ e.category \in Keys
      BY DEF Entries
    <2>2. g \in Entries
      BY <2>1 DEF Entries
    <2> QED BY <1>1, <2>2
  <1>3. AttemptOver(e) = f \/ AttemptOver(e) = e
    BY DEF AttemptOver
  <1> QED BY <1>2, <1>3

\* Admission: c is not admitted yet, has a slot, and closes the one it displaces.
LEMMA AdmitsHolds ==
  ASSUME IInv, NEW c \in Conns, NEW p \in {"loop", "pairing"}, phase[c] = "loop", c \in held, ~in[c], ~stop,
         phase' = [phase EXCEPT ![c] = p],
         open' = DisplacedClosed(c), in' = [in EXCEPT ![c] = TRUE],
         admitted' \in Entries, admitted'.id = c,
         UNCHANGED <<next, held, making, addr, category, stop>>
  PROVE  IInv'
  <1>1. TypeOK'
    BY DEF IInv, TypeOK, Active
  <1>2. FlagsOK'
    BY DEF IInv, FlagsOK, DisplacedClosed
  <1>3. OneTalks'
    BY DEF IInv, FlagsOK, OneTalks, DisplacedClosed
  <1>4. \A d \in Conns : phase'[d] = phase[d] \/ (d = c /\ phase'[d] = p)
    BY DEF IInv, TypeOK
  <1>5. InInv'
    BY <1>4 DEF IInv, FlagsOK, InInv, Active
  <1>6. PlaceInv'
    <2>1. making' # Nothing => making'[1] < next' /\ phase'[making'[1]] = "none" /\ addr'[making'[1]] \in Addrs
      BY <1>4 DEF IInv, TypeOK, PlaceInv
    <2>2. \A d \in Conns : d >= next' => phase'[d] = "none"
      BY <1>4 DEF IInv, PlaceInv
    <2>3. \A d \in Conns : phase'[d] \in {"handshake"} \cup Active => addr'[d] \in Addrs
      BY <1>4 DEF IInv, PlaceInv, Active
    <2>4. phase'[c] \in Active /\ c # None
      BY ConnsAreNumbers DEF IInv, TypeOK, Active
    <2> QED BY <2>1, <2>2, <2>3, <2>4 DEF IInv, PlaceInv
  <1> QED BY <1>1, <1>2, <1>3, <1>5, <1>6, NoMore DEF IInv

\* An activation admits the connection, or leaves the admitted one in place.
LEMMA ActivateHolds ==
  ASSUME IInv, NEW c \in Conns, Activate(c)
  PROVE  IInv'
  <1>1. PICK a \in Acts :
        \/ /\ ~Admissible(category[c], a) \/ (~in[c] /\ ~Admits(c, a))
           /\ Leaves(c)
           /\ UNCHANGED <<in, admitted, last>>
        \/ /\ Admissible(category[c], a)
           /\ IF in[c]
              THEN UNCHANGED <<open, in>>
              ELSE /\ Admits(c, a)
                   /\ open' = DisplacedClosed(c)
                   /\ in' = [in EXCEPT ![c] = TRUE]
           /\ last' = IF a.playback /\ category[c] = "LongTerm" THEN Server(c) ELSE last
           /\ \E attempt \in {FALSE, a.pairing} :
                /\ phase' = IF attempt THEN [phase EXCEPT ![c] = "pairing"] ELSE phase
                /\ admitted' = IF in[c] /\ admitted.id # c THEN admitted
                               ELSE IF attempt THEN Entry(c, a) ELSE AttemptOver(Entry(c, a))
    BY DEF Activate
  <1>2. /\ phase[c] = "loop" /\ ~stop /\ addr[c] \in Addrs
        /\ UNCHANGED <<next, held, making, addr, category, stop>>
    BY DEF Activate, IInv, PlaceInv, Active
  <1>3. phase = [phase EXCEPT ![c] = "loop"]
    BY <1>2 DEF IInv, TypeOK
  <1>4. CASE Leaves(c) /\ UNCHANGED <<in, admitted, last>>
    BY <1>2, <1>4, LeavesHolds DEF Active, conn
  <1>5. ASSUME IF in[c] THEN UNCHANGED <<open, in>>
                        ELSE Admits(c, a) /\ open' = DisplacedClosed(c) /\ in' = [in EXCEPT ![c] = TRUE],
               NEW attempt \in {FALSE, a.pairing},
               phase' = IF attempt THEN [phase EXCEPT ![c] = "pairing"] ELSE phase,
               admitted' = IF in[c] /\ admitted.id # c THEN admitted
                           ELSE IF attempt THEN Entry(c, a) ELSE AttemptOver(Entry(c, a))
        PROVE  IInv'
    <2>1. PICK p \in {"loop", "pairing"} : phase' = [phase EXCEPT ![c] = p]
      BY <1>3, <1>5
    <2>2. admitted' = admitted \/ (admitted' \in Entries /\ admitted'.id = c)
      BY <1>2, <1>5, EntryTyped, AttemptOverTyped
    <2>3. CASE in[c]
      <3>1. admitted' \in Entries /\ admitted'.id = admitted.id
        BY <1>5, <2>2, <2>3 DEF IInv, TypeOK
      <3>2. admitted.id = None => admitted' = admitted
        BY <1>5, <2>3, ConnsAreNumbers
      <3> QED BY <1>2, <1>5, <2>1, <2>3, <3>1, <3>2, ThreadHolds DEF IInv, TypeOK, Active
    <2>4. CASE ~in[c]
      <3>1. admitted' \in Entries /\ admitted'.id = c
        BY <1>2, <1>5, <2>4, EntryTyped, AttemptOverTyped
      <3> QED BY <1>2, <1>5, <2>1, <2>4, <3>1, AdmitsHolds DEF Admits
    <2> QED BY <2>3, <2>4
  <1> QED BY <1>1, <1>4, <1>5

\* The end of a pairing attempt changes the rank of the admitted one at most.
LEMMA PairingEndsHolds ==
  ASSUME IInv, NEW c \in Conns, PairingEnds(c)
  PROVE  IInv'
  <1>1. /\ phase[c] = "pairing" /\ UNCHANGED <<next, held, making, addr, category, in, stop>>
        /\ phase' = [phase EXCEPT ![c] = "loop"] \/ phase' = [phase EXCEPT ![c] = "ending"]
        /\ open' = open \/ open' = [open EXCEPT ![c] = FALSE]
    BY DEF PairingEnds, Leaves, conn
  <1>2. /\ admitted' \in Entries /\ admitted'.id = admitted.id
        /\ admitted.id = None => admitted' = admitted
    BY AttemptOverTyped, ConnsAreNumbers DEF PairingEnds, IInv, TypeOK
  <1> QED BY <1>1, <1>2, ThreadHolds DEF IInv, TypeOK, Active

\* New keys change neither places nor slots.
LEMMA RehandshakeHolds ==
  ASSUME IInv, NEW c \in Conns, Rehandshake(c)
  PROVE  IInv'
  <1>1. category' \in [Conns -> Keys] /\ phase[c] = "loop" /\ phase' = [phase EXCEPT ![c] = "loop"]
    BY DEF IInv, TypeOK, Rehandshake, Keys
  <1> QED BY <1>1, ThreadHolds DEF IInv, TypeOK, Rehandshake, Active, stored

\* A handler's end gives up its own admission only.
LEMMA ReleaseHolds ==
  ASSUME IInv, NEW c \in Conns, Release(c)
  PROVE  IInv'
  <1>1. TypeOK'
    BY DEF IInv, TypeOK, Release, Nobody, Entries, Keys
  <1>2. FlagsOK' /\ OneTalks'
    BY DEF IInv, FlagsOK, OneTalks, Release
  <1>3. phase[c] = "ending" /\ \A d \in Conns : phase'[d] = IF d = c THEN "ended" ELSE phase[d]
    BY DEF IInv, TypeOK, Release
  <1>4. InInv'
    BY <1>3 DEF IInv, FlagsOK, InInv, Release
  <1>5. PlaceInv'
    <2>1. UNCHANGED <<next, held, making, addr>>
      BY DEF Release
    <2>2. making' # Nothing => making'[1] < next' /\ phase'[making'[1]] = "none" /\ addr'[making'[1]] \in Addrs
      BY <1>3, <2>1 DEF IInv, TypeOK, PlaceInv
    <2>3. \A d \in Conns : d >= next' => phase'[d] = "none"
      BY <1>3, <2>1 DEF IInv, PlaceInv
    <2>4. \A d \in Conns : phase'[d] \in {"handshake"} \cup Active => addr'[d] \in Addrs
      BY <1>3, <2>1 DEF IInv, PlaceInv, Active
    <2>5. admitted' = Nobody \/ (admitted' = admitted /\ admitted.id # c)
      BY DEF Release
    <2>6. \A d \in Conns : admitted'.id = d => d \in held' /\ phase'[d] \in Active
      BY <1>3, <2>1, <2>5, ConnsAreNumbers DEF IInv, PlaceInv, Nobody
    <2> QED BY <2>1, <2>2, <2>3, <2>4, <2>5, <2>6 DEF IInv, PlaceInv
  <1> QED BY <1>1, <1>2, <1>4, <1>5, NoMore DEF IInv, Release

\* A slot is dropped by a thread that was past its Release.
LEMMA SlotDropsHolds ==
  ASSUME IInv, NEW c \in Conns, SlotDrops(c)
  PROVE  IInv'
  <1>1. TypeOK'
    BY DEF IInv, TypeOK, SlotDrops
  <1>2. FlagsOK' /\ OneTalks' /\ InInv'
    BY DEF IInv, FlagsOK, OneTalks, InInv, SlotDrops
  <1>3. \A d \in Conns : d # c => addr'[d] = addr[d]
    BY DEF IInv, TypeOK, SlotDrops
  <1>4. PlaceInv'
    <2>1. making # Nothing => making[1] # c
      BY DEF IInv, PlaceInv, SlotDrops
    <2> QED BY <1>3, <2>1 DEF IInv, TypeOK, PlaceInv, SlotDrops, Active
  <1>5. SlotsBounded'
    BY <1>3, NoMore DEF IInv, PlaceInv, SlotDrops
  <1> QED BY <1>1, <1>2, <1>4, <1>5 DEF IInv

-----------------------------------------------------------------------------
(* The deadline thread and the service. *)

\* The deadline closes a connection that is not the admitted one.
LEMMA DeadlineHolds ==
  ASSUME IInv, NEW c \in Conns, Deadline(c)
  PROVE  IInv'
  <1> USE DEF Deadline, conn
  <1>1. TypeOK'
    BY DEF IInv, TypeOK
  <1>2. FlagsOK' /\ OneTalks' /\ InInv'
    BY DEF IInv, FlagsOK, OneTalks, InInv
  <1>3. PlaceInv'
    BY DEF IInv, PlaceInv
  <1> QED BY <1>1, <1>2, <1>3, NoMore DEF IInv

\* Once stopped nobody is admitted.
LEMMA StopHolds ==
  ASSUME IInv, Stop
  PROVE  IInv'
  <1> USE DEF Stop, conn
  <1>1. TypeOK'
    BY DEF IInv, TypeOK, Nobody, Entries, Keys
  <1>2. FlagsOK' /\ OneTalks' /\ InInv'
    BY DEF IInv, FlagsOK, OneTalks, InInv
  <1>3. PlaceInv'
    BY ConnsAreNumbers DEF IInv, PlaceInv, Nobody
  <1> QED BY <1>1, <1>2, <1>3, NoMore DEF IInv

-----------------------------------------------------------------------------
\* Every step keeps the invariant.
LEMMA StepHolds == IInv /\ [Next]_vars => IInv'
  <1> SUFFICES ASSUME IInv, [Next]_vars PROVE IInv'
    OBVIOUS
  <1>1. CASE UNCHANGED vars
    <2>1. TypeOK'
      BY <1>1 DEF IInv, TypeOK, vars, conn
    <2>2. FlagsOK' /\ OneTalks' /\ InInv'
      BY <1>1 DEF IInv, FlagsOK, OneTalks, InInv, vars, conn
    <2>3. PlaceInv'
      BY <1>1 DEF IInv, PlaceInv, vars, conn
    <2> QED BY <1>1, <2>1, <2>2, <2>3, NoMore DEF IInv, vars, conn
  <1>2. CASE Accept
    BY <1>2, AcceptHolds
  <1>3. CASE Spawn \/ SpawnFails
    BY <1>3, SpawnHolds, SpawnFailsHolds
  <1>4. CASE Stop
    BY <1>4, StopHolds
  <1>5. ASSUME NEW c \in Conns,
               Handshake(c) \/ Activate(c) \/ PairingEnds(c) \/ Rehandshake(c)
        PROVE  IInv'
    BY <1>5, HandshakeHolds, ActivateHolds, PairingEndsHolds, RehandshakeHolds
  <1>6. ASSUME NEW c \in Conns, Unpair(c) \/ Notices(c)
        PROVE  IInv'
    BY <1>6, LeavesHolds DEF Unpair, Notices, Active
  <1>7. ASSUME NEW c \in Conns, Release(c) \/ SlotDrops(c) \/ Deadline(c)
        PROVE  IInv'
    BY <1>7, ReleaseHolds, SlotDropsHolds, DeadlineHolds
  <1> QED BY <1>1, <1>2, <1>3, <1>4, <1>5, <1>6, <1>7 DEF Next

\* The invariant holds of every behaviour.
THEOREM SlotsAndAdmission == Spec => []IInv
  BY InitAdmission, StepHolds, PTL DEF Spec

\* A paired server's connection is displaced by a paired one's or its own.
LEMMA YieldsToPaired ==
  ASSUME IInv, [Next]_vars, admitted # Nobody, admitted' # Nobody, admitted'.id # admitted.id,
         admitted.category = "LongTerm"
  PROVE  admitted'.category = "LongTerm" \/ admitted'.server = admitted.server
  <1>1. admitted \in Entries
    BY DEF IInv, TypeOK
  <1>2. PICK c \in Conns : Activate(c)
    <2>1. ASSUME NEW c \in Conns, PairingEnds(c)
          PROVE  admitted'.id = admitted.id
      BY <1>1, <2>1, AttemptOverTyped DEF PairingEnds
    <2>2. ASSUME NEW c \in Conns, Release(c)
          PROVE  FALSE
      BY <2>2 DEF Release
    <2> QED BY <2>1, <2>2 DEF Next, Accept, Spawn, SpawnFails, Stop, Handshake, Rehandshake, Unpair,
                 Notices, SlotDrops, Deadline, vars
  <1>3. addr[c] \in Addrs /\ c # None
    BY <1>2, ConnsAreNumbers DEF Activate, IInv, PlaceInv, Active
  <1>4. PICK a \in Acts : Admits(c, a) /\ admitted' \in {Entry(c, a), AttemptOver(Entry(c, a))}
    BY <1>2, <1>3, EntryTyped, AttemptOverTyped DEF Activate
  <1>5. admitted'.category = category[c] /\ admitted'.server = Server(c)
    BY <1>3, <1>4, EntryTyped, AttemptOverTyped DEF Entry
  <1>6. MayDisplace(admitted, c, category[c], a)
    BY <1>4 DEF Admits
  <1>7. admitted.id # c
    BY <1>3, <1>4, EntryTyped, AttemptOverTyped
  <1> QED BY <1>5, <1>6, <1>7 DEF MayDisplace

\* At any time no more connections have a slot than there are, the admitted one among them,
\* one server talks, and a paired server yields only to a paired one.
THEOREM OneServerAtATime == Spec => ServersInTurn
  <1>1. IInv /\ [Next]_vars => [admitted # Nobody /\ admitted' # Nobody
            /\ admitted'.id # admitted.id /\ admitted.category = "LongTerm"
           => admitted'.category = "LongTerm" \/ admitted'.server = admitted.server]_vars
    BY YieldsToPaired
  <1>2. IInv /\ [Next]_vars => SlotsBounded' /\ AdmittedHasSlot' /\ OneTalks'
    <2>1. IInv' => SlotsBounded' /\ AdmittedHasSlot' /\ OneTalks'
      BY DEF IInv, TypeOK, PlaceInv, AdmittedHasSlot, Entries
    <2> QED BY <2>1, StepHolds
  <1> QED BY SlotsAndAdmission, <1>1, <1>2, PTL DEF Spec, ServersInTurn, StrangersWait

-----------------------------------------------------------------------------
(* The application (SendspinApp).                                          *)

\* What can be left of a toggle.
TogglesLeft ==
    {<<>>, <<"start">>, <<"startSaved">>, <<"take", "endMa">>, <<"endMa">>,
     <<"take", "endMa", "prompt", "end">>, <<"endMa", "prompt", "end">>, <<"prompt", "end">>, <<"end">>}
EndsMa == {<<"take", "endMa">>, <<"endMa">>, <<"take", "endMa", "prompt", "end">>, <<"endMa", "prompt", "end">>}
EndsPlayer == {<<"take", "endMa", "prompt", "end">>, <<"endMa", "prompt", "end">>, <<"prompt", "end">>,
               <<"end">>}

\* A session of Music Assistant is bound, or its select counted it and binds it yet.
Bound == IF gSession = "ma" THEN 1 ELSE 0
Coming == IF gSelect = "ma" /\ gPlace \in {"takesOld", "binds"} THEN 1 ELSE 0

AppTypes ==
    /\ gEnabled \in BOOLEAN /\ gSource \in BOOLEAN /\ gGui \in TogglesLeft
    /\ gSelect = "none" => gPlace = "none"
    /\ gPlace \in {"connects", "asks", "failed"} => gSelect = "player"
    /\ gPlace = "binds" => gSession = "none"

\* A session that needs what is off has its end ahead in the window's thread ...
AppEnds ==
    /\ gSession = "player" /\ ~gEnabled => gGui \in EndsPlayer
    /\ gSession = "ma" /\ ~gSource => gGui \in EndsMa

\* ... and the count is of the bound session, the select under way and those
\* that are being dropped.
AppCount == gMa \in Nat /\ gDropping \in Nat /\ gMa = gDropping + Bound + Coming

AppInv == AppTypes /\ AppEnds /\ AppCount

\* A toggle goes on one step at a time.
LEMMA Words ==
  ASSUME NEW w \in TogglesLeft, w # <<>>
  PROVE  /\ Tail(w) \in TogglesLeft
         /\ Head(w) \in {"start", "startSaved"} => w \notin EndsMa /\ w \notin EndsPlayer
         /\ w \in EndsMa => Tail(w) \in EndsMa \/ Head(w) = "endMa"
         /\ w \in EndsPlayer => Tail(w) \in EndsPlayer \/ Head(w) = "end"
         /\ Head(w) = "take" => Tail(w) \in EndsMa
  <1> USE DEF TogglesLeft, EndsMa, EndsPlayer
  <1>1. CASE w = <<"start">>
    BY <1>1
  <1>2. CASE w = <<"startSaved">>
    BY <1>2
  <1>3. CASE w = <<"take", "endMa">>
    BY <1>3
  <1>4. CASE w = <<"endMa">>
    BY <1>4
  <1>5. CASE w = <<"take", "endMa", "prompt", "end">>
    BY <1>5
  <1>6. CASE w = <<"endMa", "prompt", "end">>
    BY <1>6
  <1>7. CASE w = <<"prompt", "end">>
    BY <1>7
  <1>8. CASE w = <<"end">>
    BY <1>8
  <1> QED BY <1>1, <1>2, <1>3, <1>4, <1>5, <1>6, <1>7, <1>8

LEMMA AppInit == App!Init => AppInv
  BY DEF App!Init, AppInv, AppTypes, AppEnds, AppCount, TogglesLeft, Bound, Coming

\* A session taken from its slot is one more to be dropped.
LEMMA Taking ==
  ASSUME NEW S, gDropping \in Nat, App!Taken(S)
  PROVE  gDropping' \in Nat /\ gDropping' + Bound' = gDropping + Bound
  <1>1. CASE gSession = "ma" /\ gSession \in S
    <2>1. gSession' = "none" /\ gDropping' = gDropping + 1
      BY <1>1 DEF App!Taken
    <2> QED BY <1>1, <2>1 DEF Bound
  <1>2. CASE ~(gSession = "ma" /\ gSession \in S)
    <2>1. gDropping' = gDropping
      BY <1>2 DEF App!Taken
    <2>2. Bound' = Bound
      BY <1>2 DEF App!Taken, Bound
    <2> QED BY <2>1, <2>2 DEF Bound
  <1> QED BY <1>1, <1>2

\* A toggle writes down all its steps at once, so that whatever it switches off
\* has its end among them.
LEMMA AppToggles ==
  ASSUME AppInv, App!Enable(TRUE) \/ App!Enable(FALSE) \/ App!SetSource(TRUE) \/ App!SetSource(FALSE)
  PROVE  AppInv'
  <1> USE DEF AppInv, App!settings, App!attempt
  <1>1. CASE App!Enable(TRUE)
    <2>1. AppTypes'
      BY <1>1 DEF AppTypes, App!Enable, App!Toggle, TogglesLeft
    <2>2. AppEnds'
      BY <1>1 DEF AppTypes, AppEnds, App!Enable, App!Toggle, TogglesLeft, EndsMa, EndsPlayer
    <2>3. AppCount'
      BY <1>1 DEF AppTypes, AppCount, Bound, Coming, App!Enable, App!Toggle
    <2> QED BY <2>1, <2>2, <2>3
  <1>2. CASE App!Enable(FALSE)
    <2>1. AppTypes'
      BY <1>2 DEF AppTypes, App!Enable, App!Toggle, TogglesLeft
    <2>2. AppEnds'
      BY <1>2 DEF AppTypes, AppEnds, App!Enable, App!Toggle, TogglesLeft, EndsMa, EndsPlayer
    <2>3. AppCount'
      BY <1>2 DEF AppTypes, AppCount, Bound, Coming, App!Enable, App!Toggle
    <2> QED BY <2>1, <2>2, <2>3
  <1>3. CASE App!SetSource(TRUE)
    <2>1. AppTypes'
      BY <1>3 DEF AppTypes, App!SetSource, App!Toggle, TogglesLeft
    <2>2. AppEnds'
      BY <1>3 DEF AppTypes, AppEnds, App!SetSource, App!Toggle, TogglesLeft, EndsMa, EndsPlayer
    <2>3. AppCount'
      BY <1>3 DEF AppTypes, AppCount, Bound, Coming, App!SetSource, App!Toggle
    <2> QED BY <2>1, <2>2, <2>3
  <1>4. CASE App!SetSource(FALSE)
    <2>1. AppTypes'
      BY <1>4 DEF AppTypes, App!SetSource, App!Toggle, TogglesLeft
    <2>2. AppEnds'
      BY <1>4 DEF AppTypes, AppEnds, App!SetSource, App!Toggle, TogglesLeft, EndsMa, EndsPlayer
    <2>3. AppCount'
      BY <1>4 DEF AppTypes, AppCount, Bound, Coming, App!SetSource, App!Toggle
    <2> QED BY <2>1, <2>2, <2>3
  <1> QED BY <1>1, <1>2, <1>3, <1>4

LEMMA AppWindow ==
  ASSUME AppInv, App!StartSource \/ App!TakeSource \/ App!EndMaOutput \/ App!EndPrompt \/ App!EndSession
         \/ App!Drops
  PROVE  AppInv'
  <1> USE DEF AppInv, App!settings, App!attempt
  <1>1. CASE App!StartSource
    <2>1. AppTypes'
      <3>1. gGui # <<>> /\ gGui' = Tail(gGui) /\ gSource' \in {gSource, TRUE}
        BY <1>1 DEF App!StartSource, App!Does
      <3> QED BY <1>1, <3>1, Words DEF AppTypes, App!StartSource
    <2>2. AppEnds'
      BY <1>1, Words DEF AppTypes, AppEnds, App!StartSource, App!Does
    <2>3. AppCount'
      BY <1>1 DEF AppTypes, AppCount, Bound, Coming, App!StartSource, App!Does
    <2> QED BY <2>1, <2>2, <2>3
  <1>2. CASE App!TakeSource
    <2>1. AppTypes'
      BY <1>2, Words DEF AppTypes, App!TakeSource, App!Does
    <2>2. AppEnds'
      BY <1>2, Words DEF AppTypes, AppEnds, App!TakeSource, App!Does
    <2>3. AppCount'
      BY <1>2 DEF AppTypes, AppCount, Bound, Coming, App!TakeSource, App!Does
    <2> QED BY <2>1, <2>2, <2>3
  <1>3. CASE App!EndMaOutput
    <2>1. AppTypes'
      BY <1>3, Words DEF AppTypes, App!EndMaOutput, App!Does, App!Taken
    <2>2. AppEnds'
      BY <1>3, Words DEF AppTypes, AppEnds, App!EndMaOutput, App!Does, App!Taken
    <2>3. AppCount'
      BY <1>3 DEF AppTypes, AppCount, Bound, Coming, App!EndMaOutput, App!Does, App!Taken
    <2> QED BY <2>1, <2>2, <2>3
  <1>4. CASE App!EndPrompt
    <2>1. AppTypes'
      BY <1>4, Words DEF AppTypes, App!EndPrompt, App!Does
    <2>2. AppEnds'
      BY <1>4, Words DEF AppTypes, AppEnds, App!EndPrompt, App!Does
    <2>3. AppCount'
      BY <1>4 DEF AppTypes, AppCount, Bound, Coming, App!EndPrompt, App!Does
    <2> QED BY <2>1, <2>2, <2>3
  <1>5. CASE App!EndSession
    <2>1. AppTypes'
      BY <1>5, Words DEF AppTypes, App!EndSession, App!Does, App!Taken
    <2>2. AppEnds'
      BY <1>5, Words DEF AppTypes, AppEnds, App!EndSession, App!Does, App!Taken
    <2>3. AppCount'
      BY <1>5 DEF AppTypes, AppCount, Bound, Coming, App!EndSession, App!Does, App!Taken
    <2> QED BY <2>1, <2>2, <2>3
  <1>6. CASE App!Drops
    <2>1. AppTypes'
      BY <1>6 DEF AppTypes, App!Drops, App!Uncount
    <2>2. AppEnds'
      BY <1>6 DEF AppTypes, AppEnds, App!Drops, App!Uncount
    <2>3. AppCount'
      BY <1>6 DEF AppTypes, AppCount, Bound, Coming, App!Drops, App!Uncount
    <2> QED BY <2>1, <2>2, <2>3
  <1> QED BY <1>1, <1>2, <1>3, <1>4, <1>5, <1>6

\* A select counts a session of Music Assistant before it binds it.
LEMMA AppConnects ==
  ASSUME AppInv, App!PairSelects \/ App!ReplacesSame \/ App!StartMaOutput \/ App!StartOther
         \/ App!StartPlayer \/ App!PlayerConnects
  PROVE  AppInv'
  <1> USE DEF AppInv, App!settings, App!attempt
  <1>1. CASE App!PairSelects
    <2>1. AppTypes'
      BY <1>1 DEF AppTypes, App!PairSelects, App!Begins
    <2>2. AppEnds'
      BY <1>1 DEF AppTypes, AppEnds, App!PairSelects, App!Begins
    <2>3. AppCount'
      BY <1>1 DEF AppTypes, AppCount, Bound, Coming, App!PairSelects, App!Begins
    <2> QED BY <2>1, <2>2, <2>3
  <1>2. CASE App!ReplacesSame
    <2>1. AppTypes'
      BY <1>2 DEF AppTypes, App!ReplacesSame, App!Taken
    <2>2. AppEnds'
      BY <1>2 DEF AppTypes, AppEnds, App!ReplacesSame, App!Taken
    <2>3. AppCount'
      <3>1. gDropping' \in Nat /\ gDropping' + Bound' = gDropping + Bound
        BY <1>2, Taking DEF AppCount, Bound, App!ReplacesSame
      <3>2. gMa' = gMa /\ Coming' = Coming
        BY <1>2 DEF AppTypes, Coming, App!ReplacesSame, App!Taken
      <3>3. Bound \in Nat /\ Bound' \in Nat /\ Coming \in Nat
        BY DEF Bound, Coming
      <3> QED BY <3>1, <3>2, <3>3 DEF AppCount
    <2> QED BY <2>1, <2>2, <2>3
  <1>3. CASE App!StartMaOutput
    <2>1. AppTypes'
      BY <1>3 DEF AppTypes, App!StartMaOutput, App!Ended
    <2>2. AppEnds'
      BY <1>3 DEF AppTypes, AppEnds, App!StartMaOutput, App!Ended
    <2>3. AppCount'
      BY <1>3 DEF AppTypes, AppCount, Bound, Coming, App!StartMaOutput, App!Ended
    <2> QED BY <2>1, <2>2, <2>3
  <1>4. CASE App!StartOther
    <2>1. AppTypes'
      BY <1>4 DEF AppTypes, App!StartOther
    <2>2. AppEnds'
      BY <1>4 DEF AppTypes, AppEnds, App!StartOther
    <2>3. AppCount'
      BY <1>4 DEF AppTypes, AppCount, Bound, Coming, App!StartOther
    <2> QED BY <2>1, <2>2, <2>3
  <1>5. CASE App!StartPlayer
    <2>1. AppTypes'
      BY <1>5 DEF AppTypes, App!StartPlayer, App!Ended
    <2>2. AppEnds'
      BY <1>5 DEF AppTypes, AppEnds, App!StartPlayer, App!Ended
    <2>3. AppCount'
      BY <1>5 DEF AppTypes, AppCount, Bound, Coming, App!StartPlayer, App!Ended
    <2> QED BY <2>1, <2>2, <2>3
  <1>6. CASE App!PlayerConnects
    <2>1. AppTypes'
      BY <1>6 DEF AppTypes, App!PlayerConnects, App!Ended
    <2>2. AppEnds'
      BY <1>6 DEF AppTypes, AppEnds, App!PlayerConnects, App!Ended
    <2>3. AppCount'
      <3>1. gDropping' \in Nat /\ gDropping' + Bound' = gDropping + Bound
        BY <1>6 DEF AppCount, Bound, App!PlayerConnects, App!Ended
      <3>2. gMa' = gMa /\ Coming' = Coming
        BY <1>6 DEF AppTypes, Coming, App!PlayerConnects, App!Ended
      <3>3. Bound \in Nat /\ Bound' \in Nat /\ Coming \in Nat
        BY DEF Bound, Coming
      <3> QED BY <3>1, <3>2, <3>3 DEF AppCount
    <2> QED BY <2>1, <2>2, <2>3
  <1> QED BY <1>1, <1>2, <1>3, <1>4, <1>5, <1>6

LEMMA AppBinds ==
  ASSUME AppInv, App!Asked \/ App!PairingFailed \/ App!Submit \/ App!TakesOld \/ App!Binds \/ App!SessionEnds
  PROVE  AppInv'
  <1> USE DEF AppInv, App!settings, App!attempt
  <1>1. CASE App!Asked
    <2>1. AppTypes'
      BY <1>1 DEF AppTypes, App!Asked
    <2>2. AppEnds'
      BY <1>1 DEF AppTypes, AppEnds, App!Asked
    <2>3. AppCount'
      <3>1. gDropping' \in Nat /\ gDropping' + Bound' = gDropping + Bound
        BY <1>1 DEF AppCount, Bound, App!Asked
      <3>2. gMa' = gMa /\ Coming' = Coming
        BY <1>1 DEF AppTypes, Coming, App!Asked
      <3>3. Bound \in Nat /\ Bound' \in Nat /\ Coming \in Nat
        BY DEF Bound, Coming
      <3> QED BY <3>1, <3>2, <3>3 DEF AppCount
    <2> QED BY <2>1, <2>2, <2>3
  <1>2. CASE App!PairingFailed
    <2>1. AppTypes'
      BY <1>2 DEF AppTypes, App!PairingFailed, App!Ended
    <2>2. AppEnds'
      BY <1>2 DEF AppTypes, AppEnds, App!PairingFailed, App!Ended
    <2>3. AppCount'
      BY <1>2 DEF AppTypes, AppCount, Bound, Coming, App!PairingFailed, App!Ended
    <2> QED BY <2>1, <2>2, <2>3
  <1>3. CASE App!Submit
    <2>1. AppTypes'
      BY <1>3 DEF AppTypes, App!Submit
    <2>2. AppEnds'
      BY <1>3 DEF AppTypes, AppEnds, App!Submit
    <2>3. AppCount'
      BY <1>3 DEF AppTypes, AppCount, Bound, Coming, App!Submit
    <2> QED BY <2>1, <2>2, <2>3
  <1>4. CASE App!TakesOld
    <2>1. AppTypes'
      BY <1>4 DEF AppTypes, App!TakesOld, App!Taken
    <2>2. AppEnds'
      BY <1>4 DEF AppTypes, AppEnds, App!TakesOld, App!Taken
    <2>3. AppCount'
      <3>1. gDropping' \in Nat /\ gDropping' + Bound' = gDropping + Bound
        BY <1>4, Taking DEF AppCount, App!TakesOld
      <3>2. gMa' = gMa /\ Coming' = Coming
        BY <1>4 DEF AppTypes, Coming, App!TakesOld, App!Taken
      <3>3. Bound \in Nat /\ Bound' \in Nat /\ Coming \in Nat
        BY DEF Bound, Coming
      <3> QED BY <3>1, <3>2, <3>3 DEF AppCount
    <2> QED BY <2>1, <2>2, <2>3
  <1>5. CASE App!Binds
    <2>1. AppTypes'
      BY <1>5 DEF AppTypes, App!Binds, App!Ended, App!Allowed
    <2>2. AppEnds'
      BY <1>5 DEF AppTypes, AppEnds, App!Binds, App!Ended, App!Allowed
    <2>3. AppCount'
      <3>1. CASE App!Allowed
        <4>1. gDropping' = gDropping /\ gMa' = gMa /\ Bound' = Coming /\ Coming' = 0
          BY <1>5, <3>1 DEF Bound, Coming, App!Binds, App!Ended
        <4>2. Bound = 0
          BY <1>5 DEF AppTypes, Bound, App!Binds
        <4> QED BY <4>1, <4>2 DEF AppCount
      <3>2. CASE ~App!Allowed
        <4>1. gDropping' = gDropping + Coming /\ gMa' = gMa /\ Bound' = Bound /\ Coming' = 0
          BY <1>5, <3>2 DEF Bound, Coming, App!Binds, App!Ended
        <4> QED BY <4>1 DEF AppCount, Bound, Coming
      <3> QED BY <3>1, <3>2
    <2> QED BY <2>1, <2>2, <2>3
  <1>6. CASE App!SessionEnds
    <2>1. AppTypes'
      BY <1>6 DEF AppTypes, App!SessionEnds, App!Taken
    <2>2. AppEnds'
      BY <1>6 DEF AppTypes, AppEnds, App!SessionEnds, App!Taken
    <2>3. AppCount'
      <3>1. gDropping' \in Nat /\ gDropping' + Bound' = gDropping + Bound
        BY <1>6, Taking DEF AppCount, App!SessionEnds
      <3>2. gMa' = gMa /\ Coming' = Coming
        BY <1>6 DEF AppTypes, Coming, App!SessionEnds, App!Taken
      <3>3. Bound \in Nat /\ Bound' \in Nat /\ Coming \in Nat
        BY DEF Bound, Coming
      <3> QED BY <3>1, <3>2, <3>3 DEF AppCount
    <2> QED BY <2>1, <2>2, <2>3
  <1> QED BY <1>1, <1>2, <1>3, <1>4, <1>5, <1>6

LEMMA AppSelects ==
  ASSUME AppInv, NEW k \in App!Kinds, App!UserSelects(k) PROVE AppInv'
  BY DEF AppInv, AppTypes, AppEnds, AppCount, Bound, Coming, App!UserSelects, App!Begins, App!Kinds,
     App!settings

LEMMA AppNext == AppInv /\ [App!Next]_gVars => AppInv'
  <1>1. AppInv /\ UNCHANGED gVars => AppInv'
    BY DEF gVars, AppInv, AppTypes, AppEnds, AppCount, Bound, Coming
  <1> QED BY <1>1, AppToggles, AppWindow, AppConnects, AppBinds, AppSelects DEF App!Next

LEMMA AppVars == [App!Next]_(App!vars) => [App!Next]_gVars
  BY DEF App!vars, gVars

LEMMA AppSafe == AppInv => SessionsCounted
  BY DEF AppInv, AppTypes, AppEnds, AppCount, SessionsCounted, App!OffEndsItsSessions, App!SelectedIsCounted,
         Bound, Coming, EndsMa, EndsPlayer

\* When a toggle has run, no session is left that needs what it switched off,
\* and Music Assistant selected is Music Assistant counted, whatever was
\* connecting, prompting or being dropped meanwhile.
THEOREM SwitchedOffEnds == App!Spec => []SessionsCounted
  BY AppInit, AppNext, AppVars, AppSafe, PTL DEF App!Spec

-----------------------------------------------------------------------------
(* The session with a speaker (SendspinPlayer).                            *)

\* The times are numbers; what has been sent ends before what is sent next,
\* and once stream/end is out no thread is left to send.
PlayerTypes ==
    /\ yNow \in Nat /\ yWanted \in Nat /\ yLead \in Nat /\ yAnchor \in Int /\ yFrames \in Nat
    /\ ySentUpTo \in Int

PlayerAhead ==
    /\ yAudio = "starts" => ySentUpTo = 0 /\ yFrames = 0
    /\ yAudio = "runs" => ySentUpTo <= yAnchor + yFrames

PlayerJoined == yWire = "ended" => Player!AllJoined

PlayerInv == PlayerTypes /\ PlayerAhead /\ PlayerJoined

\* A lead is a number of chunks.
LEMMA Leads ==
  ASSUME NEW m \in MinBuffers PROVE Player!ComputeLead(m) \in Nat
  <1>1. MinBuffers \subseteq Nat \ {0} /\ Capacity \in Nat
    BY Bounds DEF Player!ConstantsOK
  <1>2. Player!Limit \in Int
    BY <1>1 DEF Player!Limit
  <1> QED BY <1>1, <1>2 DEF Player!ComputeLead

LEMMA PlayerInit == Player!Init => PlayerInv
  <1> SUFFICES ASSUME Player!Init PROVE PlayerInv
    OBVIOUS
  <1>1. yWanted \in Nat
    BY Leads DEF Player!Init
  <1>2. PlayerTypes
    BY <1>1 DEF Player!Init, PlayerTypes
  <1> QED BY <1>2 DEF Player!Init, PlayerAhead, PlayerJoined, PlayerInv

\* The timeline moves on, never back over what was sent.
LEMMA Timeline ==
  ASSUME PlayerInv, Player!Starts \/ Player!Chunk \/ Player!AudioStops
  PROVE  /\ PlayerTypes' /\ PlayerAhead'
         /\ ySentUpTo' # ySentUpTo => ySentUpTo' - 1 >= ySentUpTo
         /\ yWire # "ended"
  <1>0. /\ yNow \in Nat /\ yWanted \in Nat /\ yLead \in Nat /\ yAnchor \in Int /\ yFrames \in Nat
        /\ ySentUpTo \in Int
    BY DEF PlayerInv, PlayerTypes
  <1>1. CASE Player!Starts
    <2>1. PlayerTypes' /\ PlayerAhead' /\ ySentUpTo' = ySentUpTo
      BY <1>0, <1>1 DEF Player!Starts, PlayerInv, PlayerTypes, PlayerAhead
    <2>2. yWire # "ended"
      BY <1>1 DEF Player!Starts, PlayerInv, PlayerJoined, Player!AllJoined
    <2> QED BY <2>1, <2>2
  <1>2. CASE Player!Chunk
    <2> DEFINE later == Player!Later(yAnchor)
               lead == Player!Grown
    <2>1. later \in Int /\ later >= yAnchor /\ lead \in Nat
      BY <1>0 DEF Player!Later, Player!Grown
    <2>2. /\ yAudio = "runs" /\ ySentUpTo <= yAnchor + yFrames
          /\ yLead' = lead /\ yNow' = yNow /\ yWanted' = yWanted /\ yWire' = yWire
      BY <1>2 DEF Player!Chunk, PlayerInv, PlayerAhead
    <2>3. \/ /\ yNow - (later + yFrames - lead) > STALL
             /\ yAnchor' = yNow + lead /\ yFrames' = 0 /\ ySentUpTo' = ySentUpTo /\ yAudio' = yAudio
          \/ /\ yAnchor' = later /\ yFrames' = yFrames + 1 /\ ySentUpTo' = later + yFrames + 1
             /\ yAudio' = yAudio
          \/ yAnchor' = later /\ yFrames' = yFrames /\ ySentUpTo' = ySentUpTo /\ yAudio' = "ended"
      BY <1>2, <2>2 DEF Player!Chunk
    <2>4. yWire # "ended"
      BY <2>2 DEF PlayerInv, PlayerJoined, Player!AllJoined
    <2>5. STALL \in Nat
      BY Bounds DEF Player!ConstantsOK
    <2> HIDE DEF later, lead
    <2>6. PlayerTypes'
      BY <1>0, <2>1, <2>2, <2>3 DEF PlayerTypes
    <2>7. PlayerAhead' /\ (ySentUpTo' # ySentUpTo => ySentUpTo' - 1 >= ySentUpTo)
      BY <1>0, <2>1, <2>2, <2>3, <2>5 DEF PlayerAhead
    <2> QED BY <2>4, <2>6, <2>7
  <1>3. CASE Player!AudioStops
    <2>1. /\ yAudio = "runs" /\ ySentUpTo <= yAnchor + yFrames /\ yAudio' = "ended"
          /\ yNow' = yNow /\ yWanted' = yWanted /\ yWire' = yWire
      BY <1>3 DEF Player!AudioStops, PlayerInv, PlayerAhead
    <2>2. \/ UNCHANGED <<yFrames, yAnchor, yLead, ySentUpTo>>
          \/ yFrames' = yFrames + 1 /\ ySentUpTo' = yAnchor + yFrames + 1 /\ yAnchor' = yAnchor /\ yLead' = yLead
      BY <1>3 DEF Player!AudioStops
    <2>3. PlayerTypes'
      BY <1>0, <2>1, <2>2 DEF PlayerTypes
    <2>4. yWire # "ended"
      BY <2>1 DEF PlayerInv, PlayerJoined, Player!AllJoined
    <2> QED BY <1>0, <2>1, <2>2, <2>3, <2>4 DEF PlayerAhead
  <1> QED BY <1>1, <1>2, <1>3

\* Every other step leaves the timeline alone.
LEMMA Others ==
  ASSUME PlayerInv,
         \/ Player!Captured \/ Player!ClientState \/ Player!AnswersTime \/ Player!Goodbye \/ Player!Lost
         \/ Player!ControlStops \/ Player!Metadata \/ Player!StopBegins \/ Player!StreamEnds
         \/ Player!Closes \/ Player!Tick
  PROVE  /\ PlayerTypes' /\ PlayerAhead'
         /\ ySentUpTo' = ySentUpTo
  <1>0. PlayerTypes /\ PlayerAhead
    BY DEF PlayerInv
  <1>1. UNCHANGED <<yLead, yAnchor, yFrames, ySentUpTo, yAudio>>
    BY DEF Player!Captured, Player!ClientState, Player!AnswersTime, Player!Goodbye, Player!Lost,
           Player!ControlStops, Player!Metadata, Player!StopBegins, Player!StreamEnds, Player!Closes,
           Player!Tick, Player!timeline, Player!threads
  <1>2. yNow' \in Nat
    BY <1>0 DEF PlayerTypes, Player!Captured, Player!ClientState, Player!AnswersTime, Player!Goodbye,
       Player!Lost,
           Player!ControlStops, Player!Metadata, Player!StopBegins, Player!StreamEnds, Player!Closes,
           Player!Tick
  <1>3. yWanted' \in Nat
    <2>1. CASE Player!ClientState
      BY <2>1, Leads DEF Player!ClientState
    <2>2. CASE ~Player!ClientState
      BY <1>0, <2>2 DEF PlayerTypes, Player!Captured, Player!AnswersTime, Player!Goodbye, Player!Lost,
           Player!ControlStops, Player!Metadata, Player!StopBegins, Player!StreamEnds, Player!Closes,
           Player!Tick
    <2> QED BY <2>1, <2>2
  <1> QED BY <1>0, <1>1, <1>2, <1>3 DEF PlayerTypes, PlayerAhead

\* After the end no thread says anything: they have all been joined.
LEMMA Joined ==
  ASSUME PlayerInv, Player!Next
  PROVE  PlayerJoined' /\ (yWire = "ended" => ySaid' = ySaid)
  <1> USE DEF PlayerInv, PlayerJoined, Player!AllJoined
  <1>1. CASE Player!Starts \/ Player!Chunk \/ Player!AudioStops
    BY <1>1 DEF Player!Starts, Player!Chunk, Player!AudioStops, Player!flags
  <1>2. CASE Player!Captured \/ Player!ClientState \/ Player!AnswersTime \/ Player!Goodbye \/ Player!Lost
    BY <1>2 DEF Player!Captured, Player!ClientState, Player!AnswersTime, Player!Goodbye, Player!Lost,
                Player!threads
  <1>3. CASE Player!ControlStops \/ Player!Metadata \/ Player!StopBegins \/ Player!StreamEnds
             \/ Player!Closes \/ Player!Tick
    BY <1>3 DEF Player!ControlStops, Player!Metadata, Player!StopBegins, Player!StreamEnds,
                Player!Closes, Player!Tick, Player!threads
  <1> QED BY <1>1, <1>2, <1>3 DEF Player!Next

LEMMA PlayerNext ==
  PlayerInv /\ [Player!Next]_yVars =>
    /\ PlayerInv'
    /\ [ySentUpTo' # ySentUpTo => ySentUpTo' - 1 >= ySentUpTo]_(Player!vars)
    /\ [yWire = "ended" => ySentUpTo' = ySentUpTo /\ ySaid' = ySaid]_(Player!vars)
  <1> SUFFICES ASSUME PlayerInv, [Player!Next]_yVars PROVE
        /\ PlayerInv'
        /\ [ySentUpTo' # ySentUpTo => ySentUpTo' - 1 >= ySentUpTo]_(Player!vars)
        /\ [yWire = "ended" => ySentUpTo' = ySentUpTo /\ ySaid' = ySaid]_(Player!vars)
    OBVIOUS
  <1>1. CASE UNCHANGED yVars
    BY <1>1 DEF yVars, PlayerInv, PlayerTypes, PlayerAhead, PlayerJoined, Player!AllJoined
  <1>2. CASE Player!Starts \/ Player!Chunk \/ Player!AudioStops
    BY <1>2, Timeline, Joined DEF PlayerInv, Player!Next
  <1>3. CASE Player!Next /\ ~(Player!Starts \/ Player!Chunk \/ Player!AudioStops)
    BY <1>3, Others, Joined DEF PlayerInv, Player!Next
  <1> QED BY <1>1, <1>2, <1>3

LEMMA PlayerVars == [Player!Next]_(Player!vars) => [Player!Next]_yVars
  BY DEF Player!vars, yVars

\* However the speaker changes what it asks for and the thread stalls, no chunk
\* plays before the one sent before it has ended, and after stream/end nothing
\* is sent by any thread.
THEOREM TimelineHolds == Player!Spec => TimelineSound
  <1>1. PlayerInv /\ [Player!Next]_(Player!vars) => PlayerInv'
    BY PlayerNext, PlayerVars
  <1> QED BY <1>1, PlayerInit, PlayerNext, PlayerVars, PTL
      DEF Player!Spec, TimelineSound, Player!NeverOverlaps, Player!NothingAfterEnd

-----------------------------------------------------------------------------
(* Pairing (SendspinPairing).                                              *)

SrvWaits == {"awaitsInit", "awaitsAuth", "awaitsConfirm", "awaitsFinal"}
CliWaits == {"awaitsInit", "awaitsAuth", "awaitsConfirm", "awaitsFinal"}

Word == {"pair", "init", "auth", "abort", "confirm", "final", "activate", "hs1", "hs2", "time",
         "rekeyed", "rekeyFailed"}
Message == [t : Word, k : Nat]

PairQueues ==
    /\ pToClient \in Seq(Message) /\ pToServer \in Seq(Message) /\ pEvents \in Seq(Word)
    /\ pSrvKeys \in [send : Nat, recv : Nat] /\ pCliKeys \in [send : Nat, recv : Nat]

\* What a sender adds to the queue of the other end.
LEMMA SayOne ==
  ASSUME PairQueues, NEW w \in Word, Pair!ToServer(<<w>>)
  PROVE  pToServer' = IF pRekeying THEN pToServer ELSE Append(pToServer, [t |-> w, k |-> pCliKeys.send])
  <1>1. Pair!Say(<<w>>) = <<[t |-> w, k |-> pCliKeys.send]>>
    BY DEF Pair!Say
  <1>2. [t |-> w, k |-> pCliKeys.send] \in Message
    BY DEF PairQueues, Message
  <1> QED BY <1>1, <1>2, AppendIsConcat DEF Pair!ToServer, PairQueues

LEMMA SayTwo ==
  ASSUME PairQueues, NEW v \in Word, NEW w \in Word, Pair!ToServer(<<v, w>>)
  PROVE  pToServer' = IF pRekeying THEN pToServer
                      ELSE Append(Append(pToServer, [t |-> v, k |-> pCliKeys.send]),
                                  [t |-> w, k |-> pCliKeys.send])
  <1> DEFINE a == [t |-> v, k |-> pCliKeys.send]
             b == [t |-> w, k |-> pCliKeys.send]
  <1>1. Pair!Say(<<v, w>>) = <<a, b>>
    BY DEF Pair!Say
  <1>2. a \in Message /\ b \in Message /\ pToServer \in Seq(Message)
    BY DEF PairQueues, Message
  <1> HIDE DEF a, b
  <1>3. <<a, b>> = Append(<<a>>, b)
    BY <1>2
  <1>4. pToServer \o <<a, b>> = Append(Append(pToServer, a), b)
    BY <1>2, ConcatProperties
  <1> QED BY <1>1, <1>4 DEF Pair!ToServer, a, b

-----------------------------------------------------------------------------
(* What is on its way to the client: on the wire, or taken by its pump.     *)

Taken(m) == \E i \in DOMAIN pEvents : pEvents[i] = m
Sent(m) == \E i \in DOMAIN pToClient : pToClient[i].t = m
Due(m) == Taken(m) \/ Sent(m)
Said(m) == \E i \in DOMAIN pToServer : pToServer[i].t = m

\* At one place only.
Once(m) ==
    /\ \A i, j \in DOMAIN pEvents : pEvents[i] = m /\ pEvents[j] = m => i = j
    /\ \A i, j \in DOMAIN pToClient : pToClient[i].t = m /\ pToClient[j].t = m => i = j
    /\ ~(Taken(m) /\ Sent(m))

\* The server sends, once more or for the first time.
LEMMA Sends ==
  ASSUME pToClient \in Seq(Message), NEW w \in Word, NEW key \in Nat,
         pToClient' = Append(pToClient, [t |-> w, k |-> key]), pEvents' = pEvents
  PROVE  /\ pToClient' \in Seq(Message)
         /\ \A m \in Word : Due(m)' <=> Due(m) \/ m = w
         /\ \A m \in Word : Once(m) /\ (m = w => ~Due(m)) => Once(m)'
  <1> DEFINE e == [t |-> w, k |-> key]
  <1>1. e \in Message /\ e.t = w
    BY DEF Message
  <1> HIDE DEF e
  <1>2. /\ pToClient' \in Seq(Message) /\ Len(pToClient) \in Nat
        /\ DOMAIN pToClient = 1..Len(pToClient) /\ DOMAIN pToClient' = 1..(Len(pToClient) + 1)
        /\ \A i \in DOMAIN pToClient : pToClient'[i] = pToClient[i]
        /\ pToClient'[Len(pToClient) + 1] = e
    BY <1>1 DEF e
  <1>3. ASSUME NEW m \in Word PROVE Sent(m)' <=> Sent(m) \/ m = w
    BY <1>1, <1>2 DEF Sent
  <1>4. ASSUME NEW m \in Word, Once(m), m = w => ~Due(m) PROVE Once(m)'
    <2>1. ASSUME NEW i \in DOMAIN pToClient', NEW j \in DOMAIN pToClient',
                 pToClient'[i].t = m, pToClient'[j].t = m
          PROVE  i = j
      BY <1>1, <1>2, <1>4, <2>1 DEF Once, Due, Sent
    <2> QED BY <1>3, <1>4, <2>1 DEF Once, Due, Taken
  <1> QED BY <1>2, <1>3, <1>4 DEF Due, Taken

\* The pump takes a message off the wire.
LEMMA Reads ==
  ASSUME pToClient \in Seq(Message), pEvents \in Seq(Word), pToClient # <<>>,
         pToClient' = Tail(pToClient), pEvents' = Append(pEvents, Head(pToClient).t)
  PROVE  /\ pToClient' \in Seq(Message) /\ pEvents' \in Seq(Word)
         /\ \A m \in Word : Due(m)' => Due(m)
         /\ \A m \in Word : Once(m) => Once(m)'
  <1> DEFINE h == Head(pToClient).t
  <1>1. /\ h \in Word /\ h = pToClient[1].t /\ Len(pToClient) \in Nat /\ Len(pToClient) >= 1
        /\ pToClient' \in Seq(Message)
        /\ DOMAIN pToClient = 1..Len(pToClient) /\ DOMAIN pToClient' = 1..(Len(pToClient) - 1)
        /\ \A i \in DOMAIN pToClient' : pToClient'[i] = pToClient[i + 1]
    <2>1. /\ Head(pToClient) \in Message /\ Head(pToClient) = pToClient[1] /\ Len(pToClient) \in Nat
          /\ Len(pToClient) >= 1
      OBVIOUS
    <2>2. /\ pToClient' \in Seq(Message)
          /\ DOMAIN pToClient = 1..Len(pToClient) /\ DOMAIN pToClient' = 1..(Len(pToClient) - 1)
          /\ \A i \in DOMAIN pToClient' : pToClient'[i] = pToClient[i + 1]
      OBVIOUS
    <2> QED BY <2>1, <2>2 DEF Message
  <1> HIDE DEF h
  <1>2. /\ pEvents' \in Seq(Word) /\ Len(pEvents) \in Nat
        /\ DOMAIN pEvents = 1..Len(pEvents) /\ DOMAIN pEvents' = 1..(Len(pEvents) + 1)
        /\ \A i \in DOMAIN pEvents : pEvents'[i] = pEvents[i]
        /\ pEvents'[Len(pEvents) + 1] = h
    BY <1>1 DEF h
  <1>3. ASSUME NEW m \in Word PROVE (Taken(m)' => Taken(m) \/ m = h) /\ (Sent(m)' => Sent(m))
    BY <1>1, <1>2 DEF Taken, Sent
  <1>4. Sent(h)
    BY <1>1 DEF Sent
  <1>5. ASSUME NEW m \in Word, Once(m) PROVE Once(m)'
    <2>1. ASSUME NEW i \in DOMAIN pToClient', NEW j \in DOMAIN pToClient',
                 pToClient'[i].t = m, pToClient'[j].t = m
          PROVE  i = j
      <3>1. i + 1 = j + 1
        BY <1>1, <1>5, <2>1 DEF Once
      <3> QED BY <1>1, <3>1
    <2>2. ASSUME NEW i \in DOMAIN pEvents', NEW j \in DOMAIN pEvents', pEvents'[i] = m, pEvents'[j] = m
          PROVE  i = j
      <3>1. CASE m = h
        <4>1. ~Taken(m)
          BY <1>4, <1>5, <3>1 DEF Once
        <4> QED BY <1>2, <2>2, <4>1 DEF Taken
      <3>2. CASE m # h
        BY <1>2, <1>5, <2>2, <3>2 DEF Once
      <3> QED BY <3>1, <3>2
    <2>3. ~(Taken(m)' /\ Sent(m)')
      <3>1. CASE m = h
        <4>1. ASSUME NEW i \in DOMAIN pToClient', pToClient'[i].t = m PROVE FALSE
          <5>1. i + 1 = 1
            BY <1>1, <1>5, <3>1, <4>1 DEF Once
          <5> QED BY <1>1, <5>1
        <4> QED BY <4>1 DEF Sent
      <3>2. CASE m # h
        BY <1>3, <1>5, <3>2 DEF Once
      <3> QED BY <3>1, <3>2
    <2> QED BY <2>1, <2>2, <2>3 DEF Once
  <1> QED BY <1>1, <1>2, <1>3, <1>4, <1>5 DEF Due

\* The client's main thread takes an event.
LEMMA Takes ==
  ASSUME pEvents \in Seq(Word), pEvents # <<>>, pEvents' = Tail(pEvents), pToClient' = pToClient
  PROVE  /\ pEvents' \in Seq(Word) /\ Head(pEvents) \in Word /\ Due(Head(pEvents))
         /\ \A m \in Word : Due(m)' => Due(m)
         /\ \A m \in Word : Once(m) => Once(m)'
         /\ \A m \in Word : Once(m) /\ m = Head(pEvents) => ~Due(m)'
  <1>0. PICK h \in Word : h = Head(pEvents)
    OBVIOUS
  <1>1. /\ h \in Word /\ h = pEvents[1] /\ Len(pEvents) \in Nat /\ Len(pEvents) >= 1
        /\ pEvents' \in Seq(Word)
        /\ DOMAIN pEvents = 1..Len(pEvents) /\ DOMAIN pEvents' = 1..(Len(pEvents) - 1)
        /\ \A i \in DOMAIN pEvents' : pEvents'[i] = pEvents[i + 1]
    BY <1>0
  <1>2. Taken(h)
    BY <1>1 DEF Taken
  <1>3. ASSUME NEW m \in Word, Taken(m)' PROVE Taken(m)
    <2>1. PICK i \in DOMAIN pEvents' : pEvents'[i] = m
      BY <1>3 DEF Taken
    <2>2. i + 1 \in DOMAIN pEvents /\ pEvents[i + 1] = m
      BY <1>1, <2>1
    <2> QED BY <2>2 DEF Taken
  <1>4. ASSUME NEW m \in Word, Once(m) PROVE Once(m)'
    <2>1. ASSUME NEW i \in DOMAIN pEvents', NEW j \in DOMAIN pEvents', pEvents'[i] = m, pEvents'[j] = m
          PROVE  i = j
      <3>1. i + 1 = j + 1
        BY <1>1, <1>4, <2>1 DEF Once
      <3> QED BY <1>1, <3>1
    <2> QED BY <1>3, <1>4, <2>1 DEF Once, Sent
  <1>5. ASSUME Once(h) PROVE ~Due(h)'
    <2>1. ~Sent(h)'
      BY <1>2, <1>5 DEF Once, Sent
    <2>2. ASSUME NEW i \in DOMAIN pEvents', pEvents'[i] = h PROVE FALSE
      <3>1. i + 1 = 1
        BY <1>1, <1>5, <2>2 DEF Once
      <3> QED BY <1>1, <3>1
    <2> QED BY <2>1, <2>2 DEF Due, Taken
  <1> QED BY <1>0, <1>1, <1>2, <1>3, <1>4, <1>5 DEF Due, Sent

\* The wire is cleared, or its first message dropped, with what the pump says of it.
LEMMA Drops ==
  ASSUME pToClient \in Seq(Message), pEvents \in Seq(Word),
         pToClient' = <<>> \/ pToClient' = pToClient \/ (pToClient # <<>> /\ pToClient' = Tail(pToClient)),
         NEW w \in Word, pEvents' = pEvents \/ pEvents' = <<>> \/ pEvents' = Append(pEvents, w)
  PROVE  /\ pToClient' \in Seq(Message) /\ pEvents' \in Seq(Word)
         /\ \A m \in Word \ {w} : Due(m)' => Due(m)
         /\ \A m \in Word \ {w} : Once(m) => Once(m)'
  <1>1. pToClient' \in Seq(Message) /\ pEvents' \in Seq(Word)
    <2>1. /\ <<>> \in Seq(Message) /\ (pToClient # <<>> => Tail(pToClient) \in Seq(Message))
          /\ <<>> \in Seq(Word) /\ Append(pEvents, w) \in Seq(Word)
      OBVIOUS
    <2>2. pToClient' \in Seq(Message)
      BY <2>1, Zenon
    <2>3. pEvents' \in Seq(Word)
      BY <2>1, Zenon
    <2> QED BY <2>2, <2>3
  <1>2. ASSUME NEW m \in Word \ {w} PROVE (Sent(m)' => Sent(m)) /\ (Taken(m)' => Taken(m))
    <2>1. Sent(m)' => Sent(m)
      BY DEF Sent
    <2>2. ASSUME NEW i \in DOMAIN pEvents', pEvents'[i] = m PROVE i \in DOMAIN pEvents /\ pEvents[i] = m
      <3>1. CASE pEvents' = pEvents \/ pEvents' = <<>>
        BY <2>2, <3>1
      <3>2. CASE pEvents' = Append(pEvents, w)
        <4>1. i \in 1..(Len(pEvents) + 1) /\ Len(pEvents) \in Nat /\ pEvents'[Len(pEvents) + 1] = w
              /\ \A k \in 1..Len(pEvents) : pEvents'[k] = pEvents[k]
          BY <2>2, <3>2
        <4>2. i # Len(pEvents) + 1
          BY <2>2, <4>1
        <4> QED BY <2>2, <4>1, <4>2
      <3> QED BY <3>1, <3>2
    <2> QED BY <2>1, <2>2 DEF Taken
  <1>3. ASSUME NEW m \in Word \ {w}, Once(m) PROVE Once(m)'
    <2>1. ASSUME NEW i \in DOMAIN pToClient', NEW j \in DOMAIN pToClient',
                 pToClient'[i].t = m, pToClient'[j].t = m
          PROVE  i = j
      <3>1. CASE pToClient' = pToClient \/ pToClient' = <<>>
        BY <1>3, <2>1, <3>1 DEF Once
      <3>2. CASE pToClient # <<>> /\ pToClient' = Tail(pToClient)
        <4>1. /\ i \in 1..(Len(pToClient) - 1) /\ j \in 1..(Len(pToClient) - 1) /\ Len(pToClient) \in Nat
              /\ pToClient[i + 1].t = m /\ pToClient[j + 1].t = m
          BY <2>1, <3>2
        <4>2. i + 1 = j + 1
          BY <1>3, <4>1, SMTT(30) DEF Once
        <4> QED BY <4>1, <4>2
      <3> QED BY <3>1, <3>2
    <2>2. ASSUME NEW i \in DOMAIN pEvents', NEW j \in DOMAIN pEvents', pEvents'[i] = m, pEvents'[j] = m
          PROVE  i = j
      <3>1. CASE pEvents' = pEvents \/ pEvents' = <<>>
        BY <1>3, <2>2, <3>1 DEF Once
      <3>2. CASE pEvents' = Append(pEvents, w)
        <4>1. /\ i \in 1..(Len(pEvents) + 1) /\ j \in 1..(Len(pEvents) + 1)
              /\ Len(pEvents) \in Nat /\ pEvents'[Len(pEvents) + 1] = w
              /\ \A k \in 1..Len(pEvents) : pEvents'[k] = pEvents[k]
          BY <2>2, <3>2
        <4>2. i # Len(pEvents) + 1 /\ j # Len(pEvents) + 1
          BY <2>2, <4>1
        <4> QED BY <1>3, <2>2, <4>1, <4>2, SMTT(30) DEF Once
      <3> QED BY <3>1, <3>2
    <2> QED BY <1>2, <1>3, <2>1, <2>2 DEF Once
  <1> QED BY <1>1, <1>2, <1>3 DEF Due

-----------------------------------------------------------------------------
(* Who is paired with whom. *)

SrvEngaged == {"hello", "stored", "starts", "rekeys"} \cup SrvWaits

PairWho ==
    /\ pServerRec \in Nat
    /\ pSrv \in {"connected", "hello"} \cup SrvWaits => pHadRec = pServerRec
    /\ pInput # "none" => pPeer = "player"
    /\ pSrv \in {"stored", "starts", "rekeys"} \cup SrvWaits => pInput # "none"
    /\ pSrv = "hello" /\ pCategory = "LongTerm" => pPeer = "player"
    /\ Pair!NeverDowngraded

PairCounts ==
    /\ pServerRec \in Nat /\ pClientRec \in Nat /\ pKeysMade \in Nat /\ pNewKey \in Nat

\* Who is streamed to, kept by every step.
LEMMA WhoNext ==
  ASSUME PairWho, pNewKey \in Nat, Pair!Next PROVE PairWho'
  <1> USE DEF PairWho, Pair!NeverDowngraded, SrvWaits, Pair!stores, Pair!setup, Pair!client
  <1>1. CASE Pair!Connect
    BY <1>1 DEF Pair!Connect
  <1>2. CASE Pair!Legacy
    BY <1>2 DEF Pair!Legacy, Pair!LegacyPlays
  <1>3. CASE Pair!Handshake
    BY <1>3 DEF Pair!Handshake, Pair!Agreed, Pair!Referenced
  <1>4. CASE Pair!Hello
    BY <1>4 DEF Pair!Hello, Pair!MustPair, Pair!Referenced, Pair!ServerFails
  <1>5. CASE Pair!Skips
    BY <1>5 DEF Pair!Skips
  <1>6. CASE Pair!CodeAsked
    BY <1>6 DEF Pair!CodeAsked
  <1>7. CASE Pair!Confirms
    BY <1>7 DEF Pair!Confirms
  <1>8. CASE Pair!Confirmed
    BY <1>8 DEF Pair!Confirmed
  <1>9. CASE Pair!Aborted
    BY <1>9 DEF Pair!Aborted
  <1>10. CASE Pair!Stores
    BY <1>10 DEF Pair!Stores
  <1>11. CASE Pair!Acknowledges
    BY <1>11 DEF Pair!Acknowledges
  <1>12. CASE Pair!StartsRekey
    BY <1>12 DEF Pair!StartsRekey
  <1>13. CASE Pair!Rekeyed
    BY <1>13 DEF Pair!Rekeyed
  <1>14. CASE Pair!ServerTimesOut
    BY <1>14 DEF Pair!ServerTimesOut, Pair!ServerFails
  <1>15. CASE Pair!PumpReads
    BY <1>15 DEF Pair!PumpReads
  <1>16. CASE Pair!PumpResolves
    BY <1>16 DEF Pair!PumpResolves
  <1>17. CASE Pair!PumpSwitches
    BY <1>17 DEF Pair!PumpSwitches
  <1>18. CASE Pair!PairAsked
    BY <1>18 DEF Pair!PairAsked
  <1>19. CASE Pair!ShowsCode
    BY <1>19 DEF Pair!ShowsCode
  <1>20. CASE Pair!Shares
    BY <1>20 DEF Pair!Shares
  <1>21. CASE Pair!ClientConfirms
    BY <1>21 DEF Pair!ClientConfirms
  <1>22. CASE Pair!ClientStores
    BY <1>22 DEF Pair!ClientStores
  <1>23. CASE Pair!MainTakes
    BY <1>23 DEF Pair!MainTakes
  <1>24. CASE Pair!HelperLooks
    BY <1>24 DEF Pair!HelperLooks
  <1>25. CASE Pair!HelperSends
    BY <1>25 DEF Pair!HelperSends
  <1>26. CASE Pair!Lost
    BY <1>26 DEF Pair!Lost
  <1> QED BY <1>1, <1>2, <1>3, <1>4, <1>5, <1>6, <1>7, <1>8, <1>9, <1>10, <1>11, <1>12, <1>13, <1>14, <1>15,
             <1>16, <1>17, <1>18, <1>19, <1>20, <1>21, <1>22, <1>23, <1>24, <1>25, <1>26 DEF Pair!Next

LEMMA CountsNext ==
  ASSUME PairCounts, Pair!Next PROVE PairCounts'
  <1> USE DEF PairCounts, Pair!stores, Pair!client
  <1>1. CASE Pair!Connect
    BY <1>1 DEF Pair!Connect
  <1>2. CASE Pair!Legacy
    BY <1>2 DEF Pair!Legacy
  <1>3. CASE Pair!Handshake
    BY <1>3 DEF Pair!Handshake
  <1>4. CASE Pair!Hello
    BY <1>4 DEF Pair!Hello
  <1>5. CASE Pair!Skips
    BY <1>5 DEF Pair!Skips
  <1>6. CASE Pair!CodeAsked
    BY <1>6 DEF Pair!CodeAsked
  <1>7. CASE Pair!Confirms
    BY <1>7 DEF Pair!Confirms
  <1>8. CASE Pair!Confirmed
    BY <1>8 DEF Pair!Confirmed
  <1>9. CASE Pair!Aborted
    BY <1>9 DEF Pair!Aborted
  <1>10. CASE Pair!Stores
    BY <1>10 DEF Pair!Stores
  <1>11. CASE Pair!Acknowledges
    BY <1>11 DEF Pair!Acknowledges
  <1>12. CASE Pair!StartsRekey
    BY <1>12 DEF Pair!StartsRekey
  <1>13. CASE Pair!Rekeyed
    BY <1>13 DEF Pair!Rekeyed
  <1>14. CASE Pair!ServerTimesOut
    BY <1>14 DEF Pair!ServerTimesOut
  <1>15. CASE Pair!PumpReads
    BY <1>15 DEF Pair!PumpReads
  <1>16. CASE Pair!PumpResolves
    BY <1>16 DEF Pair!PumpResolves
  <1>17. CASE Pair!PumpSwitches
    BY <1>17 DEF Pair!PumpSwitches
  <1>18. CASE Pair!PairAsked
    BY <1>18 DEF Pair!PairAsked
  <1>19. CASE Pair!ShowsCode
    BY <1>19 DEF Pair!ShowsCode
  <1>20. CASE Pair!Shares
    BY <1>20 DEF Pair!Shares
  <1>21. CASE Pair!ClientConfirms
    BY <1>21 DEF Pair!ClientConfirms
  <1>22. CASE Pair!ClientStores
    BY <1>22 DEF Pair!ClientStores
  <1>23. CASE Pair!MainTakes
    BY <1>23 DEF Pair!MainTakes
  <1>24. CASE Pair!HelperLooks
    BY <1>24 DEF Pair!HelperLooks
  <1>25. CASE Pair!HelperSends
    BY <1>25 DEF Pair!HelperSends
  <1>26. CASE Pair!Lost
    BY <1>26 DEF Pair!Lost
  <1> QED BY <1>1, <1>2, <1>3, <1>4, <1>5, <1>6, <1>7, <1>8, <1>9, <1>10, <1>11, <1>12, <1>13, <1>14, <1>15,
             <1>16, <1>17, <1>18, <1>19, <1>20, <1>21, <1>22, <1>23, <1>24, <1>25, <1>26 DEF Pair!Next

-----------------------------------------------------------------------------
(* In which order things happen. *)

\* A client without a connection has nothing under way.
Disconnected ==
    /\ pCli \in {"idle", "handshake"} =>
         pEvents = <<>> /\ pToClient = <<>> /\ pToServer = <<>> /\ pHelper = "idle" /\ pPump = "off"
         /\ pCliCategory = "none"
    /\ pSrv = "connected" => pCli = "handshake"
    /\ pSrv \in SrvEngaged => pCli \notin {"idle", "handshake"}
    /\ pSrv = "hello" => pCli = "loop" /\ pPump = "reads" /\ pEvents = <<>> /\ pToClient = <<>> /\ ~Said("final")

\* Each request to pair, and each confirmation, is sent once.
OncePerConnection ==
    /\ Once("pair") /\ Once("confirm")
    /\ pCli \in CliWaits => ~Due("pair")
    /\ pSrv \in {"awaitsInit", "awaitsAuth"} => ~Due("confirm")
    /\ pCliCategory = "Pairing" => pInput = "token"
    /\ pInput = "token" => ~Due("confirm") /\ pSrv \notin {"awaitsInit", "awaitsAuth", "awaitsConfirm"}

\* From the client's last message on there is nothing more to ask of it.
PastAsking ==
    Said("final") \/ pSrv = "stored" \/ Due("final") =>
      ~Due("pair") /\ ~Due("confirm") /\ pSrv \notin {"hello", "awaitsInit", "awaitsAuth"}

\* The key of this attempt is the latest made, and what the server
\* acknowledges is stored.
RecordsOrdered ==
    /\ pNewKey \in {0, pKeysMade} /\ (Said("final") => pNewKey = pKeysMade)
    /\ pSrv = "stored" \/ Due("final") => pNewKey <= pServerRec
    /\ pClientRec <= pServerRec /\ pServerRec <= pKeysMade

PairOrder ==
    /\ PairQueues /\ PairCounts /\ Disconnected /\ OncePerConnection /\ PastAsking /\ RecordsOrdered

\* What the server takes and what the client says.
LEMMA Hears ==
  ASSUME pToServer \in Seq(Message), pToServer # <<>>, pToServer' = Tail(pToServer)
  PROVE  /\ pToServer' \in Seq(Message)
         /\ \A m \in Word : Said(m)' => Said(m)
         /\ Said(Head(pToServer).t)
  <1>1. /\ Len(pToServer) \in Nat /\ Len(pToServer) >= 1 /\ Head(pToServer) = pToServer[1]
        /\ pToServer' \in Seq(Message)
        /\ DOMAIN pToServer = 1..Len(pToServer) /\ DOMAIN pToServer' = 1..(Len(pToServer) - 1)
        /\ \A i \in DOMAIN pToServer' : pToServer'[i] = pToServer[i + 1]
    OBVIOUS
  <1>2. ASSUME NEW m \in Word, Said(m)' PROVE Said(m)
    <2>1. PICK i \in DOMAIN pToServer' : pToServer'[i].t = m
      BY <1>2 DEF Said
    <2>2. i + 1 \in DOMAIN pToServer /\ pToServer[i + 1].t = m
      BY <1>1, <2>1
    <2> QED BY <2>2 DEF Said
  <1>3. Said(Head(pToServer).t)
    BY <1>1 DEF Said
  <1> QED BY <1>1, <1>2, <1>3

LEMMA Says ==
  ASSUME pToServer \in Seq(Message), NEW w \in Word, NEW key \in Nat,
         pToServer' = Append(pToServer, [t |-> w, k |-> key])
  PROVE  /\ pToServer' \in Seq(Message)
         /\ \A m \in Word : Said(m)' => Said(m) \/ m = w
  <1> DEFINE e == [t |-> w, k |-> key]
  <1>1. e \in Message /\ e.t = w
    BY DEF Message
  <1> HIDE DEF e
  <1>2. /\ pToServer' \in Seq(Message) /\ Len(pToServer) \in Nat
        /\ DOMAIN pToServer = 1..Len(pToServer) /\ DOMAIN pToServer' = 1..(Len(pToServer) + 1)
        /\ \A i \in DOMAIN pToServer : pToServer'[i] = pToServer[i]
        /\ pToServer'[Len(pToServer) + 1] = e
    BY <1>1 DEF e
  <1> QED BY <1>1, <1>2 DEF Said

LEMMA SaysTwo ==
  ASSUME pToServer \in Seq(Message), NEW v \in Word, NEW w \in Word, NEW key \in Nat,
         pToServer' = Append(Append(pToServer, [t |-> v, k |-> key]), [t |-> w, k |-> key])
  PROVE  /\ pToServer' \in Seq(Message)
         /\ \A m \in Word : Said(m)' => Said(m) \/ m = v \/ m = w
  <1> DEFINE a == [t |-> v, k |-> key]
             b == [t |-> w, k |-> key]
             q == Append(pToServer, a)
  <1>1. a \in Message /\ a.t = v /\ b \in Message /\ b.t = w
    BY DEF Message
  <1> HIDE DEF a, b
  <1>2. /\ q \in Seq(Message) /\ Len(pToServer) \in Nat
        /\ DOMAIN pToServer = 1..Len(pToServer) /\ DOMAIN q = 1..(Len(pToServer) + 1)
        /\ \A i \in DOMAIN pToServer : q[i] = pToServer[i]
        /\ q[Len(pToServer) + 1] = a /\ Len(q) = Len(pToServer) + 1
    BY <1>1
  <1>3. pToServer' = Append(q, b)
    BY DEF a, b
  <1> HIDE DEF q
  <1>4. /\ pToServer' \in Seq(Message)
        /\ DOMAIN pToServer' = 1..(Len(q) + 1)
        /\ \A i \in DOMAIN q : pToServer'[i] = q[i]
        /\ pToServer'[Len(q) + 1] = b
    BY <1>1, <1>2, <1>3, SMTT(30)
  <1>5. ASSUME NEW m \in Word, Said(m)' PROVE Said(m) \/ m = v \/ m = w
    <2>1. PICK i \in DOMAIN pToServer' : pToServer'[i].t = m
      BY <1>5 DEF Said
    <2>2. CASE i \in DOMAIN pToServer
      <3>1. pToServer'[i] = pToServer[i]
        BY <1>2, <1>4, <2>2
      <3> QED BY <2>1, <2>2, <3>1 DEF Said
    <2>3. CASE i \notin DOMAIN pToServer
      BY <1>1, <1>2, <1>4, <2>1, <2>3
    <2> QED BY <2>2, <2>3
  <1> QED BY <1>4, <1>5

\* No message of these is more on its way than before.
Kept ==
    /\ pToClient' \in Seq(Message) /\ pEvents' \in Seq(Word)
    /\ (Due("pair")' => Due("pair")) /\ (Due("confirm")' => Due("confirm")) /\ (Due("final")' => Due("final"))
    /\ (Once("pair") => Once("pair")') /\ (Once("confirm") => Once("confirm")')

LEMMA KeptSame ==
  ASSUME PairQueues, UNCHANGED <<pToClient, pEvents>> PROVE Kept
  BY DEF PairQueues, Kept, Due, Sent, Taken, Once

LEMMA KeptSending ==
  ASSUME PairQueues, NEW w \in Word \ {"pair", "confirm", "final"}, NEW key \in Nat,
         pToClient' = Append(pToClient, [t |-> w, k |-> key]), pEvents' = pEvents
  PROVE  Kept
  <1>1. "pair" \in Word /\ "confirm" \in Word /\ "final" \in Word
    BY DEF Word
  <1>2. pToClient \in Seq(Message) /\ pEvents \in Seq(Word)
    BY DEF PairQueues
  <1> QED BY <1>1, <1>2, Sends DEF Kept

LEMMA KeptReading ==
  ASSUME PairQueues, pToClient # <<>>, pToClient' = Tail(pToClient),
         pEvents' = Append(pEvents, Head(pToClient).t)
  PROVE  Kept
  <1>1. "pair" \in Word /\ "confirm" \in Word /\ "final" \in Word
    BY DEF Word
  <1>2. pToClient \in Seq(Message) /\ pEvents \in Seq(Word)
    BY DEF PairQueues
  <1> QED BY <1>1, <1>2, Reads DEF Kept

LEMMA KeptTaking ==
  ASSUME PairQueues, pEvents # <<>>, pEvents' = Tail(pEvents), pToClient' = pToClient
  PROVE  /\ Kept
         /\ Head(pEvents) = "pair" => Due("pair") /\ (Once("pair") => ~Due("pair")')
         /\ Head(pEvents) = "confirm" => Due("confirm") /\ (Once("confirm") => ~Due("confirm")')
         /\ Head(pEvents) = "final" => Due("final")
  <1>1. "pair" \in Word /\ "confirm" \in Word /\ "final" \in Word
    BY DEF Word
  <1>2. pToClient \in Seq(Message) /\ pEvents \in Seq(Word)
    BY DEF PairQueues
  <1>3. Due(Head(pEvents))
    BY <1>2, Takes
  <1>4. Kept
    BY <1>1, <1>2, Takes DEF Kept
  <1>5. CASE Head(pEvents) = "pair"
    BY <1>1, <1>2, <1>3, <1>4, <1>5, Takes
  <1>6. CASE Head(pEvents) = "confirm"
    BY <1>1, <1>2, <1>3, <1>4, <1>6, Takes
  <1>7. CASE Head(pEvents) = "final"
    BY <1>1, <1>2, <1>3, <1>4, <1>7, Takes
  <1> QED BY <1>4, <1>5, <1>6, <1>7

LEMMA KeptDropping ==
  ASSUME PairQueues,
         pToClient' = <<>> \/ pToClient' = pToClient \/ (pToClient # <<>> /\ pToClient' = Tail(pToClient)),
         NEW w \in Word \ {"pair", "confirm", "final"},
         pEvents' = pEvents \/ pEvents' = <<>> \/ pEvents' = Append(pEvents, w)
  PROVE  Kept
  <1>1. "pair" \in Word /\ "confirm" \in Word /\ "final" \in Word
    BY DEF Word
  <1>2. pToClient \in Seq(Message) /\ pEvents \in Seq(Word)
    BY DEF PairQueues
  <1> QED BY <1>1, <1>2, Drops DEF Kept

LEMMA Appended ==
  ASSUME NEW S, NEW q \in Seq(S), NEW x \in S
  PROVE  /\ Append(q, x) \in Seq(S) /\ DOMAIN Append(q, x) = 1..(Len(q) + 1)
         /\ \A i \in DOMAIN q : Append(q, x)[i] = q[i]
         /\ Append(q, x)[Len(q) + 1] = x
  OBVIOUS

\* The server sends two messages at once.
LEMMA KeptSendingTwo ==
  ASSUME PairQueues, NEW v \in Word \ {"pair", "confirm", "final"},
         NEW w \in Word \ {"pair", "confirm", "final"},
         NEW key \in Nat,
         pToClient' = pToClient \o <<[t |-> v, k |-> key], [t |-> w, k |-> key]>>, pEvents' = pEvents
  PROVE  /\ Kept
         /\ pToClient' = Append(Append(pToClient, [t |-> v, k |-> key]), [t |-> w, k |-> key])
  <1> DEFINE a == [t |-> v, k |-> key]
             b == [t |-> w, k |-> key]
  <1>0. "pair" \in Word /\ "confirm" \in Word /\ "final" \in Word
    BY DEF Word
  <1>1. /\ a \in Message /\ a.t = v /\ b \in Message /\ b.t = w
        /\ pToClient \in Seq(Message) /\ pEvents \in Seq(Word)
    BY DEF Message, PairQueues
  <1> HIDE DEF a, b
  <1>2. pToClient' = pToClient \o <<a, b>>
    BY DEF a, b
  <1>3. pToClient' = Append(Append(pToClient, a), b)
    BY <1>1, <1>2, ConcatProperties
  <1>4. /\ pToClient' \in Seq(Message) /\ Len(pToClient) \in Nat
        /\ DOMAIN pToClient = 1..Len(pToClient) /\ DOMAIN pToClient' = 1..(Len(pToClient) + 2)
        /\ \A i \in DOMAIN pToClient : pToClient'[i] = pToClient[i]
        /\ pToClient'[Len(pToClient) + 1] = a /\ pToClient'[Len(pToClient) + 2] = b
    <2> DEFINE q == Append(pToClient, a)
    <2>1. /\ q \in Seq(Message) /\ Len(pToClient) \in Nat /\ Len(q) = Len(pToClient) + 1
          /\ DOMAIN pToClient = 1..Len(pToClient) /\ DOMAIN q = 1..(Len(pToClient) + 1)
          /\ \A i \in DOMAIN pToClient : q[i] = pToClient[i]
          /\ q[Len(pToClient) + 1] = a
      BY <1>1
    <2>2. pToClient' = Append(q, b)
      BY <1>3
    <2> HIDE DEF q
    <2>3. /\ pToClient' \in Seq(Message) /\ DOMAIN pToClient' = 1..(Len(q) + 1)
          /\ \A i \in DOMAIN q : pToClient'[i] = q[i]
          /\ pToClient'[Len(q) + 1] = b
      <3>1. q \in Seq(Message) /\ b \in Message
        BY <1>1, <2>1
      <3>2. /\ Append(q, b) \in Seq(Message) /\ DOMAIN Append(q, b) = 1..(Len(q) + 1)
            /\ \A i \in DOMAIN q : Append(q, b)[i] = q[i]
            /\ Append(q, b)[Len(q) + 1] = b
        BY <3>1, Appended, ZenonT(60)
      <3> QED BY <2>2, <3>2, Zenon
    <2>4. Len(pToClient) + 1 \in DOMAIN q /\ Len(q) + 1 = Len(pToClient) + 2
      BY <2>1
    <2>5. \A i \in DOMAIN pToClient : i \in DOMAIN q
      BY <2>1
    <2> QED BY <2>1, <2>3, <2>4, <2>5
  <1>5. ASSUME NEW i \in DOMAIN pToClient', pToClient'[i].t \in {"pair", "confirm", "final"}
        PROVE  i \in DOMAIN pToClient /\ pToClient'[i] = pToClient[i]
    <2>1. i # Len(pToClient) + 1 /\ i # Len(pToClient) + 2
      BY <1>1, <1>4, <1>5
    <2> QED BY <1>4, <2>1
  <1>6. ASSUME NEW m \in {"pair", "confirm", "final"} PROVE (Sent(m)' => Sent(m)) /\ (Taken(m)' => Taken(m))
    BY <1>5 DEF Sent, Taken
  <1>7. ASSUME NEW m \in {"pair", "confirm", "final"}, Once(m) PROVE Once(m)'
    <2>1. ASSUME NEW i \in DOMAIN pToClient', NEW j \in DOMAIN pToClient',
                 pToClient'[i].t = m, pToClient'[j].t = m
          PROVE  i = j
      BY <1>5, <1>7, <2>1 DEF Once
    <2> QED BY <1>6, <1>7, <2>1 DEF Once, Taken
  <1> QED BY <1>1, <1>3, <1>4, <1>6, <1>7 DEF Kept, Due, a, b

\* No step of the client or the server but its own has said the last message.
SaidKept == pToServer' \in Seq(Message) /\ (Said("final")' => Said("final"))

LEMMA SaidSame == ASSUME PairQueues, pToServer' = pToServer PROVE SaidKept
  BY DEF PairQueues, SaidKept, Said

LEMMA SaidNone == ASSUME pToServer' = <<>> PROVE SaidKept /\ ~Said("final")'
  BY DEF SaidKept, Said

LEMMA SaidHeard ==
  ASSUME PairQueues, pToServer # <<>>, pToServer' = Tail(pToServer)
  PROVE  SaidKept /\ (Head(pToServer).t = "final" => Said("final"))
  <1>1. "final" \in Word /\ pToServer \in Seq(Message)
    BY DEF Word, PairQueues
  <1>2. Said(Head(pToServer).t)
    BY <1>1, Hears
  <1>3. CASE Head(pToServer).t = "final"
    BY <1>1, <1>2, <1>3, Hears DEF SaidKept
  <1> QED BY <1>1, <1>3, Hears DEF SaidKept

LEMMA SaidOne ==
  ASSUME PairQueues, PairCounts, NEW w \in Word \ {"final"},
         \/ pToServer' = pToServer
         \/ pToServer' = Append(pToServer, [t |-> w, k |-> pCliKeys.send])
  PROVE  SaidKept
  <1>1. "final" \in Word /\ pToServer \in Seq(Message) /\ pCliKeys.send \in Nat
    BY DEF Word, PairQueues
  <1> QED BY <1>1, SaidSame, Says DEF SaidKept

\* No step of either end disturbs that order.
LEMMA ConnectOrder ==
  ASSUME PairOrder, Pair!Connect PROVE PairOrder'
  <1>0. PairQueues /\ PairCounts /\ Disconnected /\ OncePerConnection /\ PastAsking /\ RecordsOrdered
    BY DEF PairOrder
  <1>1. Kept
    BY <1>0, KeptSame DEF Pair!Connect, Pair!stores, Pair!setup, Pair!client
  <1>2. SaidKept
    BY <1>0, SaidSame DEF Pair!Connect, Pair!stores, Pair!setup, Pair!client
  <1>9. /\ pEvents' = <<>> /\ pToClient' = <<>> /\ pToServer' = <<>>
        /\ ~Due("pair")' /\ ~Due("confirm")' /\ ~Due("final")' /\ ~Said("final")'
    BY <1>0 DEF Disconnected, Due, Sent, Taken, Said, Pair!Connect
  <1>3. PairQueues'
    BY <1>0, <1>1, <1>2 DEF PairQueues, Kept, SaidKept, Pair!Connect, Pair!stores, Pair!setup, Pair!client
  <1>4. PairCounts'
    BY <1>0, CountsNext DEF Pair!Next
  <1>5. Disconnected'
    BY <1>0, <1>9, <1>1, <1>2 DEF Disconnected, SaidKept, SrvEngaged, SrvWaits, Pair!Connect, Pair!stores,
       Pair!setup, Pair!client
  <1>6. OncePerConnection'
    BY <1>0, <1>9, <1>1 DEF OncePerConnection, Disconnected, Kept, CliWaits, Pair!Connect, Pair!stores,
       Pair!setup, Pair!client
  <1>7. PastAsking'
    BY <1>0, <1>9, <1>1, <1>2 DEF PastAsking, Disconnected, Kept, SaidKept, Pair!Connect, Pair!stores,
       Pair!setup, Pair!client
  <1>8. RecordsOrdered'
    BY <1>0, <1>9, <1>1, <1>2, <1>4 DEF RecordsOrdered, PairCounts, Kept, SaidKept, Pair!Connect,
       Pair!stores, Pair!setup, Pair!client
  <1> QED BY <1>3, <1>4, <1>5, <1>6, <1>7, <1>8 DEF PairOrder

LEMMA LegacyOrder ==
  ASSUME PairOrder, Pair!Legacy PROVE PairOrder'
  <1>0. PairQueues /\ PairCounts /\ Disconnected /\ OncePerConnection /\ PastAsking /\ RecordsOrdered
    BY DEF PairOrder
  <1>1. Kept
    BY <1>0, KeptSame DEF Pair!Legacy, Pair!stores, Pair!setup, Pair!client
  <1>2. SaidKept
    BY <1>0, SaidSame DEF Pair!Legacy, Pair!stores, Pair!setup, Pair!client
  <1>3. PairQueues'
    BY <1>0, <1>1, <1>2 DEF PairQueues, Kept, SaidKept, Pair!Legacy, Pair!stores, Pair!setup, Pair!client
  <1>4. PairCounts'
    BY <1>0, CountsNext DEF Pair!Next
  <1>5. Disconnected'
    BY <1>0, <1>1, <1>2 DEF Disconnected, SaidKept, SrvEngaged, SrvWaits, Pair!Legacy, Pair!LegacyPlays,
       Pair!stores, Pair!setup, Pair!client
  <1>6. OncePerConnection'
    BY <1>0, <1>1 DEF OncePerConnection, Disconnected, Kept, CliWaits, Pair!Legacy, Pair!LegacyPlays,
       Pair!stores, Pair!setup, Pair!client
  <1>7. PastAsking'
    BY <1>0, <1>1, <1>2 DEF PastAsking, Disconnected, Kept, SaidKept, Pair!Legacy, Pair!LegacyPlays,
       Pair!stores, Pair!setup, Pair!client
  <1>8. RecordsOrdered'
    BY <1>0, <1>1, <1>2, <1>4 DEF RecordsOrdered, PairCounts, Kept, SaidKept, Pair!Legacy, Pair!LegacyPlays,
       Pair!stores, Pair!setup, Pair!client
  <1> QED BY <1>3, <1>4, <1>5, <1>6, <1>7, <1>8 DEF PairOrder

LEMMA HandshakeOrder ==
  ASSUME PairOrder, Pair!Handshake PROVE PairOrder'
  <1>0. PairQueues /\ PairCounts /\ Disconnected /\ OncePerConnection /\ PastAsking /\ RecordsOrdered
    BY DEF PairOrder
  <1>1. Kept
    <2>1. "rekeyFailed" \in Word \ {"pair", "confirm", "final"}
      BY DEF Word
    <2> QED BY <1>0, <2>1, KeptDropping DEF Pair!Handshake
  <1>2. SaidKept
    BY <1>0, SaidSame DEF Pair!Handshake, Pair!stores, Pair!setup, Pair!client
  <1>9. /\ pEvents' = <<>> /\ pToClient' = <<>> /\ pToServer' = <<>>
        /\ ~Due("pair")' /\ ~Due("confirm")' /\ ~Due("final")' /\ ~Said("final")'
    BY <1>0 DEF Disconnected, Due, Sent, Taken, Said, Pair!Handshake
  <1>3. PairQueues'
    BY <1>0, <1>1, <1>2 DEF PairQueues, Kept, SaidKept, Pair!Handshake, Pair!stores, Pair!setup, Pair!client
  <1>4. PairCounts'
    BY <1>0, CountsNext DEF Pair!Next
  <1>5. Disconnected'
    BY <1>0, <1>9, <1>1, <1>2 DEF Disconnected, SaidKept, SrvEngaged, SrvWaits, Pair!Handshake, Pair!stores,
       Pair!setup, Pair!client
  <1>6. OncePerConnection'
    BY <1>0, <1>9, <1>1 DEF OncePerConnection, Disconnected, Kept, CliWaits, Pair!Handshake, Pair!stores,
       Pair!setup, Pair!client, Pair!Agreed, Pair!Referenced
  <1>7. PastAsking'
    BY <1>0, <1>9, <1>1, <1>2 DEF PastAsking, Disconnected, Kept, SaidKept, Pair!Handshake, Pair!stores,
       Pair!setup, Pair!client
  <1>8. RecordsOrdered'
    BY <1>0, <1>9, <1>1, <1>2, <1>4 DEF RecordsOrdered, PairCounts, Kept, SaidKept, Pair!Handshake,
       Pair!stores, Pair!setup, Pair!client
  <1> QED BY <1>3, <1>4, <1>5, <1>6, <1>7, <1>8 DEF PairOrder

LEMMA SkipsOrder ==
  ASSUME PairOrder, Pair!Skips PROVE PairOrder'
  <1>0. PairQueues /\ PairCounts /\ Disconnected /\ OncePerConnection /\ PastAsking /\ RecordsOrdered
    BY DEF PairOrder
  <1>1. Kept
    BY <1>0, KeptSame DEF Pair!Skips, Pair!stores, Pair!setup, Pair!client
  <1>2. SaidKept
    BY <1>0, SaidHeard DEF Pair!Skips, Pair!stores, Pair!setup, Pair!client
  <1>3. PairQueues'
    BY <1>0, <1>1, <1>2 DEF PairQueues, Kept, SaidKept, Pair!Skips, Pair!stores, Pair!setup, Pair!client
  <1>4. PairCounts'
    BY <1>0, CountsNext DEF Pair!Next
  <1>5. Disconnected'
    BY <1>0, <1>1, <1>2 DEF Disconnected, SaidKept, SrvEngaged, SrvWaits, Pair!Skips, Pair!stores,
       Pair!setup, Pair!client
  <1>6. OncePerConnection'
    BY <1>0, <1>1 DEF OncePerConnection, Disconnected, Kept, CliWaits, Pair!Skips, Pair!stores, Pair!setup,
       Pair!client
  <1>7. PastAsking'
    BY <1>0, <1>1, <1>2 DEF PastAsking, Disconnected, Kept, SaidKept, Pair!Skips, Pair!stores, Pair!setup,
       Pair!client
  <1>8. RecordsOrdered'
    BY <1>0, <1>1, <1>2, <1>4 DEF RecordsOrdered, PairCounts, Kept, SaidKept, Pair!Skips, Pair!stores,
       Pair!setup, Pair!client
  <1> QED BY <1>3, <1>4, <1>5, <1>6, <1>7, <1>8 DEF PairOrder

LEMMA ConfirmedOrder ==
  ASSUME PairOrder, Pair!Confirmed PROVE PairOrder'
  <1>0. PairQueues /\ PairCounts /\ Disconnected /\ OncePerConnection /\ PastAsking /\ RecordsOrdered
    BY DEF PairOrder
  <1>1. Kept
    BY <1>0, KeptSame DEF Pair!Confirmed, Pair!stores, Pair!setup, Pair!client
  <1>2. SaidKept
    BY <1>0, SaidHeard DEF Pair!Confirmed, Pair!Takes, Pair!stores, Pair!setup, Pair!client
  <1>3. PairQueues'
    BY <1>0, <1>1, <1>2 DEF PairQueues, Kept, SaidKept, Pair!Confirmed, Pair!stores, Pair!setup, Pair!client
  <1>4. PairCounts'
    BY <1>0, CountsNext DEF Pair!Next
  <1>5. Disconnected'
    BY <1>0, <1>1, <1>2 DEF Disconnected, SaidKept, SrvEngaged, SrvWaits, Pair!Confirmed, Pair!Takes,
       Pair!stores, Pair!setup, Pair!client
  <1>6. OncePerConnection'
    BY <1>0, <1>1 DEF OncePerConnection, Disconnected, Kept, CliWaits, Pair!Confirmed, Pair!Takes,
       Pair!stores, Pair!setup, Pair!client
  <1>7. PastAsking'
    BY <1>0, <1>1, <1>2 DEF PastAsking, Disconnected, Kept, SaidKept, Pair!Confirmed, Pair!Takes,
       Pair!stores, Pair!setup, Pair!client
  <1>8. RecordsOrdered'
    BY <1>0, <1>1, <1>2, <1>4 DEF RecordsOrdered, PairCounts, Kept, SaidKept, Pair!Confirmed, Pair!Takes,
       Pair!stores, Pair!setup, Pair!client
  <1> QED BY <1>3, <1>4, <1>5, <1>6, <1>7, <1>8 DEF PairOrder

LEMMA AbortedOrder ==
  ASSUME PairOrder, Pair!Aborted PROVE PairOrder'
  <1>0. PairQueues /\ PairCounts /\ Disconnected /\ OncePerConnection /\ PastAsking /\ RecordsOrdered
    BY DEF PairOrder
  <1>1. Kept
    BY <1>0, KeptSame DEF Pair!Aborted, Pair!stores, Pair!setup, Pair!client
  <1>2. SaidKept
    BY <1>0, SaidHeard DEF Pair!Aborted, Pair!Takes, Pair!stores, Pair!setup, Pair!client
  <1>3. PairQueues'
    BY <1>0, <1>1, <1>2 DEF PairQueues, Kept, SaidKept, Pair!Aborted, Pair!stores, Pair!setup, Pair!client
  <1>4. PairCounts'
    BY <1>0, CountsNext DEF Pair!Next
  <1>5. Disconnected'
    BY <1>0, <1>1, <1>2 DEF Disconnected, SaidKept, SrvEngaged, SrvWaits, Pair!Aborted, Pair!Takes,
       Pair!stores, Pair!setup, Pair!client
  <1>6. OncePerConnection'
    BY <1>0, <1>1 DEF OncePerConnection, Disconnected, Kept, CliWaits, Pair!Aborted, Pair!Takes, Pair!stores,
       Pair!setup, Pair!client
  <1>7. PastAsking'
    BY <1>0, <1>1, <1>2 DEF PastAsking, Disconnected, Kept, SaidKept, Pair!Aborted, Pair!Takes, Pair!stores,
       Pair!setup, Pair!client
  <1>8. RecordsOrdered'
    BY <1>0, <1>1, <1>2, <1>4 DEF RecordsOrdered, PairCounts, Kept, SaidKept, Pair!Aborted, Pair!Takes,
       Pair!stores, Pair!setup, Pair!client
  <1> QED BY <1>3, <1>4, <1>5, <1>6, <1>7, <1>8 DEF PairOrder

LEMMA StoresOrder ==
  ASSUME PairOrder, Pair!Stores PROVE PairOrder'
  <1>0. PairQueues /\ PairCounts /\ Disconnected /\ OncePerConnection /\ PastAsking /\ RecordsOrdered
    BY DEF PairOrder
  <1>1. Kept
    BY <1>0, KeptSame DEF Pair!Stores, Pair!stores, Pair!setup, Pair!client
  <1>2. SaidKept
    BY <1>0, SaidHeard DEF Pair!Stores, Pair!Takes, Pair!stores, Pair!setup, Pair!client
  <1>9. Said("final")
    BY <1>0, SaidHeard DEF Pair!Stores, Pair!Takes
  <1>3. PairQueues'
    BY <1>0, <1>1, <1>2 DEF PairQueues, Kept, SaidKept, Pair!Stores, Pair!stores, Pair!setup, Pair!client
  <1>4. PairCounts'
    BY <1>0, CountsNext DEF Pair!Next
  <1>5. Disconnected'
    BY <1>0, <1>9, <1>1, <1>2 DEF Disconnected, SaidKept, SrvEngaged, SrvWaits, Pair!Stores, Pair!Takes,
       Pair!stores, Pair!setup, Pair!client
  <1>6. OncePerConnection'
    BY <1>0, <1>9, <1>1 DEF OncePerConnection, Disconnected, Kept, CliWaits, Pair!Stores, Pair!Takes,
       Pair!stores, Pair!setup, Pair!client
  <1>7. PastAsking'
    BY <1>0, <1>9, <1>1, <1>2 DEF PastAsking, Disconnected, Kept, SaidKept, Pair!Stores, Pair!Takes,
       Pair!stores, Pair!setup, Pair!client
  <1>8. RecordsOrdered'
    BY <1>0, <1>9, <1>1, <1>2, <1>4 DEF RecordsOrdered, PairCounts, Kept, SaidKept, Pair!Stores, Pair!Takes,
       Pair!stores, Pair!setup, Pair!client
  <1> QED BY <1>3, <1>4, <1>5, <1>6, <1>7, <1>8 DEF PairOrder

LEMMA StartsRekeyOrder ==
  ASSUME PairOrder, Pair!StartsRekey PROVE PairOrder'
  <1>0. PairQueues /\ PairCounts /\ Disconnected /\ OncePerConnection /\ PastAsking /\ RecordsOrdered
    BY DEF PairOrder
  <1>1. Kept
    <2>1. "hs1" \in Word \ {"pair", "confirm", "final"} /\ pSrvKeys.send \in Nat
      BY <1>0 DEF Word, PairQueues
    <2>2. pToClient' = Append(pToClient, [t |-> "hs1", k |-> pSrvKeys.send]) /\ pEvents' = pEvents
      BY DEF Pair!StartsRekey, Pair!ToClient, Pair!stores, Pair!setup, Pair!client
    <2> QED BY <1>0, <2>1, <2>2, KeptSending
  <1>2. SaidKept
    BY <1>0, SaidSame DEF Pair!StartsRekey, Pair!stores, Pair!setup, Pair!client
  <1>3. PairQueues'
    BY <1>0, <1>1, <1>2 DEF PairQueues, Kept, SaidKept, Pair!StartsRekey, Pair!stores, Pair!setup, Pair!client
  <1>4. PairCounts'
    BY <1>0, CountsNext DEF Pair!Next
  <1>5. Disconnected'
    BY <1>0, <1>1, <1>2 DEF Disconnected, SaidKept, SrvEngaged, SrvWaits, Pair!StartsRekey, Pair!stores,
       Pair!setup, Pair!client
  <1>6. OncePerConnection'
    BY <1>0, <1>1 DEF OncePerConnection, Disconnected, Kept, CliWaits, Pair!StartsRekey, Pair!stores,
       Pair!setup, Pair!client
  <1>7. PastAsking'
    BY <1>0, <1>1, <1>2 DEF PastAsking, Disconnected, Kept, SaidKept, Pair!StartsRekey, Pair!stores,
       Pair!setup, Pair!client
  <1>8. RecordsOrdered'
    BY <1>0, <1>1, <1>2, <1>4 DEF RecordsOrdered, PairCounts, Kept, SaidKept, Pair!StartsRekey, Pair!stores,
       Pair!setup, Pair!client
  <1> QED BY <1>3, <1>4, <1>5, <1>6, <1>7, <1>8 DEF PairOrder

LEMMA RekeyedOrder ==
  ASSUME PairOrder, Pair!Rekeyed PROVE PairOrder'
  <1>0. PairQueues /\ PairCounts /\ Disconnected /\ OncePerConnection /\ PastAsking /\ RecordsOrdered
    BY DEF PairOrder
  <1>1. Kept
    <2>1. "activate" \in Word \ {"pair", "confirm", "final"}
      BY DEF Word
    <2> QED BY <1>0, <2>1, KeptSending DEF Pair!Rekeyed, Pair!stores, Pair!setup, Pair!client
  <1>2. SaidKept
    BY <1>0, SaidHeard DEF Pair!Rekeyed, Pair!Takes, Pair!stores, Pair!setup, Pair!client
  <1>3. PairQueues'
    BY <1>0, <1>1, <1>2 DEF PairQueues, Kept, SaidKept, Pair!Rekeyed, Pair!stores, Pair!setup, Pair!client
  <1>4. PairCounts'
    BY <1>0, CountsNext DEF Pair!Next
  <1>5. Disconnected'
    BY <1>0, <1>1, <1>2 DEF Disconnected, SaidKept, SrvEngaged, SrvWaits, Pair!Rekeyed, Pair!Takes,
       Pair!stores, Pair!setup, Pair!client
  <1>6. OncePerConnection'
    BY <1>0, <1>1 DEF OncePerConnection, Disconnected, Kept, CliWaits, Pair!Rekeyed, Pair!Takes, Pair!stores,
       Pair!setup, Pair!client
  <1>7. PastAsking'
    BY <1>0, <1>1, <1>2 DEF PastAsking, Disconnected, Kept, SaidKept, Pair!Rekeyed, Pair!Takes, Pair!stores,
       Pair!setup, Pair!client
  <1>8. RecordsOrdered'
    BY <1>0, <1>1, <1>2, <1>4 DEF RecordsOrdered, PairCounts, Kept, SaidKept, Pair!Rekeyed, Pair!Takes,
       Pair!stores, Pair!setup, Pair!client
  <1> QED BY <1>3, <1>4, <1>5, <1>6, <1>7, <1>8 DEF PairOrder

LEMMA ServerTimesOutOrder ==
  ASSUME PairOrder, Pair!ServerTimesOut PROVE PairOrder'
  <1>0. PairQueues /\ PairCounts /\ Disconnected /\ OncePerConnection /\ PastAsking /\ RecordsOrdered
    BY DEF PairOrder
  <1>1. Kept
    <2>1. "rekeyFailed" \in Word \ {"pair", "confirm", "final"}
      BY DEF Word
    <2> QED BY <1>0, <2>1, KeptDropping DEF Pair!ServerTimesOut, Pair!ServerFails, Pair!stores, Pair!setup,
               Pair!client
  <1>2. SaidKept
    BY SaidNone DEF Pair!ServerTimesOut, Pair!ServerFails
  <1>3. PairQueues'
    BY <1>0, <1>1, <1>2 DEF PairQueues, Kept, SaidKept, Pair!ServerTimesOut, Pair!stores, Pair!setup,
       Pair!client
  <1>4. PairCounts'
    BY <1>0, CountsNext DEF Pair!Next
  <1>5. Disconnected'
    BY <1>0, <1>1, <1>2 DEF Disconnected, SaidKept, SrvEngaged, SrvWaits, Pair!ServerTimesOut,
       Pair!ServerFails, Pair!stores, Pair!setup, Pair!client
  <1>6. OncePerConnection'
    BY <1>0, <1>1 DEF OncePerConnection, Disconnected, Kept, CliWaits, Pair!ServerTimesOut, Pair!ServerFails,
       Pair!stores, Pair!setup, Pair!client
  <1>7. PastAsking'
    BY <1>0, <1>1, <1>2 DEF PastAsking, Disconnected, Kept, SaidKept, Pair!ServerTimesOut, Pair!ServerFails,
       Pair!stores, Pair!setup, Pair!client
  <1>8. RecordsOrdered'
    BY <1>0, <1>1, <1>2, <1>4 DEF RecordsOrdered, PairCounts, Kept, SaidKept, Pair!ServerTimesOut,
       Pair!ServerFails, Pair!stores, Pair!setup, Pair!client
  <1> QED BY <1>3, <1>4, <1>5, <1>6, <1>7, <1>8 DEF PairOrder

LEMMA PumpReadsOrder ==
  ASSUME PairOrder, Pair!PumpReads PROVE PairOrder'
  <1>0. PairQueues /\ PairCounts /\ Disconnected /\ OncePerConnection /\ PastAsking /\ RecordsOrdered
    BY DEF PairOrder
  <1>1. Kept
    BY <1>0, KeptReading DEF Pair!PumpReads, Pair!Readable
  <1>2. SaidKept
    BY <1>0, SaidSame DEF Pair!PumpReads, Pair!stores, Pair!setup, Pair!client
  <1>3. PairQueues'
    BY <1>0, <1>1, <1>2 DEF PairQueues, Kept, SaidKept, Pair!PumpReads, Pair!stores, Pair!setup, Pair!client
  <1>4. PairCounts'
    BY <1>0, CountsNext DEF Pair!Next
  <1>5. Disconnected'
    BY <1>0, <1>1, <1>2 DEF Disconnected, SaidKept, SrvEngaged, SrvWaits, Pair!PumpReads, Pair!Readable,
       Pair!stores, Pair!setup, Pair!client
  <1>6. OncePerConnection'
    BY <1>0, <1>1 DEF OncePerConnection, Disconnected, Kept, CliWaits, Pair!PumpReads, Pair!Readable,
       Pair!stores, Pair!setup, Pair!client
  <1>7. PastAsking'
    BY <1>0, <1>1, <1>2 DEF PastAsking, Disconnected, Kept, SaidKept, Pair!PumpReads, Pair!Readable,
       Pair!stores, Pair!setup, Pair!client
  <1>8. RecordsOrdered'
    BY <1>0, <1>1, <1>2, <1>4 DEF RecordsOrdered, PairCounts, Kept, SaidKept, Pair!PumpReads, Pair!Readable,
       Pair!stores, Pair!setup, Pair!client
  <1> QED BY <1>3, <1>4, <1>5, <1>6, <1>7, <1>8 DEF PairOrder

LEMMA PumpResolvesOrder ==
  ASSUME PairOrder, Pair!PumpResolves PROVE PairOrder'
  <1>0. PairQueues /\ PairCounts /\ Disconnected /\ OncePerConnection /\ PastAsking /\ RecordsOrdered
    BY DEF PairOrder
  <1>1. Kept
    <2>1. "rekeyFailed" \in Word \ {"pair", "confirm", "final"}
      BY DEF Word
    <2> QED BY <1>0, <2>1, KeptDropping DEF Pair!PumpResolves, Pair!Readable
  <1>2. SaidKept
    BY <1>0, SaidSame DEF Pair!PumpResolves, Pair!stores, Pair!setup, Pair!client
  <1>3. PairQueues'
    BY <1>0, <1>1, <1>2 DEF PairQueues, Kept, SaidKept, Pair!PumpResolves, Pair!stores, Pair!setup,
       Pair!client
  <1>4. PairCounts'
    BY <1>0, CountsNext DEF Pair!Next
  <1>5. Disconnected'
    BY <1>0, <1>1, <1>2 DEF Disconnected, SaidKept, SrvEngaged, SrvWaits, Pair!PumpResolves, Pair!Readable,
       Pair!stores, Pair!setup, Pair!client
  <1>6. OncePerConnection'
    BY <1>0, <1>1 DEF OncePerConnection, Disconnected, Kept, CliWaits, Pair!PumpResolves, Pair!Readable,
       Pair!stores, Pair!setup, Pair!client
  <1>7. PastAsking'
    BY <1>0, <1>1, <1>2 DEF PastAsking, Disconnected, Kept, SaidKept, Pair!PumpResolves, Pair!Readable,
       Pair!stores, Pair!setup, Pair!client
  <1>8. RecordsOrdered'
    BY <1>0, <1>1, <1>2, <1>4 DEF RecordsOrdered, PairCounts, Kept, SaidKept, Pair!PumpResolves,
       Pair!Readable, Pair!stores, Pair!setup, Pair!client
  <1> QED BY <1>3, <1>4, <1>5, <1>6, <1>7, <1>8 DEF PairOrder

LEMMA PumpSwitchesOrder ==
  ASSUME PairOrder, Pair!PumpSwitches PROVE PairOrder'
  <1>0. PairQueues /\ PairCounts /\ Disconnected /\ OncePerConnection /\ PastAsking /\ RecordsOrdered
    BY DEF PairOrder
  <1>1. Kept
    <2>1. "rekeyed" \in Word \ {"pair", "confirm", "final"}
      BY DEF Word
    <2> QED BY <1>0, <2>1, KeptDropping DEF Pair!PumpSwitches
  <1>2. SaidKept
    <2>1. "hs2" \in Word \ {"final"}
      BY DEF Word
    <2> QED BY <1>0, <2>1, SaidOne DEF Pair!PumpSwitches, Pair!Answer2
  <1>3. PairQueues'
    BY <1>0, <1>1, <1>2 DEF PairQueues, Kept, SaidKept, Pair!PumpSwitches, Pair!stores, Pair!setup,
       Pair!client
  <1>4. PairCounts'
    BY <1>0, CountsNext DEF Pair!Next
  <1>5. Disconnected'
    BY <1>0, <1>1, <1>2 DEF Disconnected, SaidKept, SrvEngaged, SrvWaits, Pair!PumpSwitches, Pair!stores,
       Pair!setup, Pair!client
  <1>6. OncePerConnection'
    BY <1>0, <1>1 DEF OncePerConnection, Disconnected, Kept, CliWaits, Pair!PumpSwitches, Pair!stores,
       Pair!setup, Pair!client
  <1>7. PastAsking'
    BY <1>0, <1>1, <1>2 DEF PastAsking, Disconnected, Kept, SaidKept, Pair!PumpSwitches, Pair!stores,
       Pair!setup, Pair!client
  <1>8. RecordsOrdered'
    BY <1>0, <1>1, <1>2, <1>4 DEF RecordsOrdered, PairCounts, Kept, SaidKept, Pair!PumpSwitches, Pair!stores,
       Pair!setup, Pair!client
  <1> QED BY <1>3, <1>4, <1>5, <1>6, <1>7, <1>8 DEF PairOrder

LEMMA ShowsCodeOrder ==
  ASSUME PairOrder, Pair!ShowsCode PROVE PairOrder'
  <1>0. PairQueues /\ PairCounts /\ Disconnected /\ OncePerConnection /\ PastAsking /\ RecordsOrdered
    BY DEF PairOrder
  <1>1. Kept
    BY <1>0, KeptTaking DEF Pair!ShowsCode, Pair!Event, Pair!stores, Pair!setup, Pair!client
  <1>2. SaidKept
    BY <1>0, SaidSame DEF Pair!ShowsCode, Pair!stores, Pair!setup, Pair!client
  <1>3. PairQueues'
    BY <1>0, <1>1, <1>2 DEF PairQueues, Kept, SaidKept, Pair!ShowsCode, Pair!stores, Pair!setup, Pair!client
  <1>4. PairCounts'
    BY <1>0, CountsNext DEF Pair!Next
  <1>5. Disconnected'
    BY <1>0, <1>1, <1>2 DEF Disconnected, SaidKept, SrvEngaged, SrvWaits, Pair!ShowsCode, Pair!Event,
       Pair!stores, Pair!setup, Pair!client
  <1>6. OncePerConnection'
    BY <1>0, <1>1 DEF OncePerConnection, Disconnected, Kept, CliWaits, Pair!ShowsCode, Pair!Event,
       Pair!stores, Pair!setup, Pair!client
  <1>7. PastAsking'
    BY <1>0, <1>1, <1>2 DEF PastAsking, Disconnected, Kept, SaidKept, Pair!ShowsCode, Pair!Event,
       Pair!stores, Pair!setup, Pair!client
  <1>8. RecordsOrdered'
    BY <1>0, <1>1, <1>2, <1>4 DEF RecordsOrdered, PairCounts, Kept, SaidKept, Pair!ShowsCode, Pair!Event,
       Pair!stores, Pair!setup, Pair!client
  <1> QED BY <1>3, <1>4, <1>5, <1>6, <1>7, <1>8 DEF PairOrder

LEMMA SharesOrder ==
  ASSUME PairOrder, Pair!Shares PROVE PairOrder'
  <1>0. PairQueues /\ PairCounts /\ Disconnected /\ OncePerConnection /\ PastAsking /\ RecordsOrdered
    BY DEF PairOrder
  <1>1. Kept
    BY <1>0, KeptTaking DEF Pair!Shares, Pair!Event, Pair!stores, Pair!setup, Pair!client
  <1>2. SaidKept
    <2>1. "auth" \in Word \ {"final"} 
      BY DEF Word
    <2>2. \/ pToServer' = pToServer
          \/ pToServer' = Append(pToServer, [t |-> "auth", k |-> pCliKeys.send])
      BY <1>0, <2>1, SayOne DEF Pair!Shares, Pair!Event
    <2> QED BY <1>0, <2>1, <2>2, SaidOne
  <1>3. PairQueues'
    BY <1>0, <1>1, <1>2 DEF PairQueues, Kept, SaidKept, Pair!Shares, Pair!stores, Pair!setup, Pair!client
  <1>4. PairCounts'
    BY <1>0, CountsNext DEF Pair!Next
  <1>5. Disconnected'
    BY <1>0, <1>1, <1>2 DEF Disconnected, SaidKept, SrvEngaged, SrvWaits, Pair!Shares, Pair!Event,
       Pair!stores, Pair!setup, Pair!client
  <1>6. OncePerConnection'
    BY <1>0, <1>1 DEF OncePerConnection, Disconnected, Kept, CliWaits, Pair!Shares, Pair!Event, Pair!stores,
       Pair!setup, Pair!client
  <1>7. PastAsking'
    BY <1>0, <1>1, <1>2 DEF PastAsking, Disconnected, Kept, SaidKept, Pair!Shares, Pair!Event, Pair!stores,
       Pair!setup, Pair!client
  <1>8. RecordsOrdered'
    BY <1>0, <1>1, <1>2, <1>4 DEF RecordsOrdered, PairCounts, Kept, SaidKept, Pair!Shares, Pair!Event,
       Pair!stores, Pair!setup, Pair!client
  <1> QED BY <1>3, <1>4, <1>5, <1>6, <1>7, <1>8 DEF PairOrder

LEMMA ClientStoresOrder ==
  ASSUME PairOrder, Pair!ClientStores PROVE PairOrder'
  <1>0. PairQueues /\ PairCounts /\ Disconnected /\ OncePerConnection /\ PastAsking /\ RecordsOrdered
    BY DEF PairOrder
  <1>1. Kept
    BY <1>0, KeptTaking DEF Pair!ClientStores, Pair!Event, Pair!stores, Pair!setup, Pair!client
  <1>2. SaidKept
    BY <1>0, SaidSame DEF Pair!ClientStores, Pair!stores, Pair!setup, Pair!client
  <1>9. Due("final")
    BY <1>0, KeptTaking DEF Pair!ClientStores, Pair!Event, Pair!stores, Pair!setup, Pair!client
  <1>3. PairQueues'
    BY <1>0, <1>1, <1>2 DEF PairQueues, Kept, SaidKept, Pair!ClientStores, Pair!stores, Pair!setup,
       Pair!client
  <1>4. PairCounts'
    BY <1>0, CountsNext DEF Pair!Next
  <1>5. Disconnected'
    BY <1>0, <1>9, <1>1, <1>2 DEF Disconnected, SaidKept, SrvEngaged, SrvWaits, Pair!ClientStores,
       Pair!Event, Pair!stores, Pair!setup, Pair!client
  <1>6. OncePerConnection'
    BY <1>0, <1>9, <1>1 DEF OncePerConnection, Disconnected, Kept, CliWaits, Pair!ClientStores, Pair!Event,
       Pair!stores, Pair!setup, Pair!client
  <1>7. PastAsking'
    BY <1>0, <1>9, <1>1, <1>2 DEF PastAsking, Disconnected, Kept, SaidKept, Pair!ClientStores, Pair!Event,
       Pair!stores, Pair!setup, Pair!client
  <1>8. RecordsOrdered'
    BY <1>0, <1>9, <1>1, <1>2, <1>4 DEF RecordsOrdered, PairCounts, Kept, SaidKept, Pair!ClientStores,
       Pair!Event, Pair!stores, Pair!setup, Pair!client
  <1> QED BY <1>3, <1>4, <1>5, <1>6, <1>7, <1>8 DEF PairOrder

LEMMA MainTakesOrder ==
  ASSUME PairOrder, Pair!MainTakes PROVE PairOrder'
  <1>0. PairQueues /\ PairCounts /\ Disconnected /\ OncePerConnection /\ PastAsking /\ RecordsOrdered
    BY DEF PairOrder
  <1>1. Kept
    BY <1>0, KeptTaking DEF Pair!MainTakes, Pair!stores, Pair!setup, Pair!client
  <1>2. SaidKept
    BY <1>0, SaidSame DEF Pair!MainTakes, Pair!stores, Pair!setup, Pair!client
  <1>3. PairQueues'
    BY <1>0, <1>1, <1>2 DEF PairQueues, Kept, SaidKept, Pair!MainTakes, Pair!stores, Pair!setup, Pair!client
  <1>4. PairCounts'
    BY <1>0, CountsNext DEF Pair!Next
  <1>5. Disconnected'
    BY <1>0, <1>1, <1>2 DEF Disconnected, SaidKept, SrvEngaged, SrvWaits, Pair!MainTakes, Pair!stores,
       Pair!setup, Pair!client
  <1>6. OncePerConnection'
    BY <1>0, <1>1 DEF OncePerConnection, Disconnected, Kept, CliWaits, Pair!MainTakes, Pair!stores,
       Pair!setup, Pair!client
  <1>7. PastAsking'
    BY <1>0, <1>1, <1>2 DEF PastAsking, Disconnected, Kept, SaidKept, Pair!MainTakes, Pair!stores,
       Pair!setup, Pair!client
  <1>8. RecordsOrdered'
    BY <1>0, <1>1, <1>2, <1>4 DEF RecordsOrdered, PairCounts, Kept, SaidKept, Pair!MainTakes, Pair!stores,
       Pair!setup, Pair!client
  <1> QED BY <1>3, <1>4, <1>5, <1>6, <1>7, <1>8 DEF PairOrder

LEMMA HelperLooksOrder ==
  ASSUME PairOrder, Pair!HelperLooks PROVE PairOrder'
  <1>0. PairQueues /\ PairCounts /\ Disconnected /\ OncePerConnection /\ PastAsking /\ RecordsOrdered
    BY DEF PairOrder
  <1>1. Kept
    BY <1>0, KeptSame DEF Pair!HelperLooks, Pair!stores, Pair!setup, Pair!client
  <1>2. SaidKept
    BY <1>0, SaidSame DEF Pair!HelperLooks, Pair!stores, Pair!setup, Pair!client
  <1>3. PairQueues'
    BY <1>0, <1>1, <1>2 DEF PairQueues, Kept, SaidKept, Pair!HelperLooks, Pair!stores, Pair!setup, Pair!client
  <1>4. PairCounts'
    BY <1>0, CountsNext DEF Pair!Next
  <1>5. Disconnected'
    BY <1>0, <1>1, <1>2 DEF Disconnected, SaidKept, SrvEngaged, SrvWaits, Pair!HelperLooks, Pair!stores,
       Pair!setup, Pair!client
  <1>6. OncePerConnection'
    BY <1>0, <1>1 DEF OncePerConnection, Disconnected, Kept, CliWaits, Pair!HelperLooks, Pair!stores,
       Pair!setup, Pair!client
  <1>7. PastAsking'
    BY <1>0, <1>1, <1>2 DEF PastAsking, Disconnected, Kept, SaidKept, Pair!HelperLooks, Pair!stores,
       Pair!setup, Pair!client
  <1>8. RecordsOrdered'
    BY <1>0, <1>1, <1>2, <1>4 DEF RecordsOrdered, PairCounts, Kept, SaidKept, Pair!HelperLooks, Pair!stores,
       Pair!setup, Pair!client
  <1> QED BY <1>3, <1>4, <1>5, <1>6, <1>7, <1>8 DEF PairOrder

LEMMA HelperSendsOrder ==
  ASSUME PairOrder, Pair!HelperSends PROVE PairOrder'
  <1>0. PairQueues /\ PairCounts /\ Disconnected /\ OncePerConnection /\ PastAsking /\ RecordsOrdered
    BY DEF PairOrder
  <1>1. Kept
    BY <1>0, KeptSame DEF Pair!HelperSends, Pair!stores, Pair!setup, Pair!client
  <1>2. SaidKept
    <2>1. "time" \in Word \ {"final"} /\ pToServer \in Seq(Message)
      BY <1>0 DEF Word, PairQueues
    <2>2. Pair!Say(<<"time">>) = <<[t |-> "time", k |-> pCliKeys.send]>> /\ [t |-> "time", k |-> pCliKeys.send] \in Message
      BY <1>0, <2>1 DEF Pair!Say, Message, PairQueues
    <2>3. \/ pToServer' = pToServer
          \/ pToServer' = Append(pToServer, [t |-> "time", k |-> pCliKeys.send])
      BY <2>1, <2>2, AppendIsConcat DEF Pair!HelperSends
    <2> QED BY <1>0, <2>1, <2>3, SaidOne
  <1>3. PairQueues'
    BY <1>0, <1>1, <1>2 DEF PairQueues, Kept, SaidKept, Pair!HelperSends, Pair!stores, Pair!setup, Pair!client
  <1>4. PairCounts'
    BY <1>0, CountsNext DEF Pair!Next
  <1>5. Disconnected'
    BY <1>0, <1>1, <1>2 DEF Disconnected, SaidKept, SrvEngaged, SrvWaits, Pair!HelperSends, Pair!stores,
       Pair!setup, Pair!client
  <1>6. OncePerConnection'
    BY <1>0, <1>1 DEF OncePerConnection, Disconnected, Kept, CliWaits, Pair!HelperSends, Pair!stores,
       Pair!setup, Pair!client
  <1>7. PastAsking'
    BY <1>0, <1>1, <1>2 DEF PastAsking, Disconnected, Kept, SaidKept, Pair!HelperSends, Pair!stores,
       Pair!setup, Pair!client
  <1>8. RecordsOrdered'
    BY <1>0, <1>1, <1>2, <1>4 DEF RecordsOrdered, PairCounts, Kept, SaidKept, Pair!HelperSends, Pair!stores,
       Pair!setup, Pair!client
  <1> QED BY <1>3, <1>4, <1>5, <1>6, <1>7, <1>8 DEF PairOrder

LEMMA LostOrder ==
  ASSUME PairOrder, Pair!Lost PROVE PairOrder'
  <1>0. PairQueues /\ PairCounts /\ Disconnected /\ OncePerConnection /\ PastAsking /\ RecordsOrdered
    BY DEF PairOrder
  <1>1. Kept
    <2>1. "rekeyFailed" \in Word \ {"pair", "confirm", "final"}
      BY DEF Word
    <2> QED BY <1>0, <2>1, KeptDropping DEF Pair!Lost
  <1>2. SaidKept
    BY SaidNone DEF Pair!Lost
  <1>9. /\ pEvents' = <<>> /\ pToClient' = <<>> /\ pToServer' = <<>>
        /\ ~Due("pair")' /\ ~Due("confirm")' /\ ~Due("final")' /\ ~Said("final")'
    BY <1>0 DEF Disconnected, Due, Sent, Taken, Said, Pair!Lost
  <1>3. PairQueues'
    BY <1>0, <1>1, <1>2 DEF PairQueues, Kept, SaidKept, Pair!Lost, Pair!stores, Pair!setup, Pair!client
  <1>4. PairCounts'
    BY <1>0, CountsNext DEF Pair!Next
  <1>5. Disconnected'
    BY <1>0, <1>9, <1>1, <1>2 DEF Disconnected, SaidKept, SrvEngaged, SrvWaits, Pair!Lost, Pair!stores,
       Pair!setup, Pair!client
  <1>6. OncePerConnection'
    BY <1>0, <1>9, <1>1 DEF OncePerConnection, Disconnected, Kept, CliWaits, Pair!Lost, Pair!stores,
       Pair!setup, Pair!client
  <1>7. PastAsking'
    BY <1>0, <1>9, <1>1, <1>2 DEF PastAsking, Disconnected, Kept, SaidKept, Pair!Lost, Pair!stores,
       Pair!setup, Pair!client
  <1>8. RecordsOrdered'
    BY <1>0, <1>9, <1>1, <1>2, <1>4 DEF RecordsOrdered, PairCounts, Kept, SaidKept, Pair!Lost, Pair!stores,
       Pair!setup, Pair!client
  <1> QED BY <1>3, <1>4, <1>5, <1>6, <1>7, <1>8 DEF PairOrder

LEMMA HelloOrder ==
  ASSUME PairOrder, Pair!Hello PROVE PairOrder'
  <1>0. PairQueues /\ PairCounts /\ Disconnected /\ OncePerConnection /\ PastAsking /\ RecordsOrdered
    BY DEF PairOrder
  <1>1. /\ pSrv = "hello" /\ pCli = "loop" /\ pPump = "reads" /\ pEvents = <<>> /\ pToClient = <<>> /\ ~Said("final")
        /\ ~Due("pair") /\ ~Due("confirm") /\ ~Due("final")
    BY <1>0 DEF Disconnected, Pair!Hello, Due, Sent, Taken
  <1>2. \/ pSrv' \in {"needsPairing", "failed"} /\ pToClient' = <<>> /\ pToServer' = <<>>
        \/ pSrv' = "playing" /\ Pair!ToClient("activate") /\ pToServer' = pToServer
        \/ /\ pSrv' \in {"awaitsFinal", "awaitsInit"} /\ Pair!ToClient("pair") /\ pToServer' = pToServer
           /\ pInput = "token" => pSrv' = "awaitsFinal"
    BY DEF Pair!Hello, Pair!ServerFails
  <1>3. /\ UNCHANGED <<pServerRec, pClientRec, pKeysMade, pInput, pCliCategory, pCli, pPump, pEvents, pSrvKeys,
                       pCliKeys, pHelper, pNewKey>>
    BY DEF Pair!Hello, Pair!stores, Pair!setup, Pair!client
  <1>4. PairCounts'
    BY <1>0, CountsNext DEF Pair!Next
  <1>5. ~Said("final")' /\ pToServer' \in Seq(Message)
    <2>1. pToServer' = <<>> \/ pToServer' = pToServer
      BY <1>2
    <2> QED BY <1>0, <1>1, <2>1, SaidNone, SaidSame DEF SaidKept
  <1>6. /\ pToClient' \in Seq(Message) /\ ~Due("confirm")' /\ ~Due("final")'
        /\ pSrv' \notin {"awaitsFinal", "awaitsInit"} => ~Due("pair")'
        /\ Once("pair")' /\ Once("confirm")'
    <2>1. CASE pToClient' = <<>>
      BY <1>1, <1>3, <2>1 DEF Due, Sent, Taken, Once
    <2>2. ASSUME NEW w \in Word \ {"confirm", "final"}, Pair!ToClient(w)
          PROVE  /\ pToClient' \in Seq(Message) /\ ~Due("confirm")' /\ ~Due("final")'
                 /\ w # "pair" => ~Due("pair")'
                 /\ Once("pair")' /\ Once("confirm")'
      <3>1. "pair" \in Word /\ "confirm" \in Word /\ "final" \in Word /\ pSrvKeys.send \in Nat
        BY <1>0 DEF Word, PairQueues
      <3> QED BY <1>0, <1>1, <1>3, <2>2, <3>1, Sends DEF Pair!ToClient, PairQueues, OncePerConnection
    <2>3. "activate" \in Word \ {"confirm", "final"} /\ "pair" \in Word \ {"confirm", "final"}
      BY DEF Word
    <2> QED BY <1>2, <2>1, <2>2, <2>3
  <1>7. PairQueues'
    BY <1>0, <1>3, <1>5, <1>6 DEF PairQueues
  <1>8. Disconnected'
    BY <1>1, <1>2, <1>3 DEF Disconnected, SrvEngaged, SrvWaits
  <1>9. OncePerConnection'
    BY <1>0, <1>1, <1>2, <1>3, <1>6 DEF OncePerConnection, CliWaits
  <1>10. PastAsking' /\ RecordsOrdered'
    BY <1>0, <1>1, <1>2, <1>3, <1>5, <1>6 DEF PastAsking, RecordsOrdered
  <1> QED BY <1>4, <1>7, <1>8, <1>9, <1>10 DEF PairOrder

LEMMA CodeAskedOrder ==
  ASSUME PairOrder, Pair!CodeAsked PROVE PairOrder'
  <1>0. PairQueues /\ PairCounts /\ Disconnected /\ OncePerConnection /\ PastAsking /\ RecordsOrdered
    BY DEF PairOrder
  <1>1. Kept
    <2>1. /\ "init" \in Word \ {"pair", "confirm", "final"} /\ "auth" \in Word \ {"pair", "confirm", "final"}
          /\ "abort" \in Word \ {"pair", "confirm", "final"} /\ pSrvKeys.send \in Nat
      BY <1>0 DEF Word, PairQueues
    <2>2. pEvents' = pEvents
      BY DEF Pair!CodeAsked, Pair!client
    <2>3. CASE pToClient' = pToClient \o <<[t |-> "init", k |-> pSrvKeys.send], [t |-> "auth", k |-> pSrvKeys.send]>>
      BY <1>0, <2>1, <2>2, <2>3, KeptSendingTwo
    <2>4. CASE pToClient' = Append(pToClient, [t |-> "abort", k |-> pSrvKeys.send])
      BY <1>0, <2>1, <2>2, <2>4, KeptSending
    <2> QED BY <2>3, <2>4 DEF Pair!CodeAsked, Pair!ToClient
  <1>2. SaidKept
    BY <1>0, SaidHeard DEF Pair!CodeAsked, Pair!Takes
  <1>3. /\ pSrv = "awaitsInit" /\ pSrv' \in {"awaitsAuth", "failed"}
        /\ UNCHANGED <<pServerRec, pClientRec, pKeysMade, pInput, pCliCategory, pCli, pPump, pEvents, pSrvKeys,
                       pCliKeys, pHelper, pNewKey>>
    BY DEF Pair!CodeAsked, Pair!stores, Pair!setup, Pair!client
  <1>4. PairCounts'
    BY <1>0, CountsNext DEF Pair!Next
  <1>5. PairQueues'
    BY <1>0, <1>1, <1>2, <1>3 DEF PairQueues, Kept, SaidKept
  <1>6. Disconnected'
    BY <1>0, <1>3 DEF Disconnected, SrvEngaged, SrvWaits
  <1>7. OncePerConnection'
    BY <1>0, <1>1, <1>3 DEF OncePerConnection, Kept, CliWaits
  <1>8. PastAsking' /\ RecordsOrdered'
    BY <1>0, <1>1, <1>2, <1>3 DEF PastAsking, RecordsOrdered, Kept, SaidKept
  <1> QED BY <1>4, <1>5, <1>6, <1>7, <1>8 DEF PairOrder

LEMMA ConfirmsOrder ==
  ASSUME PairOrder, Pair!Confirms PROVE PairOrder'
  <1>0. PairQueues /\ PairCounts /\ Disconnected /\ OncePerConnection /\ PastAsking /\ RecordsOrdered
    BY DEF PairOrder
  <1>1. /\ pSrv = "awaitsAuth" /\ pSrv' = "awaitsConfirm"
        /\ UNCHANGED <<pServerRec, pClientRec, pKeysMade, pInput, pCliCategory, pCli, pPump, pEvents, pSrvKeys,
                       pCliKeys, pHelper, pNewKey>>
    BY DEF Pair!Confirms, Pair!stores, Pair!setup, Pair!client
  <1>2. /\ pToClient' \in Seq(Message) /\ pEvents' \in Seq(Word)
        /\ (Due("pair")' => Due("pair")) /\ (Due("final")' => Due("final"))
        /\ Once("pair")' /\ Once("confirm")'
    <2>1. "pair" \in Word /\ "confirm" \in Word /\ "final" \in Word /\ pSrvKeys.send \in Nat
      BY <1>0 DEF Word, PairQueues
    <2>2. ~Due("confirm") /\ Once("pair") /\ Once("confirm")
      BY <1>0, <1>1 DEF OncePerConnection
    <2> QED BY <1>0, <1>1, <2>1, <2>2, Sends DEF Pair!Confirms, Pair!ToClient, PairQueues
  <1>3. SaidKept
    BY <1>0, SaidHeard DEF Pair!Confirms, Pair!Takes
  <1>4. PairCounts'
    BY <1>0, CountsNext DEF Pair!Next
  <1>5. PairQueues'
    BY <1>0, <1>1, <1>2, <1>3 DEF PairQueues, SaidKept
  <1>6. Disconnected'
    BY <1>0, <1>1 DEF Disconnected, SrvEngaged, SrvWaits
  <1>7. OncePerConnection'
    BY <1>0, <1>1, <1>2 DEF OncePerConnection, CliWaits
  <1>8. PastAsking' /\ RecordsOrdered'
    BY <1>0, <1>1, <1>2, <1>3 DEF PastAsking, RecordsOrdered, SaidKept
  <1> QED BY <1>4, <1>5, <1>6, <1>7, <1>8 DEF PairOrder

LEMMA AcknowledgesOrder ==
  ASSUME PairOrder, Pair!Acknowledges PROVE PairOrder'
  <1>0. PairQueues /\ PairCounts /\ Disconnected /\ OncePerConnection /\ PastAsking /\ RecordsOrdered
    BY DEF PairOrder
  <1>1. /\ pSrv = "stored" /\ pSrv' = "starts" /\ pToServer' = pToServer
        /\ UNCHANGED <<pServerRec, pClientRec, pKeysMade, pInput, pCliCategory, pCli, pPump, pEvents, pSrvKeys,
                       pCliKeys, pHelper, pNewKey>>
    BY DEF Pair!Acknowledges, Pair!stores, Pair!setup, Pair!client
  <1>2. /\ pToClient' \in Seq(Message) /\ pEvents' \in Seq(Word)
        /\ (Due("pair")' => Due("pair")) /\ (Due("confirm")' => Due("confirm"))
        /\ Once("pair")' /\ Once("confirm")'
    <2>1. "pair" \in Word /\ "confirm" \in Word /\ "final" \in Word /\ pSrvKeys.send \in Nat
      BY <1>0 DEF Word, PairQueues
    <2>2. Once("pair") /\ Once("confirm")
      BY <1>0 DEF OncePerConnection
    <2> QED BY <1>0, <1>1, <2>1, <2>2, Sends DEF Pair!Acknowledges, Pair!ToClient, PairQueues
  <1>3. SaidKept
    BY <1>0, <1>1, SaidSame
  <1>4. PairCounts'
    BY <1>0, CountsNext DEF Pair!Next
  <1>5. PairQueues'
    BY <1>0, <1>1, <1>2, <1>3 DEF PairQueues, SaidKept
  <1>6. Disconnected'
    BY <1>0, <1>1 DEF Disconnected, SrvEngaged, SrvWaits
  <1>7. OncePerConnection'
    BY <1>0, <1>1, <1>2 DEF OncePerConnection, CliWaits
  <1>8. PastAsking' /\ RecordsOrdered'
    BY <1>0, <1>1, <1>2, <1>3 DEF PastAsking, RecordsOrdered, SaidKept
  <1> QED BY <1>4, <1>5, <1>6, <1>7, <1>8 DEF PairOrder

LEMMA PairAskedOrder ==
  ASSUME PairOrder, Pair!PairAsked PROVE PairOrder'
  <1>0. PairQueues /\ PairCounts /\ Disconnected /\ OncePerConnection /\ PastAsking /\ RecordsOrdered
    BY DEF PairOrder
  <1>1. /\ pCli = "loop" /\ pCli' \in {"awaitsInit", "awaitsFinal"}
        /\ UNCHANGED <<pServerRec, pClientRec, pSrv, pInput, pCliCategory, pPump, pToClient, pSrvKeys, pCliKeys,
                       pHelper>>
    BY DEF Pair!PairAsked, Pair!setup
  <1>2. Kept /\ Due("pair") /\ ~Due("pair")' /\ pEvents # <<>>
    BY <1>0, KeptTaking DEF Pair!PairAsked, Pair!Event, OncePerConnection
  <1>3. /\ ~Said("final") /\ pSrv \notin {"stored", "hello"} /\ ~Due("final")
    BY <1>0, <1>2 DEF PastAsking, Disconnected
  <1>4. /\ pToServer' \in Seq(Message)
        /\ \/ pCliCategory = "Pairing" /\ pNewKey' = pKeysMade + 1 /\ pKeysMade' = pKeysMade + 1
           \/ ~Said("final")' /\ pNewKey' = pNewKey /\ pKeysMade' = pKeysMade
    <2>1. "init" \in Word /\ "final" \in Word /\ pCliKeys.send \in Nat /\ pToServer \in Seq(Message)
      BY <1>0 DEF Word, PairQueues
    <2>2. CASE pCliCategory = "Pairing"
      <3>1. Pair!ToServer(<<"final">>) /\ pNewKey' = pKeysMade + 1 /\ pKeysMade' = pKeysMade + 1
        BY <2>2 DEF Pair!PairAsked
      <3> QED BY <1>0, <2>1, <2>2, <3>1, SayOne, Says
    <2>3. CASE pCliCategory # "Pairing"
      <3>1. Pair!ToServer(<<"init">>) /\ pNewKey' = pNewKey /\ pKeysMade' = pKeysMade
        BY <2>3 DEF Pair!PairAsked
      <3>2. SaidKept
        <4>1. "init" \in Word \ {"final"}
          BY <2>1
        <4>2. \/ pToServer' = pToServer
              \/ pToServer' = Append(pToServer, [t |-> "init", k |-> pCliKeys.send])
          BY <1>0, <2>1, <3>1, SayOne
        <4> QED BY <1>0, <4>1, <4>2, SaidOne
      <3> QED BY <1>3, <3>1, <3>2 DEF SaidKept
    <2> QED BY <2>2, <2>3
  <1>5. PairCounts'
    BY <1>0, CountsNext DEF Pair!Next
  <1>6. PairQueues'
    BY <1>0, <1>1, <1>2, <1>4 DEF PairQueues, Kept
  <1>7. Disconnected'
    BY <1>0, <1>1, <1>3 DEF Disconnected, SrvEngaged, SrvWaits
  <1>8. OncePerConnection'
    BY <1>0, <1>1, <1>2 DEF OncePerConnection, Kept, CliWaits
  <1>9. PastAsking'
    BY <1>0, <1>1, <1>2, <1>3, <1>4 DEF PastAsking, Kept, OncePerConnection
  <1>10. RecordsOrdered'
    BY <1>0, <1>1, <1>2, <1>3, <1>4, <1>5 DEF RecordsOrdered, PairCounts, Kept
  <1> QED BY <1>5, <1>6, <1>7, <1>8, <1>9, <1>10 DEF PairOrder

LEMMA ClientConfirmsOrder ==
  ASSUME PairOrder, Pair!ClientConfirms PROVE PairOrder'
  <1>0. PairQueues /\ PairCounts /\ Disconnected /\ OncePerConnection /\ PastAsking /\ RecordsOrdered
    BY DEF PairOrder
  <1>1. /\ pCli = "awaitsConfirm" /\ pCli' \in {"closing", "awaitsFinal"}
        /\ UNCHANGED <<pServerRec, pClientRec, pSrv, pInput, pCliCategory, pPump, pToClient, pSrvKeys, pCliKeys,
                       pHelper>>
    BY DEF Pair!ClientConfirms, Pair!setup
  <1>2. Kept /\ Due("confirm") /\ ~Due("confirm")' /\ pEvents # <<>>
    BY <1>0, KeptTaking DEF Pair!ClientConfirms, Pair!Event, OncePerConnection
  <1>3. /\ ~Said("final") /\ pSrv \notin {"stored", "hello", "awaitsInit", "awaitsAuth"} /\ ~Due("final")
        /\ ~Due("pair")
    BY <1>0, <1>1, <1>2 DEF PastAsking, Disconnected, OncePerConnection, CliWaits
  <1>4. /\ pToServer' \in Seq(Message)
        /\ \/ pNewKey' = pKeysMade + 1 /\ pKeysMade' = pKeysMade + 1
           \/ ~Said("final")' /\ pNewKey' = pNewKey /\ pKeysMade' = pKeysMade
    <2>1. /\ "abort" \in Word /\ "confirm" \in Word /\ "final" \in Word
          /\ pCliKeys.send \in Nat /\ pToServer \in Seq(Message)
      BY <1>0 DEF Word, PairQueues
    <2>2. CASE pCodeRight
      <3>1. Pair!ToServer(<<"confirm", "final">>) /\ pNewKey' = pKeysMade + 1 /\ pKeysMade' = pKeysMade + 1
        BY <2>2 DEF Pair!ClientConfirms
      <3> QED BY <1>0, <2>1, <3>1, SayTwo, SaysTwo, ZenonT(60)
    <2>3. CASE ~pCodeRight
      <3>1. Pair!ToServer(<<"abort">>) /\ pNewKey' = pNewKey /\ pKeysMade' = pKeysMade
        BY <2>3 DEF Pair!ClientConfirms
      <3>2. SaidKept
        <4>1. "abort" \in Word \ {"final"}
          BY <2>1
        <4>2. \/ pToServer' = pToServer
              \/ pToServer' = Append(pToServer, [t |-> "abort", k |-> pCliKeys.send])
          BY <1>0, <2>1, <3>1, SayOne
        <4> QED BY <1>0, <4>1, <4>2, SaidOne
      <3> QED BY <1>3, <3>1, <3>2 DEF SaidKept
    <2> QED BY <2>2, <2>3
  <1>5. PairCounts'
    BY <1>0, CountsNext DEF Pair!Next
  <1>6. PairQueues'
    BY <1>0, <1>1, <1>2, <1>4 DEF PairQueues, Kept
  <1>7. Disconnected'
    BY <1>0, <1>1, <1>3 DEF Disconnected, SrvEngaged, SrvWaits
  <1>8. OncePerConnection'
    BY <1>0, <1>1, <1>2, <1>3 DEF OncePerConnection, Kept, CliWaits
  <1>9. PastAsking'
    BY <1>0, <1>1, <1>2, <1>3, <1>4 DEF PastAsking, Kept
  <1>10. RecordsOrdered'
    BY <1>0, <1>1, <1>2, <1>3, <1>4, <1>5 DEF RecordsOrdered, PairCounts, Kept
  <1> QED BY <1>5, <1>6, <1>7, <1>8, <1>9, <1>10 DEF PairOrder

LEMMA OrderNext == ASSUME PairOrder, Pair!Next PROVE PairOrder'
  BY ConnectOrder, LegacyOrder, HandshakeOrder, HelloOrder, SkipsOrder, CodeAskedOrder, ConfirmsOrder,
     ConfirmedOrder, AbortedOrder, StoresOrder, AcknowledgesOrder, StartsRekeyOrder, RekeyedOrder,
     ServerTimesOutOrder, PumpReadsOrder, PumpResolvesOrder, PumpSwitchesOrder, PairAskedOrder,
     ShowsCodeOrder, SharesOrder, ClientConfirmsOrder, ClientStoresOrder, MainTakesOrder, HelperLooksOrder,
     HelperSendsOrder, LostOrder DEF Pair!Next

-----------------------------------------------------------------------------
(* Under which key things go. *)

\* All of q under key s, and no switch in it.
Before(q, s) == \A j \in DOMAIN q : q[j].k = s /\ q[j].t # "hs2"

\* q up to the switch under key s, the rest under key c.
Switching(q, s, c) ==
    \E n \in DOMAIN q :
      /\ q[n].t = "hs2"
      /\ \A j \in DOMAIN q : /\ q[j].k = IF j <= n THEN s ELSE c
                             /\ q[j].t = "hs2" => j = n

\* All of q under key c, and its first message of a re-handshake, if any, the last.
AllUnder(q, c) == \A j \in DOMAIN q : q[j].k = c
NoneOf(q, m) == \A j \in DOMAIN q : q[j].t # m
LastOnly(q, m) == \A j \in DOMAIN q : q[j].t = m => j = Len(q)

\* What appending and taking do to these.
LEMMA QueueAppend ==
  ASSUME NEW q \in Seq(Message), NEW e \in Message, NEW w \in Word, NEW c \in Nat, e.t = w, e.k = c,
         NEW r, r = Append(q, e)
  PROVE  /\ r \in Seq(Message)
         /\ Before(q, c) /\ w # "hs2" => Before(r, c)
         /\ Before(q, c) /\ w = "hs2" => \A d \in Nat : Switching(r, c, d)
         /\ \A s \in Nat : Switching(q, s, c) /\ w # "hs2" => Switching(r, s, c)
         /\ AllUnder(q, c) => AllUnder(r, c)
         /\ \A m \in Word : NoneOf(q, m) /\ w # m => NoneOf(r, m)
         /\ \A m \in Word : NoneOf(q, m) => LastOnly(r, m)
  <1>1. e.t = w /\ e.k = c
    OBVIOUS
  <1>2. /\ r \in Seq(Message) /\ DOMAIN q = 1..Len(q) /\ Len(q) \in Nat /\ DOMAIN r = 1..(Len(q) + 1)
        /\ Len(r) = Len(q) + 1
        /\ \A j \in DOMAIN q : r[j] = q[j]
        /\ r[Len(q) + 1] = e
    OBVIOUS
  <1>3. \A j \in DOMAIN r : \/ j \in DOMAIN q /\ r[j] = q[j]
                            \/ j = Len(q) + 1 /\ r[j].t = w /\ r[j].k = c
    BY <1>1, <1>2
  <1>4. Before(q, c) /\ w # "hs2" => Before(r, c)
    BY <1>3 DEF Before
  <1>5. ASSUME Before(q, c), w = "hs2", NEW d \in Nat PROVE Switching(r, c, d)
    <2>1. Len(q) + 1 \in DOMAIN r
      BY <1>2
    <2>2. ASSUME NEW j \in DOMAIN r PROVE j <= Len(q) + 1 /\ r[j].k = c /\ (r[j].t = "hs2" => j = Len(q) + 1)
      BY <1>2, <1>3, <1>5 DEF Before
    <2> QED BY <1>1, <1>2, <1>5, <2>1, <2>2 DEF Switching
  <1>6. ASSUME NEW s \in Nat, Switching(q, s, c), w # "hs2" PROVE Switching(r, s, c)
    <2>1. PICK n \in DOMAIN q : /\ q[n].t = "hs2"
                                /\ \A j \in DOMAIN q : /\ q[j].k = IF j <= n THEN s ELSE c
                                                       /\ q[j].t = "hs2" => j = n
      BY <1>6 DEF Switching
    <2>2. n \in DOMAIN r /\ r[n].t = "hs2"
      BY <1>2, <2>1
    <2>3. ASSUME NEW j \in DOMAIN r PROVE (r[j].k = IF j <= n THEN s ELSE c) /\ (r[j].t = "hs2" => j = n)
      BY <1>2, <1>3, <1>6, <2>1
    <2> QED BY <2>2, <2>3 DEF Switching
  <1>7. AllUnder(q, c) => AllUnder(r, c)
    BY <1>3 DEF AllUnder
  <1>8. \A m \in Word : NoneOf(q, m) /\ w # m => NoneOf(r, m)
    BY <1>3 DEF NoneOf
  <1>9. \A m \in Word : NoneOf(q, m) => LastOnly(r, m)
    BY <1>2, <1>3 DEF NoneOf, LastOnly
  <1> QED BY <1>2, <1>4, <1>5, <1>6, <1>7, <1>8, <1>9

LEMMA QueueToClient ==
  ASSUME NEW q \in Seq(Message), NEW e \in Message, e.t # "hs1", NEW r, r = Append(q, e)
  PROVE  /\ r \in Seq(Message)
         /\ AllUnder(q, e.k) => AllUnder(r, e.k)
         /\ NoneOf(q, "hs1") => NoneOf(r, "hs1")
  <1>1. e.t \in Word /\ e.k \in Nat /\ "hs1" \in Word
    BY DEF Message, Word
  <1>2. /\ r \in Seq(Message)
        /\ AllUnder(q, e.k) => AllUnder(r, e.k)
        /\ \A m \in Word : NoneOf(q, m) /\ e.t # m => NoneOf(r, m)
    BY <1>1, QueueAppend
  <1> QED BY <1>1, <1>2

LEMMA QueueToServer ==
  ASSUME NEW q \in Seq(Message), NEW e \in Message, e.t # "hs2", NEW r, r = Append(q, e)
  PROVE  /\ r \in Seq(Message)
         /\ Before(q, e.k) => Before(r, e.k)
         /\ \A s \in Nat : Switching(q, s, e.k) => Switching(r, s, e.k)
  <1>1. e.t \in Word /\ e.k \in Nat
    BY DEF Message
  <1>2. /\ r \in Seq(Message)
        /\ Before(q, e.k) => Before(r, e.k)
        /\ \A s \in Nat : Switching(q, s, e.k) /\ e.t # "hs2" => Switching(r, s, e.k)
    BY <1>1, QueueAppend
  <1> QED BY <1>1, <1>2

LEMMA QueueTail ==
  ASSUME NEW q \in Seq(Message), q # <<>>, NEW r, r = Tail(q), NEW s \in Nat, NEW c \in Nat, NEW m \in Word
  PROVE  /\ Before(q, s) => Before(r, s) /\ Head(q).k = s
         /\ Switching(q, s, c) => Head(q).k = s
         /\ Switching(q, s, c) /\ Head(q).t # "hs2" => Switching(r, s, c)
         /\ Switching(q, s, c) /\ Head(q).t = "hs2" => Before(r, c)
         /\ AllUnder(q, c) => AllUnder(r, c) /\ Head(q).k = c
         /\ NoneOf(q, m) => NoneOf(r, m)
         /\ LastOnly(q, m) => LastOnly(r, m)
         /\ LastOnly(q, m) /\ Head(q).t = m => r = <<>>
  <1>1. /\ r \in Seq(Message) /\ Len(q) \in Nat /\ Len(q) >= 1 /\ DOMAIN q = 1..Len(q)
        /\ Len(r) = Len(q) - 1 /\ DOMAIN r = 1..(Len(q) - 1) /\ Head(q) = q[1]
        /\ \A j \in DOMAIN r : r[j] = q[j + 1] /\ j + 1 \in DOMAIN q
    OBVIOUS
  <1>2. Before(q, s) => Before(r, s) /\ Head(q).k = s
    BY <1>1 DEF Before
  <1>3. ASSUME Switching(q, s, c)
        PROVE  /\ Head(q).k = s
               /\ Head(q).t # "hs2" => Switching(r, s, c)
               /\ Head(q).t = "hs2" => Before(r, c)
    <2>1. PICK n \in DOMAIN q : /\ q[n].t = "hs2"
                                /\ \A j \in DOMAIN q : /\ q[j].k = IF j <= n THEN s ELSE c
                                                       /\ q[j].t = "hs2" => j = n
      BY <1>3 DEF Switching
    <2>2. Head(q).k = s
      BY <1>1, <2>1
    <2>3. ASSUME Head(q).t # "hs2" PROVE Switching(r, s, c)
      <3>1. n # 1 /\ n - 1 \in DOMAIN r /\ r[n - 1] = q[n]
        BY <1>1, <2>1, <2>3
      <3>2. ASSUME NEW j \in DOMAIN r
            PROVE  (r[j].k = IF j <= n - 1 THEN s ELSE c) /\ (r[j].t = "hs2" => j = n - 1)
        <4>1. r[j] = q[j + 1] /\ j + 1 \in DOMAIN q /\ (j + 1 <= n <=> j <= n - 1)
          BY <1>1, <2>1
        <4>2. (q[j + 1].k = IF j + 1 <= n THEN s ELSE c) /\ (q[j + 1].t = "hs2" => j + 1 = n)
          BY <2>1, <4>1
        <4> QED BY <1>1, <4>1, <4>2
      <3> QED BY <2>1, <3>1, <3>2 DEF Switching
    <2>4. ASSUME Head(q).t = "hs2" PROVE Before(r, c)
      <3>1. n = 1
        BY <1>1, <2>1, <2>4
      <3>2. ASSUME NEW j \in DOMAIN r PROVE r[j].k = c /\ r[j].t # "hs2"
        <4>1. r[j] = q[j + 1] /\ j + 1 \in DOMAIN q /\ ~(j + 1 <= 1) /\ j + 1 # 1
          BY <1>1
        <4> QED BY <2>1, <3>1, <4>1
      <3> QED BY <3>2 DEF Before
    <2> QED BY <2>2, <2>3, <2>4
  <1>4. AllUnder(q, c) => AllUnder(r, c) /\ Head(q).k = c
    BY <1>1 DEF AllUnder
  <1>5. NoneOf(q, m) => NoneOf(r, m)
    BY <1>1 DEF NoneOf
  <1>6. LastOnly(q, m) => LastOnly(r, m)
    BY <1>1 DEF LastOnly
  <1>7. LastOnly(q, m) /\ Head(q).t = m => r = <<>>
    BY <1>1 DEF LastOnly
  <1> QED BY <1>2, <1>3, <1>4, <1>5, <1>6, <1>7

LEMMA QueueEmpty ==
  ASSUME NEW s, NEW m
  PROVE  Before(<<>>, s) /\ AllUnder(<<>>, s) /\ NoneOf(<<>>, m) /\ LastOnly(<<>>, m)
  BY DEF Before, AllUnder, NoneOf, LastOnly

\* The two ends are connected, as far as the server knows.
Joint == pCli \notin {"idle", "handshake"} /\ pSrv \notin {"failed", "needsPairing"}

KeysSame == pSrvKeys.send = pSrvKeys.recv /\ pCliKeys.send = pCliKeys.recv

\* What the pump reads is under its key.
Readably == pPump = "reads" => AllUnder(pToClient, pCliKeys.recv)

\* Both are on one key, or the client has switched, and what the server reads
\* leads it there.
Jointly ==
    Joint => \/ pCliKeys.recv = pSrvKeys.recv /\ Before(pToServer, pSrvKeys.recv)
             \/ /\ Switching(pToServer, pSrvKeys.recv, pCliKeys.recv) /\ pCliKeys.recv = 2
                /\ pSrv = "rekeys" /\ pToClient = <<>> /\ pPump = "reads"

\* The re-handshake is the last the server says, and waits for its answer.
LastWord ==
    /\ NoneOf(pToClient, "hs1") \/ (pSrv = "rekeys" /\ LastOnly(pToClient, "hs1"))
    /\ pPump = "switches" => pToClient = <<>> /\ pSrv \in {"rekeys", "failed"}

KeysInv == KeysSame /\ Readably /\ Jointly /\ LastWord

\* One of the ordinary messages more, or one less, changes nothing of that.
LEMMA JointlyStays ==
  ASSUME PairQueues, KeysInv, UNCHANGED <<pSrvKeys, pCliKeys>>, Joint' => Joint,
         NEW w \in Word \ {"hs2"},
         \/ pToServer' = pToServer
         \/ pToServer' = Append(pToServer, [t |-> w, k |-> pCliKeys.send])
         \/ pToServer # <<>> /\ pToServer' = Tail(pToServer) /\ Head(pToServer).t # "hs2",
         pSrv = "rekeys" /\ Joint' => pSrv' = "rekeys",
         pSrv = "rekeys" /\ pToClient = <<>> /\ pPump = "reads" /\ Joint' => pToClient' = <<>> /\ pPump' = "reads"
  PROVE  Jointly'
  <1> SUFFICES ASSUME Joint' PROVE
         \/ pCliKeys.recv = pSrvKeys.recv /\ Before(pToServer', pSrvKeys.recv)
         \/ /\ Switching(pToServer', pSrvKeys.recv, pCliKeys.recv) /\ pCliKeys.recv = 2
            /\ pSrv' = "rekeys" /\ pToClient' = <<>> /\ pPump' = "reads"
    BY DEF Jointly
  <1>0. /\ pToServer \in Seq(Message) /\ pSrvKeys.recv \in Nat /\ pCliKeys.recv \in Nat
        /\ pCliKeys.send = pCliKeys.recv /\ Joint /\ w \in Word /\ w # "hs2"
    BY DEF PairQueues, KeysInv, KeysSame
  <1> DEFINE e == [t |-> w, k |-> pCliKeys.send]
  <1>9. e \in Message /\ e.t = w /\ e.k = pCliKeys.send
    BY <1>0 DEF Message
  <1> HIDE DEF e
  <1>1. CASE pCliKeys.recv = pSrvKeys.recv /\ Before(pToServer, pSrvKeys.recv)
    <2>1. CASE pToServer' = pToServer
      BY <1>1, <2>1
    <2>2. CASE pToServer' = Append(pToServer, [t |-> w, k |-> pCliKeys.send])
      <3>1. pCliKeys.send \in Nat /\ Before(pToServer, pCliKeys.send)
        BY <1>0, <1>1
      <3>2. Before(pToServer', pCliKeys.send)
        <4>1. pToServer' = Append(pToServer, e)
          BY <2>2 DEF e
        <4> QED BY <1>0, <1>9, <3>1, <4>1, QueueAppend
      <3> QED BY <1>0, <1>1, <3>2
    <2>3. CASE pToServer # <<>> /\ pToServer' = Tail(pToServer)
      BY <1>0, <1>1, <2>3, QueueTail
    <2> QED BY <1>1, <2>1, <2>2, <2>3
  <1>2. CASE /\ Switching(pToServer, pSrvKeys.recv, pCliKeys.recv) /\ pCliKeys.recv = 2
             /\ pSrv = "rekeys" /\ pToClient = <<>> /\ pPump = "reads"
    <2>1. CASE pToServer' = pToServer
      BY <1>2, <2>1
    <2>2. CASE pToServer' = Append(pToServer, [t |-> w, k |-> pCliKeys.send])
      <3>1. pCliKeys.send \in Nat /\ Switching(pToServer, pSrvKeys.recv, pCliKeys.send)
        BY <1>0, <1>2
      <3>2. Switching(pToServer', pSrvKeys.recv, pCliKeys.send)
        <4>1. pToServer' = Append(pToServer, e)
          BY <2>2 DEF e
        <4>2. pCliKeys.send \in Nat /\ pToServer \in Seq(Message) /\ w \in Word
          BY <1>0, <3>1
        <4>3. \A s \in Nat : Switching(pToServer, s, pCliKeys.send) /\ w # "hs2"
                               => Switching(pToServer', s, pCliKeys.send)
          BY <1>9, <4>1, <4>2, QueueAppend
        <4> QED BY <1>0, <3>1, <4>3
      <3> QED BY <1>0, <1>2, <3>2
    <2>3. CASE pToServer # <<>> /\ pToServer' = Tail(pToServer) /\ Head(pToServer).t # "hs2"
      BY <1>0, <1>2, <2>3, QueueTail
    <2> QED BY <1>2, <2>1, <2>2, <2>3
  <1> QED BY <1>0, <1>1, <1>2 DEF KeysInv, Jointly

\* The server sends under the key of the pump.
LEMMA ServerSends ==
  ASSUME PairQueues, KeysInv, Joint, pSrv # "rekeys", UNCHANGED <<pSrvKeys, pCliKeys, pPump>>,
         NEW w \in Word, pToClient' = Append(pToClient, [t |-> w, k |-> pSrvKeys.send])
  PROVE  /\ KeysSame' /\ Readably' /\ pPump # "switches"
         /\ w # "hs1" => NoneOf(pToClient', "hs1")
         /\ LastOnly(pToClient', "hs1")
  <1>0. /\ pToClient \in Seq(Message) /\ pSrvKeys.send \in Nat /\ "hs1" \in Word
        /\ pSrvKeys.send = pCliKeys.recv /\ NoneOf(pToClient, "hs1") /\ pPump # "switches"
    BY DEF PairQueues, Word, KeysInv, KeysSame, Jointly, LastWord, Joint
  <1> DEFINE e == [t |-> w, k |-> pSrvKeys.send]
  <1>9. e \in Message /\ e.t = w /\ e.k = pSrvKeys.send
    BY <1>0 DEF Message
  <1> HIDE DEF e
  <1>10. pToClient' = Append(pToClient, e)
    BY DEF e
  <1>1. pPump = "reads" => AllUnder(pToClient', pCliKeys.recv)
    <2>1. AllUnder(pToClient, pSrvKeys.send) => AllUnder(pToClient', pSrvKeys.send)
      BY <1>0, <1>9, <1>10, QueueAppend
    <2> QED BY <1>0, <2>1 DEF KeysInv, Readably
  <1>2. (w # "hs1" => NoneOf(pToClient', "hs1")) /\ LastOnly(pToClient', "hs1")
    BY <1>0, <1>9, <1>10, QueueAppend
  <1> QED BY <1>0, <1>1, <1>2 DEF KeysInv, KeysSame, Readably

\* The steps that leave what is sent to the client as it is.
LEMMA ShowsCodeKeys ==
  ASSUME PairOrder, KeysInv, Pair!ShowsCode PROVE KeysInv'
  <1>1. /\ UNCHANGED <<pToClient, pPump, pSrvKeys, pCliKeys>> /\ (Joint' => Joint)
        /\ (pSrv = "rekeys" => pSrv' = "rekeys") /\ (pSrv = "failed" => pSrv' = "failed")
    BY DEF Pair!ShowsCode, Pair!Event, Pair!stores, Pair!setup, Pair!client, Joint
  <1>2. KeysSame' /\ Readably' /\ LastWord'
    BY <1>1 DEF KeysInv, KeysSame, Readably, LastWord
  <1>3. PairQueues
    BY DEF PairOrder
  <1>4. Jointly'
    <2>1. pToServer' = pToServer /\ "time" \in Word \ {"hs2"}
      BY DEF Pair!ShowsCode, Pair!Event, Pair!stores, Pair!setup, Pair!client, Word
    <2> QED BY <1>1, <1>3, <2>1, JointlyStays
  <1> QED BY <1>2, <1>4 DEF KeysInv

LEMMA ClientStoresKeys ==
  ASSUME PairOrder, KeysInv, Pair!ClientStores PROVE KeysInv'
  <1>1. /\ UNCHANGED <<pToClient, pPump, pSrvKeys, pCliKeys>> /\ (Joint' => Joint)
        /\ (pSrv = "rekeys" => pSrv' = "rekeys") /\ (pSrv = "failed" => pSrv' = "failed")
    BY DEF Pair!ClientStores, Pair!Event, Pair!stores, Pair!setup, Pair!client, Joint
  <1>2. KeysSame' /\ Readably' /\ LastWord'
    BY <1>1 DEF KeysInv, KeysSame, Readably, LastWord
  <1>3. PairQueues
    BY DEF PairOrder
  <1>4. Jointly'
    <2>1. pToServer' = pToServer /\ "time" \in Word \ {"hs2"}
      BY DEF Pair!ClientStores, Pair!Event, Pair!stores, Pair!setup, Pair!client, Word
    <2> QED BY <1>1, <1>3, <2>1, JointlyStays
  <1> QED BY <1>2, <1>4 DEF KeysInv

LEMMA MainTakesKeys ==
  ASSUME PairOrder, KeysInv, Pair!MainTakes PROVE KeysInv'
  <1>1. /\ UNCHANGED <<pToClient, pPump, pSrvKeys, pCliKeys>> /\ (Joint' => Joint)
        /\ (pSrv = "rekeys" => pSrv' = "rekeys") /\ (pSrv = "failed" => pSrv' = "failed")
    BY DEF Pair!MainTakes, Pair!stores, Pair!setup, Pair!client, Joint
  <1>2. KeysSame' /\ Readably' /\ LastWord'
    BY <1>1 DEF KeysInv, KeysSame, Readably, LastWord
  <1>3. PairQueues
    BY DEF PairOrder
  <1>4. Jointly'
    <2>1. pToServer' = pToServer /\ "time" \in Word \ {"hs2"}
      BY DEF Pair!MainTakes, Pair!stores, Pair!setup, Pair!client, Word
    <2> QED BY <1>1, <1>3, <2>1, JointlyStays
  <1> QED BY <1>2, <1>4 DEF KeysInv

LEMMA HelperLooksKeys ==
  ASSUME PairOrder, KeysInv, Pair!HelperLooks PROVE KeysInv'
  <1>1. /\ UNCHANGED <<pToClient, pPump, pSrvKeys, pCliKeys>> /\ (Joint' => Joint)
        /\ (pSrv = "rekeys" => pSrv' = "rekeys") /\ (pSrv = "failed" => pSrv' = "failed")
    BY DEF Pair!HelperLooks, Pair!stores, Pair!setup, Pair!client, Joint
  <1>2. KeysSame' /\ Readably' /\ LastWord'
    BY <1>1 DEF KeysInv, KeysSame, Readably, LastWord
  <1>3. PairQueues
    BY DEF PairOrder
  <1>4. Jointly'
    <2>1. pToServer' = pToServer /\ "time" \in Word \ {"hs2"}
      BY DEF Pair!HelperLooks, Pair!stores, Pair!setup, Pair!client, Word
    <2> QED BY <1>1, <1>3, <2>1, JointlyStays
  <1> QED BY <1>2, <1>4 DEF KeysInv

LEMMA ConfirmedKeys ==
  ASSUME PairOrder, KeysInv, Pair!Confirmed PROVE KeysInv'
  <1>1. /\ UNCHANGED <<pToClient, pPump, pSrvKeys, pCliKeys>> /\ (Joint' => Joint)
        /\ (pSrv = "rekeys" => pSrv' = "rekeys") /\ (pSrv = "failed" => pSrv' = "failed")
    BY DEF Pair!Confirmed, Pair!Takes, Pair!stores, Pair!setup, Pair!client, Joint
  <1>2. KeysSame' /\ Readably' /\ LastWord'
    BY <1>1 DEF KeysInv, KeysSame, Readably, LastWord
  <1>3. PairQueues
    BY DEF PairOrder
  <1>4. Jointly'
    <2>1. /\ pToServer # <<>> /\ pToServer' = Tail(pToServer) /\ Head(pToServer).t # "hs2"
          /\ "time" \in Word \ {"hs2"}
      BY DEF Pair!Confirmed, Pair!Takes, Pair!stores, Pair!setup, Pair!client, Word
    <2> QED BY <1>1, <1>3, <2>1, JointlyStays
  <1> QED BY <1>2, <1>4 DEF KeysInv

LEMMA AbortedKeys ==
  ASSUME PairOrder, KeysInv, Pair!Aborted PROVE KeysInv'
  <1>1. /\ UNCHANGED <<pToClient, pPump, pSrvKeys, pCliKeys>> /\ (Joint' => Joint)
        /\ (pSrv = "rekeys" => pSrv' = "rekeys") /\ (pSrv = "failed" => pSrv' = "failed")
    BY DEF Pair!Aborted, Pair!Takes, Pair!stores, Pair!setup, Pair!client, Joint
  <1>2. KeysSame' /\ Readably' /\ LastWord'
    BY <1>1 DEF KeysInv, KeysSame, Readably, LastWord
  <1>3. PairQueues
    BY DEF PairOrder
  <1>4. Jointly'
    <2>1. /\ pToServer # <<>> /\ pToServer' = Tail(pToServer) /\ Head(pToServer).t # "hs2"
          /\ "time" \in Word \ {"hs2"}
      BY DEF Pair!Aborted, Pair!Takes, Pair!stores, Pair!setup, Pair!client, Word
    <2> QED BY <1>1, <1>3, <2>1, JointlyStays
  <1> QED BY <1>2, <1>4 DEF KeysInv

LEMMA StoresKeys ==
  ASSUME PairOrder, KeysInv, Pair!Stores PROVE KeysInv'
  <1>1. /\ UNCHANGED <<pToClient, pPump, pSrvKeys, pCliKeys>> /\ (Joint' => Joint)
        /\ (pSrv = "rekeys" => pSrv' = "rekeys") /\ (pSrv = "failed" => pSrv' = "failed")
    BY DEF Pair!Stores, Pair!Takes, Pair!stores, Pair!setup, Pair!client, Joint
  <1>2. KeysSame' /\ Readably' /\ LastWord'
    BY <1>1 DEF KeysInv, KeysSame, Readably, LastWord
  <1>3. PairQueues
    BY DEF PairOrder
  <1>4. Jointly'
    <2>1. /\ pToServer # <<>> /\ pToServer' = Tail(pToServer) /\ Head(pToServer).t # "hs2"
          /\ "time" \in Word \ {"hs2"}
      BY DEF Pair!Stores, Pair!Takes, Pair!stores, Pair!setup, Pair!client, Word
    <2> QED BY <1>1, <1>3, <2>1, JointlyStays
  <1> QED BY <1>2, <1>4 DEF KeysInv

LEMMA SkipsKeys ==
  ASSUME PairOrder, KeysInv, Pair!Skips PROVE KeysInv'
  <1>1. /\ UNCHANGED <<pToClient, pPump, pSrvKeys, pCliKeys>> /\ (Joint' => Joint)
        /\ (pSrv = "rekeys" => pSrv' = "rekeys") /\ (pSrv = "failed" => pSrv' = "failed")
    BY DEF Pair!Skips, Pair!stores, Pair!setup, Pair!client, Joint
  <1>2. KeysSame' /\ Readably' /\ LastWord'
    BY <1>1 DEF KeysInv, KeysSame, Readably, LastWord
  <1>3. PairQueues
    BY DEF PairOrder
  <1>4. Jointly'
    <2>1. /\ pToServer # <<>> /\ pToServer' = Tail(pToServer) /\ Head(pToServer).t # "hs2"
          /\ "time" \in Word \ {"hs2"}
      BY DEF Pair!Skips, Pair!stores, Pair!setup, Pair!client, Word
    <2> QED BY <1>1, <1>3, <2>1, JointlyStays
  <1> QED BY <1>2, <1>4 DEF KeysInv

LEMMA SharesKeys ==
  ASSUME PairOrder, KeysInv, Pair!Shares PROVE KeysInv'
  <1>1. /\ UNCHANGED <<pToClient, pPump, pSrvKeys, pCliKeys>> /\ (Joint' => Joint)
        /\ (pSrv = "rekeys" => pSrv' = "rekeys") /\ (pSrv = "failed" => pSrv' = "failed")
    BY DEF Pair!Shares, Pair!Event, Pair!stores, Pair!setup, Pair!client, Joint
  <1>2. KeysSame' /\ Readably' /\ LastWord'
    BY <1>1 DEF KeysInv, KeysSame, Readably, LastWord
  <1>3. PairQueues
    BY DEF PairOrder
  <1>4. Jointly'
    <2>0. "auth" \in Word \ {"hs2"}
      BY DEF Word
    <2>1. CASE Pair!ToServer(<<"auth">>)
      <3>1. \/ pToServer' = pToServer
            \/ pToServer' = Append(pToServer, [t |-> "auth", k |-> pCliKeys.send])
        BY <1>3, <2>0, <2>1, SayOne
      <3> QED BY <1>1, <1>3, <2>0, <3>1, JointlyStays
    <2> QED BY <2>1 DEF Pair!Shares
  <1> QED BY <1>2, <1>4 DEF KeysInv

LEMMA PairAskedKeys ==
  ASSUME PairOrder, KeysInv, Pair!PairAsked PROVE KeysInv'
  <1>1. /\ UNCHANGED <<pToClient, pPump, pSrvKeys, pCliKeys>> /\ (Joint' => Joint)
        /\ (pSrv = "rekeys" => pSrv' = "rekeys") /\ (pSrv = "failed" => pSrv' = "failed")
    BY DEF Pair!PairAsked, Pair!Event, Pair!stores, Pair!setup, Pair!client, Joint
  <1>2. KeysSame' /\ Readably' /\ LastWord'
    BY <1>1 DEF KeysInv, KeysSame, Readably, LastWord
  <1>3. PairQueues
    BY DEF PairOrder
  <1>4. Jointly'
    <2>0. "final" \in Word \ {"hs2"} /\ "init" \in Word \ {"hs2"}
      BY DEF Word
    <2>1. CASE Pair!ToServer(<<"final">>)
      <3>1. \/ pToServer' = pToServer
            \/ pToServer' = Append(pToServer, [t |-> "final", k |-> pCliKeys.send])
        BY <1>3, <2>0, <2>1, SayOne
      <3> QED BY <1>1, <1>3, <2>0, <3>1, JointlyStays
    <2>2. CASE Pair!ToServer(<<"init">>)
      <3>1. \/ pToServer' = pToServer
            \/ pToServer' = Append(pToServer, [t |-> "init", k |-> pCliKeys.send])
        BY <1>3, <2>0, <2>2, SayOne
      <3> QED BY <1>1, <1>3, <2>0, <3>1, JointlyStays
    <2> QED BY <2>1, <2>2 DEF Pair!PairAsked
  <1> QED BY <1>2, <1>4 DEF KeysInv

LEMMA HelperSendsKeys ==
  ASSUME PairOrder, KeysInv, Pair!HelperSends PROVE KeysInv'
  <1>1. /\ UNCHANGED <<pToClient, pPump, pSrvKeys, pCliKeys>> /\ (Joint' => Joint)
        /\ (pSrv = "rekeys" => pSrv' = "rekeys") /\ (pSrv = "failed" => pSrv' = "failed")
    BY DEF Pair!HelperSends, Pair!stores, Pair!setup, Pair!client, Joint
  <1>2. KeysSame' /\ Readably' /\ LastWord'
    BY <1>1 DEF KeysInv, KeysSame, Readably, LastWord
  <1>3. PairQueues
    BY DEF PairOrder
  <1>4. Jointly'
    <2>1. "time" \in Word /\ "time" \in Word \ {"hs2"} /\ pToServer \in Seq(Message)
      BY <1>3 DEF Word, PairQueues
    <2>2. Pair!Say(<<"time">>) = <<[t |-> "time", k |-> pCliKeys.send]>> /\ [t |-> "time", k |-> pCliKeys.send] \in Message
      BY <1>3, <2>1 DEF Pair!Say, Message, PairQueues
    <2>3. \/ pToServer' = pToServer
          \/ pToServer' = Append(pToServer, [t |-> "time", k |-> pCliKeys.send])
      BY <2>1, <2>2, AppendIsConcat DEF Pair!HelperSends
    <2> QED BY <1>1, <1>3, <2>1, <2>3, JointlyStays
  <1> QED BY <1>2, <1>4 DEF KeysInv

\* The steps that end or begin a connection, or that send to the client.
LEMMA ConnectKeys ==
  ASSUME PairOrder, KeysInv, Pair!Connect PROVE KeysInv'
  <1>1. /\ pPump = "off" /\ NoneOf(pToClient, "hs1")
    BY DEF PairOrder, Disconnected, KeysInv, LastWord, Pair!Connect
  <1> QED BY <1>1 DEF KeysInv, KeysSame, Readably, Jointly, Joint, LastWord, Pair!Connect

LEMMA LegacyKeys ==
  ASSUME PairOrder, KeysInv, Pair!Legacy PROVE KeysInv'
  <1>1. /\ pPump = "off" /\ NoneOf(pToClient, "hs1")
    BY DEF PairOrder, Disconnected, KeysInv, LastWord, Pair!Legacy
  <1> QED BY <1>1 DEF KeysInv, KeysSame, Readably, Jointly, Joint, LastWord, Pair!Legacy

LEMMA HandshakeKeys ==
  ASSUME PairOrder, KeysInv, Pair!Handshake PROVE KeysInv'
  <1>1. pToClient' = <<>> /\ pToServer' = <<>>
    BY DEF PairOrder, Disconnected, Pair!Handshake
  <1>2. /\ pSrvKeys'.send = 1 /\ pSrvKeys'.recv = 1 /\ pCliKeys'.send = 1 /\ pCliKeys'.recv = 1
        /\ pPump' = "reads"
    BY DEF Pair!Handshake
  <1> QED BY <1>1, <1>2, QueueEmpty DEF KeysInv, KeysSame, Readably, Jointly, LastWord

LEMMA HelloKeys ==
  ASSUME PairOrder, KeysInv, Pair!Hello PROVE KeysInv'
  <1>1. pSrv = "hello" /\ pCli = "loop" /\ UNCHANGED <<pPump, pSrvKeys, pCliKeys, pCli>> /\ PairQueues
    BY DEF PairOrder, Disconnected, Pair!Hello, Pair!client
  <1>2. \/ pSrv' \in {"needsPairing", "failed"} /\ pToClient' = <<>> /\ pToServer' = <<>>
        \/ \E w \in {"activate", "pair"} :
             /\ pToClient' = Append(pToClient, [t |-> w, k |-> pSrvKeys.send])
             /\ pToServer' = pToServer
    BY DEF Pair!Hello, Pair!ServerFails, Pair!ToClient
  <1>3. CASE pSrv' \in {"needsPairing", "failed"} /\ pToClient' = <<>> /\ pToServer' = <<>>
    <2>1. pPump # "switches"
      BY <1>1 DEF KeysInv, LastWord
    <2> QED BY <1>1, <1>3, <2>1, QueueEmpty DEF KeysInv, KeysSame, Readably, Jointly, Joint, LastWord
  <1>4. ASSUME NEW w \in {"activate", "pair"}, pToClient' = Append(pToClient, [t |-> w, k |-> pSrvKeys.send]),
               pToServer' = pToServer
        PROVE  KeysInv'
    <2>1. w \in Word /\ w # "hs1" /\ w # "hs2" /\ w \in Word \ {"hs2"} /\ Joint
      BY <1>1 DEF Word, Joint
    <2>2. KeysSame' /\ Readably' /\ pPump # "switches" /\ NoneOf(pToClient', "hs1")
      BY <1>1, <1>4, <2>1, ServerSends
    <2>3. Jointly'
      BY <1>1, <1>4, <2>1, JointlyStays
    <2> QED BY <1>1, <2>2, <2>3 DEF KeysInv, LastWord
  <1> QED BY <1>2, <1>3, <1>4

LEMMA CodeAskedKeys ==
  ASSUME PairOrder, KeysInv, Pair!CodeAsked PROVE KeysInv'
  <1>1. /\ pSrv = "awaitsInit" /\ UNCHANGED <<pPump, pSrvKeys, pCliKeys, pCli>> /\ PairQueues /\ Joint
        /\ pToServer # <<>> /\ pToServer' = Tail(pToServer) /\ Head(pToServer).t # "hs2"
    BY DEF PairOrder, Disconnected, SrvEngaged, SrvWaits, Joint, Pair!CodeAsked, Pair!Takes, Pair!client
  <1>2. "init" \in Word /\ "auth" \in Word /\ "abort" \in Word /\ "hs1" \in Word /\ "init" \in Word \ {"hs2"}
    BY DEF Word
  <1>3. Jointly'
    BY <1>1, <1>2, JointlyStays
  <1>4. KeysSame' /\ Readably' /\ pPump # "switches" /\ NoneOf(pToClient', "hs1")
    <2>1. CASE pToClient' = Append(pToClient, [t |-> "abort", k |-> pSrvKeys.send])
      BY <1>1, <1>2, <2>1, ServerSends
    <2>2. CASE pToClient' = pToClient \o <<[t |-> "init", k |-> pSrvKeys.send], [t |-> "auth", k |-> pSrvKeys.send]>>
      <3> DEFINE a == [t |-> "init", k |-> pSrvKeys.send]
                 b == [t |-> "auth", k |-> pSrvKeys.send]
                 q == Append(pToClient, a)
      <3>1. /\ pToClient \in Seq(Message) /\ pSrvKeys.send \in Nat
            /\ pSrvKeys.send = pCliKeys.recv /\ NoneOf(pToClient, "hs1") /\ pPump # "switches"
        BY <1>1 DEF PairQueues, KeysInv, KeysSame, Jointly, LastWord
      <3>2. a \in Message /\ a.t = "init" /\ a.k = pSrvKeys.send /\ b \in Message /\ b.t = "auth" /\ b.k = pSrvKeys.send
        BY <1>2, <3>1 DEF Message
      <3>3. pToClient' = Append(q, b)
        <4>1. "init" \in Word \ {"pair", "confirm", "final"} /\ "auth" \in Word \ {"pair", "confirm", "final"}
          BY DEF Word
        <4>2. pEvents' = pEvents
          BY DEF Pair!CodeAsked, Pair!client
        <4> QED BY <1>1, <2>2, <3>1, <4>1, <4>2, KeptSendingTwo
      <3> HIDE DEF a, b
      <3>4. /\ q \in Seq(Message) /\ (AllUnder(pToClient, pSrvKeys.send) => AllUnder(q, pSrvKeys.send))
            /\ NoneOf(q, "hs1")
        BY <3>1, <3>2, QueueToClient
      <3> HIDE DEF q
      <3>5. /\ (AllUnder(q, pSrvKeys.send) => AllUnder(pToClient', pSrvKeys.send))
            /\ NoneOf(pToClient', "hs1")
        BY <3>2, <3>3, <3>4, QueueToClient
      <3> QED BY <1>1, <3>1, <3>4, <3>5 DEF KeysInv, KeysSame, Readably
    <2> QED BY <2>1, <2>2 DEF Pair!CodeAsked, Pair!ToClient
  <1> QED BY <1>1, <1>3, <1>4 DEF KeysInv, LastWord

LEMMA ConfirmsKeys ==
  ASSUME PairOrder, KeysInv, Pair!Confirms PROVE KeysInv'
  <1>1. /\ pSrv = "awaitsAuth" /\ UNCHANGED <<pPump, pSrvKeys, pCliKeys, pCli>> /\ PairQueues /\ Joint
        /\ pToServer # <<>> /\ pToServer' = Tail(pToServer) /\ Head(pToServer).t # "hs2"
        /\ pToClient' = Append(pToClient, [t |-> "confirm", k |-> pSrvKeys.send])
    BY DEF PairOrder, Disconnected, SrvEngaged, SrvWaits, Joint, Pair!Confirms, Pair!Takes, Pair!client,
       Pair!ToClient
  <1>2. "confirm" \in Word /\ "confirm" \in Word \ {"hs2"} /\ "confirm" # "hs1"
    BY DEF Word
  <1>3. Jointly'
    BY <1>1, <1>2, JointlyStays
  <1>4. KeysSame' /\ Readably' /\ pPump # "switches" /\ NoneOf(pToClient', "hs1")
    BY <1>1, <1>2, ServerSends
  <1> QED BY <1>1, <1>3, <1>4 DEF KeysInv, LastWord

LEMMA AcknowledgesKeys ==
  ASSUME PairOrder, KeysInv, Pair!Acknowledges PROVE KeysInv'
  <1>1. /\ pSrv = "stored" /\ UNCHANGED <<pPump, pSrvKeys, pCliKeys, pCli>> /\ PairQueues /\ Joint
        /\ pToServer' = pToServer
        /\ pToClient' = Append(pToClient, [t |-> "final", k |-> pSrvKeys.send])
    BY DEF PairOrder, Disconnected, SrvEngaged, Joint, Pair!Acknowledges, Pair!client, Pair!ToClient
  <1>2. "final" \in Word /\ "final" \in Word \ {"hs2"} /\ "final" # "hs1"
    BY DEF Word
  <1>3. Jointly'
    BY <1>1, <1>2, JointlyStays
  <1>4. KeysSame' /\ Readably' /\ pPump # "switches" /\ NoneOf(pToClient', "hs1")
    BY <1>1, <1>2, ServerSends
  <1> QED BY <1>1, <1>3, <1>4 DEF KeysInv, LastWord

LEMMA StartsRekeyKeys ==
  ASSUME PairOrder, KeysInv, Pair!StartsRekey PROVE KeysInv'
  <1>1. /\ pSrv = "starts" /\ pSrv' = "rekeys" /\ UNCHANGED <<pPump, pSrvKeys, pCliKeys, pCli>> /\ PairQueues /\ Joint
        /\ pToServer' = pToServer
        /\ pToClient' = Append(pToClient, [t |-> "hs1", k |-> pSrvKeys.send])
    BY DEF PairOrder, Disconnected, SrvEngaged, Joint, Pair!StartsRekey, Pair!client, Pair!ToClient
  <1>2. "hs1" \in Word /\ "hs1" \in Word \ {"hs2"}
    BY DEF Word
  <1>3. Jointly'
    BY <1>1, <1>2, JointlyStays
  <1>4. KeysSame' /\ Readably' /\ pPump # "switches" /\ LastOnly(pToClient', "hs1")
    BY <1>1, <1>2, ServerSends
  <1> QED BY <1>1, <1>3, <1>4 DEF KeysInv, LastWord

LEMMA RekeyedKeys ==
  ASSUME PairOrder, KeysInv, Pair!Rekeyed PROVE KeysInv'
  <1>1. /\ pSrv = "rekeys" /\ pSrv' = "playing" /\ UNCHANGED <<pPump, pCliKeys, pCli>> /\ PairQueues /\ Joint
        /\ pToServer # <<>> /\ pToServer' = Tail(pToServer) /\ Head(pToServer).t = "hs2"
        /\ pToClient' = Append(pToClient, [t |-> "activate", k |-> 2])
        /\ pSrvKeys'.send = 2 /\ pSrvKeys'.recv = 2
    BY DEF PairOrder, Disconnected, SrvEngaged, Joint, Pair!Rekeyed, Pair!Takes, Pair!client
  <1>2. /\ pToServer \in Seq(Message) /\ pSrvKeys.recv \in Nat /\ pCliKeys.recv \in Nat /\ pCliKeys.send = pCliKeys.recv
        /\ "activate" \in Word /\ "hs1" \in Word
    BY <1>1 DEF PairQueues, KeysInv, KeysSame, Word
  <1>3. ~Before(pToServer, pSrvKeys.recv)
    <2>1. 1 \in DOMAIN pToServer /\ pToServer[1].t = "hs2"
      BY <1>1, <1>2
    <2> QED BY <2>1 DEF Before
  <1>4. /\ Switching(pToServer, pSrvKeys.recv, pCliKeys.recv) /\ pCliKeys.recv = 2
        /\ pToClient = <<>> /\ pPump = "reads"
    BY <1>1, <1>3 DEF KeysInv, Jointly
  <1>5. Before(pToServer', pCliKeys.recv)
    BY <1>1, <1>2, <1>4, QueueTail
  <1>6. AllUnder(pToClient', 2) /\ NoneOf(pToClient', "hs1")
    <2>1. [t |-> "activate", k |-> 2] \in Message /\ <<>> \in Seq(Message)
      BY <1>2 DEF Message
    <2>2. AllUnder(<<>>, 2) /\ NoneOf(<<>>, "hs1")
      BY QueueEmpty
    <2>3. pToClient' = Append(<<>>, [t |-> "activate", k |-> 2])
      BY <1>1, <1>4
    <2> DEFINE e == [t |-> "activate", k |-> 2]
    <2>4. e.t = "activate" /\ e.k = 2 /\ e \in Message
      BY <2>1
    <2>5. pToClient' = Append(<<>>, e)
      BY <2>3
    <2> HIDE DEF e
    <2>6. e.t # "hs1"
      BY <2>4
    <2> QED BY <2>1, <2>2, <2>4, <2>5, <2>6, QueueToClient
  <1> QED BY <1>1, <1>2, <1>4, <1>5, <1>6 DEF KeysInv, KeysSame, Readably, Jointly, LastWord

LEMMA ServerTimesOutKeys ==
  ASSUME PairOrder, KeysInv, Pair!ServerTimesOut PROVE KeysInv'
  <1>1. /\ pSrv' = "failed" /\ UNCHANGED <<pPump, pSrvKeys, pCliKeys>> /\ pToClient' = <<>>
    BY DEF Pair!ServerTimesOut, Pair!ServerFails, Pair!client
  <1> QED BY <1>1, QueueEmpty DEF KeysInv, KeysSame, Readably, Jointly, Joint, LastWord

LEMMA PumpReadsKeys ==
  ASSUME PairOrder, KeysInv, Pair!PumpReads PROVE KeysInv'
  <1>1. /\ pPump = "reads" /\ pToClient # <<>> /\ pToClient' = Tail(pToClient) /\ PairQueues
        /\ UNCHANGED <<pSrv, pCli, pPump, pToServer, pSrvKeys, pCliKeys>>
    BY DEF PairOrder, Pair!PumpReads, Pair!Readable
  <1>2. pToClient \in Seq(Message) /\ "hs1" \in Word /\ "hs1" \in Word \ {"hs2"} /\ pCliKeys.recv \in Nat
    BY <1>1 DEF PairQueues, Word
  <1>3. AllUnder(pToClient', pCliKeys.recv)
    BY <1>1, <1>2, QueueTail DEF KeysInv, Readably
  <1>4. NoneOf(pToClient', "hs1") \/ (pSrv = "rekeys" /\ LastOnly(pToClient', "hs1"))
    BY <1>1, <1>2, QueueTail DEF KeysInv, LastWord
  <1>5. Jointly'
    BY <1>1, <1>2, JointlyStays DEF Joint
  <1> QED BY <1>1, <1>3, <1>4, <1>5 DEF KeysInv, KeysSame, Readably, LastWord

LEMMA PumpResolvesKeys ==
  ASSUME PairOrder, KeysInv, Pair!PumpResolves PROVE KeysInv'
  <1>1. /\ pPump = "reads" /\ pToClient # <<>> /\ pToClient' = Tail(pToClient) /\ PairQueues
        /\ Head(pToClient).t = "hs1" /\ pPump' \in {"switches", "off"}
        /\ UNCHANGED <<pSrv, pCli, pToServer, pSrvKeys, pCliKeys>>
    BY DEF PairOrder, Pair!PumpResolves, Pair!Readable
  <1>2. pToClient \in Seq(Message) /\ "hs1" \in Word /\ "hs1" \in Word \ {"hs2"} /\ pCliKeys.recv \in Nat
    BY <1>1 DEF PairQueues, Word
  <1>3. ~NoneOf(pToClient, "hs1")
    <2>1. 1 \in DOMAIN pToClient /\ pToClient[1].t = "hs1"
      BY <1>1, <1>2
    <2> QED BY <2>1 DEF NoneOf
  <1>4. pSrv = "rekeys" /\ LastOnly(pToClient, "hs1")
    BY <1>3 DEF KeysInv, LastWord
  <1>5. pToClient' = <<>>
    BY <1>1, <1>2, <1>4, QueueTail
  <1>6. Jointly'
    BY <1>1, <1>2, JointlyStays DEF Joint
  <1> QED BY <1>1, <1>4, <1>5, <1>6, QueueEmpty DEF KeysInv, KeysSame, Readably, LastWord

LEMMA PumpSwitchesKeys ==
  ASSUME PairOrder, KeysInv, Pair!PumpSwitches PROVE KeysInv'
  <1>1. /\ pPump = "switches" /\ pPump' = "reads" /\ UNCHANGED <<pSrv, pCli, pToClient, pSrvKeys>> /\ PairQueues
        /\ pToServer' = Append(pToServer, [t |-> "hs2", k |-> pCliKeys.send])
        /\ pCliKeys'.send = 2 /\ pCliKeys'.recv = 2
    BY DEF PairOrder, Pair!PumpSwitches, Pair!Answer2
  <1>2. pToClient = <<>> /\ pSrv \in {"rekeys", "failed"}
    BY <1>1 DEF KeysInv, LastWord
  <1>3. /\ pToServer \in Seq(Message) /\ pSrvKeys.recv \in Nat /\ pCliKeys.send \in Nat /\ pCliKeys.send = pCliKeys.recv
        /\ "hs2" \in Word
    BY <1>1 DEF PairQueues, KeysInv, KeysSame, Word
  <1>4. ASSUME Joint' PROVE pSrv = "rekeys" /\ Switching(pToServer', pSrvKeys.recv, 2)
    <2>1. Joint /\ pSrv = "rekeys"
      BY <1>1, <1>2, <1>4 DEF Joint
    <2>2. pCliKeys.send = pSrvKeys.recv /\ Before(pToServer, pSrvKeys.recv)
      BY <1>1, <1>3, <2>1 DEF KeysInv, Jointly
    <2> DEFINE e == [t |-> "hs2", k |-> pCliKeys.send]
    <2>3. e \in Message /\ e.t = "hs2" /\ e.k = pCliKeys.send /\ pToServer' = Append(pToServer, e)
      BY <1>1, <1>3 DEF Message
    <2> HIDE DEF e
    <2>4. \A c \in Nat : Switching(pToServer', pCliKeys.send, c)
      BY <1>3, <2>2, <2>3, QueueAppend
    <2> QED BY <2>1, <2>2, <2>4
  <1> QED BY <1>1, <1>2, <1>4, QueueEmpty DEF KeysInv, KeysSame, Readably, Jointly, LastWord

LEMMA ClientConfirmsKeys ==
  ASSUME PairOrder, KeysInv, Pair!ClientConfirms PROVE KeysInv'
  <1>1. /\ UNCHANGED <<pSrv, pToClient, pPump, pSrvKeys, pCliKeys>> /\ (Joint' => Joint) /\ PairQueues
    BY DEF PairOrder, Pair!ClientConfirms, Pair!setup, Joint
  <1>2. KeysSame' /\ Readably' /\ LastWord'
    BY <1>1 DEF KeysInv, KeysSame, Readably, LastWord
  <1>3. /\ "abort" \in Word /\ "confirm" \in Word /\ "final" \in Word /\ "abort" \in Word \ {"hs2"}
        /\ pToServer \in Seq(Message) /\ pSrvKeys.recv \in Nat /\ pCliKeys.send \in Nat
        /\ pCliKeys.send = pCliKeys.recv
    BY <1>1 DEF Word, PairQueues, KeysInv, KeysSame
  <1>4. Jointly'
    <2>1. CASE Pair!ToServer(<<"abort">>)
      <3>1. \/ pToServer' = pToServer
            \/ pToServer' = Append(pToServer, [t |-> "abort", k |-> pCliKeys.send])
        BY <1>1, <1>3, <2>1, SayOne
      <3> QED BY <1>1, <1>3, <3>1, JointlyStays
    <2>2. CASE Pair!ToServer(<<"confirm", "final">>)
      <3> DEFINE a == [t |-> "confirm", k |-> pCliKeys.send]
                 b == [t |-> "final", k |-> pCliKeys.send]
                 q == Append(pToServer, a)
      <3>1. pToServer' = pToServer \/ pToServer' = Append(q, b)
        BY <1>1, <1>3, <2>2, SayTwo
      <3>2. a \in Message /\ a.t = "confirm" /\ a.k = pCliKeys.send /\ b \in Message /\ b.t = "final" /\ b.k = pCliKeys.send
        BY <1>3 DEF Message
      <3> HIDE DEF a, b
      <3>3. /\ q \in Seq(Message)
            /\ Before(pToServer, pCliKeys.send) => Before(q, pCliKeys.send)
            /\ \A s \in Nat : Switching(pToServer, s, pCliKeys.send) => Switching(q, s, pCliKeys.send)
        <4>1. q = Append(pToServer, a)
          OBVIOUS
        <4> HIDE DEF q
        <4> QED BY <1>3, <3>2, <4>1, QueueToServer
      <3> HIDE DEF q
      <3>4. CASE pToServer' = Append(q, b)
        <4>1. /\ Before(q, pCliKeys.send) => Before(pToServer', pCliKeys.send)
              /\ \A s \in Nat : Switching(q, s, pCliKeys.send) => Switching(pToServer', s, pCliKeys.send)
          BY <1>3, <3>2, <3>3, <3>4, QueueToServer
        <4> QED BY <1>1, <1>3, <3>3, <4>1 DEF KeysInv, Jointly
      <3>5. CASE pToServer' = pToServer
        BY <1>1, <1>3, <3>5, JointlyStays
      <3> QED BY <3>1, <3>4, <3>5
    <2> QED BY <2>1, <2>2 DEF Pair!ClientConfirms
  <1> QED BY <1>2, <1>4 DEF KeysInv

LEMMA LostKeys ==
  ASSUME PairOrder, KeysInv, Pair!Lost PROVE KeysInv'
  <1>1. /\ pCli' = "idle" /\ pPump' = "off" /\ pToClient' = <<>> /\ UNCHANGED <<pSrvKeys, pCliKeys>>
    BY DEF Pair!Lost
  <1> QED BY <1>1, QueueEmpty DEF KeysInv, KeysSame, Readably, Jointly, Joint, LastWord

LEMMA KeysNext == ASSUME PairOrder, KeysInv, Pair!Next PROVE KeysInv'
  BY ConnectKeys, LegacyKeys, HandshakeKeys, HelloKeys, SkipsKeys, CodeAskedKeys, ConfirmsKeys,
     ConfirmedKeys, AbortedKeys, StoresKeys, AcknowledgesKeys, StartsRekeyKeys, RekeyedKeys,
     ServerTimesOutKeys, PumpReadsKeys, PumpResolvesKeys, PumpSwitchesKeys, PairAskedKeys, ShowsCodeKeys,
     SharesKeys, ClientConfirmsKeys, ClientStoresKeys, MainTakesKeys, HelperLooksKeys, HelperSendsKeys,
     LostKeys DEF Pair!Next

\* The three together are inductive.
PairInv == PairWho /\ PairOrder /\ KeysInv

LEMMA PairInit == Pair!Init => PairInv
  <1> SUFFICES ASSUME Pair!Init PROVE PairInv
    OBVIOUS
  <1>1. /\ pToClient = <<>> /\ pToServer = <<>> /\ pEvents = <<>>
    BY DEF Pair!Init
  <1>2. PairWho /\ PairCounts /\ Disconnected
    BY DEF Pair!Init, PairWho, PairCounts, Disconnected, Pair!NeverDowngraded, SrvWaits, SrvEngaged
  <1>3. PairQueues
    <2>1. pToClient \in Seq(Message) /\ pToServer \in Seq(Message) /\ pEvents \in Seq(Word)
      BY <1>1
    <2>2. pSrvKeys \in [send : Nat, recv : Nat] /\ pCliKeys \in [send : Nat, recv : Nat]
      BY DEF Pair!Init
    <2> QED BY <2>1, <2>2 DEF PairQueues
  <1>4. \A m \in Word : ~Due(m) /\ ~Said(m) /\ Once(m)
    BY <1>1 DEF Due, Sent, Taken, Said, Once
  <1>5. "pair" \in Word /\ "confirm" \in Word /\ "final" \in Word
    BY DEF Word
  <1>6. OncePerConnection /\ PastAsking /\ RecordsOrdered
    BY <1>4, <1>5 DEF Pair!Init, OncePerConnection, PastAsking, RecordsOrdered, CliWaits
  <1>7. KeysInv
    BY <1>1, QueueEmpty DEF Pair!Init, KeysInv, KeysSame, Readably, Jointly, Joint, LastWord
  <1> QED BY <1>2, <1>3, <1>6, <1>7 DEF PairInv, PairOrder

LEMMA PairNext == PairInv /\ [Pair!Next]_pVars => PairInv'
  <1>1. ASSUME PairInv, Pair!Next PROVE PairInv'
    BY <1>1, WhoNext, OrderNext, KeysNext DEF PairInv, PairOrder, PairCounts
  <1>2. ASSUME PairInv, UNCHANGED pVars PROVE PairInv'
    BY <1>2 DEF pVars, PairInv, PairWho, PairOrder, PairCounts, PairQueues, Disconnected, OncePerConnection,
         PastAsking, RecordsOrdered, KeysInv, KeysSame, Readably, Jointly, Joint, LastWord, Due, Sent, Taken,
         Said, Once, Pair!NeverDowngraded
  <1> QED BY <1>1, <1>2

LEMMA PairVars == [Pair!Next]_(Pair!vars) => [Pair!Next]_pVars
  BY DEF Pair!vars, pVars

LEMMA PairSafe == PairInv => PairingKept /\ KeysInStep
  <1> SUFFICES ASSUME PairInv PROVE PairingKept /\ KeysInStep
    OBVIOUS
  <1>1. PairingKept
    BY DEF PairInv, PairWho, PairOrder, RecordsOrdered, PairingKept, Pair!ServerStoresFirst
  <1>2. /\ pToClient \in Seq(Message) /\ pToServer \in Seq(Message) /\ pSrvKeys.recv \in Nat /\ pCliKeys.recv \in Nat
        /\ "hs1" \in Word
    BY DEF PairInv, PairOrder, PairQueues, Word
  <1>3. ASSUME pToServer # <<>>, pSrv \notin {"failed", "needsPairing"}
               PROVE Head(pToServer).k = pSrvKeys.recv
    <2>1. Joint
      BY <1>3 DEF PairInv, PairOrder, Disconnected, Joint
    <2>2. Before(pToServer, pSrvKeys.recv) \/ Switching(pToServer, pSrvKeys.recv, pCliKeys.recv)
      BY <2>1 DEF PairInv, KeysInv, Jointly
    <2> QED BY <1>2, <1>3, <2>2, QueueTail
  <1>4. ASSUME pToClient # <<>>, pPump = "reads" PROVE Head(pToClient).k = pCliKeys.recv
    BY <1>2, <1>4, QueueTail DEF PairInv, KeysInv, Readably
  <1> QED BY <1>1, <1>3, <1>4 DEF KeysInStep, Pair!KeysInStep

\* Over any number of connections lost at any message: the client never has a
\* record the server has not stored first, and a speaker that is paired is
\* streamed to on its own key or not at all.
THEOREM PairingHolds == Pair!Spec => []PairingKept
  BY PairInit, PairNext, PairVars, PairSafe, PTL DEF Pair!Spec

\* The keys are switched in mid-stream, by two ends of several threads each:
\* every message that will be read was written under the key of its reader.
THEOREM KeysSwitchedInStep == Pair!Spec => []KeysInStep
  BY PairInit, PairNext, PairVars, PairSafe, PTL DEF Pair!Spec
===============================================================================
