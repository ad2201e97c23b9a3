----------------------------- MODULE HapPairing -----------------------------
(* HomeKit pairing with an AirPlay 2 receiver: transient, by the PIN on its  *)
(* screen, and by the keys kept from that.  Cryptography is symbolic: two    *)
(* sides share a session key when they used one PIN and hashed the same      *)
(* bytes.  Every request waits for its reply, so one action is a request, the*)
(* receiver's handling, the reply if it comes, and what is made of it.       *)
EXTENDS Naturals, FiniteSets

CONSTANTS
    NoPairing, Damaged,     \* of the stored pairing; Damaged does not parse
    Owner, Stranger,        \* the receiver meant, and one that may have its address
    MaxUpsets,              \* changes of devices, addresses, files and runs
    MaxTries                \* connects and ceremonies

VARIABLES
    memory,     \* the user_config in use: the controller identity (0: none) and the pairing
    disk,       \* config.json
    minted,     \* identities made so far
    lost,       \* and of them those no later run could have
    owed,       \* the pairing the user made last and did not forget
    dev,        \* a device: its key, its pairing list, whether it asks for a PIN and shows one,
                \* and whether it was reset or removed the pairing since
    at,         \* the device at the receiver's address
    link,       \* the exchange under way
    channel,    \* the encrypted channel it ended in
    outcome,    \* how the last one ended
    upsets, tries

vars == <<memory, disk, minted, lost, owed, dev, at, link, channel, outcome, upsets, tries>>
ours == <<memory, disk, minted, lost>>

Devices == {Owner, Stranger}
Pairings == [ctl : Nat, seed : Nat, acc : Devices, key : Nat]
ConstantsOK == NoPairing # Damaged /\ {NoPairing, Damaged} \intersect Pairings = {}

Numbers == {"A", "B", "S"}          \* of SRP: both public keys, the secret
Slots == 2                          \* a device's pairing list; a reset empties it
Idle == [kind |-> "idle"]
NoChannel == [dev |-> NoPairing]

\* A message: lost on the way either way, refused in its status line, no TLV
\* or of another State, with an error in it, or as it should be.
Answers == {"lost", "status", "garbled", "error", "good"}
AskForPin == {"required", "damaged", "not_proven", "refused"}

Init ==
    /\ memory = [ident |-> 0, pairing |-> NoPairing] /\ disk = memory
    /\ minted = 0 /\ lost = 0 /\ owed = NoPairing
    /\ dev = [d \in Devices |-> [key |-> 1, peers |-> {}, asks |-> d = Owner, shows |-> FALSE,
                             cut |-> FALSE]]
    /\ at = Owner /\ link = Idle /\ channel = NoChannel /\ outcome = "none"
    /\ upsets = 0 /\ tries = 0

------------------------------------------------------------------------------
(* SRP: what is hashed at its natural length, what padded to the modulus.    *)
Natural(n, short) == <<n, "natural">>
Padded(n, short) == IF n \in short THEN <<n, "padded">> ELSE Natural(n, short)

\* A is drawn again while its first byte is zero; B and S come as they come.
Draws == SUBSET {"B", "S"}

SessionKey(pin, short) == <<pin, Padded("A", short), Padded("B", short), Natural("S", short)>>
Proof(pin, short) == <<Natural("A", short), Natural("B", short), SessionKey(pin, short)>>
\* verify_server hashes A as it was sent; of receivers, the ADK hashes it
\* padded, pair_ap at natural length.
ExpectsOf(pin, short) == <<Padded("A", short), Proof(pin, short)>>
TheirProofs(pin, short) ==
    {<<Padded("A", short), Proof(pin, short)>>, <<Natural("A", short), Proof(pin, short)>>}
\* A receiver strips the zero bytes of A and B for the proof.
TheyExpect(pin, short) ==
    <<<<"A", "natural">>, <<"B", "natural">>,
      <<pin, Padded("A", short), Padded("B", short), <<"S", "natural">>>>>>

------------------------------------------------------------------------------
Ends(how) == link' = Idle /\ channel' = NoChannel /\ outcome' = how
Opens(verified) ==
    /\ link' = Idle /\ outcome' = "paired"
    /\ channel' = [dev |-> link.dev, key |-> dev[link.dev].key, verified |-> verified, owed |-> link.owed]
Goes(l) == link' = l /\ UNCHANGED <<channel, outcome>>
Still == UNCHANGED <<ours, owed, at, upsets, tries>>

Begins == link = Idle /\ tries < MaxTries /\ tries' = tries + 1

\* start_airplay_one: a stored pairing is parsed before anything is sent, and
\* one that parses is verified and nothing else.
Connect ==
    /\ Begins
    /\ CASE memory.pairing = Damaged -> Ends("damaged")
         [] memory.pairing = NoPairing ->
               Goes([kind |-> "transient", next |-> 1, dev |-> at, owed |-> owed, short |-> {}])
         [] OTHER ->
               Goes([kind |-> "verify", next |-> 1, dev |-> at, pairing |-> memory.pairing, owed |-> owed])
    /\ UNCHANGED <<ours, owed, dev, at, upsets>>

\* pair_setup_transient: a 470 to M1 is the receiver's wish for a PIN.
TransientM1 ==
    /\ link.kind = "transient" /\ link.next = 1
    /\ \E a \in Answers :
          CASE a = "good" /\ dev[link.dev].asks -> Ends("required")
            [] a = "good" /\ ~dev[link.dev].asks ->
                  \E short \in Draws : Goes([link EXCEPT !.next = 3, !.short = short])
            [] OTHER -> Ends("failed")
    /\ UNCHANGED dev /\ Still

TransientM3 ==
    /\ link.kind = "transient" /\ link.next = 3
    /\ \E a \in Answers, proof \in TheirProofs("3939", link.short) :
          IF a # "good" THEN Ends("failed")
          ELSE IF \/ Proof("3939", link.short) # TheyExpect("3939", link.short)
                  \/ proof # ExpectsOf("3939", link.short)
          THEN Ends("no_match")
          ELSE Opens(FALSE)
    /\ UNCHANGED dev /\ Still

------------------------------------------------------------------------------
(* pair_verify: how far the peer got decides what is said of it.             *)
VerifyM1 ==
    /\ link.kind = "verify" /\ link.next = 1
    /\ \E a \in Answers :
          CASE a = "lost" -> Ends("no_answer")
            [] a = "good" /\ link.dev = link.pairing.acc /\ dev[link.dev].key = link.pairing.key ->
                  Goes([link EXCEPT !.next = 3])
            [] OTHER -> Ends("not_proven")
    /\ UNCHANGED dev /\ Still

Knows(d, p) == [ctl |-> p.ctl, ltpk |-> p.seed] \in dev[d].peers

VerifyM3 ==
    /\ link.kind = "verify" /\ link.next = 3
    /\ \E a \in Answers :
          CASE a \in {"lost", "garbled"} -> Ends("no_answer")
            [] a \in {"status", "error"} \/ ~Knows(link.dev, link.pairing) -> Ends("refused")
            [] OTHER -> Opens(TRUE)
    /\ UNCHANGED dev /\ Still

------------------------------------------------------------------------------
(* The PIN ceremony: one connection to have the PIN shown, another when it   *)
(* has been typed.  The controller's identity is made once and kept.         *)
ShowPin ==
    /\ link = Idle /\ outcome \in AskForPin
    /\ \E a \in Answers :
          IF a = "lost" \/ a = "status" THEN Ends("failed") /\ UNCHANGED dev
          ELSE /\ link' = [kind |-> "shown"] /\ UNCHANGED <<channel, outcome>>
               /\ dev' = [dev EXCEPT ![at].shows = TRUE]
    /\ Still

Identity == IF memory.ident # 0 THEN memory.ident ELSE minted + 1

\* Saved before the first message; a save that fails leaves the file as it was.
Keeps(config) ==
    /\ memory' = config
    /\ \/ disk' = config /\ UNCHANGED upsets
       \/ UNCHANGED disk /\ upsets < MaxUpsets /\ upsets' = upsets + 1

TypePin ==
    /\ link.kind = "shown" /\ tries < MaxTries /\ tries' = tries + 1
    /\ \E right \in BOOLEAN :
          Goes([kind |-> "setup", next |-> 1, dev |-> at, right |-> right, ident |-> Identity,
                short |-> {}])
    /\ IF memory.ident # 0 THEN UNCHANGED <<memory, disk, minted, upsets>>
       ELSE minted' = Identity /\ Keeps([memory EXCEPT !.ident = Identity])
    /\ UNCHANGED <<lost, owed, dev, at>>

NoPin ==
    /\ link.kind = "shown" /\ Ends("cancelled") /\ UNCHANGED dev /\ Still

SetupM1 ==
    /\ link.kind = "setup" /\ link.next = 1
    /\ \E a \in Answers :
          IF a = "good" /\ dev[link.dev].shows
          THEN \E short \in Draws : Goes([link EXCEPT !.next = 3, !.short = short])
          ELSE Ends("failed")
    /\ UNCHANGED dev /\ Still

\* The receiver has one PIN on its screen; "wrong" is any other.
Typed == IF link.right THEN "shown" ELSE "wrong"

SetupM3 ==
    /\ link.kind = "setup" /\ link.next = 3
    /\ \E a \in Answers, proof \in TheirProofs("shown", link.short) :
          IF a # "good" THEN Ends("failed")
          ELSE IF \/ Proof(Typed, link.short) # TheyExpect("shown", link.short)
                  \/ proof # ExpectsOf(Typed, link.short)
          THEN Ends(IF link.right THEN "no_match" ELSE "wrong_pin")
          ELSE Goes([link EXCEPT !.next = 5])
    /\ UNCHANGED dev /\ Still

\* M5 adds this controller to the receiver's list, in the place it has there
\* already; M6 may be lost after that.
Listed(d) ==
    {p \in dev[d].peers : p.ctl # link.ident} \union {[ctl |-> link.ident, ltpk |-> link.ident]}

SetupM5 ==
    /\ link.kind = "setup" /\ link.next = 5
    /\ \E a \in Answers :
          LET d == link.dev
              takes == dev[d].shows /\ Cardinality(Listed(d)) <= Slots
              added == [dev EXCEPT ![d].peers = Listed(d), ![d].shows = FALSE]
              made == [ctl |-> link.ident, seed |-> link.ident, acc |-> d, key |-> dev[d].key]
          IN IF takes /\ a = "good"
             THEN /\ dev' = [added EXCEPT ![d].cut = FALSE]
                  /\ Ends("stored") /\ owed' = made /\ Keeps([memory EXCEPT !.pairing = made])
             ELSE /\ dev' = dev \/ (takes /\ dev' = added)
                  /\ Ends("failed") /\ UNCHANGED <<memory, disk, owed, upsets>>
    /\ UNCHANGED <<minted, lost, at, tries>>

------------------------------------------------------------------------------
(* The user, the devices and the program's runs.                             *)
Upset == upsets < MaxUpsets /\ upsets' = upsets + 1

Forget ==
    /\ memory.pairing # NoPairing
    /\ memory' = [memory EXCEPT !.pairing = NoPairing] /\ owed' = NoPairing
    /\ Upset /\ disk' = memory'
    /\ UNCHANGED <<minted, lost, dev, at, link, channel, outcome, tries>>

\* A reset makes new keys and empties the list; the owner may also take this
\* controller off it, or turn the asking for a PIN off and on.
DeviceChanges(d) ==
    /\ Upset
    /\ \/ dev' = [dev EXCEPT ![d].key = @ + 1, ![d].peers = {}, ![d].shows = FALSE, ![d].cut = TRUE]
       \/ \E p \in dev[d].peers : dev' = [dev EXCEPT ![d].peers = @ \ {p}, ![d].cut = TRUE]
       \/ dev' = [dev EXCEPT ![d].asks = ~@]
    /\ UNCHANGED <<ours, owed, at, link, channel, outcome, tries>>

AddressMoves ==
    /\ Upset /\ at' \in Devices \ {at}
    /\ UNCHANGED <<ours, owed, dev, link, channel, outcome, tries>>

\* Killed at any point; the next run may not be able to open the identity, or
\* finds the pairing edited.
Restart ==
    /\ Upset
    /\ \E opens, edited \in BOOLEAN :
          /\ memory' = [ident |-> IF opens THEN disk.ident ELSE 0,
                        pairing |-> IF edited /\ disk.pairing # NoPairing THEN Damaged ELSE disk.pairing]
          /\ lost' = IF memory'.ident # memory.ident THEN lost + 1 ELSE lost
          /\ owed' = IF memory'.pairing = owed THEN owed ELSE NoPairing
    /\ disk' = memory'
    /\ link' = Idle /\ channel' = NoChannel /\ outcome' = "none"
    /\ UNCHANGED <<minted, dev, at, tries>>

Next ==
    \/ Connect \/ TransientM1 \/ TransientM3 \/ VerifyM1 \/ VerifyM3
    \/ ShowPin \/ TypePin \/ NoPin \/ SetupM1 \/ SetupM3 \/ SetupM5
    \/ Forget \/ AddressMoves \/ Restart
    \/ \E d \in Devices : DeviceChanges(d)

Spec == Init /\ [][Next]_vars

------------------------------------------------------------------------------
\* A pairing kept is one its receiver keeps too, of the key it has, until the
\* receiver is reset or removes it (or it could not be saved): whichever message of which ceremony was
\* lost, and whatever was typed in between.
PairingHolds ==
    LET p == memory.pairing
    IN p # NoPairing /\ p = owed /\ ~dev[p.acc].cut => dev[p.acc].key = p.key /\ Knows(p.acc, p)

\* Once the user has paired, nothing but the receiver with that key is
\* connected to until the user forgets it: no answer takes the pairing away.
NeverDowngraded ==
    channel # NoChannel /\ channel.owed # NoPairing =>
        channel.dev = channel.owed.acc /\ channel.key = channel.owed.key

\* The right PIN is never refused for a number that starts with a zero byte.
RightPinPairs == outcome # "no_match"

\* Pairing again takes no other place in a receiver's list.
OnePlace == \A d \in Devices : Cardinality(dev[d].peers) <= 1 + lost

PairingKept == PairingHolds /\ NeverDowngraded /\ RightPinPairs /\ OnePlace
==============================================================================
