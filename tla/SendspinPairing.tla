--------------------------- MODULE SendspinPairing ---------------------------
(* A Sendspin server bringing up a player: the handshake and the keys it     *)
(* ends with, pairing by token or code, the records both ends store, and     *)
(* the re-handshake onto the new long-term key.  The two ends are the        *)
(* code's own, joined as the loopback test of handshake.rs joins them; in    *)
(* the program each meets somebody else's.  The client's reader thread       *)
(* (pump) switches keys by itself, ahead of its main thread; a helper        *)
(* thread of the client sends clock requests at any time.                    *)
EXTENDS Naturals, Sequences

CONSTANTS MaxConnects     \* bound on the connections of a behaviour

ConstantsOK == MaxConnects \in Nat

Inputs == {"none", "token", "oldToken", "code"}

VARIABLES
    connects,
    serverRec, clientRec,   \* the long-term key in each store: 0, or the n-th generated
    keysMade,
    failures,               \* the client's count of wrong codes
    peer,                   \* who answers: "player", "other", or "legacy" (unencrypted)
    hadRec,                 \* the server's record when the connection began
    input,                  \* the user's pairing input
    category,               \* the key both ends are on, as the server knows it
    cliCategory,
    srv, cli, pump,         \* the places of the server, the client and its pump
    toClient, toServer,     \* messages on the wire, each [t, k]: its type and key epoch
    events,                 \* from the pump to the client's main thread
    srvKeys, cliKeys,       \* key epochs: [send, recv]
    rekeying, helper,
    newKey,                 \* the long-term key the client made in this attempt
    codeRight

vars == <<connects, serverRec, clientRec, keysMade, failures, peer, hadRec, input, category,
          cliCategory, srv, cli, pump, toClient, toServer, events, srvKeys, cliKeys, rekeying,
          helper, newKey, codeRight>>
stores == <<connects, serverRec, clientRec, keysMade, failures>>
setup == <<peer, hadRec, input>>
client == <<cliCategory, cli, pump, events, cliKeys, rekeying, helper, newKey>>

Init ==
    /\ connects = 0 /\ serverRec = 0 /\ clientRec = 0 /\ keysMade = 0 /\ failures = 0
    /\ peer = "player" /\ hadRec = 0 /\ input = "none" /\ category = "none" /\ cliCategory = "none"
    /\ srv = "idle" /\ cli = "idle" /\ pump = "off"
    /\ toClient = <<>> /\ toServer = <<>> /\ events = <<>>
    /\ srvKeys = [send |-> 0, recv |-> 0] /\ cliKeys = [send |-> 0, recv |-> 0]
    /\ rekeying = FALSE /\ helper = "idle" /\ newKey = 0 /\ codeRight = TRUE

ToClient(m) == toClient' = Append(toClient, [t |-> m, k |-> srvKeys.send])
Say(ms) == [i \in DOMAIN ms |-> [t |-> ms[i], k |-> cliKeys.send]]
\* The client's ordinary sends are dropped while it re-keys.
ToServer(ms) == toServer' = IF rekeying THEN toServer ELSE toServer \o Say(ms)

ServerFails(why) == srv' = why /\ toClient' = <<>> /\ toServer' = <<>>

-----------------------------------------------------------------------------
(* The handshake. *)

\* The key the server refers to.
Referenced ==
    IF input \in {"token", "oldToken"} THEN "Pairing"
    ELSE IF input = "none" /\ serverRec > 0 THEN "LongTerm" ELSE "Sentinel"

\* The key they end up with: the client falls back to the Sentinel for one it does not have.
Agreed ==
    CASE Referenced = "Pairing" -> IF input = "token" THEN "Pairing" ELSE "Sentinel"
      [] Referenced = "LongTerm" -> IF clientRec = serverRec /\ peer = "player" THEN "LongTerm" ELSE "Sentinel"
      [] OTHER -> "Sentinel"

\* A connection to whatever answers at the speaker's name.
Connect ==
    /\ srv \in {"idle", "failed", "needsPairing"} /\ cli = "idle" /\ connects < MaxConnects
    /\ connects' = connects + 1
    /\ peer' \in {"player", "other", "legacy"}
    /\ input' \in Inputs /\ (peer' # "player" => input' = "none")
    /\ hadRec' = serverRec
    /\ srv' = "connected" /\ cli' = "handshake"
    /\ UNCHANGED <<serverRec, clientRec, keysMade, failures, category, cliCategory, pump, toClient, toServer,
                   events, srvKeys, cliKeys, rekeying, helper, newKey, codeRight>>

LegacyPlays == IF serverRec > 0 THEN "failed" ELSE "playing"

Legacy ==
    /\ srv = "connected" /\ peer = "legacy"
    /\ srv' = LegacyPlays
    /\ category' = "plain"
    /\ cli' = "idle"
    /\ UNCHANGED <<stores, setup, cliCategory, pump, toClient, toServer, events, srvKeys, cliKeys,
                   rekeying, helper, newKey, codeRight>>

Handshake ==
    /\ srv = "connected" /\ peer # "legacy"
    /\ category' = Agreed /\ cliCategory' = Agreed
    /\ srv' = "hello" /\ cli' = "loop" /\ pump' = "reads"
    /\ srvKeys' = [send |-> 1, recv |-> 1] /\ cliKeys' = [send |-> 1, recv |-> 1]
    /\ events' = <<>> /\ rekeying' = FALSE /\ newKey' = 0 /\ codeRight' = TRUE
    /\ UNCHANGED <<stores, setup, toClient, toServer, helper>>

\* Another identity than the one paired here, and a credential that was lost, must be paired again.
MustPair ==
    \/ serverRec > 0 /\ peer = "other" /\ input = "none"
    \/ Referenced = "LongTerm" /\ category = "Sentinel" /\ input = "none"

\* After the hellos: play, pair, or give up.
Hello ==
    /\ srv = "hello"
    /\ \/ MustPair /\ ServerFails("needsPairing") /\ UNCHANGED category
       \/ ~MustPair /\ input = "oldToken" /\ ServerFails("failed") /\ UNCHANGED category
       \/ /\ ~MustPair /\ category = "LongTerm"
          /\ srv' = "playing" /\ ToClient("activate") /\ UNCHANGED <<toServer, category>>
       \/ \E unpairedAccess \in BOOLEAN :
            /\ ~MustPair /\ category = "Sentinel" /\ input = "none"
            /\ IF unpairedAccess THEN srv' = "playing" /\ ToClient("activate") /\ UNCHANGED toServer
               ELSE ServerFails("needsPairing")
            /\ UNCHANGED category
       \/ /\ ~MustPair /\ input \in {"token", "code"}
          /\ srv' = IF input = "token" THEN "awaitsFinal" ELSE "awaitsInit"
          /\ ToClient("pair") /\ UNCHANGED <<toServer, category>>
    /\ UNCHANGED <<stores, setup, client, srvKeys, codeRight>>

-----------------------------------------------------------------------------
(* The server's side of pairing. *)

\* The server takes the next message; others than those it waits for are skipped.
Takes(m) ==
    /\ toServer # <<>>
    /\ Head(toServer).t = m /\ Head(toServer).k = srvKeys.recv
    /\ toServer' = Tail(toServer)

Skips ==
    /\ srv \in {"awaitsInit", "awaitsAuth", "awaitsConfirm", "awaitsFinal", "rekeys", "hello", "playing"}
    /\ toServer # <<>> /\ Head(toServer).t = "time" /\ Head(toServer).k = srvKeys.recv
    /\ toServer' = Tail(toServer)
    /\ UNCHANGED <<stores, setup, category, srv, client, toClient, srvKeys, codeRight>>

\* The user types the code the player shows, or another, or cancels.
CodeAsked ==
    /\ srv = "awaitsInit" /\ Takes("init")
    /\ \/ \E right \in BOOLEAN :
            /\ codeRight' = right
            /\ srv' = "awaitsAuth"
            /\ toClient' = toClient \o <<[t |-> "init", k |-> srvKeys.send], [t |-> "auth", k |-> srvKeys.send]>>
       \/ srv' = "failed" /\ ToClient("abort") /\ UNCHANGED codeRight
    /\ UNCHANGED <<stores, setup, category, client, srvKeys>>

Confirms ==
    /\ srv = "awaitsAuth" /\ Takes("auth")
    /\ srv' = "awaitsConfirm" /\ ToClient("confirm")
    /\ UNCHANGED <<stores, setup, category, client, srvKeys, codeRight>>

\* The client's confirmation is verified against the code, the nonces and the commitment.
Confirmed ==
    /\ srv = "awaitsConfirm" /\ Takes("confirm")
    /\ srv' = "awaitsFinal"
    /\ UNCHANGED <<stores, setup, category, client, toClient, srvKeys, codeRight>>

Aborted ==
    /\ srv \in {"awaitsInit", "awaitsAuth", "awaitsConfirm", "awaitsFinal"} /\ Takes("abort")
    /\ srv' = "failed"
    /\ UNCHANGED <<stores, setup, category, client, toClient, srvKeys, codeRight>>

\* Acknowledged with nothing stored yet.
StoresLate ==
    /\ srv = "awaitsFinal" /\ Takes("final")
    /\ srv' = "stored" /\ ToClient("final")
    /\ UNCHANGED <<stores, setup, category, client, srvKeys, codeRight>>

\* The record is stored, and acknowledged after that.
Stores ==
    /\ srv = "awaitsFinal" /\ Takes("final")
    /\ serverRec' = newKey
    /\ srv' = "stored"
    /\ UNCHANGED <<connects, clientRec, keysMade, failures, setup, category, client, toClient, srvKeys, codeRight>>

Acknowledges ==
    /\ srv = "stored"
    /\ srv' = "starts" /\ ToClient("final")
    /\ UNCHANGED <<stores, setup, category, client, toServer, srvKeys, codeRight>>

\* The first message of the re-handshake follows at once.
StartsRekey ==
    /\ srv = "starts"
    /\ srv' = "rekeys" /\ ToClient("hs1")
    /\ UNCHANGED <<stores, setup, category, client, toServer, srvKeys, codeRight>>

\* Message 2, still under the old keys, switches both directions.
Rekeyed ==
    /\ srv = "rekeys" /\ Takes("hs2")
    /\ srvKeys' = [send |-> 2, recv |-> 2]
    /\ category' = "LongTerm"
    /\ srv' = "playing"
    /\ toClient' = Append(toClient, [t |-> "activate", k |-> 2])
    /\ UNCHANGED <<stores, setup, client, codeRight>>

\* Every wait of the server has a time limit.
ServerTimesOut ==
    /\ srv \in {"connected", "hello", "awaitsInit", "awaitsAuth", "awaitsConfirm", "awaitsFinal", "rekeys"}
    /\ ServerFails("failed")
    /\ UNCHANGED <<stores, setup, category, client, srvKeys, codeRight>>

-----------------------------------------------------------------------------
(* The client. *)

\* A message is decrypted with the key of the moment; the wrong one ends the connection.
Readable == toClient # <<>> /\ Head(toClient).k = cliKeys.recv

PumpReads ==
    /\ pump = "reads" /\ Readable /\ Head(toClient).t # "hs1"
    /\ events' = Append(events, Head(toClient).t)
    /\ toClient' = Tail(toClient)
    /\ UNCHANGED <<stores, setup, category, cliCategory, srv, cli, pump, toServer, srvKeys, cliKeys,
                   rekeying, helper, newKey, codeRight>>

\* Message 1 reaches the pump, which looks the key up in the store itself: if the main thread
\* has not stored it yet, there is no such key and the connection ends.
PumpResolves ==
    /\ pump = "reads" /\ Readable /\ Head(toClient).t = "hs1"
    /\ rekeying' = TRUE
    /\ toClient' = Tail(toClient)
    /\ pump' = IF clientRec = serverRec THEN "switches" ELSE "off"
    /\ events' = IF clientRec = serverRec THEN events ELSE Append(events, "rekeyFailed")
    /\ UNCHANGED <<stores, setup, category, cliCategory, srv, cli, toServer, srvKeys, cliKeys, helper,
                   newKey, codeRight>>

\* Message 2 goes out under the old key and the new one is installed, with nothing in between.
Answer2New(key) == toServer' = Append(toServer, [t |-> "hs2", k |-> 2])
Answer2(key) == toServer' = Append(toServer, [t |-> "hs2", k |-> key])

PumpSwitches ==
    /\ pump = "switches"
    /\ Answer2(cliKeys.send)
    /\ cliKeys' = [send |-> 2, recv |-> 2]
    /\ pump' = "reads"
    /\ events' = Append(events, "rekeyed")
    /\ UNCHANGED <<stores, setup, category, cliCategory, srv, cli, toClient, srvKeys, rekeying, helper,
                   newKey, codeRight>>

\* The main thread's next event.
Event(m) == events # <<>> /\ Head(events) = m /\ events' = Tail(events)

PairAsked ==
    /\ cli = "loop" /\ Event("pair")
    /\ IF cliCategory = "Pairing"
       THEN /\ keysMade' = keysMade + 1 /\ newKey' = keysMade + 1
            /\ ToServer(<<"final">>) /\ cli' = "awaitsFinal"
       ELSE ToServer(<<"init">>) /\ cli' = "awaitsInit" /\ UNCHANGED <<keysMade, newKey>>
    /\ UNCHANGED <<connects, serverRec, clientRec, failures, setup, category, cliCategory, srv, pump,
                   toClient, srvKeys, cliKeys, rekeying, helper, codeRight>>

ShowsCode ==
    /\ cli = "awaitsInit" /\ Event("init")
    /\ cli' = "awaitsAuth"
    /\ UNCHANGED <<stores, setup, category, cliCategory, srv, pump, toClient, toServer, srvKeys,
                   cliKeys, rekeying, helper, newKey, codeRight>>

Shares ==
    /\ cli = "awaitsAuth" /\ Event("auth")
    /\ cli' = "awaitsConfirm" /\ ToServer(<<"auth">>)
    /\ UNCHANGED <<stores, setup, category, cliCategory, srv, pump, toClient, srvKeys, cliKeys,
                   rekeying, helper, newKey, codeRight>>

\* The server's confirmation tells a wrong code, which is counted and ends the connection.
ClientConfirms ==
    /\ cli = "awaitsConfirm" /\ Event("confirm")
    /\ IF codeRight
       THEN /\ keysMade' = keysMade + 1 /\ newKey' = keysMade + 1
            /\ ToServer(<<"confirm", "final">>) /\ cli' = "awaitsFinal"
            /\ UNCHANGED failures
       ELSE /\ failures' = failures + 1
            /\ ToServer(<<"abort">>) /\ cli' = "closing" /\ UNCHANGED <<keysMade, newKey>>
    /\ UNCHANGED <<connects, serverRec, clientRec, setup, category, cliCategory, srv, pump, toClient,
                   srvKeys, cliKeys, rekeying, helper, codeRight>>

\* The record is stored once the server has acknowledged.
ClientStores ==
    /\ cli = "awaitsFinal" /\ Event("final")
    /\ clientRec' = newKey /\ failures' = 0
    /\ cli' = "loop"
    /\ UNCHANGED <<connects, serverRec, keysMade, setup, category, cliCategory, srv, pump, toClient,
                   toServer, srvKeys, cliKeys, rekeying, helper, newKey, codeRight>>

\* An activation lets ordinary messages through again; any other event is skipped.
MainTakes ==
    /\ cli \in {"loop", "awaitsInit", "awaitsAuth", "awaitsConfirm", "awaitsFinal"} /\ events # <<>>
    /\ events' = Tail(events)
    /\ \/ /\ cli = "loop" /\ Head(events) = "rekeyed"
          /\ cliCategory' = "LongTerm" /\ UNCHANGED <<cli, rekeying>>
       \/ Head(events) = "activate" /\ rekeying' = FALSE /\ cli' = "loop" /\ UNCHANGED cliCategory
       \/ Head(events) = "abort" /\ cli' = "loop" /\ UNCHANGED <<cliCategory, rekeying>>
       \/ /\ Head(events) = "rekeyFailed" \/ (Head(events) = "rekeyed" /\ cli # "loop")
          /\ cli' = "closing" /\ UNCHANGED <<cliCategory, rekeying>>
    /\ UNCHANGED <<stores, setup, category, srv, pump, toClient, toServer, srvKeys, cliKeys, helper,
                   newKey, codeRight>>

\* The helper looks at the flag, and encrypts and writes after that.
HelperLooks ==
    /\ helper = "idle" /\ cli = "loop" /\ ~rekeying /\ Len(toServer) < 2
    /\ helper' = "sends"
    /\ UNCHANGED <<stores, setup, category, cliCategory, srv, cli, pump, toClient, toServer, events,
                   srvKeys, cliKeys, rekeying, newKey, codeRight>>

HelperSends ==
    /\ helper = "sends"
    /\ helper' = "idle"
    /\ toServer' = IF srv \in {"idle", "failed", "needsPairing"} THEN toServer ELSE toServer \o Say(<<"time">>)
    /\ UNCHANGED <<stores, setup, category, cliCategory, srv, cli, pump, toClient, events, srvKeys,
                   cliKeys, rekeying, newKey, codeRight>>

-----------------------------------------------------------------------------
\* The connection is lost, or one end's program ends: what is not stored is gone.
Lost ==
    /\ cli # "idle" /\ srv \notin {"idle"}
    /\ srv' = IF srv = "needsPairing" THEN srv ELSE "failed"
    /\ UNCHANGED <<stores, setup, category, codeRight>>
    /\ cli' = "idle" /\ pump' = "off" /\ events' = <<>> /\ toClient' = <<>> /\ toServer' = <<>>
    /\ rekeying' = FALSE /\ helper' = "idle" /\ newKey' = 0 /\ cliCategory' = "none"
    /\ UNCHANGED <<srvKeys, cliKeys>>

Next ==
    \/ Connect \/ Legacy \/ Handshake \/ Hello
    \/ Skips \/ CodeAsked \/ Confirms \/ Confirmed \/ Aborted \/ Stores \/ Acknowledges
    \/ StartsRekey \/ Rekeyed \/ ServerTimesOut
    \/ PumpReads \/ PumpResolves \/ PumpSwitches
    \/ PairAsked \/ ShowsCode \/ Shares \/ ClientConfirms \/ ClientStores \/ MainTakes
    \/ HelperLooks \/ HelperSends \/ Lost

Spec == Init /\ [][Next]_vars

-----------------------------------------------------------------------------
\* The client never has a key the server does not have, or has had: the server stores first.
ServerStoresFirst == clientRec <= serverRec

\* A speaker that is paired is streamed to on its own long-term key, or not at all: not
\* another device at its name, not unencrypted, not on the public key after it lost its own.
NeverDowngraded == srv = "playing" /\ hadRec > 0 => peer = "player" /\ category = "LongTerm"

\* Whatever overtakes whatever around the switch, each message arrives under the key its
\* reader has by then.
KeysInStep ==
    /\ toServer # <<>> /\ srv \notin {"failed", "needsPairing"} => Head(toServer).k = srvKeys.recv
    /\ toClient # <<>> /\ pump = "reads" => Head(toClient).k = cliKeys.recv
=============================================================================
