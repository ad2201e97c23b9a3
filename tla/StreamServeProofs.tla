-------------------------- MODULE StreamServeProofs --------------------------
(***************************************************************************)
(* For any number of selects, connections and addresses: what is bound is  *)
(* granted and nothing else is once selects and stops are over             *)
(* (BoundIsGranted), and the budgets of connections bound every host and   *)
(* make room for those they are for (ServedRightly).                       *)
(*                                                                         *)
(* BoundIsGranted is not inductive: a select that binds must still hold    *)
(* the grant it made before the handshake, the session it replaced, whose  *)
(* grant goes when it has stopped, must be another one, and no two selects *)
(* may be under way, lest one overwrite the session of the other.          *)
(* GrantInv says who holds each grant: a select that has not bound yet,    *)
(* the session or a thread that stops a session.                           *)
(*                                                                         *)
(* ServedRightly speaks of the connections that are open, the code counts  *)
(* those it tracks: ConnInv says that they are the same, each tracked      *)
(* once, so that the counts agree (CountsAgree).                           *)
(***************************************************************************)
EXTENDS StreamServe, FiniteSetTheorems, SequenceTheorems, WellFoundedInduction, TLAPS

Unbound == {"up", "stop", "bind"}       \* a select that holds its own grant
Late == {"prune", "flags", "cut", "done"}

TypeOK ==
    /\ streaming \in BOOLEAN
    /\ grants \in SUBSET Selects
    /\ target \in [Selects -> Peers \cup {NoPeer}]
    /\ session \in Selects \cup {0}
    /\ pc \in [Pruners -> {"ready", "take"} \cup Unbound \cup Late]
    /\ old \in [Pruners -> Selects \cup {0}]

GrantInv ==
    /\ \A i, j \in Selects : Idle(i) \/ Idle(j) \/ i = j
    /\ \A i \in Selects : pc[i] \in {"stop", "bind"} => session = 0
    /\ \A i \in Selects : pc[i] \in Unbound => i \in grants
    /\ session # 0 => session \in grants /\ pc[session] \in Late
    /\ \A a \in Pruners : old[a] # 0 =>
            pc[a] = "stop" /\ old[a] # session /\ pc[old[a]] \in Late
    /\ \A g \in grants : g = session \/ pc[g] \in Unbound \/ \E a \in Pruners : old[a] = g

IInv == TypeOK /\ GrantInv

\* The user's thread is not one of the selects.
LEMMA UserApart == User = 0 /\ 0 \in Pruners /\ 0 \notin Selects /\ Selects \subseteq Pruners
  BY BoundsAssumption DEF User, Selects, Pruners

\* Initially nothing is granted.
LEMMA InitGrants == Init => IInv
  BY UserApart DEF Init, IInv, TypeOK, GrantInv, Idle, Unbound, Late

-----------------------------------------------------------------------------
\* The steps of a select.
LEMMA StartGrants ==
  ASSUME IInv, NEW i \in Selects, NEW p \in Peers, StartSelect(i, p)
  PROVE  IInv'
  <1> USE UserApart DEF IInv, TypeOK, Unbound, Late, StartSelect, Go
  <1>1. TypeOK'
    OBVIOUS
  <1>2. i # session /\ \A a \in Pruners : old[a] # i
    BY DEF GrantInv, Idle
  <1>3. GrantInv'
    BY <1>2, <1>1 DEF GrantInv, Idle
  <1> QED BY <1>1, <1>3

LEMMA BringUpGrants ==
  ASSUME IInv, NEW i \in Selects, BringUpFails(i) \/ TakeOld(i) \/ Bind(i)
  PROVE  IInv'
  <1> USE UserApart DEF IInv, TypeOK, Unbound, Late, Go
  <1>1. i # session /\ \A a \in Pruners : old[a] # i
    BY DEF GrantInv, Idle, BringUpFails, TakeOld, Bind
  <1>2. CASE BringUpFails(i)
    BY <1>1, <1>2 DEF GrantInv, Idle, BringUpFails, Revoked
  <1>3. CASE TakeOld(i)
    <2> USE <1>1, <1>3 DEF TakeOld
    <2>1. TypeOK' /\ \A b \in Pruners : b # i => old'[b] = old[b]
      OBVIOUS
    <2>2. old[i] = 0 /\ old'[i] = session /\ session' = 0
      BY DEF GrantInv, Idle
    <2>3. \A g \in grants' :
              g = session' \/ pc'[g] \in Unbound \/ \E b \in Pruners : old'[b] = g
      <3> SUFFICES ASSUME NEW g \in grants, pc[g] \notin Unbound, g # session
                   PROVE  \E b \in Pruners : old'[b] = g
        BY <2>2
      <3>1. PICK b \in Pruners : old[b] = g
        BY DEF GrantInv, Idle
      <3> QED BY <3>1, <2>1, <2>2
    <2>4. \A b \in Pruners : old'[b] # 0 =>
              pc'[b] = "stop" /\ old'[b] # session' /\ pc'[old'[b]] \in Late
      BY <2>1, <2>2 DEF GrantInv, Idle
    <2>5. \A j \in Selects : pc'[j] \in Unbound => j \in grants'
      BY DEF GrantInv, Idle
    <2> QED BY <2>1, <2>2, <2>3, <2>4, <2>5 DEF GrantInv, Idle
  <1>4. CASE Bind(i)
    <2>1. /\ pc' = [pc EXCEPT ![i] = "prune"] /\ old' = old /\ i \in grants /\ i # 0
          /\ TypeOK'
      BY <1>4 DEF Bind, Revoked, GrantInv
    <2>2. CASE streaming
      BY <1>1, <1>4, <2>1, <2>2 DEF GrantInv, Idle, Bind
    <2>3. CASE ~streaming
      BY <1>1, <1>4, <2>1, <2>3 DEF GrantInv, Idle, Bind, Revoked
    <2> QED BY <2>2, <2>3
  <1> QED BY <1>2, <1>3, <1>4

\* The steps selects and the user's switches share.
LEMMA StopGrants ==
  ASSUME IInv, NEW a \in Pruners, StopOld(a)
  PROVE  IInv'
  <1> USE UserApart DEF IInv, TypeOK, Unbound, Late, Go, StopOld, Revoked
  <1>1. TypeOK'
    OBVIOUS
  <1>2. \A i \in Selects : pc'[i] \in Unbound => i \in grants'
    BY DEF GrantInv, Idle
  <1>3. session' # 0 => session' \in grants' /\ pc'[session'] \in Late
    BY DEF GrantInv, Idle
  <1>4. \A b \in Pruners : old'[b] # 0 =>
            pc'[b] = "stop" /\ old'[b] # session' /\ pc'[old'[b]] \in Late
    BY DEF GrantInv, Idle
  <1>6. /\ \A i, j \in Selects : Idle(i)' \/ Idle(j)' \/ i = j
        /\ \A i \in Selects : pc'[i] \in {"stop", "bind"} => session' = 0
    BY DEF GrantInv, Idle
  <1>5. \A g \in grants' :
            g = session' \/ pc'[g] \in Unbound \/ \E b \in Pruners : old'[b] = g
    <2> SUFFICES ASSUME NEW g \in grants', g # session', pc'[g] \notin Unbound
                 PROVE  \E b \in Pruners : old'[b] = g
      OBVIOUS
    <2>1. g \in grants /\ g # old[a] /\ g # session /\ g \in Selects
      OBVIOUS
    <2>2. pc[g] \notin Unbound
      BY <2>1
    <2>3. PICK b \in Pruners : old[b] = g
      BY <2>1, <2>2 DEF GrantInv, Idle
    <2> QED BY <2>1, <2>3
  <1> QED BY <1>1, <1>2, <1>3, <1>4, <1>5, <1>6 DEF GrantInv, Idle

LEMMA PruneGrants ==
  ASSUME IInv, NEW a \in Pruners, CopyGrants(a) \/ CopyFlags(a) \/ CutClients(a)
  PROVE  IInv'
  <1> USE UserApart
  <1>1. pc[a] \in {"prune", "flags", "cut"} /\ pc'[a] \in Late \cup {"ready"}
    BY DEF IInv, TypeOK, CopyGrants, CopyFlags, CutClients, Go, Late
  <1>2. a # User => pc'[a] \in Late
    BY DEF IInv, TypeOK, CopyGrants, CopyFlags, CutClients, Go, Late
  <1>3. pc' = [pc EXCEPT ![a] = pc'[a]]
    BY DEF IInv, TypeOK, CopyGrants, CopyFlags, CutClients, Go
  <1>4. UNCHANGED <<streaming, grants, target, session, old>>
    BY DEF CopyGrants, CopyFlags, CutClients
  <1> QED BY <1>1, <1>2, <1>3, <1>4 DEF IInv, TypeOK, GrantInv, Idle, Unbound, Late

\* The user's switches: the thread that has just begun holds no session.
LEMMA SwitchGrants ==
  ASSUME IInv, UserSwitch \/ TakeSession
  PROVE  IInv'
  <1> USE UserApart
  <1>1. CASE UserSwitch
    <2>1. PICK state \in {"take", "ready", "prune"} : pc[User] = "ready" /\ Go(User, state)
      BY <1>1 DEF UserSwitch, Disable, EndSession, Enable, NewLink, SetPrivacy, SetWeb, Throws
    <2>2. UNCHANGED <<grants, target, session, old>> /\ streaming' \in BOOLEAN
      BY <1>1 DEF UserSwitch, Disable, EndSession, Enable, NewLink, SetPrivacy, SetWeb,
                  gateVars, IInv, TypeOK
    <2> QED BY <2>1, <2>2 DEF Go, IInv, TypeOK, GrantInv, Idle, Unbound, Late
  <1>2. CASE TakeSession
    BY <1>2 DEF TakeSession, Go, IInv, TypeOK, GrantInv, Idle, Unbound, Late
  <1> QED BY <1>1, <1>2

\* Every step keeps account of who holds each grant.
LEMMA NextGrants == IInv /\ [Next]_vars => IInv'
  <1> SUFFICES ASSUME IInv, [Next]_vars PROVE IInv'
    OBVIOUS
  <1> USE UserApart
  <1>1. ASSUME NEW i \in Selects, SelectStep(i) PROVE IInv'
    BY <1>1, BringUpGrants, StopGrants, PruneGrants DEF SelectStep
  <1>2. ASSUME NEW i \in Selects, NEW p \in Speakers, StartSelect(i, p) PROVE IInv'
    BY <1>2, StartGrants DEF Peers
  <1>3. ASSUME UserSwitch \/ UserStep PROVE IInv'
    BY <1>3, SwitchGrants, StopGrants, PruneGrants DEF UserStep
  <1>4. ASSUME UNCHANGED appVars PROVE IInv'
    BY <1>4 DEF appVars, gateVars, IInv, TypeOK, GrantInv, Idle
  <1> QED BY <1>1, <1>2, <1>3, <1>4 DEF Next, ApiSelect, vars

\* Who holds each grant: every grant is held by a select that has not bound
\* yet, by the session or by the thread that stops it (stream_gate.rs, Grant).
THEOREM GrantsAreHeld == Spec => []IInv
  BY InitGrants, NextGrants, PTL DEF Spec

\* What is bound can fetch, and only that, for any number of selects.
THEOREM BoundIsServed == Spec => []BoundIsGranted
  <1>1. IInv => BoundIsGranted
    BY UserApart DEF IInv, TypeOK, GrantInv, BoundIsGranted, Granted, Unbound
  <1> QED BY <1>1, GrantsAreHeld, PTL

-----------------------------------------------------------------------------
\* What is tracked is what is open, once.
Phases == {"free", "head", "check", "decide", "sub", "send", "recv", "wait"}
Tracks(cs, open) ==
    /\ cs \in Seq(Conns)
    /\ \A j, k \in DOMAIN cs : cs[j] = cs[k] => j = k
    /\ \A c \in Conns : c \in open <=> \E k \in DOMAIN cs : cs[k] = c
ConnInv ==
    /\ ph \in [Conns -> Phases] /\ shut \in [Conns -> BOOLEAN]
    /\ peer \in [Conns -> Peers \cup {NoPeer}] /\ priority \in [Conns -> BOOLEAN]
    /\ Tracks(conns, Open)

\* The inductive invariant of the connections.
BudgetInv == ConnInv /\ HostsBounded

\* A step that opens and closes no connection.
Stays ==
    /\ ph' \in [Conns -> Phases] /\ \A c \in Conns : ph'[c] = "free" <=> ph[c] = "free"
    /\ UNCHANGED <<conns, peer, priority, shut>>
\* A connection's own step: it goes on or ends.
Goes(c) == Stays \/ Close(c)

LEMMA StaysAt ==
  ASSUME ConnInv, NEW c \in Conns, NEW f \in Phases \ {"free"}, ph[c] # "free", At(c, f),
         UNCHANGED <<conns, peer, priority, shut>>
  PROVE  Stays
  BY DEF ConnInv, Stays, At

LEMMA ReplyGoes ==
  ASSUME ConnInv, NEW c \in Conns, ph[c] # "free", NEW keepAlive, NEW body, NEW bodyRead,
         Reply(c, keepAlive, body, bodyRead)
  PROVE  Goes(c)
  <1>1. CASE Reusable(keepAlive, body, bodyRead)
    BY <1>1, StaysAt DEF Reply, Phases, Goes
  <1>2. CASE ~Reusable(keepAlive, body, bodyRead)
    BY <1>2 DEF Reply, Goes
  <1> QED BY <1>1, <1>2

LEMMA RequestGoes == ASSUME ConnInv, NEW c \in Conns, Requests(c) PROVE Goes(c)
  <1>1. CASE ForeignHost(c)
    BY <1>1 DEF ForeignHost, Goes
  <1>2. CASE AskGate(c, "get") \/ AskGate(c, "probe")
    BY <1>2, StaysAt DEF AskGate, Asks, Phases, Goes
  <1>3. ASSUME NEW keepAlive \in BOOLEAN, NEW body \in BOOLEAN,
               Page(c, keepAlive, body) \/ Notify(c, keepAlive, body)
        PROVE  Goes(c)
    BY <1>3, ReplyGoes DEF Page, Notify, Unread, Asks
  <1>4. ASSUME NEW keepAlive \in BOOLEAN, NEW body \in BOOLEAN, NEW k \in 1..key,
               ApiRefused(c, k, keepAlive, body) \/ ApiOther(c, k, keepAlive, body)
               \/ ApiSelectFails(c, k, keepAlive)
        PROVE  Goes(c)
    BY <1>4, ReplyGoes DEF ApiRefused, ApiOther, ApiSelectFails, Unread, Asks
  <1> QED BY <1>1, <1>2, <1>3, <1>4 DEF Requests

LEMMA GateGoes == ASSUME ConnInv, NEW c \in Conns, GateStep(c) PROVE Goes(c)
  <1>1. CASE ReadStreaming(c) \/ Subscribe(c) \/ Recheck(c) \/ SkipCheck(c)
    BY <1>1, StaysAt DEF ReadStreaming, Subscribe, Recheck, SkipCheck, Phases, Goes
  <1>2. ASSUME ph[c] # "free", Answer(c) PROVE Goes(c)
    BY <1>2, ReplyGoes DEF Answer
  <1>3. CASE Admit(c)
    <2>1. CASE asked[c] = "probe"
      BY <1>2, <1>3, <2>1 DEF Admit
    <2>2. CASE asked[c] # "probe"
      BY <1>3, <2>2, StaysAt DEF Admit, Phases, Goes
    <2> QED BY <2>1, <2>2
  <1>4. CASE Refuse(c)
    BY <1>2, <1>4 DEF Refuse, Goes
  <1> QED BY <1>1, <1>3, <1>4 DEF GateStep

LEMMA ThreadGoes == ASSUME ConnInv, NEW c \in Conns, ConnStep(c) PROVE Goes(c)
  <1>1. CASE HeadFails(c) \/ EndOfAudio(c) \/ SendFails(c)
    BY <1>1 DEF HeadFails, EndOfAudio, SendFails, Goes
  <1>2. CASE TakeFrame(c) \/ Sent(c)
    BY <1>2, StaysAt DEF TakeFrame, Sent, Phases, Goes
  <1>3. CASE Second(c)
    BY <1>3 DEF Second, ConnInv, Stays, Goes
  <1> QED BY <1>1, <1>2, <1>3, RequestGoes, GateGoes DEF ConnStep

\* What a step does to the connections: nothing, an end, or a newcomer.
LEMMA StepKinds ==
  ASSUME ConnInv, [Next]_vars
  PROVE  Stays \/ (\E c \in Conns : Close(c)) \/ (\E c \in Conns, p \in Peers : Accept(c, p))
  <1>1. ASSUME UNCHANGED connVars \/ Publish \/ \E a \in Pruners : CutClients(a)
        PROVE  Stays
    BY <1>1 DEF connVars, Publish, CutClients, ConnInv, Stays
  <1>2. ASSUME NEW i \in Selects, NEW p \in Speakers, NEW c \in Conns, NEW k \in 1..key,
               ApiSelect(c, k, i, p)
        PROVE  Goes(c)
    BY <1>2, ReplyGoes DEF ApiSelect, Asks
  <1>3. ASSUME NEW i \in Selects, SelectStep(i) PROVE Stays
    BY <1>1, <1>3, UserApart DEF SelectStep
  <1>4. ASSUME UserSwitch \/ UserStep PROVE Stays
    BY <1>1, <1>4, UserApart DEF UserSwitch, UserStep
  <1>5. CASE UNCHANGED vars
    BY <1>1, <1>5 DEF vars
  <1>6. CASE Next
    BY <1>1, <1>2, <1>3, <1>4, <1>6, ThreadGoes DEF Next, Goes
  <1> QED BY <1>5, <1>6

-----------------------------------------------------------------------------
\* The code counts places, the budgets are of connections: the counts agree.
LEMMA CountsAgree ==
  ASSUME NEW cs, NEW open, Tracks(cs, open), NEW S \in SUBSET DOMAIN cs,
         NEW T \in SUBSET Conns, T \subseteq open,
         \A k \in DOMAIN cs : k \in S <=> cs[k] \in T
  PROVE  /\ IsFiniteSet(S) /\ IsFiniteSet(T) /\ Cardinality(S) = Cardinality(T)
         /\ Cardinality(T) \in Nat
  <1>1. DOMAIN cs = 1..Len(cs) /\ Len(cs) \in Nat /\ cs \in [1..Len(cs) -> Conns]
    BY LenProperties DEF Tracks
  <1>2. IsFiniteSet(S)
    <2>1. IsFiniteSet(1..Len(cs)) /\ S \in SUBSET (1..Len(cs))
      BY <1>1, FS_Interval
    <2> QED BY <2>1, FS_Subset
  <1> DEFINE f == [k \in S |-> cs[k]]
  <1>3. f \in [S -> T] /\ \A j, k \in S : f[j] = f[k] => j = k
    BY <1>1 DEF Tracks
  <1>4. \A t \in T : \E k \in S : f[k] = t
    BY DEF Tracks
  <1>5. f \in Bijection(S, T)
    BY <1>3, <1>4 DEF Bijection, Injection, Surjection, IsInjective
  <1>6. ExistsBijection(S, T)
    BY <1>5 DEF ExistsBijection
  <1> QED BY <1>2, <1>6, FS_Bijection, FS_CardinalityType

\* What is left without one connection is tracked as before.
LEMMA UntrackTracks ==
  ASSUME ConnInv, NEW cs, \A c, d \in cs : c = d
  PROVE  Tracks(Untrack(cs), Open \ cs)
  <1> DEFINE n == Len(conns)
             at == {k \in DOMAIN conns : conns[k] \in cs}
  <1>1. n \in Nat /\ DOMAIN conns = 1..n /\ conns \in Seq(Conns)
        /\ \A k \in 1..n : conns[k] \in Conns
    BY LenProperties, ElementOfSeq DEF ConnInv, Tracks
  <1>2. CASE at = {}
    <2>1. Untrack(cs) = conns
      BY <1>2 DEF Untrack
    <2> QED BY <1>2, <2>1 DEF ConnInv, Tracks
  <1>3. CASE at # {}
    <2> DEFINE i == CHOOSE k \in at : TRUE
               s == SubSeq(conns, 1, i - 1)
               t == SubSeq(conns, i + 1, n)
    <2>1. i \in 1..n /\ conns[i] \in cs
      BY <1>1, <1>3
    <2>2. Untrack(cs) = s \o t
      BY <1>3 DEF Untrack, RemoveAt
    <2> HIDE DEF n, i, s, t
    <2>3. s \in Seq(Conns) /\ Len(s) = i - 1 /\ \A k \in 1..i-1 : s[k] = conns[k]
      <3>1. /\ SubSeq(conns, 1, i - 1) \in Seq(Conns)
            /\ Len(SubSeq(conns, 1, i - 1)) = IF 1 <= i - 1 THEN (i - 1) - 1 + 1 ELSE 0
            /\ \A k \in 1..(i-1)-1+1 : SubSeq(conns, 1, i - 1)[k] = conns[1 + k - 1]
        <4>1. \A k \in 1..i-1 : conns[k] \in Conns
          BY <1>1, <2>1
        <4> QED BY <2>1, <4>1, SubSeqProperties, SMT
      <3> QED BY <2>1, <3>1 DEF s
    <2>4. t \in Seq(Conns) /\ Len(t) = n - i /\ \A k \in 1..n-i : t[k] = conns[k + i]
      <3>1. /\ SubSeq(conns, i + 1, n) \in Seq(Conns)
            /\ Len(SubSeq(conns, i + 1, n)) = IF i + 1 <= n THEN n - (i + 1) + 1 ELSE 0
            /\ \A k \in 1..n-(i+1)+1 : SubSeq(conns, i + 1, n)[k] = conns[(i + 1) + k - 1]
        <4>1. \A k \in i+1..n : conns[k] \in Conns
          BY <1>1, <2>1
        <4> QED BY <1>1, <2>1, <4>1, SubSeqProperties, SMT
      <3>2. n - (i + 1) + 1 = n - i /\ (IF i + 1 <= n THEN n - (i + 1) + 1 ELSE 0) = n - i
        <4>1. i \in Nat /\ n \in Nat /\ i <= n
          BY <1>1, <2>1
        <4> QED BY <4>1
      <3>3. \A k \in 1..n-i : (i + 1) + k - 1 = k + i
        BY <2>1
      <3> QED BY <3>1, <3>2, <3>3 DEF t
    <2>5. /\ s \o t \in Seq(Conns) /\ DOMAIN (s \o t) = 1..n-1
          /\ \A k \in 1..n-1 : /\ k < i => (s \o t)[k] = conns[k]
                               /\ k >= i => (s \o t)[k] = conns[k + 1]
      <3>1. /\ s \o t \in Seq(Conns) /\ Len(s \o t) = Len(s) + Len(t)
            /\ \A k \in 1..Len(s) + Len(t) :
                   (s \o t)[k] = IF k <= Len(s) THEN s[k] ELSE t[k - Len(s)]
        BY <2>3, <2>4, ConcatProperties
      <3>2. Len(s) + Len(t) = n - 1
        BY <1>1, <2>1, <2>3, <2>4
      <3>3. DOMAIN (s \o t) = 1..n-1
        BY <3>1, <3>2, LenProperties
      <3>4. ASSUME NEW k \in 1..n-1, k < i PROVE (s \o t)[k] = conns[k]
        BY <1>1, <2>1, <2>3, <3>1, <3>2, <3>4
      <3>5. ASSUME NEW k \in 1..n-1, k >= i PROVE (s \o t)[k] = conns[k + 1]
        <4>1. k - (i - 1) \in 1..n-i /\ (k - (i - 1)) + i = k + 1 /\ ~(k <= i - 1)
          BY <1>1, <2>1, <3>5
        <4>2. (s \o t)[k] = t[k - (i - 1)]
          BY <2>3, <3>1, <3>2, <4>1
        <4>3. t[k - (i - 1)] = conns[(k - (i - 1)) + i]
          BY <2>4, <4>1
        <4> QED BY <4>1, <4>2, <4>3
      <3> QED BY <3>1, <3>3, <3>4, <3>5
    <2>6. \A j, k \in 1..n-1 : (s \o t)[j] = (s \o t)[k] => j = k
      <3> SUFFICES ASSUME NEW j \in 1..n-1, NEW k \in 1..n-1, (s \o t)[j] = (s \o t)[k]
                   PROVE  j = k
        OBVIOUS
      <3>1. \A x, y \in 1..n : conns[x] = conns[y] => x = y
        BY <1>1 DEF ConnInv, Tracks
      <3>2. j \in 1..n /\ j + 1 \in 1..n /\ k \in 1..n /\ k + 1 \in 1..n
        BY <1>1
      <3>3. CASE j < i /\ k < i
        BY <1>1, <2>1, <2>5, <3>1, <3>2, <3>3
      <3>4. CASE j < i /\ k >= i
        <4>1. conns[j] = conns[k + 1]
          BY <2>5, <3>4
        <4> QED BY <1>1, <2>1, <3>1, <3>2, <3>4, <4>1
      <3>6. CASE j >= i /\ k < i
        <4>1. conns[j + 1] = conns[k]
          BY <2>5, <3>6
        <4> QED BY <1>1, <2>1, <3>1, <3>2, <3>6, <4>1
      <3>5. CASE j >= i /\ k >= i
        <4>1. conns[j + 1] = conns[k + 1]
          BY <1>1, <2>1, <2>5, <3>5
        <4>2. j + 1 = k + 1
          BY <3>1, <3>2, <4>1
        <4> QED BY <1>1, <4>2
      <3> QED BY <1>1, <2>1, <3>3, <3>4, <3>5, <3>6
    <2>7. ASSUME NEW c \in Conns
          PROVE  c \in Open \ cs <=> \E k \in 1..n-1 : (s \o t)[k] = c
      <3>1. ASSUME NEW k \in 1..n-1, (s \o t)[k] = c PROVE c \in Open \ cs
        <4>1. PICK j \in 1..n : j # i /\ conns[j] = c
          <5>1. (k \in 1..n /\ k + 1 \in 1..n /\ k + 1 # i) \/ k < i
            BY <1>1, <2>1
          <5> QED BY <1>1, <2>1, <2>5, <3>1, <5>1
        <4>2. c \notin cs
          BY <1>1, <2>1, <4>1 DEF ConnInv, Tracks
        <4> QED BY <1>1, <4>1, <4>2 DEF ConnInv, Tracks
      <3>2. ASSUME c \in Open \ cs PROVE \E k \in 1..n-1 : (s \o t)[k] = c
        <4>1. PICK j \in 1..n : conns[j] = c
          BY <1>1, <3>2 DEF ConnInv, Tracks
        <4>2. j # i
          BY <2>1, <3>2, <4>1
        <4>3. CASE j < i
          <5>1. j \in 1..n-1
            BY <1>1, <2>1, <4>3
          <5> QED BY <2>5, <4>1, <4>3, <5>1
        <4>4. CASE j > i
          <5>1. j - 1 \in 1..n-1 /\ j - 1 >= i /\ (j - 1) + 1 = j
            BY <1>1, <2>1, <4>4
          <5>2. (s \o t)[j - 1] = conns[(j - 1) + 1]
            BY <2>5, <5>1
          <5> QED BY <4>1, <5>1, <5>2
        <4>5. j < i \/ j > i
          BY <1>1, <2>1, <4>2
        <4> QED BY <4>3, <4>4, <4>5
      <3> QED BY <3>1, <3>2
    <2> QED BY <2>2, <2>5, <2>6, <2>7 DEF Tracks
  <1> QED BY <1>2, <1>3

\* A newcomer is tracked after all others.
LEMMA AppendTracks ==
  ASSUME NEW cs, NEW open, Tracks(cs, open), NEW c \in Conns, c \notin open
  PROVE  Tracks(Append(cs, c), open \cup {c})
  <1>1. Len(cs) \in Nat /\ DOMAIN cs = 1..Len(cs) /\ cs \in Seq(Conns)
    BY LenProperties DEF Tracks
  <1>2. /\ Append(cs, c) \in Seq(Conns) /\ Len(Append(cs, c)) = Len(cs) + 1
        /\ \A k \in 1..Len(cs) : Append(cs, c)[k] = cs[k]
        /\ Append(cs, c)[Len(cs) + 1] = c
    BY <1>1, AppendProperties
  <1>3. DOMAIN Append(cs, c) = 1..Len(cs) + 1
    BY <1>1, <1>2, LenProperties
  <1>4. \A k \in 1..Len(cs) : cs[k] # c
    BY <1>1 DEF Tracks
  <1>5. \A j, k \in 1..Len(cs) + 1 : Append(cs, c)[j] = Append(cs, c)[k] => j = k
    <2> SUFFICES ASSUME NEW j \in 1..Len(cs) + 1, NEW k \in 1..Len(cs) + 1,
                        Append(cs, c)[j] = Append(cs, c)[k]
                 PROVE  j = k
      OBVIOUS
    <2>1. j \in 1..Len(cs) \/ j = Len(cs) + 1
      BY <1>1
    <2>2. k \in 1..Len(cs) \/ k = Len(cs) + 1
      BY <1>1
    <2> QED BY <1>1, <1>2, <1>4, <2>1, <2>2 DEF Tracks
  <1>6. ASSUME NEW d \in Conns
        PROVE  d \in open \cup {c} <=> \E k \in 1..Len(cs) + 1 : Append(cs, c)[k] = d
    <2>1. \A k : k \in 1..Len(cs) + 1 <=> k \in 1..Len(cs) \/ k = Len(cs) + 1
      BY <1>1
    <2> QED BY <1>1, <1>2, <2>1 DEF Tracks
  <1> QED BY <1>2, <1>3, <1>5, <1>6 DEF Tracks

-----------------------------------------------------------------------------
\* A set of natural numbers has a least one.
LEMMA LeastPlace ==
  ASSUME NEW S \in SUBSET Nat, S # {}
  PROVE  \E x \in S : \A y \in S : x <= y
  <1>1. IsWellFoundedOn(OpToRel(<, Nat), Nat)
    BY NatLessThanWellFounded
  <1>2. PICK x \in S : \A y \in S : ~(<<y, x>> \in OpToRel(<, Nat))
    BY <1>1, WFMin, Zenon
  <1>3. \A y \in S : ~(y < x)
    BY <1>2 DEF OpToRel
  <1> QED BY <1>3

\* The oldest of some tracked connections is one of them, and there is one.
LEMMA OldestIsOne ==
  ASSUME ConnInv, NEW S \in SUBSET DOMAIN conns
  PROVE  /\ \A c, d \in Oldest(S) : c = d
         /\ Oldest(S) \subseteq {conns[k] : k \in S}
         /\ S # {} => \E d \in Conns : Oldest(S) = {d}
  <1>1. DOMAIN conns \in SUBSET Nat /\ \A k \in DOMAIN conns : conns[k] \in Conns
    BY LenProperties, ElementOfSeq DEF ConnInv, Tracks
  <1>2. \A c, d \in Oldest(S) : c = d
    BY <1>1 DEF Oldest
  <1>3. ASSUME S # {} PROVE \E d \in Conns : Oldest(S) = {d}
    <2>1. PICK x \in S : \A y \in S : x <= y
      BY <1>1, <1>3, LeastPlace
    <2>2. conns[x] \in Oldest(S) /\ conns[x] \in Conns
      BY <1>1, <2>1 DEF Oldest
    <2> QED BY <1>2, <2>2
  <1> QED BY <1>2, <1>3 DEF Oldest

\* The budgets count the connections that are open.
LEMMA Counts ==
  ASSUME ConnInv
  PROVE  /\ \A p \in Peers : /\ Cardinality(SamePeer(p)) = Cardinality(OpenFrom(p))
                             /\ Cardinality(OpenFrom(p)) \in Nat /\ IsFiniteSet(OpenFrom(p))
                             /\ Cardinality(SamePeer(p)) > 0 => SamePeer(p) # {}
         /\ Cardinality(Shared) = Cardinality(OpenShared)
         /\ Cardinality(OpenShared) \in Nat /\ IsFiniteSet(OpenShared)
         /\ Cardinality(Shared) > 0 => Shared # {}
  <1>1. Tracks(conns, Open) /\ \A k \in DOMAIN conns : conns[k] \in Open
    BY LenProperties, ElementOfSeq DEF ConnInv, Tracks
  <1>2. Cardinality({}) = 0
    BY FS_EmptySet
  <1>3. ASSUME NEW p \in Peers
        PROVE  /\ Cardinality(SamePeer(p)) = Cardinality(OpenFrom(p))
               /\ Cardinality(OpenFrom(p)) \in Nat /\ IsFiniteSet(OpenFrom(p))
    <2>1. /\ SamePeer(p) \in SUBSET DOMAIN conns /\ OpenFrom(p) \in SUBSET Conns
          /\ OpenFrom(p) \subseteq Open
          /\ \A k \in DOMAIN conns : k \in SamePeer(p) <=> conns[k] \in OpenFrom(p)
      BY <1>1 DEF SamePeer, OpenFrom, Open
    <2> QED BY <1>1, <2>1, CountsAgree
  <1>4. /\ Cardinality(Shared) = Cardinality(OpenShared)
        /\ Cardinality(OpenShared) \in Nat /\ IsFiniteSet(OpenShared)
    <2>1. /\ Shared \in SUBSET DOMAIN conns /\ OpenShared \in SUBSET Conns
          /\ OpenShared \subseteq Open
          /\ \A k \in DOMAIN conns : k \in Shared <=> conns[k] \in OpenShared
      BY <1>1 DEF Shared, OpenShared, Open
    <2> QED BY <1>1, <2>1, CountsAgree
  <1> QED BY <1>2, <1>3, <1>4

\* Whom a newcomer shuts down: one open connection at most, and only when its own
\* budget is full, or the one it shares.
LEMMA EvictedOne ==
  ASSUME ConnInv, NEW p \in Peers, NEW prio \in BOOLEAN
  PROVE  LET out == Evicted(p, prio)
             full == Cardinality(OpenFrom(p)) >= (IF prio THEN ProtectedCap ELSE PeerCap)
         IN  /\ \A c, d \in out : c = d
             /\ out \subseteq Open
             /\ full => \E d \in OpenFrom(p) : out = {d}
             /\ ~full /\ ~prio /\ Cardinality(OpenShared) >= SharedCap =>
                    \E d \in OpenShared : out = {d}
             /\ ~full /\ (prio \/ Cardinality(OpenShared) < SharedCap) => out = {}
  <1> DEFINE cap == IF prio THEN ProtectedCap ELSE PeerCap
             full == Cardinality(OpenFrom(p)) >= cap
  <1>1. cap \in Nat /\ cap > 0 /\ SharedCap \in Nat /\ SharedCap > 0
    BY CapsAssumption
  <1>2. \A k \in DOMAIN conns : conns[k] \in Open
    BY LenProperties, ElementOfSeq DEF ConnInv, Tracks
  <1>3. CASE full
    <2>1. Evicted(p, prio) = Oldest(SamePeer(p)) /\ SamePeer(p) # {}
      BY <1>1, <1>3, Counts DEF Evicted
    <2>2. SamePeer(p) \in SUBSET DOMAIN conns
          /\ {conns[k] : k \in SamePeer(p)} \subseteq OpenFrom(p)
      BY <1>2 DEF SamePeer, OpenFrom
    <2>3. \E d \in OpenFrom(p) : Evicted(p, prio) = {d}
      BY <2>1, <2>2, OldestIsOne
    <2> QED BY <1>3, <2>3 DEF OpenFrom
  <1>4. CASE ~full /\ ~prio /\ Cardinality(OpenShared) >= SharedCap
    <2>1. Evicted(p, prio) = Oldest(Shared) /\ Shared # {}
      BY <1>1, <1>4, Counts DEF Evicted
    <2>2. Shared \in SUBSET DOMAIN conns /\ {conns[k] : k \in Shared} \subseteq OpenShared
      BY <1>2 DEF Shared, OpenShared
    <2>3. \E d \in OpenShared : Evicted(p, prio) = {d}
      BY <2>1, <2>2, OldestIsOne
    <2> QED BY <1>1, <1>4, <2>3, Counts DEF OpenShared
  <1>5. CASE ~full /\ (prio \/ Cardinality(OpenShared) < SharedCap)
    <2>1. Evicted(p, prio) = {}
      BY <1>1, <1>5, Counts DEF Evicted
    <2> QED BY <1>1, <1>5, <2>1, Counts
  <1> QED BY <1>1, <1>3, <1>4, <1>5, Counts

-----------------------------------------------------------------------------
\* What ServedRightly says of a step.
StepRight ==
    /\ \A c \in Conns : shut'[c] /\ ~shut[c] => \E d \in Newcomers :
        \/ /\ peer'[d] = peer[c]
           /\ Cardinality(OpenFrom(peer[c])) >=
                  IF Granted(peer[c]) \/ peer[c] = Loopback THEN ProtectedCap ELSE PeerCap
        \/ /\ ~priority[c] /\ ~Granted(peer'[d]) /\ peer'[d] # Loopback
           /\ Cardinality(OpenShared) >= SharedCap
    /\ Cardinality(OpenShared) >= SharedCap /\ Cardinality(OpenShared') > Cardinality(OpenShared) =>
        \E c \in Open \ Open', d \in Newcomers :
            priority[c] /\ peer'[d] = peer[c] /\ ~Granted(peer[c])

\* Fewer connections fill no budget.
LEMMA FewerKeep ==
  ASSUME BudgetInv, ConnInv', NEW p \in Peers, OpenFrom(p)' \subseteq OpenFrom(p)
  PROVE  Cardinality(OpenFrom(p)') <= ProtectedCap
  <1>1. /\ Cardinality(OpenFrom(p)) \in Nat /\ Cardinality(OpenFrom(p)) <= ProtectedCap
        /\ IsFiniteSet(OpenFrom(p))
    BY Counts DEF BudgetInv, HostsBounded
  <1>2. Cardinality(OpenFrom(p)') <= Cardinality(OpenFrom(p))
    BY <1>1, FS_Subset
  <1>3. Cardinality(OpenFrom(p)') \in Nat
    BY <1>1, FS_Subset, FS_CardinalityType
  <1> QED BY <1>1, <1>2, <1>3, CapsAssumption

LEMMA StaysRight ==
  ASSUME BudgetInv, Stays
  PROVE  BudgetInv' /\ StepRight
  <1>1. Open' = Open /\ OpenShared' = OpenShared /\ \A p : OpenFrom(p)' = OpenFrom(p)
    BY DEF Stays, Open, OpenFrom, OpenShared
  <1>2. ConnInv'
    BY <1>1 DEF Stays, BudgetInv, ConnInv, Tracks
  <1>3. HostsBounded'
    BY <1>1 DEF BudgetInv, HostsBounded
  <1>4. Cardinality(OpenShared) \in Nat
    BY Counts DEF BudgetInv
  <1> QED BY <1>1, <1>2, <1>3, <1>4 DEF BudgetInv, StepRight, Stays

LEMMA CloseRight ==
  ASSUME BudgetInv, NEW c \in Conns, Close(c)
  PROVE  BudgetInv' /\ StepRight
  <1>1. /\ ph' = [ph EXCEPT ![c] = "free"] /\ shut' = [shut EXCEPT ![c] = FALSE]
        /\ peer' = [peer EXCEPT ![c] = NoPeer] /\ priority' = [priority EXCEPT ![c] = FALSE]
        /\ conns' = Untrack({c})
    BY DEF Close, At
  <1>2. /\ ph' \in [Conns -> Phases] /\ shut' \in [Conns -> BOOLEAN]
        /\ peer' \in [Conns -> Peers \cup {NoPeer}] /\ priority' \in [Conns -> BOOLEAN]
        /\ \A d \in Conns : shut'[d] => shut[d]
    BY <1>1 DEF BudgetInv, ConnInv, Phases
  <1>3. Open' = Open \ {c}
    BY <1>1 DEF BudgetInv, ConnInv, Open
  <1>4. ConnInv'
    <2>1. Tracks(Untrack({c}), Open \ {c})
      BY UntrackTracks DEF BudgetInv
    <2> QED BY <1>1, <1>2, <1>3, <2>1 DEF ConnInv
  <1>5. \A p \in Peers : OpenFrom(p)' \subseteq OpenFrom(p)
    BY <1>1, <1>3 DEF OpenFrom, BudgetInv, ConnInv
  <1>6. HostsBounded'
    BY <1>4, <1>5, FewerKeep DEF HostsBounded
  <1>7. OpenShared' \subseteq OpenShared
    BY <1>1, <1>3 DEF OpenShared, BudgetInv, ConnInv
  <1>8. ~(Cardinality(OpenShared') > Cardinality(OpenShared))
    <2>1. Cardinality(OpenShared) \in Nat /\ IsFiniteSet(OpenShared)
      BY Counts DEF BudgetInv
    <2>2. Cardinality(OpenShared') <= Cardinality(OpenShared) /\ Cardinality(OpenShared') \in Nat
      BY <1>7, <2>1, FS_Subset, FS_CardinalityType
    <2> QED BY <2>1, <2>2
  <1> QED BY <1>2, <1>4, <1>6, <1>8 DEF BudgetInv, StepRight

\* One in for one out, or one more.
LEMMA Exchange ==
  ASSUME NEW S, IsFiniteSet(S), NEW c, c \notin S
  PROVE  /\ Cardinality(S \cup {c}) = Cardinality(S) + 1
         /\ \A d \in S : Cardinality((S \ {d}) \cup {c}) = Cardinality(S)
  <1>1. Cardinality(S) \in Nat
    BY FS_CardinalityType
  <1>2. ASSUME NEW d \in S PROVE Cardinality((S \ {d}) \cup {c}) = Cardinality(S)
    <2>1. IsFiniteSet(S \ {d}) /\ Cardinality(S \ {d}) = Cardinality(S) - 1
      BY FS_RemoveElement
    <2>2. Cardinality((S \ {d}) \cup {c}) = Cardinality(S \ {d}) + 1
      BY <2>1, FS_AddElement
    <2> QED BY <1>1, <2>1, <2>2
  <1> QED BY <1>2, FS_AddElement

LEMMA AcceptRight ==
  ASSUME BudgetInv, NEW c \in Conns, NEW p \in Peers, Accept(c, p)
  PROVE  BudgetInv' /\ StepRight
  <1> DEFINE prio == Granted(p) \/ p = Loopback
             out == Evicted(p, prio)
             cap == IF prio THEN ProtectedCap ELSE PeerCap
             full == Cardinality(OpenFrom(p)) >= cap
  <1>1. /\ ph[c] = "free" /\ ph' = [ph EXCEPT ![c] = "head"]
        /\ peer' = [peer EXCEPT ![c] = p] /\ priority' = [priority EXCEPT ![c] = prio]
        /\ conns' = Append(Untrack(out), c)
        /\ shut' = [d \in Conns |-> IF d = c THEN FALSE ELSE d \in out \/ shut[d]]
    BY DEF Accept
  <1>2. prio \in BOOLEAN
    BY DEF Granted
  <1>3. /\ \A d, e \in out : d = e
        /\ out \subseteq Open
        /\ full => \E d \in OpenFrom(p) : out = {d}
        /\ ~full /\ ~prio /\ Cardinality(OpenShared) >= SharedCap =>
               \E d \in OpenShared : out = {d}
        /\ ~full /\ (prio \/ Cardinality(OpenShared) < SharedCap) => out = {}
    BY <1>2, EvictedOne DEF BudgetInv
  <1>4. /\ Cardinality(OpenFrom(p)) \in Nat /\ IsFiniteSet(OpenFrom(p))
        /\ Cardinality(OpenShared) \in Nat /\ IsFiniteSet(OpenShared)
        /\ Cardinality(OpenFrom(p)) <= ProtectedCap
        /\ cap \in Nat /\ cap <= ProtectedCap /\ ProtectedCap \in Nat /\ SharedCap \in Nat
    BY Counts, CapsAssumption DEF BudgetInv, HostsBounded
  <1> HIDE DEF prio, out, cap
  <1>5. c \notin Open /\ c \notin out /\ peer'[c] = p /\ priority'[c] = prio /\ c \in Newcomers
    BY <1>1, <1>3 DEF Open, Newcomers, BudgetInv, ConnInv
  <1>6. Open' = (Open \ out) \cup {c}
    BY <1>1, <1>3, <1>5 DEF Open, BudgetInv, ConnInv
  <1>7. ConnInv'
    <2>1. Tracks(Untrack(out), Open \ out)
      BY <1>3, UntrackTracks DEF BudgetInv
    <2>2. Tracks(Append(Untrack(out), c), (Open \ out) \cup {c})
      BY <1>5, <2>1, AppendTracks
    <2>3. /\ ph' \in [Conns -> Phases] /\ shut' \in [Conns -> BOOLEAN]
          /\ peer' \in [Conns -> Peers \cup {NoPeer}] /\ priority' \in [Conns -> BOOLEAN]
      BY <1>1, <1>2 DEF BudgetInv, ConnInv, Phases
    <2> QED BY <1>1, <1>6, <2>2, <2>3 DEF ConnInv
  <1>8. OpenFrom(p)' = (OpenFrom(p) \ out) \cup {c}
    BY <1>1, <1>5, <1>6 DEF OpenFrom, Open, BudgetInv, ConnInv
  <1>9. ASSUME NEW q \in Peers, q # p PROVE OpenFrom(q)' \subseteq OpenFrom(q)
    BY <1>1, <1>5, <1>6, <1>9 DEF OpenFrom, BudgetInv, ConnInv
  <1>10. Cardinality(OpenFrom(p)') <= ProtectedCap
    <2>1. c \notin OpenFrom(p)
      BY <1>5 DEF OpenFrom
    <2>2. CASE full
      <3>1. PICK d \in OpenFrom(p) : out = {d}
        BY <1>3, <2>2
      <3>2. Cardinality((OpenFrom(p) \ {d}) \cup {c}) = Cardinality(OpenFrom(p))
        BY <1>4, <2>1, Exchange
      <3> QED BY <1>4, <1>8, <3>1, <3>2
    <2>3. CASE ~full
      <3>1. IsFiniteSet(OpenFrom(p) \ out) /\ Cardinality(OpenFrom(p) \ out) <= Cardinality(OpenFrom(p))
            /\ Cardinality(OpenFrom(p) \ out) \in Nat
        BY <1>4, FS_Subset, FS_CardinalityType
      <3>2. Cardinality(OpenFrom(p)') = Cardinality(OpenFrom(p) \ out) + 1
        <4>1. c \notin OpenFrom(p) \ out
          BY <2>1
        <4>2. Cardinality((OpenFrom(p) \ out) \cup {c}) = Cardinality(OpenFrom(p) \ out) + 1
          BY <3>1, <4>1, Exchange
        <4> QED BY <1>8, <4>2
      <3> QED BY <1>4, <2>3, <3>1, <3>2
    <2> QED BY <2>2, <2>3
  <1>11. HostsBounded'
    BY <1>7, <1>9, <1>10, FewerKeep DEF HostsBounded
  <1>12. ASSUME NEW d \in Conns, shut'[d], ~shut[d]
         PROVE  \/ /\ p = peer[d]
                   /\ Cardinality(OpenFrom(peer[d])) >=
                        IF Granted(peer[d]) \/ peer[d] = Loopback THEN ProtectedCap ELSE PeerCap
                \/ /\ ~priority[d] /\ ~Granted(p) /\ p # Loopback
                   /\ Cardinality(OpenShared) >= SharedCap
    <2>1. d \in out
      BY <1>1, <1>12
    <2>2. CASE full
      <3>1. peer[d] = p
        BY <1>3, <2>1, <2>2 DEF OpenFrom
      <3> QED BY <2>2, <3>1 DEF prio, cap
    <2>3. CASE ~full
      <3>1. ~prio /\ Cardinality(OpenShared) >= SharedCap /\ d \in OpenShared
        BY <1>3, <1>4, <2>1, <2>3
      <3> QED BY <3>1 DEF prio, OpenShared
    <2> QED BY <2>2, <2>3
  <1>13. ASSUME Cardinality(OpenShared) >= SharedCap,
                Cardinality(OpenShared') > Cardinality(OpenShared)
         PROVE  \E d \in Open \ Open' : priority[d] /\ p = peer[d] /\ ~Granted(peer[d])
    <2>1. OpenShared' = (OpenShared \ out) \cup (IF prio THEN {} ELSE {c}) /\ c \notin OpenShared
      BY <1>1, <1>2, <1>5, <1>6 DEF OpenShared, Open, BudgetInv, ConnInv
    <2>2. ~prio
      <3>1. ASSUME prio PROVE FALSE
        <4>1. OpenShared' \subseteq OpenShared
          BY <2>1, <3>1
        <4>2. Cardinality(OpenShared') <= Cardinality(OpenShared) /\ Cardinality(OpenShared') \in Nat
          BY <1>4, <4>1, FS_Subset, FS_CardinalityType
        <4> QED BY <1>4, <1>13, <4>2
      <3> QED BY <3>1
    <2>3. \A d \in OpenShared : out # {d}
      <3>1. ASSUME NEW d \in OpenShared, out = {d} PROVE FALSE
        <4>1. Cardinality(OpenShared') = Cardinality(OpenShared)
          BY <1>4, <2>1, <2>2, <3>1, Exchange
        <4> QED BY <1>4, <1>13, <4>1
      <3> QED BY <3>1
    <2>4. full
      BY <1>3, <1>4, <1>13, <2>2, <2>3
    <2>5. PICK d \in OpenFrom(p) : out = {d}
      BY <1>3, <2>4
    <2>6. priority[d]
      BY <2>3, <2>5 DEF OpenFrom, OpenShared
    <2>7. d \in Open \ Open' /\ peer[d] = p
      BY <1>5, <1>6, <2>5 DEF OpenFrom
    <2>8. ~Granted(p)
      BY <2>2 DEF prio
    <2> QED BY <2>6, <2>7, <2>8
  <1>14. StepRight
    BY <1>5, <1>12, <1>13 DEF StepRight
  <1> QED BY <1>7, <1>11, <1>14 DEF BudgetInv

\* Initially no connection is open.
LEMMA InitBudgets == Init => BudgetInv
  <1> SUFFICES ASSUME Init PROVE BudgetInv
    OBVIOUS
  <1>1. ConnInv
    <2>1. conns = <<>> /\ Open = {}
      BY DEF Init, Open
    <2>2. Tracks(<<>>, {})
      BY EmptySeq DEF Tracks
    <2> QED BY <2>1, <2>2 DEF Init, ConnInv, Phases
  <1>2. ASSUME NEW p \in Peers PROVE Cardinality(OpenFrom(p)) <= ProtectedCap
    <2>1. OpenFrom(p) = {}
      BY DEF Init, Open, OpenFrom
    <2> QED BY <2>1, FS_EmptySet, CapsAssumption
  <1> QED BY <1>1, <1>2 DEF BudgetInv, HostsBounded

\* Every step keeps the budgets and makes room rightly.
LEMMA NextBudgets == BudgetInv /\ [Next]_vars => BudgetInv' /\ StepRight
  <1> SUFFICES ASSUME BudgetInv, [Next]_vars PROVE BudgetInv' /\ StepRight
    OBVIOUS
  <1>1. Stays \/ (\E c \in Conns : Close(c)) \/ (\E c \in Conns, p \in Peers : Accept(c, p))
    BY StepKinds DEF BudgetInv
  <1> QED BY <1>1, StaysRight, CloseRight, AcceptRight

\* However connections come and go and whoever is the speaker meanwhile, no host
\* exceeds the greatest budget of one host, room is made only out of a budget that
\* is full of open connections, and only a former speaker's host takes the shared
\* ones past theirs: for any budgets and any number of connections and addresses
\* (http_server.rs, ConnLimiter::admit).
THEOREM ServesRightly == Spec => ServedRightly
  <1>1. BudgetInv => HostsBounded
    BY DEF BudgetInv
  <1> QED BY <1>1, InitBudgets, NextBudgets, PTL
          DEF Spec, ServedRightly, RoomMadeOnlyWhenFull, OverBudgetOnlyByFormerSpeaker, StepRight
=============================================================================
