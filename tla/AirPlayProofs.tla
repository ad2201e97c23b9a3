---------------------------- MODULE AirPlayProofs ----------------------------
(***************************************************************************)
(* The bring-up of an AirPlay 2 session, for any targets that share no     *)
(* receiver, any attempts and whatever fails: a receiver holds a session   *)
(* of an attempt only until the attempt is over, and is not asked for one  *)
(* while it holds another that nobody else is ending (ReceiversFreed); a   *)
(* start that follows stops and failed HomePod bring-ups only gets the PTP *)
(* ports (RetryOwnsPorts).                                                 *)
(*                                                                         *)
(* ReselectWaits is not inductive.  A receiver can be held by the session, *)
(* by the attempt that is under way and by those being stopped: SessionInv *)
(* says that there is one of the first two each, of different targets, and *)
(* that a stop nobody else asked for is one the attempt under way waits    *)
(* for.  PlaceInv ties what a receiver holds to the attempt's connections, *)
(* and ClockInv a port to the clock's thread and its thread to the stop    *)
(* flag.                                                                   *)
(*                                                                         *)
(* The audio of both AirPlay versions, for any latency, capacities and     *)
(* widths of the counters: PacketsTrue and ResendIsOriginal.  TimeInv ties *)
(* the timestamp of a slot to the time, and SentInv every packet kept for  *)
(* a resend to the counter it was sent with.  In RaopSender, PaceInv does  *)
(* the former; PlacesInv says that the packet k places back in the history *)
(* has the sequence number of k packets ago, so that one found under a     *)
(* number is the one asked for as long as the history and a request are    *)
(* shorter than a round of numbers; BucketInv, what has been sent again    *)
(* and the tokens left are within what has been earned.                    *)
(*                                                                         *)
(* The replies of both versions: OwnReply.  On a connection whose receiver *)
(* need not name what it answers, OrderInv says that the requests that     *)
(* wait are answered in their order, by the replies that have arrived and  *)
(* then by those on their way; LateTrue, that what is remembered was a     *)
(* reply to what it is remembered under.  In RaopSession, LineInv says     *)
(* that a connection that can still be used has one request at the most,   *)
(* which is the one that is waited for.                                    *)
(***************************************************************************)
EXTENDS MCAirPlay, Integers, Sequences, FiniteSetTheorems, WellFoundedInduction, TLAPS

Stopped == {"stop", "join", "clockJoin"}    \* the places of a stop
Places == {"none", "up", "gone"} \cup Busy \cup Stopped
Kinds == {"clock", "sender", "volume", "aux"}

TypeOK ==
    /\ who \in [Starts -> Targets \cup {{}}]
    /\ pc \in [Starts -> Places]
    /\ open \in [Starts -> SUBSET Receivers]
    /\ holds \in [Receivers -> SUBSET Starts]
    /\ threads \in [Starts -> SUBSET Kinds]
    /\ port \in [Starts -> {"none", "well", "other"}]
    /\ stopFlag \in [Starts -> BOOLEAN]
    /\ session \in Starts \cup {0}

\* The ports are the clock's, which a stop and a failed HomePod bring-up wait for.
ClockInv ==
    \A i \in Starts :
        /\ port[i] # "none" => "clock" \in threads[i]
        /\ pc[i] \in {"none", "wait", "pair", "clock"} => "clock" \notin threads[i]
        /\ pc[i] = "gone" /\ stopFlag[i] => "clock" \notin threads[i]
        /\ stopFlag[i] => pc[i] \in {"join", "clockJoin", "gone"}

\* At most one attempt is up and one under way, which waits for the stops it caused.
SessionInv ==
    /\ session # 0 => pc[session] = "up"
    /\ \A i \in Starts : pc[i] = "up" => i = session
    /\ \A i, j \in Starts : pc[i] \in Busy /\ pc[j] \in Busy => i = j
    /\ \A i \in Starts : pc[i] \in Busy /\ session # 0 => who[session] # who[i]
    /\ \A j \in Starts : pc[j] \in Stopped /\ j \notin ended =>
            \E i \in Starts : pc[i] = "wait" \/ (pc[i] = "bind" /\ who[i] # who[j])

\* What receivers hold is what attempts have open.
PlaceInv ==
    /\ \A r \in Receivers : \A i \in holds[r] : r \in open[i]
    /\ \A i \in Starts : pc[i] \in {"none", "wait", "gone"} => open[i] = {}
    /\ \A i \in Starts : open[i] \subseteq who[i]

IInv == TypeOK /\ ClockInv /\ SessionInv /\ PlaceInv /\ ReselectWaits

-----------------------------------------------------------------------------
\* Attempts are numbers, 0 is none of them.
LEMMA StartsAreNumbers == 0 \notin Starts
  BY TargetsAssumption DEF Starts

\* Initially there is no attempt.
LEMMA InitBringUp == Init => IInv
  <1> SUFFICES ASSUME Init PROVE IInv
    OBVIOUS
  <1>1. TypeOK
    BY DEF Init, TypeOK, Places
  <1>2. ClockInv
    BY DEF Init, ClockInv
  <1>3. SessionInv
    BY DEF Init, SessionInv, Busy, Stopped
  <1>4. PlaceInv /\ ReselectWaits
    BY DEF Init, PlaceInv, ReselectWaits
  <1> QED BY <1>1, <1>2, <1>3, <1>4 DEF IInv

-----------------------------------------------------------------------------
(* The app. *)

\* A select stops the session of its own target before it begins.
LEMMA SelectHolds ==
  ASSUME IInv, NEW i \in Starts, NEW t \in Targets, Select(i, t)
  PROVE  IInv'
  <1>1. /\ pc[i] = "none" /\ \A j \in Starts : pc[j] \notin Busy
        /\ who' = [who EXCEPT ![i] = t]
        /\ UNCHANGED <<open, holds, threads, stopFlag, port, ended>>
    BY DEF Select
  <1>2. /\ open[i] = {} /\ i # session
        /\ \A j \in Starts : pc[j] \in Stopped => j \in ended
    BY <1>1, StartsAreNumbers DEF IInv, PlaceInv, SessionInv, Busy
  <1>3. CASE ReplacesSame(t)
    <2>1. /\ session \in Starts /\ pc[session] = "up" /\ session' = 0
          /\ pc' = [pc EXCEPT ![i] = "wait", ![session] = "stop"]
      BY <1>3 DEF Select, ReplacesSame, IInv, TypeOK, SessionInv
    <2>2. \A j \in Starts : pc'[j] = IF j = session THEN "stop" ELSE IF j = i THEN "wait" ELSE pc[j]
      BY <2>1 DEF IInv, TypeOK
    <2>3. TypeOK'
      BY <1>1, <2>1 DEF IInv, TypeOK, Places, Busy, Stopped
    <2>4. ClockInv'
      <3>1. ~stopFlag[session] /\ "clock" \notin threads[i]
        BY <1>1, <2>1 DEF IInv, ClockInv
      <3> QED BY <1>1, <2>2, <3>1 DEF IInv, ClockInv
    <2>5. SessionInv'
      <3>1. pc'[i] = "wait" /\ \A j \in Starts : pc'[j] \in Busy => j = i
        BY <1>1, <1>2, <2>2 DEF Busy
      <3>2. \A j \in Starts : pc'[j] # "up"
        <4>1. \A j \in Starts : pc[j] = "up" => j = session
          BY DEF IInv, SessionInv
        <4> QED BY <2>2, <4>1
      <3> QED BY <2>1, <3>1, <3>2 DEF SessionInv
    <2>6. PlaceInv' /\ ReselectWaits'
      BY <1>1, <1>2, <2>1, <2>2 DEF IInv, TypeOK, PlaceInv, ReselectWaits
    <2> QED BY <2>3, <2>4, <2>5, <2>6 DEF IInv
  <1>4. CASE ~ReplacesSame(t)
    <2>1. pc' = [pc EXCEPT ![i] = "pair"] /\ session' = session /\ (session # 0 => who[session] # t)
      BY <1>4 DEF Select, ReplacesSame
    <2>2. \A j \in Starts : pc'[j] = IF j = i THEN "pair" ELSE pc[j]
      BY <2>1 DEF IInv, TypeOK
    <2>3. TypeOK'
      BY <1>1, <2>1 DEF IInv, TypeOK, Places, Busy
    <2>4. ClockInv'
      BY <1>1, <2>2 DEF IInv, ClockInv
    <2>5. SessionInv'
      <3>1. session # 0 => who'[session] # who'[i]
        BY <1>1, <1>2, <2>1 DEF IInv, TypeOK
      <3> QED BY <1>1, <1>2, <2>1, <2>2, <3>1 DEF IInv, SessionInv, Busy, Stopped
    <2>6. PlaceInv' /\ ReselectWaits'
      BY <1>1, <1>2, <2>2 DEF IInv, TypeOK, PlaceInv, ReselectWaits
    <2> QED BY <2>3, <2>4, <2>5, <2>6 DEF IInv
  <1> QED BY <1>3, <1>4

\* No stop is under way when a select goes on to connect.
LEMMA ProceedHolds ==
  ASSUME IInv, NEW i \in Starts, Proceed(i)
  PROVE  IInv'
  <1>1. /\ pc[i] = "wait" /\ \A j \in Starts : pc[j] \notin Stopped
        /\ pc' = [pc EXCEPT ![i] = "pair"]
        /\ UNCHANGED <<who, open, holds, threads, stopFlag, port, session, ended>>
    BY DEF Proceed, Stopping, Stopped
  <1>2. \A j \in Starts : pc'[j] = IF j = i THEN "pair" ELSE pc[j]
    BY <1>1 DEF IInv, TypeOK
  <1>3. TypeOK'
    BY <1>1 DEF IInv, TypeOK, Places, Busy
  <1>4. ClockInv'
    BY <1>1, <1>2 DEF IInv, ClockInv
  <1>5. SessionInv'
    BY <1>1, <1>2, StartsAreNumbers DEF IInv, TypeOK, SessionInv, Busy, Stopped
  <1>6. PlaceInv' /\ ReselectWaits'
    BY <1>1, <1>2 DEF IInv, PlaceInv, ReselectWaits
  <1> QED BY <1>3, <1>4, <1>5, <1>6 DEF IInv

\* A session that is replaced is stopped before the new one is up.
LEMMA BindHolds ==
  ASSUME IInv, NEW i \in Starts, Bind(i)
  PROVE  IInv'
  <1>1. /\ pc[i] = "bind" /\ \A j \in Starts : pc[j] \notin Stopped
        /\ UNCHANGED <<who, open, holds, threads, stopFlag, port, ended>>
    BY DEF Bind, Stopping, Stopped
  <1>2. CASE session # 0
    <2>1. /\ session \in Starts /\ pc[session] = "up" /\ session' = 0
          /\ pc' = [pc EXCEPT ![session] = "stop"] /\ who[session] # who[i]
      BY <1>1, <1>2 DEF Bind, IInv, TypeOK, SessionInv, Busy
    <2>2. \A j \in Starts : pc'[j] = IF j = session THEN "stop" ELSE pc[j]
      BY <2>1 DEF IInv, TypeOK
    <2>3. TypeOK'
      BY <1>1, <2>1 DEF IInv, TypeOK, Places, Stopped
    <2>4. ClockInv'
      BY <1>1, <2>1, <2>2 DEF IInv, ClockInv
    <2>5. SessionInv'
      BY <1>1, <2>1, <2>2 DEF IInv, SessionInv, Busy, Stopped
    <2>6. PlaceInv' /\ ReselectWaits'
      BY <1>1, <2>1, <2>2 DEF IInv, PlaceInv, ReselectWaits
    <2> QED BY <2>3, <2>4, <2>5, <2>6 DEF IInv
  <1>3. CASE session = 0
    <2>1. pc' = [pc EXCEPT ![i] = "up"] /\ session' = i
      BY <1>3 DEF Bind
    <2>2. \A j \in Starts : pc'[j] = IF j = i THEN "up" ELSE pc[j]
      BY <2>1 DEF IInv, TypeOK
    <2>3. TypeOK'
      BY <1>1, <2>1 DEF IInv, TypeOK, Places
    <2>4. ClockInv'
      BY <1>1, <2>1, <2>2 DEF IInv, ClockInv
    <2>5. SessionInv'
      BY <1>1, <1>3, <2>1, <2>2, StartsAreNumbers DEF IInv, SessionInv, Busy, Stopped
    <2>6. PlaceInv' /\ ReselectWaits'
      BY <1>1, <2>1, <2>2 DEF IInv, PlaceInv, ReselectWaits
    <2> QED BY <2>3, <2>4, <2>5, <2>6 DEF IInv
  <1> QED BY <1>2, <1>3

\* A session that another thread ends is one of those that are being ended.
LEMMA EndSessionHolds ==
  ASSUME IInv, EndSession
  PROVE  IInv'
  <1>1. /\ session \in Starts /\ pc[session] = "up" /\ session' = 0
        /\ pc' = [pc EXCEPT ![session] = "stop"] /\ ended' = ended \cup {session}
        /\ UNCHANGED <<who, open, holds, threads, stopFlag, port>>
    BY DEF EndSession, IInv, TypeOK, SessionInv
  <1>2. \A j \in Starts : pc'[j] = IF j = session THEN "stop" ELSE pc[j]
    BY <1>1 DEF IInv, TypeOK
  <1>3. TypeOK'
    BY <1>1 DEF IInv, TypeOK, Places, Stopped
  <1>4. ClockInv'
    BY <1>1, <1>2 DEF IInv, ClockInv
  <1>5. SessionInv'
    BY <1>1, <1>2 DEF IInv, SessionInv, Busy, Stopped
  <1>6. PlaceInv' /\ ReselectWaits'
    BY <1>1, <1>2 DEF IInv, PlaceInv, ReselectWaits
  <1> QED BY <1>3, <1>4, <1>5, <1>6 DEF IInv

-----------------------------------------------------------------------------
(* The bring-up. *)

Under == Busy \ {"wait", "bind"}    \* an attempt whose start has not returned

\* A step of the attempt under way, from one phase to another or to its end.
LEMMA PhaseHolds ==
  ASSUME IInv, NEW i \in Starts, pc[i] \in Under, NEW q \in (Busy \ {"wait"}) \cup {"gone"},
         pc' = [pc EXCEPT ![i] = q], UNCHANGED <<who, session, ended>>
  PROVE  SessionInv' /\ \A j \in Starts : pc'[j] = IF j = i THEN q ELSE pc[j]
  <1>1. \A j \in Starts : pc'[j] = IF j = i THEN q ELSE pc[j]
    BY DEF IInv, TypeOK
  <1>2. \A j \in Starts : pc[j] \in Stopped => j \in ended
    BY DEF IInv, SessionInv, Busy, Under
  <1>3. i # session
    BY StartsAreNumbers DEF IInv, SessionInv, Busy, Under
  <1> QED BY <1>1, <1>2, <1>3 DEF IInv, SessionInv, Busy, Under, Stopped

\* One that opens nothing, starts no clock and sets no flag.
LEMMA AdvanceHolds ==
  ASSUME IInv, NEW i \in Starts, pc[i] \in Under, NEW q \in {"setup", "stream", "record", "media", "bind", "unwind", "released"},
         pc' = [pc EXCEPT ![i] = q],
         threads' \in [Starts -> SUBSET Kinds], threads'[i] \cap {"clock"} = threads[i] \cap {"clock"},
         \A j \in Starts \ {i} : threads'[j] = threads[j],
         UNCHANGED <<who, open, holds, stopFlag, port, session, ended>>
  PROVE  IInv'
  <1>1. SessionInv' /\ \A j \in Starts : pc'[j] = IF j = i THEN q ELSE pc[j]
    <2>1. UNCHANGED <<who, session, ended>> /\ q \in (Busy \ {"wait"}) \cup {"gone"}
      BY DEF Busy
    <2> QED BY <2>1, PhaseHolds
  <1>2. TypeOK'
    BY DEF IInv, TypeOK, Places, Busy
  <1>3. ClockInv'
    <2>1. ~stopFlag[i]
      BY DEF IInv, ClockInv, Busy, Under
    <2>2. \A j \in Starts : "clock" \in threads'[j] <=> "clock" \in threads[j]
      OBVIOUS
    <2>3. ASSUME NEW j \in Starts
          PROVE  /\ port'[j] # "none" => "clock" \in threads'[j]
                 /\ pc'[j] \in {"none", "wait", "pair", "clock"} => "clock" \notin threads'[j]
      BY <1>1, <2>2 DEF IInv, ClockInv, Busy, Under
    <2>4. ASSUME NEW j \in Starts
          PROVE  /\ pc'[j] = "gone" /\ stopFlag'[j] => "clock" \notin threads'[j]
                 /\ stopFlag'[j] => pc'[j] \in {"join", "clockJoin", "gone"}
      BY <1>1, <2>1, <2>2 DEF IInv, ClockInv
    <2> QED BY <2>3, <2>4 DEF ClockInv
  <1>4. PlaceInv' /\ ReselectWaits'
    BY <1>1 DEF IInv, PlaceInv, ReselectWaits, Busy
  <1> QED BY <1>1, <1>2, <1>3, <1>4 DEF IInv

\* A phase has seen to one of its members.
LEMMA SeenSteps ==
  ASSUME IInv, NEW i \in Starts, NEW r, NEW n \in Places, Seen(i, r, n)
  PROVE  pc' = [pc EXCEPT ![i] = n] \/ pc' = [pc EXCEPT ![i] = pc[i]]
  BY DEF Seen, IInv, TypeOK

\* A connection is asked for when no other attempt has one to that receiver.
LEMMA ConnectHolds ==
  ASSUME IInv, NEW i \in Starts, NEW r \in who[i], ConnectAndPair(i, r)
  PROVE  IInv'
  <1>1. CASE Fail(i)
    BY <1>1, AdvanceHolds DEF ConnectAndPair, Fail, IInv, TypeOK, Under, Busy
  <1>2. CASE ~Fail(i)
    <2>1. /\ pc[i] = "pair" /\ Seen(i, r, "clock")
          /\ open' = [open EXCEPT ![i] = @ \cup {r}]
          /\ holds' = [holds EXCEPT ![r] = @ \cup {i}]
          /\ UNCHANGED <<who, threads, stopFlag, port, session, ended>>
      BY <1>2 DEF ConnectAndPair
    <2>2. PICK q \in {"pair", "clock"} : pc' = [pc EXCEPT ![i] = q]
      BY <2>1, SeenSteps DEF Places, Busy
    <2>3. SessionInv' /\ \A j \in Starts : pc'[j] = IF j = i THEN q ELSE pc[j]
      BY <2>1, <2>2, PhaseHolds DEF Under, Busy
    <2>4. who[i] \in Targets /\ r \in Receivers
      BY DEF IInv, TypeOK, Receivers
    <2>5. TypeOK'
      BY <2>1, <2>2, <2>4 DEF IInv, TypeOK, Places, Busy
    <2>6. ClockInv'
      BY <2>1, <2>3 DEF IInv, ClockInv
    <2>7. PlaceInv'
      BY <2>1, <2>3, <2>4 DEF IInv, TypeOK, PlaceInv
    <2>8. ASSUME NEW j \in holds[r], j # i
          PROVE  j \in ended
      <3>1. j \in Starts /\ r \in open[j] /\ r \in who[j]
        BY <2>4 DEF IInv, TypeOK, PlaceInv
      <3>2. who[j] = who[i]
        BY <2>4, <3>1, TargetsAssumption DEF IInv, TypeOK
      <3>3. pc[j] \notin Busy /\ pc[j] \notin {"none", "wait", "gone"}
        BY <2>1, <2>8, <3>1 DEF IInv, SessionInv, PlaceInv, Busy
      <3>4. pc[j] # "up"
        BY <2>1, <3>1, <3>2, StartsAreNumbers DEF IInv, SessionInv, Busy
      <3>5. pc[j] \in Stopped
        BY <3>1, <3>3, <3>4 DEF IInv, TypeOK, Places
      <3> QED BY <2>1, <3>1, <3>5 DEF IInv, SessionInv, Busy
    <2>9. ReselectWaits'
      BY <2>1, <2>4, <2>8 DEF IInv, TypeOK, ReselectWaits
    <2> QED BY <2>3, <2>5, <2>6, <2>7, <2>9 DEF IInv
  <1> QED BY <1>1, <1>2

\* The clock starts its thread with its port.
LEMMA StartClockHolds ==
  ASSUME IInv, NEW i \in Starts, StartClock(i)
  PROVE  IInv'
  <1>1. CASE Fail(i)
    BY <1>1, AdvanceHolds DEF StartClock, Fail, IInv, TypeOK, Under, Busy
  <1>2. CASE ~Fail(i)
    <2>1. /\ pc[i] = "clock" /\ pc' = [pc EXCEPT ![i] = "setup"]
          /\ UNCHANGED <<who, open, holds, stopFlag, session, ended>>
      BY <1>2 DEF StartClock
    <2>2. \/ /\ port' = [port EXCEPT ![i] = BindPtp(i)]
             /\ threads' = [threads EXCEPT ![i] = @ \cup {"clock"}]
          \/ UNCHANGED <<port, threads>>
      BY <1>2 DEF StartClock
    <2>3. SessionInv' /\ \A j \in Starts : pc'[j] = IF j = i THEN "setup" ELSE pc[j]
      BY <2>1, PhaseHolds DEF Under, Busy
    <2>4. TypeOK'
      BY <2>1, <2>2 DEF IInv, TypeOK, Places, Busy, Kinds, BindPtp
    <2>5. ClockInv'
      <3>1. ~stopFlag[i]
        BY <2>1 DEF IInv, ClockInv
      <3>2. \A j \in Starts \ {i} : port'[j] = port[j] /\ threads'[j] = threads[j]
        BY <2>2 DEF IInv, TypeOK
      <3>3. port'[i] # "none" => "clock" \in threads'[i]
        BY <2>2 DEF IInv, TypeOK, ClockInv
      <3> QED BY <2>1, <2>3, <3>1, <3>2, <3>3 DEF IInv, ClockInv
    <2>6. PlaceInv' /\ ReselectWaits'
      BY <2>1, <2>3 DEF IInv, PlaceInv, ReselectWaits
    <2> QED BY <2>3, <2>4, <2>5, <2>6 DEF IInv
  <1> QED BY <1>1, <1>2

\* The phases between leave connections, clock and flag alone.
LEMMA MemberHolds ==
  ASSUME IInv, NEW i \in Starts, NEW r \in who[i],
         SetupSession(i, r) \/ SetupStream(i, r) \/ Record(i, r)
  PROVE  IInv'
  <1>1. CASE Fail(i)
    BY <1>1, AdvanceHolds DEF SetupSession, SetupStream, Record, Fail, IInv, TypeOK, Under, Busy
  <1>2. CASE ~Fail(i)
    <2>1. PICK n \in {"stream", "record", "media"} :
            /\ pc[i] \in {"setup", "stream", "record"} /\ Seen(i, r, n)
            /\ UNCHANGED <<who, open, holds, threads, stopFlag, port, session, ended>>
      BY <1>2 DEF SetupSession, SetupStream, Record
    <2>2. PICK q \in {"setup", "stream", "record", "media"} : pc' = [pc EXCEPT ![i] = q]
      BY <2>1, SeenSteps DEF Places, Busy
    <2> QED BY <2>1, <2>2, AdvanceHolds DEF IInv, TypeOK, Under, Busy
  <1> QED BY <1>1, <1>2

\* The threads of the audio start, some or all.
LEMMA SpawnHolds ==
  ASSUME IInv, NEW i \in Starts, SpawnGeneral(i) \/ SpawnHomePod(i)
  PROVE  IInv'
  <1>1. CASE Fail(i)
    BY <1>1, AdvanceHolds DEF SpawnGeneral, SpawnHomePod, Fail, IInv, TypeOK, Under, Busy
  <1>2. CASE ~Fail(i)
    <2>1. PICK q \in {"bind", "unwind"}, more \in SUBSET {"aux", "sender", "volume"} :
            /\ pc[i] = "media" /\ pc' = [pc EXCEPT ![i] = q]
            /\ threads' = [threads EXCEPT ![i] = @ \cup more]
            /\ UNCHANGED <<who, open, holds, stopFlag, port, session, ended>>
      <3>1. CASE SpawnHomePod(i)
        BY <1>2, <3>1 DEF SpawnHomePod
      <3>2. CASE SpawnGeneral(i)
        <4>1. PICK aux \in {{}, {"aux"}} :
                \/ /\ pc' = [pc EXCEPT ![i] = "bind"]
                   /\ threads' = [threads EXCEPT ![i] = @ \cup aux \cup {"sender"}]
                \/ /\ pc' = [pc EXCEPT ![i] = "unwind"]
                   /\ threads' = [threads EXCEPT ![i] = @ \cup aux]
          BY <3>2 DEF SpawnGeneral
        <4>2. pc[i] = "media" /\ UNCHANGED <<who, open, holds, stopFlag, port, session, ended>>
          BY <3>2 DEF SpawnGeneral
        <4>3. aux \in SUBSET {"aux", "sender", "volume"}
                /\ aux \cup {"sender"} \in SUBSET {"aux", "sender", "volume"}
          OBVIOUS
        <4>4. threads[i] \cup aux \cup {"sender"} = threads[i] \cup (aux \cup {"sender"})
          OBVIOUS
        <4> QED BY <4>1, <4>2, <4>3, <4>4
      <3> QED BY <3>1, <3>2
    <2>2. threads' \in [Starts -> SUBSET Kinds]
      BY <2>1 DEF IInv, TypeOK, Kinds
    <2>3. threads'[i] \cap {"clock"} = threads[i] \cap {"clock"}
      BY <2>1 DEF IInv, TypeOK
    <2>4. \A j \in Starts \ {i} : threads'[j] = threads[j]
      BY <2>1 DEF IInv, TypeOK
    <2> QED BY <2>1, <2>2, <2>3, <2>4, AdvanceHolds DEF Under, Busy
  <1> QED BY <1>1, <1>2

-----------------------------------------------------------------------------
(* The ends of an attempt. *)

\* What an attempt that is over held is given up.
LEMMA TeardownFrees ==
  ASSUME IInv, NEW i \in Starts, Teardown(i), UNCHANGED <<who, ended>>,
         \A j \in Starts : pc'[j] = IF j = i THEN "gone" ELSE pc[j]
  PROVE  /\ open' \in [Starts -> SUBSET Receivers] /\ holds' \in [Receivers -> SUBSET Starts]
         /\ PlaceInv' /\ ReselectWaits'
  <1>1. open' \in [Starts -> SUBSET Receivers]
    BY DEF Teardown, IInv, TypeOK
  <1>2. holds' \in [Receivers -> SUBSET Starts]
    BY DEF Teardown, IInv, TypeOK
  <1>3. \A r \in Receivers : holds'[r] = IF r \in open[i] THEN holds[r] \ {i} ELSE holds[r]
    BY DEF Teardown
  <1>4. \A j \in Starts : open'[j] = IF j = i THEN {} ELSE open[j]
    BY DEF Teardown, IInv, TypeOK
  <1>5. \A r \in Receivers : i \notin holds'[r] /\ holds'[r] \subseteq holds[r]
    <2>1. \A r \in Receivers : i \in holds[r] => r \in open[i]
      BY DEF IInv, PlaceInv
    <2> QED BY <1>3, <2>1
  <1>6. PlaceInv'
    BY <1>2, <1>4, <1>5 DEF IInv, PlaceInv
  <1>7. ReselectWaits'
    BY <1>5 DEF IInv, ReselectWaits
  <1> QED BY <1>1, <1>2, <1>6, <1>7

\* A failed bring-up of the general path leaves its clock behind, and the flag unset.
LEMMA UnwindGeneralHolds ==
  ASSUME IInv, NEW i \in Starts, UnwindGeneral(i)
  PROVE  IInv'
  <1>1. /\ pc[i] = "unwind" /\ pc' = [pc EXCEPT ![i] = "gone"] /\ Teardown(i)
        /\ UNCHANGED <<who, threads, stopFlag, port, session, ended>>
    BY DEF UnwindGeneral
  <1>2. SessionInv' /\ \A j \in Starts : pc'[j] = IF j = i THEN "gone" ELSE pc[j]
    BY <1>1, PhaseHolds DEF Under, Busy
  <1>3. PlaceInv' /\ ReselectWaits' /\ open' \in [Starts -> SUBSET Receivers]
          /\ holds' \in [Receivers -> SUBSET Starts]
    BY <1>1, <1>2, TeardownFrees
  <1>4. TypeOK'
    BY <1>1, <1>3 DEF IInv, TypeOK, Places
  <1>5. ClockInv'
    <2>1. ~stopFlag[i]
      BY <1>1 DEF IInv, ClockInv
    <2> QED BY <1>1, <1>2, <2>1 DEF IInv, ClockInv
  <1> QED BY <1>2, <1>3, <1>4, <1>5 DEF IInv

\* The HomePod path's clock is told to stop first.
LEMMA UnwindClockHolds ==
  ASSUME IInv, NEW i \in Starts, UnwindClock(i)
  PROVE  IInv'
  BY AdvanceHolds DEF UnwindClock, IInv, TypeOK, Under, Busy

\* Its connections are dropped, and its flag set, once the clock has ended.
LEMMA UnwindHomePodHolds ==
  ASSUME IInv, NEW i \in Starts, UnwindHomePod(i)
  PROVE  IInv'
  <1>1. /\ pc[i] = "released" /\ "clock" \notin threads[i]
        /\ pc' = [pc EXCEPT ![i] = "gone"] /\ Teardown(i)
        /\ UNCHANGED <<who, threads, port, session, ended>>
    BY DEF UnwindHomePod, ClockJoined
  <1>2. SessionInv' /\ \A j \in Starts : pc'[j] = IF j = i THEN "gone" ELSE pc[j]
    BY <1>1, PhaseHolds DEF Under, Busy
  <1>3. PlaceInv' /\ ReselectWaits' /\ open' \in [Starts -> SUBSET Receivers]
          /\ holds' \in [Receivers -> SUBSET Starts]
    BY <1>1, <1>2, TeardownFrees
  <1>4. stopFlag' \in [Starts -> BOOLEAN] /\ \A j \in Starts \ {i} : stopFlag'[j] = stopFlag[j]
    BY DEF UnwindHomePod, IInv, TypeOK
  <1>5. TypeOK'
    BY <1>1, <1>3, <1>4 DEF IInv, TypeOK, Places
  <1>6. ClockInv'
    BY <1>1, <1>2, <1>4 DEF IInv, ClockInv
  <1> QED BY <1>2, <1>3, <1>5, <1>6 DEF IInv

\* A step of a stop.
LEMMA StopSteps ==
  ASSUME IInv, NEW i \in Starts, pc[i] \in Stopped, NEW q \in {"join", "clockJoin", "gone"},
         pc' = [pc EXCEPT ![i] = q], UNCHANGED <<who, session, ended>>
  PROVE  SessionInv' /\ \A j \in Starts : pc'[j] = IF j = i THEN q ELSE pc[j]
  <1>1. \A j \in Starts : pc'[j] = IF j = i THEN q ELSE pc[j]
    BY DEF IInv, TypeOK
  <1>2. i # session
    BY StartsAreNumbers DEF IInv, SessionInv, Stopped
  <1>3. \A j \in Starts : pc[j] \in Busy => j # i
    BY DEF Busy, Stopped
  <1>4. \A j \in Starts : pc'[j] \in Busy <=> pc[j] \in Busy
    BY <1>1 DEF Busy, Stopped
  <1>5. \A j \in Starts : pc'[j] = "up" <=> pc[j] = "up"
    BY <1>1 DEF Stopped
  <1>6. \A j \in Starts : pc'[j] \in Stopped => pc[j] \in Stopped
    BY <1>1
  <1>7. \A j \in Starts : pc[j] \in {"wait", "bind"} => pc'[j] = pc[j]
    BY <1>1 DEF Stopped
  <1>8. ASSUME NEW j \in Starts, pc'[j] \in Stopped, j \notin ended
        PROVE  \E k \in Starts : pc'[k] = "wait" \/ (pc'[k] = "bind" /\ who[k] # who[j])
    BY <1>6, <1>7, <1>8 DEF IInv, SessionInv
  <1> QED BY <1>1, <1>2, <1>4, <1>5, <1>8 DEF IInv, SessionInv

\* The flag is set as the stop begins.
LEMMA StopBeginsHolds ==
  ASSUME IInv, NEW i \in Starts, StopBegins(i)
  PROVE  IInv'
  <1>1. /\ pc[i] = "stop" /\ pc' = [pc EXCEPT ![i] = "join"]
        /\ UNCHANGED <<who, open, holds, threads, port, session, ended>>
    BY DEF StopBegins
  <1>2. SessionInv' /\ \A j \in Starts : pc'[j] = IF j = i THEN "join" ELSE pc[j]
    BY <1>1, StopSteps DEF Stopped
  <1>3. stopFlag' \in [Starts -> BOOLEAN] /\ \A j \in Starts \ {i} : stopFlag'[j] = stopFlag[j]
    BY DEF StopBegins, IInv, TypeOK
  <1>4. TypeOK'
    BY <1>1, <1>3 DEF IInv, TypeOK, Places, Stopped
  <1>5. ClockInv'
    BY <1>1, <1>2, <1>3 DEF IInv, ClockInv
  <1>6. PlaceInv' /\ ReselectWaits'
    BY <1>1, <1>2 DEF IInv, PlaceInv, ReselectWaits
  <1> QED BY <1>2, <1>4, <1>5, <1>6 DEF IInv

\* The threads have ended, the clock is told to.
LEMMA StopJoinsHolds ==
  ASSUME IInv, NEW i \in Starts, StopJoins(i)
  PROVE  IInv'
  <1>1. /\ pc[i] = "join" /\ pc' = [pc EXCEPT ![i] = "clockJoin"]
        /\ UNCHANGED <<who, open, holds, threads, stopFlag, port, session, ended>>
    BY DEF StopJoins
  <1>2. SessionInv' /\ \A j \in Starts : pc'[j] = IF j = i THEN "clockJoin" ELSE pc[j]
    BY <1>1, StopSteps DEF Stopped
  <1>3. TypeOK'
    BY <1>1 DEF IInv, TypeOK, Places, Stopped
  <1>4. ClockInv'
    BY <1>1, <1>2 DEF IInv, ClockInv
  <1>5. PlaceInv' /\ ReselectWaits'
    BY <1>1, <1>2 DEF IInv, PlaceInv, ReselectWaits
  <1> QED BY <1>2, <1>3, <1>4, <1>5 DEF IInv

\* The clock has ended, the receivers are torn down.
LEMMA StopEndsHolds ==
  ASSUME IInv, NEW i \in Starts, StopEnds(i)
  PROVE  IInv'
  <1>1. /\ pc[i] = "clockJoin" /\ threads[i] = {} /\ pc' = [pc EXCEPT ![i] = "gone"] /\ Teardown(i)
        /\ UNCHANGED <<who, threads, stopFlag, port, session, ended>>
    BY DEF StopEnds
  <1>2. SessionInv' /\ \A j \in Starts : pc'[j] = IF j = i THEN "gone" ELSE pc[j]
    BY <1>1, StopSteps DEF Stopped
  <1>3. PlaceInv' /\ ReselectWaits' /\ open' \in [Starts -> SUBSET Receivers]
          /\ holds' \in [Receivers -> SUBSET Starts]
    BY <1>1, <1>2, TeardownFrees
  <1>4. TypeOK'
    BY <1>1, <1>3 DEF IInv, TypeOK, Places
  <1>5. ClockInv'
    BY <1>1, <1>2 DEF IInv, ClockInv
  <1> QED BY <1>2, <1>3, <1>4, <1>5 DEF IInv

-----------------------------------------------------------------------------
(* The threads. *)

\* A thread that ends, the clock's with its port, or one that waits.
LEMMA ThreadHolds ==
  ASSUME IInv, NEW i \in Starts, NEW t,
         threads' = [threads EXCEPT ![i] = @ \ {t}] \/ UNCHANGED threads,
         t = "clock" => port' = [port EXCEPT ![i] = "none"], t # "clock" => UNCHANGED port,
         UNCHANGED <<who, pc, open, holds, stopFlag, session, ended>>
  PROVE  IInv'
  <1>1. port' \in [Starts -> {"none", "well", "other"}]
    BY DEF IInv, TypeOK
  <1>2. threads' \in [Starts -> SUBSET Kinds] /\ \A j \in Starts : threads'[j] \subseteq threads[j]
    BY DEF IInv, TypeOK
  <1>3. ASSUME NEW j \in Starts, port'[j] # "none"
        PROVE  "clock" \in threads'[j]
    BY <1>3 DEF IInv, TypeOK, ClockInv
  <1>4. TypeOK'
    BY <1>1, <1>2 DEF IInv, TypeOK
  <1>5. ClockInv'
    BY <1>2, <1>3 DEF IInv, ClockInv
  <1>6. SessionInv' /\ PlaceInv' /\ ReselectWaits'
    BY DEF IInv, SessionInv, PlaceInv, ReselectWaits
  <1> QED BY <1>4, <1>5, <1>6 DEF IInv

\* What is left alone leaves the invariant.
LEMMA SameHolds ==
  ASSUME IInv, UNCHANGED <<who, pc, open, holds, threads, stopFlag, port, session, ended>>
  PROVE  IInv'
  <1>1. TypeOK' /\ ClockInv'
    BY DEF IInv, TypeOK, ClockInv
  <1>2. SessionInv' /\ PlaceInv' /\ ReselectWaits'
    BY DEF IInv, SessionInv, PlaceInv, ReselectWaits
  <1> QED BY <1>1, <1>2 DEF IInv

-----------------------------------------------------------------------------
\* Every step keeps the invariant.
LEMMA StepHolds == IInv /\ [Next]_vars => IInv'
  <1> SUFFICES ASSUME IInv, [Next]_vars PROVE IInv'
    OBVIOUS
  <1>1. CASE UNCHANGED vars
    BY <1>1, SameHolds DEF vars, attempt
  <1>2. CASE EndSession
    BY <1>2, EndSessionHolds
  <1>3. ASSUME NEW i \in Starts, NEW t \in Targets, Select(i, t)
        PROVE  IInv'
    BY <1>3, SelectHolds
  <1>4. ASSUME NEW i \in Starts, Proceed(i) \/ Bind(i) \/ StartClock(i)
        PROVE  IInv'
    BY <1>4, ProceedHolds, BindHolds, StartClockHolds
  <1>5. ASSUME NEW i \in Starts, NEW r \in who[i], ConnectAndPair(i, r)
        PROVE  IInv'
    BY <1>5, ConnectHolds
  <1>6. ASSUME NEW i \in Starts, NEW r \in who[i], SetupSession(i, r) \/ SetupStream(i, r) \/ Record(i, r)
        PROVE  IInv'
    BY <1>6, MemberHolds
  <1>7. ASSUME NEW i \in Starts, SpawnGeneral(i) \/ SpawnHomePod(i)
        PROVE  IInv'
    BY <1>7, SpawnHolds
  <1>8. ASSUME NEW i \in Starts, UnwindGeneral(i) \/ UnwindClock(i) \/ UnwindHomePod(i)
        PROVE  IInv'
    BY <1>8, UnwindGeneralHolds, UnwindClockHolds, UnwindHomePodHolds
  <1>9. ASSUME NEW i \in Starts, StopBegins(i) \/ StopJoins(i) \/ StopEnds(i)
        PROVE  IInv'
    BY <1>9, StopBeginsHolds, StopJoinsHolds, StopEndsHolds
  <1>10. ASSUME NEW i \in Starts, ClockEnds(i)
         PROVE  IInv'
    BY <1>10, ThreadHolds DEF ClockEnds
  <1>11. ASSUME NEW i \in Starts, NEW t \in threads[i], ThreadEnds(i, t)
         PROVE  IInv'
    BY <1>11, ThreadHolds DEF ThreadEnds
  <1>12. ASSUME NEW i \in Starts, WriteTimesOut(i)
         PROVE  IInv'
    <2>1. /\ threads' = [threads EXCEPT ![i] = @ \ {"sender"}]
          /\ UNCHANGED <<who, pc, open, holds, stopFlag, port, session, ended>>
      BY <1>12 DEF WriteTimesOut
    <2> DEFINE t == "sender"
    <2>2. threads' = [threads EXCEPT ![i] = @ \ {t}] /\ t # "clock"
      BY <2>1
    <2> HIDE DEF t
    <2> QED BY <2>1, <2>2, ThreadHolds
  <1>13. ASSUME NEW i \in Starts, NEW r \in who[i], Stall(i) \/ EventEnds(i, r) \/ FeedbackEnds(i, r)
         PROVE  IInv'
    BY <1>13, SameHolds DEF Stall, EventEnds, FeedbackEnds
  <1>14. ASSUME NEW i \in Starts, Stall(i)
         PROVE  IInv'
    BY <1>14, SameHolds DEF Stall
  <1> QED BY <1>1, <1>2, <1>3, <1>4, <1>5, <1>6, <1>7, <1>8, <1>9, <1>10, <1>11, <1>12, <1>13, <1>14
          DEF Next

\* The invariant holds of every behaviour.
THEOREM BringUpAccounted == Spec => []IInv
  BY InitBringUp, StepHolds, PTL DEF Spec

\* A receiver's session is open only while an attempt owns it, and the next one is asked
\* for when the one it replaces has ended.
THEOREM ReceiversAreFreed == Spec => []ReceiversFreed
  <1>1. IInv => ReceiversFreed
    <2> SUFFICES ASSUME IInv, NEW i \in Starts, pc[i] = "gone", NEW r \in Receivers
                 PROVE  i \notin holds[r]
      BY DEF IInv, ReceiversFreed, HalfOpenEnds
    <2> QED BY DEF IInv, PlaceInv
  <1> QED BY BringUpAccounted, <1>1, PTL

\* What would keep the ports from a start.
LEMMA PortsFree ==
  ASSUME IInv, [Next]_vars, NEW i \in Starts, port[i] = "none", port'[i] # "none",
         \A j \in Starts \ {i} : pc[j] \in {"none", "gone"} /\ (pc[j] = "gone" => stopFlag[j])
  PROVE  port'[i] = "well"
  <1>1. PICK j \in Starts : StartClock(j)
    <2>1. ASSUME NEW j \in Starts, ClockEnds(j)
          PROVE  FALSE
      BY <2>1 DEF ClockEnds, IInv, TypeOK
    <2> QED BY <2>1 DEF Next, vars, attempt, EndSession, Select, Proceed, Bind, ConnectAndPair, SetupSession,
                 SetupStream, Record, Fail, SpawnGeneral, SpawnHomePod, UnwindGeneral, UnwindClock,
                 UnwindHomePod, StopBegins, StopJoins, StopEnds, ThreadEnds, Stall, WriteTimesOut,
                 EventEnds, FeedbackEnds
  <1>2. port' = [port EXCEPT ![j] = BindPtp(j)]
    BY <1>1 DEF StartClock, Fail
  <1>3. j = i /\ port'[i] = BindPtp(i)
    BY <1>2 DEF IInv, TypeOK
  <1>4. \A k \in Starts : port[k] = "none"
    BY DEF IInv, ClockInv
  <1> QED BY <1>3, <1>4 DEF BindPtp

\* A start that follows stops and failed HomePod bring-ups gets the PTP ports.
THEOREM RetriesOwnPorts == Spec => RetryOwnsPorts
  <1>1. IInv /\ [Next]_vars =>
        [\A i \in Starts :
            /\ port[i] = "none" /\ port'[i] # "none"
            /\ \A j \in Starts \ {i} :
                  pc[j] \in {"none", "gone"} /\ (pc[j] = "gone" => stopFlag[j])
            => port'[i] = "well"]_vars
    BY PortsFree
  <1> QED BY BringUpAccounted, <1>1, PTL DEF Spec, RetryOwnsPorts

-----------------------------------------------------------------------------
\* Division with remainder by a positive number leaves only one remainder.
LEMMA Unique ==
  ASSUME NEW C \in Nat \ {0}, NEW q1 \in Int, NEW q2 \in Int,
         NEW r1 \in 0..C-1, NEW r2 \in 0..C-1, C * q1 + r1 = C * q2 + r2
  PROVE  r1 = r2
  <1>1. ASSUME NEW a \in Int, NEW b \in Int, a < b PROVE C * a + C <= C * b
    <2>1. C * (b - a) >= C
      BY <1>1, SMT
    <2> QED BY <2>1, SMT
  <1>2. ~(q1 < q2)
    BY <1>1, SMT
  <1>3. ~(q2 < q1)
    BY <1>1, SMT
  <1> QED BY <1>2, <1>3, SMT

\* A number is a multiple of the modulus and its remainder.
LEMMA DivMod ==
  ASSUME NEW C \in Nat \ {0}, NEW t \in Int
  PROVE  t % C \in 0..C-1 /\ \E q \in Int : t = C * q + (t % C)
  <1>1. t = C * (t \div C) + (t % C)
    BY Z3
  <1>2. t \div C \in Int
    BY SMT
  <1>3. t % C \in 0..C-1
    BY SMT
  <1> QED BY <1>1, <1>2, <1>3

\* A sum may be reduced at any time.
LEMMA ModPlus ==
  ASSUME NEW C \in Nat \ {0}, NEW a \in Int, NEW b \in Int
  PROVE  ((a % C) + b) % C = (a + b) % C
  <1>1. PICK p \in Int : a = C * p + (a % C)
    BY DivMod
  <1>2. a % C \in Int /\ (a % C) + b \in Int /\ a + b \in Int
    BY DivMod
  <1>3. PICK q \in Int : (a % C) + b = C * q + (((a % C) + b) % C)
    BY <1>2, DivMod, Zenon
  <1>4. PICK r \in Int : a + b = C * r + ((a + b) % C)
    BY <1>2, DivMod, Zenon
  <1>5. ((a % C) + b) % C \in 0..C-1 /\ (a + b) % C \in 0..C-1
    BY <1>2, DivMod, Zenon
  <1> DEFINE x == a % C
             y == (x + b) % C
             z == (a + b) % C
  <1>6. C * (p + q) + y = C * r + z
    <2> HIDE DEF x, y, z
    <2>1. x \in Int /\ y \in Int /\ z \in Int
      BY <1>2, <1>5 DEF x, y, z
    <2>2. a = C * p + x /\ x + b = C * q + y /\ a + b = C * r + z
      BY <1>1, <1>3, <1>4, Zenon DEF x, y, z
    <2>3. C * (p + q) = C * p + C * q
      BY SMT
    <2> QED BY <2>1, <2>2, <2>3
  <1>7. p + q \in Int
    OBVIOUS
  <1> QED BY <1>5, <1>6, <1>7, Unique

\* Different numbers with one remainder are a whole round apart.
LEMMA RoundApart ==
  ASSUME NEW C \in Nat \ {0}, NEW a \in Int, NEW b \in Int, a % C = b % C, a < b
  PROVE  b - a >= C
  <1>1. PICK p \in Int : a = C * p + (a % C)
    BY DivMod
  <1>2. PICK q \in Int : b = C * q + (b % C)
    BY DivMod
  <1> DEFINE x == a % C
  <1>3. x \in Int /\ a = C * p + x /\ b = C * q + x
    BY <1>1, <1>2, DivMod
  <1> HIDE DEF x
  <1>4. C * p < C * q
    BY <1>3
  <1>5. ~(q <= p)
    <2> SUFFICES ASSUME q <= p PROVE FALSE
      OBVIOUS
    <2>1. C * (p - q) >= 0
      BY SMT
    <2>2. C * (p - q) = C * p - C * q
      BY SMT
    <2> QED BY <1>4, <2>1, <2>2
  <1>6. C * (q - p) >= C
    BY <1>5, SMT
  <1>7. C * (q - p) = C * q - C * p
    BY SMT
  <1> QED BY <1>3, <1>6, <1>7

\* Whole rounds do not count.
LEMMA ModRounds ==
  ASSUME NEW C \in Nat \ {0}, NEW a \in Int, NEW k \in Int
  PROVE  (a + C * k) % C = a % C
  <1> DEFINE b == a + C * k
             x == a % C
             y == b % C
  <1>1. PICK p \in Int : a = C * p + x
    BY DivMod
  <1>2. b \in Int /\ C * k \in Int
    OBVIOUS
  <1>3. x \in 0..C-1
    BY DivMod
  <1> HIDE DEF x, y
  <1>4. y \in 0..C-1
    BY <1>2, DivMod, Zenon DEF y
  <1>5. PICK q \in Int : b = C * q + y
    BY <1>2, DivMod, Zenon DEF y
  <1>6. C * (p + k) + x = C * q + y
    <2>1. C * (p + k) = C * p + C * k
      BY SMT
    <2>2. x \in Int /\ y \in Int
      BY <1>3, <1>4
    <2> QED BY <1>1, <1>2, <1>5, <2>1, <2>2
  <1>7. p + k \in Int
    OBVIOUS
  <1>8. x = y
    BY <1>3, <1>4, <1>6, <1>7, Unique
  <1> QED BY <1>8 DEF x, y

LEMMA Products ==
  ASSUME NEW r \in Nat, NEW a \in Nat, NEW b \in Nat, a <= b
  PROVE  r * a \in Nat /\ r * b \in Nat /\ r * (b - a) = r * b - r * a /\ r * a <= r * b
  <1>1. r * a \in Nat /\ r * b \in Nat /\ b - a \in Nat
    BY SMT
  <1>2. r * (b - a) = r * b - r * a
    BY SMT
  <1>3. r * (b - a) >= 0
    BY <1>1, SMT
  <1> QED BY <1>1, <1>2, <1>3

-----------------------------------------------------------------------------
(* The audio of an AirPlay 2 session.                                        *)

Packets == [slot : Nat, rtp : Int, seq : Int, nonce : Int]
Entries == [seq : Int, nonce : Int, expires : Int]

\* Entry h[k] is of a packet in s, and those of the packets after that follow it.
Recalls(h, s, k) ==
    \E p \in s :
        /\ p.seq = h[k].seq /\ p.nonce = h[k].nonce /\ h[k].expires = p.slot + Latency
        /\ \A q \in s : q.slot > p.slot => \E l \in k+1..Len(h) : h[l].seq = q.seq
Original(h, s) == \A k \in 1..Len(h) : Recalls(h, s, k)

MediaTypes ==
    /\ profile \in Media!Profiles /\ now \in Nat /\ slot \in Nat /\ rtptime \in 0..TsMod-1
    /\ seq \in [Pods -> Int] /\ counter \in [Pods -> Int]
    /\ history \in [Pods -> Seq(Entries)] /\ sent \in [Pods -> SUBSET Packets]
    /\ anchor \in [rtp : Int, at : Int, set : BOOLEAN]

\* The timestamp of the next packet, and its sequence number, fit the slot.
TimeInv ==
    /\ profile # "buffered" => rtptime = (Media!First + slot) % TsMod
    /\ profile = "group" => \A m \in Pods : seq[m] = (Media!FirstSeq(m) + slot) % SeqMod
    /\ profile = "buffered" =>
          /\ resent = {} /\ \A m \in Pods : history[m] = <<>>
          /\ IF anchor.set THEN rtptime = (anchor.rtp + slot - (anchor.at - Media!Lead)) % TsMod
                           ELSE \A m \in Pods : sent[m] = {}

\* Nonces and slots are used up, and the history is of what was sent last.
SentInv ==
    \A m \in Pods :
        /\ \A p \in sent[m] : p.nonce < counter[m] /\ p.slot < slot
        /\ Original(history[m], sent[m])

MediaInv ==
    /\ MediaTypes /\ TimeInv /\ SentInv
    /\ Media!NonceOnce /\ Media!Glued /\ Media!TrueOffset /\ Media!ResendIsOriginal

\* What the audio needs of its constants.
LEMMA MediaConstants ==
    /\ Pods # {} /\ SeqMod \in Nat \ {0} /\ TsMod \in Nat \ {0}
    /\ SkipAfter \in Nat /\ Latency \in Nat /\ HistoryCap \in Nat \ {0}
  BY AirPlayConstants DEF Media!ConstantsOK

LEMMA MediaInitInv == Media!Init => MediaInv
  <1> SUFFICES ASSUME Media!Init PROVE MediaInv
    OBVIOUS
  <1>1. /\ \A m \in Pods : sent[m] = {} /\ history[m] = <<>> /\ seq[m] = SeqMod - 2 /\ counter[m] = SeqMod - 2
        /\ slot = 0 /\ rtptime = 0 /\ resent = {}
    BY DEF Media!Init, Media!First, Media!FirstSeq
  <1>2. MediaTypes
    BY MediaConstants DEF Media!Init, Media!First, Media!FirstSeq, Media!NoAnchor, MediaTypes
  <1>3. 0 = 0 % TsMod
    BY MediaConstants, SMT
  <1>4. SeqMod - 2 = (SeqMod - 2 + 0) % SeqMod
    BY AirPlayConstants, SMT DEF Media!ConstantsOK
  <1>5. TimeInv
    BY <1>1, <1>3, <1>4 DEF TimeInv, Media!Init, Media!First, Media!FirstSeq, Media!NoAnchor
  <1>6. SentInv
    BY <1>1 DEF SentInv, Original
  <1>7. Media!NonceOnce /\ Media!Glued /\ Media!ResendIsOriginal
    BY <1>1 DEF Media!NonceOnce, Media!Glued, Media!ResendIsOriginal
  <1>8. Media!TrueOffset
    BY DEF Media!Init, Media!TrueOffset
  <1> QED BY <1>2, <1>5, <1>6, <1>7, <1>8 DEF MediaInv

\* The history keeps the packet sent, and drops its oldest for it.
LEMMA KeepRecalls ==
    ASSUME NEW h \in Seq(Entries), NEW s \in SUBSET Packets, NEW p \in Packets, Original(h, s),
           \A q \in s : q.slot < p.slot
    PROVE  LET e == [seq |-> p.seq, nonce |-> p.nonce, expires |-> p.slot + Latency]
           IN  Media!Keep(h, e) \in Seq(Entries) /\ Original(Media!Keep(h, e), s \cup {p})
  <1> DEFINE e == [seq |-> p.seq, nonce |-> p.nonce, expires |-> p.slot + Latency]
             old == IF Len(h) >= HistoryCap THEN Tail(h) ELSE h
             dropped == IF Len(h) >= HistoryCap THEN 1 ELSE 0
             new == Media!Keep(h, e)
  <1>1. e \in Entries
    BY MediaConstants DEF Entries, Packets
  <1>2. old \in Seq(Entries) /\ Len(old) = Len(h) - dropped /\ \A k \in 1..Len(old) : old[k] = h[k + dropped]
    BY MediaConstants
  <1>3. new = Append(old, e)
    BY DEF Media!Keep
  <1> HIDE DEF e, old, new
  <1>4. /\ new \in Seq(Entries) /\ Len(new) = Len(old) + 1 /\ new[Len(new)] = e
        /\ \A k \in 1..Len(old) : new[k] = h[k + dropped]
    BY <1>1, <1>2, <1>3
  <1>5. ASSUME NEW k \in 1..Len(new) PROVE Recalls(new, s \cup {p}, k)
    <2>1. CASE k = Len(new)
      <3>1. p.seq = e.seq /\ p.nonce = e.nonce /\ e.expires = p.slot + Latency
        BY DEF e
      <3>2. \A q \in s \cup {p} : ~(q.slot > p.slot)
        BY DEF Packets
      <3> QED BY <1>4, <2>1, <3>1, <3>2 DEF Recalls
    <2>2. CASE k # Len(new)
      <3>1. k \in 1..Len(old) /\ k + dropped \in 1..Len(h) /\ new[k] = h[k + dropped]
        BY <1>2, <1>4, <2>2
      <3>2. PICK o \in s :
                /\ o.seq = h[k + dropped].seq /\ o.nonce = h[k + dropped].nonce
                /\ h[k + dropped].expires = o.slot + Latency
                /\ \A q \in s : q.slot > o.slot => \E l \in k+dropped+1..Len(h) : h[l].seq = q.seq
        <4>1. Recalls(h, s, k + dropped)
          BY <3>1, Zenon DEF Original
        <4> QED BY <4>1, SMTT(30) DEF Recalls
      <3>3. ASSUME NEW q \in s \cup {p}, q.slot > o.slot PROVE \E l \in k+1..Len(new) : new[l].seq = q.seq
        <4>1. CASE q = p
          BY <1>4, <2>2, <4>1 DEF e
        <4>2. CASE q \in s
          <5>1. PICK l \in k+dropped+1..Len(h) : h[l].seq = q.seq
            BY <3>2, <3>3, <4>2
          <5>2. l - dropped \in k+1..Len(old) /\ l - dropped \in 1..Len(old)
            BY <1>2, <5>1
          <5>3. new[l - dropped] = h[(l - dropped) + dropped] /\ (l - dropped) + dropped = l
            BY <1>4, <5>1, <5>2
          <5>4. l - dropped \in k+1..Len(new)
            BY <1>4, <1>2, <5>2
          <5> QED BY <5>1, <5>3, <5>4
        <4> QED BY <4>1, <4>2
      <3> QED BY <3>1, <3>2, <3>3 DEF Recalls
    <2> QED BY <2>1, <2>2
  <1>6. Original(new, s \cup {p})
    BY <1>5 DEF Original
  <1> QED BY <1>4, <1>6 DEF e, new

\* What a step that sends nothing and moves no timestamp leaves.
LEMMA MediaStays ==
    ASSUME MediaInv, UNCHANGED <<profile, slot, rtptime, seq, counter, history, sent, resent, anchor>>,
           now' \in Nat, Media!TrueOffset'
    PROVE  MediaInv'
  <1>1. MediaTypes' /\ TimeInv' /\ SentInv'
    BY DEF MediaInv, MediaTypes, TimeInv, SentInv, Original, Recalls, Media!Profiles, Media!First, Media!FirstSeq, Media!Lead
  <1>2. Media!NonceOnce' /\ Media!Glued' /\ Media!ResendIsOriginal'
    BY DEF MediaInv, Media!NonceOnce, Media!Glued, Media!ResendIsOriginal, Media!First, Media!FirstSeq, Media!Lead
  <1> QED BY <1>1, <1>2 DEF MediaInv

\* Slots skipped by a group or by a single sender.
LEMMA SkipInv ==
    ASSUME MediaInv, Media!SkipGroup \/ Media!SkipSingle
    PROVE  MediaInv'
  <1>1. PICK n \in Nat :
            /\ slot' = slot + n /\ rtptime' = (rtptime + n) % TsMod
            /\ profile = "group" => /\ seq' = [m \in Pods |-> (seq[m] + n) % SeqMod]
                                    /\ counter' = [m \in Pods |-> counter[m] + n]
            /\ profile # "group" => UNCHANGED <<seq, counter>>
    <2>1. CASE Media!SkipGroup
      <3>1. Media!Behind \in Nat /\ Media!Missed = Media!Behind
        BY <2>1, MediaConstants DEF Media!SkipGroup, Media!Behind, Media!Missed, MediaInv, MediaTypes
      <3> QED BY <2>1, <3>1 DEF Media!SkipGroup
    <2>2. CASE Media!SkipSingle
      <3>1. Media!Behind + 1 \in Nat
        BY <2>2, MediaConstants DEF Media!SkipSingle, Media!Behind, MediaInv, MediaTypes
      <3>2. Media!Behind \in Int /\ rtptime \in Int /\ slot \in Int
        BY DEF Media!Behind, MediaInv, MediaTypes
      <3>3. slot + Media!Behind + 1 = slot + (Media!Behind + 1)
            /\ rtptime + Media!Behind + 1 = rtptime + (Media!Behind + 1)
        BY <3>2
      <3>4. slot' = slot + (Media!Behind + 1) /\ rtptime' = (rtptime + (Media!Behind + 1)) % TsMod
            /\ UNCHANGED <<seq, counter>> /\ profile # "group"
        BY <2>2, <3>3 DEF Media!SkipSingle
      <3> QED BY <3>1, <3>4
    <2> QED BY <2>1, <2>2
  <1>2. /\ UNCHANGED <<profile, now, history, sent, anchor, offset>> /\ resent' = {}
        /\ profile # "buffered" /\ slot' \in Nat
    BY <1>1 DEF Media!SkipGroup, Media!SkipSingle, Media!clock, MediaInv, MediaTypes
  <1>3. /\ rtptime' \in 0..TsMod-1 /\ seq' \in [Pods -> Int] /\ counter' \in [Pods -> Int]
        /\ \A m \in Pods : counter'[m] >= counter[m]
    <2>1. rtptime' \in 0..TsMod-1
      BY <1>1, DivMod, MediaConstants DEF MediaInv, MediaTypes
    <2>2. seq \in [Pods -> Int] /\ counter \in [Pods -> Int]
      BY DEF MediaInv, MediaTypes
    <2>3. \A x \in Int : (x + n) % SeqMod \in Int
      <3> SUFFICES ASSUME NEW x \in Int PROVE (x + n) % SeqMod \in Int
        OBVIOUS
      <3>1. x + n \in Int
        BY <1>1
      <3> QED BY <3>1, DivMod, MediaConstants
    <2>4. \A m \in Pods : seq[m] \in Int /\ counter[m] \in Int
      BY <2>2
    <2> HIDE DEF Pods
    <2>5. CASE profile = "group"
      <3>1. seq' \in [Pods -> Int]
        BY <1>1, <2>3, <2>4, <2>5, Zenon
      <3>2. \A m \in Pods : counter'[m] = counter[m] + n
        BY <1>1, <2>5
      <3>3. counter' \in [Pods -> Int]
        BY <1>1, <2>4, <2>5
      <3> QED BY <1>1, <2>1, <2>4, <3>1, <3>2, <3>3
    <2>6. CASE profile # "group"
      BY <1>1, <2>1, <2>2, <2>4, <2>6
    <2> QED BY <2>5, <2>6
  <1>4. MediaTypes'
    BY <1>1, <1>2, <1>3 DEF MediaInv, MediaTypes, Media!Profiles
  <1>5. rtptime' = (Media!First + slot') % TsMod
    <2>1. rtptime' = (((Media!First + slot) % TsMod) + n) % TsMod
      BY <1>1, <1>2 DEF MediaInv, TimeInv
    <2>2. Media!First + slot \in Int /\ (Media!First + slot) + n = Media!First + slot'
      BY <1>1, <1>2 DEF MediaInv, MediaTypes, Media!First
    <2> QED BY <1>1, <2>1, <2>2, ModPlus, MediaConstants
  <1>6. ASSUME profile = "group", NEW m \in Pods PROVE seq'[m] = (Media!FirstSeq(m) + slot') % SeqMod
    <2>1. seq'[m] = (((Media!FirstSeq(m) + slot) % SeqMod) + n) % SeqMod
      BY <1>1, <1>6 DEF MediaInv, TimeInv
    <2>2. Media!FirstSeq(m) + slot \in Int /\ (Media!FirstSeq(m) + slot) + n = Media!FirstSeq(m) + slot'
      BY <1>1, <1>2, MediaConstants DEF MediaInv, MediaTypes, Media!FirstSeq
    <2> QED BY <1>1, <2>1, <2>2, ModPlus, MediaConstants
  <1>7. TimeInv'
    BY <1>1, <1>2, <1>5, <1>6 DEF TimeInv, Media!First, Media!FirstSeq
  <1>8. SentInv'
    <2> SUFFICES ASSUME NEW m \in Pods
                 PROVE  (\A p \in sent[m] : p.nonce < counter'[m] /\ p.slot < slot') /\ Original(history[m], sent[m])
      BY <1>1, <1>2 DEF SentInv, Original, Recalls
    <2>1. \A p \in sent[m] : p \in Packets /\ p.nonce < counter[m] /\ p.slot < slot
      BY DEF MediaInv, SentInv, MediaTypes
    <2>2. counter[m] \in Int /\ counter'[m] \in Int /\ slot \in Int
      BY <1>3 DEF MediaInv, MediaTypes
    <2> QED BY <1>1, <1>2, <1>3, <2>1, <2>2 DEF MediaInv, SentInv, Packets
  <1>9. Media!NonceOnce' /\ Media!Glued' /\ Media!ResendIsOriginal' /\ Media!TrueOffset'
    BY <1>1, <1>2 DEF MediaInv, Media!NonceOnce, Media!Glued, Media!ResendIsOriginal, Media!TrueOffset, Media!First,
                Media!FirstSeq, Media!Lead
  <1> QED BY <1>4, <1>7, <1>8, <1>9 DEF MediaInv

\* A packet to each member, and what is sent again.
LEMMA SlotInv ==
    ASSUME MediaInv, NEW early \in BOOLEAN, Media!Slot(early), profile \in {"group", "single"},
           Media!Behind >= 0
    PROVE  MediaInv'
  <1> DEFINE kept == [m \in Pods |-> IF m \in Media!Driven THEN Media!Keep(history[m], Media!Entry(m)) ELSE <<>>]
             next == [m \in Pods |-> IF m \in Media!Driven THEN sent[m] \cup {Media!Packet(m)} ELSE {}]
  <1>1. /\ UNCHANGED <<profile, now, anchor, offset>> /\ slot' = slot + 1 /\ rtptime' = (rtptime + 1) % TsMod
        /\ seq' = [m \in Pods |-> IF m \in Media!Driven THEN (seq[m] + 1) % SeqMod ELSE seq[m]]
        /\ counter' = [m \in Pods |-> IF m \in Media!Driven THEN counter[m] + 1 ELSE counter[m]]
        /\ history' = kept /\ sent' = next
    BY DEF Media!Slot, Media!clock, Media!NextCounter
  <1>2. ASSUME NEW e \in resent'
        PROVE  /\ e.to \in Media!Driven
               /\ \E j \in DOMAIN kept[e.to] :
                     /\ e.seq = kept[e.to][j].seq /\ e.nonce = kept[e.to][j].nonce
                     /\ \A l \in j+1..Len(kept[e.to]) : kept[e.to][l].seq # e.seq
                     /\ now < kept[e.to][j].expires
    <2> DEFINE count == [m \in Pods |-> IF early /\ resends[m] # <<>> THEN 1
                                      ELSE Media!Drained(kept[m], resends[m])]
    <2>1. resent' = UNION {UNION {
              {[to |-> m, seq |-> resends[m][k], nonce |-> kept[m][j].nonce] :
                  j \in {i \in Media!Lookup(kept[m], resends[m][k]) : Media!Playable(kept[m][i])}} :
              k \in 1..count[m]} : m \in Media!Driven}
      BY Zenon DEF Media!Slot
    <2> HIDE DEF kept, count
    <2>3. PICK m \in Media!Driven :
              e \in UNION {{[to |-> m, seq |-> resends[m][k], nonce |-> kept[m][j].nonce] :
                  j \in {i \in Media!Lookup(kept[m], resends[m][k]) : Media!Playable(kept[m][i])}} :
              k \in 1..count[m]}
      BY <2>1
    <2>4. 1..count[m] \subseteq Int
      OBVIOUS
    <2>2. PICK k \in Int : \E j \in Media!Lookup(kept[m], resends[m][k]) :
              Media!Playable(kept[m][j]) /\ e = [to |-> m, seq |-> resends[m][k], nonce |-> kept[m][j].nonce]
      BY <2>3, <2>4
    <2> QED BY <2>2 DEF Media!Lookup, Media!Playable
  <1>3. \A m \in Pods : /\ seq[m] \in Int /\ counter[m] \in Int /\ history[m] \in Seq(Entries)
                        /\ sent[m] \in SUBSET Packets /\ Media!Packet(m) \in Packets
    BY DEF MediaInv, MediaTypes, Media!Packet, Packets
  <1>4. Media!Driven \subseteq Pods /\ (profile = "group" => Media!Driven = Pods)
    BY MediaConstants DEF Media!Driven
  <1> HIDE DEF Pods, kept, next
  <1>5. /\ rtptime' \in 0..TsMod-1 /\ \A m \in Pods : (seq[m] + 1) % SeqMod \in Int
    <2>1. \A x \in Int, C \in Nat \ {0} : (x + 1) % C \in 0..C-1
      <3> SUFFICES ASSUME NEW x \in Int, NEW C \in Nat \ {0} PROVE (x + 1) % C \in 0..C-1
        OBVIOUS
      <3>1. x + 1 \in Int
        OBVIOUS
      <3> QED BY <3>1, DivMod
    <2>2. rtptime \in Int
      BY DEF MediaInv, MediaTypes
    <2>3. \A m \in Pods : (seq[m] + 1) % SeqMod \in 0..SeqMod-1
      BY <1>3, <2>1, MediaConstants, Zenon
    <2> QED BY <1>1, <2>1, <2>2, <2>3, MediaConstants
  <1>6. ASSUME NEW m \in Pods
        PROVE  kept[m] \in Seq(Entries) /\ next[m] \in SUBSET Packets /\ Original(kept[m], next[m])
    <2>1. CASE m \in Media!Driven
      <3> DEFINE p == Media!Packet(m)
      <3>1. Media!Entry(m) = [seq |-> p.seq, nonce |-> p.nonce, expires |-> p.slot + Latency]
        BY DEF Media!Entry, Media!Packet
      <3>2. \A q \in sent[m] : q.slot < p.slot
        BY DEF MediaInv, SentInv, Media!Packet
      <3>3. Original(history[m], sent[m])
        BY DEF MediaInv, SentInv
      <3> HIDE DEF p
      <3>4. p \in Packets
        BY <1>3 DEF p
      <3>5. Media!Keep(history[m], Media!Entry(m)) \in Seq(Entries)
            /\ Original(Media!Keep(history[m], Media!Entry(m)), sent[m] \cup {p})
        BY <1>3, <3>1, <3>2, <3>3, <3>4, KeepRecalls, Zenon
      <3> QED BY <1>3, <2>1, <3>5, Zenon DEF kept, next, p
    <2>2. CASE m \notin Media!Driven
      BY <2>2 DEF kept, next, Original
    <2> QED BY <2>1, <2>2
  <1>7. MediaTypes'
    <2>1. \A m \in Pods : seq'[m] \in Int /\ counter'[m] \in Int
      BY <1>1, <1>3, <1>5
    <2>2. seq' \in [Pods -> Int] /\ counter' \in [Pods -> Int]
      BY <1>1, <2>1
    <2>3. history' \in [Pods -> Seq(Entries)] /\ sent' \in [Pods -> SUBSET Packets]
      BY <1>1, <1>6 DEF kept, next
    <2>4. slot' \in Nat
      BY <1>1 DEF MediaInv, MediaTypes
    <2> QED BY <1>1, <1>5, <2>2, <2>3, <2>4, Zenon DEF MediaInv, MediaTypes, Media!Profiles
  <1>8. TimeInv'
    <2>1. rtptime' = (Media!First + slot') % TsMod
      <3>1. rtptime' = (((Media!First + slot) % TsMod) + 1) % TsMod
        BY <1>1 DEF MediaInv, TimeInv
      <3>2. Media!First + slot \in Int /\ (Media!First + slot) + 1 = Media!First + slot'
        BY <1>1 DEF MediaInv, MediaTypes, Media!First
      <3> QED BY <3>1, <3>2, ModPlus, MediaConstants
    <2>2. ASSUME profile = "group", NEW m \in Pods PROVE seq'[m] = (Media!FirstSeq(m) + slot') % SeqMod
      <3>1. seq'[m] = (((Media!FirstSeq(m) + slot) % SeqMod) + 1) % SeqMod
        BY <1>1, <1>4, <2>2 DEF MediaInv, TimeInv
      <3>2. Media!FirstSeq(m) + slot \in Int /\ (Media!FirstSeq(m) + slot) + 1 = Media!FirstSeq(m) + slot'
        BY <1>1, MediaConstants DEF MediaInv, MediaTypes, Media!FirstSeq
      <3> QED BY <3>1, <3>2, ModPlus, MediaConstants
    <2> QED BY <1>1, <2>1, <2>2 DEF TimeInv, Media!First, Media!FirstSeq
  <1>9. ASSUME NEW m \in Pods PROVE \A p \in sent'[m] : p.nonce < counter'[m] /\ p.slot < slot'
    <2>1. \A p \in sent[m] : p.nonce < counter[m] /\ p.slot < slot /\ p \in Packets
      BY <1>3 DEF MediaInv, SentInv
    <2>2. slot \in Nat /\ counter[m] \in Int
      BY <1>3 DEF MediaInv, MediaTypes
    <2>3. CASE m \in Media!Driven
      <3>1. sent'[m] = sent[m] \cup {Media!Packet(m)} /\ counter'[m] = counter[m] + 1
        BY <1>1, <2>3 DEF next
      <3> QED BY <1>1, <2>1, <2>2, <3>1 DEF Packets, Media!Packet
    <2>4. CASE m \notin Media!Driven
      BY <1>1, <2>4 DEF next
    <2> QED BY <2>3, <2>4
  <1>10. SentInv'
    BY <1>1, <1>6, <1>9 DEF SentInv, Original, Recalls
  <1>11. Media!NonceOnce'
    <2> SUFFICES ASSUME NEW m \in Pods, NEW p \in sent'[m], NEW q \in sent'[m], p.nonce = q.nonce PROVE p = q
      BY DEF Media!NonceOnce
    <2>0. \A r \in sent'[m] : r \in sent[m] \/ r = Media!Packet(m)
      BY <1>1, Zenon DEF next
    <2>1. \A r \in sent'[m] : r \in sent[m] \/ (r = Media!Packet(m) /\ r.nonce = counter[m])
      BY <2>0 DEF Media!Packet
    <2>2. \A r \in sent[m] : r.nonce < counter[m] /\ r.nonce \in Int
      BY <1>3 DEF MediaInv, SentInv, Packets
    <2>3. \A r, t \in sent[m] : r.nonce = t.nonce => r = t
      BY DEF MediaInv, Media!NonceOnce
    <2> QED BY <1>3, <2>1, <2>2, <2>3
  <1>12. Media!Glued'
    <2> SUFFICES ASSUME NEW m \in Pods, NEW p \in sent'[m]
                 PROVE  /\ p.rtp = (Media!First + p.slot) % TsMod
                        /\ profile = "group" => p.seq = (Media!FirstSeq(m) + p.slot) % SeqMod
      BY <1>1 DEF Media!Glued, Media!First, Media!FirstSeq
    <2>1. CASE p \in sent[m]
      BY <2>1 DEF MediaInv, Media!Glued
    <2>2. CASE p = Media!Packet(m)
      BY <2>2 DEF MediaInv, TimeInv, Media!Packet
    <2>3. p \in sent[m] \/ p = Media!Packet(m)
      BY <1>1, Zenon DEF next
    <2> QED BY <2>1, <2>2, <2>3
  <1>13. Media!ResendIsOriginal'
    <2> SUFFICES ASSUME NEW e \in resent'
                 PROVE  \E p \in sent'[e.to] :
                            /\ p.seq = e.seq /\ p.nonce = e.nonce /\ slot' - 1 < p.slot + Latency
                            /\ \A q \in sent'[e.to] : q.seq = e.seq => q.slot <= p.slot
      BY DEF Media!ResendIsOriginal
    <2> DEFINE h == kept[e.to]
               s == sent'[e.to]
    <2>1. e.to \in Pods
      BY <1>2, <1>4
    <2>2. PICK j \in DOMAIN h : /\ e.seq = h[j].seq /\ e.nonce = h[j].nonce
                                /\ \A l \in j+1..Len(h) : h[l].seq # e.seq
                                /\ now < h[j].expires
      BY <1>2, Zenon
    <2>3. h \in Seq(Entries) /\ Original(h, s) /\ s \in SUBSET Packets
      BY <1>1, <1>6, <2>1
    <2>4. DOMAIN h = 1..Len(h)
      BY <2>3
    <2> HIDE DEF h, s
    <2>5. PICK p \in s : /\ p.seq = h[j].seq /\ p.nonce = h[j].nonce /\ h[j].expires = p.slot + Latency
                         /\ \A q \in s : q.slot > p.slot => \E l \in j+1..Len(h) : h[l].seq = q.seq
      BY <2>2, <2>3, <2>4, Zenon DEF Original, Recalls
    <2>6. \A q \in s : q.seq = e.seq => q.slot <= p.slot
      BY <2>2, <2>3, <2>5 DEF Packets
    <2>7. slot' - 1 < p.slot + Latency
      <3>1. slot' - 1 <= now
        BY <1>1 DEF Media!Behind, MediaInv, MediaTypes
      <3>2. now < p.slot + Latency
        BY <2>2, <2>5
      <3>3. p.slot \in Int /\ Latency \in Int /\ now \in Int /\ slot' - 1 \in Int
        BY <1>1, <2>3, MediaConstants DEF MediaInv, MediaTypes, Packets
      <3>4. \A a, b, c \in Int : a <= b /\ b < c => a < c
        BY SMT
      <3>5. p.slot + Latency \in Int
        BY <3>3
      <3> QED BY <3>1, <3>2, <3>3, <3>4, <3>5, Zenon
    <2> QED BY <2>2, <2>5, <2>6, <2>7 DEF s
  <1>14. Media!TrueOffset'
    BY <1>1 DEF MediaInv, Media!TrueOffset
  <1> QED BY <1>7, <1>8, <1>10, <1>11, <1>12, <1>13, <1>14 DEF MediaInv

\* The anchor of a buffered stream, and a packet that follows it.
LEMMA TryAnchorInv == ASSUME MediaInv, Media!TryAnchor PROVE MediaInv'
  <1>1. /\ UNCHANGED <<profile, now, rtptime, seq, counter, history, sent, resent, offset>>
        /\ profile = "buffered" /\ ~anchor.set /\ slot' = now
        /\ anchor' = [rtp |-> rtptime, at |-> now + Media!Lead, set |-> TRUE]
    BY DEF Media!TryAnchor, Media!clock
  <1>2. \A m \in Pods : sent[m] = {} /\ history[m] = <<>>
    BY <1>1 DEF MediaInv, TimeInv
  <1>3. MediaTypes'
    BY <1>1 DEF MediaInv, MediaTypes, Media!Profiles, Media!Lead
  <1>4. rtptime = (rtptime + now - (now + Media!Lead - Media!Lead)) % TsMod
    <2>1. rtptime + now - (now + Media!Lead - Media!Lead) = rtptime
      BY DEF MediaInv, MediaTypes, Media!Lead
    <2>2. rtptime % TsMod = rtptime
      <3>1. rtptime \in 0..TsMod-1
        BY DEF MediaInv, MediaTypes
      <3> QED BY <3>1, MediaConstants, SMT
    <2> QED BY <2>1, <2>2
  <1>5. TimeInv'
    <2>1. rtptime' = (anchor'.rtp + slot' - (anchor'.at - Media!Lead)) % TsMod
      <3>1. anchor'.rtp = rtptime /\ anchor'.at = now + Media!Lead /\ slot' = now /\ rtptime' = rtptime
        BY <1>1
      <3>2. anchor'.rtp + slot' - (anchor'.at - Media!Lead) = rtptime + now - (now + Media!Lead - Media!Lead)
        <4>1. rtptime \in Int /\ now \in Int
          BY DEF MediaInv, MediaTypes
        <4> QED BY <3>1, <4>1 DEF Media!Lead
      <3> QED BY <1>4, <3>1, <3>2
    <2>2. profile' = "buffered" /\ anchor'.set /\ resent' = {} /\ \A m \in Pods : history'[m] = <<>>
      BY <1>1, <1>2 DEF MediaInv, TimeInv
    <2> QED BY <2>1, <2>2, Zenon DEF TimeInv, Media!Lead
  <1>6. SentInv' /\ Media!NonceOnce' /\ Media!Glued' /\ Media!ResendIsOriginal' /\ Media!TrueOffset'
    BY <1>1, <1>2 DEF MediaInv, TimeInv, SentInv, Original, Media!NonceOnce, Media!Glued, Media!ResendIsOriginal,
                      Media!TrueOffset
  <1> QED BY <1>3, <1>5, <1>6 DEF MediaInv

LEMMA SendBufferedInv == ASSUME MediaInv, Media!SendBuffered PROVE MediaInv'
  <1>1. PICK d \in Pods :
            /\ sent' = [sent EXCEPT ![d] = @ \cup {Media!Packet(d)}]
            /\ seq' = [seq EXCEPT ![d] = (@ + 1) % SeqMod]
            /\ counter' = [counter EXCEPT ![d] = Media!NextCounter(@)]
    BY MediaConstants DEF Media!SendBuffered, Media!Driven
  <1>2. /\ UNCHANGED <<profile, now, history, resent, anchor, offset>> /\ profile = "buffered" /\ anchor.set
        /\ rtptime' = (rtptime + 1) % TsMod /\ slot' = slot + 1
    BY DEF Media!SendBuffered, Media!clock
  <1>3. /\ \A m \in Pods : /\ seq[m] \in Int /\ counter[m] \in Int /\ sent[m] \in SUBSET Packets
                           /\ Media!Packet(m) \in Packets
        /\ rtptime \in 0..TsMod-1 /\ slot \in Nat /\ anchor.rtp \in Int /\ anchor.at \in Int
    BY DEF MediaInv, MediaTypes, Media!Packet, Packets
  <1>4. rtptime' \in 0..TsMod-1 /\ (seq[d] + 1) % SeqMod \in Int
    <2>1. rtptime + 1 \in Int /\ seq[d] + 1 \in Int
      BY <1>3
    <2>2. (rtptime + 1) % TsMod \in 0..TsMod-1
      BY <2>1, DivMod, MediaConstants
    <2>3. (seq[d] + 1) % SeqMod \in 0..SeqMod-1
      BY <2>1, DivMod, MediaConstants
    <2> QED BY <1>2, <2>2, <2>3, MediaConstants
  <1>5. \A m \in Pods : /\ sent'[m] = IF m = d THEN sent[m] \cup {Media!Packet(m)} ELSE sent[m]
                        /\ counter'[m] = IF m = d THEN counter[m] + 1 ELSE counter[m]
    BY <1>1 DEF MediaInv, MediaTypes, Media!NextCounter
  <1> HIDE DEF Pods
  <1>6. ASSUME NEW m \in Pods
        PROVE  /\ counter'[m] \in Int /\ counter[m] <= counter'[m] /\ sent'[m] \in SUBSET Packets
               /\ \A p \in sent'[m] : p \in sent[m] \/ (p = Media!Packet(m) /\ counter'[m] = counter[m] + 1)
    <2>1. CASE m = d
      <3>1. sent'[m] = sent[m] \cup {Media!Packet(m)} /\ counter'[m] = counter[m] + 1
        BY <1>5, <2>1
      <3> QED BY <1>3, <3>1
    <2>2. CASE m # d
      <3>1. sent'[m] = sent[m] /\ counter'[m] = counter[m]
        BY <1>5, <2>2
      <3> QED BY <1>3, <3>1
    <2> QED BY <2>1, <2>2
  <1>7. MediaTypes'
    <2>1. seq' \in [Pods -> Int]
      BY <1>1, <1>4 DEF MediaInv, MediaTypes
    <2>2. counter' \in [Pods -> Int] /\ sent' \in [Pods -> SUBSET Packets]
      BY <1>1, <1>6 DEF MediaInv, MediaTypes
    <2>3. slot' \in Nat
      BY <1>2, <1>3
    <2> QED BY <1>2, <1>4, <2>1, <2>2, <2>3, Zenon DEF MediaInv, MediaTypes, Media!Profiles
  <1> DEFINE since == anchor.rtp + slot - (anchor.at - Media!Lead)
  <1>8. rtptime = since % TsMod /\ since \in Int
    BY <1>2, <1>3 DEF MediaInv, TimeInv, Media!Lead
  <1>9. TimeInv'
    <2>1. rtptime' = (anchor'.rtp + slot' - (anchor'.at - Media!Lead)) % TsMod
      <3>1. since + 1 = anchor.rtp + slot' - (anchor.at - Media!Lead)
        BY <1>2, <1>3 DEF Media!Lead
      <3>2. ((since % TsMod) + 1) % TsMod = (since + 1) % TsMod
        BY <1>8, ModPlus, MediaConstants
      <3> QED BY <1>2, <1>8, <3>1, <3>2
    <2> QED BY <1>2, <2>1 DEF MediaInv, TimeInv, Media!Lead
  <1>10. SentInv'
    <2> SUFFICES ASSUME NEW m \in Pods
                 PROVE  /\ \A p \in sent'[m] : p.nonce < counter'[m] /\ p.slot < slot'
                        /\ Original(history'[m], sent'[m])
      BY DEF SentInv, Original, Recalls
    <2>1. \A p \in sent[m] : p.nonce < counter[m] /\ p.slot < slot /\ p \in Packets
      BY <1>3 DEF MediaInv, SentInv
    <2>2. history'[m] = <<>>
      BY <1>2 DEF MediaInv, TimeInv
    <2>3. \A p \in sent'[m] : p.nonce < counter'[m] /\ p.slot < slot'
      <3> SUFFICES ASSUME NEW p \in sent'[m] PROVE p.nonce < counter'[m] /\ p.slot < slot'
        OBVIOUS
      <3>1. CASE p \in sent[m]
        BY <1>2, <1>3, <1>6, <2>1, <3>1 DEF Packets
      <3>2. CASE p = Media!Packet(m) /\ counter'[m] = counter[m] + 1
        BY <1>2, <1>3, <3>2 DEF Media!Packet
      <3> QED BY <1>6, <3>1, <3>2
    <2> QED BY <2>2, <2>3 DEF Original
  <1>11. Media!NonceOnce'
    <2> SUFFICES ASSUME NEW m \in Pods, NEW p \in sent'[m], NEW q \in sent'[m], p.nonce = q.nonce PROVE p = q
      BY DEF Media!NonceOnce
    <2>1. \A r \in sent'[m] : r \in sent[m] \/ (r = Media!Packet(m) /\ r.nonce = counter[m])
      BY <1>6 DEF Media!Packet
    <2>2. \A r \in sent[m] : r.nonce < counter[m] /\ r.nonce \in Int
      BY <1>3 DEF MediaInv, SentInv, Packets
    <2>3. \A r, t \in sent[m] : r.nonce = t.nonce => r = t
      BY DEF MediaInv, Media!NonceOnce
    <2> QED BY <1>3, <2>1, <2>2, <2>3
  <1>12. Media!Glued'
    <2> SUFFICES ASSUME NEW m \in Pods, NEW p \in sent'[m]
                 PROVE  p.rtp = (anchor.rtp + p.slot - (anchor.at - Media!Lead)) % TsMod
      BY <1>2 DEF Media!Glued, Media!Lead
    <2>1. CASE p \in sent[m]
      BY <1>2, <2>1 DEF MediaInv, Media!Glued
    <2>2. CASE p = Media!Packet(m)
      BY <1>8, <2>2 DEF Media!Packet
    <2> QED BY <1>6, <2>1, <2>2
  <1>13. Media!ResendIsOriginal' /\ Media!TrueOffset'
    BY <1>2 DEF MediaInv, TimeInv, Media!ResendIsOriginal, Media!TrueOffset
  <1> QED BY <1>7, <1>9, <1>10, <1>11, <1>12, <1>13 DEF MediaInv

\* The receiver's clock: only a Follow_Up of the Sync kept moves the offset.
LEMMA PeerInv ==
    ASSUME MediaInv, Media!PeerAnnounce \/ (\E got \in BOOLEAN : Media!PeerSync(got))
                     \/ \E f \in inFlight : Media!PeerFollowUp(f)
    PROVE  MediaInv'
  <1>1. UNCHANGED <<profile, now, slot, rtptime, seq, counter, history, sent, resent, anchor>>
    BY DEF Media!PeerAnnounce, Media!PeerSync, Media!PeerFollowUp, Media!audio
  <1>2. Media!TrueOffset'
    BY DEF Media!PeerAnnounce, Media!PeerSync, Media!PeerFollowUp, Media!Matches, MediaInv, Media!TrueOffset
  <1>3. now' \in Nat
    BY <1>1 DEF MediaInv, MediaTypes
  <1> QED BY <1>1, <1>2, <1>3, MediaStays

LEMMA MediaNextInv == MediaInv /\ [Media!Next]_(Media!vars) => MediaInv'
  <1> SUFFICES ASSUME MediaInv, [Media!Next]_(Media!vars) PROVE MediaInv'
    OBVIOUS
  <1>1. CASE Media!Pass
    <2>1. UNCHANGED <<profile, slot, rtptime, seq, counter, history, sent, resent, anchor, offset>> /\ now' \in Nat
      BY <1>1 DEF Media!Pass, Media!audio, Media!clock, MediaInv, MediaTypes
    <2>2. Media!TrueOffset'
      BY <2>1 DEF MediaInv, Media!TrueOffset
    <2> QED BY <2>1, <2>2, MediaStays
  <1>2. CASE Media!SkipGroup \/ Media!SkipSingle
    BY <1>2, SkipInv
  <1>3. CASE Media!TryAnchor
    BY <1>3, TryAnchorInv
  <1>4. CASE Media!SendBuffered
    BY <1>4, SendBufferedInv
  <1>5. ASSUME NEW m \in Pods, NEW first \in 0..SeqMod-1, NEW count \in 1..2, Media!Request(m, first, count)
        PROVE  MediaInv'
    <2>1. UNCHANGED <<profile, now, slot, rtptime, seq, counter, history, sent, resent, anchor, offset>>
      BY <1>5 DEF Media!Request, Media!clock
    <2>2. Media!TrueOffset' /\ now' \in Nat
      BY <2>1 DEF MediaInv, Media!TrueOffset, MediaTypes
    <2> QED BY <2>1, <2>2, MediaStays
  <1>6. ASSUME NEW early \in BOOLEAN, Media!SendGroup(early) \/ Media!SendSingle(early)
        PROVE  MediaInv'
    <2>1. Media!Slot(early) /\ profile \in {"group", "single"} /\ 0 <= Media!Behind
      BY <1>6, Zenon DEF Media!SendGroup, Media!SendSingle
    <2>2. Media!Behind >= 0
      BY <2>1 DEF Media!Behind, MediaInv, MediaTypes
    <2> QED BY <2>1, <2>2, SlotInv
  <1>7. CASE Media!PeerAnnounce \/ (\E got \in BOOLEAN : Media!PeerSync(got)) \/ \E f \in inFlight : Media!PeerFollowUp(f)
    BY <1>7, PeerInv
  <1>8. CASE UNCHANGED Media!vars
    <2>1. UNCHANGED <<profile, now, slot, rtptime, seq, counter, history, sent, resent, anchor, offset>>
      BY <1>8 DEF Media!vars, Media!audio, Media!clock
    <2>2. Media!TrueOffset' /\ now' \in Nat
      BY <2>1 DEF MediaInv, Media!TrueOffset, MediaTypes
    <2> QED BY <2>1, <2>2, MediaStays
  <1> QED BY <1>1, <1>2, <1>3, <1>4, <1>5, <1>6, <1>7, <1>8, Zenon DEF Media!Next

-----------------------------------------------------------------------------
(* The audio of an AirPlay 1 session.                                        *)

SenderSteps == {"top", "fill", "send", "ended"}
\* The sequence number of the packet sent at a place.
SeqAt(place) == (SeqMod - 1 + place) % SeqMod

SenderTypes ==
    /\ sNow \in Nat /\ sStep \in SenderSteps /\ sSlots \in Nat /\ sFirst \in 0..TsMod-1 /\ sBegun \in Nat
    /\ sMade \in Int /\ sRing \in [from : Int, to : Int] /\ sPlaces \in Nat
    /\ sHistory \in Seq([seq : Int, stamp : Int, place : Int])
    /\ sSent \in SUBSET [slot : Nat, stamp : Int, begun : Nat]
    /\ sTokens \in Nat /\ sRefilled \in Nat /\ sResent \in Nat /\ sRefilled <= sNow

\* A slot was taken up in time, and what is staged for it is short.
PaceInv ==
    /\ sStep \in {"fill", "send"} => sBegun <= sSlots + 1 + MaxBehind
    /\ Sender!Glued

\* The history holds the packets of the last places.
PlacesInv ==
    /\ sSeq = SeqAt(sPlaces)
    /\ Len(sHistory) <= HistoryCap
    /\ \A k \in 1..Len(sHistory) :
          /\ sHistory[k].place = sPlaces - Len(sHistory) + k - 1
          /\ sHistory[k].seq = SeqAt(sHistory[k].place)

\* What was sent again and what may be was allowed for by the last refill.
BucketInv == sResent + sTokens <= Burst + Rate * sRefilled

SenderInv == SenderTypes /\ PaceInv /\ PlacesInv /\ BucketInv /\ ~sWrong

LEMMA SenderConstants ==
    /\ PacketUnits \in Nat /\ HighWater \in Nat /\ DropTo \in 0..HighWater /\ MaxBehind \in Nat
    /\ SeqMod \in Nat \ {0} /\ TsMod \in Nat \ {0} /\ HistoryCap \in Nat \ {0} /\ Run \in Nat
    /\ HistoryCap + Run <= SeqMod /\ Burst \in Nat /\ Rate \in Nat /\ FrameUnits \in Nat
  BY AirPlayConstants DEF Sender!ConstantsOK

LEMMA SenderInitInv == Sender!Init => SenderInv
  <1> SUFFICES ASSUME Sender!Init PROVE SenderInv
    OBVIOUS
  <1>1. /\ sNow = 0 /\ sStep = "top" /\ sSlots = 0 /\ sFirst \in 0..TsMod-1 /\ sRtptime = sFirst /\ sBegun = 0
        /\ sMade = 0 /\ sRing = [from |-> 0, to |-> 0] /\ sPlaces = 0 /\ sHistory = <<>> /\ sSeq = SeqMod - 1
        /\ sTokens = Burst /\ sRefilled = 0 /\ sResent = 0 /\ ~sWrong /\ sSent = {} /\ sAnchor = {}
    BY SenderConstants DEF Sender!Init, Sender!Emptied
  <1>2. SenderTypes
    BY <1>1, SenderConstants DEF SenderTypes, SenderSteps
  <1>3. sRtptime = (sFirst + sSlots) % TsMod
    <2>1. sFirst + sSlots = sFirst
      BY <1>1
    <2> QED BY <1>1, <2>1, SenderConstants, SMT
  <1>4. PaceInv
    BY <1>1, <1>3 DEF PaceInv, Sender!Glued
  <1>5. sSeq = SeqAt(sPlaces)
    <2>1. SeqMod - 1 + sPlaces = SeqMod - 1 /\ SeqMod - 1 \in 0..SeqMod-1
      BY <1>1, SenderConstants
    <2> QED BY <1>1, <2>1, SenderConstants, SMT DEF SeqAt
  <1>6. PlacesInv
    BY <1>1, <1>5, SenderConstants DEF PlacesInv
  <1>7. BucketInv
    BY <1>1, SenderConstants DEF BucketInv
  <1> QED BY <1>1, <1>2, <1>4, <1>6, <1>7 DEF SenderInv

\* Steps of others than the sender: the clock, the capture, the stop.
LEMMA OutsideInv ==
    ASSUME SenderInv, Sender!Tick \/ Sender!Capture \/ Sender!SourceGoes \/ Sender!StopAsked
    PROVE  SenderInv'
  <1>1. /\ UNCHANGED <<sStep, sSlots, sFirst, sSeq, sRtptime, sBegun, sRing, sPlaces, sHistory, sTokens,
                       sRefilled, sResent, sWrong>>
        /\ sNow' \in {sNow, sNow + 1} /\ sSent' \in {{}, sSent} /\ sAnchor' \in {{}, sAnchor} /\ sMade' \in Int
    BY SenderConstants DEF Sender!Tick, Sender!Capture, Sender!SourceGoes, Sender!StopAsked, Sender!resending,
          Sender!sending, SenderInv, SenderTypes
  <1>2. SenderTypes'
    BY <1>1 DEF SenderInv, SenderTypes
  <1>3. PaceInv'
    <2>1. sNow \in Nat /\ sSlots \in Nat /\ sNow' \in Nat /\ sNow <= sNow'
      BY <1>1 DEF SenderInv, SenderTypes
    <2>2. \A p \in sSent' : p \in sSent
      BY <1>1
    <2>3. ASSUME NEW p \in sSent PROVE sNow' > p.slot
      <3>1. sNow > p.slot /\ p.slot \in Nat
        BY DEF SenderInv, SenderTypes, PaceInv, Sender!Glued
      <3>2. sNow' = sNow \/ sNow' = sNow + 1
        BY <1>1
      <3> QED BY <2>1, <3>1, <3>2
    <2>4. \A stamp \in sAnchor' : \E slt \in 0..sNow' : stamp = (sFirst + slt) % TsMod
      <3> SUFFICES ASSUME NEW stamp \in sAnchor' PROVE \E slt \in 0..sNow' : stamp = (sFirst + slt) % TsMod
        OBVIOUS
      <3>1. stamp \in sAnchor
        BY <1>1
      <3>2. PICK slt \in 0..sNow : stamp = (sFirst + slt) % TsMod
        BY <3>1 DEF SenderInv, PaceInv, Sender!Glued
      <3>3. slt \in 0..sNow'
        BY <2>1
      <3> QED BY <3>2, <3>3
    <2>5. sSlots' <= sNow'
      BY <1>1, <2>1 DEF SenderInv, PaceInv, Sender!Glued
    <2> QED BY <1>1, <2>2, <2>3, <2>4, <2>5 DEF SenderInv, PaceInv, Sender!Glued, Sender!Size
  <1>4. PlacesInv' /\ BucketInv' /\ ~sWrong'
    BY <1>1 DEF SenderInv, PlacesInv, BucketInv, SeqAt
  <1> QED BY <1>2, <1>3, <1>4 DEF SenderInv

\* A late sender goes to the slot of now.
LEMMA RegluedInv == ASSUME SenderInv, Sender!Reglue PROVE SenderInv'
  <1>1. /\ UNCHANGED <<sNow, sStep, sFirst, sSeq, sBegun, sMade, sPlaces, sHistory, sTokens, sRefilled, sResent,
                       sWrong, sSent, sAnchor>>
        /\ sStep = "top" /\ sSlots' = sSlots + Sender!Missed /\ sRtptime' = (sRtptime + Sender!Missed) % TsMod
        /\ sRing' = [from |-> sMade, to |-> sMade]
    BY DEF Sender!Reglue, Sender!resending, Sender!Emptied
  <1>2. sSlots \in Nat /\ sNow \in Nat /\ sSlots <= sNow /\ sFirst \in Int
    BY DEF SenderInv, SenderTypes, PaceInv, Sender!Glued
  <1>3. Sender!Missed \in Nat /\ sSlots' = sNow
    BY <1>1, <1>2 DEF Sender!Missed, Sender!Deadline
  <1>4. sRtptime' = (sFirst + sSlots') % TsMod
    <2>1. sRtptime = (sFirst + sSlots) % TsMod
      BY DEF SenderInv, PaceInv, Sender!Glued
    <2>2. sFirst + sSlots \in Int /\ (sFirst + sSlots) + Sender!Missed = sFirst + sSlots'
      BY <1>1, <1>2, <1>3
    <2>3. (((sFirst + sSlots) % TsMod) + Sender!Missed) % TsMod = ((sFirst + sSlots) + Sender!Missed) % TsMod
      <3>1. \A b \in Int : (((sFirst + sSlots) % TsMod) + b) % TsMod = ((sFirst + sSlots) + b) % TsMod
        BY <2>2, ModPlus, SenderConstants
      <3>2. Sender!Missed \in Int
        BY <1>3
      <3> QED BY <3>1, <3>2, Zenon
    <2> QED BY <1>1, <2>1, <2>2, <2>3
  <1>5. SenderTypes'
    BY <1>1, <1>3 DEF SenderInv, SenderTypes
  <1>6. PaceInv'
    BY <1>1, <1>2, <1>3, <1>4 DEF SenderInv, PaceInv, Sender!Glued
  <1>7. PlacesInv' /\ BucketInv' /\ ~sWrong'
    BY <1>1 DEF SenderInv, PlacesInv, BucketInv, SeqAt
  <1> QED BY <1>5, <1>6, <1>7 DEF SenderInv

\* A slot is begun and its audio staged, or the thread ends.
LEMMA StageInv == ASSUME SenderInv, Sender!Ends \/ Sender!Begin \/ Sender!Fill PROVE SenderInv'
  <1>1. UNCHANGED <<sNow, sSlots, sFirst, sSeq, sRtptime, sMade, sPlaces, sHistory, sTokens, sRefilled, sResent,
                    sWrong, sSent, sAnchor>>
    BY DEF Sender!Ends, Sender!Begin, Sender!Fill, Sender!resending
  <1>2. /\ sStep' \in SenderSteps /\ sBegun' \in Nat /\ sRing' \in [from : Int, to : Int]
        /\ sStep' \in {"fill", "send"} => sBegun' <= sSlots + 1 + MaxBehind
        /\ sStep' = "send" => sRing'.to - sRing'.from <= HighWater
    <2>1. sMade \in Int /\ sRing \in [from : Int, to : Int] /\ sSlots \in Nat /\ sNow \in Nat /\ sBegun \in Nat
      BY DEF SenderInv, SenderTypes
    <2>2. CASE Sender!Ends
      BY <2>1, <2>2 DEF Sender!Ends, SenderSteps
    <2>3. CASE Sender!Begin
      BY <2>1, <2>3, SenderConstants DEF Sender!Begin, Sender!Behind, Sender!Deadline, SenderSteps
    <2>4. CASE Sender!Fill
      <3>1. sStep = "fill" /\ sBegun' = sBegun /\ sBegun <= sSlots + 1 + MaxBehind /\ sStep' \in {"ended", "send"}
        BY <2>4 DEF Sender!Fill, SenderInv, PaceInv
      <3> DEFINE from == Sender!Kept(sMade)
      <3>2. from \in Int /\ sMade - from <= HighWater
        BY <2>1, SenderConstants DEF Sender!Kept
      <3>3. CASE sStep' = "ended"
        BY <2>1, <2>4, <3>1, <3>3 DEF Sender!Fill, SenderSteps
      <3>4. CASE sStep' = "send"
        <4>1. PICK to \in {from, from + PacketUnits} : sRing' = [from |-> to, to |-> sMade]
          BY <2>4, <3>4 DEF Sender!Fill
        <4> HIDE DEF from
        <4>2. to \in Int /\ sMade - to <= HighWater
          BY <2>1, <3>2, <4>1, SenderConstants
        <4> QED BY <2>1, <3>1, <3>4, <4>1, <4>2 DEF SenderSteps
      <3> QED BY <3>1, <3>3, <3>4
    <2> QED BY <2>2, <2>3, <2>4
  <1>3. SenderTypes'
    BY <1>1, <1>2 DEF SenderInv, SenderTypes
  <1>4. PaceInv'
    BY <1>1, <1>2 DEF SenderInv, PaceInv, Sender!Glued, Sender!Size
  <1>5. PlacesInv' /\ BucketInv' /\ ~sWrong'
    BY <1>1 DEF SenderInv, PlacesInv, BucketInv, SeqAt
  <1> QED BY <1>3, <1>4, <1>5 DEF SenderInv

\* The packet of the slot, at its end.
LEMMA SendPacketInv == ASSUME SenderInv, Sender!SendPacket PROVE SenderInv'
  <1>1. /\ UNCHANGED <<sNow, sFirst, sBegun, sMade, sRing, sTokens, sRefilled, sResent, sWrong, sAnchor>>
        /\ sStep = "send" /\ sStep' = "top" /\ sNow >= sSlots + 1
        /\ sSent' = {[slot |-> sSlots, stamp |-> sRtptime, begun |-> sBegun]}
        /\ sHistory' = Sender!Recorded(sHistory, [seq |-> sSeq, stamp |-> sRtptime, place |-> sPlaces])
        /\ sPlaces' = sPlaces + 1 /\ sSeq' = (sSeq + 1) % SeqMod /\ sRtptime' = (sRtptime + 1) % TsMod
        /\ sSlots' = sSlots + 1
    BY DEF Sender!SendPacket, Sender!Packet, Sender!Deadline, Sender!resending
  <1>2. /\ sSlots \in Nat /\ sNow \in Nat /\ sFirst \in Int /\ sPlaces \in Nat /\ sBegun \in Nat
        /\ sHistory \in Seq([seq : Int, stamp : Int, place : Int])
    BY DEF SenderInv, SenderTypes
  <1>3. /\ sRtptime = (sFirst + sSlots) % TsMod /\ sSeq = (SeqMod - 1 + sPlaces) % SeqMod
        /\ sBegun <= sSlots + 1 + MaxBehind
    BY <1>1 DEF SenderInv, PaceInv, PlacesInv, Sender!Glued, SeqAt
  <1>4. sRtptime' = (sFirst + sSlots') % TsMod
    <2>1. sFirst + sSlots \in Int /\ (sFirst + sSlots) + 1 = sFirst + sSlots'
      BY <1>1, <1>2
    <2>2. (((sFirst + sSlots) % TsMod) + 1) % TsMod = ((sFirst + sSlots) + 1) % TsMod
      BY <2>1, ModPlus, SenderConstants
    <2> QED BY <1>1, <1>3, <2>1, <2>2
  <1>5. sSeq' = SeqAt(sPlaces')
    <2>1. SeqMod - 1 + sPlaces \in Int /\ (SeqMod - 1 + sPlaces) + 1 = SeqMod - 1 + sPlaces'
      BY <1>1, <1>2, SenderConstants
    <2>2. (((SeqMod - 1 + sPlaces) % SeqMod) + 1) % SeqMod = ((SeqMod - 1 + sPlaces) + 1) % SeqMod
      BY <2>1, ModPlus, SenderConstants
    <2> QED BY <1>1, <1>3, <2>1, <2>2 DEF SeqAt
  <1>6. sSeq \in Int /\ sRtptime \in Int
    <2>1. sFirst + sSlots \in Int /\ SeqMod - 1 + sPlaces \in Int
      BY <1>2, SenderConstants
    <2>2. (sFirst + sSlots) % TsMod \in 0..TsMod-1
      BY <2>1, DivMod, SenderConstants
    <2>3. (SeqMod - 1 + sPlaces) % SeqMod \in 0..SeqMod-1
      BY <2>1, DivMod, SenderConstants
    <2> QED BY <1>3, <2>2, <2>3, SenderConstants
  <1> DEFINE p == [seq |-> sSeq, stamp |-> sRtptime, place |-> sPlaces]
             old == IF Len(sHistory) >= HistoryCap THEN Tail(sHistory) ELSE sHistory
             dropped == IF Len(sHistory) >= HistoryCap THEN 1 ELSE 0
  <1>7. p \in [seq : Int, stamp : Int, place : Int] /\ p.place = sPlaces /\ p.seq = SeqAt(sPlaces)
    BY <1>2, <1>3, <1>6 DEF SeqAt
  <1>8. /\ old \in Seq([seq : Int, stamp : Int, place : Int]) /\ Len(old) = Len(sHistory) - dropped
        /\ \A k \in 1..Len(old) : old[k] = sHistory[k + dropped] /\ k + dropped \in 1..Len(sHistory)
        /\ Len(old) < HistoryCap /\ Len(old) \in Nat /\ Len(sHistory) \in Nat /\ dropped \in {0, 1}
    BY <1>2, SenderConstants, SMTT(30) DEF SenderInv, PlacesInv
  <1>9. sHistory' = Append(old, p)
    BY <1>1 DEF Sender!Recorded
  <1> HIDE DEF p, old, dropped
  <1>10. /\ sHistory' \in Seq([seq : Int, stamp : Int, place : Int]) /\ Len(sHistory') = Len(old) + 1
         /\ sHistory'[Len(sHistory')] = p /\ \A k \in 1..Len(old) : sHistory'[k] = old[k]
    BY <1>7, <1>8, <1>9
  <1>11. PlacesInv'
    <2>1. ASSUME NEW k \in 1..Len(sHistory')
          PROVE  /\ sHistory'[k].place = sPlaces' - Len(sHistory') + k - 1
                 /\ sHistory'[k].seq = SeqAt(sHistory'[k].place)
      <3>1. CASE k = Len(sHistory')
        BY <1>1, <1>2, <1>7, <1>10, <3>1
      <3>2. CASE k \in 1..Len(old)
        <4>1. sHistory'[k] = sHistory[k + dropped] /\ k + dropped \in 1..Len(sHistory)
          BY <1>8, <1>10, <3>2
        <4>2. /\ sHistory[k + dropped].place = sPlaces - Len(sHistory) + (k + dropped) - 1
              /\ sHistory[k + dropped].seq = SeqAt(sHistory[k + dropped].place)
          BY <4>1 DEF SenderInv, PlacesInv
        <4>3. sPlaces - Len(sHistory) + (k + dropped) - 1 = sPlaces' - Len(sHistory') + k - 1
          <5>1. sPlaces' = sPlaces + 1 /\ Len(sHistory') = (Len(sHistory) - dropped) + 1
            BY <1>1, <1>8, <1>10
          <5>2. sPlaces \in Int /\ Len(sHistory) \in Int /\ dropped \in Int /\ k \in Int
            BY <1>2, <1>8, <3>2
          <5> QED BY <5>1, <5>2
        <4> QED BY <4>1, <4>2, <4>3
      <3>3. \A n \in Nat : \A i \in 1..n + 1 : i \in 1..n \/ i = n + 1
        OBVIOUS
      <3>4. Len(old) \in Nat /\ Len(sHistory') = Len(old) + 1
        BY <1>8, <1>10, Zenon
      <3>5. k \in 1..Len(old) + 1
        BY <3>4, Zenon
      <3>6. k \in 1..Len(old) \/ k = Len(sHistory')
        BY <3>3, <3>4, <3>5, Zenon
      <3> QED BY <3>1, <3>2, <3>6, Zenon
    <2>2. Len(sHistory') <= HistoryCap
      BY <1>8, <1>10, SenderConstants
    <2> QED BY <1>5, <2>1, <2>2 DEF PlacesInv, SeqAt
  <1>12. SenderTypes'
    <2>1. sSent' \in SUBSET [slot : Nat, stamp : Int, begun : Nat]
      BY <1>1, <1>2, <1>6
    <2> QED BY <1>1, <1>2, <1>10, <2>1 DEF SenderInv, SenderTypes, SenderSteps
  <1>13. PaceInv'
    <2>1. sSlots' <= sNow'
      BY <1>1, <1>2
    <2>2. \A q \in sSent' : q.stamp = (sFirst + q.slot) % TsMod /\ sNow > q.slot /\ q.begun <= q.slot + 1 + MaxBehind
      BY <1>1, <1>2, <1>3
    <2> QED BY <1>1, <1>4, <2>1, <2>2 DEF SenderInv, PaceInv, Sender!Glued
  <1>14. BucketInv' /\ ~sWrong'
    BY <1>1 DEF SenderInv, BucketInv
  <1> QED BY <1>11, <1>12, <1>13, <1>14 DEF SenderInv

\* An anchor has the timestamp of the next packet.
LEMMA SyncSendsInv == ASSUME SenderInv, Sender!SyncSends PROVE SenderInv'
  <1>1. /\ UNCHANGED <<sNow, sStep, sSlots, sFirst, sSeq, sRtptime, sBegun, sMade, sRing, sSent, sPlaces, sHistory,
                       sTokens, sRefilled, sResent, sWrong>>
        /\ sAnchor' = {sRtptime}
    BY DEF Sender!SyncSends, Sender!sending, Sender!resending
  <1>2. SenderTypes' /\ PlacesInv' /\ BucketInv' /\ ~sWrong'
    BY <1>1 DEF SenderInv, SenderTypes, PlacesInv, BucketInv, SeqAt
  <1>3. PaceInv'
    <2>1. sSlots \in 0..sNow /\ sRtptime = (sFirst + sSlots) % TsMod
      BY DEF SenderInv, SenderTypes, PaceInv, Sender!Glued
    <2>2. \A stamp \in sAnchor' : \E slt \in 0..sNow : stamp = (sFirst + slt) % TsMod
      BY <1>1, <2>1, Zenon
    <2> QED BY <1>1, <2>2 DEF SenderInv, PaceInv, Sender!Glued, Sender!Size
  <1> QED BY <1>2, <1>3 DEF SenderInv

\* A packet of the history and one of a request are less than a round apart.
LEMMA ShorterThanRound ==
    \A last, run, cap, mod \in Nat : \A x \in Nat : \A y \in Int :
        x < last + run /\ y >= last - cap /\ cap + run <= mod => ~(x - y >= mod)
  BY SMT

\* Of the packets a request can name at most one is in the history under
\* their sequence number, and that is the one asked for.
LEMMA NewestIsAsked ==
    ASSUME SenderInv, NEW missed \in 0..sPlaces, NEW count \in 1..Run, missed + SeqMod > sPlaces + count,
           NEW p \in missed..(missed + count - 1),
           NEW q \in Sender!Newest((sSeq + SeqMod * sPlaces + p) - sPlaces)
    PROVE  q.place = p
  <1> DEFINE s == (sSeq + SeqMod * sPlaces + p) - sPlaces
             same == {i \in 1..Len(sHistory) : sHistory[i].seq = s % SeqMod}
  <1>1. /\ sPlaces \in Nat /\ p \in Nat /\ missed \in Nat /\ count \in Nat /\ Len(sHistory) \in Nat
        /\ Len(sHistory) <= HistoryCap /\ HistoryCap \in Nat /\ Run \in Nat /\ SeqMod \in Nat /\ count <= Run
        /\ missed <= p /\ p < missed + count /\ missed <= sPlaces /\ HistoryCap + Run <= SeqMod
    BY SenderConstants DEF SenderInv, SenderTypes, PlacesInv
  <1>2. s % SeqMod = SeqAt(p)
    <2> DEFINE first == SeqMod - 1 + sPlaces
               more == SeqMod * sPlaces + p - sPlaces
    <2>1. first \in Int /\ SeqMod * sPlaces \in Int /\ more \in Int
      BY <1>1
    <2>2. sSeq = first % SeqMod
      BY DEF SenderInv, PlacesInv, SeqAt
    <2>3. first % SeqMod \in 0..SeqMod-1
      BY <2>1, DivMod, SenderConstants
    <2>4. s = (first % SeqMod) + more
      <3> HIDE DEF first
      <3>1. sSeq \in Int
        BY <2>2, <2>3, <1>1
      <3> QED BY <1>1, <2>1, <2>2, <3>1
    <2>5. ((first % SeqMod) + more) % SeqMod = (first + more) % SeqMod
      BY <2>1, ModPlus, SenderConstants
    <2>6. first + more = (SeqMod - 1 + p) + SeqMod * sPlaces
      BY <1>1, <2>1
    <2>7. SeqMod - 1 + p \in Int
      BY <1>1
    <2>8. ((SeqMod - 1 + p) + SeqMod * sPlaces) % SeqMod = (SeqMod - 1 + p) % SeqMod
      <3>1. sPlaces \in Int /\ SeqMod \in Nat \ {0}
        BY <1>1, SenderConstants
      <3> HIDE DEF s
      <3> DEFINE x == SeqMod - 1 + p
      <3> HIDE DEF x
      <3>2. x \in Int
        BY <2>7 DEF x
      <3>3. (x + SeqMod * sPlaces) % SeqMod = x % SeqMod
        BY <3>1, <3>2, ModRounds, Zenon
      <3> QED BY <3>3 DEF x
    <2> HIDE DEF first, more, s
    <2> QED BY <2>4, <2>5, <2>6, <2>8 DEF SeqAt
  <1>3. ASSUME NEW x \in Int, NEW y \in Int, SeqAt(x) = SeqAt(y), x < y PROVE y - x >= SeqMod
    <2>1. SeqMod - 1 + x \in Int /\ SeqMod - 1 + y \in Int /\ SeqMod - 1 + x < SeqMod - 1 + y
      BY <1>1, <1>3
    <2>2. (SeqMod - 1 + y) - (SeqMod - 1 + x) >= SeqMod
      BY <1>3, <2>1, RoundApart, SenderConstants DEF SeqAt
    <2> QED BY <1>1, <2>2
  <1>4. \A i \in 1..Len(sHistory) : /\ sHistory[i].place = sPlaces - Len(sHistory) + i - 1
                                   /\ sHistory[i].seq = SeqAt(sHistory[i].place)
    BY DEF SenderInv, PlacesInv
  <1> HIDE DEF s
  <1>5. PICK i \in same : q = sHistory[i]
    <2>1. same # {} /\ q = sHistory[CHOOSE i \in same : \A j \in same : j <= i]
      BY DEF Sender!Newest, s
    <2>2. \A i, j \in same : i = j
      <3> SUFFICES ASSUME NEW i \in same, NEW j \in same, i < j PROVE FALSE
        BY <1>1, SMTT(30)
      <3> DEFINE a == sHistory[i].place
                 b == sHistory[j].place
      <3>0. i \in Nat /\ j \in Nat /\ i <= Len(sHistory) /\ j <= Len(sHistory) /\ 1 <= i
        BY <1>1, SMTT(30)
      <3>1. a = sPlaces - Len(sHistory) + i - 1 /\ b = sPlaces - Len(sHistory) + j - 1 /\ SeqAt(a) = SeqAt(b)
        BY <1>4
      <3>2. a \in Int /\ b \in Int /\ b - a < SeqMod /\ a < b
        BY <1>1, <3>0, <3>1
      <3>3. b - a >= SeqMod
        BY <1>3, <3>1, <3>2
      <3> QED BY <1>1, <3>2, <3>3
    <2>3. \E i \in same : \A j \in same : j <= i
      <3>1. PICK i \in same : TRUE
        BY <2>1
      <3>2. i \in Int /\ \A j \in same : j = i
        BY <1>1, <2>2
      <3> QED BY <3>2
    <2> HIDE DEF same
    <2>4. (CHOOSE i \in same : \A j \in same : j <= i) \in same
      BY <2>3, Zenon
    <2> QED BY <2>1, <2>4
  <1> DEFINE a == q.place
             n == Len(sHistory)
  <1>6. /\ a = sPlaces - n + i - 1 /\ a \in Int /\ a < sPlaces /\ a >= sPlaces - n /\ SeqAt(a) = SeqAt(p)
    BY <1>1, <1>2, <1>4, <1>5
  <1>7. ~(p < a)
    <2> HIDE DEF a, n
    <2> SUFFICES ASSUME p < a PROVE FALSE
      OBVIOUS
    <2>1. a - p >= SeqMod
      BY <1>1, <1>3, <1>6
    <2> QED BY <1>1, <1>6, <2>1
  <1>8. ~(a < p)
    <2> SUFFICES ASSUME a < p PROVE FALSE
      OBVIOUS
    <2>1. p - a >= SeqMod
      BY <1>1, <1>3, <1>6
    <2> HIDE DEF a
    <2>2. n \in Nat /\ n <= HistoryCap
      BY <1>1
    <2> HIDE DEF n
    <2>3. p \in Nat /\ sPlaces \in Nat /\ Run \in Nat /\ HistoryCap \in Nat /\ SeqMod \in Nat /\ a \in Int
          /\ HistoryCap + Run <= SeqMod
      BY <1>1, <1>6
    <2>4. p < sPlaces + Run
      BY <1>1, SMTT(30)
    <2>5. a >= sPlaces - HistoryCap
      BY <1>6, <2>2, <2>3
    <2> QED BY <2>1, <2>3, <2>4, <2>5, ShorterThanRound, Zenon
  <1>9. p \in Int /\ a \in Int
    BY <1>1, <1>6
  <1>10. \A x, y \in Int : x < y \/ y < x \/ x = y
    BY SMT
  <1> QED BY <1>7, <1>8, <1>9, <1>10, Zenon

\* Requests are answered with originals, as many as the bucket allows.
LEMMA ResendInv == ASSUME SenderInv, Sender!Resend PROVE SenderInv'
  <1>1. UNCHANGED <<sNow, sStep, sSlots, sFirst, sSeq, sRtptime, sBegun, sMade, sRing, sSent, sPlaces, sHistory, sAnchor>>
    BY DEF Sender!Resend, Sender!sending
  <1> DEFINE seqOf(p) == (sSeq + SeqMod * sPlaces + p) - sPlaces
  <1>2. PICK missed \in 0..sPlaces, count \in 1..Run :
            LET found == {p \in missed..(missed + count - 1) : Sender!Newest(seqOf(p)) # {}}
                out == Sender!Lesser(Sender!Cardinality(found), Sender!Refilled)
            IN  /\ missed + SeqMod > sPlaces + count
                /\ sTokens' = Sender!Refilled - out /\ sRefilled' = sNow /\ sResent' = sResent + out
                /\ sWrong' = (sWrong \/ \E p \in found : \E q \in Sender!Newest(seqOf(p)) : q.place # p)
    BY Zenon DEF Sender!Resend
  <1> DEFINE found == {p \in missed..(missed + count - 1) : Sender!Newest(seqOf(p)) # {}}
             out == Sender!Lesser(Sender!Cardinality(found), Sender!Refilled)
             earned == Rate * (sNow - sRefilled)
  <1>3. /\ missed + SeqMod > sPlaces + count
        /\ sTokens' = Sender!Refilled - out /\ sRefilled' = sNow /\ sResent' = sResent + out
    BY <1>2
  <1>4. ~sWrong'
    <2>1. \A p \in found : \A q \in Sender!Newest(seqOf(p)) : q.place = p
      BY <1>3, NewestIsAsked
    <2>2. sWrong' = (sWrong \/ \E p \in found : \E q \in Sender!Newest(seqOf(p)) : q.place # p)
      BY <1>2, Zenon
    <2> QED BY <2>1, <2>2, Zenon DEF SenderInv
  <1>5. Sender!Cardinality(found) \in Nat
    <2>1. missed \in Int /\ missed + count - 1 \in Int
      BY DEF SenderInv, SenderTypes
    <2>2. IsFiniteSet(missed..(missed + count - 1))
      BY <2>1, FS_Interval, Zenon
    <2>3. IsFiniteSet(found)
      BY <2>2, FS_Subset, Zenon
    <2> HIDE DEF found
    <2>4. Cardinality(found) \in Nat
      BY <2>3, FS_CardinalityType, Zenon
    <2>5. Sender!Cardinality(found) = Cardinality(found)
      BY Zenon DEF Sender!Cardinality, Cardinality
    <2> QED BY <2>4, <2>5
  <1>6. /\ sTokens \in Nat /\ sResent \in Nat /\ sRefilled \in Nat /\ sNow \in Nat /\ sRefilled <= sNow
        /\ sResent + sTokens <= Burst + Rate * sRefilled /\ Rate \in Nat /\ Burst \in Nat
    BY SenderConstants DEF SenderInv, SenderTypes, BucketInv
  <1>7. /\ earned = Rate * sNow - Rate * sRefilled /\ earned \in Nat
        /\ Rate * sNow \in Nat /\ Rate * sRefilled \in Nat
    <2>1. /\ Rate * sRefilled \in Nat /\ Rate * sNow \in Nat /\ earned = Rate * sNow - Rate * sRefilled
          /\ Rate * sRefilled <= Rate * sNow
      BY <1>6, Products
    <2> HIDE DEF earned
    <2> QED BY <2>1
  <1>8. Sender!Refilled = Sender!Lesser(Burst, sTokens + earned)
    BY DEF Sender!Refilled
  <1> HIDE DEF earned, found
  <1>9. Sender!Refilled \in Nat /\ Sender!Refilled <= sTokens + earned
    BY <1>6, <1>7, <1>8 DEF Sender!Lesser
  <1>10. out \in Nat /\ out <= Sender!Refilled
    BY <1>5, <1>9 DEF Sender!Lesser
  <1> HIDE DEF out
  <1>11. /\ sTokens' \in Nat /\ sResent' \in Nat /\ sResent' + sTokens' <= sResent + sTokens + earned
    BY <1>3, <1>6, <1>7, <1>9, <1>10
  <1>12. BucketInv'
    <2> DEFINE until == Rate * sNow
               before == Rate * sRefilled
    <2>1. until \in Nat /\ before \in Nat /\ earned \in Nat /\ earned = until - before
          /\ sResent + sTokens <= Burst + before /\ sResent \in Nat /\ sTokens \in Nat /\ Burst \in Nat
      BY <1>6, <1>7
    <2>2. sTokens' \in Nat /\ sResent' \in Nat /\ sResent' + sTokens' <= sResent + sTokens + earned
      BY <1>11, Zenon
    <2> HIDE DEF until, before
    <2>3. Burst + before + earned = Burst + until
      BY <2>1
    <2>4. sResent + sTokens + earned <= Burst + before + earned
      BY <2>1
    <2>5. \A i, j, k \in Nat : i <= j /\ j <= k => i <= k
      BY SMT
    <2>6. \A m, n \in Nat : m + n \in Nat
      BY SMT
    <2>7. sResent' + sTokens' \in Nat
      BY <2>2, <2>6, Zenon
    <2>8. sResent + sTokens + earned \in Nat /\ Burst + until \in Nat
          /\ sResent + sTokens + earned <= Burst + until
      BY <2>1, <2>3, <2>4
    <2>9. sResent' + sTokens' <= Burst + until
      BY <2>2, <2>5, <2>7, <2>8, Zenon
    <2> QED BY <1>3, <2>9 DEF BucketInv, until
  <1>13. SenderTypes'
    BY <1>1, <1>3, <1>6, <1>11 DEF SenderInv, SenderTypes
  <1>14. PaceInv' /\ PlacesInv'
    BY <1>1 DEF SenderInv, PaceInv, PlacesInv, SeqAt, Sender!Glued, Sender!Size
  <1> QED BY <1>4, <1>12, <1>13, <1>14 DEF SenderInv

LEMMA SenderNextInv == SenderInv /\ [Sender!Next]_(Sender!vars) => SenderInv'
  <1> SUFFICES ASSUME SenderInv, [Sender!Next]_(Sender!vars) PROVE SenderInv'
    OBVIOUS
  <1>1. CASE Sender!Next
    BY <1>1, OutsideInv, RegluedInv, StageInv, SendPacketInv, SyncSendsInv, ResendInv, Zenon DEF Sender!Next
  <1>2. CASE UNCHANGED Sender!vars
    BY <1>2 DEF Sender!vars, SenderInv, SenderTypes, PaceInv, PlacesInv, BucketInv, SeqAt, Sender!Glued, Sender!Size
  <1> QED BY <1>1, <1>2

\* What is sent again is within what the bucket let through.
LEMMA SenderInvKeeps == SenderInv => Sender!Glued /\ Sender!ResendIsOriginal
  <1> SUFFICES ASSUME SenderInv PROVE Sender!Glued /\ Sender!ResendIsOriginal
    OBVIOUS
  <1>1. /\ sTokens \in Nat /\ sResent \in Nat /\ sRefilled \in Nat /\ sNow \in Nat /\ sRefilled <= sNow
        /\ sResent + sTokens <= Burst + Rate * sRefilled /\ Rate \in Nat /\ Burst \in Nat
    BY SenderConstants DEF SenderInv, SenderTypes, BucketInv
  <1>2. Rate * sRefilled \in Nat /\ Rate * sNow \in Nat /\ Rate * sRefilled <= Rate * sNow
    BY <1>1, Products
  <1>3. sResent <= Burst + Rate * sNow
    BY <1>1, <1>2
  <1> QED BY <1>3 DEF SenderInv, PaceInv, Sender!ResendIsOriginal

-----------------------------------------------------------------------------
\* Each step of the run is one of the audio, or leaves it as it is.
LEMMA AudioSteps ==
    ASSUME [MCNext]_<<vars, controlVars, mediaVars, rVars, sVars, scene>>
    PROVE  [Media!Next]_(Media!vars) /\ [Sender!Next]_(Sender!vars)
  BY Zenon DEF MCNext, mediaVars, sVars, Media!vars, Media!audio, Media!clock, Sender!vars

\* For any latency, history and capacity, and sequence numbers and timestamps of any
\* width: no nonce is used twice, timestamps stay on the wall clock through every
\* stall, and the receiver's clock is taken from one Sync and its own Follow_Up.
THEOREM PacketsAreTrue == MCSpec => []PacketsTrue
  <1>1. MCInit => MediaInv /\ SenderInv
    BY MediaInitInv, SenderInitInv, Zenon DEF MCInit
  <1>2. (MediaInv /\ SenderInv) /\ [MCNext]_<<vars, controlVars, mediaVars, rVars, sVars, scene>>
            => (MediaInv /\ SenderInv)'
    BY MediaNextInv, SenderNextInv, AudioSteps, Zenon
  <1>3. MediaInv /\ SenderInv => PacketsTrue
    BY SenderInvKeeps, Zenon DEF MediaInv, PacketsTrue
  <1> QED BY <1>1, <1>2, <1>3, PTL DEF MCSpec

\* What is sent again on request is the last packet sent under that number, before
\* its turn has passed, and no more of them than the bucket was filled with.
THEOREM ResendsAreOriginal == MCSpec => []ResendIsOriginal
  <1>1. MCInit => MediaInv /\ SenderInv
    BY MediaInitInv, SenderInitInv, Zenon DEF MCInit
  <1>2. (MediaInv /\ SenderInv) /\ [MCNext]_<<vars, controlVars, mediaVars, rVars, sVars, scene>>
            => (MediaInv /\ SenderInv)'
    BY MediaNextInv, SenderNextInv, AudioSteps, Zenon
  <1>3. MediaInv /\ SenderInv => ResendIsOriginal
    BY SenderInvKeeps, Zenon DEF MediaInv, ResendIsOriginal
  <1> QED BY <1>1, <1>2, <1>3, PTL DEF MCSpec

-----------------------------------------------------------------------------
(* The requests of an AirPlay 2 session. *)

\* A set of natural numbers has a least one.
LEMMA LeastNatural ==
    ASSUME NEW T \in SUBSET Nat, T # {}
    PROVE  \E x \in T : \A y \in T : x <= y
  <1>1. IsWellFoundedOn(OpToRel(<, Nat), Nat)
    BY NatLessThanWellFounded
  <1>2. PICK x \in T : \A y \in T : ~(<<y, x>> \in OpToRel(<, Nat))
    BY <1>1, WFMin, Zenon
  <1>3. \A y \in T : ~(y < x)
    BY <1>2 DEF OpToRel
  <1>4. \A y \in T : x <= y
    BY <1>3
  <1> QED BY <1>4

\* A set of numbers to which each number below a bound adds the next, has all up to it.
LEMMA UpTo ==
    ASSUME NEW n \in Nat, NEW S, 0 \in S, \A k \in 0..n - 1 : k \in S => k + 1 \in S
    PROVE  0..n \subseteq S
  <1> SUFFICES ASSUME NEW z \in 0..n, z \notin S PROVE FALSE
    OBVIOUS
  <1> DEFINE T == {k \in 0..n : k \notin S}
  <1>1. T \in SUBSET Nat /\ T # {}
    OBVIOUS
  <1>2. PICK x \in T : \A y \in T : x <= y
    BY <1>1, LeastNatural, Zenon
  <1>3. x # 0 /\ x - 1 \in 0..n - 1 /\ x - 1 \notin T
    BY <1>2
  <1>4. x - 1 \in S /\ (x - 1) + 1 = x
    BY <1>3
  <1> QED BY <1>2, <1>3, <1>4

\* What a scan comes to, reply by reply.
LEMMA ScanUnfolds ==
    ASSUME NEW n, NEW m \in Nat, m = Len(rx)
    PROVE  \E after :
              /\ after = [k \in 0..m |-> IF k = 0 THEN Control!Unread ELSE Control!Read(n, after[k - 1], rx[k])]
              /\ Control!ScanFrom(n) = after[m]
  <1> DEFINE Step(f, k) == IF k = 0 THEN Control!Unread ELSE Control!Read(n, f[k - 1], rx[k])
             S == {l \in 0..m : \E f : f = [k \in 0..l |-> Step(f, k)]}
  <1>1. 0 \in S
    <2> DEFINE f == [k \in 0..0 |-> Control!Unread]
    <2>1. \A k \in 0..0 : k = 0
      OBVIOUS
    <2>2. f = [k \in 0..0 |-> Step(f, k)]
      BY <2>1, Zenon
    <2>3. 0 \in 0..m
      OBVIOUS
    <2> QED BY <2>2, <2>3, Zenon
  <1>2. ASSUME NEW l \in 0..m - 1, l \in S PROVE l + 1 \in S
    <2>1. PICK f : f = [k \in 0..l |-> Step(f, k)]
      BY <1>2
    <2> DEFINE g == [k \in 0..l + 1 |-> IF k = l + 1 THEN Control!Read(n, f[l], rx[l + 1]) ELSE f[k]]
    <2>2. ASSUME NEW k \in 0..l + 1 PROVE g[k] = Step(g, k)
      <3>1. CASE k = l + 1
        <4>1. g[k] = Control!Read(n, f[l], rx[l + 1])
          BY <3>1
        <4>2. k # 0 /\ k - 1 = l /\ l \in 0..l + 1 /\ l # l + 1
          BY <3>1
        <4>3. g[k - 1] = f[l]
          BY <4>2
        <4> HIDE DEF g
        <4> QED BY <3>1, <4>1, <4>2, <4>3, Zenon
      <3>2. CASE k # l + 1
        <4>1. k \in 0..l /\ g[k] = f[k]
          BY <3>2
        <4>2. f[k] = Step(f, k)
          BY <2>1, <4>1
        <4>3. k # 0 => g[k - 1] = f[k - 1]
          BY <4>1
        <4> HIDE DEF g
        <4> QED BY <4>1, <4>2, <4>3, Zenon
      <3> QED BY <3>1, <3>2
    <2>3. g = [k \in 0..l + 1 |-> Step(g, k)]
      <3>1. g = [k \in 0..l + 1 |-> g[k]]
        OBVIOUS
      <3> HIDE DEF g
      <3> QED BY <2>2, <3>1, Zenon
    <2>4. l + 1 \in 0..m
      OBVIOUS
    <2> HIDE DEF g
    <2> QED BY <2>3, <2>4, Zenon
  <1>3. m \in S
    <2> HIDE DEF S
    <2> QED BY <1>1, <1>2, UpTo
  <1> DEFINE after == CHOOSE f : f = [k \in 0..Len(rx) |-> IF k = 0 THEN Control!Unread ELSE Control!Read(n, f[k - 1], rx[k])]
  <1>4. Control!ScanFrom(n) = after[m]
    BY DEF Control!ScanFrom
  <1>5. after = [k \in 0..m |-> Step(after, k)]
    <2>1. \E f : f = [k \in 0..m |-> IF k = 0 THEN Control!Unread ELSE Control!Read(n, f[k - 1], rx[k])]
      BY <1>3, Zenon
    <2> QED BY <2>1, Zenon
  <1> QED BY <1>4, <1>5

-----------------------------------------------------------------------------
Replies == [to : Int, name : Int, ok : BOOLEAN]
Lates == [of : Int, reply : Replies]

ControlTypes ==
    /\ strict \in BOOLEAN /\ named \in BOOLEAN /\ (strict => named)
    /\ cseq \in Nat /\ pending \in SUBSET Int
    /\ rx \in Seq(Replies) /\ wire \in Seq(Int) /\ late \in Seq(Lates)
    /\ mine \in [Control!Threads -> Int]

\* A reply to what is remembered was to that.
LateTrue(l) == strict => \A i \in 1..Len(l) : l[i].of = l[i].reply.to
\* A receiver names what it answers, or nothing.
NamesInv ==
    /\ \A i \in 1..Len(rx) : rx[i].to > 0 /\ rx[i].name = IF named THEN rx[i].to ELSE 0
    /\ \A j \in 1..Len(wire) : wire[j] > 0

\* Of what waits, p, the replies r come first, in order, and then the requests on their way;
\* a receiver that names nothing leaves nothing out.
InOrder(r, p) ==
    /\ \A i, j \in 1..Len(r) : i < j => r[i].to < r[j].to
    /\ \A i \in 1..Len(r) : r[i].to \in p /\ \A j \in 1..Len(wire) : r[i].to < wire[j]
    /\ \A j \in 1..Len(wire) : wire[j] \in p
    /\ ~named => \A q \in p : (\E i \in 1..Len(r) : r[i].to = q) \/ (\E j \in 1..Len(wire) : wire[j] = q)
OrderInv ==
    ~strict => /\ InOrder(rx, pending)
               /\ \A i, j \in 1..Len(wire) : i < j => wire[i] < wire[j]
               /\ \A q \in pending : q \in 1..cseq

ControlInv == ControlTypes /\ LateTrue(late) /\ NamesInv /\ OrderInv /\ ~mixed

\* The scan s has read j of k replies, while n is awaited.
Reads(n, s, j, k) ==
    /\ s \in [end : {"more", "reply", "broken"}, reply : {<<>>} \cup Replies, pending : SUBSET Int,
              late : Seq(Lates), rest : Seq(Replies)]
    /\ Len(s.rest) = k - j /\ \A i \in 1..k - j : s.rest[i] = rx[j + i]
    /\ s.end = "more" => j = k
    /\ s.end = "reply" => s.reply \in Replies /\ s.reply.to = n
    /\ LateTrue(s.late)
    /\ s.pending \subseteq pending
    /\ ~strict =>
          /\ \A i \in j + 1..Len(rx) : rx[i].to \in s.pending
          /\ \A i \in 1..Len(wire) : wire[i] \in s.pending
          /\ ~named => \A q \in s.pending :
                (\E i \in j + 1..Len(rx) : rx[i].to = q) \/ (\E i \in 1..Len(wire) : wire[i] = q)

\* A reply that is read is taken to answer what it answers.
LEMMA AttributedToOwn ==
    ASSUME ControlInv, NEW n \in Int, NEW k \in 0..Len(rx) - 1, NEW s, Reads(n, s, k, k)
    PROVE  Control!Attributed(s.pending, n, rx[k + 1]) = rx[k + 1].to
  <1> DEFINE m == rx[k + 1]
  <1>1. k + 1 \in 1..Len(rx) /\ m \in Replies /\ m.to > 0 /\ m.name = IF named THEN m.to ELSE 0
    <2>1. k + 1 \in 1..Len(rx)
      BY DEF ControlInv, ControlTypes
    <2>2. m \in Replies
      BY <2>1 DEF ControlInv, ControlTypes
    <2>3. m.to > 0 /\ m.name = IF named THEN m.to ELSE 0
      BY <2>1, Zenon DEF ControlInv, NamesInv
    <2> QED BY <2>1, <2>2, <2>3
  <1>2. CASE named
    <2>1. m.name = m.to /\ m.name # 0
      BY <1>1, <1>2 DEF Replies
    <2>2. ~strict => m.name \in s.pending
      BY <1>1, <2>1 DEF Reads
    <2> HIDE DEF m
    <2> QED BY <2>1, <2>2 DEF Control!Attributed, m
  <1>3. CASE ~named
    <2>1. m.name = 0 /\ ~strict
      BY <1>1, <1>3 DEF ControlInv, ControlTypes
    <2>2. m.to \in s.pending
      BY <1>1, <2>1 DEF Reads
    <2>3. s.pending \subseteq Int /\ m.to \in Int
      BY <1>1 DEF Reads, Replies
    <2>4. ASSUME NEW q \in s.pending PROVE m.to <= q
      <3>1. CASE \E i \in k + 1..Len(rx) : rx[i].to = q
        <4>1. PICK i \in k + 1..Len(rx) : rx[i].to = q
          BY <3>1
        <4>2. i = k + 1 \/ (i \in 1..Len(rx) /\ k + 1 < i)
          BY <4>1
        <4>3. k + 1 < i /\ i \in 1..Len(rx) => m.to < rx[i].to
          BY <1>1, <2>1 DEF ControlInv, OrderInv, InOrder
        <4> QED BY <2>3, <4>1, <4>2, <4>3
      <3>2. CASE \E i \in 1..Len(wire) : wire[i] = q
        <4>1. m.to < q
          BY <1>1, <2>1, <3>2 DEF ControlInv, OrderInv, InOrder
        <4> QED BY <2>3, <4>1
      <3> QED BY <1>3, <2>1, <3>1, <3>2 DEF Reads
    <2> HIDE DEF m
    <2>5. Control!Oldest(s.pending) = m.to
      <3>1. Control!Oldest(s.pending) \in s.pending /\ \A q \in s.pending : Control!Oldest(s.pending) <= q
        BY <2>2, <2>4, Zenon DEF Control!Oldest
      <3> QED BY <2>2, <2>3, <2>4, <3>1
    <2> QED BY <2>1, <2>2, <2>5 DEF Control!Attributed, Control!OldestPending, m
  <1> QED BY <1>2, <1>3

LEMMA RememberedTrue ==
    ASSUME NEW l \in Seq(Lates), LateTrue(l), NEW c \in Int, NEW m \in Replies, strict => c = m.to
    PROVE  Control!RememberLate(l, c, m) \in Seq(Lates) /\ LateTrue(Control!RememberLate(l, c, m))
  <1> DEFINE e == [of |-> c, reply |-> m]
             kept == IF Len(l) >= LateCap THEN Tail(l) ELSE l
             dropped == IF Len(l) >= LateCap THEN 1 ELSE 0
  <1>1. e \in Lates /\ e.of = c /\ e.reply = m
    BY DEF Lates
  <1>2. LateCap \in Nat \ {0}
    BY AirPlayConstants DEF Control!ConstantsOK
  <1>3. /\ kept \in Seq(Lates) /\ Len(kept) = Len(l) - dropped
        /\ \A i \in 1..Len(kept) : i + dropped \in 1..Len(l) /\ kept[i] = l[i + dropped]
    BY <1>2
  <1>4. Control!RememberLate(l, c, m) = Append(kept, e)
    BY DEF Control!RememberLate
  <1>5. strict => \A i \in 1..Len(kept) : kept[i].of = kept[i].reply.to
    BY <1>3 DEF LateTrue
  <1> HIDE DEF e, kept, dropped
  <1>6. /\ Append(kept, e) \in Seq(Lates) /\ Len(Append(kept, e)) = Len(kept) + 1
        /\ Append(kept, e)[Len(kept) + 1] = e /\ \A i \in 1..Len(kept) : Append(kept, e)[i] = kept[i]
    BY <1>1, <1>3
  <1>7. \A i \in 1..Len(kept) + 1 : i \in 1..Len(kept) \/ i = Len(kept) + 1
    BY <1>3
  <1>8. LateTrue(Append(kept, e))
    BY <1>1, <1>5, <1>6, <1>7, Zenon DEF LateTrue
  <1> QED BY <1>4, <1>6, <1>8

\* One more reply.
LEMMA ReadHolds ==
    ASSUME ControlInv, NEW n \in Int, NEW k \in 0..Len(rx) - 1, NEW s, NEW j \in 0..k, Reads(n, s, j, k)
    PROVE  \E i \in 0..k + 1 : Reads(n, Control!Read(n, s, rx[k + 1]), i, k + 1)
  <1> DEFINE m == rx[k + 1]
             c == Control!Attributed(s.pending, n, m)
             next == Control!Read(n, s, m)
  <1>1. k + 1 \in 1..Len(rx) /\ m \in Replies /\ Len(rx) \in Nat
    BY DEF ControlInv, ControlTypes
  <1>2. CASE s.end # "more"
    <2>1. next = [s EXCEPT !.rest = Append(@, m)]
      BY <1>2 DEF Control!Read
    <2> HIDE DEF m, next
    <2>2. s.rest \in Seq(Replies) /\ Len(s.rest) = k - j /\ \A i \in 1..k - j : s.rest[i] = rx[j + i]
      BY DEF Reads
    <2>a. s \in [end : {"more", "reply", "broken"}, reply : {<<>>} \cup Replies, pending : SUBSET Int,
                 late : Seq(Lates), rest : Seq(Replies)]
      BY Zenon DEF Reads
    <2>b. m \in Replies /\ Append(s.rest, m) \in Seq(Replies)
      BY <1>1, <2>2 DEF m
    <2>3. /\ next.end = s.end /\ next.reply = s.reply /\ next.pending = s.pending /\ next.late = s.late
          /\ next.rest = Append(s.rest, m)
          /\ next \in [end : {"more", "reply", "broken"}, reply : {<<>>} \cup Replies, pending : SUBSET Int,
                       late : Seq(Lates), rest : Seq(Replies)]
      BY <2>1, <2>a, <2>b
    <2>4. Len(next.rest) = (k + 1) - j
      BY <1>1, <2>2, <2>3
    <2>5. ASSUME NEW i \in 1..(k + 1) - j PROVE next.rest[i] = rx[j + i]
      <3>1. CASE i = (k + 1) - j
        <4>1. i = Len(s.rest) + 1 /\ j + i = k + 1
          <5>1. k \in Int /\ j \in Int
            OBVIOUS
          <5>2. Len(s.rest) = k - j
            BY <2>2
          <5> HIDE DEF m, next
          <5> QED BY <3>1, <5>1, <5>2
        <4>2. Append(s.rest, m)[Len(s.rest) + 1] = m
          BY <2>2, <2>b
        <4> QED BY <2>3, <4>1, <4>2 DEF m
      <3>2. CASE i \in 1..k - j
        BY <1>1, <2>2, <2>3, <3>2
      <3> QED BY <3>1, <3>2
    <2>6. Reads(n, next, j, k + 1)
      BY <1>2, <2>3, <2>4, <2>5, Zenon DEF Reads
    <2>7. j \in 0..k + 1
      OBVIOUS
    <2> QED BY <2>6, <2>7 DEF next, m
  <1>3. CASE s.end = "more"
    <2>1. j = k /\ Reads(n, s, k, k)
      BY <1>3 DEF Reads
    <2>2. c = m.to /\ m.to \in Int
      BY <1>1, <2>1, AttributedToOwn DEF Replies
    <2>3. /\ s \in [end : {"more", "reply", "broken"}, reply : {<<>>} \cup Replies, pending : SUBSET Int,
                    late : Seq(Lates), rest : Seq(Replies)]
          /\ Len(s.rest) = 0 /\ LateTrue(s.late) /\ s.pending \subseteq pending
      BY <2>1 DEF Reads
    <2>4. Control!RememberLate(s.late, c, m) \in Seq(Lates) /\ LateTrue(Control!RememberLate(s.late, c, m))
      BY <1>1, <2>2, <2>3, RememberedTrue
    <2>5. next = IF c < n
                 THEN [s EXCEPT !.pending = @ \ {c}, !.late = Control!RememberLate(@, c, m)]
                 ELSE [s EXCEPT !.end = IF c = n THEN "reply" ELSE "broken", !.reply = m, !.pending = @ \ {c}]
      BY <1>3 DEF Control!Read
    <2> HIDE DEF next, c
    <2>6. /\ next \in [end : {"more", "reply", "broken"}, reply : {<<>>} \cup Replies, pending : SUBSET Int,
                       late : Seq(Lates), rest : Seq(Replies)]
          /\ next.rest = s.rest /\ next.pending = s.pending \ {c} /\ LateTrue(next.late)
          /\ next.end = "reply" => next.reply = m /\ c = n
      BY <1>1, <1>3, <2>3, <2>4, <2>5
    <2>7. ~strict =>
          /\ \A i \in k + 2..Len(rx) : rx[i].to \in next.pending
          /\ \A i \in 1..Len(wire) : wire[i] \in next.pending
          /\ ~named => \A q \in next.pending :
                (\E i \in k + 2..Len(rx) : rx[i].to = q) \/ (\E i \in 1..Len(wire) : wire[i] = q)
      <3> SUFFICES ASSUME ~strict
                   PROVE  /\ \A i \in k + 2..Len(rx) : rx[i].to \in next.pending
                          /\ \A i \in 1..Len(wire) : wire[i] \in next.pending
                          /\ ~named => \A q \in next.pending :
                                (\E i \in k + 2..Len(rx) : rx[i].to = q) \/ (\E i \in 1..Len(wire) : wire[i] = q)
        OBVIOUS
      <3>1. /\ \A i \in k + 1..Len(rx) : rx[i].to \in s.pending
            /\ \A i \in 1..Len(wire) : wire[i] \in s.pending
            /\ ~named => \A q \in s.pending :
                  (\E i \in k + 1..Len(rx) : rx[i].to = q) \/ (\E i \in 1..Len(wire) : wire[i] = q)
        BY <2>1, Zenon DEF Reads
      <3>2. ASSUME NEW i \in k + 2..Len(rx) PROVE rx[i].to \in next.pending
        <4>1. i \in 1..Len(rx) /\ k + 1 < i /\ i \in k + 1..Len(rx)
          BY <1>1
        <4>2. m.to < rx[i].to /\ rx[i].to \in Int
          BY <1>1, <4>1 DEF ControlInv, OrderInv, InOrder, ControlTypes, Replies
        <4>3. rx[i].to # c
          BY <2>2, <4>2
        <4> QED BY <2>6, <3>1, <4>1, <4>3, Zenon
      <3>3. ASSUME NEW i \in 1..Len(wire) PROVE wire[i] \in next.pending
        <4>1. m.to < wire[i] /\ wire[i] \in Int
          BY <1>1 DEF ControlInv, OrderInv, InOrder, ControlTypes
        <4>2. wire[i] # c
          BY <2>2, <4>1
        <4> QED BY <2>6, <3>1, <4>2, Zenon
      <3>4. ASSUME ~named, NEW q \in next.pending, NEW i \in k + 1..Len(rx), rx[i].to = q
            PROVE  i \in k + 2..Len(rx)
        <4>1. i # k + 1
          BY <2>2, <2>6, <3>4
        <4> QED BY <1>1, <4>1
      <3> QED BY <2>6, <3>1, <3>2, <3>3, <3>4, Zenon
    <2>8. (k + 1) - (k + 1) = 0 /\ (k + 1) + 1 = k + 2 /\ 1..0 = {} /\ k + 1 \in 0..k + 1
      OBVIOUS
    <2>9. next.end = "reply" => next.reply \in Replies /\ next.reply.to = n
      BY <1>1, <2>2, <2>6
    <2>10. next.pending \subseteq pending
      BY <2>3, <2>6
    <2>11. Len(next.rest) = (k + 1) - (k + 1) /\ \A i \in 1..(k + 1) - (k + 1) : next.rest[i] = rx[(k + 1) + i]
      BY <2>3, <2>6, <2>8
    <2>12. Reads(n, next, k + 1, k + 1)
      BY <2>6, <2>7, <2>8, <2>9, <2>10, <2>11 DEF Reads
    <2> QED BY <2>8, <2>12 DEF next
  <1> QED BY <1>2, <1>3

\* A scan reads some replies and leaves the others as they were.
LEMMA ScanHolds ==
    ASSUME ControlInv, NEW n \in Int
    PROVE  \E j \in 0..Len(rx) : Reads(n, Control!ScanFrom(n), j, Len(rx))
  <1>1. Len(rx) \in Nat
    BY DEF ControlInv, ControlTypes
  <1>2. PICK after :
          /\ after = [k \in 0..Len(rx) |-> IF k = 0 THEN Control!Unread ELSE Control!Read(n, after[k - 1], rx[k])]
          /\ Control!ScanFrom(n) = after[Len(rx)]
    BY <1>1, ScanUnfolds, Zenon
  <1> DEFINE S == {k \in 0..Len(rx) : \E j \in 0..k : Reads(n, after[k], j, k)}
  <1>3. 0 \in S
    <2>1. 0 \in 0..Len(rx) /\ after[0] = Control!Unread
      BY <1>1, <1>2
    <2>2. Reads(n, Control!Unread, 0, 0)
      BY DEF Reads, Control!Unread, ControlInv, ControlTypes, OrderInv, InOrder
    <2>3. 0 \in 0..0
      OBVIOUS
    <2> QED BY <2>1, <2>2, <2>3, Zenon
  <1>4. ASSUME NEW k \in 0..Len(rx) - 1, k \in S PROVE k + 1 \in S
    <2>1. PICK j \in 0..k : Reads(n, after[k], j, k)
      BY <1>4
    <2>2. \E i \in 0..k + 1 : Reads(n, Control!Read(n, after[k], rx[k + 1]), i, k + 1)
      BY <2>1, ReadHolds, Zenon
    <2>3. k + 1 \in 0..Len(rx) /\ k + 1 # 0 /\ (k + 1) - 1 = k
      BY <1>1
    <2>4. after[k + 1] = Control!Read(n, after[k], rx[k + 1])
      BY <1>2, <2>3, Zenon
    <2> QED BY <2>2, <2>3, <2>4, Zenon
  <1>5. Len(rx) \in S
    <2> HIDE DEF S
    <2>1. 0..Len(rx) \subseteq S
      BY <1>1, <1>3, <1>4, UpTo
    <2> QED BY <1>1, <2>1
  <1> QED BY <1>2, <1>5, Zenon

LEMMA AwaitHolds ==
    ASSUME ControlInv, NEW n \in Int
    PROVE  \E j \in 0..Len(rx) : Reads(n, Control!Await(n), j, Len(rx))
  <1>1. PICK j \in 0..Len(rx) : Reads(n, Control!ScanFrom(n), j, Len(rx))
    BY ScanHolds
  <1> DEFINE scan == Control!ScanFrom(n)
             await == Control!Await(n)
  <1>2. await = IF scan.end = "more" /\ closed THEN [scan EXCEPT !.end = "broken"] ELSE scan
    BY Zenon DEF Control!Await
  <1> HIDE DEF scan, await
  <1>3. Reads(n, scan, j, Len(rx))
    BY <1>1 DEF scan
  <1>4. CASE await = [scan EXCEPT !.end = "broken"]
    <2>1. scan \in [end : {"more", "reply", "broken"}, reply : {<<>>} \cup Replies, pending : SUBSET Int,
                    late : Seq(Lates), rest : Seq(Replies)]
      BY <1>3, Zenon DEF Reads
    <2>2. /\ await.end = "broken" /\ await.reply = scan.reply /\ await.pending = scan.pending
          /\ await.late = scan.late /\ await.rest = scan.rest
          /\ await \in [end : {"more", "reply", "broken"}, reply : {<<>>} \cup Replies, pending : SUBSET Int,
                        late : Seq(Lates), rest : Seq(Replies)]
      BY <1>4, <2>1
    <2>3. await.end # "more" /\ await.end # "reply"
      BY <2>2
    <2>4. Reads(n, await, j, Len(rx))
      BY <1>3, <2>2, <2>3, Zenon DEF Reads
    <2> QED BY <2>4 DEF await
  <1>5. CASE await = scan
    BY <1>3, <1>5 DEF await
  <1> QED BY <1>2, <1>4, <1>5, Zenon

\* What a scan leaves is what it says.
LEMMA ScannedHolds ==
    ASSUME ControlInv, NEW n \in Int, NEW l \in Seq(Lates), LateTrue(l), Control!Scanned(Control!Await(n), l),
           UNCHANGED <<strict, named, cseq, wire>>, mine' \in [Control!Threads -> Int], ~mixed'
    PROVE  ControlInv'
  <1> DEFINE scan == Control!Await(n)
  <1>1. PICK j \in 0..Len(rx) : Reads(n, scan, j, Len(rx))
    BY AwaitHolds
  <1>2. pending' = scan.pending /\ late' = l /\ rx' = scan.rest
    BY DEF Control!Scanned
  <1> HIDE DEF scan
  <1>3. /\ rx' \in Seq(Replies) /\ pending' \subseteq pending /\ pending' \in SUBSET Int
        /\ Len(rx') = Len(rx) - j /\ \A i \in 1..Len(rx) - j : rx'[i] = rx[j + i]
    BY <1>1, <1>2 DEF Reads
  <1>4. Len(rx) \in Nat /\ j \in Nat /\ j <= Len(rx)
    BY DEF ControlInv, ControlTypes
  <1>5. \A i \in 1..Len(rx') : j + i \in 1..Len(rx) /\ j + i \in j + 1..Len(rx) /\ rx'[i] = rx[j + i]
    BY <1>3, <1>4
  <1>6. ControlTypes'
    BY <1>2, <1>3 DEF ControlInv, ControlTypes
  <1>7. LateTrue(late)'
    BY <1>2 DEF LateTrue
  <1>8. NamesInv'
    BY <1>5 DEF ControlInv, NamesInv
  <1>9. ASSUME ~strict PROVE InOrder(rx, pending)'
    <2>1. /\ \A i \in j + 1..Len(rx) : rx[i].to \in pending'
          /\ \A i \in 1..Len(wire) : wire[i] \in pending'
          /\ ~named => \A q \in pending' :
                (\E i \in j + 1..Len(rx) : rx[i].to = q) \/ (\E i \in 1..Len(wire) : wire[i] = q)
      BY <1>1, <1>2, <1>9, Zenon DEF Reads
    <2>2. InOrder(rx, pending)
      BY <1>9 DEF ControlInv, OrderInv
    <2>3. \A i, k \in 1..Len(rx') : i < k => rx'[i].to < rx'[k].to
      <3> SUFFICES ASSUME NEW i \in 1..Len(rx'), NEW k \in 1..Len(rx'), i < k PROVE rx'[i].to < rx'[k].to
        OBVIOUS
      <3>1. j + i < j + k
        BY <1>4
      <3>2. rx[j + i].to < rx[j + k].to
        BY <1>5, <2>2, <3>1 DEF InOrder
      <3> QED BY <1>5, <3>2
    <2>4. \A i \in 1..Len(rx') : rx'[i].to \in pending' /\ \A k \in 1..Len(wire) : rx'[i].to < wire[k]
      BY <1>5, <2>1, <2>2 DEF InOrder
    <2>5. ASSUME NEW i \in j + 1..Len(rx) PROVE i - j \in 1..Len(rx') /\ rx'[i - j] = rx[i]
      <3>1. i - j \in 1..Len(rx') /\ j + (i - j) = i
        BY <1>3, <1>4
      <3> QED BY <1>5, <3>1
    <2>6. \A i \in j + 1..Len(rx) : \E k \in 1..Len(rx') : rx'[k] = rx[i]
      BY <2>5
    <2>7. ~named => \A q \in pending' :
              (\E i \in 1..Len(rx') : rx'[i].to = q) \/ (\E i \in 1..Len(wire) : wire[i] = q)
      BY <2>1, <2>6
    <2> QED BY <2>1, <2>3, <2>4, <2>7 DEF InOrder
  <1>10. OrderInv'
    BY <1>3, <1>9 DEF ControlInv, OrderInv
  <1> QED BY <1>6, <1>7, <1>8, <1>10 DEF ControlInv

\* A request waits after all there are.
LEMMA SendHolds ==
    ASSUME ControlInv, strict \/ Cardinality(pending) < PendingCap, NEW t \in Control!Threads, Control!Send(t),
           UNCHANGED <<strict, named, late, rx, mixed>>
    PROVE  ControlInv'
  <1>1. /\ cseq' = cseq + 1 /\ wire' = Append(wire, cseq + 1) /\ mine' = [mine EXCEPT ![t] = cseq + 1]
        /\ pending' = (IF Control!Cardinality(pending) >= PendingCap THEN pending \ {Control!Oldest(pending)} ELSE pending)
                        \cup {cseq + 1}
    BY DEF Control!Send
  <1>2. /\ cseq \in Nat /\ cseq + 1 \in Nat /\ cseq + 1 > 0 /\ cseq + 1 \in Int /\ wire \in Seq(Int)
        /\ Len(wire') = Len(wire) + 1 /\ Len(wire) \in Nat /\ wire' \in Seq(Int)
        /\ wire'[Len(wire) + 1] = cseq + 1 /\ \A i \in 1..Len(wire) : wire'[i] = wire[i]
    BY <1>1 DEF ControlInv, ControlTypes
  <1>3. \A i \in 1..Len(wire') : i \in 1..Len(wire) \/ i = Len(wire) + 1
    BY <1>2
  <1>4. ControlTypes'
    BY <1>1, <1>2 DEF ControlInv, ControlTypes
  <1>5. NamesInv'
    BY <1>2, <1>3 DEF ControlInv, NamesInv
  <1>6. ASSUME ~strict PROVE InOrder(rx, pending)' /\ (\A i, j \in 1..Len(wire) : i < j => wire[i] < wire[j])'
                             /\ (\A q \in pending : q \in 1..cseq)'
    <2>1. /\ InOrder(rx, pending) /\ (\A i, j \in 1..Len(wire) : i < j => wire[i] < wire[j])
          /\ (\A q \in pending : q \in 1..cseq)
      BY <1>6 DEF ControlInv, OrderInv
    <2>2. pending' = pending \cup {cseq + 1}
      <3>1. IsFiniteSet(1..cseq)
        BY <1>2, FS_Interval
      <3>2. IsFiniteSet(pending)
        BY <2>1, <3>1, FS_Subset
      <3>3. Cardinality(pending) \in Nat
        BY <3>2, FS_CardinalityType
      <3>4. Control!Cardinality(pending) = Cardinality(pending)
        BY Zenon DEF Control!Cardinality, Cardinality
      <3>5. PendingCap \in Nat
        BY AirPlayConstants DEF Control!ConstantsOK
      <3> QED BY <1>1, <1>6, <3>3, <3>4, <3>5
    <2>3. \A q \in pending' : q \in 1..cseq'
      BY <1>1, <1>2, <2>1, <2>2
    <2>4. \A i \in 1..Len(wire) : wire[i] < cseq + 1
      <3>1. \A i \in 1..Len(wire) : wire[i] \in 1..cseq
        BY <2>1 DEF InOrder
      <3> QED BY <1>2, <3>1
    <2>5. ASSUME NEW i \in 1..Len(rx) PROVE rx[i].to < cseq + 1
      <3>1. rx[i].to \in 1..cseq
        BY <2>1, Zenon DEF InOrder
      <3>2. \A q \in 1..cseq : q < cseq + 1
        BY <1>2
      <3> QED BY <3>1, <3>2, Zenon
    <2>6. \A i, j \in 1..Len(wire') : i < j => wire'[i] < wire'[j]
      <3> SUFFICES ASSUME NEW i \in 1..Len(wire'), NEW j \in 1..Len(wire'), i < j PROVE wire'[i] < wire'[j]
        OBVIOUS
      <3>1. i \in 1..Len(wire)
        BY <1>2
      <3>2. CASE j \in 1..Len(wire)
        BY <1>2, <2>1, <3>1, <3>2
      <3>3. CASE j = Len(wire) + 1
        BY <1>2, <2>4, <3>1, <3>3
      <3> QED BY <1>3, <3>2, <3>3
    <2>7. \A i \in 1..Len(rx) : rx[i].to \in pending' /\ \A j \in 1..Len(wire') : rx[i].to < wire'[j]
      <3> SUFFICES ASSUME NEW i \in 1..Len(rx), NEW j \in 1..Len(wire')
                   PROVE  rx[i].to \in pending /\ rx[i].to < wire'[j]
        BY <1>2, <2>1, <2>2 DEF InOrder
      <3>1. CASE j \in 1..Len(wire)
        BY <1>2, <2>1, <3>1 DEF InOrder
      <3>2. CASE j = Len(wire) + 1
        BY <1>2, <2>1, <2>5, <3>2 DEF InOrder
      <3> QED BY <1>3, <3>1, <3>2
    <2>8. \A j \in 1..Len(wire') : wire'[j] \in pending'
      BY <1>2, <1>3, <2>1, <2>2 DEF InOrder
    <2>9. ~named => \A q \in pending' :
              (\E i \in 1..Len(rx) : rx[i].to = q) \/ (\E j \in 1..Len(wire') : wire'[j] = q)
      <3>1. \A q \in pending : ~named =>
              (\E i \in 1..Len(rx) : rx[i].to = q) \/ (\E j \in 1..Len(wire) : wire[j] = q)
        BY <2>1 DEF InOrder
      <3>2. \A j \in 1..Len(wire) : j \in 1..Len(wire')
        BY <1>2
      <3>3. Len(wire) + 1 \in 1..Len(wire')
        BY <1>2
      <3> QED BY <1>2, <2>2, <3>1, <3>2, <3>3, Zenon
    <2>10. \A i, j \in 1..Len(rx) : i < j => rx[i].to < rx[j].to
      BY <2>1 DEF InOrder
    <2> QED BY <2>3, <2>6, <2>7, <2>8, <2>9, <2>10 DEF InOrder
  <1>7. OrderInv'
    BY <1>6 DEF OrderInv
  <1> QED BY <1>4, <1>5, <1>7 DEF ControlInv, LateTrue

\* The first of what is remembered of a request is there.
LEMMA TakenHolds ==
    ASSUME NEW l \in Seq(Lates), NEW n \in Int, Control!LateOf(l, n) # {}
    PROVE  LET i == Control!Oldest(Control!LateOf(l, n)) IN i \in 1..Len(l) /\ l[i].of = n /\ l[i].reply \in Replies
  <1> DEFINE S == Control!LateOf(l, n)
             i == Control!Oldest(S)
  <1>1. S \in SUBSET Nat
    BY DEF Control!LateOf
  <1>2. \E x \in S : \A y \in S : x <= y
    BY <1>1, LeastNatural, Zenon
  <1>3. i \in S
    BY <1>2, Zenon DEF Control!Oldest
  <1> HIDE DEF i
  <1>4. i \in DOMAIN l /\ l[i].of = n
    BY <1>3 DEF Control!LateOf
  <1>5. i \in 1..Len(l) /\ l[i] \in Lates
    BY <1>4
  <1> QED BY <1>4, <1>5 DEF Lates, i

LEMMA ForgetHolds ==
    ASSUME NEW l \in Seq(Lates), LateTrue(l), NEW n \in Int
    PROVE  Control!Forget(l, n) \in Seq(Lates) /\ LateTrue(Control!Forget(l, n))
  <1>1. CASE Control!LateOf(l, n) = {}
    BY <1>1 DEF Control!Forget
  <1>2. CASE Control!LateOf(l, n) # {}
    <2> DEFINE o == Control!Oldest(Control!LateOf(l, n))
               f == [k \in 1..(Len(l) - 1) |-> IF k < o THEN l[k] ELSE l[k + 1]]
    <2>1. Control!Forget(l, n) = f
      BY <1>2 DEF Control!Forget
    <2>2. o \in 1..Len(l) /\ Len(l) - 1 \in Nat
      BY <1>2, TakenHolds
    <2> HIDE DEF o
    <2>3. \A k \in 1..(Len(l) - 1) : f[k] \in Lates /\ \E i \in 1..Len(l) : f[k] = l[i]
      BY <2>2
    <2>4. f \in [1..(Len(l) - 1) -> Lates]
      BY <2>3
    <2>5. f \in Seq(Lates) /\ Len(f) = Len(l) - 1
      BY <2>2, <2>4
    <2> HIDE DEF f
    <2>6. LateTrue(f)
      BY <2>3, <2>5 DEF LateTrue
    <2> QED BY <2>1, <2>5, <2>6
  <1> QED BY <1>1, <1>2

\* A poll reads as a scan for the newest request does, and reports on its own request.
LEMMA PolledHolds ==
    ASSUME ControlInv, strict, NEW n \in Int
    PROVE  /\ Control!Polled(n).late \in Seq(Lates) /\ LateTrue(Control!Polled(n).late)
           /\ Control!Polled(n).end = "reply" => Control!Polled(n).reply.to = n
           /\ Control!Polled(n).scan # <<>> => Control!Polled(n).scan = Control!Await(cseq)
  <1> DEFINE scan == Control!Await(cseq)
             all == IF n # cseq /\ scan.end = "reply" THEN Control!RememberLate(scan.late, cseq, scan.reply)
                                                      ELSE scan.late
             p == Control!Polled(n)
             Taken(l) == l[Control!Oldest(Control!LateOf(l, n))].reply
             Result(end, reply, l) == [end |-> end, reply |-> reply,
                 scan |-> IF Control!LateOf(late, n) = {} THEN scan ELSE <<>>, late |-> l]
  <1>1. cseq \in Int /\ late \in Seq(Lates) /\ LateTrue(late)
    BY DEF ControlInv, ControlTypes
  <1>2. PICK j \in 0..Len(rx) : Reads(cseq, scan, j, Len(rx))
    BY <1>1, AwaitHolds
  <1>3. p = IF Control!LateOf(late, n) # {} THEN Result("reply", Taken(late), Control!Forget(late, n))
            ELSE IF scan.end = "broken" \/ (n = cseq /\ scan.end = "reply")
            THEN Result(scan.end, scan.reply, scan.late)
            ELSE IF Control!LateOf(all, n) # {} THEN Result("reply", Taken(all), Control!Forget(all, n))
            ELSE Result("more", <<>>, all)
    BY Zenon DEF Control!Polled
  <1> HIDE DEF p, scan
  <1>4. /\ scan.late \in Seq(Lates) /\ LateTrue(scan.late)
        /\ scan.end = "reply" => scan.reply \in Replies /\ scan.reply.to = cseq
    BY <1>2 DEF Reads
  <1>5. all \in Seq(Lates) /\ LateTrue(all)
    BY <1>1, <1>4, RememberedTrue
  <1> HIDE DEF all
  <1>6. ASSUME NEW l \in Seq(Lates), LateTrue(l), Control!LateOf(l, n) # {} PROVE Taken(l).to = n
    <2> DEFINE i == Control!Oldest(Control!LateOf(l, n))
    <2>1. i \in 1..Len(l) /\ l[i].of = n
      BY <1>6, TakenHolds
    <2> HIDE DEF i
    <2>2. l[i].of = l[i].reply.to
      BY <1>6, <2>1, Zenon DEF LateTrue
    <2> QED BY <2>1, <2>2 DEF i
  <1>7. /\ Control!Forget(late, n) \in Seq(Lates) /\ LateTrue(Control!Forget(late, n))
        /\ Control!Forget(all, n) \in Seq(Lates) /\ LateTrue(Control!Forget(all, n))
    BY <1>1, <1>5, ForgetHolds
  <1>8. p.late \in Seq(Lates) /\ LateTrue(p.late)
    BY <1>1, <1>3, <1>4, <1>5, <1>7
  <1>9. p.end = "reply" => p.reply.to = n
    BY <1>1, <1>3, <1>4, <1>5, <1>6
  <1>10. p.scan # <<>> => p.scan = scan
    BY <1>3
  <1> QED BY <1>8, <1>9, <1>10 DEF p, scan

LEMMA AfterPollHolds ==
    ASSUME ControlInv, strict, NEW n \in Int, Control!AfterPoll(Control!Polled(n)),
           UNCHANGED <<strict, named, cseq, wire>>, mine' \in [Control!Threads -> Int], ~mixed'
    PROVE  ControlInv'
  <1> DEFINE p == Control!Polled(n)
  <1>1. /\ p.late \in Seq(Lates) /\ LateTrue(p.late)
        /\ p.scan # <<>> => p.scan = Control!Await(cseq)
    BY PolledHolds
  <1>2. CASE p.scan = <<>>
    <2>1. late' = p.late /\ UNCHANGED <<pending, rx>>
      BY <1>2 DEF Control!AfterPoll
    <2> HIDE DEF p
    <2>2. ControlTypes' /\ NamesInv' /\ OrderInv'
      BY <1>1, <2>1 DEF ControlInv, ControlTypes, NamesInv, OrderInv, InOrder
    <2>3. LateTrue(late)'
      BY <1>1, <2>1 DEF LateTrue
    <2> QED BY <2>2, <2>3 DEF ControlInv
  <1>3. CASE p.scan # <<>>
    <2>1. Control!Scanned(Control!Await(cseq), p.late)
      BY <1>1, <1>3 DEF Control!AfterPoll
    <2>2. cseq \in Int
      BY DEF ControlInv, ControlTypes
    <2> HIDE DEF p
    <2> QED BY <1>1, <2>1, <2>2, ScannedHolds
  <1> QED BY <1>2, <1>3

\* Answers come in order, and name what they answer or nothing.
LEMMA AnswerHolds == ASSUME ControlInv, Control!Answer PROVE ControlInv'
  <1>1. PICK ok \in BOOLEAN : rx' = Append(rx, [to |-> Head(wire), name |-> IF named THEN Head(wire) ELSE 0, ok |-> ok])
    BY DEF Control!Answer
  <1>2. /\ wire # <<>> /\ wire' = Tail(wire)
        /\ UNCHANGED <<strict, named, cseq, pending, late, mine, mixed>>
    BY DEF Control!Answer
  <1> DEFINE m == [to |-> Head(wire), name |-> IF named THEN Head(wire) ELSE 0, ok |-> ok]
  <1>3. /\ wire \in Seq(Int) /\ Len(wire) \in Nat /\ Len(wire) > 0 /\ Head(wire) = wire[1] /\ wire[1] \in Int
        /\ wire' \in Seq(Int) /\ Len(wire') = Len(wire) - 1
        /\ \A i \in 1..Len(wire') : i + 1 \in 1..Len(wire) /\ wire'[i] = wire[i + 1] /\ 1 < i + 1
        /\ \A i \in 2..Len(wire) : i - 1 \in 1..Len(wire') /\ wire'[i - 1] = wire[i]
        /\ 1 \in 1..Len(wire) /\ \A i \in 1..Len(wire) : i = 1 \/ i \in 2..Len(wire)
    <2>1. wire \in Seq(Int) /\ Len(wire) \in Nat /\ Len(wire) > 0
      BY <1>2 DEF ControlInv, ControlTypes
    <2> QED BY <1>2, <2>1
  <1>4. m \in Replies /\ m.to = wire[1] /\ m.name = IF named THEN m.to ELSE 0
    BY <1>3 DEF Replies
  <1>5. rx' = Append(rx, m)
    BY <1>1
  <1> HIDE DEF m
  <1>6. /\ rx' \in Seq(Replies) /\ Len(rx') = Len(rx) + 1 /\ Len(rx) \in Nat
        /\ rx'[Len(rx) + 1] = m /\ \A i \in 1..Len(rx) : rx'[i] = rx[i] /\ i \in 1..Len(rx') /\ i < Len(rx) + 1
        /\ Len(rx) + 1 \in 1..Len(rx')
        /\ \A i \in 1..Len(rx') : i \in 1..Len(rx) \/ i = Len(rx) + 1
    <2>1. rx \in Seq(Replies) /\ Len(rx) \in Nat
      BY DEF ControlInv, ControlTypes
    <2> QED BY <1>4, <1>5, <2>1
  <1>7. ControlTypes'
    BY <1>2, <1>3, <1>6 DEF ControlInv, ControlTypes
  <1>8. NamesInv'
    <2>1. \A i \in 1..Len(wire') : wire'[i] > 0
      BY <1>3 DEF ControlInv, NamesInv
    <2>2. m.to > 0 /\ m.name = IF named THEN m.to ELSE 0
      BY <1>3, <1>4 DEF ControlInv, NamesInv
    <2>3. \A i \in 1..Len(rx') : rx'[i].to > 0 /\ rx'[i].name = IF named THEN rx'[i].to ELSE 0
      BY <1>6, <2>2, Zenon DEF ControlInv, NamesInv
    <2> QED BY <1>2, <2>1, <2>3 DEF NamesInv
  <1>9. ASSUME ~strict PROVE InOrder(rx, pending)' /\ (\A i, j \in 1..Len(wire) : i < j => wire[i] < wire[j])'
    <2>1. InOrder(rx, pending) /\ (\A i, j \in 1..Len(wire) : i < j => wire[i] < wire[j])
      BY <1>9 DEF ControlInv, OrderInv
    <2>2. \A i, j \in 1..Len(wire') : i < j => wire'[i] < wire'[j]
      <3> SUFFICES ASSUME NEW i \in 1..Len(wire'), NEW j \in 1..Len(wire'), i < j PROVE wire'[i] < wire'[j]
        OBVIOUS
      <3>1. i + 1 < j + 1
        BY <1>3
      <3> QED BY <1>3, <2>1, <3>1
    <2>3. \A j \in 1..Len(wire') : m.to < wire'[j]
      BY <1>3, <1>4, <2>1
    <2>4. \A i \in 1..Len(rx) : rx[i].to < m.to
      BY <1>3, <1>4, <2>1 DEF InOrder
    <2>5. \A i, j \in 1..Len(rx') : i < j => rx'[i].to < rx'[j].to
      <3> SUFFICES ASSUME NEW i \in 1..Len(rx'), NEW j \in 1..Len(rx'), i < j PROVE rx'[i].to < rx'[j].to
        OBVIOUS
      <3>1. i \in 1..Len(rx)
        BY <1>6
      <3>2. CASE j \in 1..Len(rx)
        BY <1>6, <2>1, <3>1, <3>2 DEF InOrder
      <3>3. CASE j = Len(rx) + 1
        BY <1>6, <2>4, <3>1, <3>3
      <3> QED BY <1>6, <3>2, <3>3
    <2>6. ASSUME NEW i \in 1..Len(rx') PROVE rx'[i].to \in pending' /\ \A j \in 1..Len(wire') : rx'[i].to < wire'[j]
      <3>1. CASE i \in 1..Len(rx)
        BY <1>2, <1>3, <1>6, <2>1, <3>1 DEF InOrder
      <3>2. CASE i = Len(rx) + 1
        BY <1>2, <1>3, <1>4, <1>6, <2>1, <2>3, <3>2 DEF InOrder
      <3> QED BY <1>6, <3>1, <3>2
    <2>7. \A j \in 1..Len(wire') : wire'[j] \in pending'
      BY <1>2, <1>3, <2>1 DEF InOrder
    <2>8. ASSUME ~named, NEW q \in pending
          PROVE  (\E i \in 1..Len(rx') : rx'[i].to = q) \/ (\E j \in 1..Len(wire') : wire'[j] = q)
      <3>1. (\E i \in 1..Len(rx) : rx[i].to = q) \/ (\E j \in 1..Len(wire) : wire[j] = q)
        BY <2>1, <2>8 DEF InOrder
      <3>2. CASE \E i \in 1..Len(rx) : rx[i].to = q
        BY <1>6, <3>2, Zenon
      <3>3. CASE \E j \in 1..Len(wire) : wire[j] = q
        <4>1. PICK j \in 1..Len(wire) : wire[j] = q
          BY <3>3
        <4>2. CASE j = 1
          BY <1>4, <1>6, <4>1, <4>2, Zenon
        <4>3. CASE j \in 2..Len(wire)
          BY <1>3, <4>1, <4>3, Zenon
        <4> QED BY <1>3, <4>2, <4>3
      <3> QED BY <3>1, <3>2, <3>3
    <2> QED BY <1>2, <2>2, <2>5, <2>6, <2>7, <2>8 DEF InOrder
  <1>10. OrderInv'
    BY <1>2, <1>9 DEF ControlInv, OrderInv
  <1> QED BY <1>2, <1>7, <1>8, <1>10 DEF ControlInv, LateTrue

LEMMA SkipHolds == ASSUME ControlInv, Control!Skip PROVE ControlInv'
  <1>1. named /\ wire # <<>> /\ wire' = Tail(wire) /\ UNCHANGED <<strict, named, cseq, pending, late, rx, mine, mixed>>
    BY DEF Control!Skip, Control!connection
  <1>2. /\ wire' \in Seq(Int) /\ Len(wire') = Len(wire) - 1 /\ Len(wire) \in Nat
        /\ \A i \in 1..Len(wire') : i + 1 \in 1..Len(wire) /\ wire'[i] = wire[i + 1]
    <2>1. wire \in Seq(Int) /\ Len(wire) \in Nat
      BY DEF ControlInv, ControlTypes
    <2> QED BY <1>1, <2>1
  <1>3. ControlTypes' /\ LateTrue(late)' /\ ~mixed'
    BY <1>1, <1>2 DEF ControlInv, ControlTypes, LateTrue
  <1>4. NamesInv'
    BY <1>1, <1>2 DEF ControlInv, NamesInv
  <1>5. ASSUME ~strict PROVE InOrder(rx, pending)' /\ (\A i, j \in 1..Len(wire) : i < j => wire[i] < wire[j])'
    <2>1. InOrder(rx, pending) /\ (\A i, j \in 1..Len(wire) : i < j => wire[i] < wire[j])
      BY <1>5 DEF ControlInv, OrderInv
    <2>2. \A i, j \in 1..Len(wire') : i < j => wire'[i] < wire'[j]
      <3> SUFFICES ASSUME NEW i \in 1..Len(wire'), NEW j \in 1..Len(wire'), i < j PROVE wire'[i] < wire'[j]
        OBVIOUS
      <3>1. i + 1 < j + 1
        BY <1>2
      <3> QED BY <1>2, <2>1, <3>1
    <2>3. /\ \A i, j \in 1..Len(rx) : i < j => rx[i].to < rx[j].to
          /\ \A i \in 1..Len(rx) : rx[i].to \in pending
          /\ \A i \in 1..Len(rx) : \A j \in 1..Len(wire) : rx[i].to < wire[j]
          /\ \A j \in 1..Len(wire) : wire[j] \in pending
      BY <2>1, Zenon DEF InOrder
    <2>4. \A i \in 1..Len(rx) : \A j \in 1..Len(wire') : rx[i].to < wire'[j]
      BY <1>2, <2>3, Zenon
    <2>5. \A j \in 1..Len(wire') : wire'[j] \in pending
      BY <1>2, <2>3, Zenon
    <2>6. InOrder(rx, pending)'
      BY <1>1, <2>3, <2>4, <2>5, Zenon DEF InOrder
    <2> QED BY <2>2, <2>6
  <1>6. OrderInv'
    BY <1>1, <1>5 DEF ControlInv, OrderInv
  <1> QED BY <1>3, <1>4, <1>6 DEF ControlInv

LEMMA GoWrongHolds == ASSUME ControlInv, Control!GoWrong PROVE ControlInv'
  <1>1. UNCHANGED <<strict, named, cseq, pending, late, wire, mine, mixed>>
    BY DEF Control!GoWrong
  <1>2. CASE rx' = rx
    BY <1>1, <1>2 DEF ControlInv, ControlTypes, LateTrue, NamesInv, OrderInv, InOrder
  <1>3. CASE rx' # rx
    <2> DEFINE m == [to |-> 999, name |-> 999, ok |-> TRUE]
    <2>1. strict /\ rx' = Append(rx, m)
      BY <1>3 DEF Control!GoWrong, Control!Unsent
    <2>2. m \in Replies /\ m.to = 999 /\ m.name = 999
      BY DEF Replies
    <2> HIDE DEF m
    <2>3. /\ rx' \in Seq(Replies) /\ \A i \in 1..Len(rx) : rx'[i] = rx[i]
          /\ Len(rx') = Len(rx) + 1 /\ Len(rx) \in Nat /\ rx'[Len(rx) + 1] = m
      BY <2>1, <2>2 DEF ControlInv, ControlTypes
    <2>4. \A i \in 1..Len(rx') : i \in 1..Len(rx) \/ i = Len(rx) + 1
      BY <2>3
    <2>5. named
      BY <2>1 DEF ControlInv, ControlTypes
    <2>6. NamesInv'
      BY <1>1, <2>2, <2>3, <2>4, <2>5 DEF ControlInv, NamesInv
    <2> QED BY <1>1, <2>1, <2>3, <2>6 DEF ControlInv, ControlTypes, LateTrue, OrderInv
  <1> QED BY <1>2, <1>3

\* Steps that leave the connection as it is.
LEMMA ControlStays ==
    ASSUME ControlInv, UNCHANGED <<strict, named, cseq, pending, late, wire, rx, mixed>>,
           mine' \in [Control!Threads -> Int]
    PROVE  ControlInv'
  BY DEF ControlInv, ControlTypes, LateTrue, NamesInv, OrderInv, InOrder

LEMMA MineHolds ==
    ASSUME ControlInv, NEW t \in Control!Threads, NEW n \in Int
    PROVE  mine[t] \in Int /\ [mine EXCEPT ![t] = n] \in [Control!Threads -> Int] /\ mine \in [Control!Threads -> Int]
  BY DEF ControlInv, ControlTypes

\* Requests, of whoever makes them.
LEMMA SendsHold ==
    ASSUME ControlInv, strict \/ Cardinality(pending) < PendingCap,
           Control!SetterSends \/ Control!PlainFeedbackSends \/ Control!FeedbackSends \/ Control!ReaderSends
    PROVE  ControlInv'
  <1>1. UNCHANGED <<strict, named, late, rx, mixed>>
    BY DEF Control!SetterSends, Control!PlainFeedbackSends, Control!FeedbackSends, Control!ReaderSends
  <1>2. (\E t \in Control!Threads : Control!Send(t)) \/ UNCHANGED <<cseq, pending, wire, mine>>
    <2>1. {"setter", "feedback", "reader"} = Control!Threads
      BY DEF Control!Threads
    <2> QED BY <2>1 DEF Control!SetterSends, Control!PlainFeedbackSends, Control!FeedbackSends, Control!ReaderSends
  <1>3. mine \in [Control!Threads -> Int]
    BY DEF ControlInv, ControlTypes
  <1> QED BY <1>1, <1>2, <1>3, SendHolds, ControlStays

LEMMA SyncReadsHolds ==
    ASSUME ControlInv, NEW t \in {"setter", "feedback"}, Control!SyncReads(t)
    PROVE  ControlInv'
  <1> DEFINE n == mine[t]
             scan == Control!Await(n)
  <1>1. t \in Control!Threads /\ n \in Int /\ [mine EXCEPT ![t] = 0] \in [Control!Threads -> Int]
        /\ mine \in [Control!Threads -> Int]
    <2>1. t \in Control!Threads
      BY DEF Control!Threads
    <2> QED BY <2>1, MineHolds
  <1>2. /\ Control!Scanned(scan, scan.late) /\ UNCHANGED <<strict, named, cseq, wire>>
        /\ IF scan.end = "more" THEN UNCHANGED <<mine, mixed>>
           ELSE /\ mine' = [mine EXCEPT ![t] = 0]
                /\ IF scan.end = "reply" THEN Control!Deliver(n, scan.reply.to) ELSE UNCHANGED mixed
    BY DEF Control!SyncReads, Control!receiver
  <1>3. PICK j \in 0..Len(rx) : Reads(n, scan, j, Len(rx))
    BY <1>1, AwaitHolds
  <1> HIDE DEF n, scan
  <1>4. scan.late \in Seq(Lates) /\ LateTrue(scan.late) /\ (scan.end = "reply" => scan.reply.to = n)
    BY <1>3 DEF Reads
  <1>5. mine' \in [Control!Threads -> Int]
    BY <1>1, <1>2
  <1>6. ~mixed'
    BY <1>2, <1>4 DEF Control!Deliver, ControlInv
  <1> QED BY <1>1, <1>2, <1>4, <1>5, <1>6, ScannedHolds DEF scan

LEMMA FeedbackHolds ==
    ASSUME ControlInv, Control!FeedbackPolls \/ Control!FeedbackTimesOut
    PROVE  ControlInv'
  <1> DEFINE n == mine["feedback"]
             p == Control!Polled(n)
  <1>1. n \in Int /\ [mine EXCEPT !["feedback"] = 0] \in [Control!Threads -> Int] /\ mine \in [Control!Threads -> Int]
    <2>1. "feedback" \in Control!Threads
      BY DEF Control!Threads
    <2> QED BY <2>1, MineHolds
  <1>2. /\ strict /\ Control!AfterPoll(p) /\ UNCHANGED <<strict, named, cseq, wire>>
        /\ mine' = mine \/ mine' = [mine EXCEPT !["feedback"] = 0]
        /\ UNCHANGED mixed \/ (p.end = "reply" /\ Control!Deliver(n, p.reply.to))
    BY DEF Control!FeedbackPolls, Control!FeedbackTimesOut, Control!receiver
  <1>3. p.end = "reply" => p.reply.to = n
    BY <1>1, <1>2, PolledHolds
  <1> HIDE DEF n, p
  <1>4. ~mixed'
    BY <1>2, <1>3 DEF Control!Deliver, ControlInv
  <1> QED BY <1>1, <1>2, <1>4, AfterPollHolds DEF p

LEMMA ReaderPollsHolds == ASSUME ControlInv, Control!ReaderPolls PROVE ControlInv'
  <1> DEFINE n == mine["reader"]
             scan == Control!Await(n)
  <1>1. n \in Int /\ [mine EXCEPT !["reader"] = 0] \in [Control!Threads -> Int]
        /\ [mine EXCEPT !["reader"] = n] \in [Control!Threads -> Int]
    <2>1. "reader" \in Control!Threads
      BY DEF Control!Threads
    <2> QED BY <2>1, MineHolds
  <1>2. /\ UNCHANGED <<strict, named, cseq, wire>>
        /\ mine' = [mine EXCEPT !["reader"] = 0] \/ mine' = [mine EXCEPT !["reader"] = n]
        /\ \/ late' = Control!Forget(late, n) /\ UNCHANGED <<pending, rx, mixed>>
           \/ /\ Control!Scanned(scan, scan.late)
              /\ IF scan.end = "reply" THEN Control!Deliver(n, scan.reply.to) ELSE UNCHANGED mixed
    BY DEF Control!ReaderPolls, Control!receiver
  <1>3. PICK j \in 0..Len(rx) : Reads(n, scan, j, Len(rx))
    BY <1>1, AwaitHolds
  <1> HIDE DEF n, scan
  <1>4. mine' \in [Control!Threads -> Int]
    BY <1>1, <1>2
  <1>5. CASE late' = Control!Forget(late, n) /\ UNCHANGED <<pending, rx, mixed>>
    <2>1. late \in Seq(Lates) /\ LateTrue(late)
      BY DEF ControlInv, ControlTypes
    <2>2. late' \in Seq(Lates) /\ LateTrue(late')
      BY <1>1, <1>5, <2>1, ForgetHolds
    <2>3. LateTrue(late)'
      BY <1>2, <2>2 DEF LateTrue
    <2> QED BY <1>2, <1>4, <1>5, <2>2, <2>3 DEF ControlInv, ControlTypes, NamesInv, OrderInv, InOrder
  <1>6. CASE /\ Control!Scanned(scan, scan.late)
             /\ IF scan.end = "reply" THEN Control!Deliver(n, scan.reply.to) ELSE UNCHANGED mixed
    <2>1. scan.late \in Seq(Lates) /\ LateTrue(scan.late) /\ (scan.end = "reply" => scan.reply.to = n)
      BY <1>3 DEF Reads
    <2>2. ~mixed'
      BY <1>6, <2>1 DEF Control!Deliver, ControlInv
    <2> QED BY <1>1, <1>2, <1>4, <1>6, <2>1, <2>2, ScannedHolds DEF scan
  <1> QED BY <1>2, <1>5, <1>6

LEMMA ControlNextHolds ==
    ASSUME ControlInv, strict \/ Cardinality(pending) < PendingCap, [Control!Next]_controlVars
    PROVE  ControlInv'
  <1>1. CASE UNCHANGED controlVars
    <2>1. UNCHANGED <<strict, named, cseq, pending, late, wire, rx, mixed>> /\ mine' = mine
      BY <1>1 DEF controlVars
    <2> QED BY <2>1, ControlStays DEF ControlInv, ControlTypes
  <1>2. ASSUME NEW t \in {"setter", "feedback"}, Control!SyncTimesOut(t) PROVE ControlInv'
    <2>1. UNCHANGED <<strict, named, cseq, pending, late, wire, rx, mixed>> /\ mine' = [mine EXCEPT ![t] = 0]
      BY <1>2 DEF Control!SyncTimesOut, Control!connection, Control!receiver
    <2>2. t \in Control!Threads
      BY DEF Control!Threads
    <2> QED BY <2>1, <2>2, MineHolds, ControlStays
  <1>3. CASE Control!ReaderGivesUp
    <2>1. UNCHANGED <<strict, named, cseq, pending, late, wire, rx, mixed>> /\ mine' = [mine EXCEPT !["reader"] = 0]
      BY <1>3 DEF Control!ReaderGivesUp, Control!connection, Control!receiver
    <2>2. "reader" \in Control!Threads
      BY DEF Control!Threads
    <2> QED BY <2>1, <2>2, MineHolds, ControlStays
  <1>4. CASE Control!Stop
    <2>1. UNCHANGED <<strict, named, cseq, pending, late, wire, rx, mixed>> /\ mine' = mine
      BY <1>4 DEF Control!Stop, Control!connection, Control!receiver
    <2> QED BY <2>1, ControlStays DEF ControlInv, ControlTypes
  <1> QED BY <1>1, <1>2, <1>3, <1>4, SendsHold, SyncReadsHolds, FeedbackHolds, ReaderPollsHolds, AnswerHolds, SkipHolds,
             GoWrongHolds, Zenon DEF Control!Next

LEMMA ControlInitHolds == ASSUME Control!Init, strict => named PROVE ControlInv
  <1>1. /\ pending = {} /\ late = <<>> /\ rx = <<>> /\ wire = <<>> /\ cseq = 0 /\ ~mixed
        /\ strict \in BOOLEAN /\ named \in BOOLEAN /\ mine \in [Control!Threads -> Int]
    BY DEF Control!Init
  <1> QED BY <1>1 DEF ControlInv, ControlTypes, LateTrue, NamesInv, OrderInv, InOrder

-----------------------------------------------------------------------------
(* The requests of an AirPlay 1 session.                                     *)

\* The steps of a start, which has the client to itself.
Starting == {"connect", "drop", "guard", "sync", "audio", "resend", "keepalive"} \cup Raop!Handshake

RaopTypes ==
    /\ rClient \in [announced : BOOLEAN, tornDown : BOOLEAN, poisoned : BOOLEAN, digest : BOOLEAN, cseq : Nat]
    /\ rReq \in Raop!Requests \cup {NoRequest}
    /\ rAsked \in Seq([what : Raop!Methods, cseq : Nat, digest : BOOLEAN])
    /\ rReplies \in Seq([cseq : Nat, status : Raop!Results])

\* On a connection that can be used, what is asked or answered is what is waited for.
LineInv ==
    /\ rClient.poisoned => rReq = NoRequest
    /\ ~rClient.poisoned =>
          IF rReq = NoRequest THEN rAsked = <<>> /\ rReplies = <<>>
          ELSE \/ Len(rAsked) = 1 /\ rAsked[1].cseq = rReq.cseq /\ rReplies = <<>>
               \/ rAsked = <<>> /\ Len(rReplies) = 1 /\ rReplies[1].cseq = rReq.cseq

StartInv ==
    /\ rStep \in Starting => rHolder = "start" /\ rSetter = "none"
    /\ rStep \in {"connect", "guard"} => rReq = NoRequest

RaopInv == RaopTypes /\ LineInv /\ StartInv /\ ~rMixed

LEMMA RaopConstants == NoRequest \notin Raop!Requests /\ NoRequest # "start"
  BY AirPlayConstants DEF Raop!ConstantsOK

LEMMA EmptyIs == ASSUME NEW S, NEW s \in Seq(S), Len(s) = 0 PROVE s = <<>>
  OBVIOUS

LEMMA OneOnly ==
    ASSUME NEW S, NEW s \in Seq(S), Len(s) = 1
    PROVE  s # <<>> /\ Head(s) = s[1] /\ s[1] \in S /\ Tail(s) = <<>>
  <1>1. s # <<>>
    OBVIOUS
  <1>2. Head(s) = s[1] /\ s[1] \in S
    OBVIOUS
  <1>3. Tail(s) \in Seq(S) /\ Len(Tail(s)) = 0
    BY <1>1
  <1>4. Tail(s) = <<>>
    BY <1>3, EmptyIs, Zenon
  <1> QED BY <1>1, <1>2, <1>4

LEMMA FirstOf ==
    ASSUME NEW S, NEW s \in Seq(S), s # <<>>
    PROVE  Head(s) = s[1] /\ s[1] \in S /\ Tail(s) \in Seq(S)
  OBVIOUS

LEMMA SendsOne ==
    ASSUME RaopTypes, ~rClient.poisoned, rAsked = <<>>, rReplies' = <<>>,
           NEW what \in Raop!Methods, NEW again \in {0, 1}, Raop!Sends(what, again)
    PROVE  RaopTypes' /\ LineInv'
  <1> DEFINE n == IF Raop!Quiet THEN 1 ELSE rClient.cseq + 1
             down == rClient.tornDown \/ what = "TEARDOWN"
             digest == rClient.digest \/ again = 1
             r == [what |-> what, cseq |-> rClient'.cseq, digest |-> rClient'.digest]
             q == [what |-> what, cseq |-> rClient'.cseq, attempt |-> again]
  <1>1. /\ rClient' = [[[rClient EXCEPT !.cseq = n] EXCEPT !.tornDown = down] EXCEPT !.digest = digest]
        /\ rReq' = q /\ rAsked' = Append(rAsked, r)
    BY DEF Raop!Sends
  <1>2. /\ rClient \in [announced : BOOLEAN, tornDown : BOOLEAN, poisoned : BOOLEAN, digest : BOOLEAN, cseq : Nat]
        /\ n \in Nat /\ down \in BOOLEAN /\ digest \in BOOLEAN
    BY DEF RaopTypes
  <1> HIDE DEF n, down, digest
  <1>3. /\ rClient' \in [announced : BOOLEAN, tornDown : BOOLEAN, poisoned : BOOLEAN, digest : BOOLEAN, cseq : Nat]
        /\ rClient'.poisoned = rClient.poisoned
    BY <1>1, <1>2
  <1>4. rReq' \in Raop!Requests /\ rReq'.cseq = rClient'.cseq
    BY <1>1, <1>3 DEF Raop!Requests
  <1>5. rReq' # NoRequest
    BY <1>4, RaopConstants
  <1>6. r \in [what : Raop!Methods, cseq : Nat, digest : BOOLEAN] /\ r.cseq = rClient'.cseq
    BY <1>3
  <1> HIDE DEF r, q
  <1>7. rAsked' \in Seq([what : Raop!Methods, cseq : Nat, digest : BOOLEAN]) /\ Len(rAsked') = 1 /\ rAsked'[1] = r
    BY <1>1, <1>6
  <1>8. rReplies' \in Seq([cseq : Nat, status : Raop!Results])
    OBVIOUS
  <1> QED BY <1>3, <1>4, <1>5, <1>6, <1>7, <1>8 DEF RaopTypes, LineInv

LEMMA AskHolds ==
    ASSUME RaopInv, NEW what \in Raop!Methods, Raop!Ask(what)
    PROVE  RaopTypes' /\ LineInv' /\ rMixed' = rMixed
  <1>1. rReq = NoRequest /\ ~rClient.poisoned /\ Raop!Sends(what, 0) /\ rReplies' = rReplies /\ rMixed' = rMixed
    BY DEF Raop!Ask
  <1>2. rAsked = <<>> /\ rReplies = <<>>
    BY <1>1 DEF RaopInv, LineInv
  <1> QED BY <1>1, <1>2, SendsOne DEF RaopInv

\* The reply there is, is to what is waited for.
LEMMA HearsOwn ==
    ASSUME RaopInv, rReq # NoRequest
    PROVE  /\ rReq \in Raop!Requests /\ ~rClient.poisoned
           /\ rReplies # <<>> => /\ Head(rReplies).cseq = rReq.cseq /\ rAsked = <<>> /\ Tail(rReplies) = <<>>
                                 /\ ~Raop!Stale
  <1>1. ~rClient.poisoned /\ rReq \in Raop!Requests /\ rReq.cseq \in Nat
    BY DEF RaopInv, RaopTypes, LineInv, Raop!Requests
  <1>2. ASSUME rReplies # <<>>
        PROVE  /\ Head(rReplies).cseq = rReq.cseq /\ rAsked = <<>> /\ Tail(rReplies) = <<>>
    <2>1. rAsked = <<>> /\ Len(rReplies) = 1 /\ rReplies[1].cseq = rReq.cseq
      BY <1>1, <1>2 DEF RaopInv, LineInv
    <2>2. rReplies \in Seq([cseq : Nat, status : Raop!Results])
      BY DEF RaopInv, RaopTypes
    <2> QED BY <2>1, <2>2, OneOnly
  <1> QED BY <1>1, <1>2 DEF Raop!Stale

LEMMA HearsHolds ==
    ASSUME RaopInv, NEW result \in Raop!Results, Raop!Hears(result)
    PROVE  RaopTypes' /\ LineInv' /\ ~rMixed' /\ rReq' = NoRequest
  <1>1. /\ rReq # NoRequest /\ rReq' = NoRequest /\ rAsked' = rAsked
        /\ rClient' = [rClient EXCEPT !.poisoned = @ \/ result = "late",
                                      !.announced = @ \/ (rReq.what = "ANNOUNCE" /\ result = "200")]
    BY DEF Raop!Hears, Raop!Poisons
  <1>2. /\ rClient' \in [announced : BOOLEAN, tornDown : BOOLEAN, poisoned : BOOLEAN, digest : BOOLEAN, cseq : Nat]
        /\ result = "late" => rClient'.poisoned
    BY <1>1 DEF RaopInv, RaopTypes
  <1>3. CASE /\ rReplies # <<>> /\ rReplies' = Tail(rReplies)
             /\ rMixed' = (rMixed \/ Head(rReplies).cseq # rReq.cseq)
    <2>1. rReplies' = <<>> /\ rAsked' = <<>> /\ ~rMixed'
      BY <1>1, <1>3, HearsOwn DEF RaopInv
    <2> QED BY <1>1, <1>2, <2>1 DEF RaopInv, RaopTypes, LineInv
  <1>4. CASE rReplies = <<>> /\ result = "late" /\ UNCHANGED <<rReplies, rMixed>>
    BY <1>1, <1>2, <1>4 DEF RaopInv, RaopTypes, LineInv
  <1> QED BY <1>3, <1>4 DEF Raop!Hears

LEMMA ChallengedHolds == ASSUME RaopInv, Raop!Challenged PROVE RaopInv'
  <1>1. /\ rReq # NoRequest /\ rReplies # <<>> /\ rReplies' = Tail(rReplies) /\ Raop!Sends(rReq.what, 1)
        /\ rMixed' = (rMixed \/ Head(rReplies).cseq # rReq.cseq) /\ UNCHANGED <<rStep, rHolder, rSetter>>
    BY DEF Raop!Challenged
  <1>2. /\ rReq.what \in Raop!Methods /\ ~rClient.poisoned
        /\ Head(rReplies).cseq = rReq.cseq /\ rAsked = <<>> /\ Tail(rReplies) = <<>>
    BY <1>1, HearsOwn DEF Raop!Requests
  <1>3. RaopTypes' /\ LineInv'
    BY <1>1, <1>2, SendsOne DEF RaopInv
  <1>4. StartInv'
    BY <1>1 DEF RaopInv, StartInv
  <1> QED BY <1>1, <1>2, <1>3, <1>4 DEF RaopInv

LEMMA AnswersHolds == ASSUME RaopInv, Raop!Answers PROVE RaopInv'
  <1>1. /\ rAsked # <<>> /\ rAsked' = Tail(rAsked)
        /\ UNCHANGED <<rClient, rReq, rMixed, rStep, rHolder, rSetter>>
        /\ \E status \in {"200", "no", "401", "403"} :
              rReplies' = Append(rReplies, [cseq |-> Head(rAsked).cseq, status |-> status])
    BY DEF Raop!Answers
  <1>2. PICK status \in {"200", "no", "401", "403"} :
              rReplies' = Append(rReplies, [cseq |-> Head(rAsked).cseq, status |-> status])
    BY <1>1
  <1> DEFINE m == [cseq |-> Head(rAsked).cseq, status |-> status]
  <1>3. /\ rAsked \in Seq([what : Raop!Methods, cseq : Nat, digest : BOOLEAN])
        /\ rReplies \in Seq([cseq : Nat, status : Raop!Results])
    BY DEF RaopInv, RaopTypes
  <1>4. /\ Head(rAsked) = rAsked[1] /\ rAsked[1] \in [what : Raop!Methods, cseq : Nat, digest : BOOLEAN]
        /\ rAsked' \in Seq([what : Raop!Methods, cseq : Nat, digest : BOOLEAN])
    BY <1>1, <1>3, FirstOf
  <1>5. m \in [cseq : Nat, status : Raop!Results] /\ m.cseq = rAsked[1].cseq
    <2>1. status \in Raop!Results
      BY DEF Raop!Results
    <2>2. rAsked[1].cseq \in Nat
      BY <1>4
    <2>3. m = [cseq |-> rAsked[1].cseq, status |-> status]
      BY <1>4
    <2> QED BY <2>1, <2>2, <2>3
  <1> HIDE DEF m
  <1>6. rReplies' \in Seq([cseq : Nat, status : Raop!Results])
    BY <1>2, <1>3, <1>5 DEF m
  <1>7. RaopTypes'
    BY <1>1, <1>4, <1>6 DEF RaopInv, RaopTypes
  <1>8. ASSUME ~rClient.poisoned
        PROVE  rReq # NoRequest /\ rAsked' = <<>> /\ Len(rReplies') = 1 /\ rReplies'[1].cseq = rReq.cseq
    <2>1. rReq # NoRequest /\ Len(rAsked) = 1 /\ rAsked[1].cseq = rReq.cseq /\ rReplies = <<>>
      BY <1>1, <1>8 DEF RaopInv, LineInv
    <2>2. rAsked' = <<>>
      BY <1>1, <1>3, <2>1, OneOnly
    <2>3. rReplies' = Append(<<>>, m)
      BY <1>2, <2>1 DEF m
    <2>4. Len(rReplies') = 1 /\ rReplies'[1] = m
      BY <1>5, <2>3
    <2> QED BY <1>5, <2>1, <2>2, <2>4
  <1>9. LineInv'
    BY <1>1, <1>8 DEF RaopInv, LineInv
  <1> QED BY <1>1, <1>7, <1>9 DEF RaopInv, StartInv

\* Steps that leave the line as it is.
LEMMA LineStays ==
    ASSUME RaopInv, UNCHANGED <<rClient, rReq, rAsked, rReplies, rMixed>>
    PROVE  RaopTypes' /\ LineInv' /\ ~rMixed'
  BY DEF RaopInv, RaopTypes, LineInv

LEMMA PathsHold ==
    ASSUME RaopInv, Raop!NoPath \/ Raop!TryAp2 \/ Raop!Dropped \/ Raop!Guarded \/ Raop!Spawn \/ Raop!SpawnFails
                    \/ Raop!Stop
    PROVE  RaopInv'
  <1>1. UNCHANGED <<rClient, rReq, rAsked, rReplies, rMixed, rSetter>>
    BY DEF Raop!NoPath, Raop!TryAp2, Raop!Dropped, Raop!Guarded, Raop!Spawn, Raop!SpawnFails, Raop!Stop, Raop!line
  <1>2. StartInv'
    <2>1. CASE Raop!NoPath \/ Raop!TryAp2 \/ Raop!Guarded
      <3>1. /\ rStep \in {"connect", "guard"} /\ rStep' \in {"connect", "failed", "ap2"} /\ rHolder' = rHolder
        BY <2>1 DEF Raop!NoPath, Raop!TryAp2, Raop!Guarded, Raop!NextTry
      <3> QED BY <1>1, <3>1 DEF RaopInv, StartInv, Starting
    <2>2. CASE Raop!Dropped
      BY <1>1, <2>2 DEF RaopInv, StartInv, Starting, Raop!Dropped
    <2>3. CASE Raop!Spawn
      BY <1>1, <2>3 DEF RaopInv, StartInv, Starting, Raop!Handshake, Raop!Spawn, Raop!After
    <2>4. CASE Raop!SpawnFails
      BY <1>1, <2>4 DEF RaopInv, StartInv, Starting, Raop!Handshake, Raop!SpawnFails
    <2>5. CASE Raop!Stop
      BY <1>1, <2>5 DEF RaopInv, StartInv, Starting, Raop!Handshake, Raop!Stop
    <2> QED BY <2>1, <2>2, <2>3, <2>4, <2>5
  <1> QED BY <1>1, <1>2, LineStays DEF RaopInv

LEMMA RestHolds ==
    ASSUME RaopInv, Raop!Discards \/ Raop!Connect
    PROVE  RaopInv'
  <1>1. CASE Raop!Discards
    BY <1>1, HearsOwn DEF Raop!Discards
  <1>2. CASE Raop!Connect
    <2>1. /\ rStep = "connect" /\ rStep' \in {"opener", "drop"} /\ rClient' = Raop!Fresh /\ rAsked' = <<>> /\ rReplies' = <<>>
          /\ UNCHANGED <<rReq, rMixed, rHolder, rSetter>>
      BY <1>2 DEF Raop!Connect
    <2>2. rReq = NoRequest /\ rHolder = "start" /\ rSetter = "none"
      BY <2>1 DEF RaopInv, StartInv, Starting
    <2>3. /\ rClient' \in [announced : BOOLEAN, tornDown : BOOLEAN, poisoned : BOOLEAN, digest : BOOLEAN, cseq : Nat]
          /\ ~rClient'.poisoned
      BY <2>1 DEF Raop!Fresh
    <2>4. RaopTypes' /\ LineInv'
      BY <2>1, <2>2, <2>3 DEF RaopTypes, LineInv
    <2>5. StartInv'
      BY <2>1, <2>2 DEF StartInv
    <2> QED BY <2>1, <2>4, <2>5 DEF RaopInv
  <1> QED BY <1>1, <1>2

LEMMA StartHolds ==
    ASSUME RaopInv, Raop!HandshakeAsks \/ Raop!HandshakeHears \/ Raop!DropAsks \/ Raop!DropHears
    PROVE  RaopInv'
  <1>1. /\ rStep \in Raop!Handshake \cup {"drop"} /\ UNCHANGED <<rHolder, rSetter>>
        /\ \/ rStep' = rStep /\ \E what \in Raop!Methods : Raop!Ask(what)
           \/ /\ \E result \in Raop!Results : Raop!Hears(result)
              /\ rStep' \in Starting
    <2>1. CASE Raop!HandshakeAsks
      BY <2>1 DEF Raop!HandshakeAsks, Raop!MethodOf, Raop!Handshake, Raop!Methods
    <2>2. CASE Raop!DropAsks
      BY <2>2 DEF Raop!DropAsks, Raop!Methods
    <2>3. CASE Raop!HandshakeHears
      <3>1. /\ rStep \in Raop!Handshake /\ UNCHANGED <<rHolder, rSetter>>
            /\ \E result \in Raop!Results : Raop!Hears(result)
            /\ rStep' \in {Raop!After(rStep), "unlock", "drop"}
        BY <2>3 DEF Raop!HandshakeHears
      <3>2. Raop!After(rStep) \in Starting
        BY <3>1 DEF Raop!Handshake, Raop!After, Starting
      <3> QED BY <3>1, <3>2 DEF Starting, Raop!Handshake
    <2>4. CASE Raop!DropHears
      BY <2>4 DEF Raop!DropHears, Starting
    <2> QED BY <2>1, <2>2, <2>3, <2>4
  <1>2. rStep \in Starting /\ rStep \notin {"connect", "guard"}
    BY <1>1 DEF Starting, Raop!Handshake
  <1>3. rHolder' = "start" /\ rSetter' = "none"
    BY <1>1, <1>2 DEF RaopInv, StartInv
  <1>4. CASE rStep' = rStep /\ \E what \in Raop!Methods : Raop!Ask(what)
    BY <1>2, <1>3, <1>4, AskHolds DEF RaopInv, StartInv
  <1>5. CASE \E result \in Raop!Results : Raop!Hears(result)
    BY <1>3, <1>5, HearsHolds DEF RaopInv, StartInv
  <1> QED BY <1>1, <1>4, <1>5

\* What goes on beside a start leaves its step as it is.
LEMMA ThreadsHold ==
    ASSUME RaopInv, Raop!AudioFails \/ Raop!TakesHandle \/ \E t \in rThreads : Raop!ThreadEnds(t)
    PROVE  RaopInv'
  <1>1. /\ UNCHANGED <<rClient, rReq, rAsked, rReplies, rMixed, rStep, rHolder>>
        /\ rSetter' = rSetter \/ rStep = "up"
    BY DEF Raop!AudioFails, Raop!TakesHandle, Raop!ThreadEnds, Raop!line
  <1>2. StartInv'
    BY <1>1 DEF RaopInv, StartInv, Starting, Raop!Handshake
  <1> QED BY <1>1, <1>2, LineStays DEF RaopInv

\* The client is another's than the start's: there is none any more.
LEMMA NotStarting ==
    ASSUME RaopInv, rHolder # "start" \/ rSetter # "none" \/ rStep \in {"up", "join", "teardown"}
    PROVE  rStep \notin Starting
  BY DEF RaopInv, StartInv, Starting, Raop!Handshake

LEMMA LiveHolds ==
    ASSUME RaopInv, Raop!KeepaliveAsks \/ Raop!KeepaliveHears \/ Raop!SetterAsks \/ Raop!SetterHears
                    \/ Raop!StopAsks \/ Raop!StopHears
    PROVE  RaopInv'
  <1>1. rStep \notin Starting /\ rStep' \notin Starting
    <2>1. rHolder # "start" \/ rSetter # "none"
      BY RaopConstants DEF Raop!KeepaliveAsks, Raop!KeepaliveHears, Raop!SetterAsks, Raop!SetterHears,
                           Raop!StopAsks, Raop!StopHears
    <2>2. rStep \notin Starting
      BY <2>1, NotStarting
    <2>3. rStep' = rStep \/ rStep' \in {"stopped", "teardown"}
      BY DEF Raop!KeepaliveAsks, Raop!KeepaliveHears, Raop!SetterAsks, Raop!SetterHears,
             Raop!StopAsks, Raop!StopHears
    <2> QED BY <2>2, <2>3 DEF Starting, Raop!Handshake
  <1>2. \/ UNCHANGED <<rClient, rReq, rAsked, rReplies, rMixed>>
        \/ \E what \in Raop!Methods : Raop!Ask(what)
        \/ \E result \in Raop!Results : Raop!Hears(result)
    <2>1. CASE Raop!KeepaliveAsks \/ Raop!SetterAsks \/ Raop!StopAsks
      BY <2>1 DEF Raop!KeepaliveAsks, Raop!SetterAsks, Raop!StopAsks, Raop!line, Raop!Methods
    <2>2. CASE Raop!KeepaliveHears \/ Raop!SetterHears \/ Raop!StopHears
      BY <2>2 DEF Raop!KeepaliveHears, Raop!SetterHears, Raop!StopHears
    <2> QED BY <2>1, <2>2
  <1>3. StartInv'
    BY <1>1 DEF StartInv, Starting
  <1>4. RaopTypes' /\ LineInv' /\ ~rMixed'
    BY <1>2, LineStays, AskHolds, HearsHolds DEF RaopInv
  <1> QED BY <1>3, <1>4 DEF RaopInv

LEMMA RaopNextHolds == ASSUME RaopInv, Raop!Next \/ UNCHANGED rVars PROVE RaopInv'
  <1>1. CASE UNCHANGED rVars
    BY <1>1, LineStays DEF rVars, RaopInv, StartInv
  <1>2. CASE Raop!Next
    BY <1>2, ChallengedHolds, AnswersHolds, RestHolds, PathsHold, StartHolds, ThreadsHold, LiveHolds DEF Raop!Next
  <1> QED BY <1>1, <1>2

LEMMA RaopInitHolds == ASSUME Raop!Init PROVE RaopInv
  <1>1. /\ rClient = Raop!Fresh /\ rReq = NoRequest /\ rAsked = <<>> /\ rReplies = <<>> /\ rStep = "connect"
        /\ rHolder = "start" /\ rSetter = "none" /\ ~rMixed
    BY DEF Raop!Init
  <1> QED BY <1>1 DEF RaopInv, RaopTypes, LineInv, StartInv, Raop!Fresh

-----------------------------------------------------------------------------
LEMMA RequestSteps ==
    ASSUME [MCNext]_<<vars, controlVars, mediaVars, rVars, sVars, scene>>
    PROVE  [Control!Next]_controlVars /\ (Raop!Next \/ UNCHANGED rVars)
  BY DEF MCNext

\* No thread takes another request's reply for its own, on the control
\* connection of an AirPlay 2 session as long as fewer requests go unanswered
\* than are remembered, nor in an AirPlay 1 session.
THEOREM RepliesAreOwn == MCSpec /\ [](strict \/ Cardinality(pending) < PendingCap) => []OwnReply
  <1>1. MCInit => ControlInv /\ RaopInv
    BY ControlInitHolds, RaopInitHolds DEF MCInit
  <1>2. /\ ControlInv /\ RaopInv /\ (strict \/ Cardinality(pending) < PendingCap)
        /\ [MCNext]_<<vars, controlVars, mediaVars, rVars, sVars, scene>>
        => ControlInv' /\ RaopInv'
    BY ControlNextHolds, RaopNextHolds, RequestSteps
  <1>3. ControlInv /\ RaopInv => OwnReply
    BY DEF ControlInv, RaopInv, OwnReply, Control!OwnReply, Raop!OwnReply
  <1> QED BY <1>1, <1>2, <1>3, PTL DEF MCSpec
=============================================================================
