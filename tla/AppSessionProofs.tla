--------------------------- MODULE AppSessionProofs ---------------------------
(***************************************************************************)
(* For any speakers, users and background threads: one select at a time,   *)
(* and none of a device being paired (OneAtATime); what is switched off is *)
(* unbound but for the switch on its way to it (OffMeansUnbound); and no   *)
(* session is bound over another, nor ended by an automatic connect that   *)
(* should have yielded (BindsInTurn).                                      *)
(*                                                                         *)
(* SlotInv is what everything rests on: the threads' places, the types of  *)
(* the data, the ceremony's thread (PinInv) and OneSelect, which is        *)
(* inductive with them.  Because only the slot's holder binds, what a      *)
(* holder has seen of the session stays true while it goes on (DecideInv,  *)
(* AutoInv); that a user's session implies a pick (PickedInv) is why the   *)
(* reconnect at launch, which a pick refuses, meets none (LaunchInv).      *)
(* Each invariant has one lemma per group of threads and one step per      *)
(* action.                                                                 *)
(***************************************************************************)
EXTENDS AppSession, TLAPS

\* The background threads are threads, and none of them a user's.
LEMMA ThreadFacts ==
  /\ None \notin Threads /\ Users \subseteq Threads /\ Background \subseteq Threads
  /\ "watchdog" \notin Users /\ "auto" \notin Users /\ "launch" \notin Users /\ "pin" \notin Users
  BY ThreadsAssumption DEF Threads

PinSteps == {"pinStart", "pinAwait", "pinClaim", "pinSetup", "pinAlone"}

\* The ceremony is there from its start to its end, and its thread with it.
PinInv ==
    /\ \A t \in Threads : pc[t] \in PinSteps => t = "pin" /\ ceremony \in Ceremony
    /\ ceremony # None => "pin" \in Threads /\ pc["pin"] \in PinSteps

\* Type correctness, of the threads' places and of the data apart.
Asking == Connecting \cup {"claim", "laWait", "pinWait"}
PlacesOK ==
    /\ pc \in [Threads -> Steps]
    /\ \A t \in Threads : pc[t] \in Asking => req[t].id \in Speakers
DataOK ==
    /\ streaming \in BOOLEAN /\ sendspin \in BOOLEAN
    /\ picked \in BOOLEAN /\ promised \in BOOLEAN
    /\ session \in Session \cup {None}
    /\ connecting \in Threads \cup {None}
    /\ last \in Speakers \cup {None} /\ saved \in Speakers \cup {None}
    /\ tried \subseteq Speakers /\ paired \subseteq Speakers
    /\ ceremony \in Ceremony \cup {None}
    /\ req \in [Threads -> Request]
    /\ made \in [Threads -> Session \cup {None}]
    /\ old \in [Threads -> Session \cup {None}]

\* Type correctness is that of its parts.
LEMMA TypeParts == TypeOK <=> PlacesOK /\ DataOK /\ ops \in 0..MaxOps
  BY DEF TypeOK, PlacesOK, DataOK, Asking

\* Initially no ceremony runs and at most the launch has something to do.
LEMMA InitType == Init => TypeOK /\ PinInv
  <1> SUFFICES ASSUME Init PROVE PlacesOK /\ DataOK /\ ops \in 0..MaxOps /\ PinInv
    BY TypeParts
  <1> USE DEF Init
  <1>1. pc \in [Threads -> {"idle", "laWait", "paWait", "done"}]
    OBVIOUS
  <1>2. req \in [Threads -> Request]
    <2>1. NoRequest \in Request
      BY DEF NoRequest, Select, Request
    <2>2. saved \in Speakers => Reconnect(saved) \in Request
      BY DEF Reconnect, Select, Request
    <2> QED BY <2>1, <2>2, SpeakersAssumption
  <1>3. \A t \in Threads : pc[t] = "laWait" => req[t].id \in Speakers
    BY SpeakersAssumption DEF Reconnect, Select
  <1>4. last \in Speakers \cup {None} /\ ops \in 0..MaxOps
    BY MaxOpsAssumption
  <1>5. DataOK
    BY <1>2, <1>4, SpeakersAssumption DEF DataOK
  <1>6. PlacesOK
    BY <1>1, <1>3 DEF PlacesOK, Asking, Steps, Connecting
  <1> QED BY <1>1, <1>4, <1>5, <1>6 DEF PinInv, PinSteps

\* A step of a select leaves every thread at a place it has a request for.
LEMMA ConnectPlaces ==
  ASSUME PlacesOK, DataOK, PinInv, NEW t \in Threads, ConnectStep(t)
  PROVE  PlacesOK'
  <1> USE ThreadFacts, SpeakersAssumption DEF PlacesOK, DataOK, Asking, Goto, Take,
           Steps, Connecting, work
  <1>1. CASE Claim(t)
    BY <1>1 DEF Claim, Home
  <1>2. CASE EnableForChoice(t)
    BY <1>2 DEF EnableForChoice
  <1>3. CASE GuardCeremony(t)
    BY <1>3 DEF GuardCeremony
  <1>4. CASE LookSame(t)
    BY <1>4 DEF LookSame
  <1>5. CASE TakeSame(t)
    BY <1>5 DEF TakeSame
  <1>6. CASE StopSame(t)
    BY <1>6 DEF StopSame
  <1>7. CASE BringUp(t)
    BY <1>7 DEF BringUp, Session
  <1>8. CASE BringUpFails(t)
    BY <1>8 DEF BringUpFails
  <1>9. CASE BringUpNeedsPin(t)
    BY <1>9 DEF BringUpNeedsPin, Ceremony
  <1>10. CASE Swap(t)
    BY <1>10 DEF Swap, Decide
  <1>11. CASE StopOld(t)
    BY <1>11 DEF StopOld
  <1>12. CASE DecideAfterStop(t)
    BY <1>12 DEF DecideAfterStop, Decide
  <1>13. CASE Discard(t)
    BY <1>13 DEF Discard
  <1>14. CASE Remember(t)
    BY <1>14 DEF Remember
  <1>15. CASE Save(t)
    BY <1>15 DEF Save
  <1>16. CASE Release(t)
    BY <1>16 DEF Release, Home, NoRequest, Select, Request
  <1> QED BY <1>1, <1>2, <1>3, <1>4, <1>5, <1>6, <1>7, <1>8, <1>9, <1>10, <1>11, <1>12,
           <1>13, <1>14, <1>15, <1>16 DEF ConnectStep

\* A step of the user's leaves every thread at a place it has a request for.
LEMMA UserPlaces ==
  ASSUME PlacesOK, DataOK, PinInv, NEW u \in Users, UserStep(u)
  PROVE  PlacesOK'
  <1> USE ThreadFacts, SpeakersAssumption DEF PlacesOK, DataOK, Asking, Goto, Take,
           Steps, Connecting, work
  <1>1. CASE Pick(u)
    BY <1>1 DEF Pick, Begin, Select, Request
  <1>2. CASE Disable(u)
    BY <1>2 DEF Disable, Begin
  <1>3. CASE DisableTakes(u)
    BY <1>3 DEF DisableTakes, TakeAnd
  <1>4. CASE DisableStops(u)
    BY <1>4 DEF DisableStops, StopAnd
  <1>5. CASE Enable(u)
    BY <1>5 DEF Enable, Begin
  <1>6. CASE EnableChecks(u)
    BY <1>6 DEF EnableChecks
  <1>7. CASE EnableReselects(u)
    BY <1>7 DEF EnableReselects, Select, Request
  <1>8. CASE Forget(u)
    BY <1>8 DEF Forget, Begin
  <1>9. CASE ForgetTakes(u)
    BY <1>9 DEF ForgetTakes, TakeAnd
  <1>10. CASE ForgetStops(u)
    BY <1>10 DEF ForgetStops, StopAnd
  <1>11. CASE ForgetLast(u)
    BY <1>11 DEF ForgetLast
  <1>12. CASE ForgetSaves(u)
    BY <1>12 DEF ForgetSaves
  <1>13. CASE SendspinOn(u)
    BY <1>13 DEF SendspinOn, Begin
  <1>14. CASE SendspinOff(u)
    BY <1>14 DEF SendspinOff, Begin
  <1>15. CASE SendspinTakes(u)
    BY <1>15 DEF SendspinTakes
  <1>16. CASE SendspinStops(u)
    BY <1>16 DEF SendspinStops, StopAnd
  <1>17. CASE SubmitPin(u)
    BY <1>17 DEF SubmitPin, Begin, Ceremony
  <1> QED BY <1>1, <1>2, <1>3, <1>4, <1>5, <1>6, <1>7, <1>8, <1>9, <1>10, <1>11, <1>12,
           <1>13, <1>14, <1>15, <1>16, <1>17 DEF UserStep

\* A step of the drop watchdog leaves every thread at a place it has a request for.
LEMMA WatchdogPlaces ==
  ASSUME PlacesOK, DataOK, PinInv, "watchdog" \in Background, WatchdogStep
  PROVE  PlacesOK'
  <1> USE ThreadFacts, SpeakersAssumption DEF PlacesOK, DataOK, Asking, Goto, Take,
           Steps, Connecting, work
  <1>1. CASE WatchdogEnds
    BY <1>1 DEF WatchdogEnds
  <1>2. CASE WatchdogStops
    BY <1>2 DEF WatchdogStops, StopAnd
  <1>3. CASE WatchdogSees
    BY <1>3 DEF WatchdogSees, Select, Request, Session
  <1>4. CASE WatchdogWaits
    BY <1>4 DEF WatchdogWaits
  <1>5. CASE WatchdogConfirms
    BY <1>5 DEF WatchdogConfirms, StillDead, Session
  <1>6. CASE WatchdogAwaits
    BY <1>6 DEF WatchdogAwaits
  <1> QED BY <1>1, <1>2, <1>3, <1>4, <1>5, <1>6 DEF WatchdogStep

\* A step of auto-connect leaves every thread at a place it has a request for.
LEMMA AutoPlaces ==
  ASSUME PlacesOK, DataOK, PinInv, "auto" \in Background, AutoSees \/ Reappears
  PROVE  PlacesOK'
  <1> USE ThreadFacts, SpeakersAssumption DEF PlacesOK, DataOK, Asking, Goto, Take,
           Steps, Connecting, work
  <1>1. CASE AutoSees
    BY <1>1 DEF AutoSees, Select, Request
  <1>2. CASE Reappears
    BY <1>2 DEF Reappears
  <1> QED BY <1>1, <1>2

\* A step of the launch's leaves every thread at a place it has a request for.
LEMMA LaunchPlaces ==
  ASSUME PlacesOK, DataOK, PinInv, "launch" \in Background, LaunchStep
  PROVE  PlacesOK'
  <1> USE ThreadFacts, SpeakersAssumption DEF PlacesOK, DataOK, Asking, Goto, Take,
           Steps, Connecting, work
  <1>1. CASE LaunchSendspin
    BY <1>1 DEF LaunchSendspin
  <1>2. CASE LaunchPairSeen
    BY <1>2 DEF LaunchPairSeen
  <1>3. CASE LaunchPairPicks
    BY <1>3 DEF LaunchPairPicks, Select, Request
  <1> QED BY <1>1, <1>2, <1>3 DEF LaunchStep

\* A step of the ceremony leaves every thread at a place it has a request for.
LEMMA PinPlaces ==
  ASSUME PlacesOK, DataOK, PinInv, "pin" \in Background, PinStep
  PROVE  PlacesOK'
  <1> USE ThreadFacts, SpeakersAssumption DEF PlacesOK, DataOK, Asking, Goto, Take,
           Steps, Connecting, work
  <1>1. CASE PinShown
    BY <1>1 DEF PinShown, Ceremony, EndCeremony, PinInv, PinSteps
  <1>2. CASE PinAnswered
    BY <1>2 DEF PinAnswered, EndCeremony, PinInv, PinSteps
  <1>3. CASE PinClaims
    BY <1>3 DEF PinClaims
  <1>4. CASE PinPairs
    <2>1. PICK good \in BOOLEAN : PinSetup(good) /\ pc["pin"] \in PinSteps
      BY <1>4 DEF PinPairs, PinSteps
    <2>2. CASE good
      BY <1>4, <2>1, <2>2, "pin" \in Threads, SMTT(30) DEF PinSetup, Select, Request, Ceremony,
               PinInv
    <2>3. CASE ~good
      BY <1>4, <2>1, <2>3 DEF PinSetup
    <2> QED BY <2>2, <2>3
  <1>5. CASE PinSelects
    BY <1>5 DEF PinSelects
  <1> QED BY <1>1, <1>2, <1>3, <1>4, <1>5 DEF PinStep

\* The end of a swap: the session made is bound, or kept to be given up.
LEMMA DecideData ==
  ASSUME DataOK, NEW t \in Threads, Decide(t)
  PROVE  /\ session' \in Session \cup {None} /\ promised' \in BOOLEAN
         /\ made' \in [Threads -> Session \cup {None}]
  <1>1. CASE MayBind(made[t])
    BY <1>1 DEF DataOK, Decide
  <1>2. CASE ~MayBind(made[t])
    BY <1>2 DEF DataOK, Decide
  <1> QED BY <1>1, <1>2

\* A step of a select keeps the data typed.
LEMMA ConnectData ==
  ASSUME PlacesOK, DataOK, PinInv, NEW t \in Threads, ConnectStep(t)
  PROVE  DataOK'
  <1> USE ThreadFacts, SpeakersAssumption DEF DataOK, Goto, Take, flags, memory, work
  <1>1. CASE Claim(t)
    BY <1>1 DEF Claim, Home
  <1>2. CASE EnableForChoice(t)
    BY <1>2 DEF EnableForChoice
  <1>3. CASE GuardCeremony(t)
    BY <1>3 DEF GuardCeremony
  <1>4. CASE LookSame(t)
    BY <1>4 DEF LookSame
  <1>5. CASE TakeSame(t)
    BY <1>5 DEF TakeSame
  <1>6. CASE StopSame(t)
    BY <1>6 DEF StopSame
  <1>7. CASE BringUp(t)
    BY <1>7 DEF BringUp, Session, PlacesOK, Asking, Connecting
  <1>8. CASE BringUpFails(t)
    BY <1>8 DEF BringUpFails
  <1>9. CASE BringUpNeedsPin(t)
    BY <1>9 DEF BringUpNeedsPin, Ceremony, PlacesOK, Asking, Connecting
  <1>10. CASE Swap(t)
    <2>1. CASE session # None
      BY <1>10, <2>1 DEF Swap
    <2>2. CASE session = None
      BY <1>10, <2>2, DecideData DEF Swap
    <2> QED BY <2>1, <2>2
  <1>11. CASE StopOld(t)
    BY <1>11 DEF StopOld
  <1>12. CASE DecideAfterStop(t)
    BY <1>12, DecideData DEF DecideAfterStop
  <1>13. CASE Discard(t)
    BY <1>13 DEF Discard
  <1>14. CASE Remember(t)
    BY <1>14 DEF Remember, PlacesOK, Asking, Connecting
  <1>15. CASE Save(t)
    BY <1>15 DEF Save, PlacesOK, Asking, Connecting
  <1>16. CASE Release(t)
    BY <1>16 DEF Release, Home, NoRequest, Select, Request
  <1> QED BY <1>1, <1>2, <1>3, <1>4, <1>5, <1>6, <1>7, <1>8, <1>9, <1>10, <1>11, <1>12,
           <1>13, <1>14, <1>15, <1>16 DEF ConnectStep

\* A step of the user's keeps the data typed.
LEMMA UserData ==
  ASSUME PlacesOK, DataOK, PinInv, NEW u \in Users, UserStep(u)
  PROVE  DataOK'
  <1> USE ThreadFacts, SpeakersAssumption DEF DataOK, Goto, Take, flags, memory, work
  <1>1. CASE Pick(u)
    BY <1>1 DEF Pick, Begin, Select, Request
  <1>2. CASE Disable(u)
    BY <1>2 DEF Disable, Begin
  <1>3. CASE DisableTakes(u)
    BY <1>3 DEF DisableTakes, TakeAnd
  <1>4. CASE DisableStops(u)
    BY <1>4 DEF DisableStops, StopAnd
  <1>5. CASE Enable(u)
    BY <1>5 DEF Enable, Begin
  <1>6. CASE EnableChecks(u)
    BY <1>6 DEF EnableChecks
  <1>7. CASE EnableReselects(u)
    <2>1. CASE last = None
      BY <1>7, <2>1 DEF EnableReselects
    <2>2. CASE last # None
      <3>1. Select(last, TRUE, FALSE) \in Request
        BY <2>2 DEF Select, Request
      <3>2. req' \in [Threads -> Request]
        BY <1>7, <2>2, <3>1, ZenonT(60) DEF EnableReselects
      <3>3. picked' = TRUE /\ UNCHANGED <<streaming, sendspin, tried, ceremony, paired,
                promised, session, connecting, memory, made, old>>
        BY <1>7, <2>2 DEF EnableReselects
      <3> QED BY <3>2, <3>3
    <2> QED BY <2>1, <2>2
  <1>8. CASE Forget(u)
    BY <1>8 DEF Forget, Begin
  <1>9. CASE ForgetTakes(u)
    BY <1>9 DEF ForgetTakes, TakeAnd
  <1>10. CASE ForgetStops(u)
    BY <1>10 DEF ForgetStops, StopAnd
  <1>11. CASE ForgetLast(u)
    BY <1>11 DEF ForgetLast
  <1>12. CASE ForgetSaves(u)
    BY <1>12 DEF ForgetSaves
  <1>13. CASE SendspinOn(u)
    BY <1>13 DEF SendspinOn, Begin
  <1>14. CASE SendspinOff(u)
    BY <1>14 DEF SendspinOff, Begin
  <1>15. CASE SendspinTakes(u)
    BY <1>15 DEF SendspinTakes
  <1>16. CASE SendspinStops(u)
    BY <1>16 DEF SendspinStops, StopAnd
  <1>17. CASE SubmitPin(u)
    BY <1>17 DEF SubmitPin, Begin, Ceremony
  <1> QED BY <1>1, <1>2, <1>3, <1>4, <1>5, <1>6, <1>7, <1>8, <1>9, <1>10, <1>11, <1>12,
           <1>13, <1>14, <1>15, <1>16, <1>17 DEF UserStep

\* A step of the drop watchdog keeps the data typed.
LEMMA WatchdogData ==
  ASSUME PlacesOK, DataOK, PinInv, "watchdog" \in Background, WatchdogStep
  PROVE  DataOK'
  <1> USE ThreadFacts, SpeakersAssumption DEF DataOK, Goto, Take, flags, memory, work
  <1>1. CASE WatchdogEnds
    BY <1>1 DEF WatchdogEnds
  <1>2. CASE WatchdogStops
    BY <1>2 DEF WatchdogStops, StopAnd
  <1>3. CASE WatchdogSees
    BY <1>3 DEF WatchdogSees, Select, Request, Session
  <1>4. CASE WatchdogWaits
    BY <1>4 DEF WatchdogWaits
  <1>5. CASE WatchdogConfirms
    BY <1>5 DEF WatchdogConfirms, StillDead, Session
  <1>6. CASE WatchdogAwaits
    BY <1>6 DEF WatchdogAwaits
  <1> QED BY <1>1, <1>2, <1>3, <1>4, <1>5, <1>6 DEF WatchdogStep

\* A step of auto-connect keeps the data typed.
LEMMA AutoData ==
  ASSUME PlacesOK, DataOK, PinInv, "auto" \in Background, AutoSees \/ Reappears
  PROVE  DataOK'
  <1> USE ThreadFacts, SpeakersAssumption DEF DataOK, Goto, Take, flags, memory, work
  <1>1. CASE AutoSees
    <2>1. \A id \in Speakers : [Select(id, FALSE, FALSE) EXCEPT !.onlyIfIdle = TRUE] \in Request
      BY DEF Select, Request
    <2>3. PICK id \in Speakers :
              /\ tried' = tried \cup {id}
              /\ req' = [req EXCEPT !["auto"] =
                           [Select(id, FALSE, FALSE) EXCEPT !.onlyIfIdle = TRUE]]
      BY <1>1, Zenon DEF AutoSees
    <2>4. req' \in [Threads -> Request] /\ tried' \subseteq Speakers
      BY <2>1, <2>3
    <2>2. /\ UNCHANGED <<streaming, sendspin, picked, ceremony, paired, promised, session,
                          connecting, memory, made, old>>
      BY <1>1 DEF AutoSees
    <2> QED BY <2>2, <2>4
  <1>2. CASE Reappears
    BY <1>2 DEF Reappears
  <1> QED BY <1>1, <1>2

\* A step of the launch's keeps the data typed.
LEMMA LaunchData ==
  ASSUME PlacesOK, DataOK, PinInv, "launch" \in Background, LaunchStep
  PROVE  DataOK'
  <1> USE ThreadFacts, SpeakersAssumption DEF DataOK, Goto, Take, flags, memory, work
  <1>1. CASE LaunchSendspin
    BY <1>1 DEF LaunchSendspin
  <1>2. CASE LaunchPairSeen
    BY <1>2 DEF LaunchPairSeen
  <1>3. CASE LaunchPairPicks
    BY <1>3 DEF LaunchPairPicks, Select, Request
  <1> QED BY <1>1, <1>2, <1>3 DEF LaunchStep

\* A step of the ceremony keeps the data typed.
LEMMA PinData ==
  ASSUME PlacesOK, DataOK, PinInv, "pin" \in Background, PinStep
  PROVE  DataOK'
  <1> USE ThreadFacts, SpeakersAssumption DEF DataOK, Goto, Take, flags, memory, work
  <1>1. CASE PinShown
    BY <1>1 DEF PinShown, Ceremony, EndCeremony, PinInv, PinSteps
  <1>2. CASE PinAnswered
    BY <1>2 DEF PinAnswered, EndCeremony, PinInv, PinSteps
  <1>3. CASE PinClaims
    BY <1>3 DEF PinClaims
  <1>4. CASE PinPairs
    <2>1. PICK good \in BOOLEAN : PinSetup(good) /\ pc["pin"] \in PinSteps
      BY <1>4 DEF PinPairs, PinSteps
    <2>2. UNCHANGED <<streaming, sendspin, picked, tried, session, last, saved, made, old>>
      BY <1>4 DEF PinPairs
    <2>3. CASE good
      <3>1. ceremony.id \in Speakers
        BY <2>1, "pin" \in Threads DEF PinInv, Ceremony
      <3>2. Select(ceremony.id, FALSE, FALSE) \in Request
        BY <3>1 DEF Select, Request
      <3>5. /\ paired' = paired \cup {ceremony.id} /\ ceremony' = None
            /\ req' = [req EXCEPT !["pin"] = Select(ceremony.id, FALSE, FALSE)]
        BY <2>1, <2>3 DEF PinSetup
      <3>3. /\ req' \in [Threads -> Request] /\ paired' \subseteq Speakers
            /\ ceremony' = None
        BY <3>1, <3>2, <3>5
      <3>4. connecting' \in {connecting, None} /\ promised' \in {promised, FALSE}
        BY <2>1 DEF PinSetup
      <3> QED BY <2>2, <3>3, <3>4
    <2>4. CASE ~good
      BY <2>1, <2>2, <2>4 DEF PinSetup
    <2> QED BY <2>3, <2>4
  <1>5. CASE PinSelects
    BY <1>5 DEF PinSelects
  <1> QED BY <1>1, <1>2, <1>3, <1>4, <1>5 DEF PinStep

\* Each operation of the user is one of the bound.
LEMMA OpsType == ops \in 0..MaxOps /\ [Next]_vars => (ops \in 0..MaxOps)'
  <1> SUFFICES ASSUME ops \in 0..MaxOps, [Next]_vars PROVE ops' \in 0..MaxOps
    OBVIOUS
  <1> USE MaxOpsAssumption
  <1>1. ASSUME NEW t \in Threads, ConnectStep(t) PROVE ops' = ops
    BY <1>1 DEF ConnectStep, Claim, EnableForChoice, GuardCeremony, LookSame, TakeSame,
             StopSame, BringUp, BringUpFails, BringUpNeedsPin, Swap, StopOld,
             DecideAfterStop, Discard, Remember, Save, Release
  <1>2. ASSUME NEW u \in Users, UserStep(u) PROVE ops' = ops \/ (ops > 0 /\ ops' = ops - 1)
    BY <1>2 DEF UserStep, Begin, TakeAnd, StopAnd, Pick, Disable, DisableTakes,
             DisableStops, Enable, EnableChecks, EnableReselects, Forget, ForgetTakes,
             ForgetStops, ForgetLast, ForgetSaves, SendspinOn, SendspinOff,
             SendspinTakes, SendspinStops, SubmitPin
  <1>3. ASSUME WatchdogStep \/ AutoSees \/ Reappears \/ LaunchStep \/ PinStep \/ SessionFails
        PROVE  ops' = ops
    BY <1>3 DEF WatchdogStep, LaunchStep, PinStep, StopAnd, SessionFails, WatchdogEnds,
             WatchdogStops, WatchdogSees, WatchdogWaits, WatchdogConfirms,
             WatchdogAwaits, AutoSees, Reappears, LaunchSendspin, LaunchPairSeen,
             LaunchPairPicks, PinShown, PinAnswered, PinClaims, PinPairs, PinSelects
  <1> QED BY <1>1, <1>2, <1>3 DEF Next, vars

\* A step of a select keeps the ceremony and its thread together.
LEMMA ConnectPin ==
  ASSUME PlacesOK, DataOK, PinInv, NEW t \in Threads, ConnectStep(t)
  PROVE  PinInv'
  <1> USE ThreadFacts DEF PinInv, PlacesOK, PinSteps, Goto, flags
  <1>1. CASE Claim(t)
    BY <1>1 DEF Claim, Home
  <1>2. CASE EnableForChoice(t)
    BY <1>2 DEF EnableForChoice
  <1>3. CASE GuardCeremony(t)
    BY <1>3 DEF GuardCeremony
  <1>4. CASE LookSame(t)
    BY <1>4 DEF LookSame
  <1>5. CASE TakeSame(t)
    BY <1>5 DEF TakeSame
  <1>6. CASE StopSame(t)
    BY <1>6 DEF StopSame
  <1>7. CASE BringUp(t)
    BY <1>7 DEF BringUp, Session
  <1>8. CASE BringUpFails(t)
    BY <1>8 DEF BringUpFails
  <1>9. CASE BringUpNeedsPin(t)
    BY <1>9 DEF BringUpNeedsPin, Ceremony, DataOK, Asking, Connecting
  <1>10. CASE Swap(t)
    BY <1>10 DEF Swap, Decide
  <1>11. CASE StopOld(t)
    BY <1>11 DEF StopOld
  <1>12. CASE DecideAfterStop(t)
    BY <1>12 DEF DecideAfterStop, Decide
  <1>13. CASE Discard(t)
    BY <1>13 DEF Discard
  <1>14. CASE Remember(t)
    BY <1>14 DEF Remember
  <1>15. CASE Save(t)
    BY <1>15 DEF Save
  <1>16. CASE Release(t)
    BY <1>16 DEF Release, Home
  <1> QED BY <1>1, <1>2, <1>3, <1>4, <1>5, <1>6, <1>7, <1>8, <1>9, <1>10, <1>11, <1>12,
           <1>13, <1>14, <1>15, <1>16 DEF ConnectStep

\* A step of the user's keeps the ceremony and its thread together.
LEMMA UserPin ==
  ASSUME PlacesOK, DataOK, PinInv, NEW u \in Users, UserStep(u)
  PROVE  PinInv'
  <1> USE ThreadFacts DEF PinInv, PlacesOK, PinSteps, Goto, flags
  <1>1. CASE Pick(u)
    BY <1>1 DEF Pick, Begin, Select, Request
  <1>2. CASE Disable(u)
    BY <1>2 DEF Disable, Begin
  <1>3. CASE DisableTakes(u)
    BY <1>3 DEF DisableTakes, TakeAnd
  <1>4. CASE DisableStops(u)
    BY <1>4 DEF DisableStops, StopAnd
  <1>5. CASE Enable(u)
    BY <1>5 DEF Enable, Begin
  <1>6. CASE EnableChecks(u)
    BY <1>6 DEF EnableChecks
  <1>7. CASE EnableReselects(u)
    BY <1>7 DEF EnableReselects, Select, Request
  <1>8. CASE Forget(u)
    BY <1>8 DEF Forget, Begin
  <1>9. CASE ForgetTakes(u)
    BY <1>9 DEF ForgetTakes, TakeAnd
  <1>10. CASE ForgetStops(u)
    BY <1>10 DEF ForgetStops, StopAnd
  <1>11. CASE ForgetLast(u)
    BY <1>11 DEF ForgetLast
  <1>12. CASE ForgetSaves(u)
    BY <1>12 DEF ForgetSaves
  <1>13. CASE SendspinOn(u)
    BY <1>13 DEF SendspinOn, Begin
  <1>14. CASE SendspinOff(u)
    BY <1>14 DEF SendspinOff, Begin
  <1>15. CASE SendspinTakes(u)
    BY <1>15 DEF SendspinTakes
  <1>16. CASE SendspinStops(u)
    BY <1>16 DEF SendspinStops, StopAnd
  <1>17. CASE SubmitPin(u)
    BY <1>17 DEF SubmitPin, Begin, Ceremony, DataOK
  <1> QED BY <1>1, <1>2, <1>3, <1>4, <1>5, <1>6, <1>7, <1>8, <1>9, <1>10, <1>11, <1>12,
           <1>13, <1>14, <1>15, <1>16, <1>17 DEF UserStep

\* A step of the drop watchdog keeps the ceremony and its thread together.
LEMMA WatchdogPin ==
  ASSUME PlacesOK, DataOK, PinInv, "watchdog" \in Background, WatchdogStep
  PROVE  PinInv'
  <1> USE ThreadFacts DEF PinInv, PlacesOK, PinSteps, Goto, flags
  <1>1. CASE WatchdogEnds
    BY <1>1 DEF WatchdogEnds
  <1>2. CASE WatchdogStops
    BY <1>2 DEF WatchdogStops, StopAnd
  <1>3. CASE WatchdogSees
    BY <1>3 DEF WatchdogSees, Select, Request, Session
  <1>4. CASE WatchdogWaits
    BY <1>4 DEF WatchdogWaits
  <1>5. CASE WatchdogConfirms
    BY <1>5 DEF WatchdogConfirms, StillDead, Session
  <1>6. CASE WatchdogAwaits
    BY <1>6 DEF WatchdogAwaits
  <1> QED BY <1>1, <1>2, <1>3, <1>4, <1>5, <1>6 DEF WatchdogStep

\* A step of auto-connect keeps the ceremony and its thread together.
LEMMA AutoPin ==
  ASSUME PlacesOK, DataOK, PinInv, "auto" \in Background, AutoSees \/ Reappears
  PROVE  PinInv'
  <1> USE ThreadFacts DEF PinInv, PlacesOK, PinSteps, Goto, flags
  <1>1. CASE AutoSees
    BY <1>1 DEF AutoSees, Select, Request
  <1>2. CASE Reappears
    BY <1>2 DEF Reappears
  <1> QED BY <1>1, <1>2

\* A step of the launch's keeps the ceremony and its thread together.
LEMMA LaunchPin ==
  ASSUME PlacesOK, DataOK, PinInv, "launch" \in Background, LaunchStep
  PROVE  PinInv'
  <1> USE ThreadFacts DEF PinInv, PlacesOK, PinSteps, Goto, flags
  <1>1. CASE LaunchSendspin
    BY <1>1 DEF LaunchSendspin
  <1>2. CASE LaunchPairSeen
    BY <1>2 DEF LaunchPairSeen
  <1>3. CASE LaunchPairPicks
    BY <1>3 DEF LaunchPairPicks, Select, Request
  <1> QED BY <1>1, <1>2, <1>3 DEF LaunchStep

\* A step of the ceremony keeps the ceremony and its thread together.
LEMMA PinPin ==
  ASSUME PlacesOK, DataOK, PinInv, "pin" \in Background, PinStep
  PROVE  PinInv'
  <1> USE ThreadFacts DEF PinInv, PlacesOK, PinSteps, Goto, flags
  <1>1. CASE PinShown
    BY <1>1 DEF PinShown, Ceremony, EndCeremony
  <1>2. CASE PinAnswered
    BY <1>2 DEF PinAnswered, EndCeremony
  <1>3. CASE PinClaims
    BY <1>3 DEF PinClaims
  <1>4. CASE PinPairs
    BY <1>4 DEF PinPairs, PinSetup, Select, Request, Ceremony
  <1>5. CASE PinSelects
    BY <1>5 DEF PinSelects
  <1> QED BY <1>1, <1>2, <1>3, <1>4, <1>5 DEF PinStep

\* A step of a select leaves the slot with the one thread that selects.
LEMMA ConnectSlot ==
  ASSUME PlacesOK, DataOK, PinInv, OneSelect, NEW t \in Threads, ConnectStep(t)
  PROVE  OneSelect'
  <1> USE ThreadFacts DEF OneSelect, PlacesOK, Connecting, Goto
  <1>1. CASE Claim(t)
    BY <1>1 DEF Claim, Home, Refused
  <1>2. CASE EnableForChoice(t)
    BY <1>2 DEF EnableForChoice
  <1>3. CASE GuardCeremony(t)
    BY <1>3 DEF GuardCeremony
  <1>4. CASE LookSame(t)
    BY <1>4 DEF LookSame
  <1>5. CASE TakeSame(t)
    BY <1>5 DEF TakeSame
  <1>6. CASE StopSame(t)
    BY <1>6 DEF StopSame
  <1>7. CASE BringUp(t)
    BY <1>7 DEF BringUp, Session
  <1>8. CASE BringUpFails(t)
    BY <1>8 DEF BringUpFails
  <1>9. CASE BringUpNeedsPin(t)
    BY <1>9 DEF BringUpNeedsPin, Ceremony
  <1>10. CASE Swap(t)
    BY <1>10 DEF Swap, Decide
  <1>11. CASE StopOld(t)
    BY <1>11 DEF StopOld
  <1>12. CASE DecideAfterStop(t)
    BY <1>12 DEF DecideAfterStop, Decide
  <1>13. CASE Discard(t)
    BY <1>13 DEF Discard
  <1>14. CASE Remember(t)
    BY <1>14 DEF Remember
  <1>15. CASE Save(t)
    BY <1>15 DEF Save
  <1>16. CASE Release(t)
    BY <1>16 DEF Release, Home
  <1> QED BY <1>1, <1>2, <1>3, <1>4, <1>5, <1>6, <1>7, <1>8, <1>9, <1>10, <1>11, <1>12,
           <1>13, <1>14, <1>15, <1>16 DEF ConnectStep

\* A step of the user's leaves the slot with the one thread that selects.
LEMMA UserSlot ==
  ASSUME PlacesOK, DataOK, PinInv, OneSelect, NEW u \in Users, UserStep(u)
  PROVE  OneSelect'
  <1> USE ThreadFacts DEF OneSelect, PlacesOK, Connecting, Goto
  <1>1. CASE Pick(u)
    BY <1>1 DEF Pick, Begin, Select, Request
  <1>2. CASE Disable(u)
    BY <1>2 DEF Disable, Begin
  <1>3. CASE DisableTakes(u)
    BY <1>3 DEF DisableTakes, TakeAnd
  <1>4. CASE DisableStops(u)
    BY <1>4 DEF DisableStops, StopAnd
  <1>5. CASE Enable(u)
    BY <1>5 DEF Enable, Begin
  <1>6. CASE EnableChecks(u)
    BY <1>6 DEF EnableChecks
  <1>7. CASE EnableReselects(u)
    BY <1>7 DEF EnableReselects, Select, Request
  <1>8. CASE Forget(u)
    BY <1>8 DEF Forget, Begin
  <1>9. CASE ForgetTakes(u)
    BY <1>9 DEF ForgetTakes, TakeAnd
  <1>10. CASE ForgetStops(u)
    BY <1>10 DEF ForgetStops, StopAnd
  <1>11. CASE ForgetLast(u)
    BY <1>11 DEF ForgetLast
  <1>12. CASE ForgetSaves(u)
    BY <1>12 DEF ForgetSaves
  <1>13. CASE SendspinOn(u)
    BY <1>13 DEF SendspinOn, Begin
  <1>14. CASE SendspinOff(u)
    BY <1>14 DEF SendspinOff, Begin
  <1>15. CASE SendspinTakes(u)
    BY <1>15 DEF SendspinTakes
  <1>16. CASE SendspinStops(u)
    BY <1>16 DEF SendspinStops, StopAnd
  <1>17. CASE SubmitPin(u)
    BY <1>17 DEF SubmitPin, Begin, Ceremony
  <1> QED BY <1>1, <1>2, <1>3, <1>4, <1>5, <1>6, <1>7, <1>8, <1>9, <1>10, <1>11, <1>12,
           <1>13, <1>14, <1>15, <1>16, <1>17 DEF UserStep

\* A step of the drop watchdog leaves the slot with the one thread that selects.
LEMMA WatchdogSlot ==
  ASSUME PlacesOK, DataOK, PinInv, OneSelect, "watchdog" \in Background, WatchdogStep
  PROVE  OneSelect'
  <1> USE ThreadFacts DEF OneSelect, PlacesOK, Connecting, Goto
  <1>1. CASE WatchdogEnds
    BY <1>1 DEF WatchdogEnds
  <1>2. CASE WatchdogStops
    BY <1>2 DEF WatchdogStops, StopAnd
  <1>3. CASE WatchdogSees
    BY <1>3 DEF WatchdogSees, Select, Request, Session
  <1>4. CASE WatchdogWaits
    BY <1>4 DEF WatchdogWaits
  <1>5. CASE WatchdogConfirms
    BY <1>5 DEF WatchdogConfirms, StillDead, Session
  <1>6. CASE WatchdogAwaits
    BY <1>6 DEF WatchdogAwaits
  <1> QED BY <1>1, <1>2, <1>3, <1>4, <1>5, <1>6 DEF WatchdogStep

\* A step of auto-connect leaves the slot with the one thread that selects.
LEMMA AutoSlot ==
  ASSUME PlacesOK, DataOK, PinInv, OneSelect, "auto" \in Background, AutoSees \/ Reappears
  PROVE  OneSelect'
  <1> USE ThreadFacts DEF OneSelect, PlacesOK, Connecting, Goto
  <1>1. CASE AutoSees
    BY <1>1 DEF AutoSees, Select, Request
  <1>2. CASE Reappears
    BY <1>2 DEF Reappears
  <1> QED BY <1>1, <1>2

\* A step of the launch's leaves the slot with the one thread that selects.
LEMMA LaunchSlot ==
  ASSUME PlacesOK, DataOK, PinInv, OneSelect, "launch" \in Background, LaunchStep
  PROVE  OneSelect'
  <1> USE ThreadFacts DEF OneSelect, PlacesOK, Connecting, Goto
  <1>1. CASE LaunchSendspin
    BY <1>1 DEF LaunchSendspin
  <1>2. CASE LaunchPairSeen
    BY <1>2 DEF LaunchPairSeen
  <1>3. CASE LaunchPairPicks
    BY <1>3 DEF LaunchPairPicks, Select, Request
  <1> QED BY <1>1, <1>2, <1>3 DEF LaunchStep

\* A step of the ceremony leaves the slot with the one thread that selects.
LEMMA PinSlot ==
  ASSUME PlacesOK, DataOK, PinInv, OneSelect, "pin" \in Background, PinStep
  PROVE  OneSelect'
  <1> USE ThreadFacts DEF OneSelect, PlacesOK, Connecting, Goto
  <1>1. CASE PinShown
    BY <1>1 DEF PinShown, Ceremony, EndCeremony
  <1>2. CASE PinAnswered
    BY <1>2 DEF PinAnswered, EndCeremony
  <1>3. CASE PinClaims
    BY <1>3 DEF PinClaims
  <1>4. CASE PinPairs
    BY <1>4 DEF PinPairs, PinSetup, Select, Request, Ceremony, PinSetup, PinInv,
             PinSteps
  <1>5. CASE PinSelects
    BY <1>5 DEF PinSelects
  <1> QED BY <1>1, <1>2, <1>3, <1>4, <1>5 DEF PinStep

\* The end of a swap binds only what both flags allow.
LEMMA DecideOff ==
  ASSUME PlacesOK, OffMeansUnbound, NEW t \in Threads, Decide(t),
         pc[t] \in {"swap", "decide"}, UNCHANGED <<streaming, sendspin>>
  PROVE  OffMeansUnbound'
  <1>1. CASE MayBind(made[t])
    BY <1>1 DEF Decide, MayBind, OffMeansUnbound
  <1>2. CASE ~MayBind(made[t])
    <2>1. session' = session /\ \A u \in Threads : u # t => pc'[u] = pc[u]
      BY <1>2 DEF Decide, Goto, PlacesOK
    <2> QED BY <2>1, ThreadFacts DEF OffMeansUnbound
  <1> QED BY <1>1, <1>2

\* A step of a select binds nothing that is switched off.
LEMMA ConnectOff ==
  ASSUME PlacesOK, DataOK, OffMeansUnbound, NEW t \in Threads, ConnectStep(t)
  PROVE  OffMeansUnbound'
  <1> USE ThreadFacts DEF OffMeansUnbound, PlacesOK, Goto, Take, flags
  <1>1. CASE Claim(t)
    BY <1>1 DEF Claim, Home
  <1>2. CASE EnableForChoice(t)
    BY <1>2 DEF EnableForChoice
  <1>3. CASE GuardCeremony(t)
    BY <1>3 DEF GuardCeremony
  <1>4. CASE LookSame(t)
    BY <1>4 DEF LookSame
  <1>5. CASE TakeSame(t)
    BY <1>5 DEF TakeSame
  <1>6. CASE StopSame(t)
    BY <1>6 DEF StopSame
  <1>7. CASE BringUp(t)
    BY <1>7 DEF BringUp, Session
  <1>8. CASE BringUpFails(t)
    BY <1>8 DEF BringUpFails
  <1>9. CASE BringUpNeedsPin(t)
    BY <1>9 DEF BringUpNeedsPin, Ceremony
  <1>10. CASE Swap(t)
    <2>1. CASE session # None
      BY <1>10, <2>1 DEF Swap
    <2>2. CASE session = None
      BY <1>10, <2>2, DecideOff DEF Swap
    <2> QED BY <2>1, <2>2
  <1>11. CASE StopOld(t)
    BY <1>11 DEF StopOld
  <1>12. CASE DecideAfterStop(t)
    BY <1>12, DecideOff DEF DecideAfterStop
  <1>13. CASE Discard(t)
    BY <1>13 DEF Discard
  <1>14. CASE Remember(t)
    BY <1>14 DEF Remember
  <1>15. CASE Save(t)
    BY <1>15 DEF Save
  <1>16. CASE Release(t)
    BY <1>16 DEF Release, Home, NoRequest, Select, Request
  <1> QED BY <1>1, <1>2, <1>3, <1>4, <1>5, <1>6, <1>7, <1>8, <1>9, <1>10, <1>11, <1>12,
           <1>13, <1>14, <1>15, <1>16 DEF ConnectStep

\* A step of the user's binds nothing that is switched off.
LEMMA UserOff ==
  ASSUME PlacesOK, DataOK, OffMeansUnbound, NEW u \in Users, UserStep(u)
  PROVE  OffMeansUnbound'
  <1> USE ThreadFacts DEF OffMeansUnbound, PlacesOK, Goto, Take, flags
  <1>1. CASE Pick(u)
    BY <1>1 DEF Pick, Begin, Select, Request
  <1>2. CASE Disable(u)
    BY <1>2 DEF Disable, Begin
  <1>3. CASE DisableTakes(u)
    BY <1>3 DEF DisableTakes, TakeAnd
  <1>4. CASE DisableStops(u)
    BY <1>4 DEF DisableStops, StopAnd
  <1>5. CASE Enable(u)
    BY <1>5 DEF Enable, Begin
  <1>6. CASE EnableChecks(u)
    BY <1>6 DEF EnableChecks
  <1>7. CASE EnableReselects(u)
    BY <1>7 DEF EnableReselects, Select, Request
  <1>8. CASE Forget(u)
    BY <1>8 DEF Forget, Begin
  <1>9. CASE ForgetTakes(u)
    BY <1>9 DEF ForgetTakes, TakeAnd
  <1>10. CASE ForgetStops(u)
    BY <1>10 DEF ForgetStops, StopAnd
  <1>11. CASE ForgetLast(u)
    BY <1>11 DEF ForgetLast
  <1>12. CASE ForgetSaves(u)
    BY <1>12 DEF ForgetSaves
  <1>13. CASE SendspinOn(u)
    BY <1>13 DEF SendspinOn, Begin
  <1>14. CASE SendspinOff(u)
    BY <1>14 DEF SendspinOff, Begin
  <1>15. CASE SendspinTakes(u)
    BY <1>15 DEF SendspinTakes
  <1>16. CASE SendspinStops(u)
    BY <1>16 DEF SendspinStops, StopAnd
  <1>17. CASE SubmitPin(u)
    BY <1>17 DEF SubmitPin, Begin, Ceremony
  <1> QED BY <1>1, <1>2, <1>3, <1>4, <1>5, <1>6, <1>7, <1>8, <1>9, <1>10, <1>11, <1>12,
           <1>13, <1>14, <1>15, <1>16, <1>17 DEF UserStep

\* A step of the drop watchdog binds nothing that is switched off.
LEMMA WatchdogOff ==
  ASSUME PlacesOK, DataOK, OffMeansUnbound, "watchdog" \in Background, WatchdogStep
  PROVE  OffMeansUnbound'
  <1> USE ThreadFacts DEF OffMeansUnbound, PlacesOK, Goto, Take, flags
  <1>1. CASE WatchdogEnds
    BY <1>1 DEF WatchdogEnds
  <1>2. CASE WatchdogStops
    BY <1>2 DEF WatchdogStops, StopAnd
  <1>3. CASE WatchdogSees
    BY <1>3 DEF WatchdogSees, Select, Request, Session
  <1>4. CASE WatchdogWaits
    BY <1>4 DEF WatchdogWaits
  <1>5. CASE WatchdogConfirms
    BY <1>5 DEF WatchdogConfirms, StillDead, Session
  <1>6. CASE WatchdogAwaits
    BY <1>6 DEF WatchdogAwaits
  <1> QED BY <1>1, <1>2, <1>3, <1>4, <1>5, <1>6 DEF WatchdogStep

\* A step of auto-connect binds nothing that is switched off.
LEMMA AutoOff ==
  ASSUME PlacesOK, DataOK, OffMeansUnbound, "auto" \in Background, AutoSees \/ Reappears
  PROVE  OffMeansUnbound'
  <1> USE ThreadFacts DEF OffMeansUnbound, PlacesOK, Goto, Take, flags
  <1>1. CASE AutoSees
    BY <1>1 DEF AutoSees, Select, Request
  <1>2. CASE Reappears
    BY <1>2 DEF Reappears
  <1> QED BY <1>1, <1>2

\* A step of the launch's binds nothing that is switched off.
LEMMA LaunchOff ==
  ASSUME PlacesOK, DataOK, OffMeansUnbound, "launch" \in Background, LaunchStep
  PROVE  OffMeansUnbound'
  <1> USE ThreadFacts DEF OffMeansUnbound, PlacesOK, Goto, Take, flags
  <1>1. CASE LaunchSendspin
    BY <1>1 DEF LaunchSendspin
  <1>2. CASE LaunchPairSeen
    BY <1>2 DEF LaunchPairSeen
  <1>3. CASE LaunchPairPicks
    BY <1>3 DEF LaunchPairPicks, Select, Request
  <1> QED BY <1>1, <1>2, <1>3 DEF LaunchStep

\* A step of the ceremony binds nothing that is switched off.
LEMMA PinOff ==
  ASSUME PlacesOK, DataOK, OffMeansUnbound, "pin" \in Background, PinStep
  PROVE  OffMeansUnbound'
  <1> USE ThreadFacts DEF OffMeansUnbound, PlacesOK, Goto, Take, flags
  <1>1. CASE PinShown
    BY <1>1 DEF PinShown, Ceremony, EndCeremony
  <1>2. CASE PinAnswered
    BY <1>2 DEF PinAnswered, EndCeremony
  <1>3. CASE PinClaims
    BY <1>3 DEF PinClaims
  <1>4. CASE PinPairs
    BY <1>4 DEF PinPairs, PinSetup, Select, Request, Ceremony
  <1>5. CASE PinSelects
    BY <1>5 DEF PinSelects
  <1> QED BY <1>1, <1>2, <1>3, <1>4, <1>5 DEF PinStep

\* A step of a select keeps the device being paired to the ceremony.
LEMMA ConnectAlone ==
  ASSUME PlacesOK, DataOK, PinInv, OneSelect, PairingAlone, NEW t \in Threads, ConnectStep(t)
  PROVE  PairingAlone'
  <1> USE ThreadFacts DEF PairingAlone, PlacesOK, Goto, flags, work
  <1>1. CASE Claim(t)
    BY <1>1 DEF Claim, Home
  <1>2. CASE EnableForChoice(t)
    BY <1>2 DEF EnableForChoice
  <1>3. CASE GuardCeremony(t)
    BY <1>3 DEF GuardCeremony, PairingNow
  <1>4. CASE LookSame(t)
    BY <1>4 DEF LookSame
  <1>5. CASE TakeSame(t)
    BY <1>5 DEF TakeSame
  <1>6. CASE StopSame(t)
    BY <1>6 DEF StopSame
  <1>7. CASE BringUp(t)
    BY <1>7 DEF BringUp, Session
  <1>8. CASE BringUpFails(t)
    BY <1>8 DEF BringUpFails
  <1>9. CASE BringUpNeedsPin(t)
    BY <1>9 DEF BringUpNeedsPin, Ceremony, DataOK, OneSelect, Connecting
  <1>10. CASE Swap(t)
    BY <1>10 DEF Swap, Decide
  <1>11. CASE StopOld(t)
    BY <1>11 DEF StopOld
  <1>12. CASE DecideAfterStop(t)
    BY <1>12 DEF DecideAfterStop, Decide
  <1>13. CASE Discard(t)
    BY <1>13 DEF Discard
  <1>14. CASE Remember(t)
    BY <1>14 DEF Remember
  <1>15. CASE Save(t)
    BY <1>15 DEF Save
  <1>16. CASE Release(t)
    BY <1>16 DEF Release, Home, NoRequest, Select, Request
  <1> QED BY <1>1, <1>2, <1>3, <1>4, <1>5, <1>6, <1>7, <1>8, <1>9, <1>10, <1>11, <1>12,
           <1>13, <1>14, <1>15, <1>16 DEF ConnectStep

\* A step of the user's keeps the device being paired to the ceremony.
LEMMA UserAlone ==
  ASSUME PlacesOK, DataOK, PinInv, OneSelect, PairingAlone, NEW u \in Users, UserStep(u)
  PROVE  PairingAlone'
  <1> USE ThreadFacts DEF PairingAlone, PlacesOK, Goto, flags, work
  <1>1. CASE Pick(u)
    BY <1>1 DEF Pick, Begin, Select, Request
  <1>2. CASE Disable(u)
    BY <1>2 DEF Disable, Begin
  <1>3. CASE DisableTakes(u)
    BY <1>3 DEF DisableTakes, TakeAnd
  <1>4. CASE DisableStops(u)
    BY <1>4 DEF DisableStops, StopAnd
  <1>5. CASE Enable(u)
    BY <1>5 DEF Enable, Begin
  <1>6. CASE EnableChecks(u)
    BY <1>6 DEF EnableChecks
  <1>7. CASE EnableReselects(u)
    <2>1. /\ \A s \in Threads : s # u => pc'[s] = pc[s] /\ req'[s] = req[s]
          /\ pc'[u] \in {"idle", "claim"} /\ ceremony' = ceremony
      BY <1>7 DEF EnableReselects, DataOK
    <2> QED BY <2>1
  <1>8. CASE Forget(u)
    BY <1>8 DEF Forget, Begin
  <1>9. CASE ForgetTakes(u)
    BY <1>9 DEF ForgetTakes, TakeAnd
  <1>10. CASE ForgetStops(u)
    BY <1>10 DEF ForgetStops, StopAnd
  <1>11. CASE ForgetLast(u)
    BY <1>11 DEF ForgetLast
  <1>12. CASE ForgetSaves(u)
    BY <1>12 DEF ForgetSaves
  <1>13. CASE SendspinOn(u)
    BY <1>13 DEF SendspinOn, Begin
  <1>14. CASE SendspinOff(u)
    BY <1>14 DEF SendspinOff, Begin
  <1>15. CASE SendspinTakes(u)
    BY <1>15 DEF SendspinTakes
  <1>16. CASE SendspinStops(u)
    BY <1>16 DEF SendspinStops, StopAnd
  <1>17. CASE SubmitPin(u)
    BY <1>17 DEF SubmitPin, Begin, Ceremony
  <1> QED BY <1>1, <1>2, <1>3, <1>4, <1>5, <1>6, <1>7, <1>8, <1>9, <1>10, <1>11, <1>12,
           <1>13, <1>14, <1>15, <1>16, <1>17 DEF UserStep

\* A step of the drop watchdog keeps the device being paired to the ceremony.
LEMMA WatchdogAlone ==
  ASSUME PlacesOK, DataOK, PinInv, OneSelect, PairingAlone, "watchdog" \in Background, WatchdogStep
  PROVE  PairingAlone'
  <1> USE ThreadFacts DEF PairingAlone, PlacesOK, Goto, flags, work
  <1>1. CASE WatchdogEnds
    BY <1>1 DEF WatchdogEnds
  <1>2. CASE WatchdogStops
    BY <1>2 DEF WatchdogStops, StopAnd
  <1>3. CASE WatchdogSees
    BY <1>3 DEF WatchdogSees, Select, Request, Session
  <1>4. CASE WatchdogWaits
    BY <1>4 DEF WatchdogWaits
  <1>5. CASE WatchdogConfirms
    BY <1>5 DEF WatchdogConfirms, StillDead, Session
  <1>6. CASE WatchdogAwaits
    BY <1>6 DEF WatchdogAwaits
  <1> QED BY <1>1, <1>2, <1>3, <1>4, <1>5, <1>6 DEF WatchdogStep

\* A step of auto-connect keeps the device being paired to the ceremony.
LEMMA AutoAlone ==
  ASSUME PlacesOK, DataOK, PinInv, OneSelect, PairingAlone, "auto" \in Background, AutoSees \/ Reappears
  PROVE  PairingAlone'
  <1> USE ThreadFacts DEF PairingAlone, PlacesOK, Goto, flags, work
  <1>1. CASE AutoSees
    BY <1>1 DEF AutoSees, Select, Request
  <1>2. CASE Reappears
    BY <1>2 DEF Reappears
  <1> QED BY <1>1, <1>2

\* A step of the launch's keeps the device being paired to the ceremony.
LEMMA LaunchAlone ==
  ASSUME PlacesOK, DataOK, PinInv, OneSelect, PairingAlone, "launch" \in Background, LaunchStep
  PROVE  PairingAlone'
  <1> USE ThreadFacts DEF PairingAlone, PlacesOK, Goto, flags, work
  <1>1. CASE LaunchSendspin
    BY <1>1 DEF LaunchSendspin
  <1>2. CASE LaunchPairSeen
    BY <1>2 DEF LaunchPairSeen
  <1>3. CASE LaunchPairPicks
    BY <1>3 DEF LaunchPairPicks, Select, Request
  <1> QED BY <1>1, <1>2, <1>3 DEF LaunchStep

\* A step of the ceremony keeps the device being paired to the ceremony.
LEMMA PinAlone ==
  ASSUME PlacesOK, DataOK, PinInv, OneSelect, PairingAlone, "pin" \in Background, PinStep
  PROVE  PairingAlone'
  <1> USE ThreadFacts DEF PairingAlone, PlacesOK, Goto, flags, work
  <1>1. CASE PinShown
    <2>1. ceremony \in Ceremony /\ req' = req
      BY <1>1, "pin" \in Threads DEF PinShown, PinInv, PinSteps
    <2>2. /\ \A s \in Threads : s # "pin" => pc'[s] = pc[s]
          /\ pc'["pin"] \in {"pinAwait", "idle"}
      BY <1>1 DEF PinShown, EndCeremony
    <2>3. ceremony' = None \/ ceremony'.id = ceremony.id
      BY <1>1, <2>1 DEF PinShown, EndCeremony, Ceremony
    <2>4. CASE ceremony' = None
      BY <2>4
    <2>6. ceremony # None
      BY <2>1, NoneAssumption
    <2>5. CASE ceremony'.id = ceremony.id
      BY <2>1, <2>2, <2>5, <2>6, "pin" \in Threads DEF PinInv, PinSteps
    <2> QED BY <2>3, <2>4, <2>5
  <1>2. CASE PinAnswered
    BY <1>2 DEF PinAnswered, EndCeremony
  <1>3. CASE PinClaims
    BY <1>3 DEF PinClaims
  <1>4. CASE PinPairs
    BY <1>4 DEF PinPairs, PinSetup, Select, Request, Ceremony
  <1>5. CASE PinSelects
    BY <1>5 DEF PinSelects
  <1> QED BY <1>1, <1>2, <1>3, <1>4, <1>5 DEF PinStep

-----------------------------------------------------------------------------
(* Whose session a select may meet.                                        *)

\* Only the thread that holds the slot binds, so what it has found it keeps:
\* after it has stopped the old session, and for an automatic connect from its
\* claim on, nothing is bound.
DecideInv == \A t \in Threads : pc[t] \in {"stopOld", "decide"} => session = None
AutoInv == "auto" \in Threads =>
    /\ pc["auto"] \in Connecting \cup {"claim"} => req["auto"].onlyIfIdle
    /\ pc["auto"] \in {"enable", "guard", "same", "bring", "swap"} => session = None
    /\ pc["auto"] \notin {"takeSame", "stopSame", "stopOld"}

\* A session of a user's making means that the user has picked ...
PickedInv ==
    /\ \A u \in Users : pc[u] \in Connecting \cup {"claim"} => picked
    /\ \A t \in Threads : made[t] # None => made[t].by = t
    /\ session # None /\ session.by \in Users => picked

\* ... and so the reconnect at launch, refused by a pick, meets none.
LaunchInv == "launch" \in Threads =>
    /\ pc["launch"] \in Connecting \cup {"claim", "laWait"} =>
            req["launch"].choice \/ req["launch"].unlessPicked
    /\ pc["launch"] \in Connecting /\ ~req["launch"].choice =>
            ~(session # None /\ session.by \in Users)
    /\ old["launch"] # None /\ ~req["launch"].choice => old["launch"].by \notin Users
    /\ old["launch"] # None => pc["launch"] \in {"stopSame", "stopOld"}

\* A step of a select binds nothing behind a select that has cleared the way.
LEMMA ConnectDecides ==
  ASSUME PlacesOK, DataOK, OneSelect, DecideInv, NEW t \in Threads, ConnectStep(t)
  PROVE  DecideInv'
  <1> USE ThreadFacts DEF DecideInv, PlacesOK, OneSelect, Connecting, Goto, Take, flags
  <1>1. CASE Claim(t)
    BY <1>1 DEF Claim, Home
  <1>2. CASE EnableForChoice(t)
    BY <1>2 DEF EnableForChoice
  <1>3. CASE GuardCeremony(t)
    BY <1>3 DEF GuardCeremony
  <1>4. CASE LookSame(t)
    BY <1>4 DEF LookSame
  <1>5. CASE TakeSame(t)
    BY <1>5 DEF TakeSame
  <1>6. CASE StopSame(t)
    BY <1>6 DEF StopSame
  <1>7. CASE BringUp(t)
    BY <1>7 DEF BringUp, Session
  <1>8. CASE BringUpFails(t)
    BY <1>8 DEF BringUpFails
  <1>9. CASE BringUpNeedsPin(t)
    BY <1>9 DEF BringUpNeedsPin, Ceremony
  <1>10. CASE Swap(t)
    BY <1>10 DEF Swap, Decide
  <1>11. CASE StopOld(t)
    BY <1>11 DEF StopOld
  <1>12. CASE DecideAfterStop(t)
    BY <1>12 DEF DecideAfterStop, Decide
  <1>13. CASE Discard(t)
    BY <1>13 DEF Discard
  <1>14. CASE Remember(t)
    BY <1>14 DEF Remember
  <1>15. CASE Save(t)
    BY <1>15 DEF Save
  <1>16. CASE Release(t)
    BY <1>16 DEF Release, Home, NoRequest, Select, Request
  <1> QED BY <1>1, <1>2, <1>3, <1>4, <1>5, <1>6, <1>7, <1>8, <1>9, <1>10, <1>11, <1>12,
           <1>13, <1>14, <1>15, <1>16 DEF ConnectStep

\* A step of the user's binds nothing behind a select that has cleared the way.
LEMMA UserDecides ==
  ASSUME PlacesOK, DataOK, OneSelect, DecideInv, NEW u \in Users, UserStep(u)
  PROVE  DecideInv'
  <1> USE ThreadFacts DEF DecideInv, PlacesOK, OneSelect, Connecting, Goto, Take, flags
  <1>1. CASE Pick(u)
    BY <1>1 DEF Pick, Begin, Select, Request
  <1>2. CASE Disable(u)
    BY <1>2 DEF Disable, Begin
  <1>3. CASE DisableTakes(u)
    BY <1>3 DEF DisableTakes, TakeAnd
  <1>4. CASE DisableStops(u)
    BY <1>4 DEF DisableStops, StopAnd
  <1>5. CASE Enable(u)
    BY <1>5 DEF Enable, Begin
  <1>6. CASE EnableChecks(u)
    BY <1>6 DEF EnableChecks
  <1>7. CASE EnableReselects(u)
    BY <1>7 DEF EnableReselects, Select, Request
  <1>8. CASE Forget(u)
    BY <1>8 DEF Forget, Begin
  <1>9. CASE ForgetTakes(u)
    BY <1>9 DEF ForgetTakes, TakeAnd
  <1>10. CASE ForgetStops(u)
    BY <1>10 DEF ForgetStops, StopAnd
  <1>11. CASE ForgetLast(u)
    BY <1>11 DEF ForgetLast
  <1>12. CASE ForgetSaves(u)
    BY <1>12 DEF ForgetSaves
  <1>13. CASE SendspinOn(u)
    BY <1>13 DEF SendspinOn, Begin
  <1>14. CASE SendspinOff(u)
    BY <1>14 DEF SendspinOff, Begin
  <1>15. CASE SendspinTakes(u)
    BY <1>15 DEF SendspinTakes
  <1>16. CASE SendspinStops(u)
    BY <1>16 DEF SendspinStops, StopAnd
  <1>17. CASE SubmitPin(u)
    BY <1>17 DEF SubmitPin, Begin, Ceremony
  <1> QED BY <1>1, <1>2, <1>3, <1>4, <1>5, <1>6, <1>7, <1>8, <1>9, <1>10, <1>11, <1>12,
           <1>13, <1>14, <1>15, <1>16, <1>17 DEF UserStep

\* A step of the drop watchdog binds nothing behind a select that has cleared the way.
LEMMA WatchdogDecides ==
  ASSUME PlacesOK, DataOK, OneSelect, DecideInv, "watchdog" \in Background, WatchdogStep
  PROVE  DecideInv'
  <1> USE ThreadFacts DEF DecideInv, PlacesOK, OneSelect, Connecting, Goto, Take, flags
  <1>1. CASE WatchdogEnds
    BY <1>1 DEF WatchdogEnds
  <1>2. CASE WatchdogStops
    BY <1>2 DEF WatchdogStops, StopAnd
  <1>3. CASE WatchdogSees
    BY <1>3 DEF WatchdogSees, Select, Request, Session
  <1>4. CASE WatchdogWaits
    BY <1>4 DEF WatchdogWaits
  <1>5. CASE WatchdogConfirms
    BY <1>5 DEF WatchdogConfirms, StillDead, Session
  <1>6. CASE WatchdogAwaits
    BY <1>6 DEF WatchdogAwaits
  <1> QED BY <1>1, <1>2, <1>3, <1>4, <1>5, <1>6 DEF WatchdogStep

\* A step of auto-connect binds nothing behind a select that has cleared the way.
LEMMA AutoDecides ==
  ASSUME PlacesOK, DataOK, OneSelect, DecideInv, "auto" \in Background, AutoSees \/ Reappears
  PROVE  DecideInv'
  <1> USE ThreadFacts DEF DecideInv, PlacesOK, OneSelect, Connecting, Goto, Take, flags
  <1>1. CASE AutoSees
    BY <1>1 DEF AutoSees, Select, Request
  <1>2. CASE Reappears
    BY <1>2 DEF Reappears
  <1> QED BY <1>1, <1>2

\* A step of the launch's binds nothing behind a select that has cleared the way.
LEMMA LaunchDecides ==
  ASSUME PlacesOK, DataOK, OneSelect, DecideInv, "launch" \in Background, LaunchStep
  PROVE  DecideInv'
  <1> USE ThreadFacts DEF DecideInv, PlacesOK, OneSelect, Connecting, Goto, Take, flags
  <1>1. CASE LaunchSendspin
    BY <1>1 DEF LaunchSendspin
  <1>2. CASE LaunchPairSeen
    BY <1>2 DEF LaunchPairSeen
  <1>3. CASE LaunchPairPicks
    BY <1>3 DEF LaunchPairPicks, Select, Request
  <1> QED BY <1>1, <1>2, <1>3 DEF LaunchStep

\* A step of the ceremony binds nothing behind a select that has cleared the way.
LEMMA PinDecides ==
  ASSUME PlacesOK, DataOK, OneSelect, DecideInv, "pin" \in Background, PinStep
  PROVE  DecideInv'
  <1> USE ThreadFacts DEF DecideInv, PlacesOK, OneSelect, Connecting, Goto, Take, flags
  <1>1. CASE PinShown
    BY <1>1 DEF PinShown, Ceremony, EndCeremony
  <1>2. CASE PinAnswered
    BY <1>2 DEF PinAnswered, EndCeremony
  <1>3. CASE PinClaims
    BY <1>3 DEF PinClaims
  <1>4. CASE PinPairs
    BY <1>4 DEF PinPairs, PinSetup, Select, Request, Ceremony
  <1>5. CASE PinSelects
    BY <1>5 DEF PinSelects
  <1> QED BY <1>1, <1>2, <1>3, <1>4, <1>5 DEF PinStep

\* A step of a select leaves an automatic connect nothing to end.
LEMMA ConnectAuto ==
  ASSUME PlacesOK, DataOK, OneSelect, DecideInv, AutoInv, NEW t \in Threads, ConnectStep(t)
  PROVE  AutoInv'
  <1> USE ThreadFacts DEF AutoInv, PlacesOK, OneSelect, Connecting, Goto, Take, flags,
           work
  <1>1. CASE Claim(t)
    BY <1>1 DEF Claim, Home, Refused
  <1>2. CASE EnableForChoice(t)
    BY <1>2 DEF EnableForChoice
  <1>3. CASE GuardCeremony(t)
    BY <1>3 DEF GuardCeremony
  <1>4. CASE LookSame(t)
    BY <1>4 DEF LookSame
  <1>5. CASE TakeSame(t)
    BY <1>5 DEF TakeSame
  <1>6. CASE StopSame(t)
    BY <1>6 DEF StopSame
  <1>7. CASE BringUp(t)
    BY <1>7 DEF BringUp, Session
  <1>8. CASE BringUpFails(t)
    BY <1>8 DEF BringUpFails
  <1>9. CASE BringUpNeedsPin(t)
    BY <1>9 DEF BringUpNeedsPin, Ceremony
  <1>10. CASE Swap(t)
    BY <1>10 DEF Swap, Decide
  <1>11. CASE StopOld(t)
    BY <1>11 DEF StopOld
  <1>12. CASE DecideAfterStop(t)
    BY <1>12 DEF DecideAfterStop, Decide
  <1>13. CASE Discard(t)
    BY <1>13 DEF Discard
  <1>14. CASE Remember(t)
    BY <1>14 DEF Remember
  <1>15. CASE Save(t)
    BY <1>15 DEF Save
  <1>16. CASE Release(t)
    BY <1>16 DEF Release, Home, NoRequest, Select, Request
  <1> QED BY <1>1, <1>2, <1>3, <1>4, <1>5, <1>6, <1>7, <1>8, <1>9, <1>10, <1>11, <1>12,
           <1>13, <1>14, <1>15, <1>16 DEF ConnectStep

\* A step of the user's leaves an automatic connect nothing to end.
LEMMA UserAuto ==
  ASSUME PlacesOK, DataOK, OneSelect, DecideInv, AutoInv, NEW u \in Users, UserStep(u)
  PROVE  AutoInv'
  <1> USE ThreadFacts DEF AutoInv, PlacesOK, OneSelect, Connecting, Goto, Take, flags,
           work
  <1>1. CASE Pick(u)
    BY <1>1 DEF Pick, Begin, Select, Request
  <1>2. CASE Disable(u)
    BY <1>2 DEF Disable, Begin
  <1>3. CASE DisableTakes(u)
    BY <1>3 DEF DisableTakes, TakeAnd
  <1>4. CASE DisableStops(u)
    BY <1>4 DEF DisableStops, StopAnd
  <1>5. CASE Enable(u)
    BY <1>5 DEF Enable, Begin
  <1>6. CASE EnableChecks(u)
    BY <1>6 DEF EnableChecks
  <1>7. CASE EnableReselects(u)
    <2>1. /\ \A s \in Threads : s # u => pc'[s] = pc[s] /\ req'[s] = req[s]
          /\ session' = session
      BY <1>7 DEF EnableReselects, DataOK
    <2> QED BY <2>1
  <1>8. CASE Forget(u)
    BY <1>8 DEF Forget, Begin
  <1>9. CASE ForgetTakes(u)
    BY <1>9 DEF ForgetTakes, TakeAnd
  <1>10. CASE ForgetStops(u)
    BY <1>10 DEF ForgetStops, StopAnd
  <1>11. CASE ForgetLast(u)
    BY <1>11 DEF ForgetLast
  <1>12. CASE ForgetSaves(u)
    BY <1>12 DEF ForgetSaves
  <1>13. CASE SendspinOn(u)
    BY <1>13 DEF SendspinOn, Begin
  <1>14. CASE SendspinOff(u)
    BY <1>14 DEF SendspinOff, Begin
  <1>15. CASE SendspinTakes(u)
    BY <1>15 DEF SendspinTakes
  <1>16. CASE SendspinStops(u)
    BY <1>16 DEF SendspinStops, StopAnd
  <1>17. CASE SubmitPin(u)
    BY <1>17 DEF SubmitPin, Begin, Ceremony
  <1> QED BY <1>1, <1>2, <1>3, <1>4, <1>5, <1>6, <1>7, <1>8, <1>9, <1>10, <1>11, <1>12,
           <1>13, <1>14, <1>15, <1>16, <1>17 DEF UserStep

\* A step of the drop watchdog leaves an automatic connect nothing to end.
LEMMA WatchdogAuto ==
  ASSUME PlacesOK, DataOK, OneSelect, DecideInv, AutoInv, "watchdog" \in Background, WatchdogStep
  PROVE  AutoInv'
  <1> USE ThreadFacts DEF AutoInv, PlacesOK, OneSelect, Connecting, Goto, Take, flags,
           work
  <1>1. CASE WatchdogEnds
    BY <1>1 DEF WatchdogEnds
  <1>2. CASE WatchdogStops
    BY <1>2 DEF WatchdogStops, StopAnd
  <1>3. CASE WatchdogSees
    BY <1>3 DEF WatchdogSees, Select, Request, Session
  <1>4. CASE WatchdogWaits
    BY <1>4 DEF WatchdogWaits
  <1>5. CASE WatchdogConfirms
    BY <1>5 DEF WatchdogConfirms, StillDead, Session
  <1>6. CASE WatchdogAwaits
    BY <1>6 DEF WatchdogAwaits
  <1> QED BY <1>1, <1>2, <1>3, <1>4, <1>5, <1>6 DEF WatchdogStep

\* A step of auto-connect leaves an automatic connect nothing to end.
LEMMA AutoAuto ==
  ASSUME PlacesOK, DataOK, OneSelect, DecideInv, AutoInv, "auto" \in Background, AutoSees \/ Reappears
  PROVE  AutoInv'
  <1> USE ThreadFacts DEF AutoInv, PlacesOK, OneSelect, Connecting, Goto, Take, flags,
           work
  <1>1. CASE AutoSees
    <2>1. pc["auto"] = "idle" /\ pc'["auto"] = "claim"
      BY <1>1 DEF AutoSees
    <2>2. req'["auto"].onlyIfIdle
      <3>1. \A id : [Select(id, FALSE, FALSE) EXCEPT !.onlyIfIdle = TRUE].onlyIfIdle
        BY DEF Select
      <3> QED BY <1>1, <3>1 DEF AutoSees, DataOK
    <2> QED BY <2>1, <2>2
  <1>2. CASE Reappears
    BY <1>2 DEF Reappears
  <1> QED BY <1>1, <1>2

\* A step of the launch's leaves an automatic connect nothing to end.
LEMMA LaunchAuto ==
  ASSUME PlacesOK, DataOK, OneSelect, DecideInv, AutoInv, "launch" \in Background, LaunchStep
  PROVE  AutoInv'
  <1> USE ThreadFacts DEF AutoInv, PlacesOK, OneSelect, Connecting, Goto, Take, flags,
           work
  <1>1. CASE LaunchSendspin
    BY <1>1 DEF LaunchSendspin
  <1>2. CASE LaunchPairSeen
    BY <1>2 DEF LaunchPairSeen
  <1>3. CASE LaunchPairPicks
    BY <1>3 DEF LaunchPairPicks, Select, Request
  <1> QED BY <1>1, <1>2, <1>3 DEF LaunchStep

\* A step of the ceremony leaves an automatic connect nothing to end.
LEMMA PinAuto ==
  ASSUME PlacesOK, DataOK, OneSelect, DecideInv, AutoInv, "pin" \in Background, PinStep
  PROVE  AutoInv'
  <1> USE ThreadFacts DEF AutoInv, PlacesOK, OneSelect, Connecting, Goto, Take, flags,
           work
  <1>1. CASE PinShown
    BY <1>1 DEF PinShown, Ceremony, EndCeremony
  <1>2. CASE PinAnswered
    BY <1>2 DEF PinAnswered, EndCeremony
  <1>3. CASE PinClaims
    BY <1>3 DEF PinClaims
  <1>4. CASE PinPairs
    <2>1. /\ \A s \in Threads : s # "pin" => pc'[s] = pc[s] /\ req'[s] = req[s]
          /\ session' = session
      BY <1>4 DEF PinPairs, PinSetup, DataOK
    <2> QED BY <2>1
  <1>5. CASE PinSelects
    BY <1>5 DEF PinSelects
  <1> QED BY <1>1, <1>2, <1>3, <1>4, <1>5 DEF PinStep

\* A step of a select counts a user's pick before the select it makes.
LEMMA ConnectPicked ==
  ASSUME PlacesOK, DataOK, PickedInv, NEW t \in Threads, ConnectStep(t)
  PROVE  PickedInv'
  <1> USE ThreadFacts DEF PickedInv, PlacesOK, DataOK, Connecting, Goto, Take, flags,
           work
  <1>1. CASE Claim(t)
    BY <1>1 DEF Claim, Home
  <1>2. CASE EnableForChoice(t)
    BY <1>2 DEF EnableForChoice
  <1>3. CASE GuardCeremony(t)
    BY <1>3 DEF GuardCeremony
  <1>4. CASE LookSame(t)
    BY <1>4 DEF LookSame
  <1>5. CASE TakeSame(t)
    BY <1>5 DEF TakeSame
  <1>6. CASE StopSame(t)
    BY <1>6 DEF StopSame
  <1>7. CASE BringUp(t)
    BY <1>7 DEF BringUp, Session
  <1>8. CASE BringUpFails(t)
    BY <1>8 DEF BringUpFails
  <1>9. CASE BringUpNeedsPin(t)
    BY <1>9 DEF BringUpNeedsPin, Ceremony
  <1>10. CASE Swap(t)
    BY <1>10 DEF Swap, Decide
  <1>11. CASE StopOld(t)
    BY <1>11 DEF StopOld
  <1>12. CASE DecideAfterStop(t)
    BY <1>12 DEF DecideAfterStop, Decide
  <1>13. CASE Discard(t)
    BY <1>13 DEF Discard
  <1>14. CASE Remember(t)
    BY <1>14 DEF Remember
  <1>15. CASE Save(t)
    BY <1>15 DEF Save
  <1>16. CASE Release(t)
    BY <1>16 DEF Release, Home, NoRequest, Select, Request
  <1> QED BY <1>1, <1>2, <1>3, <1>4, <1>5, <1>6, <1>7, <1>8, <1>9, <1>10, <1>11, <1>12,
           <1>13, <1>14, <1>15, <1>16 DEF ConnectStep

\* A step of the user's counts a user's pick before the select it makes.
LEMMA UserPicked ==
  ASSUME PlacesOK, DataOK, PickedInv, NEW u \in Users, UserStep(u)
  PROVE  PickedInv'
  <1> USE ThreadFacts DEF PickedInv, PlacesOK, DataOK, Connecting, Goto, Take, flags,
           work
  <1>1. CASE Pick(u)
    BY <1>1 DEF Pick, Begin, Select, Request
  <1>2. CASE Disable(u)
    BY <1>2 DEF Disable, Begin
  <1>3. CASE DisableTakes(u)
    BY <1>3 DEF DisableTakes, TakeAnd
  <1>4. CASE DisableStops(u)
    BY <1>4 DEF DisableStops, StopAnd
  <1>5. CASE Enable(u)
    BY <1>5 DEF Enable, Begin
  <1>6. CASE EnableChecks(u)
    BY <1>6 DEF EnableChecks
  <1>7. CASE EnableReselects(u)
    BY <1>7 DEF EnableReselects, Select, Request
  <1>8. CASE Forget(u)
    BY <1>8 DEF Forget, Begin
  <1>9. CASE ForgetTakes(u)
    BY <1>9 DEF ForgetTakes, TakeAnd
  <1>10. CASE ForgetStops(u)
    BY <1>10 DEF ForgetStops, StopAnd
  <1>11. CASE ForgetLast(u)
    BY <1>11 DEF ForgetLast
  <1>12. CASE ForgetSaves(u)
    BY <1>12 DEF ForgetSaves
  <1>13. CASE SendspinOn(u)
    BY <1>13 DEF SendspinOn, Begin
  <1>14. CASE SendspinOff(u)
    BY <1>14 DEF SendspinOff, Begin
  <1>15. CASE SendspinTakes(u)
    BY <1>15 DEF SendspinTakes
  <1>16. CASE SendspinStops(u)
    BY <1>16 DEF SendspinStops, StopAnd
  <1>17. CASE SubmitPin(u)
    BY <1>17 DEF SubmitPin, Begin, Ceremony
  <1> QED BY <1>1, <1>2, <1>3, <1>4, <1>5, <1>6, <1>7, <1>8, <1>9, <1>10, <1>11, <1>12,
           <1>13, <1>14, <1>15, <1>16, <1>17 DEF UserStep

\* A step of the drop watchdog counts a user's pick before the select it makes.
LEMMA WatchdogPicked ==
  ASSUME PlacesOK, DataOK, PickedInv, "watchdog" \in Background, WatchdogStep
  PROVE  PickedInv'
  <1> USE ThreadFacts DEF PickedInv, PlacesOK, DataOK, Connecting, Goto, Take, flags,
           work
  <1>1. CASE WatchdogEnds
    BY <1>1 DEF WatchdogEnds
  <1>2. CASE WatchdogStops
    BY <1>2 DEF WatchdogStops, StopAnd
  <1>3. CASE WatchdogSees
    BY <1>3 DEF WatchdogSees, Select, Request, Session
  <1>4. CASE WatchdogWaits
    BY <1>4 DEF WatchdogWaits
  <1>5. CASE WatchdogConfirms
    BY <1>5 DEF WatchdogConfirms, StillDead, Session
  <1>6. CASE WatchdogAwaits
    BY <1>6 DEF WatchdogAwaits
  <1> QED BY <1>1, <1>2, <1>3, <1>4, <1>5, <1>6 DEF WatchdogStep

\* A step of auto-connect counts a user's pick before the select it makes.
LEMMA AutoPicked ==
  ASSUME PlacesOK, DataOK, PickedInv, "auto" \in Background, AutoSees \/ Reappears
  PROVE  PickedInv'
  <1> USE ThreadFacts DEF PickedInv, PlacesOK, DataOK, Connecting, Goto, Take, flags,
           work
  <1>1. CASE AutoSees
    BY <1>1 DEF AutoSees, Select, Request
  <1>2. CASE Reappears
    BY <1>2 DEF Reappears
  <1> QED BY <1>1, <1>2

\* A step of the launch's counts a user's pick before the select it makes.
LEMMA LaunchPicked ==
  ASSUME PlacesOK, DataOK, PickedInv, "launch" \in Background, LaunchStep
  PROVE  PickedInv'
  <1> USE ThreadFacts DEF PickedInv, PlacesOK, DataOK, Connecting, Goto, Take, flags,
           work
  <1>1. CASE LaunchSendspin
    BY <1>1 DEF LaunchSendspin
  <1>2. CASE LaunchPairSeen
    BY <1>2 DEF LaunchPairSeen
  <1>3. CASE LaunchPairPicks
    BY <1>3 DEF LaunchPairPicks, Select, Request
  <1> QED BY <1>1, <1>2, <1>3 DEF LaunchStep

\* A step of the ceremony counts a user's pick before the select it makes.
LEMMA PinPicked ==
  ASSUME PlacesOK, DataOK, PickedInv, "pin" \in Background, PinStep
  PROVE  PickedInv'
  <1> USE ThreadFacts DEF PickedInv, PlacesOK, DataOK, Connecting, Goto, Take, flags,
           work
  <1>1. CASE PinShown
    BY <1>1 DEF PinShown, Ceremony, EndCeremony
  <1>2. CASE PinAnswered
    BY <1>2 DEF PinAnswered, EndCeremony
  <1>3. CASE PinClaims
    BY <1>3 DEF PinClaims
  <1>4. CASE PinPairs
    BY <1>4 DEF PinPairs, PinSetup, Select, Request, Ceremony
  <1>5. CASE PinSelects
    BY <1>5 DEF PinSelects
  <1> QED BY <1>1, <1>2, <1>3, <1>4, <1>5 DEF PinStep

\* What a user made is bound only by the user's thread.
LEMMA DecideLaunch ==
  ASSUME PlacesOK, DataOK, OneSelect, PickedInv, LaunchInv, NEW t \in Threads, Decide(t),
         pc[t] \in {"swap", "decide"}, UNCHANGED <<req, old>>
  PROVE  LaunchInv'
  <1> USE ThreadFacts DEF LaunchInv, PickedInv, PlacesOK, OneSelect, Connecting, Goto
  <1>1. CASE MayBind(made[t])
    BY <1>1 DEF Decide
  <1>2. CASE ~MayBind(made[t])
    BY <1>2 DEF Decide
  <1> QED BY <1>1, <1>2

\* A step of a select shows the launch no session of a user.
LEMMA ConnectLaunch ==
  ASSUME PlacesOK, DataOK, OneSelect, DecideInv, PickedInv, LaunchInv, NEW t \in Threads, ConnectStep(t)
  PROVE  LaunchInv'
  <1> USE ThreadFacts DEF LaunchInv, PlacesOK, DataOK, OneSelect, Connecting, Goto,
           Take, flags, work
  <1>1. CASE Claim(t)
    BY <1>1 DEF Claim, Home, Refused, PickedInv
  <1>2. CASE EnableForChoice(t)
    BY <1>2 DEF EnableForChoice
  <1>3. CASE GuardCeremony(t)
    BY <1>3 DEF GuardCeremony
  <1>4. CASE LookSame(t)
    BY <1>4 DEF LookSame
  <1>5. CASE TakeSame(t)
    BY <1>5 DEF TakeSame
  <1>6. CASE StopSame(t)
    BY <1>6 DEF StopSame
  <1>7. CASE BringUp(t)
    BY <1>7 DEF BringUp, Session
  <1>8. CASE BringUpFails(t)
    BY <1>8 DEF BringUpFails
  <1>9. CASE BringUpNeedsPin(t)
    BY <1>9 DEF BringUpNeedsPin, Ceremony
  <1>10. CASE Swap(t)
    <2>1. CASE session # None
      BY <1>10, <2>1 DEF Swap
    <2>2. CASE session = None
      BY <1>10, <2>2, DecideLaunch DEF Swap
    <2> QED BY <2>1, <2>2
  <1>11. CASE StopOld(t)
    BY <1>11 DEF StopOld
  <1>12. CASE DecideAfterStop(t)
    BY <1>12, DecideLaunch DEF DecideAfterStop
  <1>13. CASE Discard(t)
    BY <1>13 DEF Discard
  <1>14. CASE Remember(t)
    BY <1>14 DEF Remember
  <1>15. CASE Save(t)
    BY <1>15 DEF Save
  <1>16. CASE Release(t)
    BY <1>16 DEF Release, Home, NoRequest, Select, Request
  <1> QED BY <1>1, <1>2, <1>3, <1>4, <1>5, <1>6, <1>7, <1>8, <1>9, <1>10, <1>11, <1>12,
           <1>13, <1>14, <1>15, <1>16 DEF ConnectStep

\* A step of the user's shows the launch no session of a user.
LEMMA UserLaunch ==
  ASSUME PlacesOK, DataOK, OneSelect, DecideInv, PickedInv, LaunchInv, NEW u \in Users, UserStep(u)
  PROVE  LaunchInv'
  <1> USE ThreadFacts DEF LaunchInv, PlacesOK, DataOK, OneSelect, Connecting, Goto,
           Take, flags, work
  <1>1. CASE Pick(u)
    BY <1>1 DEF Pick, Begin, Select, Request
  <1>2. CASE Disable(u)
    BY <1>2 DEF Disable, Begin
  <1>3. CASE DisableTakes(u)
    BY <1>3 DEF DisableTakes, TakeAnd
  <1>4. CASE DisableStops(u)
    BY <1>4 DEF DisableStops, StopAnd
  <1>5. CASE Enable(u)
    BY <1>5 DEF Enable, Begin
  <1>6. CASE EnableChecks(u)
    BY <1>6 DEF EnableChecks
  <1>7. CASE EnableReselects(u)
    BY <1>7 DEF EnableReselects, Select, Request
  <1>8. CASE Forget(u)
    BY <1>8 DEF Forget, Begin
  <1>9. CASE ForgetTakes(u)
    BY <1>9 DEF ForgetTakes, TakeAnd
  <1>10. CASE ForgetStops(u)
    BY <1>10 DEF ForgetStops, StopAnd
  <1>11. CASE ForgetLast(u)
    BY <1>11 DEF ForgetLast
  <1>12. CASE ForgetSaves(u)
    BY <1>12 DEF ForgetSaves
  <1>13. CASE SendspinOn(u)
    BY <1>13 DEF SendspinOn, Begin
  <1>14. CASE SendspinOff(u)
    BY <1>14 DEF SendspinOff, Begin
  <1>15. CASE SendspinTakes(u)
    BY <1>15 DEF SendspinTakes
  <1>16. CASE SendspinStops(u)
    BY <1>16 DEF SendspinStops, StopAnd
  <1>17. CASE SubmitPin(u)
    BY <1>17 DEF SubmitPin, Begin, Ceremony
  <1> QED BY <1>1, <1>2, <1>3, <1>4, <1>5, <1>6, <1>7, <1>8, <1>9, <1>10, <1>11, <1>12,
           <1>13, <1>14, <1>15, <1>16, <1>17 DEF UserStep

\* A step of the drop watchdog shows the launch no session of a user.
LEMMA WatchdogLaunch ==
  ASSUME PlacesOK, DataOK, OneSelect, DecideInv, PickedInv, LaunchInv, "watchdog" \in Background, WatchdogStep
  PROVE  LaunchInv'
  <1> USE ThreadFacts DEF LaunchInv, PlacesOK, DataOK, OneSelect, Connecting, Goto,
           Take, flags, work
  <1>1. CASE WatchdogEnds
    BY <1>1 DEF WatchdogEnds
  <1>2. CASE WatchdogStops
    BY <1>2 DEF WatchdogStops, StopAnd
  <1>3. CASE WatchdogSees
    BY <1>3 DEF WatchdogSees, Select, Request, Session
  <1>4. CASE WatchdogWaits
    BY <1>4 DEF WatchdogWaits
  <1>5. CASE WatchdogConfirms
    BY <1>5 DEF WatchdogConfirms, StillDead, Session
  <1>6. CASE WatchdogAwaits
    BY <1>6 DEF WatchdogAwaits
  <1> QED BY <1>1, <1>2, <1>3, <1>4, <1>5, <1>6 DEF WatchdogStep

\* A step of auto-connect shows the launch no session of a user.
LEMMA AutoLaunch ==
  ASSUME PlacesOK, DataOK, OneSelect, DecideInv, PickedInv, LaunchInv, "auto" \in Background, AutoSees \/ Reappears
  PROVE  LaunchInv'
  <1> USE ThreadFacts DEF LaunchInv, PlacesOK, DataOK, OneSelect, Connecting, Goto,
           Take, flags, work
  <1>1. CASE AutoSees
    BY <1>1 DEF AutoSees, Select, Request
  <1>2. CASE Reappears
    BY <1>2 DEF Reappears
  <1> QED BY <1>1, <1>2

\* A step of the launch's shows the launch no session of a user.
LEMMA LaunchLaunch ==
  ASSUME PlacesOK, DataOK, OneSelect, DecideInv, PickedInv, LaunchInv, "launch" \in Background, LaunchStep
  PROVE  LaunchInv'
  <1> USE ThreadFacts DEF LaunchInv, PlacesOK, DataOK, OneSelect, Connecting, Goto,
           Take, flags, work
  <1>1. CASE LaunchSendspin
    BY <1>1 DEF LaunchSendspin
  <1>2. CASE LaunchPairSeen
    BY <1>2 DEF LaunchPairSeen
  <1>3. CASE LaunchPairPicks
    BY <1>3 DEF LaunchPairPicks, Select, Request
  <1> QED BY <1>1, <1>2, <1>3 DEF LaunchStep

\* A step of the ceremony shows the launch no session of a user.
LEMMA PinLaunch ==
  ASSUME PlacesOK, DataOK, OneSelect, DecideInv, PickedInv, LaunchInv, "pin" \in Background, PinStep
  PROVE  LaunchInv'
  <1> USE ThreadFacts DEF LaunchInv, PlacesOK, DataOK, OneSelect, Connecting, Goto,
           Take, flags, work
  <1>1. CASE PinShown
    BY <1>1 DEF PinShown, Ceremony, EndCeremony
  <1>2. CASE PinAnswered
    BY <1>2 DEF PinAnswered, EndCeremony
  <1>3. CASE PinClaims
    BY <1>3 DEF PinClaims
  <1>4. CASE PinPairs
    BY <1>4 DEF PinPairs, PinSetup, Select, Request, Ceremony
  <1>5. CASE PinSelects
    BY <1>5 DEF PinSelects
  <1> QED BY <1>1, <1>2, <1>3, <1>4, <1>5 DEF PinStep

-----------------------------------------------------------------------------
(* Every step.                                                             *)

\* Who holds the slot and where the ceremony is.
SlotInv == PlacesOK /\ DataOK /\ PinInv /\ OneSelect
TurnInv == DecideInv /\ AutoInv /\ PickedInv /\ LaunchInv

\* A bound session that fails changes nothing else.
LEMMA FailsKeeps ==
  ASSUME SlotInv, SessionFails
  PROVE  /\ SlotInv'
         /\ OffMeansUnbound => OffMeansUnbound'
         /\ PairingAlone => PairingAlone'
         /\ TurnInv => TurnInv'
         /\ session # None /\ session' = [session EXCEPT !.st = session'.st]
  <1>1. PICK how \in {"dead", "final", "ended"} :
            session # None /\ session' = [session EXCEPT !.st = how]
    BY DEF SessionFails
  <1>2. /\ session \in Session /\ session' \in Session
        /\ session'.spk = session.spk /\ session'.by = session.by /\ session'.st = how
    BY <1>1 DEF SlotInv, DataOK, Session
  <1>3. UNCHANGED <<flags, connecting, memory, pc, work, ops>>
    BY DEF SessionFails
  <1>4. SlotInv'
    BY <1>2, <1>3 DEF SlotInv, PlacesOK, DataOK, PinInv, OneSelect, flags, memory, work
  <1>5. OffMeansUnbound => OffMeansUnbound'
    BY <1>1, <1>2, <1>3 DEF OffMeansUnbound, flags
  <1>6. PairingAlone => PairingAlone'
    BY <1>3 DEF PairingAlone, flags, work
  <1>7. TurnInv => TurnInv'
    BY <1>1, <1>2, <1>3 DEF TurnInv, DecideInv, AutoInv, PickedInv, LaunchInv, flags,
             work
  <1> QED BY <1>1, <1>2, <1>4, <1>5, <1>6, <1>7

\* Initially nobody holds the slot.
LEMMA InitSlot == Init => SlotInv
  <1> SUFFICES ASSUME Init PROVE SlotInv
    OBVIOUS
  <1>1. \A t \in Threads : pc[t] \in {"idle", "laWait", "paWait", "done"}
    BY DEF Init
  <1>2. OneSelect
    BY <1>1, ThreadFacts DEF Init, OneSelect, Connecting
  <1> QED BY <1>2, InitType, TypeParts DEF SlotInv

\* The slot, through every step.
LEMMA NextSlot == SlotInv /\ [Next]_vars => SlotInv'
  <1> SUFFICES ASSUME SlotInv, [Next]_vars PROVE SlotInv'
    OBVIOUS
  <1> USE DEF SlotInv
  <1>1. ASSUME NEW t \in Threads, ConnectStep(t) PROVE SlotInv'
    BY <1>1, ConnectPlaces, ConnectData, ConnectPin, ConnectSlot
  <1>2. ASSUME NEW u \in Users, UserStep(u) PROVE SlotInv'
    BY <1>2, UserPlaces, UserData, UserPin, UserSlot
  <1>3. CASE "watchdog" \in Background /\ WatchdogStep
    BY <1>3, WatchdogPlaces, WatchdogData, WatchdogPin, WatchdogSlot
  <1>4. CASE "auto" \in Background /\ (AutoSees \/ Reappears)
    BY <1>4, AutoPlaces, AutoData, AutoPin, AutoSlot
  <1>5. CASE "launch" \in Background /\ LaunchStep
    BY <1>5, LaunchPlaces, LaunchData, LaunchPin, LaunchSlot
  <1>6. CASE "pin" \in Background /\ PinStep
    BY <1>6, PinPlaces, PinData, PinPin, PinSlot
  <1>7. CASE SessionFails
    BY <1>7, FailsKeeps
  <1>8. CASE UNCHANGED vars
    BY <1>8 DEF vars, PlacesOK, DataOK, PinInv, OneSelect
  <1> QED BY <1>1, <1>2, <1>3, <1>4, <1>5, <1>6, <1>7, <1>8 DEF Next

\* The slot is never lost or held twice.
LEMMA SlotHolds == Spec => []SlotInv
  BY InitSlot, NextSlot, PTL DEF Spec

\* What is off stays unbound, through every step.
LEMMA NextOff == SlotInv /\ OffMeansUnbound /\ [Next]_vars => OffMeansUnbound'
  <1> SUFFICES ASSUME SlotInv, OffMeansUnbound, [Next]_vars PROVE OffMeansUnbound'
    OBVIOUS
  <1> USE DEF SlotInv
  <1>1. CASE UNCHANGED vars
    BY <1>1 DEF vars, OffMeansUnbound
  <1> QED BY <1>1, ConnectOff, UserOff, WatchdogOff, AutoOff, LaunchOff, PinOff,
           FailsKeeps
          DEF Next

\* The device being paired, through every step.
LEMMA NextAlone == SlotInv /\ PairingAlone /\ [Next]_vars => PairingAlone'
  <1> SUFFICES ASSUME SlotInv, PairingAlone, [Next]_vars PROVE PairingAlone'
    OBVIOUS
  <1> USE DEF SlotInv
  <1>1. CASE UNCHANGED vars
    BY <1>1 DEF vars, PairingAlone
  <1> QED BY <1>1, ConnectAlone, UserAlone, WatchdogAlone, AutoAlone, LaunchAlone,
           PinAlone,
             FailsKeeps DEF Next

\* Whose session a select may meet, through every step.
LEMMA NextTurn == SlotInv /\ TurnInv /\ [Next]_vars => TurnInv'
  <1> SUFFICES ASSUME SlotInv, TurnInv, [Next]_vars PROVE TurnInv'
    OBVIOUS
  <1> USE DEF SlotInv
  <1>1. ASSUME NEW t \in Threads, ConnectStep(t) PROVE TurnInv'
    BY <1>1, ConnectDecides, ConnectAuto, ConnectPicked, ConnectLaunch DEF TurnInv
  <1>2. ASSUME NEW u \in Users, UserStep(u) PROVE TurnInv'
    BY <1>2, UserDecides, UserAuto, UserPicked, UserLaunch DEF TurnInv
  <1>3. CASE "watchdog" \in Background /\ WatchdogStep
    BY <1>3, WatchdogDecides, WatchdogAuto, WatchdogPicked, WatchdogLaunch DEF TurnInv
  <1>4. CASE "auto" \in Background /\ (AutoSees \/ Reappears)
    BY <1>4, AutoDecides, AutoAuto, AutoPicked, AutoLaunch DEF TurnInv
  <1>5. CASE "launch" \in Background /\ LaunchStep
    BY <1>5, LaunchDecides, LaunchAuto, LaunchPicked, LaunchLaunch DEF TurnInv
  <1>6. CASE "pin" \in Background /\ PinStep
    BY <1>6, PinDecides, PinAuto, PinPicked, PinLaunch DEF TurnInv
  <1>7. CASE SessionFails
    BY <1>7, FailsKeeps
  <1>8. CASE UNCHANGED vars
    BY <1>8 DEF vars, TurnInv, DecideInv, AutoInv, PickedInv, LaunchInv
  <1> QED BY <1>1, <1>2, <1>3, <1>4, <1>5, <1>6, <1>7, <1>8 DEF Next

-----------------------------------------------------------------------------
(* The theorems.                                                           *)

\* Every thread is somewhere in its routine and holds what it should there.
THEOREM SessionTypeCorrect == Spec => []TypeOK
  <1>1. Init => ops \in 0..MaxOps
    BY InitType, TypeParts
  <1>2. SlotInv /\ ops \in 0..MaxOps => TypeOK
    BY TypeParts DEF SlotInv
  <1> QED BY <1>1, <1>2, OpsType, SlotHolds, PTL DEF Spec

\* One select at a time, and none of a device whose pairing ceremony is on.
THEOREM SelectsAreAlone == Spec => []OneAtATime
  <1>1. Init => PairingAlone
    BY DEF Init, PairingAlone
  <1>2. SlotInv /\ PairingAlone => OneAtATime
    BY DEF SlotInv, OneAtATime
  <1> QED BY <1>1, <1>2, NextAlone, SlotHolds, PTL DEF Spec

\* What is switched off is unbound but for the switch on its way to it.
THEOREM OffIsUnbound == Spec => []OffMeansUnbound
  <1>1. Init => OffMeansUnbound
    BY DEF Init, OffMeansUnbound
  <1> QED BY <1>1, NextOff, SlotHolds, PTL DEF Spec

\* No session is bound over another: it is taken first, by the slot's holder.
LEMMA StepTakes ==
  ASSUME SlotInv, DecideInv, [Next]_vars
  PROVE  session # None /\ session' # None => session' = [session EXCEPT !.st = session'.st]
  <1>1. session \in Session => session = [session EXCEPT !.st = session.st]
    BY DEF Session
  <1>2. SUFFICES session' = session \/ session = None \/ session' = None \/ SessionFails
    BY <1>1, FailsKeeps DEF SlotInv, DataOK
  <1>3. ASSUME NEW t \in Threads, ConnectStep(t)
        PROVE  session' = session \/ session = None \/ session' = None
    BY <1>3 DEF ConnectStep, Decide, Take, DecideInv, flags,
                Claim, EnableForChoice, GuardCeremony, LookSame, TakeSame, StopSame, BringUp, BringUpFails, BringUpNeedsPin,
                Swap, StopOld, DecideAfterStop, Discard, Remember, Save, Release
  <1>4. ASSUME NEW u \in Users, UserStep(u) PROVE session' = session \/ session' = None
    BY <1>4 DEF UserStep, TakeAnd, StopAnd, Take,
                Pick, Disable, DisableTakes, DisableStops, Enable, EnableChecks, EnableReselects, Forget, ForgetTakes,
                ForgetStops, ForgetLast, ForgetSaves, SendspinOn, SendspinOff, SendspinTakes, SendspinStops, SubmitPin
  <1>5. ASSUME WatchdogStep \/ AutoSees \/ Reappears \/ LaunchStep \/ PinStep
        PROVE  session' = session \/ session' = None
    BY <1>5 DEF WatchdogStep, LaunchStep, PinStep, StopAnd, Take, WatchdogEnds,
             WatchdogStops, WatchdogSees, WatchdogWaits, WatchdogConfirms,
             WatchdogAwaits,
                AutoSees, Reappears, LaunchSendspin, LaunchPairSeen, LaunchPairPicks, PinShown, PinAnswered, PinClaims, PinPairs, PinSelects
  <1> QED BY <1>3, <1>4, <1>5 DEF Next, vars

\* A session is taken before another is bound, and an automatic connect takes
\* none that someone else has bound.
THEOREM BoundInTurn == Spec => BindsInTurn
  <1>1. Init => TurnInv
    <2> SUFFICES ASSUME Init PROVE TurnInv
      OBVIOUS
    <2>1. \A t \in Threads : /\ pc[t] \in {"idle", "laWait", "paWait", "done"}
                             /\ t # "launch" => pc[t] = "idle"
      BY DEF Init
    <2>2. \A t \in Threads : pc[t] = "laWait" => req[t].unlessPicked
      BY DEF Init, Reconnect, Select
    <2> QED BY <2>1, <2>2, ThreadFacts
            DEF Init, TurnInv, DecideInv, AutoInv, PickedInv, LaunchInv, Connecting
  <1>2. TurnInv => AutomaticYields
    BY ThreadFacts DEF TurnInv, AutoInv, LaunchInv, AutomaticYields
  <1>3. TurnInv => DecideInv
    BY DEF TurnInv
  <1> QED BY <1>1, <1>2, <1>3, NextTurn, StepTakes, SlotHolds, PTL
          DEF Spec, BindsInTurn, TakenBeforeReplaced
=============================================================================
