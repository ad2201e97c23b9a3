-------------------------- MODULE GenaRegistryProofs --------------------------
(***************************************************************************)
(* For any number of sessions, speakers, connections and subscriptions:    *)
(* the registry holds what the managers hold (RegistryMatches), and a      *)
(* first event that comes before the answer naming its SID waits           *)
(* (EarlyEventWaits).                                                      *)
(*                                                                         *)
(* The subscribing thread and the one that unsubscribes share a manager's  *)
(* state without a lock over both steps, so the invariant follows every    *)
(* registered SID to whoever is to remove it (OwnedInv): the manager that  *)
(* holds it, the subscribing thread on its way to store or withdraw it, or *)
(* the stopping thread that has taken it.  That what the manager holds is  *)
(* registered (HeldInv) rests on SIDs being new: none that is held or      *)
(* taken is the one being made (SidInv).                                   *)
(***************************************************************************)
EXTENDS GenaRegistry, TLAPS

\* The SIDs manager m has been given so far.
Given(m) == {<<m, k>> : k \in 1..made[m]}
Latest(m) == <<m, made[m]>>

\* The types the invariant rests on.
Kinds ==
    /\ at \in [Managers -> Speakers]
    /\ live \subseteq Sids
    /\ pending = {m \in Managers : pc[m] \in InFlight}
    /\ closed \in [Managers -> BOOLEAN]
    /\ pc \in [Managers -> {"new", "stored", "registered", "check", "withdraw", "renew"}
                             \cup InFlight \cup AtRest]
    /\ made \in [Managers -> Nat]
    /\ stop \in [Managers -> {"idle", "closed", "taken", "done"}]
    /\ DOMAIN state = Managers /\ DOMAIN answer = Managers /\ DOMAIN stopSid = Managers

\* Which SIDs a manager's threads have, and what is known of the newest.
SidInv(m) ==
    /\ made[m] \in 0..MaxSubs
    /\ state[m] \in Given(m) \cup {None}
    /\ answer[m] \in Given(m) \cup {None}
    /\ stopSid[m] \in Given(m) \cup {None}
    /\ pc[m] \in {"asked", "answered", "registered"} =>
           state[m] # Latest(m) /\ stopSid[m] # Latest(m) /\ made[m] > 0
    /\ pc[m] = "answered" => answer[m] \in {Latest(m), None}
    /\ pc[m] = "registered" => answer[m] = Latest(m)
    /\ pc[m] = "stored" => answer[m] # Latest(m) /\ state[m] \in {Latest(m), None}

\* How far the stop has come, against the subscribing thread.
StopInv(m) ==
    /\ closed[m] <=> stop[m] # "idle"
    /\ pc[m] = "withdraw" => closed[m]
    /\ stop[m] = "idle" => stopSid[m] = None
    /\ stop[m] \in {"taken", "done"} /\ state[m] # None => pc[m] \in {"stored", "check"}

\* Every registered SID has someone to remove it.
OwnedInv(m) == \A s \in live : s[1] = m =>
    \/ s = state[m]
    \/ s = answer[m] /\ pc[m] \in {"registered", "stored", "withdraw"}
    \/ s = stopSid[m] /\ stop[m] = "taken"

\* What a session that runs holds, or is about to, is registered.
HeldInv(m) == stop[m] = "idle" =>
    /\ state[m] # None => state[m] \in live
    /\ pc[m] = "registered" => answer[m] \in live

\* The invariant, of one manager.
ManagerInv(m) == SidInv(m) /\ StopInv(m) /\ OwnedInv(m) /\ HeldInv(m)

\* The inductive invariant.
IInv == ConstantsOK /\ Kinds /\ \A m \in Managers : ManagerInv(m)

\* A SID tells whose it is.
LEMMA SidFacts ==
  ASSUME ConstantsOK
  PROVE  /\ \A m \in Managers, k \in Nat : <<m, k>> # None /\ <<m, k>>[1] = m /\ <<m, k>>[2] = k
         /\ \A s \in Sids : s[1] \in Managers /\ s # None
         /\ None \notin Sids
  BY DEF Sids, ConstantsOK

\* What a manager has been given are SIDs of its own.
LEMMA GivenFacts ==
  ASSUME ConstantsOK, NEW m \in Managers, made[m] \in 0..MaxSubs
  PROVE  \A s \in Given(m) : s \in Sids /\ s[1] = m /\ s # None
  BY SidFacts DEF Given, Sids, ConstantsOK

\* Initially nothing is registered.
LEMMA InitInv == ConstantsOK /\ Init => IInv
  <1> SUFFICES ASSUME ConstantsOK, Init PROVE IInv
    OBVIOUS
  <1>1. Kinds
    BY DEF Init, Kinds, InFlight, AtRest
  <1>2. ASSUME NEW m \in Managers PROVE ManagerInv(m)
    BY DEF ConstantsOK, Init, ManagerInv, SidInv, StopInv, OwnedInv, HeldInv
  <1> QED BY <1>1, <1>2 DEF IInv

\* A step that leaves a manager's threads, state and registered SIDs alone.
Untouched(n) ==
    /\ pc'[n] = pc[n] /\ state'[n] = state[n] /\ closed'[n] = closed[n]
    /\ made'[n] = made[n] /\ answer'[n] = answer[n]
    /\ stop'[n] = stop[n] /\ stopSid'[n] = stopSid[n]
    /\ \A s \in Sids : s[1] = n => (s \in live' <=> s \in live)

\* Such a step keeps what the invariant says of the manager.
LEMMA Frame ==
  ASSUME ConstantsOK, Kinds, Kinds', NEW n \in Managers, ManagerInv(n), Untouched(n)
  PROVE  ManagerInv(n)'
  <1>1. SidInv(n)' /\ StopInv(n)'
    BY DEF ManagerInv, SidInv, StopInv, Untouched, Given, Latest
  <1>2. OwnedInv(n)'
    BY DEF Kinds, ManagerInv, OwnedInv, Untouched
  <1>3. HeldInv(n)'
    <2>1. state[n] # None => state[n] \in Sids /\ state[n][1] = n
      BY GivenFacts DEF ManagerInv, SidInv
    <2>2. answer[n] # None => answer[n] \in Sids /\ answer[n][1] = n
      BY GivenFacts DEF ManagerInv, SidInv
    <2>3. Latest(n) # None
      BY SidFacts DEF Latest, Kinds
    <2>4. pc[n] = "registered" => answer[n] # None
      BY <2>3 DEF ManagerInv, SidInv
    <2> QED BY <2>1, <2>2, <2>4 DEF ManagerInv, HeldInv, Untouched
  <1> QED BY <1>1, <1>2, <1>3 DEF ManagerInv

-----------------------------------------------------------------------------
(* One manager's own step.                                                 *)

\* A manager's step keeps the types and leaves the other managers alone.
LEMMA StepKinds ==
  ASSUME IInv, NEW m \in Managers, Subscriber(m) \/ Close(m) \/ Stopper(m)
  PROVE  Kinds' /\ \A n \in Managers : n # m => Untouched(n)
  <1> USE SidFacts DEF Kinds, InFlight, AtRest, Untouched
  <1>0. ConstantsOK /\ Kinds /\ SidInv(m) /\ \A s \in Given(m) : s \in Sids /\ s[1] = m
    BY GivenFacts DEF IInv, ManagerInv, SidInv
  <1>1. CASE BeginSubscribe(m)
    BY <1>0, <1>1 DEF BeginSubscribe, stopper, SidInv
  <1>2. CASE SpeakerAnswers(m)
    BY <1>0, <1>2 DEF SpeakerAnswers, registry, manager, stopper, SidInv
  <1>3. CASE FinishSubscribe(m)
    BY <1>0, <1>3 DEF FinishSubscribe, manager, stopper, PendingAfter, AfterFailure, SidInv
  <1>4. CASE Store(m)
    BY <1>0, <1>4 DEF Store, registry, stopper, SidInv
  <1>5. CASE RemoveOld(m)
    BY <1>0, <1>5 DEF RemoveOld, manager, stopper, Superseded, SidInv
  <1>6. CASE CheckClosed(m)
    BY <1>0, <1>6 DEF CheckClosed, registry, stopper, LostRace, SidInv
  <1>7. CASE Withdraw(m)
    BY <1>0, <1>7 DEF Withdraw, manager, stopper, AfterFailure, SidInv
  <1>8. CASE RenewerWakes(m)
    BY <1>0, <1>8 DEF RenewerWakes, registry, manager, stopper, SidInv
  <1>9. CASE Renew(m)
    BY <1>0, <1>9 DEF Renew, registry, manager, stopper, SidInv
  <1>10. CASE Close(m)
    BY <1>0, <1>10 DEF Close, registry, SidInv
  <1>11. CASE TakeState(m)
    BY <1>0, <1>11 DEF TakeState, registry, SidInv
  <1>12. CASE Unsubscribe(m)
    BY <1>0, <1>12 DEF Unsubscribe, manager, SidInv
  <1> QED BY <1>1, <1>2, <1>3, <1>4, <1>5, <1>6, <1>7, <1>8, <1>9, <1>10, <1>11, <1>12
          DEF Subscriber, Stopper

\* A SID about to be given is new, so neither held nor taken.
LEMMA BeginSubscribeOwn ==
  ASSUME IInv, Kinds', NEW m \in Managers, BeginSubscribe(m)
  PROVE  ManagerInv(m)'
  <1> USE SidFacts DEF IInv, Kinds, ManagerInv, BeginSubscribe, stopper
  <1>0. \A s \in Given(m) : s \in Sids /\ s[1] = m /\ s # None
    BY GivenFacts DEF SidInv
  <1>1. SidInv(m)'
    <2>1. CASE closed[m]
      BY <2>1 DEF SidInv, Given, Latest
    <2>2. CASE ~closed[m]
      <3>1. made' = [made EXCEPT ![m] = made[m] + 1] /\ pc' = [pc EXCEPT ![m] = "asked"]
        BY <2>2
      <3>2. made'[m] = made[m] + 1 /\ made'[m] \in 0..MaxSubs /\ made'[m] > 0
        BY <3>1 DEF SidInv, ConstantsOK
      <3>3. Given(m) \subseteq Given(m)' /\ Latest(m)' \notin Given(m) /\ Latest(m)' # None
        BY <3>2 DEF Given, Latest
      <3> QED BY <3>1, <3>2, <3>3 DEF SidInv
    <2> QED BY <2>1, <2>2
  <1>2. StopInv(m)'
    BY DEF StopInv
  <1>3. OwnedInv(m)'
    BY <1>0 DEF OwnedInv
  <1>4. HeldInv(m)'
    BY <1>0 DEF HeldInv, SidInv, StopInv
  <1> QED BY <1>1, <1>2, <1>3, <1>4

\* The answer names the SID just given, or none.
LEMMA SpeakerAnswersOwn ==
  ASSUME IInv, Kinds', NEW m \in Managers, SpeakerAnswers(m)
  PROVE  ManagerInv(m)'
  <1> USE SidFacts DEF IInv, Kinds, ManagerInv, SpeakerAnswers, registry, manager, stopper
  <1>0. \A s \in Given(m) : s \in Sids /\ s[1] = m /\ s # None
    BY GivenFacts DEF SidInv
  <1>1. SidInv(m)'
    BY <1>0 DEF SidInv, Given, Latest
  <1>2. StopInv(m)'
    BY DEF StopInv
  <1>3. OwnedInv(m)'
    BY <1>0 DEF OwnedInv
  <1>4. HeldInv(m)'
    BY <1>0 DEF HeldInv, SidInv, StopInv
  <1> QED BY <1>1, <1>2, <1>3, <1>4

\* What finish_subscribe registers is the answer's, on its way to be stored.
LEMMA FinishSubscribeOwn ==
  ASSUME IInv, Kinds', NEW m \in Managers, FinishSubscribe(m)
  PROVE  ManagerInv(m)'
  <1> USE SidFacts DEF IInv, Kinds, ManagerInv, FinishSubscribe, manager, stopper, PendingAfter, AfterFailure
  <1>0. \A s \in Given(m) : s \in Sids /\ s[1] = m /\ s # None
    BY GivenFacts DEF SidInv
  <1>1. SidInv(m)'
    BY <1>0 DEF SidInv, Given, Latest
  <1>2. StopInv(m)'
    BY DEF StopInv
  <1>3. OwnedInv(m)'
    BY <1>0 DEF OwnedInv
  <1>4. HeldInv(m)'
    BY <1>0 DEF HeldInv, SidInv, StopInv
  <1> QED BY <1>1, <1>2, <1>3, <1>4

\* What is stored is registered; what it replaces is the thread's to remove.
LEMMA StoreOwn ==
  ASSUME IInv, Kinds', NEW m \in Managers, Store(m)
  PROVE  ManagerInv(m)'
  <1> USE SidFacts DEF IInv, Kinds, ManagerInv, Store, registry, stopper
  <1>0. \A s \in Given(m) : s \in Sids /\ s[1] = m /\ s # None
    BY GivenFacts DEF SidInv
  <1>1. SidInv(m)'
    BY <1>0 DEF SidInv, Given, Latest
  <1>2. StopInv(m)'
    BY DEF StopInv
  <1>3. OwnedInv(m)'
    BY <1>0 DEF OwnedInv
  <1>4. HeldInv(m)'
    BY <1>0 DEF HeldInv, SidInv, StopInv
  <1> QED BY <1>1, <1>2, <1>3, <1>4

\* The replaced SID leaves the registry, the stored one stays.
LEMMA RemoveOldOwn ==
  ASSUME IInv, Kinds', NEW m \in Managers, RemoveOld(m)
  PROVE  ManagerInv(m)'
  <1> USE SidFacts DEF IInv, Kinds, ManagerInv, RemoveOld, manager, stopper, Superseded
  <1>0. \A s \in Given(m) : s \in Sids /\ s[1] = m /\ s # None
    BY GivenFacts DEF SidInv
  <1>1. SidInv(m)'
    BY <1>0 DEF SidInv, Given, Latest
  <1>2. StopInv(m)'
    BY DEF StopInv
  <1>3. OwnedInv(m)'
    BY <1>0 DEF OwnedInv
  <1>4. HeldInv(m)'
    BY <1>0 DEF HeldInv, SidInv, StopInv
  <1> QED BY <1>1, <1>2, <1>3, <1>4

\* After a stop the thread takes back what it has stored.
LEMMA CheckClosedOwn ==
  ASSUME IInv, Kinds', NEW m \in Managers, CheckClosed(m)
  PROVE  ManagerInv(m)'
  <1> USE SidFacts DEF IInv, Kinds, ManagerInv, CheckClosed, registry, stopper, LostRace
  <1>0. \A s \in Given(m) : s \in Sids /\ s[1] = m /\ s # None
    BY GivenFacts DEF SidInv
  <1>1. SidInv(m)'
    BY <1>0 DEF SidInv, Given, Latest
  <1>2. StopInv(m)'
    BY DEF StopInv
  <1>3. OwnedInv(m)'
    BY <1>0 DEF OwnedInv
  <1>4. HeldInv(m)'
    BY <1>0 DEF HeldInv, SidInv, StopInv
  <1> QED BY <1>1, <1>2, <1>3, <1>4

\* What is withdrawn is the last the manager had registered.
LEMMA WithdrawOwn ==
  ASSUME IInv, Kinds', NEW m \in Managers, Withdraw(m)
  PROVE  ManagerInv(m)'
  <1> USE SidFacts DEF IInv, Kinds, ManagerInv, Withdraw, manager, stopper, AfterFailure
  <1>0. \A s \in Given(m) : s \in Sids /\ s[1] = m /\ s # None
    BY GivenFacts DEF SidInv
  <1>1. SidInv(m)'
    BY <1>0 DEF SidInv, Given, Latest
  <1>2. StopInv(m)'
    BY DEF StopInv
  <1>3. OwnedInv(m)'
    BY <1>0 DEF OwnedInv
  <1>4. HeldInv(m)'
    BY <1>0 DEF HeldInv, SidInv, StopInv
  <1> QED BY <1>1, <1>2, <1>3, <1>4

\* The renewer only looks.
LEMMA RenewerWakesOwn ==
  ASSUME IInv, Kinds', NEW m \in Managers, RenewerWakes(m)
  PROVE  ManagerInv(m)'
  <1> USE SidFacts DEF IInv, Kinds, ManagerInv, RenewerWakes, registry, manager, stopper
  <1>0. \A s \in Given(m) : s \in Sids /\ s[1] = m /\ s # None
    BY GivenFacts DEF SidInv
  <1>1. SidInv(m)'
    BY <1>0 DEF SidInv, Given, Latest
  <1>2. StopInv(m)'
    BY DEF StopInv
  <1>3. OwnedInv(m)'
    BY <1>0 DEF OwnedInv
  <1>4. HeldInv(m)'
    BY <1>0 DEF HeldInv, SidInv, StopInv
  <1> QED BY <1>1, <1>2, <1>3, <1>4

\* A renewal changes nothing registered.
LEMMA RenewOwn ==
  ASSUME IInv, Kinds', NEW m \in Managers, Renew(m)
  PROVE  ManagerInv(m)'
  <1> USE SidFacts DEF IInv, Kinds, ManagerInv, Renew, registry, manager, stopper
  <1>0. \A s \in Given(m) : s \in Sids /\ s[1] = m /\ s # None
    BY GivenFacts DEF SidInv
  <1>1. SidInv(m)'
    BY <1>0 DEF SidInv, Given, Latest
  <1>2. StopInv(m)'
    BY DEF StopInv
  <1>3. OwnedInv(m)'
    BY <1>0 DEF OwnedInv
  <1>4. HeldInv(m)'
    BY <1>0 DEF HeldInv, SidInv, StopInv
  <1> QED BY <1>1, <1>2, <1>3, <1>4

\* Closing removes nothing yet.
LEMMA CloseOwn ==
  ASSUME IInv, Kinds', NEW m \in Managers, Close(m)
  PROVE  ManagerInv(m)'
  <1> USE SidFacts DEF IInv, Kinds, ManagerInv, Close, registry
  <1>0. \A s \in Given(m) : s \in Sids /\ s[1] = m /\ s # None
    BY GivenFacts DEF SidInv
  <1>1. SidInv(m)'
    BY <1>0 DEF SidInv, Given, Latest
  <1>2. StopInv(m)'
    BY DEF StopInv
  <1>3. OwnedInv(m)'
    BY <1>0 DEF OwnedInv
  <1>4. HeldInv(m)'
    BY <1>0 DEF HeldInv, SidInv, StopInv
  <1> QED BY <1>1, <1>2, <1>3, <1>4

\* The stopping thread takes what the manager held.
LEMMA TakeStateOwn ==
  ASSUME IInv, Kinds', NEW m \in Managers, TakeState(m)
  PROVE  ManagerInv(m)'
  <1> USE SidFacts DEF IInv, Kinds, ManagerInv, TakeState, registry
  <1>0. \A s \in Given(m) : s \in Sids /\ s[1] = m /\ s # None
    BY GivenFacts DEF SidInv
  <1>1. SidInv(m)'
    BY <1>0 DEF SidInv, Given, Latest
  <1>2. StopInv(m)'
    BY DEF StopInv
  <1>3. OwnedInv(m)'
    BY <1>0 DEF OwnedInv
  <1>4. HeldInv(m)'
    BY <1>0 DEF HeldInv, SidInv, StopInv
  <1> QED BY <1>1, <1>2, <1>3, <1>4

\* What was taken leaves the registry.
LEMMA UnsubscribeOwn ==
  ASSUME IInv, Kinds', NEW m \in Managers, Unsubscribe(m)
  PROVE  ManagerInv(m)'
  <1> USE SidFacts DEF IInv, Kinds, ManagerInv, Unsubscribe, manager
  <1>0. \A s \in Given(m) : s \in Sids /\ s[1] = m /\ s # None
    BY GivenFacts DEF SidInv
  <1>1. SidInv(m)'
    BY <1>0 DEF SidInv, Given, Latest
  <1>2. StopInv(m)'
    BY DEF StopInv
  <1>3. OwnedInv(m)'
    BY <1>0 DEF OwnedInv
  <1>4. HeldInv(m)'
    BY <1>0 DEF HeldInv, SidInv, StopInv
  <1> QED BY <1>1, <1>2, <1>3, <1>4

-----------------------------------------------------------------------------
(* Notifications, and every step.                                          *)

\* Notifications touch neither the registry nor a manager.
LEMMA ServerKeeps ==
  ASSUME (\E c \in Conns : SpeakerNotifies(c) \/ Server(c)) \/ SubscriptionEnds \/ UNCHANGED vars
  PROVE  UNCHANGED <<at, live, pending, state, closed, pc, made, answer, stop, stopSid>>
  <1>1. ASSUME NEW c \in Conns, SpeakerNotifies(c) \/ Server(c)
        PROVE  UNCHANGED <<at, registry, manager, pc, answer, stopper>>
    BY <1>1 DEF SpeakerNotifies, Server, Admit, GiveUp, ReadBody, Callback, Goes, Answered
  <1> QED BY <1>1 DEF SubscriptionEnds, vars, registry, manager, stopper

\* Each of a manager's own steps keeps its part of the invariant.
LEMMA OwnStep ==
  ASSUME IInv, Kinds', NEW m \in Managers, Subscriber(m) \/ Close(m) \/ Stopper(m)
  PROVE  ManagerInv(m)'
  BY BeginSubscribeOwn, SpeakerAnswersOwn, FinishSubscribeOwn, StoreOwn, RemoveOldOwn,
     CheckClosedOwn, WithdrawOwn, RenewerWakesOwn, RenewOwn, CloseOwn, TakeStateOwn,
     UnsubscribeOwn DEF Subscriber, Stopper

\* Every step keeps the invariant.
LEMMA NextInv == IInv /\ [Next]_vars => IInv'
  <1> SUFFICES ASSUME IInv, [Next]_vars PROVE IInv'
    OBVIOUS
  <1>1. ASSUME NEW m \in Managers, Subscriber(m) \/ Close(m) \/ Stopper(m) PROVE IInv'
    <2>1. Kinds' /\ \A n \in Managers : n # m => Untouched(n)
      BY <1>1, StepKinds
    <2>2. ManagerInv(m)'
      BY <1>1, <2>1, OwnStep
    <2>3. \A n \in Managers : n # m => ManagerInv(n)'
      BY <2>1, Frame DEF IInv
    <2> QED BY <2>1, <2>2, <2>3 DEF IInv
  <1>2. CASE (\E c \in Conns : SpeakerNotifies(c) \/ Server(c)) \/ SubscriptionEnds
             \/ UNCHANGED vars
    <2>1. UNCHANGED <<at, live, pending, state, closed, pc, made, answer, stop, stopSid>>
      BY <1>2, ServerKeeps
    <2>2. Kinds' /\ \A n \in Managers : Untouched(n)
      BY <2>1 DEF IInv, Kinds, Untouched
    <2> QED BY <2>2, Frame DEF IInv
  <1> QED BY <1>1, <1>2 DEF Next

\* Every registered SID has someone to remove it, and what a session that runs
\* holds is registered.
THEOREM RegistryAccounted == ConstantsOK /\ Spec => []IInv
  BY InitInv, NextInv, PTL DEF Spec

\* The registry holds what the managers hold, for any number of sessions.
THEOREM RegistryHolds == ConstantsOK /\ Spec => []RegistryMatches
  <1>1. IInv => RegistryMatches
    <2> SUFFICES ASSUME IInv, NEW m \in Managers, Quiet(m)
                 PROVE  /\ stop[m] = "done" => Mine(m) = {} /\ m \notin pending
                        /\ stop[m] = "idle" => Mine(m) = {state[m]} \ {None}
      BY DEF RegistryMatches, NoneLeaked, OneRegistered
    <2>1. /\ ConstantsOK /\ Kinds /\ ManagerInv(m) /\ m \notin pending
          /\ pc[m] \in AtRest /\ stop[m] \in {"idle", "done"}
      BY DEF IInv, Quiet, Kinds, InFlight, AtRest
    <2>2. \A s \in Mine(m) : s = state[m] /\ s # None
      BY <2>1, SidFacts DEF Mine, ManagerInv, OwnedInv, AtRest, Kinds
    <2>3. stop[m] = "done" => state[m] = None
      BY <2>1 DEF ManagerInv, StopInv, AtRest
    <2>4. state[m] # None => state[m][1] = m
      BY <2>1, GivenFacts DEF ManagerInv, SidInv
    <2>5. stop[m] = "idle" /\ state[m] # None => state[m] \in Mine(m)
      BY <2>1, <2>4 DEF ManagerInv, HeldInv, Mine
    <2> QED BY <2>1, <2>2, <2>3, <2>5
  <1> QED BY <1>1, RegistryAccounted, PTL

-----------------------------------------------------------------------------
\* Every connection's state says what its thread does.
ConnsOK == DOMAIN conn = Conns /\ \A c \in Conns : DOMAIN conn[c] = {"does", "sid"}

\* Managers and speakers leave the connections alone.
LEMMA ManagersLeaveConns ==
  ASSUME NEW m \in Managers, Subscriber(m) \/ Close(m) \/ Stopper(m) PROVE conn' = conn
  BY DEF Subscriber, Stopper, BeginSubscribe, SpeakerAnswers, FinishSubscribe, Store,
         RemoveOld, CheckClosed, Withdraw, RenewerWakes, Renew, Close, TakeState,
         Unsubscribe, server

\* A connection's thread changes its own connection, in one of three ways.
LEMMA OneConn ==
  ASSUME ConnsOK, NEW d \in Conns, SpeakerNotifies(d) \/ Server(d)
  PROVE  /\ DOMAIN conn' = Conns
         /\ \A c \in Conns : c # d => conn'[c] = conn[c]
         /\ DOMAIN conn'[d] = {"does", "sid"}
         /\ conn[d].does = "check" /\ conn'[d].does = "idle" => ~Worth(conn[d].sid)
  <1>1. ASSUME NEW does, Goes(d, does)
        PROVE  /\ DOMAIN conn' = Conns
               /\ \A c \in Conns : c # d => conn'[c] = conn[c]
               /\ DOMAIN conn'[d] = {"does", "sid"}
               /\ conn'[d].does = does
    BY <1>1 DEF Goes, ConnsOK
  <1>2. ASSUME NEW s, conn' = [conn EXCEPT ![d] = s]
        PROVE  /\ DOMAIN conn' = Conns
               /\ \A c \in Conns : c # d => conn'[c] = conn[c]
               /\ conn'[d] = s
    BY <1>2 DEF ConnsOK
  <1>3. CASE SpeakerNotifies(d)
    <2>1. PICK s \in known : /\ conn[d].does = "idle"
                             /\ conn' = [conn EXCEPT ![d] = [does |-> "check", sid |-> s]]
      BY <1>3 DEF SpeakerNotifies
    <2> QED BY <2>1 DEF ConnsOK
  <1>4. ASSUME Answered(d)
        PROVE  /\ DOMAIN conn' = Conns
               /\ \A c \in Conns : c # d => conn'[c] = conn[c]
               /\ DOMAIN conn'[d] = {"does", "sid"}
    BY <1>2, <1>4 DEF Answered
  <1>5. CASE Admit(d)
    BY <1>1, <1>4, <1>5 DEF Admit
  <1>6. CASE GiveUp(d)
    BY <1>4, <1>6 DEF GiveUp
  <1>7. CASE ReadBody(d)
    BY <1>1, <1>4, <1>7 DEF ReadBody
  <1>8. CASE Callback(d)
    BY <1>4, <1>8 DEF Callback
  <1> QED BY <1>3, <1>5, <1>6, <1>7, <1>8 DEF Server

\* Every connection stays well formed.
LEMMA NextConns == ConnsOK /\ [Next]_vars => ConnsOK'
  <1> SUFFICES ASSUME ConnsOK, [Next]_vars PROVE ConnsOK'
    OBVIOUS
  <1>1. ASSUME NEW d \in Conns, SpeakerNotifies(d) \/ Server(d) PROVE ConnsOK'
    BY <1>1, OneConn DEF ConnsOK
  <1>2. ASSUME conn' = conn PROVE ConnsOK'
    BY <1>2 DEF ConnsOK
  <1> QED BY <1>1, <1>2, ManagersLeaveConns DEF Next, SubscriptionEnds, vars, server

\* Only a notification that is worth no wait is turned away at its check.
LEMMA TurnedAway ==
  ASSUME ConnsOK, [Next]_vars, NEW c \in Conns,
         conn[c].does = "check", conn'[c].does = "idle"
  PROVE  ~Worth(conn[c].sid)
  <1>1. conn' # conn
    OBVIOUS
  <1>2. PICK d \in Conns : SpeakerNotifies(d) \/ Server(d)
    BY <1>1, ManagersLeaveConns DEF Next, SubscriptionEnds, server, vars
  <1>3. d = c
    BY <1>2, OneConn
  <1> QED BY <1>2, <1>3, OneConn

\* A speaker's first event is not turned away while its SUBSCRIBE is in flight,
\* for any number of sessions on any speakers.
THEOREM EarlyEventsWait == ConstantsOK /\ Spec => EarlyEventWaits
  <1>1. Init => ConnsOK
    BY DEF Init, ConnsOK
  <1>2. ASSUME IInv, NEW m \in Managers, pc[m] \in InFlight PROVE Worth(Latest(m))
    BY <1>2, SidFacts DEF IInv, Kinds, Worth, Latest
  <1>3. IInv /\ ConnsOK /\ [Next]_vars =>
          [\A c \in Conns : \A m \in Managers :
             (pc[m] \in InFlight /\ conn[c].does = "check" /\ conn[c].sid = <<m, made[m]>>
                /\ conn'[c].does = "idle") => FALSE]_vars
    BY <1>2, TurnedAway DEF Latest
  <1> QED BY <1>1, <1>3, NextConns, RegistryAccounted, PTL DEF Spec, EarlyEventWaits
=============================================================================
