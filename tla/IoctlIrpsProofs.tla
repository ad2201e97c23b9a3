--------------------------- MODULE IoctlIrpsProofs ---------------------------
(***************************************************************************)
(* IInv is an inductive invariant of IoctlIrps, for any number of IRPs,    *)
(* file objects and topology setters and any ring and queue size; the      *)
(* safety properties follow from it.  There is one lemma per action, with  *)
(* one step per conjunct of IInv; the four actions that set the cancel     *)
(* routine under a list's lock, and look at Irp->Cancel after that, are    *)
(* where the protocol is decided and are proved by hand in small steps.    *)
(***************************************************************************)
EXTENDS IoctlIrps, TLAPS

\* Initially nothing was issued: every identifier is free, every list empty.
LEMMA InitInv == Init => IInv
  <1> SUFFICES ASSUME Init PROVE IInv
    OBVIOUS
  <1> USE AgentsDistinct, SentinelsDistinct, SizesPositive DEF Init
  <1>0. /\ \A a \in Agents : pc[a] = "idle" /\ held[a] = NoIrp
        /\ \A i \in Irps : comp[i] = 1 /\ canc[i] = "idle" /\ ~rtn[i]
        /\ \A q \in Queues : queue[q] = {}
        /\ \A f \in Files : batch[f] = {}
    OBVIOUS
  <1>1. TypeOK
    <2>1. "idle" \in Labels /\ "idle" \in CancelLabels
      BY DEF Labels, CancelLabels
    <2>2. ring \in 0..RingFrames /\ events \in 0..EventSlots /\ 1 \in Nat
      OBVIOUS
    <2> QED BY <2>1, <2>2 DEF TypeOK
  <1>2. LabelsSound
    <2>1. /\ \A i \in Irps : pc[i] = "idle"
          /\ \A f \in Files : pc[f] = "idle"
          /\ \A m \in Mixers : pc[m] = "idle"
          /\ pc[Dpc] = "idle" /\ pc[Stream] = "idle" /\ pc[Pnp] = "idle"
          /\ \A i \in EventIrps : pc[i] = "idle"
      BY <1>0 DEF Agents, Irps
    <2> QED BY <1>0, <2>1 DEF LabelsSound, DispatchLabels, LoopLabels,
              OwnLabels, ClaimLabels
  <1>3. OneOwner
    <2>1. NoIrp \notin Irps
      OBVIOUS
    <2> QED BY <1>0, <2>1 DEF OneOwner
  <1>4. CompletionCount
    BY <1>0 DEF CompletionCount
  <1>5. RoutineSound
    BY <1>0 DEF RoutineSound, RoutinePlaced, EntriesReachable, HookedReachable,
       HeldSafe, HookedLocks, Hooked
  <1>6. RundownSound
    BY <1>0 DEF RundownSound, ClaimLabels, Agents
  <1>7. RemovalSound
    BY <1>0 DEF RemovalSound, Withdrawn, Agents
  <1>8. NoneForgotten
    BY <1>0 DEF NoneForgotten
  <1> QED BY <1>1, <1>2, <1>3, <1>4, <1>5, <1>6, <1>7, <1>8 DEF IInv

\* A new request starts with nothing of its previous life left.
LEMMA IssueInv ==
  ASSUME IInv, NEW i \in Irps, Issue(i) PROVE IInv'
  <1> USE AgentsDistinct, SentinelsDistinct, FileOfType, SizesPositive
      DEF IInv, Issue, Goto, listVars, refVars, deviceVars, payloadVars,
          Agents, Irps, Queues, QueueOf, TypeOK, LabelsSound, DispatchLabels,
          OwnLabels, ClaimLabels, LoopLabels, Hooked, Completed
  <1>1. TypeOK' /\ LabelsSound'
    BY DEF Labels, CancelLabels
  <1>2. OneOwner' /\ CompletionCount' /\ NoneForgotten'
    BY DEF OneOwner, CompletionCount, RundownSound, NoneForgotten
  <1>3. RoutineSound'
    BY DEF RoutineSound, RoutinePlaced, EntriesReachable, HookedReachable,
       HeldSafe, HookedLocks
  <1>4. RundownSound' /\ RemovalSound'
    BY DEF RundownSound, RemovalSound, Withdrawn
  <1> QED BY <1>1, <1>2, <1>3, <1>4

\* The dispatch reference is taken, or refused during the rundown wait.
LEMMA AcquireDispatchInv ==
  ASSUME IInv, NEW i \in Irps, AcquireDispatch(i) PROVE IInv'
  <1> USE AgentsDistinct, SentinelsDistinct, FileOfType, SizesPositive
      DEF IInv, AcquireDispatch, Goto, listVars, cancelVars, deviceVars,
          payloadVars, Agents, Irps, Queues, QueueOf, TypeOK, LabelsSound,
          DispatchLabels, OwnLabels, ClaimLabels, LoopLabels, Hooked, Completed
  <1>1. TypeOK' /\ LabelsSound'
    BY DEF Labels, CancelLabels
  <1>2. OneOwner' /\ CompletionCount'
    BY DEF OneOwner, CompletionCount
  <1>3. RoutineSound'
    BY DEF RoutineSound, RoutinePlaced, EntriesReachable, HookedReachable,
       HeldSafe, HookedLocks
  <1>4. RundownSound' /\ RemovalSound'
    BY DEF RundownSound, RemovalSound, Withdrawn
  <1>5. NoneForgotten'
    BY DEF OneOwner, NoneForgotten
  <1> QED BY <1>1, <1>2, <1>3, <1>4, <1>5

\* A dispatcher finds the published context, or lets go of it.
LEMMA LookUpCtxInv ==
  ASSUME IInv, NEW i \in Irps, LookUpCtx(i) PROVE IInv'
  <1> USE AgentsDistinct, SentinelsDistinct, FileOfType, SizesPositive
      DEF IInv, LookUpCtx, Goto, listVars, cancelVars, deviceVars, payloadVars,
          Agents, Irps, Queues, QueueOf, TypeOK, LabelsSound, DispatchLabels,
          OwnLabels, ClaimLabels, LoopLabels, Hooked, Completed
  <1>1. TypeOK' /\ LabelsSound'
    BY DEF Labels, CancelLabels
  <1>2. OneOwner' /\ CompletionCount' /\ NoneForgotten'
    BY DEF OneOwner, CompletionCount, NoneForgotten
  <1>3. RoutineSound'
    BY DEF RoutineSound, RoutinePlaced, EntriesReachable, HookedReachable,
       HeldSafe, HookedLocks
  <1>4. RundownSound' /\ RemovalSound'
    BY DEF RundownSound, RemovalSound, Withdrawn
  <1> QED BY <1>1, <1>2, <1>3, <1>4

\* Parameter checks and the events already queued touch no ownership.
LEMMA HandleRequestInv ==
  ASSUME IInv, NEW i \in Irps, HandleRequest(i) PROVE IInv'
  <1> USE AgentsDistinct, SentinelsDistinct, FileOfType, SizesPositive
      DEF IInv, HandleRequest, Goto, listVars, cancelVars, refVars, deviceVars,
          Agents, Irps, Queues, QueueOf, TypeOK, LabelsSound, DispatchLabels,
          OwnLabels, ClaimLabels, LoopLabels, Hooked, Completed
  <1>1. TypeOK'
    BY DEF Labels, CancelLabels
  <1>2. OneOwner'
    BY DEF OneOwner
  <1>3. CompletionCount'
    BY DEF CompletionCount
  <1>4. NoneForgotten'
    BY DEF NoneForgotten
  <1>5. RoutineSound'
    BY DEF RoutineSound, RoutinePlaced, EntriesReachable, HookedReachable,
       HeldSafe, HookedLocks
  <1>6. RundownSound' /\ RemovalSound'
    BY DEF RundownSound, RemovalSound, Withdrawn
  <1>7. LabelsSound'
    BY DEF Labels, CancelLabels
  <1> QED BY <1>1, <1>2, <1>3, <1>4, <1>5, <1>6, <1>7

\* The IRP's own reference is taken before the IRP can reach a list.
LEMMA PrepareIrpForQueueInv ==
  ASSUME IInv, NEW i \in Irps, PrepareIrpForQueue(i) PROVE IInv'
  <1> USE AgentsDistinct, SentinelsDistinct, FileOfType, SizesPositive
      DEF IInv, PrepareIrpForQueue, Goto, listVars, cancelVars, deviceVars,
          payloadVars, Agents, Irps, Queues, QueueOf, TypeOK, LabelsSound,
          DispatchLabels, OwnLabels, ClaimLabels, LoopLabels, Hooked, Completed
  <1>1. TypeOK' /\ LabelsSound'
    BY DEF Labels, CancelLabels
  <1>2. OneOwner' /\ CompletionCount' /\ NoneForgotten'
    BY DEF OneOwner, CompletionCount, NoneForgotten
  <1>3. RoutineSound'
    BY DEF RoutineSound, RoutinePlaced, EntriesReachable, HookedReachable,
       HeldSafe, HookedLocks
  <1>4. RundownSound' /\ RemovalSound'
    BY DEF RundownSound, RemovalSound, Withdrawn
  <1> QED BY <1>1, <1>2, <1>3, <1>4

\* Under the list's lock the cancel routine is set, unless the lists are closed.
LEMMA HookIrpInv ==
  ASSUME IInv, NEW i \in Irps, HookIrp(i) PROVE IInv'
  <1> USE AgentsDistinct, SentinelsDistinct
      DEF IInv, HookIrp, Goto, listVars, cancelVars, refVars, deviceVars,
          payloadVars
  <1>0. /\ QueueOf(i) \in Queues /\ i \in Agents /\ held[i] = i
        /\ pc[i] = "insert" /\ {"hooked", "refuse"} \subseteq Labels
        /\ \A a \in Agents : a # i => pc'[a] = pc[a]
        /\ held' = held /\ queue' = queue /\ canc' = canc
    BY DEF QueueOf, Queues, LabelsSound, OwnLabels, Agents, Labels, TypeOK
  <1>1. CASE closing
    <2>0. rtn' = rtn /\ lock' = lock /\ pc'[i] = "refuse"
      BY <1>0, <1>1 DEF TypeOK
    <2>1. TypeOK'
      BY <1>0, <1>1 DEF TypeOK
    <2>2. LabelsSound'
      BY <1>0, <2>0 DEF TypeOK, LabelsSound, DispatchLabels, OwnLabels,
         ClaimLabels, LoopLabels, Agents, Irps
    <2>3. OneOwner'
      BY <1>0 DEF OneOwner
    <2>4. CompletionCount'
      BY <1>0, <2>0 DEF CompletionCount, Completed
    <2>5. RoutineSound'
      <3>1. Hooked(i) = FALSE /\ \A a \in Agents : Hooked(a)' <=> Hooked(a)
        BY <1>0, <2>0 DEF Hooked
      <3>2. RoutinePlaced'
        BY <1>0, <2>0, <3>1 DEF RoutineSound, RoutinePlaced
      <3>3. EntriesReachable' /\ HookedReachable' /\ HeldSafe' /\ HookedLocks'
        BY <1>0, <2>0, <3>1 DEF RoutineSound, EntriesReachable, HookedReachable,
           HeldSafe, HookedLocks
      <3> QED BY <3>2, <3>3 DEF RoutineSound
    <2>6. RundownSound'
      BY <1>0, <2>0 DEF RundownSound, ClaimLabels, Agents
    <2>7. RemovalSound'
      BY <1>0, <2>0 DEF RemovalSound, Withdrawn, Agents
    <2>8. NoneForgotten'
      BY <1>0 DEF NoneForgotten
    <2> QED BY <2>1, <2>2, <2>3, <2>4, <2>5, <2>6, <2>7, <2>8
  <1>2. CASE ~closing
    <2>0. /\ rtn' = [rtn EXCEPT ![i] = TRUE] /\ pc'[i] = "hooked"
          /\ lock[QueueOf(i)] = NoAgent
          /\ lock' = [lock EXCEPT ![QueueOf(i)] = i]
      BY <1>0, <1>2 DEF TypeOK, Free
    <2>1. TypeOK'
      <3>1. lock' \in [Queues -> Agents \cup {NoAgent}]
        BY <1>0, <2>0 DEF TypeOK
      <3>2. pc' \in [Agents -> Labels]
        BY <1>0, <1>2 DEF TypeOK
      <3> QED BY <1>0, <2>0, <3>1, <3>2 DEF TypeOK
    <2>2. LabelsSound'
      BY <1>0, <2>0 DEF TypeOK, LabelsSound, DispatchLabels, OwnLabels,
         ClaimLabels, LoopLabels, Agents, Irps
    <2>3. OneOwner'
      BY <1>0 DEF OneOwner
    <2>4. CompletionCount'
      BY <1>0, <2>0 DEF CompletionCount, Completed
    <2>5. RoutineSound'
      <3>1. RoutinePlaced'
        BY <1>0, <2>0 DEF TypeOK, RoutineSound, RoutinePlaced, HeldSafe, Hooked
      <3>2. EntriesReachable'
        BY <1>0, <2>0 DEF TypeOK, OneOwner, RoutineSound, EntriesReachable
      <3>3. HookedReachable'
        BY <1>0, <2>0 DEF TypeOK, OneOwner, RoutineSound, HookedReachable, Hooked
      <3>4. HeldSafe'
        BY <1>0, <2>0 DEF RoutineSound, HeldSafe, Hooked
      <3>5. HookedLocks'
        <4> SUFFICES ASSUME NEW a \in Agents, Hooked(a)'
                     PROVE  lock'[QueueOf(held[a])] = a
          BY <1>0 DEF HookedLocks
        <4>1. CASE a = i
          BY <4>1, <1>0, <2>0 DEF TypeOK
        <4>2. CASE a # i
          <5>1. Hooked(a)
            BY <4>2, <1>0 DEF Hooked
          <5>2. lock[QueueOf(held[a])] = a
            BY <5>1 DEF RoutineSound, HookedLocks
          <5>3. QueueOf(held[a]) \in Queues
            BY DEF QueueOf, Queues
          <5> QED BY <5>2, <5>3, <1>0, <2>0 DEF TypeOK
        <4> QED BY <4>1, <4>2
      <3> QED BY <3>1, <3>2, <3>3, <3>4, <3>5 DEF RoutineSound
    <2>6. RundownSound'
      BY <1>0, <2>0 DEF RundownSound, ClaimLabels, Agents
    <2>7. RemovalSound'
      BY <1>0, <2>0 DEF RemovalSound, Withdrawn, Agents
    <2>8. NoneForgotten'
      BY <1>0 DEF NoneForgotten
    <2> QED BY <2>1, <2>2, <2>3, <2>4, <2>5, <2>6, <2>7, <2>8
  <1> QED BY <1>1, <1>2

\* Still under the lock: the IRP is listed, taken back, or left to the cancel
\* routine that already has it.
LEMMA InsertIrpInv ==
  ASSUME IInv, NEW i \in Irps, InsertIrp(i) PROVE IInv'
  <1> USE AgentsDistinct, SentinelsDistinct
      DEF IInv, InsertIrp, DropTo, Goto, listVars, cancelVars, refVars,
          deviceVars, payloadVars
  <1>0. /\ QueueOf(i) \in Queues /\ i \in Agents /\ held[i] = i
        /\ pc[i] = "hooked" /\ {"refuse", "exit", "drain"} \subseteq Labels
        /\ \A a \in Agents : a # i => pc'[a] = pc[a]
        /\ lock' = [lock EXCEPT ![QueueOf(i)] = NoAgent]
        /\ canc' = canc /\ comp' = comp /\ comp[i] = 0 /\ i \in irpRef
        /\ Hooked(i) /\ i # NoIrp
    BY DEF QueueOf, Queues, LabelsSound, OwnLabels, Agents, Labels, TypeOK,
       CompletionCount, Completed, RundownSound, ClaimLabels, Hooked
  <1>1. \A a \in Agents : a # i => held[a] # i
    BY <1>0 DEF OneOwner
  <1>2. lock' \in [Queues -> Agents \cup {NoAgent}]
    BY <1>0 DEF TypeOK
  <1>3. ASSUME NEW a \in Agents, a # i, Hooked(a)
        PROVE  lock'[QueueOf(held[a])] = a
    <2>1. lock[QueueOf(held[a])] = a /\ lock[QueueOf(i)] = i
      BY <1>0, <1>3 DEF RoutineSound, HookedLocks
    <2>2. QueueOf(held[a]) \in Queues
      BY DEF QueueOf, Queues
    <2> QED BY <2>1, <2>2, <1>0, <1>3 DEF TypeOK
  <1>4. CASE ~cancelled[i]
    <2>0. /\ queue' = [queue EXCEPT ![QueueOf(i)] = @ \cup {i}]
          /\ held' = [held EXCEPT ![i] = NoIrp] /\ rtn' = rtn
          /\ pc'[i] \in {"drain", "exit"} /\ ~Hooked(i)'
          /\ i \in EventIrps => pc'[i] = "exit"
      BY <1>0, <1>4 DEF TypeOK, Hooked
    <2>1. TypeOK'
      BY <1>0, <1>2, <1>4, <2>0 DEF TypeOK
    <2>2. LabelsSound'
      BY <1>0, <2>0 DEF TypeOK, LabelsSound, DispatchLabels, OwnLabels,
         ClaimLabels, LoopLabels, Agents, Irps
    <2>3. OneOwner'
      BY <1>0, <2>0 DEF TypeOK, OneOwner
    <2>4. CompletionCount'
      BY <1>0, <2>0 DEF TypeOK, CompletionCount, Completed
    <2>5. RoutineSound'
      <3>1. RoutinePlaced'
        <4> SUFFICES ASSUME NEW j \in Irps, rtn[j]
                     PROVE /\ canc[j] \in {"idle", "flagged"}
                           /\ \/ j \in queue'[QueueOf(j)]
                              \/ \E a \in Agents : held'[a] = j /\ Hooked(a)'
          BY <1>0, <2>0 DEF RoutinePlaced
        <4>1. canc[j] \in {"idle", "flagged"}
          BY DEF RoutineSound, RoutinePlaced
        <4>2. CASE j = i
          BY <4>1, <4>2, <1>0, <2>0 DEF TypeOK
        <4>3. CASE j # i /\ j \in queue[QueueOf(j)]
          BY <4>1, <4>3, <1>0, <2>0 DEF TypeOK
        <4>4. CASE j # i /\ j \notin queue[QueueOf(j)]
          <5>1. PICK a \in Agents : held[a] = j /\ Hooked(a)
            BY <4>4 DEF RoutineSound, RoutinePlaced
          <5>2. a # i
            BY <5>1, <4>4, <1>0
          <5> QED BY <4>1, <5>1, <5>2, <1>0, <2>0 DEF TypeOK, Hooked
        <4> QED BY <4>2, <4>3, <4>4
      <3>2. EntriesReachable'
        BY <1>0, <2>0 DEF TypeOK, RoutineSound, EntriesReachable, HookedReachable
      <3>3. HookedReachable'
        BY <1>0, <2>0 DEF TypeOK, RoutineSound, HookedReachable, Hooked
      <3>4. HeldSafe'
        BY <1>0, <2>0 DEF TypeOK, RoutineSound, HeldSafe, Hooked
      <3>5. HookedLocks'
        <4> SUFFICES ASSUME NEW a \in Agents, Hooked(a)'
                     PROVE  lock'[QueueOf(held'[a])] = a
          BY DEF HookedLocks
        <4>1. a # i /\ Hooked(a) /\ held'[a] = held[a]
          BY <1>0, <2>0 DEF Hooked, TypeOK
        <4> QED BY <4>1, <1>3
      <3> QED BY <3>1, <3>2, <3>3, <3>4, <3>5 DEF RoutineSound
    <2>6. RundownSound'
      BY <1>0, <2>0 DEF TypeOK, RundownSound, ClaimLabels, Agents
    <2>7. RemovalSound'
      BY <1>0, <2>0 DEF TypeOK, RemovalSound, Withdrawn, Agents
    <2>8. NoneForgotten'
      <3> SUFFICES ASSUME NEW j \in Irps, comp[j] = 0, j # i,
                          j \notin queue[QueueOf(j)],
                          NEW a \in Agents, held[a] = j
                   PROVE  held'[a] = j
        BY <1>0, <2>0 DEF NoneForgotten, TypeOK
      <3> QED BY <1>0, <2>0 DEF TypeOK
    <2> QED BY <2>1, <2>2, <2>3, <2>4, <2>5, <2>6, <2>7, <2>8
  <1>5. CASE cancelled[i] /\ rtn[i]
    <2>0. /\ queue' = queue /\ held' = held /\ ~Hooked(i)'
          /\ rtn' = [rtn EXCEPT ![i] = FALSE] /\ pc'[i] = "refuse"
      BY <1>0, <1>5 DEF TypeOK, Hooked
    <2>1. TypeOK'
      BY <1>0, <1>2, <1>5, <2>0 DEF TypeOK
    <2>2. LabelsSound'
      BY <1>0, <2>0 DEF TypeOK, LabelsSound, DispatchLabels, OwnLabels,
         ClaimLabels, LoopLabels, Agents, Irps
    <2>3. OneOwner'
      BY <2>0 DEF OneOwner
    <2>4. CompletionCount'
      BY <1>0, <2>0 DEF TypeOK, CompletionCount, Completed
    <2>5. RoutineSound'
      <3>1. RoutinePlaced'
        BY <1>0, <1>1, <2>0 DEF TypeOK, RoutineSound, RoutinePlaced, Hooked
      <3>2. EntriesReachable'
        BY <1>0, <2>0 DEF TypeOK, OneOwner, RoutineSound, EntriesReachable
      <3>3. HookedReachable'
        BY <1>0, <1>1, <2>0 DEF TypeOK, LabelsSound, RoutineSound,
           HookedReachable, Hooked
      <3>4. HeldSafe'
        BY <1>0, <1>5, <2>0 DEF TypeOK, RoutineSound, RoutinePlaced, HeldSafe, Hooked
      <3>5. HookedLocks'
        <4> SUFFICES ASSUME NEW a \in Agents, Hooked(a)'
                     PROVE  lock'[QueueOf(held'[a])] = a
          BY DEF HookedLocks
        <4>1. a # i /\ Hooked(a) /\ held'[a] = held[a]
          BY <1>0, <2>0 DEF Hooked, TypeOK
        <4> QED BY <4>1, <1>3
      <3> QED BY <3>1, <3>2, <3>3, <3>4, <3>5 DEF RoutineSound
    <2>6. RundownSound'
      BY <1>0, <2>0 DEF TypeOK, RundownSound, ClaimLabels, Agents
    <2>7. RemovalSound'
      BY <1>0, <2>0 DEF TypeOK, RemovalSound, Withdrawn, Agents
    <2>8. NoneForgotten'
      BY <1>0, <2>0 DEF NoneForgotten
    <2> QED BY <2>1, <2>2, <2>3, <2>4, <2>5, <2>6, <2>7, <2>8
  <1>6. CASE cancelled[i] /\ ~rtn[i]
    <2>0. /\ queue' = queue /\ rtn' = rtn /\ held' = [held EXCEPT ![i] = NoIrp]
          /\ pc'[i] = "exit" /\ ~Hooked(i)' /\ canc[i] = "taken"
      BY <1>0, <1>6 DEF TypeOK, Hooked, RoutineSound, HookedReachable
    <2>1. TypeOK'
      BY <1>0, <1>2, <1>6, <2>0 DEF TypeOK
    <2>2. LabelsSound'
      BY <1>0, <2>0 DEF TypeOK, LabelsSound, DispatchLabels, OwnLabels,
         ClaimLabels, LoopLabels, Agents, Irps
    <2>3. OneOwner'
      <3>1. NoIrp \notin Irps
        OBVIOUS
      <3>2. \A a \in Agents : held'[a] = held[a] \/ held'[a] = NoIrp
        BY <1>0, <2>0 DEF TypeOK
      <3>3. batch' = batch
        OBVIOUS
      <3> QED BY <2>0, <3>1, <3>2, <3>3 DEF TypeOK, OneOwner
    <2>4. CompletionCount'
      BY <1>0, <2>0 DEF TypeOK, CompletionCount, Completed
    <2>5. RoutineSound'
      <3>1. RoutinePlaced'
        <4> SUFFICES ASSUME NEW j \in Irps, rtn[j]
                     PROVE /\ canc[j] \in {"idle", "flagged"}
                           /\ \/ j \in queue[QueueOf(j)]
                              \/ \E a \in Agents : held'[a] = j /\ Hooked(a)'
          BY <1>0, <2>0 DEF RoutinePlaced
        <4>1. canc[j] \in {"idle", "flagged"} /\ j # i
          BY <2>0 DEF RoutineSound, RoutinePlaced
        <4>2. CASE j \in queue[QueueOf(j)]
          BY <4>1, <4>2
        <4>3. CASE j \notin queue[QueueOf(j)]
          <5>1. PICK a \in Agents : held[a] = j /\ Hooked(a)
            BY <4>3 DEF RoutineSound, RoutinePlaced
          <5>2. a # i
            BY <5>1, <4>1, <1>0
          <5> QED BY <4>1, <5>1, <5>2, <1>0, <2>0 DEF TypeOK, Hooked
        <4> QED BY <4>2, <4>3
      <3>2. EntriesReachable'
        BY <1>0, <2>0 DEF RoutineSound, EntriesReachable
      <3>3. HookedReachable'
        BY <1>0, <2>0 DEF TypeOK, RoutineSound, HookedReachable, Hooked
      <3>4. HeldSafe'
        BY <1>0, <2>0 DEF TypeOK, RoutineSound, HeldSafe, Hooked
      <3>5. HookedLocks'
        <4> SUFFICES ASSUME NEW a \in Agents, Hooked(a)'
                     PROVE  lock'[QueueOf(held'[a])] = a
          BY DEF HookedLocks
        <4>1. a # i /\ Hooked(a) /\ held'[a] = held[a]
          BY <1>0, <2>0 DEF Hooked, TypeOK
        <4> QED BY <4>1, <1>3
      <3> QED BY <3>1, <3>2, <3>3, <3>4, <3>5 DEF RoutineSound
    <2>6. RundownSound'
      BY <1>0, <2>0 DEF TypeOK, RundownSound, ClaimLabels, Agents
    <2>7. RemovalSound'
      BY <1>0, <2>0 DEF TypeOK, RemovalSound, Withdrawn, Agents
    <2>8. NoneForgotten'
      <3> SUFFICES ASSUME NEW j \in Irps, comp[j] = 0, j # i,
                          j \notin queue[QueueOf(j)],
                          NEW a \in Agents, held[a] = j
                   PROVE  held'[a] = j
        BY <1>0, <2>0 DEF NoneForgotten, TypeOK
      <3> QED BY <1>0, <2>0 DEF TypeOK
    <2> QED BY <2>1, <2>2, <2>3, <2>4, <2>5, <2>6, <2>7, <2>8
  <1> QED BY <1>4, <1>5, <1>6 DEF TypeOK

\* A refused IRP is completed by the thread that still holds it.
LEMMA RefuseIrpInv ==
  ASSUME IInv, NEW i \in Irps, RefuseIrp(i) PROVE IInv'
  <1> USE AgentsDistinct, SentinelsDistinct, FileOfType, SizesPositive
      DEF IInv, RefuseIrp, Goto, listVars, cancelVars, refVars, deviceVars,
          payloadVars, Agents, Irps, Queues, QueueOf, TypeOK, LabelsSound,
          DispatchLabels, OwnLabels, ClaimLabels, LoopLabels, Hooked, Completed
  <1>1. TypeOK' /\ LabelsSound'
    BY DEF Labels, CancelLabels
  <1>2. OneOwner'
    BY DEF OneOwner
  <1>3. CompletionCount'
    BY DEF OneOwner, CompletionCount, RoutineSound, RoutinePlaced,
       EntriesReachable, HookedReachable, HeldSafe, HookedLocks
  <1>4. NoneForgotten'
    BY DEF NoneForgotten
  <1>5. RoutineSound'
    BY DEF RoutineSound, RoutinePlaced, EntriesReachable, HookedReachable,
       HeldSafe, HookedLocks
  <1>6. RundownSound' /\ RemovalSound'
    BY DEF RundownSound, RemovalSound, Withdrawn
  <1> QED BY <1>1, <1>2, <1>3, <1>4, <1>5, <1>6

\* ... and its reference dropped after that.
LEMMA ReleaseRefusedInv ==
  ASSUME IInv, NEW i \in Irps, ReleaseRefused(i) PROVE IInv'
  <1> USE AgentsDistinct, SentinelsDistinct, FileOfType, SizesPositive
      DEF IInv, ReleaseRefused, Goto, DropTo, listVars, cancelVars, deviceVars,
          payloadVars, Agents, Irps, Queues, QueueOf, TypeOK, LabelsSound,
          DispatchLabels, OwnLabels, ClaimLabels, LoopLabels, Hooked, Completed
  <1>1. TypeOK' /\ LabelsSound'
    BY DEF Labels, CancelLabels
  <1>2. OneOwner' /\ CompletionCount' /\ NoneForgotten'
    BY DEF OneOwner, CompletionCount, NoneForgotten
  <1>3. RoutineSound'
    BY DEF RoutineSound, RoutinePlaced, EntriesReachable, HookedReachable,
       HeldSafe, HookedLocks
  <1>4. RundownSound' /\ RemovalSound'
    BY DEF OneOwner, CompletionCount, RoutineSound, RoutinePlaced,
       EntriesReachable, HookedReachable, HeldSafe, HookedLocks, RundownSound,
       RemovalSound, Withdrawn
  <1> QED BY <1>1, <1>2, <1>3, <1>4

\* A request that was never pended is completed on its own thread.
LEMMA CompleteSyncInv ==
  ASSUME IInv, NEW i \in Irps, CompleteSync(i) PROVE IInv'
  <1> USE AgentsDistinct, SentinelsDistinct, FileOfType, SizesPositive
      DEF IInv, CompleteSync, Goto, DropTo, listVars, cancelVars, refVars,
          deviceVars, payloadVars, Agents, Irps, Queues, QueueOf, TypeOK,
          LabelsSound, DispatchLabels, OwnLabels, ClaimLabels, LoopLabels,
          Hooked, Completed
  <1>1. TypeOK' /\ LabelsSound'
    BY DEF Labels, CancelLabels
  <1>2. OneOwner' /\ CompletionCount'
    BY DEF OneOwner, CompletionCount, RoutineSound, RoutinePlaced,
       EntriesReachable, HookedReachable, HeldSafe, HookedLocks
  <1>3. RoutineSound'
    BY DEF RoutineSound, RoutinePlaced, EntriesReachable, HookedReachable,
       HeldSafe, HookedLocks
  <1>4. RundownSound' /\ RemovalSound'
    BY DEF RundownSound, RemovalSound, Withdrawn
  <1>5. NoneForgotten'
    BY DEF OneOwner, RoutineSound, RoutinePlaced,
       EntriesReachable, HookedReachable, HeldSafe, HookedLocks, NoneForgotten
  <1> QED BY <1>1, <1>2, <1>3, <1>4, <1>5

\* The dispatch reference goes last.
LEMMA LeaveDispatchInv ==
  ASSUME IInv, NEW i \in Irps, LeaveDispatch(i) PROVE IInv'
  <1> USE AgentsDistinct, SentinelsDistinct, FileOfType, SizesPositive
      DEF IInv, LeaveDispatch, Goto, listVars, cancelVars, deviceVars,
          payloadVars, Agents, Irps, Queues, QueueOf, TypeOK, LabelsSound,
          DispatchLabels, OwnLabels, ClaimLabels, LoopLabels, Hooked, Completed
  <1>1. TypeOK' /\ LabelsSound'
    BY DEF Labels, CancelLabels
  <1>2. OneOwner'
    BY DEF OneOwner
  <1>3. CompletionCount'
    BY DEF CompletionCount
  <1>4. NoneForgotten'
    BY DEF NoneForgotten
  <1>5. RoutineSound'
    BY DEF RoutineSound, RoutinePlaced, EntriesReachable, HookedReachable,
       HeldSafe, HookedLocks
  <1>6. RundownSound' /\ RemovalSound'
    BY DEF RundownSound, RemovalSound, Withdrawn
  <1> QED BY <1>1, <1>2, <1>3, <1>4, <1>5, <1>6

\* An agent completes the IRP it claimed.
LEMMA CompleteClaimedInv ==
  ASSUME IInv, NEW a \in Agents, CompleteClaimed(a) PROVE IInv'
  <1> USE AgentsDistinct, SentinelsDistinct, FileOfType, SizesPositive
      DEF IInv, CompleteClaimed, Goto, listVars, cancelVars, refVars,
          deviceVars, payloadVars, Agents, Irps, Queues, QueueOf, TypeOK,
          LabelsSound, DispatchLabels, OwnLabels, ClaimLabels, LoopLabels,
          Hooked, Completed
  <1>1. TypeOK' /\ LabelsSound'
    BY DEF Labels, CancelLabels
  <1>2. OneOwner'
    BY DEF OneOwner
  <1>3. CompletionCount'
    BY DEF OneOwner, CompletionCount, RoutineSound, RoutinePlaced,
       EntriesReachable, HookedReachable, HeldSafe, HookedLocks
  <1>4. NoneForgotten'
    BY DEF NoneForgotten
  <1>5. RoutineSound'
    BY DEF RoutineSound, RoutinePlaced, EntriesReachable, HookedReachable,
       HeldSafe, HookedLocks
  <1>6. RundownSound' /\ RemovalSound'
    BY DEF RundownSound, RemovalSound, Withdrawn
  <1> QED BY <1>1, <1>2, <1>3, <1>4, <1>5, <1>6

\* ... and then drops the IRP's reference.
LEMMA ReleaseClaimedInv ==
  ASSUME IInv, NEW a \in Agents, ReleaseClaimed(a) PROVE IInv'
  <1> USE AgentsDistinct, SentinelsDistinct, FileOfType, SizesPositive
      DEF IInv, ReleaseClaimed, After, Goto, DropTo, listVars, cancelVars,
          deviceVars, payloadVars, Agents, Irps, Queues, QueueOf, TypeOK,
          LabelsSound, DispatchLabels, OwnLabels, ClaimLabels, LoopLabels,
          Hooked, Completed
  <1>1. TypeOK' /\ LabelsSound'
    BY DEF Labels, CancelLabels
  <1>2. OneOwner' /\ CompletionCount'
    BY DEF OneOwner, CompletionCount
  <1>3. RoutineSound'
    BY DEF RoutineSound, RoutinePlaced, EntriesReachable, HookedReachable,
       HeldSafe, HookedLocks
  <1>4. RundownSound'
    BY DEF OneOwner, CompletionCount, RoutineSound, RoutinePlaced,
       EntriesReachable, HookedReachable, HeldSafe, HookedLocks, RundownSound,
       Withdrawn
  <1>5. NoneForgotten'
    BY DEF CompletionCount, NoneForgotten
  <1>6. RemovalSound'
    BY DEF OneOwner, CompletionCount, RoutineSound, RoutinePlaced,
       EntriesReachable, HookedReachable, HeldSafe, HookedLocks, RemovalSound,
       Withdrawn
  <1> QED BY <1>1, <1>2, <1>3, <1>4, <1>5, <1>6

\* Looking at the ring decides only where the loop goes.
LEMMA CheckAvailableInv ==
  ASSUME IInv, NEW a \in AudioIrps \cup {Dpc}, CheckAvailable(a) PROVE IInv'
  <1> USE AgentsDistinct, SentinelsDistinct, FileOfType, SizesPositive
      DEF IInv, CheckAvailable, LeaveLoop, Goto, listVars, cancelVars, refVars,
          deviceVars, payloadVars, Agents, Irps, Queues, QueueOf, TypeOK,
          LabelsSound, DispatchLabels, OwnLabels, ClaimLabels, LoopLabels,
          Hooked, Completed
  <1>1. TypeOK' /\ LabelsSound'
    BY DEF Labels, CancelLabels
  <1>2. OneOwner' /\ CompletionCount' /\ NoneForgotten'
    BY DEF OneOwner, CompletionCount, NoneForgotten
  <1>3. RoutineSound'
    BY DEF RoutineSound, RoutinePlaced, EntriesReachable, HookedReachable,
       HeldSafe, HookedLocks
  <1>4. RundownSound' /\ RemovalSound'
    BY DEF RundownSound, RemovalSound, Withdrawn
  <1> QED BY <1>1, <1>2, <1>3, <1>4

\* The drain loop claims an IRP whose cancel routine it could take.
LEMMA PopAudioIrpInv ==
  ASSUME IInv, NEW a \in AudioIrps \cup {Dpc}, PopAudioIrp(a) PROVE IInv'
  <1> USE AgentsDistinct, SentinelsDistinct, FileOfType, SizesPositive
      DEF IInv, PopAudioIrp, LeaveLoop, Goto, Free, cancelVars, refVars,
          deviceVars, payloadVars, Agents, Irps, Queues, QueueOf, TypeOK,
          LabelsSound, DispatchLabels, OwnLabels, ClaimLabels, LoopLabels,
          Hooked, Completed
  <1>1. CASE \E i \in queue["audio"] : \E passed \in SUBSET queue["audio"] :
               Claim(a, "audio", i, passed, "copy")
    <2> PICK i \in queue["audio"], passed \in SUBSET queue["audio"] :
             Claim(a, "audio", i, passed, "copy")
      BY <1>1
    <2> USE DEF Claim, Dequeue
    <2>0. i \in Irps /\ held[a] = NoIrp /\ a \in Agents /\ QueueOf(i) = "audio"
      BY DEF OneOwner
    <2>1. TypeOK' /\ LabelsSound'
      BY <2>0 DEF Labels, CancelLabels
    <2>2. OneOwner'
      BY <2>0 DEF OneOwner
    <2>3. CompletionCount'
      BY <2>0 DEF CompletionCount
    <2>4. NoneForgotten'
      BY <2>0 DEF OneOwner, CompletionCount, RoutineSound, RoutinePlaced,
         EntriesReachable, HookedReachable, HeldSafe, HookedLocks,
         NoneForgotten
    <2>5. RoutineSound'
      BY <2>0 DEF OneOwner, RoutineSound, RoutinePlaced, EntriesReachable,
         HookedReachable, HeldSafe, HookedLocks
    <2>6. RundownSound' /\ RemovalSound'
      BY <2>0 DEF RundownSound, RemovalSound, Withdrawn
    <2> QED BY <2>1, <2>2, <2>3, <2>4, <2>5, <2>6
  <1>2. CASE FindNone(a, "audio", LeaveLoop(a))
    <2> USE <1>2 DEF FindNone, Dequeue
    <2>1. TypeOK' /\ LabelsSound'
      BY DEF Labels, CancelLabels
    <2>2. OneOwner'
      BY DEF OneOwner
    <2>3. CompletionCount'
      BY DEF CompletionCount
    <2>4. NoneForgotten'
      BY DEF OneOwner, CompletionCount, RoutineSound, RoutinePlaced,
         EntriesReachable, HookedReachable, HeldSafe, HookedLocks,
         NoneForgotten
    <2>5. RoutineSound'
      BY DEF OneOwner, RoutineSound, RoutinePlaced, EntriesReachable,
         HookedReachable, HeldSafe, HookedLocks
    <2>6. RundownSound' /\ RemovalSound'
      BY DEF RundownSound, RemovalSound, Withdrawn
    <2> QED BY <2>1, <2>2, <2>3, <2>4, <2>5, <2>6
  <1> QED BY <1>1, <1>2 DEF Dequeue

\* Reading the ring leaves the claimed IRP with its agent.
LEMMA CopyPacketInv ==
  ASSUME IInv, NEW a \in AudioIrps \cup {Dpc}, CopyPacket(a) PROVE IInv'
  <1> USE AgentsDistinct, SentinelsDistinct, FileOfType, SizesPositive
      DEF IInv, CopyPacket, Goto, listVars, cancelVars, refVars, deviceVars,
          Agents, Irps, Queues, QueueOf, TypeOK, LabelsSound, DispatchLabels,
          OwnLabels, ClaimLabels, LoopLabels, Hooked, Completed
  <1>1. TypeOK'
    BY DEF Labels, CancelLabels, Smaller
  <1>2. LabelsSound'
    OBVIOUS
  <1>3. OneOwner'
    BY DEF OneOwner
  <1>4. CompletionCount'
    BY DEF CompletionCount
  <1>5. NoneForgotten'
    BY DEF NoneForgotten
  <1>6. RoutineSound'
    BY DEF RoutineSound, RoutinePlaced, EntriesReachable, HookedReachable,
       HeldSafe, HookedLocks
  <1>7. RundownSound' /\ RemovalSound'
    BY DEF RundownSound, RemovalSound, Withdrawn
  <1> QED BY <1>1, <1>2, <1>3, <1>4, <1>5, <1>6, <1>7

\* The drain loop puts an IRP back: the routine is set under the lock, unless
\* the lists are closed.
LEMMA HookRequeuedInv ==
  ASSUME IInv, NEW a \in AudioIrps \cup {Dpc}, HookRequeued(a) PROVE IInv'
  <1> USE AgentsDistinct, SentinelsDistinct
      DEF IInv, HookRequeued, Goto, listVars, cancelVars, refVars, deviceVars,
          payloadVars
  <1>0. /\ "audio" \in Queues /\ a \in Agents /\ held[a] \in AudioIrps
        /\ held[a] \in Irps /\ held[a] # NoIrp /\ QueueOf(held[a]) = "audio"
        /\ pc[a] = "requeue" /\ {"rehooked", "complete"} \subseteq Labels
        /\ \A b \in Agents : b # a => pc'[b] = pc[b]
        /\ held' = held /\ queue' = queue /\ canc' = canc /\ comp' = comp
        /\ held[a] \in irpRef
    BY DEF QueueOf, Queues, LabelsSound, ClaimLabels, Agents, Irps, Labels,
       TypeOK, RundownSound
  <1>1. CASE closing
    <2>0. rtn' = rtn /\ lock' = lock /\ pc'[a] = "complete"
      BY <1>0, <1>1 DEF TypeOK
    <2>1. TypeOK'
      BY <1>0, <1>1 DEF TypeOK
    <2>2. LabelsSound'
      BY <1>0, <1>1 DEF TypeOK, LabelsSound, DispatchLabels, OwnLabels,
         ClaimLabels, LoopLabels, Agents, Irps
    <2>3. OneOwner'
      BY <1>0 DEF OneOwner
    <2>4. CompletionCount'
      BY <1>0, <2>0 DEF CompletionCount, Completed
    <2>5. RoutineSound'
      <3>1. \A b \in Agents : Hooked(b)' <=> Hooked(b)
        BY <1>0, <2>0 DEF Hooked
      <3>2. RoutinePlaced'
        BY <1>0, <2>0, <3>1 DEF RoutineSound, RoutinePlaced
      <3>3. EntriesReachable' /\ HookedReachable' /\ HeldSafe' /\ HookedLocks'
        BY <1>0, <2>0, <3>1 DEF RoutineSound, EntriesReachable, HookedReachable,
           HeldSafe, HookedLocks
      <3> QED BY <3>2, <3>3 DEF RoutineSound
    <2>6. RundownSound'
      BY <1>0, <2>0 DEF RundownSound, ClaimLabels, Agents, Irps
    <2>7. RemovalSound'
      BY <1>0, <2>0 DEF RemovalSound, Withdrawn, Agents, Irps
    <2>8. NoneForgotten'
      BY <1>0 DEF NoneForgotten
    <2> QED BY <2>1, <2>2, <2>3, <2>4, <2>5, <2>6, <2>7, <2>8
  <1>2. CASE ~closing
    <2>0. /\ rtn' = [rtn EXCEPT ![held[a]] = TRUE] /\ pc'[a] = "rehooked"
          /\ lock["audio"] = NoAgent /\ lock' = [lock EXCEPT !["audio"] = a]
      BY <1>0, <1>2 DEF TypeOK, Free
    <2>1. TypeOK'
      <3>1. lock' \in [Queues -> Agents \cup {NoAgent}]
        BY <1>0, <2>0 DEF TypeOK
      <3>2. pc' \in [Agents -> Labels]
        BY <1>0, <1>2 DEF TypeOK
      <3> QED BY <1>0, <2>0, <3>1, <3>2 DEF TypeOK
    <2>2. LabelsSound'
      BY <1>0, <1>2 DEF TypeOK, LabelsSound, DispatchLabels, OwnLabels,
         ClaimLabels, LoopLabels, Agents, Irps
    <2>3. OneOwner'
      BY <1>0 DEF OneOwner
    <2>4. CompletionCount'
      BY <1>0, <2>0 DEF CompletionCount, Completed
    <2>5. RoutineSound'
      <3>1. RoutinePlaced'
        BY <1>0, <2>0 DEF TypeOK, RoutineSound, RoutinePlaced, HeldSafe, Hooked
      <3>2. EntriesReachable'
        BY <1>0, <2>0 DEF TypeOK, OneOwner, RoutineSound, EntriesReachable
      <3>3. HookedReachable'
        BY <1>0, <2>0 DEF TypeOK, OneOwner, RoutineSound, HookedReachable, Hooked
      <3>4. HeldSafe'
        BY <1>0, <2>0 DEF RoutineSound, HeldSafe, Hooked
      <3>5. HookedLocks'
        <4> SUFFICES ASSUME NEW b \in Agents, Hooked(b)'
                     PROVE  lock'[QueueOf(held[b])] = b
          BY <1>0 DEF HookedLocks
        <4>1. CASE b = a
          BY <4>1, <1>0, <2>0 DEF TypeOK
        <4>2. CASE b # a
          <5>1. Hooked(b)
            BY <4>2, <1>0 DEF Hooked
          <5>2. lock[QueueOf(held[b])] = b
            BY <5>1 DEF RoutineSound, HookedLocks
          <5>3. QueueOf(held[b]) \in Queues
            BY DEF QueueOf, Queues
          <5> QED BY <5>2, <5>3, <1>0, <2>0 DEF TypeOK
        <4> QED BY <4>1, <4>2
      <3> QED BY <3>1, <3>2, <3>3, <3>4, <3>5 DEF RoutineSound
    <2>6. RundownSound'
      BY <1>0, <2>0 DEF RundownSound, ClaimLabels, Agents, Irps
    <2>7. RemovalSound'
      BY <1>0, <2>0 DEF RemovalSound, Withdrawn, Agents, Irps
    <2>8. NoneForgotten'
      BY <1>0 DEF NoneForgotten
    <2> QED BY <2>1, <2>2, <2>3, <2>4, <2>5, <2>6, <2>7, <2>8
  <1> QED BY <1>1, <1>2

\* ... and, unless a cancellation can be taken back, the IRP is listed: if its
\* routine is gone, the cancel routine is waiting for the lock to unlink it.
LEMMA InsertRequeuedInv ==
  ASSUME IInv, NEW a \in AudioIrps \cup {Dpc}, InsertRequeued(a) PROVE IInv'
  <1> USE AgentsDistinct, SentinelsDistinct
      DEF IInv, InsertRequeued, DropTo, Goto, LeaveLoop, listVars, cancelVars,
          refVars, deviceVars, payloadVars
  <1>0. /\ "audio" \in Queues /\ a \in Agents /\ held[a] \in AudioIrps
        /\ held[a] \in Irps /\ held[a] # NoIrp /\ QueueOf(held[a]) = "audio"
        /\ pc[a] = "rehooked" /\ {"exit", "idle", "complete"} \subseteq Labels
        /\ \A b \in Agents : b # a => pc'[b] = pc[b]
        /\ lock' = [lock EXCEPT !["audio"] = NoAgent]
        /\ canc' = canc /\ comp' = comp /\ comp[held[a]] = 0
        /\ held[a] \in irpRef /\ Hooked(a)
    BY DEF QueueOf, Queues, LabelsSound, ClaimLabels, Agents, Irps, Labels,
       TypeOK, RundownSound, CompletionCount, Completed, Hooked
  <1>1. \A b \in Agents : b # a => held[b] # held[a]
    BY <1>0 DEF OneOwner
  <1>2. lock' \in [Queues -> Agents \cup {NoAgent}]
    BY <1>0 DEF TypeOK
  <1>3. ASSUME NEW b \in Agents, b # a, Hooked(b)
        PROVE  lock'[QueueOf(held[b])] = b
    <2>1. lock[QueueOf(held[b])] = b /\ lock["audio"] = a
      BY <1>0, <1>3 DEF RoutineSound, HookedLocks
    <2>2. QueueOf(held[b]) \in Queues
      BY DEF QueueOf, Queues
    <2> QED BY <2>1, <2>2, <1>0, <1>3 DEF TypeOK
  <1>4. CASE cancelled[held[a]] /\ rtn[held[a]]
    <2>0. /\ queue' = queue /\ held' = held /\ ~Hooked(a)'
          /\ rtn' = [rtn EXCEPT ![held[a]] = FALSE] /\ pc'[a] = "complete"
      BY <1>0, <1>4 DEF TypeOK, Hooked
    <2>1. TypeOK'
      BY <1>0, <1>2, <1>4, <2>0 DEF TypeOK
    <2>2. LabelsSound'
      BY <1>0, <2>0 DEF TypeOK, LabelsSound, DispatchLabels, OwnLabels,
         ClaimLabels, LoopLabels, Agents, Irps
    <2>3. OneOwner'
      BY <2>0 DEF OneOwner
    <2>4. CompletionCount'
      BY <1>0, <2>0 DEF TypeOK, CompletionCount, Completed
    <2>5. RoutineSound'
      <3>1. RoutinePlaced'
        BY <1>0, <1>1, <2>0 DEF TypeOK, RoutineSound, RoutinePlaced, Hooked
      <3>2. EntriesReachable'
        BY <1>0, <2>0 DEF TypeOK, OneOwner, RoutineSound, EntriesReachable
      <3>3. HookedReachable'
        BY <1>0, <1>1, <2>0 DEF TypeOK, LabelsSound, RoutineSound,
           HookedReachable, Hooked
      <3>4. HeldSafe'
        BY <1>0, <1>4, <2>0 DEF TypeOK, RoutineSound, RoutinePlaced, HeldSafe, Hooked
      <3>5. HookedLocks'
        <4> SUFFICES ASSUME NEW b \in Agents, Hooked(b)'
                     PROVE  lock'[QueueOf(held'[b])] = b
          BY DEF HookedLocks
        <4>1. b # a /\ Hooked(b) /\ held'[b] = held[b]
          BY <1>0, <2>0 DEF Hooked, TypeOK
        <4> QED BY <4>1, <1>3
      <3> QED BY <3>1, <3>2, <3>3, <3>4, <3>5 DEF RoutineSound
    <2>6. RundownSound'
      BY <1>0, <2>0 DEF TypeOK, RundownSound, ClaimLabels, Agents, Irps
    <2>7. RemovalSound'
      BY <1>0, <2>0 DEF TypeOK, RemovalSound, Withdrawn, Agents, Irps
    <2>8. NoneForgotten'
      BY <1>0, <2>0 DEF NoneForgotten
    <2> QED BY <2>1, <2>2, <2>3, <2>4, <2>5, <2>6, <2>7, <2>8
  <1>5. CASE ~(cancelled[held[a]] /\ rtn[held[a]])
    <2>0. /\ queue' = [queue EXCEPT !["audio"] = @ \cup {held[a]}]
          /\ held' = [held EXCEPT ![a] = NoIrp] /\ rtn' = rtn /\ ~Hooked(a)'
          /\ a = Dpc => pc'[a] = "idle"
          /\ a # Dpc => pc'[a] = "exit"
      BY <1>0, <1>5 DEF TypeOK, Hooked
    <2>1. TypeOK'
      BY <1>0, <1>2, <1>5, <2>0 DEF TypeOK
    <2>2. LabelsSound'
      BY <1>0, <2>0 DEF TypeOK, LabelsSound, DispatchLabels, OwnLabels,
         ClaimLabels, LoopLabels, Agents, Irps
    <2>3. OneOwner'
      BY <1>0, <2>0 DEF TypeOK, OneOwner
    <2>4. CompletionCount'
      BY <1>0, <2>0 DEF TypeOK, CompletionCount, Completed
    <2>5. RoutineSound'
      <3>1. RoutinePlaced'
        <4> SUFFICES ASSUME NEW j \in Irps, rtn[j]
                     PROVE /\ canc[j] \in {"idle", "flagged"}
                           /\ \/ j \in queue'[QueueOf(j)]
                              \/ \E b \in Agents : held'[b] = j /\ Hooked(b)'
          BY <1>0, <2>0 DEF RoutinePlaced
        <4>1. canc[j] \in {"idle", "flagged"}
          BY DEF RoutineSound, RoutinePlaced
        <4>2. CASE j = held[a]
          BY <4>1, <4>2, <1>0, <2>0 DEF TypeOK
        <4>3. CASE j # held[a] /\ j \in queue[QueueOf(j)]
          BY <4>1, <4>3, <1>0, <2>0 DEF TypeOK
        <4>4. CASE j # held[a] /\ j \notin queue[QueueOf(j)]
          <5>1. PICK b \in Agents : held[b] = j /\ Hooked(b)
            BY <4>4 DEF RoutineSound, RoutinePlaced
          <5>2. b # a
            BY <5>1, <4>4
          <5> QED BY <4>1, <5>1, <5>2, <1>0, <2>0 DEF TypeOK, Hooked
        <4> QED BY <4>2, <4>3, <4>4
      <3>2. EntriesReachable'
        BY <1>0, <2>0 DEF TypeOK, RoutineSound, EntriesReachable, HookedReachable
      <3>3. HookedReachable'
        BY <1>0, <2>0 DEF TypeOK, RoutineSound, HookedReachable, Hooked
      <3>4. HeldSafe'
        BY <1>0, <2>0 DEF TypeOK, RoutineSound, HeldSafe, Hooked
      <3>5. HookedLocks'
        <4> SUFFICES ASSUME NEW b \in Agents, Hooked(b)'
                     PROVE  lock'[QueueOf(held'[b])] = b
          BY DEF HookedLocks
        <4>1. b # a /\ Hooked(b) /\ held'[b] = held[b]
          BY <1>0, <2>0 DEF Hooked, TypeOK
        <4> QED BY <4>1, <1>3
      <3> QED BY <3>1, <3>2, <3>3, <3>4, <3>5 DEF RoutineSound
    <2>6. RundownSound'
      BY <1>0, <2>0 DEF TypeOK, RundownSound, ClaimLabels, Agents, Irps
    <2>7. RemovalSound'
      BY <1>0, <2>0 DEF TypeOK, RemovalSound, Withdrawn, Agents, Irps
    <2>8. NoneForgotten'
      <3> SUFFICES ASSUME NEW j \in Irps, comp[j] = 0, j # held[a],
                          j \notin queue[QueueOf(j)],
                          NEW b \in Agents, held[b] = j
                   PROVE  held'[b] = j
        BY <1>0, <2>0 DEF NoneForgotten, TypeOK
      <3> QED BY <1>0, <2>0 DEF TypeOK
    <2> QED BY <2>1, <2>2, <2>3, <2>4, <2>5, <2>6, <2>7, <2>8
  <1> QED BY <1>4, <1>5

\* Stream start empties the ring.
LEMMA StreamStartInv ==
  ASSUME IInv, StreamStart PROVE IInv'
  <1> USE AgentsDistinct, SentinelsDistinct, FileOfType, SizesPositive
      DEF IInv, StreamStart, Goto, listVars, cancelVars, refVars, deviceVars,
          Agents, Irps, Queues, QueueOf, TypeOK, LabelsSound, DispatchLabels,
          OwnLabels, ClaimLabels, LoopLabels, Hooked, Completed
  <1>1. TypeOK' /\ LabelsSound'
    BY DEF Labels, CancelLabels
  <1>2. OneOwner' /\ CompletionCount' /\ NoneForgotten'
    BY DEF OneOwner, CompletionCount, NoneForgotten
  <1>3. RoutineSound'
    BY DEF RoutineSound, RoutinePlaced, EntriesReachable, HookedReachable,
       HeldSafe, HookedLocks
  <1>4. RundownSound' /\ RemovalSound'
    BY DEF RundownSound, RemovalSound, Withdrawn
  <1> QED BY <1>1, <1>2, <1>3, <1>4

\* Stream stop begins once the timer's DPC is through.
LEMMA StreamStopInv ==
  ASSUME IInv, StreamStop PROVE IInv'
  <1> USE AgentsDistinct, SentinelsDistinct, FileOfType, SizesPositive
      DEF IInv, StreamStop, Goto, listVars, cancelVars, refVars, deviceVars,
          Agents, Irps, Queues, QueueOf, TypeOK, LabelsSound, DispatchLabels,
          OwnLabels, ClaimLabels, LoopLabels, Hooked, Completed
  <1>1. TypeOK'
    BY DEF Labels, CancelLabels
  <1>2. OneOwner' /\ CompletionCount' /\ NoneForgotten'
    BY DEF OneOwner, CompletionCount, NoneForgotten
  <1>3. RoutineSound'
    BY DEF RoutineSound, RoutinePlaced, EntriesReachable, HookedReachable,
       HeldSafe, HookedLocks
  <1>4. RundownSound' /\ RemovalSound'
    BY DEF RundownSound, RemovalSound, Withdrawn
  <1>5. LabelsSound'
    BY DEF Labels, CancelLabels
  <1> QED BY <1>1, <1>2, <1>3, <1>4, <1>5

\* Stream stop claims an audio IRP to complete it empty.
LEMMA DrainOnStopInv ==
  ASSUME IInv, DrainOnStop PROVE IInv'
  <1> USE AgentsDistinct, SentinelsDistinct, FileOfType, SizesPositive
      DEF IInv, DrainOnStop, Goto, Free, cancelVars, refVars, deviceVars,
          payloadVars, Agents, Irps, Queues, QueueOf, TypeOK, LabelsSound,
          DispatchLabels, OwnLabels, ClaimLabels, LoopLabels, Hooked, Completed
  <1>1. CASE \E i \in queue["audio"] : \E passed \in SUBSET queue["audio"] :
               Claim(Stream, "audio", i, passed, "complete")
    <2> PICK i \in queue["audio"], passed \in SUBSET queue["audio"] :
             Claim(Stream, "audio", i, passed, "complete")
      BY <1>1
    <2> USE DEF Claim, Dequeue
    <2>0. i \in Irps /\ held[Stream] = NoIrp /\ Stream \in Agents /\ QueueOf(i) = "audio"
      BY DEF OneOwner
    <2>1. TypeOK' /\ LabelsSound'
      BY <2>0 DEF Labels, CancelLabels
    <2>2. OneOwner'
      BY <2>0 DEF OneOwner
    <2>3. CompletionCount'
      BY <2>0 DEF CompletionCount
    <2>4. NoneForgotten'
      BY <2>0 DEF OneOwner, CompletionCount, RoutineSound, RoutinePlaced,
         EntriesReachable, HookedReachable, HeldSafe, HookedLocks,
         NoneForgotten
    <2>5. RoutineSound'
      BY <2>0 DEF OneOwner, RoutineSound, RoutinePlaced, EntriesReachable,
         HookedReachable, HeldSafe, HookedLocks
    <2>6. RundownSound' /\ RemovalSound'
      BY <2>0 DEF RundownSound, RemovalSound, Withdrawn
    <2> QED BY <2>1, <2>2, <2>3, <2>4, <2>5, <2>6
  <1>2. CASE FindNone(Stream, "audio", "post")
    <2> USE <1>2 DEF FindNone, Dequeue
    <2>1. TypeOK' /\ LabelsSound'
      BY DEF Labels, CancelLabels
    <2>2. OneOwner'
      BY DEF OneOwner
    <2>3. CompletionCount'
      BY DEF CompletionCount
    <2>4. NoneForgotten'
      BY DEF OneOwner, CompletionCount, RoutineSound, RoutinePlaced,
         EntriesReachable, HookedReachable, HeldSafe, HookedLocks,
         NoneForgotten
    <2>5. RoutineSound'
      BY DEF OneOwner, RoutineSound, RoutinePlaced, EntriesReachable,
         HookedReachable, HeldSafe, HookedLocks
    <2>6. RundownSound' /\ RemovalSound'
      BY DEF RundownSound, RemovalSound, Withdrawn
    <2> QED BY <2>1, <2>2, <2>3, <2>4, <2>5, <2>6
  <1> QED BY <1>1, <1>2 DEF Dequeue

\* The DPC writes one tick of PCM.
LEMMA ProduceInv ==
  ASSUME IInv, Produce PROVE IInv'
  <1> USE AgentsDistinct, SentinelsDistinct, FileOfType, SizesPositive
      DEF IInv, Produce, Goto, listVars, cancelVars, refVars, deviceVars,
          Agents, Irps, Queues, QueueOf, TypeOK, LabelsSound, DispatchLabels,
          OwnLabels, ClaimLabels, LoopLabels, Hooked, Completed, Smaller
  <1>1. TypeOK' /\ LabelsSound'
    BY DEF Labels, CancelLabels
  <1>2. OneOwner' /\ CompletionCount' /\ NoneForgotten'
    BY DEF OneOwner, CompletionCount, NoneForgotten
  <1>3. RoutineSound'
    BY DEF RoutineSound, RoutinePlaced, EntriesReachable, HookedReachable,
       HeldSafe, HookedLocks
  <1>4. RundownSound' /\ RemovalSound'
    BY DEF RundownSound, RemovalSound, Withdrawn
  <1> QED BY <1>1, <1>2, <1>3, <1>4

\* A topology setter begins to post an event.
LEMMA ChangeControlInv ==
  ASSUME IInv, NEW m \in Mixers, ChangeControl(m) PROVE IInv'
  <1> USE AgentsDistinct, SentinelsDistinct, FileOfType, SizesPositive
      DEF IInv, ChangeControl, Goto, listVars, cancelVars, refVars, deviceVars,
          payloadVars, Agents, Irps, Queues, QueueOf, TypeOK, LabelsSound,
          DispatchLabels, OwnLabels, ClaimLabels, LoopLabels, Hooked, Completed
  <1>1. TypeOK' /\ LabelsSound'
    BY DEF Labels, CancelLabels
  <1>2. OneOwner' /\ CompletionCount' /\ NoneForgotten'
    BY DEF OneOwner, CompletionCount, NoneForgotten
  <1>3. RoutineSound'
    BY DEF RoutineSound, RoutinePlaced, EntriesReachable, HookedReachable,
       HeldSafe, HookedLocks
  <1>4. RundownSound' /\ RemovalSound'
    BY DEF RundownSound, RemovalSound, Withdrawn
  <1> QED BY <1>1, <1>2, <1>3, <1>4

\* A poster claims a waiting event IRP.
LEMMA OfferEventInv ==
  ASSUME IInv, NEW a \in Mixers \cup {Stream}, OfferEvent(a) PROVE IInv'
  <1> USE AgentsDistinct, SentinelsDistinct, FileOfType, SizesPositive
      DEF IInv, OfferEvent, Goto, Free, cancelVars, refVars, deviceVars,
          payloadVars, Agents, Irps, Queues, QueueOf, TypeOK, LabelsSound,
          DispatchLabels, OwnLabels, ClaimLabels, LoopLabels, Hooked, Completed
  <1>1. CASE \E i \in queue["event"] : \E passed \in SUBSET queue["event"] :
               Claim(a, "event", i, passed, "complete")
    <2> PICK i \in queue["event"], passed \in SUBSET queue["event"] :
             Claim(a, "event", i, passed, "complete")
      BY <1>1
    <2> USE DEF Claim, Dequeue
    <2>0. i \in Irps /\ held[a] = NoIrp /\ a \in Agents /\ QueueOf(i) = "event"
      BY DEF OneOwner
    <2>1. TypeOK' /\ LabelsSound'
      BY <2>0 DEF Labels, CancelLabels
    <2>2. OneOwner'
      BY <2>0 DEF OneOwner
    <2>3. CompletionCount'
      BY <2>0 DEF CompletionCount
    <2>4. NoneForgotten'
      BY <2>0 DEF OneOwner, CompletionCount, RoutineSound, RoutinePlaced,
         EntriesReachable, HookedReachable, HeldSafe, HookedLocks,
         NoneForgotten
    <2>5. RoutineSound'
      BY <2>0 DEF OneOwner, RoutineSound, RoutinePlaced, EntriesReachable,
         HookedReachable, HeldSafe, HookedLocks
    <2>6. RundownSound' /\ RemovalSound'
      BY <2>0 DEF RundownSound, RemovalSound, Withdrawn
    <2> QED BY <2>1, <2>2, <2>3, <2>4, <2>5, <2>6
  <1>2. CASE FindNone(a, "event", "enqueue")
    <2> USE <1>2 DEF FindNone, Dequeue
    <2>1. TypeOK' /\ LabelsSound'
      BY DEF Labels, CancelLabels
    <2>2. OneOwner'
      BY DEF OneOwner
    <2>3. CompletionCount'
      BY DEF CompletionCount
    <2>4. NoneForgotten'
      BY DEF OneOwner, CompletionCount, RoutineSound, RoutinePlaced,
         EntriesReachable, HookedReachable, HeldSafe, HookedLocks,
         NoneForgotten
    <2>5. RoutineSound'
      BY DEF OneOwner, RoutineSound, RoutinePlaced, EntriesReachable,
         HookedReachable, HeldSafe, HookedLocks
    <2>6. RundownSound' /\ RemovalSound'
      BY DEF RundownSound, RemovalSound, Withdrawn
    <2> QED BY <2>1, <2>2, <2>3, <2>4, <2>5, <2>6
  <1> QED BY <1>1, <1>2 DEF Dequeue

\* A poster that found no IRP queues the event.
LEMMA EnqueueEventInv ==
  ASSUME IInv, NEW a \in Mixers \cup {Stream}, EnqueueEvent(a) PROVE IInv'
  <1> USE AgentsDistinct, SentinelsDistinct, FileOfType, SizesPositive
      DEF IInv, EnqueueEvent, Goto, listVars, cancelVars, refVars, deviceVars,
          Agents, Irps, Queues, QueueOf, TypeOK, LabelsSound, DispatchLabels,
          OwnLabels, ClaimLabels, LoopLabels, Hooked, Completed, Smaller
  <1>1. TypeOK' /\ LabelsSound'
    BY DEF Labels, CancelLabels
  <1>2. OneOwner'
    BY DEF OneOwner
  <1>3. CompletionCount'
    BY DEF CompletionCount
  <1>4. NoneForgotten'
    BY DEF NoneForgotten
  <1>5. RoutineSound'
    BY DEF RoutineSound, RoutinePlaced, EntriesReachable, HookedReachable,
       HeldSafe, HookedLocks
  <1>6. RundownSound' /\ RemovalSound'
    BY DEF RundownSound, RemovalSound, Withdrawn
  <1> QED BY <1>1, <1>2, <1>3, <1>4, <1>5, <1>6

\* Asking for cancellation only raises Irp->Cancel.
LEMMA RequestCancelInv ==
  ASSUME IInv, NEW i \in Irps, RequestCancel(i) PROVE IInv'
  <1> USE AgentsDistinct, SentinelsDistinct, FileOfType, SizesPositive
      DEF IInv, RequestCancel, agentVars, listVars, refVars, deviceVars,
          payloadVars, Agents, Irps, Queues, QueueOf, TypeOK, LabelsSound,
          DispatchLabels, OwnLabels, ClaimLabels, LoopLabels, Hooked, Completed
  <1>1. TypeOK' /\ LabelsSound'
    BY DEF Labels, CancelLabels
  <1>2. OneOwner' /\ CompletionCount' /\ NoneForgotten'
    BY DEF OneOwner, CompletionCount, NoneForgotten
  <1>3. RoutineSound'
    BY DEF RoutineSound, RoutinePlaced, EntriesReachable, HookedReachable,
       HeldSafe, HookedLocks
  <1>4. RundownSound' /\ RemovalSound'
    BY DEF RundownSound, RemovalSound, Withdrawn
  <1> QED BY <1>1, <1>2, <1>3, <1>4

\* The I/O manager takes the routine of a listed or just hooked IRP.
LEMMA TakeCancelRoutineInv ==
  ASSUME IInv, NEW i \in Irps, TakeCancelRoutine(i) PROVE IInv'
  <1> USE AgentsDistinct, SentinelsDistinct, FileOfType, SizesPositive
      DEF IInv, TakeCancelRoutine, agentVars, refVars, deviceVars, payloadVars,
          Agents, Irps, Queues, QueueOf, TypeOK, LabelsSound, DispatchLabels,
          OwnLabels, ClaimLabels, LoopLabels, Hooked, Completed
  <1>1. TypeOK' /\ LabelsSound'
    BY DEF Labels, CancelLabels
  <1>2. OneOwner' /\ CompletionCount' /\ NoneForgotten'
    BY DEF OneOwner, CompletionCount, RoutineSound, RoutinePlaced,
       EntriesReachable, HookedReachable, HeldSafe, HookedLocks, NoneForgotten
  <1>3. RoutineSound'
    BY DEF OneOwner, RoutineSound, RoutinePlaced, EntriesReachable,
       HookedReachable, HeldSafe, HookedLocks
  <1>4. RundownSound' /\ RemovalSound'
    BY DEF OneOwner, CompletionCount, RoutineSound, RoutinePlaced,
       EntriesReachable, HookedReachable, HeldSafe, HookedLocks, RundownSound,
       RemovalSound, Withdrawn
  <1> QED BY <1>1, <1>2, <1>3, <1>4

\* The cancel routine takes the IRP off its list.
LEMMA CancelUnlinkInv ==
  ASSUME IInv, NEW i \in Irps, CancelUnlink(i) PROVE IInv'
  <1> USE AgentsDistinct, SentinelsDistinct, FileOfType, SizesPositive
      DEF IInv, CancelUnlink, Free, agentVars, refVars, deviceVars,
          payloadVars, Agents, Irps, Queues, QueueOf, TypeOK, LabelsSound,
          DispatchLabels, OwnLabels, ClaimLabels, LoopLabels, Hooked, Completed
  <1>1. TypeOK' /\ LabelsSound'
    BY DEF Labels, CancelLabels
  <1>2. OneOwner' /\ CompletionCount' /\ NoneForgotten'
    BY DEF OneOwner, CompletionCount, NoneForgotten
  <1>3. RoutineSound'
    BY DEF OneOwner, RoutineSound, RoutinePlaced, EntriesReachable,
       HookedReachable, HeldSafe, HookedLocks
  <1>4. RundownSound' /\ RemovalSound'
    BY DEF RundownSound, RemovalSound, Withdrawn
  <1> QED BY <1>1, <1>2, <1>3, <1>4

\* The cancel routine completes an IRP nobody else can reach.
LEMMA CancelCompleteInv ==
  ASSUME IInv, NEW i \in Irps, CancelComplete(i) PROVE IInv'
  <1> USE AgentsDistinct, SentinelsDistinct, FileOfType, SizesPositive
      DEF IInv, CancelComplete, agentVars, listVars, refVars, deviceVars,
          payloadVars, Agents, Irps, Queues, QueueOf, TypeOK, LabelsSound,
          DispatchLabels, OwnLabels, ClaimLabels, LoopLabels, Hooked, Completed
  <1>1. TypeOK' /\ LabelsSound'
    BY DEF Labels, CancelLabels
  <1>2. OneOwner' /\ CompletionCount'
    BY DEF OneOwner, CompletionCount, RoutineSound, RoutinePlaced,
       EntriesReachable, HookedReachable, HeldSafe, HookedLocks
  <1>3. RoutineSound'
    BY DEF RoutineSound, RoutinePlaced, EntriesReachable, HookedReachable,
       HeldSafe, HookedLocks
  <1>4. RundownSound' /\ RemovalSound'
    BY DEF RundownSound, RemovalSound, Withdrawn
  <1>5. NoneForgotten'
    BY DEF OneOwner, RoutineSound, RoutinePlaced,
       EntriesReachable, HookedReachable, HeldSafe, HookedLocks, NoneForgotten
  <1> QED BY <1>1, <1>2, <1>3, <1>4, <1>5

\* ... and then drops its reference.
LEMMA CancelReleaseInv ==
  ASSUME IInv, NEW i \in Irps, CancelRelease(i) PROVE IInv'
  <1> USE AgentsDistinct, SentinelsDistinct, FileOfType, SizesPositive
      DEF IInv, CancelRelease, agentVars, listVars, deviceVars, payloadVars,
          Agents, Irps, Queues, QueueOf, TypeOK, LabelsSound, DispatchLabels,
          OwnLabels, ClaimLabels, LoopLabels, Hooked, Completed
  <1>1. TypeOK' /\ LabelsSound'
    BY DEF Labels, CancelLabels
  <1>2. OneOwner' /\ CompletionCount'
    BY DEF OneOwner, CompletionCount
  <1>3. RoutineSound'
    BY DEF RoutineSound, RoutinePlaced, EntriesReachable, HookedReachable,
       HeldSafe, HookedLocks
  <1>4. RundownSound' /\ RemovalSound'
    BY DEF OneOwner, CompletionCount, RoutineSound, RoutinePlaced,
       EntriesReachable, HookedReachable, HeldSafe, HookedLocks, RundownSound,
       RemovalSound, Withdrawn
  <1>5. NoneForgotten'
    BY DEF OneOwner, NoneForgotten
  <1> QED BY <1>1, <1>2, <1>3, <1>4, <1>5

\* IRP_MJ_CLEANUP begins.
LEMMA CloseHandleInv ==
  ASSUME IInv, NEW f \in Files, CloseHandle(f) PROVE IInv'
  <1> USE AgentsDistinct, SentinelsDistinct, FileOfType, SizesPositive
      DEF IInv, CloseHandle, Goto, listVars, cancelVars, refVars, deviceVars,
          payloadVars, Agents, Irps, Queues, QueueOf, TypeOK, LabelsSound,
          DispatchLabels, OwnLabels, ClaimLabels, LoopLabels, Hooked, Completed
  <1>1. TypeOK' /\ LabelsSound'
    BY DEF Labels, CancelLabels
  <1>2. OneOwner' /\ CompletionCount' /\ NoneForgotten'
    BY DEF OneOwner, CompletionCount, NoneForgotten
  <1>3. RoutineSound'
    BY DEF RoutineSound, RoutinePlaced, EntriesReachable, HookedReachable,
       HeldSafe, HookedLocks
  <1>4. RundownSound' /\ RemovalSound'
    BY DEF RundownSound, RemovalSound, Withdrawn
  <1> QED BY <1>1, <1>2, <1>3, <1>4

\* Cleanup takes its reference, or finds the device run down.
LEMMA AcquireCleanupInv ==
  ASSUME IInv, NEW f \in Files, AcquireCleanup(f) PROVE IInv'
  <1> USE AgentsDistinct, SentinelsDistinct, FileOfType, SizesPositive
      DEF IInv, AcquireCleanup, Goto, listVars, cancelVars, deviceVars,
          payloadVars, Agents, Irps, Queues, QueueOf, TypeOK, LabelsSound,
          DispatchLabels, OwnLabels, ClaimLabels, LoopLabels, Hooked, Completed
  <1>1. TypeOK' /\ LabelsSound'
    BY DEF Labels, CancelLabels
  <1>2. OneOwner' /\ CompletionCount' /\ NoneForgotten'
    BY DEF OneOwner, CompletionCount, NoneForgotten
  <1>3. RoutineSound'
    BY DEF RoutineSound, RoutinePlaced, EntriesReachable, HookedReachable,
       HeldSafe, HookedLocks
  <1>4. RundownSound' /\ RemovalSound'
    BY DEF RundownSound, RemovalSound, Withdrawn
  <1> QED BY <1>1, <1>2, <1>3, <1>4

\* Cleanup looks up the published context.
LEMMA LookUpForCleanupInv ==
  ASSUME IInv, NEW f \in Files, LookUpForCleanup(f) PROVE IInv'
  <1> USE AgentsDistinct, SentinelsDistinct, FileOfType, SizesPositive
      DEF IInv, LookUpForCleanup, Goto, listVars, cancelVars, refVars,
          deviceVars, payloadVars, Agents, Irps, Queues, QueueOf, TypeOK,
          LabelsSound, DispatchLabels, OwnLabels, ClaimLabels, LoopLabels,
          Hooked, Completed
  <1>1. TypeOK' /\ LabelsSound'
    BY DEF Labels, CancelLabels
  <1>2. OneOwner' /\ CompletionCount' /\ NoneForgotten'
    BY DEF OneOwner, CompletionCount, NoneForgotten
  <1>3. RoutineSound'
    BY DEF RoutineSound, RoutinePlaced, EntriesReachable, HookedReachable,
       HeldSafe, HookedLocks
  <1>4. RundownSound' /\ RemovalSound'
    BY DEF RundownSound, RemovalSound, Withdrawn
  <1> QED BY <1>1, <1>2, <1>3, <1>4

\* Cleanup moves its file's audio IRPs to its batch.
LEMMA CollectAudioInv ==
  ASSUME IInv, NEW f \in Files,
         CollectFileIrps(f, "collectAudio", "audio", "collectEvent")
  PROVE  IInv'
  <1> USE AgentsDistinct, SentinelsDistinct, FileOfType, SizesPositive
      DEF IInv, CollectFileIrps, Goto, Free, cancelVars, refVars, deviceVars,
          payloadVars, Agents, Irps, Queues, QueueOf, TypeOK, LabelsSound,
          DispatchLabels, OwnLabels, ClaimLabels, LoopLabels, Hooked, Completed
  <1>1. TypeOK' /\ LabelsSound'
    BY DEF Labels, CancelLabels
  <1>2. OneOwner'
    BY DEF OneOwner
  <1>3. CompletionCount'
    BY DEF CompletionCount
  <1>4. NoneForgotten'
    BY DEF OneOwner, CompletionCount, RoutineSound, RoutinePlaced,
       EntriesReachable, HookedReachable, HeldSafe, HookedLocks, NoneForgotten
  <1>5. RoutineSound'
    <2>1. RoutinePlaced'
      BY DEF OneOwner, RoutineSound, HeldSafe, RoutinePlaced
    <2>2. EntriesReachable'
      BY DEF OneOwner, RoutineSound, EntriesReachable, HeldSafe, RoutinePlaced
    <2>3. HookedReachable'
      BY DEF OneOwner, RoutineSound, HeldSafe, HookedReachable, RoutinePlaced
    <2>4. HeldSafe'
      BY DEF OneOwner, RoutineSound, HeldSafe, RoutinePlaced
    <2>5. HookedLocks'
      BY DEF OneOwner, RoutineSound, HeldSafe, HookedLocks, RoutinePlaced
    <2> QED BY <2>1, <2>2, <2>3, <2>4, <2>5 DEF RoutineSound
  <1>6. RundownSound' /\ RemovalSound'
    BY DEF RundownSound, RemovalSound, Withdrawn
  <1> QED BY <1>1, <1>2, <1>3, <1>4, <1>5, <1>6

\* Cleanup moves its file's event IRPs to its batch.
LEMMA CollectEventInv ==
  ASSUME IInv, NEW f \in Files,
         CollectFileIrps(f, "collectEvent", "event", "finish")
  PROVE  IInv'
  <1> USE AgentsDistinct, SentinelsDistinct, FileOfType, SizesPositive
      DEF IInv, CollectFileIrps, Goto, Free, cancelVars, refVars, deviceVars,
          payloadVars, Agents, Irps, Queues, QueueOf, TypeOK, LabelsSound,
          DispatchLabels, OwnLabels, ClaimLabels, LoopLabels, Hooked, Completed
  <1>1. TypeOK' /\ LabelsSound'
    BY DEF Labels, CancelLabels
  <1>2. OneOwner'
    BY DEF OneOwner
  <1>3. CompletionCount'
    BY DEF CompletionCount
  <1>4. NoneForgotten'
    BY DEF OneOwner, CompletionCount, RoutineSound, RoutinePlaced,
       EntriesReachable, HookedReachable, HeldSafe, HookedLocks, NoneForgotten
  <1>5. RoutineSound'
    <2>1. RoutinePlaced'
      BY DEF OneOwner, RoutineSound, HeldSafe, RoutinePlaced
    <2>2. EntriesReachable'
      BY DEF OneOwner, RoutineSound, EntriesReachable, HeldSafe, RoutinePlaced
    <2>3. HookedReachable'
      BY DEF OneOwner, RoutineSound, HeldSafe, HookedReachable, RoutinePlaced
    <2>4. HeldSafe'
      BY DEF OneOwner, RoutineSound, HeldSafe, RoutinePlaced
    <2>5. HookedLocks'
      BY DEF OneOwner, RoutineSound, HeldSafe, HookedLocks, RoutinePlaced
    <2> QED BY <2>1, <2>2, <2>3, <2>4, <2>5 DEF RoutineSound
  <1>6. RundownSound' /\ RemovalSound'
    BY DEF RundownSound, RemovalSound, Withdrawn
  <1> QED BY <1>1, <1>2, <1>3, <1>4, <1>5, <1>6

\* Cleanup takes the next IRP of its batch, or leaves.
LEMMA CleanupNextInv ==
  ASSUME IInv, NEW f \in Files, CleanupNext(f) PROVE IInv'
  <1> USE AgentsDistinct, SentinelsDistinct, FileOfType, SizesPositive
      DEF IInv, CleanupNext, Goto, listVars, cancelVars, deviceVars,
          payloadVars, Agents, Irps, Queues, QueueOf, TypeOK, LabelsSound,
          DispatchLabels, OwnLabels, ClaimLabels, LoopLabels, Hooked, Completed
  <1>1. CASE batch[f] # {}
    <2> PICK i \in batch[f] : /\ batch' = [batch EXCEPT ![f] = @ \ {i}]
                              /\ held' = [held EXCEPT ![f] = i]
                              /\ Goto(f, "complete") /\ UNCHANGED fileRef
      BY <1>1
    <2>0. i \in Irps /\ held[f] = NoIrp
      OBVIOUS
    <2>1. TypeOK' /\ LabelsSound'
      BY <2>0 DEF Labels, CancelLabels
    <2>2. OneOwner' /\ CompletionCount' /\ NoneForgotten'
      BY <2>0 DEF OneOwner, CompletionCount, NoneForgotten
    <2>3. RoutineSound'
      BY <2>0 DEF RoutineSound, RoutinePlaced, EntriesReachable,
         HookedReachable, HeldSafe, HookedLocks
    <2>4. RundownSound' /\ RemovalSound'
      BY <2>0 DEF RundownSound, RemovalSound, Withdrawn
    <2> QED BY <2>1, <2>2, <2>3, <2>4
  <1>2. CASE batch[f] = {}
    <2>1. TypeOK' /\ LabelsSound'
      BY <1>2 DEF Labels, CancelLabels
    <2>2. OneOwner' /\ CompletionCount' /\ NoneForgotten'
      BY <1>2 DEF OneOwner, CompletionCount, NoneForgotten
    <2>3. RoutineSound'
      BY <1>2 DEF RoutineSound, RoutinePlaced, EntriesReachable,
         HookedReachable, HeldSafe, HookedLocks
    <2>4. RundownSound' /\ RemovalSound'
      BY <1>2 DEF RundownSound, RemovalSound, Withdrawn
    <2> QED BY <2>1, <2>2, <2>3, <2>4
  <1> QED BY <1>1, <1>2

\* Removal clears the published pointer.
LEMMA WithdrawInv ==
  ASSUME IInv, Withdraw PROVE IInv'
  <1> USE AgentsDistinct, SentinelsDistinct, FileOfType, SizesPositive
      DEF IInv, Withdraw, PnpFlags, Goto, listVars, cancelVars, refVars,
          payloadVars, Agents, Irps, Queues, QueueOf, TypeOK, LabelsSound,
          DispatchLabels, OwnLabels, ClaimLabels, LoopLabels, Hooked, Completed
  <1>1. TypeOK'
    BY DEF Labels, CancelLabels
  <1>2. OneOwner' /\ CompletionCount' /\ NoneForgotten'
    BY DEF OneOwner, CompletionCount, NoneForgotten
  <1>3. RoutineSound'
    BY DEF RoutineSound, RoutinePlaced, EntriesReachable, HookedReachable,
       HeldSafe, HookedLocks
  <1>4. RundownSound' /\ RemovalSound'
    BY DEF RundownSound, RemovalSound, Withdrawn
  <1>5. LabelsSound'
    BY DEF Labels, CancelLabels
  <1> QED BY <1>1, <1>2, <1>3, <1>4, <1>5

\* Removal closes the lists.
LEMMA BeginCloseInv ==
  ASSUME IInv, BeginClose PROVE IInv'
  <1> USE AgentsDistinct, SentinelsDistinct, FileOfType, SizesPositive
      DEF IInv, BeginClose, PnpFlags, Goto, listVars, cancelVars, refVars,
          payloadVars, Agents, Irps, Queues, QueueOf, TypeOK, LabelsSound,
          DispatchLabels, OwnLabels, ClaimLabels, LoopLabels, Hooked, Completed
  <1>1. TypeOK' /\ LabelsSound'
    BY DEF Labels, CancelLabels
  <1>2. OneOwner' /\ CompletionCount' /\ NoneForgotten'
    BY DEF OneOwner, CompletionCount, NoneForgotten
  <1>3. RoutineSound'
    BY DEF RoutineSound, RoutinePlaced, EntriesReachable, HookedReachable,
       HeldSafe, HookedLocks
  <1>4. RundownSound' /\ RemovalSound'
    BY DEF RundownSound, RemovalSound, Withdrawn
  <1> QED BY <1>1, <1>2, <1>3, <1>4

\* Removal claims an audio IRP to complete it.
LEMMA CancelAllAudioInv ==
  ASSUME IInv, CancelAllAudio PROVE IInv'
  <1> USE AgentsDistinct, SentinelsDistinct, FileOfType, SizesPositive
      DEF IInv, CancelAllAudio, Goto, Free, cancelVars, refVars, deviceVars,
          payloadVars, Agents, Irps, Queues, QueueOf, TypeOK, LabelsSound,
          DispatchLabels, OwnLabels, ClaimLabels, LoopLabels, Hooked, Completed
  <1>1. CASE \E i \in queue["audio"] : \E passed \in SUBSET queue["audio"] :
               Claim(Pnp, "audio", i, passed, "complete")
    <2> PICK i \in queue["audio"], passed \in SUBSET queue["audio"] :
             Claim(Pnp, "audio", i, passed, "complete")
      BY <1>1
    <2> USE DEF Claim, Dequeue
    <2>0. i \in Irps /\ held[Pnp] = NoIrp /\ Pnp \in Agents /\ QueueOf(i) = "audio"
      BY DEF OneOwner
    <2>1. TypeOK' /\ LabelsSound'
      BY <2>0 DEF Labels, CancelLabels
    <2>2. OneOwner' /\ CompletionCount' /\ NoneForgotten'
      BY <2>0 DEF OneOwner, CompletionCount, RoutineSound, RoutinePlaced,
         EntriesReachable, HookedReachable, HeldSafe, HookedLocks,
         NoneForgotten
    <2>3. RoutineSound'
      BY <2>0 DEF OneOwner, RoutineSound, RoutinePlaced, EntriesReachable,
         HookedReachable, HeldSafe, HookedLocks
    <2>4. RundownSound' /\ RemovalSound'
      BY <2>0 DEF RundownSound, RemovalSound, Withdrawn
    <2> QED BY <2>1, <2>2, <2>3, <2>4
  <1>2. CASE FindNone(Pnp, "audio", "cancelEvent")
    <2> USE <1>2 DEF FindNone, Dequeue
    <2>1. TypeOK' /\ LabelsSound'
      BY DEF Labels, CancelLabels
    <2>2. OneOwner' /\ CompletionCount' /\ NoneForgotten'
      BY DEF OneOwner, CompletionCount, RoutineSound, RoutinePlaced,
         EntriesReachable, HookedReachable, HeldSafe, HookedLocks,
         NoneForgotten
    <2>3. RoutineSound'
      BY DEF OneOwner, RoutineSound, RoutinePlaced, EntriesReachable,
         HookedReachable, HeldSafe, HookedLocks
    <2>4. RundownSound' /\ RemovalSound'
      BY DEF RundownSound, RemovalSound, Withdrawn
    <2> QED BY <2>1, <2>2, <2>3, <2>4
  <1> QED BY <1>1, <1>2 DEF Dequeue

\* Removal claims an event IRP to complete it.
LEMMA CancelAllEventInv ==
  ASSUME IInv, CancelAllEvent PROVE IInv'
  <1> USE AgentsDistinct, SentinelsDistinct, FileOfType, SizesPositive
      DEF IInv, CancelAllEvent, Goto, Free, cancelVars, refVars, deviceVars,
          payloadVars, Agents, Irps, Queues, QueueOf, TypeOK, LabelsSound,
          DispatchLabels, OwnLabels, ClaimLabels, LoopLabels, Hooked, Completed
  <1>1. CASE \E i \in queue["event"] : \E passed \in SUBSET queue["event"] :
               Claim(Pnp, "event", i, passed, "complete")
    <2> PICK i \in queue["event"], passed \in SUBSET queue["event"] :
             Claim(Pnp, "event", i, passed, "complete")
      BY <1>1
    <2> USE DEF Claim, Dequeue
    <2>0. i \in Irps /\ held[Pnp] = NoIrp /\ Pnp \in Agents /\ QueueOf(i) = "event"
      BY DEF OneOwner
    <2>1. TypeOK' /\ LabelsSound'
      BY <2>0 DEF Labels, CancelLabels
    <2>2. OneOwner' /\ CompletionCount' /\ NoneForgotten'
      BY <2>0, SMTT(30) DEF OneOwner, CompletionCount, RoutineSound, RoutinePlaced,
         EntriesReachable, HookedReachable, HeldSafe, HookedLocks,
         NoneForgotten
    <2>3. RoutineSound'
      BY <2>0 DEF OneOwner, RoutineSound, RoutinePlaced, EntriesReachable,
         HookedReachable, HeldSafe, HookedLocks
    <2>4. RundownSound' /\ RemovalSound'
      BY <2>0 DEF RundownSound, RemovalSound, Withdrawn
    <2> QED BY <2>1, <2>2, <2>3, <2>4
  <1>2. CASE FindNone(Pnp, "event", "wait")
    <2> USE <1>2 DEF FindNone, Dequeue
    <2>1. TypeOK' /\ LabelsSound'
      BY DEF Labels, CancelLabels
    <2>2. OneOwner' /\ CompletionCount' /\ NoneForgotten'
      BY DEF OneOwner, CompletionCount, RoutineSound, RoutinePlaced,
         EntriesReachable, HookedReachable, HeldSafe, HookedLocks,
         NoneForgotten
    <2>3. RoutineSound'
      BY DEF OneOwner, RoutineSound, RoutinePlaced, EntriesReachable,
         HookedReachable, HeldSafe, HookedLocks
    <2>4. RundownSound' /\ RemovalSound'
      BY DEF RundownSound, RemovalSound, Withdrawn
    <2> QED BY <2>1, <2>2, <2>3, <2>4
  <1> QED BY <1>1, <1>2 DEF Dequeue

\* Removal starts the rundown wait.
LEMMA StartWaitInv ==
  ASSUME IInv, StartWait PROVE IInv'
  <1> USE AgentsDistinct, SentinelsDistinct, FileOfType, SizesPositive
      DEF IInv, StartWait, PnpFlags, Goto, listVars, cancelVars, refVars,
          payloadVars, Agents, Irps, Queues, QueueOf, TypeOK, LabelsSound,
          DispatchLabels, OwnLabels, ClaimLabels, LoopLabels, Hooked, Completed
  <1>1. TypeOK' /\ LabelsSound'
    BY DEF Labels, CancelLabels
  <1>2. OneOwner' /\ CompletionCount' /\ NoneForgotten'
    BY DEF OneOwner, CompletionCount, NoneForgotten
  <1>3. RoutineSound'
    BY DEF RoutineSound, RoutinePlaced, EntriesReachable, HookedReachable,
       HeldSafe, HookedLocks
  <1>4. RundownSound' /\ RemovalSound'
    BY DEF RundownSound, RemovalSound, Withdrawn
  <1> QED BY <1>1, <1>2, <1>3, <1>4

\* The wait ends when no reference is left.
LEMMA RearmInv ==
  ASSUME IInv, Rearm PROVE IInv'
  <1> USE AgentsDistinct, SentinelsDistinct, FileOfType, SizesPositive
      DEF IInv, Rearm, PnpFlags, Goto, listVars, cancelVars, refVars,
          payloadVars, Agents, Irps, Queues, QueueOf, TypeOK, LabelsSound,
          DispatchLabels, OwnLabels, ClaimLabels, LoopLabels, Hooked, Completed
  <1>1. TypeOK' /\ LabelsSound'
    BY ZenonT(60) DEF Labels, CancelLabels
  <1>2. OneOwner' /\ CompletionCount' /\ NoneForgotten'
    BY DEF OneOwner, CompletionCount, NoneForgotten
  <1>3. RoutineSound'
    BY DEF RoutineSound, RoutinePlaced, EntriesReachable, HookedReachable,
       HeldSafe, HookedLocks
  <1>4. RundownSound' /\ RemovalSound'
    BY DEF RundownSound, RemovalSound, Withdrawn
  <1> QED BY <1>1, <1>2, <1>3, <1>4

\* Removal detaches the context from the device.
LEMMA DetachInv ==
  ASSUME IInv, Detach PROVE IInv'
  <1> USE AgentsDistinct, SentinelsDistinct, FileOfType, SizesPositive
      DEF IInv, Detach, PnpFlags, Goto, listVars, cancelVars, refVars,
          payloadVars, Agents, Irps, Queues, QueueOf, TypeOK, LabelsSound,
          DispatchLabels, OwnLabels, ClaimLabels, LoopLabels, Hooked, Completed
  <1>1. TypeOK' /\ LabelsSound'
    BY ZenonT(60) DEF Labels, CancelLabels
  <1>2. OneOwner' /\ CompletionCount' /\ NoneForgotten'
    BY DEF OneOwner, CompletionCount, NoneForgotten
  <1>3. RoutineSound'
    BY DEF RoutineSound, RoutinePlaced, EntriesReachable, HookedReachable,
       HeldSafe, HookedLocks
  <1>4. RundownSound' /\ RemovalSound'
    BY DEF RundownSound, RemovalSound, Withdrawn
  <1> QED BY <1>1, <1>2, <1>3, <1>4

\* Removal frees the context.
LEMMA FreeCtxInv ==
  ASSUME IInv, FreeCtx PROVE IInv'
  <1> USE AgentsDistinct, SentinelsDistinct, FileOfType, SizesPositive
      DEF IInv, FreeCtx, PnpFlags, Goto, listVars, cancelVars, refVars,
          payloadVars, Agents, Irps, Queues, QueueOf, TypeOK, LabelsSound,
          DispatchLabels, OwnLabels, ClaimLabels, LoopLabels, Hooked, Completed
  <1>1. TypeOK' /\ LabelsSound'
    BY DEF Labels, CancelLabels
  <1>2. OneOwner' /\ CompletionCount' /\ NoneForgotten'
    BY DEF OneOwner, CompletionCount, NoneForgotten
  <1>3. RoutineSound'
    BY DEF RoutineSound, RoutinePlaced, EntriesReachable, HookedReachable,
       HeldSafe, HookedLocks
  <1>4. RundownSound' /\ RemovalSound'
    BY DEF RundownSound, RemovalSound, Withdrawn
  <1> QED BY <1>1, <1>2, <1>3, <1>4

\* A step that changes nothing.
LEMMA StutterInv == ASSUME IInv, UNCHANGED vars PROVE IInv'
  <1> USE DEF vars, agentVars, listVars, cancelVars, refVars, deviceVars,
              payloadVars, IInv
  <1>1. TypeOK'
    BY DEF TypeOK
  <1>2. LabelsSound'
    BY DEF LabelsSound
  <1>3. OneOwner'
    BY DEF OneOwner
  <1>4. CompletionCount'
    BY DEF CompletionCount, Completed
  <1>5. RoutineSound'
    BY DEF RoutineSound, RoutinePlaced, EntriesReachable, HookedReachable,
       HeldSafe, HookedLocks, Hooked
  <1>6. RundownSound'
    BY DEF RundownSound
  <1>7. RemovalSound'
    BY DEF RemovalSound, Withdrawn
  <1>8. NoneForgotten'
    BY DEF NoneForgotten
  <1> QED BY <1>1, <1>2, <1>3, <1>4, <1>5, <1>6, <1>7, <1>8

\* Whatever an agent does inside the driver.
LEMMA AgentStepInv == ASSUME IInv, NEW a \in Agents, AgentStep(a) PROVE IInv'
  <1>1. CASE a \in Irps /\ DispatchStep(a)
    BY <1>1, AcquireDispatchInv, LookUpCtxInv, HandleRequestInv,
       PrepareIrpForQueueInv, HookIrpInv, InsertIrpInv, RefuseIrpInv,
       ReleaseRefusedInv, CompleteSyncInv, LeaveDispatchInv DEF DispatchStep
  <1>2. CASE a \in AudioIrps \cup {Dpc} /\ DrainStep(a)
    BY <1>2, CheckAvailableInv, PopAudioIrpInv, CopyPacketInv, HookRequeuedInv,
       InsertRequeuedInv DEF DrainStep
  <1>3. CASE a \in Mixers \cup {Stream} /\ PostStep(a)
    BY <1>3, OfferEventInv, EnqueueEventInv DEF PostStep
  <1>4. CASE a = Stream /\ DrainOnStop
    BY <1>4, DrainOnStopInv
  <1>5. CASE a \in Files /\ CleanupStep(a)
    BY <1>5, AcquireCleanupInv, LookUpForCleanupInv, CleanupNextInv,
       CollectAudioInv, CollectEventInv DEF CleanupStep
  <1>6. CASE a = Pnp /\ PnpStep
    BY <1>6, BeginCloseInv, CancelAllAudioInv, CancelAllEventInv, StartWaitInv,
       RearmInv, DetachInv, FreeCtxInv DEF PnpStep
  <1>7. CASE ClaimedStep(a)
    BY <1>7, CompleteClaimedInv, ReleaseClaimedInv DEF ClaimedStep
  <1> QED BY <1>1, <1>2, <1>3, <1>4, <1>5, <1>6, <1>7 DEF AgentStep

\* Every step preserves the invariant.
LEMMA NextInv == ASSUME IInv, [Next]_vars PROVE IInv'
  <1>1. CASE \E a \in Agents : AgentStep(a)
    BY <1>1, AgentStepInv
  <1>2. CASE \E i \in Irps : Issue(i) \/ RequestCancel(i) \/ CancelStep(i)
    BY <1>2, IssueInv, RequestCancelInv, TakeCancelRoutineInv, CancelUnlinkInv,
       CancelCompleteInv, CancelReleaseInv DEF CancelStep
  <1>3. CASE StreamStart \/ StreamStop \/ Produce
    BY <1>3, StreamStartInv, StreamStopInv, ProduceInv
  <1>4. CASE \E m \in Mixers : ChangeControl(m)
    BY <1>4, ChangeControlInv
  <1>5. CASE \E f \in Files : CloseHandle(f)
    BY <1>5, CloseHandleInv
  <1>6. CASE Withdraw
    BY <1>6, WithdrawInv
  <1>7. CASE UNCHANGED vars
    BY <1>7, StutterInv
  <1> QED BY <1>1, <1>2, <1>3, <1>4, <1>5, <1>6, <1>7 DEF Next

-----------------------------------------------------------------------------
\* The ownership protocol of ioctl.cpp and the rundown of driver.cpp keep IInv
\* in every state, for all values of the constants.
THEOREM InductiveInvariant == Spec => []IInv
  <1> QED BY InitInv, NextInv, PTL DEF Spec

\* Every variable keeps its type; in particular the ring never holds more than
\* its capacity, nor the event queue more than its slots.
THEOREM TypeCorrect == Spec => []TypeOK
  <1>1. IInv => TypeOK
    BY DEF IInv
  <1> QED BY <1>1, InductiveInvariant, PTL

\* No IRP is completed twice, whoever races for it.
THEOREM CompletedAtMostOnce == Spec => []CompletedOnce
  <1>1. IInv => CompletedOnce
    BY DEF IInv, CompletionCount, CompletedOnce
  <1> QED BY <1>1, InductiveInvariant, PTL

\* Both lists hold only pending, unclaimed IRPs that can still be reached.
THEOREM ListsStaySound == Spec => []ListsSound
  <1>1. IInv => ListsSound
    BY DEF IInv, OneOwner, CompletionCount, RoutineSound, EntriesReachable,
       ListsSound
  <1> QED BY <1>1, InductiveInvariant, PTL

\* An IRP that is not completed always has somebody who will complete it.
THEOREM NoIrpForgotten == Spec => []NoneForgotten
  <1>1. IInv => NoneForgotten
    BY DEF IInv
  <1> QED BY <1>1, InductiveInvariant, PTL

\* Rundown references are dropped once, by whoever owns the IRP.
THEOREM ReferencesOwned == Spec => []ReferenceOwned
  <1>1. IInv => ReferenceOwned
    BY DEF IInv, RundownSound, ClaimLabels, ReferenceOwned
  <1> QED BY <1>1, InductiveInvariant, PTL

\* After the rundown wait no pended IRP is left.
THEOREM DrainedAfterWait == Spec => []DrainedWhenWithdrawn
  <1>1. ASSUME IInv, Withdrawn PROVE \A q \in Queues : queue[q] = {}
    BY <1>1 DEF IInv, RundownSound, RemovalSound
  <1>2. ASSUME IInv, Withdrawn PROVE \A f \in Files : batch[f] = {}
    BY <1>2 DEF IInv, RundownSound, RemovalSound
  <1>3. ASSUME IInv, Withdrawn, NEW i \in Irps, comp[i] = 0
        PROVE  pc[i] \in {"enter", "look", "sync"}
    <2>1. /\ irpRef = {} /\ i \notin queue[QueueOf(i)]
          /\ \A f \in Files : i \notin batch[f]
          /\ canc[i] \notin {"taken", "unlisted"}
      BY <1>1, <1>2, <1>3 DEF IInv, RundownSound, RemovalSound, QueueOf, Queues
    <2>2. PICK a \in Agents : held[a] = i
      BY <1>3, <2>1 DEF IInv, NoneForgotten
    <2>3. pc[a] \notin ClaimLabels
      BY <1>3, <2>1, <2>2 DEF IInv, RundownSound
    <2>4. a \in Irps /\ pc[a] \in OwnLabels /\ held[a] = a
      BY <1>3, <2>2, <2>3, SentinelsDistinct DEF IInv, LabelsSound
    <2>5. pc[i] \in {"idle", "enter", "look", "sync", "exit"}
      BY <1>3 DEF IInv, RemovalSound
    <2> QED BY <2>2, <2>4, <2>5 DEF OwnLabels
  <1>4. IInv => DrainedWhenWithdrawn
    BY <1>1, <1>2, <1>3 DEF DrainedWhenWithdrawn
  <1> QED BY <1>4, InductiveInvariant, PTL

\* Once the context is freed nobody is inside it or about to be.
THEOREM ContextOutlivesUsers == Spec => []NoUseAfterFree
  <1> USE AgentsDistinct
  <1>1. ASSUME IInv, freed PROVE \A i \in Irps : canc[i] # "taken"
    BY <1>1 DEF IInv, RundownSound, RemovalSound, Withdrawn
  <1>2. ASSUME IInv, freed, NEW a \in Agents PROVE pc[a] \notin InsideCtx
    <2>1. CASE a \in Irps
      <3>1. pc[a] \in {"idle", "enter", "look", "sync", "exit"}
        BY <1>2, <2>1 DEF IInv, RemovalSound, Withdrawn
      <3> QED BY <3>1 DEF InsideCtx
    <2>2. CASE a \in Files
      <3>1. pc[a] \in {"idle", "enter", "look", "finish", "closed"}
        BY <1>2, <2>2 DEF IInv, RemovalSound, Withdrawn
      <3> QED BY <3>1 DEF InsideCtx
    <2>3. CASE a \in Mixers \cup {Dpc, Stream, Pnp}
      <3>1. pc[a] \in {"idle", "gone"}
        <4>1. /\ pc[Pnp] = "gone"
              /\ \A b \in Mixers \cup {Dpc, Stream} : pc[b] = "idle"
          BY <1>2 DEF IInv, RemovalSound
        <4> QED BY <4>1, <2>3
      <3> QED BY <3>1 DEF InsideCtx
    <2> QED BY <2>1, <2>2, <2>3 DEF Agents
  <1>3. IInv => NoUseAfterFree
    BY <1>1, <1>2 DEF NoUseAfterFree
  <1> QED BY <1>3, InductiveInvariant, PTL
=============================================================================
