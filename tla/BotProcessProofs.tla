-------------------------- MODULE BotProcessProofs --------------------------
(***************************************************************************)
(* Theorems about BotProcess, for any number of messages and invoices, any *)
(* size of a batch and any number of stops, kills, failed starts and       *)
(* outages, behind webhooks and by polling.                                *)
(*                                                                         *)
(* The invariant ties the loops and the notifications to the phase: loops  *)
(* exist from started on and are cancelled before anything is cleaned up   *)
(* (LoopsFollowPhase), a notification is handled only while the site is up *)
(* or being cleaned up (HandledWhileUp), and what a poll has in hand to    *)
(* settle was reported as paid (InHand).                                   *)
(***************************************************************************)
EXTENDS BotProcess, FiniteSetTheorems, TLAPS

\* Where the loops may stand in each phase; a failed start leaves them running.
LoopsFollowPhase ==
  /\ phase \in {"down", "booting", "announced"} => task = NoTasks
  /\ phase \in {"stopping", "cleanup", "closing"} =>
       \A w \in Workers : task[w] \in {"cancelled", "done"}
  /\ phase \in {"cleanup", "closing"} => WorkersStopped

\* The phases in which a notification may be handled.
HandledWhileUp ==
  \A n \in Notes :
    msg[n] = "handling" => webhook /\ phase \in {"serving", "stopping", "cleanup"}

\* A poll lists recorded invoices and settles paid ones.
InHand ==
  /\ task["reconciliation"] = "settle" => batch \subseteq paid
  /\ \A i \in batch : row[i] # "none"

\* No purchase is settled without the money.
SettledIsPaid == \A i \in Invoices : row[i] = "settled" => i \in paid

ProcessInv ==
  /\ TypeOK
  /\ LoopsFollowPhase
  /\ HandledWhileUp
  /\ NotesAreKept
  /\ InHand
  /\ SettledIsPaid

-----------------------------------------------------------------------------
(* The size of a batch.                                                    *)

\* How many pending invoices are older than i.
Older(i) == {j \in 1..(i - 1) : Pending(j)}

\* There are finitely many of them, and more for a later invoice.
LEMMA OlderGrows ==
  /\ \A i \in Invoices : IsFiniteSet(Older(i)) /\ Cardinality(Older(i)) \in Nat
  /\ \A i, j \in Invoices :
       i < j /\ Pending(i) => Cardinality(Older(i)) < Cardinality(Older(j))
<1>1. ASSUME NEW i \in Invoices
      PROVE  IsFiniteSet(Older(i)) /\ Cardinality(Older(i)) \in Nat
  <2>1. i \in Int /\ i - 1 \in Int /\ 1 \in Int
    BY SettingsAreValid DEF Invoices
  <2>2. IsFiniteSet(1..(i - 1))
    BY <2>1, FS_Interval
  <2>3. IsFiniteSet(Older(i))
    BY <2>2, FS_Subset DEF Older
  <2> QED
    BY <2>3, FS_CardinalityType
<1>2. ASSUME NEW i \in Invoices, NEW j \in Invoices, i < j, Pending(i)
      PROVE  Cardinality(Older(i)) < Cardinality(Older(j))
  <2>1. i \notin Older(i) /\ Older(i) \cup {i} \in SUBSET Older(j)
    BY <1>2, SettingsAreValid DEF Older, Invoices
  <2>2. Cardinality(Older(i) \cup {i}) = Cardinality(Older(i)) + 1
    BY <1>1, <2>1, FS_AddElement
  <2>3. Cardinality(Older(i) \cup {i}) <= Cardinality(Older(j))
    BY <1>1, <2>1, FS_Subset
  <2> QED
    BY <1>1, <2>2, <2>3
<1> QED
  BY <1>1, <1>2

\* list_pending returns at most reconciliation_batch_size invoices.
LEMMA BatchIsBounded == IsFiniteSet(Batch) /\ Cardinality(Batch) <= BatchSize
<1> DEFINE f == [i \in Batch |-> Cardinality(Older(i))]
           Places == 0..(BatchSize - 1)
<1>1. BatchSize \in Nat \ {0}
  BY SettingsAreValid
<1>2. IsFiniteSet(Places) /\ Cardinality(Places) = BatchSize
  <2>1. 0 \in Int /\ BatchSize - 1 \in Int
    BY <1>1
  <2> QED
    BY <1>1, <2>1, FS_Interval
<1>3. \A i \in Batch : i \in Invoices /\ Pending(i) /\ Cardinality(Older(i)) < BatchSize
  BY DEF Batch, Older
<1>4. f \in [Batch -> Places]
  BY <1>1, <1>3, OlderGrows
<1>5. \A i, j \in Batch : i # j => f[i] # f[j]
  <2> SUFFICES ASSUME NEW i \in Batch, NEW j \in Batch, i # j
               PROVE  Cardinality(Older(i)) # Cardinality(Older(j))
    OBVIOUS
  <2>1. i \in Nat /\ j \in Nat
    BY <1>3, SettingsAreValid DEF Invoices
  <2>2. i < j \/ j < i
    BY <2>1
  <2>3. Cardinality(Older(i)) \in Nat /\ Cardinality(Older(j)) \in Nat
    BY <1>3, OlderGrows
  <2> QED
    BY <1>3, <2>2, <2>3, OlderGrows
<1>6. f \in Injection(Batch, Places)
  BY <1>4, <1>5 DEF Injection, IsInjective
<1> QED
  BY <1>2, <1>6, FS_Injection

\* What is left of a batch is no larger.
LEMMA PartsAreBounded ==
  ASSUME NEW B, B \subseteq Invoices, Cardinality(B) <= BatchSize, NEW T \in SUBSET B
  PROVE  Cardinality(T) <= BatchSize
<1>1. IsFiniteSet(Invoices)
  <2>1. 1 \in Int /\ NInvoices \in Int
    BY SettingsAreValid
  <2> QED
    BY <2>1, FS_Interval DEF Invoices
<1>2. IsFiniteSet(B) /\ IsFiniteSet(T)
  BY <1>1, FS_Subset
<1>3. Cardinality(T) <= Cardinality(B) /\ Cardinality(T) \in Nat /\ Cardinality(B) \in Nat
  BY <1>2, FS_Subset, FS_CardinalityType
<1> QED
  BY <1>3, SettingsAreValid

\* An abandoned iteration has nothing in hand.
LEMMA EmptyIsBounded == Cardinality({}) <= BatchSize
  BY FS_EmptySet, SettingsAreValid

-----------------------------------------------------------------------------
(* Every step keeps the invariant, one part after the other.  The steps of *)
(* each lemma are the actions that touch the variables of its part.        *)

USE DEF process, invoices, vars

\* Every variable keeps its type.
LEMMA TypesAreKept ==
  ASSUME ProcessInv, Next
  PROVE  TypeOK'
<1>1. ASSUME Boot
      PROVE  TypeOK'
  BY <1>1 DEF ProcessInv, TypeOK, Boot, Owned
<1>2. ASSUME Announce
      PROVE  TypeOK'
  BY <1>2 DEF ProcessInv, TypeOK, Announce
<1>3. ASSUME StartWorkers
      PROVE  TypeOK'
  BY <1>3 DEF ProcessInv, TypeOK, StartWorkers
<1>4. ASSUME StartServing
      PROVE  TypeOK'
  BY <1>4 DEF ProcessInv, TypeOK, StartServing
<1>5. ASSUME StartFails
      PROVE  TypeOK'
  BY <1>5, SettingsAreValid DEF ProcessInv, TypeOK, StartFails
<1>6. ASSUME Signal
      PROVE  TypeOK'
  BY <1>6, SettingsAreValid DEF ProcessInv, TypeOK, Signal
<1>7. ASSUME PollingFails
      PROVE  TypeOK'
  BY <1>7, SettingsAreValid DEF ProcessInv, TypeOK, PollingFails
<1>8. ASSUME BeginStop
      PROVE  TypeOK'
  BY <1>8 DEF ProcessInv, TypeOK, BeginStop, TasksWhenStopping
<1>9. ASSUME NEW w \in Workers, WorkerEnds(w)
      PROVE  TypeOK'
  BY <1>9, EmptyIsBounded DEF ProcessInv, TypeOK, WorkerEnds
<1>10. ASSUME WorkersAwaited
      PROVE  TypeOK'
  BY <1>10 DEF ProcessInv, TypeOK, WorkersAwaited
<1>11. ASSUME CleanedUp
      PROVE  TypeOK'
  BY <1>11 DEF ProcessInv, TypeOK, CleanedUp
<1>12. ASSUME NEW n \in Notes, CancelRequest(n)
      PROVE  TypeOK'
  BY <1>12 DEF ProcessInv, TypeOK, CancelRequest, Unhandled, Messages
<1>13. ASSUME NEW k \in DOMAIN Order, Close(k)
      PROVE  TypeOK'
  BY <1>13 DEF ProcessInv, TypeOK, Close
<1>14. ASSUME Exit \/ Kill
      PROVE  TypeOK'
  <2>1. faults' \in 0..MaxFaults
    BY <1>14, SettingsAreValid DEF ProcessInv, TypeOK, Exit, Kill
  <2>2. Ended
    BY <1>14 DEF Exit, Kill
  <2> QED
    BY <2>1, <2>2, EmptyIsBounded DEF ProcessInv, TypeOK, Ended, AtEnd, Unhandled, NoTasks
<1>15. ASSUME NEW m \in Messages, Send(m)
      PROVE  TypeOK'
  BY <1>15 DEF ProcessInv, TypeOK, Send
<1>16. ASSUME NEW m \in Messages, Accept(m)
      PROVE  TypeOK'
  BY <1>16 DEF ProcessInv, TypeOK, Accept
<1>17. ASSUME NEW m \in Messages, Finish(m)
      PROVE  TypeOK'
  BY <1>17 DEF ProcessInv, TypeOK, Finish, Unhandled
<1>18. ASSUME List
      PROVE  TypeOK'
  BY <1>18, BatchIsBounded, EmptyIsBounded DEF ProcessInv, TypeOK, List, Batch, AfterError
<1>19. ASSUME Ask
      PROVE  TypeOK'
  BY <1>19, PartsAreBounded, EmptyIsBounded DEF ProcessInv, TypeOK, Ask, ToSettle
<1>20. ASSUME Settle
      PROVE  TypeOK'
  BY <1>20, PartsAreBounded, EmptyIsBounded DEF ProcessInv, TypeOK, Settle, AfterError
<1>21. ASSUME Expire
      PROVE  TypeOK'
  BY <1>21 DEF ProcessInv, TypeOK, Expire, AfterError
<1>22. ASSUME NEW w \in Workers, Wake(w)
      PROVE  TypeOK'
  BY <1>22 DEF ProcessInv, TypeOK, Wake
<1>23. ASSUME NEW i \in Invoices, Record(i)
      PROVE  TypeOK'
  BY <1>23 DEF ProcessInv, TypeOK, Record
<1>24. ASSUME NEW i \in Invoices, Pay(i)
      PROVE  TypeOK'
  BY <1>24 DEF ProcessInv, TypeOK, Pay
<1>25. ASSUME NEW i \in Invoices, Age(i)
      PROVE  TypeOK'
  BY <1>25 DEF ProcessInv, TypeOK, Age
<1>26. ASSUME GoDown
      PROVE  TypeOK'
  <2>1. faults' \in 0..MaxFaults
    BY <1>26, SettingsAreValid DEF ProcessInv, TypeOK, GoDown
  <2> QED
    BY <1>26, <2>1 DEF ProcessInv, TypeOK, GoDown
<1>27. ASSUME Recover
      PROVE  TypeOK'
  BY <1>27 DEF ProcessInv, TypeOK, Recover
<1>28. Probe => TypeOK'
  BY DEF ProcessInv, TypeOK, Probe
<1> QED
  BY <1>1, <1>2, <1>3, <1>4, <1>5, <1>6, <1>7, <1>8, <1>9, <1>10, <1>11, <1>12, <1>13,
     <1>14, <1>15, <1>16, <1>17, <1>18, <1>19, <1>20, <1>21, <1>22, <1>23, <1>24, <1>25,
     <1>26, <1>27, <1>28
     DEF Next, MainStep, Loops, Fault

\* main cancels the loops before it awaits them, and awaits them before it cleans up.
LEMMA LoopsStayInPhase ==
  ASSUME ProcessInv, Next
  PROVE  LoopsFollowPhase'
<1>1. ASSUME Boot
      PROVE  LoopsFollowPhase'
  BY <1>1 DEF ProcessInv, LoopsFollowPhase, WorkersStopped, Boot
<1>2. ASSUME Announce
      PROVE  LoopsFollowPhase'
  BY <1>2 DEF ProcessInv, LoopsFollowPhase, WorkersStopped, Announce
<1>3. ASSUME StartWorkers
      PROVE  LoopsFollowPhase'
  BY <1>3 DEF ProcessInv, LoopsFollowPhase, WorkersStopped, StartWorkers
<1>4. ASSUME StartServing
      PROVE  LoopsFollowPhase'
  BY <1>4 DEF ProcessInv, LoopsFollowPhase, WorkersStopped, StartServing
<1>5. ASSUME StartFails
      PROVE  LoopsFollowPhase'
  BY <1>5 DEF ProcessInv, LoopsFollowPhase, WorkersStopped, StartFails
<1>6. ASSUME PollingFails
      PROVE  LoopsFollowPhase'
  BY <1>6 DEF ProcessInv, LoopsFollowPhase, WorkersStopped, PollingFails
<1>7. ASSUME BeginStop
      PROVE  LoopsFollowPhase'
  BY <1>7 DEF ProcessInv, LoopsFollowPhase, WorkersStopped, BeginStop, TasksWhenStopping
<1>8. ASSUME NEW w \in Workers, WorkerEnds(w)
      PROVE  LoopsFollowPhase'
  BY <1>8 DEF ProcessInv, LoopsFollowPhase, WorkersStopped, WorkerEnds, TypeOK, NoTasks
<1>9. ASSUME WorkersAwaited
      PROVE  LoopsFollowPhase'
  BY <1>9 DEF ProcessInv, LoopsFollowPhase, WorkersStopped, WorkersAwaited
<1>10. ASSUME CleanedUp
      PROVE  LoopsFollowPhase'
  BY <1>10 DEF ProcessInv, LoopsFollowPhase, WorkersStopped, CleanedUp
<1>11. ASSUME Ended
      PROVE  LoopsFollowPhase'
  BY <1>11 DEF ProcessInv, LoopsFollowPhase, WorkersStopped, Ended
<1>12. ASSUME List
      PROVE  LoopsFollowPhase'
  BY <1>12 DEF ProcessInv, LoopsFollowPhase, WorkersStopped, List, TypeOK, NoTasks, Workers
<1>13. ASSUME Ask
      PROVE  LoopsFollowPhase'
  BY <1>13 DEF ProcessInv, LoopsFollowPhase, WorkersStopped, Ask, TypeOK, NoTasks, Workers
<1>14. ASSUME Settle
      PROVE  LoopsFollowPhase'
  BY <1>14
     DEF ProcessInv, LoopsFollowPhase, WorkersStopped, Settle, TypeOK, NoTasks,
         Workers
<1>15. ASSUME Expire
      PROVE  LoopsFollowPhase'
  BY <1>15
     DEF ProcessInv, LoopsFollowPhase, WorkersStopped, Expire, TypeOK, NoTasks,
         Workers
<1>16. ASSUME NEW w \in Workers, Wake(w)
      PROVE  LoopsFollowPhase'
  BY <1>16 DEF ProcessInv, LoopsFollowPhase, WorkersStopped, Wake, TypeOK, NoTasks, Workers
<1>17. UNCHANGED <<phase, task>> => LoopsFollowPhase'
  BY DEF ProcessInv, LoopsFollowPhase, WorkersStopped
<1>18. Signal \/ GoDown \/ Recover \/ Probe => UNCHANGED <<phase, task>>
  BY DEF Signal, GoDown, Recover, Probe
<1>19. ASSUME NEW n \in Notes, CancelRequest(n)
      PROVE  UNCHANGED <<phase, task>>
  BY <1>19 DEF CancelRequest
<1>20. ASSUME NEW k \in DOMAIN Order, Close(k)
      PROVE  UNCHANGED <<phase, task>>
  BY <1>20 DEF Close
<1>21. ASSUME NEW m \in Messages, Send(m) \/ Accept(m) \/ Finish(m)
      PROVE  UNCHANGED <<phase, task>>
  BY <1>21 DEF Send, Accept, Finish
<1>22. ASSUME NEW i \in Invoices, Record(i) \/ Pay(i) \/ Age(i)
      PROVE  UNCHANGED <<phase, task>>
  BY <1>22 DEF Record, Pay, Age
<1> QED
  BY <1>1, <1>2, <1>3, <1>4, <1>5, <1>6, <1>7, <1>8, <1>9, <1>10, <1>11, <1>12, <1>13,
     <1>14, <1>15, <1>16, <1>17, <1>18, <1>19, <1>20, <1>21, <1>22
     DEF Next, MainStep, Loops, Fault, Exit, Kill

\* Nobody handles a notification outside serving, stopping and cleanup; none is lost.
LEMMA NotesStaySafe ==
  ASSUME ProcessInv, Next
  PROVE  HandledWhileUp' /\ NotesAreKept'
<1>1. ASSUME Boot
      PROVE  HandledWhileUp' /\ NotesAreKept'
  BY <1>1 DEF ProcessInv, HandledWhileUp, NotesAreKept, Boot
<1>2. ASSUME Announce
      PROVE  HandledWhileUp' /\ NotesAreKept'
  BY <1>2, SettingsAreValid DEF ProcessInv, HandledWhileUp, NotesAreKept, Announce, Messages
<1>3. ASSUME StartWorkers
      PROVE  HandledWhileUp' /\ NotesAreKept'
  BY <1>3 DEF ProcessInv, HandledWhileUp, NotesAreKept, StartWorkers
<1>4. ASSUME StartServing
      PROVE  HandledWhileUp' /\ NotesAreKept'
  BY <1>4 DEF ProcessInv, HandledWhileUp, NotesAreKept, StartServing
<1>5. ASSUME StartFails
      PROVE  HandledWhileUp' /\ NotesAreKept'
  BY <1>5 DEF ProcessInv, HandledWhileUp, NotesAreKept, StartFails
<1>6. ASSUME PollingFails
      PROVE  HandledWhileUp' /\ NotesAreKept'
  BY <1>6 DEF ProcessInv, HandledWhileUp, NotesAreKept, PollingFails
<1>7. ASSUME BeginStop
      PROVE  HandledWhileUp' /\ NotesAreKept'
  BY <1>7 DEF ProcessInv, HandledWhileUp, NotesAreKept, BeginStop
<1>8. ASSUME WorkersAwaited
      PROVE  HandledWhileUp' /\ NotesAreKept'
  BY <1>8 DEF ProcessInv, HandledWhileUp, NotesAreKept, WorkersAwaited
<1>9. ASSUME CleanedUp
      PROVE  HandledWhileUp' /\ NotesAreKept'
  BY <1>9 DEF ProcessInv, HandledWhileUp, NotesAreKept, CleanedUp, HandlersDone
<1>10. ASSUME NEW n \in Notes, CancelRequest(n)
      PROVE  HandledWhileUp' /\ NotesAreKept'
  BY <1>10
     DEF ProcessInv, HandledWhileUp, NotesAreKept, CancelRequest, Unhandled,
         TypeOK, Messages
<1>11. ASSUME Ended
      PROVE  HandledWhileUp' /\ NotesAreKept'
  BY <1>11 DEF ProcessInv, HandledWhileUp, NotesAreKept, Ended, AtEnd, Unhandled, Messages
<1>12. ASSUME NEW m \in Messages, Send(m)
      PROVE  HandledWhileUp' /\ NotesAreKept'
  BY <1>12 DEF ProcessInv, HandledWhileUp, NotesAreKept, Send, TypeOK, Messages
<1>13. ASSUME NEW m \in Messages, Accept(m)
      PROVE  HandledWhileUp' /\ NotesAreKept'
  BY <1>13, SettingsAreValid
     DEF ProcessInv, HandledWhileUp, NotesAreKept, Accept, Listening, TypeOK,
         Messages
<1>14. ASSUME NEW m \in Messages, Finish(m)
      PROVE  HandledWhileUp' /\ NotesAreKept'
  BY <1>14 DEF ProcessInv, HandledWhileUp, NotesAreKept, Finish, Unhandled, TypeOK, Messages
<1>15. UNCHANGED <<webhook, phase, msg>> => HandledWhileUp' /\ NotesAreKept'
  BY DEF ProcessInv, HandledWhileUp, NotesAreKept
<1>16. Signal \/ List \/ Ask \/ Settle \/ Expire \/ GoDown \/ Recover \/ Probe => UNCHANGED <<webhook, phase, msg>>
  BY DEF Signal, List, Ask, Settle, Expire, GoDown, Recover, Probe
<1>17. ASSUME NEW w \in Workers, WorkerEnds(w) \/ Wake(w)
      PROVE  UNCHANGED <<webhook, phase, msg>>
  BY <1>17 DEF WorkerEnds, Wake
<1>18. ASSUME NEW k \in DOMAIN Order, Close(k)
      PROVE  UNCHANGED <<webhook, phase, msg>>
  BY <1>18 DEF Close
<1>19. ASSUME NEW i \in Invoices, Record(i) \/ Pay(i) \/ Age(i)
      PROVE  UNCHANGED <<webhook, phase, msg>>
  BY <1>19 DEF Record, Pay, Age
<1> QED
  BY <1>1, <1>2, <1>3, <1>4, <1>5, <1>6, <1>7, <1>8, <1>9, <1>10, <1>11, <1>12, <1>13,
     <1>14, <1>15, <1>16, <1>17, <1>18, <1>19
     DEF Next, MainStep, Loops, Fault, Exit, Kill

\* Reconciliation settles what Crypto Pay reported as paid.
LEMMA MoneyStaysBehindRows ==
  ASSUME ProcessInv, Next
  PROVE  InHand' /\ SettledIsPaid'
<1>1. ASSUME StartWorkers
      PROVE  InHand' /\ SettledIsPaid'
  BY <1>1 DEF ProcessInv, InHand, SettledIsPaid, StartWorkers, Workers
<1>2. ASSUME PollingFails
      PROVE  InHand' /\ SettledIsPaid'
  BY <1>2 DEF ProcessInv, InHand, SettledIsPaid, PollingFails, Workers
<1>3. ASSUME BeginStop
      PROVE  InHand' /\ SettledIsPaid'
  BY <1>3 DEF ProcessInv, InHand, SettledIsPaid, BeginStop, TasksWhenStopping, Workers
<1>4. ASSUME NEW w \in Workers, WorkerEnds(w)
      PROVE  InHand' /\ SettledIsPaid'
  BY <1>4 DEF ProcessInv, InHand, SettledIsPaid, WorkerEnds, TypeOK
<1>5. ASSUME Ended
      PROVE  InHand' /\ SettledIsPaid'
  BY <1>5 DEF ProcessInv, InHand, SettledIsPaid, Ended, NoTasks, Workers
<1>6. ASSUME List
      PROVE  InHand' /\ SettledIsPaid'
  BY <1>6
     DEF ProcessInv, InHand, SettledIsPaid, List, AfterError, Batch, Pending,
         TypeOK, Workers
<1>7. ASSUME Ask
      PROVE  InHand' /\ SettledIsPaid'
  BY <1>7 DEF ProcessInv, InHand, SettledIsPaid, Ask, ToSettle, TypeOK, Workers
<1>8. ASSUME Settle
      PROVE  InHand' /\ SettledIsPaid'
  BY <1>8 DEF ProcessInv, InHand, SettledIsPaid, Settle, AfterError, TypeOK, Workers
<1>9. ASSUME Expire
      PROVE  InHand' /\ SettledIsPaid'
  BY <1>9
     DEF ProcessInv, InHand, SettledIsPaid, Expire, AfterError, Pending, TypeOK,
         Workers
<1>10. ASSUME NEW w \in Workers, Wake(w)
      PROVE  InHand' /\ SettledIsPaid'
  BY <1>10 DEF ProcessInv, InHand, SettledIsPaid, Wake, TypeOK, Workers
<1>11. ASSUME NEW i \in Invoices, Record(i)
      PROVE  InHand' /\ SettledIsPaid'
  BY <1>11 DEF ProcessInv, InHand, SettledIsPaid, Record, TypeOK
<1>12. ASSUME NEW i \in Invoices, Pay(i)
      PROVE  InHand' /\ SettledIsPaid'
  BY <1>12 DEF ProcessInv, InHand, SettledIsPaid, Pay
<1>13. UNCHANGED <<task, batch, row, paid>> => InHand' /\ SettledIsPaid'
  BY DEF ProcessInv, InHand, SettledIsPaid
<1>14. Boot \/ Announce \/ StartServing \/ StartFails \/ Signal \/ WorkersAwaited \/ CleanedUp \/ GoDown \/ Recover \/ Probe => UNCHANGED <<task, batch, row, paid>>
  BY
     DEF Boot, Announce, StartServing, StartFails, Signal, WorkersAwaited,
         CleanedUp, GoDown, Recover, Probe
<1>15. ASSUME NEW n \in Notes, CancelRequest(n)
      PROVE  UNCHANGED <<task, batch, row, paid>>
  BY <1>15 DEF CancelRequest
<1>16. ASSUME NEW k \in DOMAIN Order, Close(k)
      PROVE  UNCHANGED <<task, batch, row, paid>>
  BY <1>16 DEF Close
<1>17. ASSUME NEW m \in Messages, Send(m) \/ Accept(m) \/ Finish(m)
      PROVE  UNCHANGED <<task, batch, row, paid>>
  BY <1>17 DEF Send, Accept, Finish
<1>18. ASSUME NEW i \in Invoices, Age(i)
      PROVE  UNCHANGED <<task, batch, row, paid>>
  BY <1>18 DEF Age
<1> QED
  BY <1>1, <1>2, <1>3, <1>4, <1>5, <1>6, <1>7, <1>8, <1>9, <1>10, <1>11, <1>12, <1>13,
     <1>14, <1>15, <1>16, <1>17, <1>18
     DEF Next, MainStep, Loops, Fault, Exit, Kill

\* The invariant holds in every state.
LEMMA ProcessInvHolds == Spec => []ProcessInv
<1>1. Init => ProcessInv
  <2> SUFFICES ASSUME Init
               PROVE  ProcessInv
    OBVIOUS
  <2>1. TypeOK
    <3>1. webhook \in BOOLEAN /\ stop \in BOOLEAN /\ up \in BOOLEAN
      BY DEF Init
    <3>2. Cardinality(batch) <= BatchSize /\ faults \in 0..MaxFaults
      BY SettingsAreValid, EmptyIsBounded DEF Init
    <3> QED
      BY <3>1, <3>2 DEF Init, TypeOK, NoTasks
  <2>2. LoopsFollowPhase /\ HandledWhileUp /\ NotesAreKept
    BY DEF Init, LoopsFollowPhase, HandledWhileUp, NotesAreKept, Messages
  <2>3. InHand /\ SettledIsPaid
    BY DEF Init, InHand, SettledIsPaid, NoTasks, Workers
  <2> QED
    BY <2>1, <2>2, <2>3 DEF ProcessInv
<1>2. ProcessInv /\ UNCHANGED vars => ProcessInv'
  BY DEF ProcessInv, TypeOK, LoopsFollowPhase, WorkersStopped, HandledWhileUp, NotesAreKept,
         InHand, SettledIsPaid
<1>3. ProcessInv /\ [Next]_vars => ProcessInv'
  BY <1>2, TypesAreKept, LoopsStayInPhase, NotesStaySafe, MoneyStaysBehindRows
     DEF ProcessInv
<1> QED
  BY <1>1, <1>3, PTL DEF Spec

-----------------------------------------------------------------------------
(* Theorems.                                                               *)

\* Every variable keeps its type, and a poll never asks Crypto Pay about more than
\* reconciliation_batch_size invoices.
THEOREM TypeCorrect == Spec => []TypeOK
<1>1. ProcessInv => TypeOK
  BY DEF ProcessInv
<1> QED
  BY <1>1, ProcessInvHolds, PTL

\* main closes the clients after both loops have ended and no notification is
\* being handled, whatever the stop was caused by; a failed start finds no
\* notification in hand either.
THEOREM ClientsAreClosedLast == Spec => []ClientsCloseLast
<1>1. ProcessInv => ClientsCloseLast
  BY DEF ProcessInv, LoopsFollowPhase, WorkersStopped, HandledWhileUp, ClientsCloseLast
<1> QED
  BY <1>1, ProcessInvHolds, PTL

\* However often the process is stopped or killed, a notification that was not
\* handled is one that Crypto Pay sends again.
THEOREM NotesAreNeverLost == Spec => []NotesAreKept
<1>1. ProcessInv => NotesAreKept
  BY DEF ProcessInv
<1> QED
  BY <1>1, ProcessInvHolds, PTL

\* ReconciliationWorker settles an invoice only if Crypto Pay has its money, also
\* when iterations fail, overlap with housekeeping or are cut short.
THEOREM OnlyPaidIsSettled == Spec => []SettledIsPaid
<1>1. ProcessInv => SettledIsPaid
  BY DEF ProcessInv
<1> QED
  BY <1>1, ProcessInvHolds, PTL
=============================================================================
