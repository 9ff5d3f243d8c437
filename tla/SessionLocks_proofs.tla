------------------------ MODULE SessionLocks_proofs ------------------------
(***************************************************************************)
(* Proofs about SessionLocks, for any number of tasks and sessions.        *)
(***************************************************************************)
EXTENDS SessionLocks, WellFoundedInduction, TLAPS

\* Who has the right to act on a session holds the guard that gives it.
GuardsHeld ==
  /\ pc \in [Tasks -> PC]
  /\ target \in [Tasks -> Sessions \cup {None}]
  /\ holder \in [Sessions -> Tasks \cup {None}]
  /\ readers \subseteq Tasks
  /\ \A t \in Tasks : pc[t] \in PC \ {"idle"} => target[t] \in Sessions
  /\ \A t \in Tasks : pc[t] \in HoldingPC => holder[target[t]] = t
  /\ \A t \in Tasks : pc[t] = "reattach_lock" => t \in readers /\ target[t] \in sessions

LEMMA InitGuardsHeld == Init => GuardsHeld
BY DEF Init, GuardsHeld, PC, HoldingPC

\* Asking and waiting give no right away.
LEMMA AskKeeps ==
  ASSUME GuardsHeld, NEW t \in Tasks, NEW s \in Sessions, Ask(t, s)
  PROVE  GuardsHeld'
<1>1. PICK op \in MapPC : AskMap(t, op, s)
  BY DEF Ask, MapPC
<1>2. QED
  BY <1>1, NoneAssumption DEF AskMap, GuardsHeld, PC, MapPC, HoldingPC, MutexPC

LEMMA MapStepKeeps ==
  ASSUME GuardsHeld, NEW t \in Tasks, Publish(t) \/ GetSession(t) \/ ReattachRead(t)
  PROVE  GuardsHeld'
<1> USE NoneAssumption DEF GuardsHeld, PC, MapPC, HoldingPC, MutexPC
<1>1. CASE Publish(t)
  BY <1>1 DEF Publish, Done
<1>2. CASE GetSession(t)
  BY <1>2 DEF GetSession, Done, Enqueue
<1>3. CASE ReattachRead(t)
  BY <1>3 DEF ReattachRead, Done, Enqueue
<1>4. QED
  BY <1>1, <1>2, <1>3

LEMMA StreamStepKeeps ==
  ASSUME GuardsHeld, NEW t \in Tasks,
         AttachLock(t) \/ Input(t) \/ InputLock(t) \/ InputSent(t) \/ StreamEnds(t)
  PROVE  GuardsHeld'
<1> USE NoneAssumption DEF GuardsHeld, PC, MapPC, HoldingPC, MutexPC
<1>1. CASE AttachLock(t)
  BY <1>1 DEF AttachLock, Become
<1>2. CASE Input(t)
  BY <1>2 DEF Input, Enqueue
<1>3. CASE InputLock(t)
  BY <1>3 DEF InputLock, Become, MutexGranted
<1>4. CASE InputSent(t)
  BY <1>4 DEF InputSent, Become
<1>5. CASE StreamEnds(t)
  BY <1>5 DEF StreamEnds, Done
<1>6. QED
  BY <1>1, <1>2, <1>3, <1>4, <1>5

\* A close that takes a session out of the map finds no reader that still
\* needs it there.
LEMMA CloseWriteKeeps ==
  ASSUME GuardsHeld, NEW t \in Tasks, CloseWrite(t)
  PROVE  GuardsHeld'
<1>1. \A u \in Tasks : pc[u] # "reattach_lock"
  BY DEF GuardsHeld, CloseWrite, MapGranted, WritePC
<1>2. QED
  BY <1>1, NoneAssumption
     DEF GuardsHeld, CloseWrite, Enqueue, Done, PC, MapPC, HoldingPC, MutexPC

LEMMA LateStepKeeps ==
  ASSUME GuardsHeld, NEW t \in Tasks,
         ReattachLock(t) \/ CloseLock(t) \/ CloseDone(t) \/ Cancel(t)
  PROVE  GuardsHeld'
<1> USE NoneAssumption DEF GuardsHeld, PC, MapPC, HoldingPC, MutexPC
<1>1. CASE ReattachLock(t)
  BY <1>1 DEF ReattachLock, Done
<1>2. CASE CloseLock(t)
  BY <1>2 DEF CloseLock, Become, MutexGranted
<1>3. CASE CloseDone(t)
  BY <1>3 DEF CloseDone, Done
<1>4. CASE Cancel(t)
  BY <1>4 DEF Cancel, Done
<1>5. QED
  BY <1>1, <1>2, <1>3, <1>4

LEMMA NextKeeps == GuardsHeld /\ [Next]_vars => GuardsHeld'
<1> SUFFICES ASSUME GuardsHeld, [Next]_vars PROVE GuardsHeld'
  OBVIOUS
<1>1. CASE UNCHANGED vars
  BY <1>1 DEF vars, GuardsHeld
<1>2. CASE Next
  BY <1>2, AskKeeps, MapStepKeeps, StreamStepKeeps, CloseWriteKeeps, LateStepKeeps
     DEF Next, Granted, Return
<1>3. QED
  BY <1>1, <1>2

\* The guards are held by those who act on them.
THEOREM GuardsHeldAlways == Spec => []GuardsHeld
<1>1. QED
  BY InitGuardsHeld, NextKeeps, PTL DEF Spec

\* For any number of tasks, at most one acts on the channel of a session.
THEOREM OneOnChannelHolds == Spec => []OneOnChannel
<1>1. GuardsHeld => OneOnChannel
  BY DEF GuardsHeld, OneOnChannel
<1>2. QED
  BY <1>1, GuardsHeldAlways, PTL

\* For any number of tasks, attach_to_session subscribes to a session of the
\* map.
THEOREM ReattachFindsSessionHolds == Spec => []ReattachFindsSession
<1>1. GuardsHeld => ReattachFindsSession
  BY DEF GuardsHeld, ReattachFindsSession
<1>2. QED
  BY <1>1, GuardsHeldAlways, PTL

-----------------------------------------------------------------------------
(***************************************************************************)
(* Types.  The queues are sequences of tasks whatever is taken out of      *)
(* them, wherever it waits.                                                *)
(***************************************************************************)

\* A set of numbers has a least one.
LEMMA LeastNatural ==
  ASSUME NEW S, S \subseteq Nat, S # {}
  PROVE  Min(S) \in S /\ \A n \in S : Min(S) <= n
<1>1. PICK R : IsWellFoundedOn(R, Nat) /\ \A m, n \in Nat : m < n => <<m, n>> \in R
  <2>1. \A m, n \in Nat : m < n => <<m, n>> \in OpToRel(<, Nat)
    BY DEF OpToRel
  <2>2. QED
    BY <2>1, NatLessThanWellFounded, Zenon
<1>2. IsWellFoundedOn(R, S)
  BY <1>1, IsWellFoundedOnSubset
<1>3. PICK x \in S : \A y \in S : <<y, x>> \notin R
  BY <1>2, WFMin
<1>4. ASSUME NEW y \in S
      PROVE  x <= y
  <2>1. x \in Nat /\ y \in Nat
    OBVIOUS
  <2>2. ~(y < x)
    BY <1>1, <1>3, <2>1
  <2>3. QED
    BY <2>1, <2>2
<1>5. QED
  BY <1>4 DEF Min

\* A queue somebody has left is a queue still.
LEMMA RemoveFirstType ==
  ASSUME NEW S, NEW s \in Seq(S), NEW e
  PROVE  RemoveFirst(s, e) \in Seq(S)
<1>1. CASE \E i \in 1..Len(s) : s[i] = e
  <2> DEFINE I == {i \in 1..Len(s) : s[i] = e}
             m == Min(I)
  <2>1. RemoveFirst(s, e) = RemoveAt(s, m)
    BY <1>1 DEF RemoveFirst, SelectInSeq
  <2>2. m \in 1..Len(s)
    <3>1. I \subseteq Nat /\ I # {}
      BY <1>1
    <3> HIDE DEF I
    <3>2. m \in I
      BY <3>1, LeastNatural
    <3>3. QED
      BY <3>2 DEF I
  <2> HIDE DEF m
  <2>3. SubSeq(s, 1, m - 1) \in Seq(S) /\ SubSeq(s, m + 1, Len(s)) \in Seq(S)
    BY <2>2
  <2>4. QED
    BY <2>1, <2>3 DEF RemoveAt
<1>2. CASE ~\E i \in 1..Len(s) : s[i] = e
  BY <1>2 DEF RemoveFirst
<1>3. QED
  BY <1>1, <1>2

\* So is one whose head was served.
LEMMA TailType ==
  ASSUME NEW S, NEW s \in Seq(S), s # <<>>
  PROVE  Tail(s) \in Seq(S)
OBVIOUS

\* A step of one task changes the queue of the map or that of its session, the
\* guards it has a part in, and what the task itself does.
LEMMA NextTypes ==
  ASSUME TypeOK, GuardsHeld, [Next]_vars
  PROVE  TypeOK'
<1> USE DEF TypeOK
<1>1. ASSUME NEW t \in Tasks, NEW s \in Sessions, Ask(t, s)
      PROVE  TypeOK'
  <2>1. PICK op \in MapPC : AskMap(t, op, s)
    BY <1>1 DEF Ask, MapPC
  <2>2. QED
    BY <2>1 DEF AskMap, PC
<1>2. ASSUME NEW t \in Tasks, pc[t] \in MapPC, MapGranted(t)
      PROVE  queue' \in Seq(Tasks) /\ target[t] \in Sessions
  BY <1>2, TailType DEF MapGranted, GuardsHeld, PC, MapPC
<1>3. ASSUME NEW t \in Tasks, pc[t] \in MutexPC, MutexGranted(t, target[t])
      PROVE  waiting' \in [Sessions -> Seq(Tasks)] /\ target[t] \in Sessions
  <2>1. target[t] \in Sessions
    BY <1>3 DEF GuardsHeld, PC, MutexPC
  <2>2. Tail(waiting[target[t]]) \in Seq(Tasks)
    BY <1>3, <2>1, TailType DEF MutexGranted
  <2>3. QED
    BY <1>3, <2>1, <2>2 DEF MutexGranted
<1>4. ASSUME NEW t \in Tasks, NEW s \in Sessions, NEW p \in PC, Enqueue(t, s, p)
      PROVE  waiting' \in [Sessions -> Seq(Tasks)] /\ pc' \in [Tasks -> PC]
  BY <1>4 DEF Enqueue
<1>5. ASSUME NEW t \in Tasks, Done(t)
      PROVE  pc' \in [Tasks -> PC] /\ target' \in [Tasks -> Sessions \cup {None}]
  BY <1>5 DEF Done, PC
<1>6. ASSUME NEW t \in Tasks, Publish(t)
      PROVE  TypeOK'
  <2>1. pc[t] \in MapPC
    BY <1>6 DEF Publish, MapPC
  <2>2. QED
    BY <1>2, <1>5, <1>6, <2>1 DEF Publish
<1>7. ASSUME NEW t \in Tasks, GetSession(t) \/ ReattachRead(t) \/ CloseWrite(t)
      PROVE  TypeOK'
  <2>1. pc[t] \in MapPC /\ MapGranted(t)
    BY <1>7 DEF GetSession, ReattachRead, CloseWrite, MapPC
  <2>2. {"attach_lock", "reattach_lock", "close_lock"} \subseteq PC
    BY DEF PC, MutexPC
  <2>3. CASE GetSession(t)
    BY <1>2, <1>4, <1>5, <2>1, <2>2, <2>3 DEF GetSession
  <2>4. CASE ReattachRead(t)
    BY <1>2, <1>4, <1>5, <2>1, <2>2, <2>4 DEF ReattachRead
  <2>5. CASE CloseWrite(t)
    BY <1>2, <1>4, <1>5, <2>1, <2>2, <2>5 DEF CloseWrite
  <2>6. QED
    BY <1>7, <2>3, <2>4, <2>5
<1>8. ASSUME NEW t \in Tasks, AttachLock(t) \/ InputLock(t) \/ ReattachLock(t) \/ CloseLock(t)
      PROVE  TypeOK'
  <2>1. pc[t] \in MutexPC /\ MutexGranted(t, target[t])
    BY <1>8 DEF AttachLock, InputLock, ReattachLock, CloseLock, MutexPC
  <2>2. {"stream", "sending", "closing", "idle"} \subseteq PC
    BY DEF PC, HoldingPC
  <2>3. waiting' \in [Sessions -> Seq(Tasks)] /\ target[t] \in Sessions
    <3> HIDE DEF TypeOK
    <3>1. QED
      BY <1>3, <2>1
  <2>4. CASE AttachLock(t)
    BY <2>1, <2>2, <2>3, <2>4 DEF AttachLock, Become, MutexGranted
  <2>5. CASE InputLock(t)
    BY <2>1, <2>2, <2>3, <2>5 DEF InputLock, Become, MutexGranted
  <2>6. CASE ReattachLock(t)
    BY <1>5, <2>3, <2>6 DEF ReattachLock
  <2>7. CASE CloseLock(t)
    <3>1. holder' \in [Sessions -> Tasks \cup {None}] /\ pc' \in [Tasks -> PC]
      BY <2>2, <2>3, <2>7 DEF CloseLock, Become
    <3>2. UNCHANGED <<sessions, retired, queue, readers, writer, target>>
      BY <2>7 DEF CloseLock
    <3>3. QED
      BY <2>3, <3>1, <3>2
  <2>8. QED
    BY <1>8, <2>4, <2>5, <2>6, <2>7
<1>9. ASSUME NEW t \in Tasks, Input(t)
      PROVE  TypeOK'
  <2>1. target[t] \in Sessions /\ "input_lock" \in PC
    BY <1>9 DEF Input, GuardsHeld, PC, MutexPC
  <2>2. QED
    BY <1>4, <1>9, <2>1 DEF Input
<1>10. ASSUME NEW t \in Tasks, InputSent(t) \/ CloseDone(t) \/ StreamEnds(t)
       PROVE  TypeOK'
  <2>1. CASE InputSent(t)
    <3>1. "stream" \in PC
      BY DEF PC, HoldingPC
    <3>2. QED
      BY <2>1, <3>1 DEF InputSent, Become
  <2>2. CASE CloseDone(t)
    BY <1>5, <2>2 DEF CloseDone
  <2>3. CASE StreamEnds(t)
    BY <1>5, <2>3 DEF StreamEnds
  <2>4. QED
    BY <1>10, <2>1, <2>2, <2>3
<1>11. ASSUME NEW t \in Tasks, Cancel(t)
       PROVE  TypeOK'
  <2>1. queue' \in Seq(Tasks)
    BY <1>11, RemoveFirstType DEF Cancel
  <2>2. \A s \in Sessions : RemoveFirst(waiting[s], t) \in Seq(Tasks)
    BY RemoveFirstType
  <2>3. waiting' \in [Sessions -> Seq(Tasks)]
    BY <1>11, <2>2 DEF Cancel
  <2>4. QED
    BY <1>5, <1>11, <2>1, <2>3 DEF Cancel
<1>12. CASE UNCHANGED vars
  BY <1>12 DEF vars
<1>13. QED
  BY <1>1, <1>6, <1>7, <1>8, <1>9, <1>10, <1>11, <1>12 DEF Next, Granted, Return

\* For any number of tasks and sessions, the queues hold tasks, the guards are
\* held by tasks, and every task is at a place of the code, also when calls are
\* cancelled wherever they wait.
THEOREM TypeCorrect == Spec => []TypeOK
<1>1. Init => TypeOK
  BY DEF Init, TypeOK, PC
<1>2. TypeOK /\ GuardsHeld /\ [Next]_vars => TypeOK'
  BY NextTypes
<1>3. QED
  BY <1>1, <1>2, GuardsHeldAlways, PTL DEF Spec

=============================================================================
