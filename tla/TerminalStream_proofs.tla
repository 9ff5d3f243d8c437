----------------------- MODULE TerminalStream_proofs -----------------------
(***************************************************************************)
(* Proofs about TerminalStream, for any number of streams, scripts and     *)
(* bounds of the channels.                                                 *)
(***************************************************************************)
EXTENDS TerminalStream, FiniteSetTheorems, SequenceTheorems, TLAPS

\* The types of the places of a stream.
TaskType ==
  /\ client \in [Streams -> {"away", "here", "half", "gone"}]
  /\ attach \in [Streams -> {"idle", "first", "lock", "over"}]
  /\ input \in [Streams -> {"none", "next", "lock", "send", "report", "done"}]
  /\ output \in [Streams -> {"none", "recv", "push", "done"}]

\* What has happened to a stream when its handler, its tasks and its client are
\* where they are.
Phases ==
  \A t \in Streams :
    /\ create \in {"ssh", "publish"} => client[t] = "away"
    /\ client[t] = "away" => attach[t] = "idle"
    /\ attach[t] # "over" => input[t] = "none"
    /\ input[t] = "none" <=> output[t] = "none"
    /\ attach[t] \in {"idle", "first"} => taken[t] = 0
    /\ attach[t] = "lock" \/ input[t] # "none" => taken[t] >= 1
    /\ input[t] \in {"lock", "send", "report"} => taken[t] >= 2

\* Who acts on the session holds its mutex.
LockHeld ==
  /\ close = "channel" => lock = Closer
  /\ \A t \in Streams : lock = t <=> input[t] \in {"send", "report"}

\* The receiver of a stream is no further than the output.
Received ==
  \A t \in Streams :
    /\ skipped[t] <= next[t] /\ next[t] <= emitted
    /\ output[t] = "none" => outbox[t] = <<>> /\ got[t] = <<>>
    /\ output[t] = "done" /\ client[t] # "gone" => next[t] = emitted /\ link = "closed"

\* The pieces of a flow are in their order, none is further than the stream has
\* come, and what is not among them was missed.
Accounted(flow, come, missed) ==
  /\ InOrder(flow)
  /\ \A i \in 1..Len(flow) : flow[i] <= come
  /\ Cardinality(ToSet(flow) \ {SshError}) + missed = come

\* The part of OutputConserved that says where the pieces are.
Placed ==
  \A t \in Streams : client[t] # "gone" => Accounted(Flow(t), next[t], skipped[t])

\* The shell was given packets of messages that were taken ...
Taken ==
  \A i \in 1..Len(host) : \A t \in Streams : host[i][1] = t =>
    /\ host[i][2] <= taken[t]
    /\ input[t] \in {"none", "lock"} => host[i][2] < taken[t]

\* ... and the message in the hands of an input task is the last it was given of.
Latest ==
  \A t \in Streams : input[t] = "send" =>
    \A i, j \in 1..Len(host) : i < j /\ host[i] = <<t, taken[t]>> => host[j] = <<t, taken[t]>>

\* The parts of InputWhole that say in which order the packets arrive.
Arrived ==
  /\ \A i, j \in 1..Len(host) : i < j /\ host[i][1] = host[j][1] => host[i][2] <= host[j][2]
  /\ \A i, j, k \in 1..Len(host) : i < j /\ j < k /\ host[i] = host[k] => host[j] = host[i]

\* The part of InputWhole that counts the packets.
Counted ==
  link = "shell" =>
    \A t \in Streams : \A n \in 1..Len(Script[t]) :
      Delivered(t, n) = IF n \notin 2..taken[t] THEN 0
                        ELSE IF n < taken[t] THEN Script[t][n] ELSE Script[t][n] - Behind(t)

IInv == TypeOK /\ Phases /\ LockHeld /\ Received /\ Placed /\ Taken /\ Latest /\ Arrived /\ Counted

-----------------------------------------------------------------------------
(***************************************************************************)
(* What a step leaves alone.                                               *)
(***************************************************************************)

\* The steps that move messages of clients and packets.
LEMMA InFlowSteps ==
  ASSUME TaskType, Phases, [Next]_vars
  PROVE  \/ /\ UNCHANGED inFlow
            /\ \A t \in Streams : input'[t] # input[t] =>
                 input'[t] \in {"next", "done"} /\ input[t] # "lock"
                 /\ (input[t] = "send" => left[t] = 0)
         \/ \E t \in Streams :
              \/ ClientTypes(t) \/ AttachFirst(t) \/ InputNext(t) \/ InputLock(t)
              \/ InputPacket(t) \/ InputSwallowed(t) \/ InputFailed(t)
<1>1. CASE \E t \in Streams : ClientStep(t) \/ AttachStep(t)
  <2>1. PICK t \in Streams : ClientStep(t) \/ AttachStep(t)
    BY <1>1
  <2>2. CASE ClientStep(t)
    BY <2>2 DEF ClientStep, ClientCalls, ClientReads, ClientCloses, ClientLeaves, tasks
  <2>3. CASE AttachSubscribe(t)
    BY <2>3 DEF AttachSubscribe, Become, Phases, TaskType
  <2>4. CASE AttachStep(t) /\ ~AttachSubscribe(t)
    BY <2>4 DEF AttachStep, AttachRefused, AttachDropped
  <2>5. QED
    BY <2>1, <2>2, <2>3, <2>4
<1>2. CASE \E t \in Streams : OutputStep(t)
  BY <1>2 DEF OutputStep, OutputReceive, OutputLagged, OutputPush, OutputEnds, inFlow, tasks
<1>3. CASE \E t \in Streams : InputStep(t)
  BY <1>3 DEF InputStep, InputEnds, InputResized, InputReported, inFlow, Unlock, TaskType
<1>4. CASE UNCHANGED vars
  BY <1>4 DEF vars, tasks
<1>5. CASE CreateSsh \/ CreateFails \/ CreatePublish \/ Output \/ HostStep
  BY <1>5 DEF CreateSsh, CreateFails, CreatePublish, Output, HostStep, tasks
<1>6. CASE CloseRemove \/ CloseLock \/ CloseReturn
  BY <1>6 DEF CloseRemove, CloseLock, CloseReturn, CloseStep, tasks
<1>7. QED
  BY <1>1, <1>2, <1>3, <1>4, <1>5, <1>6 DEF Next

\* The steps that move output.
LEMMA OutFlowSteps ==
  ASSUME TaskType, [Next]_vars
  PROVE  \/ /\ UNCHANGED outFlow
            /\ \A t \in Streams : output'[t] # output[t] => OutputEnds(t)
         \/ \E t \in Streams :
              \/ ClientReads(t) \/ ClientLeaves(t) \/ AttachSubscribe(t)
              \/ OutputReceive(t) \/ OutputLagged(t) \/ OutputPush(t) \/ InputReported(t)
<1>1. CASE \E t \in Streams : ClientStep(t) \/ AttachStep(t)
  BY <1>1 DEF ClientStep, AttachStep, ClientCalls, ClientTypes, ClientCloses,
              AttachFirst, AttachRefused, AttachDropped, tasks
<1>2. CASE \E t \in Streams : OutputStep(t)
  BY <1>2 DEF OutputStep, OutputEnds, TaskType
<1>3. CASE \E t \in Streams : InputStep(t)
  BY <1>3 DEF InputStep, InputNext, InputEnds, InputLock, InputPacket, InputResized,
              InputSwallowed, InputFailed, outFlow
<1>4. CASE UNCHANGED vars
  BY <1>4 DEF vars, tasks
<1>5. CASE CreateSsh \/ CreateFails \/ CreatePublish \/ Output \/ HostStep
  BY <1>5 DEF CreateSsh, CreateFails, CreatePublish, Output, HostStep, tasks
<1>6. CASE CloseRemove \/ CloseLock \/ CloseReturn
  BY <1>6 DEF CloseRemove, CloseLock, CloseReturn, CloseStep, tasks
<1>7. QED
  BY <1>1, <1>2, <1>3, <1>4, <1>5, <1>6 DEF Next

\* Output comes from a shell; a channel that was closed stays closed.
LEMMA LinkSteps ==
  ASSUME [Next]_vars
  PROVE  /\ link = "closed" => UNCHANGED link
         /\ UNCHANGED emitted \/ (link = "shell" /\ emitted < MaxOutput /\ emitted' = emitted + 1)
         /\ link' = "shell" => link = "shell" \/ create = "ssh"
<1>1. CASE \E t \in Streams : ClientStep(t) \/ AttachStep(t)
  BY <1>1 DEF ClientStep, AttachStep, ClientCalls, ClientTypes, ClientReads, ClientCloses,
              ClientLeaves, AttachFirst, AttachRefused, AttachSubscribe, AttachDropped, ssh,
              session, DropUnowned
<1>2. CASE \E t \in Streams : OutputStep(t)
  BY <1>2 DEF OutputStep, OutputReceive, OutputLagged, OutputPush, OutputEnds, ssh, session
<1>3. CASE \E t \in Streams : InputStep(t)
  BY <1>3 DEF InputStep, InputNext, InputEnds, InputLock, InputPacket, InputResized,
              InputSwallowed, InputFailed, InputReported, ssh, session, DropUnowned, Data,
              WindowChange
<1>4. CASE UNCHANGED vars
  BY <1>4 DEF vars, ssh, session
<1>5. CASE CreateSsh \/ CreateFails \/ CreatePublish \/ Output \/ HostStep
  <2>1. CASE CreateSsh
    BY <2>1 DEF CreateSsh, SetupStep, Connect, Authenticate, OpenSession, RequestPty,
                RequestShell, Advance
  <2>2. CASE CreateFails
    BY <2>2 DEF CreateFails, SetupFails, InSetup, Setup, DropUnowned
  <2>3. CASE CreatePublish \/ Output \/ HostStep
    BY <2>3 DEF CreatePublish, Output, HostStep, HostReads, PeerGone, ssh, session
  <2>4. QED
    BY <1>5, <2>1, <2>2, <2>3
<1>6. CASE CloseRemove \/ CloseLock \/ CloseReturn
  BY <1>6 DEF CloseRemove, CloseLock, CloseReturn, CloseStep, CloseChannel, ssh
<1>7. QED
  BY <1>1, <1>2, <1>3, <1>4, <1>5, <1>6 DEF Next
-----------------------------------------------------------------------------
(***************************************************************************)
(* Types.                                                                  *)
(***************************************************************************)

\* The types of the connection and of what close_session does with it.
SshType ==
  /\ link \in ToSet(Setup) \cup {"shell", "closed"} /\ window \in 0..Window
  /\ create \in {"ssh", "publish", "live", "failed"}
  /\ close \in {"idle", "lock", "channel", "done"}
  /\ lock \in Streams \cup {Closer, None}
  /\ emitted \in 0..MaxOutput

InType ==
  /\ typed \in [Streams -> Nat] /\ \A t \in Streams : typed[t] <= Len(Script[t])
  /\ taken \in [Streams -> Nat] /\ \A t \in Streams : taken[t] <= typed[t]
  /\ left \in [Streams -> Nat]
  /\ host \in Seq(Streams \X (Nat \ {0}))

OutType ==
  /\ next \in [Streams -> 0..MaxOutput] /\ skipped \in [Streams -> 0..MaxOutput]
  /\ outbox \in [Streams -> Seq(0..MaxOutput)]
  /\ \A t \in Streams : Len(outbox[t]) <= Places
  /\ got \in [Streams -> Seq(0..MaxOutput)]

\* The parts of the type invariant.
LEMMA TypeParts == TypeOK <=> SshType /\ TaskType /\ InType /\ OutType
BY DEF TypeOK, SshType, TaskType, InType, OutType

\* A connection is set up, runs and ends.
LEMMA SshTypes ==
  ASSUME SshType, [Next]_vars
  PROVE  SshType'
<1> USE WindowAssumption, BoundsAssumption DEF SshType
<1> DEFINE Links == ToSet(Setup) \cup {"shell", "closed"}
<1>1. {"connected", "authenticated", "opened", "pty", "shell", "closed"} \subseteq Links
  <2>1. \A i \in 1..5 : i \in DOMAIN Setup
    BY DEF Setup
  <2>2. \A i \in 1..5 : Setup[i] \in Links
    BY <2>1 DEF ToSet
  <2>3. Setup[2] = "connected" /\ Setup[3] = "authenticated" /\ Setup[4] = "opened" /\ Setup[5] = "pty"
    BY DEF Setup
  <2>4. QED
    BY <2>2, <2>3
<1> HIDE DEF Links
<1>2. link \in Links <=> link \in ToSet(Setup) \cup {"shell", "closed"}
  BY DEF Links
<1>3. CASE \E t \in Streams : ClientStep(t) \/ AttachStep(t)
  BY <1>1, <1>3 DEF Links, ClientStep, AttachStep, ClientCalls, ClientTypes, ClientReads, ClientCloses,
              ClientLeaves, AttachFirst, AttachRefused, AttachSubscribe, AttachDropped, ssh,
              session, DropUnowned
<1>4. CASE \E t \in Streams : OutputStep(t)
  BY <1>4 DEF OutputStep, OutputReceive, OutputLagged, OutputPush, OutputEnds, ssh, session
<1>5. CASE \E t \in Streams : InputStep(t)
  BY <1>1, <1>5 DEF Links, InputStep, InputNext, InputEnds, InputLock, InputPacket, InputResized,
              InputSwallowed, InputFailed, InputReported, ssh, session, DropUnowned, Data,
              WindowChange, Unlock
<1>6. CASE UNCHANGED vars
  BY <1>6 DEF vars, ssh, session
<1>7. CASE CreateSsh
  BY <1>1, <1>7 DEF Links, CreateSsh, SetupStep, Connect, Authenticate, OpenSession, RequestPty,
              RequestShell, Advance
<1>8. CASE CreateFails \/ CreatePublish \/ Output \/ HostStep
  BY <1>1, <1>8 DEF Links, CreateFails, SetupFails, DropUnowned, CreatePublish, Output, HostStep,
              HostReads, PeerGone, ssh, session
<1>9. CASE CloseRemove \/ CloseLock \/ CloseReturn
  BY <1>1, <1>9 DEF Links, CloseRemove, CloseLock, CloseReturn, CloseStep, CloseChannel, ssh
<1>10. QED
  BY <1>3, <1>4, <1>5, <1>6, <1>7, <1>8, <1>9 DEF Next

\* So do the tasks of a stream.
LEMMA TaskTypes ==
  ASSUME TaskType, [Next]_vars
  PROVE  TaskType'
<1> USE DEF TaskType
<1>1. CASE \E t \in Streams : ClientStep(t) \/ AttachStep(t)
  BY <1>1 DEF ClientStep, AttachStep, ClientCalls, ClientTypes, ClientReads, ClientCloses,
              ClientLeaves, AttachFirst, AttachRefused, AttachSubscribe, AttachDropped, Become, tasks
<1>2. CASE \E t \in Streams : OutputStep(t)
  BY <1>2 DEF OutputStep, OutputReceive, OutputLagged, OutputPush, OutputEnds, Become, tasks
<1>3. CASE \E t \in Streams : InputStep(t)
  BY <1>3 DEF InputStep, InputNext, InputEnds, InputLock, InputPacket, InputResized,
              InputSwallowed, InputFailed, InputReported, Unlock, Become
<1>4. CASE UNCHANGED vars
  BY <1>4 DEF vars, tasks
<1>5. CASE CreateSsh \/ CreateFails \/ CreatePublish \/ Output \/ HostStep
  BY <1>5 DEF CreateSsh, CreateFails, CreatePublish, Output, HostStep, tasks
<1>6. CASE CloseRemove \/ CloseLock \/ CloseReturn
  BY <1>6 DEF CloseRemove, CloseLock, CloseReturn, CloseStep, tasks
<1>7. QED
  BY <1>1, <1>2, <1>3, <1>4, <1>5, <1>6 DEF Next

\* The server takes no more messages than the client has sent, and the shell is
\* given packets of messages that were taken.
LEMMA InTypes ==
  ASSUME InType, TaskType, Phases, [Next]_vars
  PROVE  InType'
<1> USE ScriptAssumption DEF InType, TaskType
<1>1. CASE UNCHANGED inFlow
  BY <1>1 DEF inFlow
<1>2. ASSUME NEW t \in Streams, ClientTypes(t)
      PROVE  InType'
  BY <1>2 DEF ClientTypes
<1>3. ASSUME NEW t \in Streams, AttachFirst(t) \/ InputNext(t)
      PROVE  InType'
  <2>1. /\ taken' = [taken EXCEPT ![t] = @ + 1] /\ taken[t] < typed[t]
        /\ UNCHANGED <<typed, left, host>>
    BY <1>3 DEF AttachFirst, InputNext, Inbox
  <2>2. QED
    BY <2>1
<1>4. ASSUME NEW t \in Streams, InputLock(t)
      PROVE  InType'
  <2>1. taken[t] \in 1..Len(Script[t])
    BY <1>4 DEF Phases, InputLock, Become
  <2>2. Script[t][taken[t]] \in Nat
    BY <2>1
  <2>3. QED
    BY <1>4, <2>2 DEF InputLock
<1>5. ASSUME NEW t \in Streams, InputPacket(t)
      PROVE  InType'
  <2>1. <<t, taken[t]>> \in Streams \X (Nat \ {0})
    BY <1>5 DEF Phases, InputPacket
  <2>2. host' \in Seq(Streams \X (Nat \ {0}))
    BY <1>5, <2>1 DEF InputPacket
  <2>3. left' \in [Streams -> Nat] /\ UNCHANGED <<typed, taken>>
    BY <1>5 DEF InputPacket
  <2>4. QED
    BY <2>2, <2>3
<1>6. ASSUME NEW t \in Streams, InputSwallowed(t) \/ InputFailed(t)
      PROVE  InType'
  <2>1. left' = [left EXCEPT ![t] = 0] /\ UNCHANGED <<typed, taken, host>>
    BY <1>6 DEF InputSwallowed, InputFailed
  <2>2. QED
    BY <2>1
<1>7. QED
  BY <1>1, <1>2, <1>3, <1>4, <1>5, <1>6, InFlowSteps

\* A stream is never further than the output, and its mpsc channel never holds
\* more than it has places for.
LEMMA OutTypes ==
  ASSUME OutType, SshType, TaskType, Phases, Received, [Next]_vars
  PROVE  OutType'
<1> USE BoundsAssumption, ChannelsAssumption DEF OutType, SshType, TaskType
<1>1. CASE UNCHANGED outFlow
  BY <1>1 DEF outFlow
<1>2. ASSUME NEW t \in Streams, ClientReads(t)
      PROVE  OutType'
  <2>1. /\ Head(outbox[t]) \in 0..MaxOutput
        /\ Tail(outbox[t]) \in Seq(0..MaxOutput) /\ Len(Tail(outbox[t])) <= Places
    BY <1>2 DEF ClientReads
  <2>2. Append(got[t], Head(outbox[t])) \in Seq(0..MaxOutput)
    BY <2>1
  <2>3. QED
    BY <1>2, <2>1, <2>2 DEF ClientReads
<1>3. ASSUME NEW t \in Streams, ClientLeaves(t)
      PROVE  OutType'
  BY <1>3 DEF ClientLeaves
<1>4. ASSUME NEW t \in Streams, AttachSubscribe(t)
      PROVE  OutType'
  BY <1>4 DEF AttachSubscribe
<1>5. ASSUME NEW t \in Streams, OutputReceive(t)
      PROVE  OutType'
  BY <1>5 DEF OutputReceive
<1>6. ASSUME NEW t \in Streams, OutputLagged(t)
      PROVE  OutType'
  <2>1. Oldest \in 0..MaxOutput
    BY DEF Oldest
  <2>2. skipped[t] + Oldest - next[t] \in 0..MaxOutput
    BY <1>6, <2>1 DEF OutputLagged, Received
  <2>3. QED
    BY <1>6, <2>1, <2>2 DEF OutputLagged
<1>7. ASSUME NEW t \in Streams, NEW k \in 0..MaxOutput, Len(outbox[t]) < Places,
             outbox' = [outbox EXCEPT ![t] = Append(@, k)], UNCHANGED <<next, skipped, got>>
      PROVE  OutType'
  <2>1. /\ Append(outbox[t], k) \in Seq(0..MaxOutput)
        /\ Len(Append(outbox[t], k)) <= Places
    BY <1>7
  <2>2. QED
    BY <1>7, <2>1
<1>8. ASSUME NEW t \in Streams, OutputPush(t)
      PROVE  OutType'
  BY <1>7, <1>8 DEF OutputPush
<1>9. ASSUME NEW t \in Streams, InputReported(t)
      PROVE  OutType'
  <2>1. CASE client[t] = "gone" /\ UNCHANGED outbox
    BY <1>9, <2>1 DEF InputReported
  <2>2. CASE Len(outbox[t]) < Places /\ outbox' = [outbox EXCEPT ![t] = Append(@, SshError)]
    <3>1. SshError \in 0..MaxOutput
      BY DEF SshError
    <3>2. QED
      BY <1>7, <1>9, <2>2, <3>1 DEF InputReported
  <2>3. QED
    BY <1>9, <2>1, <2>2 DEF InputReported
<1>10. QED
  BY <1>1, <1>2, <1>3, <1>4, <1>5, <1>6, <1>8, <1>9, OutFlowSteps

-----------------------------------------------------------------------------
(***************************************************************************)
(* Where the tasks are, and who holds the session.                         *)
(***************************************************************************)

\* Every step keeps what follows from where the tasks of a stream are.
LEMMA NextPhases ==
  ASSUME InType, TaskType, SshType, Phases, LockHeld, [Next]_vars
  PROVE  Phases'
<1> USE DEF Phases, TaskType, InType
<1>1. ASSUME NEW t \in Streams, ClientStep(t)
      PROVE  Phases'
  BY <1>1 DEF ClientStep, ClientCalls, ClientTypes, ClientReads, ClientCloses, ClientLeaves,
              Become, tasks, inFlow, session
<1>2. ASSUME NEW t \in Streams, AttachStep(t)
      PROVE  Phases'
  BY <1>2 DEF AttachStep, AttachFirst, AttachRefused, AttachSubscribe, AttachDropped, Become,
              tasks, inFlow, session
<1>3. ASSUME NEW t \in Streams, OutputStep(t)
      PROVE  Phases'
  BY <1>3 DEF OutputStep, OutputReceive, OutputLagged, OutputPush, OutputEnds, Become,
              tasks, inFlow, session
<1>4. ASSUME NEW t \in Streams, InputStep(t)
      PROVE  Phases'
  BY <1>4 DEF InputStep, InputNext, InputEnds, InputLock, InputPacket, InputResized,
              InputSwallowed, InputFailed, InputReported, Unlock, Become, inFlow, session
<1>5. CASE UNCHANGED vars
  BY <1>5 DEF vars, tasks, inFlow, session
<1>6. CASE CreateSsh \/ CreateFails \/ CreatePublish \/ Output \/ HostStep
  BY <1>6 DEF CreateSsh, CreateFails, CreatePublish, Output, HostStep, tasks, inFlow, session
<1>7. CASE CloseRemove \/ CloseLock \/ CloseReturn
  BY <1>7 DEF CloseRemove, CloseLock, CloseReturn, CloseStep, tasks, inFlow
<1>8. QED
  BY <1>1, <1>2, <1>3, <1>4, <1>5, <1>6, <1>7 DEF Next

\* Every step keeps the lock with whom the program counters say.
LEMMA NextLockHeld ==
  ASSUME TaskType, SshType, Phases, LockHeld, [Next]_vars
  PROVE  LockHeld'
<1> USE NamesAssumption DEF LockHeld, TaskType
<1>1. ASSUME NEW t \in Streams, ClientStep(t)
      PROVE  LockHeld'
  BY <1>1 DEF ClientStep, ClientCalls, ClientTypes, ClientReads, ClientCloses, ClientLeaves,
              Become, tasks, session
<1>2. ASSUME NEW t \in Streams, AttachStep(t)
      PROVE  LockHeld'
  BY <1>2 DEF AttachStep, AttachFirst, AttachRefused, AttachSubscribe, AttachDropped, Become,
              session, Phases
<1>3. ASSUME NEW t \in Streams, OutputStep(t)
      PROVE  LockHeld'
  BY <1>3 DEF OutputStep, OutputReceive, OutputLagged, OutputPush, OutputEnds, tasks, session
<1>4. ASSUME NEW t \in Streams, InputStep(t)
      PROVE  LockHeld'
  BY <1>4 DEF InputStep, InputNext, InputEnds, InputLock, InputPacket, InputResized,
              InputSwallowed, InputFailed, InputReported, Unlock, Become, session
<1>5. CASE UNCHANGED vars
  BY <1>5 DEF vars, tasks, session
<1>6. CASE CreateSsh \/ CreateFails \/ CreatePublish \/ Output \/ HostStep
  BY <1>6 DEF CreateSsh, CreateFails, CreatePublish, Output, HostStep, tasks, session
<1>7. CASE CloseRemove \/ CloseLock \/ CloseReturn
  BY <1>7 DEF CloseRemove, CloseLock, CloseReturn, CloseStep, tasks
<1>8. QED
  BY <1>1, <1>2, <1>3, <1>4, <1>5, <1>6, <1>7 DEF Next

\* What moves no receiver, ends none and brings no client back keeps them.
LEMMA ReceivedKept ==
  ASSUME Received, UNCHANGED <<next, skipped, outbox, got, output, link, emitted>>,
         \A t \in Streams : client'[t] # "gone" => client[t] # "gone"
  PROVE  Received'
BY DEF Received

\* Every step keeps the receivers no further than the output, and those that ended at its end.
LEMMA NextReceived ==
  ASSUME OutType, TaskType, SshType, Phases, Received, [Next]_vars
  PROVE  Received'
<1> USE BoundsAssumption, ChannelsAssumption DEF Received, OutType, TaskType, SshType
<1>1. ASSUME NEW t \in Streams, ClientStep(t)
      PROVE  Received'
  <2>1. CASE ClientReads(t)
    BY <2>1 DEF ClientReads, tasks, ssh, session
  <2>0. CASE ClientLeaves(t)
    BY <2>0 DEF ClientLeaves, ssh, session
  <2>2. CASE ClientCalls(t) \/ ClientTypes(t) \/ ClientCloses(t)
    <3> HIDE DEF Received, OutType, SshType
    <3>1. UNCHANGED <<next, skipped, outbox, got, output, link, emitted>>
      <4>1. CASE ClientCalls(t)
        BY <4>1 DEF ClientCalls, outFlow, ssh, session
      <4>2. CASE ClientTypes(t)
        BY <4>2 DEF ClientTypes, tasks, outFlow, ssh, session
      <4>3. CASE ClientCloses(t)
        BY <4>3 DEF ClientCloses, outFlow, ssh, session
      <4>4. QED
        BY <2>2, <4>1, <4>2, <4>3
    <3>2. \A u \in Streams : client'[u] # "gone" => client[u] # "gone"
      BY <2>2 DEF ClientCalls, ClientTypes, ClientCloses, Become, tasks
    <3>3. QED
      BY <3>1, <3>2, ReceivedKept
  <2>3. QED
    BY <1>1, <2>0, <2>1, <2>2 DEF ClientStep
<1>2. ASSUME NEW t \in Streams, AttachStep(t)
      PROVE  Received'
  <2>1. CASE AttachFirst(t) \/ AttachRefused(t)
    <3> HIDE DEF Received, OutType, SshType
    <3>1. UNCHANGED <<next, skipped, outbox, got, output, link, emitted>>
      BY <2>1 DEF AttachFirst, AttachRefused, outFlow, ssh, session
    <3>2. \A u \in Streams : client'[u] # "gone" => client[u] # "gone"
      BY <2>1 DEF AttachFirst, AttachRefused
    <3>3. QED
      BY <3>1, <3>2, ReceivedKept
  <2>2. CASE AttachSubscribe(t)
    BY <2>2 DEF AttachSubscribe, Become, ssh, session, Phases
  <2>3. CASE AttachDropped(t)
    BY <2>3, LinkSteps DEF AttachDropped, outFlow, session
  <2>4. QED
    BY <1>2, <2>1, <2>2, <2>3 DEF AttachStep
<1>3. ASSUME NEW t \in Streams, OutputStep(t)
      PROVE  Received'
  <2>1. CASE OutputReceive(t)
    BY <2>1 DEF OutputReceive, Become, ssh, session
  <2>2. CASE OutputLagged(t)
    BY <2>2 DEF OutputLagged, Oldest, tasks, ssh, session
  <2>3. CASE OutputPush(t)
    BY <2>3 DEF OutputPush, Become, ssh, session
  <2>4. CASE OutputEnds(t)
    BY <2>4 DEF OutputEnds, outFlow, ssh, session
  <2>5. QED
    BY <1>3, <2>1, <2>2, <2>3, <2>4 DEF OutputStep
<1>4. ASSUME NEW t \in Streams, InputStep(t)
      PROVE  Received'
  BY <1>4, LinkSteps DEF InputStep, InputNext, InputEnds, InputLock, InputPacket, InputResized,
              InputSwallowed, InputFailed, InputReported, Phases, outFlow, session
<1>5. CASE UNCHANGED vars
  BY <1>5 DEF vars, tasks, outFlow, ssh, session
<1>6. CASE CreateSsh \/ CreateFails \/ CreatePublish \/ Output \/ HostStep
  BY <1>6, LinkSteps DEF CreateSsh, CreateFails, CreatePublish, Output, HostStep, tasks, outFlow, session
<1>7. CASE CloseRemove \/ CloseLock \/ CloseReturn
  BY <1>7, LinkSteps DEF CloseRemove, CloseLock, CloseReturn, CloseStep, tasks, outFlow
<1>8. QED
  BY <1>1, <1>2, <1>3, <1>4, <1>5, <1>6, <1>7 DEF Next

-----------------------------------------------------------------------------
(***************************************************************************)
(* Where the output is.                                                    *)
(***************************************************************************)

\* What is among the elements of a sequence of numbers is at some place of it.
LEMMA InToSet ==
  ASSUME NEW f \in Seq(Nat), NEW x
  PROVE  x \in ToSet(f) <=> \E i \in 1..Len(f) : x = f[i]
BY DEF ToSet

\* Places and elements of two sequences in a row.
LEMMA FlowElements ==
  ASSUME NEW a \in Seq(Nat), NEW b \in Seq(Nat)
  PROVE  /\ a \o b \in Seq(Nat) /\ Len(a \o b) = Len(a) + Len(b)
         /\ \A i \in 1..Len(a) : (a \o b)[i] = a[i]
         /\ \A i \in 1..Len(b) : (a \o b)[Len(a) + i] = b[i]
         /\ ToSet(a \o b) = ToSet(a) \cup ToSet(b)
<1>1. /\ a \o b \in Seq(Nat) /\ Len(a \o b) = Len(a) + Len(b)
      /\ \A i \in 1..Len(a) : (a \o b)[i] = a[i]
      /\ \A i \in 1..Len(b) : (a \o b)[Len(a) + i] = b[i]
  BY ConcatProperties
<1>2. ASSUME NEW x
      PROVE  x \in ToSet(a \o b) <=> x \in ToSet(a) \/ x \in ToSet(b)
  <2>1. ASSUME NEW i \in 1..Len(a \o b)
        PROVE  (a \o b)[i] \in ToSet(a) \/ (a \o b)[i] \in ToSet(b)
    <3>1. CASE i \in 1..Len(a)
      BY <1>1, <3>1, InToSet
    <3>2. CASE i > Len(a)
      <4>1. i - Len(a) \in 1..Len(b) /\ Len(a) + (i - Len(a)) = i
        BY <1>1, <3>2
      <4>2. QED
        BY <1>1, <4>1, InToSet
    <3>3. QED
      BY <1>1, <2>1, <3>1, <3>2
  <2>2. ASSUME NEW i \in 1..Len(a)
        PROVE  a[i] \in ToSet(a \o b)
    <3>1. i \in 1..Len(a \o b) /\ (a \o b)[i] = a[i]
      BY <1>1
    <3>2. QED
      BY <1>1, <3>1, InToSet
  <2>3. ASSUME NEW i \in 1..Len(b)
        PROVE  b[i] \in ToSet(a \o b)
    <3>1. Len(a) + i \in 1..Len(a \o b) /\ (a \o b)[Len(a) + i] = b[i]
      BY <1>1
    <3>2. QED
      BY <1>1, <3>1, InToSet
  <2>4. ASSUME x \in ToSet(a \o b)
        PROVE  x \in ToSet(a) \/ x \in ToSet(b)
    <3>1. PICK i \in 1..Len(a \o b) : x = (a \o b)[i]
      <4> DEFINE c == a \o b
      <4>1. c \in Seq(Nat) /\ x \in ToSet(c)
        BY <1>1, <2>4
      <4> HIDE DEF c
      <4>2. \E i \in 1..Len(c) : x = c[i]
        BY <4>1, InToSet
      <4>3. QED
        BY <4>2 DEF c
    <3>2. QED
      BY <2>1, <3>1
  <2>5. ASSUME x \in ToSet(a)
        PROVE  x \in ToSet(a \o b)
    BY <2>2, <2>5, InToSet
  <2>6. ASSUME x \in ToSet(b)
        PROVE  x \in ToSet(a \o b)
    BY <2>3, <2>6, InToSet
  <2>7. QED
    BY <2>4, <2>5, <2>6
<1>3. QED
  BY <1>1, <1>2

\* An SSH_ERROR among the output changes nothing about it.
LEMMA ErrorApart ==
  ASSUME NEW a \in Seq(Nat), NEW b \in Seq(Nat), NEW come \in Nat, NEW missed \in Nat
  PROVE  Accounted(a \o (<<SshError>> \o b), come, missed) <=> Accounted(a \o b, come, missed)
<1> DEFINE e == <<SshError>>
           f == a \o b
           g == a \o (e \o b)
<1>1. e \in Seq(Nat) /\ Len(e) = 1 /\ e[1] = SshError /\ ToSet(e) = {SshError} /\ SshError = 0
  BY DEF SshError, ToSet
<1> HIDE DEF e
<1>2. /\ e \o b \in Seq(Nat) /\ Len(e \o b) = 1 + Len(b)
      /\ (e \o b)[1] = SshError
      /\ \A i \in 1..Len(b) : (e \o b)[1 + i] = b[i]
      /\ ToSet(e \o b) = {SshError} \cup ToSet(b)
  <2>1. /\ e \o b \in Seq(Nat) /\ Len(e \o b) = Len(e) + Len(b)
        /\ \A i \in 1..Len(e) : (e \o b)[i] = e[i]
        /\ \A i \in 1..Len(b) : (e \o b)[Len(e) + i] = b[i]
        /\ ToSet(e \o b) = ToSet(e) \cup ToSet(b)
    BY <1>1, FlowElements
  <2>2. QED
    BY <1>1, <2>1
<1>3. /\ g \in Seq(Nat) /\ Len(g) = Len(a) + 1 + Len(b)
      /\ \A i \in 1..Len(a) : g[i] = a[i]
      /\ \A i \in 1..Len(b) + 1 : g[Len(a) + i] = (e \o b)[i]
      /\ ToSet(g) = ToSet(a) \cup {SshError} \cup ToSet(b)
  <2>1. /\ g \in Seq(Nat) /\ Len(g) = Len(a) + Len(e \o b)
        /\ \A i \in 1..Len(a) : g[i] = a[i]
        /\ \A i \in 1..Len(e \o b) : g[Len(a) + i] = (e \o b)[i]
        /\ ToSet(g) = ToSet(a) \cup ToSet(e \o b)
    BY <1>2, FlowElements
  <2> HIDE DEF g
  <2> DEFINE h == e \o b
             la == Len(a)
             lb == Len(b)
  <2>0. la \in Nat /\ lb \in Nat
    OBVIOUS
  <2>2. /\ la \in Nat /\ lb \in Nat /\ Len(h) = 1 + lb /\ Len(g) = la + Len(h)
        /\ \A i \in 1..Len(h) : g[la + i] = h[i]
    BY <1>2, <2>0, <2>1, Zenon
  <2> HIDE DEF h, la, lb
  <2>3. Len(g) = la + 1 + lb /\ \A i \in 1..lb + 1 : g[la + i] = h[i]
    BY <2>2
  <2>4. ToSet(g) = ToSet(a) \cup {SshError} \cup ToSet(b)
    BY <1>2, <2>1
  <2>5. QED
    BY <2>1, <2>3, <2>4 DEF h, la, lb
<1>4. /\ f \in Seq(Nat) /\ Len(f) = Len(a) + Len(b)
      /\ \A i \in 1..Len(a) : f[i] = a[i]
      /\ \A i \in 1..Len(b) : f[Len(a) + i] = b[i]
      /\ ToSet(f) = ToSet(a) \cup ToSet(b)
  BY FlowElements
<1> HIDE DEF f, g
<1> DEFINE at(i) == IF i <= Len(a) THEN i ELSE i + 1
<1>5. \A i \in 1..Len(f) : at(i) \in 1..Len(g) /\ g[at(i)] = f[i]
  <2>1. ASSUME NEW i \in 1..Len(f), i > Len(a)
        PROVE  g[i + 1] = f[i]
    <3> DEFINE j == i - Len(a)
    <3>1. j \in 1..Len(b) /\ 1 + j \in 1..Len(b) + 1 /\ i = Len(a) + j /\ i + 1 = Len(a) + (1 + j)
      BY <1>4, <2>1
    <3> HIDE DEF j
    <3>2. g[Len(a) + (1 + j)] = (e \o b)[1 + j]
      BY <1>3, <3>1
    <3>3. QED
      BY <1>2, <1>4, <3>1, <3>2
  <2>2. ASSUME NEW i \in 1..Len(f), i <= Len(a)
        PROVE  g[i] = f[i]
    BY <1>3, <1>4, <2>2
  <2>3. ASSUME NEW i \in 1..Len(f)
        PROVE  at(i) \in 1..Len(g)
    BY <1>3, <1>4
  <2>4. QED
    BY <1>4, <2>1, <2>2, <2>3
<1>6. \A j \in 1..Len(g) : g[j] = SshError \/ \E i \in 1..Len(f) : j = at(i)
  <2>1. ASSUME NEW j \in 1..Len(g), j > Len(a) + 1
        PROVE  \E i \in 1..Len(f) : j = at(i)
    <3>1. j - 1 \in 1..Len(f) /\ j = at(j - 1)
      BY <1>3, <1>4, <2>1
    <3>2. QED
      BY <3>1
  <2>2. g[Len(a) + 1] = SshError
    BY <1>2, <1>3
  <2>3. ASSUME NEW j \in 1..Len(a)
        PROVE  j \in 1..Len(f) /\ j = at(j)
    BY <1>4
  <2>4. ASSUME NEW j \in 1..Len(g)
        PROVE  j \in 1..Len(a) \/ j = Len(a) + 1 \/ j > Len(a) + 1
    BY <1>3
  <2> HIDE DEF at
  <2>5. QED
    BY <2>1, <2>2, <2>3, <2>4
<1>7. \A i, j \in 1..Len(f) : i < j <=> at(i) < at(j)
  BY <1>4
<1> HIDE DEF at
<1>8. InOrder(g) <=> InOrder(f)
  <2>1. ASSUME InOrder(g), NEW i \in 1..Len(f), NEW j \in 1..Len(f), i < j,
               SshError \notin {f[i], f[j]}
        PROVE  f[i] < f[j]
    BY <1>5, <1>7, <2>1 DEF InOrder
  <2>2. ASSUME InOrder(f), NEW i \in 1..Len(g), NEW j \in 1..Len(g), i < j,
               SshError \notin {g[i], g[j]}
        PROVE  g[i] < g[j]
    <3>1. PICK k \in 1..Len(f) : i = at(k)
      BY <1>6, <2>2
    <3>2. PICK l \in 1..Len(f) : j = at(l)
      BY <1>6, <2>2
    <3>3. QED
      BY <1>5, <1>7, <2>2, <3>1, <3>2 DEF InOrder
  <2>3. QED
    BY <2>1, <2>2 DEF InOrder
<1>9. (\A i \in 1..Len(g) : g[i] <= come) <=> (\A i \in 1..Len(f) : f[i] <= come)
  <2>1. ASSUME \A i \in 1..Len(g) : g[i] <= come, NEW i \in 1..Len(f)
        PROVE  f[i] <= come
    BY <1>5, <2>1
  <2>2. ASSUME \A i \in 1..Len(f) : f[i] <= come, NEW j \in 1..Len(g)
        PROVE  g[j] <= come
    <3>1. CASE g[j] = SshError
      BY <1>1, <3>1
    <3>2. CASE \E i \in 1..Len(f) : j = at(i)
      BY <1>5, <2>2, <3>2
    <3>3. QED
      BY <1>6, <3>1, <3>2
  <2>3. QED
    BY <2>1, <2>2
<1>10. ToSet(g) \ {SshError} = ToSet(f) \ {SshError}
  BY <1>3, <1>4
<1>11. QED
  BY <1>8, <1>9, <1>10 DEF Accounted, f, g, e

\* The next piece of the output goes behind the others.
LEMMA PieceBehind ==
  ASSUME NEW f \in Seq(Nat), NEW come \in Nat, NEW missed \in Nat, Accounted(f, come, missed)
  PROVE  Accounted(f \o <<come + 1>>, come + 1, missed)
<1> DEFINE e == <<come + 1>>
           g == f \o e
<1>1. e \in Seq(Nat) /\ Len(e) = 1 /\ e[1] = come + 1 /\ ToSet(e) = {come + 1}
  BY DEF ToSet
<1> HIDE DEF e
<1>2. /\ g \in Seq(Nat) /\ Len(g) = Len(f) + 1
      /\ \A i \in 1..Len(f) : g[i] = f[i]
      /\ g[Len(f) + 1] = come + 1
      /\ ToSet(g) = ToSet(f) \cup {come + 1}
  <2>1. /\ g \in Seq(Nat) /\ Len(g) = Len(f) + Len(e)
        /\ \A i \in 1..Len(f) : g[i] = f[i]
        /\ \A i \in 1..Len(e) : g[Len(f) + i] = e[i]
        /\ ToSet(g) = ToSet(f) \cup ToSet(e)
    BY <1>1, FlowElements
  <2>2. QED
    BY <1>1, <2>1
<1> HIDE DEF g
<1>3. \A i \in 1..Len(f) : f[i] <= come /\ f[i] \in Nat
  BY DEF Accounted
<1>4. InOrder(g)
  <2> SUFFICES ASSUME NEW i \in 1..Len(g), NEW j \in 1..Len(g), i < j,
                      SshError \notin {g[i], g[j]}
               PROVE  g[i] < g[j]
    BY DEF InOrder
  <2>1. Len(f) \in Nat /\ Len(g) = Len(f) + 1
    BY <1>2
  <2>2. i \in 1..Len(f) /\ (j \in 1..Len(f) \/ j = Len(f) + 1)
    BY <2>1
  <2>3. CASE j \in 1..Len(f)
    BY <1>2, <2>2, <2>3 DEF Accounted, InOrder
  <2>4. CASE j = Len(f) + 1
    <3>1. g[i] = f[i] /\ g[j] = come + 1 /\ f[i] <= come /\ f[i] \in Nat
      BY <1>2, <1>3, <2>2, <2>4
    <3>2. QED
      BY <3>1
  <2>5. QED
    BY <2>2, <2>3, <2>4
<1>5. \A i \in 1..Len(g) : g[i] <= come + 1
  <2> SUFFICES ASSUME NEW i \in 1..Len(g) PROVE g[i] <= come + 1
    OBVIOUS
  <2>1. Len(f) \in Nat /\ Len(g) = Len(f) + 1
    BY <1>2
  <2>2. i \in 1..Len(f) \/ i = Len(f) + 1
    BY <2>1
  <2>3. CASE i \in 1..Len(f)
    <3>1. g[i] \in Nat /\ g[i] <= come
      BY <1>2, <1>3, <2>3
    <3>2. QED
      BY <3>1
  <2>4. CASE i = Len(f) + 1
    BY <1>2, <2>4
  <2>5. QED
    BY <2>2, <2>3, <2>4
<1>6. ToSet(f) \subseteq 0..come
  BY <1>3 DEF ToSet
<1>7. IsFiniteSet(ToSet(f) \ {SshError})
  <2>1. IsFiniteSet(0..come)
    BY FS_Interval
  <2>2. ToSet(f) \ {SshError} \in SUBSET (0..come)
    BY <1>6
  <2>3. QED
    BY <2>1, <2>2, FS_Subset
<1>8. ToSet(g) \ {SshError} = (ToSet(f) \ {SshError}) \cup {come + 1}
  BY <1>2 DEF SshError
<1>9. come + 1 \notin ToSet(f)
  BY <1>6
<1>10. Cardinality(ToSet(g) \ {SshError}) = Cardinality(ToSet(f) \ {SshError}) + 1
  BY <1>7, <1>8, <1>9, FS_AddElement
<1>11. Cardinality(ToSet(f) \ {SshError}) \in Nat
  BY <1>7, FS_CardinalityType
<1>12. QED
  BY <1>4, <1>5, <1>10, <1>11 DEF Accounted, g, e

\* The flow of a stream is what the client has, what waits for it, and what its task holds.
LEMMA FlowParts ==
  ASSUME OutType, NEW t \in Streams
  PROVE  /\ got[t] \in Seq(Nat) /\ outbox[t] \in Seq(Nat) /\ next[t] \in Nat /\ skipped[t] \in Nat
         /\ got[t] \o outbox[t] \in Seq(Nat) /\ Flow(t) \in Seq(Nat)
         /\ output[t] = "push" => Flow(t) = (got[t] \o outbox[t]) \o <<next[t]>>
         /\ output[t] # "push" => Flow(t) = got[t] \o outbox[t]
<1>1. got[t] \in Seq(Nat) /\ outbox[t] \in Seq(Nat) /\ next[t] \in Nat /\ skipped[t] \in Nat
  <2>1. 0..MaxOutput \subseteq Nat
    BY BoundsAssumption
  <2>2. QED
    BY <2>1, SeqMonotonic DEF OutType
<1>2. got[t] \o outbox[t] \in Seq(Nat)
  BY <1>1, ConcatProperties
<1>3. (got[t] \o outbox[t]) \o <<>> = got[t] \o outbox[t]
  BY <1>2, ConcatEmptySeq
<1>4. (got[t] \o outbox[t]) \o <<next[t]>> \in Seq(Nat)
  BY <1>1, <1>2
<1>5. QED
  BY <1>1, <1>2, <1>3, <1>4 DEF Flow

\* Pieces in a row are in that row however they are grouped.
LEMMA Assoc ==
  \A a, b, c \in Seq(Nat) : (a \o b) \o c = a \o (b \o c)
BY ConcatAssociative

\* The same for four sequences: a piece taken off the channel goes behind what was read.
Regroups(a, b, c, d) == (a \o (b \o c)) \o d = (a \o b) \o (c \o d)

LEMMA RegroupPairs ==
  ASSUME NEW a \in Seq(Nat), NEW b \in Seq(Nat), NEW c \in Seq(Nat), NEW d \in Seq(Nat)
  PROVE  Regroups(a, b, c, d)
<1>1. a \o b \in Seq(Nat)
  OBVIOUS
<1>2. ((a \o b) \o c) \o d = (a \o b) \o (c \o d)
  BY <1>1, Assoc
<1>3. (a \o b) \o c = a \o (b \o c)
  BY Assoc
<1>4. QED
  BY <1>2, <1>3 DEF Regroups

\* Who has left does not come back.
LEMMA GoneStays ==
  ASSUME TaskType, NEW t \in Streams, client[t] = "gone", [Next]_vars
  PROVE  client'[t] = "gone"
<1> USE DEF TaskType
<1>1. CASE \E u \in Streams : ClientStep(u) \/ AttachStep(u)
  BY <1>1 DEF ClientStep, AttachStep, ClientCalls, ClientTypes, ClientReads, ClientCloses,
              ClientLeaves, AttachFirst, AttachRefused, AttachSubscribe, AttachDropped, Become, tasks
<1>2. CASE \E u \in Streams : OutputStep(u)
  BY <1>2 DEF OutputStep, OutputReceive, OutputLagged, OutputPush, OutputEnds, tasks
<1>3. CASE \E u \in Streams : InputStep(u)
  BY <1>3 DEF InputStep, InputNext, InputEnds, InputLock, InputPacket, InputResized,
              InputSwallowed, InputFailed, InputReported
<1>4. CASE UNCHANGED vars
  BY <1>4 DEF vars, tasks
<1>5. CASE CreateSsh \/ CreateFails \/ CreatePublish \/ Output \/ HostStep
  BY <1>5 DEF CreateSsh, CreateFails, CreatePublish, Output, HostStep, tasks
<1>6. CASE CloseRemove \/ CloseLock \/ CloseReturn
  BY <1>6 DEF CloseRemove, CloseLock, CloseReturn, CloseStep, tasks
<1>7. QED
  BY <1>1, <1>2, <1>3, <1>4, <1>5, <1>6 DEF Next

\* A step that concerns one stream only has to keep the flow of that one.
LEMMA OtherFlows ==
  ASSUME Placed, TaskType, [Next]_vars, NEW t \in Streams,
         \A u \in Streams \ {t} :
           /\ got'[u] = got[u] /\ outbox'[u] = outbox[u] /\ output'[u] = output[u]
           /\ next'[u] = next[u] /\ skipped'[u] = skipped[u],
         client'[t] # "gone" => Accounted(Flow(t)', next'[t], skipped'[t])
  PROVE  Placed'
<1> SUFFICES ASSUME NEW u \in Streams, client'[u] # "gone"
             PROVE  Accounted(Flow(u)', next'[u], skipped'[u])
  BY DEF Placed
<1>1. CASE u = t
  BY <1>1
<1>2. CASE u # t
  <2>1. Flow(u)' = Flow(u)
    BY <1>2 DEF Flow
  <2>2. Accounted(Flow(u), next[u], skipped[u])
    BY <1>2, GoneStays DEF Placed
  <2>3. QED
    BY <1>2, <2>1, <2>2
<1>3. QED
  BY <1>1, <1>2

\* Every step keeps the output of a stream in order.
LEMMA NextPlaced ==
  ASSUME OutType, TaskType, SshType, Phases, LockHeld, Received, Placed, OutType', [Next]_vars
  PROVE  Placed'
<1> USE DEF TaskType, OutType
<1>1. CASE UNCHANGED outFlow /\ \A t \in Streams : output'[t] # output[t] => OutputEnds(t)
  <2> SUFFICES ASSUME NEW t \in Streams, client'[t] # "gone"
               PROVE  Accounted(Flow(t)', next'[t], skipped'[t])
    BY DEF Placed
  <2>1. client[t] # "gone"
    BY GoneStays
  <2>2. output[t] = "push" <=> output'[t] = "push"
    <3>1. CASE output'[t] # output[t]
      BY <1>1, <2>1, <3>1 DEF OutputEnds
    <3>2. QED
      BY <3>1
  <2>3. got' = got /\ outbox' = outbox /\ next' = next /\ skipped' = skipped
    BY <1>1 DEF outFlow
  <2>4. Flow(t)' = Flow(t)
    BY <2>2, <2>3 DEF Flow
  <2>5. QED
    BY <2>1, <2>3, <2>4 DEF Placed
<1>2. ASSUME NEW t \in Streams, ClientReads(t)
      PROVE  Placed'
  <2> DEFINE h == Head(outbox[t])
             rest == (IF output[t] = "push" THEN <<next[t]>> ELSE <<>>)
  <2>1. /\ client[t] # "gone" /\ outbox[t] # <<>>
        /\ outbox' = [outbox EXCEPT ![t] = Tail(@)]
        /\ got' = IF h = SshError THEN got ELSE [got EXCEPT ![t] = Append(@, h)]
        /\ UNCHANGED <<next, skipped, client, output>>
    BY <1>2 DEF ClientReads, tasks
  <2>2. /\ rest \in Seq(Nat) /\ got[t] \in Seq(Nat) /\ Tail(outbox[t]) \in Seq(Nat)
        /\ <<h>> \in Seq(Nat) /\ outbox[t] = <<h>> \o Tail(outbox[t])
        /\ Append(got[t], h) = got[t] \o <<h>>
        /\ next[t] \in Nat /\ skipped[t] \in Nat
    <3>1. outbox[t] \in Seq(Nat) /\ got[t] \in Seq(Nat) /\ next[t] \in Nat /\ skipped[t] \in Nat
      BY FlowParts
    <3>2. h \in Nat /\ Tail(outbox[t]) \in Seq(Nat)
      BY <2>1, <3>1
    <3>3. QED
      BY <2>1, <3>1, <3>2
  <2> DEFINE g == got[t]
             e == <<h>>
             behind == Tail(outbox[t])
  <2>3. /\ (g \o (e \o behind)) \o rest = g \o (e \o (behind \o rest))
        /\ (g \o e) \o behind = g \o (e \o behind)
        /\ (g \o behind) \o rest = g \o (behind \o rest)
    <3>1. g \in Seq(Nat) /\ e \in Seq(Nat) /\ behind \in Seq(Nat) /\ rest \in Seq(Nat)
      BY <2>2
    <3> HIDE DEF g, e, behind, rest
    <3>2. (g \o (e \o behind)) \o rest = g \o (e \o (behind \o rest))
      <4>1. e \o behind \in Seq(Nat) /\ (e \o behind) \o rest = e \o (behind \o rest)
        BY <3>1, Assoc, ConcatProperties
      <4>2. (g \o (e \o behind)) \o rest = g \o ((e \o behind) \o rest)
        BY <3>1, <4>1, Assoc
      <4>3. QED
        BY <4>1, <4>2
    <3>3. (g \o e) \o behind = g \o (e \o behind)
      BY <3>1, Assoc
    <3>4. (g \o behind) \o rest = g \o (behind \o rest)
      BY <3>1, Assoc
    <3>5. QED
      BY <3>2, <3>3, <3>4
  <2>8. Flow(t) = g \o (e \o (behind \o rest))
    BY <2>2, <2>3 DEF Flow
  <2>4. Accounted(Flow(t), next[t], skipped[t])
    BY <2>1 DEF Placed
  <2>5. CASE h = SshError
    <3>1. Flow(t)' = (got[t] \o Tail(outbox[t])) \o rest
      BY <2>1, <2>5 DEF Flow
    <3>2. Flow(t)' = got[t] \o (Tail(outbox[t]) \o rest)
      BY <2>3, <3>1
    <3>3. Tail(outbox[t]) \o rest \in Seq(Nat)
      BY <2>2, ConcatProperties
    <3>4. Accounted(Flow(t)', next[t], skipped[t])
      <4> DEFINE back == Tail(outbox[t]) \o rest
      <4>1. Accounted(got[t] \o (<<SshError>> \o back), next[t], skipped[t])
        BY <2>8, <2>4, <2>5
      <4> HIDE DEF back
      <4>2. back \in Seq(Nat)
        BY <3>3 DEF back
      <4>3. Accounted(got[t] \o back, next[t], skipped[t])
        BY <2>2, <4>1, <4>2, ErrorApart
      <4>4. QED
        BY <3>2, <4>3 DEF back
    <3>5. QED
      BY <2>1, <2>5, <3>4, OtherFlows
  <2>6. CASE h # SshError
    <3>1. Flow(t)' = ((got[t] \o <<h>>) \o Tail(outbox[t])) \o rest
      BY <2>1, <2>2, <2>6 DEF Flow
    <3>2. Flow(t)' = ((g \o e) \o behind) \o rest
      BY <3>1
    <3>4. Flow(t)' = Flow(t)
      <4> HIDE DEF g, e, behind, rest
      <4>1. QED
        BY <2>3, <2>8, <3>2
    <3>3. QED
      BY <2>1, <2>4, <2>6, <3>4, OtherFlows
  <2>7. QED
    BY <2>5, <2>6
<1>3. ASSUME NEW t \in Streams, ClientLeaves(t)
      PROVE  Placed'
  <2>1. client'[t] = "gone"
    BY <1>3 DEF ClientLeaves
  <2>2. QED
    BY <1>3, <2>1, OtherFlows DEF ClientLeaves
<1>4. ASSUME NEW t \in Streams, AttachSubscribe(t)
      PROVE  Placed'
  <2>1. got[t] = <<>> /\ outbox[t] = <<>>
    BY <1>4 DEF AttachSubscribe, Become, Phases, Received
  <2>2. Flow(t)' = <<>> /\ next'[t] = skipped'[t] /\ next'[t] \in Nat
    <3>1. Flow(t)' = (<<>> \o <<>>) \o <<>>
      BY <1>4, <2>1 DEF AttachSubscribe, Flow
    <3>2. <<>> \in Seq(Nat)
      OBVIOUS
    <3>3. QED
      BY <1>4, <3>1, <3>2, ConcatEmptySeq DEF AttachSubscribe, SshType
  <2>3. Accounted(Flow(t)', next'[t], skipped'[t])
    <3>1. ToSet(<<>>) \ {SshError} = {}
      BY DEF ToSet
    <3>2. Cardinality(ToSet(<<>>) \ {SshError}) = 0
      BY <3>1, FS_EmptySet
    <3>3. QED
      BY <2>2, <3>2 DEF Accounted, InOrder
  <2>4. QED
    BY <1>4, <2>3, OtherFlows DEF AttachSubscribe
<1>5. ASSUME NEW t \in Streams, OutputReceive(t)
      PROVE  Placed'
  <2>1. /\ Flow(t) = got[t] \o outbox[t]
        /\ Flow(t) \in Seq(Nat) /\ next[t] \in Nat /\ skipped[t] \in Nat
    BY <1>5, FlowParts DEF OutputReceive, Become
  <2>2. Flow(t)' = Flow(t) \o <<next[t] + 1>> /\ next'[t] = next[t] + 1 /\ skipped'[t] = skipped[t]
    BY <1>5, <2>1 DEF OutputReceive, Become, Flow
  <2>3. client'[t] # "gone" => Accounted(Flow(t)', next'[t], skipped'[t])
    <3>1. SUFFICES ASSUME client'[t] # "gone"
                   PROVE  Accounted(Flow(t) \o <<next[t] + 1>>, next[t] + 1, skipped[t])
      BY <2>2
    <3>2. Accounted(Flow(t), next[t], skipped[t])
      BY <3>1, GoneStays DEF Placed
    <3> DEFINE f == Flow(t)
    <3> HIDE DEF f
    <3>3. f \in Seq(Nat) /\ Accounted(f, next[t], skipped[t])
      BY <2>1, <3>2 DEF f
    <3>4. Accounted(f \o <<next[t] + 1>>, next[t] + 1, skipped[t])
      BY <2>1, <3>3, PieceBehind
    <3>5. QED
      BY <3>4 DEF f
  <2>4. QED
    BY <1>5, <2>3, OtherFlows DEF OutputReceive, Become
<1>6. ASSUME NEW t \in Streams, OutputLagged(t)
      PROVE  Placed'
  <2>1. /\ Flow(t) = got[t] \o outbox[t] /\ Flow(t) \in Seq(Nat)
        /\ next[t] \in Nat /\ skipped[t] \in Nat
    BY <1>6, FlowParts DEF OutputLagged
  <2>2. Oldest \in Nat /\ next[t] < Oldest
    BY <1>6, ChannelsAssumption DEF OutputLagged, Oldest, SshType
  <2>3. /\ Flow(t)' = Flow(t)
        /\ next'[t] = Oldest /\ skipped'[t] = skipped[t] + Oldest - next[t]
    BY <1>6, <2>1 DEF OutputLagged, Flow, tasks
  <2>4. ASSUME client[t] # "gone"
        PROVE  Accounted(Flow(t), Oldest, skipped[t] + Oldest - next[t])
    <3>1. Accounted(Flow(t), next[t], skipped[t])
      BY <2>4 DEF Placed
    <3>2. \A i \in 1..Len(Flow(t)) : Flow(t)[i] <= Oldest
      <4> DEFINE f == Flow(t)
      <4>1. f \in Seq(Nat) /\ \A i \in 1..Len(f) : f[i] <= next[t]
        BY <2>1, <3>1 DEF Accounted
      <4> HIDE DEF f
      <4>2. \A i \in 1..Len(f) : f[i] \in Nat /\ f[i] <= next[t]
        BY <4>1
      <4>3. \A k \in Nat : k <= next[t] => k <= Oldest
        BY <2>1, <2>2
      <4>4. \A i \in 1..Len(f) : f[i] <= Oldest
        BY <4>2, <4>3
      <4>5. QED
        BY <4>4 DEF f
    <3> DEFINE n == Cardinality(ToSet(Flow(t)) \ {SshError})
    <3>3. n + skipped[t] = next[t]
      BY <3>1 DEF Accounted
    <3>4. n \in Nat
      <4>1. ToSet(Flow(t)) \ {SshError} \in SUBSET (0..next[t])
        BY <2>1, <3>1 DEF Accounted, ToSet
      <4>2. IsFiniteSet(0..next[t])
        BY <2>1, FS_Interval
      <4>3. QED
        BY <4>1, <4>2, FS_Subset, FS_CardinalityType
    <3> HIDE DEF n
    <3>5. n + (skipped[t] + Oldest - next[t]) = Oldest
      BY <2>1, <2>2, <3>3, <3>4
    <3>6. QED
      BY <3>1, <3>2, <3>5 DEF Accounted, n
  <2>5. QED
    BY <1>6, <2>3, <2>4, GoneStays, OtherFlows DEF OutputLagged, tasks
<1>7. ASSUME NEW t \in Streams, OutputPush(t)
      PROVE  Placed'
  <2>1. /\ got[t] \in Seq(Nat) /\ outbox[t] \in Seq(Nat) /\ next[t] \in Nat
        /\ Flow(t) = (got[t] \o outbox[t]) \o <<next[t]>>
    BY <1>7, FlowParts DEF OutputPush, Become
  <2>5. <<next[t]>> \in Seq(Nat) /\ Append(outbox[t], next[t]) = outbox[t] \o <<next[t]>>
    BY <2>1
  <2>2. Flow(t)' = (got[t] \o (outbox[t] \o <<next[t]>>)) \o <<>>
    BY <1>7, <2>5 DEF OutputPush, Become, Flow
  <2>3. Flow(t)' = Flow(t)
    <3> DEFINE g == got[t]
               o == outbox[t]
               n == <<next[t]>>
    <3>1. g \in Seq(Nat) /\ o \in Seq(Nat) /\ n \in Seq(Nat)
      BY <2>1, <2>5
    <3>2. Flow(t)' = (g \o (o \o n)) \o <<>> /\ Flow(t) = (g \o o) \o n
      BY <2>1, <2>2
    <3> HIDE DEF g, o, n, TaskType, OutType
    <3>3. (g \o o) \o n = g \o (o \o n)
      BY <3>1, Assoc
    <3>4. o \o n \in Seq(Nat)
      BY <3>1, ConcatProperties
    <3>5. g \o (o \o n) \in Seq(Nat)
      BY <3>1, <3>4, ConcatProperties
    <3>6. (g \o (o \o n)) \o <<>> = g \o (o \o n)
      BY <3>5, ConcatEmptySeq
    <3>7. QED
      BY <3>2, <3>3, <3>6
  <2>4. QED
    BY <1>7, <2>3, GoneStays, OtherFlows DEF OutputPush, Become, Placed
<1>8. ASSUME NEW t \in Streams, InputReported(t)
      PROVE  Placed'
  <2> DEFINE rest == (IF output[t] = "push" THEN <<next[t]>> ELSE <<>>)
             e == <<SshError>>
  <2>1. UNCHANGED <<next, skipped, got, client, output>>
    BY <1>8 DEF InputReported
  <2>2. CASE UNCHANGED outbox
    <3>1. Flow(t)' = Flow(t)
      BY <2>1, <2>2 DEF Flow
    <3>2. client'[t] # "gone" => Accounted(Flow(t)', next'[t], skipped'[t])
      BY <2>1, <3>1 DEF Placed
    <3>3. QED
      BY <2>1, <2>2, <3>2, OtherFlows
  <2>3. CASE outbox' = [outbox EXCEPT ![t] = Append(@, SshError)]
    <3>1. /\ got[t] \in Seq(Nat) /\ outbox[t] \in Seq(Nat) /\ rest \in Seq(Nat) /\ e \in Seq(Nat)
          /\ next[t] \in Nat /\ skipped[t] \in Nat
          /\ Append(outbox[t], SshError) = outbox[t] \o e
      <4>1. got[t] \in Seq(Nat) /\ outbox[t] \in Seq(Nat) /\ next[t] \in Nat /\ skipped[t] \in Nat
        BY FlowParts
      <4>2. SshError \in Nat
        BY DEF SshError
      <4>3. QED
        BY <4>1, <4>2
    <3>2. Flow(t)' = (got[t] \o (outbox[t] \o e)) \o rest /\ Flow(t) = (got[t] \o outbox[t]) \o rest
      BY <2>1, <2>3, <3>1 DEF Flow
    <3>3. Flow(t)' = (got[t] \o outbox[t]) \o (e \o rest)
      <4> DEFINE g == got[t]
                 o == outbox[t]
      <4> HIDE DEF e, rest
      <4>1. g \in Seq(Nat) /\ o \in Seq(Nat) /\ e \in Seq(Nat) /\ rest \in Seq(Nat)
        BY <3>1
      <4>2. Flow(t)' = (g \o (o \o e)) \o rest
        BY <3>2
      <4> HIDE DEF g, o, TaskType, OutType
      <4>3. Regroups(g, o, e, rest)
        BY <4>1, RegroupPairs
      <4>4. Flow(t)' = (g \o o) \o (e \o rest)
        BY <4>2, <4>3, Zenon DEF Regroups
      <4>5. QED
        BY <4>4 DEF g, o
    <3>4. got[t] \o outbox[t] \in Seq(Nat)
      BY <3>1, ConcatProperties
    <3>5. Accounted(Flow(t)', next[t], skipped[t]) <=> Accounted(Flow(t), next[t], skipped[t])
      <4> DEFINE front == got[t] \o outbox[t]
      <4> HIDE DEF front, rest
      <4>1. front \in Seq(Nat)
        BY <3>4 DEF front
      <4>2. Accounted(front \o (<<SshError>> \o rest), next[t], skipped[t])
              <=> Accounted(front \o rest, next[t], skipped[t])
        BY <3>1, <4>1, ErrorApart
      <4>3. QED
        BY <3>2, <3>3, <4>2 DEF front
    <3>6. QED
      BY <2>1, <2>3, <3>5, OtherFlows DEF Placed
  <2>4. QED
    BY <1>8, <2>2, <2>3 DEF InputReported
<1>9. QED
  BY <1>1, <1>2, <1>3, <1>4, <1>5, <1>6, <1>7, <1>8, OutFlowSteps

-----------------------------------------------------------------------------
(***************************************************************************)
(* Where the packets are.                                                  *)
(***************************************************************************)

\* A packet at the host is a stream and the number of a message.
LEMMA PacketTypes ==
  ASSUME InType
  PROVE  /\ Len(host) \in Nat
         /\ \A i \in 1..Len(host) : /\ host[i][1] \in Streams /\ host[i][2] \in Nat \ {0}
                                   /\ host[i] = <<host[i][1], host[i][2]>>
         /\ \A t \in Streams : taken[t] \in Nat
BY DEF InType

\* A new packet comes behind all others, which stay where they are.
LEMMA PacketBehind ==
  ASSUME InType, NEW t \in Streams, InputPacket(t)
  PROVE  /\ Len(host') = Len(host) + 1 /\ host'[Len(host) + 1] = <<t, taken[t]>>
         /\ \A i \in 1..Len(host) : host'[i] = host[i]
         /\ \A i \in 1..Len(host') : i \in 1..Len(host) \/ i = Len(host) + 1
<1>1. host' = Append(host, <<t, taken[t]>>) /\ host \in Seq(Streams \X (Nat \ {0}))
  BY DEF InputPacket, InType
<1>2. /\ Len(host') = Len(host) + 1 /\ host'[Len(host) + 1] = <<t, taken[t]>>
      /\ \A i \in 1..Len(host) : host'[i] = host[i]
  BY <1>1
<1>3. Len(host) \in Nat
  BY PacketTypes
<1>4. QED
  BY <1>2, <1>3

\* Every step gives the shell packets of taken messages only.
LEMMA NextTaken ==
  ASSUME InType, TaskType, Phases, Taken, [Next]_vars
  PROVE  Taken'
<1>1. CASE UNCHANGED <<host, taken>> /\
           \A t \in Streams : input'[t] # input[t] => input'[t] \notin {"none", "lock"}
  BY <1>1 DEF Taken
<1>2. ASSUME NEW t \in Streams, AttachFirst(t) \/ InputNext(t)
      PROVE  Taken'
  <2>1. /\ host' = host /\ taken'[t] = taken[t] + 1
        /\ \A u \in Streams \ {t} : taken'[u] = taken[u] /\ input'[u] = input[u]
    BY <1>2 DEF AttachFirst, InputNext, Become, InType, TaskType
  <2>2. QED
    BY <2>1, PacketTypes DEF Taken
<1>3. ASSUME NEW t \in Streams, InputPacket(t)
      PROVE  Taken'
  <2>1. taken' = taken /\ input'[t] \notin {"none", "lock"} /\ \A u \in Streams \ {t} : input'[u] = input[u]
    BY <1>3 DEF InputPacket, Unlock, TaskType
  <2>2. QED
    BY <1>3, <2>1, PacketBehind, PacketTypes DEF Taken
<1>4. ASSUME NEW t \in Streams, ClientTypes(t)
      PROVE  Taken'
  BY <1>1, <1>4 DEF ClientTypes, tasks
<1>5. ASSUME NEW t \in Streams, InputLock(t) \/ InputSwallowed(t) \/ InputFailed(t)
      PROVE  Taken'
  BY <1>1, <1>5 DEF InputLock, InputSwallowed, InputFailed, Become, Unlock, TaskType
<1>6. QED
  BY <1>1, <1>2, <1>3, <1>4, <1>5, InFlowSteps DEF inFlow

\* Every step keeps the packets of a message under way the last of the shell.
LEMMA NextLatest ==
  ASSUME InType, TaskType, Phases, LockHeld, Taken, Latest, [Next]_vars
  PROVE  Latest'
<1>1. CASE UNCHANGED <<host, taken>> /\
           \A t \in Streams : input'[t] # input[t] => input'[t] # "send"
  BY <1>1 DEF Latest
<1>2. ASSUME NEW t \in Streams, AttachFirst(t) \/ InputNext(t)
      PROVE  Latest'
  <2>1. /\ host' = host /\ input'[t] # "send"
        /\ \A u \in Streams \ {t} : taken'[u] = taken[u] /\ input'[u] = input[u]
    BY <1>2 DEF AttachFirst, InputNext, Become, InType, TaskType, Phases
  <2>2. QED
    BY <2>1 DEF Latest
<1>3. ASSUME NEW t \in Streams, InputPacket(t)
      PROVE  Latest'
  <2>1. /\ taken' = taken /\ input[t] = "send"
        /\ \A u \in Streams \ {t} : input'[u] # "send"
    BY <1>3 DEF InputPacket, Unlock, TaskType, LockHeld
  <2> SUFFICES ASSUME NEW i \in 1..Len(host'), NEW j \in 1..Len(host'), i < j,
                      host'[i] = <<t, taken[t]>>
               PROVE  host'[j] = <<t, taken[t]>>
    BY <2>1 DEF Latest
  <2>2. i \in 1..Len(host)
    BY <1>3, PacketBehind, PacketTypes
  <2>3. CASE j \in 1..Len(host)
    BY <1>3, <2>1, <2>2, <2>3, PacketBehind DEF Latest
  <2>4. CASE j = Len(host) + 1
    BY <1>3, <2>4, PacketBehind
  <2>5. QED
    BY <1>3, <2>3, <2>4, PacketBehind
<1>4. ASSUME NEW t \in Streams, InputLock(t)
      PROVE  Latest'
  <2>1. /\ host' = host /\ taken' = taken /\ input[t] = "lock"
        /\ \A u \in Streams \ {t} : input'[u] = input[u]
    BY <1>4 DEF InputLock, Become, TaskType
  <2>2. \A i \in 1..Len(host) : host[i] # <<t, taken[t]>>
    <3> SUFFICES ASSUME NEW i \in 1..Len(host), host[i] = <<t, taken[t]>> PROVE FALSE
      OBVIOUS
    <3>1. host[i][1] = t /\ host[i][2] = taken[t] /\ taken[t] \in Nat
      BY PacketTypes
    <3>2. QED
      BY <2>1, <3>1 DEF Taken
  <2>3. QED
    BY <2>1, <2>2 DEF Latest
<1>5. ASSUME NEW t \in Streams, ClientTypes(t)
      PROVE  Latest'
  BY <1>1, <1>5 DEF ClientTypes, tasks
<1>6. ASSUME NEW t \in Streams, InputSwallowed(t) \/ InputFailed(t)
      PROVE  Latest'
  BY <1>1, <1>6 DEF InputSwallowed, InputFailed, Become, Unlock, TaskType
<1>7. QED
  BY <1>1, <1>2, <1>3, <1>4, <1>5, <1>6, InFlowSteps DEF inFlow

\* Every step keeps the packets at the host whole.
LEMMA NextArrived ==
  ASSUME InType, TaskType, Phases, Taken, Latest, Arrived, [Next]_vars
  PROVE  Arrived'
<1>1. CASE UNCHANGED host
  BY <1>1 DEF Arrived
<1>2. ASSUME NEW t \in Streams, InputPacket(t)
      PROVE  Arrived'
  <2>1. input[t] = "send"
    BY <1>2 DEF InputPacket
  <2>2. ASSUME NEW i \in 1..Len(host'), NEW j \in 1..Len(host'), i < j, host'[i][1] = host'[j][1]
        PROVE  host'[i][2] <= host'[j][2]
    <3>1. i \in 1..Len(host)
      BY <1>2, <2>2, PacketBehind, PacketTypes
    <3>2. CASE j \in 1..Len(host)
      BY <1>2, <2>2, <3>1, <3>2, PacketBehind DEF Arrived
    <3>3. CASE j = Len(host) + 1
      BY <1>2, <2>2, <3>1, <3>3, PacketBehind DEF Taken
    <3>4. QED
      BY <1>2, <3>2, <3>3, PacketBehind
  <2>3. ASSUME NEW i \in 1..Len(host'), NEW j \in 1..Len(host'), NEW k \in 1..Len(host'),
               i < j, j < k, host'[i] = host'[k]
        PROVE  host'[j] = host'[i]
    <3>1. i \in 1..Len(host) /\ j \in 1..Len(host)
      BY <1>2, <2>3, PacketBehind, PacketTypes
    <3>2. CASE k \in 1..Len(host)
      BY <1>2, <2>3, <3>1, <3>2, PacketBehind DEF Arrived
    <3>3. CASE k = Len(host) + 1
      BY <1>2, <2>1, <2>3, <3>1, <3>3, PacketBehind DEF Latest
    <3>4. QED
      BY <1>2, <3>2, <3>3, PacketBehind
  <2>4. QED
    BY <2>2, <2>3 DEF Arrived
<1>3. ASSUME NEW t \in Streams, \/ ClientTypes(t) \/ AttachFirst(t) \/ InputNext(t)
                                \/ InputLock(t) \/ InputSwallowed(t) \/ InputFailed(t)
      PROVE  UNCHANGED host
  BY <1>3 DEF ClientTypes, AttachFirst, InputNext, InputLock, InputSwallowed, InputFailed
<1>4. QED
  BY <1>1, <1>2, <1>3, InFlowSteps DEF inFlow

\* A packet adds one to what was delivered of its message, and nothing to any other.
LEMMA DeliveredStep ==
  ASSUME InType, NEW t \in Streams, NEW n \in Nat, NEW u \in Streams, NEW m \in Nat,
         host' = Append(host, <<u, m>>)
  PROVE  /\ Delivered(t, n) \in Nat
         /\ Delivered(t, n)' = IF t = u /\ n = m THEN Delivered(t, n) + 1 ELSE Delivered(t, n)
<1> DEFINE D == {i \in 1..Len(host) : host[i] = <<t, n>>}
<1>1. /\ Len(host) \in Nat /\ Len(host') = Len(host) + 1 /\ host'[Len(host) + 1] = <<u, m>>
      /\ \A i \in 1..Len(host) : host'[i] = host[i]
  BY DEF InType
<1>2. IsFiniteSet(D)
  <2>1. IsFiniteSet(1..Len(host))
    BY <1>1, FS_Interval
  <2>2. D \in SUBSET (1..Len(host))
    OBVIOUS
  <2> HIDE DEF D
  <2>3. QED
    BY <2>1, <2>2, FS_Subset
<1>3. Cardinality(D) \in Nat
  BY <1>2, FS_CardinalityType
<1>4. CASE t = u /\ n = m
  <2>1. {i \in 1..Len(host') : host'[i] = <<t, n>>} = D \cup {Len(host) + 1}
    BY <1>1, <1>4
  <2>2. Len(host) + 1 \notin D
    BY <1>1
  <2>3. Cardinality(D \cup {Len(host) + 1}) = Cardinality(D) + 1
    <3> HIDE DEF D
    <3>1. QED
      BY <1>2, <2>2, FS_AddElement
  <2>4. QED
    BY <1>3, <1>4, <2>1, <2>3 DEF Delivered
<1>5. CASE ~(t = u /\ n = m)
  <2>1. {i \in 1..Len(host') : host'[i] = <<t, n>>} = D
    BY <1>1, <1>5
  <2>2. QED
    BY <1>3, <1>5, <2>1 DEF Delivered
<1>6. QED
  BY <1>4, <1>5

\* Every step keeps the count of packets.
LEMMA NextCounted ==
  ASSUME InType, TaskType, Phases, Taken, Counted, InType', [Next]_vars
  PROVE  Counted'
<1> SUFFICES ASSUME link' = "shell" PROVE Counted'
  BY DEF Counted
<1>1. CASE UNCHANGED inFlow /\ create = "ssh"
  <2>1. ASSUME NEW t \in Streams, NEW n \in Nat
        PROVE  Delivered(t, n)' = 0 /\ taken'[t] = 0
    <3>1. taken[t] = 0 /\ input[t] = "none"
      BY <1>1 DEF Phases
    <3>2. \A i \in 1..Len(host) : host[i][1] # t
      BY <3>1, PacketTypes DEF Taken
    <3>3. {i \in 1..Len(host) : host[i] = <<t, n>>} = {}
      BY <3>2
    <3>4. QED
      BY <1>1, <3>1, <3>3, FS_EmptySet DEF Delivered, inFlow
  <2>2. QED
    BY <2>1 DEF Counted
<1>2. ASSUME link = "shell", UNCHANGED inFlow,
             \A t \in Streams : input'[t] # input[t] =>
               input'[t] \in {"next", "done"} /\ input[t] # "lock"
               /\ (input[t] = "send" => left[t] = 0)
      PROVE  Counted'
  <2>1. ASSUME NEW t \in Streams
        PROVE  Behind(t)' = Behind(t) /\ taken'[t] = taken[t] /\ \A n : Delivered(t, n)' = Delivered(t, n)
    BY <1>2 DEF Behind, Delivered, inFlow
  <2>2. QED
    BY <1>2, <2>1 DEF Counted
<1>3. ASSUME link = "shell", NEW t \in Streams, ClientTypes(t)
      PROVE  Counted'
  <2>1. ASSUME NEW u \in Streams
        PROVE  Behind(u)' = Behind(u) /\ taken'[u] = taken[u] /\ \A n : Delivered(u, n)' = Delivered(u, n)
    BY <1>3 DEF ClientTypes, Behind, Delivered, tasks
  <2>2. QED
    BY <1>3, <2>1 DEF Counted
<1>4. ASSUME link = "shell", NEW t \in Streams, AttachFirst(t)
      PROVE  Counted'
  <2>1. ASSUME NEW u \in Streams
        PROVE  /\ \A n : Delivered(u, n)' = Delivered(u, n)
               /\ u # t => Behind(u)' = Behind(u) /\ taken'[u] = taken[u]
    BY <1>4 DEF AttachFirst, Become, Behind, Delivered, InType
  <2>2. taken[t] = 0 /\ taken'[t] = 1
    BY <1>4 DEF AttachFirst, Become, Phases, InType
  <2>3. QED
    BY <1>4, <2>1, <2>2 DEF Counted
<1>5. ASSUME link = "shell", NEW t \in Streams, InputNext(t)
      PROVE  Counted'
  <2>1. ASSUME NEW u \in Streams
        PROVE  /\ \A n : Delivered(u, n)' = Delivered(u, n)
               /\ u # t => Behind(u)' = Behind(u) /\ taken'[u] = taken[u]
    BY <1>5 DEF InputNext, Become, Behind, Delivered, InType, TaskType
  <2>2. /\ taken[t] \in Nat \ {0} /\ taken'[t] = taken[t] + 1
        /\ Behind(t) = 0 /\ Behind(t)' = Script[t][taken[t] + 1]
    <3>1. input[t] = "next" /\ input'[t] = "lock" /\ taken'[t] = taken[t] + 1
      BY <1>5 DEF InputNext, Become, InType, TaskType
    <3>2. taken[t] \in Nat \ {0}
      <4>1. taken[t] >= 1
        BY <3>1 DEF Phases
      <4>2. QED
        BY <4>1, PacketTypes
    <3>3. QED
      BY <3>1, <3>2 DEF Behind
  <2>3. Script[t] \in Seq(Nat)
    BY ScriptAssumption
  <2>4. ASSUME NEW n \in 1..Len(Script[t])
        PROVE  Delivered(t, n) = IF n \notin 2..taken'[t] THEN 0
                                 ELSE IF n < taken'[t] THEN Script[t][n] ELSE Script[t][n] - Behind(t)'
    <3>1. Script[t][n] \in Nat
      BY <2>3
    <3>2. QED
      BY <1>5, <2>2, <3>1 DEF Counted
  <2>5. QED
    BY <1>5, <2>1, <2>4 DEF Counted
<1>6. ASSUME link = "shell", NEW t \in Streams, InputLock(t)
      PROVE  Counted'
  <2>1. ASSUME NEW u \in Streams
        PROVE  Behind(u)' = Behind(u) /\ taken'[u] = taken[u] /\ \A n : Delivered(u, n)' = Delivered(u, n)
    BY <1>6 DEF InputLock, Become, Behind, Delivered, InType, TaskType
  <2>2. QED
    BY <1>6, <2>1 DEF Counted
<1>7. ASSUME link = "shell", NEW t \in Streams, InputPacket(t)
      PROVE  Counted'
  <2>1. ASSUME NEW u \in Streams
        PROVE  /\ taken'[u] = taken[u]
               /\ u # t => Behind(u)' = Behind(u)
    BY <1>7 DEF InputPacket, Unlock, Behind, InType, TaskType
  <2>2. taken[t] \in Nat /\ taken[t] >= 2 /\ Behind(t) = left[t] /\ Behind(t)' = left[t] - 1 /\ left[t] \in Nat
    BY <1>7 DEF InputPacket, Unlock, Behind, Phases, InType, TaskType
  <2>3. ASSUME NEW u \in Streams, NEW n \in Nat
        PROVE  /\ Delivered(u, n) \in Nat
               /\ Delivered(u, n)' = IF u = t /\ n = taken[t] THEN Delivered(u, n) + 1 ELSE Delivered(u, n)
    BY <1>7, <2>2, DeliveredStep DEF InputPacket
  <2>4. ASSUME NEW u \in Streams, NEW n \in 1..Len(Script[u])
        PROVE  Delivered(u, n)' = IF n \notin 2..taken'[u] THEN 0
                                  ELSE IF n < taken'[u] THEN Script[u][n] ELSE Script[u][n] - Behind(u)'
    <3>1. Script[u][n] \in Nat /\ taken[u] \in Nat /\ n \in Nat
      BY ScriptAssumption, PacketTypes
    <3>2. Delivered(u, n) = IF n \notin 2..taken[u] THEN 0
                            ELSE IF n < taken[u] THEN Script[u][n] ELSE Script[u][n] - Behind(u)
      BY <1>7 DEF Counted
    <3>3. CASE u # t
      BY <2>1, <2>3, <3>1, <3>2, <3>3
    <3>4. CASE u = t
      <4>1. CASE n = taken[t]
        <5>1. Delivered(t, n)' = Script[t][n] - left[t] + 1
          <6>1. n \in 2..taken[t] /\ ~(n < taken[t])
            BY <2>2, <4>1
          <6>2. Delivered(t, n) = Script[t][n] - left[t]
            BY <2>2, <3>2, <3>4, <6>1
          <6>3. QED
            BY <2>3, <3>1, <3>4, <4>1, <6>2
        <5>2. QED
          BY <2>1, <2>2, <3>1, <3>4, <4>1, <5>1
      <4>2. CASE n # taken[t]
        <5>1. Delivered(t, n)' = Delivered(t, n)
          BY <2>3, <3>1, <3>4, <4>2
        <5>2. n \in 2..taken[t] => n < taken[t]
          BY <3>1, <3>4, <4>2
        <5>3. QED
          BY <2>1, <3>2, <3>4, <5>1, <5>2
      <4>3. QED
        BY <4>1, <4>2
    <3>5. QED
      BY <3>3, <3>4
  <2>5. QED
    BY <2>4 DEF Counted
<1>8. ASSUME NEW t \in Streams, InputSwallowed(t) \/ InputFailed(t)
      PROVE  FALSE
  BY <1>8 DEF InputSwallowed, InputFailed, ssh
<1>9. CASE create = "ssh" /\ link # "shell"
  <2>1. UNCHANGED inFlow
    <3>1. \A t \in Streams : client[t] = "away" /\ attach[t] = "idle" /\ input[t] = "none"
      BY <1>9 DEF Phases
    <3>2. QED
      BY <3>1, InFlowSteps DEF ClientTypes, AttachFirst, InputNext, InputLock, InputPacket,
                               InputSwallowed, InputFailed, Become
  <2>2. QED
    BY <1>1, <1>9, <2>1
<1>10. QED
  BY <1>2, <1>3, <1>4, <1>5, <1>6, <1>7, <1>8, <1>9, InFlowSteps, LinkSteps

-----------------------------------------------------------------------------
(***************************************************************************)
(* The theorems.                                                           *)
(***************************************************************************)

\* The invariant holds at the beginning.
LEMMA InitIInv == Init => IInv
<1> SUFFICES ASSUME Init PROVE IInv
  OBVIOUS
<1> USE DEF Init, SshInit
<1>1. SshType
  <2>1. link \in ToSet(Setup)
    <3>1. 1 \in DOMAIN Setup /\ Setup[1] = "none"
      BY DEF Setup
    <3>2. QED
      BY <3>1 DEF ToSet
  <2>2. QED
    BY <2>1, WindowAssumption, BoundsAssumption DEF SshType
<1>2. TaskType
  BY DEF TaskType
<1>3. InType
  BY ScriptAssumption DEF InType
<1>4. OutType
  BY BoundsAssumption, ChannelsAssumption DEF OutType
<1>5. Phases /\ LockHeld /\ Received
  BY NamesAssumption DEF Phases, LockHeld, Received
<1>6. Placed
  <2> SUFFICES ASSUME NEW t \in Streams PROVE Accounted(Flow(t), next[t], skipped[t])
    BY DEF Placed
  <2>1. Flow(t) = <<>>
    <3>1. Flow(t) = (<<>> \o <<>>) \o <<>>
      BY DEF Flow
    <3>2. <<>> \in Seq(Nat)
      OBVIOUS
    <3>3. QED
      BY <3>1, <3>2, ConcatEmptySeq
  <2>2. ToSet(<<>>) \ {SshError} = {}
    BY DEF ToSet
  <2>3. Cardinality(ToSet(<<>>) \ {SshError}) = 0
    BY <2>2, FS_EmptySet
  <2>4. QED
    BY <2>1, <2>3 DEF Accounted, InOrder
<1>7. Taken /\ Latest /\ Arrived /\ Counted
  BY DEF Taken, Latest, Arrived, Counted
<1>8. QED
  BY <1>1, <1>2, <1>3, <1>4, <1>5, <1>6, <1>7, TypeParts DEF IInv

\* ... and is kept by every step.
LEMMA NextIInv == IInv /\ [Next]_vars => IInv'
<1> SUFFICES ASSUME IInv, [Next]_vars PROVE IInv'
  OBVIOUS
<1>1. SshType /\ TaskType /\ InType /\ OutType
  BY TypeParts DEF IInv
<1>2. Phases /\ LockHeld /\ Received /\ Placed /\ Taken /\ Latest /\ Arrived /\ Counted
  BY DEF IInv
<1>3. SshType' /\ TaskType'
  BY <1>1, SshTypes, TaskTypes
<1>4. InType' /\ OutType'
  BY <1>1, <1>2, InTypes, OutTypes
<1>5. Phases' /\ LockHeld' /\ Received'
  BY <1>1, <1>2, NextPhases, NextLockHeld, NextReceived
<1>6. Placed' /\ Taken' /\ Latest' /\ Arrived' /\ Counted'
  BY <1>1, <1>2, <1>4, NextPlaced, NextTaken, NextLatest, NextArrived, NextCounted
<1>7. TypeOK'
  BY <1>3, <1>4 DEF TypeOK, SshType, TaskType, InType, OutType
<1>8. QED
  BY <1>5, <1>6, <1>7 DEF IInv

\* So it always holds.
LEMMA Invariant == Spec => []IInv
BY InitIInv, NextIInv, PTL DEF Spec

\* For any number of streams, scripts and places, every variable keeps its type.
THEOREM TypeCorrect == Spec => []TypeOK
<1>1. IInv => TypeOK
  BY DEF IInv
<1>2. QED
  BY <1>1, Invariant, PTL

\* However the output task lags, an error is reported and the client reads, a
\* stream gives its client the output in order, each piece once, and misses no
\* more than it counted; it ends with the last piece.
THEOREM OutputConservedHolds == Spec => []OutputConserved
<1>1. IInv => OutputConserved
  BY DEF IInv, Placed, Accounted, Received, OutputConserved
<1>2. QED
  BY <1>1, Invariant, PTL

\* However many streams write to one session, their messages arrive whole, in
\* order and, but for the first, complete.
THEOREM InputWholeHolds == Spec => []InputWhole
<1>1. IInv => InputWhole
  BY DEF IInv, Arrived, Counted, InputWhole
<1>2. QED
  BY <1>1, Invariant, PTL

=============================================================================
