--------------------------- MODULE TerminalStream ---------------------------
(***************************************************************************)
(* Terminal.Attach from the client to the shell and back.  Every stream is *)
(* a handler that waits for a first message, then an input task, which     *)
(* locks the session for every message, and an output task, which takes    *)
(* from the broadcast channel of the session and pushes into the mpsc      *)
(* channel gRPC reads from.  Several streams watch one session, while it   *)
(* is created, and closed by close_session.                                *)
(*                                                                         *)
(* Messages of a client and pieces of output are numbers, in their order.  *)
(***************************************************************************)
EXTENDS SshSession, SequencesExt

CONSTANTS
  Streams,    \* calls of Terminal.Attach by the user of the session
  Script,     \* what a client sends: for each message how many packets of the
              \* channel it takes, none for a resize or a file
  Leaving,    \* clients that close their half or leave (a bound of the model)
  MaxOutput,  \* pieces of output (a bound of the model)
  Broadcast,  \* messages the broadcast channel keeps (1024)
  Places,     \* places of the mpsc channel of a stream (1024)
  Closer,     \* the task that runs close_session
  None        \* nobody

ASSUME ScriptAssumption == Script \in [Streams -> Seq(Nat)]
ASSUME BoundsAssumption == Leaving \subseteq Streams /\ MaxOutput \in Nat
ASSUME ChannelsAssumption == Broadcast \in Nat \ {0} /\ Places \in Nat \ {0}
ASSUME NamesAssumption == Closer # None /\ {Closer, None} \cap Streams = {}

VARIABLES
  create,     \* where create_session is
  close,      \* where close_session is
  lock,       \* who holds the mutex of the session
  emitted,    \* pieces of output the session has sent to its subscribers
  client,     \* the client's end of a stream
  typed,      \* messages the client has sent
  taken,      \* messages the server has taken out of the gRPC stream
  attach,     \* the handler of a stream
  input,      \* its input task
  output,     \* its output task
  next,       \* the output the broadcast receiver has come to
  skipped,    \* the output from before it subscribed, and what Lagged reported
  outbox,     \* the mpsc channel
  got,        \* the output the client has read of it
  left,       \* packets of the message in the hands of an input task still to send
  host        \* the packets the shell was given, by stream and message

ssh == <<link, window>>
session == <<create, close, lock, emitted>>
inFlow == <<typed, taken, left, host>>
outFlow == <<next, skipped, outbox, got>>
tasks == <<client, attach, input, output>>
vars == <<ssh, session, inFlow, outFlow, tasks>>

\* The code and message of an SSH_ERROR, as an item of the mpsc channel.
SshError == 0

Init ==
  /\ SshInit
  /\ create = "ssh"
  /\ close = "idle"
  /\ lock = None
  /\ emitted = 0
  /\ client = [t \in Streams |-> "away"]
  /\ typed = [t \in Streams |-> 0]
  /\ taken = [t \in Streams |-> 0]
  /\ attach = [t \in Streams |-> "idle"]
  /\ input = [t \in Streams |-> "none"]
  /\ output = [t \in Streams |-> "none"]
  /\ next = [t \in Streams |-> 0]
  /\ skipped = [t \in Streams |-> 0]
  /\ outbox = [t \in Streams |-> <<>>]
  /\ got = [t \in Streams |-> <<>>]
  /\ left = [t \in Streams |-> 0]
  /\ host = <<>>

-----------------------------------------------------------------------------
(***************************************************************************)
(* Who keeps the ActiveSession alive: create_session until it is in the    *)
(* map, the map until close_session removes it, close_session to its end,  *)
(* a handler that waits for the lock, and every input task.  When nobody   *)
(* does, the channel and the sender of the output are dropped.             *)
(***************************************************************************)

Published == create = "live" /\ close = "idle"
Closing == close \in {"lock", "channel"}
Working(t) == input[t] \notin {"none", "done"}

Owned ==
  \/ create \in {"ssh", "publish"} \/ Published \/ Closing
  \/ \E t \in Streams : attach[t] = "lock" \/ Working(t)

DropUnowned == link' = IF link = "shell" /\ ~Owned' THEN "closed" ELSE link

Become(pc, t, p, q) ==
  /\ pc[t] = p
  /\ pc' = [pc EXCEPT ![t] = q]

\* close_session holds the write lock of the map from the removal on.
MapFree == ~Closing

-----------------------------------------------------------------------------
(***************************************************************************)
(* SessionManager::create_session and close_session.                       *)
(***************************************************************************)

CreateSsh ==
  /\ create = "ssh"
  /\ SetupStep
  /\ create' = IF link' = "shell" THEN "publish" ELSE "ssh"
  /\ UNCHANGED <<close, lock, emitted, inFlow, outFlow, tasks>>

\* An await of create_session fails, or its future is dropped.
CreateFails ==
  /\ create \in {"ssh", "publish"}
  /\ create' = "failed"
  /\ UNCHANGED <<close, lock, emitted, inFlow, outFlow, tasks>>
  /\ \/ SetupFails
     \/ ~InSetup /\ DropUnowned /\ UNCHANGED window

CreatePublish ==
  /\ create = "publish"
  /\ create' = "live"
  /\ UNCHANGED <<ssh, close, lock, emitted, inFlow, outFlow, tasks>>

CloseStep(p, q) ==
  /\ close = p
  /\ close' = q
  /\ UNCHANGED <<create, emitted, inFlow, outFlow, tasks>>

CloseRemove ==
  /\ Published
  /\ CloseStep("idle", "lock")
  /\ UNCHANGED <<ssh, lock>>

CloseLock ==
  /\ lock = None
  /\ lock' = Closer
  /\ CloseStep("lock", "channel")
  /\ UNCHANGED ssh

\* The channel is closed, the row updated - or the query fails - and both
\* guards are dropped.
CloseReturn ==
  /\ CloseStep("channel", "done")
  /\ CloseChannel
  /\ lock' = None

-----------------------------------------------------------------------------
(***************************************************************************)
(* The handler of Terminal.Attach.                                         *)
(***************************************************************************)

\* input_stream.next().await: what the client has sent and the server has not
\* taken; after it, the end of the client's half.
Inbox(t) == typed[t] - taken[t]

\* The first message names the session; its payload is never looked at.
\* get_session clones the Arc out of the map.
AttachFirst(t) ==
  /\ Become(attach, t, "first", "lock")
  /\ Inbox(t) > 0
  /\ Published
  /\ taken' = [taken EXCEPT ![t] = @ + 1]
  /\ UNCHANGED <<ssh, session, typed, left, host, outFlow, client, input, output>>

\* The call ends with a status: no message came, or there is no such session.
AttachRefused(t) ==
  /\ attach[t] = "first"
  /\ \/ Inbox(t) = 0 /\ client[t] = "half"
     \/ Inbox(t) > 0 /\ MapFree /\ ~Published
  /\ attach' = [attach EXCEPT ![t] = "over"]
  /\ client' = [client EXCEPT ![t] = "gone"]
  /\ UNCHANGED <<ssh, session, inFlow, outFlow, input, output>>

\* Lock, check the user, subscribe, unlock, spawn the two tasks and answer.
AttachSubscribe(t) ==
  /\ lock = None
  /\ Become(attach, t, "lock", "over")
  /\ input' = [input EXCEPT ![t] = "next"]
  /\ output' = [output EXCEPT ![t] = "recv"]
  /\ skipped' = [skipped EXCEPT ![t] = emitted]
  /\ next' = [next EXCEPT ![t] = emitted]
  /\ UNCHANGED <<ssh, session, inFlow, outbox, got, client>>

\* The client is gone before the answer: tonic drops the handler.
AttachDropped(t) ==
  /\ client[t] = "gone"
  /\ attach[t] \in {"first", "lock"}
  /\ attach' = [attach EXCEPT ![t] = "over"]
  /\ UNCHANGED <<window, session, inFlow, outFlow, client, input, output>>
  /\ DropUnowned

-----------------------------------------------------------------------------
(***************************************************************************)
(* The output task.                                                        *)
(***************************************************************************)

Oldest == IF emitted > Broadcast THEN emitted - Broadcast ELSE 0

OutputReceive(t) ==
  /\ next[t] >= Oldest /\ next[t] < emitted
  /\ Become(output, t, "recv", "push")
  /\ next' = [next EXCEPT ![t] = @ + 1]
  /\ UNCHANGED <<ssh, session, inFlow, skipped, outbox, got, client, attach, input>>

\* Mutant: a task that lags subscribes again.
OutputLagged_Again(t) ==
  /\ output[t] = "recv"
  /\ next[t] < Oldest
  /\ skipped' = [skipped EXCEPT ![t] = @ + Oldest - next[t]]
  /\ next' = [next EXCEPT ![t] = emitted]
  /\ UNCHANGED <<ssh, session, inFlow, outbox, got, tasks>>

\* Lagged(n): the receiver goes on with the oldest message there is.
OutputLagged(t) ==
  /\ output[t] = "recv"
  /\ next[t] < Oldest
  /\ skipped' = [skipped EXCEPT ![t] = @ + Oldest - next[t]]
  /\ next' = [next EXCEPT ![t] = Oldest]
  /\ UNCHANGED <<ssh, session, inFlow, outbox, got, tasks>>

\* Mutant: the task pushes whether there is a place or not.
OutputPush_NoWait(t) ==
  /\ client[t] # "gone"
  /\ Become(output, t, "push", "recv")
  /\ outbox' = [outbox EXCEPT ![t] = Append(@, next[t])]
  /\ UNCHANGED <<ssh, session, inFlow, next, skipped, got, client, attach, input>>

\* send().await waits for a place.
OutputPush(t) ==
  /\ client[t] # "gone"
  /\ Len(outbox[t]) < Places
  /\ Become(output, t, "push", "recv")
  /\ outbox' = [outbox EXCEPT ![t] = Append(@, next[t])]
  /\ UNCHANGED <<ssh, session, inFlow, next, skipped, got, client, attach, input>>

\* gRPC has dropped the receiver of the mpsc channel, or Closed: every sender
\* of the broadcast channel is gone and everything in it was taken.
OutputEnds(t) ==
  /\ \/ output[t] = "push" /\ client[t] = "gone"
     \/ output[t] = "recv" /\ next[t] = emitted /\ link = "closed" /\ ~Owned
  /\ output' = [output EXCEPT ![t] = "done"]
  /\ UNCHANGED <<ssh, session, inFlow, outFlow, client, attach, input>>

-----------------------------------------------------------------------------
(***************************************************************************)
(* The input task.                                                         *)
(***************************************************************************)

InputNext(t) ==
  /\ Inbox(t) > 0
  /\ Become(input, t, "next", "lock")
  /\ taken' = [taken EXCEPT ![t] = @ + 1]
  /\ UNCHANGED <<ssh, session, typed, left, host, outFlow, client, attach, output>>

\* Mutant: a stream that broke is read again.
InputEnds_Again(t) ==
  /\ input[t] = "next"
  /\ client[t] = "half" /\ Inbox(t) = 0
  /\ input' = [input EXCEPT ![t] = "done"]
  /\ UNCHANGED <<window, session, inFlow, outFlow, client, attach, output>>
  /\ DropUnowned

\* The client closed its half, or the stream broke: nothing more is read.
InputEnds(t) ==
  /\ input[t] = "next"
  /\ \/ client[t] = "gone"
     \/ client[t] = "half" /\ Inbox(t) = 0
  /\ input' = [input EXCEPT ![t] = "done"]
  /\ UNCHANGED <<window, session, inFlow, outFlow, client, attach, output>>
  /\ DropUnowned

\* Mutant: nobody waits for the session.
InputLock_Shared(t) ==
  /\ lock' = t
  /\ Become(input, t, "lock", "send")
  /\ left' = [left EXCEPT ![t] = Script[t][taken[t]]]
  /\ UNCHANGED <<ssh, create, close, emitted, typed, taken, host, outFlow, client, attach, output>>

InputLock(t) ==
  /\ lock = None
  /\ lock' = t
  /\ Become(input, t, "lock", "send")
  /\ left' = [left EXCEPT ![t] = Script[t][taken[t]]]
  /\ UNCHANGED <<ssh, create, close, emitted, typed, taken, host, outFlow, client, attach, output>>

\* The guard is dropped at the end of the match.
Unlock(t, q) ==
  /\ lock' = None
  /\ input' = [input EXCEPT ![t] = q]

\* Channel::data cuts what it is given into packets and waits for the window
\* before each of them, with the session locked.
InputPacket(t) ==
  /\ input[t] = "send"
  /\ left[t] > 0
  /\ Data
  /\ left' = [left EXCEPT ![t] = @ - 1]
  /\ host' = Append(host, <<t, taken[t]>>)
  /\ IF left'[t] = 0 THEN Unlock(t, "next") ELSE UNCHANGED <<lock, input>>
  /\ UNCHANGED <<create, close, emitted, typed, taken, outFlow, client, attach, output>>

\* A resize is sent, or the error logged; a file is logged and left alone.
InputResized(t) ==
  /\ input[t] = "send"
  /\ left[t] = 0
  /\ WindowChange
  /\ Unlock(t, "next")
  /\ UNCHANGED <<create, close, emitted, inFlow, outFlow, client, attach, output>>

\* The channel is gone: russh swallows the rest of the message.
InputSwallowed(t) ==
  /\ input[t] = "send"
  /\ link = "closed"
  /\ left[t] > 0
  /\ left' = [left EXCEPT ![t] = 0]
  /\ Unlock(t, "next")
  /\ UNCHANGED <<ssh, create, close, emitted, typed, taken, host, outFlow, client, attach, output>>

\* Channel::data returned Err: the error is to be reported, with the session
\* locked.
InputFailed(t) ==
  /\ Become(input, t, "send", "report")
  /\ link = "closed"
  /\ left[t] > 0
  /\ left' = [left EXCEPT ![t] = 0]
  /\ UNCHANGED <<ssh, session, typed, taken, host, outFlow, client, attach, output>>

\* The SSH_ERROR has found a place, or nobody reads the stream any more.
InputReported(t) ==
  /\ input[t] = "report"
  /\ \/ client[t] = "gone" /\ UNCHANGED outbox
     \/ /\ client[t] # "gone" /\ Len(outbox[t]) < Places
        /\ outbox' = [outbox EXCEPT ![t] = Append(@, SshError)]
  /\ Unlock(t, "done")
  /\ UNCHANGED <<window, create, close, emitted, inFlow, next, skipped, got>>
  /\ UNCHANGED <<client, attach, output>>
  /\ DropUnowned

-----------------------------------------------------------------------------
(***************************************************************************)
(* The clients, the shell and the network.                                 *)
(***************************************************************************)

\* The client knows the id from the answer to Sessions.Create, or from a row
\* that a failed create_session left behind.
ClientCalls(t) ==
  /\ create \in {"live", "failed"}
  /\ Become(client, t, "away", "here")
  /\ attach' = [attach EXCEPT ![t] = "first"]
  /\ UNCHANGED <<ssh, session, inFlow, outFlow, input, output>>

\* TerminalStream.sendData, sendResize and sendFile.
ClientTypes(t) ==
  /\ client[t] = "here"
  /\ typed[t] < Len(Script[t])
  /\ typed' = [typed EXCEPT ![t] = @ + 1]
  /\ UNCHANGED <<ssh, session, taken, left, host, outFlow, tasks>>

ClientReads(t) ==
  /\ client[t] \in {"here", "half"}
  /\ outbox[t] # <<>>
  /\ LET item == Head(outbox[t])
     IN  got' = IF item = SshError THEN got ELSE [got EXCEPT ![t] = Append(@, item)]
  /\ outbox' = [outbox EXCEPT ![t] = Tail(@)]
  /\ UNCHANGED <<ssh, session, inFlow, next, skipped, tasks>>

\* TerminalStream.close closes the input; the output goes on.
ClientCloses(t) ==
  /\ t \in Leaving
  /\ Become(client, t, "here", "half")
  /\ UNCHANGED <<ssh, session, inFlow, outFlow, attach, input, output>>

\* The call is cancelled, or the connection to the client breaks: what waited
\* for the client, and what it has on its screen, goes with it.
ClientLeaves(t) ==
  /\ t \in Leaving
  /\ client[t] \in {"here", "half"}
  /\ client' = [client EXCEPT ![t] = "gone"]
  /\ outbox' = [outbox EXCEPT ![t] = <<>>]
  /\ got' = [got EXCEPT ![t] = <<>>]
  /\ UNCHANGED <<ssh, session, inFlow, next, skipped, attach, input, output>>

\* SessionHandler::data and extended_data; without a receiver nothing is kept.
Output ==
  /\ link = "shell"
  /\ emitted < MaxOutput
  /\ emitted' = emitted + 1
  /\ UNCHANGED <<ssh, create, close, lock, inFlow, outFlow, tasks>>

HostStep ==
  /\ HostReads \/ PeerGone
  /\ UNCHANGED <<session, inFlow, outFlow, tasks>>

-----------------------------------------------------------------------------

ClientStep(t) ==
  \/ ClientCalls(t) \/ ClientTypes(t) \/ ClientReads(t) \/ ClientCloses(t) \/ ClientLeaves(t)

AttachStep(t) ==
  AttachFirst(t) \/ AttachRefused(t) \/ AttachSubscribe(t) \/ AttachDropped(t)

OutputStep(t) ==
  OutputReceive(t) \/ OutputLagged(t) \/ OutputPush(t) \/ OutputEnds(t)

InputStep(t) ==
  \/ InputNext(t) \/ InputEnds(t) \/ InputLock(t)
  \/ InputPacket(t) \/ InputResized(t) \/ InputSwallowed(t) \/ InputFailed(t) \/ InputReported(t)

Next ==
  \/ CreateSsh \/ CreateFails \/ CreatePublish
  \/ CloseRemove \/ CloseLock \/ CloseReturn
  \/ \E t \in Streams : ClientStep(t) \/ AttachStep(t) \/ OutputStep(t) \/ InputStep(t)
  \/ Output \/ HostStep

Spec == Init /\ [][Next]_vars

\* The runtime polls what can go on; the mutex and the places of an mpsc channel
\* are handed out in the order in which they were asked for, and a stream waits
\* for one of them at a time.  A send that waits for the window of a connection
\* that is gone is owed nothing: russh may never wake it.
FairSpec ==
  /\ Spec
  /\ WF_vars(CreatePublish) /\ SF_vars(CloseLock) /\ WF_vars(CloseReturn)
  /\ \A t \in Streams :
       /\ WF_vars(AttachFirst(t) \/ AttachRefused(t) \/ AttachDropped(t))
       /\ WF_vars(OutputStep(t))
       /\ WF_vars(InputNext(t) \/ InputEnds(t))
       /\ SF_vars(AttachSubscribe(t) \/ InputLock(t) \/ InputReported(t))
       /\ WF_vars(InputPacket(t) \/ InputResized(t))
       /\ WF_vars(window > 0 /\ (InputSwallowed(t) \/ InputFailed(t)))

-----------------------------------------------------------------------------
(***************************************************************************)
(* Correctness.                                                            *)
(***************************************************************************)

\* Every variable has its type.
TypeOK ==
  /\ link \in ToSet(Setup) \cup {"shell", "closed"} /\ window \in 0..Window
  /\ create \in {"ssh", "publish", "live", "failed"}
  /\ close \in {"idle", "lock", "channel", "done"}
  /\ lock \in Streams \cup {Closer, None}
  /\ emitted \in 0..MaxOutput
  /\ client \in [Streams -> {"away", "here", "half", "gone"}]
  /\ typed \in [Streams -> Nat] /\ \A t \in Streams : typed[t] <= Len(Script[t])
  /\ taken \in [Streams -> Nat] /\ \A t \in Streams : taken[t] <= typed[t]
  /\ attach \in [Streams -> {"idle", "first", "lock", "over"}]
  /\ input \in [Streams -> {"none", "next", "lock", "send", "report", "done"}]
  /\ output \in [Streams -> {"none", "recv", "push", "done"}]
  /\ {next, skipped} \subseteq [Streams -> 0..MaxOutput]
  /\ outbox \in [Streams -> Seq(0..MaxOutput)]
  /\ \A t \in Streams : Len(outbox[t]) <= Places
  /\ got \in [Streams -> Seq(0..MaxOutput)]
  /\ left \in [Streams -> Nat]
  /\ host \in Seq(Streams \X (Nat \ {0}))

\* The output of a stream, from the screen of the client back to the hands of
\* the output task; an SSH_ERROR may be among it.
Flow(t) ==
  got[t] \o outbox[t] \o (IF output[t] = "push" THEN <<next[t]>> ELSE <<>>)

InOrder(flow) ==
  \A i, j \in 1..Len(flow) :
    i < j /\ SshError \notin {flow[i], flow[j]} => flow[i] < flow[j]

\* What a client was given and what waits for it is output in its order and
\* nothing twice, and with what came before it subscribed and what Lagged
\* counted it makes up all the output the stream has come to; a stream that
\* ended under a client that reads has come to the last piece.
OutputConserved ==
  \A t \in Streams : client[t] # "gone" =>
    /\ InOrder(Flow(t))
    /\ \A i \in 1..Len(Flow(t)) : Flow(t)[i] <= next[t]
    /\ Cardinality(ToSet(Flow(t)) \ {SshError}) + skipped[t] = next[t]
    /\ output[t] = "done" => next[t] = emitted

\* How many packets of the n-th message of a client the shell was given.
Delivered(t, n) == Cardinality({i \in 1..Len(host) : host[i] = <<t, n>>})

\* What the input task still has to send of the message it took last.
Behind(t) ==
  IF input[t] = "send" THEN left[t] ELSE IF input[t] = "lock" THEN Script[t][taken[t]] ELSE 0

\* However streams contend for the session, no message of one is torn by
\* packets of another, and none overtakes another of its client; and as long as
\* the channel is open the shell was given every packet of every message after
\* the first, but for what the input task still has in its hands.
InputWhole ==
  /\ \A i, j, k \in 1..Len(host) : i < j /\ j < k /\ host[i] = host[k] => host[j] = host[i]
  /\ \A i, j \in 1..Len(host) : i < j /\ host[i][1] = host[j][1] => host[i][2] <= host[j][2]
  /\ link = "shell" =>
       \A t \in Streams : \A n \in 1..Len(Script[t]) :
         Delivered(t, n) = IF n \notin 2..taken[t] THEN 0
                           ELSE IF n < taken[t] THEN Script[t][n] ELSE Script[t][n] - Behind(t)

\* Clients read what they are sent or leave, and the host reads.
EverybodyReads ==
  /\ \A t \in Streams : []<>(Len(outbox[t]) < Places \/ client[t] = "gone")
  /\ []<>(window > 0)

\* If everybody reads, nobody waits for the session for ever: a message of a
\* client is sent or given up, close_session returns, new streams are attached;
\* a client that left is let go with its hold on the session; and a stream of
\* a session nothing holds any more ends.
StreamsGetOn ==
  EverybodyReads =>
    /\ \A t \in Streams :
         /\ []<>(input[t] \notin {"lock", "send", "report"})
         /\ []<>(attach[t] # "lock")
         /\ []<>(client[t] # "gone" \/ (~Working(t) /\ attach[t] \in {"idle", "over"}))
         /\ []<>(Owned \/ output[t] \in {"none", "done"})
    /\ []<>~Closing

(***************************************************************************)
(* What comments of the code say and the server does not do.               *)
(***************************************************************************)

\* What a client sends on its stream reaches the terminal: when the input task
\* has taken everything and the shell runs, the shell was given everything.
SentIsDelivered ==
  \A t \in Streams :
    input[t] = "next" /\ Inbox(t) = 0 /\ link = "shell" =>
      \A n \in 1..typed[t] : Delivered(t, n) = Script[t][n]

=============================================================================
