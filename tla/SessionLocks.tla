---------------------------- MODULE SessionLocks ----------------------------
(***************************************************************************)
(* The locks of SessionManager: the RwLock around the map of sessions and  *)
(* the Mutex around every ActiveSession, as the tasks of the server take   *)
(* them.  Both are tokio's, fair: whoever asks is queued, and permits are  *)
(* handed out in the order of the queue.                                   *)
(*                                                                         *)
(* A task is one call of an operation of SessionManager, or a stream of    *)
(* Terminal.Attach with its input task.                                    *)
(***************************************************************************)
EXTENDS Naturals, SequencesExt

CONSTANTS
  Tasks,     \* tasks of the runtime
  Sessions,  \* the sessions that may be published
  None       \* nobody

ASSUME NoneAssumption == None \notin Tasks \cup Sessions

VARIABLES
  sessions,  \* the keys of the map
  retired,   \* sessions that have been taken out of it
  queue,     \* tasks waiting for the map lock, in order
  readers,   \* holders of a read guard of the map
  writer,    \* holder of the write guard
  waiting,   \* per session: tasks waiting for its mutex, in order
  holder,    \* per session: holder of its mutex guard
  pc,        \* what every task does
  target     \* the session it is about

vars == <<sessions, retired, queue, readers, writer, waiting, holder, pc, target>>

-----------------------------------------------------------------------------

\* Tasks queued for the map, for a session, and between the two.
MapPC == {"get_session", "attach_to_session", "close_session", "create_session"}
MutexPC == {"attach_lock", "input_lock", "reattach_lock", "close_lock"}
HoldingPC == {"sending", "closing"}
WritePC == {"close_session", "create_session"}
PC == {"idle", "stream"} \cup MapPC \cup MutexPC \cup HoldingPC

Init ==
  /\ sessions = {}
  /\ retired = {}
  /\ queue = <<>>
  /\ readers = {}
  /\ writer = None
  /\ waiting = [s \in Sessions |-> <<>>]
  /\ holder = [s \in Sessions |-> None]
  /\ pc = [t \in Tasks |-> "idle"]
  /\ target = [t \in Tasks |-> None]

\* Mutant: the call forgets which session it is about.
AskMap_NoTarget(t, op, s) ==
  /\ pc[t] = "idle"
  /\ pc' = [pc EXCEPT ![t] = op]
  /\ queue' = Append(queue, t)
  /\ UNCHANGED <<sessions, retired, readers, writer, waiting, holder, target>>

\* self.sessions.read().await and self.sessions.write().await
AskMap(t, op, s) ==
  /\ pc[t] = "idle"
  /\ pc' = [pc EXCEPT ![t] = op]
  /\ target' = [target EXCEPT ![t] = s]
  /\ queue' = Append(queue, t)
  /\ UNCHANGED <<sessions, retired, readers, writer, waiting, holder>>

MapGranted(t) ==
  /\ queue # <<>> /\ Head(queue) = t
  /\ writer = None
  /\ pc[t] \in WritePC => readers = {}
  /\ queue' = Tail(queue)

\* session.lock().await of a task that does something else so far
Enqueue(t, s, p) ==
  /\ pc' = [pc EXCEPT ![t] = p]
  /\ waiting' = [waiting EXCEPT ![s] = Append(@, t)]

MutexGranted(t, s) ==
  /\ waiting[s] # <<>> /\ Head(waiting[s]) = t
  /\ holder[s] = None
  /\ waiting' = [waiting EXCEPT ![s] = Tail(@)]

Become(t, p) == pc' = [pc EXCEPT ![t] = p]

Done(t) ==
  /\ pc' = [pc EXCEPT ![t] = "idle"]
  /\ target' = [target EXCEPT ![t] = None]

-----------------------------------------------------------------------------
(***************************************************************************)
(* create_session, once the session is built: publish it.                  *)
(***************************************************************************)

Publish(t) ==
  /\ pc[t] = "create_session"
  /\ MapGranted(t)
  /\ sessions' = sessions \cup {target[t]}
  /\ Done(t)
  /\ UNCHANGED <<retired, readers, writer, waiting, holder>>

(***************************************************************************)
(* Terminal.Attach: get_session lets the map go before the session is      *)
(* locked; the lock is held for the time it takes to subscribe.            *)
(***************************************************************************)

GetSession(t) ==
  /\ pc[t] = "get_session"
  /\ MapGranted(t)
  /\ IF target[t] \in sessions
     THEN Enqueue(t, target[t], "attach_lock") /\ UNCHANGED target
     ELSE Done(t) /\ UNCHANGED waiting
  /\ UNCHANGED <<sessions, retired, readers, writer, holder>>

AttachLock(t) ==
  /\ pc[t] = "attach_lock"
  /\ MutexGranted(t, target[t])
  /\ Become(t, "stream")
  /\ UNCHANGED <<sessions, retired, queue, readers, writer, holder, target>>

\* The input task got a message: it locks the session ...
Input(t) ==
  /\ pc[t] = "stream"
  /\ Enqueue(t, target[t], "input_lock")
  /\ UNCHANGED <<sessions, retired, queue, readers, writer, holder, target>>

\* Mutant: the message is sent without waiting for the guard.
InputLock_NoGuard(t) ==
  /\ pc[t] = "input_lock"
  /\ waiting' = [waiting EXCEPT ![target[t]] = RemoveFirst(@, t)]
  /\ Become(t, "sending")
  /\ UNCHANGED <<sessions, retired, queue, readers, writer, holder, target>>

InputLock(t) ==
  /\ pc[t] = "input_lock"
  /\ MutexGranted(t, target[t])
  /\ holder' = [holder EXCEPT ![target[t]] = t]
  /\ Become(t, "sending")
  /\ UNCHANGED <<sessions, retired, queue, readers, writer, target>>

\* Mutant: the guard is kept for the next message.
InputSent_Keep(t) ==
  /\ pc[t] = "sending"
  /\ Become(t, "stream")
  /\ UNCHANGED <<sessions, retired, queue, readers, writer, waiting, holder, target>>

\* ... and holds it until send or resize returns.
InputSent(t) ==
  /\ pc[t] = "sending"
  /\ holder' = [holder EXCEPT ![target[t]] = IF @ = t THEN None ELSE @]
  /\ Become(t, "stream")
  /\ UNCHANGED <<sessions, retired, queue, readers, writer, waiting, target>>

StreamEnds(t) ==
  /\ pc[t] = "stream"
  /\ Done(t)
  /\ UNCHANGED <<sessions, retired, queue, readers, writer, waiting, holder>>

(***************************************************************************)
(* attach_to_session and attach_with_recovery keep the read guard while    *)
(* they wait for the session.                                              *)
(***************************************************************************)

\* Mutant: the session is cloned out of the map, as get_session does.
ReattachRead_Clone(t) ==
  /\ pc[t] = "attach_to_session"
  /\ MapGranted(t)
  /\ IF target[t] \in sessions
     THEN Enqueue(t, target[t], "reattach_lock") /\ UNCHANGED target
     ELSE Done(t) /\ UNCHANGED waiting
  /\ UNCHANGED <<sessions, retired, readers, writer, holder>>

ReattachRead(t) ==
  /\ pc[t] = "attach_to_session"
  /\ MapGranted(t)
  /\ IF target[t] \in sessions
     THEN /\ Enqueue(t, target[t], "reattach_lock")
          /\ readers' = readers \cup {t}
          /\ UNCHANGED target
     ELSE Done(t) /\ UNCHANGED <<readers, waiting>>
  /\ UNCHANGED <<sessions, retired, writer, holder>>

ReattachLock(t) ==
  /\ pc[t] = "reattach_lock"
  /\ MutexGranted(t, target[t])
  /\ readers' = readers \ {t}
  /\ Done(t)
  /\ UNCHANGED <<sessions, retired, queue, writer, holder>>

(***************************************************************************)
(* close_session keeps the write guard while it waits for the session, for *)
(* Channel::close and for the UPDATE.                                      *)
(***************************************************************************)

CloseWrite(t) ==
  /\ pc[t] = "close_session"
  /\ MapGranted(t)
  /\ IF target[t] \in sessions
     THEN /\ sessions' = sessions \ {target[t]}
          /\ retired' = retired \cup {target[t]}
          /\ writer' = t
          /\ Enqueue(t, target[t], "close_lock")
          /\ UNCHANGED target
     ELSE Done(t) /\ UNCHANGED <<sessions, retired, writer, waiting>>
  /\ UNCHANGED <<readers, holder>>

CloseLock(t) ==
  /\ pc[t] = "close_lock"
  /\ MutexGranted(t, target[t])
  /\ holder' = [holder EXCEPT ![target[t]] = t]
  /\ Become(t, "closing")
  /\ UNCHANGED <<sessions, retired, queue, readers, writer, target>>

CloseDone(t) ==
  /\ pc[t] = "closing"
  /\ holder' = [holder EXCEPT ![target[t]] = None]
  /\ writer' = None
  /\ Done(t)
  /\ UNCHANGED <<sessions, retired, queue, readers, waiting>>

-----------------------------------------------------------------------------
(***************************************************************************)
(* The future of a call is dropped wherever it waits: it leaves the queues *)
(* and its guards are released.                                            *)
(***************************************************************************)

\* A task waits at one place at a time.  The input task is spawned: nothing
\* cancels it.
CancellablePC == MapPC \cup {"attach_lock", "reattach_lock", "close_lock", "closing"}

Cancel(t) ==
  /\ pc[t] \in CancellablePC
  /\ queue' = RemoveFirst(queue, t)
  /\ readers' = readers \ {t}
  /\ writer' = IF writer = t THEN None ELSE writer
  /\ waiting' = [s \in Sessions |-> RemoveFirst(waiting[s], t)]
  /\ holder' = [s \in Sessions |-> IF holder[s] = t THEN None ELSE holder[s]]
  /\ Done(t)
  /\ UNCHANGED <<sessions, retired>>

\* A session id is published once.
Ask(t, s) ==
  \/ AskMap(t, "get_session", s)
  \/ AskMap(t, "attach_to_session", s)
  \/ AskMap(t, "close_session", s)
  \/ /\ s \notin sessions \cup retired
     /\ \A u \in Tasks : pc[u] = "create_session" => target[u] # s
     /\ AskMap(t, "create_session", s)

Granted(t) ==
  \/ Publish(t) \/ GetSession(t) \/ AttachLock(t) \/ InputLock(t)
  \/ ReattachRead(t) \/ ReattachLock(t) \/ CloseWrite(t) \/ CloseLock(t)

Return(t) == InputSent(t) \/ CloseDone(t)

Next ==
  \E t \in Tasks :
    \/ \E s \in Sessions : Ask(t, s)
    \/ Granted(t) \/ Return(t) \/ Input(t) \/ StreamEnds(t) \/ Cancel(t)

Spec == Init /\ [][Next]_vars

\* The runtime polls whoever was granted a permit; SSH takes what is sent, as
\* long as the remote host reads, and the database answers.
FairSpec == Spec /\ \A t \in Tasks : WF_vars(Granted(t)) /\ WF_vars(Return(t))

-----------------------------------------------------------------------------
(***************************************************************************)
(* Correctness.                                                            *)
(***************************************************************************)

\* Every variable has its type.
TypeOK ==
  /\ sessions \subseteq Sessions /\ retired \subseteq Sessions
  /\ queue \in Seq(Tasks) /\ readers \subseteq Tasks /\ writer \in Tasks \cup {None}
  /\ waiting \in [Sessions -> Seq(Tasks)]
  /\ holder \in [Sessions -> Tasks \cup {None}]
  /\ pc \in [Tasks -> PC]
  /\ target \in [Tasks -> Sessions \cup {None}]

\* Nothing is sent on a channel while close_session closes it, nor by two
\* streams at a time, although the streams have left the map behind.
OneOnChannel ==
  \A t, u \in Tasks :
    t # u /\ pc[t] \in HoldingPC /\ pc[u] \in HoldingPC => target[t] # target[u]

\* attach_to_session subscribes to a session that is in the map then: no close
\* comes between its look-up and its subscription, however long the session
\* is locked.
ReattachFindsSession == \A t \in Tasks : pc[t] = "reattach_lock" => target[t] \in sessions

\* Everybody who waits for a lock gets on: close_session waiting for a session
\* with the whole map locked, readers waiting for a session in front of a
\* writer, and streams that send all the time do not block each other for
\* ever.
EveryoneServed ==
  \A t \in Tasks : pc[t] \in MapPC \cup MutexPC ~> pc[t] \in {"idle", "stream"} \cup HoldingPC

=============================================================================
