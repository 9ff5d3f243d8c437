--------------------------- MODULE SessionManager ---------------------------
(***************************************************************************)
(* The life of a terminal session in the Hive server: the `sessions` table *)
(* in PostgreSQL, the in-memory map of SessionManager and the SSH channel  *)
(* behind every ActiveSession, as the gRPC handlers of SessionsService,    *)
(* ConnectionsService and TerminalService and the public operations of     *)
(* SessionManager change them.                                             *)
(*                                                                         *)
(* A request is one handler future.  Every .await of a handler that other  *)
(* handlers can be interleaved with is a boundary between two actions; the *)
(* early returns that change nothing are stuttering steps.                 *)
(***************************************************************************)
EXTENDS Naturals, FiniteSets

CONSTANTS
  Users,        \* users with an API key
  Connections,  \* rows of the connections table
  Owner,        \* connections.user_id
  Sessions,     \* the fresh UUIDs Session::create may draw
  Requests,     \* handler futures that may run at the same time
  None          \* an argument a request does not have

ASSUME OwnerAssumption == Owner \in [Connections -> Users]
ASSUME NoneAssumption == None \notin Users \cup Connections \cup Sessions

VARIABLES
  connections,  \* rows of the connections table that exist
  rows,         \* the sessions table, by id; of a deleted row, what it said
  sessions,     \* the keys of SessionManager.sessions
  active,       \* the user and connection of every ActiveSession ever built
  ssh,          \* the SSH channel of every session
  req           \* what every handler is doing

vars == <<connections, rows, sessions, active, ssh, req>>

-----------------------------------------------------------------------------

RowStatus == {"unused", "active", "closed", "deleted"}
Row == [status : RowStatus, user : Users \cup {None}, conn : Connections \cup {None}]
NoRow == [status |-> "unused", user |-> None, conn |-> None]
HasRow(s) == rows[s].status \in {"active", "closed"}

ActiveSession == [user : Users \cup {None}, conn : Connections \cup {None}]
NoActiveSession == [user |-> None, conn |-> None]

\* Where a handler is suspended, by the operation it runs.
CreatePC == {"create_insert", "create_ssh", "create_publish", "create_reply"}
ClosePC == {"rpc_close", "close_channel", "close_update"}
AttachPC == {"cloned", "reattach"}
StreamPC == {"attached", "draining", "subscribed"}
HandlerPC == CreatePC \cup ClosePC \cup AttachPC \cup {"delete"}
PC == HandlerPC \cup StreamPC \cup {"idle", "closed"}

Request == [pc : PC, user : Users \cup {None},
            conn : Connections \cup {None}, sess : Sessions \cup {None}]
Idle == [pc |-> "idle", user |-> None, conn |-> None, sess |-> None]

(***************************************************************************)
(* An ActiveSession lives as long as something owns it: the create handler *)
(* until it is put in the map, the map, and every task that holds a clone  *)
(* of its Arc.  When the last owner goes, its Channel is dropped, the      *)
(* senders of the russh session with it, and the SSH connection ends.      *)
(***************************************************************************)
OwningPC == {"create_publish", "close_channel", "close_update", "cloned", "attached"}

Owned(s, map, handlers) ==
  \/ s \in map
  \/ \E r \in Requests : handlers[r].sess = s /\ handlers[r].pc \in OwningPC

\* The map and the handlers after a step decide which channels survive it.
DropUnowned(map, handlers) ==
  ssh' = [s \in Sessions |->
            IF ssh[s] = "open" /\ ~Owned(s, map, handlers) THEN "closed" ELSE ssh[s]]

Start(r, p, u, c, s) ==
  /\ req[r].pc = "idle"
  /\ req' = [req EXCEPT ![r] = [pc |-> p, user |-> u, conn |-> c, sess |-> s]]

Step(r, p, q) ==
  /\ req[r].pc = p
  /\ req' = [req EXCEPT ![r].pc = q]

Finish(r) == req' = [req EXCEPT ![r] = Idle]

\* The RwLock around the map: close_session holds the write guard from the
\* removal to its end, everybody else lets go before the next .await.
MapFree == \A r \in Requests : req[r].pc \notin {"close_channel", "close_update"}

Init ==
  /\ connections = Connections
  /\ rows = [s \in Sessions |-> NoRow]
  /\ sessions = {}
  /\ active = [s \in Sessions |-> NoActiveSession]
  /\ ssh = [s \in Sessions |-> "none"]
  /\ req = [r \in Requests |-> Idle]

-----------------------------------------------------------------------------
(***************************************************************************)
(* Sessions.Create and SessionManager::create_session.                     *)
(***************************************************************************)

\* Both look-ups of the connection find it, and it belongs to the caller.
CreateCheck(r, u, c) ==
  /\ c \in connections
  /\ Owner[c] = u
  /\ Start(r, "create_insert", u, c, None)
  /\ UNCHANGED <<connections, rows, sessions, active, ssh>>

\* Mutant: a sessions table without the foreign key to connections.
CreateInsert_NoForeignKey(r) ==
  /\ req[r].pc = "create_insert"
  /\ \E s \in Sessions :
       /\ rows[s].status = "unused"
       /\ rows' = [rows EXCEPT ![s] = [status |-> "active", user |-> req[r].user,
                                       conn |-> req[r].conn]]
       /\ req' = [req EXCEPT ![r].pc = "create_ssh", ![r].sess = s]
  /\ UNCHANGED <<connections, sessions, active, ssh>>

\* INSERT INTO sessions: the foreign key wants the connection row to be there.
CreateInsert(r) ==
  /\ req[r].pc = "create_insert"
  /\ req[r].conn \in connections
  /\ \E s \in Sessions :
       /\ rows[s].status = "unused"
       /\ rows' = [rows EXCEPT ![s] = [status |-> "active", user |-> req[r].user,
                                       conn |-> req[r].conn]]
       /\ req' = [req EXCEPT ![r].pc = "create_ssh", ![r].sess = s]
  /\ UNCHANGED <<connections, sessions, active, ssh>>

\* Connect, authenticate, open the channel, request the PTY and the shell.
CreateSsh(r) ==
  /\ Step(r, "create_ssh", "create_publish")
  /\ ssh' = [ssh EXCEPT ![req[r].sess] = "open"]
  /\ active' = [active EXCEPT ![req[r].sess] = [user |-> req[r].user, conn |-> req[r].conn]]
  /\ UNCHANGED <<connections, rows, sessions>>

\* sessions.write().await, then insert.
CreatePublish(r) ==
  /\ MapFree
  /\ Step(r, "create_publish", "create_reply")
  /\ sessions' = sessions \cup {req[r].sess}
  /\ UNCHANGED <<connections, rows, active, ssh>>

\* The row is read back for the response.
CreateReply(r) ==
  /\ req[r].pc = "create_reply"
  /\ Finish(r)
  /\ UNCHANGED <<connections, rows, sessions, active, ssh>>

-----------------------------------------------------------------------------
(***************************************************************************)
(* Sessions.Close updates the row and nothing else.                        *)
(***************************************************************************)

CloseRpcCheck(r, u, s) ==
  /\ HasRow(s)
  /\ rows[s].user = u
  /\ Start(r, "rpc_close", u, None, s)
  /\ UNCHANGED <<connections, rows, sessions, active, ssh>>

\* Mutants: a status the table does not know; the row deleted, not updated.
CloseRow_Suspend(s) ==
  rows' = [rows EXCEPT ![s].status = IF HasRow(s) THEN "suspended" ELSE @]

CloseRow_Delete(s) ==
  rows' = [rows EXCEPT ![s].status = IF HasRow(s) THEN "deleted" ELSE @]

\* UPDATE sessions SET status = 'closed' WHERE id = s.
CloseRow(s) ==
  rows' = [rows EXCEPT ![s].status = IF HasRow(s) THEN "closed" ELSE @]

CloseRpcUpdate(r) ==
  /\ req[r].pc = "rpc_close"
  /\ CloseRow(req[r].sess)
  /\ Finish(r)
  /\ UNCHANGED <<connections, sessions, active, ssh>>

(***************************************************************************)
(* SessionManager::close_session: out of the map, close the channel, then  *)
(* the row.  A session that is not in the map is Ok(()) and changes        *)
(* nothing.                                                                *)
(***************************************************************************)

\* Mutant: sessions.get where sessions.remove is meant.
CloseRemove_Keep(r, s) ==
  /\ MapFree
  /\ s \in sessions
  /\ Start(r, "close_channel", None, None, s)
  /\ UNCHANGED <<connections, rows, sessions, active, ssh>>

CloseRemove(r, s) ==
  /\ MapFree
  /\ s \in sessions
  /\ Start(r, "close_channel", None, None, s)
  /\ sessions' = sessions \ {s}
  /\ UNCHANGED <<connections, rows, active, ssh>>

CloseChannel(r) ==
  /\ Step(r, "close_channel", "close_update")
  /\ ssh' = [ssh EXCEPT ![req[r].sess] = "closed"]
  /\ UNCHANGED <<connections, rows, sessions, active>>

CloseUpdate(r) ==
  /\ Step(r, "close_update", "closed")
  /\ CloseRow(req[r].sess)
  /\ UNCHANGED <<connections, sessions, active, ssh>>

\* The caller takes the Ok(()) of close_session.
CloseReturn(r) ==
  /\ req[r].pc = "closed"
  /\ Finish(r)
  /\ UNCHANGED <<connections, rows, sessions, active, ssh>>

-----------------------------------------------------------------------------
(***************************************************************************)
(* Terminal.Attach: clone the Arc out of the map, lock the session, check  *)
(* its user, subscribe and spawn the two tasks of the stream.  The row is  *)
(* never looked at.                                                        *)
(***************************************************************************)

AttachLookup(r, u, s) ==
  /\ MapFree
  /\ s \in sessions
  /\ Start(r, "cloned", u, None, s)
  /\ UNCHANGED <<connections, rows, sessions, active, ssh>>

\* Mutant: no comparison of the session's user with the caller.
AttachSubscribe_AnyUser(r) ==
  /\ Step(r, "cloned", "attached")
  /\ UNCHANGED <<connections, rows, sessions, active, ssh>>

AttachSubscribe(r) ==
  /\ Step(r, "cloned", "attached")
  /\ active[req[r].sess].user = req[r].user
  /\ UNCHANGED <<connections, rows, sessions, active, ssh>>

\* The input task ends - the client closed its half of the stream, or
\* Channel::data failed - and drops its Arc; the output task goes on.
InputEnds(r) ==
  /\ Step(r, "attached", "draining")
  /\ DropUnowned(sessions, [req EXCEPT ![r].pc = "draining"])
  /\ UNCHANGED <<connections, rows, sessions, active>>

\* Every broadcast sender is gone: the output task breaks on Closed and the
\* response stream of the client ends.
OutputEnds(r) ==
  /\ req[r].pc = "draining"
  /\ ~Owned(req[r].sess, sessions, req)
  /\ Finish(r)
  /\ UNCHANGED <<connections, rows, sessions, active, ssh>>

\* The client drops the stream or the receiver it was given.
ClientGone(r) ==
  /\ req[r].pc \in StreamPC
  /\ Finish(r)
  /\ DropUnowned(sessions, [req EXCEPT ![r] = Idle])
  /\ UNCHANGED <<connections, rows, sessions, active>>

(***************************************************************************)
(* SessionManager::attach_to_session and attach_with_recovery: check the   *)
(* row, then look the session up and subscribe.  Only the receiver stays   *)
(* with the caller.                                                        *)
(***************************************************************************)

ReattachCheck(r, u, s) ==
  /\ rows[s].status = "active"
  /\ rows[s].user = u
  /\ Start(r, "reattach", u, None, s)
  /\ UNCHANGED <<connections, rows, sessions, active, ssh>>

ReattachSubscribe(r) ==
  /\ MapFree
  /\ Step(r, "reattach", "subscribed")
  /\ req[r].sess \in sessions
  /\ UNCHANGED <<connections, rows, sessions, active, ssh>>

-----------------------------------------------------------------------------
(***************************************************************************)
(* Connections.Delete: check the owner, then DELETE, which cascades to the *)
(* session rows in the same statement.                                     *)
(***************************************************************************)

DeleteCheck(r, u, c) ==
  /\ c \in connections
  /\ Owner[c] = u
  /\ Start(r, "delete", u, c, None)
  /\ UNCHANGED <<connections, rows, sessions, active, ssh>>

DeleteConnection(r) ==
  /\ req[r].pc = "delete"
  /\ connections' = connections \ {req[r].conn}
  /\ rows' = [s \in Sessions |->
                IF HasRow(s) /\ rows[s].conn = req[r].conn
                THEN [rows[s] EXCEPT !.status = "deleted"] ELSE rows[s]]
  /\ Finish(r)
  /\ UNCHANGED <<sessions, active, ssh>>

-----------------------------------------------------------------------------
(***************************************************************************)
(* The environment.                                                        *)
(***************************************************************************)

\* A handler returns Err - a query fails, the insert breaks the foreign key,
\* SSH cannot be set up, the user is not the owner, the session is not in
\* the map - or its future is dropped because the client cancelled the call.
\* What it owned is dropped; what it wrote stays.
Abort(r) ==
  /\ req[r].pc \in HandlerPC
  /\ Finish(r)
  /\ DropUnowned(sessions, [req EXCEPT ![r] = Idle])
  /\ UNCHANGED <<connections, rows, sessions, active>>

\* The remote side ends the shell, or the keepalive gives the peer up.
SshDies(s) ==
  /\ ssh[s] = "open"
  /\ ssh' = [ssh EXCEPT ![s] = "closed"]
  /\ UNCHANGED <<connections, rows, sessions, active, req>>

\* The process stops and starts again: main builds an empty SessionManager.
Restart ==
  /\ sessions' = {}
  /\ req' = [r \in Requests |-> Idle]
  /\ DropUnowned({}, [r \in Requests |-> Idle])
  /\ UNCHANGED <<connections, rows, active>>

HandlerStep(r) ==
  \/ CreateInsert(r) \/ CreateSsh(r) \/ CreatePublish(r) \/ CreateReply(r)
  \/ CloseRpcUpdate(r) \/ CloseChannel(r) \/ CloseUpdate(r) \/ CloseReturn(r)
  \/ AttachSubscribe(r) \/ OutputEnds(r) \/ ReattachSubscribe(r) \/ DeleteConnection(r)

Call(r) ==
  \/ \E u \in Users, c \in Connections : CreateCheck(r, u, c) \/ DeleteCheck(r, u, c)
  \/ \E u \in Users, s \in Sessions :
       CloseRpcCheck(r, u, s) \/ AttachLookup(r, u, s) \/ ReattachCheck(r, u, s)
  \/ \E s \in Sessions : CloseRemove(r, s)

Next ==
  \/ \E r \in Requests : HandlerStep(r) \/ Call(r) \/ Abort(r) \/ InputEnds(r) \/ ClientGone(r)
  \/ \E s \in Sessions : SshDies(s)
  \/ Restart

Spec == Init /\ [][Next]_vars

\* The runtime polls every handler and every task that can go on; clients,
\* remote hosts and crashes owe nothing.
FairSpec == Spec /\ \A r \in Requests : WF_vars(HandlerStep(r))

-----------------------------------------------------------------------------
(***************************************************************************)
(* Correctness.                                                            *)
(***************************************************************************)

\* Every variable has its type (one invariant for the data of the module).
TypeOK ==
  /\ connections \subseteq Connections
  /\ rows \in [Sessions -> Row]
  /\ sessions \subseteq Sessions
  /\ active \in [Sessions -> ActiveSession]
  /\ ssh \in [Sessions -> {"none", "open", "closed"}]
  /\ req \in [Requests -> Request]

\* A session row never outlives its connection and belongs to the owner of
\* it; so does the ActiveSession in the map; and whoever holds a stream is
\* that same user, whether the handler compared the user with the row
\* (attach_to_session) or with the ActiveSession (Terminal.Attach), and
\* whatever Delete, Close and Restart did in between.
Ownership ==
  /\ \A s \in Sessions : HasRow(s) =>
       rows[s].conn \in connections /\ rows[s].user = Owner[rows[s].conn]
  /\ \A s \in sessions : active[s].user = Owner[active[s].conn]
  /\ \A r \in Requests : req[r].pc \in StreamPC => active[req[r].sess].user = req[r].user

\* A session in the map has the row it was created with - closed or not - or
\* its connection was deleted under it.  No other history separates the map
\* from the table while the server runs.
LiveSessionHasRow ==
  \A s \in sessions :
    /\ rows[s].user = active[s].user
    /\ rows[s].conn = active[s].conn
    /\ HasRow(s) \/ active[s].conn \notin connections

\* When close_session returns Ok for a session it found, the session is out
\* of the map, its channel is closed and no row calls it active - and it
\* stays so, against creates, attaches and deletes that are still running.
CloseEffective ==
  \A r \in Requests : req[r].pc = "closed" =>
    /\ req[r].sess \notin sessions
    /\ ssh[req[r].sess] = "closed"
    /\ rows[req[r].sess].status \in {"closed", "deleted"}

(***************************************************************************)
(* The server implements the abstract life of a session: a session is live *)
(* while it is in the map, starting while a create handler works on it.    *)
(***************************************************************************)

Creating(s) ==
  \E r \in Requests : req[r].sess = s /\ req[r].pc \in {"create_ssh", "create_publish"}

PhaseOf(s) ==
  IF rows[s].status = "unused" THEN "unused"
  ELSE IF s \in sessions THEN "live"
  ELSE IF Creating(s) THEN "starting"
  ELSE "ended"

ViewersOf(s) ==
  {u \in Users : \E r \in Requests :
     req[r].sess = s /\ req[r].user = u /\ req[r].pc \in StreamPC}

PhaseMap == [s \in Sessions |-> PhaseOf(s)]
HolderMap == [s \in Sessions |-> rows[s].user]
ViewersMap == [s \in Sessions |-> ViewersOf(s)]

Lifecycle == INSTANCE SessionLifecycle
               WITH phase <- PhaseMap, holder <- HolderMap, viewers <- ViewersMap

\* Every step of the server is a step of SessionLifecycle or leaves it as it
\* was: ids are drawn once, a session that left the map or whose creation
\* failed never comes back, and only its user watches it, once it was live.
ImplementsLifecycle == Lifecycle!LSpec

(***************************************************************************)
(* What the code and its documentation say and the server does not do.     *)
(***************************************************************************)

\* A session that was closed through the API is closed: once its row says so
\* and no handler is at work on it, Terminal.Attach does not find it.
ClosedRowsAreGone ==
  \A s \in Sessions :
    (rows[s].status = "closed" /\ \A r \in Requests : req[r].sess # s) => s \notin sessions

\* A client that watches a session learns of its end: once the SSH channel is
\* closed, by close_session or by the remote side, its stream ends.
ClosedStreamsEnd ==
  \A r \in Requests, s \in Sessions :
    (req[r].pc = "attached" /\ req[r].sess = s /\ ssh[s] = "closed")
      ~> ~(req[r].pc = "attached" /\ req[r].sess = s)

=============================================================================
