----------------------- MODULE SessionManager_proofs -----------------------
(***************************************************************************)
(* Proofs about SessionManager, for any set of users, connections, session *)
(* ids and handlers.                                                       *)
(***************************************************************************)
EXTENDS SessionManager, TLAPS

\* Handlers by what they can rely on.
BuildingPC == {"create_ssh", "create_publish"}
ClosingPC == {"close_channel", "close_update", "closed"}
EverMappedPC == ClosingPC \cup StreamPC \cup {"cloned", "create_reply"}

\* A row that was ever inserted says who created it, for which connection;
\* while it exists so does the connection, and a deleted row lost its own.
RowsInv ==
  \A s \in Sessions :
    IF rows[s].status = "unused"
    THEN rows[s] = NoRow /\ ssh[s] = "none"
    ELSE /\ rows[s].conn \in Connections
         /\ rows[s].user = Owner[rows[s].conn]
         /\ HasRow(s) <=> rows[s].conn \in connections

\* The ActiveSession of a session that has had a channel agrees with the row.
MapInv ==
  /\ \A s \in Sessions : ssh[s] # "none" =>
       active[s].user = rows[s].user /\ active[s].conn = rows[s].conn
  /\ \A s \in sessions : ssh[s] # "none" /\ rows[s].status # "unused"

\* What each suspended handler knows about its own session.
HandlerInv ==
  \A r \in Requests :
    /\ req[r].pc \in {"create_insert"} \cup CreatePC =>
         req[r].conn \in Connections /\ req[r].user = Owner[req[r].conn]
    /\ req[r].pc \in PC \ {"idle", "create_insert", "delete"} =>
         req[r].sess \in Sessions /\ rows[req[r].sess].status # "unused"
    /\ req[r].pc \in BuildingPC =>
         /\ rows[req[r].sess].user = req[r].user
         /\ rows[req[r].sess].conn = req[r].conn
         /\ req[r].sess \notin sessions
    /\ req[r].pc = "create_ssh" => ssh[req[r].sess] = "none"
    /\ req[r].pc \in EverMappedPC \cup {"create_publish"} => ssh[req[r].sess] # "none"
    /\ req[r].pc \in StreamPC \cup {"reattach"} => rows[req[r].sess].user = req[r].user
    /\ req[r].pc \in ClosingPC => req[r].sess \notin sessions
    /\ req[r].pc \in {"close_update", "closed"} => ssh[req[r].sess] = "closed"
    /\ req[r].pc = "closed" => rows[req[r].sess].status \in {"closed", "deleted"}

\* A session is built by one handler, and no handler that needs it to have
\* been in the map works on it before.
BuilderInv ==
  \A r, t \in Requests :
    r # t /\ req[r].pc \in BuildingPC /\ req[t].pc \in BuildingPC \cup EverMappedPC
      => req[r].sess # req[t].sess

IInv == TypeOK /\ RowsInv /\ MapInv /\ HandlerInv /\ BuilderInv

-----------------------------------------------------------------------------
LEMMA CreateCheckInductive ==
  ASSUME IInv, NEW r \in Requests, NEW u \in Users, NEW c \in Connections, CreateCheck(r, u, c)
  PROVE  IInv'
<1> USE OwnerAssumption, NoneAssumption DEF IInv, CreateCheck, Start
<1> USE DEF PC, HandlerPC, CreatePC, ClosePC, AttachPC, StreamPC, BuildingPC, ClosingPC, EverMappedPC
<1>1. TypeOK'
  BY DEF TypeOK, HandlerInv, Request, Row, RowStatus, ActiveSession, Idle, HasRow
<1> USE DEF TypeOK, Request, Row, ActiveSession, Idle
<1>2. RowsInv'
  BY DEF RowsInv, HasRow, NoRow, HandlerInv
<1>3. MapInv'
  BY DEF MapInv, RowsInv, HasRow, HandlerInv
<1>4. HandlerInv'
  BY DEF HandlerInv, RowsInv, HasRow, MapInv, BuilderInv
<1>5. BuilderInv'
  BY DEF BuilderInv, HandlerInv, MapInv, RowsInv
<1>6. QED
  BY <1>1, <1>2, <1>3, <1>4, <1>5

LEMMA CreateInsertInductive ==
  ASSUME IInv, NEW r \in Requests, CreateInsert(r)
  PROVE  IInv'
<1> USE OwnerAssumption, NoneAssumption DEF IInv
<1> USE DEF PC, HandlerPC, CreatePC, ClosePC, AttachPC, StreamPC, BuildingPC, ClosingPC, EverMappedPC
<1>0. PICK s \in Sessions :
        /\ rows[s].status = "unused"
        /\ rows' = [rows EXCEPT ![s] = [status |-> "active", user |-> req[r].user,
                                        conn |-> req[r].conn]]
        /\ req' = [req EXCEPT ![r].pc = "create_ssh", ![r].sess = s]
  BY DEF CreateInsert
<1>a. /\ req[r].pc = "create_insert"
      /\ req[r].conn \in connections
      /\ UNCHANGED <<connections, sessions, active, ssh>>
  BY DEF CreateInsert
<1>b. /\ req[r].conn \in Connections
      /\ req[r].user = Owner[req[r].conn]
      /\ req[r].user \in Users
  BY <1>a DEF HandlerInv
<1>c. \A t \in Requests :
        req[t].pc \in BuildingPC \cup EverMappedPC => req[t].sess # s
  BY <1>0 DEF HandlerInv
<1> USE DEF TypeOK, Request, Row, ActiveSession
<1>1. TypeOK'
  <2>1. rows' \in [Sessions -> Row]
    BY <1>0, <1>b DEF RowStatus
  <2> DEFINE q == [req[r] EXCEPT !.pc = "create_ssh", !.sess = s]
  <2>a. q \in Request
    <3> DEFINE old == req[r]
    <3>1. old \in Request /\ "create_ssh" \in PC
      OBVIOUS
    <3> HIDE DEF old, PC, HandlerPC, CreatePC, ClosePC, AttachPC, StreamPC, BuildingPC, ClosingPC,
                 EverMappedPC, TypeOK, IInv
    <3>2. [old EXCEPT !.pc = "create_ssh", !.sess = s] \in Request
      BY <3>1
    <3>3. QED
      BY <3>2 DEF old
  <2>b. req' = [req EXCEPT ![r] = q]
    BY <1>0 DEF Request
  <2> HIDE DEF q
  <2>2. req' \in [Requests -> Request]
    BY <2>a, <2>b
  <2>3. QED
    BY <2>1, <2>2, <1>a
<1>2. RowsInv'
  BY <1>0, <1>a, <1>b DEF RowsInv, HasRow, NoRow
<1>3. MapInv'
  BY <1>0, <1>a, <1>b DEF MapInv, RowsInv, HasRow
<1>4. HandlerInv'
  BY <1>0, <1>a, <1>b, <1>1 DEF HandlerInv, RowsInv, HasRow, MapInv
<1>5. BuilderInv'
  <2> SUFFICES ASSUME NEW p \in Requests, NEW t \in Requests, p # t,
                      req'[p].pc \in BuildingPC,
                      req'[t].pc \in BuildingPC \cup EverMappedPC
               PROVE  req'[p].sess # req'[t].sess
    BY DEF BuilderInv
  <2>1. CASE p = r
    BY <2>1, <1>0, <1>a, <1>c
  <2>2. CASE t = r
    BY <2>2, <1>0, <1>a, <1>c
  <2>3. CASE p # r /\ t # r
    BY <2>3, <1>0, <1>a DEF BuilderInv
  <2>4. QED
    BY <2>1, <2>2, <2>3
<1>6. QED
  BY <1>1, <1>2, <1>3, <1>4, <1>5

LEMMA CreateSshInductive ==
  ASSUME IInv, NEW r \in Requests, CreateSsh(r)
  PROVE  IInv'
<1> USE OwnerAssumption, NoneAssumption DEF IInv, CreateSsh, Step
<1> USE DEF PC, HandlerPC, CreatePC, ClosePC, AttachPC, StreamPC, BuildingPC, ClosingPC, EverMappedPC
<1>1. TypeOK'
  BY DEF TypeOK, HandlerInv, Request, Row, RowStatus, ActiveSession, Idle, HasRow
<1> USE DEF TypeOK, Request, Row, ActiveSession, Idle
<1>2. RowsInv'
  BY DEF RowsInv, HasRow, NoRow, HandlerInv
<1>3. MapInv'
  BY DEF MapInv, RowsInv, HasRow, HandlerInv
<1>4. HandlerInv'
  BY DEF HandlerInv, RowsInv, HasRow, MapInv, BuilderInv
<1>5. BuilderInv'
  BY DEF BuilderInv, HandlerInv, MapInv, RowsInv
<1>6. QED
  BY <1>1, <1>2, <1>3, <1>4, <1>5

LEMMA CreatePublishInductive ==
  ASSUME IInv, NEW r \in Requests, CreatePublish(r)
  PROVE  IInv'
<1> USE OwnerAssumption, NoneAssumption DEF IInv, CreatePublish, Step
<1> USE DEF PC, HandlerPC, CreatePC, ClosePC, AttachPC, StreamPC, BuildingPC, ClosingPC, EverMappedPC
<1>1. TypeOK'
  BY DEF TypeOK, HandlerInv, Request, Row, RowStatus, ActiveSession, Idle, HasRow
<1> USE DEF TypeOK, Request, Row, ActiveSession, Idle
<1>2. RowsInv'
  BY DEF RowsInv, HasRow, NoRow, HandlerInv
<1>3. MapInv'
  BY DEF MapInv, RowsInv, HasRow, HandlerInv
<1>4. HandlerInv'
  BY DEF HandlerInv, RowsInv, HasRow, MapInv, BuilderInv
<1>5. BuilderInv'
  BY DEF BuilderInv, HandlerInv, MapInv, RowsInv
<1>6. QED
  BY <1>1, <1>2, <1>3, <1>4, <1>5

LEMMA CreateReplyInductive ==
  ASSUME IInv, NEW r \in Requests, CreateReply(r)
  PROVE  IInv'
<1> USE OwnerAssumption, NoneAssumption DEF IInv, CreateReply, Finish
<1> USE DEF PC, HandlerPC, CreatePC, ClosePC, AttachPC, StreamPC, BuildingPC, ClosingPC, EverMappedPC
<1>1. TypeOK'
  BY DEF TypeOK, HandlerInv, Request, Row, RowStatus, ActiveSession, Idle, HasRow
<1> USE DEF TypeOK, Request, Row, ActiveSession, Idle
<1>2. RowsInv'
  BY DEF RowsInv, HasRow, NoRow, HandlerInv
<1>3. MapInv'
  BY DEF MapInv, RowsInv, HasRow, HandlerInv
<1>4. HandlerInv'
  BY DEF HandlerInv, RowsInv, HasRow, MapInv, BuilderInv
<1>5. BuilderInv'
  BY DEF BuilderInv, HandlerInv, MapInv, RowsInv
<1>6. QED
  BY <1>1, <1>2, <1>3, <1>4, <1>5

LEMMA CloseRpcCheckInductive ==
  ASSUME IInv, NEW r \in Requests, NEW u \in Users, NEW s \in Sessions, CloseRpcCheck(r, u, s)
  PROVE  IInv'
<1> USE OwnerAssumption, NoneAssumption DEF IInv, CloseRpcCheck, Start
<1> USE DEF PC, HandlerPC, CreatePC, ClosePC, AttachPC, StreamPC, BuildingPC, ClosingPC, EverMappedPC
<1>1. TypeOK'
  BY DEF TypeOK, HandlerInv, Request, Row, RowStatus, ActiveSession, Idle, HasRow
<1> USE DEF TypeOK, Request, Row, ActiveSession, Idle
<1>2. RowsInv'
  BY DEF RowsInv, HasRow, NoRow, HandlerInv
<1>3. MapInv'
  BY DEF MapInv, RowsInv, HasRow, HandlerInv
<1>4. HandlerInv'
  BY DEF HandlerInv, RowsInv, HasRow, MapInv, BuilderInv
<1>5. BuilderInv'
  BY DEF BuilderInv, HandlerInv, MapInv, RowsInv
<1>6. QED
  BY <1>1, <1>2, <1>3, <1>4, <1>5

LEMMA CloseRpcUpdateInductive ==
  ASSUME IInv, NEW r \in Requests, CloseRpcUpdate(r)
  PROVE  IInv'
<1> USE OwnerAssumption, NoneAssumption DEF IInv, CloseRpcUpdate, CloseRow, Finish
<1> USE DEF PC, HandlerPC, CreatePC, ClosePC, AttachPC, StreamPC, BuildingPC, ClosingPC, EverMappedPC
<1>1. TypeOK'
  BY DEF TypeOK, HandlerInv, Request, Row, RowStatus, ActiveSession, Idle, HasRow
<1> USE DEF TypeOK, Request, Row, ActiveSession, Idle
<1>2. RowsInv'
  BY DEF RowsInv, HasRow, NoRow, HandlerInv
<1>3. MapInv'
  BY DEF MapInv, RowsInv, HasRow, HandlerInv
<1>4. HandlerInv'
  BY DEF HandlerInv, RowsInv, HasRow, MapInv, BuilderInv
<1>5. BuilderInv'
  BY DEF BuilderInv, HandlerInv, MapInv, RowsInv
<1>6. QED
  BY <1>1, <1>2, <1>3, <1>4, <1>5

LEMMA CloseRemoveInductive ==
  ASSUME IInv, NEW r \in Requests, NEW s \in Sessions, CloseRemove(r, s)
  PROVE  IInv'
<1> USE OwnerAssumption, NoneAssumption DEF IInv, CloseRemove, Start
<1> USE DEF PC, HandlerPC, CreatePC, ClosePC, AttachPC, StreamPC, BuildingPC, ClosingPC, EverMappedPC
<1>1. TypeOK'
  BY DEF TypeOK, HandlerInv, Request, Row, RowStatus, ActiveSession, Idle, HasRow
<1> USE DEF TypeOK, Request, Row, ActiveSession, Idle
<1>2. RowsInv'
  BY DEF RowsInv, HasRow, NoRow, HandlerInv
<1>3. MapInv'
  BY DEF MapInv, RowsInv, HasRow, HandlerInv
<1>4. HandlerInv'
  BY DEF HandlerInv, RowsInv, HasRow, MapInv, BuilderInv
<1>5. BuilderInv'
  BY DEF BuilderInv, HandlerInv, MapInv, RowsInv
<1>6. QED
  BY <1>1, <1>2, <1>3, <1>4, <1>5

LEMMA CloseChannelInductive ==
  ASSUME IInv, NEW r \in Requests, CloseChannel(r)
  PROVE  IInv'
<1> USE OwnerAssumption, NoneAssumption DEF IInv, CloseChannel, Step
<1> USE DEF PC, HandlerPC, CreatePC, ClosePC, AttachPC, StreamPC, BuildingPC, ClosingPC, EverMappedPC
<1>0. req[r].sess \in Sessions
  BY DEF HandlerInv
<1>1. TypeOK'
  BY <1>0 DEF TypeOK, Request
<1> USE DEF TypeOK, Request, Row, ActiveSession, Idle
<1>2. RowsInv'
  BY DEF RowsInv, HasRow, NoRow, HandlerInv
<1>3. MapInv'
  BY DEF MapInv, RowsInv, HasRow, HandlerInv
<1>4. HandlerInv'
  BY DEF HandlerInv, RowsInv, HasRow, MapInv, BuilderInv
<1>5. BuilderInv'
  BY DEF BuilderInv, HandlerInv, MapInv, RowsInv
<1>6. QED
  BY <1>1, <1>2, <1>3, <1>4, <1>5

LEMMA CloseUpdateInductive ==
  ASSUME IInv, NEW r \in Requests, CloseUpdate(r)
  PROVE  IInv'
<1> USE OwnerAssumption, NoneAssumption DEF IInv, CloseUpdate, Step, CloseRow
<1> USE DEF PC, HandlerPC, CreatePC, ClosePC, AttachPC, StreamPC, BuildingPC, ClosingPC, EverMappedPC
<1>1. TypeOK'
  BY DEF TypeOK, HandlerInv, Request, Row, RowStatus, ActiveSession, Idle, HasRow
<1> USE DEF TypeOK, Request, Row, ActiveSession, Idle
<1>2. RowsInv'
  BY DEF RowsInv, HasRow, NoRow, HandlerInv
<1>3. MapInv'
  BY DEF MapInv, RowsInv, HasRow, HandlerInv
<1>4. HandlerInv'
  <2>1. /\ req[r].sess \in Sessions
        /\ rows[req[r].sess].status \in {"active", "closed", "deleted"}
        /\ rows'[req[r].sess].status \in {"closed", "deleted"}
    BY DEF HandlerInv, HasRow, RowStatus
  <2> DEFINE n == req[r].sess
  <2>a. rows' = [rows EXCEPT ![n].status =
                   IF rows[n].status \in {"active", "closed"} THEN "closed" ELSE rows[n].status]
    BY DEF HasRow
  <2>2. ASSUME NEW s \in Sessions
        PROVE  /\ rows'[s].user = rows[s].user
               /\ rows'[s].conn = rows[s].conn
               /\ rows[s].status # "unused" => rows'[s].status # "unused"
               /\ rows[s].status \in {"closed", "deleted"} => rows'[s].status = rows[s].status
    BY <2>1, <2>a DEF RowStatus
  <2>3. QED
    BY <2>1, <2>2 DEF HandlerInv
<1>5. BuilderInv'
  BY DEF BuilderInv, HandlerInv, MapInv, RowsInv
<1>6. QED
  BY <1>1, <1>2, <1>3, <1>4, <1>5

LEMMA CloseReturnInductive ==
  ASSUME IInv, NEW r \in Requests, CloseReturn(r)
  PROVE  IInv'
<1> USE OwnerAssumption, NoneAssumption DEF IInv, CloseReturn, Finish
<1> USE DEF PC, HandlerPC, CreatePC, ClosePC, AttachPC, StreamPC, BuildingPC, ClosingPC, EverMappedPC
<1>1. TypeOK'
  BY DEF TypeOK, HandlerInv, Request, Row, RowStatus, ActiveSession, Idle, HasRow
<1> USE DEF TypeOK, Request, Row, ActiveSession, Idle
<1>2. RowsInv'
  BY DEF RowsInv, HasRow, NoRow, HandlerInv
<1>3. MapInv'
  BY DEF MapInv, RowsInv, HasRow, HandlerInv
<1>4. HandlerInv'
  BY DEF HandlerInv, RowsInv, HasRow, MapInv, BuilderInv
<1>5. BuilderInv'
  BY DEF BuilderInv, HandlerInv, MapInv, RowsInv
<1>6. QED
  BY <1>1, <1>2, <1>3, <1>4, <1>5

LEMMA AttachLookupInductive ==
  ASSUME IInv, NEW r \in Requests, NEW u \in Users, NEW s \in Sessions, AttachLookup(r, u, s)
  PROVE  IInv'
<1> USE OwnerAssumption, NoneAssumption DEF IInv, AttachLookup, Start
<1> USE DEF PC, HandlerPC, CreatePC, ClosePC, AttachPC, StreamPC, BuildingPC, ClosingPC, EverMappedPC
<1>1. TypeOK'
  BY DEF TypeOK, HandlerInv, Request, Row, RowStatus, ActiveSession, Idle, HasRow
<1> USE DEF TypeOK, Request, Row, ActiveSession, Idle
<1>2. RowsInv'
  BY DEF RowsInv, HasRow, NoRow, HandlerInv
<1>3. MapInv'
  BY DEF MapInv, RowsInv, HasRow, HandlerInv
<1>4. HandlerInv'
  BY DEF HandlerInv, RowsInv, HasRow, MapInv, BuilderInv
<1>5. BuilderInv'
  BY DEF BuilderInv, HandlerInv, MapInv, RowsInv
<1>6. QED
  BY <1>1, <1>2, <1>3, <1>4, <1>5

LEMMA AttachSubscribeInductive ==
  ASSUME IInv, NEW r \in Requests, AttachSubscribe(r)
  PROVE  IInv'
<1> USE OwnerAssumption, NoneAssumption DEF IInv, AttachSubscribe, Step
<1> USE DEF PC, HandlerPC, CreatePC, ClosePC, AttachPC, StreamPC, BuildingPC, ClosingPC, EverMappedPC
<1>1. TypeOK'
  BY DEF TypeOK, HandlerInv, Request, Row, RowStatus, ActiveSession, Idle, HasRow
<1> USE DEF TypeOK, Request, Row, ActiveSession, Idle
<1>2. RowsInv'
  BY DEF RowsInv, HasRow, NoRow, HandlerInv
<1>3. MapInv'
  BY DEF MapInv, RowsInv, HasRow, HandlerInv
<1>4. HandlerInv'
  BY DEF HandlerInv, RowsInv, HasRow, MapInv, BuilderInv
<1>5. BuilderInv'
  BY DEF BuilderInv, HandlerInv, MapInv, RowsInv
<1>6. QED
  BY <1>1, <1>2, <1>3, <1>4, <1>5

LEMMA InputEndsInductive ==
  ASSUME IInv, NEW r \in Requests, InputEnds(r)
  PROVE  IInv'
<1> USE OwnerAssumption, NoneAssumption DEF IInv, InputEnds, Step, DropUnowned
<1> USE DEF PC, HandlerPC, CreatePC, ClosePC, AttachPC, StreamPC, BuildingPC, ClosingPC, EverMappedPC
<1>1. TypeOK'
  BY DEF TypeOK, Request, Row, RowStatus, ActiveSession, Idle, HasRow
<1> USE DEF TypeOK, Request, Row, ActiveSession, Idle
<1>2. RowsInv'
  BY DEF RowsInv, HasRow, NoRow, HandlerInv
<1>3. MapInv'
  BY DEF MapInv, RowsInv, HasRow, HandlerInv
<1>4. HandlerInv'
  BY DEF HandlerInv, RowsInv, HasRow, MapInv, BuilderInv
<1>5. BuilderInv'
  BY DEF BuilderInv, HandlerInv, MapInv, RowsInv
<1>6. QED
  BY <1>1, <1>2, <1>3, <1>4, <1>5

LEMMA OutputEndsInductive ==
  ASSUME IInv, NEW r \in Requests, OutputEnds(r)
  PROVE  IInv'
<1> USE OwnerAssumption, NoneAssumption DEF IInv, OutputEnds, Finish
<1> USE DEF PC, HandlerPC, CreatePC, ClosePC, AttachPC, StreamPC, BuildingPC, ClosingPC, EverMappedPC
<1>1. TypeOK'
  BY DEF TypeOK, HandlerInv, Request, Row, RowStatus, ActiveSession, Idle, HasRow
<1> USE DEF TypeOK, Request, Row, ActiveSession, Idle
<1>2. RowsInv'
  BY DEF RowsInv, HasRow, NoRow, HandlerInv
<1>3. MapInv'
  BY DEF MapInv, RowsInv, HasRow, HandlerInv
<1>4. HandlerInv'
  BY DEF HandlerInv, RowsInv, HasRow, MapInv, BuilderInv
<1>5. BuilderInv'
  BY DEF BuilderInv, HandlerInv, MapInv, RowsInv
<1>6. QED
  BY <1>1, <1>2, <1>3, <1>4, <1>5

LEMMA ClientGoneInductive ==
  ASSUME IInv, NEW r \in Requests, ClientGone(r)
  PROVE  IInv'
<1> USE OwnerAssumption, NoneAssumption DEF IInv, ClientGone, Finish, DropUnowned
<1> USE DEF PC, HandlerPC, CreatePC, ClosePC, AttachPC, StreamPC, BuildingPC, ClosingPC, EverMappedPC
<1>1. TypeOK'
  BY DEF TypeOK, HandlerInv, Request, Row, RowStatus, ActiveSession, Idle, HasRow
<1> USE DEF TypeOK, Request, Row, ActiveSession, Idle
<1>2. RowsInv'
  BY DEF RowsInv, HasRow, NoRow, HandlerInv
<1>3. MapInv'
  BY DEF MapInv, RowsInv, HasRow, HandlerInv
<1>4. HandlerInv'
  BY DEF HandlerInv, RowsInv, HasRow, MapInv, BuilderInv
<1>5. BuilderInv'
  BY DEF BuilderInv, HandlerInv, MapInv, RowsInv
<1>6. QED
  BY <1>1, <1>2, <1>3, <1>4, <1>5

LEMMA ReattachCheckInductive ==
  ASSUME IInv, NEW r \in Requests, NEW u \in Users, NEW s \in Sessions, ReattachCheck(r, u, s)
  PROVE  IInv'
<1> USE OwnerAssumption, NoneAssumption DEF IInv, ReattachCheck, Start
<1> USE DEF PC, HandlerPC, CreatePC, ClosePC, AttachPC, StreamPC, BuildingPC, ClosingPC, EverMappedPC
<1>1. TypeOK'
  BY DEF TypeOK, HandlerInv, Request, Row, RowStatus, ActiveSession, Idle, HasRow
<1> USE DEF TypeOK, Request, Row, ActiveSession, Idle
<1>2. RowsInv'
  BY DEF RowsInv, HasRow, NoRow, HandlerInv
<1>3. MapInv'
  BY DEF MapInv, RowsInv, HasRow, HandlerInv
<1>4. HandlerInv'
  BY DEF HandlerInv, RowsInv, HasRow, MapInv, BuilderInv
<1>5. BuilderInv'
  BY DEF BuilderInv, HandlerInv, MapInv, RowsInv
<1>6. QED
  BY <1>1, <1>2, <1>3, <1>4, <1>5

LEMMA ReattachSubscribeInductive ==
  ASSUME IInv, NEW r \in Requests, ReattachSubscribe(r)
  PROVE  IInv'
<1> USE OwnerAssumption, NoneAssumption DEF IInv, ReattachSubscribe, Step
<1> USE DEF PC, HandlerPC, CreatePC, ClosePC, AttachPC, StreamPC, BuildingPC, ClosingPC, EverMappedPC
<1>1. TypeOK'
  BY DEF TypeOK, HandlerInv, Request, Row, RowStatus, ActiveSession, Idle, HasRow
<1> USE DEF TypeOK, Request, Row, ActiveSession, Idle
<1>2. RowsInv'
  BY DEF RowsInv, HasRow, NoRow, HandlerInv
<1>3. MapInv'
  BY DEF MapInv, RowsInv, HasRow, HandlerInv
<1>4. HandlerInv'
  BY DEF HandlerInv, RowsInv, HasRow, MapInv, BuilderInv
<1>5. BuilderInv'
  BY DEF BuilderInv, HandlerInv, MapInv, RowsInv
<1>6. QED
  BY <1>1, <1>2, <1>3, <1>4, <1>5

LEMMA DeleteCheckInductive ==
  ASSUME IInv, NEW r \in Requests, NEW u \in Users, NEW c \in Connections, DeleteCheck(r, u, c)
  PROVE  IInv'
<1> USE OwnerAssumption, NoneAssumption DEF IInv, DeleteCheck, Start
<1> USE DEF PC, HandlerPC, CreatePC, ClosePC, AttachPC, StreamPC, BuildingPC, ClosingPC, EverMappedPC
<1>1. TypeOK'
  BY DEF TypeOK, HandlerInv, Request, Row, RowStatus, ActiveSession, Idle, HasRow
<1> USE DEF TypeOK, Request, Row, ActiveSession, Idle
<1>2. RowsInv'
  BY DEF RowsInv, HasRow, NoRow, HandlerInv
<1>3. MapInv'
  BY DEF MapInv, RowsInv, HasRow, HandlerInv
<1>4. HandlerInv'
  BY DEF HandlerInv, RowsInv, HasRow, MapInv, BuilderInv
<1>5. BuilderInv'
  BY DEF BuilderInv, HandlerInv, MapInv, RowsInv
<1>6. QED
  BY <1>1, <1>2, <1>3, <1>4, <1>5

LEMMA DeleteConnectionInductive ==
  ASSUME IInv, NEW r \in Requests, DeleteConnection(r)
  PROVE  IInv'
<1> USE OwnerAssumption, NoneAssumption DEF IInv, DeleteConnection, Finish
<1> USE DEF PC, HandlerPC, CreatePC, ClosePC, AttachPC, StreamPC, BuildingPC, ClosingPC, EverMappedPC
<1>1. TypeOK'
  BY DEF TypeOK, HandlerInv, Request, Row, RowStatus, ActiveSession, Idle, HasRow
<1> USE DEF TypeOK, Request, Row, ActiveSession, Idle
<1>2. RowsInv'
  BY DEF RowsInv, HasRow, NoRow, HandlerInv
<1>3. MapInv'
  BY DEF MapInv, RowsInv, HasRow, HandlerInv
<1>4. HandlerInv'
  BY DEF HandlerInv, RowsInv, HasRow, MapInv, BuilderInv
<1>5. BuilderInv'
  BY DEF BuilderInv, HandlerInv, MapInv, RowsInv
<1>6. QED
  BY <1>1, <1>2, <1>3, <1>4, <1>5

LEMMA AbortInductive ==
  ASSUME IInv, NEW r \in Requests, Abort(r)
  PROVE  IInv'
<1> USE OwnerAssumption, NoneAssumption DEF IInv, Abort, Finish, DropUnowned
<1> USE DEF PC, HandlerPC, CreatePC, ClosePC, AttachPC, StreamPC, BuildingPC, ClosingPC, EverMappedPC
<1>1. TypeOK'
  BY DEF TypeOK, HandlerInv, Request, Row, RowStatus, ActiveSession, Idle, HasRow
<1> USE DEF TypeOK, Request, Row, ActiveSession, Idle
<1>2. RowsInv'
  BY DEF RowsInv, HasRow, NoRow, HandlerInv
<1>3. MapInv'
  BY DEF MapInv, RowsInv, HasRow, HandlerInv
<1>4. HandlerInv'
  BY DEF HandlerInv, RowsInv, HasRow, MapInv, BuilderInv
<1>5. BuilderInv'
  BY DEF BuilderInv, HandlerInv, MapInv, RowsInv
<1>6. QED
  BY <1>1, <1>2, <1>3, <1>4, <1>5

LEMMA SshDiesInductive ==
  ASSUME IInv, NEW s \in Sessions, SshDies(s)
  PROVE  IInv'
<1> USE DEF IInv, SshDies, TypeOK
<1>1. TypeOK'
  OBVIOUS
<1>2. RowsInv'
  BY DEF RowsInv, HasRow
<1>3. MapInv'
  BY DEF MapInv
<1>4. HandlerInv'
  BY DEF HandlerInv
<1>5. BuilderInv'
  BY DEF BuilderInv
<1>6. QED
  BY <1>1, <1>2, <1>3, <1>4, <1>5

LEMMA RestartInductive ==
  ASSUME IInv, Restart
  PROVE  IInv'
<1> USE NoneAssumption DEF IInv, Restart, TypeOK, Idle, DropUnowned, PC, HandlerPC
<1>1. TypeOK'
  BY DEF Request
<1>2. RowsInv'
  BY DEF RowsInv, HasRow
<1>3. MapInv'
  BY DEF MapInv
<1>4. HandlerInv' /\ BuilderInv'
  BY DEF HandlerInv, BuilderInv, CreatePC, BuildingPC, ClosingPC, StreamPC, EverMappedPC
<1>5. QED
  BY <1>1, <1>2, <1>3, <1>4

LEMMA StutterInductive ==
  ASSUME IInv, UNCHANGED vars
  PROVE  IInv'
BY DEF IInv, TypeOK, RowsInv, MapInv, HandlerInv, BuilderInv, HasRow, vars

LEMMA InitIInv == Init => IInv
<1> SUFFICES ASSUME Init PROVE IInv
  OBVIOUS
<1> USE DEF Init, Idle, NoRow, NoActiveSession
<1>1. TypeOK
  BY DEF TypeOK, Row, RowStatus, ActiveSession, Request, PC, HandlerPC
<1>2. RowsInv /\ MapInv
  BY DEF RowsInv, MapInv
<1>3. HandlerInv /\ BuilderInv
  BY DEF HandlerInv, BuilderInv, CreatePC, BuildingPC, ClosingPC, StreamPC, EverMappedPC
<1>4. QED
  BY <1>1, <1>2, <1>3 DEF IInv

LEMMA NextIInv == IInv /\ [Next]_vars => IInv'
<1> SUFFICES ASSUME IInv, [Next]_vars PROVE IInv'
  OBVIOUS
<1>1. ASSUME NEW r \in Requests, HandlerStep(r)
      PROVE  IInv'
  BY <1>1, CreateInsertInductive, CreateSshInductive, CreatePublishInductive,
     CreateReplyInductive, CloseRpcUpdateInductive, CloseChannelInductive,
     CloseUpdateInductive, CloseReturnInductive, AttachSubscribeInductive,
     OutputEndsInductive, ReattachSubscribeInductive, DeleteConnectionInductive
     DEF HandlerStep
<1>2. ASSUME NEW r \in Requests, Call(r)
      PROVE  IInv'
  BY <1>2, CreateCheckInductive, DeleteCheckInductive, CloseRpcCheckInductive,
     AttachLookupInductive, ReattachCheckInductive, CloseRemoveInductive DEF Call
<1>3. ASSUME NEW r \in Requests, Abort(r) \/ InputEnds(r) \/ ClientGone(r)
      PROVE  IInv'
  BY <1>3, AbortInductive, InputEndsInductive, ClientGoneInductive
<1>4. ASSUME NEW s \in Sessions, SshDies(s)
      PROVE  IInv'
  BY <1>4, SshDiesInductive
<1>5. CASE Restart
  BY <1>5, RestartInductive
<1>6. CASE UNCHANGED vars
  BY <1>6, StutterInductive
<1>7. QED
  BY <1>1, <1>2, <1>3, <1>4, <1>5, <1>6 DEF Next

\* The inductive invariant holds in every reachable state, whatever the
\* numbers of users, connections, sessions and handlers.
THEOREM Inductive == Spec => []IInv
BY InitIInv, NextIInv, PTL DEF Spec

-----------------------------------------------------------------------------

\* Every variable keeps its type.
THEOREM TypeCorrect == Spec => []TypeOK
<1>1. IInv => TypeOK
  BY DEF IInv
<1>2. QED
  BY <1>1, Inductive, PTL

\* Rows, sessions in memory and streams all belong to the owner of the
\* connection they were made for.
THEOREM OwnershipHolds == Spec => []Ownership
<1>1. IInv => Ownership
  BY DEF IInv, Ownership, RowsInv, MapInv, HandlerInv, HasRow, TypeOK, StreamPC,
         EverMappedPC, PC, HandlerPC
<1>2. QED
  BY <1>1, Inductive, PTL

\* A session leaves the table before it leaves the map only by the deletion
\* of its connection.
THEOREM LiveSessionHasRowHolds == Spec => []LiveSessionHasRow
<1>1. IInv => LiveSessionHasRow
  BY DEF IInv, LiveSessionHasRow, RowsInv, MapInv, HasRow, TypeOK
<1>2. QED
  BY <1>1, Inductive, PTL

\* A session close_session has closed is gone and stays gone.
THEOREM CloseEffectiveHolds == Spec => []CloseEffective
<1>1. IInv => CloseEffective
  BY DEF IInv, CloseEffective, HandlerInv, ClosingPC
<1>2. QED
  BY <1>1, Inductive, PTL

-----------------------------------------------------------------------------
(***************************************************************************)
(* The server implements SessionLifecycle.  Most steps leave the phase,    *)
(* the holder and the viewers of every session as they were.               *)
(***************************************************************************)

Quiet == PhaseMap' = PhaseMap /\ HolderMap' = HolderMap /\ ViewersMap' = ViewersMap

\* A handler that moves without entering or leaving the building and the
\* watching of its session changes neither who builds nor who watches.
LEMMA SameHandlers ==
  ASSUME TypeOK, NEW r \in Requests, NEW q \in Request,
         req' = [req EXCEPT ![r] = q],
         q.pc \in BuildingPC <=> req[r].pc \in BuildingPC,
         q.pc \in StreamPC <=> req[r].pc \in StreamPC,
         q.pc \in BuildingPC \cup StreamPC => q.sess = req[r].sess /\ q.user = req[r].user
  PROVE  /\ \A s \in Sessions : Creating(s)' <=> Creating(s)
         /\ ViewersMap' = ViewersMap
<1> USE DEF TypeOK
<1>1. ASSUME NEW s \in Sessions
      PROVE  Creating(s)' <=> Creating(s)
  BY DEF Creating, BuildingPC
<1>2. ASSUME NEW s \in Sessions
      PROVE  ViewersOf(s)' = ViewersOf(s)
  BY DEF ViewersOf
<1>3. QED
  BY <1>1, <1>2 DEF ViewersMap

LEMMA SamePhase ==
  ASSUME \A s \in Sessions : Creating(s)' <=> Creating(s),
         \A s \in Sessions : rows'[s].status = "unused" <=> rows[s].status = "unused",
         sessions' = sessions
  PROVE  PhaseMap' = PhaseMap
BY DEF PhaseMap, PhaseOf

\* Steps that only move one handler between waiting points that the abstract
\* specification does not tell apart.
LEMMA QuietHandler ==
  ASSUME IInv, NEW r \in Requests,
         CreateSsh(r) \/ CloseChannel(r) \/ CreateReply(r) \/ CloseReturn(r) \/ InputEnds(r)
  PROVE  Quiet
<1>1. /\ sessions' = sessions /\ rows' = rows
      /\ \E q \in Request :
           /\ req' = [req EXCEPT ![r] = q]
           /\ q.pc \in BuildingPC <=> req[r].pc \in BuildingPC
           /\ q.pc \in StreamPC <=> req[r].pc \in StreamPC
           /\ q.pc \in BuildingPC \cup StreamPC => q.sess = req[r].sess /\ q.user = req[r].user
  <2>1. CASE CreateSsh(r)
    <3> DEFINE q == [req[r] EXCEPT !.pc = "create_publish"]
    <3>1. q \in Request /\ req' = [req EXCEPT ![r] = q]
      BY <2>1 DEF CreateSsh, Step, IInv, TypeOK, Request, PC, HandlerPC, CreatePC
    <3>2. QED
      BY <2>1, <3>1 DEF CreateSsh, Step, BuildingPC, StreamPC, IInv, TypeOK, Request
  <2>2. CASE CloseChannel(r)
    <3> DEFINE q == [req[r] EXCEPT !.pc = "close_update"]
    <3>1. q \in Request /\ req' = [req EXCEPT ![r] = q]
      BY <2>2 DEF CloseChannel, Step, IInv, TypeOK, Request, PC, HandlerPC, ClosePC
    <3>2. QED
      BY <2>2, <3>1 DEF CloseChannel, Step, BuildingPC, StreamPC, IInv, TypeOK, Request
  <2>3. CASE InputEnds(r)
    <3> DEFINE q == [req[r] EXCEPT !.pc = "draining"]
    <3>1. q \in Request /\ req' = [req EXCEPT ![r] = q]
      BY <2>3 DEF InputEnds, Step, IInv, TypeOK, Request, PC, StreamPC
    <3>2. QED
      BY <2>3, <3>1 DEF InputEnds, Step, BuildingPC, StreamPC, IInv, TypeOK, Request
  <2>4. CASE CreateReply(r) \/ CloseReturn(r)
    BY <2>4 DEF CreateReply, CloseReturn, Finish, Idle, Request, PC, BuildingPC, StreamPC
  <2>5. QED
    BY <2>1, <2>2, <2>3, <2>4
<1>2. QED
  BY <1>1, SameHandlers, SamePhase DEF Quiet, HolderMap, IInv

\* So do the writes to rows that exist.
LEMMA QuietRowUpdate ==
  ASSUME IInv, NEW r \in Requests,
         CloseRpcUpdate(r) \/ CloseUpdate(r) \/ DeleteConnection(r)
  PROVE  Quiet
<1> USE DEF IInv
<1>1. sessions' = sessions /\ \E q \in Request :
        /\ req' = [req EXCEPT ![r] = q]
        /\ q.pc \notin BuildingPC \cup StreamPC
        /\ req[r].pc \notin BuildingPC \cup StreamPC
  <2>1. CASE CloseUpdate(r)
    <3> DEFINE q == [req[r] EXCEPT !.pc = "closed"]
    <3>1. q \in Request /\ req' = [req EXCEPT ![r] = q]
      BY <2>1 DEF CloseUpdate, Step, TypeOK, Request, PC
    <3>2. QED
      BY <2>1, <3>1 DEF CloseUpdate, Step, BuildingPC, StreamPC, TypeOK, Request
  <2>2. CASE CloseRpcUpdate(r) \/ DeleteConnection(r)
    BY <2>2 DEF CloseRpcUpdate, DeleteConnection, Finish, Idle, Request, PC, BuildingPC, StreamPC
  <2>3. QED
    BY <2>1, <2>2
<1>2. \A s \in Sessions : /\ rows'[s].status = "unused" <=> rows[s].status = "unused"
                          /\ rows'[s].user = rows[s].user
  <2>1. CASE CloseRpcUpdate(r) \/ CloseUpdate(r)
    BY <2>1 DEF CloseRpcUpdate, CloseUpdate, CloseRow, HasRow, TypeOK, Row, RowStatus
  <2>2. CASE DeleteConnection(r)
    BY <2>2 DEF DeleteConnection, HasRow, TypeOK, Row
  <2>3. QED
    BY <2>1, <2>2
<1>3. QED
  BY <1>1, <1>2, SameHandlers, SamePhase DEF Quiet, HolderMap

LEMMA QuietSshDies ==
  ASSUME NEW s \in Sessions, SshDies(s)
  PROVE  Quiet
BY DEF SshDies, Quiet, PhaseMap, PhaseOf, HolderMap, ViewersMap, ViewersOf, Creating

\* Session::create begins a session of the caller.
LEMMA InsertBegins ==
  ASSUME IInv, NEW r \in Requests, CreateInsert(r)
  PROVE  \E s \in Sessions, u \in Users : Lifecycle!Begin(s, u)
<1> USE DEF IInv
<1>1. PICK s \in Sessions :
        /\ rows[s].status = "unused"
        /\ rows' = [rows EXCEPT ![s] = [status |-> "active", user |-> req[r].user,
                                        conn |-> req[r].conn]]
        /\ req' = [req EXCEPT ![r].pc = "create_ssh", ![r].sess = s]
  BY DEF CreateInsert
<1>2. sessions' = sessions /\ req[r].pc = "create_insert" /\ req[r].user \in Users
  BY OwnerAssumption DEF CreateInsert, HandlerInv
<1>3. s \notin sessions
  BY <1>1 DEF MapInv
<1>4. /\ \A x \in Sessions : Creating(x)' <=> (x = s \/ Creating(x))
      /\ ViewersMap' = ViewersMap
  BY <1>1, <1>2 DEF Creating, ViewersMap, ViewersOf, TypeOK, Request, StreamPC
<1>5. PhaseMap[s] = "unused" /\ PhaseMap' = [PhaseMap EXCEPT ![s] = "starting"]
  <2>1. ASSUME NEW x \in Sessions
        PROVE  PhaseOf(x)' = IF x = s THEN "starting" ELSE PhaseOf(x)
    BY <1>1, <1>2, <1>3, <1>4 DEF PhaseOf, TypeOK, Row
  <2>2. QED
    BY <1>1, <2>1 DEF PhaseMap, PhaseOf
<1>6. HolderMap' = [HolderMap EXCEPT ![s] = req[r].user]
  BY <1>1 DEF HolderMap, TypeOK, Row
<1>7. QED
  BY <1>2, <1>4, <1>5, <1>6 DEF Lifecycle!Begin

\* The insertion in the map makes it live.
LEMMA PublishGoesLive ==
  ASSUME IInv, NEW r \in Requests, CreatePublish(r)
  PROVE  \E s \in Sessions : Lifecycle!GoLive(s)
<1> USE DEF IInv
<1> DEFINE n == req[r].sess
<1>1. /\ n \in Sessions /\ n \notin sessions /\ rows[n].status # "unused"
      /\ req[r].pc = "create_publish" /\ req' = [req EXCEPT ![r].pc = "create_reply"]
      /\ sessions' = sessions \cup {n} /\ rows' = rows
  BY DEF CreatePublish, Step, HandlerInv, BuildingPC, PC, HandlerPC, CreatePC
<1>2. /\ Creating(n)
      /\ \A x \in Sessions \ {n} : Creating(x)' <=> Creating(x)
      /\ ViewersMap' = ViewersMap
  BY <1>1 DEF Creating, ViewersMap, ViewersOf, TypeOK, Request, StreamPC
<1>3. PhaseMap[n] = "starting" /\ PhaseMap' = [PhaseMap EXCEPT ![n] = "live"]
  <2>1. ASSUME NEW x \in Sessions
        PROVE  PhaseOf(x)' = IF x = n THEN "live" ELSE PhaseOf(x)
    BY <1>1, <1>2 DEF PhaseOf
  <2>2. QED
    BY <1>1, <1>2, <2>1 DEF PhaseMap, PhaseOf
<1>4. HolderMap' = HolderMap
  BY <1>1 DEF HolderMap
<1>5. QED
  BY <1>1, <1>2, <1>3, <1>4 DEF Lifecycle!GoLive

\* A stream is granted to the holder of a session that is or was live.
LEMMA SubscribeViews ==
  ASSUME IInv, NEW r \in Requests, AttachSubscribe(r) \/ ReattachSubscribe(r)
  PROVE  \E s \in Sessions, u \in Users : Lifecycle!View(s, u)
<1> USE DEF IInv
<1> DEFINE n == req[r].sess
           u == req[r].user
<1>1. /\ n \in Sessions /\ rows[n].status # "unused" /\ rows[n].user = u
      /\ req[r].pc \in {"cloned", "reattach"}
      /\ \E p \in StreamPC : req' = [req EXCEPT ![r].pc = p]
      /\ sessions' = sessions /\ rows' = rows
  BY DEF AttachSubscribe, ReattachSubscribe, Step, HandlerInv, MapInv, PC, HandlerPC,
         AttachPC, StreamPC, EverMappedPC
<1>2. n \in sessions \/ ~Creating(n)
  BY <1>1 DEF AttachSubscribe, ReattachSubscribe, Step, BuilderInv, Creating, BuildingPC, EverMappedPC
<1>3. u \in Users
  BY <1>1, OwnerAssumption DEF RowsInv
<1>4. \A x \in Sessions : Creating(x)' <=> Creating(x)
  BY <1>1 DEF Creating, TypeOK, Request, StreamPC
<1>5. ViewersMap' = [ViewersMap EXCEPT ![n] = @ \cup {u}]
  <2>1. ASSUME NEW x \in Sessions
        PROVE  ViewersOf(x)' = IF x = n THEN ViewersOf(x) \cup {u} ELSE ViewersOf(x)
    BY <1>1, <1>3 DEF ViewersOf, TypeOK, Request, StreamPC
  <2>2. QED
    BY <1>1, <2>1 DEF ViewersMap
<1>6. PhaseMap' = PhaseMap /\ HolderMap' = HolderMap
  BY <1>1, <1>4, SamePhase DEF HolderMap
<1>7. PhaseMap[n] \in {"live", "ended"} /\ HolderMap[n] = u
  BY <1>1, <1>2 DEF PhaseMap, PhaseOf, HolderMap
<1>8. QED
  BY <1>1, <1>3, <1>5, <1>6, <1>7 DEF Lifecycle!View

\* close_session ends a live session.
LEMMA RemoveEnds ==
  ASSUME IInv, NEW r \in Requests, NEW s \in Sessions, CloseRemove(r, s)
  PROVE  \E ending \in SUBSET Sessions : Lifecycle!EndAndLeave(ending)
<1> USE DEF IInv
<1>1. /\ s \in sessions /\ rows[s].status # "unused" /\ sessions' = sessions \ {s}
      /\ rows' = rows /\ ~Creating(s)
  BY DEF CloseRemove, MapInv, Creating, HandlerInv, BuildingPC
<1>2. /\ \A x \in Sessions : Creating(x)' <=> Creating(x)
      /\ ViewersMap' = ViewersMap
  <2>1. \E q \in Request : /\ req' = [req EXCEPT ![r] = q]
                           /\ q.pc \notin BuildingPC \cup StreamPC
                           /\ req[r].pc \notin BuildingPC \cup StreamPC
    BY DEF CloseRemove, Start, Request, PC, HandlerPC, ClosePC, BuildingPC, StreamPC
  <2>2. QED
    BY <2>1, SameHandlers
<1>3. ViewersMap \in [Sessions -> SUBSET Users]
  BY DEF ViewersMap, ViewersOf
<1>4. PhaseMap[s] = "live"
  BY <1>1 DEF PhaseMap, PhaseOf
<1>5. PhaseMap' = [x \in Sessions |-> IF x \in {s} THEN "ended" ELSE PhaseMap[x]]
  BY <1>1, <1>2 DEF PhaseMap, PhaseOf
<1>6. Lifecycle!EndAndLeave({s})
  BY <1>1, <1>2, <1>3, <1>4, <1>5 DEF Lifecycle!EndAndLeave, HolderMap
<1>7. QED
  BY <1>6

\* A handler that is over stops building and watching: a session it was
\* building ends, the viewers of the others can only become fewer.
LEMMA FinishEnds ==
  ASSUME IInv, NEW r \in Requests, OutputEnds(r) \/ ClientGone(r) \/ Abort(r)
  PROVE  \E ending \in SUBSET Sessions : Lifecycle!EndAndLeave(ending)
<1> USE DEF IInv
<1> DEFINE ending == IF req[r].pc \in BuildingPC THEN {req[r].sess} ELSE {}
<1>1. /\ req' = [req EXCEPT ![r] = Idle] /\ rows' = rows /\ sessions' = sessions
      /\ req[r].pc # "idle"
  BY DEF OutputEnds, ClientGone, Abort, Finish, StreamPC, HandlerPC, CreatePC, ClosePC, AttachPC
<1>2. \A s \in ending : s \in Sessions /\ s \notin sessions /\ rows[s].status # "unused" /\ Creating(s)
  BY <1>1 DEF HandlerInv, Creating, BuildingPC, PC, HandlerPC, CreatePC
<1>3. \A x \in Sessions : Creating(x)' <=> Creating(x) /\ x \notin ending
  <2> TAKE x \in Sessions
  <2>1. ASSUME x \in ending
        PROVE  ~Creating(x)'
    <3>1. req[r].pc \in BuildingPC /\ req[r].sess = x
      BY <2>1
    <3>2. \A t \in Requests \ {r} : ~(req[t].sess = x /\ req[t].pc \in BuildingPC)
      BY <3>1 DEF BuilderInv
    <3>3. QED
      BY <1>1, <3>2 DEF Creating, BuildingPC, TypeOK, Idle
  <2>2. ASSUME x \notin ending
        PROVE  Creating(x)' <=> Creating(x)
    BY <1>1, <2>2 DEF Creating, BuildingPC, TypeOK, Idle
  <2>3. QED
    BY <2>1, <2>2
<1>4. PhaseMap' = [x \in Sessions |-> IF x \in ending THEN "ended" ELSE PhaseMap[x]]
  <2>1. ASSUME NEW x \in Sessions
        PROVE  PhaseOf(x)' = IF x \in ending THEN "ended" ELSE PhaseOf(x)
    BY <1>1, <1>2, <1>3 DEF PhaseOf
  <2>2. QED
    BY <2>1 DEF PhaseMap
<1>5. \A x \in ending : PhaseMap[x] = "starting"
  BY <1>2 DEF PhaseMap, PhaseOf
<1>6. /\ ViewersMap' \in [Sessions -> SUBSET Users]
      /\ \A x \in Sessions : ViewersMap'[x] \subseteq ViewersMap[x]
  BY <1>1 DEF ViewersMap, ViewersOf, TypeOK, Idle, StreamPC
<1>7. HolderMap' = HolderMap
  BY <1>1 DEF HolderMap
<1>8. Lifecycle!EndAndLeave(ending)
  BY <1>4, <1>5, <1>6, <1>7 DEF Lifecycle!EndAndLeave
<1>9. ending \in SUBSET Sessions
  BY <1>2
<1>10. QED
  BY <1>8, <1>9

\* A restart ends every session that was starting or live.
LEMMA RestartEnds ==
  ASSUME IInv, Restart
  PROVE  \E ending \in SUBSET Sessions : Lifecycle!EndAndLeave(ending)
<1> USE DEF IInv
<1> DEFINE ending == {s \in Sessions : PhaseMap[s] \in {"starting", "live"}}
<1>1. req' = [r \in Requests |-> Idle] /\ rows' = rows /\ sessions' = {}
  BY DEF Restart
<1>2. \A x \in Sessions : ~Creating(x)' /\ ViewersOf(x)' = {}
  BY <1>1 DEF Creating, ViewersOf, StreamPC, Idle
<1>3. PhaseMap' = [x \in Sessions |-> IF x \in ending THEN "ended" ELSE PhaseMap[x]]
  <2>1. ASSUME NEW x \in Sessions
        PROVE  PhaseOf(x)' = IF PhaseOf(x) \in {"starting", "live"} THEN "ended" ELSE PhaseOf(x)
    BY <1>1, <1>2 DEF PhaseOf, MapInv
  <2>2. QED
    BY <2>1 DEF PhaseMap
<1>4. /\ ViewersMap' \in [Sessions -> SUBSET Users]
      /\ \A x \in Sessions : ViewersMap'[x] \subseteq ViewersMap[x]
  BY <1>2 DEF ViewersMap
<1>5. HolderMap' = HolderMap
  BY <1>1 DEF HolderMap
<1>6. Lifecycle!EndAndLeave(ending)
  BY <1>3, <1>4, <1>5 DEF Lifecycle!EndAndLeave
<1>7. QED
  BY <1>6

LEMMA StepImplements == IInv /\ [Next]_vars => [Lifecycle!LNext]_(Lifecycle!lvars)
<1> SUFFICES ASSUME IInv, [Next]_vars
             PROVE  [Lifecycle!LNext]_(Lifecycle!lvars)
  OBVIOUS
<1> USE DEF Lifecycle!LNext, Lifecycle!lvars, Quiet
<1>1. ASSUME NEW r \in Requests, HandlerStep(r)
      PROVE  [Lifecycle!LNext]_(Lifecycle!lvars)
  <2>1. CASE CreateInsert(r)
    BY <2>1, InsertBegins
  <2>2. CASE CreatePublish(r)
    BY <2>2, PublishGoesLive
  <2>3. CASE AttachSubscribe(r) \/ ReattachSubscribe(r)
    BY <2>3, SubscribeViews
  <2>4. CASE OutputEnds(r)
    BY <2>4, FinishEnds
  <2>5. CASE CreateSsh(r) \/ CreateReply(r) \/ CloseChannel(r) \/ CloseReturn(r)
    BY <2>5, QuietHandler
  <2>6. CASE CloseRpcUpdate(r) \/ CloseUpdate(r) \/ DeleteConnection(r)
    BY <2>6, QuietRowUpdate
  <2>7. QED
    BY <1>1, <2>1, <2>2, <2>3, <2>4, <2>5, <2>6 DEF HandlerStep
<1>2. ASSUME NEW r \in Requests, Call(r)
      PROVE  [Lifecycle!LNext]_(Lifecycle!lvars)
  <2>1. ASSUME NEW s \in Sessions, CloseRemove(r, s)
        PROVE  [Lifecycle!LNext]_(Lifecycle!lvars)
    BY <2>1, RemoveEnds
  <2>2. ASSUME NEW u \in Users, NEW c \in Connections, CreateCheck(r, u, c) \/ DeleteCheck(r, u, c)
        PROVE  Quiet
    <3>1. \E q \in Request : /\ req' = [req EXCEPT ![r] = q]
                             /\ q.pc \notin BuildingPC \cup StreamPC
                             /\ req[r].pc \notin BuildingPC \cup StreamPC
      BY <2>2 DEF CreateCheck, DeleteCheck, Start, Request, PC, HandlerPC, CreatePC,
                  BuildingPC, StreamPC
    <3>2. sessions' = sessions /\ rows' = rows
      BY <2>2 DEF CreateCheck, DeleteCheck
    <3>3. QED
      BY <3>1, <3>2, SameHandlers, SamePhase DEF HolderMap, IInv
  <2>3. ASSUME NEW u \in Users, NEW s \in Sessions,
               CloseRpcCheck(r, u, s) \/ AttachLookup(r, u, s) \/ ReattachCheck(r, u, s)
        PROVE  Quiet
    <3>1. \E q \in Request : /\ req' = [req EXCEPT ![r] = q]
                             /\ q.pc \notin BuildingPC \cup StreamPC
                             /\ req[r].pc \notin BuildingPC \cup StreamPC
      BY <2>3 DEF CloseRpcCheck, AttachLookup, ReattachCheck, Start, Request, PC, HandlerPC,
                  ClosePC, AttachPC, BuildingPC, StreamPC
    <3>2. sessions' = sessions /\ rows' = rows
      BY <2>3 DEF CloseRpcCheck, AttachLookup, ReattachCheck
    <3>3. QED
      BY <3>1, <3>2, SameHandlers, SamePhase DEF HolderMap, IInv
  <2>4. QED
    BY <1>2, <2>1, <2>2, <2>3 DEF Call
<1>3. ASSUME NEW r \in Requests, Abort(r) \/ InputEnds(r) \/ ClientGone(r)
      PROVE  [Lifecycle!LNext]_(Lifecycle!lvars)
  BY <1>3, FinishEnds, QuietHandler
<1>4. ASSUME NEW s \in Sessions, SshDies(s)
      PROVE  [Lifecycle!LNext]_(Lifecycle!lvars)
  BY <1>4, QuietSshDies
<1>5. CASE Restart
  BY <1>5, RestartEnds
<1>6. CASE UNCHANGED vars
  BY <1>6 DEF vars, PhaseMap, PhaseOf, HolderMap, ViewersMap, ViewersOf, Creating
<1>7. QED
  BY <1>1, <1>2, <1>3, <1>4, <1>5, <1>6 DEF Next

\* Every behaviour of the server is, seen through phase, holder and viewers,
\* a behaviour of SessionLifecycle.
THEOREM Refinement == Spec => ImplementsLifecycle
<1>1. Init => Lifecycle!LInit
  BY DEF Init, Lifecycle!LInit, PhaseMap, PhaseOf, HolderMap, ViewersMap, ViewersOf, NoRow,
         Idle, StreamPC
<1>2. QED
  BY <1>1, StepImplements, Inductive, PTL DEF Spec, ImplementsLifecycle, Lifecycle!LSpec

=====================
