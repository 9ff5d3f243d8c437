------------------------------ MODULE Accounts ------------------------------
(***************************************************************************)
(* Users, API keys and saved connections, query by query: the commands of  *)
(* hive-server user and hive-server key, the Auth service and the          *)
(* Connections service all run on one database, each request several       *)
(* queries with no transaction around them.  Rows are deleted behind their *)
(* backs: by other requests, and with a user by the cascade.               *)
(*                                                                         *)
(* Rows keep their owner and their data when they are deleted; ids and     *)
(* keys are random and never drawn twice.  Nothing is in memory but the    *)
(* requests, so a restart is a failure of each of them.                    *)
(***************************************************************************)
CONSTANTS Users, Names, NameOf, Keys, Conns, Data, Malformed, Requests, None

ASSUME NameOfAssumption == NameOf \in [Users -> Names]
ASSUME RowsAssumption == Users \cap (Keys \cup Conns) = {} /\ Keys \cap Conns = {}
ASSUME MalformedAssumption == Malformed \notin Data

VARIABLES
  state, owner, data,  \* the tables users, api_keys and connections
  used,                \* the keys whose last_used_at is set
  req                  \* where every request is, and what it found

tables == <<state, owner, data, used>>
vars == <<tables, req>>

\* A validation takes effect when it finds the key, any other call with its
\* last query.
Called ==
  [r \in Requests |->
     IF req[r] = None THEN None
     ELSE [call  |-> req[r].call,
           reply |-> IF req[r].at \in {"user", "stamp"} THEN [is |-> "valid", val |-> req[r].found]
                     ELSE req[r].reply]]

R == INSTANCE Registry WITH calls <- Called

Calls == R!Calls

Replies ==
  [is: {"no_user", "revoked", "not_found", "invalid", "invalid_argument",
        "denied", "updated", "deleted"}, val: {None}]
  \cup [is: {"created"}, val: Users \cup Keys \cup Conns]
  \cup [is: {"valid"}, val: Users]
  \cup [is: {"list"}, val: (SUBSET Users) \cup (SUBSET Keys) \cup (SUBSET Conns)]

Activations ==
  [call: Calls, at: {"query", "named", "user", "stamp", "owned", "answer"},
   found: Users \cup {None}, reply: Replies \cup {None}]

\* None is nothing else.
ASSUME NoneAssumption ==
  None \notin Users \cup Data \cup Replies \cup Activations \cup [call: Calls, reply: Replies \cup {None}]

Init ==
  /\ state = [x \in Users \cup Keys \cup Conns |-> "new"]
  /\ owner = [x \in Keys \cup Conns |-> None]
  /\ data = [c \in Conns |-> None]
  /\ used = {}
  /\ req = [r \in Requests |-> None]

-----------------------------------------------------------------------------
(***************************************************************************)
(* Requests and queries.                                                   *)
(***************************************************************************)

There(x) == state[x] = "there"

Becomes(r, call, at, found, reply) ==
  req' = [req EXCEPT ![r] = [call |-> call, at |-> at, found |-> found, reply |-> reply]]

GoesOn(r, at, found) == Becomes(r, req[r].call, at, found, None)

Ends(r, is, val) == Becomes(r, req[r].call, "answer", None, R!Reply(is, val))

Start(r) ==
  /\ req[r] = None
  /\ \E c \in Calls :
       /\ R!Known(c)
       /\ Becomes(r, c, "query", None, None)
  /\ UNCHANGED tables

\* A request of one of `ops' has come to the query `at'.
Query(r, ops, at) ==
  /\ req[r] # None
  /\ req[r].call.op \in ops
  /\ req[r].at = at

\* The request has been answered or has failed.
Over(r) == req' = [req EXCEPT ![r] = None]

\* Mutant: the foreign key is missing.
Insert_Unchecked(x, u) ==
  /\ state[x] = "new"
  /\ state' = [state EXCEPT ![x] = "there"]
  /\ owner' = [owner EXCEPT ![x] = u]

\* INSERT with a fresh id; the foreign key wants the user to be there.
Insert(x, u) ==
  /\ state[x] = "new"
  /\ There(u)
  /\ state' = [state EXCEPT ![x] = "there"]
  /\ owner' = [owner EXCEPT ![x] = u]

\* DELETE ... WHERE; rows_affected is 0 when the row is not there.
Delete(x) == state' = IF There(x) THEN [state EXCEPT ![x] = "gone"] ELSE state

-----------------------------------------------------------------------------
(***************************************************************************)
(* hive-server user and hive-server key.                                   *)
(***************************************************************************)

\* Usernames are unique.
UserCreate(r) ==
  /\ Query(r, {"create_user"}, "query")
  /\ \/ /\ \E u \in Users : There(u) /\ NameOf[u] = req[r].call.name
        /\ Over(r)
        /\ UNCHANGED state
     \/ /\ \A u \in Users : There(u) => NameOf[u] # req[r].call.name
        /\ \E u \in Users : /\ state[u] = "new" /\ NameOf[u] = req[r].call.name
                            /\ state' = [state EXCEPT ![u] = "there"]
                            /\ Ends(r, "created", u)
  /\ UNCHANGED <<owner, data, used>>

UserList(r) ==
  /\ Query(r, {"list_users"}, "query")
  /\ Ends(r, "list", {u \in Users : There(u)})
  /\ UNCHANGED tables

\* User::find_by_username of Create and List.
KeyFindUser(r) ==
  /\ Query(r, {"create_key", "list_keys"}, "query")
  /\ \/ \E u \in Users : There(u) /\ NameOf[u] = req[r].call.name /\ GoesOn(r, "named", u)
     \/ /\ \A u \in Users : There(u) => NameOf[u] # req[r].call.name
        /\ Ends(r, "no_user", None)
  /\ UNCHANGED tables

KeyInsert(r) ==
  /\ Query(r, {"create_key"}, "named")
  /\ \/ \E k \in Keys : Insert(k, req[r].found) /\ Ends(r, "created", k)
     \/ ~There(req[r].found) /\ Over(r) /\ UNCHANGED <<state, owner>>
  /\ UNCHANGED <<data, used>>

KeyList(r) ==
  /\ Query(r, {"list_keys"}, "named")
  /\ Ends(r, "list", {k \in Keys : There(k) /\ owner[k] = req[r].found})
  /\ UNCHANGED tables

KeyRevoke(r) ==
  LET k == req[r].call.key
  IN  /\ Query(r, {"revoke"}, "query")
      /\ Delete(k)
      /\ Ends(r, IF There(k) THEN "revoked" ELSE "not_found", None)
      /\ UNCHANGED <<owner, data, used>>

-----------------------------------------------------------------------------
(***************************************************************************)
(* Auth.ValidateApiKey: the key, its user, last_used_at.                   *)
(***************************************************************************)

ValidateKey(r) ==
  LET k == req[r].call.key
  IN  /\ Query(r, {"validate"}, "query")
      /\ IF There(k) THEN GoesOn(r, "user", owner[k]) ELSE Ends(r, "invalid", None)
      /\ UNCHANGED tables

\* User not found for API key: answered as an internal error.
ValidateUser(r) ==
  /\ Query(r, {"validate"}, "user")
  /\ IF There(req[r].found) THEN GoesOn(r, "stamp", req[r].found) ELSE Over(r)
  /\ UNCHANGED tables

\* Mutant: the answer does not wait for the UPDATE.
ValidateStamp_Later(r) ==
  /\ Query(r, {"validate"}, "stamp")
  /\ Ends(r, "valid", req[r].found)
  /\ UNCHANGED tables

\* An UPDATE that finds no row is no error.
ValidateStamp(r) ==
  LET k == req[r].call.key
  IN  /\ Query(r, {"validate"}, "stamp")
      /\ used' = IF There(k) THEN used \cup {k} ELSE used
      /\ Ends(r, "valid", req[r].found)
      /\ UNCHANGED <<state, owner, data>>

-----------------------------------------------------------------------------
(***************************************************************************)
(* Connections.                                                            *)
(***************************************************************************)

ConnList(r) ==
  /\ Query(r, {"list"}, "query")
  /\ Ends(r, "list", {c \in Conns : There(c) /\ owner[c] = req[r].call.by})
  /\ UNCHANGED tables

ConnCreate(r) ==
  LET d == req[r].call.data
      u == req[r].call.by
  IN  /\ Query(r, {"create"}, "query")
      /\ \/ d = Malformed /\ Ends(r, "invalid_argument", None) /\ UNCHANGED tables
         \/ d # Malformed /\ ~There(u) /\ Over(r) /\ UNCHANGED tables
         \/ /\ d # Malformed
            /\ \E c \in Conns : /\ Insert(c, u)
                                /\ data' = [data EXCEPT ![c] = d]
                                /\ Ends(r, "created", c)
            /\ UNCHANGED used

\* Mutant: any user may change a connection.
ConnFind_Anybody(r) ==
  LET c == req[r].call
  IN  /\ Query(r, {"update", "delete"}, "query")
      /\ \/ ~There(c.conn) /\ Ends(r, "not_found", None)
         \/ /\ There(c.conn)
            /\ IF c.op = "update" /\ c.data = Malformed THEN Ends(r, "invalid_argument", None)
               ELSE GoesOn(r, "owned", None)
      /\ UNCHANGED tables

\* find_by_id and the check of the owner, then the arguments.
ConnFind(r) ==
  LET c == req[r].call
  IN  /\ Query(r, {"update", "delete"}, "query")
      /\ \/ ~There(c.conn) /\ Ends(r, "not_found", None)
         \/ There(c.conn) /\ owner[c.conn] # c.by /\ Ends(r, "denied", None)
         \/ /\ There(c.conn) /\ owner[c.conn] = c.by
            /\ IF c.op = "update" /\ c.data = Malformed THEN Ends(r, "invalid_argument", None)
               ELSE GoesOn(r, "owned", None)
      /\ UNCHANGED tables

ConnUpdate(r) ==
  LET c == req[r].call
  IN  /\ Query(r, {"update"}, "owned")
      /\ data' = IF There(c.conn) THEN [data EXCEPT ![c.conn] = c.data] ELSE data
      /\ Ends(r, IF There(c.conn) THEN "updated" ELSE "not_found", None)
      /\ UNCHANGED <<state, owner, used>>

\* Whether a row was deleted is not looked at.
ConnDelete(r) ==
  /\ Query(r, {"delete"}, "owned")
  /\ Delete(req[r].call.conn)
  /\ Ends(r, "deleted", None)
  /\ UNCHANGED <<owner, data, used>>

-----------------------------------------------------------------------------

\* The query fails, the client is gone or the process dies between two queries.
Fails(r) ==
  /\ req[r] # None
  /\ req[r].at # "answer"
  /\ Over(r)
  /\ UNCHANGED tables

\* The answer is sent or printed, or is lost.
Answered(r) ==
  /\ req[r] # None
  /\ req[r].at = "answer"
  /\ Over(r)
  /\ UNCHANGED tables

\* DELETE FROM users, by hand: ON DELETE CASCADE takes what the user owns.
DeleteUser(u) ==
  /\ There(u)
  /\ state' = [x \in DOMAIN state |->
       IF There(x) /\ (x = u \/ (x \notin Users /\ owner[x] = u)) THEN "gone" ELSE state[x]]
  /\ UNCHANGED <<owner, data, used, req>>

Next ==
  \/ \E r \in Requests :
       \/ Start(r) \/ Fails(r) \/ Answered(r)
       \/ UserCreate(r) \/ UserList(r)
       \/ KeyFindUser(r) \/ KeyInsert(r) \/ KeyList(r) \/ KeyRevoke(r)
       \/ ValidateKey(r) \/ ValidateUser(r) \/ ValidateStamp(r)
       \/ ConnList(r) \/ ConnCreate(r) \/ ConnFind(r) \/ ConnUpdate(r) \/ ConnDelete(r)
  \/ \E u \in Users : DeleteUser(u)

Spec == Init /\ [][Next]_vars

-----------------------------------------------------------------------------
(***************************************************************************)
(* Correctness.                                                            *)
(***************************************************************************)

\* Every variable has its type, and the tables keep the constraints of the
\* schema: a username is unique, and no row outlives its user.
TypeOK ==
  /\ state \in [Users \cup Keys \cup Conns -> {"new", "there", "gone"}]
  /\ owner \in [Keys \cup Conns -> Users \cup {None}]
  /\ data \in [Conns -> Data \cup {None}]
  /\ used \subseteq Keys
  /\ req \in [Requests -> Activations \cup {None}]
  /\ \A u, v \in Users : There(u) /\ There(v) /\ NameOf[u] = NameOf[v] => u = v
  /\ \A x \in Keys \cup Conns : There(x) => owner[x] \in Users /\ There(owner[x])

\* Whatever other requests and deletions come between the queries of a request,
\* it takes effect at one moment between its start and its answer, and the
\* answer is the one of that moment: a key is accepted only if it had not been
\* revoked when it was asked about, connections are changed by their owners
\* only, and what was revoked, deleted or refused never comes back.
ImplementsRegistry == R!RSpec

Told(r, op, is) ==
  /\ req[r] # None
  /\ req[r].call.op = op
  /\ req[r].reply # None
  /\ req[r].reply.is = is

\* An accepted key that is still there was stamped, so the list shows its use; a
\* key an operator made for a username is, while it is there, a key of the user
\* that has the name now, also when the name changed hands meanwhile; and what
\* an owner was told is deleted is gone.
AnswersHold ==
  \A r \in Requests :
    /\ Told(r, "validate", "valid") /\ There(req[r].call.key) => req[r].call.key \in used
    /\ Told(r, "create_key", "created") =>
         LET k == req[r].reply.val
         IN  There(k) => \E u \in Users : /\ owner[k] = u /\ There(u)
                                          /\ NameOf[u] = req[r].call.name
    /\ Told(r, "delete", "deleted") => ~There(req[r].call.conn)

=============================================================================
