------------------------------ MODULE Registry ------------------------------
(***************************************************************************)
(* What the server promises about users, API keys and saved connections:   *)
(* every call takes effect in one step between the moment it is made and   *)
(* its answer, and the answer is the one of that step; ids are used once,  *)
(* and what belongs to a user goes with the user.                          *)
(***************************************************************************)
CONSTANTS
  Users, Names,  \* users by their id, and usernames
  NameOf,        \* the username of every id
  Keys, Conns,   \* API keys and saved connections
  Data,          \* what a connection says: host, port, username, ...
  Malformed,     \* the same, with an ssh_key_id that is no UUID
  Requests,      \* activations of the command line and of the services
  None

VARIABLES
  state,  \* of every user, key and connection: new, there or gone
  owner,  \* the user a key or a connection was made for
  data,   \* what a connection says
  calls   \* the call of a request and, once it took effect, its answer

rvars == <<state, owner, data, calls>>

Rows == Keys \cup Conns

Calls ==
  [op: {"list_users"}] \cup
  [op: {"create_user", "create_key", "list_keys"}, name: Names] \cup
  [op: {"revoke", "validate"}, key: Keys] \cup
  [op: {"list"}, by: Users] \cup
  [op: {"create"}, by: Users, data: Data \cup {Malformed}] \cup
  [op: {"update"}, by: Users, conn: Conns, data: Data \cup {Malformed}] \cup
  [op: {"delete"}, by: Users, conn: Conns]

Reply(is, val) == [is |-> is, val |-> val]

There(x) == state[x] = "there"
Of(u, S) == {x \in S : There(x) /\ owner[x] = u}
HasName(u, n) == There(u) /\ NameOf[u] = n

RInit ==
  /\ state = [x \in Users \cup Rows |-> "new"]
  /\ owner = [x \in Rows |-> None]
  /\ data = [c \in Conns |-> None]
  /\ calls = [r \in Requests |-> None]

-----------------------------------------------------------------------------

\* A caller names ids and keys it was told of; they may be gone by now.
Known(c) ==
  /\ c.op \in {"revoke", "validate"} => state[c.key] # "new"
  /\ c.op \in {"list", "create", "update", "delete"} => state[c.by] # "new"
  /\ c.op \in {"update", "delete"} => state[c.conn] # "new"

Call(r, c) ==
  /\ calls[r] = None
  /\ Known(c)
  /\ calls' = [calls EXCEPT ![r] = [call |-> c, reply |-> None]]
  /\ UNCHANGED <<state, owner, data>>

Pending(r, op) ==
  /\ calls[r] # None
  /\ calls[r].reply = None
  /\ calls[r].call.op = op

Answer(r, is, val) == calls' = [calls EXCEPT ![r].reply = Reply(is, val)]

Add(x, u) ==
  /\ state[x] = "new"
  /\ state' = [state EXCEPT ![x] = "there"]
  /\ owner' = [owner EXCEPT ![x] = u]

Remove(S) == state' = [x \in DOMAIN state |-> IF x \in S /\ There(x) THEN "gone" ELSE state[x]]

CreateUser(r) ==
  /\ Pending(r, "create_user")
  /\ LET n == calls[r].call.name
     IN /\ \A u \in Users : ~HasName(u, n)
        /\ \E u \in Users : /\ state[u] = "new" /\ NameOf[u] = n
                            /\ state' = [state EXCEPT ![u] = "there"]
                            /\ Answer(r, "created", u)
  /\ UNCHANGED <<owner, data>>

CreateKey(r) ==
  /\ Pending(r, "create_key")
  /\ \E u \in Users, k \in Keys : /\ HasName(u, calls[r].call.name)
                                  /\ Add(k, u)
                                  /\ Answer(r, "created", k)
  /\ UNCHANGED data

Revoke(r) ==
  /\ Pending(r, "revoke")
  /\ LET k == calls[r].call.key
     IN /\ Remove({k})
        /\ Answer(r, IF There(k) THEN "revoked" ELSE "not_found", None)
  /\ UNCHANGED <<owner, data>>

CreateConn(r) ==
  /\ Pending(r, "create")
  /\ LET c == calls[r].call
     IN /\ There(c.by)
        /\ c.data \in Data
        /\ \E x \in Conns : /\ Add(x, c.by)
                            /\ data' = [data EXCEPT ![x] = c.data]
                            /\ Answer(r, "created", x)

UpdateConn(r) ==
  /\ Pending(r, "update")
  /\ LET c == calls[r].call
     IN /\ c.conn \in Of(c.by, Conns)
        /\ c.data \in Data
        /\ data' = [data EXCEPT ![c.conn] = c.data]
  /\ Answer(r, "updated", None)
  /\ UNCHANGED <<state, owner>>

\* Of two calls that delete the same connection each may be told it did.
DeleteConn(r) ==
  /\ Pending(r, "delete")
  /\ LET c == calls[r].call
     IN /\ owner[c.conn] = c.by
        /\ Remove({c.conn})
  /\ Answer(r, "deleted", None)
  /\ UNCHANGED <<owner, data>>

\* Calls that change nothing.  The keys of a username are those of one user
\* that has or had it.
Look(r) ==
  /\ UNCHANGED <<state, owner, data>>
  /\ \/ /\ Pending(r, "list_users")
        /\ Answer(r, "list", {u \in Users : There(u)})
     \/ /\ Pending(r, "list_keys")
        /\ \E u \in Users : /\ NameOf[u] = calls[r].call.name
                            /\ state[u] # "new"
                            /\ Answer(r, "list", Of(u, Keys))
     \/ /\ Pending(r, "create_key") \/ Pending(r, "list_keys")
        /\ \A u \in Users : ~HasName(u, calls[r].call.name)
        /\ Answer(r, "no_user", None)
     \/ /\ Pending(r, "validate")
        /\ IF There(calls[r].call.key) THEN Answer(r, "valid", owner[calls[r].call.key])
           ELSE Answer(r, "invalid", None)
     \/ /\ Pending(r, "list")
        /\ Answer(r, "list", Of(calls[r].call.by, Conns))
     \/ /\ Pending(r, "update") \/ Pending(r, "delete")
        /\ LET c == calls[r].call
           IN IF There(c.conn) THEN owner[c.conn] # c.by /\ Answer(r, "denied", None)
              ELSE Answer(r, "not_found", None)
     \/ /\ Pending(r, "create")
        /\ calls[r].call.data = Malformed
        /\ Answer(r, "invalid_argument", None)
     \/ /\ Pending(r, "update")
        /\ calls[r].call.data = Malformed /\ calls[r].call.conn \in Of(calls[r].call.by, Conns)
        /\ Answer(r, "invalid_argument", None)

\* The answer is given, or the call fails before or after it took effect.
Return(r) ==
  /\ calls[r] # None
  /\ calls' = [calls EXCEPT ![r] = None]
  /\ UNCHANGED <<state, owner, data>>

RemoveUser(u) ==
  /\ There(u)
  /\ Remove({u} \cup Of(u, Rows))
  /\ UNCHANGED <<owner, data, calls>>

RNext ==
  \/ \E r \in Requests :
       \/ CreateUser(r) \/ CreateKey(r) \/ Revoke(r)
       \/ CreateConn(r) \/ UpdateConn(r) \/ DeleteConn(r)
       \/ Look(r) \/ Return(r)
  \/ \E u \in Users : RemoveUser(u)
  \/ \E r \in Requests, c \in Calls : Call(r, c)

RSpec == RInit /\ [][RNext]_rvars

=============================================================================
