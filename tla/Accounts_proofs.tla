--------------------------- MODULE Accounts_proofs ---------------------------
(***************************************************************************)
(* Proofs about Accounts, for any number of users, keys, connections and   *)
(* requests: its type invariant, and that what was answered holds.         *)
(***************************************************************************)
EXTENDS Accounts, TLAPS

Rows == Keys \cup Conns
Status == {"new", "there", "gone"}

(***************************************************************************)
(* What a request may rely on at each of its queries, although other       *)
(* requests change the tables in between: ids do not become new again,     *)
(* owners do not change, and users do not change their names.              *)
(***************************************************************************)

Met(c) ==
  /\ c.op \in {"revoke", "validate"} => state[c.key] # "new"
  /\ c.op \in {"update", "delete"} => state[c.conn] # "new"

Found(q) ==
  /\ q.at = "named" => /\ q.call.op \in {"create_key", "list_keys"}
                       /\ q.found \in Users
                       /\ NameOf[q.found] = q.call.name
                       /\ state[q.found] # "new"
  /\ q.at \in {"user", "stamp"} => q.call.op = "validate" /\ q.found \in Users
  /\ q.at = "owned" => /\ q.call.op \in {"update", "delete"}
                       /\ owner[q.call.conn] = q.call.by
                       /\ q.call.op = "update" => q.call.data \in Data

Holds(c, is, val) ==
  /\ c.op = "validate" /\ is = "valid" /\ There(c.key) => c.key \in used
  /\ c.op = "create_key" /\ is = "created" =>
       val \in Keys /\ state[val] # "new" /\ owner[val] \in Users /\ NameOf[owner[val]] = c.name
  /\ c.op = "delete" /\ is = "deleted" => ~There(c.conn)

Knows(q) ==
  /\ q.at = "answer" <=> q.reply # None
  /\ Met(q.call)
  /\ Found(q)
  /\ q.reply # None => Holds(q.call, q.reply.is, q.reply.val)

TablesOK ==
  /\ state \in [Users \cup Rows -> Status]
  /\ owner \in [Rows -> Users \cup {None}]
  /\ data \in [Conns -> Data \cup {None}]
  /\ used \subseteq Keys
  /\ \A u, v \in Users : There(u) /\ There(v) /\ NameOf[u] = NameOf[v] => u = v
  /\ \A x \in Rows : There(x) => owner[x] \in Users /\ There(owner[x])

IInv ==
  /\ TypeOK
  /\ \A r \in Requests, q \in Activations : req[r] = q => Knows(q)

\* No query undoes what another has found.
Evolves ==
  /\ \A x \in Users \cup Rows : state[x] # "new" =>
       state'[x] # "new" /\ (state'[x] = "there" => state[x] = "there")
  /\ \A x \in Rows : state[x] # "new" => owner'[x] = owner[x]
  /\ used \subseteq used'

-----------------------------------------------------------------------------

\* What a call names is of the right kind.
LEMMA CallFields ==
  ASSUME NEW c \in Calls
  PROVE  /\ c.op \in {"create_user", "create_key", "list_keys"} => c.name \in Names
         /\ c.op \in {"revoke", "validate"} => c.key \in Keys
         /\ c.op \in {"list", "create", "update", "delete"} => c.by \in Users
         /\ c.op \in {"update", "delete"} => c.conn \in Conns
         /\ c.op \in {"create", "update"} => c.data \in Data \cup {Malformed}
BY DEF Calls, R!Calls

\* What a request knows stays true while the tables evolve.
LEMMA KnowsPersists ==
  ASSUME TypeOK, Evolves, NEW q \in Activations, Knows(q)
  PROVE  Knows(q)'
<1>1. q.call \in Calls
  BY DEF Activations
<1>2. Met(q.call)'
  BY <1>1, CallFields DEF Knows, Met, Evolves, Rows
<1>3. Found(q)'
  BY <1>1, CallFields DEF Knows, Met, Found, Evolves, Rows
<1>4. q.reply # None => Holds(q.call, q.reply.is, q.reply.val)'
  BY <1>1, CallFields DEF Knows, Met, Holds, There, Evolves, Rows
<1>5. QED
  BY <1>2, <1>3, <1>4 DEF Knows

\* A step of one request keeps the invariant if the tables evolve and the request
\* knows what it has to.
LEMMA RequestInductive ==
  ASSUME IInv, TablesOK', Evolves, NEW r \in Requests, NEW q \in Activations \cup {None},
         req' = [req EXCEPT ![r] = q],
         q # None => Knows(q)'
  PROVE  IInv'
<1>0. TypeOK'
  BY DEF TypeOK, TablesOK, IInv, Rows, Status, There
<1> SUFFICES ASSUME NEW p \in Requests, NEW a \in Activations, req'[p] = a
             PROVE  Knows(a)'
  BY <1>0 DEF IInv
<1>1. CASE p = r
  BY <1>1, NoneAssumption DEF IInv, TypeOK
<1>2. CASE p # r
  BY <1>2, KnowsPersists DEF IInv, TypeOK
<1>3. QED
  BY <1>1, <1>2

\* The invariant holds before the first request, on an empty database.
THEOREM InitIInv == Init => IInv
BY NoneAssumption DEF Init, IInv, TypeOK, There

-----------------------------------------------------------------------------
(***************************************************************************)
(* Every step keeps the invariant.                                         *)
(***************************************************************************)

\* What the queries of a request rely on.
LEMMA QueryKnows ==
  ASSUME IInv, NEW r \in Requests, NEW ops, NEW at, Query(r, ops, at)
  PROVE  req[r] \in Activations /\ req[r].call \in Calls /\ Knows(req[r]) /\ req[r].call.op \in ops
         /\ req[r].at = at
BY DEF IInv, TypeOK, Query, Activations

\* Answers after which nothing is to be remembered: tables unchanged.
LEMMA EndsInductive ==
  ASSUME IInv, TablesOK', Evolves, NEW r \in Requests, NEW ops, NEW at, Query(r, ops, at),
         NEW c \in Calls, c = req[r].call,
         NEW is, NEW val, R!Reply(is, val) \in Replies, Ends(r, is, val), Holds(c, is, val)'
  PROVE  IInv'
<1>1. Knows(req[r])
  BY QueryKnows
<1>0. PICK reply \in Replies : reply = [is |-> is, val |-> val] /\ Becomes(r, c, "answer", None, reply)
  BY DEF Ends, R!Reply
<1>2. PICK q \in Activations : /\ req' = [req EXCEPT ![r] = q]
                               /\ q.call = c /\ q.at = "answer" /\ q.reply = reply
  <2> DEFINE q == [call |-> c, at |-> "answer", found |-> None, reply |-> reply]
  <2>1. q \in Activations
    BY <1>0 DEF Activations
  <2>2. QED
    BY <1>0, <2>1 DEF Becomes
<1>3. q.reply.is = is /\ q.reply.val = val /\ q.reply # None
  BY <1>0, <1>2, NoneAssumption
<1>4. Met(q.call)'
  BY <1>1, <1>2, CallFields DEF Met, Knows, Evolves, Rows
<1>5. Knows(q)'
  BY <1>2, <1>3, <1>4 DEF Knows, Found
<1>6. QED
  BY <1>2, <1>5, RequestInductive

\* The next query of a request.
LEMMA GoesOnInductive ==
  ASSUME IInv, TablesOK', Evolves, NEW r \in Requests, NEW ops, NEW at, Query(r, ops, at),
         NEW c \in Calls, c = req[r].call,
         NEW next \in {"named", "user", "stamp", "owned"}, NEW found \in Users \cup {None},
         GoesOn(r, next, found),
         \A q \in Activations : q.call = c /\ q.at = next /\ q.found = found => Found(q)'
  PROVE  IInv'
<1>1. Knows(req[r])
  BY QueryKnows
<1>2. PICK q \in Activations : /\ req' = [req EXCEPT ![r] = q]
                               /\ q.call = c /\ q.at = next /\ q.found = found /\ q.reply = None
  <2> DEFINE q == [call |-> c, at |-> next, found |-> found, reply |-> None]
  <2>1. q \in Activations
    BY DEF Activations
  <2>2. QED
    BY <2>1 DEF GoesOn, Becomes
<1>3. Met(q.call)'
  BY <1>1, <1>2, CallFields DEF Met, Knows, Evolves, Rows
<1>4. Knows(q)'
  BY <1>2, <1>3 DEF Knows
<1>5. QED
  BY <1>2, <1>4, RequestInductive

\* A request that is over knows nothing any more.
LEMMA OverInductive ==
  ASSUME IInv, TablesOK', Evolves, NEW r \in Requests, Over(r)
  PROVE  IInv'
BY RequestInductive DEF Over

-----------------------------------------------------------------------------
(***************************************************************************)
(* The tables.                                                             *)
(***************************************************************************)

\* Tables whose rows nobody touches evolve; keys may be stamped.
LEMMA NothingEvolves == ASSUME TypeOK, UNCHANGED <<state, owner, data>>, used' \in SUBSET Keys,
                               used \subseteq used'
                        PROVE  TablesOK' /\ Evolves
BY DEF TypeOK, TablesOK, Evolves, Rows, Status, There

\* A row is inserted under a fresh id for a user who is there.
LEMMA InsertEvolves ==
  ASSUME TypeOK, NEW x \in Rows, NEW u \in Users, Insert(x, u),
         data' \in [Conns -> Data \cup {None}], used' = used
  PROVE  TablesOK' /\ Evolves
<1> USE DEF TypeOK, Rows, Status, There
<1>1. /\ \A y \in Users \cup Rows : state'[y] = IF y = x THEN "there" ELSE state[y]
      /\ \A y \in Rows : owner'[y] = IF y = x THEN u ELSE owner[y]
      /\ state[x] = "new" /\ state[u] = "there" /\ x \notin Users
  BY RowsAssumption DEF Insert
<1>2. Evolves
  BY <1>1 DEF Evolves
<1>3. state' \in [Users \cup Rows -> Status] /\ owner' \in [Rows -> Users \cup {None}]
  BY DEF Insert
<1>4. \A v, w \in Users : There(v)' /\ There(w)' /\ NameOf[v] = NameOf[w] => v = w
  BY <1>1
<1>5. \A y \in Rows : There(y)' => owner'[y] \in Users /\ There(owner[y])'
  BY <1>1
<1>6. QED
  BY <1>2, <1>3, <1>4, <1>5 DEF TablesOK

\* A deleted row leaves no other row without its user.
LEMMA DeleteEvolves ==
  ASSUME TypeOK, NEW x \in Rows, Delete(x), UNCHANGED <<owner, data, used>>
  PROVE  TablesOK' /\ Evolves /\ ~There(x)'
<1> USE DEF TypeOK, Rows, Status, There
<1>1. \A y \in Users \cup Rows : state'[y] = IF y = x /\ state[x] = "there" THEN "gone" ELSE state[y]
  BY DEF Delete
<1>2. Evolves
  BY <1>1 DEF Evolves
<1>3. state' \in [Users \cup Rows -> Status]
  BY DEF Delete
<1>4. \A v, w \in Users : There(v)' /\ There(w)' /\ NameOf[v] = NameOf[w] => v = w
  BY <1>1
<1>5. \A y \in Rows : There(y)' => owner'[y] \in Users /\ There(owner[y])'
  BY <1>1, RowsAssumption
<1>6. QED
  BY <1>1, <1>2, <1>3, <1>4, <1>5 DEF TablesOK

\* A user is created only under a free name.
LEMMA UserEvolves ==
  ASSUME TypeOK, NEW u \in Users, state[u] = "new", state' = [state EXCEPT ![u] = "there"],
         \A v \in Users : There(v) => NameOf[v] # NameOf[u],
         UNCHANGED <<owner, data, used>>
  PROVE  TablesOK' /\ Evolves
<1> USE DEF TypeOK, Rows, Status, There
<1>1. \A y \in Users \cup Rows : state'[y] = IF y = u THEN "there" ELSE state[y]
  OBVIOUS
<1>2. Evolves
  BY <1>1 DEF Evolves
<1>3. \A v, w \in Users : There(v)' /\ There(w)' /\ NameOf[v] = NameOf[w] => v = w
  BY <1>1
<1>4. \A y \in Rows : There(y)' => owner'[y] \in Users /\ There(owner[y])'
  BY <1>1, RowsAssumption
<1>5. QED
  BY <1>1, <1>2, <1>3, <1>4 DEF TablesOK

\* With a user go the keys and connections that are theirs.
LEMMA DeleteUserEvolves ==
  ASSUME TypeOK, NEW u \in Users, DeleteUser(u)
  PROVE  TablesOK' /\ Evolves
<1> USE DEF TypeOK, Rows, Status, There
<1>1. \A y \in Users \cup Rows :
        state'[y] = IF state[y] = "there" /\ (y = u \/ (y \notin Users /\ owner[y] = u))
                    THEN "gone" ELSE state[y]
  BY DEF DeleteUser
<1>2. Evolves
  BY <1>1 DEF Evolves, DeleteUser
<1>3. state' \in [Users \cup Rows -> Status]
  BY DEF DeleteUser
<1>4. \A v, w \in Users : There(v)' /\ There(w)' /\ NameOf[v] = NameOf[w] => v = w
  BY <1>1
<1>5. \A y \in Rows : There(y)' => owner'[y] \in Users /\ There(owner[y])'
  BY <1>1, RowsAssumption DEF DeleteUser
<1>6. QED
  BY <1>2, <1>3, <1>4, <1>5 DEF TablesOK, DeleteUser

-----------------------------------------------------------------------------
(***************************************************************************)
(* The queries.                                                            *)
(***************************************************************************)

\* A query that only reads and answers, with something that stays true.
LEMMA LookInductive ==
  ASSUME IInv, NEW r \in Requests, NEW ops, NEW at, Query(r, ops, at), UNCHANGED tables,
         NEW is, NEW val, R!Reply(is, val) \in Replies, Ends(r, is, val),
         is \notin {"created", "deleted", "valid"}
  PROVE  IInv'
<1>1. PICK c \in Calls : c = req[r].call
  BY QueryKnows
<1>2. TablesOK' /\ Evolves
  BY NothingEvolves DEF IInv, TypeOK, tables
<1>3. Holds(c, is, val)'
  BY DEF Holds
<1>4. QED
  BY <1>1, <1>2, <1>3, EndsInductive

\* A call names only keys and connections that were there once.
LEMMA StartInductive ==
  ASSUME IInv, NEW r \in Requests, Start(r)
  PROVE  IInv'
<1>1. PICK c \in Calls : R!Known(c) /\ Becomes(r, c, "query", None, None) /\ UNCHANGED tables
  BY DEF Start
<1>2. TablesOK' /\ Evolves
  BY <1>1, NothingEvolves DEF IInv, TypeOK, tables
<1> DEFINE q == [call |-> c, at |-> "query", found |-> None, reply |-> None]
<1>3. q \in Activations /\ req' = [req EXCEPT ![r] = q]
  BY <1>1 DEF Activations, Becomes
<1>4. Knows(q)'
  BY <1>1, CallFields DEF Knows, Met, Found, R!Known, tables
<1>5. QED
  BY <1>2, <1>3, <1>4, RequestInductive

\* A failed or answered request leaves the tables alone.
LEMMA OverIsInductive ==
  ASSUME IInv, NEW r \in Requests, Over(r), UNCHANGED tables
  PROVE  IInv'
BY OverInductive, NothingEvolves DEF IInv, TypeOK, tables

\* INSERT INTO users, or the failure on a name taken.
LEMMA UserCreateInductive ==
  ASSUME IInv, NEW r \in Requests, UserCreate(r)
  PROVE  IInv'
<1>1. CASE Over(r) /\ UNCHANGED state
  BY <1>1, OverIsInductive DEF UserCreate, tables
<1>2. CASE \E u \in Users : /\ state[u] = "new" /\ NameOf[u] = req[r].call.name
                            /\ \A v \in Users : There(v) => NameOf[v] # req[r].call.name
                            /\ state' = [state EXCEPT ![u] = "there"]
                            /\ Ends(r, "created", u)
  <2>1. PICK u \in Users : /\ state[u] = "new" /\ Ends(r, "created", u)
                           /\ \A v \in Users : There(v) => NameOf[v] # NameOf[u]
                           /\ state' = [state EXCEPT ![u] = "there"]
    BY <1>2
  <2>2. TablesOK' /\ Evolves
    BY <2>1, UserEvolves DEF UserCreate, IInv
  <2>3. PICK c \in Calls : c = req[r].call /\ c.op = "create_user"
    BY QueryKnows DEF UserCreate
  <2>4. R!Reply("created", u) \in Replies
    BY DEF R!Reply, Replies
  <2>5. Holds(c, "created", u)'
    BY <2>3 DEF Holds
  <2>6. QED
    BY <2>1, <2>2, <2>3, <2>4, <2>5, EndsInductive DEF UserCreate
<1>3. QED
  BY <1>1, <1>2 DEF UserCreate

\* The user of the name is found, or answered not to be there.
LEMMA KeyFindUserInductive ==
  ASSUME IInv, NEW r \in Requests, KeyFindUser(r)
  PROVE  IInv'
<1>1. Query(r, {"create_key", "list_keys"}, "query") /\ UNCHANGED tables
  BY DEF KeyFindUser
<1>2. TablesOK' /\ Evolves
  BY <1>1, NothingEvolves DEF IInv, TypeOK, tables
<1>3. PICK c \in Calls : c = req[r].call /\ c.op \in {"create_key", "list_keys"}
  BY <1>1, QueryKnows
<1>4. CASE \E u \in Users : There(u) /\ NameOf[u] = req[r].call.name /\ GoesOn(r, "named", u)
  <2>1. PICK u \in Users : There(u) /\ NameOf[u] = c.name /\ GoesOn(r, "named", u)
    BY <1>3, <1>4
  <2>2. \A q \in Activations : q.call = c /\ q.at = "named" /\ q.found = u => Found(q)'
    BY <1>1, <1>3, <2>1 DEF Found, There, tables
  <2>3. QED
    BY <1>1, <1>2, <1>3, <2>1, <2>2, GoesOnInductive
<1>5. CASE Ends(r, "no_user", None)
  BY <1>1, <1>5, LookInductive DEF R!Reply, Replies
<1>6. QED
  BY <1>4, <1>5 DEF KeyFindUser

\* The key goes to the user found, unless the user was deleted since.
LEMMA KeyInsertInductive ==
  ASSUME IInv, NEW r \in Requests, KeyInsert(r)
  PROVE  IInv'
<1>1. PICK c \in Calls : c = req[r].call /\ c.op = "create_key"
  BY QueryKnows DEF KeyInsert
<1>2. PICK u \in Users : u = req[r].found /\ NameOf[u] = c.name
  BY <1>1, QueryKnows DEF KeyInsert, Knows, Found
<1>3. CASE \E k \in Keys : Insert(k, req[r].found) /\ Ends(r, "created", k)
  <2>1. PICK k \in Keys : Insert(k, u) /\ Ends(r, "created", k)
    BY <1>2, <1>3
  <2>2. TablesOK' /\ Evolves
    BY <2>1, InsertEvolves DEF KeyInsert, IInv, TypeOK, Rows
  <2>3. state'[k] = "there" /\ owner'[k] = u
    BY <2>1 DEF Insert, IInv, TypeOK
  <2>4. Holds(c, "created", k)'
    BY <1>1, <1>2, <2>3 DEF Holds
  <2>5. R!Reply("created", k) \in Replies
    BY DEF R!Reply, Replies
  <2>6. QED
    BY <1>1, <2>1, <2>2, <2>4, <2>5, EndsInductive DEF KeyInsert
<1>4. CASE Over(r) /\ UNCHANGED <<state, owner>>
  BY <1>4, OverIsInductive DEF KeyInsert, tables
<1>5. QED
  BY <1>3, <1>4 DEF KeyInsert

\* A list of rows of one table is a reply.
LEMMA ListReply ==
  ASSUME NEW S, S \in SUBSET Users \/ S \in SUBSET Keys \/ S \in SUBSET Conns
  PROVE  R!Reply("list", S) \in Replies
BY DEF R!Reply, Replies

\* The three lists read only.
LEMMA ListsInductive ==
  ASSUME IInv, NEW r \in Requests, UserList(r) \/ KeyList(r) \/ ConnList(r)
  PROVE  IInv'
<1>1. CASE UserList(r)
  <2>1. Query(r, {"list_users"}, "query") /\ UNCHANGED tables
    BY <1>1 DEF UserList
  <2>2. PICK S \in SUBSET Users : S = {u \in Users : There(u)}
    OBVIOUS
  <2>3. Ends(r, "list", S)
    BY <1>1, <2>2 DEF UserList
  <2>4. QED
    BY <2>1, <2>2, <2>3, ListReply, LookInductive
<1>2. CASE KeyList(r)
  <2>1. Query(r, {"list_keys"}, "named") /\ UNCHANGED tables
    BY <1>2 DEF KeyList
  <2>2. PICK S \in SUBSET Keys : S = {k \in Keys : There(k) /\ owner[k] = req[r].found}
    OBVIOUS
  <2>3. Ends(r, "list", S)
    BY <1>2, <2>2 DEF KeyList
  <2>4. R!Reply("list", S) \in Replies
    BY <2>2, ListReply
  <2>5. QED
    BY <2>1, <2>3, <2>4, LookInductive
<1>3. CASE ConnList(r)
  <2>1. Query(r, {"list"}, "query") /\ UNCHANGED tables
    BY <1>3 DEF ConnList
  <2>2. PICK S \in SUBSET Conns : S = {c \in Conns : There(c) /\ owner[c] = req[r].call.by}
    OBVIOUS
  <2>3. Ends(r, "list", S)
    BY <1>3, <2>2 DEF ConnList
  <2>4. R!Reply("list", S) \in Replies
    BY <2>2, ListReply
  <2>5. QED
    BY <2>1, <2>3, <2>4, LookInductive
<1>4. QED
  BY <1>1, <1>2, <1>3

\* A revoked key is deleted, found or not.
LEMMA KeyRevokeInductive ==
  ASSUME IInv, NEW r \in Requests, KeyRevoke(r)
  PROVE  IInv'
<1>1. PICK c \in Calls : c = req[r].call /\ c.op = "revoke" /\ c.key \in Keys
  BY QueryKnows, CallFields DEF KeyRevoke
<1>2. PICK is \in {"revoked", "not_found"} : Ends(r, is, None)
  BY DEF KeyRevoke
<1>3. TablesOK' /\ Evolves
  BY <1>1, DeleteEvolves DEF KeyRevoke, IInv, Rows
<1>4. R!Reply(is, None) \in Replies
  BY <1>2 DEF R!Reply, Replies
<1>5. Holds(c, is, None)'
  BY <1>1 DEF Holds
<1>6. QED
  BY <1>1, <1>2, <1>3, <1>4, <1>5, EndsInductive DEF KeyRevoke

\* The owner of a key there is remembered.
LEMMA ValidateKeyInductive ==
  ASSUME IInv, NEW r \in Requests, ValidateKey(r)
  PROVE  IInv'
<1>1. Query(r, {"validate"}, "query") /\ UNCHANGED tables
  BY DEF ValidateKey
<1>2. PICK c \in Calls : c = req[r].call /\ c.op = "validate" /\ c.key \in Keys
  BY <1>1, QueryKnows, CallFields
<1>3. TablesOK' /\ Evolves
  BY <1>1, NothingEvolves DEF IInv, TypeOK, tables
<1>4. CASE There(c.key)
  <2>1. PICK u \in Users : u = owner[c.key] /\ GoesOn(r, "user", u)
    BY <1>2, <1>4 DEF ValidateKey, IInv, TypeOK
  <2>2. \A q \in Activations : q.call = c /\ q.at = "user" /\ q.found = u => Found(q)'
    BY <1>2 DEF Found
  <2>3. QED
    BY <1>1, <1>2, <1>3, <2>1, <2>2, GoesOnInductive
<1>5. CASE ~There(c.key)
  <2>1. Ends(r, "invalid", None)
    BY <1>2, <1>5 DEF ValidateKey
  <2>2. R!Reply("invalid", None) \in Replies
    BY DEF R!Reply, Replies
  <2>3. QED
    BY <1>1, <2>1, <2>2, LookInductive
<1>6. QED
  BY <1>4, <1>5

\* The user of the key is looked up after the key.
LEMMA ValidateUserInductive ==
  ASSUME IInv, NEW r \in Requests, ValidateUser(r)
  PROVE  IInv'
<1>1. Query(r, {"validate"}, "user") /\ UNCHANGED tables
  BY DEF ValidateUser
<1>2. PICK c \in Calls : c = req[r].call /\ c.op = "validate"
  BY <1>1, QueryKnows
<1>3. PICK u \in Users : u = req[r].found
  BY <1>1, QueryKnows DEF Knows, Found
<1>4. CASE GoesOn(r, "stamp", u)
  <2>1. TablesOK' /\ Evolves
    BY <1>1, NothingEvolves DEF IInv, TypeOK, tables
  <2>2. \A q \in Activations : q.call = c /\ q.at = "stamp" /\ q.found = u => Found(q)'
    BY <1>2 DEF Found
  <2>3. QED
    BY <1>1, <1>2, <1>4, <2>1, <2>2, GoesOnInductive
<1>5. CASE Over(r)
  BY <1>1, <1>5, OverIsInductive
<1>6. QED
  BY <1>3, <1>4, <1>5 DEF ValidateUser

\* A validation is answered after its key is stamped, if it is there still.
LEMMA ValidateStampInductive ==
  ASSUME IInv, NEW r \in Requests, ValidateStamp(r)
  PROVE  IInv'
<1>1. Query(r, {"validate"}, "stamp") /\ UNCHANGED <<state, owner, data>>
  BY DEF ValidateStamp
<1>2. PICK c \in Calls : c = req[r].call /\ c.op = "validate" /\ c.key \in Keys
  BY <1>1, QueryKnows, CallFields
<1>3. PICK u \in Users : u = req[r].found
  BY <1>1, QueryKnows DEF Knows, Found
<1>4. used' = IF There(c.key) THEN used \cup {c.key} ELSE used
  BY <1>2 DEF ValidateStamp
<1>5. TablesOK' /\ Evolves
  BY <1>1, <1>2, <1>4, NothingEvolves DEF IInv, TypeOK
<1>6. Ends(r, "valid", u) /\ R!Reply("valid", u) \in Replies
  BY <1>3 DEF ValidateStamp, R!Reply, Replies
<1>7. Holds(c, "valid", u)'
  BY <1>1, <1>2, <1>4 DEF Holds, There
<1>8. QED
  BY <1>1, <1>2, <1>5, <1>6, <1>7, EndsInductive

\* A connection belongs to the user who asks for it.
LEMMA ConnCreateInductive ==
  ASSUME IInv, NEW r \in Requests, ConnCreate(r)
  PROVE  IInv'
<1>1. Query(r, {"create"}, "query")
  BY DEF ConnCreate
<1>2. PICK c \in Calls : /\ c = req[r].call /\ c.op = "create"
                         /\ c.by \in Users /\ c.data \in Data \cup {Malformed}
  BY <1>1, QueryKnows, CallFields
<1>3. CASE Ends(r, "invalid_argument", None) /\ UNCHANGED tables
  <2>1. R!Reply("invalid_argument", None) \in Replies
    BY DEF R!Reply, Replies
  <2>2. QED
    BY <1>1, <1>3, <2>1, LookInductive
<1>4. CASE Over(r) /\ UNCHANGED tables
  BY <1>4, OverIsInductive
<1>5. CASE /\ c.data # Malformed /\ UNCHANGED used
           /\ \E x \in Conns : /\ Insert(x, c.by) /\ data' = [data EXCEPT ![x] = c.data]
                                /\ Ends(r, "created", x)
  <2>1. PICK x \in Conns : /\ Insert(x, c.by) /\ data' = [data EXCEPT ![x] = c.data]
                           /\ Ends(r, "created", x)
    BY <1>5
  <2>2. TablesOK' /\ Evolves
    BY <1>2, <1>5, <2>1, InsertEvolves DEF IInv, TypeOK, Rows
  <2>3. R!Reply("created", x) \in Replies
    BY DEF R!Reply, Replies
  <2>4. Holds(c, "created", x)'
    BY <1>2 DEF Holds
  <2>5. QED
    BY <1>1, <1>2, <2>1, <2>2, <2>3, <2>4, EndsInductive
<1>6. QED
  BY <1>2, <1>3, <1>4, <1>5 DEF ConnCreate

\* A connection is found owned by the user who asks, or refused.
LEMMA ConnFindInductive ==
  ASSUME IInv, NEW r \in Requests, ConnFind(r)
  PROVE  IInv'
<1>1. Query(r, {"update", "delete"}, "query") /\ UNCHANGED tables
  BY DEF ConnFind
<1>2. PICK c \in Calls : /\ c = req[r].call /\ c.op \in {"update", "delete"}
                         /\ c.op = "update" => c.data \in Data \cup {Malformed}
  BY <1>1, QueryKnows, CallFields
<1>3. CASE \E is \in {"not_found", "denied", "invalid_argument"} : Ends(r, is, None)
  <2>1. PICK is \in {"not_found", "denied", "invalid_argument"} : Ends(r, is, None)
    BY <1>3
  <2>2. R!Reply(is, None) \in Replies
    BY DEF R!Reply, Replies
  <2>3. QED
    BY <1>1, <2>1, <2>2, LookInductive
<1>4. CASE /\ owner[c.conn] = c.by /\ (c.op = "update" => c.data # Malformed)
           /\ GoesOn(r, "owned", None)
  <2>1. TablesOK' /\ Evolves
    BY <1>1, NothingEvolves DEF IInv, TypeOK, tables
  <2>2. \A q \in Activations : q.call = c /\ q.at = "owned" /\ q.found = None => Found(q)'
    BY <1>1, <1>2, <1>4 DEF Found, tables
  <2>3. QED
    BY <1>1, <1>2, <1>4, <2>1, <2>2, GoesOnInductive
<1>5. QED
  BY <1>2, <1>3, <1>4 DEF ConnFind

\* The update writes to the connection found, if it is there still.
LEMMA ConnUpdateInductive ==
  ASSUME IInv, NEW r \in Requests, ConnUpdate(r)
  PROVE  IInv'
<1>1. Query(r, {"update"}, "owned") /\ UNCHANGED <<state, owner, used>>
  BY DEF ConnUpdate
<1>2. PICK c \in Calls : c = req[r].call /\ c.op = "update" /\ c.conn \in Conns
  BY <1>1, QueryKnows, CallFields
<1>3. c.data \in Data
  BY <1>1, <1>2, QueryKnows DEF Knows, Found
<1>4. data' = IF There(c.conn) THEN [data EXCEPT ![c.conn] = c.data] ELSE data
  BY <1>2 DEF ConnUpdate
<1>5. TablesOK' /\ Evolves
  BY <1>1, <1>3, <1>4 DEF IInv, TypeOK, TablesOK, Evolves, Rows, Status, There
<1>6. PICK is \in {"updated", "not_found"} : Ends(r, is, None)
  BY DEF ConnUpdate
<1>7. R!Reply(is, None) \in Replies
  BY DEF R!Reply, Replies
<1>8. Holds(c, is, None)'
  BY <1>2 DEF Holds
<1>9. QED
  BY <1>1, <1>2, <1>5, <1>6, <1>7, <1>8, EndsInductive

\* A connection answered deleted stays away.
LEMMA ConnDeleteInductive ==
  ASSUME IInv, NEW r \in Requests, ConnDelete(r)
  PROVE  IInv'
<1>1. Query(r, {"delete"}, "owned") /\ UNCHANGED <<owner, data, used>>
  BY DEF ConnDelete
<1>2. PICK c \in Calls : c = req[r].call /\ c.op = "delete" /\ c.conn \in Conns
  BY <1>1, QueryKnows, CallFields
<1>3. Delete(c.conn) /\ Ends(r, "deleted", None)
  BY <1>2 DEF ConnDelete
<1>4. TablesOK' /\ Evolves /\ ~There(c.conn)'
  BY <1>1, <1>2, <1>3, DeleteEvolves DEF IInv, Rows
<1>5. R!Reply("deleted", None) \in Replies
  BY DEF R!Reply, Replies
<1>6. Holds(c, "deleted", None)'
  BY <1>2, <1>4 DEF Holds
<1>7. QED
  BY <1>1, <1>2, <1>3, <1>4, <1>5, <1>6, EndsInductive

\* Nothing a request knows is about the presence of a user.
LEMMA DeleteUserInductive ==
  ASSUME IInv, NEW u \in Users, DeleteUser(u)
  PROVE  IInv'
<1>1. TablesOK' /\ Evolves /\ req' = req
  BY DeleteUserEvolves DEF IInv, DeleteUser
<1>2. TypeOK'
  BY <1>1 DEF TypeOK, TablesOK, IInv, Rows, Status, There
<1>3. QED
  BY <1>1, <1>2, KnowsPersists DEF IInv

\* Every step keeps the invariant.
LEMMA NextInductive ==
  ASSUME IInv, [Next]_vars
  PROVE  IInv'
<1>1. ASSUME NEW r \in Requests, Fails(r) \/ Answered(r)
      PROVE  IInv'
  BY <1>1, OverIsInductive DEF Fails, Answered
<1>2. ASSUME NEW r \in Requests, UserCreate(r) \/ KeyFindUser(r) \/ KeyInsert(r) \/ KeyRevoke(r)
      PROVE  IInv'
  BY <1>2, UserCreateInductive, KeyFindUserInductive, KeyInsertInductive, KeyRevokeInductive
<1>3. ASSUME NEW r \in Requests, ValidateKey(r) \/ ValidateUser(r) \/ ValidateStamp(r)
      PROVE  IInv'
  BY <1>3, ValidateKeyInductive, ValidateUserInductive, ValidateStampInductive
<1>4. ASSUME NEW r \in Requests, ConnCreate(r) \/ ConnFind(r) \/ ConnUpdate(r) \/ ConnDelete(r)
      PROVE  IInv'
  BY <1>4, ConnCreateInductive, ConnFindInductive, ConnUpdateInductive, ConnDeleteInductive
<1>5. CASE UNCHANGED vars
  BY <1>5 DEF vars, tables, IInv, TypeOK, There, Knows, Met, Found, Holds
<1>6. QED
  BY <1>1, <1>2, <1>3, <1>4, <1>5, StartInductive, ListsInductive, DeleteUserInductive DEF Next

\* Every request knows at each of its queries what it has to.
THEOREM Inductive == Spec => []IInv
<1>1. IInv /\ [Next]_vars => IInv'
  BY NextInductive
<1>2. QED
  BY InitIInv, <1>1, PTL DEF Spec

\* Tables and requests keep their types, two users never have the same name, and
\* no key or connection outlives its user.
THEOREM TypeCorrect == Spec => []TypeOK
<1>1. IInv => TypeOK
  BY DEF IInv
<1>2. QED
  BY Inductive, <1>1, PTL

\* What was answered holds: a key answered valid that is still there is stamped, a
\* key answered created is that of the user asked for, and a connection answered
\* deleted is not there.
THEOREM AnswersHoldHolds == Spec => []AnswersHold
<1>1. ASSUME IInv
      PROVE  AnswersHold
  <2> SUFFICES ASSUME NEW r \in Requests, req[r] # None, req[r].reply # None
               PROVE  Holds(req[r].call, req[r].reply.is, req[r].reply.val)
    BY <1>1 DEF AnswersHold, Told, Holds, IInv, TypeOK
  <2>1. PICK q \in Activations : q = req[r]
    BY <1>1 DEF IInv, TypeOK
  <2>2. QED
    BY <1>1, <2>1 DEF IInv, Knows
<1>2. QED
  BY Inductive, <1>1, PTL

-----------------------------------------------------------------------------
(***************************************************************************)
(* Every query is a step of Registry or none.  View is what Called says of *)
(* one request.                                                            *)
(***************************************************************************)

View(q) ==
  IF q = None THEN None
  ELSE [call |-> q.call,
        reply |-> IF q.at \in {"user", "stamp"} THEN R!Reply("valid", q.found) ELSE q.reply]

\* What becomes of one request becomes of its call.
LEMMA CalledView ==
  ASSUME TypeOK, NEW r \in Requests, NEW q \in Activations \cup {None}, req' = [req EXCEPT ![r] = q]
  PROVE  /\ Called' = [Called EXCEPT ![r] = View(q)]
         /\ Called[r] = View(req[r])
<1>1. Called = [p \in Requests |-> View(req[p])]
  BY DEF Called, View, R!Reply
<1>2. Called' = [p \in Requests |-> View(req'[p])]
  BY DEF Called, View, R!Reply
<1>3. \A p \in Requests : req'[p] = IF p = r THEN q ELSE req[p]
  BY DEF TypeOK
<1>4. QED
  BY <1>1, <1>2, <1>3

\* A request before its last query is pending.
LEMMA QueryPending ==
  ASSUME IInv, NEW r \in Requests, NEW ops, NEW at \in {"query", "named", "owned"}, Query(r, ops, at)
  PROVE  /\ Called[r] = [call |-> req[r].call, reply |-> None]
         /\ Called[r] # None /\ Called[r].call = req[r].call /\ Called[r].reply = None
         /\ req[r].call \in Calls /\ req[r].call.op \in ops
<1>1. req[r] \in Activations /\ Knows(req[r]) /\ req[r].at = at
  BY QueryKnows
<1>2. req[r] # None /\ req[r].reply = None
  BY <1>1 DEF Knows, Query
<1>3. req[r].call \in Calls /\ req[r].call.op \in ops
  BY <1>1 DEF Activations, Query
<1>4. Called[r] = [call |-> req[r].call, reply |-> None]
  BY <1>1, <1>2 DEF Called
<1>5. Called[r] \in [call: Calls, reply: Replies \cup {None}]
  BY <1>3, <1>4
<1>6. Called[r].call = req[r].call /\ Called[r].reply = None
  BY <1>4
<1>7. QED
  BY <1>3, <1>4, <1>5, <1>6, NoneAssumption

\* A request at a query has the call of that query, and has not taken effect.
LEMMA PendingOp ==
  ASSUME IInv, NEW r \in Requests, NEW op, NEW at \in {"query", "named", "owned"}, Query(r, {op}, at)
  PROVE  /\ R!Pending(r, op)
         /\ Called[r].call = req[r].call
         /\ req[r].call \in Calls /\ req[r].call.op = op
<1>1. /\ Called[r] = [call |-> req[r].call, reply |-> None]
      /\ Called[r] # None
      /\ req[r].call \in Calls /\ req[r].call.op \in {op}
  BY QueryPending
<1>2. Called[r].call = req[r].call /\ Called[r].reply = None
  BY <1>1
<1>3. QED
  BY <1>1, <1>2 DEF R!Pending

\* Its answer is the one of the registry.
LEMMA EndsAnswers ==
  ASSUME IInv, NEW r \in Requests, NEW ops, NEW at \in {"query", "named", "owned"}, Query(r, ops, at),
         NEW is, NEW val, R!Reply(is, val) \in Replies, Ends(r, is, val)
  PROVE  R!Answer(r, is, val)
<1>1. PICK reply \in Replies : reply = R!Reply(is, val)
  OBVIOUS
<1>2. PICK c \in Calls : c = req[r].call
  BY QueryPending
<1>3. PICK q \in Activations : q = [call |-> c, at |-> "answer", found |-> None, reply |-> reply]
  BY DEF Activations
<1>4. req' = [req EXCEPT ![r] = q] /\ View(q) = [call |-> c, reply |-> reply]
  BY <1>1, <1>2, <1>3, NoneAssumption DEF Becomes, Ends, View
<1>5. Called' = [Called EXCEPT ![r] = [call |-> c, reply |-> reply]]
  <2>1. TypeOK /\ q \in Activations \cup {None}
    BY DEF IInv
  <2>2. Called' = [Called EXCEPT ![r] = View(q)]
    BY <1>4, <2>1, CalledView
  <2>3. QED
    BY <1>4, <2>2
<1>6. Called[r] = [call |-> c, reply |-> None]
  BY <1>2, QueryPending
<1>7. [Called[r] EXCEPT !.reply = reply] = [call |-> c, reply |-> reply]
  BY <1>6
<1>8. QED
  BY <1>1, <1>5, <1>7 DEF R!Answer

\* A request that goes on without an answer, and without one that is certain, is
\* where it was for the registry.
LEMMA GoesOnStutters ==
  ASSUME IInv, NEW r \in Requests, NEW ops, NEW at \in {"query", "named", "owned"}, Query(r, ops, at),
         NEW to \in {"named", "owned"}, NEW found \in Users \cup {None}, GoesOn(r, to, found)
  PROVE  Called' = Called
<1>1. PICK c \in Calls : c = req[r].call
  BY QueryPending
<1>2. PICK q \in Activations : q = [call |-> c, at |-> to, found |-> found, reply |-> None]
  BY DEF Activations
<1>3. req' = [req EXCEPT ![r] = q] /\ View(q) = [call |-> c, reply |-> None]
  BY <1>1, <1>2, NoneAssumption DEF Becomes, GoesOn, View
<1>4. Called' = [Called EXCEPT ![r] = [call |-> c, reply |-> None]]
  <2>1. TypeOK /\ q \in Activations \cup {None}
    BY DEF IInv
  <2>2. Called' = [Called EXCEPT ![r] = View(q)]
    BY <1>3, <2>1, CalledView
  <2>3. QED
    BY <1>3, <2>2
<1>5. Called[r] = [call |-> c, reply |-> None]
  BY <1>1, QueryPending
<1>6. Called = [p \in Requests |-> Called[p]]
  BY DEF Called
<1>7. QED
  BY <1>4, <1>5, <1>6

\* A request that is over has returned.
LEMMA OverReturns ==
  ASSUME IInv, NEW r \in Requests, req[r] # None, Over(r), UNCHANGED <<state, owner, data>>
  PROVE  R!Return(r)
<1>1. Called' = [Called EXCEPT ![r] = None] /\ Called[r] = View(req[r])
  BY CalledView DEF Over, View, IInv
<1>2. PICK q \in Activations : q = req[r]
  BY DEF IInv, TypeOK
<1>3. q.call \in Calls /\ q.reply \in Replies \cup {None}
  BY DEF Activations
<1>4. q.at \in {"user", "stamp"} => R!Reply("valid", q.found) \in Replies
  BY <1>2 DEF IInv, Knows, Found, Replies, R!Reply
<1>5. Called[r] \in [call: Calls, reply: Replies \cup {None}]
  BY <1>1, <1>2, <1>3, <1>4 DEF View
<1>6. QED
  BY <1>1, <1>5, NoneAssumption DEF R!Return

-----------------------------------------------------------------------------
(***************************************************************************)
(* The calls that change a table take effect with their last query.        *)
(***************************************************************************)

\* The answers there are.
LEMMA ReplyTypes ==
  /\ \A is \in {"no_user", "revoked", "not_found", "invalid", "invalid_argument",
                "denied", "updated", "deleted"} : R!Reply(is, None) \in Replies
  /\ \A x \in Users \cup Keys \cup Conns : R!Reply("created", x) \in Replies
  /\ \A u \in Users : R!Reply("valid", u) \in Replies
BY DEF Replies, R!Reply

\* A request that begins is a call of the registry.
LEMMA StartMaps ==
  ASSUME IInv, NEW r \in Requests, Start(r)
  PROVE  \E c \in Calls : R!Call(r, c)
<1>1. PICK c \in Calls : R!Known(c) /\ Becomes(r, c, "query", None, None)
  BY DEF Start
<1>2. PICK q \in Activations : q = [call |-> c, at |-> "query", found |-> None, reply |-> None]
  BY DEF Activations
<1>3. req' = [req EXCEPT ![r] = q] /\ View(q) = [call |-> c, reply |-> None]
  BY <1>1, <1>2, NoneAssumption DEF Becomes, View
<1>4. TypeOK /\ q \in Activations \cup {None}
  BY DEF IInv
<1>5. Called' = [Called EXCEPT ![r] = View(q)] /\ Called[r] = View(req[r])
  BY <1>3, <1>4, CalledView
<1>6. QED
  BY <1>1, <1>3, <1>5 DEF R!Call, Start, View, tables

\* A user is created.
LEMMA UserCreateMaps ==
  ASSUME IInv, NEW r \in Requests, UserCreate(r)
  PROVE  R!CreateUser(r) \/ R!Return(r)
<1>1. Query(r, {"create_user"}, "query") /\ UNCHANGED <<owner, data>>
  BY DEF UserCreate
<1>2. CASE Over(r) /\ UNCHANGED state
  BY <1>1, <1>2, OverReturns DEF Query
<1>3. CASE /\ \A u \in Users : There(u) => NameOf[u] # req[r].call.name
           /\ \E u \in Users : /\ state[u] = "new" /\ NameOf[u] = req[r].call.name
                               /\ state' = [state EXCEPT ![u] = "there"]
                               /\ Ends(r, "created", u)
  <2>1. PICK u \in Users : /\ state[u] = "new" /\ NameOf[u] = req[r].call.name
                           /\ state' = [state EXCEPT ![u] = "there"]
                           /\ Ends(r, "created", u)
    BY <1>3
  <2>2. R!Answer(r, "created", u)
    BY <1>1, <2>1, ReplyTypes, EndsAnswers
  <2>3. R!Pending(r, "create_user") /\ Called[r].call = req[r].call
    BY <1>1, PendingOp
  <2>4. QED
    BY <1>1, <1>3, <2>1, <2>2, <2>3 DEF R!CreateUser, R!HasName, R!There, There
<1>4. QED
  BY <1>2, <1>3 DEF UserCreate

\* A key is created for the user found, if the user is there still.
LEMMA KeyInsertMaps ==
  ASSUME IInv, NEW r \in Requests, KeyInsert(r)
  PROVE  R!CreateKey(r) \/ R!Return(r)
<1>1. Query(r, {"create_key"}, "named") /\ UNCHANGED data
  BY DEF KeyInsert
<1>2. CASE Over(r) /\ UNCHANGED <<state, owner>>
  BY <1>1, <1>2, OverReturns DEF Query
<1>3. CASE \E k \in Keys : Insert(k, req[r].found) /\ Ends(r, "created", k)
  <2>1. PICK k \in Keys : Insert(k, req[r].found) /\ Ends(r, "created", k)
    BY <1>3
  <2>2. R!Answer(r, "created", k)
    BY <1>1, <2>1, ReplyTypes, EndsAnswers
  <2>3. R!Pending(r, "create_key") /\ Called[r].call = req[r].call
    BY <1>1, PendingOp
  <2>4. req[r].found \in Users /\ NameOf[req[r].found] = req[r].call.name
    BY <1>1, QueryKnows DEF Knows, Found
  <2>5. R!HasName(req[r].found, req[r].call.name) /\ R!Add(k, req[r].found)
    BY <2>1, <2>4 DEF Insert, There, R!HasName, R!There, R!Add
  <2>6. QED
    BY <1>1, <2>2, <2>3, <2>4, <2>5 DEF R!CreateKey
<1>4. QED
  BY <1>1, <1>2, <1>3 DEF KeyInsert

\* DELETE ... WHERE of one row, and of a user with the rows that go along.
LEMMA DeleteRemoves ==
  ASSUME TypeOK, NEW x \in Rows, Delete(x)
  PROVE  R!Remove({x})
<1>1. state = [y \in DOMAIN state |-> state[y]] /\ x \in DOMAIN state
  BY DEF TypeOK, Rows
<1>2. QED
  BY <1>1 DEF Delete, R!Remove, R!There, There

\* The revocation of a key takes effect with its one query.
LEMMA KeyRevokeMaps ==
  ASSUME IInv, NEW r \in Requests, KeyRevoke(r)
  PROVE  R!Revoke(r)
<1> DEFINE k == req[r].call.key
<1>1. Query(r, {"revoke"}, "query") /\ UNCHANGED <<owner, data>> /\ Delete(k)
  BY DEF KeyRevoke
<1>2. req[r].call \in Calls /\ req[r].call.op = "revoke"
  BY <1>1, PendingOp
<1>3. k \in Keys
  BY <1>2, CallFields
<1>4. R!Remove({k})
  BY <1>1, <1>3, DeleteRemoves DEF IInv, Rows
<1>5. R!Answer(r, IF There(k) THEN "revoked" ELSE "not_found", None)
  <2>1. CASE There(k)
    BY <1>1, <2>1, ReplyTypes, EndsAnswers DEF KeyRevoke
  <2>2. CASE ~There(k)
    BY <1>1, <2>2, ReplyTypes, EndsAnswers DEF KeyRevoke
  <2>3. QED
    BY <2>1, <2>2
<1>6. R!Pending(r, "revoke") /\ Called[r].call = req[r].call
  BY <1>1, PendingOp
<1>7. QED
  BY <1>1, <1>4, <1>5, <1>6 DEF R!Revoke, R!There, There

\* So does the creation of a connection.
LEMMA ConnCreateMaps ==
  ASSUME IInv, NEW r \in Requests, ConnCreate(r)
  PROVE  R!CreateConn(r) \/ R!Look(r) \/ R!Return(r)
<1> DEFINE d == req[r].call.data
           u == req[r].call.by
<1>1. Query(r, {"create"}, "query")
  BY DEF ConnCreate
<1>2. R!Pending(r, "create") /\ Called[r].call = req[r].call
  BY <1>1, PendingOp
<1>3. CASE d = Malformed /\ Ends(r, "invalid_argument", None) /\ UNCHANGED tables
  <2>1. R!Answer(r, "invalid_argument", None)
    BY <1>1, <1>3, ReplyTypes, EndsAnswers
  <2>2. QED
    BY <1>2, <1>3, <2>1 DEF R!Look, tables
<1>4. CASE Over(r) /\ UNCHANGED tables
  BY <1>1, <1>4, OverReturns DEF Query, tables
<1>5. CASE /\ d # Malformed
           /\ \E c \in Conns : /\ Insert(c, u)
                               /\ data' = [data EXCEPT ![c] = d]
                               /\ Ends(r, "created", c)
  <2>1. PICK c \in Conns : Insert(c, u) /\ data' = [data EXCEPT ![c] = d] /\ Ends(r, "created", c)
    BY <1>5
  <2>2. R!Answer(r, "created", c)
    BY <1>1, <2>1, ReplyTypes, EndsAnswers
  <2>3. d \in Data
    BY <1>1, <1>5, PendingOp, CallFields
  <2>4. R!There(u) /\ R!Add(c, u)
    BY <2>1 DEF Insert, There, R!There, R!Add
  <2>5. QED
    BY <1>2, <2>1, <2>2, <2>3, <2>4 DEF R!CreateConn
<1>6. QED
  BY <1>3, <1>4, <1>5 DEF ConnCreate

\* The owner was checked a query ago, and is the owner still.
LEMMA ConnUpdateMaps ==
  ASSUME IInv, NEW r \in Requests, ConnUpdate(r)
  PROVE  R!UpdateConn(r) \/ R!Look(r)
<1> DEFINE c == req[r].call
<1>1. Query(r, {"update"}, "owned") /\ UNCHANGED <<state, owner>>
  BY DEF ConnUpdate
<1>2. R!Pending(r, "update") /\ Called[r].call = c
  BY <1>1, PendingOp
<1>3. c \in Calls /\ c.op = "update"
  BY <1>1, PendingOp
<1>4. c.conn \in Conns /\ owner[c.conn] = c.by /\ c.data \in Data
  BY <1>1, <1>3, CallFields, QueryKnows DEF Knows, Found
<1>5. CASE There(c.conn)
  <2>1. R!Answer(r, "updated", None)
    BY <1>1, <1>5, ReplyTypes, EndsAnswers DEF ConnUpdate
  <2>2. c.conn \in R!Of(c.by, Conns)
    BY <1>4, <1>5 DEF R!Of, R!There, There
  <2>3. QED
    BY <1>1, <1>2, <1>4, <1>5, <2>1, <2>2 DEF R!UpdateConn, ConnUpdate
<1>6. CASE ~There(c.conn)
  <2>1. R!Answer(r, "not_found", None) /\ UNCHANGED data
    BY <1>1, <1>6, ReplyTypes, EndsAnswers DEF ConnUpdate
  <2>2. QED
    BY <1>1, <1>2, <1>6, <2>1 DEF R!Look, R!There, There
<1>7. QED
  BY <1>5, <1>6

\* A deletion takes effect with its second query, if the row is still there.
LEMMA ConnDeleteMaps ==
  ASSUME IInv, NEW r \in Requests, ConnDelete(r)
  PROVE  R!DeleteConn(r)
<1> DEFINE c == req[r].call
<1>1. Query(r, {"delete"}, "owned") /\ UNCHANGED <<owner, data>> /\ Delete(c.conn)
  BY DEF ConnDelete
<1>2. R!Pending(r, "delete") /\ Called[r].call = c
  BY <1>1, PendingOp
<1>3. c \in Calls /\ c.op = "delete"
  BY <1>1, PendingOp
<1>4. c.conn \in Conns /\ owner[c.conn] = c.by
  BY <1>1, <1>3, CallFields, QueryKnows DEF Knows, Found
<1>5. R!Remove({c.conn})
  BY <1>1, <1>4, DeleteRemoves DEF IInv, Rows
<1>6. R!Answer(r, "deleted", None)
  BY <1>1, ReplyTypes, EndsAnswers DEF ConnDelete
<1>7. QED
  BY <1>1, <1>2, <1>4, <1>5, <1>6 DEF R!DeleteConn

\* The cascade takes what belongs to the user.
LEMMA DeleteUserMaps ==
  ASSUME IInv, NEW u \in Users, DeleteUser(u)
  PROVE  R!RemoveUser(u)
<1>1. DOMAIN state = Users \cup Rows
  BY DEF IInv, TypeOK, Rows
<1>2. \A x \in DOMAIN state :
         There(x) => (x = u \/ (x \notin Users /\ owner[x] = u)
                      <=> x \in {u} \cup R!Of(u, Rows))
  BY <1>1, RowsAssumption DEF R!Of, R!There, There, Rows
<1>3. R!Remove({u} \cup R!Of(u, Rows))
  BY <1>2 DEF DeleteUser, R!Remove, R!There, There
<1>4. R!Rows = Rows /\ Called' = Called
  BY DEF R!Rows, Rows, DeleteUser, Called
<1>5. QED
  BY <1>3, <1>4 DEF R!RemoveUser, DeleteUser, R!There, There

-----------------------------------------------------------------------------
(***************************************************************************)
(* The queries that only read: the answer is that of the moment, or is not *)
(* known yet.                                                              *)
(***************************************************************************)

\* The lists change nothing.
LEMMA ListsMap ==
  ASSUME IInv, NEW r \in Requests, UserList(r) \/ KeyList(r) \/ ConnList(r)
  PROVE  R!Look(r)
<1>1. CASE UserList(r)
  <2>1. Query(r, {"list_users"}, "query") /\ Ends(r, "list", {u \in Users : There(u)}) /\ UNCHANGED tables
    BY <1>1 DEF UserList
  <2>2. R!Answer(r, "list", {u \in Users : There(u)})
    BY <2>1, ListReply, EndsAnswers
  <2>3. R!Pending(r, "list_users")
    BY <2>1, PendingOp
  <2>4. QED
    BY <2>1, <2>2, <2>3 DEF R!Look, R!There, There, tables
<1>2. CASE KeyList(r)
  <2> DEFINE u == req[r].found
  <2>1. Query(r, {"list_keys"}, "named") /\ Ends(r, "list", {k \in Keys : There(k) /\ owner[k] = u})
        /\ UNCHANGED tables
    BY <1>2 DEF KeyList
  <2>2. R!Answer(r, "list", {k \in Keys : There(k) /\ owner[k] = u})
    BY <2>1, ListReply, EndsAnswers
  <2>3. R!Pending(r, "list_keys") /\ Called[r].call = req[r].call
    BY <2>1, PendingOp
  <2>4. u \in Users /\ NameOf[u] = req[r].call.name /\ state[u] # "new"
    BY <2>1, QueryKnows DEF Knows, Found
  <2>5. R!Of(u, Keys) = {k \in Keys : There(k) /\ owner[k] = u}
    BY DEF R!Of, R!There, There
  <2>6. QED
    BY <2>1, <2>2, <2>3, <2>4, <2>5 DEF R!Look, tables
<1>3. CASE ConnList(r)
  <2> DEFINE u == req[r].call.by
  <2>1. Query(r, {"list"}, "query") /\ Ends(r, "list", {c \in Conns : There(c) /\ owner[c] = u})
        /\ UNCHANGED tables
    BY <1>3 DEF ConnList
  <2>2. R!Answer(r, "list", {c \in Conns : There(c) /\ owner[c] = u})
    BY <2>1, ListReply, EndsAnswers
  <2>3. R!Pending(r, "list") /\ Called[r].call = req[r].call
    BY <2>1, PendingOp
  <2>4. R!Of(u, Conns) = {c \in Conns : There(c) /\ owner[c] = u}
    BY DEF R!Of, R!There, There
  <2>5. QED
    BY <2>1, <2>2, <2>3, <2>4 DEF R!Look, tables
<1>4. QED
  BY <1>1, <1>2, <1>3

\* Looking up the user of a name is no step, unless nobody has the name.
LEMMA KeyFindUserMaps ==
  ASSUME IInv, NEW r \in Requests, KeyFindUser(r)
  PROVE  R!Look(r) \/ UNCHANGED R!rvars
<1>1. Query(r, {"create_key", "list_keys"}, "query") /\ UNCHANGED tables
  BY DEF KeyFindUser
<1>2. R!Pending(r, "create_key") \/ R!Pending(r, "list_keys")
  <2>1. req[r].call.op = "create_key" \/ req[r].call.op = "list_keys"
    BY <1>1 DEF Query
  <2>2. Called[r] # None /\ Called[r].call = req[r].call /\ Called[r].reply = None
    BY <1>1, QueryPending
  <2>3. QED
    BY <2>1, <2>2 DEF R!Pending
<1>3. CASE \E u \in Users : GoesOn(r, "named", u)
  BY <1>1, <1>3, GoesOnStutters DEF R!rvars, tables
<1>4. CASE /\ \A u \in Users : There(u) => NameOf[u] # req[r].call.name
           /\ Ends(r, "no_user", None)
  <2>1. R!Answer(r, "no_user", None)
    BY <1>1, <1>4, ReplyTypes, EndsAnswers
  <2>2. Called[r].call = req[r].call
    BY <1>1, QueryPending
  <2>3. QED
    BY <1>1, <1>2, <1>4, <2>1, <2>2 DEF R!Look, R!HasName, R!There, There, tables
<1>5. QED
  BY <1>3, <1>4 DEF KeyFindUser

\* The validation takes effect here, two queries before it is answered.
LEMMA ValidateKeyMaps ==
  ASSUME IInv, NEW r \in Requests, ValidateKey(r)
  PROVE  R!Look(r)
<1> DEFINE k == req[r].call.key
<1>1. Query(r, {"validate"}, "query") /\ UNCHANGED tables
  BY DEF ValidateKey
<1>2. R!Pending(r, "validate") /\ Called[r].call = req[r].call
      /\ req[r].call \in Calls /\ req[r].call.op = "validate"
  BY <1>1, PendingOp
<1>3. CASE There(k)
  <2>1. PICK u \in Users : u = owner[k]
    BY <1>2, <1>3, CallFields DEF IInv, TypeOK
  <2>2. PICK q \in Activations : q = [call |-> req[r].call, at |-> "user", found |-> u, reply |-> None]
    BY <1>2 DEF Activations
  <2>3. req' = [req EXCEPT ![r] = q]
    BY <1>3, <2>1, <2>2 DEF ValidateKey, GoesOn, Becomes
  <2>4. View(q) = [call |-> req[r].call, reply |-> R!Reply("valid", u)]
    BY <2>2, NoneAssumption DEF View
  <2>5. TypeOK /\ q \in Activations \cup {None}
    BY DEF IInv
  <2>6. Called' = [Called EXCEPT ![r] = View(q)]
    BY <2>3, <2>5, CalledView
  <2>7. Called[r] = [call |-> req[r].call, reply |-> None]
    BY <1>1, QueryPending
  <2>8. [Called[r] EXCEPT !.reply = R!Reply("valid", u)] = View(q)
    BY <2>4, <2>7
  <2>9. R!Answer(r, "valid", owner[k])
    BY <2>1, <2>6, <2>8 DEF R!Answer
  <2>10. QED
    BY <1>1, <1>2, <1>3, <2>9 DEF R!Look, R!There, There, tables
<1>4. CASE ~There(k)
  <2>1. Ends(r, "invalid", None)
    BY <1>4 DEF ValidateKey
  <2>2. R!Answer(r, "invalid", None)
    BY <1>1, <2>1, ReplyTypes, EndsAnswers
  <2>3. QED
    BY <1>1, <1>2, <1>4, <2>2 DEF R!Look, R!There, There, tables
<1>5. QED
  BY <1>3, <1>4

\* What follows a key that was found is the same answer.
LEMMA ValidStays ==
  ASSUME IInv, NEW r \in Requests, NEW at \in {"user", "stamp"}, Query(r, {"validate"}, at),
         \/ GoesOn(r, "stamp", req[r].found)
         \/ Ends(r, "valid", req[r].found)
  PROVE  Called' = Called
<1>1. req[r] \in Activations /\ req[r].at = at /\ req[r].found \in Users /\ req[r].call \in Calls
  BY QueryKnows DEF Knows, Found, Activations
<1>2. PICK u \in Users, c \in Calls : u = req[r].found /\ c = req[r].call
  BY <1>1
<1>3. PICK reply \in Replies : reply = R!Reply("valid", u)
  BY ReplyTypes
<1>4. \E q \in Activations : /\ req' = [req EXCEPT ![r] = q]
                             /\ View(q) = [call |-> c, reply |-> reply]
  <2>1. CASE GoesOn(r, "stamp", u)
    <3>1. PICK q \in Activations : q = [call |-> c, at |-> "stamp", found |-> u, reply |-> None]
      BY DEF Activations
    <3>2. QED
      BY <1>2, <1>3, <2>1, <3>1, NoneAssumption DEF GoesOn, Becomes, View
  <2>2. CASE Ends(r, "valid", u)
    <3>1. PICK q \in Activations : q = [call |-> c, at |-> "answer", found |-> None, reply |-> reply]
      BY DEF Activations
    <3>2. QED
      BY <1>2, <1>3, <2>2, <3>1, NoneAssumption DEF Ends, Becomes, View
  <2>3. QED
    BY <1>2, <2>1, <2>2
<1>5. PICK q \in Activations : /\ req' = [req EXCEPT ![r] = q]
                              /\ View(q) = [call |-> c, reply |-> reply]
  BY <1>4
<1>6. TypeOK /\ q \in Activations \cup {None}
  BY DEF IInv
<1>7. Called' = [Called EXCEPT ![r] = View(q)] /\ Called[r] = View(req[r])
  BY <1>5, <1>6, CalledView
<1>8. View(req[r]) = View(q)
  BY <1>1, <1>2, <1>3, <1>5, NoneAssumption DEF View
<1>9. Called = [p \in Requests |-> Called[p]]
  BY DEF Called
<1>10. QED
  BY <1>7, <1>8, <1>9

\* A validation takes effect where it finds the key.
LEMMA ValidateMaps ==
  ASSUME IInv, NEW r \in Requests, ValidateUser(r) \/ ValidateStamp(r)
  PROVE  R!Return(r) \/ UNCHANGED R!rvars
<1>1. CASE ValidateUser(r)
  <2>1. Query(r, {"validate"}, "user") /\ UNCHANGED tables
    BY <1>1 DEF ValidateUser
  <2>2. CASE GoesOn(r, "stamp", req[r].found)
    BY <2>1, <2>2, ValidStays DEF R!rvars, tables
  <2>3. CASE Over(r)
    BY <2>1, <2>3, OverReturns DEF Query, tables
  <2>4. QED
    BY <1>1, <2>2, <2>3 DEF ValidateUser
<1>2. CASE ValidateStamp(r)
  <2>1. /\ Query(r, {"validate"}, "stamp")
        /\ Ends(r, "valid", req[r].found)
        /\ UNCHANGED <<state, owner, data>>
    BY <1>2 DEF ValidateStamp
  <2>2. QED
    BY <2>1, ValidStays DEF R!rvars
<1>3. QED
  BY <1>1, <1>2

\* Looking up the owner is no step, unless the request ends there.
LEMMA ConnFindMaps ==
  ASSUME IInv, NEW r \in Requests, ConnFind(r)
  PROVE  R!Look(r) \/ UNCHANGED R!rvars
<1> DEFINE c == req[r].call
<1>1. Query(r, {"update", "delete"}, "query") /\ UNCHANGED tables
  BY DEF ConnFind
<1>2. /\ Called[r].call = c /\ c \in Calls /\ c.op \in {"update", "delete"}
      /\ Called[r] # None /\ Called[r].reply = None
  BY <1>1, QueryPending
<1>3. c.conn \in Conns
  BY <1>2, CallFields
<1>4. R!Pending(r, "update") \/ R!Pending(r, "delete")
  BY <1>2 DEF R!Pending
<1>5. CASE ~There(c.conn) /\ Ends(r, "not_found", None)
  <2>1. R!Answer(r, "not_found", None)
    BY <1>1, <1>5, ReplyTypes, EndsAnswers
  <2>2. QED
    BY <1>1, <1>2, <1>4, <1>5, <2>1 DEF R!Look, R!There, There, tables
<1>6. CASE There(c.conn) /\ owner[c.conn] # c.by /\ Ends(r, "denied", None)
  <2>1. R!Answer(r, "denied", None)
    BY <1>1, <1>6, ReplyTypes, EndsAnswers
  <2>2. QED
    BY <1>1, <1>2, <1>4, <1>6, <2>1 DEF R!Look, R!There, There, tables
<1>7. CASE /\ There(c.conn) /\ owner[c.conn] = c.by
           /\ c.op = "update" /\ c.data = Malformed /\ Ends(r, "invalid_argument", None)
  <2>1. R!Answer(r, "invalid_argument", None) /\ R!Pending(r, "update")
    BY <1>1, <1>2, <1>7, ReplyTypes, EndsAnswers DEF R!Pending
  <2>2. c.conn \in R!Of(c.by, Conns)
    BY <1>3, <1>7 DEF R!Of, R!There, There
  <2>3. QED
    BY <1>1, <1>2, <1>7, <2>1, <2>2 DEF R!Look, tables
<1>8. CASE GoesOn(r, "owned", None)
  BY <1>1, <1>8, GoesOnStutters DEF R!rvars, tables
<1>9. QED
  BY <1>5, <1>6, <1>7, <1>8 DEF ConnFind

-----------------------------------------------------------------------------

\* The registry begins as the tables do.
LEMMA InitMaps == Init => R!RInit
<1>1. R!Rows = Keys \cup Conns
  BY DEF R!Rows
<1>2. Init => Called = [r \in Requests |-> None]
  BY DEF Init, Called
<1>3. QED
  BY <1>1, <1>2 DEF Init, R!RInit

\* Every query is a step of the registry or none.
LEMMA NextMaps == IInv /\ [Next]_vars => [R!RNext]_R!rvars
<1> SUFFICES ASSUME IInv, [Next]_vars
             PROVE  [R!RNext]_R!rvars
  OBVIOUS
<1>1. ASSUME NEW r \in Requests, Fails(r) \/ Answered(r)
      PROVE  R!Return(r)
  BY <1>1, OverReturns DEF Fails, Answered, tables
<1>2. ASSUME NEW r \in Requests, Start(r)
      PROVE  \E c \in R!Calls : R!Call(r, c)
  BY <1>2, StartMaps DEF Calls
<1>3. ASSUME NEW r \in Requests,
             UserCreate(r) \/ KeyInsert(r) \/ KeyRevoke(r) \/ ConnCreate(r) \/ ConnUpdate(r) \/ ConnDelete(r)
      PROVE  R!RNext
  BY <1>3, UserCreateMaps, KeyInsertMaps, KeyRevokeMaps, ConnCreateMaps, ConnUpdateMaps, ConnDeleteMaps
     DEF R!RNext
<1>4. ASSUME NEW r \in Requests,
             \/ UserList(r) \/ KeyList(r) \/ ConnList(r) \/ KeyFindUser(r) \/ ConnFind(r)
             \/ ValidateKey(r) \/ ValidateUser(r) \/ ValidateStamp(r)
      PROVE  R!RNext \/ UNCHANGED R!rvars
  BY <1>4, ListsMap, KeyFindUserMaps, ConnFindMaps, ValidateKeyMaps, ValidateMaps DEF R!RNext
<1>5. ASSUME NEW u \in Users, DeleteUser(u)
      PROVE  R!RNext
  BY <1>5, DeleteUserMaps DEF R!RNext
<1>6. CASE UNCHANGED vars
  BY <1>6 DEF vars, tables, R!rvars, Called
<1>7. QED
  BY <1>1, <1>2, <1>3, <1>4, <1>5, <1>6 DEF Next, R!RNext

\* Whatever comes between the queries of a request, it takes effect in one step
\* between its start and its answer, and the answer is the one of that step: the
\* command line and the services implement Registry.
THEOREM Refinement == Spec => ImplementsRegistry
<1>1. QED
  BY Inductive, InitMaps, NextMaps, PTL DEF Spec, R!RSpec, ImplementsRegistry

=============================================================================
