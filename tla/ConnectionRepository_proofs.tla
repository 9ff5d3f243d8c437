-------------------- MODULE ConnectionRepository_proofs --------------------
(***************************************************************************)
(* Proofs about ConnectionRepository, for any number of connections,       *)
(* credentials, operations under way, failures and restarts.               *)
(***************************************************************************)
EXTENDS ConnectionRepository, FiniteSetTheorems, TLAPS

Row == [id : Ids, text : Versions]

\* Lists of connections, of what is stored of them and of their ids in which no
\* id is twice.
Configs == {cs \in Seq(ConnectionConfig) : IsInjective(IdsIn(cs))}
Lists == {rows \in Seq(Row) : IsInjective(IdsIn(rows))}
Orders == {ids \in Seq(Ids) : IsInjective(ids)}

PrefsCall ==
  { c \in [op : {"save", "delete", "reorder"}, id : Ids \cup {None}, cred : Credentials,
           key : {"list", "order"}, value : Lists \cup Orders] :
      /\ c.op = "reorder" <=> c.id = None
      /\ c.key = "list" => c.value \in Lists
      /\ c.key = "order" => c.value \in Orders }

\* A load has read what it has done, in todo is what it has still to read.
VaultCallType ==
  { c \in [op : {"save", "delete", "load"}, id : Ids \cup {None}, cred : Credentials,
           part : 1..Parts + 1, todo : Lists, done : Configs, ord : Orders] :
      /\ c.op = "load" <=> c.id = None
      /\ c.op # "save" => c.part <= Parts
      /\ c.op = "load" => c.todo # <<>>
      /\ \A i \in DOMAIN c.done, j \in DOMAIN c.todo : c.done[i].id # c.todo[j].id }

\* The calls q of the secure storage contain at most one load, and none if it is over.
OneLoad(q, over) ==
  /\ over <=> \A i \in 1..Len(q) : q[i].op # "load"
  /\ \A i, j \in 1..Len(q) : q[i].op = "load" /\ q[j].op = "load" => i = j

\* Every part of the state has its shape.
Shape ==
  /\ connections \in Configs /\ shown \in Configs
  /\ list \in Lists /\ order \in Orders
  /\ vault \in [Ids -> Credentials]
  /\ dialog \in ConnectionConfig \cup {None}
  /\ wanted \subseteq ConnectionConfig /\ unsure \subseteq Ids \cup {None}
  /\ prefsCalls \in Seq(PrefsCall) /\ vaultCalls \in Seq(VaultCallType)
  /\ loaded \in BOOLEAN /\ OneLoad(vaultCalls, loaded)

\* The connection id is in memory as the user saved it last.
InMemory ==
  loaded => \A id \in Ids \ unsure : Of(Range(connections), id) = Of(wanted, id)

\* What rows say of the connection id is what the user saved last, with w.
Texts(cs, id) == {c.text : c \in Of(cs, id)}
Agrees(rows, w, id) == Texts(Range(rows), id) = Texts(w, id)

\* The call i of the calls q of the preferences is the one that writes the list for id.
Writes(q, i, id) == q[i].key = "list" /\ q[i].id = id

\* The credentials or the list entry of id are to be deleted.
Deleting(q, id) == \E i \in 1..Len(q) : q[i].op = "delete" /\ q[i].id = id

\* The stored list, and every list that waits to be written, says of id what the
\* user saved last, unless a call behind it does.
ListsSay(q, rows, w, id) ==
  /\ (\A i \in 1..Len(q) : ~Writes(q, i, id)) => Agrees(rows, w, id)
  /\ \A j \in 1..Len(q) :
       q[j].key = "list" /\ (\A i \in 1..Len(q) : j < i => ~Writes(q, i, id)) => Agrees(q[j].value, w, id)

InLists ==
  \A id \in Ids \ unsure : ~Deleting(vaultCalls, id) => ListsSay(prefsCalls, list, wanted, id)

\* The call i of the preferences is a save of id that is to write the key; it is
\* the last one; there is none.
Saves(q, i, id, key) == q[i].op = "save" /\ q[i].id = id /\ q[i].key = key
SavesLast(q, k, id, key) ==
  Saves(q, k, id, key) /\ \A i \in 1..Len(q) : k < i => ~Saves(q, i, id, key)
NoSave(q, id, key) == \A i \in 1..Len(q) : ~Saves(q, i, id, key)

\* The call i of the calls q of the secure storage, which has the credentials v,
\* is the last to write each of the credentials of w it has not written yet.
Finishes(q, v, i, w) ==
  /\ q[i].op = "save" /\ q[i].id = w.id /\ q[i].cred = w.cred
  /\ \A p \in 1..Parts : p < q[i].part => v[w.id][p] = w.cred[p]
  /\ \A j \in 1..Len(q) : q[j].id = w.id =>
       (j < i => q[j].part >= q[i].part) /\ (j > i => q[j].part > q[i].part)

Stored(q, v, w) ==
  \/ v[w.id] = w.cred /\ \A i \in 1..Len(q) : q[i].id # w.id
  \/ \E i \in 1..Len(q) : Finishes(q, v, i, w)

\* The last save of a connection has its credentials: it waits to write the
\* list, or the order, or it writes them, or has written them.
Kept(p, q, v, w) ==
  /\ \A k \in 1..Len(p) : SavesLast(p, k, w.id, "list") => p[k].cred = w.cred
  /\ NoSave(p, w.id, "list") =>
       /\ \A k \in 1..Len(p) : SavesLast(p, k, w.id, "order") => p[k].cred = w.cred
       /\ NoSave(p, w.id, "order") => Stored(q, v, w)

InVault == \A w \in wanted : w.id \notin unsure => Kept(prefsCalls, vaultCalls, vault, w)

\* The first of the stored rows are done, with the credentials in v but for the
\* connections in U, and the others are in todo.
ReadUpTo(done, todo, rows, v, U) ==
  /\ Len(done) + Len(todo) = Len(rows)
  /\ \A i \in 1..Len(done) :
       /\ done[i].id = rows[i].id /\ done[i].text = rows[i].text
       /\ rows[i].id \notin U => done[i].cred = v[rows[i].id]
  /\ \A i \in 1..Len(todo) : todo[i] = rows[Len(done) + i]

\* The load c goes through the stored rows, and through the credentials of the next.
Loading(c, rows, ord, v, U) ==
  /\ c.op = "load" /\ c.ord = ord /\ ReadUpTo(c.done, c.todo, rows, v, U)
  /\ \A p \in 1..Parts : p < c.part => c.cred[p] = v[c.todo[1].id][p]

InLoad ==
  ~loaded => /\ connections = <<>> /\ shown = <<>> /\ dialog = None /\ prefsCalls = <<>>
             /\ Len(vaultCalls) = 1 /\ Loading(vaultCalls[1], list, order, vault, unsure)

\* The next load would find the connections in the order of the list in memory,
\* or the list could not be read.
OrderKept ==
  \/ order = IdsIn(connections)
  \/ IdsIn(Sorted(list, order)) = IdsIn(connections)
  \/ Ids \subseteq unsure /\ connections = <<>>

\* The order in memory is stored, or the last to be written.
InOrder ==
  loaded /\ (\A id \in Ids : ~Deleting(vaultCalls, id)) =>
    /\ prefsCalls = <<>> /\ None \notin unsure => OrderKept
    /\ prefsCalls # <<>> /\ prefsCalls[Len(prefsCalls)].key = "order" =>
         prefsCalls[Len(prefsCalls)].value = IdsIn(connections)

\* The page shows the list in memory as long as nothing is under way.
OnPage == loaded => shown = connections \/ prefsCalls # <<>> \/ vaultCalls # <<>> \/ None \in unsure

Consistent == InMemory /\ InLists /\ InVault /\ InLoad /\ InOrder /\ OnPage

IInv == Shape /\ Consistent

-----------------------------------------------------------------------------
(***************************************************************************)
(* Sequences.                                                              *)
(***************************************************************************)

\* An element is put behind a sequence.
LEMMA Appended ==
  ASSUME NEW S, NEW q \in Seq(S), NEW e \in S
  PROVE  /\ Append(q, e) \in Seq(S) /\ Append(q, e) # <<>> /\ Len(Append(q, e)) = Len(q) + 1
         /\ \A i \in 1..Len(q) : Append(q, e)[i] = q[i]
         /\ Append(q, e)[Len(q) + 1] = e
         /\ \A i \in 1..Len(Append(q, e)) : i \in 1..Len(q) \/ i = Len(q) + 1
         /\ Len(q) \in Nat
<1>1. Append(q, e) \in Seq(S) /\ Len(Append(q, e)) = Len(q) + 1 /\ Len(q) \in Nat
  OBVIOUS
<1>2. Append(q, e)[Len(q) + 1] = e /\ \A i \in 1..Len(q) : Append(q, e)[i] = q[i]
  OBVIOUS
<1> DEFINE r == Append(q, e)
           n == Len(q)
<1>3. Len(r) = n + 1 /\ n \in Nat
  BY <1>1
<1> HIDE DEF r, n
<1>4. r # <<>>
  BY <1>3
<1>5. \A i \in 1..Len(r) : i \in 1..n \/ i = n + 1
  BY <1>3
<1>6. QED
  BY <1>1, <1>2, <1>4, <1>5 DEF r, n

\* The first element is taken.
LEMMA Served ==
  ASSUME NEW S, NEW q \in Seq(S), q # <<>>
  PROVE  /\ Head(q) = q[1] /\ 1 \in 1..Len(q) /\ q[1] \in S
         /\ Tail(q) \in Seq(S) /\ Len(q) \in Nat \ {0} /\ Len(Tail(q)) = Len(q) - 1
         /\ \A i \in 1..Len(Tail(q)) : Tail(q)[i] = q[i + 1] /\ i + 1 \in 1..Len(q)
         /\ \A i \in 1..Len(q) : i = 1 \/ (i - 1 \in 1..Len(Tail(q)) /\ q[i] = Tail(q)[i - 1])
<1>1. /\ Tail(q) \in Seq(S) /\ Len(q) \in Nat \ {0} /\ Len(Tail(q)) = Len(q) - 1
      /\ Head(q) = q[1] /\ \A i \in 1..Len(q) - 1 : Tail(q)[i] = q[i + 1]
  OBVIOUS
<1>2. 1 \in 1..Len(q) /\ q[1] \in S
  BY <1>1
<1>3. \A i \in 1..Len(q) : i = 1 \/ (i - 1 \in 1..Len(q) - 1 /\ q[i] = Tail(q)[i - 1])
  BY <1>1
<1>4. \A i \in 1..Len(Tail(q)) : Tail(q)[i] = q[i + 1] /\ i + 1 \in 1..Len(q)
  BY <1>1
<1>5. \A i \in 1..Len(q) : i = 1 \/ (i - 1 \in 1..Len(Tail(q)) /\ q[i] = Tail(q)[i - 1])
  <2> DEFINE n == Len(q) - 1
  <2>1. Len(Tail(q)) = n /\ \A i \in 1..Len(q) : i = 1 \/ (i - 1 \in 1..n /\ q[i] = Tail(q)[i - 1])
    BY <1>1, <1>3
  <2> HIDE DEF n
  <2>2. QED
    BY <2>1
<1>6. QED
  BY <1>1, <1>2, <1>4, <1>5

\* The first element is taken, and another one is put behind the last.
LEMMA Rotated ==
  ASSUME NEW S, NEW q \in Seq(S), q # <<>>, NEW e \in S
  PROVE  /\ Append(Tail(q), e) \in Seq(S) /\ Len(Append(Tail(q), e)) = Len(q) /\ Len(q) \in Nat \ {0}
         /\ \A i \in 1..Len(q) : i = Len(q) \/ (i + 1 \in 1..Len(q) /\ Append(Tail(q), e)[i] = q[i + 1])
         /\ Append(Tail(q), e)[Len(q)] = e
         /\ \A i \in 1..Len(q) : i = 1 \/ (i - 1 \in 1..Len(q) /\ Append(Tail(q), e)[i - 1] = q[i])
<1>1. Tail(q) \in Seq(S) /\ Len(q) \in Nat \ {0} /\ Len(Tail(q)) = Len(q) - 1
      /\ \A i \in 1..Len(q) - 1 : Tail(q)[i] = q[i + 1]
  OBVIOUS
<1> DEFINE t == Tail(q)
<1> HIDE DEF t
<1>2. /\ Append(t, e) \in Seq(S) /\ Len(Append(t, e)) = Len(q) /\ Append(t, e)[Len(q)] = e
      /\ \A i \in 1..Len(q) - 1 : Append(t, e)[i] = t[i]
  BY <1>1 DEF t
<1>3. ASSUME NEW i \in 1..Len(q), i # Len(q)
      PROVE  i + 1 \in 1..Len(q) /\ Append(t, e)[i] = q[i + 1]
  <2>0. Len(q) \in Nat /\ i \in 1..Len(q) /\ i # Len(q)
    BY <1>1, <1>3
  <2>1. i \in 1..Len(q) - 1 /\ i + 1 \in 1..Len(q)
    BY <2>0
  <2>2. QED
    BY <1>1, <1>2, <2>1 DEF t
<1>4. \A i \in 1..Len(q) : i = 1 \/ (i - 1 \in 1..Len(q) /\ Append(t, e)[i - 1] = q[i])
  BY <1>1, <1>2 DEF t
<1>5. QED
  BY <1>1, <1>2, <1>3, <1>4 DEF t

\* Two sequences in a row.
LEMMA Joined ==
  ASSUME NEW s \in Seq(ConnectionConfig), NEW t \in Seq(ConnectionConfig)
  PROVE  /\ s \o t \in Seq(ConnectionConfig) /\ Len(s \o t) = Len(s) + Len(t)
         /\ \A i \in 1..Len(s) : (s \o t)[i] = s[i]
         /\ \A i \in 1..Len(t) : (s \o t)[Len(s) + i] = t[i]
OBVIOUS

\* No id is in a list twice.
LEMMA Distinct ==
  ASSUME NEW S, NEW cs \in Seq(S)
  PROVE  /\ DOMAIN cs = 1..Len(cs) /\ Len(cs) \in Nat
         /\ DOMAIN IdsIn(cs) = 1..Len(cs) /\ Len(IdsIn(cs)) = Len(cs)
         /\ \A i \in 1..Len(cs) : IdsIn(cs)[i] = cs[i].id
         /\ IsInjective(IdsIn(cs)) <=> \A i, j \in 1..Len(cs) : cs[i].id = cs[j].id => i = j
<1>1. DOMAIN cs = 1..Len(cs) /\ Len(cs) \in Nat
  OBVIOUS
<1>2. IdsIn(cs) = [i \in 1..Len(cs) |-> cs[i].id]
  BY <1>1 DEF IdsIn
<1>3. DOMAIN IdsIn(cs) = 1..Len(cs) /\ Len(IdsIn(cs)) = Len(cs)
      /\ \A i \in 1..Len(cs) : IdsIn(cs)[i] = cs[i].id
  BY <1>1, <1>2
<1>4. QED
  BY <1>1, <1>3 DEF IsInjective

\* A list of connections.
LEMMA ConfigsFacts ==
  ASSUME NEW cs \in Configs
  PROVE  /\ cs \in Seq(ConnectionConfig) /\ DOMAIN cs = 1..Len(cs) /\ Len(cs) \in Nat
         /\ \A i \in 1..Len(cs) : cs[i] \in ConnectionConfig
         /\ \A i, j \in 1..Len(cs) : cs[i].id = cs[j].id => i = j
         /\ Range(cs) = {cs[i] : i \in 1..Len(cs)}
<1>1. cs \in Seq(ConnectionConfig) /\ IsInjective(IdsIn(cs))
  BY DEF Configs
<1>2. DOMAIN cs = 1..Len(cs) /\ Len(cs) \in Nat /\ \A i \in 1..Len(cs) : cs[i] \in ConnectionConfig
  BY <1>1
<1>3. \A i, j \in 1..Len(cs) : cs[i].id = cs[j].id => i = j
  BY <1>1, Distinct
<1>4. QED
  BY <1>1, <1>2, <1>3 DEF Range

\* Rows of the stored list.
LEMMA ListsFacts ==
  ASSUME NEW cs \in Lists
  PROVE  /\ cs \in Seq(Row) /\ DOMAIN cs = 1..Len(cs) /\ Len(cs) \in Nat
         /\ \A i \in 1..Len(cs) : cs[i] \in Row
         /\ \A i, j \in 1..Len(cs) : cs[i].id = cs[j].id => i = j
         /\ Range(cs) = {cs[i] : i \in 1..Len(cs)}
<1>1. cs \in Seq(Row) /\ IsInjective(IdsIn(cs))
  BY DEF Lists
<1>2. DOMAIN cs = 1..Len(cs) /\ Len(cs) \in Nat /\ \A i \in 1..Len(cs) : cs[i] \in Row
  BY <1>1
<1>3. \A i, j \in 1..Len(cs) : cs[i].id = cs[j].id => i = j
  BY <1>1, Distinct
<1>4. QED
  BY <1>1, <1>2, <1>3 DEF Range

\* What makes a list of connections.
LEMMA IsConfigs ==
  ASSUME NEW n \in Nat, NEW cs, cs \in [1..n -> ConnectionConfig],
         \A i, j \in 1..n : cs[i].id = cs[j].id => i = j
  PROVE  cs \in Configs /\ Len(cs) = n
<1>1. cs \in Seq(ConnectionConfig) /\ Len(cs) = n
  OBVIOUS
<1>2. QED
  BY <1>1, Distinct DEF Configs

\* ds are connections of cs, each from another place.
Selects(from, cs, ds) ==
  /\ ds \in Seq(ConnectionConfig)
  /\ from \in [1..Len(ds) -> 1..Len(cs)]
  /\ \A k \in 1..Len(ds) : ds[k] = cs[from[k]]
  /\ \A i, j \in 1..Len(ds) : from[i] = from[j] => i = j

\* Some connections of a list, in any order, are a list as well.
LEMMA Selected ==
  ASSUME NEW cs \in Configs, NEW ds, NEW from, Selects(from, cs, ds)
  PROVE  ds \in Configs
<1>1. \A i, j \in 1..Len(ds) : ds[i].id = ds[j].id => i = j
  <2> SUFFICES ASSUME NEW i \in 1..Len(ds), NEW j \in 1..Len(ds), ds[i].id = ds[j].id PROVE i = j
    OBVIOUS
  <2>1. /\ from[i] \in 1..Len(cs) /\ from[j] \in 1..Len(cs)
        /\ ds[i] = cs[from[i]] /\ ds[j] = cs[from[j]]
        /\ from[i] = from[j] => i = j
    BY DEF Selects
  <2>2. \A k, l \in 1..Len(cs) : cs[k].id = cs[l].id => k = l
    BY ConfigsFacts
  <2>3. QED
    BY <2>1, <2>2
<1>2. QED
  BY <1>1, Distinct DEF Configs, Selects

\* All of them in any order are the same connections.
LEMMA Permuted ==
  ASSUME NEW cs \in Configs, NEW ds, NEW from, Selects(from, cs, ds),
         \A i \in 1..Len(cs) : \E k \in 1..Len(ds) : from[k] = i
  PROVE  ds \in Configs /\ Range(ds) = Range(cs)
<1>1. ds \in Configs
  BY Selected
<1>2. Range(ds) = {ds[k] : k \in 1..Len(ds)} /\ Range(cs) = {cs[i] : i \in 1..Len(cs)}
  BY <1>1, ConfigsFacts
<1>3. \A i \in 1..Len(cs) : \E k \in 1..Len(ds) : ds[k] = cs[i]
  BY DEF Selects
<1>4. \A k \in 1..Len(ds) : from[k] \in 1..Len(cs) /\ ds[k] = cs[from[k]]
  BY DEF Selects
<1>5. Range(ds) \subseteq Range(cs)
  BY <1>2, <1>4
<1>6. Range(cs) \subseteq Range(ds)
  BY <1>2, <1>3
<1>7. QED
  BY <1>1, <1>5, <1>6

-----------------------------------------------------------------------------
(***************************************************************************)
(* What the operators of the list do.                                      *)
(***************************************************************************)

\* A connection is its id, its text and its credentials.
LEMMA SameConfig ==
  ASSUME NEW c \in ConnectionConfig, NEW d \in ConnectionConfig,
         c.id = d.id, c.text = d.text, c.cred = d.cred
  PROVE  c = d
BY DEF ConnectionConfig

\* The connection at a place is all the list has of its id.
LEMMA OfAt ==
  ASSUME NEW cs \in Configs, NEW i \in 1..Len(cs)
  PROVE  Of(Range(cs), cs[i].id) = {cs[i]}
BY ConfigsFacts DEF Of

\* The list has nothing of an id that is at no place of it.
LEMMA OfNone ==
  ASSUME NEW cs \in Configs, NEW id, \A i \in 1..Len(cs) : cs[i].id # id
  PROVE  Of(Range(cs), id) = {} /\ id \notin IdsOf(cs)
BY ConfigsFacts DEF Of, IdsOf

\* Put replaces the connection with the id, or adds it, and touches no other.
LEMMA PutType ==
  ASSUME NEW cs \in Configs, NEW c \in ConnectionConfig
  PROVE  /\ Put(cs, c) \in Configs
         /\ Of(Range(Put(cs, c)), c.id) = {c}
         /\ \A id : id # c.id => Of(Range(Put(cs, c)), id) = Of(Range(cs), id)
<1> DEFINE ds == Put(cs, c)
<1>0. /\ Len(cs) \in Nat /\ \A i \in 1..Len(cs) : cs[i] \in ConnectionConfig
      /\ \A i, j \in 1..Len(cs) : cs[i].id = cs[j].id => i = j
      /\ DOMAIN cs = 1..Len(cs) /\ Range(cs) = {cs[i] : i \in 1..Len(cs)}
      /\ cs \in Seq(ConnectionConfig)
  BY ConfigsFacts
<1>1. CASE c.id \in IdsOf(cs)
  <2>1. ds = [i \in 1..Len(cs) |-> IF cs[i].id = c.id THEN c ELSE cs[i]]
    BY <1>0, <1>1 DEF Put
  <2>2. ds \in [1..Len(cs) -> ConnectionConfig] /\ \A i \in 1..Len(cs) : ds[i].id = cs[i].id
    BY <1>0, <2>1
  <2>3. ds \in Configs /\ Len(ds) = Len(cs)
    BY <1>0, <2>2, IsConfigs
  <2>4. PICK k \in 1..Len(cs) : cs[k].id = c.id
    BY <1>0, <1>1 DEF IdsOf
  <2>5. ds[k] = c /\ \A i \in 1..Len(cs) : cs[i].id # c.id => ds[i] = cs[i]
    BY <2>1, <2>4
  <2>6. Of(Range(ds), c.id) = {c}
    BY <2>3, <2>4, <2>5, OfAt
  <2>7. Range(ds) = {ds[i] : i \in 1..Len(cs)}
    BY <2>3, ConfigsFacts
  <2>8. \A id : id # c.id => Of(Range(ds), id) = Of(Range(cs), id)
    BY <1>0, <2>2, <2>5, <2>7 DEF Of
  <2>9. QED
    BY <2>3, <2>6, <2>8
<1>2. CASE c.id \notin IdsOf(cs)
  <2>1. ds = Append(cs, c)
    BY <1>2 DEF Put
  <2>2. /\ ds \in Seq(ConnectionConfig) /\ Len(ds) = Len(cs) + 1 /\ ds[Len(cs) + 1] = c
        /\ \A i \in 1..Len(cs) : ds[i] = cs[i]
        /\ \A i \in 1..Len(ds) : i \in 1..Len(cs) \/ i = Len(cs) + 1
    BY <1>0, <2>1, Appended
  <2>3. \A i \in 1..Len(cs) : cs[i].id # c.id
    BY <1>0, <1>2 DEF IdsOf
  <2>4. \A i, j \in 1..Len(ds) : ds[i].id = ds[j].id => i = j
    BY <1>0, <2>2, <2>3
  <2>5. ds \in Configs
    BY <2>2, <2>4, Distinct DEF Configs
  <2>6. Len(cs) + 1 \in 1..Len(ds)
    BY <1>0, <2>2
  <2>7. Of(Range(ds), c.id) = {c}
    BY <2>2, <2>5, <2>6, OfAt
  <2>8. Range(ds) = Range(cs) \cup {c}
    <3>1. Range(ds) = {ds[i] : i \in 1..Len(ds)}
      BY <2>5, ConfigsFacts
    <3>2. \A i \in 1..Len(cs) : i \in 1..Len(ds)
      BY <1>0, <2>2
    <3>3. Range(ds) \subseteq Range(cs) \cup {c}
      BY <1>0, <2>2, <3>1
    <3>4. Range(cs) \cup {c} \subseteq Range(ds)
      BY <1>0, <2>2, <2>6, <3>1, <3>2
    <3>5. QED
      BY <3>3, <3>4
  <2>9. QED
    BY <2>5, <2>7, <2>8 DEF Of
<1>3. QED
  BY <1>1, <1>2

\* A list without the place k.
LEMMA RemoveAtType ==
  ASSUME NEW cs \in Configs, NEW k \in 1..Len(cs)
  PROVE  /\ RemoveAt(cs, k) \in Configs /\ Len(RemoveAt(cs, k)) = Len(cs) - 1 /\ Len(cs) - 1 \in Nat
         /\ \A i \in 1..Len(cs) - 1 : RemoveAt(cs, k)[i] = IF i < k THEN cs[i] ELSE cs[i + 1]
         /\ Range(RemoveAt(cs, k)) = Range(cs) \ {cs[k]}
<1> DEFINE n == Len(cs) - 1
           from == [i \in 1..n |-> IF i < k THEN i ELSE i + 1]
           ds == RemoveAt(cs, k)
<1>0. Len(cs) \in Nat /\ n \in Nat /\ k \in Nat /\ k >= 1 /\ k <= Len(cs) /\ cs \in Seq(ConnectionConfig)
  BY ConfigsFacts
<1>1. /\ Len(ds) = n /\ ds \in Seq(ConnectionConfig)
      /\ \A i \in 1..n : ds[i] = IF i < k THEN cs[i] ELSE cs[i + 1]
  <2> DEFINE a == SubSeq(cs, 1, k - 1)
             b == SubSeq(cs, k + 1, Len(cs))
  <2>1. /\ a \in Seq(ConnectionConfig) /\ Len(a) = k - 1 /\ \A i \in 1..k - 1 : a[i] = cs[i]
        /\ b \in Seq(ConnectionConfig) /\ Len(b) = Len(cs) - k /\ \A i \in 1..Len(cs) - k : b[i] = cs[k + i]
    BY <1>0
  <2> HIDE DEF a, b
  <2>2. /\ a \o b \in Seq(ConnectionConfig) /\ Len(a \o b) = n
        /\ \A i \in 1..k - 1 : (a \o b)[i] = a[i]
        /\ \A i \in k..n : (a \o b)[i] = b[i - (k - 1)]
    <3>0. a \in Seq(ConnectionConfig) /\ b \in Seq(ConnectionConfig)
      BY <2>1
    <3>1. /\ a \o b \in Seq(ConnectionConfig) /\ Len(a \o b) = Len(a) + Len(b)
          /\ \A i \in 1..Len(a) : (a \o b)[i] = a[i]
          /\ \A i \in 1..Len(b) : (a \o b)[Len(a) + i] = b[i]
      BY <3>0, Joined
    <3>2. Len(a) = k - 1 /\ Len(b) = Len(cs) - k
      BY <2>1
    <3>3. ASSUME NEW i \in k..n PROVE (a \o b)[i] = b[i - (k - 1)]
      <4>1. i - (k - 1) \in 1..Len(b) /\ i = Len(a) + (i - (k - 1))
        BY <1>0, <3>2
      <4>2. QED
        BY <3>1, <4>1
    <3>4. QED
      BY <1>0, <3>1, <3>2, <3>3
  <2>3. \A i \in 1..n : (a \o b)[i] = IF i < k THEN cs[i] ELSE cs[i + 1]
    BY <1>0, <2>1, <2>2
  <2>4. ds = a \o b
    BY DEF RemoveAt, a, b
  <2>5. QED
    BY <2>2, <2>3, <2>4
<1> HIDE DEF ds
<1>2. from \in [1..n -> 1..Len(cs)] /\ \A i, j \in 1..n : from[i] = from[j] => i = j
  BY <1>0
<1>3. \A i \in 1..n : ds[i] = cs[from[i]]
  BY <1>0, <1>1
<1>5. \A i \in 1..Len(cs) : i = k \/ \E j \in 1..n : from[j] = i
  <2> SUFFICES ASSUME NEW i \in 1..Len(cs), i # k PROVE \E j \in 1..n : from[j] = i
    OBVIOUS
  <2>1. CASE i < k
    BY <1>0, <2>1
  <2>2. CASE i > k
    <3>1. i - 1 \in 1..n /\ from[i - 1] = i
      BY <1>0, <2>2
    <3>2. QED
      BY <3>1
  <2>3. QED
    BY <1>0, <2>1, <2>2
<1>6. \A j \in 1..n : from[j] # k
  BY <1>0
<1> HIDE DEF from
<1>4. ds \in Configs
  <2>1. Selects(from, cs, ds)
    BY <1>1, <1>2, <1>3 DEF Selects
  <2>2. QED
    BY <2>1, Selected
<1>7. Range(ds) = Range(cs) \ {cs[k]}
  <2>1. Range(ds) = {ds[i] : i \in 1..n} /\ Range(cs) = {cs[i] : i \in 1..Len(cs)}
    BY <1>1, <1>4, ConfigsFacts
  <2>2. \A i \in 1..n : ds[i] = cs[from[i]] /\ from[i] \in 1..Len(cs) /\ from[i] # k
    BY <1>2, <1>3, <1>6
  <2>3. \A i, j \in 1..Len(cs) : cs[i] = cs[j] => i = j
    BY ConfigsFacts
  <2>4. Range(ds) \subseteq Range(cs) \ {cs[k]}
    BY <2>1, <2>2, <2>3
  <2>5. Range(cs) \ {cs[k]} \subseteq Range(ds)
    <3>1. ASSUME NEW i \in 1..Len(cs), i # k PROVE cs[i] \in Range(ds)
      <4>1. PICK j \in 1..n : from[j] = i
        BY <1>5, <3>1
      <4>2. QED
        BY <2>1, <2>2, <4>1
    <3>2. QED
      BY <2>1, <3>1
  <2>6. QED
    BY <2>4, <2>5
<1>8. QED
  BY <1>0, <1>1, <1>4, <1>7 DEF ds

\* Without takes out the connection with the id and no other.
LEMMA WithoutType ==
  ASSUME NEW cs \in Configs, NEW id
  PROVE  /\ Without(cs, id) \in Configs
         /\ Of(Range(Without(cs, id)), id) = {}
         /\ \A x : x # id => Of(Range(Without(cs, id)), x) = Of(Range(cs), x)
<1> DEFINE Match(c) == c.id = id
<1>0. Len(cs) \in Nat /\ \A i, j \in 1..Len(cs) : cs[i].id = cs[j].id => i = j
  BY ConfigsFacts
<1>1. CASE \E i \in 1..Len(cs) : cs[i].id = id
  <2>1. PICK k \in 1..Len(cs) : cs[k].id = id
    BY <1>1
  <2> DEFINE I == {i \in 1..Len(cs) : cs[i].id = id}
  <2>2. I = {k} /\ k \in Nat
    BY <1>0, <2>1
  <2>3. Min(I) = k
    BY <2>2 DEF Min
  <2>4. Without(cs, id) = RemoveAt(cs, Min(I))
    BY <1>1, <2>2 DEF Without, RemoveFirstMatch, SelectInSeq
  <2>5. Without(cs, id) \in Configs /\ Range(Without(cs, id)) = Range(cs) \ {cs[k]}
    BY <2>3, <2>4, RemoveAtType
  <2>6. Of(Range(cs), id) = {cs[k]}
    BY <2>1, OfAt
  <2>7. QED
    BY <2>1, <2>5, <2>6 DEF Of
<1>2. CASE ~\E i \in 1..Len(cs) : cs[i].id = id
  <2>1. Without(cs, id) = cs
    BY <1>2 DEF Without, RemoveFirstMatch
  <2>2. QED
    BY <1>2, <2>1, OfNone
<1>3. QED
  BY <1>1, <1>2

\* What is stored of a list says the same of every id.
LEMMA ToJsonType ==
  ASSUME NEW cs \in Configs
  PROVE  /\ toJson(cs) \in Lists
         /\ \A id : Texts(Range(toJson(cs)), id) = Texts(Range(cs), id)
<1> DEFINE ds == toJson(cs)
<1>1. ds = [i \in 1..Len(cs) |-> [id |-> cs[i].id, text |-> cs[i].text]] /\ Len(cs) \in Nat
  BY ConfigsFacts DEF toJson
<1>2. ds \in [1..Len(cs) -> Row] /\ \A i \in 1..Len(cs) : ds[i].id = cs[i].id /\ ds[i].text = cs[i].text
  BY <1>1, ConfigsFacts DEF ConnectionConfig, Row
<1> HIDE DEF ds
<1>3. ds \in Seq(Row) /\ Len(ds) = Len(cs)
  BY <1>1, <1>2
<1>4. ds \in Lists
  BY <1>2, <1>3, Distinct, ConfigsFacts DEF Lists
<1>5. Range(ds) = {ds[i] : i \in 1..Len(cs)} /\ Range(cs) = {cs[i] : i \in 1..Len(cs)}
  BY <1>3, <1>4, ListsFacts, ConfigsFacts
<1>6. \A id : Texts(Range(ds), id) = Texts(Range(cs), id)
  BY <1>2, <1>5 DEF Texts, Of
<1>7. QED
  BY <1>4, <1>6 DEF ds

\* The ids of a list are an order.
LEMMA IdsInType ==
  ASSUME NEW cs \in Configs
  PROVE  IdsIn(cs) \in Orders
<1>1. IdsIn(cs) = [i \in 1..Len(cs) |-> cs[i].id] /\ Len(cs) \in Nat
  BY ConfigsFacts DEF IdsIn
<1>2. IdsIn(cs) \in Seq(Ids)
  BY <1>1, ConfigsFacts DEF ConnectionConfig
<1>3. QED
  BY <1>2 DEF Orders, Configs

\* A connection taken out and put in again is in the list as before.
LEMMA InsertAtType ==
  ASSUME NEW cs \in Configs, NEW k \in 1..Len(cs), NEW to \in 1..Len(cs)
  PROVE  /\ InsertAt(RemoveAt(cs, k), to, cs[k]) \in Configs
         /\ Range(InsertAt(RemoveAt(cs, k), to, cs[k])) = Range(cs)
<1> DEFINE r == RemoveAt(cs, k)
           c == cs[k]
           n == Len(cs)
           ds == InsertAt(r, to, c)
<1>1. /\ r \in Configs /\ Len(r) = n - 1 /\ n \in Nat \ {0}
      /\ \A i \in 1..n - 1 : r[i] = IF i < k THEN cs[i] ELSE cs[i + 1]
  BY RemoveAtType, ConfigsFacts
<1>2. r \in Seq(ConnectionConfig) /\ c \in ConnectionConfig
  BY <1>1, ConfigsFacts
<1> HIDE DEF r, c
<1>3. /\ ds \in Seq(ConnectionConfig) /\ Len(ds) = n
      /\ \A i \in 1..n : ds[i] = IF i < to THEN r[i] ELSE IF i = to THEN c ELSE r[i - 1]
  <2> DEFINE a == SubSeq(r, 1, to - 1)
             b == SubSeq(r, to, Len(r))
  <2>0. to \in Nat /\ to >= 1 /\ to <= n /\ n \in Nat
    BY <1>1
  <2>1. /\ a \in Seq(ConnectionConfig) /\ Len(a) = to - 1 /\ \A i \in 1..to - 1 : a[i] = r[i]
        /\ b \in Seq(ConnectionConfig) /\ Len(b) = n - to /\ \A i \in 1..n - to : b[i] = r[to + i - 1]
    BY <1>1, <1>2, <2>0
  <2> HIDE DEF a, b
  <2>2. /\ a \o <<c>> \in Seq(ConnectionConfig) /\ Len(a \o <<c>>) = to
        /\ \A i \in 1..to - 1 : (a \o <<c>>)[i] = a[i]
        /\ (a \o <<c>>)[to] = c
    <3> DEFINE e == <<c>>
    <3>1. e \in Seq(ConnectionConfig) /\ Len(e) = 1 /\ e[1] = c
      BY <1>2
    <3> HIDE DEF e
    <3>2. /\ a \o e \in Seq(ConnectionConfig) /\ Len(a \o e) = Len(a) + Len(e)
          /\ \A i \in 1..Len(a) : (a \o e)[i] = a[i]
          /\ \A i \in 1..Len(e) : (a \o e)[Len(a) + i] = e[i]
      BY <2>1, <3>1, Joined
    <3>3. Len(a) = to - 1 /\ 1 \in 1..Len(e) /\ Len(a) + 1 = to /\ Len(a) + Len(e) = to
      BY <2>0, <2>1, <3>1
    <3>4. QED
      BY <3>1, <3>2, <3>3 DEF e
  <2> DEFINE d == a \o <<c>>
  <2> HIDE DEF d
  <2>3. d \in Seq(ConnectionConfig) /\ Len(d) = to
    BY <2>2 DEF d
  <2>4. /\ d \o b \in Seq(ConnectionConfig) /\ Len(d \o b) = n
        /\ \A i \in 1..to : (d \o b)[i] = d[i]
        /\ \A i \in to + 1..n : (d \o b)[i] = b[i - to]
    <3>1. /\ d \o b \in Seq(ConnectionConfig) /\ Len(d \o b) = Len(d) + Len(b)
          /\ \A i \in 1..Len(d) : (d \o b)[i] = d[i]
          /\ \A i \in 1..Len(b) : (d \o b)[Len(d) + i] = b[i]
      BY <2>1, <2>3, Joined
    <3>2. Len(d) = to /\ Len(b) = n - to
      BY <2>1, <2>3
    <3>3. ASSUME NEW i \in to + 1..n PROVE (d \o b)[i] = b[i - to]
      <4>1. i - to \in 1..Len(b) /\ i = Len(d) + (i - to)
        BY <2>0, <3>2
      <4>2. QED
        BY <3>1, <4>1
    <3>4. QED
      BY <2>0, <3>1, <3>2, <3>3
  <2>5. \A i \in 1..n : (d \o b)[i] = IF i < to THEN r[i] ELSE IF i = to THEN c ELSE r[i - 1]
    BY <2>0, <2>1, <2>2, <2>4 DEF d
  <2>6. ds = d \o b
    BY DEF InsertAt, a, b, d
  <2>7. QED
    BY <2>4, <2>5, <2>6
<1> HIDE DEF ds
<1> DEFINE before(j) == IF j < k THEN j ELSE j + 1
           from == [j \in 1..n |-> IF j < to THEN before(j) ELSE IF j = to THEN k ELSE before(j - 1)]
<1>4. \A j \in 1..n : ds[j] = cs[from[j]]
  <2>1. ASSUME NEW j \in 1..n PROVE ds[j] = cs[from[j]]
    <3>1. CASE j < to
      <4>1. j \in 1..n - 1 /\ ds[j] = r[j]
        BY <1>1, <1>3, <3>1
      <4>2. QED
        BY <1>1, <3>1, <4>1
    <3>2. CASE j = to
      BY <1>3, <3>2 DEF c
    <3>3. CASE j > to
      <4>1. j - 1 \in 1..n - 1 /\ ds[j] = r[j - 1]
        BY <1>1, <1>3, <3>3
      <4>2. QED
        BY <1>1, <3>3, <4>1
    <3>4. QED
      BY <1>1, <3>1, <3>2, <3>3
  <2>2. QED
    BY <1>3, <2>1
<1>5. /\ from \in [1..n -> 1..n] /\ \A i, j \in 1..n : from[i] = from[j] => i = j
  BY <1>1
<1>6. \A i \in 1..n : \E j \in 1..n : from[j] = i
  <2>1. IsFiniteSet(1..n)
    BY <1>1, FS_Interval
  <2> HIDE DEF from
  <2>2. from \in Injection(1..n, 1..n)
    BY <1>5 DEF Injection, IsInjective
  <2>3. from \in Surjection(1..n, 1..n)
    BY <2>1, <2>2, FS_Injection
  <2>4. QED
    BY <2>3 DEF Surjection
<1> HIDE DEF from
<1>8. ds \in Configs /\ Range(ds) = Range(cs)
  <2>1. Selects(from, cs, ds)
    BY <1>3, <1>4, <1>5 DEF Selects
  <2>2. QED
    BY <1>3, <1>6, <2>1, Permuted
<1>9. QED
  BY <1>8 DEF ds, r, c

-----------------------------------------------------------------------------
(***************************************************************************)
(* Sorting.                                                                *)
(***************************************************************************)

\* There are n numbers up to n.
LEMMA Counted ==
  ASSUME NEW n \in Nat
  PROVE  IsFiniteSet(1..n) /\ Cardinality(1..n) = n
BY FS_Interval

\* A place is a number; of two ids that an order names, the places differ.
LEMMA PlaceType ==
  ASSUME NEW ord \in Seq(Ids), NEW id
  PROVE  Place(ord, id) \in Nat
<1>1. DOMAIN ord \subseteq Nat /\ Len(ord) \in Nat
  OBVIOUS
<1>2. CASE id \in Range(ord)
  <2>1. \E p \in DOMAIN ord : ord[p] = id
    BY <1>2 DEF Range
  <2>2. QED
    BY <1>1, <1>2, <2>1 DEF Place
<1>3. CASE id \notin Range(ord)
  BY <1>1, <1>3 DEF Place
<1>4. QED
  BY <1>2, <1>3

\* Of two places in a list one is ahead of the other.
LEMMA AheadOrder ==
  ASSUME NEW ord \in Seq(Ids), NEW cs, NEW n \in Nat, DOMAIN cs = 1..n,
         NEW i \in 1..n, NEW j \in 1..n
  PROVE  /\ i \notin Ahead(cs, ord, i)
         /\ i # j => i \in Ahead(cs, ord, j) \/ j \in Ahead(cs, ord, i)
         /\ i \in Ahead(cs, ord, j) => Ahead(cs, ord, i) \subseteq Ahead(cs, ord, j)
         /\ Ahead(cs, ord, i) \subseteq 1..n
<1> DEFINE place == [k \in 1..n |-> Place(ord, cs[k].id)]
<1>1. \A k \in 1..n : place[k] \in Nat
  BY PlaceType
<1>2. \A k \in 1..n : Ahead(cs, ord, k) =
        {l \in 1..n : place[l] < place[k] \/ (place[l] = place[k] /\ l < k)}
  BY DEF Ahead
<1> HIDE DEF place
<1>3. \A k, l \in 1..n :
        l \in Ahead(cs, ord, k) <=> place[l] < place[k] \/ (place[l] = place[k] /\ l < k)
  BY <1>2
<1>4. \A k \in 1..n : Ahead(cs, ord, k) \subseteq 1..n
  BY <1>2
<1>5. i \notin Ahead(cs, ord, i)
  BY <1>1, <1>3
<1>6. i # j => i \in Ahead(cs, ord, j) \/ j \in Ahead(cs, ord, i)
  BY <1>1, <1>3
<1>7. ASSUME i \in Ahead(cs, ord, j), NEW k \in Ahead(cs, ord, i)
      PROVE  k \in Ahead(cs, ord, j)
  <2>1. k \in 1..n
    BY <1>4, <1>7
  <2>2. place[i] < place[j] \/ (place[i] = place[j] /\ i < j)
    BY <1>3, <1>7
  <2>3. place[k] < place[i] \/ (place[k] = place[i] /\ k < i)
    BY <1>3, <1>7, <2>1
  <2>4. place[i] \in Nat /\ place[j] \in Nat /\ place[k] \in Nat
    BY <1>1, <2>1
  <2>5. place[k] < place[j] \/ (place[k] = place[j] /\ k < j)
    BY <2>1, <2>2, <2>3, <2>4
  <2>6. QED
    BY <1>3, <2>1, <2>5
<1>8. QED
  BY <1>4, <1>5, <1>6, <1>7

\* How many are ahead tells the places of a list apart, and every number below
\* its length occurs.
LEMMA Ranks ==
  ASSUME NEW ord \in Seq(Ids), NEW cs, NEW n \in Nat, DOMAIN cs = 1..n
  PROVE  /\ \A i, j \in 1..n :
              Cardinality(Ahead(cs, ord, i)) = Cardinality(Ahead(cs, ord, j)) => i = j
         /\ \A i \in 1..n : Cardinality(Ahead(cs, ord, i)) \in 0..n - 1
         /\ \A k \in 1..n : \E i \in 1..n : Cardinality(Ahead(cs, ord, i)) = k - 1
<1> DEFINE rank == [i \in 1..n |-> Cardinality(Ahead(cs, ord, i)) + 1]
<1>0. IsFiniteSet(1..n) /\ Cardinality(1..n) = n
  BY FS_Interval
<1>1. ASSUME NEW i \in 1..n
      PROVE  IsFiniteSet(Ahead(cs, ord, i)) /\ Cardinality(Ahead(cs, ord, i)) \in 0..n - 1
  <2>1. Ahead(cs, ord, i) \in SUBSET (1..n) /\ Ahead(cs, ord, i) # 1..n
    BY AheadOrder
  <2>2. /\ IsFiniteSet(Ahead(cs, ord, i)) /\ Cardinality(Ahead(cs, ord, i)) <= n
        /\ Cardinality(Ahead(cs, ord, i)) # n
    BY <1>0, <2>1, FS_Subset
  <2>3. Cardinality(Ahead(cs, ord, i)) \in Nat
    BY <2>2, FS_CardinalityType
  <2>4. QED
    BY <2>2, <2>3
<1>2. ASSUME NEW i \in 1..n, NEW j \in 1..n, i \in Ahead(cs, ord, j)
      PROVE  Cardinality(Ahead(cs, ord, i)) # Cardinality(Ahead(cs, ord, j))
  <2>1. Ahead(cs, ord, i) \in SUBSET Ahead(cs, ord, j) /\ Ahead(cs, ord, i) # Ahead(cs, ord, j)
    BY <1>2, AheadOrder
  <2>2. QED
    BY <1>1, <2>1, FS_Subset
<1>3. \A i, j \in 1..n :
        Cardinality(Ahead(cs, ord, i)) = Cardinality(Ahead(cs, ord, j)) => i = j
  BY <1>2, AheadOrder
<1>4. rank \in [1..n -> 1..n] /\ \A i, j \in 1..n : rank[i] = rank[j] => i = j
  <2>1. \A i \in 1..n : Cardinality(Ahead(cs, ord, i)) \in Nat /\ rank[i] \in 1..n
    BY <1>1
  <2>2. \A i, j \in 1..n : rank[i] = rank[j] => i = j
    BY <1>3, <2>1
  <2>3. QED
    BY <2>1, <2>2
<1>5. \A k \in 1..n : \E i \in 1..n : rank[i] = k
  <2> HIDE DEF rank
  <2>1. rank \in Injection(1..n, 1..n)
    BY <1>4 DEF Injection, IsInjective
  <2>2. rank \in Surjection(1..n, 1..n)
    BY <1>0, <2>1, FS_Injection
  <2>3. QED
    BY <2>2 DEF Surjection
<1>6. \A k \in 1..n : \E i \in 1..n : Cardinality(Ahead(cs, ord, i)) = k - 1
  <2> SUFFICES ASSUME NEW k \in 1..n
               PROVE  \E i \in 1..n : Cardinality(Ahead(cs, ord, i)) = k - 1
    OBVIOUS
  <2>1. PICK i \in 1..n : rank[i] = k
    BY <1>5
  <2>2. Cardinality(Ahead(cs, ord, i)) \in Nat /\ Cardinality(Ahead(cs, ord, i)) + 1 = k
    BY <1>1, <2>1
  <2>3. QED
    BY <2>2
<1>7. QED
  BY <1>1, <1>3, <1>6

\* Which place of cs comes to the place k.
From(cs, ord) ==
  [k \in DOMAIN cs |-> CHOOSE i \in DOMAIN cs : Cardinality(Ahead(cs, ord, i)) = k - 1]

Sorts(from, cs, ord, n) ==
  /\ from \in [1..n -> 1..n]
  /\ \A i, j \in 1..n : from[i] = from[j] => i = j
  /\ \A i \in 1..n : \E k \in 1..n : from[k] = i
  /\ \A k \in 1..n : Cardinality(Ahead(cs, ord, from[k])) = k - 1
  /\ Sorted(cs, ord) = [k \in 1..n |-> cs[from[k]]]

\* Sorted takes every place once.
LEMMA FromType ==
  ASSUME NEW ord \in Seq(Ids), NEW cs, NEW n \in Nat, DOMAIN cs = 1..n
  PROVE  Sorts(From(cs, ord), cs, ord, n)
<1> DEFINE from == From(cs, ord)
<1>1. \A k \in 1..n : from[k] \in 1..n /\ Cardinality(Ahead(cs, ord, from[k])) = k - 1
  <2> SUFFICES ASSUME NEW k \in 1..n
               PROVE  from[k] \in 1..n /\ Cardinality(Ahead(cs, ord, from[k])) = k - 1
    OBVIOUS
  <2> DEFINE Ranked(i) == Cardinality(Ahead(cs, ord, i)) = k - 1
  <2>1. \E i \in 1..n : Ranked(i)
    BY Ranks
  <2>2. from[k] = CHOOSE i \in 1..n : Ranked(i)
    BY DEF From
  <2> HIDE DEF Ranked, from
  <2>3. from[k] \in 1..n /\ Ranked(from[k])
    BY <2>1, <2>2
  <2>4. QED
    BY <2>3 DEF Ranked
<1>2. from \in [1..n -> 1..n]
  BY <1>1 DEF From
<1>3. Sorted(cs, ord) = [k \in 1..n |-> cs[from[k]]]
  BY DEF Sorted, From
<1> HIDE DEF from
<1>4. \A i, j \in 1..n : from[i] = from[j] => i = j
  <2> SUFFICES ASSUME NEW i \in 1..n, NEW j \in 1..n, from[i] = from[j] PROVE i = j
    OBVIOUS
  <2>1. i - 1 = j - 1
    BY <1>1
  <2>2. QED
    BY <2>1
<1>5. IsFiniteSet(1..n)
  BY FS_Interval
<1>6. from \in Injection(1..n, 1..n)
  BY <1>2, <1>4 DEF Injection, IsInjective
<1>7. from \in Surjection(1..n, 1..n)
  BY <1>5, <1>6, FS_Injection
<1>8. \A i \in 1..n : \E k \in 1..n : from[k] = i
  BY <1>7 DEF Surjection
<1>9. QED
  BY <1>1, <1>2, <1>3, <1>4, <1>8 DEF from, Sorts

\* A sorted list has the connections of the list.
LEMMA SortedType ==
  ASSUME NEW ord \in Seq(Ids), NEW cs \in Configs
  PROVE  Sorted(cs, ord) \in Configs /\ Range(Sorted(cs, ord)) = Range(cs)
         /\ Len(Sorted(cs, ord)) = Len(cs)
<1> DEFINE n == Len(cs)
           from == From(cs, ord)
           ds == Sorted(cs, ord)
<1>1. DOMAIN cs = 1..n /\ n \in Nat /\ \A i \in 1..n : cs[i] \in ConnectionConfig
  BY ConfigsFacts
<1>2. /\ from \in [1..n -> 1..n]
      /\ \A i, j \in 1..n : from[i] = from[j] => i = j
      /\ \A i \in 1..n : \E k \in 1..n : from[k] = i
      /\ ds = [k \in 1..n |-> cs[from[k]]]
  <2>1. Sorts(from, cs, ord, n)
    BY <1>1, FromType
  <2>2. QED
    BY <2>1 DEF Sorts
<1> HIDE DEF from, ds
<1>3. ds \in [1..n -> ConnectionConfig]
  BY <1>1, <1>2
<1>4. ds \in Seq(ConnectionConfig) /\ Len(ds) = n
  BY <1>1, <1>3
<1>5. Selects(from, cs, ds)
  BY <1>2, <1>4 DEF Selects
<1>6. QED
  BY <1>2, <1>4, <1>5, Permuted DEF ds

\* How a list is sorted depends on its ids only.
LEMMA SortedIds ==
  ASSUME NEW ord \in Seq(Ids), NEW n \in Nat, NEW cs, NEW ds, DOMAIN cs = 1..n, DOMAIN ds = 1..n,
         \A i \in 1..n : cs[i].id = ds[i].id
  PROVE  IdsIn(Sorted(cs, ord)) = IdsIn(Sorted(ds, ord))
<1>1. \A i \in 1..n : Ahead(cs, ord, i) = Ahead(ds, ord, i)
  BY DEF Ahead
<1>2. From(cs, ord) = From(ds, ord)
  BY <1>1 DEF From
<1> DEFINE from == From(cs, ord)
<1>3. Sorts(from, cs, ord, n)
  BY FromType
<1>4. Sorts(from, ds, ord, n)
  BY <1>2, FromType
<1> HIDE DEF from
<1>5. IdsIn(Sorted(cs, ord)) = [k \in 1..n |-> cs[from[k]].id]
  BY <1>3 DEF Sorts, IdsIn
<1>6. IdsIn(Sorted(ds, ord)) = [k \in 1..n |-> ds[from[k]].id]
  BY <1>4 DEF Sorts, IdsIn
<1>7. \A k \in 1..n : from[k] \in 1..n
  BY <1>3 DEF Sorts
<1>8. QED
  BY <1>5, <1>6, <1>7

\* Two lists of the same connections with the same ids in the same places are one.
LEMMA SameIds ==
  ASSUME NEW cs \in Configs, NEW ds \in Configs, Range(cs) = Range(ds), IdsIn(cs) = IdsIn(ds)
  PROVE  cs = ds
<1>1. /\ Len(cs) = Len(ds) /\ \A i \in 1..Len(cs) : cs[i].id = ds[i].id
      /\ DOMAIN cs = 1..Len(cs) /\ DOMAIN ds = 1..Len(cs)
  <2>1. /\ Len(IdsIn(cs)) = Len(cs) /\ Len(IdsIn(ds)) = Len(ds)
        /\ \A i \in 1..Len(cs) : IdsIn(cs)[i] = cs[i].id
        /\ \A i \in 1..Len(ds) : IdsIn(ds)[i] = ds[i].id
    BY Distinct DEF Configs
  <2>2. QED
    BY <2>1, ConfigsFacts
<1>2. ASSUME NEW i \in 1..Len(cs) PROVE cs[i] = ds[i]
  <2>0. cs[i] \in Range(cs) /\ Range(ds) = {ds[k] : k \in 1..Len(ds)}
    BY ConfigsFacts
  <2>1. PICK k \in 1..Len(ds) : cs[i] = ds[k]
    BY <2>0
  <2>2. ds[k].id = ds[i].id /\ i \in 1..Len(ds)
    BY <1>1, <2>1
  <2>3. k = i
    BY <2>2, ConfigsFacts
  <2>4. QED
    BY <2>1, <2>3
<1>3. cs = [i \in 1..Len(cs) |-> cs[i]] /\ ds = [i \in 1..Len(cs) |-> ds[i]]
  BY <1>1, ConfigsFacts
<1>4. QED
  BY <1>2, <1>3

\* A list sorted by the ids of a list of the same connections is that list.
LEMMA SortedBack ==
  ASSUME NEW cs \in Configs, NEW ds \in Configs, Range(cs) = Range(ds)
  PROVE  Sorted(ds, IdsIn(cs)) = cs
<1> DEFINE ord == IdsIn(cs)
           n == Len(ds)
           m == Len(cs)
           place == [i \in 1..n |-> Place(ord, ds[i].id)]
<1>0. /\ n \in Nat /\ m \in Nat /\ DOMAIN ds = 1..n /\ DOMAIN cs = 1..m
      /\ \A i, j \in 1..n : ds[i].id = ds[j].id => i = j
      /\ \A i, j \in 1..m : cs[i].id = cs[j].id => i = j
      /\ Range(ds) = {ds[i] : i \in 1..n} /\ Range(cs) = {cs[i] : i \in 1..m}
  BY ConfigsFacts
<1>1. ord \in Seq(Ids) /\ DOMAIN ord = 1..m /\ \A i \in 1..m : ord[i] = cs[i].id
  BY IdsInType, <1>0 DEF IdsIn, Orders
<1> HIDE DEF ord
<1>2. \A k \in 1..m : Place(ord, cs[k].id) = k
  <2> SUFFICES ASSUME NEW k \in 1..m PROVE Place(ord, cs[k].id) = k
    OBVIOUS
  <2>1. cs[k].id \in Range(ord) /\ {p \in DOMAIN ord : ord[p] = cs[k].id} = {k}
    BY <1>0, <1>1 DEF Range
  <2>2. QED
    BY <2>1 DEF Place
<1>3. ASSUME NEW i \in 1..n PROVE place[i] \in 1..m /\ cs[place[i]] = ds[i]
  <2>0. ds[i] \in Range(cs) /\ Range(cs) = {cs[k] : k \in 1..m}
    BY <1>0
  <2>1. PICK k \in 1..m : ds[i] = cs[k]
    BY <2>0
  <2>2. QED
    BY <1>2, <2>1
<1>4. \A i, j \in 1..n : place[i] = place[j] => i = j
  BY <1>0, <1>3
<1>5. ASSUME NEW k \in 1..m PROVE \E i \in 1..n : place[i] = k
  <2>0. cs[k] \in Range(ds) /\ Range(ds) = {ds[i] : i \in 1..n}
    BY <1>0
  <2>1. PICK i \in 1..n : ds[i] = cs[k]
    BY <2>0
  <2>2. QED
    BY <1>2, <2>1
<1>6. ASSUME NEW i \in 1..n
      PROVE  Cardinality(Ahead(ds, ord, i)) = place[i] - 1
  <2> DEFINE A == Ahead(ds, ord, i)
             f == [j \in A |-> place[j]]
             B == 1..place[i] - 1
  <2>1. A = {j \in 1..n : place[j] < place[i]}
    <3>1. A = {j \in 1..n : place[j] < place[i] \/ (place[j] = place[i] /\ j < i)}
      BY <1>0 DEF Ahead
    <3>2. QED
      BY <1>4, <3>1
  <2>2. place[i] \in Nat \ {0} /\ place[i] <= m
    BY <1>0, <1>3
  <2>3. \A j \in A : f[j] = place[j] /\ j \in 1..n /\ place[j] \in B
    BY <1>0, <1>3, <2>1, <2>2
  <2> HIDE DEF place, A
  <2>4. \A k \in B : \E j \in A : f[j] = k
    <3> SUFFICES ASSUME NEW k \in B PROVE \E j \in A : f[j] = k
      OBVIOUS
    <3>1. k \in 1..m /\ k < place[i]
      BY <1>0, <2>2
    <3>2. PICK j \in 1..n : place[j] = k
      BY <1>5, <3>1
    <3>3. j \in A
      BY <2>1, <3>1, <3>2
    <3>4. QED
      BY <3>2, <3>3
  <2>5. f \in [A -> B] /\ \A j, k \in A : f[j] = f[k] => j = k
    BY <1>4, <2>3
  <2>6. IsFiniteSet(B) /\ Cardinality(B) = place[i] - 1
    <3> DEFINE b == place[i] - 1
    <3>1. b \in Nat /\ B = 1..b
      BY <2>2
    <3> HIDE DEF b, B
    <3>2. QED
      BY <3>1, Counted DEF b
  <2> HIDE DEF f, B
  <2>7. f \in Injection(A, B) /\ f \in Surjection(A, B)
    BY <2>4, <2>5 DEF Injection, Surjection, IsInjective
  <2>8. Cardinality(A) = Cardinality(B)
    BY <2>6, <2>7, FS_Injection
  <2>9. QED
    BY <2>6, <2>8 DEF A
<1>7. /\ From(ds, ord) \in [1..n -> 1..n]
      /\ \A k \in 1..n : Cardinality(Ahead(ds, ord, From(ds, ord)[k])) = k - 1
      /\ Sorted(ds, ord) = [k \in 1..n |-> ds[From(ds, ord)[k]]]
  <2>1. Sorts(From(ds, ord), ds, ord, n)
    BY <1>0, <1>1, FromType
  <2>2. QED
    BY <2>1 DEF Sorts
<1>8. ASSUME NEW k \in 1..n
      PROVE  k \in 1..m /\ Sorted(ds, ord)[k] = cs[k]
  <2> DEFINE i == From(ds, ord)[k]
  <2>1. i \in 1..n /\ Sorted(ds, ord)[k] = ds[i]
    BY <1>7
  <2>2. place[i] - 1 = k - 1 /\ place[i] \in 1..m
    BY <1>3, <1>6, <1>7, <2>1
  <2> HIDE DEF i, place
  <2>3. place[i] = k
    BY <1>0, <2>2
  <2>4. QED
    BY <1>3, <2>1, <2>2, <2>3
<1>9. m = n
  <2> HIDE DEF place
  <2>0. place \in [1..n -> 1..m]
    BY <1>3 DEF place
  <2>1. IsFiniteSet(1..n) /\ Cardinality(1..n) = n /\ IsFiniteSet(1..m) /\ Cardinality(1..m) = m
    BY <1>0, Counted
  <2>2. place \in Injection(1..n, 1..m) /\ place \in Surjection(1..n, 1..m)
    BY <1>4, <1>5, <2>0 DEF Injection, Surjection, IsInjective
  <2>3. QED
    BY <2>1, <2>2, FS_Injection
<1>10. Sorted(ds, ord) = [k \in 1..m |-> cs[k]]
  BY <1>7, <1>8, <1>9
<1>11. cs = [k \in 1..m |-> cs[k]]
  BY <1>0, ConfigsFacts
<1>12. QED
  BY <1>10, <1>11 DEF ord

-----------------------------------------------------------------------------
(***************************************************************************)
(* The calls of the storages.                                              *)
(***************************************************************************)

\* Empty lists, and empty credentials.
LEMMA Empties ==
  /\ <<>> \in Configs /\ <<>> \in Lists /\ <<>> \in Orders
  /\ Blank \in Credentials /\ None \notin Ids /\ Parts \in Nat \ {0}
<1>1. \A S : <<>> \in Seq(S)
  OBVIOUS
<1>2. IdsIn(<<>>) = <<>> /\ IsInjective(<<>>)
  BY DEF IdsIn, IsInjective
<1>3. QED
  BY <1>1, <1>2, PartsAssumption, NoneAssumption DEF Configs, Lists, Orders, Blank, Credentials

\* Credentials are told apart by their parts.
LEMMA SameCredentials ==
  ASSUME NEW x \in Credentials, NEW y \in Credentials, \A p \in 1..Parts : x[p] = y[p]
  PROVE  x = y
<1>1. x = [p \in 1..Parts |-> x[p]] /\ y = [p \in 1..Parts |-> y[p]]
  BY DEF Credentials
<1>2. QED
  BY <1>1

\* The first call of _persist.
LEMMA PersistCallType ==
  ASSUME NEW op \in {"save", "delete", "reorder"}, NEW id \in Ids \cup {None},
         op = "reorder" <=> id = None, NEW cred \in Credentials, NEW cs \in Configs
  PROVE  PersistCall(op, id, cred, cs) \in PrefsCall
BY ToJsonType DEF PersistCall, PrefsCall

\* The second one.
LEMMA OrderCallType ==
  ASSUME NEW c \in PrefsCall, NEW cs \in Configs
  PROVE  [c EXCEPT !.key = "order", !.value = IdsIn(cs)] \in PrefsCall
BY IdsInType DEF PrefsCall

\* The first call of a save or a delete of credentials.
LEMMA VaultCallMade ==
  ASSUME NEW op \in {"save", "delete"}, NEW id \in Ids, NEW cred \in Credentials
  PROVE  VaultCall(op, id, cred) \in VaultCallType
BY Empties DEF VaultCall, VaultCallType

\* The first call of a load, and of the load of the next connection.
LEMMA LoadCallMade ==
  ASSUME NEW todo \in Lists, todo # <<>>, NEW done \in Configs, NEW ord \in Orders,
         \A i \in DOMAIN done, j \in DOMAIN todo : done[i].id # todo[j].id
  PROVE  LoadCall(todo, done, ord) \in VaultCallType
BY Empties DEF LoadCall, VaultCallType

\* The next credential of a connection.
LEMMA NextPart ==
  ASSUME NEW c \in VaultCallType, c.part < Parts \/ (c.op = "save" /\ c.part <= Parts),
         NEW cred \in Credentials
  PROVE  /\ [c EXCEPT !.part = @ + 1] \in VaultCallType
         /\ [c EXCEPT !.part = @ + 1, !.cred = cred] \in VaultCallType
<1>1. c.part + 1 \in 1..Parts + 1 /\ (c.op # "save" => c.part + 1 <= Parts)
  BY Empties DEF VaultCallType
<1> DEFINE Record == [op : {"save", "delete", "load"}, id : Ids \cup {None}, cred : Credentials,
                      part : 1..Parts + 1, todo : Lists, done : Configs, ord : Orders]
           Sound(d) == /\ d.op = "load" <=> d.id = None
                       /\ d.op # "save" => d.part <= Parts
                       /\ d.op = "load" => d.todo # <<>>
                       /\ \A i \in DOMAIN d.done, j \in DOMAIN d.todo : d.done[i].id # d.todo[j].id
<1>2. VaultCallType = {d \in Record : Sound(d)}
  BY DEF VaultCallType
<1>3. c \in Record /\ Sound(c)
  BY <1>2
<1>4. ASSUME NEW part \in 1..Parts + 1, c.op # "save" => part <= Parts, NEW x \in Credentials
      PROVE  [c EXCEPT !.part = part, !.cred = x] \in VaultCallType
  <2> DEFINE d == [c EXCEPT !.part = part, !.cred = x]
  <2>1. d \in Record
    BY <1>3
  <2>2. d.op = c.op /\ d.id = c.id /\ d.part = part /\ d.todo = c.todo /\ d.done = c.done
    BY <1>3
  <2> HIDE DEF d, Record
  <2>3. Sound(d)
    BY <1>3, <1>4, <2>2
  <2>4. QED
    BY <1>2, <2>1, <2>3 DEF d
<1>5. ASSUME NEW part \in 1..Parts + 1, c.op # "save" => part <= Parts
      PROVE  [c EXCEPT !.part = part] \in VaultCallType
  <2> DEFINE d == [c EXCEPT !.part = part]
  <2>1. d \in Record
    BY <1>3
  <2>2. d.op = c.op /\ d.id = c.id /\ d.part = part /\ d.todo = c.todo /\ d.done = c.done
    BY <1>3
  <2> HIDE DEF d, Record
  <2>3. Sound(d)
    BY <1>3, <1>5, <2>2
  <2>4. QED
    BY <1>2, <2>1, <2>3 DEF d
<1>6. QED
  BY <1>1, <1>4, <1>5

\* A call of the secure storage that is answered.
LEMMA CallFacts ==
  ASSUME NEW c \in VaultCallType
  PROVE  /\ c.cred \in Credentials /\ c.part \in 1..Parts + 1 /\ c.part \in Nat /\ c.id \in Ids \cup {None}
         /\ c.op # "load" => c.id \in Ids
         /\ c.op # "save" => c.part \in 1..Parts
         /\ c.part <= Parts => c.part \in 1..Parts
         /\ c.op \in {"save", "delete", "load"} /\ (c.op = "load" <=> c.id = None)
         /\ c.todo \in Lists /\ c.done \in Configs /\ c.ord \in Orders
         /\ c.op = "load" => c.todo # <<>>
         /\ \A i \in DOMAIN c.done, j \in DOMAIN c.todo : c.done[i].id # c.todo[j].id
BY Empties DEF VaultCallType

\* One credential is written, the others stay.
Puts(old, new, id, part, v) ==
  /\ old \in [Ids -> Credentials] /\ id \in Ids /\ part \in 1..Parts
  /\ v \in Versions \cup {None}
  /\ new = [old EXCEPT ![id][part] = v]

LEMMA Written ==
  ASSUME NEW old, NEW new, NEW id, NEW part, NEW v, Puts(old, new, id, part, v)
  PROVE  /\ new \in [Ids -> Credentials]
         /\ \A x \in Ids : x # id => new[x] = old[x]
         /\ \A p \in 1..Parts : p # part => new[id][p] = old[id][p]
         /\ new[id][part] = v
<1>1. /\ old[id] \in [1..Parts -> Versions \cup {None}]
      /\ new = [old EXCEPT ![id] = [old[id] EXCEPT ![part] = v]]
  BY DEF Puts, Credentials
<1> DEFINE cred == [old[id] EXCEPT ![part] = v]
<1>2. /\ cred \in Credentials /\ cred[part] = v
      /\ \A p \in 1..Parts : p # part => cred[p] = old[id][p]
  BY <1>1 DEF Puts, Credentials
<1>3. new = [old EXCEPT ![id] = cred]
  BY <1>1
<1> HIDE DEF cred
<1>4. old \in [Ids -> Credentials] /\ id \in Ids
  BY DEF Puts
<1>5. new \in [Ids -> Credentials] /\ new[id] = cred /\ \A x \in Ids : x # id => new[x] = old[x]
  BY <1>2, <1>3, <1>4
<1>6. QED
  BY <1>2, <1>5

\* load goes on with the next connection: none is read twice, and none left out.
ReadOn(todo, done, cred, more) ==
  more = Append(done, [id |-> Head(todo).id, text |-> Head(todo).text, cred |-> cred])

LEMMA ReadType ==
  ASSUME NEW todo \in Lists, todo # <<>>, NEW done \in Configs, NEW cred \in Credentials,
         \A i \in DOMAIN done, j \in DOMAIN todo : done[i].id # todo[j].id,
         NEW more, ReadOn(todo, done, cred, more)
  PROVE  /\ more \in Configs /\ Tail(todo) \in Lists
         /\ Len(todo) > 1 => Tail(todo) # <<>>
         /\ \A i \in DOMAIN more, j \in DOMAIN Tail(todo) : more[i].id # Tail(todo)[j].id
<1> DEFINE c == [id |-> Head(todo).id, text |-> Head(todo).text, cred |-> cred]
           t == Tail(todo)
<1>1. /\ todo \in Seq(Row) /\ \A i, j \in 1..Len(todo) : todo[i].id = todo[j].id => i = j
      /\ DOMAIN todo = 1..Len(todo)
  BY ListsFacts
<1>2. /\ Head(todo) = todo[1] /\ 1 \in 1..Len(todo) /\ todo[1] \in Row
      /\ t \in Seq(Row) /\ Len(todo) \in Nat \ {0} /\ Len(t) = Len(todo) - 1
      /\ \A i \in 1..Len(t) : t[i] = todo[i + 1] /\ i + 1 \in 1..Len(todo)
  BY <1>1, Served
<1>3. c \in ConnectionConfig /\ c.id = todo[1].id
  BY <1>2 DEF ConnectionConfig, Row
<1>4. /\ done \in Seq(ConnectionConfig) /\ DOMAIN done = 1..Len(done)
      /\ \A i, j \in 1..Len(done) : done[i].id = done[j].id => i = j
  BY ConfigsFacts
<1> HIDE DEF c
<1>5. /\ more \in Seq(ConnectionConfig) /\ Len(more) = Len(done) + 1
      /\ \A i \in 1..Len(done) : more[i] = done[i]
      /\ more[Len(done) + 1] = c
      /\ \A i \in 1..Len(more) : i \in 1..Len(done) \/ i = Len(done) + 1
      /\ Len(done) \in Nat
  <2>1. more = Append(done, c)
    BY DEF ReadOn, c
  <2>2. QED
    BY <1>3, <1>4, <2>1, Appended
<1>6. \A i \in 1..Len(done), j \in 1..Len(todo) : done[i].id # todo[j].id
  BY <1>1, <1>4
<1>7. \A i, j \in 1..Len(more) : more[i].id = more[j].id => i = j
  BY <1>2, <1>3, <1>4, <1>5, <1>6
<1>8. more \in Configs /\ DOMAIN more = 1..Len(more)
  BY <1>5, <1>7, Distinct DEF Configs
<1>9. t \in Lists /\ DOMAIN t = 1..Len(t)
  <2>1. \A i, j \in 1..Len(t) : t[i].id = t[j].id => i = j
    <3> SUFFICES ASSUME NEW i \in 1..Len(t), NEW j \in 1..Len(t), t[i].id = t[j].id PROVE i = j
      OBVIOUS
    <3>1. i + 1 = j + 1
      BY <1>1, <1>2
    <3>2. QED
      BY <3>1
  <2>2. QED
    BY <1>2, <2>1, Distinct DEF Lists
<1>10. \A i \in 1..Len(more), j \in 1..Len(t) : more[i].id # t[j].id
  <2> SUFFICES ASSUME NEW i \in 1..Len(more), NEW j \in 1..Len(t), more[i].id = t[j].id PROVE FALSE
    OBVIOUS
  <2>1. t[j] = todo[j + 1] /\ j + 1 \in 1..Len(todo) /\ j + 1 # 1
    BY <1>2
  <2>2. CASE i \in 1..Len(done)
    BY <1>5, <1>6, <2>1, <2>2
  <2>3. CASE i = Len(done) + 1
    BY <1>1, <1>2, <1>3, <1>5, <2>1, <2>3
  <2>4. QED
    BY <1>5, <2>2, <2>3
<1>11. Len(todo) > 1 => t # <<>>
  BY <1>2
<1>12. QED
  BY <1>8, <1>9, <1>10, <1>11 DEF t

\* The load among the calls when one is added, served, or goes on.
LEMMA LoadAppended ==
  ASSUME NEW q \in Seq(VaultCallType), NEW c \in VaultCallType, c.op # "load", NEW over, OneLoad(q, over)
  PROVE  OneLoad(Append(q, c), over)
<1> DEFINE r == Append(q, c)
<1>1. /\ Len(r) = Len(q) + 1 /\ \A i \in 1..Len(q) : r[i] = q[i] /\ i \in 1..Len(r)
      /\ r[Len(q) + 1] = c
      /\ \A i \in 1..Len(r) : i \in 1..Len(q) \/ i = Len(q) + 1
  BY Appended
<1> HIDE DEF r
<1>2. OneLoad(r, over)
  BY <1>1 DEF OneLoad
<1>3. QED
  BY <1>2 DEF r

LEMMA LoadServed ==
  ASSUME NEW q \in Seq(VaultCallType), q # <<>>, Head(q).op # "load", NEW over, OneLoad(q, over)
  PROVE  OneLoad(Tail(q), over)
<1> DEFINE r == Tail(q)
<1>1. /\ Head(q) = q[1]
      /\ \A i \in 1..Len(r) : r[i] = q[i + 1] /\ i + 1 \in 1..Len(q)
      /\ \A i \in 1..Len(q) : i = 1 \/ (i - 1 \in 1..Len(r) /\ q[i] = r[i - 1])
  BY Served
<1> HIDE DEF r
<1>2. over <=> \A i \in 1..Len(r) : r[i].op # "load"
  BY <1>1 DEF OneLoad
<1>3. \A i, j \in 1..Len(r) : r[i].op = "load" /\ r[j].op = "load" => i + 1 = j + 1
  BY <1>1 DEF OneLoad
<1>4. \A i, j \in 1..Len(r) : r[i].op = "load" /\ r[j].op = "load" => i = j
  BY <1>3
<1>5. OneLoad(r, over)
  BY <1>2, <1>4 DEF OneLoad
<1>6. QED
  BY <1>5 DEF r

LEMMA LoadOver ==
  ASSUME NEW q \in Seq(VaultCallType), q # <<>>, Head(q).op = "load", NEW over, OneLoad(q, over)
  PROVE  OneLoad(Tail(q), TRUE)
<1> DEFINE r == Tail(q)
<1>1. /\ Head(q) = q[1] /\ 1 \in 1..Len(q)
      /\ \A i \in 1..Len(r) : r[i] = q[i + 1] /\ i + 1 \in 1..Len(q) /\ i + 1 # 1
  BY Served
<1> HIDE DEF r
<1>2. \A i \in 1..Len(r) : r[i].op # "load"
  BY <1>1 DEF OneLoad
<1>3. OneLoad(r, TRUE)
  BY <1>2 DEF OneLoad
<1>4. QED
  BY <1>3 DEF r

LEMMA LoadRotated ==
  ASSUME NEW q \in Seq(VaultCallType), q # <<>>, NEW c \in VaultCallType, c.op = Head(q).op,
         NEW over, OneLoad(q, over)
  PROVE  OneLoad(Append(Tail(q), c), over)
<1> DEFINE r == Append(Tail(q), c)
           n == Len(q)
<1>1. /\ Len(r) = n /\ n \in Nat \ {0}
      /\ \A i \in 1..n : i = n \/ (i + 1 \in 1..n /\ r[i] = q[i + 1])
      /\ r[n] = c
      /\ \A i \in 1..n : i = 1 \/ (i - 1 \in 1..n /\ r[i - 1] = q[i])
  BY Rotated
<1>2. Head(q) = q[1]
  BY Served
<1> HIDE DEF r, n
<1>3. n \in 1..n /\ 1 \in 1..n
  BY <1>1
<1>4. over <=> \A i \in 1..n : r[i].op # "load"
  <2>1. CASE over
    BY <1>1, <1>2, <1>3, <2>1 DEF OneLoad, n
  <2>2. CASE ~over
    <3>1. PICK i \in 1..n : q[i].op = "load"
      BY <2>2 DEF OneLoad, n
    <3>2. CASE i = 1
      BY <1>1, <1>2, <1>3, <2>2, <3>1, <3>2
    <3>3. CASE i # 1
      <4>1. i - 1 \in 1..n /\ r[i - 1] = q[i]
        BY <1>1, <3>3
      <4>2. QED
        BY <2>2, <3>1, <4>1
    <3>4. QED
      BY <3>2, <3>3
  <2>3. QED
    BY <2>1, <2>2
<1>5. ASSUME NEW i \in 1..n, NEW j \in 1..n, r[i].op = "load", r[j].op = "load" PROVE i = j
  <2>1. \A k \in 1..n : k + 1 # 1
    BY <1>1
  <2>2. CASE i = n /\ j # n
    BY <1>1, <1>2, <1>3, <1>5, <2>1, <2>2 DEF OneLoad, n
  <2>3. CASE i # n /\ j = n
    BY <1>1, <1>2, <1>3, <1>5, <2>1, <2>3 DEF OneLoad, n
  <2>4. CASE i # n /\ j # n
    <3>1. i + 1 = j + 1
      BY <1>1, <1>5, <2>4 DEF OneLoad, n
    <3>2. QED
      BY <3>1
  <2>5. QED
    BY <2>2, <2>3, <2>4
<1>6. OneLoad(r, over)
  BY <1>1, <1>4, <1>5 DEF OneLoad
<1>7. QED
  BY <1>6 DEF r

-----------------------------------------------------------------------------
(***************************************************************************)
(* Every step keeps the shape of the state.                                *)
(***************************************************************************)

LEMMA InitShape ==
  ASSUME Init
  PROVE  Shape
<1>1. <<>> \in Seq(PrefsCall) /\ <<>> \in Seq(VaultCallType) /\ OneLoad(<<>>, TRUE)
  BY DEF OneLoad
<1>2. QED
  BY <1>1, Empties DEF Init, Shape

LEMMA SaveShape ==
  ASSUME Shape, NEW c \in ConnectionConfig, save(c)
  PROVE  Shape'
<1>1. /\ connections \in Configs /\ connections' = Put(connections, c)
      /\ prefsCalls' = Append(prefsCalls, PersistCall("save", c.id, c.cred, connections'))
      /\ prefsCalls \in Seq(PrefsCall)
  BY DEF save, Shape
<1>2. connections' \in Configs
  BY <1>1, PutType
<1>3. c.id \in Ids /\ c.cred \in Credentials /\ c.id # None
  BY Empties DEF ConnectionConfig
<1>4. PersistCall("save", c.id, c.cred, connections') \in PrefsCall
  BY <1>2, <1>3, PersistCallType
<1>5. prefsCalls' \in Seq(PrefsCall)
  BY <1>1, <1>4
<1>6. wanted' \subseteq ConnectionConfig /\ unsure' \subseteq Ids \cup {None} /\ dialog' = None
  BY DEF save, Shape
<1>7. QED
  BY <1>2, <1>5, <1>6 DEF save, Shape, storage

LEMMA AddShape ==
  ASSUME Shape, Add
  PROVE  Shape'
<1>1. PICK id \in Ids, v \in Versions : save([id |-> id, text |-> v, cred |-> [p \in 1..Parts |-> v]])
  BY DEF Add
<1>2. [id |-> id, text |-> v, cred |-> [p \in 1..Parts |-> v]] \in ConnectionConfig
  BY DEF ConnectionConfig, Credentials
<1>3. QED
  BY <1>1, <1>2, SaveShape

LEMMA EditShape ==
  ASSUME Shape, Edit
  PROVE  Shape'
<1>0. PICK v \in Versions : \E cred \in {dialog.cred, Blank, [p \in 1..Parts |-> v]} :
        save([id |-> dialog.id, text |-> v, cred |-> cred])
  BY DEF Edit
<1>1. PICK cred \in {dialog.cred, Blank, [p \in 1..Parts |-> v]} :
        save([id |-> dialog.id, text |-> v, cred |-> cred])
  BY <1>0
<1>2. dialog \in ConnectionConfig
  BY DEF Edit, Shape
<1>3. [id |-> dialog.id, text |-> v, cred |-> cred] \in ConnectionConfig
  BY <1>2, Empties DEF ConnectionConfig, Credentials
<1>4. QED
  BY <1>1, <1>3, SaveShape

LEMMA DeleteShape ==
  ASSUME Shape, delete
  PROVE  Shape'
<1>1. dialog \in ConnectionConfig /\ dialog.id \in Ids
  BY DEF delete, Shape, ConnectionConfig
<1>2. connections' \in Configs
  BY WithoutType DEF delete, Shape
<1> DEFINE c == VaultCall("delete", dialog.id, Blank)
<1>3. c \in VaultCallType
  BY <1>1, Empties, VaultCallMade
<1>4. c.op # "load"
  BY DEF VaultCall
<1>5. vaultCalls' = Append(vaultCalls, c) /\ vaultCalls \in Seq(VaultCallType) /\ OneLoad(vaultCalls, loaded)
  BY DEF delete, Shape
<1> HIDE DEF c
<1>6. vaultCalls' \in Seq(VaultCallType) /\ OneLoad(vaultCalls', loaded)
  BY <1>3, <1>4, <1>5, LoadAppended, Appended
<1>7. wanted' \subseteq ConnectionConfig /\ unsure' \subseteq Ids \cup {None} /\ dialog' = None
  BY DEF delete, Shape
<1>8. QED
  BY <1>2, <1>6, <1>7 DEF delete, Shape, storage

LEMMA DragShape ==
  ASSUME Shape, Drag
  PROVE  Shape'
<1>1. PICK from \in DOMAIN shown, to \in DOMAIN shown : reorder(from, to)
  BY DEF Drag
<1>2. from \in Nat \ {0} /\ to \in Nat \ {0} /\ connections \in Configs /\ Len(connections) \in Nat
  BY ConfigsFacts DEF Shape
<1> DEFINE rest == RemoveAt(connections, from)
<1>3. CASE from > Len(connections)
  <2>1. connections' = connections /\ prefsCalls' = prefsCalls
    BY <1>1, <1>2, <1>3 DEF reorder
  <2>2. QED
    BY <1>1, <2>1 DEF reorder, Shape, storage, history
<1>4. CASE from <= Len(connections)
  <2>1. from \in 1..Len(connections)
    BY <1>2, <1>4
  <2>2. rest \in Configs /\ Len(rest) = Len(connections) - 1
    BY <1>2, <2>1, RemoveAtType
  <2>3. CASE to > Len(connections)
    <3>1. ~(to <= Len(rest) + 1)
      BY <1>2, <2>2, <2>3
    <3>2. connections' = rest /\ prefsCalls' = prefsCalls
      BY <1>1, <1>4, <3>1 DEF reorder
    <3> HIDE DEF rest
    <3>3. QED
      BY <1>1, <2>2, <3>2 DEF reorder, Shape, storage, history
  <2>4. CASE to <= Len(connections)
    <3>1. to <= Len(rest) + 1 /\ to \in 1..Len(connections)
      BY <1>2, <2>2, <2>4
    <3>2. /\ connections' = InsertAt(rest, to, connections[from])
          /\ prefsCalls' = Append(prefsCalls, PersistCall("reorder", None, Blank, connections'))
      BY <1>1, <1>4, <3>1 DEF reorder
    <3>3. connections' \in Configs
      BY <1>2, <2>1, <3>1, <3>2, InsertAtType
    <3>4. PersistCall("reorder", None, Blank, connections') \in PrefsCall
      BY <3>3, Empties, PersistCallType
    <3>5. prefsCalls' \in Seq(PrefsCall)
      BY <3>2, <3>4 DEF Shape
    <3>6. QED
      BY <1>1, <3>3, <3>5 DEF reorder, Shape, storage, history
  <2>5. QED
    BY <1>2, <2>3, <2>4
<1>5. QED
  BY <1>2, <1>3, <1>4

LEMMA PageShape ==
  ASSUME Shape, OpenDialog \/ CancelDialog \/ OpenPage
  PROVE  Shape'
<1>1. CASE OpenDialog
  <2>1. dialog' \in ConnectionConfig
    BY <1>1, ConfigsFacts DEF OpenDialog, Shape
  <2>2. QED
    BY <1>1, <2>1 DEF OpenDialog, Shape, storage, calls, history
<1>2. CASE CancelDialog
  BY <1>2 DEF CancelDialog, Shape, storage, calls, history
<1>3. CASE OpenPage
  BY <1>3 DEF OpenPage, Shape, storage, calls, history
<1>4. QED
  BY <1>1, <1>2, <1>3

LEMMA ListWrittenShape ==
  ASSUME Shape, ListWritten
  PROVE  Shape'
<1> DEFINE c == Head(prefsCalls)
           d == [c EXCEPT !.key = "order", !.value = IdsIn(connections)]
<1>1. prefsCalls \in Seq(PrefsCall) /\ prefsCalls # <<>> /\ c \in PrefsCall /\ connections \in Configs
  BY DEF ListWritten, Shape
<1>2. list' = c.value /\ c.key = "list" /\ prefsCalls' = Append(Tail(prefsCalls), d)
  BY DEF ListWritten
<1>3. list' \in Lists
  BY <1>1, <1>2 DEF PrefsCall
<1>4. d \in PrefsCall
  BY <1>1, OrderCallType
<1>5. prefsCalls' \in Seq(PrefsCall)
  BY <1>1, <1>2, <1>4, Rotated
<1>6. QED
  BY <1>3, <1>5 DEF ListWritten, Shape, history

LEMMA OrderWrittenShape ==
  ASSUME Shape, OrderWritten
  PROVE  Shape'
<1> DEFINE c == Head(prefsCalls)
           d == VaultCall("save", c.id, c.cred)
<1>1. prefsCalls \in Seq(PrefsCall) /\ prefsCalls # <<>> /\ c \in PrefsCall
      /\ vaultCalls \in Seq(VaultCallType) /\ OneLoad(vaultCalls, loaded)
  BY DEF OrderWritten, Shape
<1>2. order' \in Orders /\ prefsCalls' \in Seq(PrefsCall)
  BY <1>1 DEF OrderWritten, PrefsCall
<1>3. shown' \in Configs /\ unsure' \subseteq Ids \cup {None}
  BY DEF OrderWritten, Shape, Notify
<1>4. vaultCalls' \in Seq(VaultCallType) /\ OneLoad(vaultCalls', loaded)
  <2>1. CASE c.op = "save"
    <3>1. c.id \in Ids /\ c.cred \in Credentials
      BY <1>1, <2>1 DEF PrefsCall
    <3>2. d \in VaultCallType
      BY <3>1, VaultCallMade
    <3>3. d.op # "load"
      BY DEF VaultCall
    <3>4. vaultCalls' = Append(vaultCalls, d)
      BY <2>1 DEF OrderWritten
    <3> HIDE DEF d
    <3>5. QED
      BY <1>1, <3>2, <3>3, <3>4, LoadAppended, Appended
  <2>2. CASE c.op # "save"
    BY <1>1, <2>2 DEF OrderWritten
  <2>3. QED
    BY <2>1, <2>2
<1>5. QED
  BY <1>2, <1>3, <1>4 DEF OrderWritten, Shape

LEMMA PrefsThrowShape ==
  ASSUME Shape, PrefsThrow
  PROVE  Shape'
<1>1. Head(prefsCalls) \in PrefsCall /\ prefsCalls' \in Seq(PrefsCall)
  BY DEF PrefsThrow, Shape
<1>2. unsure' \subseteq Ids \cup {None}
  BY <1>1 DEF PrefsThrow, PrefsCall, Shape
<1>3. QED
  BY <1>1, <1>2 DEF PrefsThrow, Shape, storage

\* The call of the secure storage that is answered is taken, or goes on.
LEMMA VaultServed ==
  ASSUME Shape, vaultCalls # <<>>
  PROVE  /\ Head(vaultCalls) \in VaultCallType /\ Tail(vaultCalls) \in Seq(VaultCallType)
         /\ Head(vaultCalls).op # "load" => OneLoad(Tail(vaultCalls), loaded)
         /\ Head(vaultCalls).op = "load" => OneLoad(Tail(vaultCalls), TRUE)
         /\ \A c \in VaultCallType : c.op = Head(vaultCalls).op =>
              /\ Append(Tail(vaultCalls), c) \in Seq(VaultCallType)
              /\ OneLoad(Append(Tail(vaultCalls), c), loaded)
<1>1. vaultCalls \in Seq(VaultCallType) /\ OneLoad(vaultCalls, loaded)
  BY DEF Shape
<1>2. Head(vaultCalls) \in VaultCallType /\ Tail(vaultCalls) \in Seq(VaultCallType)
  BY <1>1
<1>3. QED
  BY <1>1, <1>2, LoadServed, LoadOver, LoadRotated, Appended

LEMMA SaveAnsweredShape ==
  ASSUME Shape, SaveAnswered
  PROVE  Shape'
<1> DEFINE c == Head(vaultCalls)
<1>1. vaultCalls # <<>> /\ c \in VaultCallType /\ c.op = "save"
  BY VaultServed DEF SaveAnswered
<1>2. c.id \in Ids /\ c.cred \in Credentials
  BY <1>1, CallFacts
<1>3. CASE c.part <= Parts
  <2>1. c.part \in 1..Parts
    BY <1>1, <1>3, CallFacts
  <2>2. c.cred[c.part] \in Versions \cup {None} /\ vault' = [vault EXCEPT ![c.id][c.part] = c.cred[c.part]]
    BY <1>2, <1>3, <2>1 DEF SaveAnswered, Credentials
  <2>3. vault' \in [Ids -> Credentials]
    <3>1. Puts(vault, vault', c.id, c.part, c.cred[c.part])
      BY <1>2, <2>1, <2>2 DEF Shape, Puts
    <3>2. QED
      BY <3>1, Written
  <2> DEFINE d == [c EXCEPT !.part = @ + 1]
  <2>4. d \in VaultCallType
    BY <1>1, <1>2, <1>3, NextPart
  <2>5. d.op = c.op
    BY <1>1 DEF VaultCallType
  <2>6. vaultCalls' = Append(Tail(vaultCalls), d)
    BY <1>3 DEF SaveAnswered
  <2> HIDE DEF d
  <2>7. vaultCalls' \in Seq(VaultCallType) /\ OneLoad(vaultCalls', loaded)
    BY <1>1, <2>4, <2>5, <2>6, VaultServed
  <2>8. QED
    BY <1>3, <2>3, <2>7 DEF SaveAnswered, Shape, history
<1>4. CASE ~(c.part <= Parts)
  <2>1. vaultCalls' \in Seq(VaultCallType) /\ OneLoad(vaultCalls', loaded)
    BY <1>1, <1>4, VaultServed DEF SaveAnswered
  <2>2. QED
    BY <1>4, <2>1 DEF SaveAnswered, Shape, history, Notify
<1>5. QED
  BY <1>3, <1>4

LEMMA SaveThrowsShape ==
  ASSUME Shape, SaveThrows
  PROVE  Shape'
<1> DEFINE c == Head(vaultCalls)
<1>1. vaultCalls # <<>> /\ c \in VaultCallType /\ c.op = "save"
  BY VaultServed DEF SaveThrows
<1>2. vaultCalls' \in Seq(VaultCallType) /\ OneLoad(vaultCalls', loaded)
  BY <1>1, VaultServed DEF SaveThrows
<1>3. unsure' \subseteq Ids \cup {None}
  BY <1>1, CallFacts DEF SaveThrows, Shape
<1>4. QED
  BY <1>2, <1>3 DEF SaveThrows, Shape, storage, Notify

\* Deleted is over with the call at the head.
LEMMA DeletedShape ==
  ASSUME Shape, vaultCalls # <<>>, Head(vaultCalls).op = "delete", Deleted(Head(vaultCalls))
  PROVE  /\ vaultCalls' \in Seq(VaultCallType) /\ OneLoad(vaultCalls', loaded)
         /\ prefsCalls' \in Seq(PrefsCall)
<1> DEFINE c == Head(vaultCalls)
<1>1. c \in VaultCallType /\ c.id \in Ids /\ c.id # None
  BY VaultServed, CallFacts, Empties
<1>2. PersistCall("delete", c.id, Blank, connections) \in PrefsCall
  BY <1>1, Empties, PersistCallType DEF Shape
<1>3. prefsCalls' \in Seq(PrefsCall)
  BY <1>2, Appended DEF Shape, Deleted
<1>4. QED
  BY <1>3, VaultServed DEF Deleted

LEMMA DeleteAnsweredShape ==
  ASSUME Shape, DeleteAnswered
  PROVE  Shape'
<1> DEFINE c == Head(vaultCalls)
<1>1. vaultCalls # <<>> /\ c \in VaultCallType /\ c.op = "delete"
  BY VaultServed DEF DeleteAnswered
<1>2. c.id \in Ids /\ c.cred \in Credentials /\ c.part \in 1..Parts
  BY <1>1, CallFacts
<1>3. vault' \in [Ids -> Credentials]
  <2>1. Puts(vault, vault', c.id, c.part, None)
    BY <1>2 DEF DeleteAnswered, Shape, Puts
  <2>2. QED
    BY <2>1, Written
<1>4. CASE c.part < Parts
  <2> DEFINE d == [c EXCEPT !.part = @ + 1]
  <2>1. d \in VaultCallType
    BY <1>1, <1>2, <1>4, NextPart
  <2>2. d.op = c.op
    BY <1>1 DEF VaultCallType
  <2>3. vaultCalls' = Append(Tail(vaultCalls), d)
    BY <1>4 DEF DeleteAnswered
  <2> HIDE DEF d
  <2>4. vaultCalls' \in Seq(VaultCallType) /\ OneLoad(vaultCalls', loaded)
    BY <1>1, <2>1, <2>2, <2>3, VaultServed
  <2>5. QED
    BY <1>3, <1>4, <2>4 DEF DeleteAnswered, Shape, history
<1>5. CASE ~(c.part < Parts)
  <2>1. Deleted(c)
    BY <1>5 DEF DeleteAnswered
  <2>2. QED
    BY <1>1, <1>3, <2>1, DeletedShape DEF DeleteAnswered, Shape, history
<1>6. QED
  BY <1>4, <1>5

LEMMA DeleteThrowsShape ==
  ASSUME Shape, DeleteThrows
  PROVE  Shape'
BY DeletedShape DEF DeleteThrows, Shape, storage, history

\* load goes on with the next connection, or is over.
LEMMA ReadShape ==
  ASSUME Shape, vaultCalls # <<>>, Head(vaultCalls).op = "load", NEW cred \in Credentials,
         Read(Head(vaultCalls), cred), unsure' \subseteq Ids \cup {None},
         UNCHANGED <<dialog, storage, prefsCalls, wanted>>
  PROVE  Shape'
<1> DEFINE c == Head(vaultCalls)
           more == Append(c.done, [id |-> Head(c.todo).id, text |-> Head(c.todo).text, cred |-> cred])
<1>1. c \in VaultCallType /\ c.todo \in Lists /\ c.done \in Configs /\ c.ord \in Orders
      /\ c.todo # <<>> /\ \A i \in DOMAIN c.done, j \in DOMAIN c.todo : c.done[i].id # c.todo[j].id
  BY VaultServed, CallFacts
<1>2. /\ more \in Configs /\ Tail(c.todo) \in Lists
      /\ Len(c.todo) > 1 => Tail(c.todo) # <<>>
      /\ \A i \in DOMAIN more, j \in DOMAIN Tail(c.todo) : more[i].id # Tail(c.todo)[j].id
  <2> DEFINE todo == c.todo
             done == c.done
  <2>1. /\ todo \in Lists /\ todo # <<>> /\ done \in Configs
        /\ \A i \in DOMAIN done, j \in DOMAIN todo : done[i].id # todo[j].id
        /\ ReadOn(todo, done, cred, more)
    <3>1. ReadOn(todo, done, cred, more)
      BY DEF ReadOn
    <3> HIDE DEF c, more
    <3>2. QED
      BY <1>1, <3>1
  <2> HIDE DEF todo, done, more
  <2>2. /\ more \in Configs /\ Tail(todo) \in Lists
        /\ Len(todo) > 1 => Tail(todo) # <<>>
        /\ \A i \in DOMAIN more, j \in DOMAIN Tail(todo) : more[i].id # Tail(todo)[j].id
    BY <2>1, ReadType
  <2>3. QED
    BY <2>2 DEF todo
<1>3. IF Len(c.todo) > 1
      THEN /\ vaultCalls' = Append(Tail(vaultCalls), LoadCall(Tail(c.todo), more, c.ord))
           /\ UNCHANGED <<connections, loaded, shown>>
      ELSE /\ vaultCalls' = Tail(vaultCalls)
           /\ connections' = Sorted(more, c.ord) /\ loaded' = TRUE /\ shown' = connections'
  BY DEF Read
<1> HIDE DEF more
<1>4. CASE Len(c.todo) > 1
  <2> DEFINE d == LoadCall(Tail(c.todo), more, c.ord)
  <2>1. d \in VaultCallType
    BY <1>1, <1>2, <1>4, LoadCallMade
  <2>2. d.op = c.op
    BY DEF LoadCall
  <2>3. vaultCalls' = Append(Tail(vaultCalls), d)
    BY <1>3, <1>4
  <2> HIDE DEF d
  <2>4. vaultCalls' \in Seq(VaultCallType) /\ OneLoad(vaultCalls', loaded)
    BY <2>1, <2>2, <2>3, VaultServed
  <2>5. QED
    BY <1>3, <1>4, <2>4 DEF Shape, storage
<1>5. CASE ~(Len(c.todo) > 1)
  <2>1. c.ord \in Seq(Ids)
    BY <1>1 DEF Orders
  <2>2. connections' \in Configs /\ shown' \in Configs /\ loaded' = TRUE
    BY <1>2, <1>3, <1>5, <2>1, SortedType
  <2>3. vaultCalls' \in Seq(VaultCallType) /\ OneLoad(vaultCalls', TRUE)
    BY <1>3, <1>5, VaultServed
  <2>4. QED
    BY <2>2, <2>3 DEF Shape, storage
<1>6. QED
  BY <1>4, <1>5

\* What load has read of a connection.
LEMMA ReadPart ==
  ASSUME Shape, NEW c \in VaultCallType, c.op = "load"
  PROVE  [c.cred EXCEPT ![c.part] = vault[Head(c.todo).id][c.part]] \in Credentials
         /\ Head(c.todo) \in Row /\ Head(c.todo).id \in Ids
<1>1. c.cred \in Credentials /\ c.part \in 1..Parts /\ c.todo \in Lists /\ c.todo # <<>>
  BY CallFacts
<1>2. Head(c.todo) \in Row
  BY <1>1, ListsFacts, Served
<1>3. Head(c.todo).id \in Ids
  BY <1>2 DEF Row
<1>4. vault[Head(c.todo).id] \in Credentials
  BY <1>3 DEF Shape
<1>5. QED
  BY <1>1, <1>2, <1>3, <1>4 DEF Credentials

LEMMA LoadAnsweredShape ==
  ASSUME Shape, LoadAnswered
  PROVE  Shape'
<1> DEFINE c == Head(vaultCalls)
           cred == [c.cred EXCEPT ![c.part] = vault[Head(c.todo).id][c.part]]
<1>1. vaultCalls # <<>> /\ c \in VaultCallType /\ c.op = "load"
  BY VaultServed DEF LoadAnswered
<1>2. cred \in Credentials
  BY <1>1, ReadPart
<1>3. CASE c.part < Parts
  <2> DEFINE d == [c EXCEPT !.part = @ + 1, !.cred = cred]
  <2>1. vaultCalls' = Append(Tail(vaultCalls), d)
    BY <1>3 DEF LoadAnswered
  <2> HIDE DEF cred
  <2>2. d \in VaultCallType
    BY <1>1, <1>2, <1>3, NextPart
  <2>3. d.op = c.op
    BY <1>1 DEF VaultCallType
  <2> HIDE DEF d
  <2>4. vaultCalls' \in Seq(VaultCallType) /\ OneLoad(vaultCalls', loaded)
    BY <1>1, <2>1, <2>2, <2>3, VaultServed
  <2>5. QED
    BY <1>3, <2>4 DEF LoadAnswered, Shape, storage, history
<1>4. CASE ~(c.part < Parts)
  <2>1. Read(c, cred)
    BY <1>4 DEF LoadAnswered
  <2>2. UNCHANGED <<dialog, storage, prefsCalls, wanted>> /\ unsure' \subseteq Ids \cup {None}
    BY DEF LoadAnswered, history, Shape
  <2> HIDE DEF cred
  <2>3. QED
    BY <1>1, <1>2, <2>1, <2>2, ReadShape
<1>5. QED
  BY <1>3, <1>4

LEMMA LoadThrowsShape ==
  ASSUME Shape, LoadThrows
  PROVE  Shape'
<1> DEFINE c == Head(vaultCalls)
<1>1. vaultCalls # <<>> /\ c \in VaultCallType /\ c.op = "load" /\ Read(c, c.cred)
  BY VaultServed DEF LoadThrows
<1>2. c.cred \in Credentials /\ unsure' \subseteq Ids \cup {None}
  BY <1>1, ReadPart, CallFacts DEF LoadThrows, Shape
<1>3. UNCHANGED <<dialog, storage, prefsCalls, wanted>>
  BY DEF LoadThrows
<1>4. QED
  BY <1>1, <1>2, <1>3, ReadShape

LEMMA RestartShape ==
  ASSUME Shape, NEW todo \in Lists, Restart(todo), unsure' \subseteq Ids \cup {None}
  PROVE  Shape'
<1>1. <<>> \in Seq(PrefsCall) /\ <<>> \in Configs /\ order \in Orders
  BY Empties DEF Shape
<1>2. CASE todo = <<>>
  <2>1. vaultCalls' = <<>> /\ loaded' = TRUE
    BY <1>2 DEF Restart
  <2>2. vaultCalls' \in Seq(VaultCallType) /\ OneLoad(vaultCalls', loaded')
    BY <2>1 DEF OneLoad
  <2>3. QED
    BY <1>1, <2>1, <2>2 DEF Restart, Shape, storage
<1>3. CASE todo # <<>>
  <2> DEFINE c == LoadCall(todo, <<>>, order)
  <2>1. vaultCalls' = <<c>> /\ loaded' = FALSE
    BY <1>3 DEF Restart
  <2>2. c.op = "load"
    BY DEF LoadCall
  <2>3. c \in VaultCallType
    BY <1>1, <1>3, LoadCallMade
  <2> HIDE DEF c
  <2>4. vaultCalls' \in Seq(VaultCallType) /\ Len(vaultCalls') = 1 /\ vaultCalls'[1] = c
    BY <2>1, <2>3
  <2>5. OneLoad(vaultCalls', loaded')
    BY <2>1, <2>2, <2>4 DEF OneLoad
  <2>6. QED
    BY <1>1, <2>1, <2>4, <2>5 DEF Restart, Shape, storage
<1>4. QED
  BY <1>2, <1>3

\* The calls under way, by their places.
LEMMA CallsAt ==
  ASSUME Shape
  PROVE  /\ Calls = {prefsCalls[i] : i \in 1..Len(prefsCalls)} \cup {vaultCalls[i] : i \in 1..Len(vaultCalls)}
         /\ \A c \in Calls : c.id \in Ids \cup {None}
<1>1. /\ Range(prefsCalls) = {prefsCalls[i] : i \in 1..Len(prefsCalls)}
      /\ \A i \in 1..Len(prefsCalls) : prefsCalls[i] \in PrefsCall
  BY DEF Shape, Range
<1>2. /\ Range(vaultCalls) = {vaultCalls[i] : i \in 1..Len(vaultCalls)}
      /\ \A i \in 1..Len(vaultCalls) : vaultCalls[i] \in VaultCallType
  BY DEF Shape, Range
<1>3. /\ \A c \in PrefsCall : c.id \in Ids \cup {None}
      /\ \A c \in VaultCallType : c.id \in Ids \cup {None}
  BY CallFacts DEF PrefsCall
<1>4. QED
  BY <1>1, <1>2, <1>3 DEF Calls

LEMMA StartShape ==
  ASSUME Shape, Start \/ StartThrows
  PROVE  Shape'
<1>1. CASE Start
  <2>1. unsure' \subseteq Ids \cup {None}
    BY <1>1, CallsAt DEF Start, Shape
  <2>2. QED
    BY <1>1, <2>1, RestartShape DEF Start, Shape
<1>2. CASE StartThrows
  BY <1>2, Empties, RestartShape DEF StartThrows
<1>3. QED
  BY <1>1, <1>2

LEMMA ShapeStep ==
  ASSUME Shape, [Next]_vars
  PROVE  Shape'
<1>1. CASE UNCHANGED vars
  BY <1>1 DEF vars, Shape, storage, calls, history
<1>2. CASE Next
  BY <1>2, AddShape, EditShape, DeleteShape, DragShape, PageShape, ListWrittenShape, OrderWrittenShape,
     PrefsThrowShape, SaveAnsweredShape, SaveThrowsShape, DeleteAnsweredShape, DeleteThrowsShape,
     LoadAnsweredShape, LoadThrowsShape, StartShape DEF Next
<1>3. QED
  BY <1>1, <1>2

LEMMA ShapeIsType ==
  ASSUME Shape
  PROVE  TypeOK
<1>1. \A cs \in {connections, shown} : Range(cs) \subseteq ConnectionConfig /\ IsInjective(IdsIn(cs))
  BY DEF Shape, Configs, Range
<1>2. Range(list) \subseteq [id : Ids, text : Versions] /\ IsInjective(IdsIn(list))
  <2>1. list \in Seq(Row) /\ IsInjective(IdsIn(list))
    BY DEF Shape, Lists
  <2>2. Range(list) \subseteq Row
    BY <2>1 DEF Range
  <2>3. QED
    BY <2>1, <2>2 DEF Row
<1>3. Range(order) \subseteq Ids /\ IsInjective(order)
  BY DEF Shape, Orders, Range
<1>4. loaded <=> \A c \in Calls : c.op # "load"
  <2>1. \A i \in 1..Len(prefsCalls) : prefsCalls[i].op # "load"
    BY DEF Shape, PrefsCall
  <2>2. loaded <=> \A i \in 1..Len(vaultCalls) : vaultCalls[i].op # "load"
    BY DEF Shape, OneLoad
  <2>3. QED
    BY <2>1, <2>2, CallsAt
<1>5. QED
  BY <1>1, <1>2, <1>3, <1>4 DEF TypeOK, Shape

\* Whatever is begun, overlaps, fails or is cut short, no id is twice in a list
\* and every part of the state has its shape.
THEOREM TypeCorrect == Spec => []TypeOK
<1>1. Spec => []Shape
  BY InitShape, ShapeStep, PTL DEF Spec
<1>2. QED
  BY <1>1, ShapeIsType, PTL

-----------------------------------------------------------------------------
(***************************************************************************)
(* What the lists that wait to be written say.                             *)
(***************************************************************************)

\* Only what is said of the id matters.
LEMMA SaySame ==
  ASSUME NEW q, NEW rows, NEW w, NEW u, NEW id, Of(u, id) = Of(w, id), ListsSay(q, rows, w, id)
  PROVE  ListsSay(q, rows, u, id)
BY DEF ListsSay, Agrees, Texts

\* A list is added.
LEMMA SayAppended ==
  ASSUME NEW q \in Seq(PrefsCall), NEW c \in PrefsCall, c.key = "list", NEW rows, NEW w, NEW id,
         Agrees(c.value, w, id), c.id # id => ListsSay(q, rows, w, id)
  PROVE  ListsSay(Append(q, c), rows, w, id)
<1> DEFINE r == Append(q, c)
           n == Len(q)
<1>1. /\ Len(r) = n + 1 /\ \A i \in 1..n : r[i] = q[i]
      /\ r[n + 1] = c /\ n \in Nat
      /\ \A i \in 1..Len(r) : i \in 1..n \/ i = n + 1
  BY Appended
<1> HIDE DEF r
<1>2. (\A i \in 1..n : i \in 1..Len(r) /\ i < n + 1) /\ n + 1 \in 1..Len(r)
  BY <1>1
<1> HIDE DEF n
<1>3. ASSUME \A i \in 1..Len(r) : ~Writes(r, i, id)
      PROVE  Agrees(rows, w, id)
  <2>1. c.id # id
    BY <1>1, <1>2, <1>3 DEF Writes
  <2>2. \A i \in 1..Len(q) : ~Writes(q, i, id)
    BY <1>1, <1>2, <1>3 DEF Writes, n
  <2>3. QED
    BY <2>1, <2>2 DEF ListsSay
<1>4. ASSUME NEW j \in 1..Len(r), r[j].key = "list", \A i \in 1..Len(r) : j < i => ~Writes(r, i, id)
      PROVE  Agrees(r[j].value, w, id)
  <2>1. CASE j = n + 1
    BY <1>1, <2>1
  <2>2. CASE j \in 1..n
    <3>1. c.id # id
      BY <1>1, <1>2, <1>4, <2>2 DEF Writes
    <3>2. \A i \in 1..Len(q) : j < i => ~Writes(q, i, id)
      BY <1>1, <1>2, <1>4 DEF Writes, n
    <3>3. j \in 1..Len(q) /\ r[j] = q[j]
      BY <1>1, <2>2 DEF n
    <3>4. QED
      BY <1>4, <3>1, <3>2, <3>3 DEF ListsSay
  <2>3. QED
    BY <1>1, <2>1, <2>2
<1>5. QED
  BY <1>3, <1>4 DEF ListsSay, r

\* The first of them is written, and the operation goes on with the order.
LEMMA SayWritten ==
  ASSUME NEW q \in Seq(PrefsCall), q # <<>>, Head(q).key = "list", NEW c \in PrefsCall, c.key = "order",
         NEW rows, NEW w, NEW id, ListsSay(q, rows, w, id)
  PROVE  ListsSay(Append(Tail(q), c), Head(q).value, w, id)
<1> DEFINE r == Append(Tail(q), c)
           n == Len(q)
<1>1. /\ Len(r) = n /\ n \in Nat \ {0}
      /\ \A i \in 1..n : i = n \/ (i + 1 \in 1..n /\ r[i] = q[i + 1])
      /\ r[n] = c
      /\ \A i \in 1..n : i = 1 \/ (i - 1 \in 1..n /\ r[i - 1] = q[i])
  BY Rotated
<1>2. Head(q) = q[1] /\ 1 \in 1..n
  BY Served
<1> HIDE DEF r
<1>3. ASSUME \A i \in 1..n : ~Writes(r, i, id)
      PROVE  Agrees(Head(q).value, w, id)
  <2>1. ASSUME NEW i \in 1..n, 1 < i PROVE ~Writes(q, i, id)
    <3>1. i - 1 \in 1..n /\ r[i - 1] = q[i]
      BY <1>1, <2>1
    <3> HIDE DEF n
    <3>2. QED
      BY <1>3, <3>1 DEF Writes
  <2> HIDE DEF n
  <2>2. QED
    BY <1>2, <2>1 DEF ListsSay, n
<1>4. ASSUME NEW j \in 1..n, r[j].key = "list", \A i \in 1..n : j < i => ~Writes(r, i, id)
      PROVE  Agrees(r[j].value, w, id)
  <2>1. j # n
    BY <1>1, <1>4
  <2>2. j + 1 \in 1..n /\ r[j] = q[j + 1]
    BY <1>1, <2>1
  <2>3. ASSUME NEW i \in 1..n, j + 1 < i PROVE ~Writes(q, i, id)
    <3>1. i - 1 \in 1..n /\ r[i - 1] = q[i] /\ j < i - 1
      BY <1>1, <2>3
    <3> HIDE DEF n
    <3>2. QED
      BY <1>4, <3>1 DEF Writes
  <2> DEFINE k == j + 1
  <2>4. k \in 1..n /\ r[j] = q[k] /\ \A i \in 1..n : k < i => ~Writes(q, i, id)
    BY <2>2, <2>3
  <2> HIDE DEF n, k
  <2>5. QED
    BY <1>4, <2>4 DEF ListsSay, n
<1>5. QED
  BY <1>1, <1>3, <1>4 DEF ListsSay, r

\* The first call is over and was no list of id.
LEMMA SayServed ==
  ASSUME NEW q \in Seq(PrefsCall), q # <<>>, NEW id, ~Writes(q, 1, id), NEW rows, NEW w,
         ListsSay(q, rows, w, id)
  PROVE  ListsSay(Tail(q), rows, w, id)
<1> DEFINE r == Tail(q)
           n == Len(q)
           m == Len(r)
<1>1. /\ \A i \in 1..m : r[i] = q[i + 1] /\ i + 1 \in 1..n
      /\ \A i \in 1..n : i = 1 \/ (i - 1 \in 1..m /\ q[i] = r[i - 1])
  BY Served
<1> HIDE DEF r, m, n
<1>3. ASSUME \A i \in 1..m : ~Writes(r, i, id)
      PROVE  Agrees(rows, w, id)
  <2>1. \A i \in 1..n : ~Writes(q, i, id)
    BY <1>1, <1>3 DEF Writes
  <2>2. QED
    BY <2>1 DEF ListsSay, n
<1>4. ASSUME NEW j \in 1..m, r[j].key = "list", \A i \in 1..m : j < i => ~Writes(r, i, id)
      PROVE  Agrees(r[j].value, w, id)
  <2>2. j + 1 \in 1..n /\ r[j] = q[j + 1]
    BY <1>1
  <2>3. ASSUME NEW i \in 1..n, j + 1 < i PROVE ~Writes(q, i, id)
    <3>1. i # 1 /\ j < i - 1
      BY <2>3
    <3>2. i - 1 \in 1..m /\ q[i] = r[i - 1]
      BY <1>1, <3>1
    <3>3. QED
      BY <1>4, <3>1, <3>2 DEF Writes
  <2> DEFINE k == j + 1
  <2>4. k \in 1..n /\ r[j] = q[k] /\ \A i \in 1..n : k < i => ~Writes(q, i, id)
    BY <2>2, <2>3
  <2> HIDE DEF k
  <2>5. QED
    BY <1>4, <2>4 DEF ListsSay, n
<1>5. QED
  BY <1>3, <1>4 DEF ListsSay, r, m

-----------------------------------------------------------------------------
(***************************************************************************)
(* What becomes of the credentials of a connection.                        *)
(***************************************************************************)

\* A save of the connection is added.
LEMMA KeptSaved ==
  ASSUME NEW q \in Seq(PrefsCall), NEW c \in PrefsCall, c.op = "save", c.key = "list",
         NEW w, c.id = w.id, c.cred = w.cred, NEW s, NEW v
  PROVE  Kept(Append(q, c), s, v, w)
<1> DEFINE r == Append(q, c)
           n == Len(q)
<1>1. /\ Len(r) = n + 1 /\ r[n + 1] = c /\ n \in Nat
      /\ \A i \in 1..Len(r) : i \in 1..n \/ i = n + 1
  BY Appended
<1> HIDE DEF r
<1>2. (\A i \in 1..n : i < n + 1) /\ n + 1 \in 1..Len(r)
  BY <1>1
<1> HIDE DEF n
<1>3. Saves(r, n + 1, w.id, "list")
  BY <1>1 DEF Saves
<1>4. \A k \in 1..Len(r) : SavesLast(r, k, w.id, "list") => r[k].cred = w.cred
  BY <1>1, <1>2, <1>3 DEF SavesLast
<1>5. QED
  BY <1>2, <1>3, <1>4 DEF Kept, NoSave, r

\* Another call is added.
LEMMA KeptAppended ==
  ASSUME NEW q \in Seq(PrefsCall), NEW c \in PrefsCall, NEW w, ~(c.op = "save" /\ c.id = w.id),
         NEW s, NEW v, Kept(q, s, v, w)
  PROVE  Kept(Append(q, c), s, v, w)
<1> DEFINE r == Append(q, c)
           n == Len(q)
<1>1. /\ Len(r) = n + 1 /\ \A i \in 1..n : r[i] = q[i]
      /\ r[n + 1] = c /\ n \in Nat
      /\ \A i \in 1..Len(r) : i \in 1..n \/ i = n + 1
  BY Appended
<1> HIDE DEF r
<1>2. \A i \in 1..n : i \in 1..Len(r)
  BY <1>1
<1> HIDE DEF n
<1>3. ASSUME NEW key PROVE \A i \in 1..Len(r) : Saves(r, i, w.id, key) => i \in 1..n /\ Saves(q, i, w.id, key)
  BY <1>1 DEF Saves
<1>4. ASSUME NEW key PROVE \A i \in 1..n : Saves(q, i, w.id, key) => i \in 1..Len(r) /\ Saves(r, i, w.id, key)
  BY <1>1, <1>2 DEF Saves
<1>5. ASSUME NEW key, NEW k \in 1..Len(r), SavesLast(r, k, w.id, key)
      PROVE  k \in 1..n /\ SavesLast(q, k, w.id, key) /\ r[k] = q[k]
  BY <1>1, <1>3, <1>4, <1>5 DEF SavesLast, n
<1>6. ASSUME NEW key, NoSave(r, w.id, key) PROVE NoSave(q, w.id, key)
  BY <1>4, <1>6 DEF NoSave, n
<1>7. QED
  BY <1>5, <1>6 DEF Kept, r, n

\* The first call is over and was none of the connection.
LEMMA KeptServed ==
  ASSUME NEW q \in Seq(PrefsCall), q # <<>>, NEW w, ~(Head(q).op = "save" /\ Head(q).id = w.id),
         NEW s, NEW v, Kept(q, s, v, w)
  PROVE  Kept(Tail(q), s, v, w)
<1> DEFINE r == Tail(q)
           n == Len(q)
           m == Len(r)
<1>1. /\ Head(q) = q[1]
      /\ \A i \in 1..m : r[i] = q[i + 1] /\ i + 1 \in 1..n
      /\ \A i \in 1..n : i = 1 \/ (i - 1 \in 1..m /\ q[i] = r[i - 1])
  BY Served
<1> HIDE DEF r, m, n
<1>3. ASSUME NEW key PROVE \A i \in 1..m : Saves(r, i, w.id, key) => Saves(q, i + 1, w.id, key)
  BY <1>1 DEF Saves
<1>4. ASSUME NEW key
      PROVE  \A i \in 1..n : Saves(q, i, w.id, key) => i - 1 \in 1..m /\ Saves(r, i - 1, w.id, key)
  BY <1>1 DEF Saves
<1>5. ASSUME NEW key, NEW k \in 1..m, SavesLast(r, k, w.id, key)
      PROVE  k + 1 \in 1..n /\ SavesLast(q, k + 1, w.id, key) /\ r[k] = q[k + 1]
  <2>1. ASSUME NEW i \in 1..n, k + 1 < i, Saves(q, i, w.id, key) PROVE FALSE
    <3>1. i - 1 \in 1..m /\ Saves(r, i - 1, w.id, key) /\ k < i - 1
      BY <1>4, <2>1
    <3>2. QED
      BY <1>5, <3>1 DEF SavesLast, m
  <2>2. Saves(q, k + 1, w.id, key)
    BY <1>3, <1>5 DEF SavesLast
  <2>3. QED
    BY <1>1, <2>1, <2>2 DEF SavesLast, n
<1>6. ASSUME NEW key, NoSave(r, w.id, key) PROVE NoSave(q, w.id, key)
  BY <1>4, <1>6 DEF NoSave, n, m
<1>7. QED
  BY <1>5, <1>6 DEF Kept, r, m, n

\* A save begins with its credentials, behind whatever else is to be done to them.
LEMMA StoredBegun ==
  ASSUME NEW s \in Seq(VaultCallType), NEW c \in VaultCallType, NEW w, NEW v,
         c.op = "save", c.id = w.id, c.cred = w.cred, c.part = 1
  PROVE  Stored(Append(s, c), v, w)
<1> DEFINE r == Append(s, c)
           n == Len(s)
<1>1. /\ Len(r) = n + 1 /\ \A i \in 1..n : r[i] = s[i]
      /\ r[n + 1] = c /\ n \in Nat
      /\ \A i \in 1..Len(r) : i \in 1..n \/ i = n + 1
  BY Appended
<1> HIDE DEF r
<1>2. n + 1 \in 1..Len(r) /\ \A i \in 1..n : ~(i > n + 1) /\ s[i].part >= 1
  <2>1. \A i \in 1..n : s[i] \in VaultCallType
    OBVIOUS
  <2>2. \A i \in 1..n : s[i].part >= 1
    BY <2>1, CallFacts, Empties
  <2>3. QED
    BY <1>1, <2>2
<1>3. \A p \in 1..Parts : ~(p < c.part)
  BY Empties
<1> HIDE DEF n
<1>4. \A j \in 1..Len(r) : (j < n + 1 => r[j].part >= c.part) /\ ~(j > n + 1)
  BY <1>1, <1>2
<1>5. Finishes(r, v, n + 1, w)
  BY <1>1, <1>3, <1>4 DEF Finishes
<1>6. QED
  BY <1>2, <1>5 DEF Stored, r

\* The first call has written the list, and its operation goes on with the order.
LEMMA KeptWritten ==
  ASSUME NEW q \in Seq(PrefsCall), q # <<>>, Head(q).key = "list", NEW c \in PrefsCall, c.key = "order",
         c.op = Head(q).op, c.id = Head(q).id, c.cred = Head(q).cred,
         NEW w, NEW s, NEW v, Kept(q, s, v, w)
  PROVE  Kept(Append(Tail(q), c), s, v, w)
<1> DEFINE r == Append(Tail(q), c)
           n == Len(q)
<1>1. /\ Len(r) = n /\ n \in Nat \ {0}
      /\ \A i \in 1..n : i = n \/ (i + 1 \in 1..n /\ r[i] = q[i + 1])
      /\ r[n] = c
      /\ \A i \in 1..n : i = 1 \/ (i - 1 \in 1..n /\ i - 1 # n /\ r[i - 1] = q[i])
  BY Rotated
<1>2. Head(q) = q[1] /\ 1 \in 1..n /\ n \in 1..n
  <2>1. n \in Nat \ {0}
    BY <1>1
  <2>2. 1 \in 1..n /\ Head(q) = q[1]
    BY Served
  <2> HIDE DEF n
  <2>3. n \in 1..n
    BY <2>1
  <2>4. QED
    BY <2>2, <2>3
<1> HIDE DEF r
<1>3. ASSUME NEW key, NEW i \in 1..n, i # n, Saves(r, i, w.id, key)
      PROVE  i + 1 \in 1..n /\ Saves(q, i + 1, w.id, key) /\ r[i] = q[i + 1]
  BY <1>1, <1>3 DEF Saves
<1>4. ASSUME NEW key, NEW i \in 1..n, i # 1, Saves(q, i, w.id, key)
      PROVE  i - 1 \in 1..n /\ i - 1 # n /\ Saves(r, i - 1, w.id, key)
  BY <1>1, <1>4 DEF Saves
<1>5. /\ ~Saves(r, n, w.id, "list") /\ ~Saves(q, 1, w.id, "order")
      /\ Saves(r, n, w.id, "order") <=> Saves(q, 1, w.id, "list")
  BY <1>1, <1>2 DEF Saves
<1>6. ASSUME NEW key, NEW k \in 1..n, k # n, SavesLast(r, k, w.id, key)
      PROVE  k + 1 \in 1..n /\ SavesLast(q, k + 1, w.id, key) /\ r[k] = q[k + 1]
  <2>1. ASSUME NEW i \in 1..n, k + 1 < i, Saves(q, i, w.id, key) PROVE FALSE
    <3>1. i - 1 \in 1..n /\ Saves(r, i - 1, w.id, key) /\ k < i - 1
      BY <1>4, <2>1
    <3>2. QED
      BY <1>1, <1>6, <3>1 DEF SavesLast
  <2>2. k + 1 \in 1..n /\ Saves(q, k + 1, w.id, key) /\ r[k] = q[k + 1]
    BY <1>3, <1>6 DEF SavesLast
  <2>3. QED
    BY <2>1, <2>2 DEF SavesLast
<1>7. \A k \in 1..n : SavesLast(r, k, w.id, "list") => r[k].cred = w.cred
  <2> SUFFICES ASSUME NEW k \in 1..n, SavesLast(r, k, w.id, "list") PROVE r[k].cred = w.cred
    OBVIOUS
  <2>1. k # n
    BY <1>5 DEF SavesLast
  <2> DEFINE l == k + 1
  <2>2. l \in 1..n /\ SavesLast(q, l, w.id, "list") /\ r[k] = q[l]
    BY <1>6, <2>1
  <2> HIDE DEF l, n
  <2>3. QED
    BY <2>2 DEF Kept, n
<1>8. ASSUME NoSave(r, w.id, "list")
      PROVE  /\ \A k \in 1..n : SavesLast(r, k, w.id, "order") => r[k].cred = w.cred
             /\ NoSave(r, w.id, "order") => Stored(s, v, w)
  <2>0. \A i \in 1..n : i # 1 => ~Saves(q, i, w.id, "list")
    BY <1>1, <1>4, <1>8 DEF NoSave
  <2>1. CASE Saves(q, 1, w.id, "list")
    <3>1. SavesLast(q, 1, w.id, "list")
      BY <2>0, <2>1 DEF SavesLast
    <3>2. c.cred = w.cred
      BY <1>2, <3>1 DEF Kept
    <3>3. \A k \in 1..n : k = n \/ k < n
      BY <1>1
    <3> HIDE DEF n
    <3>4. Saves(r, n, w.id, "order") /\ n \in 1..n /\ n = Len(r)
      BY <1>1, <1>2, <1>5, <2>1
    <3>5. ~NoSave(r, w.id, "order")
      BY <3>4 DEF NoSave
    <3>6. \A k \in 1..n : SavesLast(r, k, w.id, "order") => k = n
      BY <3>3, <3>4 DEF SavesLast
    <3>7. QED
      BY <1>1, <3>2, <3>5, <3>6
  <2>2. CASE ~Saves(q, 1, w.id, "list")
    <3>1. NoSave(q, w.id, "list")
      BY <2>0, <2>2 DEF NoSave
    <3>2. ASSUME NEW k \in 1..n, SavesLast(r, k, w.id, "order") PROVE r[k].cred = w.cred
      <4>1. k # n
        BY <1>5, <2>2, <3>2 DEF SavesLast
      <4> DEFINE l == k + 1
      <4>2. l \in 1..n /\ SavesLast(q, l, w.id, "order") /\ r[k] = q[l]
        BY <1>6, <3>2, <4>1
      <4> HIDE DEF l, n
      <4>3. QED
        BY <3>1, <4>2 DEF Kept, n
    <3>3. ASSUME NoSave(r, w.id, "order") PROVE NoSave(q, w.id, "order")
      BY <1>1, <1>4, <1>5, <3>3 DEF NoSave
    <3>4. QED
      BY <3>1, <3>2, <3>3 DEF Kept
  <2>3. QED
    BY <2>1, <2>2
<1>9. QED
  BY <1>1, <1>7, <1>8 DEF Kept, r

\* The first call has written the order, and its save goes on with the credentials.
LEMMA KeptGoesOn ==
  ASSUME NEW q \in Seq(PrefsCall), q # <<>>, Head(q).op = "save", Head(q).key = "order",
         NEW w, Head(q).id = w.id, NEW s \in Seq(VaultCallType), NEW v, Kept(q, s, v, w)
  PROVE  Kept(Tail(q), Append(s, VaultCall("save", Head(q).id, Head(q).cred)), v, w)
<1> DEFINE r == Tail(q)
           n == Len(q)
           m == Len(r)
           c == VaultCall("save", Head(q).id, Head(q).cred)
<1>1. /\ Head(q) = q[1] /\ 1 \in 1..n /\ q[1] \in PrefsCall
      /\ \A i \in 1..m : r[i] = q[i + 1] /\ i + 1 \in 1..n
      /\ \A i \in 1..n : i = 1 \/ (i - 1 \in 1..m /\ q[i] = r[i - 1])
  BY Served
<1>2. c \in VaultCallType
  <2>1. q[1].id \in Ids /\ q[1].cred \in Credentials
    BY <1>1 DEF PrefsCall
  <2>2. QED
    BY <1>1, <2>1, VaultCallMade
<1>0. c.op = "save" /\ c.id = w.id /\ c.cred = q[1].cred /\ c.part = 1
  BY <1>1 DEF VaultCall
<1> HIDE DEF r, m, n, c
<1>3. ASSUME NEW key PROVE \A i \in 1..m : Saves(r, i, w.id, key) => Saves(q, i + 1, w.id, key)
  BY <1>1 DEF Saves
<1>4. ASSUME NEW key
      PROVE  \A i \in 1..n : i # 1 /\ Saves(q, i, w.id, key) => i - 1 \in 1..m /\ Saves(r, i - 1, w.id, key)
  BY <1>1 DEF Saves
<1>5. ASSUME NEW key, NEW k \in 1..m, SavesLast(r, k, w.id, key)
      PROVE  k + 1 \in 1..n /\ SavesLast(q, k + 1, w.id, key) /\ r[k] = q[k + 1]
  <2>1. ASSUME NEW i \in 1..n, k + 1 < i, Saves(q, i, w.id, key) PROVE FALSE
    <3>1. i # 1 /\ k < i - 1
      BY <2>1
    <3>2. i - 1 \in 1..m /\ Saves(r, i - 1, w.id, key)
      BY <1>4, <2>1, <3>1
    <3>3. QED
      BY <1>5, <3>1, <3>2 DEF SavesLast, m
  <2>2. Saves(q, k + 1, w.id, key)
    BY <1>3, <1>5 DEF SavesLast
  <2>3. QED
    BY <1>1, <2>1, <2>2 DEF SavesLast, n
<1>6. ~Saves(q, 1, w.id, "list") /\ Saves(q, 1, w.id, "order")
  BY <1>1 DEF Saves
<1>7. ASSUME NoSave(r, w.id, "list") PROVE NoSave(q, w.id, "list")
  BY <1>4, <1>6, <1>7 DEF NoSave, n, m
<1>8. ASSUME NoSave(r, w.id, "list"), NoSave(r, w.id, "order") PROVE Stored(Append(s, c), v, w)
  <2>1. \A i \in 1..n : 1 < i => i # 1
    OBVIOUS
  <2>2. SavesLast(q, 1, w.id, "order")
    BY <1>4, <1>6, <1>8, <2>1 DEF NoSave, SavesLast, n, m
  <2>3. q[1].cred = w.cred
    BY <1>1, <1>7, <1>8, <2>2 DEF Kept, n
  <2>4. QED
    BY <1>0, <1>2, <2>3, StoredBegun
<1>9. QED
  BY <1>5, <1>7, <1>8 DEF Kept, r, m, n, c

\* Other credentials, and calls that do not concern those of w, change nothing.
LEMMA StoredShift ==
  ASSUME NEW q \in Seq(VaultCallType), NEW r \in Seq(VaultCallType), NEW d \in {0, 1},
         NEW w, NEW v, NEW u, u[w.id] = v[w.id],
         \A i \in 1..Len(q) : q[i].id = w.id => i - d \in 1..Len(r) /\ r[i - d] = q[i],
         \A j \in 1..Len(r) : r[j].id = w.id => j + d \in 1..Len(q) /\ q[j + d] = r[j],
         Stored(q, v, w)
  PROVE  Stored(r, u, w)
<1>1. CASE v[w.id] = w.cred /\ \A i \in 1..Len(q) : q[i].id # w.id
  BY <1>1 DEF Stored
<1>2. CASE \E i \in 1..Len(q) : Finishes(q, v, i, w)
  <2>1. PICK i \in 1..Len(q) : Finishes(q, v, i, w)
    BY <1>2
  <2> DEFINE k == i - d
  <2>2. k \in 1..Len(r) /\ r[k] = q[i] /\ k + d = i /\ k \in Int
    BY <2>1 DEF Finishes
  <2> HIDE DEF k
  <2>3. ASSUME NEW j \in 1..Len(r), r[j].id = w.id
        PROVE  (j < k => r[j].part >= r[k].part) /\ (j > k => r[j].part > r[k].part)
    <3> DEFINE l == j + d
    <3>1. l \in 1..Len(q) /\ q[l] = r[j] /\ (j < k => l < i) /\ (j > k => l > i)
      BY <2>2, <2>3
    <3> HIDE DEF l
    <3>2. QED
      BY <2>1, <2>2, <2>3, <3>1 DEF Finishes
  <2>4. Finishes(r, u, k, w)
    BY <2>1, <2>2, <2>3 DEF Finishes
  <2>5. QED
    BY <2>2, <2>4 DEF Stored
<1>3. QED
  BY <1>1, <1>2 DEF Stored

\* A call for another connection is added, answered, or goes on.
LEMMA StoredAppended ==
  ASSUME NEW q \in Seq(VaultCallType), NEW c \in VaultCallType, NEW w, c.id # w.id, NEW v, Stored(q, v, w)
  PROVE  Stored(Append(q, c), v, w)
<1> DEFINE r == Append(q, c)
           d == 0
<1>1. /\ r \in Seq(VaultCallType) /\ Len(r) = Len(q) + 1
      /\ \A i \in 1..Len(q) : r[i] = q[i] /\ i \in 1..Len(r)
      /\ r[Len(q) + 1] = c
      /\ \A i \in 1..Len(r) : i \in 1..Len(q) \/ i = Len(q) + 1
  BY Appended
<1> HIDE DEF r
<1>2. \A i \in 1..Len(q) : q[i].id = w.id => i - d \in 1..Len(r) /\ r[i - d] = q[i]
  BY <1>1
<1>3. \A j \in 1..Len(r) : r[j].id = w.id => j + d \in 1..Len(q) /\ q[j + d] = r[j]
  BY <1>1
<1>4. d \in {0, 1}
  OBVIOUS
<1> HIDE DEF d
<1>5. Stored(r, v, w)
  BY <1>1, <1>2, <1>3, <1>4, StoredShift
<1>6. QED
  BY <1>5 DEF r

LEMMA StoredServed ==
  ASSUME NEW q \in Seq(VaultCallType), q # <<>>, NEW w, Head(q).id # w.id,
         NEW v, NEW u, u[w.id] = v[w.id], Stored(q, v, w)
  PROVE  Stored(Tail(q), u, w)
<1> DEFINE r == Tail(q)
           d == 1
<1>1. /\ r \in Seq(VaultCallType) /\ Head(q) = q[1]
      /\ \A i \in 1..Len(r) : r[i] = q[i + 1] /\ i + 1 \in 1..Len(q)
      /\ \A i \in 1..Len(q) : i = 1 \/ (i - 1 \in 1..Len(r) /\ q[i] = r[i - 1])
  BY Served
<1> HIDE DEF r
<1>2. \A i \in 1..Len(q) : q[i].id = w.id => i - d \in 1..Len(r) /\ r[i - d] = q[i]
  BY <1>1
<1>3. \A j \in 1..Len(r) : r[j].id = w.id => j + d \in 1..Len(q) /\ q[j + d] = r[j]
  BY <1>1
<1>4. d \in {0, 1}
  OBVIOUS
<1> HIDE DEF d
<1>5. Stored(r, u, w)
  BY <1>1, <1>2, <1>3, <1>4, StoredShift
<1>6. QED
  BY <1>5 DEF r

LEMMA StoredRotated ==
  ASSUME NEW q \in Seq(VaultCallType), q # <<>>, NEW c \in VaultCallType, NEW w,
         Head(q).id # w.id, c.id # w.id, NEW v, NEW u, u[w.id] = v[w.id], Stored(q, v, w)
  PROVE  Stored(Append(Tail(q), c), u, w)
<1>1. Stored(Tail(q), u, w)
  BY StoredServed
<1>2. Tail(q) \in Seq(VaultCallType)
  OBVIOUS
<1>3. QED
  BY <1>1, <1>2, StoredAppended

\* A call for the connection itself goes on: it has written the credential
\* before all that wait behind it, so that of what is still to be written a
\* later save writes the last.
LEMMA StoredGoesOn ==
  ASSUME NEW q \in Seq(VaultCallType), q # <<>>, NEW c \in VaultCallType, NEW w, Head(q).id = w.id,
         c.op = Head(q).op, c.id = w.id, c.cred = Head(q).cred, c.part = Head(q).part + 1,
         NEW v, NEW u, \A p \in 1..Parts : p # Head(q).part => u[w.id][p] = v[w.id][p],
         Head(q).op = "save" => u[w.id][Head(q).part] = Head(q).cred[Head(q).part],
         Stored(q, v, w)
  PROVE  Stored(Append(Tail(q), c), u, w)
<1> DEFINE r == Append(Tail(q), c)
           n == Len(q)
           h == Head(q)
<1>1. /\ r \in Seq(VaultCallType) /\ Len(r) = n /\ n \in Nat \ {0}
      /\ \A i \in 1..n : i = n \/ (i + 1 \in 1..n /\ r[i] = q[i + 1])
      /\ r[n] = c
      /\ \A i \in 1..n : i = 1 \/ (i - 1 \in 1..n /\ r[i - 1] = q[i])
  BY Rotated
<1>2. h = q[1] /\ 1 \in 1..n /\ h \in VaultCallType
  BY Served
<1>3. \A i \in 1..n : q[i].part \in Nat
  BY CallFacts
<1>4. h.part \in Nat /\ h.part \in 1..Parts + 1
  BY <1>2, CallFacts
<1>5. PICK i \in 1..n : Finishes(q, v, i, w)
  BY <1>2 DEF Stored
<1> HIDE DEF r, h, n
<1>6. CASE i = 1
  <2>1. n \in 1..n /\ \A j \in 1..n : ~(j > n) /\ (j # n => j + 1 > 1)
    BY <1>1
  <2>2. c.op = "save" /\ c.cred = w.cred /\ h.op = "save" /\ h.cred = w.cred
    BY <1>2, <1>5, <1>6 DEF Finishes, h
  <2>3. ASSUME NEW p \in 1..Parts, p < c.part PROVE u[w.id][p] = w.cred[p]
    <3>1. CASE p = h.part
      BY <2>2, <3>1 DEF h
    <3>2. CASE p # h.part
      <4>1. p < h.part
        BY <1>4, <2>3, <3>2 DEF h
      <4>2. v[w.id][p] = w.cred[p]
        BY <1>2, <1>5, <1>6, <4>1 DEF Finishes
      <4>3. QED
        BY <3>2, <4>2 DEF h
    <3>3. QED
      BY <3>1, <3>2
  <2>4. ASSUME NEW j \in 1..n, j # n, r[j].id = w.id PROVE r[j].part >= c.part
    <3> DEFINE l == j + 1
    <3>1. l \in 1..n /\ r[j] = q[l] /\ l > 1
      BY <1>1, <2>1, <2>4
    <3> HIDE DEF l
    <3>2. q[l].part > q[1].part
      BY <1>5, <1>6, <2>4, <3>1 DEF Finishes, n
    <3>3. QED
      BY <1>2, <1>3, <1>4, <3>1, <3>2 DEF h
  <2>5. Finishes(r, u, n, w)
    BY <1>1, <1>3, <2>1, <2>2, <2>3, <2>4 DEF Finishes
  <2>6. QED
    BY <1>1, <2>1, <2>5 DEF Stored, r
<1>7. CASE i # 1
  <2> DEFINE k == i - 1
  <2>1. k \in 1..n /\ r[k] = q[i] /\ k \in Int /\ i = k + 1 /\ k < n /\ k # n
    BY <1>1, <1>7
  <2>2. h.part >= q[i].part
    <3>1. 1 < i
      BY <1>7
    <3>2. QED
      BY <1>2, <1>5, <3>1 DEF Finishes, n, h
  <2> HIDE DEF k
  <2>3. ASSUME NEW p \in 1..Parts, p < r[k].part PROVE u[w.id][p] = w.cred[p]
    <3>1. p # h.part /\ p < q[i].part
      BY <1>3, <1>4, <2>1, <2>2, <2>3
    <3>2. QED
      BY <1>5, <3>1 DEF Finishes, h
  <2>4. ASSUME NEW j \in 1..n, r[j].id = w.id
        PROVE  (j < k => r[j].part >= r[k].part) /\ (j > k => r[j].part > r[k].part)
    <3>1. CASE j = n
      <4>1. c.part > q[i].part
        BY <1>3, <1>4, <2>2 DEF h
      <4>2. QED
        BY <1>1, <2>1, <3>1, <4>1
    <3>2. CASE j # n
      <4> DEFINE l == j + 1
      <4>1. l \in 1..n /\ r[j] = q[l] /\ (j < k => l < i) /\ (j > k => l > i)
        BY <1>1, <2>1, <3>2
      <4> HIDE DEF l
      <4>2. QED
        BY <1>5, <2>1, <2>4, <4>1 DEF Finishes, n
    <3>3. QED
      BY <3>1, <3>2
  <2>5. Finishes(r, u, k, w)
    BY <1>1, <1>5, <2>1, <2>3, <2>4 DEF Finishes
  <2>6. QED
    BY <1>1, <2>1, <2>5 DEF Stored, r
<1>8. QED
  BY <1>6, <1>7

\* A call for the connection is over: it has written the last credential, or
\* another save is to write it still.
LEMMA StoredOver ==
  ASSUME NEW q \in Seq(VaultCallType), q # <<>>, NEW w, Head(q).id = w.id,
         w.cred \in Credentials, NEW v, NEW u, v[w.id] \in Credentials, u[w.id] \in Credentials,
         Head(q).op = "save" => Head(q).part > Parts /\ u[w.id] = v[w.id],
         Head(q).op # "save" => \A p \in 1..Parts : p < Head(q).part => u[w.id][p] = v[w.id][p],
         Stored(q, v, w)
  PROVE  Stored(Tail(q), u, w)
<1> DEFINE r == Tail(q)
           n == Len(q)
           m == Len(r)
           h == Head(q)
<1>1. /\ h = q[1] /\ 1 \in 1..n /\ h \in VaultCallType
      /\ \A i \in 1..m : r[i] = q[i + 1] /\ i + 1 \in 1..n
      /\ \A i \in 1..n : i = 1 \/ (i - 1 \in 1..m /\ q[i] = r[i - 1])
  BY Served
<1>2. \A i \in 1..n : q[i].part \in Nat /\ q[i].part <= Parts + 1
  <2>1. \A i \in 1..n : q[i] \in VaultCallType
    OBVIOUS
  <2>2. QED
    BY <2>1, CallFacts, Empties
<1>3. PICK i \in 1..n : Finishes(q, v, i, w)
  BY <1>1 DEF Stored
<1> HIDE DEF r, h, n, m
<1>4. CASE i = 1
  <2>1. h.op = "save" /\ h.part > Parts /\ h.cred = w.cred /\ u[w.id] = v[w.id] /\ h.part \in Nat
    BY <1>1, <1>2, <1>3, <1>4 DEF Finishes, h
  <2>2. ASSUME NEW j \in 1..m PROVE r[j].id # w.id
    <3> DEFINE l == j + 1
    <3>1. l \in 1..n /\ r[j] = q[l] /\ l > 1
      BY <1>1
    <3> HIDE DEF l
    <3>2. q[l].id = w.id => q[l].part > h.part
      BY <1>1, <1>3, <1>4, <3>1 DEF Finishes, n
    <3>3. ~(q[l].part > h.part)
      BY <1>2, <2>1, <3>1, Empties
    <3>4. QED
      BY <3>1, <3>2, <3>3
  <2>3. \A p \in 1..Parts : p < h.part
    BY <2>1, Empties
  <2>4. \A p \in 1..Parts : v[w.id][p] = w.cred[p]
    BY <1>1, <1>3, <1>4, <2>3 DEF Finishes
  <2>5. v[w.id] = w.cred
    <3> DEFINE x == v[w.id]
               y == w.cred
    <3>1. x \in Credentials /\ y \in Credentials /\ \A p \in 1..Parts : x[p] = y[p]
      BY <2>4
    <3> HIDE DEF x, y
    <3>2. x = y
      BY <3>1, SameCredentials
    <3>3. QED
      BY <3>2 DEF x, y
  <2>6. QED
    BY <2>1, <2>2, <2>5 DEF Stored, r, m
<1>5. CASE i # 1
  <2> DEFINE k == i - 1
  <2>1. k \in 1..m /\ r[k] = q[i] /\ k \in Int /\ i = k + 1
    BY <1>1, <1>5
  <2>2. h.part >= q[i].part
    <3>1. 1 < i
      BY <1>5
    <3>2. QED
      BY <1>1, <1>3, <3>1 DEF Finishes, n, h
  <2> HIDE DEF k
  <2>3. ASSUME NEW p \in 1..Parts, p < r[k].part PROVE u[w.id][p] = w.cred[p]
    <3>1. p < h.part /\ p < q[i].part
      BY <1>1, <1>2, <2>1, <2>2, <2>3
    <3>2. v[w.id][p] = w.cred[p]
      BY <1>3, <3>1 DEF Finishes
    <3>3. u[w.id][p] = v[w.id][p]
      BY <3>1 DEF h
    <3>4. QED
      BY <3>2, <3>3
  <2>4. ASSUME NEW j \in 1..m, r[j].id = w.id
        PROVE  (j < k => r[j].part >= r[k].part) /\ (j > k => r[j].part > r[k].part)
    <3> DEFINE l == j + 1
    <3>1. l \in 1..n /\ r[j] = q[l] /\ (j < k => l < i) /\ (j > k => l > i)
      BY <1>1, <2>1
    <3> HIDE DEF l
    <3>2. QED
      BY <1>3, <2>1, <2>4, <3>1 DEF Finishes, n
  <2>5. Finishes(r, u, k, w)
    BY <1>3, <2>1, <2>3, <2>4 DEF Finishes, m
  <2>6. QED
    BY <2>1, <2>5 DEF Stored, r, m
<1>6. QED
  BY <1>4, <1>5

\* Kept follows what becomes of the credentials.
LEMMA KeptOn ==
  ASSUME NEW p, NEW q, NEW v, NEW w, Kept(p, q, v, w), NEW r, NEW u, Stored(q, v, w) => Stored(r, u, w)
  PROVE  Kept(p, r, u, w)
BY DEF Kept

\* What is to be deleted when a call is added, is over, or goes on.
LEMMA DeletingAppended ==
  ASSUME NEW q \in Seq(VaultCallType), NEW c \in VaultCallType, NEW id
  PROVE  Deleting(Append(q, c), id) <=> Deleting(q, id) \/ (c.op = "delete" /\ c.id = id)
<1> DEFINE r == Append(q, c)
           n == Len(q)
<1>1. /\ \A i \in 1..n : r[i] = q[i]
      /\ r[n + 1] = c
      /\ \A i \in 1..Len(r) : i \in 1..n \/ i = n + 1
  BY Appended
<1>2. n + 1 \in 1..Len(r) /\ \A i \in 1..n : i \in 1..Len(r)
  <2>1. Len(r) = n + 1 /\ n \in Nat
    BY Appended
  <2> HIDE DEF n, r
  <2>2. QED
    BY <2>1
<1> HIDE DEF r, n
<1>3. Deleting(r, id) => Deleting(q, id) \/ (c.op = "delete" /\ c.id = id)
  BY <1>1 DEF Deleting, n
<1>4. Deleting(q, id) => Deleting(r, id)
  BY <1>1, <1>2 DEF Deleting, n
<1>5. (c.op = "delete" /\ c.id = id) => Deleting(r, id)
  BY <1>1, <1>2 DEF Deleting
<1>6. QED
  BY <1>3, <1>4, <1>5 DEF r

LEMMA DeletingServed ==
  ASSUME NEW q \in Seq(VaultCallType), q # <<>>, NEW id
  PROVE  Deleting(q, id) <=> Deleting(Tail(q), id) \/ (Head(q).op = "delete" /\ Head(q).id = id)
<1> DEFINE r == Tail(q)
           n == Len(q)
           m == Len(r)
<1>1. /\ Head(q) = q[1] /\ 1 \in 1..n
      /\ \A i \in 1..m : r[i] = q[i + 1] /\ i + 1 \in 1..n
      /\ \A i \in 1..n : i = 1 \/ (i - 1 \in 1..m /\ q[i] = r[i - 1])
  BY Served
<1> HIDE DEF r, n, m
<1>2. Deleting(q, id) => Deleting(r, id) \/ (Head(q).op = "delete" /\ Head(q).id = id)
  BY <1>1 DEF Deleting, n, m
<1>3. Deleting(r, id) => Deleting(q, id)
  BY <1>1 DEF Deleting, n, m
<1>4. Head(q).op = "delete" /\ Head(q).id = id => Deleting(q, id)
  BY <1>1 DEF Deleting, n
<1>5. QED
  BY <1>2, <1>3, <1>4 DEF r

LEMMA DeletingRotated ==
  ASSUME NEW q \in Seq(VaultCallType), q # <<>>, NEW c \in VaultCallType,
         c.op = Head(q).op, c.id = Head(q).id, NEW id
  PROVE  Deleting(q, id) <=> Deleting(Append(Tail(q), c), id)
<1> DEFINE r == Tail(q)
<1>1. r \in Seq(VaultCallType)
  OBVIOUS
<1>2. Deleting(q, id) <=> Deleting(r, id) \/ (Head(q).op = "delete" /\ Head(q).id = id)
  BY DeletingServed
<1> HIDE DEF r
<1>3. Deleting(Append(r, c), id) <=> Deleting(r, id) \/ (c.op = "delete" /\ c.id = id)
  BY <1>1, DeletingAppended
<1>4. QED
  BY <1>2, <1>3 DEF r

-----------------------------------------------------------------------------
(***************************************************************************)
(* Nothing else is done while a load is under way, if the user waits.      *)
(***************************************************************************)

Work ==
  \/ Add \/ Edit \/ delete \/ Drag \/ OpenDialog \/ CancelDialog \/ OpenPage
  \/ ListWritten \/ OrderWritten \/ PrefsThrow \/ SaveAnswered \/ SaveThrows \/ DeleteAnswered \/ DeleteThrows

LEMMA Loaded ==
  ASSUME Haste = {}, IInv, Work
  PROVE  loaded /\ loaded' = loaded
<1>1. loaded' = loaded
  BY DEF Work, Add, Edit, save, delete, Drag, reorder, OpenDialog, CancelDialog, OpenPage, ListWritten,
         OrderWritten, PrefsThrow, SaveAnswered, SaveThrows, DeleteAnswered, DeleteThrows
<1>2. ASSUME ~loaded PROVE FALSE
  <2>1. /\ connections = <<>> /\ shown = <<>> /\ dialog = None /\ prefsCalls = <<>>
        /\ vaultCalls # <<>> => Head(vaultCalls).op = "load"
    <3>1. InLoad /\ vaultCalls \in Seq(VaultCallType)
      BY DEF IInv, Consistent, Shape
    <3>2. vaultCalls # <<>> => Head(vaultCalls) = vaultCalls[1]
      BY <3>1
    <3>3. QED
      BY <1>2, <3>1, <3>2 DEF InLoad, Loading
  <2>2. ~Ready
    BY <1>2 DEF Ready
  <2>3. ~Add /\ ~Edit /\ ~delete /\ ~Drag
    BY <2>2 DEF Add, Edit, delete, Drag
  <2>4. ~OpenDialog /\ ~CancelDialog /\ ~OpenPage
    <3>1. DOMAIN shown = {}
      BY <2>1
    <3>2. QED
      BY <2>1, <3>1 DEF OpenDialog, CancelDialog, OpenPage
  <2>5. ~ListWritten /\ ~OrderWritten /\ ~PrefsThrow
    BY <2>1 DEF ListWritten, OrderWritten, PrefsThrow
  <2>6. ~SaveAnswered /\ ~SaveThrows /\ ~DeleteAnswered /\ ~DeleteThrows
    BY <2>1 DEF SaveAnswered, SaveThrows, DeleteAnswered, DeleteThrows
  <2>7. QED
    BY <2>3, <2>4, <2>5, <2>6 DEF Work
<1>3. loaded \in BOOLEAN
  BY DEF IInv, Shape
<1>4. QED
  BY <1>1, <1>2, <1>3

-----------------------------------------------------------------------------
(***************************************************************************)
(* Every step of a user who waits keeps what was saved.                    *)
(***************************************************************************)

LEMMA SaveKeeps ==
  ASSUME IInv, loaded, NEW c \in ConnectionConfig, save(c)
  PROVE  Consistent'
<1> DEFINE d == PersistCall("save", c.id, c.cred, connections')
<1>1. /\ connections' = Put(connections, c) /\ prefsCalls' = Append(prefsCalls, d)
      /\ wanted' = {w \in wanted : w.id # c.id} \cup {c} /\ unsure' = unsure \ {c.id}
      /\ list' = list /\ vault' = vault /\ vaultCalls' = vaultCalls /\ loaded' = loaded
  BY DEF save, storage
<1>2. connections \in Configs /\ prefsCalls \in Seq(PrefsCall) /\ wanted \subseteq ConnectionConfig
  BY DEF IInv, Shape
<1>3. /\ connections' \in Configs /\ Of(Range(connections'), c.id) = {c}
      /\ \A id : id # c.id => Of(Range(connections'), id) = Of(Range(connections), id)
  BY <1>1, <1>2, PutType
<1>4. d \in PrefsCall
  BY <1>3, Empties, PersistCallType DEF ConnectionConfig
<1>5. d.key = "list" /\ d.op = "save" /\ d.id = c.id /\ d.cred = c.cred /\ d.value = toJson(connections')
  BY DEF PersistCall
<1> HIDE DEF d
<1>6. /\ Of(wanted', c.id) = {c}
      /\ \A id : id # c.id => Of(wanted', id) = Of(wanted, id)
  BY <1>1 DEF Of
<1>7. \A id \in Ids \ unsure' : Of(Range(connections'), id) = Of(wanted', id)
  BY <1>1, <1>3, <1>6 DEF IInv, Consistent, InMemory
<1>8. InLists'
  <2> SUFFICES ASSUME NEW id \in Ids \ unsure', ~Deleting(vaultCalls, id)
               PROVE  ListsSay(prefsCalls', list, wanted', id)
    BY <1>1 DEF InLists
  <2>1. Agrees(d.value, wanted', id)
    <3>1. Texts(Range(toJson(connections')), id) = Texts(Range(connections'), id)
      BY <1>3, ToJsonType
    <3>2. Of(Range(connections'), id) = Of(wanted', id)
      BY <1>7
    <3>3. QED
      BY <1>5, <3>1, <3>2 DEF Agrees, Texts
  <2>2. d.id # id => ListsSay(prefsCalls, list, wanted', id)
    <3>1. CASE id # c.id
      <4>1. ListsSay(prefsCalls, list, wanted, id)
        BY <1>1, <3>1 DEF IInv, Consistent, InLists
      <4>2. QED
        BY <1>6, <3>1, <4>1, SaySame
    <3>2. QED
      BY <1>5, <3>1
  <2>3. QED
    BY <1>1, <1>2, <1>4, <1>5, <2>1, <2>2, SayAppended
<1>9. InVault'
  <2> SUFFICES ASSUME NEW w \in wanted', w.id \notin unsure'
               PROVE  Kept(prefsCalls', vaultCalls, vault, w)
    BY <1>1 DEF InVault
  <2>1. CASE w = c
    BY <1>1, <1>2, <1>4, <1>5, <2>1, KeptSaved
  <2>2. CASE w # c
    <3>1. w \in wanted /\ w.id # c.id /\ w.id \notin unsure
      BY <1>1, <2>2
    <3>2. Kept(prefsCalls, vaultCalls, vault, w)
      BY <3>1 DEF IInv, Consistent, InVault
    <3>3. QED
      BY <1>1, <1>2, <1>4, <1>5, <3>1, <3>2, KeptAppended
  <2>3. QED
    BY <2>1, <2>2
<1>10. /\ prefsCalls' # <<>> /\ prefsCalls'[Len(prefsCalls')] = d
  BY <1>1, <1>2, <1>4, Appended
<1>11. InOrder' /\ OnPage' /\ InLoad'
  BY <1>1, <1>5, <1>10 DEF InOrder, OnPage, InLoad
<1>12. QED
  BY <1>7, <1>8, <1>9, <1>11 DEF Consistent, InMemory

LEMMA DeleteKeeps ==
  ASSUME IInv, loaded, delete
  PROVE  Consistent'
<1> DEFINE x == dialog.id
           d == VaultCall("delete", x, Blank)
<1>1. /\ connections' = Without(connections, x) /\ vaultCalls' = Append(vaultCalls, d)
      /\ wanted' = {w \in wanted : w.id # x} /\ unsure' = unsure \ {x}
      /\ list' = list /\ vault' = vault /\ prefsCalls' = prefsCalls /\ loaded' = loaded
  BY DEF delete, storage
<1>2. connections \in Configs /\ vaultCalls \in Seq(VaultCallType) /\ x \in Ids
  BY DEF IInv, Shape, delete, ConnectionConfig
<1>3. d \in VaultCallType
  BY <1>2, Empties, VaultCallMade
<1>4. d.op = "delete" /\ d.id = x
  BY DEF VaultCall
<1> HIDE DEF d, x
<1>5. /\ Of(Range(connections'), x) = {}
      /\ \A id : id # x => Of(Range(connections'), id) = Of(Range(connections), id)
  BY <1>1, <1>2, WithoutType
<1>6. /\ Of(wanted', x) = {} /\ \A id : id # x => Of(wanted', id) = Of(wanted, id)
  BY <1>1 DEF Of
<1>7. InMemory'
  BY <1>1, <1>5, <1>6 DEF IInv, Consistent, InMemory
<1>8. \A id : Deleting(vaultCalls', id) <=> Deleting(vaultCalls, id) \/ id = x
  BY <1>1, <1>2, <1>3, <1>4, DeletingAppended
<1>9. InLists'
  <2> SUFFICES ASSUME NEW id \in Ids \ unsure', ~Deleting(vaultCalls', id)
               PROVE  ListsSay(prefsCalls, list, wanted', id)
    BY <1>1 DEF InLists
  <2>1. id # x /\ ~Deleting(vaultCalls, id)
    BY <1>8
  <2>2. ListsSay(prefsCalls, list, wanted, id)
    BY <1>1, <2>1 DEF IInv, Consistent, InLists
  <2>3. QED
    BY <1>6, <2>1, <2>2, SaySame
<1>10. InVault'
  <2> SUFFICES ASSUME NEW w \in wanted', w.id \notin unsure'
               PROVE  Kept(prefsCalls, vaultCalls', vault, w)
    BY <1>1 DEF InVault
  <2>1. w \in wanted /\ w.id # x /\ w.id \notin unsure
    BY <1>1
  <2>2. Kept(prefsCalls, vaultCalls, vault, w)
    BY <2>1 DEF IInv, Consistent, InVault
  <2>3. Stored(vaultCalls, vault, w) => Stored(vaultCalls', vault, w)
    BY <1>1, <1>2, <1>3, <1>4, <2>1, StoredAppended
  <2>4. QED
    BY <2>2, <2>3, KeptOn
<1>11. InOrder'
  BY <1>2, <1>8 DEF InOrder
<1>12. vaultCalls' # <<>>
  BY <1>1, <1>2, <1>3, Appended
<1>13. OnPage' /\ InLoad'
  BY <1>1, <1>12 DEF OnPage, InLoad
<1>14. QED
  BY <1>7, <1>9, <1>10, <1>11, <1>13 DEF Consistent

LEMMA DragKeeps ==
  ASSUME Haste = {}, IInv, loaded, Drag
  PROVE  Consistent'
<1> DEFINE d == PersistCall("reorder", None, Blank, connections')
<1>1. PICK from \in DOMAIN shown, to \in DOMAIN shown : reorder(from, to)
  BY DEF Drag
<1>2. /\ connections \in Configs /\ prefsCalls \in Seq(PrefsCall)
      /\ from \in 1..Len(connections) /\ to \in 1..Len(connections)
      /\ DOMAIN connections = 1..Len(connections) /\ Len(connections) \in Nat
      /\ wanted \subseteq ConnectionConfig
  <2>1. connections \in Configs /\ prefsCalls \in Seq(PrefsCall) /\ wanted \subseteq ConnectionConfig
    BY DEF IInv, Shape
  <2>2. shown = connections
    BY DEF Drag
  <2>3. QED
    BY <2>1, <2>2, ConfigsFacts
<1>3. from <= Len(connections) /\ to <= Len(RemoveAt(connections, from)) + 1
  BY <1>2, RemoveAtType
<1>4. /\ connections' = InsertAt(RemoveAt(connections, from), to, connections[from])
      /\ prefsCalls' = Append(prefsCalls, d)
      /\ wanted' = wanted /\ unsure' = unsure
      /\ list' = list /\ vault' = vault /\ vaultCalls' = vaultCalls /\ loaded' = loaded
  BY <1>1, <1>3 DEF reorder, storage, history
<1>5. connections' \in Configs /\ Range(connections') = Range(connections)
  BY <1>2, <1>4, InsertAtType
<1>6. d \in PrefsCall
  BY <1>5, Empties, PersistCallType
<1>7. d.key = "list" /\ d.op = "reorder" /\ d.id = None /\ d.value = toJson(connections')
  BY DEF PersistCall
<1> HIDE DEF d
<1>8. InMemory'
  BY <1>4, <1>5 DEF IInv, Consistent, InMemory
<1>9. InLists'
  <2> SUFFICES ASSUME NEW id \in Ids \ unsure, ~Deleting(vaultCalls, id)
               PROVE  ListsSay(prefsCalls', list, wanted, id)
    BY <1>4 DEF InLists
  <2>1. Agrees(d.value, wanted, id)
    <3>1. Texts(Range(toJson(connections')), id) = Texts(Range(connections'), id)
      BY <1>5, ToJsonType
    <3>2. Of(Range(connections'), id) = Of(wanted, id)
      BY <1>4, <1>5 DEF IInv, Consistent, InMemory
    <3>3. QED
      BY <1>7, <3>1, <3>2 DEF Agrees, Texts
  <2>2. ListsSay(prefsCalls, list, wanted, id)
    BY DEF IInv, Consistent, InLists
  <2>3. QED
    BY <1>2, <1>4, <1>6, <1>7, <2>1, <2>2, SayAppended
<1>10. InVault'
  <2> SUFFICES ASSUME NEW w \in wanted, w.id \notin unsure
               PROVE  Kept(prefsCalls', vaultCalls, vault, w)
    BY <1>4 DEF InVault
  <2>1. Kept(prefsCalls, vaultCalls, vault, w)
    BY DEF IInv, Consistent, InVault
  <2>2. QED
    BY <1>2, <1>4, <1>6, <1>7, <2>1, KeptAppended
<1>11. prefsCalls' # <<>> /\ prefsCalls'[Len(prefsCalls')] = d
  BY <1>2, <1>4, <1>6, Appended
<1>12. InOrder' /\ OnPage' /\ InLoad'
  BY <1>4, <1>7, <1>11 DEF InOrder, OnPage, InLoad
<1>13. QED
  BY <1>8, <1>9, <1>10, <1>12 DEF Consistent

LEMMA PageKeeps ==
  ASSUME IInv, loaded, OpenDialog \/ CancelDialog \/ OpenPage
  PROVE  Consistent'
<1>1. UNCHANGED <<connections, loaded, list, order, vault, prefsCalls, vaultCalls, wanted, unsure>>
  BY DEF OpenDialog, CancelDialog, OpenPage, storage, calls, history
<1>2. InMemory' /\ InLists' /\ InVault' /\ InOrder'
  BY <1>1 DEF IInv, Consistent, InMemory, InLists, InVault, InOrder, OrderKept
<1>3. OnPage'
  BY <1>1 DEF IInv, Consistent, OnPage, OpenDialog, CancelDialog, OpenPage
<1>4. InLoad'
  BY <1>1 DEF InLoad
<1>5. QED
  BY <1>2, <1>3, <1>4 DEF Consistent

LEMMA ListWrittenKeeps ==
  ASSUME IInv, loaded, ListWritten
  PROVE  Consistent'
<1> DEFINE c == Head(prefsCalls)
           d == [c EXCEPT !.key = "order", !.value = IdsIn(connections)]
<1>1. /\ prefsCalls # <<>> /\ prefsCalls \in Seq(PrefsCall) /\ c \in PrefsCall /\ c.key = "list"
      /\ list' = c.value /\ prefsCalls' = Append(Tail(prefsCalls), d) /\ connections \in Configs
      /\ UNCHANGED <<connections, loaded, shown, order, vault, vaultCalls, wanted, unsure>>
  BY DEF ListWritten, IInv, Shape, history
<1>2. d \in PrefsCall
  BY <1>1, OrderCallType
<1>3. d.key = "order" /\ d.value = IdsIn(connections) /\ d.op = c.op /\ d.id = c.id /\ d.cred = c.cred
  BY <1>1 DEF PrefsCall
<1> HIDE DEF d
<1>4. InMemory' /\ InLoad'
  BY <1>1 DEF IInv, Consistent, InMemory, InLoad
<1>5. InLists'
  <2> SUFFICES ASSUME NEW id \in Ids \ unsure, ~Deleting(vaultCalls, id)
               PROVE  ListsSay(prefsCalls', list', wanted, id)
    BY <1>1 DEF InLists
  <2>1. ListsSay(prefsCalls, list, wanted, id)
    BY DEF IInv, Consistent, InLists
  <2>2. QED
    BY <1>1, <1>2, <1>3, <2>1, SayWritten
<1>6. InVault'
  <2> SUFFICES ASSUME NEW w \in wanted, w.id \notin unsure
               PROVE  Kept(prefsCalls', vaultCalls, vault, w)
    BY <1>1 DEF InVault
  <2>1. Kept(prefsCalls, vaultCalls, vault, w)
    BY DEF IInv, Consistent, InVault
  <2>2. QED
    BY <1>1, <1>2, <1>3, <2>1, KeptWritten
<1>7. prefsCalls' # <<>> /\ prefsCalls'[Len(prefsCalls')] = d
  BY <1>1, <1>2, Rotated
<1>8. InOrder' /\ OnPage'
  BY <1>1, <1>3, <1>7 DEF InOrder, OnPage
<1>9. QED
  BY <1>4, <1>5, <1>6, <1>8 DEF Consistent

\* The last call stays when the first one is over.
LEMMA LastServed ==
  ASSUME NEW q \in Seq(PrefsCall), q # <<>>
  PROVE  IF Tail(q) = <<>> THEN q[Len(q)] = Head(q) ELSE Tail(q)[Len(Tail(q))] = q[Len(q)]
<1> DEFINE r == Tail(q)
<1>1. /\ Head(q) = q[1] /\ r \in Seq(PrefsCall) /\ Len(q) \in Nat \ {0} /\ Len(r) = Len(q) - 1
      /\ \A i \in 1..Len(r) : r[i] = q[i + 1]
  BY Served
<1> HIDE DEF r
<1>2. CASE r = <<>>
  <2>1. Len(q) = 1
    BY <1>1, <1>2
  <2>2. QED
    BY <1>1, <1>2, <2>1 DEF r
<1>3. CASE r # <<>>
  <2>1. Len(r) \in 1..Len(r) /\ Len(r) + 1 = Len(q)
    <3>1. Len(r) # 0 /\ Len(r) \in Nat
      BY <1>1, <1>3
    <3>2. QED
      BY <1>1, <3>1
  <2>2. r[Len(r)] = q[Len(r) + 1]
    BY <1>1, <2>1
  <2>3. QED
    BY <1>3, <2>1, <2>2 DEF r
<1>4. QED
  BY <1>2, <1>3

LEMMA OrderWrittenKeeps ==
  ASSUME IInv, loaded, OrderWritten
  PROVE  Consistent'
<1> DEFINE c == Head(prefsCalls)
           d == VaultCall("save", c.id, c.cred)
<1>1. /\ prefsCalls # <<>> /\ prefsCalls \in Seq(PrefsCall) /\ c \in PrefsCall /\ c.key = "order"
      /\ order' = c.value /\ prefsCalls' = Tail(prefsCalls) /\ unsure' = unsure \ {None}
      /\ IF c.op = "save" THEN vaultCalls' = Append(vaultCalls, d) ELSE shown' = connections /\ vaultCalls' = vaultCalls
      /\ UNCHANGED <<connections, loaded, list, vault, wanted>>
      /\ vaultCalls \in Seq(VaultCallType) /\ wanted \subseteq ConnectionConfig
  BY DEF OrderWritten, IInv, Shape, Notify
<1>2. c = prefsCalls[1]
  BY <1>1, Served
<1>3. \A id \in Ids : id \notin unsure' <=> id \notin unsure
  BY <1>1, Empties
<1>4. c.op = "save" => d \in VaultCallType
  <2>1. c.op = "save" => c.id \in Ids /\ c.cred \in Credentials
    BY <1>1 DEF PrefsCall
  <2>2. QED
    BY <2>1, VaultCallMade
<1>5. d.op = "save" /\ d.id = c.id
  BY DEF VaultCall
<1>6. \A id : Deleting(vaultCalls', id) <=> Deleting(vaultCalls, id)
  <2>0. c.op = "save" => vaultCalls' = Append(vaultCalls, d)
    BY <1>1
  <2> HIDE DEF c, d
  <2>1. CASE c.op = "save"
    <3>1. vaultCalls' = Append(vaultCalls, d) /\ d \in VaultCallType /\ d.op # "delete"
      BY <1>4, <1>5, <2>0, <2>1
    <3>2. QED
      BY <1>1, <3>1, DeletingAppended
  <2>2. CASE c.op # "save"
    BY <1>1, <2>2
  <2>3. QED
    BY <2>1, <2>2
<1>7. InMemory' /\ InLoad'
  BY <1>1, <1>3 DEF IInv, Consistent, InMemory, InLoad
<1>8. InLists'
  <2> SUFFICES ASSUME NEW id \in Ids \ unsure', ~Deleting(vaultCalls', id)
               PROVE  ListsSay(prefsCalls', list, wanted, id)
    BY <1>1 DEF InLists
  <2>1. ListsSay(prefsCalls, list, wanted, id)
    BY <1>3, <1>6 DEF IInv, Consistent, InLists
  <2>2. ~Writes(prefsCalls, 1, id)
    BY <1>1, <1>2 DEF Writes
  <2>3. QED
    BY <1>1, <2>1, <2>2, SayServed
<1>9. InVault'
  <2> SUFFICES ASSUME NEW w \in wanted, w.id \notin unsure'
               PROVE  Kept(prefsCalls', vaultCalls', vault, w)
    BY <1>1 DEF InVault
  <2>1. Kept(prefsCalls, vaultCalls, vault, w)
    <3>1. w.id \in Ids
      BY <1>1 DEF ConnectionConfig
    <3>2. QED
      BY <1>3, <3>1 DEF IInv, Consistent, InVault
  <2>2. CASE c.op = "save" /\ c.id = w.id
    BY <1>1, <2>1, <2>2, KeptGoesOn
  <2>3. CASE ~(c.op = "save" /\ c.id = w.id)
    <3>1. Kept(prefsCalls', vaultCalls, vault, w)
      BY <1>1, <2>1, <2>3, KeptServed
    <3>2. Stored(vaultCalls, vault, w) => Stored(vaultCalls', vault, w)
      <4> HIDE DEF c, d
      <4>1. CASE c.op = "save"
        BY <1>1, <1>4, <1>5, <2>3, <4>1, StoredAppended
      <4>2. CASE c.op # "save"
        BY <1>1, <4>2
      <4>3. QED
        BY <4>1, <4>2
    <3>3. QED
      BY <3>1, <3>2, KeptOn
  <2>4. QED
    BY <2>2, <2>3
<1>10. InOrder'
  <2> SUFFICES ASSUME \A id \in Ids : ~Deleting(vaultCalls', id)
               PROVE  /\ prefsCalls' = <<>> /\ None \notin unsure' => OrderKept'
                      /\ prefsCalls' # <<>> /\ prefsCalls'[Len(prefsCalls')].key = "order" =>
                           prefsCalls'[Len(prefsCalls')].value = IdsIn(connections)
    BY <1>1 DEF InOrder
  <2>1. prefsCalls[Len(prefsCalls)].key = "order" => prefsCalls[Len(prefsCalls)].value = IdsIn(connections)
    BY <1>1, <1>6 DEF IInv, Consistent, InOrder
  <2>2. CASE prefsCalls' = <<>>
    <3>1. order' = IdsIn(connections)
      BY <1>1, <2>1, <2>2, LastServed
    <3>2. QED
      BY <1>1, <2>2, <3>1 DEF OrderKept
  <2>3. CASE prefsCalls' # <<>>
    BY <1>1, <2>1, <2>3, LastServed
  <2>4. QED
    BY <2>2, <2>3
<1>11. OnPage'
  <2>1. CASE c.op = "save"
    <3> HIDE DEF d
    <3>1. vaultCalls' # <<>>
      BY <1>1, <1>4, <2>1, Appended
    <3>2. QED
      BY <3>1 DEF OnPage
  <2>2. CASE c.op # "save"
    BY <1>1, <2>2 DEF OnPage
  <2>3. QED
    BY <2>1, <2>2
<1>12. QED
  BY <1>7, <1>8, <1>9, <1>10, <1>11 DEF Consistent

LEMMA PrefsThrowKeeps ==
  ASSUME IInv, loaded, PrefsThrow
  PROVE  Consistent'
<1> DEFINE c == Head(prefsCalls)
<1>1. /\ prefsCalls # <<>> /\ prefsCalls \in Seq(PrefsCall)
      /\ prefsCalls' = Tail(prefsCalls) /\ unsure' = unsure \cup {c.id, None}
      /\ UNCHANGED <<connections, loaded, shown, list, order, vault, vaultCalls, wanted>>
  BY DEF PrefsThrow, IInv, Shape, storage
<1>2. c = prefsCalls[1]
  BY <1>1, Served
<1>3. InMemory' /\ InLoad' /\ OnPage'
  BY <1>1 DEF IInv, Consistent, InMemory, InLoad, OnPage
<1>4. InLists'
  <2> SUFFICES ASSUME NEW id \in Ids \ unsure', ~Deleting(vaultCalls, id)
               PROVE  ListsSay(prefsCalls', list, wanted, id)
    BY <1>1 DEF InLists
  <2>1. ListsSay(prefsCalls, list, wanted, id)
    BY <1>1 DEF IInv, Consistent, InLists
  <2>2. ~Writes(prefsCalls, 1, id)
    BY <1>1, <1>2 DEF Writes
  <2>3. QED
    BY <1>1, <2>1, <2>2, SayServed
<1>5. InVault'
  <2> SUFFICES ASSUME NEW w \in wanted, w.id \notin unsure'
               PROVE  Kept(prefsCalls', vaultCalls, vault, w)
    BY <1>1 DEF InVault
  <2>1. Kept(prefsCalls, vaultCalls, vault, w) /\ c.id # w.id
    BY <1>1 DEF IInv, Consistent, InVault
  <2>2. QED
    BY <1>1, <2>1, KeptServed
<1>6. InOrder'
  <2> SUFFICES ASSUME \A id \in Ids : ~Deleting(vaultCalls, id), prefsCalls' # <<>>,
                      prefsCalls'[Len(prefsCalls')].key = "order"
               PROVE  prefsCalls'[Len(prefsCalls')].value = IdsIn(connections)
    BY <1>1 DEF InOrder
  <2>1. prefsCalls[Len(prefsCalls)].key = "order" => prefsCalls[Len(prefsCalls)].value = IdsIn(connections)
    BY <1>1 DEF IInv, Consistent, InOrder
  <2>2. QED
    BY <1>1, <2>1, LastServed
<1>7. QED
  BY <1>3, <1>4, <1>5, <1>6 DEF Consistent

\* What only the credentials and their calls disturb.
LEMMA VaultOnly ==
  ASSUME IInv, loaded, UNCHANGED <<connections, loaded, list, order, prefsCalls, wanted>>,
         unsure \subseteq unsure', None \in unsure' => None \in unsure,
         \A id : Deleting(vaultCalls', id) <=> Deleting(vaultCalls, id),
         shown' = connections \/ vaultCalls' # <<>>,
         \A w \in wanted : w.id \notin unsure' /\ Stored(vaultCalls, vault, w) => Stored(vaultCalls', vault', w)
  PROVE  Consistent'
<1>1. InMemory' /\ InLoad' /\ OnPage'
  BY DEF IInv, Consistent, InMemory, InLoad, OnPage
<1>2. InLists'
  BY DEF IInv, Consistent, InLists
<1>3. InVault'
  <2> SUFFICES ASSUME NEW w \in wanted, w.id \notin unsure'
               PROVE  Kept(prefsCalls, vaultCalls', vault', w)
    BY DEF InVault
  <2>1. Kept(prefsCalls, vaultCalls, vault, w)
    BY DEF IInv, Consistent, InVault
  <2>2. QED
    BY <2>1, KeptOn
<1>4. InOrder'
  <2>1. OrderKept => OrderKept'
    BY DEF OrderKept
  <2>2. QED
    BY <2>1 DEF IInv, Consistent, InOrder
<1>5. QED
  BY <1>1, <1>2, <1>3, <1>4 DEF Consistent

LEMMA SaveAnsweredKeeps ==
  ASSUME IInv, loaded, SaveAnswered
  PROVE  Consistent'
<1> DEFINE c == Head(vaultCalls)
           d == [c EXCEPT !.part = @ + 1]
<1>1. /\ vaultCalls # <<>> /\ vaultCalls \in Seq(VaultCallType) /\ c \in VaultCallType /\ c.op = "save"
      /\ UNCHANGED <<connections, loaded, list, order, prefsCalls, wanted, unsure>>
      /\ wanted \subseteq ConnectionConfig /\ vault \in [Ids -> Credentials]
  BY VaultServed DEF SaveAnswered, IInv, Shape, history
<1>2. c.id \in Ids /\ c.cred \in Credentials /\ (c.part <= Parts => c.part \in 1..Parts)
      /\ c.part \in Nat /\ Parts \in Nat
  BY <1>1, CallFacts, Empties
<1>3. \A w \in wanted : w.id \in Ids /\ w.cred \in Credentials
  BY <1>1 DEF ConnectionConfig
<1>4. CASE c.part <= Parts
  <2>1. /\ vault' = [vault EXCEPT ![c.id][c.part] = c.cred[c.part]]
        /\ vaultCalls' = Append(Tail(vaultCalls), d)
    BY <1>4 DEF SaveAnswered
  <2>2. d \in VaultCallType
    BY <1>1, <1>2, <1>4, NextPart
  <2>3. d.op = c.op /\ d.id = c.id /\ d.cred = c.cred /\ d.part = c.part + 1
    BY <1>1 DEF VaultCallType
  <2>4. c.cred[c.part] \in Versions \cup {None} /\ c.part \in 1..Parts
    BY <1>2, <1>4 DEF Credentials
  <2>5. /\ \A x \in Ids : x # c.id => vault'[x] = vault[x]
        /\ \A p \in 1..Parts : p # c.part => vault'[c.id][p] = vault[c.id][p]
        /\ vault'[c.id][c.part] = c.cred[c.part]
    <3>1. Puts(vault, vault', c.id, c.part, c.cred[c.part])
      BY <1>1, <1>2, <2>1, <2>4 DEF Puts
    <3>2. QED
      BY <3>1, Written
  <2> HIDE DEF d
  <2>6. \A id : Deleting(vaultCalls', id) <=> Deleting(vaultCalls, id)
    BY <1>1, <2>1, <2>2, <2>3, DeletingRotated
  <2>7. ASSUME NEW w \in wanted, Stored(vaultCalls, vault, w)
        PROVE  Stored(vaultCalls', vault', w)
    <3>1. CASE c.id = w.id
      BY <1>1, <2>1, <2>2, <2>3, <2>5, <2>7, <3>1, StoredGoesOn
    <3>2. CASE c.id # w.id
      BY <1>1, <1>3, <2>1, <2>2, <2>3, <2>5, <2>7, <3>2, StoredRotated
    <3>3. QED
      BY <3>1, <3>2
  <2>8. vaultCalls' # <<>>
    BY <1>1, <2>1, <2>2, Rotated
  <2>9. QED
    BY <1>1, <2>6, <2>7, <2>8, VaultOnly
<1>5. CASE ~(c.part <= Parts)
  <2>1. vault' = vault /\ vaultCalls' = Tail(vaultCalls) /\ shown' = connections
    BY <1>1, <1>5 DEF SaveAnswered, Notify
  <2>2. \A id : Deleting(vaultCalls', id) <=> Deleting(vaultCalls, id)
    BY <1>1, <2>1, DeletingServed
  <2>3. ASSUME NEW w \in wanted, Stored(vaultCalls, vault, w)
        PROVE  Stored(vaultCalls', vault', w)
    <3>1. CASE c.id = w.id
      <4>1. c.part > Parts /\ w.cred \in Credentials /\ vault[w.id] \in Credentials
        BY <1>1, <1>2, <1>3, <1>5
      <4>2. QED
        BY <1>1, <2>1, <2>3, <3>1, <4>1, StoredOver
    <3>2. CASE c.id # w.id
      BY <1>1, <2>1, <2>3, <3>2, StoredServed
    <3>3. QED
      BY <3>1, <3>2
  <2>4. QED
    BY <1>1, <2>1, <2>2, <2>3, VaultOnly
<1>6. QED
  BY <1>4, <1>5

LEMMA SaveThrowsKeeps ==
  ASSUME IInv, loaded, SaveThrows
  PROVE  Consistent'
<1> DEFINE c == Head(vaultCalls)
<1>1. /\ vaultCalls # <<>> /\ vaultCalls \in Seq(VaultCallType) /\ c \in VaultCallType /\ c.op = "save"
      /\ vaultCalls' = Tail(vaultCalls) /\ shown' = connections
      /\ unsure' = IF c.part <= Parts THEN unsure \cup {c.id} ELSE unsure
      /\ UNCHANGED <<connections, loaded, list, order, vault, prefsCalls, wanted>>
      /\ wanted \subseteq ConnectionConfig /\ vault \in [Ids -> Credentials]
  BY VaultServed DEF SaveThrows, IInv, Shape, storage, Notify
<1>2. c.id \in Ids /\ c.id # None /\ c.part \in Nat /\ Parts \in Nat
  BY <1>1, CallFacts, Empties
<1>3. unsure \subseteq unsure' /\ (None \in unsure' => None \in unsure)
  BY <1>1, <1>2
<1>4. \A id : Deleting(vaultCalls', id) <=> Deleting(vaultCalls, id)
  BY <1>1, DeletingServed
<1>5. ASSUME NEW w \in wanted, w.id \notin unsure', Stored(vaultCalls, vault, w)
      PROVE  Stored(vaultCalls', vault', w)
  <2>1. CASE c.id = w.id
    <3>1. c.part > Parts
      BY <1>1, <1>2, <1>5, <2>1
    <3>2. w.cred \in Credentials /\ vault[w.id] \in Credentials
      BY <1>1 DEF ConnectionConfig
    <3>3. QED
      BY <1>1, <1>5, <2>1, <3>1, <3>2, StoredOver
  <2>2. CASE c.id # w.id
    BY <1>1, <1>5, <2>2, StoredServed
  <2>3. QED
    BY <2>1, <2>2
<1>6. QED
  BY <1>1, <1>3, <1>4, <1>5, VaultOnly

\* The delete goes on with the lists.
LEMMA DeletedKeeps ==
  ASSUME IInv, loaded, vaultCalls # <<>>, Head(vaultCalls).op = "delete", Deleted(Head(vaultCalls)),
         UNCHANGED <<connections, loaded, list, order, wanted, unsure>>,
         vault' \in [Ids -> Credentials],
         \A x \in Ids : x # Head(vaultCalls).id => vault'[x] = vault[x],
         \A p \in 1..Parts : p < Head(vaultCalls).part =>
           vault'[Head(vaultCalls).id][p] = vault[Head(vaultCalls).id][p]
  PROVE  Consistent'
<1> DEFINE c == Head(vaultCalls)
           d == PersistCall("delete", c.id, Blank, connections)
<1>1. /\ vaultCalls \in Seq(VaultCallType) /\ c \in VaultCallType
      /\ vaultCalls' = Tail(vaultCalls) /\ prefsCalls' = Append(prefsCalls, d)
      /\ prefsCalls \in Seq(PrefsCall) /\ connections \in Configs
      /\ wanted \subseteq ConnectionConfig /\ vault \in [Ids -> Credentials]
  BY VaultServed DEF Deleted, IInv, Shape
<1>2. c.id \in Ids /\ c.id # None
  BY <1>1, CallFacts, Empties
<1>3. d \in PrefsCall
  BY <1>1, <1>2, Empties, PersistCallType
<1>4. d.key = "list" /\ d.op = "delete" /\ d.id = c.id /\ d.value = toJson(connections)
  BY DEF PersistCall
<1> HIDE DEF d
<1>5. \A id : Deleting(vaultCalls, id) <=> Deleting(vaultCalls', id) \/ c.id = id
  BY <1>1, DeletingServed
<1>6. InMemory' /\ InLoad'
  BY DEF IInv, Consistent, InMemory, InLoad
<1>7. InLists'
  <2> SUFFICES ASSUME NEW id \in Ids \ unsure, ~Deleting(vaultCalls', id)
               PROVE  ListsSay(prefsCalls', list, wanted, id)
    BY DEF InLists
  <2>1. Agrees(d.value, wanted, id)
    <3>1. Texts(Range(toJson(connections)), id) = Texts(Range(connections), id)
      BY <1>1, ToJsonType
    <3>2. Of(Range(connections), id) = Of(wanted, id)
      BY DEF IInv, Consistent, InMemory
    <3>3. QED
      BY <1>4, <3>1, <3>2 DEF Agrees, Texts
  <2>2. d.id # id => ListsSay(prefsCalls, list, wanted, id)
    BY <1>4, <1>5 DEF IInv, Consistent, InLists
  <2>3. QED
    BY <1>1, <1>3, <1>4, <2>1, <2>2, SayAppended
<1>8. InVault'
  <2> SUFFICES ASSUME NEW w \in wanted, w.id \notin unsure
               PROVE  Kept(prefsCalls', vaultCalls', vault', w)
    BY DEF InVault
  <2>1. Kept(prefsCalls, vaultCalls, vault, w)
    BY DEF IInv, Consistent, InVault
  <2>2. Kept(prefsCalls', vaultCalls, vault, w)
    BY <1>1, <1>3, <1>4, <2>1, KeptAppended
  <2>3. w.id \in Ids /\ w.cred \in Credentials
    BY <1>1 DEF ConnectionConfig
  <2>4. ASSUME Stored(vaultCalls, vault, w) PROVE Stored(vaultCalls', vault', w)
    <3>1. CASE c.id = w.id
      <4>1. \A p \in 1..Parts : p < Head(vaultCalls).part => vault'[w.id][p] = vault[w.id][p]
        BY <3>1
      <4>2. vault[w.id] \in Credentials /\ vault'[w.id] \in Credentials
        BY <1>1, <2>3
      <4>3. Stored(Tail(vaultCalls), vault', w)
        BY <1>1, <2>3, <2>4, <3>1, <4>1, <4>2, StoredOver
      <4>4. QED
        BY <1>1, <4>3
    <3>2. CASE c.id # w.id
      <4>1. vault'[w.id] = vault[w.id]
        BY <2>3, <3>2
      <4>2. Stored(Tail(vaultCalls), vault', w)
        BY <1>1, <2>4, <3>2, <4>1, StoredServed
      <4>3. QED
        BY <1>1, <4>2
    <3>3. QED
      BY <3>1, <3>2
  <2>5. QED
    BY <2>2, <2>4, KeptOn
<1>9. prefsCalls' # <<>> /\ prefsCalls'[Len(prefsCalls')] = d
  BY <1>1, <1>3, Appended
<1>10. InOrder' /\ OnPage'
  BY <1>4, <1>9 DEF InOrder, OnPage
<1>11. QED
  BY <1>6, <1>7, <1>8, <1>10 DEF Consistent

LEMMA DeleteAnsweredKeeps ==
  ASSUME IInv, loaded, DeleteAnswered
  PROVE  Consistent'
<1> DEFINE c == Head(vaultCalls)
           d == [c EXCEPT !.part = @ + 1]
<1>1. /\ vaultCalls # <<>> /\ vaultCalls \in Seq(VaultCallType) /\ c \in VaultCallType /\ c.op = "delete"
      /\ UNCHANGED <<connections, loaded, list, order, wanted, unsure>>
      /\ wanted \subseteq ConnectionConfig /\ vault \in [Ids -> Credentials]
      /\ vault' = [vault EXCEPT ![c.id][c.part] = None]
  BY VaultServed DEF DeleteAnswered, IInv, Shape, history
<1>2. c.id \in Ids /\ c.cred \in Credentials /\ c.part \in 1..Parts
  BY <1>1, CallFacts
<1>3. /\ vault' \in [Ids -> Credentials]
      /\ \A x \in Ids : x # c.id => vault'[x] = vault[x]
      /\ \A p \in 1..Parts : p # c.part => vault'[c.id][p] = vault[c.id][p]
  <2>1. Puts(vault, vault', c.id, c.part, None)
    BY <1>1, <1>2 DEF Puts
  <2>2. QED
    BY <2>1, Written
<1>4. CASE c.part < Parts
  <2>1. vaultCalls' = Append(Tail(vaultCalls), d) /\ prefsCalls' = prefsCalls
    BY <1>4 DEF DeleteAnswered
  <2>2. d \in VaultCallType
    BY <1>1, <1>2, <1>4, NextPart
  <2>3. d.op = c.op /\ d.id = c.id /\ d.cred = c.cred /\ d.part = c.part + 1
    BY <1>1 DEF VaultCallType
  <2> HIDE DEF d
  <2>4. \A id : Deleting(vaultCalls', id) <=> Deleting(vaultCalls, id)
    BY <1>1, <2>1, <2>2, <2>3, DeletingRotated
  <2>5. ASSUME NEW w \in wanted, Stored(vaultCalls, vault, w)
        PROVE  Stored(vaultCalls', vault', w)
    <3>1. CASE c.id = w.id
      BY <1>1, <1>3, <2>1, <2>2, <2>3, <2>5, <3>1, StoredGoesOn
    <3>2. CASE c.id # w.id
      <4>1. vault'[w.id] = vault[w.id]
        BY <1>1, <1>3, <3>2 DEF ConnectionConfig
      <4>2. QED
        BY <1>1, <2>1, <2>2, <2>3, <2>5, <3>2, <4>1, StoredRotated
    <3>3. QED
      BY <3>1, <3>2
  <2>6. vaultCalls' # <<>>
    BY <1>1, <2>1, <2>2, Rotated
  <2>7. QED
    BY <1>1, <2>1, <2>4, <2>5, <2>6, VaultOnly
<1>5. CASE ~(c.part < Parts)
  <2>1. Deleted(c)
    BY <1>5 DEF DeleteAnswered
  <2>2. \A p \in 1..Parts : p < c.part => p # c.part
    OBVIOUS
  <2>3. QED
    BY <1>1, <1>3, <2>1, <2>2, DeletedKeeps
<1>6. QED
  BY <1>4, <1>5

LEMMA DeleteThrowsKeeps ==
  ASSUME IInv, loaded, DeleteThrows
  PROVE  Consistent'
<1>1. vault' = vault /\ vault' \in [Ids -> Credentials]
  BY DEF DeleteThrows, storage, IInv, Shape
<1>2. QED
  BY <1>1, DeletedKeeps DEF DeleteThrows, storage, history

-----------------------------------------------------------------------------
(***************************************************************************)
(* What a load finds is what was saved.                                    *)
(***************************************************************************)

\* What the storages hold of a connection nothing is under way for.
LEMMA Quiet ==
  ASSUME IInv, NEW id \in Ids, id \notin unsure,
         \A i \in 1..Len(prefsCalls) : prefsCalls[i].id # id,
         \A i \in 1..Len(vaultCalls) : vaultCalls[i].id # id
  PROVE  Agrees(list, wanted, id) /\ \A w \in wanted : w.id = id => vault[id] = w.cred
<1>1. Agrees(list, wanted, id)
  <2>1. ~Deleting(vaultCalls, id)
    BY DEF Deleting
  <2>2. ListsSay(prefsCalls, list, wanted, id)
    BY <2>1 DEF IInv, Consistent, InLists
  <2>3. QED
    BY <2>2 DEF ListsSay, Writes
<1>2. ASSUME NEW w \in wanted, w.id = id PROVE vault[id] = w.cred
  <2>1. Kept(prefsCalls, vaultCalls, vault, w)
    BY <1>2 DEF IInv, Consistent, InVault
  <2>2. \A key : NoSave(prefsCalls, w.id, key)
    BY <1>2 DEF NoSave, Saves
  <2>3. Stored(vaultCalls, vault, w)
    BY <2>1, <2>2 DEF Kept
  <2>4. QED
    BY <1>2, <2>3 DEF Stored, Finishes
<1>3. QED
  BY <1>1, <1>2

\* The stored list with the stored credentials.
LEMMA Found ==
  ASSUME wanted \subseteq ConnectionConfig, list \in Lists, NEW rows \in Configs, Len(rows) = Len(list),
         \A i \in 1..Len(list) : rows[i].id = list[i].id /\ rows[i].text = list[i].text,
         NEW id \in Ids, \A i \in 1..Len(list) : list[i].id = id => rows[i].cred = vault[id],
         Agrees(list, wanted, id), \A w \in wanted : w.id = id => vault[id] = w.cred
  PROVE  Of(Range(rows), id) = Of(wanted, id)
<1>1. /\ \A i \in 1..Len(list) : rows[i] \in ConnectionConfig
      /\ \A i, j \in 1..Len(list) : list[i].id = list[j].id => i = j
      /\ Range(list) = {list[i] : i \in 1..Len(list)}
  BY ConfigsFacts, ListsFacts
<1>2. Texts(Range(list), id) = Texts(wanted, id)
  BY DEF Agrees
<1>3. CASE \E i \in 1..Len(list) : list[i].id = id
  <2>1. PICK i \in 1..Len(list) : list[i].id = id
    BY <1>3
  <2>2. Of(Range(rows), id) = {rows[i]}
    BY <2>1, OfAt
  <2>3. Of(Range(list), id) = {list[i]}
    BY <1>1, <2>1 DEF Of
  <2>4. Texts(wanted, id) = {list[i].text}
    BY <1>2, <2>3 DEF Texts
  <2>5. ASSUME NEW w \in Of(wanted, id) PROVE w = rows[i]
    <3>1. w \in ConnectionConfig /\ w.id = id /\ w.cred = vault[id]
      BY DEF Of
    <3>2. w.text = list[i].text
      BY <2>4 DEF Texts
    <3>3. rows[i] \in ConnectionConfig /\ rows[i].id = id /\ rows[i].text = list[i].text /\ rows[i].cred = vault[id]
      BY <1>1, <2>1
    <3>4. QED
      BY <3>1, <3>2, <3>3, SameConfig
  <2>6. \E w : w \in Of(wanted, id)
    BY <2>4 DEF Texts
  <2>7. QED
    BY <2>2, <2>5, <2>6
<1>4. CASE ~\E i \in 1..Len(list) : list[i].id = id
  <2>1. \A i \in 1..Len(rows) : rows[i].id # id
    BY <1>4
  <2>2. Of(Range(rows), id) = {}
    BY <2>1, OfNone
  <2>3. Of(Range(list), id) = {}
    BY <1>1, <1>4 DEF Of
  <2>4. Of(wanted, id) = {}
    <3> SUFFICES ASSUME NEW w \in Of(wanted, id) PROVE FALSE
      OBVIOUS
    <3>1. w.text \in Texts(wanted, id)
      BY DEF Texts
    <3>2. Texts(Range(list), id) = {}
      BY <2>3 DEF Texts
    <3>3. QED
      BY <1>2, <3>1, <3>2
  <2>5. QED
    BY <2>2, <2>4
<1>5. QED
  BY <1>3, <1>4

\* The load under way is alone.
LEMMA Alone ==
  ASSUME IInv, vaultCalls # <<>>, Head(vaultCalls).op = "load"
  PROVE  /\ ~loaded /\ connections = <<>> /\ shown = <<>> /\ dialog = None /\ prefsCalls = <<>>
         /\ vaultCalls \in Seq(VaultCallType) /\ Len(vaultCalls) = 1 /\ Tail(vaultCalls) = <<>>
         /\ Head(vaultCalls) \in VaultCallType /\ Loading(Head(vaultCalls), list, order, vault, unsure) /\ Head(vaultCalls).id = None
         /\ \A d : Append(Tail(vaultCalls), d) = <<d>>
         /\ \A id \in Ids : ~Deleting(vaultCalls, id)
<1>1. /\ vaultCalls \in Seq(VaultCallType) /\ OneLoad(vaultCalls, loaded)
      /\ Head(vaultCalls) = vaultCalls[1] /\ 1 \in 1..Len(vaultCalls)
      /\ Head(vaultCalls) \in VaultCallType
  BY Served DEF IInv, Shape
<1>2. ~loaded
  BY <1>1 DEF OneLoad
<1>3. /\ connections = <<>> /\ shown = <<>> /\ dialog = None /\ prefsCalls = <<>>
      /\ Len(vaultCalls) = 1 /\ Loading(Head(vaultCalls), list, order, vault, unsure)
  BY <1>1, <1>2 DEF IInv, Consistent, InLoad
<1>4. Tail(vaultCalls) = <<>>
  <2> DEFINE t == Tail(vaultCalls)
  <2>1. t \in Seq(VaultCallType) /\ Len(t) = Len(vaultCalls) - 1
    BY <1>1, Served
  <2> HIDE DEF t
  <2>2. t \in Seq(VaultCallType) /\ Len(t) = 0
    BY <1>3, <2>1
  <2>3. t = <<>>
    BY <2>2
  <2>4. QED
    BY <2>3 DEF t
<1>5. Head(vaultCalls).id = None
  BY <1>1, CallFacts
<1>6. \A id \in Ids : ~Deleting(vaultCalls, id)
  BY <1>1, <1>3 DEF Deleting
<1>7. \A d : Append(Tail(vaultCalls), d) = <<d>>
  <2>1. \A d : Append(<<>>, d) = <<d>>
    OBVIOUS
  <2>2. QED
    BY <1>4, <2>1
<1>8. QED
  BY <1>1, <1>2, <1>3, <1>4, <1>5, <1>6, <1>7

\* While the load goes on only what it has read changes.
LEMMA StillLoading ==
  ASSUME IInv, vaultCalls # <<>>, Head(vaultCalls).op = "load", NEW d, vaultCalls' = <<d>>, d.id = None,
         d.op = "load", UNCHANGED <<connections, loaded, shown, dialog, list, order, vault, prefsCalls, wanted>>,
         unsure \subseteq unsure', Loading(d, list, order, vault, unsure')
  PROVE  Consistent'
<1>1. ~loaded' /\ Len(vaultCalls') = 1 /\ vaultCalls'[1] = d
  BY Alone
<1>2. \A id \in Ids : ~Deleting(vaultCalls', id)
  BY <1>1 DEF Deleting
<1>3. InLists'
  BY Alone DEF IInv, Consistent, InLists
<1>4. InVault'
  <2> SUFFICES ASSUME NEW w \in wanted, w.id \notin unsure'
               PROVE  Kept(prefsCalls, vaultCalls', vault, w)
    BY DEF InVault
  <2>1. Kept(prefsCalls, vaultCalls, vault, w)
    BY DEF IInv, Consistent, InVault
  <2>2. w.id # None
    BY Empties DEF IInv, Shape, ConnectionConfig
  <2>3. ASSUME Stored(vaultCalls, vault, w) PROVE Stored(vaultCalls', vault, w)
    <3>1. \A i \in 1..Len(vaultCalls) : ~Finishes(vaultCalls, vault, i, w)
      <4>1. \A i \in 1..Len(vaultCalls) : vaultCalls[i] = Head(vaultCalls)
        BY Alone
      <4>2. QED
        BY <2>2, <4>1, Alone DEF Finishes
    <3>2. vault[w.id] = w.cred
      BY <2>3, <3>1 DEF Stored
    <3>3. \A i \in 1..Len(vaultCalls') : vaultCalls'[i].id # w.id
      BY <1>1, <2>2
    <3>4. QED
      BY <3>2, <3>3 DEF Stored
  <2>4. QED
    BY <2>1, <2>3, KeptOn
<1>5. InLoad'
  BY <1>1, Alone DEF InLoad
<1>6. InMemory' /\ InOrder' /\ OnPage'
  BY <1>1 DEF InMemory, InOrder, OnPage
<1>7. QED
  BY <1>3, <1>4, <1>5, <1>6 DEF Consistent

\* One more connection of the stored list is read; U is what is unsure then.
LEMMA OneMore ==
  ASSUME NEW rows, NEW done \in Seq(ConnectionConfig), NEW todo \in Seq(Row), todo # <<>>,
         NEW v, NEW U, ReadUpTo(done, todo, rows, v, U),
         NEW cred \in Credentials, NEW W, U \subseteq W,
         Head(todo).id \in W \/ cred = v[Head(todo).id],
         NEW more, more = Append(done, [id |-> Head(todo).id, text |-> Head(todo).text, cred |-> cred])
  PROVE  ReadUpTo(more, Tail(todo), rows, v, W)
<1> DEFINE t == Tail(todo)
           e == [id |-> Head(todo).id, text |-> Head(todo).text, cred |-> cred]
           n == Len(done)
<1>2. /\ Head(todo) = todo[1] /\ 1 \in 1..Len(todo) /\ todo[1] \in Row
      /\ Len(todo) \in Nat \ {0} /\ Len(t) = Len(todo) - 1
      /\ \A i \in 1..Len(t) : t[i] = todo[i + 1] /\ i + 1 \in 1..Len(todo)
  BY Served
<1>3. e \in ConnectionConfig /\ e.id = todo[1].id /\ e.text = todo[1].text /\ e.cred = cred
  BY <1>2 DEF ConnectionConfig, Row
<1> HIDE DEF e, t
<1>4. /\ Len(more) = n + 1 /\ \A i \in 1..n : more[i] = done[i]
      /\ more[n + 1] = e
      /\ \A i \in 1..Len(more) : i \in 1..n \/ i = n + 1
      /\ n \in Nat
  BY <1>3, Appended DEF e
<1>5. /\ n + Len(todo) = Len(rows)
      /\ \A i \in 1..n :
           /\ done[i].id = rows[i].id /\ done[i].text = rows[i].text
           /\ rows[i].id \notin U => done[i].cred = v[rows[i].id]
      /\ \A i \in 1..Len(todo) : todo[i] = rows[n + i]
  BY DEF ReadUpTo
<1> HIDE DEF n
<1>6. todo[1] = rows[n + 1]
  BY <1>2, <1>5
<1>7. \A i \in 1..Len(more) :
        /\ more[i].id = rows[i].id /\ more[i].text = rows[i].text
        /\ rows[i].id \notin W => more[i].cred = v[rows[i].id]
  <2> SUFFICES ASSUME NEW i \in 1..Len(more)
               PROVE  /\ more[i].id = rows[i].id /\ more[i].text = rows[i].text
                      /\ rows[i].id \notin W => more[i].cred = v[rows[i].id]
    OBVIOUS
  <2>1. CASE i \in 1..n
    BY <1>4, <1>5, <2>1
  <2>2. CASE i = n + 1
    BY <1>2, <1>3, <1>4, <1>6, <2>2
  <2>3. QED
    BY <1>4, <2>1, <2>2
<1>8. \A i \in 1..Len(t) : t[i] = rows[Len(more) + i]
  <2> SUFFICES ASSUME NEW i \in 1..Len(t) PROVE t[i] = rows[Len(more) + i]
    OBVIOUS
  <2>1. t[i] = todo[i + 1] /\ i + 1 \in 1..Len(todo)
    BY <1>2
  <2>2. todo[i + 1] = rows[n + (i + 1)]
    BY <1>5, <2>1
  <2>3. n + (i + 1) = Len(more) + i
    <3>1. Len(more) = n + 1 /\ n \in Nat /\ i \in Nat
      BY <1>2, <1>4
    <3>2. QED
      BY <3>1
  <2>4. QED
    BY <2>1, <2>2, <2>3
<1>9. Len(more) + Len(t) = Len(rows) /\ Len(more) \in Nat
  <2>1. /\ Len(more) = n + 1 /\ n \in Nat
        /\ Len(todo) \in Nat /\ Len(t) = Len(todo) - 1 /\ n + Len(todo) = Len(rows)
    BY <1>2, <1>4, <1>5
  <2> DEFINE a == Len(more)
             b == Len(t)
             k == Len(todo)
             l == Len(rows)
  <2>2. a = n + 1 /\ n \in Nat /\ k \in Nat /\ b = k - 1 /\ n + k = l
    BY <2>1
  <2> HIDE DEF a, b, k, l
  <2>3. a + b = l /\ a \in Nat
    BY <2>2
  <2>4. QED
    BY <2>3 DEF a, b, l
<1>10. QED
  BY <1>7, <1>8, <1>9 DEF t, ReadUpTo

\* load has read one more connection, and goes on or is over.
LEMMA ReadKeeps ==
  ASSUME IInv, vaultCalls # <<>>, Head(vaultCalls).op = "load", NEW cred \in Credentials,
         Read(Head(vaultCalls), cred),
         UNCHANGED <<dialog, list, order, vault, prefsCalls, wanted>>,
         unsure \subseteq unsure', None \in unsure' => None \in unsure,
         Head(Head(vaultCalls).todo).id \in unsure' \/ cred = vault[Head(Head(vaultCalls).todo).id]
  PROVE  Consistent'
<1> DEFINE c == Head(vaultCalls)
           more == Append(c.done, [id |-> Head(c.todo).id, text |-> Head(c.todo).text, cred |-> cred])
           t == Tail(c.todo)
<1>1. /\ ~loaded /\ connections = <<>> /\ shown = <<>> /\ prefsCalls = <<>>
      /\ c \in VaultCallType /\ Loading(c, list, order, vault, unsure) /\ c.id = None /\ Tail(vaultCalls) = <<>>
      /\ \A d : Append(Tail(vaultCalls), d) = <<d>>
      /\ \A id \in Ids : ~Deleting(vaultCalls, id)
  BY Alone
<1>2. /\ c.todo \in Lists /\ c.done \in Configs /\ c.ord = order /\ c.ord \in Orders /\ c.todo # <<>>
      /\ \A i \in DOMAIN c.done, j \in DOMAIN c.todo : c.done[i].id # c.todo[j].id
  BY <1>1, CallFacts DEF Loading
<1>3. more \in Configs
  <2>1. ReadOn(c.todo, c.done, cred, more)
    BY DEF ReadOn
  <2> HIDE DEF c, more
  <2>2. QED
    BY <1>2, <2>1, ReadType
<1>4. ReadUpTo(more, t, list, vault, unsure')
  <2>1. ReadUpTo(c.done, c.todo, list, vault, unsure)
    BY <1>1 DEF Loading
  <2>2. c.done \in Seq(ConnectionConfig) /\ c.todo \in Seq(Row)
    BY <1>2, ConfigsFacts, ListsFacts
  <2> DEFINE U == unsure'
             todo == c.todo
             done == c.done
  <2>3. Head(todo).id \in U \/ cred = vault[Head(todo).id]
    OBVIOUS
  <2>4. more = Append(done, [id |-> Head(todo).id, text |-> Head(todo).text, cred |-> cred])
    OBVIOUS
  <2>5. /\ done \in Seq(ConnectionConfig) /\ todo \in Seq(Row) /\ todo # <<>> /\ unsure \subseteq U
        /\ ReadUpTo(done, todo, list, vault, unsure)
    BY <1>2, <2>1, <2>2
  <2> HIDE DEF U, more, done, todo
  <2>6. ReadUpTo(more, Tail(todo), list, vault, U)
    BY <2>3, <2>4, <2>5, OneMore
  <2>7. QED
    BY <2>6 DEF U, todo
<1>5. IF Len(c.todo) > 1
      THEN /\ vaultCalls' = Append(Tail(vaultCalls), LoadCall(t, more, c.ord))
           /\ UNCHANGED <<connections, loaded, shown>>
      ELSE /\ vaultCalls' = Tail(vaultCalls)
           /\ connections' = Sorted(more, c.ord) /\ loaded' = TRUE /\ shown' = connections'
  BY DEF Read
<1> HIDE DEF more, t
<1>6. CASE Len(c.todo) > 1
  <2> DEFINE d == LoadCall(t, more, c.ord)
  <2>1. vaultCalls' = <<d>> /\ UNCHANGED <<connections, loaded, shown>>
    BY <1>1, <1>5, <1>6
  <2>2. /\ d.op = "load" /\ d.id = None /\ d.done = more /\ d.todo = t /\ d.ord = order
        /\ d.part = 1
    BY <1>2 DEF LoadCall
  <2> HIDE DEF d
  <2>3. Loading(d, list, order, vault, unsure')
    <3>1. \A p \in 1..Parts : ~(p < d.part)
      BY <2>2, Empties
    <3>2. QED
      BY <1>4, <2>2, <3>1 DEF Loading
  <2>4. QED
    BY <2>1, <2>2, <2>3, StillLoading
<1>7. CASE ~(Len(c.todo) > 1)
  <2>1. vaultCalls' = <<>> /\ connections' = Sorted(more, order) /\ loaded' = TRUE /\ shown' = connections'
    BY <1>1, <1>2, <1>5, <1>7
  <2>2. Len(more) = Len(list)
    <3>1. Len(more) + Len(t) = Len(list)
      BY <1>4 DEF ReadUpTo
    <3>2. /\ more \in Seq(ConnectionConfig) /\ c.todo \in Seq(Row) /\ Len(c.todo) \in Nat \ {0}
          /\ Len(t) = Len(c.todo) - 1
      BY <1>2, <1>3, ConfigsFacts, ListsFacts, Served DEF t
    <3> DEFINE a == Len(more)
               b == Len(t)
               k == Len(c.todo)
    <3>3. a \in Nat /\ k \in Nat \ {0} /\ b = k - 1 /\ ~(k > 1) /\ a + b = Len(list)
      BY <1>7, <3>1, <3>2
    <3> HIDE DEF a, b, k
    <3>4. b = 0
      BY <3>3
    <3>5. a = Len(list)
      BY <3>3, <3>4
    <3>6. QED
      BY <3>5 DEF a
  <2>3. order \in Seq(Ids) /\ list \in Lists /\ wanted \subseteq ConnectionConfig
    BY DEF IInv, Shape, Orders
  <2>4. Range(connections') = Range(more)
    BY <1>3, <2>1, <2>3, SortedType
  <2>5. \A i \in 1..Len(vaultCalls) : vaultCalls[i].id = None
    BY Alone
  <2>6. InMemory'
    <3> SUFFICES ASSUME NEW id \in Ids \ unsure'
                 PROVE  Of(Range(more), id) = Of(wanted, id)
      BY <2>4 DEF InMemory
    <3>1. /\ \A i \in 1..Len(prefsCalls) : prefsCalls[i].id # id
          /\ \A i \in 1..Len(vaultCalls) : vaultCalls[i].id # id
      BY <1>1, <2>5, Empties
    <3>2. Agrees(list, wanted, id) /\ \A w \in wanted : w.id = id => vault[id] = w.cred
      BY <3>1, Quiet
    <3>3. \A i \in 1..Len(list) :
            /\ more[i].id = list[i].id /\ more[i].text = list[i].text
            /\ list[i].id = id => more[i].cred = vault[id]
      BY <1>4, <2>2 DEF ReadUpTo
    <3>4. QED
      BY <1>3, <2>2, <2>3, <3>2, <3>3, Found
  <2>7. InLists'
    BY <1>1 DEF IInv, Consistent, InLists
  <2>8. InVault'
    <3> SUFFICES ASSUME NEW w \in wanted, w.id \notin unsure'
                 PROVE  Kept(prefsCalls, vaultCalls', vault, w)
      BY DEF InVault
    <3>1. Kept(prefsCalls, vaultCalls, vault, w)
      BY DEF IInv, Consistent, InVault
    <3>2. w.id # None
      BY <2>3, Empties DEF ConnectionConfig
    <3>3. ASSUME Stored(vaultCalls, vault, w) PROVE Stored(vaultCalls', vault, w)
      <4>1. vault[w.id] = w.cred
        BY <2>5, <3>2, <3>3 DEF Stored, Finishes
      <4>2. QED
        BY <2>1, <4>1 DEF Stored
    <3>4. QED
      BY <3>1, <3>3, KeptOn
  <2>9. InLoad' /\ OnPage'
    BY <2>1 DEF InLoad, OnPage
  <2>10. InOrder'
    <3>1. IdsIn(Sorted(list, order)) = IdsIn(Sorted(more, order))
      <4>1. DOMAIN list = 1..Len(list) /\ Len(list) \in Nat /\ DOMAIN more = 1..Len(list)
        BY <1>3, <2>2, <2>3, ListsFacts, ConfigsFacts
      <4>2. \A i \in 1..Len(list) : list[i].id = more[i].id
        BY <1>4, <2>2 DEF ReadUpTo
      <4>3. QED
        BY <2>3, <4>1, <4>2, SortedIds
    <3>2. OrderKept'
      BY <2>1, <3>1 DEF OrderKept
    <3>3. QED
      BY <1>1, <3>2 DEF InOrder
  <2>11. QED
    BY <2>6, <2>7, <2>8, <2>9, <2>10 DEF Consistent
<1>8. QED
  BY <1>6, <1>7

LEMMA LoadAnsweredKeeps ==
  ASSUME IInv, LoadAnswered
  PROVE  Consistent'
<1> DEFINE c == Head(vaultCalls)
           id == Head(c.todo).id
           cred == [c.cred EXCEPT ![c.part] = vault[id][c.part]]
<1>1. /\ vaultCalls # <<>> /\ c \in VaultCallType /\ c.op = "load" /\ Shape
      /\ UNCHANGED <<dialog, list, order, vault, prefsCalls, wanted, unsure>>
  BY VaultServed DEF LoadAnswered, IInv, storage, history
<1>2. cred \in Credentials /\ id \in Ids
  BY <1>1, ReadPart
<1>3. /\ Loading(c, list, order, vault, unsure) /\ c.id = None /\ \A d : Append(Tail(vaultCalls), d) = <<d>>
      /\ c.todo # <<>> /\ c.cred \in Credentials /\ c.part \in 1..Parts /\ c.todo \in Lists
  BY <1>1, Alone, CallFacts
<1>4. id = c.todo[1].id /\ vault[id] \in Credentials
  <2>1. Head(c.todo) = c.todo[1]
    BY <1>3, ListsFacts, Served
  <2>2. QED
    BY <1>1, <1>2, <2>1 DEF Shape
<1>5. \A p \in 1..Parts : p < c.part \/ p = c.part => cred[p] = vault[id][p]
  <2>1. \A p \in 1..Parts : p < c.part => c.cred[p] = vault[id][p]
    BY <1>3, <1>4 DEF Loading
  <2>2. QED
    BY <1>3, <2>1 DEF Credentials
<1>6. CASE c.part < Parts
  <2> DEFINE d == [c EXCEPT !.part = @ + 1, !.cred = cred]
  <2>1. vaultCalls' = Append(Tail(vaultCalls), d) /\ UNCHANGED <<connections, loaded, shown>>
    BY <1>6 DEF LoadAnswered
  <2> HIDE DEF cred
  <2>2. /\ d.op = "load" /\ d.id = None /\ d.done = c.done /\ d.todo = c.todo /\ d.ord = c.ord
        /\ d.part = c.part + 1 /\ d.cred = cred
    BY <1>1, <1>3 DEF VaultCallType
  <2> HIDE DEF d
  <2>3. vaultCalls' = <<d>>
    BY <1>3, <2>1
  <2>4. \A p \in 1..Parts : p < d.part => d.cred[p] = vault[d.todo[1].id][p]
    <3>1. ASSUME NEW p \in 1..Parts, p < d.part PROVE p < c.part \/ p = c.part
      BY <1>3, <2>2, <3>1
    <3>2. QED
      BY <1>4, <1>5, <2>2, <3>1
  <2> HIDE DEF c, id
  <2>5. Loading(d, list, order, vault, unsure')
    BY <1>1, <1>3, <2>2, <2>4 DEF Loading
  <2>6. QED
    BY <1>1, <2>1, <2>2, <2>3, <2>5, StillLoading DEF c
<1>7. CASE ~(c.part < Parts)
  <2>1. \A p \in 1..Parts : p < c.part \/ p = c.part
    BY <1>3, <1>7, Empties
  <2>2. \A p \in 1..Parts : cred[p] = vault[id][p]
    BY <1>5, <2>1
  <2>3. Read(c, cred)
    BY <1>7 DEF LoadAnswered
  <2> HIDE DEF cred
  <2>4. cred = vault[id]
    BY <1>2, <1>4, <2>2, SameCredentials
  <2>5. QED
    BY <1>1, <1>2, <2>3, <2>4, ReadKeeps
<1>8. QED
  BY <1>6, <1>7

LEMMA LoadThrowsKeeps ==
  ASSUME IInv, LoadThrows
  PROVE  Consistent'
<1> DEFINE c == Head(vaultCalls)
<1>1. /\ vaultCalls # <<>> /\ c \in VaultCallType /\ c.op = "load" /\ Shape /\ Read(c, c.cred)
      /\ unsure' = unsure \cup {Head(c.todo).id}
      /\ UNCHANGED <<dialog, list, order, vault, prefsCalls, wanted>>
  BY VaultServed DEF LoadThrows, IInv, storage
<1>2. Head(c.todo).id \in Ids /\ c.cred \in Credentials
  BY <1>1, ReadPart, CallFacts
<1>3. None \in unsure' => None \in unsure
  BY <1>1, <1>2, Empties
<1>4. QED
  BY <1>1, <1>2, <1>3, ReadKeeps

LEMMA StartKeeps ==
  ASSUME IInv, Start
  PROVE  Consistent'
<1>1. /\ connections' = <<>> /\ shown' = <<>> /\ dialog' = None /\ prefsCalls' = <<>>
      /\ loaded' = (list = <<>>)
      /\ vaultCalls' = IF list = <<>> THEN <<>> ELSE <<LoadCall(list, <<>>, order)>>
      /\ UNCHANGED <<list, order, vault, wanted>>
      /\ unsure' = unsure \cup {c.id : c \in {d \in Calls : d.op # "load"}}
  BY DEF Start, Restart, storage
<1>2. list \in Lists /\ wanted \subseteq ConnectionConfig /\ Shape
  BY DEF IInv, Shape
<1>3. ASSUME NEW id \in Ids, id \notin unsure'
      PROVE  Agrees(list, wanted, id) /\ \A w \in wanted : w.id = id => vault[id] = w.cred
  <2>1. ASSUME NEW i \in 1..Len(prefsCalls) PROVE prefsCalls[i].id # id
    <3>1. prefsCalls[i] \in Calls /\ prefsCalls[i] \in PrefsCall
      BY <1>2, CallsAt DEF Shape
    <3>2. prefsCalls[i].op # "load"
      BY <3>1 DEF PrefsCall
    <3>3. QED
      BY <1>1, <1>3, <3>1, <3>2
  <2>2. ASSUME NEW i \in 1..Len(vaultCalls) PROVE vaultCalls[i].id # id
    <3>1. vaultCalls[i] \in Calls /\ vaultCalls[i] \in VaultCallType
      BY <1>2, CallsAt DEF Shape
    <3>2. CASE vaultCalls[i].op = "load"
      BY <3>1, <3>2, CallFacts, Empties
    <3>3. CASE vaultCalls[i].op # "load"
      BY <1>1, <1>3, <3>1, <3>3
    <3>4. QED
      BY <3>2, <3>3
  <2>3. id \notin unsure
    BY <1>1, <1>3
  <2>4. QED
    BY <2>1, <2>2, <2>3, Quiet
<1> DEFINE d == LoadCall(list, <<>>, order)
<1>4. /\ d.op = "load" /\ d.id = None /\ d.part = 1 /\ d.todo = list /\ d.done = <<>> /\ d.ord = order
  BY DEF LoadCall
<1>5. vaultCalls' = <<>> \/ vaultCalls' = <<d>>
  BY <1>1
<1> HIDE DEF d
<1>6. \A i \in 1..Len(vaultCalls') : vaultCalls'[i].id = None
  BY <1>4, <1>5
<1>7. InMemory'
  <2> SUFFICES ASSUME list = <<>>, NEW id \in Ids \ unsure'
               PROVE  Of(Range(connections'), id) = Of(wanted', id)
    BY <1>1 DEF InMemory
  <2>1. Agrees(list, wanted, id)
    BY <1>3
  <2>2. \A x : x \notin Range(<<>>)
    BY DEF Range
  <2>3. Of(wanted, id) = {}
    BY <2>1, <2>2 DEF Agrees, Texts, Of
  <2>4. QED
    BY <1>1, <2>2, <2>3 DEF Of
<1>8. InLists'
  BY <1>1, <1>3 DEF InLists, ListsSay
<1>9. InVault'
  <2> SUFFICES ASSUME NEW w \in wanted, w.id \notin unsure'
               PROVE  Kept(prefsCalls', vaultCalls', vault, w)
    BY <1>1 DEF InVault
  <2>1. w.id \in Ids /\ w.id # None
    BY <1>2, Empties DEF ConnectionConfig
  <2>2. vault[w.id] = w.cred
    BY <1>3, <2>1
  <2>3. Stored(vaultCalls', vault, w)
    BY <1>6, <2>1, <2>2 DEF Stored
  <2>4. QED
    BY <1>1, <2>3 DEF Kept
<1>10. InLoad'
  <2> SUFFICES ASSUME list # <<>> PROVE Len(vaultCalls') = 1 /\ Loading(vaultCalls'[1], list, order, vault, unsure')
    BY <1>1 DEF InLoad
  <2>1. vaultCalls' = <<d>>
    BY <1>1 DEF d
  <2>2. Len(vaultCalls') = 1 /\ vaultCalls'[1] = d
    BY <2>1
  <2>3. Loading(d, list, order, vault, unsure')
    <3>1. Len(d.done) = 0 /\ Len(list) \in Nat /\ \A i \in 1..Len(list) : 0 + i = i
      BY <1>2, <1>4, ListsFacts
    <3>2. \A p \in 1..Parts : ~(p < d.part)
      BY <1>4, Empties
    <3>3. \A i \in 1..Len(d.done) : FALSE
      BY <3>1
    <3>4. Len(d.done) + Len(d.todo) = Len(list)
      BY <1>4, <3>1
    <3>5. \A i \in 1..Len(d.todo) : d.todo[i] = list[Len(d.done) + i]
      BY <1>4, <3>1
    <3>6. QED
      BY <1>1, <1>4, <3>2, <3>3, <3>4, <3>5 DEF Loading, ReadUpTo
  <2>4. QED
    BY <2>2, <2>3
<1>11. InOrder' /\ OnPage'
  <2>1. ASSUME list = <<>> PROVE OrderKept'
    <3>1. Sorted(<<>>, order) = <<>>
      BY DEF Sorted
    <3>2. QED
      BY <1>1, <2>1, <3>1 DEF OrderKept
  <2>2. QED
    BY <1>1, <2>1 DEF InOrder, OnPage
<1>12. QED
  BY <1>7, <1>8, <1>9, <1>10, <1>11 DEF Consistent

LEMMA StartThrowsKeeps ==
  ASSUME IInv, StartThrows
  PROVE  Consistent'
<1>1. /\ connections' = <<>> /\ shown' = <<>> /\ prefsCalls' = <<>> /\ loaded' = TRUE
      /\ wanted' = wanted /\ unsure' = Ids /\ wanted \subseteq ConnectionConfig
  BY DEF StartThrows, Restart, IInv, Shape
<1>2. InMemory' /\ InLists' /\ InLoad' /\ InOrder' /\ OnPage'
  BY <1>1 DEF InMemory, InLists, InLoad, InOrder, OrderKept, OnPage
<1>3. InVault'
  BY <1>1 DEF InVault, ConnectionConfig
<1>4. QED
  BY <1>2, <1>3 DEF Consistent

-----------------------------------------------------------------------------
(***************************************************************************)
(* The theorem.                                                            *)
(***************************************************************************)

LEMMA InitKeeps ==
  ASSUME Init
  PROVE  Consistent
<1>1. /\ connections = <<>> /\ shown = <<>> /\ loaded = TRUE /\ list = <<>> /\ order = <<>>
      /\ prefsCalls = <<>> /\ vaultCalls = <<>> /\ wanted = {}
  BY DEF Init
<1>2. Range(<<>>) = {}
  BY DEF Range
<1>3. InMemory
  BY <1>1, <1>2 DEF InMemory, Of
<1>4. InLists
  BY <1>1, <1>2 DEF InLists, ListsSay, Agrees, Texts, Of
<1>5. InVault /\ InLoad /\ OnPage
  BY <1>1 DEF InVault, InLoad, OnPage
<1>6. InOrder
  <2>1. IdsIn(connections) = <<>>
    BY <1>1 DEF IdsIn
  <2>2. QED
    BY <1>1, <2>1 DEF InOrder, OrderKept
<1>7. QED
  BY <1>3, <1>4, <1>5, <1>6 DEF Consistent

LEMMA AddKeeps ==
  ASSUME IInv, loaded, Add
  PROVE  Consistent'
<1>1. PICK id \in Ids, v \in Versions : save([id |-> id, text |-> v, cred |-> [p \in 1..Parts |-> v]])
  BY DEF Add
<1>2. [id |-> id, text |-> v, cred |-> [p \in 1..Parts |-> v]] \in ConnectionConfig
  BY DEF ConnectionConfig, Credentials
<1>3. QED
  BY <1>1, <1>2, SaveKeeps

LEMMA EditKeeps ==
  ASSUME IInv, loaded, Edit
  PROVE  Consistent'
<1>0. PICK v \in Versions : \E cred \in {dialog.cred, Blank, [p \in 1..Parts |-> v]} :
        save([id |-> dialog.id, text |-> v, cred |-> cred])
  BY DEF Edit
<1>1. PICK cred \in {dialog.cred, Blank, [p \in 1..Parts |-> v]} :
        save([id |-> dialog.id, text |-> v, cred |-> cred])
  BY <1>0
<1>2. dialog \in ConnectionConfig
  BY DEF Edit, IInv, Shape
<1>3. [id |-> dialog.id, text |-> v, cred |-> cred] \in ConnectionConfig
  BY <1>2, Empties DEF ConnectionConfig, Credentials
<1>4. QED
  BY <1>1, <1>3, SaveKeeps

LEMMA StutterKeeps ==
  ASSUME IInv, UNCHANGED vars
  PROVE  Consistent'
<1>1. UNCHANGED <<connections, loaded, shown, dialog, list, order, vault, prefsCalls, vaultCalls, wanted, unsure>>
  BY DEF vars, storage, calls, history
<1>2. InMemory' /\ InLists'
  BY <1>1 DEF IInv, Consistent, InMemory, InLists
<1>3. InVault' /\ InLoad'
  BY <1>1 DEF IInv, Consistent, InVault, InLoad
<1>4. InOrder' /\ OnPage'
  BY <1>1 DEF IInv, Consistent, InOrder, OrderKept, OnPage
<1>5. QED
  BY <1>2, <1>3, <1>4 DEF Consistent

LEMMA Step ==
  ASSUME Haste = {}, IInv, [Next]_vars
  PROVE  IInv'
<1>1. Shape'
  BY ShapeStep DEF IInv
<1>2. CASE Work
  <2>1. loaded
    BY <1>2, Loaded
  <2>2. CASE Add \/ Edit \/ delete \/ Drag
    BY <1>1, <2>1, <2>2, AddKeeps, EditKeeps, DeleteKeeps, DragKeeps DEF IInv
  <2>3. CASE OpenDialog \/ CancelDialog \/ OpenPage
    BY <1>1, <2>1, <2>3, PageKeeps DEF IInv
  <2>4. CASE ListWritten \/ OrderWritten \/ PrefsThrow
    BY <1>1, <2>1, <2>4, ListWrittenKeeps, OrderWrittenKeeps, PrefsThrowKeeps DEF IInv
  <2>5. CASE SaveAnswered \/ SaveThrows \/ DeleteAnswered \/ DeleteThrows
    BY <1>1, <2>1, <2>5, SaveAnsweredKeeps, SaveThrowsKeeps, DeleteAnsweredKeeps, DeleteThrowsKeeps DEF IInv
  <2>6. QED
    BY <1>1, <1>2, <2>2, <2>3, <2>4, <2>5 DEF Work, IInv
<1>3. CASE LoadAnswered \/ LoadThrows
  BY <1>1, <1>3, LoadAnsweredKeeps, LoadThrowsKeeps DEF IInv
<1>4. CASE Start \/ StartThrows
  BY <1>1, <1>4, StartKeeps, StartThrowsKeeps DEF IInv
<1>5. CASE UNCHANGED vars
  BY <1>1, <1>5, StutterKeeps DEF IInv
<1>6. QED
  BY <1>2, <1>3, <1>4, <1>5 DEF Next, Work

\* The stored list with the stored credentials, as a load puts it together.
Rows == [i \in DOMAIN list |-> [id |-> list[i].id, text |-> list[i].text, cred |-> vault[list[i].id]]]

LEMMA RowsType ==
  ASSUME Shape
  PROVE  /\ Rows \in Configs /\ Len(Rows) = Len(list) /\ DOMAIN list = 1..Len(list) /\ Len(list) \in Nat
         /\ DOMAIN Rows = 1..Len(list)
         /\ \A i \in 1..Len(list) :
              Rows[i].id = list[i].id /\ Rows[i].text = list[i].text /\ Rows[i].cred = vault[list[i].id]
<1>1. /\ DOMAIN list = 1..Len(list) /\ Len(list) \in Nat /\ \A i \in 1..Len(list) : list[i] \in Row
      /\ \A i, j \in 1..Len(list) : list[i].id = list[j].id => i = j
  BY ListsFacts DEF Shape
<1>2. \A i \in 1..Len(list) :
        /\ Rows[i] = [id |-> list[i].id, text |-> list[i].text, cred |-> vault[list[i].id]]
        /\ Rows[i] \in ConnectionConfig
  BY <1>1 DEF Rows, Row, ConnectionConfig, Shape
<1>3. Rows \in [1..Len(list) -> ConnectionConfig]
  BY <1>1, <1>2 DEF Rows
<1>4. \A i \in 1..Len(list) :
        Rows[i].id = list[i].id /\ Rows[i].text = list[i].text /\ Rows[i].cred = vault[list[i].id]
  <2> SUFFICES ASSUME NEW i \in 1..Len(list)
               PROVE  Rows[i].id = list[i].id /\ Rows[i].text = list[i].text /\ Rows[i].cred = vault[list[i].id]
    OBVIOUS
  <2> DEFINE x == Rows[i]
  <2>1. x = [id |-> list[i].id, text |-> list[i].text, cred |-> vault[list[i].id]]
    BY <1>2
  <2> HIDE DEF x
  <2>2. x.id = list[i].id /\ x.text = list[i].text /\ x.cred = vault[list[i].id]
    BY <2>1
  <2>3. QED
    BY <2>2 DEF x
<1>5. \A i, j \in 1..Len(list) : Rows[i].id = Rows[j].id => i = j
  BY <1>1, <1>4
<1> DEFINE n == Len(list)
           rows == Rows
<1>6. n \in Nat /\ rows \in [1..n -> ConnectionConfig] /\ \A i, j \in 1..n : rows[i].id = rows[j].id => i = j
  BY <1>1, <1>3, <1>5
<1> HIDE DEF n, rows
<1>7. rows \in Configs /\ Len(rows) = n
  BY <1>6, IsConfigs
<1>8. QED
  BY <1>1, <1>3, <1>4, <1>7 DEF n, rows

LEMMA RecoveredType ==
  ASSUME Shape
  PROVE  Recovered = Sorted(Rows, order) /\ Recovered \in Configs /\ Range(Recovered) = Range(Rows)
<1>1. Recovered = Sorted(Rows, order) /\ order \in Seq(Ids)
  BY DEF Recovered, Rows, Shape, Orders
<1>2. QED
  BY <1>1, RowsType, SortedType

LEMMA IsDurable ==
  ASSUME IInv
  PROVE  Durable
<1> SUFFICES ASSUME NEW id \in Ids, id \notin unsure, id \notin UnderWay
             PROVE  Of(Range(Recovered), id) = Of(wanted, id)
  BY DEF Durable
<1>1. Shape /\ wanted \subseteq ConnectionConfig /\ list \in Lists /\ id # None
  BY Empties DEF IInv, Shape
<1>2. /\ \A i \in 1..Len(prefsCalls) : prefsCalls[i].id # id
      /\ \A i \in 1..Len(vaultCalls) : vaultCalls[i].id # id
  BY <1>1, CallsAt DEF UnderWay
<1>3. Agrees(list, wanted, id) /\ \A w \in wanted : w.id = id => vault[id] = w.cred
  BY <1>2, Quiet
<1> DEFINE rows == Rows
<1>4. /\ rows \in Configs /\ Len(rows) = Len(list)
      /\ \A i \in 1..Len(list) : rows[i].id = list[i].id /\ rows[i].text = list[i].text
      /\ \A i \in 1..Len(list) : list[i].id = id => rows[i].cred = vault[id]
  BY <1>1, RowsType
<1>5. Range(Recovered) = Range(rows)
  BY <1>1, RecoveredType
<1> HIDE DEF rows
<1>6. Of(Range(rows), id) = Of(wanted, id)
  BY <1>1, <1>3, <1>4, Found
<1>7. QED
  BY <1>5, <1>6

LEMMA IsSettled ==
  ASSUME IInv
  PROVE  Settled
<1> SUFFICES ASSUME loaded, Calls = {}, unsure = {}
             PROVE  connections = Recovered /\ shown = connections
  BY DEF Settled
<1>1. Shape /\ connections \in Configs /\ wanted \subseteq ConnectionConfig /\ order \in Seq(Ids)
  BY DEF IInv, Shape, Orders
<1>2. prefsCalls = <<>> /\ vaultCalls = <<>>
  <2>1. Len(prefsCalls) = 0 /\ Len(vaultCalls) = 0
    <3>1. \A i \in 1..Len(prefsCalls) : FALSE
      BY <1>1, CallsAt
    <3>2. \A i \in 1..Len(vaultCalls) : FALSE
      BY <1>1, CallsAt
    <3>3. Len(prefsCalls) \in Nat /\ Len(vaultCalls) \in Nat
      BY <1>1 DEF Shape
    <3> DEFINE a == Len(prefsCalls)
               b == Len(vaultCalls)
    <3> HIDE DEF a, b
    <3>4. a = 0
      BY <3>1, <3>3 DEF a
    <3>5. b = 0
      BY <3>2, <3>3 DEF b
    <3>6. QED
      BY <3>4, <3>5 DEF a, b
  <2>2. QED
    BY <1>1, <2>1 DEF Shape
<1>3. shown = connections
  BY <1>2 DEF IInv, Consistent, OnPage
<1>4. OrderKept
  <2>1. \A id \in Ids : ~Deleting(vaultCalls, id)
    BY <1>2 DEF Deleting
  <2>2. QED
    BY <1>2, <2>1 DEF IInv, Consistent, InOrder
<1>5. \A id \in Ids : Of(Range(connections), id) = Of(wanted, id)
  BY DEF IInv, Consistent, InMemory
<1>6. Recovered \in Configs /\ Recovered = Sorted(Rows, order) /\ Range(Recovered) = Range(Rows) /\ Rows \in Configs
  BY <1>1, RecoveredType, RowsType
<1>7. Durable
  BY IsDurable
<1>8. \A id \in Ids : Of(Range(Recovered), id) = Of(wanted, id)
  BY <1>2, <1>7, CallsAt, <1>1 DEF Durable, UnderWay
<1>9. Range(Recovered) = Range(connections)
  <2> DEFINE A == Range(Recovered)
             B == Range(connections)
  <2>1. A \subseteq ConnectionConfig /\ B \subseteq ConnectionConfig
    <3>1. /\ A = {Recovered[i] : i \in 1..Len(Recovered)} /\ B = {connections[i] : i \in 1..Len(connections)}
          /\ \A i \in 1..Len(Recovered) : Recovered[i] \in ConnectionConfig
          /\ \A i \in 1..Len(connections) : connections[i] \in ConnectionConfig
      BY <1>1, <1>6, ConfigsFacts
    <3> HIDE DEF A, B
    <3>2. QED
      BY <3>1
  <2>2. \A id \in Ids : Of(A, id) = Of(B, id)
    BY <1>5, <1>8
  <2> HIDE DEF A, B
  <2>3. ASSUME NEW X, NEW Y, X \subseteq ConnectionConfig, \A id \in Ids : Of(X, id) = Of(Y, id)
        PROVE  X \subseteq Y
    <3> SUFFICES ASSUME NEW c \in X PROVE c \in Y
      OBVIOUS
    <3>1. c.id \in Ids
      BY <2>3 DEF ConnectionConfig
    <3>2. c \in Of(X, c.id)
      BY DEF Of
    <3>3. c \in Of(Y, c.id)
      BY <2>3, <3>1, <3>2
    <3>4. QED
      BY <3>3 DEF Of
  <2>4. A = B
    BY <2>1, <2>2, <2>3
  <2>5. QED
    BY <2>4 DEF A, B
<1>10. CASE order = IdsIn(connections)
  <2>1. Range(connections) = Range(Rows)
    BY <1>6, <1>9
  <2>2. Sorted(Rows, IdsIn(connections)) = connections
    BY <1>1, <1>6, <2>1, SortedBack
  <2>3. Recovered = Sorted(Rows, IdsIn(connections))
    BY <1>6, <1>10
  <2>4. QED
    BY <1>3, <2>2, <2>3
<1>11. CASE IdsIn(Sorted(list, order)) = IdsIn(connections)
  <2>1. IdsIn(Sorted(list, order)) = IdsIn(Sorted(Rows, order))
    <3>1. /\ DOMAIN list = 1..Len(list) /\ Len(list) \in Nat /\ DOMAIN Rows = 1..Len(list)
          /\ \A i \in 1..Len(list) : list[i].id = Rows[i].id
      BY <1>1, RowsType
    <3>2. QED
      BY <1>1, <3>1, SortedIds
  <2>2. IdsIn(Recovered) = IdsIn(connections)
    BY <1>6, <1>11, <2>1
  <2>3. QED
    BY <1>1, <1>3, <1>6, <1>9, <2>2, SameIds
<1>12. CASE Ids \subseteq unsure /\ connections = <<>>
  <2>1. Range(connections) = {}
    BY <1>12 DEF Range
  <2>2. Len(Recovered) = 0
    <3>1. Range(Recovered) = {Recovered[i] : i \in 1..Len(Recovered)} /\ Len(Recovered) \in Nat
      BY <1>6, ConfigsFacts
    <3>2. \A i \in 1..Len(Recovered) : FALSE
      BY <1>9, <2>1, <3>1
    <3> DEFINE a == Len(Recovered)
    <3> HIDE DEF a
    <3>3. a = 0
      BY <3>1, <3>2 DEF a
    <3>4. QED
      BY <3>3 DEF a
  <2>3. Recovered = <<>>
    BY <1>6, <2>2, ConfigsFacts
  <2>4. QED
    BY <1>3, <1>12, <2>3
<1>13. QED
  BY <1>3, <1>4, <1>10, <1>11, <1>12 DEF OrderKept

\* For a user who waits for the load and for the page: whatever overlaps, fails or
\* is cut short, a connection whose own last operation was answered to its end is
\* found by the next load as it was saved, and with nothing under way and no
\* failure behind the page, the list in memory and the storages agree.
THEOREM ConnectionsKeptHolds ==
  ASSUME Haste = {}
  PROVE  Spec => []ConnectionsKept
<1>1. Init => IInv
  BY InitShape, InitKeeps DEF IInv
<1>2. IInv /\ [Next]_vars => IInv'
  BY Step
<1>3. IInv => ConnectionsKept
  BY IsDurable, IsSettled DEF ConnectionsKept
<1>4. QED
  BY <1>1, <1>2, <1>3, PTL DEF Spec

=============================================================================
