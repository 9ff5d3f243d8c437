------------------------ MODULE ConnectionRepository ------------------------
(***************************************************************************)
(* ConnectionRepository and the page that shows it: the list of saved      *)
(* connections in memory, its copy and its order in the preferences, and   *)
(* the credentials in the secure storage.  An operation changes the list   *)
(* at once and then makes one call of a storage after the other; other     *)
(* operations begin in between, and the application may end anywhere.      *)
(*                                                                         *)
(* Each storage answers its calls in the order in which it gets them, and  *)
(* keeps what it has answered.  A step is one answer, with the code that   *)
(* runs from it to the next call.  The preferences are read when the       *)
(* application starts, before anybody can touch it.                        *)
(***************************************************************************)
EXTENDS Naturals, FiniteSets, Sequences, SequencesExt

CONSTANTS
  Ids,          \* ids of connections
  Versions,     \* values of the fields of a connection
  Parts,        \* how many credentials a connection has, each under its key
  Haste,        \* what the user does not wait for: "load", "page"
  MaxUnderWay,  \* bound on the operations under way
  MaxOperations, MaxFaults, \* bounds on operations, and on failures and restarts
  None

ASSUME PartsAssumption == Parts \in Nat \ {0}
ASSUME HasteAssumption == Haste \subseteq {"load", "page"}
ASSUME NoneAssumption == None \notin Ids \cup Versions

VARIABLES
  connections,  \* _connections
  loaded,       \* _loaded
  shown,        \* the list SavedConnectionsPage is built with
  dialog,       \* the connection of the dialog in front
  list, order,  \* saved_connections and connections_order in the preferences
  vault,        \* the credentials in the secure storage
  prefsCalls, vaultCalls, \* what waits for each storage, the oldest first
  wanted,       \* history: the connections as the user saved them last
  unsure,       \* history: ids whose last operation was cut short; None: the order
  operations, faults \* how many there have been

storage == <<list, order, vault>>
calls == <<prefsCalls, vaultCalls>>
history == <<wanted, unsure>>
bounds == <<operations, faults>>
vars == <<connections, loaded, shown, dialog, storage, calls, history, bounds>>

-----------------------------------------------------------------------------

Credentials == [1..Parts -> Versions \cup {None}]
Blank == [p \in 1..Parts |-> None]

\* text stands for the fields that load takes from the preferences.
ConnectionConfig == [id : Ids, text : Versions, cred : Credentials]

toJson(cs) == [i \in DOMAIN cs |-> [id |-> cs[i].id, text |-> cs[i].text]]
IdsOf(cs) == {c.id : c \in Range(cs)}
IdsIn(cs) == [i \in DOMAIN cs |-> cs[i].id]

\* Mutant: an edited connection is added again.
Put_Twice(cs, c) == Append(cs, c)

Put(cs, c) ==
  IF c.id \in IdsOf(cs) THEN [i \in DOMAIN cs |-> IF cs[i].id = c.id THEN c ELSE cs[i]]
  ELSE Append(cs, c)
\* removeWhere; no id is in a list twice, so there is one to remove at most.
Without(cs, id) == RemoveFirstMatch(cs, LAMBDA c : c.id = id)

\* cs sorted by the places in ord; what ord does not name comes last, and what
\* has the same place stays in its order.
Place(ord, id) ==
  IF id \in Range(ord) THEN CHOOSE p \in DOMAIN ord : ord[p] = id ELSE Len(ord) + 1
Ahead(cs, ord, i) ==
  {j \in DOMAIN cs : \/ Place(ord, cs[j].id) < Place(ord, cs[i].id)
                     \/ Place(ord, cs[j].id) = Place(ord, cs[i].id) /\ j < i}
Sorted(cs, ord) ==
  [k \in DOMAIN cs |-> cs[CHOOSE i \in DOMAIN cs : Cardinality(Ahead(cs, ord, i)) = k - 1]]

Calls == Range(prefsCalls) \cup Range(vaultCalls)
UnderWay == {c.id : c \in Calls} \ {None}

Init ==
  /\ connections = <<>> /\ loaded = TRUE /\ shown = <<>> /\ dialog = None
  /\ list = <<>> /\ order = <<>> /\ vault = [id \in Ids |-> Blank]
  /\ prefsCalls = <<>> /\ vaultCalls = <<>>
  /\ wanted = {} /\ unsure = {}
  /\ operations = 0 /\ faults = 0

-----------------------------------------------------------------------------
(***************************************************************************)
(* The calls of the storages.  op is the operation they belong to; cred    *)
(* are the credentials a save writes, todo and done what a load has to     *)
(* read and has read.                                                      *)
(***************************************************************************)

\* Mutant: the list is written as it was before the change.
PersistCall_Before(op, id, cred, cs) ==
  [op |-> op, id |-> id, cred |-> cred, key |-> "list", value |-> toJson(connections)]

\* _persist of the list cs, up to its first call.
PersistCall(op, id, cred, cs) ==
  [op |-> op, id |-> id, cred |-> cred, key |-> "list", value |-> toJson(cs)]

VaultCall(op, id, cred) ==
  [op |-> op, id |-> id, cred |-> cred, part |-> 1, todo |-> <<>>, done |-> <<>>, ord |-> <<>>]

\* _loadCredentials of the first of todo.
LoadCall(todo, done, ord) ==
  [op |-> "load", id |-> None, cred |-> Blank, part |-> 1,
   todo |-> todo, done |-> done, ord |-> ord]

\* notifyListeners of an operation that changed the list before its first call.
Notify == shown' = connections

-----------------------------------------------------------------------------
(***************************************************************************)
(* The user.  A dialog is in front of the page; it keeps the connection it *)
(* was opened with.                                                        *)
(***************************************************************************)

\* The user begins an operation: within the bounds, and after the load if he waits.
Ready ==
  /\ Len(prefsCalls) + Len(vaultCalls) < MaxUnderWay /\ operations < MaxOperations
  /\ ~loaded => "load" \in Haste

Operation == operations' = operations + 1 /\ UNCHANGED faults
Fault == faults < MaxFaults /\ faults' = faults + 1 /\ UNCHANGED operations

save(c) ==
  /\ connections' = Put(connections, c)
  /\ prefsCalls' = Append(prefsCalls, PersistCall("save", c.id, c.cred, connections'))
  /\ wanted' = {w \in wanted : w.id # c.id} \cup {c}
  /\ unsure' = unsure \ {c.id}
  /\ dialog' = None
  /\ Operation
  /\ UNCHANGED <<loaded, shown, storage, vaultCalls>>

\* The id of a new connection is new.
Unused(id) ==
  /\ id \notin IdsOf(connections) \cup IdsOf(shown) \cup IdsOf(list) \cup Range(order)
  /\ id \notin UnderWay \cup {w.id : w \in wanted}
  /\ vault[id] = Blank

Add ==
  /\ Ready /\ dialog = None
  /\ \E id \in Ids, v \in Versions :
       Unused(id) /\ save([id |-> id, text |-> v, cred |-> [p \in 1..Parts |-> v]])

Edit ==
  /\ Ready /\ dialog # None
  /\ \E v \in Versions : \E cred \in {dialog.cred, Blank, [p \in 1..Parts |-> v]} :
       save([id |-> dialog.id, text |-> v, cred |-> cred])

delete ==
  /\ Ready /\ dialog # None
  /\ connections' = Without(connections, dialog.id)
  /\ vaultCalls' = Append(vaultCalls, VaultCall("delete", dialog.id, Blank))
  /\ wanted' = {w \in wanted : w.id # dialog.id}
  /\ unsure' = unsure \ {dialog.id}
  /\ dialog' = None
  /\ Operation
  /\ UNCHANGED <<loaded, shown, storage, prefsCalls>>

\* The tile at from is dropped at to, places of the page.  removeAt and insert
\* throw outside of the list in memory, and nothing else is done then.
reorder(from, to) ==
  LET rest == RemoveAt(connections, from)
      moved == from <= Len(connections)
      placed == moved /\ to <= Len(rest) + 1 IN
  /\ connections' = IF placed THEN InsertAt(rest, to, connections[from])
                    ELSE IF moved THEN rest ELSE connections
  /\ prefsCalls' = IF placed
                   THEN Append(prefsCalls, PersistCall("reorder", None, Blank, connections'))
                   ELSE prefsCalls
  /\ Operation
  /\ UNCHANGED <<loaded, shown, dialog, storage, vaultCalls, history>>

Drag ==
  /\ Ready /\ dialog = None
  /\ shown # connections => "page" \in Haste
  /\ \E from, to \in DOMAIN shown : from # to /\ reorder(from, to)

OpenDialog ==
  /\ dialog = None
  /\ \E i \in DOMAIN shown : dialog' = shown[i]
  /\ UNCHANGED <<connections, loaded, shown, storage, calls, history, bounds>>

CancelDialog ==
  /\ dialog # None /\ dialog' = None
  /\ UNCHANGED <<connections, loaded, shown, storage, calls, history, bounds>>

\* The page is left and opened again.
OpenPage ==
  /\ dialog = None /\ shown # connections
  /\ shown' = connections
  /\ UNCHANGED <<connections, loaded, dialog, storage, calls, history, bounds>>

-----------------------------------------------------------------------------
(***************************************************************************)
(* Answers of the preferences.                                             *)
(***************************************************************************)

ListWritten ==
  /\ prefsCalls # <<>>
  /\ LET c == Head(prefsCalls) IN
     /\ c.key = "list"
     /\ list' = c.value
     /\ prefsCalls' = Append(Tail(prefsCalls), [c EXCEPT !.key = "order", !.value = IdsIn(connections)])
  /\ UNCHANGED <<connections, loaded, shown, dialog, order, vault, vaultCalls, history, bounds>>

\* A save goes on with the credentials; the others are over.
OrderWritten ==
  /\ prefsCalls # <<>>
  /\ LET c == Head(prefsCalls) IN
     /\ c.key = "order"
     /\ order' = c.value
     /\ prefsCalls' = Tail(prefsCalls)
     /\ IF c.op = "save"
        THEN vaultCalls' = Append(vaultCalls, VaultCall("save", c.id, c.cred)) /\ UNCHANGED shown
        ELSE Notify /\ UNCHANGED vaultCalls
  /\ unsure' = unsure \ {None}
  /\ UNCHANGED <<connections, loaded, dialog, list, vault, wanted, bounds>>

\* The operation ends with the exception.
PrefsThrow ==
  /\ prefsCalls # <<>>
  /\ prefsCalls' = Tail(prefsCalls)
  /\ unsure' = unsure \cup {Head(prefsCalls).id, None}
  /\ Fault
  /\ UNCHANGED <<connections, loaded, shown, dialog, storage, vaultCalls, wanted>>

-----------------------------------------------------------------------------
(***************************************************************************)
(* Answers of the secure storage.                                          *)
(***************************************************************************)

\* After the credentials a save reads one of them back, for the log.
SaveAnswered ==
  /\ vaultCalls # <<>>
  /\ LET c == Head(vaultCalls) IN
     /\ c.op = "save"
     /\ IF c.part <= Parts
        THEN /\ vault' = [vault EXCEPT ![c.id][c.part] = c.cred[c.part]]
             /\ vaultCalls' = Append(Tail(vaultCalls), [c EXCEPT !.part = @ + 1])
             /\ UNCHANGED shown
        ELSE vaultCalls' = Tail(vaultCalls) /\ Notify /\ UNCHANGED vault
  /\ UNCHANGED <<connections, loaded, dialog, list, order, prefsCalls, history, bounds>>

\* _saveCredentials catches, and the save goes on to its end.
SaveThrows ==
  /\ vaultCalls # <<>>
  /\ LET c == Head(vaultCalls) IN
     /\ c.op = "save"
     /\ vaultCalls' = Tail(vaultCalls)
     /\ unsure' = IF c.part <= Parts THEN unsure \cup {c.id} ELSE unsure
  /\ Notify
  /\ Fault
  /\ UNCHANGED <<connections, loaded, dialog, storage, prefsCalls, wanted>>

\* _deleteCredentials is over, by its last call or by an exception it catches.
Deleted(c) ==
  /\ vaultCalls' = Tail(vaultCalls)
  /\ prefsCalls' = Append(prefsCalls, PersistCall("delete", c.id, Blank, connections))

DeleteAnswered ==
  /\ vaultCalls # <<>>
  /\ LET c == Head(vaultCalls) IN
     /\ c.op = "delete"
     /\ vault' = [vault EXCEPT ![c.id][c.part] = None]
     /\ IF c.part < Parts
        THEN vaultCalls' = Append(Tail(vaultCalls), [c EXCEPT !.part = @ + 1]) /\ UNCHANGED prefsCalls
        ELSE Deleted(c)
  /\ UNCHANGED <<connections, loaded, shown, dialog, list, order, history, bounds>>

DeleteThrows ==
  /\ vaultCalls # <<>>
  /\ Head(vaultCalls).op = "delete" /\ Deleted(Head(vaultCalls))
  /\ Fault
  /\ UNCHANGED <<connections, loaded, shown, dialog, storage, history>>

\* load has the credentials cred of the first of todo.
Read(c, cred) ==
  LET row == Head(c.todo)
      done == Append(c.done, [id |-> row.id, text |-> row.text, cred |-> cred]) IN
  IF Len(c.todo) > 1
  THEN /\ vaultCalls' = Append(Tail(vaultCalls), LoadCall(Tail(c.todo), done, c.ord))
       /\ UNCHANGED <<connections, loaded, shown>>
  ELSE /\ vaultCalls' = Tail(vaultCalls)
       /\ connections' = Sorted(done, c.ord) /\ loaded' = TRUE /\ shown' = connections'

LoadAnswered ==
  /\ vaultCalls # <<>>
  /\ LET c == Head(vaultCalls)
         cred == [c.cred EXCEPT ![c.part] = vault[Head(c.todo).id][c.part]] IN
     /\ c.op = "load"
     /\ IF c.part < Parts
        THEN /\ vaultCalls' = Append(Tail(vaultCalls), [c EXCEPT !.part = @ + 1, !.cred = cred])
             /\ UNCHANGED <<connections, loaded, shown>>
        ELSE Read(c, cred)
  /\ UNCHANGED <<dialog, storage, prefsCalls, history, bounds>>

\* _loadCredentials catches; what it has not read is missing.
LoadThrows ==
  /\ vaultCalls # <<>>
  /\ LET c == Head(vaultCalls) IN
     /\ c.op = "load"
     /\ unsure' = unsure \cup {Head(c.todo).id}
     /\ Read(c, c.cred)
  /\ Fault
  /\ UNCHANGED <<dialog, storage, prefsCalls, wanted>>

-----------------------------------------------------------------------------
(***************************************************************************)
(* The application ends, by its user or by a crash, and is started again:  *)
(* load up to its first call of the secure storage.                        *)
(***************************************************************************)

Restart(todo) ==
  /\ connections' = <<>> /\ shown' = <<>> /\ dialog' = None
  /\ loaded' = (todo = <<>>)
  /\ prefsCalls' = <<>>
  /\ vaultCalls' = IF todo = <<>> THEN <<>> ELSE <<LoadCall(todo, <<>>, order)>>
  /\ Fault
  /\ UNCHANGED <<storage, wanted>>

Start ==
  /\ Restart(list)
  /\ unsure' = unsure \cup {c.id : c \in {d \in Calls : d.op # "load"}}

\* The preferences cannot be read: the list is empty, and loaded.
StartThrows ==
  /\ Restart(<<>>)
  /\ unsure' = Ids

Next ==
  \/ Add \/ Edit \/ delete \/ Drag
  \/ OpenDialog \/ CancelDialog \/ OpenPage
  \/ ListWritten \/ OrderWritten \/ PrefsThrow
  \/ SaveAnswered \/ SaveThrows \/ DeleteAnswered \/ DeleteThrows
  \/ LoadAnswered \/ LoadThrows
  \/ Start \/ StartThrows

Spec == Init /\ [][Next]_vars

-----------------------------------------------------------------------------
(***************************************************************************)
(* Properties.                                                             *)
(***************************************************************************)

Of(cs, id) == {c \in cs : c.id = id}

\* What load makes of the storages as they are.
Recovered ==
  Sorted([i \in DOMAIN list |-> [id |-> list[i].id, text |-> list[i].text, cred |-> vault[list[i].id]]],
         order)

\* No id is twice in any of the lists, and every part of the state has its shape.
TypeOK ==
  /\ \A cs \in {connections, shown} :
       Range(cs) \subseteq ConnectionConfig /\ IsInjective(IdsIn(cs))
  /\ Range(list) \subseteq [id : Ids, text : Versions] /\ IsInjective(IdsIn(list))
  /\ Range(order) \subseteq Ids /\ IsInjective(order)
  /\ vault \in [Ids -> Credentials]
  /\ dialog \in ConnectionConfig \cup {None}
  /\ wanted \subseteq ConnectionConfig /\ unsure \subseteq Ids \cup {None}
  /\ loaded <=> \A c \in Calls : c.op # "load"

\* Whatever was under way when the application ended or a storage failed, and
\* whatever is under way now: a connection whose own last save or delete was
\* answered to its end is found by the next load as it was saved, with its own
\* credentials, and a deleted one is not found.
Durable ==
  \A id \in Ids \ (unsure \cup UnderWay) : Of(Range(Recovered), id) = Of(wanted, id)

\* With nothing under way and no failure behind, the page, the list in memory
\* and what the next load would find are the same connections in the same order.
Settled ==
  (loaded /\ Calls = {} /\ unsure = {}) => connections = Recovered /\ shown = connections

\* What the operations leave behind, whatever overlaps with them or cuts others
\* short, is what the user saved: save, delete and reorder are their writes and
\* load their reads.
ConnectionsKept == Durable /\ Settled

(***************************************************************************)
(* What comments of the code say and the program does not do for a user in *)
(* haste.                                                                  *)
(***************************************************************************)

\* load ends with every connection that was saved ("Load all saved connections").
LoadsAll ==
  loaded => \A id \in Ids \ (unsure \cup UnderWay) : Of(Range(connections), id) = Of(wanted, id)

\* A drag moves a connection and loses none ("Reorder connections").
DragLosesNone == [][Drag => IdsOf(connections') = IdsOf(connections)]_vars

=============================================================================
