----------------------------- MODULE HiveServer -----------------------------
(***************************************************************************)
(* HiveServerService and the part of SettingsPage that drives it: one      *)
(* HiveClient is in place, and connecting, disconnecting and changing the  *)
(* API key replace or change it across awaits.  The Connect button of a    *)
(* page is disabled while its own attempt runs; leaving the page and       *)
(* coming back brings a new button, and a disconnect disables nothing.     *)
(*                                                                         *)
(* Host and port are set before any connect and are not told apart.  A     *)
(* step is what runs between two awaits of one call that wait for          *)
(* something outside the isolate; the storage answers in the order in      *)
(* which it is asked.                                                      *)
(***************************************************************************)
EXTENDS Naturals, FiniteSets

CONSTANTS
  Calls,    \* activations of _toggleConnection and _clearApiKey
  Clients,  \* HiveClient objects, in the order of their creation
  Keys,     \* API keys
  Users,
  KeyUser,  \* the user of every key
  None

ASSUME KeyUserAssumption == KeyUser \in [Keys -> Users]
ASSUME ClientsAssumption == Clients \subseteq Nat
ASSUME NoneAssumption == None \notin Calls \cup Clients \cup Keys \cup Users

VARIABLES
  stored,    \* the key in the secure storage
  hasKey,    \* _hasApiKey
  current,   \* _client
  username,  \* _username
  clients,   \* of every HiveClient: _channel, _apiKey and _userId
  streams,   \* the clients on whose channel a terminal has its stream
  calls,     \* where every call is
  busy,      \* the call the button of the page in front waits for
  loaded,    \* load has read the key
  valid,     \* keys the server accepts
  overlapped \* history: two disconnects were under way at a time

serviceVars == <<stored, hasKey, current, username, clients>>
vars == <<serviceVars, streams, calls, busy, loaded, valid, overlapped>>

-----------------------------------------------------------------------------

\* _channel is null before connect and after shutdown; between them it is open,
\* or shut down and waiting for the calls and streams that are under way on it.
Channels == {"new", "open", "shut", "null"}
Idle == [pc |-> "idle", key |-> None, client |-> None, first |-> FALSE]

\* Where a call waits.  The last three are disconnect, by what follows it.
PCs == {"idle", "config", "keywrite", "keydelete", "keyread", "validate",
        "disconnect", "reconnect", "reject"}
Shutting == {"disconnect", "reconnect", "reject"}

isConnected == current # None /\ clients[current].channel \in {"open", "shut"}

Fresh == {n \in Clients : clients[n].channel = "new"}
WillConnect == {c \in Calls : calls[c].pc \in {"config", "keywrite", "reconnect"}}

Init ==
  /\ stored \in Keys \cup {None} /\ hasKey = FALSE /\ loaded = FALSE
  /\ current = None /\ username = None
  /\ clients = [n \in Clients |-> [channel |-> "new", key |-> None, user |-> None]]
  /\ streams = {}
  /\ calls = [c \in Calls |-> Idle]
  /\ busy = None /\ valid \in SUBSET Keys /\ overlapped = FALSE

\* The call goes on at pc.
At(c, pc) == calls' = [calls EXCEPT ![c].pc = pc]

\* The call is over, by a return or by an exception that the page shows.
End(c) ==
  /\ calls' = [calls EXCEPT ![c] = Idle]
  /\ busy' = IF busy = c THEN None ELSE busy

-----------------------------------------------------------------------------
(***************************************************************************)
(* connect and disconnect, from one await to the next; cs are the clients  *)
(* as the step has left them so far.                                       *)
(***************************************************************************)

\* connect after its disconnect, up to the read of the key.
PutClient(c, cs) ==
  \E n \in Fresh :
    /\ \A m \in Fresh : n <= m
    /\ current' = n
    /\ clients' = [cs EXCEPT ![n].channel = "open"]
    /\ IF hasKey'
       THEN calls' = [calls EXCEPT ![c] = [Idle EXCEPT !.pc = "keyread"]] /\ UNCHANGED busy
       ELSE End(c)

\* disconnect up to the shutdown of the channel, for what follows it.
BeginDisconnect(c, next, cs) ==
  /\ calls' = [calls EXCEPT ![c] = [pc |-> next, key |-> None, client |-> current,
                                    first |-> cs[current].channel = "open"]]
  /\ clients' = [cs EXCEPT ![current].channel = "shut"]
  /\ overlapped' = (overlapped \/ \E d \in Calls \ {c} : calls[d].pc \in Shutting)
  /\ UNCHANGED <<current, busy>>

\* Mutant: connect does not disconnect.
Connect_Directly(c, cs) == PutClient(c, cs) /\ UNCHANGED <<username, overlapped>>

\* connect from its beginning.
Connect(c, cs) ==
  /\ IF current # None THEN BeginDisconnect(c, "reconnect", cs)
     ELSE PutClient(c, cs) /\ UNCHANGED overlapped
  /\ UNCHANGED username

\* What is under way on the channel of a client, terminals included.
UnderWay(n) == n \in streams \/ \E d \in Calls : calls[d].pc = "validate" /\ calls[d].client = n

\* The shutdown of a channel waits for what is under way on it; a second one of
\* the same channel does not.  Then the client in place goes, whichever it is
\* by now.
ShutdownDone(c) ==
  /\ calls[c].pc \in Shutting
  /\ calls[c].first => ~UnderWay(calls[c].client)
  /\ username' = None
  /\ UNCHANGED <<stored, hasKey, streams, loaded, valid, overlapped>>
  /\ LET closed == [clients EXCEPT ![calls[c].client].channel = "null"]
     IN  IF calls[c].pc = "reconnect" THEN PutClient(c, closed)
         ELSE current' = None /\ clients' = closed /\ End(c)

-----------------------------------------------------------------------------
(***************************************************************************)
(* The buttons of the settings page.                                       *)
(***************************************************************************)

\* _toggleConnection, of a connected service.
TapDisconnect(c) ==
  /\ calls[c].pc = "idle" /\ busy = None /\ isConnected
  /\ BeginDisconnect(c, "disconnect", clients)
  /\ UNCHANGED <<stored, hasKey, username, streams, loaded, valid>>

\* _toggleConnection, otherwise, with or without a key in the text field.
\* Bound: a client is left for every connect.
TapConnect(c) ==
  /\ calls[c].pc = "idle" /\ busy = None /\ ~isConnected
  /\ Cardinality(Fresh) > Cardinality(WillConnect)
  /\ \E key \in Keys \cup {None} :
       calls' = [calls EXCEPT ![c] = [Idle EXCEPT !.pc = "config", !.key = key]]
  /\ busy' = c
  /\ UNCHANGED <<serviceVars, streams, loaded, valid, overlapped>>

\* setServerConfig is done.
ConfigSaved(c) ==
  /\ calls[c].pc = "config"
  /\ UNCHANGED <<stored, hasKey, streams, loaded, valid>>
  /\ IF calls[c].key # None
     THEN At(c, "keywrite") /\ UNCHANGED <<current, username, clients, busy, overlapped>>
     ELSE Connect(c, clients)

\* setApiKey is done, and connect begins.
KeyWritten(c) ==
  /\ calls[c].pc = "keywrite"
  /\ stored' = calls[c].key /\ hasKey' = TRUE
  /\ Connect(c, IF current = None THEN clients
                ELSE [clients EXCEPT ![current].key = calls[c].key])
  /\ UNCHANGED <<streams, loaded, valid>>

\* _clearApiKey: the button is there whenever there is a key.
TapClear(c) ==
  /\ calls[c].pc = "idle" /\ hasKey
  /\ At(c, "keydelete")
  /\ UNCHANGED <<serviceVars, streams, busy, loaded, valid, overlapped>>

\* clearApiKey: the client in place loses the key, but keeps the user.
KeyDeleted(c) ==
  /\ calls[c].pc = "keydelete"
  /\ stored' = None /\ hasKey' = FALSE
  /\ clients' = IF current = None THEN clients ELSE [clients EXCEPT ![current].key = None]
  /\ End(c)
  /\ UNCHANGED <<current, username, streams, loaded, valid, overlapped>>

\* The user leaves the page and opens it again.
Leave ==
  /\ busy # None /\ busy' = None
  /\ UNCHANGED <<serviceVars, streams, calls, loaded, valid, overlapped>>

-----------------------------------------------------------------------------
(***************************************************************************)
(* connect with a key.                                                     *)
(***************************************************************************)

\* getApiKey is done.  Without a client in place the call fails at _client!;
\* a channel that is shut down refuses the request.
KeyRead(c) ==
  /\ calls[c].pc = "keyread"
  /\ UNCHANGED <<stored, hasKey, username, streams, loaded, valid>>
  /\ IF stored = None \/ current = None
     THEN End(c) /\ UNCHANGED <<current, clients, overlapped>>
     ELSE LET keyed == [clients EXCEPT ![current].key = stored] IN
          IF clients[current].channel = "open"
          THEN /\ clients' = keyed
               /\ calls' = [calls EXCEPT ![c] = [Idle EXCEPT !.pc = "validate", !.key = stored,
                                                             !.client = current]]
               /\ UNCHANGED <<current, busy, overlapped>>
          ELSE BeginDisconnect(c, "reject", keyed)

\* The key is refused: disconnect, and then throw.
Reject(c) ==
  IF current # None THEN BeginDisconnect(c, "reject", clients)
  ELSE End(c) /\ UNCHANGED <<current, clients, overlapped>>

\* The answer: the client in place by now gets the user.
KeyAccepted(c) ==
  /\ calls[c].pc = "validate" /\ calls[c].key \in valid
  /\ IF current # None
     THEN /\ clients' = [clients EXCEPT ![current].user = KeyUser[calls[c].key]]
          /\ username' = KeyUser[calls[c].key]
     ELSE UNCHANGED <<clients, username>>
  /\ End(c)
  /\ UNCHANGED <<stored, hasKey, current, streams, loaded, valid, overlapped>>

\* Mutant: a refused key leaves the client connected.
KeyRejected_Stay(c) ==
  /\ calls[c].pc = "validate" /\ calls[c].key \notin valid
  /\ username' = None
  /\ End(c)
  /\ UNCHANGED <<stored, hasKey, current, clients, streams, loaded, valid, overlapped>>

KeyRejected(c) ==
  /\ calls[c].pc = "validate" /\ calls[c].key \notin valid
  /\ username' = None
  /\ Reject(c)
  /\ UNCHANGED <<stored, hasKey, streams, loaded, valid>>

\* The call failed: caught, and taken for an answer of no.
ValidateFails(c) ==
  /\ calls[c].pc = "validate"
  /\ Reject(c)
  /\ UNCHANGED <<stored, hasKey, username, streams, loaded, valid>>

-----------------------------------------------------------------------------
(***************************************************************************)
(* The environment.                                                        *)
(***************************************************************************)

\* Mutant: there is no finally.
StorageFails_Throw(c) ==
  /\ calls[c].pc \in {"config", "keywrite", "keydelete", "keyread"}
  /\ calls' = [calls EXCEPT ![c] = Idle]
  /\ UNCHANGED <<serviceVars, streams, busy, loaded, valid, overlapped>>

\* The preferences or the secure storage throw.
StorageFails(c) ==
  /\ calls[c].pc \in {"config", "keywrite", "keydelete", "keyread"}
  /\ End(c)
  /\ UNCHANGED <<serviceVars, streams, loaded, valid, overlapped>>

\* Mutant: the key is not tested for null.
Load_Value ==
  /\ ~loaded /\ loaded' = TRUE
  /\ hasKey' = stored
  /\ UNCHANGED <<stored, current, username, clients, streams, calls, busy, valid, overlapped>>

\* The read of load is done, once.
Load ==
  /\ ~loaded /\ loaded' = TRUE
  /\ hasKey' = (stored # None)
  /\ UNCHANGED <<stored, current, username, clients, streams, calls, busy, valid, overlapped>>

\* A terminal attaches through the client in place, and ends some day.
StreamOpens ==
  /\ current # None /\ clients[current].channel = "open"
  /\ streams' = streams \cup {current}
  /\ UNCHANGED <<serviceVars, calls, busy, loaded, valid, overlapped>>

StreamEnds ==
  /\ \E n \in streams : streams' = streams \ {n}
  /\ UNCHANGED <<serviceVars, calls, busy, loaded, valid, overlapped>>

\* The server's command line revokes a key.
Revoke ==
  /\ \E key \in valid : valid' = valid \ {key}
  /\ UNCHANGED <<serviceVars, streams, calls, busy, loaded, overlapped>>

Progress(c) ==
  \/ ConfigSaved(c) \/ KeyWritten(c) \/ KeyDeleted(c) \/ ShutdownDone(c)
  \/ KeyRead(c) \/ KeyAccepted(c) \/ KeyRejected(c)

Next ==
  \/ \E c \in Calls :
       \/ Progress(c)
       \/ TapConnect(c) \/ TapDisconnect(c) \/ TapClear(c)
       \/ ValidateFails(c) \/ StorageFails(c)
  \/ Leave \/ Load \/ StreamOpens \/ StreamEnds \/ Revoke

Spec == Init /\ [][Next]_vars

\* The storage and the server answer; terminals need not end, users need not tap.
FairSpec == Spec /\ \A c \in Calls : WF_vars(Progress(c))

-----------------------------------------------------------------------------
(***************************************************************************)
(* Properties.                                                             *)
(***************************************************************************)

\* Every variable has its type.
TypeOK ==
  /\ stored \in Keys \cup {None} /\ hasKey \in BOOLEAN /\ loaded \in BOOLEAN
  /\ current \in Clients \cup {None} /\ username \in Users \cup {None}
  /\ clients \in [Clients -> [channel : Channels, key : Keys \cup {None},
                              user : Users \cup {None}]]
  /\ streams \subseteq Clients
  /\ calls \in [Calls -> [pc : PCs, key : Keys \cup {None}, client : Clients \cup {None},
                          first : BOOLEAN]]
  /\ busy \in Calls \cup {None} /\ valid \subseteq Keys /\ overlapped \in BOOLEAN

Quiet == \A c \in Calls : calls[c].pc = "idle"

\* The `!` on the stubs of a client never fails: a client in place is connected,
\* so isConnected is whether there is one, however connects, disconnects and
\* rejected keys overlap.
ClientUsable == current # None => isConnected

\* A channel that was opened is the one in place or was shut down, so that the
\* user can still close it, unless a disconnect was begun while another one
\* waited: then the one that waited drops a client that is not its own.
ChannelsOwned ==
  ~overlapped => \A n \in Clients : clients[n].channel \in {"open", "shut"} => n = current

\* When nothing is under way, a client in place with a key also has the user of
\* that key, the page shows that user, and without a client it shows none:
\* a key the server refused, or could not check, leaves nobody connected.  The
\* answer to a question asked for one client never names the user of another.
SettledAgree ==
  Quiet /\ ~overlapped =>
    /\ current = None => username = None
    /\ current # None /\ clients[current].key # None =>
         /\ clients[current].user = KeyUser[clients[current].key]
         /\ username = clients[current].user

\* A Connect button comes back, whatever fails, unless the connect has to wait
\* for a terminal on the channel it closes.
ButtonReturns == (busy # None) ~> (busy = None \/ streams # {})
=============================================================================
