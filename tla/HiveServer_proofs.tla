------------------------- MODULE HiveServer_proofs -------------------------
(***************************************************************************)
(* Proofs about HiveServer, for any number of calls, clients and keys.     *)
(* SettledAgree speaks of the states in which nothing is under way; that   *)
(* it holds there takes what the calls that are under way will do: they    *)
(* all work for the client in place, and one that closes it is alone.      *)
(***************************************************************************)
EXTENDS HiveServer, TLAPS

Closing(c) == calls[c].pc \in Shutting

\* Whoever waits for a channel waits for the channel in place, and no two calls
\* shut one down.
OneClient ==
  /\ \A c \in Calls : Closing(c) => current # None /\ calls[c].client = current /\ calls[c].first
  /\ \A c, d \in Calls : Closing(c) /\ Closing(d) => c = d
  /\ \A c \in Calls : calls[c].pc = "validate" =>
        current # None /\ calls[c].client = current /\ calls[c].key # None

\* While nobody shuts it down, the client in place is open, and its key is the
\* stored one, which is also the one the server is being asked about.
InStep ==
  (\A c \in Calls : ~Closing(c)) =>
    /\ current # None => /\ clients[current].channel = "open"
                         /\ clients[current].key \in {None, stored}
    /\ \A c \in Calls : calls[c].pc = "validate" => stored \in {None, calls[c].key}

Agreed ==
  /\ clients[current].user = KeyUser[clients[current].key]
  /\ username = clients[current].user

\* A client in place with a key has the user of the key, or somebody still asks.
KnownOrAsked ==
  current # None /\ clients[current].key # None =>
    Agreed \/ \E c \in Calls : Closing(c) \/ calls[c].pc = "validate"

Overtaken == ~overlapped => ChannelsOwned /\ OneClient /\ InStep /\ KnownOrAsked

FreshEmpty == \A n \in Fresh : clients[n].key = None /\ clients[n].user = None

NobodyNamed == current = None => username = None

IInv == TypeOK /\ ClientUsable /\ FreshEmpty /\ NobodyNamed /\ Overtaken

\* What a call may be.
CallRecord == [pc : PCs, key : Keys \cup {None}, client : Clients \cup {None}, first : BOOLEAN]
ClientRecord == [channel : Channels, key : Keys \cup {None}, user : Users \cup {None}]

-----------------------------------------------------------------------------

LEMMA InitIInv == Init => IInv
  <1> SUFFICES ASSUME Init PROVE IInv
    OBVIOUS
  <1> USE NoneAssumption DEF Init
  <1>1. TypeOK
    <2>1. Idle \in CallRecord
      BY DEF Idle, CallRecord, PCs
    <2>2. calls \in [Calls -> CallRecord]
      BY <2>1
    <2> QED
      BY <2>2 DEF TypeOK, CallRecord, Channels
  <1>2. \A c \in Calls : calls[c].pc = "idle"
    BY DEF Idle
  <1>3. OneClient /\ InStep /\ KnownOrAsked
    BY <1>2 DEF OneClient, InStep, KnownOrAsked, Closing, Shutting
  <1>4. ChannelsOwned /\ ClientUsable /\ FreshEmpty /\ NobodyNamed
    BY DEF ChannelsOwned, ClientUsable, FreshEmpty, Fresh, NobodyNamed
  <1> QED
    BY <1>1, <1>3, <1>4 DEF IInv, Overtaken

\* The end of a call keeps the types of the calls and of the button.
LEMMA EndTyped ==
  ASSUME TypeOK, NEW c \in Calls, End(c)
  PROVE  calls' \in [Calls -> CallRecord] /\ busy' \in Calls \cup {None}
  <1>1. Idle \in CallRecord
    BY DEF Idle, CallRecord, PCs
  <1> QED
    BY <1>1 DEF End, TypeOK, CallRecord

\* A step that changes neither the clients nor who waits for them.
LEMMA QuietStep ==
  ASSUME IInv, TypeOK', UNCHANGED <<stored, current, username, clients, overlapped>>,
         \A c \in Calls : \/ calls'[c] = calls[c]
                          \/ /\ calls[c].pc \notin Shutting \cup {"validate"}
                             /\ calls'[c].pc \notin Shutting \cup {"validate"}
  PROVE  IInv'
  <1>1. \A c \in Calls : /\ Closing(c)' <=> Closing(c)
                         /\ Closing(c) => calls'[c] = calls[c]
                         /\ calls'[c].pc = "validate" <=> calls[c].pc = "validate"
                         /\ calls[c].pc = "validate" => calls'[c] = calls[c]
    BY DEF Closing
  <1>2. ClientUsable' /\ FreshEmpty' /\ NobodyNamed'
    BY DEF IInv, ClientUsable, isConnected, FreshEmpty, Fresh, NobodyNamed
  <1>3. ~overlapped' => ChannelsOwned'
    BY DEF IInv, Overtaken, ChannelsOwned
  <1>4. ~overlapped' => OneClient'
    BY <1>1 DEF IInv, Overtaken, OneClient
  <1>5. ~overlapped' => InStep'
    BY <1>1 DEF IInv, Overtaken, InStep
  <1>6. ~overlapped' => KnownOrAsked'
    BY <1>1 DEF IInv, Overtaken, KnownOrAsked, Agreed
  <1> QED
    BY <1>2, <1>3, <1>4, <1>5, <1>6 DEF IInv, Overtaken

\* A disconnect begins: from now on it is what everybody waits for, unless
\* another one is under way.
LEMMA BeginDisconnectStep ==
  ASSUME IInv, NEW c \in Calls, NEW next \in Shutting, NEW cs \in [Clients -> ClientRecord],
         current # None, ~Closing(c), BeginDisconnect(c, next, cs),
         \A n \in Clients : cs[n].channel = clients[n].channel /\ (n # current => cs[n] = clients[n]),
         stored' \in Keys \cup {None}, hasKey' \in BOOLEAN, username' \in Users \cup {None},
         UNCHANGED <<streams, loaded, valid>>
  PROVE  IInv'
  <1> USE NoneAssumption DEF BeginDisconnect
  <1>0. current \in Clients /\ current' = current /\ calls \in [Calls -> CallRecord]
    BY DEF IInv, TypeOK, CallRecord
  <1>1. TypeOK'
    <2>1. [pc |-> next, key |-> None, client |-> current, first |-> cs[current].channel = "open"]
            \in CallRecord
      BY <1>0 DEF CallRecord, PCs, Shutting
    <2>2. calls' \in [Calls -> CallRecord]
      BY <1>0, <2>1
    <2>3. clients' \in [Clients -> ClientRecord]
      <3>1. [cs[current] EXCEPT !.channel = "shut"] \in ClientRecord
        BY <1>0 DEF ClientRecord, Channels
      <3> QED
        BY <1>0, <3>1
    <2> QED
      BY <2>2, <2>3 DEF IInv, TypeOK, CallRecord, ClientRecord
  <1>2. /\ \A d \in Calls \ {c} : calls'[d] = calls[d]
        /\ calls'[c].pc = next /\ calls'[c].client = current
        /\ calls'[c].first = (clients[current].channel = "open")
    BY <1>0
  <1>3. \A n \in Clients : IF n = current THEN clients'[n].channel = "shut" ELSE clients'[n] = clients[n]
    BY <1>0 DEF ClientRecord
  <1>4. ClientUsable' /\ NobodyNamed'
    BY <1>0, <1>3 DEF ClientUsable, isConnected, NobodyNamed
  <1>5. FreshEmpty'
    BY <1>0, <1>3 DEF IInv, FreshEmpty, Fresh
  <1>6. ~overlapped' => ~overlapped /\ \A d \in Calls : ~Closing(d)
    BY DEF Closing
  <1>7. Closing(c)'
    BY <1>2 DEF Closing
  <1>8. ~overlapped' => ChannelsOwned'
    BY <1>0, <1>3, <1>6 DEF IInv, Overtaken, ChannelsOwned
  <1>9. ~overlapped' => OneClient'
    <2> SUFFICES ASSUME ~overlapped' PROVE OneClient'
      OBVIOUS
    <2>1. calls'[c].first
      BY <1>2, <1>6 DEF IInv, Overtaken, InStep
    <2>2. \A d \in Calls : Closing(d)' => d = c
      BY <1>2, <1>6 DEF Closing
    <2>3. \A d \in Calls : calls'[d].pc = "validate" => d # c
      BY <1>2 DEF Shutting
    <2> QED
      BY <1>0, <1>2, <1>6, <2>1, <2>2, <2>3 DEF IInv, Overtaken, OneClient
  <1>10. InStep' /\ KnownOrAsked'
    BY <1>7 DEF InStep, KnownOrAsked
  <1> QED
    BY <1>1, <1>4, <1>5, <1>8, <1>9, <1>10 DEF IInv, Overtaken

\* A new client takes the place, where nothing else is open or asked.
LEMMA PutClientStep ==
  ASSUME IInv, NEW c \in Calls, NEW cs \in [Clients -> ClientRecord], PutClient(c, cs),
         \A n \in Clients : cs[n] = clients[n] \/ cs[n].channel # "new",
         \A n \in Fresh : cs[n].key = clients[n].key /\ cs[n].user = clients[n].user,
         ~overlapped => /\ \A n \in Clients : cs[n].channel \notin {"open", "shut"}
                        /\ \A d \in Calls \ {c} : calls[d].pc \notin Shutting \cup {"validate"},
         stored' \in Keys \cup {None}, hasKey' \in BOOLEAN, username' \in Users \cup {None},
         UNCHANGED <<streams, loaded, valid, overlapped>>
  PROVE  IInv'
  <1> USE NoneAssumption
  <1>0. PICK n \in Fresh : /\ current' = n
                           /\ clients' = [cs EXCEPT ![n].channel = "open"]
                           /\ \/ /\ calls' = [calls EXCEPT ![c] = [Idle EXCEPT !.pc = "keyread"]]
                                 /\ UNCHANGED busy
                              \/ End(c)
    BY DEF PutClient
  <1>1. n \in Clients /\ clients[n].channel = "new" /\ clients[n].key = None
    BY DEF IInv, FreshEmpty, Fresh
  <1>2. TypeOK'
    <2>1. Idle \in CallRecord /\ [Idle EXCEPT !.pc = "keyread"] \in CallRecord
      BY DEF Idle, CallRecord, PCs
    <2>2. calls' \in [Calls -> CallRecord] /\ busy' \in Calls \cup {None}
      BY <1>0, <2>1 DEF End, IInv, TypeOK, CallRecord
    <2>3. clients' \in [Clients -> ClientRecord]
      <3>1. [cs[n] EXCEPT !.channel = "open"] \in ClientRecord
        BY <1>1 DEF ClientRecord, Channels
      <3> QED
        BY <1>0, <1>1, <3>1
    <2> QED
      BY <1>0, <1>1, <2>2, <2>3 DEF IInv, TypeOK, CallRecord, ClientRecord
  <1>3. \A d \in Calls : /\ d # c => calls'[d] = calls[d]
                         /\ calls'[c].pc \in {"idle", "keyread"}
    BY <1>0 DEF End, Idle, IInv, TypeOK
  <1>4. /\ clients'[n].channel = "open"
        /\ \A m \in Clients \ {n} : clients'[m] = cs[m]
        /\ clients'[n].key = cs[n].key /\ clients'[n].user = cs[n].user
    BY <1>0, <1>1 DEF ClientRecord
  <1>5. ClientUsable' /\ NobodyNamed'
    BY <1>0, <1>1, <1>4 DEF ClientUsable, isConnected, NobodyNamed
  <1>6. FreshEmpty'
    BY <1>1, <1>4 DEF IInv, FreshEmpty, Fresh
  <1>7. ~overlapped' => ChannelsOwned'
    BY <1>0, <1>4 DEF ChannelsOwned
  <1>8. ~overlapped' => \A d \in Calls : calls'[d].pc \notin Shutting \cup {"validate"}
    BY <1>3 DEF Shutting
  <1>9. ~overlapped' => OneClient'
    BY <1>8 DEF OneClient, Closing
  <1>10. ~overlapped' => InStep'
    BY <1>0, <1>1, <1>4, <1>8 DEF InStep
  <1>11. ~overlapped' => KnownOrAsked'
    BY <1>0, <1>1, <1>4 DEF KnownOrAsked
  <1> QED
    BY <1>2, <1>5, <1>6, <1>7, <1>9, <1>10, <1>11 DEF IInv, Overtaken

\* connect disconnects the client in place, or finds none.
LEMMA ConnectStep ==
  ASSUME IInv, NEW c \in Calls, NEW cs \in [Clients -> ClientRecord], Connect(c, cs),
         calls[c].pc \notin Shutting \cup {"validate"},
         \A n \in Clients : cs[n].channel = clients[n].channel /\ (n # current => cs[n] = clients[n]),
         stored' \in Keys \cup {None}, hasKey' \in BOOLEAN,
         UNCHANGED <<streams, loaded, valid>>
  PROVE  IInv'
  <1> USE NoneAssumption DEF Connect
  <1>0. username' \in Users \cup {None}
    BY DEF IInv, TypeOK
  <1>1. CASE current # None
    <2>1. "reconnect" \in Shutting
      BY DEF Shutting
    <2> QED
      BY <1>0, <1>1, <2>1, BeginDisconnectStep DEF Closing
  <1>2. CASE current = None
    <2>1. \A n \in Clients : cs[n] = clients[n]
      BY <1>2
    <2>2. ~overlapped => /\ \A n \in Clients : cs[n].channel \notin {"open", "shut"}
                         /\ \A d \in Calls : calls[d].pc \notin Shutting \cup {"validate"}
      BY <1>2 DEF IInv, Overtaken, ChannelsOwned, OneClient, Closing
    <2>3. \A n \in Fresh : cs[n] = clients[n]
      BY <2>1 DEF Fresh
    <2> QED
      BY <1>0, <1>2, <2>1, <2>2, <2>3, PutClientStep
  <1> QED
    BY <1>1, <1>2

\* The configuration is saved: a key is to be written, or connect begins.
LEMMA ConfigSavedStep ==
  ASSUME IInv, NEW c \in Calls, ConfigSaved(c)
  PROVE  IInv'
  <1> USE DEF ConfigSaved
  <1>1. CASE calls[c].key # None
    <2>1. TypeOK'
      BY <1>1 DEF At, IInv, TypeOK, PCs
    <2>2. \A d \in Calls : \/ calls'[d] = calls[d]
                           \/ /\ calls[d].pc \notin Shutting \cup {"validate"}
                              /\ calls'[d].pc \notin Shutting \cup {"validate"}
      BY <1>1 DEF At, IInv, TypeOK, Shutting
    <2> QED
      BY <1>1, <2>1, <2>2, QuietStep
  <1>2. CASE calls[c].key = None
    <2>1. calls[c].pc \notin Shutting \cup {"validate"}
      BY DEF Shutting
    <2>2. clients \in [Clients -> ClientRecord] /\ stored' \in Keys \cup {None} /\ hasKey' \in BOOLEAN
      BY DEF IInv, TypeOK, ClientRecord
    <2> QED
      BY <1>2, <2>1, <2>2, ConnectStep
  <1> QED
    BY <1>1, <1>2

\* The client in place gets a key that is written, and makes room at once.
LEMMA KeyWrittenStep ==
  ASSUME IInv, NEW c \in Calls, KeyWritten(c)
  PROVE  IInv'
  <1> USE NoneAssumption DEF KeyWritten
  <1> DEFINE cs == IF current = None THEN clients
                   ELSE [clients EXCEPT ![current].key = calls[c].key]
  <1>1. calls[c].pc \notin Shutting \cup {"validate"}
    BY DEF Shutting
  <1>2. clients \in [Clients -> ClientRecord] /\ calls[c].key \in Keys \cup {None}
    BY DEF IInv, TypeOK, ClientRecord
  <1>3. cs \in [Clients -> ClientRecord]
    <2>1. current # None => [clients[current] EXCEPT !.key = calls[c].key] \in ClientRecord
      BY <1>2 DEF IInv, TypeOK, ClientRecord
    <2> QED
      BY <1>2, <2>1 DEF IInv, TypeOK
  <1>4. \A n \in Clients : cs[n].channel = clients[n].channel /\ (n # current => cs[n] = clients[n])
    BY <1>2 DEF ClientRecord
  <1>5. stored' \in Keys \cup {None} /\ hasKey' \in BOOLEAN /\ UNCHANGED <<streams, loaded, valid>>
    BY <1>2
  <1>6. Connect(c, cs)
    OBVIOUS
  <1> HIDE DEF cs, KeyWritten
  <1> QED
    BY <1>1, <1>3, <1>4, <1>5, <1>6, ConnectStep

\* Unless it was overtaken, a shutdown that is done drops the client it shut.
LEMMA ShutdownDoneStep ==
  ASSUME IInv, NEW c \in Calls, ShutdownDone(c)
  PROVE  IInv'
  <1> USE NoneAssumption
  <1> DEFINE closed == [clients EXCEPT ![calls[c].client].channel = "null"]
  <1>1. closed \in [Clients -> ClientRecord]
    <2>1. calls[c].client \in Clients =>
            [clients[calls[c].client] EXCEPT !.channel = "null"] \in ClientRecord
      BY DEF IInv, TypeOK, ClientRecord, Channels
    <2> QED
      BY <2>1 DEF IInv, TypeOK, ClientRecord
  <1>2. \A n \in Clients : closed[n] = clients[n] \/ (n = calls[c].client /\ closed[n].channel = "null")
    BY DEF IInv, TypeOK
  <1>3. ~overlapped => /\ calls[c].client = current
                       /\ \A d \in Calls \ {c} : calls[d].pc \notin Shutting \cup {"validate"}
    <2> SUFFICES ASSUME ~overlapped PROVE /\ calls[c].client = current
                                          /\ \A d \in Calls \ {c} : calls[d].pc \notin Shutting \cup {"validate"}
      OBVIOUS
    <2>1. OneClient /\ Closing(c)
      BY DEF ShutdownDone, Closing, IInv, Overtaken
    <2>2. calls[c].client = current /\ ~UnderWay(current)
      BY <2>1 DEF ShutdownDone, OneClient
    <2> QED
      BY <2>1, <2>2 DEF OneClient, UnderWay, Closing
  <1>4. ~overlapped => \A n \in Clients : closed[n].channel \notin {"open", "shut"}
    <2> SUFFICES ASSUME ~overlapped, NEW n \in Clients PROVE closed[n].channel \notin {"open", "shut"}
      OBVIOUS
    <2>1. CASE n = current
      <3>1. closed[n].channel = "null"
        BY <1>3, <2>1 DEF IInv, TypeOK
      <3> QED
        BY <3>1
    <2>2. CASE n # current
      BY <1>2, <1>3, <2>2 DEF IInv, Overtaken, ChannelsOwned
    <2> QED
      BY <2>1, <2>2
  <1>5. /\ username' = None
        /\ UNCHANGED <<stored, hasKey, streams, loaded, valid, overlapped>>
        /\ \/ PutClient(c, closed)
           \/ current' = None /\ clients' = closed /\ End(c)
    BY DEF ShutdownDone
  <1> HIDE DEF closed
  <1>6. CASE PutClient(c, closed)
    <2>1. \A n \in Clients : closed[n] = clients[n] \/ closed[n].channel # "new"
      BY <1>2
    <2>2. \A n \in Fresh : closed[n].key = clients[n].key /\ closed[n].user = clients[n].user
      BY DEF Fresh, closed, IInv, TypeOK
    <2>3. stored' \in Keys \cup {None} /\ hasKey' \in BOOLEAN /\ username' \in Users \cup {None}
      BY <1>5 DEF IInv, TypeOK
    <2> QED
      BY <1>1, <1>3, <1>4, <1>5, <1>6, <2>1, <2>2, <2>3, PutClientStep
  <1>7. CASE current' = None /\ clients' = closed /\ End(c)
    <2>1. TypeOK'
      <3>1. Idle \in CallRecord
        BY DEF Idle, CallRecord, PCs
      <3>2. calls' \in [Calls -> CallRecord]
        BY <1>7, <3>1 DEF End, IInv, TypeOK, CallRecord
      <3> QED
        BY <1>1, <1>5, <1>7, <3>2 DEF End, IInv, TypeOK, CallRecord, ClientRecord
    <2>2. ClientUsable' /\ NobodyNamed'
      BY <1>5, <1>7 DEF ClientUsable, NobodyNamed
    <2>3. FreshEmpty'
      BY <1>2, <1>7 DEF IInv, FreshEmpty, Fresh
    <2>4. \A d \in Calls : d # c => calls'[d] = calls[d]
      BY <1>7 DEF End, IInv, TypeOK
    <2>5. calls'[c].pc = "idle"
      BY <1>7 DEF End, Idle, IInv, TypeOK
    <2>6. ~overlapped' => \A d \in Calls : calls'[d].pc \notin Shutting \cup {"validate"}
      BY <1>3, <1>5, <2>4, <2>5 DEF Shutting
    <2>7. ~overlapped' => ChannelsOwned' /\ OneClient' /\ InStep' /\ KnownOrAsked'
      BY <1>4, <1>5, <1>7, <2>6 DEF ChannelsOwned, OneClient, InStep, KnownOrAsked, Closing
    <2> QED
      BY <2>1, <2>2, <2>3, <2>7 DEF IInv, Overtaken
  <1> QED
    BY <1>5, <1>6, <1>7

\* A refused key: disconnect, or nothing to disconnect.
LEMMA RejectStep ==
  ASSUME IInv, NEW c \in Calls, Reject(c), calls[c].pc = "validate",
         username' \in {username, None},
         UNCHANGED <<stored, hasKey, streams, loaded, valid>>
  PROVE  IInv'
  <1> USE NoneAssumption DEF Reject
  <1>1. CASE current # None
    <2>1. "reject" \in Shutting /\ ~Closing(c)
      BY DEF Shutting, Closing
    <2>2. /\ clients \in [Clients -> ClientRecord]
          /\ stored' \in Keys \cup {None} /\ hasKey' \in BOOLEAN /\ username' \in Users \cup {None}
      BY DEF IInv, TypeOK, ClientRecord
    <2> QED
      BY <1>1, <2>1, <2>2, BeginDisconnectStep
  <1>2. CASE current = None
    <2>1. overlapped'
      BY <1>2 DEF IInv, Overtaken, OneClient
    <2>2. TypeOK'
      <3>1. End(c) /\ UNCHANGED <<current, clients, overlapped>>
        BY <1>2
      <3> QED
        BY <3>1, EndTyped DEF IInv, TypeOK, CallRecord
    <2>3. ClientUsable' /\ FreshEmpty' /\ NobodyNamed'
      BY <1>2 DEF IInv, ClientUsable, isConnected, FreshEmpty, Fresh, NobodyNamed
    <2> QED
      BY <2>1, <2>2, <2>3 DEF IInv, Overtaken
  <1> QED
    BY <1>1, <1>2

\* The key that was read becomes the key of the client in place, and the server
\* is asked about it.
LEMMA KeyReadStep ==
  ASSUME IInv, NEW c \in Calls, KeyRead(c)
  PROVE  IInv'
  <1> USE NoneAssumption
  <1> DEFINE keyed == [clients EXCEPT ![current].key = stored]
  <1>1. CASE stored = None \/ current = None
    <2>1. TypeOK'
      <3>1. End(c) /\ UNCHANGED <<stored, hasKey, username, streams, loaded, valid, current,
                                   clients, overlapped>>
        BY <1>1 DEF KeyRead
      <3> QED
        BY <3>1, EndTyped DEF IInv, TypeOK, CallRecord
    <2>2. \A d \in Calls : \/ calls'[d] = calls[d]
                           \/ /\ calls[d].pc \notin Shutting \cup {"validate"}
                              /\ calls'[d].pc \notin Shutting \cup {"validate"}
      BY <1>1 DEF KeyRead, End, Idle, IInv, TypeOK, Shutting
    <2>3. UNCHANGED <<stored, current, username, clients, overlapped>>
      BY <1>1 DEF KeyRead
    <2> QED
      BY <2>1, <2>2, <2>3, QuietStep
  <1>2. CASE stored # None /\ current # None
    <2>0. current \in Clients /\ stored \in Keys
      BY <1>2 DEF IInv, TypeOK
    <2>1. keyed \in [Clients -> ClientRecord]
      <3>1. [clients[current] EXCEPT !.key = stored] \in ClientRecord
        BY <2>0 DEF IInv, TypeOK, ClientRecord
      <3> QED
        BY <2>0, <3>1 DEF IInv, TypeOK, ClientRecord
    <2>2. /\ \A n \in Clients : keyed[n].channel = clients[n].channel /\ (n # current => keyed[n] = clients[n])
          /\ keyed[current].key = stored
      BY <2>0 DEF IInv, TypeOK
    <2>3. /\ UNCHANGED <<stored, hasKey, username, streams, loaded, valid>>
          /\ calls[c].pc = "keyread"
          /\ \/ /\ clients[current].channel = "open"
                /\ clients' = keyed
                /\ calls' = [calls EXCEPT ![c] = [Idle EXCEPT !.pc = "validate", !.key = stored,
                                                              !.client = current]]
                /\ UNCHANGED <<current, busy, overlapped>>
             \/ BeginDisconnect(c, "reject", keyed)
      BY <1>2 DEF KeyRead
    <2> HIDE DEF keyed
    <2>4. CASE BeginDisconnect(c, "reject", keyed)
      <3>1. "reject" \in Shutting /\ ~Closing(c)
        BY <2>3 DEF Shutting, Closing
      <3>2. stored' \in Keys \cup {None} /\ hasKey' \in BOOLEAN /\ username' \in Users \cup {None}
        BY <2>3 DEF IInv, TypeOK
      <3> QED
        BY <1>2, <2>1, <2>2, <2>3, <2>4, <3>1, <3>2, BeginDisconnectStep
    <2>5. CASE /\ clients[current].channel = "open"
               /\ clients' = keyed
               /\ calls' = [calls EXCEPT ![c] = [Idle EXCEPT !.pc = "validate", !.key = stored,
                                                             !.client = current]]
               /\ UNCHANGED <<current, busy, overlapped>>
      <3>1. [Idle EXCEPT !.pc = "validate", !.key = stored, !.client = current] \in CallRecord
        BY <2>0 DEF Idle, CallRecord, PCs
      <3>2. TypeOK'
        <4>1. calls' \in [Calls -> CallRecord]
          BY <2>5, <3>1 DEF IInv, TypeOK, CallRecord
        <4> QED
          BY <2>1, <2>3, <2>5, <4>1 DEF IInv, TypeOK, CallRecord, ClientRecord
      <3>3. /\ \A d \in Calls \ {c} : calls'[d] = calls[d]
            /\ calls'[c].pc = "validate" /\ calls'[c].key = stored /\ calls'[c].client = current
        BY <2>5 DEF Idle, IInv, TypeOK
      <3>4. \A d \in Calls : /\ Closing(d)' <=> Closing(d)
                             /\ Closing(d) => d # c
        BY <2>3, <3>3 DEF Closing, Shutting
      <3>5. ClientUsable' /\ NobodyNamed' /\ FreshEmpty'
        <4>1. ClientUsable' /\ NobodyNamed'
          BY <2>0, <2>2, <2>3, <2>5 DEF IInv, ClientUsable, isConnected, NobodyNamed
        <4>2. \A n \in Fresh' : n \in Fresh /\ clients'[n] = clients[n]
          BY <2>2, <2>5 DEF Fresh
        <4> QED
          BY <4>1, <4>2 DEF IInv, FreshEmpty
      <3>6. ~overlapped' => ChannelsOwned'
        BY <2>2, <2>5 DEF IInv, Overtaken, ChannelsOwned
      <3>7. ~overlapped' => OneClient'
        BY <1>2, <2>5, <3>3, <3>4 DEF IInv, Overtaken, OneClient
      <3>8. ~overlapped' => InStep'
        BY <2>0, <2>2, <2>3, <2>5, <3>3, <3>4 DEF IInv, Overtaken, InStep
      <3>9. KnownOrAsked'
        BY <3>3 DEF KnownOrAsked
      <3> QED
        BY <3>2, <3>5, <3>6, <3>7, <3>8, <3>9 DEF IInv, Overtaken
    <2> QED
      BY <2>3, <2>4, <2>5
  <1> QED
    BY <1>1, <1>2

\* The answer is yes: it was asked about the key the client in place still has.
LEMMA KeyAcceptedStep ==
  ASSUME IInv, NEW c \in Calls, KeyAccepted(c)
  PROVE  IInv'
  <1> USE NoneAssumption, KeyUserAssumption DEF KeyAccepted
  <1>0. /\ calls[c].key \in Keys
        /\ \A d \in Calls \ {c} : calls'[d] = calls[d]
        /\ calls'[c].pc = "idle"
    BY DEF End, Idle, IInv, TypeOK
  <1>1. \A n \in Clients : /\ clients'[n].channel = clients[n].channel
                           /\ clients'[n].key = clients[n].key
                           /\ n # current => clients'[n] = clients[n]
    BY DEF IInv, TypeOK
  <1>2. TypeOK'
    <2>1. Idle \in CallRecord
      BY DEF Idle, CallRecord, PCs
    <2>2. calls' \in [Calls -> CallRecord]
      BY <2>1 DEF End, IInv, TypeOK, CallRecord
    <2>3. clients' \in [Clients -> ClientRecord]
      BY <1>0 DEF IInv, TypeOK, ClientRecord
    <2> QED
      BY <1>0, <2>2, <2>3 DEF End, IInv, TypeOK, CallRecord, ClientRecord
  <1>3. ClientUsable' /\ NobodyNamed'
    BY <1>1 DEF IInv, TypeOK, ClientUsable, isConnected, NobodyNamed
  <1>4. FreshEmpty'
    BY <1>1 DEF IInv, FreshEmpty, Fresh, ClientUsable, isConnected
  <1>5. \A d \in Calls : /\ Closing(d)' <=> Closing(d)
                         /\ Closing(d) => d # c
    BY <1>0 DEF Closing, Shutting
  <1>6. ~overlapped' => ChannelsOwned'
    BY <1>1 DEF IInv, Overtaken, ChannelsOwned
  <1>7. ~overlapped' => OneClient'
    BY <1>0, <1>5 DEF IInv, Overtaken, OneClient
  <1>8. ~overlapped' => InStep'
    BY <1>0, <1>1, <1>5 DEF IInv, TypeOK, Overtaken, InStep
  <1>9. ~overlapped' => KnownOrAsked'
    <2> SUFFICES ASSUME ~overlapped', current' # None, clients'[current'].key # None,
                        \A d \in Calls : ~Closing(d)'
                 PROVE  Agreed'
      BY DEF KnownOrAsked
    <2>1. current \in Clients /\ current # None
      BY DEF IInv, TypeOK
    <2>2. InStep /\ \A d \in Calls : ~Closing(d)
      BY <1>5 DEF IInv, Overtaken
    <2>3. clients[current].key = calls[c].key
      BY <1>1, <2>1, <2>2 DEF InStep
    <2>4. clients'[current].user = KeyUser[calls[c].key] /\ username' = KeyUser[calls[c].key]
      BY <2>1 DEF IInv, TypeOK
    <2> QED
      BY <1>1, <2>1, <2>3, <2>4 DEF Agreed
  <1> QED
    BY <1>2, <1>3, <1>4, <1>6, <1>7, <1>8, <1>9 DEF IInv, Overtaken

\* No key, no user to agree with.
LEMMA KeyDeletedStep ==
  ASSUME IInv, NEW c \in Calls, KeyDeleted(c)
  PROVE  IInv'
  <1> USE NoneAssumption DEF KeyDeleted
  <1>0. /\ \A d \in Calls \ {c} : calls'[d] = calls[d]
        /\ calls'[c].pc = "idle"
    BY DEF End, Idle, IInv, TypeOK
  <1>1. /\ \A n \in Clients : clients'[n].channel = clients[n].channel /\ clients'[n].key \in {None, clients[n].key}
                              /\ clients'[n].user = clients[n].user
        /\ current # None => clients'[current].key = None
    BY DEF IInv, TypeOK
  <1>2. TypeOK'
    <2>1. Idle \in CallRecord
      BY DEF Idle, CallRecord, PCs
    <2>2. calls' \in [Calls -> CallRecord]
      BY <2>1 DEF End, IInv, TypeOK, CallRecord
    <2>3. clients' \in [Clients -> ClientRecord]
      <3>1. current \in Clients => [clients[current] EXCEPT !.key = None] \in ClientRecord
        BY DEF IInv, TypeOK, ClientRecord
      <3> QED
        BY <3>1 DEF IInv, TypeOK, ClientRecord
    <2> QED
      BY <2>2, <2>3 DEF End, IInv, TypeOK, CallRecord, ClientRecord
  <1>3. ClientUsable' /\ NobodyNamed' /\ FreshEmpty'
    BY <1>1 DEF IInv, TypeOK, ClientUsable, isConnected, NobodyNamed, FreshEmpty, Fresh
  <1>4. \A d \in Calls : /\ Closing(d)' <=> Closing(d)
                         /\ Closing(d) \/ calls[d].pc = "validate" => d # c
                         /\ calls'[d].pc = "validate" => d # c
    BY <1>0 DEF Closing, Shutting
  <1>5. ~overlapped' => ChannelsOwned'
    BY <1>1 DEF IInv, Overtaken, ChannelsOwned
  <1>6. ~overlapped' => OneClient'
    BY <1>0, <1>4 DEF IInv, Overtaken, OneClient
  <1>7. ~overlapped' => InStep'
    BY <1>0, <1>1, <1>4 DEF IInv, TypeOK, Overtaken, InStep
  <1>8. KnownOrAsked'
    BY <1>1 DEF KnownOrAsked
  <1> QED
    BY <1>2, <1>3, <1>5, <1>6, <1>7, <1>8 DEF IInv, Overtaken

\* The invariant holds in every state of every behaviour.
THEOREM Inductive == Spec => []IInv
  <1>1. ASSUME IInv, [Next]_vars PROVE IInv'
    <2> DEFINE Still == \A d \in Calls : \/ calls'[d] = calls[d]
                                         \/ /\ calls[d].pc \notin Shutting \cup {"validate"}
                                            /\ calls'[d].pc \notin Shutting \cup {"validate"}
    <2>1. ASSUME NEW c \in Calls, Progress(c) PROVE IInv'
      BY <1>1, <2>1, ConfigSavedStep, KeyWrittenStep, KeyDeletedStep, ShutdownDoneStep,
         KeyReadStep, KeyAcceptedStep, RejectStep DEF Progress, KeyRejected
    <2>2. ASSUME NEW c \in Calls, TapConnect(c) PROVE IInv'
      <3>1. TypeOK'
        <4>1. PICK key \in Keys \cup {None} :
                calls' = [calls EXCEPT ![c] = [Idle EXCEPT !.pc = "config", !.key = key]]
          BY <2>2 DEF TapConnect
        <4>2. [Idle EXCEPT !.pc = "config", !.key = key] \in CallRecord
          BY DEF Idle, CallRecord, PCs
        <4>3. calls' \in [Calls -> CallRecord]
          BY <1>1, <4>1, <4>2 DEF IInv, TypeOK, CallRecord
        <4> QED
          BY <1>1, <2>2, <4>3 DEF TapConnect, serviceVars, IInv, TypeOK, CallRecord
      <3>2. Still
        BY <1>1, <2>2 DEF TapConnect, Idle, IInv, TypeOK, Shutting
      <3> QED
        BY <1>1, <2>2, <3>1, <3>2, QuietStep DEF TapConnect, serviceVars
    <2>3. ASSUME NEW c \in Calls, TapDisconnect(c) PROVE IInv'
      <3>1. "disconnect" \in Shutting /\ ~Closing(c) /\ current # None
        BY <2>3 DEF TapDisconnect, Shutting, Closing, isConnected
      <3>2. /\ clients \in [Clients -> ClientRecord]
            /\ stored' \in Keys \cup {None} /\ hasKey' \in BOOLEAN /\ username' \in Users \cup {None}
            /\ BeginDisconnect(c, "disconnect", clients) /\ UNCHANGED <<streams, loaded, valid>>
        BY <1>1, <2>3 DEF TapDisconnect, IInv, TypeOK, ClientRecord
      <3> QED
        BY <1>1, <3>1, <3>2, BeginDisconnectStep
    <2>4. ASSUME NEW c \in Calls, TapClear(c) PROVE IInv'
      <3>1. TypeOK'
        BY <1>1, <2>4 DEF TapClear, At, serviceVars, IInv, TypeOK, PCs
      <3>2. Still
        BY <1>1, <2>4 DEF TapClear, At, IInv, TypeOK, Shutting
      <3> QED
        BY <1>1, <2>4, <3>1, <3>2, QuietStep DEF TapClear, serviceVars
    <2>5. ASSUME NEW c \in Calls, ValidateFails(c) PROVE IInv'
      BY <1>1, <2>5, RejectStep DEF ValidateFails
    <2>6. ASSUME NEW c \in Calls, StorageFails(c) PROVE IInv'
      <3>1. TypeOK'
        BY <1>1, <2>6 DEF StorageFails, End, Idle, serviceVars, IInv, TypeOK, PCs
      <3>2. Still
        BY <1>1, <2>6 DEF StorageFails, End, Idle, IInv, TypeOK, Shutting
      <3> QED
        BY <1>1, <2>6, <3>1, <3>2, QuietStep DEF StorageFails, serviceVars
    <2>7. CASE Leave \/ Load \/ StreamOpens \/ StreamEnds \/ Revoke \/ UNCHANGED vars
      <3>1. UNCHANGED <<stored, current, username, clients, overlapped, calls>>
        BY <2>7 DEF Leave, Load, StreamOpens, StreamEnds, Revoke, vars, serviceVars
      <3>2. TypeOK'
        BY <1>1, <2>7, <3>1 DEF Leave, Load, StreamOpens, StreamEnds, Revoke, vars, serviceVars,
                                IInv, TypeOK
      <3> QED
        BY <1>1, <3>1, <3>2, QuietStep
    <2> QED
      BY <1>1, <2>1, <2>2, <2>3, <2>4, <2>5, <2>6, <2>7 DEF Next
  <1> QED
    BY InitIInv, <1>1, PTL DEF Spec

\* The fields of the service, the clients and the calls keep their types.
THEOREM TypeCorrect == Spec => []TypeOK
  <1>1. IInv => TypeOK
    BY DEF IInv
  <1> QED
    BY <1>1, Inductive, PTL

\* However many connects, disconnects and refused keys overlap, a client in
\* place has a channel.
THEOREM ClientUsableHolds == Spec => []ClientUsable
  <1>1. IInv => ClientUsable
    BY DEF IInv
  <1> QED
    BY <1>1, Inductive, PTL

\* As long as no disconnect begins while another one waits, no channel is left
\* open but the one in place.
THEOREM ChannelsOwnedHolds == Spec => []ChannelsOwned
  <1>1. IInv => ChannelsOwned
    BY DEF IInv, Overtaken, ChannelsOwned
  <1> QED
    BY <1>1, Inductive, PTL

\* Under the same condition, when nothing is under way, key, user and the name
\* on the page agree.
THEOREM SettledAgreeHolds == Spec => []SettledAgree
  <1>1. IInv => SettledAgree
    <2> SUFFICES ASSUME IInv, Quiet, ~overlapped PROVE SettledAgree
      BY DEF SettledAgree
    <2>1. \A c \in Calls : ~Closing(c) /\ calls[c].pc # "validate"
      BY DEF Quiet, Closing, Shutting
    <2> QED
      BY <2>1 DEF IInv, NobodyNamed, Overtaken, KnownOrAsked, Agreed, SettledAgree
  <1> QED
    BY <1>1, Inductive, PTL

=============================================================================
