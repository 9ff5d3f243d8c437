-------------------------- MODULE HiveTerminalView --------------------------
(***************************************************************************)
(* One pane of the client: the session, the stream and the subscription of *)
(* a HiveTerminalView, which its asynchronous _connect and _disconnect     *)
(* fill and clear, and which taps on Reconnect, the events of the stream   *)
(* and dispose meet half way.                                              *)
(*                                                                         *)
(* Dart runs one callback at a time.  A call of an asynchronous method is  *)
(* suspended at its awaits; one whose await has nothing to wait for goes   *)
(* on in a microtask, before any other event.                              *)
(***************************************************************************)
EXTENDS Naturals, FiniteSets

CONSTANTS
  Calls,     \* calls of _connect, and of _disconnect by dispose, under way
  Sessions,  \* the session ids the server may answer with
  NoSession       \* null

ASSUME NoSessionAssumption == NoSession \notin Sessions

VARIABLES
  mounted,  \* dispose has not run
  state,    \* _sessionState
  session,  \* _session
  stream,   \* _terminalStream, by the session it is attached to
  sub,      \* _outputSubscription, likewise
  calls,    \* what every call awaits
  server,   \* the sessions at the server
  input,    \* the input half of every stream attached: TerminalStream._closed
  events,   \* the output half: whether its events reach the view
  lost,     \* history: sessions a failed RPC left open at the server
  calm      \* history: no call was overtaken in a way that matters

paneVars == <<mounted, state, session, stream, sub, calls, server, input, events, lost, calm>>

-----------------------------------------------------------------------------

CallPC == {"idle", "cancel", "close", "rpc", "create"}
Call == [op : {"connect", "dispose"}, pc : CallPC, pending : BOOLEAN,
         sess : Sessions \cup {NoSession}]
NoCall == [op |-> "connect", pc |-> "idle", pending |-> FALSE, sess |-> NoSession]

Running(c) == calls[c].pc # "idle"

\* Microtasks first: an event is handled when no other call can go on.
Turn(c) == \A d \in Calls \ {c} : Running(d) => calls[d].pending

\* setState: throws once the view is disposed, and ends the call it is in.
SetState(s) == state' = IF mounted THEN s ELSE state

Finish(c) == calls' = [calls EXCEPT ![c] = NoCall]

\* initState, and the first _connect it asks for after the first frame.
ViewInit ==
  /\ mounted = TRUE
  /\ state = "disconnected"
  /\ session = NoSession /\ stream = NoSession /\ sub = NoSession
  /\ \E c \in Calls :
       calls = [d \in Calls |-> IF d = c THEN [NoCall EXCEPT !.pc = "cancel"] ELSE NoCall]
  /\ server = [s \in Sessions |-> "none"]
  /\ input = [s \in Sessions |-> "none"]
  /\ events = [s \in Sessions |-> "none"]
  /\ lost = {}
  /\ calm = TRUE

-----------------------------------------------------------------------------
(***************************************************************************)
(* _disconnect, which both _connect and dispose begin with.                *)
(***************************************************************************)

\* await _outputSubscription?.cancel()
Cancel(c, op) ==
  /\ calls' = [calls EXCEPT ![c] = [op |-> op, pc |-> "cancel", pending |-> sub # NoSession,
                                    sess |-> NoSession]]
  /\ events' = [s \in Sessions |-> IF s = sub THEN "over" ELSE events[s]]

\* Reconnect and Retry are shown while the view is not connected.
Connect(c) ==
  /\ mounted
  /\ state \in {"error", "disconnected"}
  /\ ~Running(c) /\ Turn(c)
  /\ Cancel(c, "connect")
  /\ calm' = (calm /\ \A d \in Calls : ~Running(d))
  /\ UNCHANGED <<mounted, state, session, stream, sub, server, input, lost>>

\* The pane is closed, or its view leaves the tree.
Dispose(c) ==
  /\ mounted
  /\ ~Running(c) /\ Turn(c)
  /\ mounted' = FALSE
  /\ Cancel(c, "dispose")
  /\ calm' = (calm /\ \A d \in Calls : calls[d].pc # "create")
  /\ UNCHANGED <<state, session, stream, sub, server, input, lost>>

\* Mutant: the stream is dropped, not closed.
AfterCancel_Drop(c) ==
  /\ calls[c].pc = "cancel" /\ Turn(c)
  /\ sub' = NoSession
  /\ calls' = [calls EXCEPT ![c].pc = "close", ![c].pending = FALSE]
  /\ UNCHANGED <<mounted, state, session, stream, server, input, events, lost, calm>>

\* _outputSubscription = null; await _terminalStream?.close()
AfterCancel(c) ==
  /\ calls[c].pc = "cancel" /\ Turn(c)
  /\ sub' = NoSession
  /\ input' = [s \in Sessions |-> IF s = stream THEN "closed" ELSE input[s]]
  /\ calls' = [calls EXCEPT ![c].pc = "close",
                            ![c].pending = (stream # NoSession /\ input[stream] = "open")]
  /\ UNCHANGED <<mounted, state, session, stream, server, events, lost, calm>>

\* The caller goes on.  dispose does not wait for this at all; _connect ends
\* where it cannot call setState, has no client or no password, or creates.
AfterDisconnect(c) ==
  IF calls[c].op = "connect" /\ mounted
  THEN \/ state' \in {"disconnected", "error"} /\ Finish(c)
       \/ /\ state' = "connecting"
          /\ calls' = [calls EXCEPT ![c].pc = "create", ![c].pending = TRUE, ![c].sess = NoSession]
  ELSE Finish(c) /\ UNCHANGED state

\* Mutant: the session is forgotten, not closed.
AfterClose_Forget(c) ==
  /\ calls[c].pc = "close" /\ Turn(c)
  /\ stream' = NoSession
  /\ session' = NoSession
  /\ AfterDisconnect(c)
  /\ UNCHANGED <<mounted, sub, server, input, events, lost, calm>>

\* Mutant: there is no test that _session is not null.
AfterClose_NoTest(c) ==
  /\ calls[c].pc = "close" /\ Turn(c)
  /\ stream' = NoSession
  /\ calls' = [calls EXCEPT ![c].pc = "rpc", ![c].pending = TRUE, ![c].sess = session]
  /\ UNCHANGED <<mounted, state, session, sub, server, input, events, lost, calm>>

\* _terminalStream = null; await _terminalService!.closeSession(_session!.id)
AfterClose(c) ==
  /\ calls[c].pc = "close" /\ Turn(c)
  /\ stream' = NoSession
  /\ IF session # NoSession
     THEN /\ calls' = [calls EXCEPT ![c].pc = "rpc", ![c].pending = TRUE, ![c].sess = session]
          /\ UNCHANGED state
     ELSE AfterDisconnect(c)
  /\ UNCHANGED <<mounted, session, sub, server, input, events, lost, calm>>

\* Mutant: a session that could not be closed is kept.
CloseReply_Keep(c) ==
  /\ calls[c].pc = "rpc" /\ Turn(c)
  /\ \/ /\ server' = [server EXCEPT ![calls[c].sess] = "closed"]
        /\ session' = NoSession
     \/ UNCHANGED <<server, session>>
  /\ AfterDisconnect(c)
  /\ UNCHANGED <<mounted, stream, sub, input, events, lost, calm>>

\* closeSession returns true, or false because the RPC failed or the client is
\* not connected; either way _session = null.
CloseReply(c) ==
  /\ calls[c].pc = "rpc" /\ Turn(c)
  /\ \/ server' = [server EXCEPT ![calls[c].sess] = "closed"] /\ UNCHANGED lost
     \/ lost' = lost \cup {calls[c].sess} /\ UNCHANGED server
  /\ session' = NoSession
  /\ AfterDisconnect(c)
  /\ UNCHANGED <<mounted, stream, sub, input, events, calm>>

-----------------------------------------------------------------------------
(***************************************************************************)
(* _connect after createSession returned.                                  *)
(***************************************************************************)

\* null: the RPC failed, perhaps after the server had created the session.
CreateFails(c) ==
  /\ calls[c].pc = "create" /\ Turn(c)
  /\ \/ UNCHANGED <<server, lost>>
     \/ \E s \in Sessions :
          /\ server[s] = "none"
          /\ server' = [server EXCEPT ![s] = "open"]
          /\ lost' = lost \cup {s}
  /\ session' = NoSession
  /\ SetState("error")
  /\ Finish(c)
  /\ UNCHANGED <<mounted, stream, sub, input, events, calm>>

\* The session is there but the client is not connected any more.
AttachFails(c) ==
  /\ calls[c].pc = "create" /\ Turn(c)
  /\ \E s \in Sessions :
       /\ server[s] = "none"
       /\ server' = [server EXCEPT ![s] = "open"]
       /\ session' = s
  /\ stream' = NoSession
  /\ SetState("error")
  /\ Finish(c)
  /\ UNCHANGED <<mounted, sub, input, events, lost, calm>>

\* Mutant: nobody listens to the stream.
CreateReply_NoListen(c) ==
  /\ calls[c].pc = "create" /\ Turn(c)
  /\ \E s \in Sessions :
       /\ server[s] = "none"
       /\ server' = [server EXCEPT ![s] = "open"]
       /\ session' = s /\ stream' = s
       /\ input' = [input EXCEPT ![s] = "open"]
  /\ SetState("connected")
  /\ Finish(c)
  /\ UNCHANGED <<mounted, sub, events, lost, calm>>

CreateReply(c) ==
  /\ calls[c].pc = "create" /\ Turn(c)
  /\ \E s \in Sessions :
       /\ server[s] = "none"
       /\ server' = [server EXCEPT ![s] = "open"]
       /\ session' = s /\ stream' = s /\ sub' = s
       /\ input' = [input EXCEPT ![s] = "open"]
       /\ events' = [events EXCEPT ![s] = "listening"]
  /\ SetState("connected")
  /\ Finish(c)
  /\ UNCHANGED <<mounted, lost, calm>>

-----------------------------------------------------------------------------
(***************************************************************************)
(* Events of a stream the view listens to.  The handlers do not ask which. *)
(***************************************************************************)

Quiet == \A c \in Calls : Running(c) => calls[c].pending

\* An error or a SessionClosed message, or an error of the stream itself.
StreamError(s) ==
  /\ events[s] = "listening" /\ Quiet
  /\ \E t \in {"error", "disconnected"} : SetState(t)
  /\ UNCHANGED <<mounted, session, stream, sub, calls, server, input, events, lost, calm>>

StreamDone(s) ==
  /\ events[s] = "listening" /\ Quiet
  /\ events' = [events EXCEPT ![s] = "over"]
  /\ IF state = "connected" THEN SetState("disconnected") ELSE UNCHANGED state
  /\ UNCHANGED <<mounted, session, stream, sub, calls, server, input, lost, calm>>

Resume(c) == AfterCancel(c) \/ AfterClose(c) \/ CloseReply(c)

Create(c) == CreateFails(c) \/ AttachFails(c) \/ CreateReply(c)

ViewNext ==
  \/ \E c \in Calls : Connect(c) \/ Dispose(c) \/ Resume(c) \/ Create(c)
  \/ \E s \in Sessions : StreamError(s) \/ StreamDone(s)

ViewSpec == ViewInit /\ [][ViewNext]_paneVars

\* The event loop runs what is ready, and an RPC returns, if with an error.
ViewFairSpec == ViewSpec /\ \A c \in Calls : WF_paneVars(Resume(c)) /\ WF_paneVars(Create(c))

-----------------------------------------------------------------------------
(***************************************************************************)
(* Correctness.                                                            *)
(***************************************************************************)

\* Every variable has its type.
ViewTypeOK ==
  /\ mounted \in BOOLEAN /\ calm \in BOOLEAN
  /\ state \in {"disconnected", "connecting", "connected", "error"}
  /\ session \in Sessions \cup {NoSession}
  /\ stream \in Sessions \cup {NoSession}
  /\ sub \in Sessions \cup {NoSession}
  /\ calls \in [Calls -> Call]
  /\ server \in [Sessions -> {"none", "open", "closed"}]
  /\ input \in [Sessions -> {"none", "open", "closed"}]
  /\ events \in [Sessions -> {"none", "listening", "over"}]
  /\ lost \subseteq Sessions

\* Unless a second _connect ran into a first, or dispose into the creation of
\* a session, a session the view created and could reach is closed at the
\* server or in _session: also when dispose runs into the _disconnect of a
\* _connect, when RPCs fail and when streams end in between.
NothingOrphaned ==
  calm => \A s \in Sessions : server[s] = "open" => s = session \/ s \in lost

\* Under the same condition the view listens to the stream it has, sends to
\* the session it has, and to no other; and while it shows `connected` it has
\* all three and its input is open.
FieldsAgree ==
  calm =>
    /\ \A s \in Sessions : events[s] = "listening" => s = sub
    /\ \A s \in Sessions : input[s] = "open" => s = stream
    /\ sub # NoSession => sub = stream
    /\ stream # NoSession => stream = session
    /\ mounted /\ state = "connected" =>
         session # NoSession /\ sub = session /\ input[session] = "open"

\* Under the same condition the server is told to close a session only after
\* the view has stopped listening to it and has closed its input.
ClosedInOrder ==
  [][ \A s \in Sessions :
        calm /\ server[s] = "open" /\ server'[s] = "closed"
        => events[s] # "listening" /\ input[s] # "open" ]_paneVars

\* A view that is disposed gives everything back, unless dispose ran into the
\* creation of a session.
DisposeReleases ==
  ~mounted ~> \/ ~calm
              \/ session = NoSession /\ stream = NoSession /\ sub = NoSession /\ \A c \in Calls : ~Running(c)

\* `connecting` is no state to stay in, however calls overlap.
ConnectSettles == state = "connecting" ~> state # "connecting" \/ ~mounted

\* What the view has begun comes to an end: the two above.
ViewSettles == DisposeReleases /\ ConnectSettles

(***************************************************************************)
(* What comments of the code say and the view does not do.                 *)
(***************************************************************************)

\* "Disconnect any existing connection first": the view listens to one stream
\* at a time.
OneConnection ==
  \A s, t \in Sessions : events[s] = "listening" /\ events[t] = "listening" => s = t

=============================================================================
