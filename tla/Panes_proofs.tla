--------------------------- MODULE Panes_proofs ---------------------------
(***************************************************************************)
(* Proofs about the panes of the client.  First HiveTerminalView, what is  *)
(* in one pane, for any number of overlapping calls; then PaneLists, which *)
(* panes there are, for any number of workspaces and terminals; then       *)
(* Workspace, the trees they stand in and the views that show them.        *)
(***************************************************************************)
EXTENDS HiveTerminalView, Workspace, SequenceTheorems, WellFoundedInduction, TLAPS

(***************************************************************************)
(* One pane.  FieldsAgree is not inductive: what a call finds when it goes *)
(* on depends on how far it came, and on no other call having filled the   *)
(* fields meanwhile.  Settled says both.                                   *)
(***************************************************************************)

\* A call that waits for closeSession asked for a session.
RpcHasSession == \A c \in Calls : calls[c].pc = "rpc" => calls[c].sess \in Sessions

\* What a call has cleared stays clear until it creates a session.
Cleared ==
  \A c \in Calls :
    /\ Running(c) => \A s \in Sessions : events[s] # "listening"
    /\ calls[c].pc \in {"close", "rpc", "create"} =>
         sub = NoSession /\ \A s \in Sessions : input[s] # "open"
    /\ calls[c].pc \in {"rpc", "create"} => stream = NoSession
    /\ calls[c].pc = "rpc" => session \in {NoSession, calls[c].sess}
    /\ calls[c].pc = "create" => session = NoSession

\* Nobody overtakes the creation of a session, and a view that is connected
\* has no call under way.
Alone ==
  /\ \A c, d \in Calls : Running(c) /\ Running(d) /\ c # d =>
        ~mounted /\ calls[c].pc # "create"
  /\ \A c \in Calls : calls[c].pc = "create" => mounted
  /\ mounted /\ state = "connected" => \A c \in Calls : ~Running(c)

Settled == calm => Cleared /\ Alone

IInv == ViewTypeOK /\ RpcHasSession /\ Settled /\ FieldsAgree /\ NothingOrphaned

-----------------------------------------------------------------------------

\* The first _connect finds the empty view it expects.
LEMMA InitIInv == ViewInit => IInv
  <1> SUFFICES ASSUME ViewInit PROVE IInv
    OBVIOUS
  <1> USE NoSessionAssumption DEF ViewInit
  <1>1. ViewTypeOK
    <2>1. NoCall \in Call /\ [NoCall EXCEPT !.pc = "cancel"] \in Call
      BY DEF NoCall, Call, CallPC
    <2>2. calls \in [Calls -> Call]
      BY <2>1
    <2> QED
      BY <2>2 DEF ViewTypeOK
  <1>2. RpcHasSession
    BY DEF RpcHasSession, NoCall
  <1>3. Cleared
    BY DEF Cleared, Running, NoCall
  <1>4. Alone
    BY DEF Alone, Running, NoCall
  <1>5. FieldsAgree /\ NothingOrphaned
    BY DEF FieldsAgree, NothingOrphaned
  <1> QED
    BY <1>1, <1>2, <1>3, <1>4, <1>5 DEF IInv, Settled

\* A tap on Reconnect starts a _connect.
LEMMA ConnectStep ==
  ASSUME IInv, NEW c \in Calls, Connect(c)
  PROVE  IInv'
  <1> USE NoSessionAssumption DEF Connect, Cancel
  <1>1. ViewTypeOK'
    BY DEF IInv, ViewTypeOK, Call, CallPC
  <1>2. RpcHasSession'
    BY DEF IInv, RpcHasSession, ViewTypeOK, Call
  <1>3. calm' => calm /\ \A d \in Calls : ~Running(d)
    OBVIOUS
  <1>4. calm' => Cleared'
    BY <1>3 DEF IInv, ViewTypeOK, Call, Settled, Cleared, FieldsAgree, Running
  <1>5. calm' => Alone'
    BY <1>3 DEF IInv, ViewTypeOK, Call, Settled, Alone, Running
  <1>6. FieldsAgree'
    BY <1>3 DEF IInv, ViewTypeOK, FieldsAgree
  <1>7. NothingOrphaned'
    BY <1>3 DEF IInv, NothingOrphaned
  <1> QED
    BY <1>1, <1>2, <1>4, <1>5, <1>6, <1>7 DEF IInv, Settled

\* dispose starts a _disconnect.
LEMMA DisposeStep ==
  ASSUME IInv, NEW c \in Calls, Dispose(c)
  PROVE  IInv'
  <1> USE NoSessionAssumption DEF Dispose, Cancel
  <1>1. ViewTypeOK'
    BY DEF IInv, ViewTypeOK, Call, CallPC
  <1>2. RpcHasSession'
    BY DEF IInv, RpcHasSession, ViewTypeOK, Call
  <1>3. calm' => calm /\ \A d \in Calls : calls[d].pc # "create"
    OBVIOUS
  <1>4. calm' => Cleared'
    BY <1>3 DEF IInv, ViewTypeOK, Call, Settled, Cleared, FieldsAgree, Running
  <1>5. calm' => Alone'
    BY <1>3 DEF IInv, ViewTypeOK, Call, Settled, Alone, Running
  <1>6. FieldsAgree'
    BY <1>3 DEF IInv, ViewTypeOK, FieldsAgree
  <1>7. NothingOrphaned'
    BY <1>3 DEF IInv, NothingOrphaned
  <1> QED
    BY <1>1, <1>2, <1>4, <1>5, <1>6, <1>7 DEF IInv, Settled

\* The subscription is cancelled; the input of the stream is closed.
LEMMA AfterCancelStep ==
  ASSUME IInv, NEW c \in Calls, AfterCancel(c)
  PROVE  IInv'
  <1> USE NoSessionAssumption DEF AfterCancel
  <1>1. ViewTypeOK'
    <2> DEFINE p == stream # NoSession /\ input[stream] = "open"
    <2>1. p \in BOOLEAN
      OBVIOUS
    <2>2. calls' \in [Calls -> Call]
      <3> HIDE DEF p
      <3>1. calls' = [calls EXCEPT ![c].pc = "close", ![c].pending = p]
        BY DEF p
      <3>2. calls[c] \in Call /\ calls \in [Calls -> Call]
        BY DEF IInv, ViewTypeOK
      <3>3. [calls[c] EXCEPT !.pc = "close", !.pending = p] \in Call
        BY <2>1, <3>2 DEF Call, CallPC
      <3>4. calls' = [calls EXCEPT ![c] = [calls[c] EXCEPT !.pc = "close", !.pending = p]]
        BY <3>1, <3>2
      <3> QED
        BY <3>2, <3>3, <3>4
    <2> QED
      BY <2>2 DEF IInv, ViewTypeOK
  <1>2. RpcHasSession'
    BY DEF IInv, RpcHasSession, ViewTypeOK, Call
  <1>3. calm' => Cleared'
    BY DEF IInv, ViewTypeOK, Call, Settled, Cleared, FieldsAgree, Running
  <1>4. calm' => Alone'
    BY DEF IInv, ViewTypeOK, Call, Settled, Alone, Running
  <1>5. FieldsAgree'
    BY DEF IInv, ViewTypeOK, Call, Settled, Cleared, Alone, FieldsAgree, Running
  <1>6. NothingOrphaned'
    BY DEF IInv, NothingOrphaned
  <1> QED
    BY <1>1, <1>2, <1>3, <1>4, <1>5, <1>6 DEF IInv, Settled

\* Where the caller of _disconnect goes on, with nothing left to clear, the
\* calls and the state are as the invariant wants them.
LEMMA AfterDisconnectStep ==
  ASSUME IInv, NEW c \in Calls, Running(c), AfterDisconnect(c), UNCHANGED <<mounted, calm>>
  PROVE  /\ calls' \in [Calls -> Call]
         /\ state' \in {"disconnected", "connecting", "connected", "error"}
         /\ \A d \in Calls \ {c} : calls'[d] = calls[d]
         /\ calls'[c].pc = "idle" \/ (calls'[c].pc = "create" /\ mounted)
         /\ calm => Alone'
         /\ mounted /\ state' = "connected" => state = "connected"
  <1> USE DEF AfterDisconnect, Finish
  <1>1. /\ calls' \in [Calls -> Call]
        /\ state' \in {"disconnected", "connecting", "connected", "error"}
    <2>1. CASE Finish(c)
      BY <2>1 DEF IInv, ViewTypeOK, Call, CallPC, NoCall
    <2>2. CASE calls' = [calls EXCEPT ![c].pc = "create", ![c].pending = TRUE, ![c].sess = NoSession]
      BY <2>2 DEF IInv, ViewTypeOK, Call, CallPC
    <2> QED
      BY <2>1, <2>2 DEF IInv, ViewTypeOK
  <1>2. \A d \in Calls \ {c} : calls'[d] = calls[d]
    BY DEF IInv, ViewTypeOK
  <1>3. calls'[c].pc = "idle" \/ (calls'[c].pc = "create" /\ mounted)
    <2>1. CASE Finish(c)
      <3>1. calls'[c] = NoCall
        BY <2>1 DEF IInv, ViewTypeOK
      <3>2. NoCall.pc = "idle"
        BY DEF NoCall
      <3> QED
        BY <3>1, <3>2
    <2>2. CASE /\ mounted
               /\ calls' = [calls EXCEPT ![c].pc = "create", ![c].pending = TRUE, ![c].sess = NoSession]
      BY <2>2 DEF IInv, ViewTypeOK, Call
    <2> QED
      BY <2>1, <2>2
  <1>4. mounted /\ state' = "connected" => state = "connected"
    OBVIOUS
  <1>5. calm => Alone'
    BY <1>2, <1>3, <1>4 DEF IInv, Settled, Alone, Running
  <1> QED
    BY <1>1, <1>2, <1>3, <1>4, <1>5

\* The input is closed; the server is asked to close the session, if any.
LEMMA AfterCloseStep ==
  ASSUME IInv, NEW c \in Calls, AfterClose(c)
  PROVE  IInv'
  <1> USE NoSessionAssumption DEF AfterClose
  <1>0. Running(c) /\ UNCHANGED <<mounted, calm>>
    BY DEF Running
  <1>1. CASE session # NoSession
    <2> USE <1>1
    <2>1. ViewTypeOK'
      BY DEF IInv, ViewTypeOK, Call, CallPC
    <2>2. RpcHasSession'
      BY DEF IInv, RpcHasSession, ViewTypeOK, Call
    <2>3. calm' => Cleared'
      BY DEF IInv, ViewTypeOK, Call, Settled, Cleared, Running
    <2>4. calm' => Alone'
      BY DEF IInv, ViewTypeOK, Call, Settled, Alone, Running
    <2>5. FieldsAgree'
      BY DEF IInv, ViewTypeOK, Call, Settled, Cleared, Alone, FieldsAgree, Running
    <2>6. NothingOrphaned'
      BY DEF IInv, NothingOrphaned
    <2> QED
      BY <2>1, <2>2, <2>3, <2>4, <2>5, <2>6 DEF IInv, Settled
  <1>2. CASE session = NoSession
    <2> USE <1>2
    <2>0. AfterDisconnect(c)
      OBVIOUS
    <2>1. ViewTypeOK'
      BY <1>0, <2>0, AfterDisconnectStep DEF IInv, ViewTypeOK
    <2>2. RpcHasSession'
      BY <1>0, <2>0, AfterDisconnectStep DEF IInv, RpcHasSession
    <2>3. calm' => Cleared'
      BY <1>0, <2>0, AfterDisconnectStep DEF IInv, Settled, Cleared, Running
    <2>4. calm' => Alone'
      BY <1>0, <2>0, AfterDisconnectStep
    <2>5. FieldsAgree'
      BY <1>0, <2>0, AfterDisconnectStep
         DEF IInv, ViewTypeOK, Settled, Cleared, Alone, FieldsAgree, Running
    <2>6. NothingOrphaned'
      BY DEF IInv, NothingOrphaned
    <2> QED
      BY <2>1, <2>2, <2>3, <2>4, <2>5, <2>6 DEF IInv, Settled
  <1> QED
    BY <1>1, <1>2

\* closeSession returned.
LEMMA CloseReplyStep ==
  ASSUME IInv, NEW c \in Calls, CloseReply(c)
  PROVE  IInv'
  <1> USE NoSessionAssumption DEF CloseReply
  <1>0. Running(c) /\ UNCHANGED <<mounted, calm>> /\ AfterDisconnect(c)
    BY DEF Running
  <1>1. ViewTypeOK'
    BY <1>0, AfterDisconnectStep DEF IInv, ViewTypeOK, RpcHasSession
  <1>2. RpcHasSession'
    BY <1>0, AfterDisconnectStep DEF IInv, RpcHasSession
  <1>3. calm' => Cleared'
    BY <1>0, AfterDisconnectStep DEF IInv, Settled, Cleared, Running
  <1>4. calm' => Alone'
    BY <1>0, AfterDisconnectStep
  <1>5. FieldsAgree'
    BY <1>0, AfterDisconnectStep
       DEF IInv, ViewTypeOK, Settled, Cleared, Alone, FieldsAgree, Running
  <1>6. NothingOrphaned'
    BY DEF IInv, ViewTypeOK, Settled, Cleared, NothingOrphaned, RpcHasSession
  <1> QED
    BY <1>1, <1>2, <1>3, <1>4, <1>5, <1>6 DEF IInv, Settled

\* createSession returned: nothing was there, no other call is under way.
LEMMA CreateStep ==
  ASSUME IInv, NEW c \in Calls, Create(c)
  PROVE  IInv'
  <1> USE NoSessionAssumption DEF Create, Finish, SetState
  <1>0. /\ calls[c].pc = "create"
        /\ calm => \A d \in Calls \ {c} : ~Running(d)
        /\ calls' = [calls EXCEPT ![c] = NoCall]
        /\ UNCHANGED <<mounted, calm>>
    BY DEF IInv, Settled, Alone, Running, CreateFails, AttachFails, CreateReply
  <1>1. ViewTypeOK'
    <2>1. NoCall \in Call
      BY DEF NoCall, Call, CallPC
    <2>2. calls' \in [Calls -> Call]
      BY <1>0, <2>1 DEF IInv, ViewTypeOK
    <2>3. CASE CreateFails(c)
      BY <2>2, <2>3 DEF CreateFails, IInv, ViewTypeOK
    <2>4. CASE AttachFails(c)
      BY <2>2, <2>4 DEF AttachFails, IInv, ViewTypeOK
    <2>5. CASE CreateReply(c)
      BY <2>2, <2>5 DEF CreateReply, IInv, ViewTypeOK
    <2> QED
      BY <2>3, <2>4, <2>5
  <1>2. RpcHasSession'
    BY <1>0 DEF IInv, RpcHasSession, ViewTypeOK, NoCall
  <1>3. calm' => \A d \in Calls : ~Running(d)'
    BY <1>0 DEF IInv, ViewTypeOK, Running, NoCall
  <1>4. calm' => Cleared' /\ Alone'
    BY <1>3 DEF Cleared, Alone, Running
  <1>5. calm => /\ session = NoSession /\ stream = NoSession /\ sub = NoSession
                /\ \A s \in Sessions : events[s] # "listening" /\ input[s] # "open"
    BY <1>0 DEF IInv, Settled, Cleared, Running
  <1>6. FieldsAgree' /\ NothingOrphaned'
    <2>1. CASE CreateFails(c)
      BY <1>5, <2>1 DEF CreateFails, IInv, ViewTypeOK, FieldsAgree, NothingOrphaned
    <2>2. CASE AttachFails(c)
      BY <1>5, <2>2 DEF AttachFails, IInv, ViewTypeOK, FieldsAgree, NothingOrphaned
    <2>3. CASE CreateReply(c)
      BY <1>5, <2>3 DEF CreateReply, IInv, ViewTypeOK, FieldsAgree, NothingOrphaned
    <2> QED
      BY <2>1, <2>2, <2>3
  <1> QED
    BY <1>1, <1>2, <1>4, <1>6 DEF IInv, Settled

\* The events of the stream change what is shown, never to `connected`.
LEMMA StreamStep ==
  ASSUME IInv, NEW s \in Sessions, StreamError(s) \/ StreamDone(s)
  PROVE  IInv'
  <1> USE NoSessionAssumption DEF StreamError, StreamDone, SetState
  <1>0. UNCHANGED <<mounted, session, stream, sub, calls, server, input, lost, calm>>
    OBVIOUS
  <1>1. ViewTypeOK'
    BY DEF IInv, ViewTypeOK
  <1>2. RpcHasSession'
    BY <1>0 DEF IInv, RpcHasSession
  <1>3. calm' => Cleared'
    BY DEF IInv, ViewTypeOK, Settled, Cleared, Running
  <1>4. calm' => Alone'
    <2>1. mounted /\ state' = "connected" => state = "connected"
      BY DEF IInv, ViewTypeOK
    <2> QED
      BY <1>0, <2>1 DEF IInv, Settled, Alone, Running
  <1>5. FieldsAgree'
    BY DEF IInv, ViewTypeOK, FieldsAgree
  <1>6. NothingOrphaned'
    BY <1>0 DEF IInv, NothingOrphaned
  <1> QED
    BY <1>1, <1>2, <1>3, <1>4, <1>5, <1>6 DEF IInv, Settled

\* The invariant holds in every state of every behaviour of a view.
THEOREM Inductive == ViewSpec => []IInv
  <1>1. ASSUME IInv, [ViewNext]_paneVars PROVE IInv'
    <2>1. ASSUME NEW c \in Calls, Connect(c) PROVE IInv'
      BY <1>1, <2>1, ConnectStep
    <2>2. ASSUME NEW c \in Calls, Dispose(c) PROVE IInv'
      BY <1>1, <2>2, DisposeStep
    <2>3. ASSUME NEW c \in Calls, Resume(c) PROVE IInv'
      BY <1>1, <2>3, AfterCancelStep, AfterCloseStep, CloseReplyStep DEF Resume
    <2>4. ASSUME NEW c \in Calls, Create(c) PROVE IInv'
      BY <1>1, <2>4, CreateStep
    <2>5. ASSUME NEW s \in Sessions, StreamError(s) \/ StreamDone(s) PROVE IInv'
      BY <1>1, <2>5, StreamStep
    <2>6. CASE UNCHANGED paneVars
      BY <1>1, <2>6 DEF paneVars, IInv, ViewTypeOK, RpcHasSession, Settled, Cleared, Alone,
                        FieldsAgree, NothingOrphaned, Running
    <2> QED
      BY <1>1, <2>1, <2>2, <2>3, <2>4, <2>5, <2>6 DEF ViewNext
  <1> QED
    BY InitIInv, <1>1, PTL DEF ViewSpec

\* The fields, the calls and the sessions of a view keep their types.
THEOREM ViewTypeCorrect == ViewSpec => []ViewTypeOK
  <1>1. IInv => ViewTypeOK
    BY DEF IInv
  <1> QED
    BY <1>1, Inductive, PTL

\* However many calls overlap: as long as no _connect runs into another and no
\* dispose into a creation, no session the view could close is left behind.
THEOREM NothingOrphanedHolds == ViewSpec => []NothingOrphaned
  <1>1. IInv => NothingOrphaned
    BY DEF IInv
  <1> QED
    BY <1>1, Inductive, PTL

\* Under the same condition the three fields and what is open agree.
THEOREM FieldsAgreeHolds == ViewSpec => []FieldsAgree
  <1>1. IInv => FieldsAgree
    BY DEF IInv
  <1> QED
    BY <1>1, Inductive, PTL

\* Under the same condition a session is closed after its stream.
THEOREM ClosedInOrderHolds == ViewSpec => ClosedInOrder
  <1> DEFINE A == \A s \in Sessions :
                    calm /\ server[s] = "open" /\ server'[s] = "closed"
                    => events[s] # "listening" /\ input[s] # "open"
  <1>1. ASSUME IInv, [ViewNext]_paneVars PROVE A
    <2> SUFFICES ASSUME NEW s \in Sessions, calm, server[s] = "open", server'[s] = "closed"
                 PROVE  events[s] # "listening" /\ input[s] # "open"
      OBVIOUS
    <2>1. PICK c \in Calls : CloseReply(c)
      BY <1>1 DEF ViewNext, paneVars, IInv, ViewTypeOK, Connect, Dispose, Resume, AfterCancel, AfterClose,
                  Create, CreateFails, AttachFails, CreateReply, StreamError, StreamDone
    <2> QED
      BY <1>1, <2>1 DEF CloseReply, IInv, Settled, Cleared, Running
  <1>2. IInv /\ [ViewNext]_paneVars => [A]_paneVars
    BY <1>1
  <1> QED
    BY Inductive, <1>2, PTL DEF ViewSpec, ClosedInOrder

-----------------------------------------------------------------------------
(***************************************************************************)
(* The panes of the workspaces.                                            *)
(***************************************************************************)

VARIABLE panes

P == INSTANCE PaneLists

\* A terminal in a list was opened, once, and is in one place.
PlacedOnce ==
  /\ opened \subseteq Terminals
  /\ panes \in Seq(Seq(opened))
  /\ current \in Nat /\ current < Len(panes)
  /\ P!OncePlaced

LEMMA WithType ==
  ASSUME NEW S, NEW s \in Seq(S), NEW i \in 1 .. Len(s) + 1, NEW e \in S
  PROVE  /\ P!With(s, i, e) \in Seq(S)
         /\ Len(P!With(s, i, e)) = Len(s) + 1
         /\ DOMAIN P!With(s, i, e) = 1 .. Len(s) + 1
         /\ \A j \in 1 .. Len(s) + 1 :
              P!With(s, i, e)[j] = IF j < i THEN s[j] ELSE IF j = i THEN e ELSE s[j - 1]
  <1>1. Len(s) + 1 \in Nat
    OBVIOUS
  <1>2. P!With(s, i, e) \in [1 .. Len(s) + 1 -> S]
    BY DEF P!With
  <1>3. P!With(s, i, e) \in Seq(S) /\ Len(P!With(s, i, e)) = Len(s) + 1
    BY <1>1, <1>2
  <1> QED
    BY <1>2, <1>3 DEF P!With

LEMMA WithoutType ==
  ASSUME NEW S, NEW s \in Seq(S), NEW i \in 1 .. Len(s)
  PROVE  /\ P!Without(s, i) \in Seq(S)
         /\ Len(P!Without(s, i)) = Len(s) - 1
         /\ DOMAIN P!Without(s, i) = 1 .. Len(s) - 1
         /\ \A j \in 1 .. Len(s) - 1 : P!Without(s, i)[j] = IF j < i THEN s[j] ELSE s[j + 1]
  <1>1. Len(s) - 1 \in Nat
    OBVIOUS
  <1>2. P!Without(s, i) \in [1 .. Len(s) - 1 -> S]
    BY DEF P!Without
  <1>3. P!Without(s, i) \in Seq(S) /\ Len(P!Without(s, i)) = Len(s) - 1
    BY <1>1, <1>2
  <1> QED
    BY <1>2, <1>3 DEF P!Without

\* The lists before a step: where there is a current one, what is in them.
LEMMA PlacedTyping ==
  ASSUME PlacedOnce
  PROVE  /\ current + 1 \in 1 .. Len(panes)
         /\ DOMAIN panes = 1 .. Len(panes) /\ Len(panes) \in Nat
         /\ \A a \in 1 .. Len(panes) :
              /\ panes[a] \in Seq(opened)
              /\ Len(panes[a]) \in Nat /\ DOMAIN panes[a] = 1 .. Len(panes[a])
              /\ \A i \in 1 .. Len(panes[a]) : panes[a][i] \in opened
         /\ P!Here = panes[current + 1] /\ P!Positions = 1 .. Len(P!Here)
         /\ P!Here \in Seq(opened)
  <1>1. /\ current + 1 \in 1 .. Len(panes)
        /\ DOMAIN panes = 1 .. Len(panes) /\ Len(panes) \in Nat
    BY DEF PlacedOnce
  <1>2. \A a \in 1 .. Len(panes) : panes[a] \in Seq(opened)
    BY DEF PlacedOnce
  <1>3. \A a \in 1 .. Len(panes) :
          /\ Len(panes[a]) \in Nat /\ DOMAIN panes[a] = 1 .. Len(panes[a])
          /\ \A i \in 1 .. Len(panes[a]) : panes[a][i] \in opened
    BY <1>2
  <1> QED
    BY <1>1, <1>2, <1>3 DEF P!Here, P!Positions

\* Only the current list changes, to a list without repetitions whose elements
\* were in it before or are new.
LEMMA ReplaceHere ==
  ASSUME PlacedOnce, NEW S, opened \subseteq S, NEW s \in Seq(S),
         panes' = [panes EXCEPT ![current + 1] = s],
         \A i, j \in 1 .. Len(s) : s[i] = s[j] => i = j,
         \A j \in 1 .. Len(s) :
           s[j] \notin opened \/ \E k \in 1 .. Len(P!Here) : s[j] = P!Here[k]
  PROVE  panes' \in Seq(Seq(S)) /\ Len(panes') = Len(panes) /\ P!OncePlaced'
  <1> DEFINE c == current + 1
  <1>1. \A a \in 1 .. Len(panes) : panes[a] \in Seq(S)
    BY PlacedTyping
  <1>2. c \in 1 .. Len(panes) /\ panes \in Seq(Seq(S)) /\ DOMAIN panes = 1 .. Len(panes)
    BY PlacedTyping, <1>1 DEF PlacedOnce
  <1>3. panes' \in Seq(Seq(S)) /\ Len(panes') = Len(panes)
    BY <1>2
  <1>4. panes'[c] = s /\ \A a \in 1 .. Len(panes) : a # c => panes'[a] = panes[a]
    BY <1>2
  <1>0. ASSUME NEW j \in 1 .. Len(s), NEW a \in 1 .. Len(panes), a # c,
               NEW i \in 1 .. Len(panes[a])
        PROVE  panes[a][i] # s[j]
    <2>1. CASE s[j] \notin opened
      BY <1>0, <2>1, PlacedTyping
    <2>2. CASE \E k \in 1 .. Len(P!Here) : s[j] = P!Here[k]
      <3> PICK k \in 1 .. Len(P!Here) : s[j] = P!Here[k]
        BY <2>2
      <3>1. /\ c \in DOMAIN panes /\ a \in DOMAIN panes /\ P!Here = panes[c]
            /\ k \in DOMAIN panes[c] /\ i \in DOMAIN panes[a]
        BY <1>0, PlacedTyping
      <3> QED
        BY <1>0, <3>1 DEF PlacedOnce, P!OncePlaced
    <2> QED
      BY <2>1, <2>2
  <1>5. P!OncePlaced'
    <2> SUFFICES ASSUME NEW a \in DOMAIN panes', NEW b \in DOMAIN panes',
                        NEW i \in DOMAIN panes'[a], NEW j \in DOMAIN panes'[b],
                        panes'[a][i] = panes'[b][j]
                 PROVE  a = b /\ i = j
      BY DEF P!OncePlaced
    <2>1. a \in 1 .. Len(panes) /\ b \in 1 .. Len(panes)
      BY <1>3
    <2>2. DOMAIN s = 1 .. Len(s)
      OBVIOUS
    <2>3. CASE a # c /\ b # c
      BY <2>1, <2>3, <1>2, <1>4 DEF PlacedOnce, P!OncePlaced
    <2>4. CASE a = c /\ b = c
      BY <2>2, <2>4, <1>4
    <2>5. CASE a = c /\ b # c
      BY <2>1, <2>2, <2>5, <1>0, <1>4, PlacedTyping
    <2>6. CASE a # c /\ b = c
      BY <2>1, <2>2, <2>6, <1>0, <1>4, PlacedTyping
    <2> QED
      BY <2>3, <2>4, <2>5, <2>6
  <1> QED
    BY <1>3, <1>5

\* A new terminal equals none that was opened before.
LEMMA OpenStep ==
  ASSUME PlacedOnce, P!Open
  PROVE  PlacedOnce'
  <1> PICK t \in Terminals \ opened, i \in 1 .. Len(P!Here) + 1 :
        /\ panes' = [panes EXCEPT ![current + 1] = P!With(P!Here, i, t)]
        /\ opened' = opened \cup {t}
    BY DEF P!Open
  <1> DEFINE s == P!With(P!Here, i, t)
  <1>1. P!Here \in Seq(opened')
    BY PlacedTyping
  <1>2. /\ s \in Seq(opened') /\ Len(s) = Len(P!Here) + 1
        /\ \A j \in 1 .. Len(s) :
             s[j] = IF j < i THEN P!Here[j] ELSE IF j = i THEN t ELSE P!Here[j - 1]
    <2>1. t \in opened' /\ i \in 1 .. Len(P!Here) + 1
      OBVIOUS
    <2>2. /\ s \in Seq(opened') /\ Len(s) = Len(P!Here) + 1
          /\ \A j \in 1 .. Len(P!Here) + 1 :
               s[j] = IF j < i THEN P!Here[j] ELSE IF j = i THEN t ELSE P!Here[j - 1]
      BY <1>1, <2>1, WithType
    <2> QED
      BY <2>2
  <1>3. /\ Len(P!Here) \in Nat /\ \A j \in 1 .. Len(P!Here) : P!Here[j] \in opened
        /\ \A j, k \in 1 .. Len(P!Here) : P!Here[j] = P!Here[k] => j = k
    BY PlacedTyping DEF PlacedOnce, P!OncePlaced
  <1>4. ASSUME NEW j \in 1 .. Len(s), NEW k \in 1 .. Len(s), s[j] = s[k]
        PROVE  j = k
    <2> HIDE DEF s
    <2> DEFINE from(x) == IF x < i THEN x ELSE x - 1
    <2>1. \A x \in 1 .. Len(s) :
            x # i => from(x) \in 1 .. Len(P!Here) /\ s[x] = P!Here[from(x)]
      BY <1>2, <1>3
    <2>2. \A x, y \in 1 .. Len(s) : x # i /\ y # i /\ from(x) = from(y) => x = y
      BY <1>2, <1>3
    <2> HIDE DEF from
    <2>3. \A x \in 1 .. Len(s) : x # i => s[x] # t
      BY <1>3, <2>1
    <2>4. i \in 1 .. Len(s) /\ s[i] = t
      BY <1>2, <1>3
    <2> QED
      BY <1>3, <1>4, <2>1, <2>2, <2>3, <2>4
  <1>5. \A j \in 1 .. Len(s) : s[j] = t \/ \E k \in 1 .. Len(P!Here) : s[j] = P!Here[k]
    <2> SUFFICES ASSUME NEW j \in 1 .. Len(s)
                 PROVE  s[j] = t \/ \E k \in 1 .. Len(P!Here) : s[j] = P!Here[k]
      OBVIOUS
    <2> HIDE DEF s
    <2>1. CASE j < i
      BY <2>1, <1>2, <1>3
    <2>2. CASE j = i
      BY <2>2, <1>2
    <2>3. CASE j > i
      <3>1. j - 1 \in 1 .. Len(P!Here) /\ s[j] = P!Here[j - 1]
        BY <2>3, <1>2, <1>3
      <3> QED
        BY <3>1
    <2> QED
      BY <2>1, <2>2, <2>3, <1>2, <1>3
  <1>6. \A j \in 1 .. Len(s) :
          s[j] \notin opened \/ \E k \in 1 .. Len(P!Here) : s[j] = P!Here[k]
    BY <1>5
  <1>7. panes' \in Seq(Seq(opened')) /\ Len(panes') = Len(panes) /\ P!OncePlaced'
    <2> HIDE DEF s
    <2>1. opened \subseteq opened' /\ panes' = [panes EXCEPT ![current + 1] = s]
      BY DEF s
    <2> QED
      BY <1>2, <1>4, <1>6, <2>1, ReplaceHere
  <1> QED
    BY <1>7 DEF PlacedOnce, P!Open

\* The others keep their places or move up.
LEMMA CloseStep ==
  ASSUME PlacedOnce, P!Close
  PROVE  PlacedOnce'
  <1> PICK i \in P!Positions : panes' = [panes EXCEPT ![current + 1] = P!Without(P!Here, i)]
    BY DEF P!Close
  <1> DEFINE s == P!Without(P!Here, i)
  <1>1. P!Here \in Seq(opened) /\ i \in 1 .. Len(P!Here) /\ Len(P!Here) \in Nat
    BY PlacedTyping
  <1>2. /\ s \in Seq(opened) /\ Len(s) = Len(P!Here) - 1
        /\ \A j \in 1 .. Len(s) : s[j] = IF j < i THEN P!Here[j] ELSE P!Here[j + 1]
    BY <1>1, WithoutType
  <1>3. \A j, k \in 1 .. Len(P!Here) : P!Here[j] = P!Here[k] => j = k
    BY PlacedTyping DEF PlacedOnce, P!OncePlaced
  <1> HIDE DEF s
  <1>4. \A j, k \in 1 .. Len(s) : s[j] = s[k] => j = k
    <2> DEFINE from(j) == IF j < i THEN j ELSE j + 1
    <2>1. \A j \in 1 .. Len(s) : from(j) \in 1 .. Len(P!Here) /\ s[j] = P!Here[from(j)]
      BY <1>1, <1>2
    <2>2. \A j, k \in 1 .. Len(s) : from(j) = from(k) => j = k
      BY <1>1, <1>2
    <2> HIDE DEF from
    <2> QED
      BY <1>3, <2>1, <2>2
  <1>5. ASSUME NEW j \in 1 .. Len(s)
        PROVE  \E k \in 1 .. Len(P!Here) : s[j] = P!Here[k]
    <2>1. /\ j \in 1 .. Len(P!Here) /\ j + 1 \in 1 .. Len(P!Here)
          /\ s[j] = P!Here[j] \/ s[j] = P!Here[j + 1]
      BY <1>1, <1>2
    <2> QED
      BY <2>1
  <1>7. panes' \in Seq(Seq(opened)) /\ Len(panes') = Len(panes) /\ P!OncePlaced'
    <2>1. opened \subseteq opened /\ panes' = [panes EXCEPT ![current + 1] = s]
      BY DEF s
    <2> QED
      BY <1>2, <1>4, <1>5, <2>1, ReplaceHere
  <1> QED
    BY <1>7 DEF PlacedOnce, P!Close

\* Taken out and put in again, the list has the same elements as before.
LEMMA MoveStep ==
  ASSUME PlacedOnce, P!Move
  PROVE  PlacedOnce'
  <1> PICK i \in P!Positions, k \in P!Positions :
        panes' = [panes EXCEPT ![current + 1] = P!With(P!Without(P!Here, i), k, P!Here[i])]
    BY DEF P!Move
  <1> DEFINE r == P!Without(P!Here, i)
             s == P!With(r, k, P!Here[i])
  <1>1. /\ P!Here \in Seq(opened) /\ i \in 1 .. Len(P!Here) /\ k \in 1 .. Len(P!Here)
        /\ Len(P!Here) \in Nat /\ P!Here[i] \in opened
    BY PlacedTyping
  <1>2. /\ r \in Seq(opened) /\ Len(r) = Len(P!Here) - 1
        /\ \A j \in 1 .. Len(r) : r[j] = IF j < i THEN P!Here[j] ELSE P!Here[j + 1]
    BY <1>1, WithoutType
  <1>3. /\ s \in Seq(opened) /\ Len(s) = Len(P!Here)
        /\ \A j \in 1 .. Len(s) :
             s[j] = IF j < k THEN r[j] ELSE IF j = k THEN P!Here[i] ELSE r[j - 1]
    <2> HIDE DEF r
    <2>1. k \in 1 .. Len(r) + 1 /\ Len(r) + 1 = Len(P!Here)
      BY <1>1, <1>2
    <2>2. /\ s \in Seq(opened) /\ Len(s) = Len(r) + 1
          /\ \A j \in 1 .. Len(r) + 1 :
               s[j] = IF j < k THEN r[j] ELSE IF j = k THEN P!Here[i] ELSE r[j - 1]
      <3> DEFINE e == P!Here[i]
      <3>1. r \in Seq(opened) /\ k \in 1 .. Len(r) + 1 /\ e \in opened
        BY <1>1, <1>2, <2>1
      <3> HIDE DEF e
      <3>2. /\ P!With(r, k, e) \in Seq(opened) /\ Len(P!With(r, k, e)) = Len(r) + 1
            /\ \A j \in 1 .. Len(r) + 1 :
                 P!With(r, k, e)[j] = IF j < k THEN r[j] ELSE IF j = k THEN e ELSE r[j - 1]
        BY <3>1, WithType
      <3> QED
        BY <3>2 DEF e
    <2> QED
      BY <2>1, <2>2
  <1>4. \A j, l \in 1 .. Len(P!Here) : P!Here[j] = P!Here[l] => j = l
    BY PlacedTyping DEF PlacedOnce, P!OncePlaced
  <1> HIDE DEF r, s
  <1> DEFINE before(j) == IF j < i THEN j ELSE j + 1
             from(j) == IF j < k THEN before(j) ELSE IF j = k THEN i ELSE before(j - 1)
  <1>5. \A j \in 1 .. Len(s) : from(j) \in 1 .. Len(P!Here) /\ s[j] = P!Here[from(j)]
    <2>1. \A j \in 1 .. Len(r) : r[j] = P!Here[before(j)]
      BY <1>2
    <2>2. ASSUME NEW j \in 1 .. Len(s) PROVE s[j] = P!Here[from(j)]
      <3>1. CASE j < k
        <4>1. j \in 1 .. Len(r) /\ s[j] = r[j]
          BY <1>1, <1>2, <1>3, <3>1
        <4>2. r[j] = P!Here[before(j)]
          BY <2>1, <4>1
        <4> QED
          BY <3>1, <4>1, <4>2
      <3>2. CASE j = k
        BY <1>3, <3>2
      <3>3. CASE j > k
        <4>1. j - 1 \in 1 .. Len(r) /\ s[j] = r[j - 1]
          BY <1>1, <1>2, <1>3, <3>3
        <4> QED
          BY <1>1, <2>1, <3>3, <4>1
      <3> QED
        BY <1>1, <3>1, <3>2, <3>3
    <2> QED
      BY <1>1, <1>3, <2>2
  <1>6. \A j, l \in 1 .. Len(s) : from(j) = from(l) => j = l
    BY <1>1, <1>3
  <1> HIDE DEF from
  <1>7. /\ \A j, l \in 1 .. Len(s) : s[j] = s[l] => j = l
        /\ \A j \in 1 .. Len(s) : \E l \in 1 .. Len(P!Here) : s[j] = P!Here[l]
    BY <1>4, <1>5, <1>6
  <1>8. panes' \in Seq(Seq(opened)) /\ Len(panes') = Len(panes) /\ P!OncePlaced'
    <2>1. opened \subseteq opened /\ panes' = [panes EXCEPT ![current + 1] = s]
      BY DEF r, s
    <2> QED
      BY <1>3, <1>7, <2>1, ReplaceHere
  <1> QED
    BY <1>8 DEF PlacedOnce, P!Move

\* The lists behind the removed one move up; none changes.
LEMMA RemoveWorkspaceStep ==
  ASSUME PlacedOnce, P!RemoveWorkspace
  PROVE  PlacedOnce'
  <1> PICK i \in 1 .. Len(panes) :
        panes' = IF Len(panes) = 1 THEN << <<>> >> ELSE P!Without(panes, i)
    BY DEF P!RemoveWorkspace
  <1>1. CASE Len(panes) = 1
    <2>1. panes' = << <<>> >>
      BY <1>1
    <2>2. /\ panes' \in Seq(Seq(opened)) /\ Len(panes') = 1 /\ DOMAIN panes' = {1}
          /\ DOMAIN panes'[1] = {}
      <3> DEFINE empty == <<>>
      <3>1. empty \in Seq(opened) /\ DOMAIN empty = {}
        OBVIOUS
      <3> HIDE DEF empty
      <3>2. /\ <<empty>> \in Seq(Seq(opened)) /\ Len(<<empty>>) = 1
            /\ DOMAIN <<empty>> = {1} /\ <<empty>>[1] = empty
        BY <3>1
      <3>3. panes' = <<empty>>
        BY <2>1 DEF empty
      <3> QED
        BY <3>1, <3>2, <3>3
    <2>3. P!OncePlaced'
      BY <2>2 DEF P!OncePlaced
    <2>4. current' = 0 /\ opened' = opened
      BY <1>1, <2>2, PlacedTyping DEF PlacedOnce, P!RemoveWorkspace
    <2>5. panes' \in Seq(Seq(opened')) /\ opened' \subseteq Terminals
      BY <2>2, <2>4 DEF PlacedOnce
    <2>6. current' \in Nat /\ current' < Len(panes')
      BY <2>2, <2>4
    <2> QED
      BY <2>3, <2>5, <2>6 DEF PlacedOnce
  <1>2. CASE Len(panes) # 1
    <2>1. panes' = P!Without(panes, i) /\ panes \in Seq(Seq(opened)) /\ Len(panes) \in Nat
      BY <1>2, PlacedTyping DEF PlacedOnce
    <2>2. /\ panes' \in Seq(Seq(opened)) /\ Len(panes') = Len(panes) - 1
          /\ DOMAIN panes' = 1 .. Len(panes) - 1
          /\ \A j \in 1 .. Len(panes) - 1 :
               panes'[j] = IF j < i THEN panes[j] ELSE panes[j + 1]
      <3> DEFINE S == Seq(opened)
      <3>1. panes \in Seq(S)
        BY <2>1
      <3> HIDE DEF S
      <3>2. /\ P!Without(panes, i) \in Seq(S)
            /\ Len(P!Without(panes, i)) = Len(panes) - 1
            /\ DOMAIN P!Without(panes, i) = 1 .. Len(panes) - 1
            /\ \A j \in 1 .. Len(panes) - 1 :
                 P!Without(panes, i)[j] = IF j < i THEN panes[j] ELSE panes[j + 1]
        BY <3>1, WithoutType
      <3> QED
        BY <2>1, <3>2, Zenon DEF S
    <2>3. P!OncePlaced'
      <3> SUFFICES ASSUME NEW a \in DOMAIN panes', NEW b \in DOMAIN panes',
                          NEW j \in DOMAIN panes'[a], NEW k \in DOMAIN panes'[b],
                          panes'[a][j] = panes'[b][k]
                   PROVE  a = b /\ j = k
        BY DEF P!OncePlaced
      <3> DEFINE f(x) == IF x < i THEN x ELSE x + 1
      <3>1. /\ f(a) \in DOMAIN panes /\ f(b) \in DOMAIN panes
            /\ panes'[a] = panes[f(a)] /\ panes'[b] = panes[f(b)]
            /\ f(a) = f(b) => a = b
        <4>1. a \in 1 .. Len(panes) - 1 /\ b \in 1 .. Len(panes) - 1
          BY <2>2
        <4>2. f(a) \in 1 .. Len(panes) /\ f(b) \in 1 .. Len(panes)
          BY <2>1, <4>1
        <4>3. panes'[a] = panes[f(a)] /\ panes'[b] = panes[f(b)]
          BY <2>2, <4>1
        <4>4. f(a) = f(b) => a = b
          BY <4>1
        <4> QED
          BY <4>2, <4>3, <4>4, PlacedTyping
      <3> HIDE DEF f
      <3> QED
        BY <3>1 DEF PlacedOnce, P!OncePlaced
    <2>4. current' \in Nat /\ current' < Len(panes')
      <3>1. /\ Len(panes') \in Nat \ {0} /\ current \in Nat
            /\ current' = IF current >= Len(panes') THEN Len(panes') - 1 ELSE current
        BY <1>2, <2>1, <2>2 DEF PlacedOnce, P!RemoveWorkspace
      <3> DEFINE n == Len(panes')
                 j == current
                 k == current'
      <3>2. n \in Nat \ {0} /\ j \in Nat /\ k = IF j >= n THEN n - 1 ELSE j
        BY <3>1
      <3> HIDE DEF n, j, k
      <3>3. k \in Nat /\ k < n
        BY <3>2
      <3> QED
        BY <3>3 DEF n, k
    <2> QED
      BY <2>2, <2>3, <2>4 DEF PlacedOnce, P!RemoveWorkspace
  <1> QED
    BY <1>1, <1>2

\* An empty list is added.
LEMMA AddWorkspaceStep ==
  ASSUME PlacedOnce, P!AddWorkspace
  PROVE  PlacedOnce'
  <1>1. /\ panes' = Append(panes, <<>>) /\ current' = Len(panes) /\ opened' = opened
        /\ panes \in Seq(Seq(opened)) /\ Len(panes) \in Nat
    BY PlacedTyping DEF P!AddWorkspace, PlacedOnce
  <1>2. <<>> \in Seq(opened)
    OBVIOUS
  <1>3. /\ panes' \in Seq(Seq(opened)) /\ Len(panes') = Len(panes) + 1
        /\ panes'[Len(panes) + 1] = <<>>
        /\ \A a \in 1 .. Len(panes) : panes'[a] = panes[a]
    BY <1>1, <1>2
  <1>4. P!OncePlaced'
    <2> SUFFICES ASSUME NEW a \in DOMAIN panes', NEW b \in DOMAIN panes',
                        NEW i \in DOMAIN panes'[a], NEW j \in DOMAIN panes'[b],
                        panes'[a][i] = panes'[b][j]
                 PROVE  a = b /\ i = j
      BY DEF P!OncePlaced
    <2>1. a \in 1 .. Len(panes) /\ b \in 1 .. Len(panes)
      BY <1>1, <1>3
    <2>2. /\ a \in DOMAIN panes /\ b \in DOMAIN panes
          /\ panes'[a] = panes[a] /\ panes'[b] = panes[b]
      BY <1>3, <2>1, PlacedTyping
    <2> QED
      BY <2>2 DEF PlacedOnce, P!OncePlaced
  <1> QED
    BY <1>1, <1>3, <1>4 DEF PlacedOnce

\* The invariant holds in every state of every behaviour.
THEOREM PlacedInductive == P!Spec => []PlacedOnce
  <1>1. P!Init => PlacedOnce
    BY DEF P!Init, PlacedOnce, P!OncePlaced
  <1>2. ASSUME PlacedOnce, [P!Next]_(P!vars) PROVE PlacedOnce'
    <2>1. CASE P!SetCurrent
      BY <1>2, <2>1, PlacedTyping DEF P!SetCurrent, PlacedOnce, P!OncePlaced
    <2>2. CASE UNCHANGED P!vars
      BY <1>2, <2>2 DEF P!vars, PlacedOnce, P!OncePlaced
    <2> QED
      BY <1>2, <2>1, <2>2, OpenStep, CloseStep, MoveStep, RemoveWorkspaceStep, AddWorkspaceStep
         DEF P!Next
  <1> QED
    BY <1>1, <1>2, PTL DEF P!Spec

\* However terminals are opened, moved and closed and workspaces come and go, a
\* terminal is in one place of one workspace.
THEOREM OncePlacedHolds == P!Spec => []P!OncePlaced
  <1>1. PlacedOnce => P!OncePlaced
    BY DEF PlacedOnce
  <1> QED
    BY <1>1, PlacedInductive, PTL

-----------------------------------------------------------------------------
(***************************************************************************)
(* The trees of the workspaces, for any number of terminals and any depth, *)
(* and the views that show them.                                           *)
(***************************************************************************)

\* Induction over the natural numbers, for sets of them.
LEMMA Induction ==
  ASSUME NEW S, S \subseteq Nat, 0 \in S, \A n \in S : n + 1 \in S
  PROVE  S = Nat
  <1> SUFFICES ASSUME Nat \ S # {} PROVE FALSE
    OBVIOUS
  <1>1. PICK R : IsWellFoundedOn(R, Nat) /\ \A m, n \in Nat : m < n => <<m, n>> \in R
    <2>1. \A m, n \in Nat : m < n => <<m, n>> \in OpToRel(<, Nat)
      BY DEF OpToRel
    <2>2. QED
      BY <2>1, NatLessThanWellFounded, Zenon
  <1>2. IsWellFoundedOn(R, Nat \ S)
    <2>1. Nat \ S \subseteq Nat
      OBVIOUS
    <2>2. QED
      BY <2>1, <1>1, IsWellFoundedOnSubset
  <1>3. PICK x \in Nat \ S : \A y \in Nat \ S : <<y, x>> \notin R
    BY <1>2, WFMin
  <1>4. x # 0 /\ x - 1 \in Nat /\ x - 1 < x /\ (x - 1) + 1 = x
    BY <1>3
  <1>5. x - 1 \in S
    BY <1>1, <1>3, <1>4
  <1>6. QED
    BY <1>3, <1>4, <1>5

\* One step of every recursion of SplitTree, from what the level below is.
NodesStep(d, below) ==
  IF d = 0 THEN Terminals
  ELSE Terminals \cup [horizontal : BOOLEAN, children : Seq(below)]

PartsStep(d, below) ==
  [node \in Nodes[d] |->
     IF node \in Terminals THEN {node}
     ELSE {node} \cup UNION {below[node.children[i]] : i \in DOMAIN node.children}]

InsertStep(target, new, horizontal, before, d, below) ==
  [node \in Nodes[d] |->
     IF node = target THEN Container(horizontal, Beside(<<node>>, node, new, before))
     ELSE IF node \in Terminals THEN node
     ELSE IF TakesIn(node, target, horizontal)
     THEN Container(horizontal, Beside(node.children, target, new, before))
     ELSE Container(node.horizontal,
            [i \in DOMAIN node.children |-> below[node.children[i]]])]

RemoveStep(target, d, below) ==
  [node \in Nodes[d] |->
     IF node \in Terminals THEN node
     ELSE Collapse(node.horizontal,
            NonNull([i \in DOMAIN node.children |->
                         IF node.children[i] = target THEN None
                         ELSE below[node.children[i]]]))]

NonNullStep(nodes, i, below) ==
  IF i = 0 THEN <<>> ELSE IF nodes[i] = None THEN below ELSE Append(below, nodes[i])

LeavesStep(d, below) ==
  [node \in Nodes[d] |->
     IF node \in Terminals THEN <<node>>
     ELSE FlattenSeq([i \in DOMAIN node.children |-> below[node.children[i]]])]

FlatStep(seqs, i, below) == IF i <= 1 THEN seqs[1] ELSE below \o seqs[i]

\* All of them, so that what follows need be proved but once.
Step(k, d, below) ==
  IF k.of = "nodes" THEN NodesStep(d, below)
  ELSE IF k.of = "parts" THEN PartsStep(d, below)
  ELSE IF k.of = "insert" THEN InsertStep(k.target, k.new, k.horizontal, k.before, d, below)
  ELSE IF k.of = "remove" THEN RemoveStep(k.target, d, below)
  ELSE IF k.of = "leaves" THEN LeavesStep(d, below)
  ELSE IF k.of = "flat" THEN FlatStep(k.seqs, d, below)
  ELSE NonNullStep(k.nodes, d, below)

\* The lowest level has nothing below it.
Grounded(k) == \A b, c : Step(k, 0, b) = Step(k, 0, c)

Upto(k, n, f) == f = [i \in 0 .. n |-> Step(k, i, f[i - 1])]

LEMMA UptoExists ==
  ASSUME NEW k, Grounded(k)
  PROVE  \A n \in Nat : \E f : Upto(k, n, f)
  <1> DEFINE Good == {n \in Nat : \E f : Upto(k, n, f)}
  <1>1. 0 \in Good
    <2> DEFINE f == [i \in 0 .. 0 |-> Step(k, 0, {})]
    <2>1. \A i \in 0 .. 0 : i = 0 /\ Step(k, 0, {}) = Step(k, i, f[i - 1])
      BY DEF Grounded
    <2>2. f = [i \in 0 .. 0 |-> Step(k, i, f[i - 1])]
      BY <2>1
    <2> QED
      BY <2>2 DEF Upto
  <1>2. ASSUME NEW n \in Good PROVE n + 1 \in Good
    <2>1. PICK f : Upto(k, n, f)
      OBVIOUS
    <2> DEFINE g == [i \in 0 .. n + 1 |-> IF i = n + 1 THEN Step(k, n + 1, f[n]) ELSE f[i]]
    <2>2. \A i \in 0 .. n : f[i] = Step(k, i, f[i - 1])
      BY <2>1 DEF Upto
    <2>3. \A i \in 0 .. n + 1 : g[i] = Step(k, i, g[i - 1])
      <3> SUFFICES ASSUME NEW i \in 0 .. n + 1 PROVE g[i] = Step(k, i, g[i - 1])
        OBVIOUS
      <3>1. CASE i = n + 1
        BY <3>1
      <3>2. CASE i = 0
        BY <2>2, <3>2 DEF Grounded
      <3>3. CASE i \in 1 .. n
        <4>1. g[i] = f[i] /\ g[i - 1] = f[i - 1] /\ i \in 0 .. n
          BY <3>3
        <4> QED
          BY <2>2, <4>1
      <3> QED
        BY <3>1, <3>2, <3>3
    <2>4. g = [i \in 0 .. n + 1 |-> Step(k, i, g[i - 1])]
      <3> DEFINE h == [i \in 0 .. n + 1 |-> Step(k, i, g[i - 1])]
      <3>1. \A i \in 0 .. n + 1 : g[i] = h[i]
        BY <2>3
      <3> QED
        BY <3>1
    <2> HIDE DEF g
    <2>5. Upto(k, n + 1, g)
      BY <2>4 DEF Upto
    <2> QED
      BY <2>5
  <1> HIDE DEF Good
  <1>3. Good \subseteq Nat
    BY DEF Good
  <1>4. Good = Nat
    BY <1>1, <1>2, <1>3, Induction
  <1> QED
    BY <1>4 DEF Good

LEMMA UptoUnique ==
  ASSUME NEW k, Grounded(k), NEW m \in Nat, NEW n \in Nat, NEW f, NEW g,
         Upto(k, m, f), Upto(k, n, g)
  PROVE  \A i \in Nat : i <= m /\ i <= n => f[i] = g[i]
  <1> DEFINE Good == {i \in Nat : i <= m /\ i <= n => f[i] = g[i]}
  <1>1. /\ \A i \in 0 .. m : f[i] = Step(k, i, f[i - 1])
        /\ \A i \in 0 .. n : g[i] = Step(k, i, g[i - 1])
    BY DEF Upto
  <1>2. 0 \in Good
    BY <1>1 DEF Grounded
  <1>3. ASSUME NEW i \in Good PROVE i + 1 \in Good
    <2> SUFFICES ASSUME i + 1 <= m, i + 1 <= n PROVE f[i + 1] = g[i + 1]
      OBVIOUS
    <2>1. f[i] = g[i] /\ i + 1 \in 0 .. m /\ i + 1 \in 0 .. n /\ (i + 1) - 1 = i
      OBVIOUS
    <2>2. f[i + 1] = Step(k, i + 1, f[(i + 1) - 1]) /\ g[i + 1] = Step(k, i + 1, g[(i + 1) - 1])
      BY <1>1, <2>1
    <2> QED
      BY <2>1, <2>2
  <1> HIDE DEF Good
  <1>4. Good \subseteq Nat
    BY DEF Good
  <1>5. Good = Nat
    BY <1>2, <1>3, <1>4, Induction
  <1> QED
    BY <1>5 DEF Good

\* What the recursion defines exists, and is what it says.
LEMMA Recursion ==
  ASSUME NEW k, Grounded(k)
  PROVE  \E f : f = [d \in Nat |-> Step(k, d, f[d - 1])]
  <1> DEFINE at(n) == CHOOSE f : Upto(k, n, f)
             F == [n \in Nat |-> at(n)[n]]
  <1>1. \A n \in Nat : Upto(k, n, at(n))
    BY UptoExists
  <1> HIDE DEF at
  <1>2. ASSUME NEW n \in Nat PROVE F[n] = Step(k, n, F[n - 1])
    <2>1. at(n)[n] = Step(k, n, at(n)[n - 1])
      <3>1. at(n) = [i \in 0 .. n |-> Step(k, i, at(n)[i - 1])]
        BY <1>1 DEF Upto
      <3>2. n \in 0 .. n
        OBVIOUS
      <3> QED
        BY <3>1, <3>2
    <2>2. CASE n = 0
      BY <2>1, <2>2 DEF Grounded
    <2>3. CASE n # 0
      <3>1. n - 1 \in Nat /\ n - 1 <= n
        BY <2>3
      <3>2. at(n)[n - 1] = at(n - 1)[n - 1]
        BY <1>1, <3>1, UptoUnique
      <3> QED
        BY <2>1, <3>1, <3>2
    <2> QED
      BY <2>2, <2>3
  <1> DEFINE G == [d \in Nat |-> Step(k, d, F[d - 1])]
  <1>3. \A d \in Nat : F[d] = G[d]
    BY <1>2
  <1>4. F = G
    <2>1. DOMAIN F = Nat /\ DOMAIN G = Nat /\ F = [d \in Nat |-> F[d]] /\ G = [d \in Nat |-> G[d]]
      OBVIOUS
    <2> HIDE DEF F, G
    <2> QED
      BY <1>3, <2>1
  <1> QED
    BY <1>4

LEMMA NodesSolved == Nodes = [d \in Nat |-> NodesStep(d, Nodes[d - 1])]
  <1> DEFINE k == [of |-> "nodes"]
  <1>1. \A d, b : Step(k, d, b) = NodesStep(d, b)
    BY DEF Step
  <1>2. Grounded(k)
    BY <1>1 DEF Grounded, NodesStep
  <1> HIDE DEF k
  <1>3. PICK f : f = [d \in Nat |-> Step(k, d, f[d - 1])]
    BY <1>2, Recursion
  <1>4. f = [d \in Nat |-> NodesStep(d, f[d - 1])]
    BY <1>1, <1>3
  <1> QED
    BY <1>4, Zenon DEF Nodes, NodesStep

\* The nodes of d levels.
LEMMA NodesFacts ==
  /\ Nodes[0] = Terminals
  /\ \A d \in Nat : Nodes[d + 1] = Terminals \cup [horizontal : BOOLEAN, children : Seq(Nodes[d])]
  <1>1. \A d \in Nat : Nodes[d] = NodesStep(d, Nodes[d - 1])
    BY NodesSolved
  <1>2. \A d \in Nat : d + 1 \in Nat /\ d + 1 # 0 /\ (d + 1) - 1 = d
    OBVIOUS
  <1> QED
    BY <1>1, <1>2 DEF NodesStep

\* More levels, more nodes.
LEMMA NodesGrow ==
  \A d, e \in Nat : d <= e => Nodes[d] \subseteq Nodes[e]
  <1> DEFINE N == Nodes
             Good == {d \in Nat : N[d] \subseteq N[d + 1]}
  <1>a. /\ N[0] = Terminals
        /\ \A d \in Nat : N[d + 1] = Terminals \cup [horizontal : BOOLEAN, children : Seq(N[d])]
    BY NodesFacts
  <1> HIDE DEF N
  <1>1. 0 \in Good
    BY <1>a
  <1>2. ASSUME NEW d \in Good PROVE d + 1 \in Good
    <2>1. N[d] \subseteq N[d + 1]
      OBVIOUS
    <2>2. Seq(N[d]) \subseteq Seq(N[d + 1])
      BY <2>1
    <2>3. N[d + 1] \subseteq N[(d + 1) + 1]
      <3> DEFINE S == Seq(N[d])
                 T == Seq(N[d + 1])
      <3>1. /\ N[d + 1] = Terminals \cup [horizontal : BOOLEAN, children : S]
            /\ N[(d + 1) + 1] = Terminals \cup [horizontal : BOOLEAN, children : T]
        BY <1>a
      <3> HIDE DEF S, T
      <3> QED
        BY <2>2, <3>1 DEF S, T
    <2> QED
      BY <2>3
  <1>3. Good = Nat
    <2> HIDE DEF Good
    <2>1. Good \subseteq Nat
      BY DEF Good
    <2> QED
      BY <1>1, <1>2, <2>1, Induction
  <1>4. ASSUME NEW d \in Nat PROVE \A e \in Nat : N[d] \subseteq N[d + e]
    <2> DEFINE Ok == {e \in Nat : N[d] \subseteq N[d + e]}
    <2>1. 0 \in Ok
      OBVIOUS
    <2>2. ASSUME NEW e \in Ok PROVE e + 1 \in Ok
      <3>1. d + e \in Nat /\ d + (e + 1) = (d + e) + 1
        OBVIOUS
      <3>2. N[d + e] \subseteq N[(d + e) + 1]
        BY <1>3, <3>1
      <3> QED
        BY <3>1, <3>2
    <2> HIDE DEF Ok
    <2>3. Ok \subseteq Nat
      BY DEF Ok
    <2>4. Ok = Nat
      BY <2>1, <2>2, <2>3, Induction
    <2> QED
      BY <2>4 DEF Ok
  <1>5. ASSUME NEW d \in Nat, NEW e \in Nat, d <= e PROVE N[d] \subseteq N[e]
    <2>1. e - d \in Nat /\ d + (e - d) = e
      BY <1>5
    <2> QED
      BY <1>4, <2>1
  <1> QED
    BY <1>5 DEF N

\* A terminal is no container and nothing is null, even one level too deep.
LEMMA NodeKinds ==
  ASSUME NEW d \in Nat, d <= MaxDepth
  PROVE  /\ Terminals \subseteq Nodes[d] /\ None \notin Nodes[d] /\ None \notin Nodes[d + 1]
         /\ \A h \in BOOLEAN, c \in Seq(Nodes[d]) :
              /\ Container(h, c) \in Nodes[d + 1]
              /\ Container(h, c) \notin Terminals
              /\ Container(h, c).horizontal = h /\ Container(h, c).children = c
         /\ \A node \in Nodes[d] \ Terminals :
              /\ d - 1 \in Nat /\ d - 1 <= MaxDepth
              /\ node.horizontal \in BOOLEAN /\ node.children \in Seq(Nodes[d - 1])
              /\ \A i \in DOMAIN node.children : node.children[i] \in Nodes[d - 1]
              /\ node = Container(node.horizontal, node.children)
  <1>1. MaxDepth \in Nat /\ None \notin Terminals
    BY NodeAssumption
  <1>2. (Terminals \cup {None}) \cap [horizontal : BOOLEAN, children : Seq(Nodes[MaxDepth])] = {}
    BY NodeAssumption DEF Node
  <1>3. ASSUME NEW h \in BOOLEAN, NEW e \in Nat, e <= MaxDepth, NEW c \in Seq(Nodes[e])
        PROVE  [horizontal |-> h, children |-> c] \notin Terminals \cup {None}
    <2>1. Nodes[e] \subseteq Nodes[MaxDepth]
      BY <1>1, <1>3, NodesGrow
    <2>2. c \in Seq(Nodes[MaxDepth])
      BY <2>1
    <2>3. [horizontal |-> h, children |-> c]
             \in [horizontal : BOOLEAN, children : Seq(Nodes[MaxDepth])]
      BY <2>2
    <2> QED
      BY <1>2, <2>3
  <1>4. ASSUME NEW e \in Nat, e <= MaxDepth PROVE None \notin Nodes[e + 1]
    <2> SUFFICES ASSUME None \in [horizontal : BOOLEAN, children : Seq(Nodes[e])] PROVE FALSE
      BY <1>1, NodesFacts
    <2>1. /\ None.horizontal \in BOOLEAN /\ None.children \in Seq(Nodes[e])
          /\ None = [horizontal |-> None.horizontal, children |-> None.children]
      OBVIOUS
    <2> QED
      BY <1>3, <1>4, <2>1
  <1>5. Terminals \subseteq Nodes[d] /\ None \notin Nodes[d + 1]
    <2>1. Nodes[0] \subseteq Nodes[d]
      BY NodesGrow
    <2> QED
      BY <2>1, <1>4, NodesFacts
  <1>6. None \notin Nodes[d]
    <2>1. Nodes[d] \subseteq Nodes[d + 1]
      BY NodesGrow
    <2> QED
      BY <1>5, <2>1
  <1>7. ASSUME NEW h \in BOOLEAN, NEW c \in Seq(Nodes[d])
        PROVE  /\ Container(h, c) \in Nodes[d + 1]
               /\ Container(h, c) \notin Terminals
               /\ Container(h, c).horizontal = h /\ Container(h, c).children = c
    <2>1. Container(h, c) = [horizontal |-> h, children |-> c]
      BY DEF Container
    <2>2. [horizontal |-> h, children |-> c] \in [horizontal : BOOLEAN, children : Seq(Nodes[d])]
      OBVIOUS
    <2> QED
      BY <1>3, <2>1, <2>2, NodesFacts
  <1>8. ASSUME NEW node \in Nodes[d] \ Terminals
        PROVE  /\ d - 1 \in Nat /\ d - 1 <= MaxDepth
               /\ node.horizontal \in BOOLEAN /\ node.children \in Seq(Nodes[d - 1])
               /\ \A i \in DOMAIN node.children : node.children[i] \in Nodes[d - 1]
               /\ node = Container(node.horizontal, node.children)
    <2>1. d - 1 \in Nat /\ d - 1 <= MaxDepth /\ (d - 1) + 1 = d
      BY <1>1, NodesFacts
    <2>2. node \in [horizontal : BOOLEAN, children : Seq(Nodes[d - 1])]
      BY <2>1, NodesFacts
    <2>3. /\ node.horizontal \in BOOLEAN /\ node.children \in Seq(Nodes[d - 1])
          /\ node = [horizontal |-> node.horizontal, children |-> node.children]
      BY <2>2
    <2>4. \A i \in DOMAIN node.children : node.children[i] \in Nodes[d - 1]
      BY <2>3
    <2> QED
      BY <2>1, <2>3, <2>4 DEF Container
  <1> QED
    BY <1>5, <1>6, <1>7, <1>8

LEMMA TerminalKinds ==
  ASSUME NEW d \in Nat, d <= MaxDepth, NEW t \in Terminals
  PROVE  t \in Nodes[d] /\ Nodes[d] \subseteq Nodes[d + 1]
  BY NodeKinds, NodesGrow

LEMMA NewKinds ==
  ASSUME NEW d \in Nat, d <= MaxDepth,
         NEW h \in BOOLEAN, NEW c \in Seq(Nodes[d])
  PROVE  /\ Container(h, c) \in Nodes[d + 1]
         /\ Container(h, c) \notin Terminals
         /\ Container(h, c).horizontal = h /\ Container(h, c).children = c
  BY NodeKinds

LEMMA OldKinds ==
  ASSUME NEW d \in Nat, d <= MaxDepth,
         NEW node \in Nodes[d], node \notin Terminals
  PROVE  /\ d - 1 \in Nat /\ (d - 1) + 1 = d /\ d - 1 <= MaxDepth
         /\ node.horizontal \in BOOLEAN /\ node.children \in Seq(Nodes[d - 1])
         /\ \A i \in DOMAIN node.children : node.children[i] \in Nodes[d - 1]
  BY NodeKinds

LEMMA PartsSolved == Parts = [d \in Nat |-> PartsStep(d, Parts[d - 1])]
  <1> DEFINE k == [of |-> "parts"]
  <1>1. \A d, b : Step(k, d, b) = PartsStep(d, b)
    BY DEF Step
  <1>2. Grounded(k)
    <2>1. \A b, c : PartsStep(0, b) = PartsStep(0, c)
      BY NodesFacts DEF PartsStep
    <2> QED
      BY <1>1, <2>1 DEF Grounded
  <1> HIDE DEF k
  <1>3. PICK f : f = [d \in Nat |-> Step(k, d, f[d - 1])]
    BY <1>2, Recursion
  <1>4. f = [d \in Nat |-> PartsStep(d, f[d - 1])]
    BY <1>1, <1>3
  <1> DEFINE g == CHOOSE g : g = [d \in Nat |-> PartsStep(d, g[d - 1])]
  <1>5. g = [d \in Nat |-> PartsStep(d, g[d - 1])]
    BY <1>4, Zenon
  <1>6. Parts = g
    BY Zenon DEF Parts, PartsStep
  <1> HIDE DEF g
  <1> QED
    BY <1>5, <1>6, Zenon

\* What is below the nodes of a list, and what makes a part of a tree no idle
\* container.
Below(d, nodes) == UNION {Parts[d][nodes[i]] : i \in DOMAIN nodes}
Busy(parts) == \A x \in parts \ Terminals : Len(x.children) > 1

LEMMA PartsFacts ==
  ASSUME NEW d \in Nat, NEW node \in Nodes[d]
  PROVE  Parts[d][node] = IF node \in Terminals THEN {node}
                            ELSE {node} \cup Below(d - 1, node.children)
  <1>1. Parts[d] = PartsStep(d, Parts[d - 1])
    BY PartsSolved
  <1> QED
    BY <1>1 DEF PartsStep, Below

LEMMA BelowFacts ==
  ASSUME NEW d, NEW nodes, NEW x
  PROVE  x \in Below(d, nodes) <=> \E i \in DOMAIN nodes : x \in Parts[d][nodes[i]]
  BY DEF Below

\* A tree has the same parts however many levels there could be.
LEMMA PartsGrow ==
  \A d \in Nat : d <= MaxDepth =>
    \A node \in Nodes[d] : Parts[d + 1][node] = Parts[d][node]
  <1> DEFINE Good == {d \in Nat : d <= MaxDepth =>
                        \A node \in Nodes[d] : Parts[d + 1][node] = Parts[d][node]}
  <1>1. \A d \in Nat : d + 1 \in Nat /\ (d + 1) - 1 = d /\ Nodes[d] \subseteq Nodes[d + 1]
    BY NodesGrow
  <1>2. 0 \in Good
    <2>1. ASSUME NEW node \in Nodes[0] PROVE Parts[0 + 1][node] = Parts[0][node]
      <3> DEFINE one == 0 + 1
      <3>1. node \in Terminals /\ node \in Nodes[one]
        BY <1>1, NodesFacts
      <3>2. one \in Nat
        OBVIOUS
      <3> HIDE DEF one
      <3>3. Parts[one][node] = {node}
        BY <3>1, <3>2, PartsFacts
      <3>4. Parts[0][node] = {node}
        BY <3>1, PartsFacts
      <3> QED
        BY <3>3, <3>4, Zenon DEF one
    <2> QED
      BY <2>1
  <1>3. ASSUME NEW d \in Good PROVE d + 1 \in Good
    <2> DEFINE e == d + 1
    <2> SUFFICES ASSUME e <= MaxDepth, NEW node \in Nodes[e]
                 PROVE  Parts[e + 1][node] = Parts[e][node]
      OBVIOUS
    <2>0. MaxDepth \in Nat
      BY NodeAssumption
    <2>1. e \in Nat /\ d \in Nat /\ e - 1 = d /\ (e + 1) - 1 = e /\ e + 1 \in Nat
          /\ node \in Nodes[e + 1] /\ d <= MaxDepth
      BY <1>1, <2>0
    <2>2. \A n \in Nodes[d] : Parts[e][n] = Parts[d][n]
      BY <2>1
    <2> HIDE DEF e
    <2>3. CASE node \in Terminals
      BY <2>1, <2>3, PartsFacts
    <2>4. CASE node \notin Terminals
      <3>1. \A i \in DOMAIN node.children : node.children[i] \in Nodes[d]
        BY <2>1, <2>4, NodeKinds
      <3>2. Below(e, node.children) = Below(d, node.children)
        BY <2>2, <3>1 DEF Below
      <3>3. Parts[e][node] = {node} \cup Below(e - 1, node.children)
        BY <2>1, <2>4, PartsFacts
      <3>4. Parts[e + 1][node] = {node} \cup Below((e + 1) - 1, node.children)
        BY <2>1, <2>4, PartsFacts
      <3>5. e - 1 = d /\ (e + 1) - 1 = e
        BY <2>1
      <3> QED
        BY <3>2, <3>3, <3>4, <3>5, Zenon
    <2> QED
      BY <2>3, <2>4
  <1> HIDE DEF Good
  <1>4. Good \subseteq Nat
    BY DEF Good
  <1>5. Good = Nat
    BY <1>2, <1>3, <1>4, Induction
  <1> QED
    BY <1>5 DEF Good

\* The parts of a new container.
LEMMA ContainerParts ==
  ASSUME NEW d \in Nat, d <= MaxDepth,
         NEW h \in BOOLEAN, NEW c \in Seq(Nodes[d])
  PROVE  Parts[d + 1][Container(h, c)] = {Container(h, c)} \cup Below(d, c)
  <1> DEFINE n == Container(h, c)
  <1>1. n \in Nodes[d + 1] /\ n \notin Terminals /\ n.children = c
    BY NodeKinds
  <1>2. d + 1 \in Nat /\ (d + 1) - 1 = d
    OBVIOUS
  <1> HIDE DEF n
  <1>3. Parts[d + 1][n] = {n} \cup Below(d, c)
    BY <1>1, <1>2, PartsFacts
  <1> QED
    BY <1>3 DEF n

\* A list with one element more has no other elements.
LEMMA InsertAtType ==
  ASSUME NEW S, NEW s \in Seq(S), NEW i \in 1 .. Len(s) + 1, NEW e \in S
  PROVE  InsertAt(s, i, e) \in Seq(S) /\ Len(InsertAt(s, i, e)) = Len(s) + 1
  <1> DEFINE a == SubSeq(s, 1, i - 1)
             b == SubSeq(s, i, Len(s))
  <1>1. Len(s) \in Nat /\ i - 1 \in 0 .. Len(s)
    OBVIOUS
  <1>2. a \in Seq(S) /\ Len(a) = i - 1
    BY <1>1
  <1>3. b \in Seq(S) /\ Len(b) = Len(s) - (i - 1)
    BY <1>1
  <1>4. InsertAt(s, i, e) = a \o <<e>> \o b
    BY DEF InsertAt
  <1> HIDE DEF a, b
  <1>5. a \o <<e>> \in Seq(S) /\ Len(a \o <<e>>) = i
    BY <1>2, <1>1
  <1>6. (a \o <<e>>) \o b \in Seq(S) /\ Len((a \o <<e>>) \o b) = i + (Len(s) - (i - 1))
    BY <1>3, <1>5
  <1> QED
    BY <1>1, <1>4, <1>6

LEMMA BesideInserts ==
  ASSUME NEW S, NEW c \in Seq(S), NEW target, NEW new \in S, NEW before \in BOOLEAN,
         \E i \in DOMAIN c : c[i] = target
  PROVE  \E p \in 1 .. Len(c) + 1 : Beside(c, target, new, before) = InsertAt(c, p, new)
  <1> DEFINE i == CHOOSE i \in DOMAIN c : c[i] = target
             p == IF before THEN i ELSE i + 1
  <1>1. i \in 1 .. Len(c) /\ Len(c) \in Nat
    OBVIOUS
  <1> HIDE DEF i
  <1>2. p \in 1 .. Len(c) + 1
    BY <1>1
  <1>3. Beside(c, target, new, before) = InsertAt(c, p, new)
    BY DEF Beside, i
  <1> QED
    BY <1>2, <1>3

LEMMA BesideType ==
  ASSUME NEW S, NEW c \in Seq(S), NEW target, NEW new \in S, NEW before \in BOOLEAN,
         \E i \in DOMAIN c : c[i] = target
  PROVE  Beside(c, target, new, before) \in Seq(S)
  BY BesideInserts, InsertAtType

LEMMA BesideLen ==
  ASSUME NEW S, NEW c \in Seq(S), NEW target, NEW new \in S, NEW before \in BOOLEAN,
         \E i \in DOMAIN c : c[i] = target
  PROVE  Len(Beside(c, target, new, before)) = Len(c) + 1
  BY BesideInserts, InsertAtType

LEMMA BesideElements ==
  ASSUME NEW S, NEW c \in Seq(S), NEW target, NEW new \in S, NEW before \in BOOLEAN,
         \E i \in DOMAIN c : c[i] = target
  PROVE  \A j \in DOMAIN Beside(c, target, new, before) :
           \/ Beside(c, target, new, before)[j] = new
           \/ \E i \in DOMAIN c : Beside(c, target, new, before)[j] = c[i]
  <1> DEFINE T == {c[x] : x \in DOMAIN c} \cup {new}
             r == Beside(c, target, new, before)
  <1>1. c \in Seq(T) /\ new \in T
    OBVIOUS
  <1> HIDE DEF T
  <1>2. r \in Seq(T)
    BY <1>1, BesideType
  <1> HIDE DEF r
  <1>3. \A j \in DOMAIN r : r[j] \in T
    BY <1>2
  <1> QED
    BY <1>3 DEF T, r

LEMMA BesideOne ==
  ASSUME NEW S, NEW node \in S, NEW new \in S, NEW before \in BOOLEAN
  PROVE  /\ Beside(<<node>>, node, new, before) \in Seq(S)
         /\ Len(Beside(<<node>>, node, new, before)) = 2
         /\ \A j \in DOMAIN Beside(<<node>>, node, new, before) :
              Beside(<<node>>, node, new, before)[j] \in {new, node}
  <1> DEFINE one == <<node>>
             r == Beside(one, node, new, before)
  <1>1. /\ one \in Seq({node, new}) /\ one \in Seq(S) /\ Len(one) = 1
        /\ \E i \in DOMAIN one : one[i] = node
    OBVIOUS
  <1> HIDE DEF one
  <1>2. r \in Seq(S)
    BY <1>1, BesideType
  <1>3. r \in Seq({node, new})
    BY <1>1, BesideType
  <1>4. Len(r) = Len(one) + 1
    BY <1>1, BesideLen
  <1> HIDE DEF r
  <1>5. Len(r) = 2
    BY <1>1, <1>4
  <1>6. \A j \in DOMAIN r : r[j] \in {new, node}
    BY <1>3
  <1> QED
    BY <1>2, <1>5, <1>6, Zenon DEF r, one

\* A list without its nulls.
LEMMA NonNullSolved ==
  ASSUME NEW nodes, Len(nodes) \in Nat
  PROVE  \E f : /\ NonNull(nodes) = f[Len(nodes)]
                /\ \A i \in 0 .. Len(nodes) : f[i] = NonNullStep(nodes, i, f[i - 1])
  <1> DEFINE k == [of |-> "non-null", nodes |-> nodes]
             n == Len(nodes)
  <1>1. \A i, b : Step(k, i, b) = NonNullStep(nodes, i, b)
    BY DEF Step
  <1>2. Grounded(k)
    BY <1>1 DEF Grounded, NonNullStep
  <1> HIDE DEF k
  <1>3. PICK g : g = [i \in 0 .. n |-> Step(k, i, g[i - 1])]
    BY <1>2, UptoExists DEF Upto
  <1> DEFINE f == CHOOSE f : f = [i \in 0 .. n |-> NonNullStep(nodes, i, f[i - 1])]
  <1>4. g = [i \in 0 .. n |-> NonNullStep(nodes, i, g[i - 1])]
    BY <1>1, <1>3
  <1>5. f = [i \in 0 .. n |-> NonNullStep(nodes, i, f[i - 1])]
    BY <1>4, Zenon
  <1>6. NonNull(nodes) = f[n]
    BY Zenon DEF NonNull, NonNullStep
  <1> HIDE DEF f
  <1>7. \A i \in 0 .. n : f[i] = NonNullStep(nodes, i, f[i - 1])
    BY <1>5
  <1> QED
    BY <1>6, <1>7

LEMMA NonNullType ==
  ASSUME NEW S, None \notin S, NEW nodes \in Seq(S \cup {None})
  PROVE  /\ NonNull(nodes) \in Seq(S)
         /\ \A j \in DOMAIN nodes :
              nodes[j] # None => \E x \in DOMAIN NonNull(nodes) : NonNull(nodes)[x] = nodes[j]
  <1> DEFINE n == Len(nodes)
  <1>1. n \in Nat /\ DOMAIN nodes = 1 .. n
    OBVIOUS
  <1>2. PICK f : /\ NonNull(nodes) = f[n]
                 /\ \A i \in 0 .. n : f[i] = NonNullStep(nodes, i, f[i - 1])
    BY <1>1, NonNullSolved
  <1>3. \A i \in 1 .. n : nodes[i] \in S \cup {None}
    OBVIOUS
  <1> HIDE DEF n
  <1> DEFINE Has(s, e) == \E x \in DOMAIN s : s[x] = e
             Ok(i) == /\ f[i] \in Seq(S)
                      /\ \A j \in 1 .. i : nodes[j] # None => Has(f[i], nodes[j])
             Good == {i \in Nat : i <= n => Ok(i)}
  <1>4. 0 \in Good
    <2>1. f[0] = <<>>
      <3>1. 0 \in 0 .. n
        BY <1>1
      <3>2. f[0] = NonNullStep(nodes, 0, f[0 - 1])
        BY <1>2, <3>1, Zenon
      <3> QED
        BY <3>2 DEF NonNullStep
    <2>2. <<>> \in Seq(S)
      BY EmptySeq
    <2>3. \A j \in 1 .. 0 : FALSE
      OBVIOUS
    <2>4. Ok(0)
      BY <2>1, <2>2, <2>3, Zenon
    <2> QED
      BY <2>4
  <1>5. ASSUME NEW i \in Good PROVE i + 1 \in Good
    <2> SUFFICES ASSUME i + 1 <= n PROVE Ok(i + 1)
      BY DEF Good
    <2>1. i \in Nat /\ i + 1 \in 1 .. n /\ i + 1 \in 0 .. n /\ i + 1 # 0 /\ (i + 1) - 1 = i /\ i <= n
      BY <1>1 DEF Good
    <2>2. Ok(i)
      BY <2>1
    <2>3. f[i + 1] = IF nodes[i + 1] = None THEN f[i] ELSE Append(f[i], nodes[i + 1])
      BY <1>2, <2>1 DEF NonNullStep
    <2>4. \A j \in 1 .. i + 1 : j \in 1 .. i \/ j = i + 1
      BY <2>1
    <2>5. CASE nodes[i + 1] = None
      BY <2>2, <2>3, <2>4, <2>5
    <2>6. CASE nodes[i + 1] # None
      <3> DEFINE s == f[i]
                 e == nodes[i + 1]
                 t == Append(s, e)
      <3>1. s \in Seq(S) /\ e \in S
        BY <1>3, <2>1, <2>2, <2>6
      <3> HIDE DEF s, e
      <3>2. /\ t \in Seq(S) /\ DOMAIN t = 1 .. Len(s) + 1 /\ DOMAIN s = 1 .. Len(s) /\ Len(s) \in Nat
            /\ t[Len(s) + 1] = e /\ \A x \in 1 .. Len(s) : t[x] = s[x]
        BY <3>1
      <3>3. Has(t, e) /\ \A y : Has(s, y) => Has(t, y)
        <4> HIDE DEF t
        <4>1. DOMAIN s \subseteq DOMAIN t /\ Len(s) + 1 \in DOMAIN t
          BY <3>2
        <4> QED
          BY <3>2, <4>1
      <3>4. f[i + 1] = t
        BY <2>3, <2>6 DEF s, e
      <3>5. \A j \in 1 .. i : nodes[j] # None => Has(s, nodes[j])
        BY <2>2 DEF s
      <3> HIDE DEF t, Has
      <3>6. \A j \in 1 .. i : nodes[j] # None => Has(t, nodes[j])
        BY <3>3, <3>5
      <3>7. Has(t, nodes[i + 1])
        BY <3>3 DEF e
      <3> QED
        BY <2>4, <3>2, <3>4, <3>6, <3>7
    <2> QED
      BY <2>5, <2>6
  <1> HIDE DEF Good
  <1>6. Good \subseteq Nat
    BY DEF Good
  <1>7. Good = Nat
    BY <1>4, <1>5, <1>6, Induction
  <1>8. Ok(n)
    BY <1>1, <1>7 DEF Good
  <1> QED
    BY <1>1, <1>2, <1>8

\* Nothing is in it that is not in the list.
LEMMA NonNullFacts ==
  ASSUME NEW S, None \notin S, NEW nodes \in Seq(S \cup {None})
  PROVE  /\ NonNull(nodes) \in Seq(S)
         /\ \A j \in DOMAIN nodes :
              nodes[j] # None => \E x \in DOMAIN NonNull(nodes) : NonNull(nodes)[x] = nodes[j]
         /\ \A x \in DOMAIN NonNull(nodes) :
              \E j \in DOMAIN nodes : nodes[j] # None /\ NonNull(nodes)[x] = nodes[j]
  <1> DEFINE T == {nodes[j] : j \in DOMAIN nodes} \ {None}
             r == NonNull(nodes)
  <1>1. nodes \in Seq(T \cup {None}) /\ None \notin T
    OBVIOUS
  <1> HIDE DEF T
  <1>2. r \in Seq(T)
    BY <1>1, NonNullType
  <1> HIDE DEF r
  <1>3. \A x \in DOMAIN r : r[x] \in T
    BY <1>2
  <1>4. \A x \in DOMAIN r : \E j \in DOMAIN nodes : nodes[j] # None /\ r[x] = nodes[j]
    BY <1>3 DEF T
  <1> QED
    BY <1>4, NonNullType DEF r

\* What an insertion does to a node: it gets one level deeper at most, it has
\* no terminal but those it had and the new one, and no container comes to idle.
Inserted(d, node, result, new) ==
  /\ result \in Nodes[d + 1]
  /\ Parts[d + 1][result] \cap Terminals \subseteq Parts[d][node] \cup {new}
  /\ Busy(Parts[d][node]) => Busy(Parts[d + 1][result])

\* A container of the new terminal, the nodes of a list, and nothing else.
LEMMA NewContainer ==
  ASSUME NEW d \in Nat, d <= MaxDepth,
         NEW h \in BOOLEAN, NEW c \in Seq(Nodes[d]), Len(c) > 1,
         NEW new \in Terminals, NEW node, NEW e \in Nat,
         \A i \in DOMAIN c : c[i] = new \/ Parts[d][c[i]] \subseteq Parts[e][node]
  PROVE  /\ Container(h, c) \in Nodes[d + 1]
         /\ Parts[d + 1][Container(h, c)] \cap Terminals \subseteq Parts[e][node] \cup {new}
         /\ Busy(Parts[e][node]) => Busy(Parts[d + 1][Container(h, c)])
  <1> DEFINE r == Container(h, c)
  <1>1. r \in Nodes[d + 1] /\ r \notin Terminals /\ r.children = c
    BY NodeKinds
  <1>2. Parts[d + 1][r] = {r} \cup Below(d, c)
    BY ContainerParts
  <1> HIDE DEF r
  <1>3. Parts[d][new] = {new}
    BY NodeKinds, PartsFacts
  <1>4. Below(d, c) \subseteq Parts[e][node] \cup {new}
    BY <1>3 DEF Below
  <1>5. Parts[d + 1][r] \cap Terminals \subseteq Parts[e][node] \cup {new}
    BY <1>1, <1>2, <1>4
  <1>6. ASSUME Busy(Parts[e][node]) PROVE Busy(Parts[d + 1][r])
    BY <1>1, <1>2, <1>4, <1>6 DEF Busy
  <1> QED
    BY <1>1, <1>5, <1>6 DEF r

\* A function that computes the insertion, level by level; and the removal.
InsertLevelled(f, target, new, horizontal, before) ==
  \A d \in Nat : f[d] = InsertStep(target, new, horizontal, before, d, f[d - 1])
RemoveLevelled(f, target) == \A d \in Nat : f[d] = RemoveStep(target, d, f[d - 1])

LEMMA InsertSolved ==
  ASSUME NEW target, NEW new, NEW horizontal, NEW before
  PROVE  \E f : /\ \A root : InsertNode(root, target, new, horizontal, before) = f[MaxDepth][root]
                /\ InsertLevelled(f, target, new, horizontal, before)
  <1> DEFINE k == [of |-> "insert", target |-> target, new |-> new, horizontal |-> horizontal,
                   before |-> before]
  <1>1. \A d, b : Step(k, d, b) = InsertStep(target, new, horizontal, before, d, b)
    BY DEF Step
  <1>2. Grounded(k)
    <2>1. \A b, c : InsertStep(target, new, horizontal, before, 0, b)
                    = InsertStep(target, new, horizontal, before, 0, c)
      BY NodesFacts DEF InsertStep
    <2> QED
      BY <1>1, <2>1 DEF Grounded
  <1> HIDE DEF k
  <1>3. PICK g : g = [d \in Nat |-> Step(k, d, g[d - 1])]
    BY <1>2, Recursion
  <1>4. g = [d \in Nat |-> InsertStep(target, new, horizontal, before, d, g[d - 1])]
    BY <1>1, <1>3
  <1> DEFINE f == CHOOSE f : f = [d \in Nat |-> InsertStep(target, new, horizontal, before, d, f[d - 1])]
  <1>5. f = [d \in Nat |-> InsertStep(target, new, horizontal, before, d, f[d - 1])]
    BY <1>4, Zenon
  <1>6. \A root : InsertNode(root, target, new, horizontal, before) = f[MaxDepth][root]
    BY Zenon DEF InsertNode, InsertStep
  <1> HIDE DEF f
  <1>7. \A d \in Nat : f[d] = InsertStep(target, new, horizontal, before, d, f[d - 1])
    BY <1>5
  <1> QED
    BY <1>6, <1>7 DEF InsertLevelled

LEMMA InsertLevel ==
  ASSUME NEW target, NEW new, NEW horizontal, NEW before,
         NEW f, InsertLevelled(f, target, new, horizontal, before),
         NEW d \in Nat, NEW node \in Nodes[d]
  PROVE  f[d][node] =
           IF node = target THEN Container(horizontal, Beside(<<node>>, node, new, before))
           ELSE IF node \in Terminals THEN node
           ELSE IF TakesIn(node, target, horizontal)
           THEN Container(horizontal, Beside(node.children, target, new, before))
           ELSE Container(node.horizontal,
                  [i \in DOMAIN node.children |-> f[d - 1][node.children[i]]])
  <1> DEFINE b == f[d - 1]
  <1>1. f[d] = InsertStep(target, new, horizontal, before, d, b)
    BY DEF InsertLevelled
  <1> HIDE DEF b
  <1>2. f[d][node] = InsertStep(target, new, horizontal, before, d, b)[node]
    BY <1>1
  <1>3. f[d][node] =
          IF node = target THEN Container(horizontal, Beside(<<node>>, node, new, before))
          ELSE IF node \in Terminals THEN node
          ELSE IF TakesIn(node, target, horizontal)
          THEN Container(horizontal, Beside(node.children, target, new, before))
          ELSE Container(node.horizontal, [i \in DOMAIN node.children |-> b[node.children[i]]])
    BY <1>2 DEF InsertStep
  <1> QED
    BY <1>3 DEF b

LEMMA InsertLevels ==
  ASSUME NEW target, NEW new \in Terminals, NEW horizontal \in BOOLEAN, NEW before \in BOOLEAN,
         NEW f, InsertLevelled(f, target, new, horizontal, before)
  PROVE  \A d \in Nat : d <= MaxDepth =>
           \A node \in Nodes[d] : Inserted(d, node, f[d][node], new)
  <1> DEFINE Good == {d \in Nat : d <= MaxDepth =>
                        \A node \in Nodes[d] : Inserted(d, node, f[d][node], new)}
  <1>2. ASSUME NEW d \in Nat, d <= MaxDepth, NEW node \in Nodes[d],
               node \notin Terminals =>
                 \A n \in Nodes[d - 1] : Inserted(d - 1, n, f[d - 1][n], new)
        PROVE  Inserted(d, node, f[d][node], new)
    <2> DEFINE r == f[d][node]
               one == <<node>>
    <2>1. r = IF node = target THEN Container(horizontal, Beside(one, node, new, before))
              ELSE IF node \in Terminals THEN node
              ELSE IF TakesIn(node, target, horizontal)
              THEN Container(horizontal, Beside(node.children, target, new, before))
              ELSE Container(node.horizontal,
                     [i \in DOMAIN node.children |-> f[d - 1][node.children[i]]])
      BY <1>2, InsertLevel
    <2>2. /\ new \in Nodes[d] /\ Parts[d][new] = {new}
          /\ Nodes[d] \subseteq Nodes[d + 1]
          /\ Parts[d + 1][node] = Parts[d][node]
      <3>1. new \in Nodes[d] /\ Nodes[d] \subseteq Nodes[d + 1]
        BY <1>2, TerminalKinds
      <3>2. Parts[d][new] = {new}
        BY <1>2, <3>1, PartsFacts
      <3>3. Parts[d + 1][node] = Parts[d][node]
        BY <1>2, PartsGrow
      <3> QED
        BY <3>1, <3>2, <3>3
    <2> HIDE DEF r
    <2>3. CASE node = target
      <3> DEFINE c == Beside(one, node, new, before)
      <3>1. /\ c \in Seq(Nodes[d]) /\ Len(c) = 2
            /\ \A i \in DOMAIN c : c[i] \in {new, node}
        BY <1>2, <2>2, BesideOne
      <3> HIDE DEF c
      <3>2. c \in Seq(Nodes[d]) /\ \A i \in DOMAIN c : c[i] = new \/ c[i] = node
        BY <3>1
      <3>3. r = Container(horizontal, c)
        BY <2>1, <2>3 DEF c
      <3>4. \A i \in DOMAIN c : c[i] = new \/ Parts[d][c[i]] \subseteq Parts[d][node]
        BY <3>2
      <3>5. Len(c) > 1
        BY <3>1
      <3>6. Inserted(d, node, r, new)
        <4> DEFINE b == Container(horizontal, c)
        <4>1. /\ b \in Nodes[d + 1]
              /\ Parts[d + 1][b] \cap Terminals \subseteq Parts[d][node] \cup {new}
              /\ Busy(Parts[d][node]) => Busy(Parts[d + 1][b])
          BY <1>2, <3>2, <3>4, <3>5, NewContainer
        <4> QED
          BY <3>3, <4>1 DEF Inserted
      <3> QED
        BY <3>6 DEF r
    <2>4. CASE node # target /\ node \in Terminals
      <3>1. r = node
        BY <2>1, <2>4
      <3>2. Inserted(d, node, r, new)
        BY <1>2, <2>2, <3>1 DEF Inserted
      <3> QED
        BY <3>2 DEF r
    <2>5. CASE node # target /\ node \notin Terminals
      <3> DEFINE c == node.children
                 e == d - 1
      <3>1. /\ e \in Nat /\ e + 1 = d /\ e <= MaxDepth
            /\ node.horizontal \in BOOLEAN /\ c \in Seq(Nodes[e])
            /\ \A i \in DOMAIN c : c[i] \in Nodes[e]
        BY <1>2, <2>5, OldKinds
      <3>2. Parts[d][node] = {node} \cup Below(e, c)
        BY <1>2, <2>5, PartsFacts
      <3> HIDE DEF e
      <3>3. \A i \in DOMAIN c : Parts[e][c[i]] \subseteq Parts[d][node]
        BY <3>2 DEF Below
      <3>4. /\ Nodes[e] \subseteq Nodes[d]
            /\ \A n \in Nodes[e] : Parts[d][n] = Parts[e][n]
        BY <3>1, NodesGrow, PartsGrow
      <3>5. CASE TakesIn(node, target, horizontal)
        <4> DEFINE b == Beside(c, target, new, before)
        <4>1. r = Container(horizontal, b)
          BY <2>1, <2>5, <3>5
        <4>2. \E i \in DOMAIN c : c[i] = target
          BY <3>5 DEF TakesIn, ToSet
        <4> HIDE DEF c
        <4>3. c \in Seq(Nodes[d]) /\ Len(c) \in Nat /\ Len(c) > 0
          BY <3>1, <3>4, <4>2
        <4> DEFINE N == Nodes[d]
        <4>a. c \in Seq(N) /\ new \in N
          BY <2>2, <4>3
        <4> HIDE DEF N
        <4>b. /\ b \in Seq(N) /\ Len(b) = Len(c) + 1
              /\ \A j \in DOMAIN b : b[j] = new \/ \E i \in DOMAIN c : b[j] = c[i]
          BY <4>2, <4>a, BesideType, BesideLen, BesideElements
        <4> HIDE DEF b
        <4>4. /\ b \in Seq(Nodes[d]) /\ Len(b) > 1
              /\ \A j \in DOMAIN b : b[j] = new \/ \E i \in DOMAIN c : b[j] = c[i]
          BY <4>3, <4>b DEF N
        <4>5. \A j \in DOMAIN b : b[j] = new \/ Parts[d][b[j]] \subseteq Parts[d][node]
          BY <3>1, <3>3, <3>4, <4>4
        <4>6. b \in Seq(Nodes[d]) /\ Len(b) > 1
          BY <4>4
        <4>7. Inserted(d, node, Container(horizontal, b), new)
          BY <1>2, <4>5, <4>6, NewContainer DEF Inserted
        <4>8. Inserted(d, node, r, new)
          BY <4>1, <4>7, Zenon
        <4> QED
          BY <4>8 DEF r
      <3>6. CASE ~TakesIn(node, target, horizontal)
        <4> DEFINE b == [i \in DOMAIN c |-> f[e][c[i]]]
                   h == node.horizontal
        <4>1. r = Container(h, b)
          BY <2>1, <2>5, <3>6 DEF e
        <4>2. \A i \in DOMAIN c : Inserted(e, c[i], b[i], new)
          BY <1>2, <2>5, <3>1 DEF e
        <4>3. \A i \in DOMAIN c :
                /\ b[i] \in Nodes[d]
                /\ Parts[d][b[i]] \cap Terminals \subseteq Parts[e][c[i]] \cup {new}
                /\ Busy(Parts[e][c[i]]) => Busy(Parts[d][b[i]])
          BY <3>1, <4>2 DEF Inserted
        <4>4. b \in Seq(Nodes[d]) /\ DOMAIN b = DOMAIN c /\ Len(b) = Len(c)
          <5> DEFINE n == Len(c)
          <5>1. n \in Nat /\ DOMAIN c = 1 .. n
            BY <3>1
          <5> HIDE DEF n, c
          <5>2. b \in [1 .. n -> Nodes[d]]
            BY <4>3, <5>1
          <5> HIDE DEF b
          <5> QED
            BY <5>1, <5>2 DEF n
        <4> HIDE DEF b, c
        <4>5. /\ r \in Nodes[d + 1] /\ r \notin Terminals /\ r.children = b
              /\ Parts[d + 1][r] = {r} \cup Below(d, b)
          <5>1. /\ Container(h, b) \in Nodes[d + 1] /\ Container(h, b) \notin Terminals
                /\ Container(h, b).children = b
            BY <1>2, <3>1, <4>4, NewKinds
          <5>2. Parts[d + 1][Container(h, b)] = {Container(h, b)} \cup Below(d, b)
            BY <1>2, <3>1, <4>4, ContainerParts
          <5> QED
            BY <4>1, <5>1, <5>2
        <4>6. Below(d, b) \cap Terminals \subseteq Parts[d][node] \cup {new}
          BY <3>3, <4>3, <4>4, BelowFacts
        <4>7. ASSUME Busy(Parts[d][node]) PROVE Busy(Parts[d + 1][r])
          <5>1. \A i \in DOMAIN c : Busy(Parts[e][c[i]])
            BY <3>3, <4>7 DEF Busy
          <5>2. \A i \in DOMAIN b : Busy(Parts[d][b[i]])
            BY <4>3, <4>4, <5>1
          <5>3. Busy(Below(d, b))
            BY <5>2, BelowFacts DEF Busy
          <5>4. Len(b) > 1
            BY <2>5, <3>2, <4>4, <4>7 DEF Busy, c
          <5> QED
            BY <4>5, <5>3, <5>4 DEF Busy
        <4>8. Inserted(d, node, r, new)
          BY <4>5, <4>6, <4>7 DEF Inserted
        <4> QED
          BY <4>8 DEF r
      <3> QED
        BY <3>5, <3>6
    <2> QED
      BY <2>3, <2>4, <2>5
  <1>3. 0 \in Good
    BY <1>2, NodesFacts
  <1>4. ASSUME NEW d \in Good PROVE d + 1 \in Good
    <2> SUFFICES ASSUME d + 1 <= MaxDepth, NEW node \in Nodes[d + 1]
                 PROVE  Inserted(d + 1, node, f[d + 1][node], new)
      OBVIOUS
    <2>1. d + 1 \in Nat /\ (d + 1) - 1 = d /\ d <= MaxDepth
      BY NodeAssumption
    <2>2. \A n \in Nodes[(d + 1) - 1] : Inserted((d + 1) - 1, n, f[(d + 1) - 1][n], new)
      BY <2>1
    <2> QED
      BY <1>2, <2>1, <2>2
  <1> HIDE DEF Good
  <1>5. Good \subseteq Nat
    BY DEF Good
  <1>6. Good = Nat
    BY <1>3, <1>4, <1>5, Induction
  <1> QED
    BY <1>6 DEF Good

LEMMA InsertFacts ==
  ASSUME NEW target, NEW new \in Terminals, NEW horizontal \in BOOLEAN,
         NEW before \in BOOLEAN, NEW root \in Node
  PROVE  Inserted(MaxDepth, root, InsertNode(root, target, new, horizontal, before), new)
  <1>1. PICK f : /\ \A x : InsertNode(x, target, new, horizontal, before) = f[MaxDepth][x]
                 /\ InsertLevelled(f, target, new, horizontal, before)
    BY InsertSolved
  <1>2. MaxDepth \in Nat /\ MaxDepth <= MaxDepth /\ root \in Nodes[MaxDepth]
    BY NodeAssumption DEF Node
  <1>3. Inserted(MaxDepth, root, f[MaxDepth][root], new)
    BY <1>1, <1>2, InsertLevels
  <1> QED
    BY <1>1, <1>3

LEMMA RemoveSolved ==
  ASSUME NEW target
  PROVE  \E f : /\ \A root : RemoveNode(root, target) = f[MaxDepth][root]
                /\ RemoveLevelled(f, target)
  <1> DEFINE k == [of |-> "remove", target |-> target]
  <1>1. \A d, b : Step(k, d, b) = RemoveStep(target, d, b)
    BY DEF Step
  <1>2. Grounded(k)
    <2>1. \A b, c : RemoveStep(target, 0, b) = RemoveStep(target, 0, c)
      BY NodesFacts DEF RemoveStep
    <2> QED
      BY <1>1, <2>1 DEF Grounded
  <1> HIDE DEF k
  <1>3. PICK g : g = [d \in Nat |-> Step(k, d, g[d - 1])]
    BY <1>2, Recursion
  <1>4. g = [d \in Nat |-> RemoveStep(target, d, g[d - 1])]
    BY <1>1, <1>3
  <1> DEFINE f == CHOOSE f : f = [d \in Nat |-> RemoveStep(target, d, f[d - 1])]
  <1>5. f = [d \in Nat |-> RemoveStep(target, d, f[d - 1])]
    BY <1>4, Zenon
  <1>6. \A root : RemoveNode(root, target) = f[MaxDepth][root]
    BY Zenon DEF RemoveNode, RemoveStep
  <1> HIDE DEF f
  <1>7. \A d \in Nat : f[d] = RemoveStep(target, d, f[d - 1])
    BY <1>5
  <1> QED
    BY <1>6, <1>7 DEF RemoveLevelled

\* What a removal does to a node: all other terminals stay and none comes, and no
\* container comes to idle.
Removed(d, node, result, target) ==
  /\ result \in Nodes[d] \cup {None}
  /\ result # None => /\ Parts[d][result] \cap Terminals \subseteq Parts[d][node]
                      /\ Busy(Parts[d][node]) => Busy(Parts[d][result])
  /\ \A x \in (Parts[d][node] \cap Terminals) \ {target} :
       result # None /\ x \in Parts[d][result]

\* What collapses keeps its terminals.
LEMMA CollapseFacts ==
  ASSUME NEW e \in Nat, e <= MaxDepth,
         NEW h \in BOOLEAN, NEW k \in Seq(Nodes[e])
  PROVE  /\ Collapse(h, k) \in Nodes[e + 1] \cup {None}
         /\ Collapse(h, k) = None => DOMAIN k = {}
         /\ Collapse(h, k) # None =>
              /\ Parts[e + 1][Collapse(h, k)] \cap Terminals = Below(e, k) \cap Terminals
              /\ Busy(Below(e, k)) => Busy(Parts[e + 1][Collapse(h, k)])
  <1>1. CASE k = <<>>
    BY <1>1 DEF Collapse
  <1>2. CASE k # <<>> /\ Len(k) = 1
    <2> DEFINE n == k[1]
               P1 == Parts[e + 1]
    <2>1. DOMAIN k = {1} /\ n \in Nodes[e]
      BY <1>2
    <2>2. Collapse(h, k) = n
      BY <1>2 DEF Collapse
    <2> HIDE DEF n
    <2>3. P1[n] = Parts[e][n] /\ n \in Nodes[e + 1] /\ n # None
      BY <2>1, PartsGrow, NodesGrow, NodeKinds
    <2>4. Below(e, k) = Parts[e][n]
      BY <2>1 DEF Below, n
    <2> QED
      BY <2>2, <2>3, <2>4
  <1>3. CASE k # <<>> /\ Len(k) # 1
    <2> DEFINE n == Container(h, k)
    <2>1. Len(k) > 1
      <3> DEFINE size == Len(k)
      <3>1. size \in Nat /\ (size = 0 => k = <<>>)
        OBVIOUS
      <3>2. size # 1
        BY <1>3
      <3> HIDE DEF size
      <3>3. size # 0
        BY <1>3, <3>1, Zenon
      <3>4. size > 1
        BY <3>1, <3>2, <3>3
      <3> QED
        BY <3>4 DEF size
    <2>2. Collapse(h, k) = n
      BY <1>3 DEF Collapse
    <2>3. n \in Nodes[e + 1] /\ n \notin Terminals /\ n.children = k
      BY NewKinds
    <2>4. n # None
      BY <2>3, NodeKinds
    <2>5. Parts[e + 1][n] = {n} \cup Below(e, k)
      BY ContainerParts
    <2> HIDE DEF n
    <2>6. Busy(Below(e, k)) => Busy(Parts[e + 1][n])
      BY <2>1, <2>3, <2>5 DEF Busy
    <2> QED
      BY <2>2, <2>3, <2>4, <2>5, <2>6
  <1> QED
    BY <1>1, <1>2, <1>3

LEMMA RemoveLevel ==
  ASSUME NEW target, NEW f, RemoveLevelled(f, target), NEW d \in Nat, NEW node \in Nodes[d]
  PROVE  f[d][node] =
           IF node \in Terminals THEN node
           ELSE Collapse(node.horizontal,
                  NonNull([i \in DOMAIN node.children |->
                             IF node.children[i] = target THEN None
                             ELSE f[d - 1][node.children[i]]]))
  <1> DEFINE b == f[d - 1]
  <1>1. f[d] = RemoveStep(target, d, b)
    BY DEF RemoveLevelled
  <1> HIDE DEF b
  <1>2. f[d][node] = RemoveStep(target, d, b)[node]
    BY <1>1
  <1>3. f[d][node] =
          IF node \in Terminals THEN node
          ELSE Collapse(node.horizontal,
                 NonNull([i \in DOMAIN node.children |->
                            IF node.children[i] = target THEN None ELSE b[node.children[i]]]))
    BY <1>2 DEF RemoveStep
  <1> QED
    BY <1>3 DEF b

LEMMA RemoveLevels ==
  ASSUME NEW target \in Terminals \cup {None},
         NEW f, RemoveLevelled(f, target)
  PROVE  \A d \in Nat : d <= MaxDepth =>
           \A node \in Nodes[d] : Removed(d, node, f[d][node], target)
  <1> DEFINE Good == {d \in Nat : d <= MaxDepth =>
                        \A node \in Nodes[d] : Removed(d, node, f[d][node], target)}
  <1>2. ASSUME NEW d \in Nat, d <= MaxDepth, NEW node \in Nodes[d],
               node \notin Terminals =>
                 \A n \in Nodes[d - 1] : Removed(d - 1, n, f[d - 1][n], target)
        PROVE  Removed(d, node, f[d][node], target)
    <2> DEFINE r == f[d][node]
               c == node.children
               h == node.horizontal
               e == d - 1
               s == [i \in DOMAIN c |-> IF c[i] = target THEN None ELSE f[e][c[i]]]
               k == NonNull(s)
    <2>1. r = IF node \in Terminals THEN node ELSE Collapse(h, k)
      BY <1>2, RemoveLevel
    <2>2. CASE node \in Terminals
      <3>1. r = node
        BY <2>1, <2>2
      <3> HIDE DEF r
      <3>2. Parts[d][node] = {node}
        BY <1>2, <2>2, PartsFacts
      <3>3. node # None
        BY <2>2, NodeAssumption
      <3>4. Removed(d, node, r, target)
        BY <1>2, <3>1, <3>2, <3>3 DEF Removed
      <3> QED
        BY <3>4 DEF r
    <2>3. CASE node \notin Terminals
      <3>1. /\ e \in Nat /\ e + 1 = d /\ e <= MaxDepth
            /\ h \in BOOLEAN /\ c \in Seq(Nodes[e])
            /\ \A i \in DOMAIN c : c[i] \in Nodes[e]
        BY <1>2, <2>3, OldKinds
      <3>2. Parts[d][node] = {node} \cup Below(e, c)
        BY <1>2, <2>3, PartsFacts
      <3>3. \A i \in DOMAIN c : Removed(e, c[i], f[e][c[i]], target)
        BY <1>2, <2>3, <3>1
      <3>4. r = Collapse(h, k)
        BY <2>1, <2>3
      <3>5. None \notin Nodes[e]
        BY <3>1, NodeKinds
      <3> HIDE DEF e, r, h
      <3>6. s \in Seq(Nodes[e] \cup {None})
        <4> DEFINE N == Nodes[e] \cup {None}
                   n == Len(c)
        <4>1. n \in Nat /\ DOMAIN c = 1 .. n
          BY <3>1
        <4>2. \A i \in DOMAIN c : f[e][c[i]] \in N
          BY <3>3 DEF Removed
        <4> HIDE DEF N, n, c
        <4>3. s \in [1 .. n -> N]
          BY <4>1, <4>2 DEF N
        <4> HIDE DEF s
        <4>4. s \in Seq(N)
          BY <4>1, <4>3
        <4> QED
          BY <4>4 DEF N
      <3>7. \A i \in DOMAIN c : s[i] = IF c[i] = target THEN None ELSE f[e][c[i]]
        OBVIOUS
      <3>8. DOMAIN s = DOMAIN c
        OBVIOUS
      <3> HIDE DEF s, c
      <3>9. /\ k \in Seq(Nodes[e])
            /\ \A j \in DOMAIN s : s[j] # None => \E x \in DOMAIN k : k[x] = s[j]
            /\ \A x \in DOMAIN k : \E j \in DOMAIN s : s[j] # None /\ k[x] = s[j]
        BY <3>5, <3>6, NonNullFacts
      <3> HIDE DEF k
      <3>10. /\ r \in Nodes[d] \cup {None}
             /\ r = None => DOMAIN k = {}
             /\ r # None => /\ Parts[d][r] \cap Terminals = Below(e, k) \cap Terminals
                            /\ Busy(Below(e, k)) => Busy(Parts[d][r])
        BY <3>1, <3>4, <3>9, CollapseFacts
      <3>11. ASSUME NEW x \in DOMAIN k
             PROVE  \E i \in DOMAIN c :
                      /\ Parts[e][k[x]] \cap Terminals \subseteq Parts[e][c[i]]
                      /\ Busy(Parts[e][c[i]]) => Busy(Parts[e][k[x]])
        <4>1. PICK i \in DOMAIN c : s[i] # None /\ k[x] = s[i]
          BY <3>8, <3>9
        <4>2. k[x] = f[e][c[i]] /\ k[x] # None
          BY <3>7, <4>1
        <4> QED
          BY <3>3, <4>2 DEF Removed
      <3>12. Below(e, k) \cap Terminals \subseteq Parts[d][node]
        BY <3>2, <3>11, BelowFacts
      <3>13. ASSUME Busy(Parts[d][node]) PROVE Busy(Below(e, k))
        <4>1. \A i \in DOMAIN c : Parts[e][c[i]] \subseteq Parts[d][node]
          BY <3>2, BelowFacts
        <4>2. \A i \in DOMAIN c : Busy(Parts[e][c[i]])
          BY <3>13, <4>1 DEF Busy
        <4>3. \A x \in DOMAIN k : Busy(Parts[e][k[x]])
          BY <3>11, <4>2
        <4> QED
          BY <4>3, BelowFacts DEF Busy
      <3>14. ASSUME NEW x \in (Parts[d][node] \cap Terminals) \ {target}
             PROVE  x \in Below(e, k)
        <4>1. PICK i \in DOMAIN c : x \in Parts[e][c[i]]
          BY <2>3, <3>2, BelowFacts
        <4>2. c[i] # target
          <5> SUFFICES ASSUME c[i] = target PROVE FALSE
            OBVIOUS
          <5>1. target \in Terminals /\ target \in Nodes[e]
            BY <3>1, <3>5
          <5>2. Parts[e][target] = {target}
            BY <3>1, <5>1, PartsFacts
          <5> QED
            BY <4>1, <5>2
        <4>3. s[i] # None /\ x \in Parts[e][s[i]]
          BY <3>3, <3>7, <4>1, <4>2 DEF Removed
        <4>4. PICK y \in DOMAIN k : k[y] = s[i]
          BY <3>8, <3>9, <4>3
        <4> QED
          BY <4>3, <4>4, BelowFacts
      <3>15. ASSUME NEW x \in (Parts[d][node] \cap Terminals) \ {target}
             PROVE  r # None /\ x \in Parts[d][r]
        <4>1. x \in Below(e, k) /\ x \in Terminals
          BY <3>14
        <4>2. DOMAIN k # {}
          BY <4>1, BelowFacts
        <4> QED
          BY <3>10, <4>1, <4>2
      <3>16. Removed(d, node, r, target)
        BY <3>10, <3>12, <3>13, <3>15 DEF Removed
      <3> QED
        BY <3>16 DEF r
    <2> QED
      BY <2>2, <2>3
  <1>3. 0 \in Good
    BY <1>2, NodesFacts
  <1>4. ASSUME NEW d \in Good PROVE d + 1 \in Good
    <2> SUFFICES ASSUME d + 1 <= MaxDepth, NEW node \in Nodes[d + 1]
                 PROVE  Removed(d + 1, node, f[d + 1][node], target)
      OBVIOUS
    <2>1. d + 1 \in Nat /\ (d + 1) - 1 = d /\ d <= MaxDepth
      BY NodeAssumption
    <2>2. \A n \in Nodes[(d + 1) - 1] : Removed((d + 1) - 1, n, f[(d + 1) - 1][n], target)
      BY <2>1
    <2> QED
      BY <1>2, <2>1, <2>2
  <1> HIDE DEF Good
  <1>5. Good \subseteq Nat
    BY DEF Good
  <1>6. Good = Nat
    BY <1>3, <1>4, <1>5, Induction
  <1> QED
    BY <1>6 DEF Good

LEMMA RemoveFacts ==
  ASSUME NEW target \in Terminals \cup {None}, NEW root \in Node
  PROVE  Removed(MaxDepth, root, RemoveNode(root, target), target)
  <1>1. PICK f : /\ \A x : RemoveNode(x, target) = f[MaxDepth][x]
                 /\ RemoveLevelled(f, target)
    BY RemoveSolved
  <1>2. MaxDepth \in Nat /\ MaxDepth <= MaxDepth /\ root \in Nodes[MaxDepth]
    BY NodeAssumption DEF Node
  <1>3. Removed(MaxDepth, root, f[MaxDepth][root], target)
    BY <1>1, <1>2, RemoveLevels
  <1> QED
    BY <1>1, <1>3

-----------------------------------------------------------------------------

\* A tree, or null, without idle containers.
Tree == Node \cup {None}
Tidy(root) == \A c \in Containers(root) : Len(c.children) > 1

LEMMA NothingThere == Panes(None) = {} /\ Tidy(None)
  BY DEF Panes, Containers, Tidy

\* Trees of which everything is known that the invariants ask for.
LEMMA TreeFacts ==
  ASSUME NEW root \in Node
  PROVE  /\ root # None /\ MaxDepth \in Nat /\ root \in Nodes[MaxDepth]
         /\ Panes(root) = Parts[MaxDepth][root] \cap Terminals
         /\ Tidy(root) <=> Busy(Parts[MaxDepth][root])
  <1>1. MaxDepth \in Nat /\ root \in Nodes[MaxDepth]
    BY NodeAssumption DEF Node
  <1>2. root # None
    BY <1>1, NodeKinds
  <1> QED
    BY <1>1, <1>2 DEF Panes, Containers, Tidy, Busy

LEMMA TerminalTree ==
  ASSUME NEW t \in Terminals
  PROVE  t \in Node /\ Panes(t) = {t} /\ Tidy(t)
  <1>1. MaxDepth \in Nat
    BY NodeAssumption
  <1>2. t \in Node
    BY <1>1, TerminalKinds DEF Node
  <1>3. Parts[MaxDepth][t] = {t}
    BY <1>1, <1>2, PartsFacts DEF Node
  <1> QED
    BY <1>2, <1>3, TreeFacts DEF Busy

\* The bound on the depth allowed what was inserted.
LEMMA InsertedTree ==
  ASSUME NEW root \in Node, NEW new, NEW r \in Tree,
         Inserted(MaxDepth, root, r, new)
  PROVE  /\ Panes(r) \subseteq Panes(root) \cup {new}
         /\ Tidy(root) => Tidy(r)
  <1> DEFINE D == MaxDepth
  <1>1. D \in Nat
    BY NodeAssumption
  <1>2. r \in Nodes[D + 1]
    BY DEF Inserted
  <1>3. r \in Node
    BY <1>1, <1>2, NodeKinds DEF Tree
  <1>4. Parts[D + 1][r] = Parts[D][r]
    BY <1>1, <1>3, PartsGrow DEF Node
  <1> QED
    BY <1>3, <1>4, TreeFacts DEF Inserted

LEMMA InsertTree ==
  ASSUME NEW target, NEW new \in Terminals, NEW horizontal \in BOOLEAN,
         NEW before \in BOOLEAN, NEW root \in Node,
         InsertNode(root, target, new, horizontal, before) \in Tree
  PROVE  /\ Panes(InsertNode(root, target, new, horizontal, before))
              \subseteq Panes(root) \cup {new}
         /\ Tidy(root) => Tidy(InsertNode(root, target, new, horizontal, before))
  BY InsertFacts, InsertedTree

LEMMA PairTree ==
  ASSUME NEW t \in Terminals, NEW root \in Node,
         Container(TRUE, <<root, t>>) \in Tree
  PROVE  /\ Panes(Container(TRUE, <<root, t>>)) \subseteq Panes(root) \cup {t}
         /\ Tidy(root) => Tidy(Container(TRUE, <<root, t>>))
  <1> DEFINE c == <<root, t>>
             r == Container(TRUE, c)
  <1>1. MaxDepth \in Nat /\ MaxDepth <= MaxDepth
    BY NodeAssumption
  <1>2. root \in Nodes[MaxDepth] /\ t \in Nodes[MaxDepth]
    BY TerminalTree DEF Node
  <1>3. c \in Seq(Nodes[MaxDepth]) /\ Len(c) > 1
    <2> DEFINE N == Nodes[MaxDepth]
    <2>1. root \in N /\ t \in N
      BY <1>2
    <2> HIDE DEF N
    <2>2. c \in Seq(N) /\ Len(c) = 2
      BY <2>1
    <2> QED
      BY <2>2 DEF N
  <1>4. \A i \in DOMAIN c : c[i] = t \/ Parts[MaxDepth][c[i]] \subseteq Parts[MaxDepth][root]
    OBVIOUS
  <1> HIDE DEF c
  <1>5. /\ r \in Nodes[MaxDepth + 1]
        /\ Parts[MaxDepth + 1][r] \cap Terminals \subseteq Parts[MaxDepth][root] \cup {t}
        /\ Busy(Parts[MaxDepth][root]) => Busy(Parts[MaxDepth + 1][r])
    BY <1>1, <1>3, <1>4, NewContainer
  <1>6. Inserted(MaxDepth, root, r, t)
    BY <1>5 DEF Inserted
  <1>7. r \in Tree
    BY DEF c
  <1> HIDE DEF r
  <1>8. Panes(r) \subseteq Panes(root) \cup {t} /\ (Tidy(root) => Tidy(r))
    BY <1>6, <1>7, InsertedTree
  <1> QED
    BY <1>8 DEF r, c

LEMMA RemoveTree ==
  ASSUME NEW target \in Terminals \cup {None}, NEW root \in Node
  PROVE  /\ RemoveNode(root, target) \in Tree
         /\ Panes(RemoveNode(root, target)) \subseteq Panes(root)
         /\ Panes(root) \ {target} \subseteq Panes(RemoveNode(root, target))
         /\ Tidy(root) => Tidy(RemoveNode(root, target))
  <1> DEFINE r == RemoveNode(root, target)
  <1>1. Removed(MaxDepth, root, r, target)
    BY RemoveFacts
  <1> HIDE DEF r
  <1>2. r \in Tree
    BY <1>1 DEF Removed, Tree, Node
  <1>3. CASE r = None
    <2>1. Panes(r) = {} /\ Tidy(r)
      BY <1>3, NothingThere
    <2>2. Panes(root) \ {target} = {}
      BY <1>1, <1>3, TreeFacts DEF Removed
    <2> QED
      BY <1>2, <2>1, <2>2 DEF r
  <1>4. CASE r # None
    <2>1. r \in Node
      BY <1>2, <1>4 DEF Tree
    <2>2. /\ Panes(r) = Parts[MaxDepth][r] \cap Terminals
          /\ Tidy(r) <=> Busy(Parts[MaxDepth][r])
          /\ Panes(root) = Parts[MaxDepth][root] \cap Terminals
          /\ Tidy(root) <=> Busy(Parts[MaxDepth][root])
      BY <2>1, TreeFacts
    <2> QED
      BY <1>1, <1>2, <1>4, <2>2 DEF Removed, r
  <1> QED
    BY <1>3, <1>4 DEF r

\* What a SplitView hides is what is dragged.
LEMMA FilterTree ==
  ASSUME NEW target \in Terminals \cup {None}, NEW root \in Tree
  PROVE  Panes(root) \ {target} \subseteq Panes(FilterNode(root, target))
  <1>1. CASE root = None
    BY <1>1, NothingThere
  <1>2. CASE root # None /\ root = target
    BY <1>2, TerminalTree
  <1>3. CASE root # None /\ root # target
    <2>1. root \in Node /\ FilterNode(root, target) = RemoveNode(root, target)
      BY <1>3 DEF Tree, FilterNode
    <2> QED
      BY <2>1, RemoveTree
  <1> QED
    BY <1>1, <1>2, <1>3

(***************************************************************************)
(* The inductive invariant.  A view is disposed only of a terminal that a  *)
(* SplitView hides, and that is one that was dragged: Views says so of     *)
(* every SplitView.                                                        *)
(***************************************************************************)

\* The trees.
Trees ==
  /\ roots \in Seq(Tree) /\ Len(roots) \in 1 .. MaxWorkspaces
  /\ current \in 0 .. Len(roots) - 1
  /\ opened \subseteq Terminals
  /\ \A i \in DOMAIN roots : Panes(roots[i]) \subseteq opened /\ Tidy(roots[i])

\* The SplitViews and the views in them.
Views ==
  /\ dragged \subseteq Terminals /\ shown \subseteq Terminals
  /\ dragging \in [DOMAIN roots -> dragged \cup {None}]
  /\ disposed \subseteq dragged

\* The page above them and the pointer.
Page ==
  /\ drag \in (dragged \cap opened) \cup {None}
  /\ chooser \in {"closed", "sheet", "dialog"}
  /\ {request, saving} \subseteq Requests \cup {None}
  /\ chooser = "sheet" => request \in Requests
  /\ saved \in BOOLEAN

Whole == Trees /\ Views /\ Page

LEMMA WholeGives == Whole => TypeOK /\ NoIdleContainers /\ ViewsKept
  <1> SUFFICES ASSUME Whole PROVE TypeOK /\ NoIdleContainers /\ ViewsKept
    OBVIOUS
  <1>1. Trees /\ Views /\ Page
    BY DEF Whole
  <1>2. /\ roots \in Seq(Node \cup {None}) /\ opened \subseteq Terminals
        /\ AllPanes(roots) \subseteq opened /\ Len(roots) \in 1 .. MaxWorkspaces
        /\ current \in 0 .. Len(roots) - 1
    BY <1>1 DEF Trees, Tree, AllPanes
  <1>3. /\ dragging \in [DOMAIN roots -> Terminals \cup {None}] /\ drag \in Terminals \cup {None}
        /\ shown \subseteq Terminals /\ disposed \subseteq Terminals /\ dragged \subseteq Terminals
    BY <1>1 DEF Views, Page
  <1>4. /\ chooser \in {"closed", "sheet", "dialog"}
        /\ {request, saving} \subseteq Requests \cup {NoRequest} /\ saved \in BOOLEAN
    BY <1>1 DEF Page, NoRequest
  <1>5. NoIdleContainers
    BY <1>1 DEF Trees, NoIdleContainers, Tidy
  <1>6. ViewsKept
    BY <1>1 DEF Views, ViewsKept
  <1> QED
    BY <1>2, <1>3, <1>4, <1>5, <1>6 DEF TypeOK

LEMMA RootsFacts ==
  ASSUME Trees
  PROVE  /\ Len(roots) \in Nat /\ DOMAIN roots = 1 .. Len(roots) /\ current + 1 \in DOMAIN roots
         /\ \A i \in DOMAIN roots : roots[i] \in Tree
         /\ Root = roots[current + 1] /\ Root \in Tree
         /\ Panes(Root) \subseteq opened /\ Tidy(Root)
  <1>1. /\ Len(roots) \in Nat /\ DOMAIN roots = 1 .. Len(roots)
        /\ \A i \in DOMAIN roots : roots[i] \in Tree
    BY DEF Trees
  <1>2. current + 1 \in DOMAIN roots
    BY <1>1 DEF Trees
  <1>3. Root = roots[current + 1]
    BY DEF Root
  <1> QED
    BY <1>1, <1>2, <1>3 DEF Trees

\* A frame hides nothing that was not dragged.
LEMMA ShowStep ==
  ASSUME NEW rs, NEW d, Show(rs, d), rs \in Seq(Tree), roots' = rs,
         d \in [DOMAIN roots -> dragged' \cup {None}], Views,
         dragged \subseteq dragged', dragged' \subseteq Terminals
  PROVE  Views'
  <1>1. /\ dragging' = [i \in DOMAIN rs |->
                          IF i \in DOMAIN roots /\ roots[i] # None /\ rs[i] # None
                          THEN d[i] ELSE None]
        /\ shown' = UNION {Panes(FilterNode(rs[i], dragging'[i])) : i \in DOMAIN rs}
        /\ disposed' = disposed \cup ((shown \ shown') \cap AllPanes(rs))
    BY DEF Show
  <1>2. dragging' \in [DOMAIN rs -> dragged' \cup {None}]
    BY <1>1
  <1>3. \A root : Panes(root) \subseteq Terminals
    BY DEF Panes
  <1>4. shown' \subseteq Terminals
    BY <1>1, <1>3
  <1>5. ASSUME NEW t \in AllPanes(rs), t \notin dragged' PROVE t \in shown'
    <2>1. PICK i \in DOMAIN rs : t \in Panes(rs[i])
      BY DEF AllPanes
    <2>2. rs[i] \in Tree /\ dragging'[i] \in Terminals \cup {None} /\ t # dragging'[i]
      <3>1. dragging'[i] \in dragged' \cup {None}
        BY <1>2
      <3>2. t \in Terminals /\ None \notin Terminals
        BY <1>3, <2>1, NodeAssumption
      <3>3. rs[i] \in Tree
        OBVIOUS
      <3> QED
        BY <1>5, <3>1, <3>2, <3>3
    <2>3. t \in Panes(FilterNode(rs[i], dragging'[i]))
      BY <2>1, <2>2, FilterTree
    <2> QED
      BY <1>1, <2>3
  <1>6. disposed' \subseteq dragged'
    BY <1>1, <1>5 DEF Views
  <1> QED
    BY <1>2, <1>4, <1>6 DEF Views

\* One workspace gets another tree.
LEMMA ReplaceStep ==
  ASSUME Trees, Views, NEW root, NEW d, Replace(root, d),
         d \in [DOMAIN roots -> dragged \cup {None}], UNCHANGED <<current, dragged>>,
         Tidy(root), Panes(root) \subseteq opened', opened \subseteq opened',
         opened' \subseteq Terminals
  PROVE  Trees' /\ Views'
  <1> DEFINE rs == [roots EXCEPT ![current + 1] = root]
  <1>1. root \in Tree /\ roots' = rs /\ Show(roots', d)
    BY DEF Replace, Tree
  <1>2. /\ rs \in Seq(Tree) /\ Len(rs) = Len(roots) /\ DOMAIN rs = DOMAIN roots
        /\ rs[current + 1] = root
        /\ \A i \in DOMAIN roots : i # current + 1 => rs[i] = roots[i]
    BY <1>1, RootsFacts DEF Trees
  <1> HIDE DEF rs
  <1>3. Trees'
    <2>1. \A i \in DOMAIN rs : Panes(rs[i]) \subseteq opened' /\ Tidy(rs[i])
      BY <1>2 DEF Trees
    <2> QED
      BY <1>1, <1>2, <2>1 DEF Trees
  <1>4. Views'
    <2>1. Show(rs, d)
      BY <1>1
    <2>2. d \in [DOMAIN roots -> dragged' \cup {None}] /\ dragged \subseteq dragged' /\ dragged' \subseteq Terminals
      BY DEF Views
    <2> QED
      BY <1>1, <1>2, <2>1, <2>2, ShowStep
  <1> QED
    BY <1>3, <1>4

LEMMA WholeInit == Init => Whole
  <1> SUFFICES ASSUME Init PROVE Whole
    OBVIOUS
  <1>1. roots = <<None>> /\ current = 0 /\ opened = {}
    BY DEF Init
  <1>2. roots \in Seq(Tree) /\ Len(roots) = 1 /\ DOMAIN roots = {1} /\ roots[1] = None
    BY <1>1 DEF Tree
  <1>3. Trees
    BY <1>1, <1>2, NothingThere, MaxWorkspacesAssumption DEF Trees
  <1>4. Views
    BY <1>2 DEF Init, Views
  <1>5. Page
    BY DEF Init, Page, NoRequest
  <1> QED
    BY <1>3, <1>4, <1>5 DEF Whole

\* Another workspace is current.
LEMMA SetCurrentIndexStep ==
  ASSUME Whole, NEW i, SetCurrentIndex(i)
  PROVE  Whole'
  BY DEF SetCurrentIndex, Whole, Trees, Views, Page, viewVars, pageVars

\* A new workspace is empty.
LEMMA WorkspaceAdded ==
  ASSUME Whole, AddWorkspace
  PROVE  Whole'
  <1> DEFINE rs == Append(roots, None)
  <1>1. /\ Len(roots) < MaxWorkspaces /\ roots' = rs /\ current' = Len(roots)
        /\ Show(roots', dragging)
        /\ UNCHANGED <<opened, drag, dragged, chooser, request, saved, saving>>
    BY DEF AddWorkspace, pageVars
  <1>2. Trees /\ Views /\ Page
    BY DEF Whole
  <1>3. /\ rs \in Seq(Tree) /\ Len(rs) = Len(roots) + 1 /\ DOMAIN rs = 1 .. Len(roots) + 1
        /\ rs[Len(roots) + 1] = None
        /\ \A i \in 1 .. Len(roots) : rs[i] = roots[i]
    BY <1>2 DEF Trees, Tree
  <1>4. Len(roots) \in Nat /\ DOMAIN roots = 1 .. Len(roots) /\ MaxWorkspaces \in Nat
    BY <1>2, RootsFacts, MaxWorkspacesAssumption
  <1> HIDE DEF rs
  <1>5. \A i \in DOMAIN rs : Panes(rs[i]) \subseteq opened /\ Tidy(rs[i])
    <2>1. \A i \in DOMAIN rs : i \in DOMAIN roots \/ i = Len(roots) + 1
      BY <1>3, <1>4
    <2> QED
      BY <1>2, <1>3, <1>4, <2>1, NothingThere DEF Trees
  <1>6. Trees'
    <2>1. Len(rs) \in 1 .. MaxWorkspaces /\ Len(roots) \in 0 .. Len(rs) - 1
      BY <1>1, <1>3, <1>4
    <2> QED
      BY <1>1, <1>2, <1>3, <1>5, <2>1 DEF Trees
  <1>7. Views'
    <2>1. /\ Show(rs, dragging) /\ dragging \in [DOMAIN roots -> dragged' \cup {None}]
          /\ dragged \subseteq dragged' /\ dragged' \subseteq Terminals
      BY <1>1, <1>2 DEF Views
    <2> QED
      BY <1>1, <1>2, <1>3, <2>1, ShowStep
  <1>8. Page'
    BY <1>1, <1>2 DEF Page
  <1> QED
    BY <1>6, <1>7, <1>8 DEF Whole

\* The other workspaces keep their trees, and there is always one.
LEMMA RemoveAtType ==
  ASSUME NEW S, NEW s \in Seq(S), NEW i \in DOMAIN s
  PROVE  RemoveAt(s, i) \in Seq(S) /\ Len(RemoveAt(s, i)) = Len(s) - 1
  <1> DEFINE a == SubSeq(s, 1, i - 1)
             b == SubSeq(s, i + 1, Len(s))
  <1>1. Len(s) \in Nat /\ i \in 1 .. Len(s) /\ i - 1 \in 0 .. Len(s)
    OBVIOUS
  <1>2. a \in Seq(S) /\ Len(a) = i - 1
    BY <1>1
  <1>3. b \in Seq(S) /\ Len(b) = Len(s) - i
    BY <1>1
  <1>4. RemoveAt(s, i) = a \o b
    BY DEF RemoveAt
  <1> HIDE DEF a, b
  <1>5. a \o b \in Seq(S) /\ Len(a \o b) = Len(a) + Len(b)
    BY <1>2, <1>3, ConcatProperties
  <1>6. (i - 1) + (Len(s) - i) = Len(s) - 1
    BY <1>1
  <1> QED
    BY <1>2, <1>3, <1>4, <1>5, <1>6

LEMMA WorkspaceRemoved ==
  ASSUME Whole, NEW i, RemoveWorkspace(i)
  PROVE  Whole'
  <1>1. /\ i \in DOMAIN roots
        /\ roots' = IF Len(roots) = 1 THEN <<None>> ELSE RemoveAt(roots, i)
        /\ current' = IF current >= Len(roots') THEN Len(roots') - 1 ELSE current
        /\ Show(roots', dragging)
        /\ UNCHANGED <<opened, drag, dragged, chooser, request, saved, saving>>
    BY DEF RemoveWorkspace, pageVars
  <1>2. Trees /\ Views /\ Page
    BY DEF Whole
  <1>3. /\ Len(roots) \in Nat /\ DOMAIN roots = 1 .. Len(roots)
        /\ \A j \in DOMAIN roots : roots[j] \in Tree
    BY <1>2, RootsFacts
  \* What every tree that is left is.
  <1> DEFINE Fine(root) == root \in Tree /\ Panes(root) \subseteq opened /\ Tidy(root)
             S == {root \in Tree : Fine(root)}
  <1>4. PICK rs : /\ roots' = rs /\ rs \in Seq(S) /\ Len(rs) \in 1 .. MaxWorkspaces
    <2>1. CASE Len(roots) = 1
      <3>1. None \in S
        BY NothingThere DEF Tree
      <3> HIDE DEF S
      <3> DEFINE e == <<None>>
      <3>2. e \in Seq(S) /\ Len(e) = 1
        BY <3>1
      <3>3. roots' = e
        BY <1>1, <2>1
      <3> HIDE DEF e
      <3>4. Len(e) \in 1 .. MaxWorkspaces
        BY <3>2, MaxWorkspacesAssumption
      <3> QED
        BY <3>2, <3>3, <3>4
    <2>2. CASE Len(roots) # 1
      <3>1. \A j \in DOMAIN roots : roots[j] \in S
        BY <1>2, <1>3 DEF Trees
      <3> HIDE DEF S
      <3>2. roots \in Seq(S)
        BY <1>2, <3>1 DEF Trees
      <3>3. RemoveAt(roots, i) \in Seq(S) /\ Len(RemoveAt(roots, i)) = Len(roots) - 1
        BY <1>1, <3>2, RemoveAtType
      <3> DEFINE n == Len(roots)
      <3>4. n \in 1 .. MaxWorkspaces /\ MaxWorkspaces \in Nat /\ n # 1
        BY <1>2, <2>2, MaxWorkspacesAssumption DEF Trees
      <3> HIDE DEF n
      <3>a. n - 1 \in 1 .. MaxWorkspaces
        BY <3>4
      <3>5. Len(roots) - 1 \in 1 .. MaxWorkspaces
        BY <3>a DEF n
      <3> QED
        BY <1>1, <2>2, <3>3, <3>5
    <2> QED
      BY <2>1, <2>2
  <1>5. rs \in Seq(Tree) /\ \A j \in DOMAIN rs : Fine(rs[j])
    BY <1>4
  <1>6. Trees'
    <2>1. current' \in 0 .. Len(rs) - 1
      <3>1. current \in Nat /\ Len(rs) \in Nat /\ Len(rs) >= 1
        BY <1>2, <1>3, <1>4, MaxWorkspacesAssumption DEF Trees
      <3>2. current' = IF current >= Len(rs) THEN Len(rs) - 1 ELSE current
        BY <1>1, <1>4
      <3> QED
        BY <3>1, <3>2
    <2> QED
      BY <1>1, <1>2, <1>4, <1>5, <2>1 DEF Trees
  <1>7. Views'
    <2>1. /\ Show(rs, dragging) /\ dragging \in [DOMAIN roots -> dragged' \cup {None}]
          /\ dragged \subseteq dragged' /\ dragged' \subseteq Terminals
      BY <1>1, <1>2, <1>4 DEF Views
    <2> QED
      BY <1>2, <1>4, <1>5, <2>1, ShowStep
  <1>8. Page'
    BY <1>1, <1>2 DEF Page
  <1> QED
    BY <1>6, <1>7, <1>8 DEF Whole

\* A choice that opens a terminal: it takes nobody's place.
LEMMA PaneOpened ==
  ASSUME Trees, Views, UNCHANGED dragged,
         NEW r \in Requests, OpenPane(r)
  PROVE  Trees' /\ Views' /\ opened \subseteq opened'
  <1>1. PICK t \in Terminals \ opened :
          /\ IF r.op = "add" THEN AddTerminal(t) ELSE SplitTerminal(r.target, t, r.horizontal)
          /\ opened' = opened \cup ({t} \cap AllPanes(roots'))
          /\ UNCHANGED current
    BY DEF OpenPane
  <1>2. r.horizontal \in BOOLEAN
    BY DEF Requests
  <1>3. Root \in Tree /\ Panes(Root) \subseteq opened /\ Tidy(Root)
    BY RootsFacts
  <1>4. PICK root : /\ Replace(root, dragging) /\ Tidy(root)
                    /\ Panes(root) \subseteq opened \cup {t}
    <2>1. CASE r.op = "add" /\ Root = None
      <3>1. Replace(t, dragging)
        BY <1>1, <2>1 DEF AddTerminal
      <3>2. Panes(t) = {t} /\ Tidy(t)
        BY TerminalTree
      <3> QED
        BY <3>1, <3>2
    <2>2. CASE r.op = "add" /\ Root # None
      <3> DEFINE n == Container(TRUE, <<Root, t>>)
      <3>1. Replace(n, dragging)
        BY <1>1, <2>2 DEF AddTerminal
      <3>2. n \in Tree
        BY <3>1 DEF Replace, Tree
      <3>3. Root \in Node
        BY <1>3, <2>2 DEF Tree
      <3>4. Panes(n) \subseteq Panes(Root) \cup {t} /\ Tidy(n)
        BY <1>3, <3>2, <3>3, PairTree
      <3> QED
        BY <1>3, <3>1, <3>4
    <2>3. CASE r.op # "add" /\ Root = None
      <3>1. Replace(None, dragging)
        BY <1>1, <2>3 DEF SplitTerminal
      <3> QED
        BY <3>1, NothingThere
    <2>4. CASE r.op # "add" /\ Root # None
      <3> DEFINE n == InsertNode(Root, r.target, t, r.horizontal, FALSE)
      <3>1. Replace(n, dragging)
        BY <1>1, <2>4 DEF SplitTerminal
      <3>2. n \in Tree
        BY <3>1 DEF Replace, Tree
      <3>3. Root \in Node
        BY <1>3, <2>4 DEF Tree
      <3>4. Panes(n) \subseteq Panes(Root) \cup {t} /\ Tidy(n)
        BY <1>2, <1>3, <3>2, <3>3, InsertTree
      <3> QED
        BY <1>3, <3>1, <3>4
    <2> QED
      BY <2>1, <2>2, <2>3, <2>4
  <1>5. Panes(root) \subseteq AllPanes(roots')
    <2>1. /\ roots' = [roots EXCEPT ![current + 1] = root]
          /\ current + 1 \in DOMAIN roots
      BY <1>4, RootsFacts DEF Replace
    <2>2. current + 1 \in DOMAIN roots' /\ roots'[current + 1] = root
      BY <2>1 DEF Trees
    <2> QED
      BY <2>2 DEF AllPanes
  <1>6. /\ opened \subseteq opened' /\ opened' \subseteq Terminals
        /\ Panes(root) \subseteq opened'
    BY <1>1, <1>4, <1>5 DEF Trees
  <1>7. dragging \in [DOMAIN roots -> dragged \cup {None}]
    BY DEF Views
  <1> QED
    BY <1>1, <1>4, <1>6, <1>7, ReplaceStep

\* The steps of the page that open a terminal, and those that open none.
LEMMA PageOpens ==
  ASSUME Whole, ConnectSaved \/ PickSaved \/ DialogConfirm \/ SaveDone
  PROVE  Whole'
  <1>1. Trees /\ Views /\ Page
    BY DEF Whole
  <1>2. CASE ConnectSaved
    <2> DEFINE r == [op |-> "add", target |-> None, horizontal |-> TRUE]
    <2>1. r \in Requests
      BY DEF Requests
    <2>2. OpenPane(r) /\ UNCHANGED <<drag, dragged, chooser, request, saved, saving>>
      BY <1>2 DEF ConnectSaved, pageVars
    <2> HIDE DEF r
    <2>3. Trees' /\ Views' /\ opened \subseteq opened'
      BY <1>1, <2>1, <2>2, PaneOpened
    <2>4. Page'
      BY <1>1, <2>2, <2>3 DEF Page
    <2> QED
      BY <2>3, <2>4 DEF Whole
  <1>3. CASE PickSaved
    <2>1. /\ chooser = "sheet" /\ OpenPane(request) /\ chooser' = "closed" /\ request' = None
          /\ UNCHANGED <<drag, dragged, saved, saving>>
      BY <1>3 DEF PickSaved, NoRequest
    <2>2. request \in Requests
      BY <1>1, <2>1 DEF Page
    <2>3. Trees' /\ Views' /\ opened \subseteq opened'
      BY <1>1, <2>1, <2>2, PaneOpened
    <2>4. Page'
      BY <1>1, <2>1, <2>3 DEF Page
    <2> QED
      BY <2>3, <2>4 DEF Whole
  <1>4. CASE DialogConfirm
    <2>1. /\ IF request # None THEN OpenPane(request) ELSE UNCHANGED <<treeVars, viewVars>>
          /\ chooser' = "closed" /\ request' = None
          /\ UNCHANGED <<drag, dragged, saved, saving>>
      BY <1>4 DEF DialogConfirm, NoRequest
    <2>2. Trees' /\ Views' /\ opened \subseteq opened'
      <3>1. CASE request # None
        <4>1. request \in Requests /\ OpenPane(request)
          BY <1>1, <2>1, <3>1 DEF Page
        <4> QED
          BY <1>1, <2>1, <4>1, PaneOpened
      <3>2. CASE request = None
        BY <1>1, <2>1, <3>2 DEF treeVars, viewVars, Trees, Views
      <3> QED
        BY <3>1, <3>2
    <2>3. Page'
      BY <1>1, <2>1, <2>2 DEF Page
    <2> QED
      BY <2>2, <2>3 DEF Whole
  <1>5. CASE SaveDone
    <2>1. /\ saving # None /\ OpenPane(saving) /\ saving' = None
          /\ UNCHANGED <<drag, dragged, chooser, request, saved>>
      BY <1>5 DEF SaveDone, NoRequest
    <2>2. saving \in Requests
      BY <1>1, <2>1 DEF Page
    <2>3. Trees' /\ Views' /\ opened \subseteq opened'
      BY <1>1, <2>1, <2>2, PaneOpened
    <2>4. Page'
      BY <1>1, <2>1, <2>3 DEF Page
    <2> QED
      BY <2>3, <2>4 DEF Whole
  <1> QED
    BY <1>2, <1>3, <1>4, <1>5

LEMMA PageOnly ==
  ASSUME Whole, UNCHANGED <<treeVars, viewVars, drag, dragged>>, Page'
  PROVE  Whole'
  BY DEF Whole, Trees, Views, treeVars, viewVars

\* The steps that change the page alone.
LEMMA PageSteps ==
  ASSUME Whole,
         \/ EditSaved \/ PickNew \/ DialogConfirmFavorite \/ SaveFails \/ Dismiss
         \/ \E r \in Requests : ShowConnectionChooser(r)
  PROVE  Whole'
  <1>1. Page
    BY DEF Whole
  <1>2. CASE EditSaved
    BY <1>1, <1>2, PageOnly DEF EditSaved, treeVars, Page
  <1>3. CASE PickNew
    BY <1>1, <1>3, PageOnly DEF PickNew, treeVars, NoRequest, Page
  <1>4. CASE DialogConfirmFavorite
    BY <1>1, <1>4, PageOnly DEF DialogConfirmFavorite, treeVars, NoRequest, Page
  <1>5. CASE SaveFails
    BY <1>1, <1>5, PageOnly DEF SaveFails, treeVars, NoRequest, Page
  <1>6. CASE Dismiss
    BY <1>1, <1>6, PageOnly DEF Dismiss, treeVars, NoRequest, Page
  <1>7. ASSUME NEW r \in Requests, ShowConnectionChooser(r) PROVE Whole'
    BY <1>1, <1>7, PageOnly DEF ShowConnectionChooser, treeVars, Page
  <1> QED
    BY <1>2, <1>3, <1>4, <1>5, <1>6, <1>7

\* A terminal is closed: the others stay.
LEMMA TerminalClosed ==
  ASSUME Whole, NEW t \in Terminals, CloseTerminal(t)
  PROVE  Whole'
  <1> DEFINE root == IF Root = t THEN None ELSE RemoveNode(Root, t)
  <1>1. Trees /\ Views /\ Page
    BY DEF Whole
  <1>2. /\ t \in Panes(Root) /\ Replace(root, dragging)
        /\ UNCHANGED <<current, opened, drag, dragged, chooser, request, saved, saving>>
    BY DEF CloseTerminal, Present, pageVars
  <1>3. Root \in Tree /\ Panes(Root) \subseteq opened /\ Tidy(Root)
    BY <1>1, RootsFacts
  <1>4. Root \in Node
    BY <1>2, <1>3, NothingThere DEF Tree
  <1>5. Tidy(root) /\ Panes(root) \subseteq opened
    BY <1>3, <1>4, RemoveTree, NothingThere
  <1>6. dragging \in [DOMAIN roots -> dragged \cup {None}] /\ opened \subseteq Terminals
    BY <1>1 DEF Views, Trees
  <1> HIDE DEF root
  <1>7. Panes(root) \subseteq opened' /\ opened \subseteq opened' /\ opened' \subseteq Terminals
    BY <1>2, <1>5, <1>6
  <1>8. Trees' /\ Views'
    BY <1>1, <1>2, <1>5, <1>6, <1>7, ReplaceStep
  <1>9. Page'
    BY <1>1, <1>2 DEF Page
  <1> QED
    BY <1>8, <1>9 DEF Whole

LEMMA AfterDragType ==
  ASSUME Trees, Views
  PROVE  AfterDrag \in [DOMAIN roots -> dragged \cup {None}]
  BY DEF AfterDrag, Views

\* The terminal that a drag takes out comes in again somewhere.
LEMMA Dropped ==
  ASSUME Whole, NEW t \in Terminals, NEW h \in BOOLEAN, NEW before \in BOOLEAN,
         Drop(t, h, before)
  PROVE  Whole'
  <1> DEFINE rest == RemoveNode(Root, drag)
             root == IF rest = None THEN drag ELSE InsertNode(rest, t, drag, h, before)
  <1>1. Trees /\ Views /\ Page
    BY DEF Whole
  <1>2. /\ drag # None /\ t \in Panes(Root) /\ Replace(root, AfterDrag)
        /\ drag' = None
        /\ UNCHANGED <<current, opened, dragged, chooser, request, saved, saving>>
    BY DEF Drop, Present, MoveTerminal, pageVars
  <1>3. Root \in Tree /\ Panes(Root) \subseteq opened /\ Tidy(Root)
    BY <1>1, RootsFacts
  <1>4. Root \in Node
    BY <1>2, <1>3, NothingThere DEF Tree
  <1>5. drag \in Terminals
    BY <1>1, <1>2 DEF Page, Views
  <1>6. rest \in Tree /\ Panes(rest) \subseteq opened /\ Tidy(rest)
    BY <1>3, <1>4, <1>5, RemoveTree
  <1>7. root \in Tree
    BY <1>2 DEF Replace, Tree
  <1> HIDE DEF rest
  <1>8. Tidy(root) /\ Panes(root) \subseteq opened \cup {drag}
    <2>1. CASE rest = None
      BY <1>5, <2>1, TerminalTree
    <2>2. CASE rest # None
      <3> DEFINE n == InsertNode(rest, t, drag, h, before)
      <3>1. rest \in Node /\ n \in Tree /\ root = n
        BY <1>6, <1>7, <2>2 DEF Tree
      <3>2. Panes(n) \subseteq Panes(rest) \cup {drag} /\ Tidy(n)
        BY <1>5, <1>6, <3>1, InsertTree
      <3> QED
        BY <1>6, <3>1, <3>2
    <2> QED
      BY <2>1, <2>2
  <1>9. drag \in opened /\ opened \subseteq Terminals
    BY <1>1, <1>2 DEF Page, Trees
  <1>10. AfterDrag \in [DOMAIN roots -> dragged \cup {None}]
    BY <1>1, AfterDragType
  <1> HIDE DEF root
  <1>11. Panes(root) \subseteq opened' /\ opened \subseteq opened' /\ opened' \subseteq Terminals
    BY <1>2, <1>8, <1>9
  <1>12. Trees' /\ Views'
    BY <1>1, <1>2, <1>8, <1>10, <1>11, ReplaceStep
  <1>13. Page'
    BY <1>1, <1>2 DEF Page
  <1> QED
    BY <1>12, <1>13 DEF Whole

\* The pointer takes a terminal up, and lets go of it where no zone is.
LEMMA DragSteps ==
  ASSUME Whole, Release \/ \E t \in Terminals : DragStart(t)
  PROVE  Whole'
  <1>1. Trees /\ Views /\ Page
    BY DEF Whole
  <1>2. roots \in Seq(Tree) /\ current + 1 \in DOMAIN roots
    BY <1>1, RootsFacts DEF Trees
  <1>3. CASE Release
    <2>1. /\ drag' = None /\ Show(roots, AfterDrag)
          /\ UNCHANGED <<roots, current, opened, dragged, chooser, request, saved, saving>>
      BY <1>3 DEF Release, treeVars, pageVars
    <2>2. /\ AfterDrag \in [DOMAIN roots -> dragged' \cup {None}]
          /\ dragged \subseteq dragged' /\ dragged' \subseteq Terminals
      BY <1>1, <2>1, AfterDragType DEF Views
    <2>3. Views'
      BY <1>1, <1>2, <2>1, <2>2, ShowStep
    <2>4. Trees' /\ Page'
      BY <1>1, <2>1 DEF Trees, Page
    <2> QED
      BY <2>3, <2>4 DEF Whole
  <1>4. ASSUME NEW t \in Terminals, DragStart(t) PROVE Whole'
    <2> DEFINE d == [dragging EXCEPT ![current + 1] = t]
    <2>1. /\ t \in Panes(Root) /\ drag' = t /\ dragged' = dragged \cup {t}
          /\ Show(roots, d)
          /\ UNCHANGED <<roots, current, opened, chooser, request, saved, saving>>
      BY <1>4 DEF DragStart, Present, treeVars, pageVars
    <2>2. d \in [DOMAIN roots -> dragged' \cup {None}]
      BY <1>1, <2>1 DEF Views
    <2>3. dragged \subseteq dragged' /\ dragged' \subseteq Terminals /\ t \in opened
      BY <1>1, <2>1, RootsFacts DEF Views
    <2> HIDE DEF d
    <2>4. Views'
      BY <1>1, <1>2, <2>1, <2>2, <2>3, ShowStep
    <2>5. Trees' /\ Page'
      BY <1>1, <2>1, <2>3 DEF Trees, Page
    <2> QED
      BY <2>4, <2>5 DEF Whole
  <1> QED
    BY <1>3, <1>4

\* The invariant holds in every state of every behaviour.
THEOREM WorkspaceInductive == Spec => []Whole
  <1>1. Init => Whole
    BY WholeInit
  <1>2. ASSUME Whole, [Next]_(vars) PROVE Whole'
    <2>1. CASE UNCHANGED vars
      BY <1>2, <2>1 DEF vars, treeVars, viewVars, pageVars, Whole, Trees, Views, Page
    <2>2. CASE \E i \in 0 .. MaxWorkspaces : SetCurrentIndex(i) \/ RemoveWorkspace(i)
      BY <1>2, <2>2, SetCurrentIndexStep, WorkspaceRemoved
    <2>3. CASE AddWorkspace
      BY <1>2, <2>3, WorkspaceAdded
    <2>4. CASE ConnectSaved \/ PickSaved \/ DialogConfirm \/ SaveDone
      BY <1>2, <2>4, PageOpens
    <2>5. CASE \/ EditSaved \/ PickNew \/ DialogConfirmFavorite \/ SaveFails \/ Dismiss
               \/ \E r \in Requests : ShowConnectionChooser(r)
      BY <1>2, <2>5, PageSteps
    <2>6. CASE Release \/ \E t \in Terminals : DragStart(t)
      BY <1>2, <2>6, DragSteps
    <2>7. CASE \E t \in Terminals : CloseTerminal(t)
      BY <1>2, <2>7, TerminalClosed
    <2>8. CASE \E t \in Terminals, horizontal, before \in BOOLEAN : Drop(t, horizontal, before)
      BY <1>2, <2>8, Dropped
    <2> QED
      BY <1>2, <2>1, <2>2, <2>3, <2>4, <2>5, <2>6, <2>7, <2>8 DEF Next
  <1> QED
    BY <1>1, <1>2, PTL DEF Spec

\* However deep the trees get, every variable of the workspaces keeps its type and
\* the current workspace is one of the list.
THEOREM WorkspaceTypeCorrect == Spec => []TypeOK
  BY WholeGives, WorkspaceInductive, PTL

\* Whatever is split, moved and closed, no container is left with one child.
THEOREM NoIdleContainersHolds == Spec => []NoIdleContainers
  BY WholeGives, WorkspaceInductive, PTL

\* A terminal nobody dragged keeps its view, however many are split, moved and
\* closed around it in however many workspaces.
THEOREM ViewsKeptHolds == Spec => []ViewsKept
  BY WholeGives, WorkspaceInductive, PTL

-----------------------------------------------------------------------------
(***************************************************************************)
(* The trees read in order are the lists of PaneLists.  First sequences of *)
(* sequences and what they are in one piece.                               *)
(***************************************************************************)

Associative(S) == \A a, b, c \in Seq(S) : (a \o b) \o c = a \o (b \o c)

LEMMA ConcatAssociates == \A S : Associative(S)
  BY ConcatAssociative DEF Associative

LEMMA FlatSolved ==
  ASSUME NEW s, Len(s) \in Nat, Len(s) # 0
  PROVE  \E f : /\ FlattenSeq(s) = f[Len(s)]
                /\ \A i \in 1 .. Len(s) : f[i] = IF i = 1 THEN s[i] ELSE f[i - 1] \o s[i]
  <1> DEFINE k == [of |-> "flat", seqs |-> s]
             n == Len(s)
  <1>1. \A i, b : Step(k, i, b) = FlatStep(s, i, b)
    BY DEF Step
  <1>2. Grounded(k)
    BY <1>1 DEF Grounded, FlatStep
  <1> HIDE DEF k
  <1>3. PICK g : g = [i \in 0 .. n |-> Step(k, i, g[i - 1])]
    BY <1>2, UptoExists DEF Upto
  <1> DEFINE h == [i \in 1 .. n |-> g[i]]
             f == CHOOSE f : f = [i \in 1 .. n |-> IF i = 1 THEN s[i] ELSE f[i - 1] \o s[i]]
  <1>4. h = [i \in 1 .. n |-> IF i = 1 THEN s[i] ELSE h[i - 1] \o s[i]]
    <2>1. ASSUME NEW i \in 1 .. n PROVE g[i] = IF i = 1 THEN s[i] ELSE h[i - 1] \o s[i]
      <3>1. g[i] = FlatStep(s, i, g[i - 1])
        BY <1>1, <1>3
      <3>2. CASE i = 1
        BY <3>1, <3>2 DEF FlatStep
      <3>3. CASE i # 1
        <4>1. h[i - 1] = g[i - 1] /\ ~(i <= 1)
          BY <3>3
        <4> HIDE DEF h
        <4> QED
          BY <3>1, <3>3, <4>1 DEF FlatStep
      <3> QED
        BY <3>2, <3>3
    <2> DEFINE e(i) == IF i = 1 THEN s[i] ELSE h[i - 1] \o s[i]
    <2>2. \A i \in 1 .. n : g[i] = e(i)
      BY <2>1
    <2> HIDE DEF e
    <2>3. [i \in 1 .. n |-> g[i]] = [i \in 1 .. n |-> e(i)]
      BY <2>2
    <2> QED
      BY <2>3, Zenon DEF e
  <1>5. f = [i \in 1 .. n |-> IF i = 1 THEN s[i] ELSE f[i - 1] \o s[i]]
    BY <1>4, Zenon
  <1>6. FlattenSeq(s) = f[n]
    BY Zenon DEF FlattenSeq
  <1> HIDE DEF f
  <1>7. \A i \in 1 .. n : f[i] = IF i = 1 THEN s[i] ELSE f[i - 1] \o s[i]
    BY <1>5
  <1> QED
    BY <1>6, <1>7

\* The pieces of s one after the other, as far as the i-th.
Run(s, f) == f[0] = <<>> /\ \A i \in 1 .. Len(s) : f[i] = f[i - 1] \o s[i]

LEMMA FlatRun ==
  ASSUME NEW S, NEW s \in Seq(Seq(S))
  PROVE  \E f : Run(s, f) /\ FlattenSeq(s) = f[Len(s)]
  <1> DEFINE n == Len(s)
  <1>1. n \in Nat /\ \A i \in 1 .. n : s[i] \in Seq(S)
    OBVIOUS
  <1>2. n = 0 => s = <<>>
    OBVIOUS
  <1>3. CASE n = 0
    <2> DEFINE f == [i \in 0 .. n |-> <<>>]
    <2>1. FlattenSeq(s) = <<>>
      BY <1>2, <1>3 DEF FlattenSeq
    <2>2. f[0] = <<>> /\ f[n] = <<>> /\ \A i \in 1 .. n : FALSE
      BY <1>3
    <2> QED
      BY <2>1, <2>2 DEF Run
  <1>4. CASE n # 0
    <2>1. PICK g : /\ FlattenSeq(s) = g[n]
                   /\ \A i \in 1 .. n : g[i] = IF i = 1 THEN s[i] ELSE g[i - 1] \o s[i]
      BY <1>1, <1>4, FlatSolved
    <2> DEFINE f == [i \in 0 .. n |-> IF i = 0 THEN <<>> ELSE g[i]]
    <2>2. f[0] = <<>> /\ \A i \in 1 .. n : f[i] = g[i]
      BY <1>1
    <2>3. f[n] = g[n]
      BY <1>1, <1>4, <2>2
    <2>4. ASSUME NEW i \in 1 .. n PROVE f[i] = f[i - 1] \o s[i]
      <3>1. CASE i = 1
        <4>1. f[i] = s[i] /\ f[i - 1] = <<>>
          BY <2>1, <2>2, <3>1
        <4> HIDE DEF f
        <4> QED
          BY <1>1, <4>1, ConcatEmptySeq
      <3>2. CASE i # 1
        <4>1. i - 1 \in 1 .. n
          BY <3>2
        <4>2. f[i] = g[i] /\ f[i - 1] = g[i - 1]
          BY <2>2, <4>1
        <4> HIDE DEF f
        <4> QED
          BY <2>1, <3>2, <4>2
      <3> QED
        BY <3>1, <3>2
    <2> HIDE DEF f
    <2> QED
      BY <2>1, <2>2, <2>3, <2>4 DEF Run
  <1> QED
    BY <1>3, <1>4

LEMMA RunUnique ==
  ASSUME NEW s, Len(s) \in Nat, NEW f, NEW g, Run(s, f), Run(s, g)
  PROVE  \A i \in 0 .. Len(s) : f[i] = g[i]
  <1> DEFINE n == Len(s)
             Good == {i \in Nat : i <= n => f[i] = g[i]}
  <1>1. n \in Nat
    OBVIOUS
  <1>2. f[0] = g[0]
    BY DEF Run
  <1>3. \A i \in 1 .. n : f[i] = f[i - 1] \o s[i] /\ g[i] = g[i - 1] \o s[i]
    BY DEF Run
  <1> HIDE DEF n
  <1>4. 0 \in Good
    BY <1>2
  <1>5. ASSUME NEW i \in Good PROVE i + 1 \in Good
    <2> SUFFICES ASSUME i + 1 <= n PROVE f[i + 1] = g[i + 1]
      OBVIOUS
    <2>1. i + 1 \in 1 .. n /\ (i + 1) - 1 = i /\ f[i] = g[i]
      BY <1>1
    <2> QED
      BY <1>3, <2>1
  <1> HIDE DEF Good
  <1>6. Good \subseteq Nat
    BY DEF Good
  <1>7. Good = Nat
    BY <1>4, <1>5, <1>6, Induction
  <1> QED
    BY <1>1, <1>7 DEF Good, n

LEMMA RunType ==
  ASSUME NEW S, NEW s \in Seq(Seq(S)), NEW f, Run(s, f)
  PROVE  \A i \in 0 .. Len(s) :
           /\ f[i] \in Seq(S)
           /\ \A x \in Range(f[i]) : \E j \in DOMAIN s : x \in Range(s[j])
  <1> DEFINE n == Len(s)
             Among(x) == \E j \in DOMAIN s : x \in Range(s[j])
             Good == {i \in Nat : i <= n => f[i] \in Seq(S) /\ \A x \in Range(f[i]) : Among(x)}
  <1>1. n \in Nat /\ DOMAIN s = 1 .. n /\ \A i \in 1 .. n : s[i] \in Seq(S)
    OBVIOUS
  <1>2. f[0] = <<>> /\ \A i \in 1 .. n : f[i] = f[i - 1] \o s[i]
    BY DEF Run
  <1> HIDE DEF n
  <1>3. 0 \in Good
    <2>1. <<>> \in Seq(S) /\ Range(<<>>) = {}
      BY EmptySeq DEF Range
    <2> QED
      BY <1>2, <2>1
  <1>4. ASSUME NEW i \in Good PROVE i + 1 \in Good
    <2> SUFFICES ASSUME i + 1 <= n PROVE f[i + 1] \in Seq(S) /\ \A x \in Range(f[i + 1]) : Among(x)
      OBVIOUS
    <2> DEFINE l == f[i]
               r == s[i + 1]
    <2>1. i + 1 \in 1 .. n /\ (i + 1) - 1 = i /\ i <= n
      BY <1>1
    <2>2. l \in Seq(S) /\ \A x \in Range(l) : Among(x)
      BY <2>1
    <2>3. r \in Seq(S) /\ f[i + 1] = l \o r
      BY <1>1, <1>2, <2>1
    <2>4. \A x \in Range(r) : Among(x)
      BY <1>1, <2>1
    <2> HIDE DEF l, r, Among
    <2>5. l \o r \in Seq(S) /\ Range(l \o r) = Range(l) \cup Range(r)
      BY <2>2, <2>3, ConcatProperties, RangeConcatenation
    <2> QED
      BY <2>2, <2>3, <2>4, <2>5
  <1> HIDE DEF Good
  <1>5. Good \subseteq Nat
    BY DEF Good
  <1>6. Good = Nat
    BY <1>3, <1>4, <1>5, Induction
  <1>7. \A i \in 0 .. n : i \in Nat /\ i <= n
    BY <1>1
  <1> HIDE DEF Among
  <1>8. \A i \in 0 .. n : f[i] \in Seq(S) /\ \A x \in Range(f[i]) : Among(x)
    BY <1>6, <1>7 DEF Good
  <1> QED
    BY <1>8, Zenon DEF n, Among

LEMMA FlatType ==
  ASSUME NEW S, NEW s \in Seq(Seq(S))
  PROVE  FlattenSeq(s) \in Seq(S)
  <1>1. PICK f : Run(s, f) /\ FlattenSeq(s) = f[Len(s)]
    BY FlatRun
  <1>2. Len(s) \in 0 .. Len(s)
    OBVIOUS
  <1> QED
    BY <1>1, <1>2, RunType

LEMMA FlatRange ==
  ASSUME NEW S, NEW s \in Seq(Seq(S))
  PROVE  \A x \in Range(FlattenSeq(s)) : \E j \in DOMAIN s : x \in Range(s[j])
  <1>1. PICK f : Run(s, f) /\ FlattenSeq(s) = f[Len(s)]
    BY FlatRun
  <1>2. Len(s) \in 0 .. Len(s)
    OBVIOUS
  <1> QED
    BY <1>1, <1>2, RunType

LEMMA FlatEmpty == FlattenSeq(<<>>) = <<>>
  BY DEF FlattenSeq

LEMMA FlatConcat ==
  ASSUME NEW S, NEW s \in Seq(Seq(S)), NEW u \in Seq(Seq(S))
  PROVE  FlattenSeq(s \o u) = FlattenSeq(s) \o FlattenSeq(u)
  <1>0. \A a, b, c \in Seq(S) : (a \o b) \o c = a \o (b \o c)
    <2>1. Associative(S)
      BY ConcatAssociates, Zenon
    <2> QED
      BY <2>1, Zenon DEF Associative
  <1> DEFINE n == Len(s)
             m == Len(u)
             su == s \o u
  <1>1. PICK f : Run(s, f) /\ FlattenSeq(s) = f[n]
    BY FlatRun
  <1>2. PICK g : Run(u, g) /\ FlattenSeq(u) = g[m]
    BY FlatRun
  <1>3. /\ su \in Seq(Seq(S)) /\ Len(su) = n + m /\ n \in Nat /\ m \in Nat
        /\ \A i \in 1 .. n + m : su[i] = IF i <= n THEN s[i] ELSE u[i - n]
    BY ConcatProperties
  <1>4. /\ \A i \in 0 .. n : f[i] \in Seq(S)
        /\ \A i \in 0 .. m : g[i] \in Seq(S)
        /\ \A i \in 1 .. m : u[i] \in Seq(S)
    BY <1>1, <1>2, RunType
  <1>5. /\ f[0] = <<>> /\ \A i \in 1 .. n : f[i] = f[i - 1] \o s[i]
        /\ g[0] = <<>> /\ \A i \in 1 .. m : g[i] = g[i - 1] \o u[i]
    BY <1>1, <1>2 DEF Run
  <1> DEFINE h == [i \in 0 .. n + m |-> IF i <= n THEN f[i] ELSE f[n] \o g[i - n]]
  <1> HIDE DEF n, m, su
  <1>6. \A i \in 0 .. n : h[i] = f[i]
    BY <1>3
  <1>7. ASSUME NEW j \in 0 .. m PROVE h[n + j] = f[n] \o g[j]
    <2>1. CASE j = 0
      <3>1. h[n + j] = f[n] /\ f[n] \in Seq(S) /\ g[j] = <<>>
        BY <1>3, <1>4, <1>5, <2>1
      <3> HIDE DEF h
      <3> QED
        BY <3>1, ConcatEmptySeq
    <2>2. CASE j # 0
      <3>1. n + j \in 0 .. n + m /\ ~(n + j <= n) /\ (n + j) - n = j
        BY <1>3, <2>2
      <3> QED
        BY <3>1
    <2> QED
      BY <2>1, <2>2
  <1> HIDE DEF h
  <1>8. Run(su, h)
    <2>1. ASSUME NEW i \in 1 .. n + m PROVE h[i] = h[i - 1] \o su[i]
      <3>1. CASE i <= n
        <4>1. i \in 1 .. n /\ i \in 0 .. n /\ i - 1 \in 0 .. n
          BY <1>3, <3>1
        <4>2. h[i] = f[i] /\ h[i - 1] = f[i - 1] /\ su[i] = s[i]
          BY <1>3, <1>6, <3>1, <4>1
        <4> QED
          BY <1>5, <4>1, <4>2
      <3>2. CASE ~(i <= n)
        <4>1. PICK j \in 1 .. m : i = n + j
          <5>1. i - n \in 1 .. m /\ i = n + (i - n)
            BY <1>3, <3>2
          <5> QED
            BY <5>1
        <4>2. j \in 0 .. m /\ j - 1 \in 0 .. m /\ i - 1 = n + (j - 1) /\ i - n = j
          BY <1>3, <4>1
        <4>3. h[i] = f[n] \o g[j] /\ h[i - 1] = f[n] \o g[j - 1] /\ su[i] = u[j]
          BY <1>3, <1>7, <3>2, <4>1, <4>2
        <4>4. g[j] = g[j - 1] \o u[j]
          BY <1>5
        <4>5. f[n] \in Seq(S) /\ g[j - 1] \in Seq(S) /\ u[j] \in Seq(S)
          BY <1>3, <1>4, <4>2
        <4>6. (f[n] \o g[j - 1]) \o u[j] = f[n] \o (g[j - 1] \o u[j])
          <5> DEFINE a == f[n]
                     b == g[j - 1]
                     c == u[j]
          <5>1. a \in Seq(S) /\ b \in Seq(S) /\ c \in Seq(S)
            BY <4>5
          <5> HIDE DEF a, b, c
          <5>2. (a \o b) \o c = a \o (b \o c)
            BY <1>0, <5>1, Zenon
          <5> QED
            BY <5>2, Zenon DEF a, b, c
        <4> QED
          BY <4>3, <4>4, <4>6
      <3> QED
        BY <3>1, <3>2
    <2>2. h[0] = <<>>
      BY <1>3, <1>5, <1>6
    <2> QED
      BY <1>3, <2>1, <2>2 DEF Run
  <1>9. PICK e : Run(su, e) /\ FlattenSeq(su) = e[n + m]
    BY <1>3, FlatRun
  <1>10. Len(su) \in Nat /\ n + m \in 0 .. Len(su)
    BY <1>3
  <1>11. e[n + m] = h[n + m]
    BY <1>8, <1>9, <1>10, RunUnique
  <1>12. h[n + m] = f[n] \o g[m]
    <2>1. m \in 0 .. m
      BY <1>3
    <2> QED
      BY <1>7, <2>1, Zenon
  <1> QED
    BY <1>1, <1>2, <1>9, <1>11, <1>12 DEF su

LEMMA FlatOne ==
  ASSUME NEW S, NEW x \in Seq(S)
  PROVE  FlattenSeq(<<x>>) = x
  <1> DEFINE s == <<x>>
  <1>1. s \in Seq(Seq(S)) /\ Len(s) = 1 /\ s[1] = x
    OBVIOUS
  <1> HIDE DEF s
  <1>2. PICK f : Run(s, f) /\ FlattenSeq(s) = f[1]
    BY <1>1, FlatRun
  <1>3. 1 \in 1 .. Len(s) /\ f[0] = <<>>
    BY <1>1, <1>2 DEF Run
  <1>4. f[1] = f[1 - 1] \o s[1]
    BY <1>2, <1>3 DEF Run
  <1>5. f[1] = <<>> \o x
    BY <1>1, <1>3, <1>4
  <1> QED
    BY <1>2, <1>5, ConcatEmptySeq DEF s

\* r is l with t put in somewhere.
Put(l, r, t) ==
  \E p, q \in Seq(Terminals) : l = p \o q /\ r = (p \o <<t>>) \o q

\* Nothing is in l twice.
Single(l) == \A i, j \in DOMAIN l : l[i] = l[j] => i = j

\* One list after another, and a third.
LEMMA Joined ==
  ASSUME NEW S, NEW a \in Seq(S), NEW b \in Seq(S)
  PROVE  /\ a \o b \in Seq(S) /\ Len(a \o b) = Len(a) + Len(b)
         /\ Range(a \o b) = Range(a) \cup Range(b)
         /\ Len(a) \in Nat /\ Len(b) \in Nat
         /\ \A i \in 1 .. Len(a) + Len(b) :
              (a \o b)[i] = IF i <= Len(a) THEN a[i] ELSE b[i - Len(a)]
  <1>1. Len(a) \in Nat /\ Len(b) \in Nat
    OBVIOUS
  <1>2. Range(a \o b) = Range(a) \cup Range(b)
    BY RangeConcatenation
  <1> QED
    BY <1>1, <1>2, ConcatProperties

LEMMA ListsJoin ==
  ASSUME NEW a \in Seq(Terminals), NEW b \in Seq(Terminals)
  PROVE  /\ a \o b \in Seq(Terminals) /\ Len(a \o b) = Len(a) + Len(b)
         /\ Range(a \o b) = Range(a) \cup Range(b)
         /\ Len(a) \in Nat /\ Len(b) \in Nat
         /\ \A i \in 1 .. Len(a) + Len(b) :
              (a \o b)[i] = IF i <= Len(a) THEN a[i] ELSE b[i - Len(a)]
  BY Joined

LEMMA ListsJoin3 ==
  ASSUME NEW a \in Seq(Terminals), NEW b \in Seq(Terminals), NEW c \in Seq(Terminals)
  PROVE  (a \o b) \o c = a \o (b \o c)
  <1>1. Associative(Terminals)
    BY ConcatAssociates, Zenon
  <1> QED
    BY <1>1, Zenon DEF Associative

LEMMA OneType ==
  ASSUME NEW t \in Terminals
  PROVE  /\ <<t>> \in Seq(Terminals) /\ Len(<<t>>) = 1 /\ <<t>>[1] = t /\ Range(<<t>>) = {t}
         /\ <<>> \in Seq(Terminals) /\ Len(<<>>) = 0 /\ Range(<<>>) = {}
  BY DEF Range

LEMMA PutEnd ==
  ASSUME NEW l \in Seq(Terminals), NEW t \in Terminals
  PROVE  Put(l, l \o <<t>>, t)
  <1> DEFINE e == <<t>>
             z == <<>>
             r == l \o e
  <1>1. e \in Seq(Terminals) /\ z \in Seq(Terminals)
    BY OneType
  <1>2. l \o z = l
    BY ConcatEmptySeq
  <1> HIDE DEF e
  <1>3. r \in Seq(Terminals)
    BY <1>1, ListsJoin
  <1> HIDE DEF r
  <1>4. r \o z = r
    BY <1>3, ConcatEmptySeq
  <1> HIDE DEF z
  <1>5. l = l \o z /\ r = (l \o e) \o z
    BY <1>2, <1>4, Zenon DEF r
  <1>6. Put(l, r, t)
    BY <1>1, <1>5, Zenon DEF Put, e
  <1> QED
    BY <1>6, Zenon DEF r, e

LEMMA PutBefore ==
  ASSUME NEW l, NEW r, NEW t \in Terminals, Put(l, r, t), NEW a \in Seq(Terminals)
  PROVE  Put(a \o l, a \o r, t)
  <1> DEFINE e == <<t>>
  <1>1. PICK p, q \in Seq(Terminals) : l = p \o q /\ r = (p \o e) \o q
    BY Zenon DEF Put
  <1>2. e \in Seq(Terminals)
    BY OneType
  <1> HIDE DEF e
  <1>3. a \o p \in Seq(Terminals) /\ p \o e \in Seq(Terminals)
    BY <1>2, ListsJoin, Zenon
  <1>4. a \o (p \o q) = (a \o p) \o q
    BY ListsJoin3, Zenon
  <1>5. a \o ((p \o e) \o q) = (a \o (p \o e)) \o q
    <2> DEFINE m == p \o e
    <2>1. m \in Seq(Terminals)
      BY <1>3
    <2> HIDE DEF m
    <2>2. (a \o m) \o q = a \o (m \o q)
      BY <2>1, ListsJoin3, Zenon
    <2> QED
      BY <2>2, Zenon DEF m
  <1>6. a \o (p \o e) = (a \o p) \o e
    BY <1>2, ListsJoin3, Zenon
  <1>7. a \o l = (a \o p) \o q /\ a \o r = ((a \o p) \o e) \o q
    BY <1>1, <1>4, <1>5, <1>6, Zenon
  <1> QED
    BY <1>3, <1>7, Zenon DEF Put, e

LEMMA PutAfter ==
  ASSUME NEW l, NEW r, NEW t \in Terminals, Put(l, r, t), NEW b \in Seq(Terminals)
  PROVE  Put(l \o b, r \o b, t)
  <1> DEFINE e == <<t>>
  <1>1. PICK p, q \in Seq(Terminals) : l = p \o q /\ r = (p \o e) \o q
    BY Zenon DEF Put
  <1>2. e \in Seq(Terminals)
    BY OneType
  <1> HIDE DEF e
  <1>3. q \o b \in Seq(Terminals) /\ p \o e \in Seq(Terminals)
    BY <1>2, ListsJoin, Zenon
  <1>4. (p \o q) \o b = p \o (q \o b)
    BY ListsJoin3, Zenon
  <1>5. ((p \o e) \o q) \o b = (p \o e) \o (q \o b)
    <2> DEFINE m == p \o e
    <2>1. m \in Seq(Terminals)
      BY <1>3
    <2> HIDE DEF m
    <2>2. (m \o q) \o b = m \o (q \o b)
      BY <2>1, ListsJoin3, Zenon
    <2> QED
      BY <2>2, Zenon DEF m
  <1>7. l \o b = p \o (q \o b) /\ r \o b = (p \o e) \o (q \o b)
    BY <1>1, <1>4, <1>5, Zenon
  <1> QED
    BY <1>3, <1>7, Zenon DEF Put, e

LEMMA PutType ==
  ASSUME NEW l, NEW r, NEW t \in Terminals, Put(l, r, t)
  PROVE  /\ l \in Seq(Terminals) /\ r \in Seq(Terminals) /\ Len(r) = Len(l) + 1
         /\ Range(r) = Range(l) \cup {t}
  <1> DEFINE e == <<t>>
  <1>1. PICK p, q \in Seq(Terminals) : l = p \o q /\ r = (p \o e) \o q
    BY Zenon DEF Put
  <1>2. e \in Seq(Terminals) /\ Len(e) = 1 /\ Range(e) = {t}
    BY OneType
  <1> HIDE DEF e
  <1>3. /\ l \in Seq(Terminals) /\ Len(l) = Len(p) + Len(q) /\ Range(l) = Range(p) \cup Range(q)
        /\ Len(p) \in Nat /\ Len(q) \in Nat
    BY <1>1, ListsJoin, Zenon
  <1> DEFINE m == p \o e
  <1>4. m \in Seq(Terminals) /\ Len(m) = Len(p) + Len(e) /\ Range(m) = Range(p) \cup Range(e)
    BY <1>2, ListsJoin, Zenon
  <1> HIDE DEF m
  <1>5. r \in Seq(Terminals) /\ Len(r) = Len(m) + Len(q) /\ Range(r) = Range(m) \cup Range(q)
    <2>1. r = m \o q
      BY <1>1, Zenon DEF m
    <2> QED
      BY <1>4, <2>1, ListsJoin, Zenon
  <1>6. Len(r) = Len(l) + 1
    BY <1>2, <1>3, <1>4, <1>5
  <1>7. Range(r) = Range(l) \cup {t}
    BY <1>2, <1>3, <1>4, <1>5
  <1> QED
    BY <1>3, <1>5, <1>6, <1>7

\* As PaneLists says it.
LEMMA PutAt ==
  ASSUME NEW l, NEW r, NEW t \in Terminals, Put(l, r, t)
  PROVE  \E k \in 1 .. Len(l) + 1 :
           /\ r[k] = t
           /\ \A j \in 1 .. Len(l) : l[j] = r[IF j < k THEN j ELSE j + 1]
  <1> DEFINE e == <<t>>
  <1>1. PICK p, q \in Seq(Terminals) : l = p \o q /\ r = (p \o e) \o q
    BY Zenon DEF Put
  <1> DEFINE n == Len(p)
             m == Len(q)
             pe == p \o e
  <1>2. e \in Seq(Terminals) /\ Len(e) = 1 /\ e[1] = t
    BY OneType
  <1> HIDE DEF e
  <1>3. /\ pe \in Seq(Terminals) /\ Len(pe) = n + Len(e)
        /\ \A j \in 1 .. n + Len(e) : pe[j] = IF j <= n THEN p[j] ELSE e[j - n]
    BY <1>2, ListsJoin, Zenon
  <1>4. /\ n \in Nat /\ m \in Nat /\ Len(l) = n + m
        /\ \A j \in 1 .. n + m : l[j] = IF j <= n THEN p[j] ELSE q[j - n]
    BY <1>1, ListsJoin, Zenon
  <1> HIDE DEF pe
  <1>5. \A j \in 1 .. Len(pe) + m : r[j] = IF j <= Len(pe) THEN pe[j] ELSE q[j - Len(pe)]
    <2>1. r = pe \o q
      BY <1>1, Zenon DEF pe
    <2> QED
      BY <1>3, <2>1, ListsJoin, Zenon
  <1> HIDE DEF n, m
  <1>6. Len(pe) = n + 1
    BY <1>2, <1>3
  <1>7. r[n + 1] = t
    <2>1. n + 1 \in 1 .. Len(pe) + m /\ n + 1 \in 1 .. n + Len(e) /\ (n + 1) - n = 1 /\ ~(n + 1 <= n)
      BY <1>2, <1>4, <1>6
    <2>2. r[n + 1] = pe[n + 1]
      BY <1>5, <1>6, <2>1
    <2>3. pe[n + 1] = e[1]
      BY <1>3, <2>1
    <2> QED
      BY <1>2, <2>2, <2>3
  <1>8. ASSUME NEW j \in 1 .. n + m PROVE l[j] = r[IF j < n + 1 THEN j ELSE j + 1]
    <2>1. CASE j < n + 1
      <3>1. j \in 1 .. Len(pe) + m /\ j \in 1 .. n + Len(e) /\ j <= n /\ j <= Len(pe)
        BY <1>2, <1>4, <1>6, <2>1
      <3>2. r[j] = pe[j]
        BY <1>5, <3>1
      <3>3. pe[j] = p[j] /\ l[j] = p[j]
        BY <1>3, <1>4, <3>1
      <3> QED
        BY <2>1, <3>2, <3>3
    <2>2. CASE ~(j < n + 1)
      <3>1. j + 1 \in 1 .. Len(pe) + m /\ ~(j <= n) /\ ~(j + 1 <= Len(pe)) /\ (j + 1) - Len(pe) = j - n
        BY <1>4, <1>6, <2>2
      <3>2. r[j + 1] = q[(j + 1) - Len(pe)]
        BY <1>5, <3>1
      <3>3. l[j] = q[j - n]
        BY <1>4, <3>1
      <3> QED
        BY <2>2, <3>1, <3>2, <3>3
    <2> QED
      BY <2>1, <2>2
  <1>9. n + 1 \in 1 .. Len(l) + 1 /\ 1 .. Len(l) = 1 .. n + m
    BY <1>4
  <1>10. \A j \in 1 .. Len(l) : l[j] = r[IF j < n + 1 THEN j ELSE j + 1]
    BY <1>8, <1>9
  <1> HIDE DEF e
  <1> QED
    BY <1>7, <1>9, <1>10

LEMMA PutWith ==
  ASSUME NEW l, NEW r, NEW t \in Terminals, Put(l, r, t)
  PROVE  \E k \in DOMAIN r : r = P!With(l, k, t) /\ l = P!Without(r, k) /\ r[k] = t
  <1> DEFINE n == Len(l)
  <1>1. /\ l \in Seq(Terminals) /\ r \in Seq(Terminals) /\ n \in Nat
        /\ DOMAIN l = 1 .. n /\ DOMAIN r = 1 .. n + 1 /\ Len(r) = n + 1
        /\ l = [j \in 1 .. n |-> l[j]] /\ r = [j \in 1 .. n + 1 |-> r[j]]
    BY PutType
  <1>2. PICK k \in 1 .. n + 1 : r[k] = t /\ \A j \in 1 .. n : l[j] = r[IF j < k THEN j ELSE j + 1]
    BY PutAt
  <1> HIDE DEF n
  <1>3. ASSUME NEW j \in 1 .. n + 1
        PROVE  r[j] = IF j < k THEN l[j] ELSE IF j = k THEN t ELSE l[j - 1]
    <2>1. CASE j < k
      <3>1. j \in 1 .. n
        BY <1>1, <1>2, <2>1
      <3> QED
        BY <1>2, <2>1, <3>1
    <2>2. CASE j = k
      BY <1>2, <2>2
    <2>3. CASE j > k
      <3>1. j - 1 \in 1 .. n /\ ~(j - 1 < k) /\ (j - 1) + 1 = j
        BY <1>1, <1>2, <2>3
      <3> QED
        BY <1>2, <2>3, <3>1
    <2> QED
      BY <1>2, <2>1, <2>2, <2>3
  <1>4. r = P!With(l, k, t)
    BY <1>1, <1>3 DEF P!With, n
  <1>5. l = P!Without(r, k)
    <2>1. Len(r) - 1 = n
      BY <1>1
    <2>2. \A j \in 1 .. n : l[j] = IF j < k THEN r[j] ELSE r[j + 1]
      BY <1>2
    <2> QED
      BY <1>1, <2>1, <2>2 DEF P!Without
  <1> QED
    BY <1>1, <1>2, <1>4, <1>5

LEMMA PutSingle ==
  ASSUME NEW l, NEW r, NEW t \in Terminals, Put(l, r, t)
  PROVE  Single(r) <=> Single(l) /\ t \notin Range(l)
  <1> DEFINE n == Len(l)
  <1>1. /\ n \in Nat /\ DOMAIN l = 1 .. n /\ DOMAIN r = 1 .. n + 1
    BY PutType
  <1>2. PICK k \in 1 .. n + 1 : r[k] = t /\ \A j \in 1 .. n : l[j] = r[IF j < k THEN j ELSE j + 1]
    BY PutAt
  <1> HIDE DEF n
  <1> DEFINE at(j) == IF j < k THEN j ELSE j + 1
  <1>3. \A j \in 1 .. n : at(j) \in 1 .. n + 1 /\ at(j) # k /\ l[j] = r[at(j)]
    BY <1>1, <1>2
  <1>4. \A i, j \in 1 .. n : at(i) = at(j) => i = j
    BY <1>1, <1>2
  <1>5. \A i \in 1 .. n + 1 : i = k \/ \E j \in 1 .. n : i = at(j)
    <2> SUFFICES ASSUME NEW i \in 1 .. n + 1, i # k PROVE \E j \in 1 .. n : i = at(j)
      OBVIOUS
    <2>1. CASE i < k
      BY <1>1, <1>2, <2>1
    <2>2. CASE i > k
      <3>1. i - 1 \in 1 .. n /\ i = at(i - 1)
        BY <1>1, <1>2, <2>2
      <3> QED
        BY <3>1
    <2> QED
      BY <1>2, <2>1, <2>2
  <1>6. t \in Range(l) <=> \E j \in 1 .. n : l[j] = t
    BY <1>1 DEF Range
  <1> HIDE DEF at
  <1>7. ASSUME Single(r) PROVE Single(l) /\ t \notin Range(l)
    <2>1. \A i, j \in 1 .. n + 1 : r[i] = r[j] => i = j
      BY <1>1, <1>7 DEF Single
    <2>2. Single(l)
      BY <1>1, <1>3, <1>4, <2>1 DEF Single
    <2>3. t \notin Range(l)
      BY <1>2, <1>3, <1>6, <2>1
    <2> QED
      BY <2>2, <2>3
  <1>8. ASSUME Single(l), t \notin Range(l) PROVE Single(r)
    <2>1. \A i, j \in 1 .. n : l[i] = l[j] => i = j
      BY <1>1, <1>8 DEF Single
    <2>2. \A j \in 1 .. n : r[at(j)] # r[k]
      BY <1>2, <1>3, <1>6, <1>8
    <2> SUFFICES ASSUME NEW i \in 1 .. n + 1, NEW j \in 1 .. n + 1, r[i] = r[j] PROVE i = j
      BY <1>1 DEF Single
    <2>3. CASE i = k \/ j = k
      BY <1>5, <2>2, <2>3
    <2>4. CASE i # k /\ j # k
      <3>1. PICK x, y \in 1 .. n : i = at(x) /\ j = at(y)
        BY <1>5, <2>4
      <3>2. l[x] = l[y]
        BY <1>3, <3>1
      <3> QED
        BY <2>1, <3>1, <3>2
    <2> QED
      BY <2>3, <2>4
  <1> QED
    BY <1>7, <1>8


LEMMA SingleJoin ==
  ASSUME NEW a \in Seq(Terminals), NEW b \in Seq(Terminals), Single(a \o b)
  PROVE  Single(a) /\ Single(b) /\ Range(a) \cap Range(b) = {}
  <1> DEFINE r == a \o b
             n == Len(a)
             m == Len(b)
  <1>1. /\ r \in Seq(Terminals) /\ Len(r) = n + m /\ n \in Nat /\ m \in Nat
        /\ \A i \in 1 .. n + m : r[i] = IF i <= n THEN a[i] ELSE b[i - n]
    BY ListsJoin
  <1>2. DOMAIN r = 1 .. n + m /\ DOMAIN a = 1 .. n /\ DOMAIN b = 1 .. m
    <2> HIDE DEF r
    <2> QED
      BY <1>1
  <1>3. \A i, j \in 1 .. n + m : r[i] = r[j] => i = j
    BY <1>2, Zenon DEF Single
  <1> HIDE DEF r, n, m
  <1>4. \A i \in 1 .. n : i \in 1 .. n + m /\ r[i] = a[i]
    BY <1>1
  <1>5. \A j \in 1 .. m : n + j \in 1 .. n + m /\ r[n + j] = b[j]
    BY <1>1
  <1>6. Single(a)
    BY <1>2, <1>3, <1>4 DEF Single
  <1>7. Single(b)
    <2> SUFFICES ASSUME NEW i \in 1 .. m, NEW j \in 1 .. m, b[i] = b[j] PROVE i = j
      BY <1>2 DEF Single
    <2>1. n + i = n + j
      BY <1>3, <1>5
    <2> QED
      BY <1>1, <2>1
  <1>8. ASSUME NEW x \in Range(a), x \in Range(b) PROVE FALSE
    <2>1. PICK i \in 1 .. n : x = a[i]
      BY <1>2 DEF Range
    <2>2. PICK j \in 1 .. m : x = b[j]
      BY <1>2, <1>8 DEF Range
    <2>3. i = n + j
      BY <1>3, <1>4, <1>5, <2>1, <2>2
    <2> QED
      BY <1>1, <2>3
  <1> QED
    BY <1>6, <1>7, <1>8

\* The pieces of a list in which nothing is twice have nothing in common.
LEMMA RunParts ==
  ASSUME NEW s \in Seq(Seq(Terminals)), NEW f, Run(s, f)
  PROVE  \A i \in 0 .. Len(s) :
           /\ \A j \in 1 .. i : Range(s[j]) \subseteq Range(f[i])
           /\ Single(f[i]) =>
                \A j \in 1 .. i :
                  /\ Single(s[j])
                  /\ \A m \in 1 .. i : m # j => Range(s[j]) \cap Range(s[m]) = {}
  <1> DEFINE n == Len(s)
             Inside(i) == \A j \in 1 .. i : Range(s[j]) \subseteq Range(f[i])
             Apart(i) == \A j \in 1 .. i :
                           /\ Single(s[j])
                           /\ \A m \in 1 .. i : m # j => Range(s[j]) \cap Range(s[m]) = {}
             Good == {i \in Nat : i <= n => Inside(i) /\ (Single(f[i]) => Apart(i))}
  <1>1. n \in Nat /\ \A i \in 1 .. n : s[i] \in Seq(Terminals)
    OBVIOUS
  <1>2. \A i \in 0 .. n : f[i] \in Seq(Terminals)
    BY RunType
  <1>3. \A i \in 1 .. n : f[i] = f[i - 1] \o s[i]
    BY DEF Run
  <1> HIDE DEF n
  <1>4. 0 \in Good
    OBVIOUS
  <1>5. ASSUME NEW i \in Good PROVE i + 1 \in Good
    <2> HIDE DEF Inside, Apart
    <2> SUFFICES ASSUME i + 1 <= n PROVE Inside(i + 1) /\ (Single(f[i + 1]) => Apart(i + 1))
      OBVIOUS
    <2> USE DEF Inside, Apart
    <2> DEFINE l == f[i]
               r == s[i + 1]
               lr == f[i + 1]
    <2>1. i \in Nat /\ i + 1 \in 1 .. n /\ (i + 1) - 1 = i /\ i \in 0 .. n /\ i <= n
      BY <1>1
    <2>2. l \in Seq(Terminals) /\ r \in Seq(Terminals) /\ lr = l \o r
      BY <1>1, <1>2, <1>3, <2>1
    <2>3. Inside(i) /\ (Single(l) => Apart(i))
      BY <2>1
    <2>4. \A j \in 1 .. i + 1 : j \in 1 .. i \/ j = i + 1
      BY <2>1
    <2>5. \A j \in 1 .. i : Range(s[j]) \subseteq Range(l)
      BY <2>3
    <2> HIDE DEF l, lr, Apart
    <2>6. Range(lr) = Range(l) \cup Range(r)
      BY <2>2, ListsJoin
    <2>7. Inside(i + 1)
      BY <2>4, <2>5, <2>6 DEF lr
    <2>8. ASSUME Single(lr) PROVE Apart(i + 1)
      <3>1. Single(l) /\ Single(r) /\ Range(l) \cap Range(r) = {}
        BY <2>2, <2>8, SingleJoin
      <3>2. Apart(i)
        BY <2>3, <3>1
      <3>3. \A j \in 1 .. i : Single(s[j]) /\ Range(s[j]) \cap Range(r) = {}
        BY <2>5, <3>1, <3>2 DEF Apart
      <3>4. \A j, m \in 1 .. i : m # j => Range(s[j]) \cap Range(s[m]) = {}
        BY <3>2 DEF Apart
      <3> QED
        BY <2>4, <3>1, <3>3, <3>4 DEF Apart
    <2> QED
      BY <2>7, <2>8 DEF lr
  <1> HIDE DEF Good
  <1>6. Good \subseteq Nat
    BY DEF Good
  <1>7. Good = Nat
    BY <1>4, <1>5, <1>6, Induction
  <1>8. \A i \in 0 .. n : i \in Nat /\ i <= n
    BY <1>1
  <1> HIDE DEF Inside, Apart
  <1>9. \A i \in 0 .. n : Inside(i) /\ (Single(f[i]) => Apart(i))
    BY <1>7, <1>8 DEF Good
  <1> QED
    BY <1>9, Zenon DEF Inside, Apart, n

LEMMA FlatParts ==
  ASSUME NEW s \in Seq(Seq(Terminals))
  PROVE  /\ \A x : x \in Range(FlattenSeq(s)) <=> \E i \in DOMAIN s : x \in Range(s[i])
         /\ Single(FlattenSeq(s)) =>
              \A i \in DOMAIN s :
                /\ Single(s[i])
                /\ \A j \in DOMAIN s : j # i => Range(s[i]) \cap Range(s[j]) = {}
  <1> DEFINE n == Len(s)
             l == FlattenSeq(s)
  <1>1. PICK f : Run(s, f) /\ l = f[n]
    BY FlatRun
  <1>2. n \in 0 .. n /\ DOMAIN s = 1 .. n
    OBVIOUS
  <1>3. \A x \in Range(l) : \E j \in DOMAIN s : x \in Range(s[j])
    BY FlatRange
  <1> HIDE DEF n, l
  <1>4. /\ \A j \in 1 .. n : Range(s[j]) \subseteq Range(f[n])
        /\ Single(f[n]) =>
             \A j \in 1 .. n :
               /\ Single(s[j])
               /\ \A m \in 1 .. n : m # j => Range(s[j]) \cap Range(s[m]) = {}
    BY <1>1, <1>2, RunParts DEF n
  <1>5. \A x : x \in Range(l) <=> \E i \in DOMAIN s : x \in Range(s[i])
    BY <1>1, <1>2, <1>3, <1>4
  <1> QED
    BY <1>1, <1>2, <1>4, <1>5, Zenon DEF l

\* Put into one piece, put into the whole.
LEMMA FlatPut ==
  ASSUME NEW s \in Seq(Seq(Terminals)), NEW u \in Seq(Seq(Terminals)), Len(u) = Len(s),
         NEW k \in DOMAIN s, NEW t \in Terminals, Put(s[k], u[k], t),
         \A i \in DOMAIN s : i # k => u[i] = s[i]
  PROVE  Put(FlattenSeq(s), FlattenSeq(u), t)
  <1> DEFINE n == Len(s)
  <1>1. /\ n \in Nat /\ DOMAIN s = 1 .. n
        /\ \A i \in 1 .. n : s[i] \in Seq(Terminals) /\ u[i] \in Seq(Terminals)
    OBVIOUS
  <1>2. PICK f : Run(s, f) /\ FlattenSeq(s) = f[n]
    BY FlatRun
  <1>3. PICK g : Run(u, g) /\ FlattenSeq(u) = g[n]
    BY FlatRun
  <1>4. f[0] = <<>> /\ g[0] = <<>> /\ \A i \in 1 .. n : f[i] = f[i - 1] \o s[i] /\ g[i] = g[i - 1] \o u[i]
    BY <1>2, <1>3 DEF Run
  <1>5. \A i \in 0 .. n : f[i] \in Seq(Terminals)
    BY <1>2, RunType
  <1> HIDE DEF n
  <1> DEFINE Good == {i \in Nat : i <= n => IF i < k THEN g[i] = f[i] ELSE Put(f[i], g[i], t)}
  <1>6. 0 \in Good
    BY <1>1, <1>4
  <1>7. ASSUME NEW i \in Good PROVE i + 1 \in Good
    <2> SUFFICES ASSUME i + 1 <= n
                 PROVE  IF i + 1 < k THEN g[i + 1] = f[i + 1] ELSE Put(f[i + 1], g[i + 1], t)
      OBVIOUS
    <2>1. i \in Nat /\ k \in 1 .. n /\ i + 1 \in 1 .. n /\ (i + 1) - 1 = i /\ i \in 0 .. n /\ i <= n
      BY <1>1
    <2>2. f[i + 1] = f[i] \o s[i + 1] /\ g[i + 1] = g[i] \o u[i + 1]
      BY <1>4, <2>1
    <2>3. f[i] \in Seq(Terminals) /\ s[i + 1] \in Seq(Terminals)
      BY <1>1, <1>5, <2>1
    <2>4. IF i < k THEN g[i] = f[i] ELSE Put(f[i], g[i], t)
      BY <2>1
    <2>5. CASE i + 1 < k
      <3>1. i < k /\ u[i + 1] = s[i + 1]
        BY <1>1, <2>1, <2>5
      <3> QED
        BY <2>2, <2>4, <2>5, <3>1
    <2>6. CASE i + 1 = k
      <3>1. g[i] = f[i] /\ Put(s[i + 1], u[i + 1], t)
        BY <2>1, <2>4, <2>6
      <3>2. Put(f[i] \o s[i + 1], f[i] \o u[i + 1], t)
        BY <2>3, <3>1, PutBefore
      <3>3. ~(i + 1 < k)
        BY <2>1, <2>6
      <3> QED
        BY <2>2, <3>1, <3>2, <3>3
    <2>7. CASE k < i + 1
      <3>a. ~(i < k) /\ ~(i + 1 < k) /\ i + 1 # k
        BY <2>1, <2>7
      <3>1. ~(i < k) /\ ~(i + 1 < k) /\ u[i + 1] = s[i + 1]
        BY <1>1, <2>1, <3>a
      <3>2. Put(f[i] \o s[i + 1], g[i] \o s[i + 1], t)
        BY <2>3, <2>4, <3>1, PutAfter
      <3> QED
        BY <2>2, <3>1, <3>2
    <2> QED
      BY <2>1, <2>5, <2>6, <2>7
  <1> HIDE DEF Good
  <1>8. Good \subseteq Nat
    BY DEF Good
  <1>9. Good = Nat
    BY <1>6, <1>7, <1>8, Induction
  <1>10. n \in Good /\ n <= n /\ ~(n < k)
    BY <1>1, <1>9
  <1>11. Put(f[n], g[n], t)
    BY <1>10 DEF Good
  <1> QED
    BY <1>2, <1>3, <1>11

\* One piece more, of one element.
LEMMA FlatMore ==
  ASSUME NEW s \in Seq(Seq(Terminals)), NEW u \in Seq(Seq(Terminals)), Len(u) = Len(s) + 1,
         NEW k \in 1 .. Len(s) + 1, NEW t \in Terminals, u[k] = <<t>>,
         \A i \in 1 .. Len(s) : s[i] = u[IF i < k THEN i ELSE i + 1]
  PROVE  Put(FlattenSeq(s), FlattenSeq(u), t)
  <1> DEFINE n == Len(s)
             e == <<t>>
  <1>1. n \in Nat /\ \A i \in 1 .. n : s[i] \in Seq(Terminals)
    OBVIOUS
  <1>2. PICK f : Run(s, f) /\ FlattenSeq(s) = f[n]
    BY FlatRun
  <1>3. PICK g : Run(u, g) /\ FlattenSeq(u) = g[n + 1]
    BY FlatRun
  <1>4. /\ f[0] = <<>> /\ g[0] = <<>>
        /\ \A i \in 1 .. n : f[i] = f[i - 1] \o s[i]
        /\ \A i \in 1 .. n + 1 : g[i] = g[i - 1] \o u[i]
    BY <1>2, <1>3 DEF Run
  <1>5. \A i \in 0 .. n : f[i] \in Seq(Terminals)
    BY <1>2, RunType
  <1>6. u[k] = e
    OBVIOUS
  <1> HIDE DEF n, e
  <1> DEFINE Early == {i \in Nat : i < k => g[i] = f[i]}
  <1>a. n = Len(s)
    BY DEF n
  <1>7. Early = Nat
    <2>1. 0 \in Early
      BY <1>4
    <2>2. ASSUME NEW i \in Early PROVE i + 1 \in Early
      <3> SUFFICES ASSUME i + 1 < k PROVE g[i + 1] = f[i + 1]
        OBVIOUS
      <3>1. i \in Nat /\ i < k /\ i + 1 \in 1 .. n /\ i + 1 \in 1 .. n + 1 /\ (i + 1) - 1 = i
        BY <1>1, <1>a
      <3>2. u[i + 1] = s[i + 1] /\ g[i] = f[i]
        BY <1>a, <3>1
      <3> QED
        BY <1>4, <3>1, <3>2
    <2> HIDE DEF Early
    <2>3. Early \subseteq Nat
      BY DEF Early
    <2> QED
      BY <2>1, <2>2, <2>3, Induction
  <1> HIDE DEF Early
  <1>b. ASSUME NEW i \in Nat, i <= n, i + 1 = k PROVE Put(f[i], g[i + 1], t)
    <2>1. i \in 0 .. n /\ i < k /\ k \in 1 .. n + 1 /\ k - 1 = i
      BY <1>1, <1>a, <1>b
    <2>2. g[i] = f[i]
      BY <1>7, <2>1 DEF Early
    <2>3. g[k] = f[i] \o e
      BY <1>4, <1>6, <2>1, <2>2
    <2>4. Put(f[i], f[i] \o e, t)
      BY <1>5, <2>1, PutEnd DEF e
    <2> QED
      BY <1>b, <2>3, <2>4
  <1> DEFINE After(i) == Put(f[i], g[i + 1], t)
             Late == {i \in Nat : i <= n /\ k <= i + 1 => After(i)}
  <1>8. Late = Nat
    <2>1. 0 \in Late
      <3> SUFFICES ASSUME 0 <= n, k <= 0 + 1 PROVE Put(f[0], g[0 + 1], t)
        OBVIOUS
      <3>1. 0 \in Nat /\ 0 + 1 = k
        BY <1>1
      <3> QED
        BY <1>b, <3>1
    <2>2. ASSUME NEW i \in Late PROVE i + 1 \in Late
      <3> DEFINE j == i + 1
      <3> HIDE DEF After
      <3> SUFFICES ASSUME j <= n, k <= j + 1 PROVE After(j)
        OBVIOUS
      <3> USE DEF After
      <3>1. i \in Nat /\ j \in 1 .. n /\ j + 1 \in 1 .. n + 1 /\ (j + 1) - 1 = j /\ j - 1 = i /\ i <= n
            /\ j \in Nat
        BY <1>1
      <3>2. CASE j + 1 = k
        BY <1>b, <3>1, <3>2
      <3>3. CASE j + 1 # k
        <4>1. k <= j /\ ~(j < k) /\ k <= i + 1
          BY <1>a, <3>1, <3>3
        <4>2. Put(f[i], g[j], t)
          BY <3>1, <4>1
        <4>3. s[j] = u[j + 1]
          BY <1>a, <3>1, <4>1
        <4> HIDE DEF j
        <4>4. f[j] = f[i] \o s[j] /\ g[j + 1] = g[j] \o s[j]
          BY <1>4, <3>1, <4>3
        <4>5. s[j] \in Seq(Terminals)
          BY <1>1, <3>1
        <4> QED
          BY <4>2, <4>4, <4>5, PutAfter
      <3> QED
        BY <3>2, <3>3
    <2> HIDE DEF Late
    <2>3. Late \subseteq Nat
      BY DEF Late
    <2> QED
      BY <2>1, <2>2, <2>3, Induction
  <1> HIDE DEF Late
  <1>9. Put(f[n], g[n + 1], t)
    <2>1. n \in Late /\ k <= n + 1 /\ n <= n
      BY <1>1, <1>8, <1>a
    <2> QED
      BY <2>1 DEF Late
  <1> QED
    BY <1>2, <1>3, <1>9


-----------------------------------------------------------------------------
(***************************************************************************)
(* Now the trees.                                                          *)
(***************************************************************************)

LEMMA LeavesSolved == LeavesOf = [d \in Nat |-> LeavesStep(d, LeavesOf[d - 1])]
  <1> DEFINE k == [of |-> "leaves"]
  <1>1. \A d, b : Step(k, d, b) = LeavesStep(d, b)
    BY DEF Step
  <1>2. Grounded(k)
    <2>1. \A b, c : LeavesStep(0, b) = LeavesStep(0, c)
      BY NodesFacts DEF LeavesStep
    <2> QED
      BY <1>1, <2>1 DEF Grounded
  <1> HIDE DEF k
  <1>3. PICK f : f = [d \in Nat |-> Step(k, d, f[d - 1])]
    BY <1>2, Recursion
  <1>4. f = [d \in Nat |-> LeavesStep(d, f[d - 1])]
    BY <1>1, <1>3
  <1> DEFINE g == CHOOSE g : g = [d \in Nat |-> LeavesStep(d, g[d - 1])]
  <1>5. g = [d \in Nat |-> LeavesStep(d, g[d - 1])]
    BY <1>4, Zenon
  <1>6. LeavesOf = g
    BY Zenon DEF LeavesOf, LeavesStep
  <1> HIDE DEF g
  <1> QED
    BY <1>5, <1>6, Zenon

\* The leaves of the nodes of a list, each on its own.
Read(d, nodes) == [i \in DOMAIN nodes |-> LeavesOf[d][nodes[i]]]

LEMMA LeavesFacts ==
  ASSUME NEW d \in Nat, NEW node \in Nodes[d]
  PROVE  LeavesOf[d][node] = IF node \in Terminals THEN <<node>>
                             ELSE FlattenSeq(Read(d - 1, node.children))
  <1>1. LeavesOf[d] = LeavesStep(d, LeavesOf[d - 1])
    BY LeavesSolved
  <1> QED
    BY <1>1 DEF LeavesStep, Read

LEMMA LeavesType ==
  \A d \in Nat : d <= MaxDepth =>
    \A node \in Nodes[d] :
      /\ LeavesOf[d][node] \in Seq(Terminals)
      /\ Range(LeavesOf[d][node]) = Parts[d][node] \cap Terminals
  <1> DEFINE Ok(d, node) == /\ LeavesOf[d][node] \in Seq(Terminals)
                            /\ Range(LeavesOf[d][node]) = Parts[d][node] \cap Terminals
             Good == {d \in Nat : d <= MaxDepth => \A node \in Nodes[d] : Ok(d, node)}
  <1>1. ASSUME NEW d \in Nat, d <= MaxDepth, NEW node \in Nodes[d],
               node \notin Terminals => \A n \in Nodes[d - 1] : Ok(d - 1, n)
        PROVE  Ok(d, node)
    <2> DEFINE l == LeavesOf[d][node]
               p == Parts[d][node]
    <2>1. CASE node \in Terminals
      <3>1. l = <<node>> /\ p = {node}
        BY <1>1, <2>1, LeavesFacts, PartsFacts
      <3> HIDE DEF l, p
      <3>2. l \in Seq(Terminals) /\ Range(l) = p \cap Terminals
        BY <2>1, <3>1, OneType
      <3> QED
        BY <3>2 DEF l, p
    <2>2. CASE node \notin Terminals
      <3> DEFINE e == d - 1
                 c == node.children
                 s == Read(e, c)
      <3>1. /\ e \in Nat /\ e <= MaxDepth /\ c \in Seq(Nodes[e])
            /\ \A i \in DOMAIN c : c[i] \in Nodes[e]
        BY <1>1, <2>2, OldKinds
      <3>2. l = FlattenSeq(s) /\ p = {node} \cup Below(e, c)
        BY <1>1, <2>2, LeavesFacts, PartsFacts
      <3>3. \A i \in DOMAIN c : Ok(e, c[i])
        BY <1>1, <2>2, <3>1
      <3> HIDE DEF l, p, e
      <3>4. DOMAIN s = DOMAIN c /\ \A i \in DOMAIN c : s[i] = LeavesOf[e][c[i]]
        BY DEF Read
      <3> HIDE DEF s, c
      <3>5. s \in Seq(Seq(Terminals))
        <4> DEFINE T == Seq(Terminals)
                   n == Len(c)
        <4>1. n \in Nat /\ DOMAIN c = 1 .. n
          BY <3>1
        <4>2. \A i \in DOMAIN c : s[i] \in T
          BY <3>3, <3>4
        <4>3. s = [i \in 1 .. n |-> s[i]]
          BY <4>1 DEF s, Read
        <4> HIDE DEF T, n
        <4>4. s \in [1 .. n -> T]
          BY <4>1, <4>2, <4>3
        <4>5. s \in Seq(T)
          BY <4>1, <4>4
        <4> QED
          BY <4>5 DEF T
      <3>6. l \in Seq(Terminals)
        BY <3>2, <3>5, FlatType
      <3>7. \A x : x \in Range(l) <=> \E i \in DOMAIN c : x \in Range(s[i])
        BY <3>2, <3>4, <3>5, FlatParts
      <3>8. \A x : x \in p \cap Terminals <=> \E i \in DOMAIN c : x \in Parts[e][c[i]] \cap Terminals
        BY <2>2, <3>2, BelowFacts
      <3>9. \A i \in DOMAIN c : Range(s[i]) = Parts[e][c[i]] \cap Terminals
        BY <3>3, <3>4
      <3>10. Range(l) = p \cap Terminals
        BY <3>7, <3>8, <3>9
      <3> QED
        BY <3>6, <3>10 DEF l, p
    <2> QED
      BY <2>1, <2>2
  <1> HIDE DEF Ok
  <1>2. 0 \in Good
    BY <1>1, NodesFacts
  <1>3. ASSUME NEW d \in Good PROVE d + 1 \in Good
    <2> SUFFICES ASSUME d + 1 <= MaxDepth, NEW node \in Nodes[d + 1] PROVE Ok(d + 1, node)
      OBVIOUS
    <2>1. d + 1 \in Nat /\ (d + 1) - 1 = d /\ d <= MaxDepth
      BY NodeAssumption
    <2>2. \A n \in Nodes[(d + 1) - 1] : Ok((d + 1) - 1, n)
      BY <2>1
    <2> QED
      BY <1>1, <2>1, <2>2
  <1> HIDE DEF Good
  <1>4. Good \subseteq Nat
    BY DEF Good
  <1>5. Good = Nat
    BY <1>2, <1>3, <1>4, Induction
  <1> QED
    BY <1>5 DEF Good, Ok

\* And for the nodes of a list.
LEMMA ReadFacts ==
  ASSUME NEW d \in Nat, d <= MaxDepth, NEW c \in Seq(Nodes[d])
  PROVE  /\ Read(d, c) \in Seq(Seq(Terminals)) /\ Len(Read(d, c)) = Len(c)
         /\ DOMAIN Read(d, c) = DOMAIN c
         /\ FlattenSeq(Read(d, c)) \in Seq(Terminals)
         /\ \A i \in DOMAIN c :
              /\ Read(d, c)[i] = LeavesOf[d][c[i]]
              /\ c[i] \in Nodes[d]
              /\ Range(Read(d, c)[i]) = Parts[d][c[i]] \cap Terminals
  <1> DEFINE T == Seq(Terminals)
             n == Len(c)
             s == Read(d, c)
  <1>1. n \in Nat /\ DOMAIN c = 1 .. n /\ \A i \in DOMAIN c : c[i] \in Nodes[d]
    OBVIOUS
  <1>2. DOMAIN s = DOMAIN c /\ \A i \in DOMAIN c : s[i] = LeavesOf[d][c[i]]
    BY DEF Read
  <1>3. \A i \in DOMAIN c : s[i] \in T /\ Range(s[i]) = Parts[d][c[i]] \cap Terminals
    BY <1>1, <1>2, LeavesType
  <1>4. s = [i \in 1 .. n |-> s[i]]
    BY <1>1 DEF Read
  <1> HIDE DEF T, n, s
  <1>5. s \in [1 .. n -> T]
    BY <1>1, <1>3, <1>4
  <1>6. s \in Seq(T) /\ Len(s) = n
    BY <1>1, <1>5
  <1>7. FlattenSeq(s) \in Seq(Terminals)
    BY <1>6, FlatType DEF T
  <1> QED
    BY <1>1, <1>2, <1>3, <1>6, <1>7 DEF T, n, s

LEMMA LeavesGrow ==
  \A d \in Nat : d <= MaxDepth =>
    \A node \in Nodes[d] : LeavesOf[d + 1][node] = LeavesOf[d][node]
  <1> DEFINE Good == {d \in Nat : d <= MaxDepth =>
                        \A node \in Nodes[d] : LeavesOf[d + 1][node] = LeavesOf[d][node]}
  <1>1. \A d \in Nat : d + 1 \in Nat /\ (d + 1) - 1 = d /\ Nodes[d] \subseteq Nodes[d + 1]
    BY NodesGrow
  <1>2. 0 \in Good
    <2>1. ASSUME NEW node \in Nodes[0] PROVE LeavesOf[0 + 1][node] = LeavesOf[0][node]
      <3> DEFINE one == 0 + 1
      <3>1. node \in Terminals /\ node \in Nodes[one]
        BY <1>1, NodesFacts
      <3>2. one \in Nat
        OBVIOUS
      <3> HIDE DEF one
      <3>3. LeavesOf[one][node] = <<node>>
        BY <3>1, <3>2, LeavesFacts
      <3>4. LeavesOf[0][node] = <<node>>
        BY <3>1, LeavesFacts
      <3> QED
        BY <3>3, <3>4, Zenon DEF one
    <2> QED
      BY <2>1
  <1>3. ASSUME NEW d \in Good PROVE d + 1 \in Good
    <2> DEFINE e == d + 1
    <2> SUFFICES ASSUME e <= MaxDepth, NEW node \in Nodes[e]
                 PROVE  LeavesOf[e + 1][node] = LeavesOf[e][node]
      OBVIOUS
    <2>0. MaxDepth \in Nat
      BY NodeAssumption
    <2>1. e \in Nat /\ d \in Nat /\ e - 1 = d /\ (e + 1) - 1 = e /\ e + 1 \in Nat
          /\ node \in Nodes[e + 1] /\ d <= MaxDepth
      BY <1>1, <2>0
    <2>2. \A n \in Nodes[d] : LeavesOf[e][n] = LeavesOf[d][n]
      BY <2>1
    <2> HIDE DEF e
    <2>3. CASE node \in Terminals
      BY <2>1, <2>3, LeavesFacts
    <2>4. CASE node \notin Terminals
      <3>1. \A i \in DOMAIN node.children : node.children[i] \in Nodes[d]
        BY <2>1, <2>4, NodeKinds
      <3>2. Read(e, node.children) = Read(d, node.children)
        BY <2>2, <3>1 DEF Read
      <3>3. LeavesOf[e][node] = FlattenSeq(Read(e - 1, node.children))
        BY <2>1, <2>4, LeavesFacts
      <3>4. LeavesOf[e + 1][node] = FlattenSeq(Read((e + 1) - 1, node.children))
        BY <2>1, <2>4, LeavesFacts
      <3>5. e - 1 = d /\ (e + 1) - 1 = e
        BY <2>1
      <3> QED
        BY <3>2, <3>3, <3>4, <3>5, Zenon
    <2> QED
      BY <2>3, <2>4
  <1> HIDE DEF Good
  <1>4. Good \subseteq Nat
    BY DEF Good
  <1>5. Good = Nat
    BY <1>2, <1>3, <1>4, Induction
  <1> QED
    BY <1>5 DEF Good

LEMMA ContainerLeaves ==
  ASSUME NEW d \in Nat, d <= MaxDepth,
         NEW h \in BOOLEAN, NEW c \in Seq(Nodes[d])
  PROVE  LeavesOf[d + 1][Container(h, c)] = FlattenSeq(Read(d, c))
  <1> DEFINE n == Container(h, c)
  <1>1. n \in Nodes[d + 1] /\ n \notin Terminals /\ n.children = c
    BY NodeKinds
  <1>2. d + 1 \in Nat /\ (d + 1) - 1 = d
    OBVIOUS
  <1> HIDE DEF n
  <1>3. LeavesOf[d + 1][n] = FlattenSeq(Read(d, c))
    BY <1>1, <1>2, LeavesFacts
  <1> QED
    BY <1>3 DEF n


\* Where the elements of a list are after an insertion.
LEMMA InsertAtPlaces ==
  ASSUME NEW S, NEW s \in Seq(S), NEW k \in 1 .. Len(s) + 1, NEW e \in S
  PROVE  /\ InsertAt(s, k, e)[k] = e
         /\ \A i \in 1 .. Len(s) : s[i] = InsertAt(s, k, e)[IF i < k THEN i ELSE i + 1]
  <1> DEFINE n == Len(s)
             a == SubSeq(s, 1, k - 1)
             b == SubSeq(s, k, n)
             o == <<e>>
             ao == a \o o
             r == InsertAt(s, k, e)
  <1>1. n \in Nat /\ k \in 1 .. n + 1 /\ k - 1 \in 0 .. n
    OBVIOUS
  <1>2. a \in Seq(S) /\ Len(a) = k - 1 /\ \A i \in 1 .. k - 1 : a[i] = s[i]
    BY <1>1
  <1>3. b \in Seq(S) /\ Len(b) = n - (k - 1) /\ \A i \in 1 .. n - (k - 1) : b[i] = s[k + i - 1]
    BY <1>1
  <1>4. o \in Seq(S) /\ Len(o) = 1 /\ o[1] = e
    OBVIOUS
  <1>5. r = ao \o b
    BY DEF InsertAt
  <1> HIDE DEF a, b, o, r, n
  <1>6. /\ ao \in Seq(S) /\ Len(ao) = (k - 1) + 1
        /\ \A i \in 1 .. (k - 1) + 1 : ao[i] = IF i <= k - 1 THEN a[i] ELSE o[i - (k - 1)]
    <2>1. /\ ao \in Seq(S) /\ Len(ao) = Len(a) + Len(o)
          /\ \A i \in 1 .. Len(a) + Len(o) : ao[i] = IF i <= Len(a) THEN a[i] ELSE o[i - Len(a)]
      BY <1>2, <1>4, Joined, Zenon
    <2> QED
      BY <1>2, <1>4, <2>1
  <1> HIDE DEF ao
  <1>7. Len(ao) = k
    BY <1>1, <1>6
  <1>8. \A i \in 1 .. k + (n - (k - 1)) : r[i] = IF i <= k THEN ao[i] ELSE b[i - k]
    BY <1>3, <1>5, <1>6, <1>7, Joined
  <1>9. r[k] = e
    <2>1. k \in 1 .. k + (n - (k - 1)) /\ k \in 1 .. (k - 1) + 1 /\ ~(k <= k - 1) /\ k - (k - 1) = 1
      BY <1>1
    <2>2. r[k] = ao[k]
      BY <1>8, <2>1
    <2>3. ao[k] = o[1]
      BY <1>6, <2>1
    <2> QED
      BY <1>4, <2>2, <2>3
  <1>10. ASSUME NEW i \in 1 .. n PROVE s[i] = r[IF i < k THEN i ELSE i + 1]
    <2>1. CASE i < k
      <3>1. i \in 1 .. k + (n - (k - 1)) /\ i \in 1 .. (k - 1) + 1 /\ i <= k - 1 /\ i \in 1 .. k - 1 /\ i <= k
        BY <1>1, <2>1
      <3>2. r[i] = ao[i] /\ ao[i] = a[i] /\ a[i] = s[i]
        BY <1>2, <1>6, <1>8, <3>1
      <3> QED
        BY <2>1, <3>2
    <2>2. CASE ~(i < k)
      <3>1. /\ i + 1 \in 1 .. k + (n - (k - 1)) /\ ~(i + 1 <= k) /\ (i + 1) - k = i - (k - 1)
            /\ i - (k - 1) \in 1 .. n - (k - 1) /\ k + (i - (k - 1)) - 1 = i
        BY <1>1, <2>2
      <3>2. r[i + 1] = b[i - (k - 1)]
        BY <1>8, <3>1
      <3>3. b[i - (k - 1)] = s[i]
        BY <1>3, <3>1
      <3> QED
        BY <2>2, <3>2, <3>3
    <2> QED
      BY <2>1, <2>2
  <1> QED
    BY <1>9, <1>10 DEF r, n

\* A new terminal among the nodes of a list.
LEMMA BesideLeaves ==
  ASSUME NEW d \in Nat, d <= MaxDepth, NEW c \in Seq(Nodes[d]),
         NEW target, \E i \in DOMAIN c : c[i] = target,
         NEW new \in Terminals, NEW before \in BOOLEAN
  PROVE  /\ Beside(c, target, new, before) \in Seq(Nodes[d])
         /\ Put(FlattenSeq(Read(d, c)), FlattenSeq(Read(d, Beside(c, target, new, before))), new)
  <1> DEFINE N == Nodes[d]
             b == Beside(c, target, new, before)
             n == Len(c)
             s == Read(d, c)
             u == Read(d, b)
  <1>1. new \in N /\ c \in Seq(N) /\ n \in Nat /\ DOMAIN c = 1 .. n
    BY TerminalKinds
  <1>2. LeavesOf[d][new] = <<new>>
    BY <1>1, LeavesFacts
  <1> HIDE DEF N
  <1>3. PICK k \in 1 .. n + 1 : b = InsertAt(c, k, new)
    BY <1>1, BesideInserts
  <1>4. /\ b \in Seq(N) /\ Len(b) = n + 1
        /\ b[k] = new /\ \A i \in 1 .. n : c[i] = b[IF i < k THEN i ELSE i + 1]
    <2> DEFINE x == InsertAt(c, k, new)
    <2>1. k \in 1 .. Len(c) + 1
      OBVIOUS
    <2>2. x \in Seq(N) /\ Len(x) = Len(c) + 1
      BY <1>1, <2>1, InsertAtType
    <2>3. x[k] = new /\ \A i \in 1 .. Len(c) : c[i] = x[IF i < k THEN i ELSE i + 1]
      BY <1>1, <2>1, InsertAtPlaces
    <2> QED
      BY <1>3, <2>2, <2>3, Zenon
  <1> HIDE DEF b
  <1>5. DOMAIN b = 1 .. n + 1
    BY <1>1, <1>4
  <1>6. /\ s \in Seq(Seq(Terminals)) /\ Len(s) = n
        /\ \A i \in 1 .. n : s[i] = LeavesOf[d][c[i]]
    BY <1>1, ReadFacts
  <1>7. /\ u \in Seq(Seq(Terminals)) /\ Len(u) = n + 1
        /\ \A i \in 1 .. n + 1 : u[i] = LeavesOf[d][b[i]]
    BY <1>4, <1>5, ReadFacts DEF N
  <1> HIDE DEF s, u, n
  <1>8. u[k] = <<new>>
    BY <1>2, <1>4, <1>7
  <1>9. \A i \in 1 .. n : s[i] = u[IF i < k THEN i ELSE i + 1]
    <2> SUFFICES ASSUME NEW i \in 1 .. n PROVE s[i] = u[IF i < k THEN i ELSE i + 1]
      OBVIOUS
    <2> DEFINE j == IF i < k THEN i ELSE i + 1
    <2>1. j \in 1 .. n + 1
      BY <1>1
    <2>2. c[i] = b[j]
      BY <1>4
    <2> HIDE DEF j
    <2>3. s[i] = u[j]
      BY <1>6, <1>7, <2>1, <2>2
    <2> QED
      BY <2>3 DEF j
  <1>10. Put(FlattenSeq(s), FlattenSeq(u), new)
    BY <1>6, <1>7, <1>8, <1>9, FlatMore
  <1> QED
    BY <1>4, <1>10 DEF s, u, b, N


\* At most one piece changes, and something is put into that one.
LEMMA FlatPutOnce ==
  ASSUME NEW s \in Seq(Seq(Terminals)), NEW u \in Seq(Seq(Terminals)), Len(u) = Len(s),
         NEW t \in Terminals, NEW H \in SUBSET DOMAIN s,
         \A i \in H : Put(s[i], u[i], t),
         \A i \in DOMAIN s \ H : u[i] = s[i],
         \A i, j \in H : i = j
  PROVE  IF H = {} THEN FlattenSeq(u) = FlattenSeq(s) ELSE Put(FlattenSeq(s), FlattenSeq(u), t)
  <1>1. CASE H = {}
    <2>1. DOMAIN u = DOMAIN s /\ \A i \in DOMAIN s : u[i] = s[i]
      BY <1>1
    <2>2. u = [i \in DOMAIN u |-> u[i]] /\ s = [i \in DOMAIN s |-> s[i]]
      OBVIOUS
    <2>3. u = s
      BY <2>1, <2>2
    <2> QED
      BY <1>1, <2>3
  <1>2. CASE H # {}
    <2>1. PICK k \in H : TRUE
      BY <1>2
    <2>2. k \in DOMAIN s /\ Put(s[k], u[k], t) /\ \A i \in DOMAIN s : i # k => u[i] = s[i]
      BY <2>1
    <2>3. Put(FlattenSeq(s), FlattenSeq(u), t)
      BY <2>2, FlatPut
    <2> QED
      BY <1>2, <2>3
  <1> QED
    BY <1>1, <1>2

\* In a list of trees in which nothing is twice, a terminal is in one of them.
LEMMA ReadApart ==
  ASSUME NEW d \in Nat, d <= MaxDepth, NEW c \in Seq(Nodes[d]), NEW x
  PROVE  /\ x \in Range(FlattenSeq(Read(d, c))) <=> \E i \in DOMAIN c : x \in Range(LeavesOf[d][c[i]])
         /\ Single(FlattenSeq(Read(d, c))) =>
              \A i \in DOMAIN c :
                /\ Single(LeavesOf[d][c[i]])
                /\ \A j \in DOMAIN c :
                     x \in Range(LeavesOf[d][c[i]]) /\ x \in Range(LeavesOf[d][c[j]]) => i = j
  <1> DEFINE s == Read(d, c)
  <1>1. /\ s \in Seq(Seq(Terminals)) /\ DOMAIN s = DOMAIN c
        /\ \A i \in DOMAIN c : s[i] = LeavesOf[d][c[i]]
    BY ReadFacts
  <1> HIDE DEF s
  <1>2. /\ x \in Range(FlattenSeq(s)) <=> \E i \in DOMAIN s : x \in Range(s[i])
        /\ Single(FlattenSeq(s)) =>
             \A i \in DOMAIN s :
               /\ Single(s[i])
               /\ \A j \in DOMAIN s : j # i => Range(s[i]) \cap Range(s[j]) = {}
    BY <1>1, FlatParts
  <1>3. /\ x \in Range(FlattenSeq(s)) <=> \E i \in DOMAIN c : x \in Range(LeavesOf[d][c[i]])
        /\ Single(FlattenSeq(s)) =>
              \A i \in DOMAIN c :
                /\ Single(LeavesOf[d][c[i]])
                /\ \A j \in DOMAIN c :
                     x \in Range(LeavesOf[d][c[i]]) /\ x \in Range(LeavesOf[d][c[j]]) => i = j
    BY <1>1, <1>2
  <1> QED
    BY <1>3 DEF s

\* What an insertion does to a list of terminals: the new one comes in, if the
\* target is there.
InsertedLeaves(d, node, result, target, new) ==
  Single(LeavesOf[d][node]) =>
    IF target \in Range(LeavesOf[d][node])
    THEN Put(LeavesOf[d][node], LeavesOf[d + 1][result], new)
    ELSE LeavesOf[d + 1][result] = LeavesOf[d][node]

LEMMA InsertLeavesLevels ==
  ASSUME NEW target \in Terminals \cup {None}, NEW new \in Terminals,
         NEW horizontal \in BOOLEAN, NEW before \in BOOLEAN,
         NEW f, InsertLevelled(f, target, new, horizontal, before)
  PROVE  \A d \in Nat : d <= MaxDepth =>
           \A node \in Nodes[d] : InsertedLeaves(d, node, f[d][node], target, new)
  <1> DEFINE Good == {d \in Nat : d <= MaxDepth =>
                        \A node \in Nodes[d] : InsertedLeaves(d, node, f[d][node], target, new)}
  <1>1. ASSUME NEW d \in Nat, d <= MaxDepth, NEW node \in Nodes[d],
               node \notin Terminals =>
                 \A n \in Nodes[d - 1] : InsertedLeaves(d - 1, n, f[d - 1][n], target, new)
        PROVE  InsertedLeaves(d, node, f[d][node], target, new)
    <2> DEFINE r == f[d][node]
               l == LeavesOf[d][node]
               m == LeavesOf[d + 1][r]
               one == <<node>>
    <2>1. r = IF node = target THEN Container(horizontal, Beside(one, node, new, before))
              ELSE IF node \in Terminals THEN node
              ELSE IF TakesIn(node, target, horizontal)
              THEN Container(horizontal, Beside(node.children, target, new, before))
              ELSE Container(node.horizontal,
                     [i \in DOMAIN node.children |-> f[d - 1][node.children[i]]])
      BY <1>1, InsertLevel
    <2>2. LeavesOf[d + 1][node] = l
      BY <1>1, LeavesGrow
    <2>3. l = IF node \in Terminals THEN <<node>> ELSE FlattenSeq(Read(d - 1, node.children))
      BY <1>1, LeavesFacts
    <2>4. node = target => node \in Terminals
      BY <1>1, NodeKinds
    <2> HIDE DEF r, l
    <2>5. CASE node = target
      <3> DEFINE c == Beside(one, node, new, before)
      <3>1. one \in Seq(Nodes[d]) /\ \E i \in DOMAIN one : one[i] = node
        <4> DEFINE N == Nodes[d]
        <4>1. node \in N
          OBVIOUS
        <4> HIDE DEF N
        <4>2. one \in Seq(N) /\ 1 \in DOMAIN one /\ one[1] = node
          BY <4>1
        <4> QED
          BY <4>2 DEF N
      <3>2. c \in Seq(Nodes[d]) /\ Put(FlattenSeq(Read(d, one)), FlattenSeq(Read(d, c)), new)
        BY <1>1, <3>1, BesideLeaves
      <3> HIDE DEF c
      <3>3. m = FlattenSeq(Read(d, c))
        <4>1. r = Container(horizontal, c)
          BY <2>1, <2>5 DEF c
        <4> QED
          BY <1>1, <3>2, <4>1, ContainerLeaves
      <3>4. FlattenSeq(Read(d, one)) = l
        <4>1. l = one /\ LeavesOf[d][node] = l /\ l \in Seq(Terminals)
          BY <2>3, <2>4, <2>5, OneType DEF l
        <4>2. Read(d, one) = <<l>>
          BY <4>1 DEF Read
        <4> QED
          BY <4>1, <4>2, FlatOne
      <3>5. target \in Range(l)
        BY <2>3, <2>4, <2>5, OneType
      <3> QED
        BY <3>2, <3>3, <3>4, <3>5 DEF InsertedLeaves, r, l
    <2>6. CASE node # target /\ node \in Terminals
      <3>1. r = node /\ target \notin Range(l)
        BY <2>1, <2>3, <2>6, OneType
      <3> QED
        BY <2>2, <3>1 DEF InsertedLeaves, r, l
    <2>7. CASE node # target /\ node \notin Terminals
      <3> DEFINE c == node.children
                 e == d - 1
                 s == Read(e, c)
      <3>1. /\ e \in Nat /\ e + 1 = d /\ e <= MaxDepth
            /\ node.horizontal \in BOOLEAN /\ c \in Seq(Nodes[e])
            /\ \A i \in DOMAIN c : c[i] \in Nodes[e]
        BY <1>1, <2>7, OldKinds
      <3>2. l = FlattenSeq(s)
        BY <2>3, <2>7
      <3>3. /\ Nodes[e] \subseteq Nodes[d]
            /\ \A n \in Nodes[e] : LeavesOf[d][n] = LeavesOf[e][n]
        BY <3>1, NodesGrow, LeavesGrow
      <3>4. CASE TakesIn(node, target, horizontal)
        <4> DEFINE b == Beside(c, target, new, before)
        <4>1. r = Container(horizontal, b)
          BY <2>1, <2>7, <3>4
        <4>2. \E i \in DOMAIN c : c[i] = target
          BY <3>4 DEF TakesIn, ToSet
        <4> HIDE DEF c, e
        <4>3. c \in Seq(Nodes[d])
          BY <3>1, <3>3
        <4>4. b \in Seq(Nodes[d]) /\ Put(FlattenSeq(Read(d, c)), FlattenSeq(Read(d, b)), new)
          BY <1>1, <4>2, <4>3, BesideLeaves
        <4>5. Read(d, c) = s
          BY <3>1, <3>3 DEF Read
        <4> HIDE DEF b
        <4>6. m = FlattenSeq(Read(d, b))
          BY <1>1, <4>1, <4>4, ContainerLeaves
        <4>7. target \in Range(l)
          <5>1. PICK i \in DOMAIN c : c[i] = target
            BY <4>2
          <5>a. None \notin Nodes[e]
            BY <3>1, NodeKinds
          <5>2. target \in Terminals
            BY <3>1, <5>1, <5>a
          <5>3. LeavesOf[e][c[i]] = <<target>>
            BY <3>1, <5>1, <5>2, LeavesFacts
          <5>4. target \in Range(LeavesOf[e][c[i]])
            BY <5>2, <5>3, OneType
          <5> QED
            BY <3>1, <3>2, <5>4, ReadApart
        <4>8. Put(l, m, new)
          BY <3>2, <4>4, <4>5, <4>6
        <4> QED
          BY <4>7, <4>8 DEF InsertedLeaves, r, l
      <3>5. CASE ~TakesIn(node, target, horizontal)
        <4> DEFINE b == [i \in DOMAIN c |-> f[e][c[i]]]
                   h == node.horizontal
                   u == Read(d, b)
                   H == {i \in DOMAIN c : target \in Range(LeavesOf[e][c[i]])}
        <4>1. r = Container(h, b)
          BY <2>1, <2>7, <3>5 DEF e
        <4>2. \A i \in DOMAIN c : b[i] \in Nodes[d] /\ InsertedLeaves(e, c[i], b[i], target, new)
          <5>1. \A n \in Nodes[e] : Inserted(e, n, f[e][n], new)
            BY <3>1, InsertLevels
          <5> QED
            BY <1>1, <2>7, <3>1, <5>1 DEF Inserted
        <4>3. b \in Seq(Nodes[d]) /\ DOMAIN b = DOMAIN c /\ Len(b) = Len(c)
          <5> DEFINE n == Len(c)
          <5>1. n \in Nat /\ DOMAIN c = 1 .. n
            BY <3>1
          <5> HIDE DEF n, c
          <5>2. b \in [1 .. n -> Nodes[d]]
            BY <4>2, <5>1
          <5> HIDE DEF b
          <5> QED
            BY <5>1, <5>2 DEF n
        <4> HIDE DEF b, c, h
        <4>4. m = FlattenSeq(u)
          BY <1>1, <3>1, <4>1, <4>3, ContainerLeaves DEF h
        <4>5. /\ s \in Seq(Seq(Terminals)) /\ Len(s) = Len(c) /\ DOMAIN s = DOMAIN c
              /\ \A i \in DOMAIN c : s[i] = LeavesOf[e][c[i]]
          BY <3>1, ReadFacts
        <4>6. /\ u \in Seq(Seq(Terminals)) /\ Len(u) = Len(b)
              /\ \A i \in DOMAIN c : u[i] = LeavesOf[d][b[i]]
          BY <1>1, <4>3, ReadFacts
        <4> SUFFICES ASSUME Single(l)
                     PROVE  IF target \in Range(l) THEN Put(l, m, new) ELSE m = l
          BY DEF InsertedLeaves, r, l
        <4>7. /\ target \in Range(l) <=> \E i \in DOMAIN c : target \in Range(LeavesOf[e][c[i]])
              /\ \A i \in DOMAIN c :
                   /\ Single(LeavesOf[e][c[i]])
                   /\ \A j \in DOMAIN c :
                        target \in Range(LeavesOf[e][c[i]]) /\ target \in Range(LeavesOf[e][c[j]]) => i = j
          BY <3>1, <3>2, ReadApart
        <4> HIDE DEF s, u, e, m
        <4>8. H \in SUBSET DOMAIN s /\ \A i, j \in H : i = j
          BY <4>5, <4>7
        <4>a. ASSUME NEW i \in DOMAIN c
              PROVE  IF target \in Range(LeavesOf[e][c[i]]) THEN Put(s[i], u[i], new) ELSE u[i] = s[i]
          <5>1. InsertedLeaves(e, c[i], b[i], target, new) /\ Single(LeavesOf[e][c[i]])
            BY <4>2, <4>7
          <5>2. s[i] = LeavesOf[e][c[i]] /\ u[i] = LeavesOf[e + 1][b[i]]
            BY <3>1, <4>5, <4>6
          <5> QED
            BY <5>1, <5>2 DEF InsertedLeaves
        <4>9. \A i \in H : Put(s[i], u[i], new)
          BY <4>a
        <4>10. \A i \in DOMAIN s \ H : u[i] = s[i]
          BY <4>5, <4>a
        <4>11. H = {} <=> target \notin Range(l)
          BY <4>7
        <4> HIDE DEF H
        <4>12. Len(u) = Len(s)
          BY <4>3, <4>5, <4>6
        <4>13. IF H = {} THEN FlattenSeq(u) = FlattenSeq(s) ELSE Put(FlattenSeq(s), FlattenSeq(u), new)
          BY <4>5, <4>6, <4>8, <4>9, <4>10, <4>12, FlatPutOnce
        <4> QED
          BY <3>2, <4>4, <4>11, <4>13
      <3> QED
        BY <3>4, <3>5
    <2> QED
      BY <2>5, <2>6, <2>7
  <1>2. 0 \in Good
    BY <1>1, NodesFacts
  <1>3. ASSUME NEW d \in Good PROVE d + 1 \in Good
    <2> SUFFICES ASSUME d + 1 <= MaxDepth, NEW node \in Nodes[d + 1]
                 PROVE  InsertedLeaves(d + 1, node, f[d + 1][node], target, new)
      OBVIOUS
    <2>1. d + 1 \in Nat /\ (d + 1) - 1 = d /\ d <= MaxDepth
      BY NodeAssumption
    <2>2. \A n \in Nodes[(d + 1) - 1] : InsertedLeaves((d + 1) - 1, n, f[(d + 1) - 1][n], target, new)
      BY <2>1
    <2> QED
      BY <1>1, <2>1, <2>2
  <1> HIDE DEF Good
  <1>4. Good \subseteq Nat
    BY DEF Good
  <1>5. Good = Nat
    BY <1>2, <1>3, <1>4, Induction
  <1> QED
    BY <1>5 DEF Good


\* What is left of a node, which may be nothing.
Left(d, node) == IF node = None THEN <<>> ELSE LeavesOf[d][node]

LEMMA ReadAppend ==
  ASSUME NEW d \in Nat, d <= MaxDepth, NEW k \in Seq(Nodes[d]), NEW x \in Nodes[d]
  PROVE  /\ Append(k, x) \in Seq(Nodes[d])
         /\ FlattenSeq(Read(d, Append(k, x))) = FlattenSeq(Read(d, k)) \o LeavesOf[d][x]
  <1> DEFINE a == Append(k, x)
             N == Nodes[d]
             l == LeavesOf[d][x]
             s == Read(d, k)
             u == Read(d, a)
             e == <<l>>
             n == Len(k)
  <1>1. /\ a \in Seq(N) /\ Len(a) = n + 1 /\ n \in Nat /\ DOMAIN a = 1 .. n + 1 /\ DOMAIN k = 1 .. n
        /\ a[n + 1] = x /\ \A i \in 1 .. n : a[i] = k[i]
    <2> HIDE DEF N
    <2> QED
      BY DEF N
  <1>2. l \in Seq(Terminals)
    BY LeavesType
  <1> HIDE DEF a, l
  <1>3. e \in Seq(Seq(Terminals)) /\ Len(e) = 1 /\ e[1] = l
    <2> DEFINE T == Seq(Terminals)
    <2>1. l \in T
      BY <1>2
    <2> HIDE DEF T
    <2>2. e \in Seq(T) /\ Len(e) = 1 /\ e[1] = l
      BY <2>1
    <2> QED
      BY <2>2 DEF T
  <1>4. /\ s \in Seq(Seq(Terminals)) /\ Len(s) = n
        /\ \A i \in 1 .. n : s[i] = LeavesOf[d][k[i]]
    BY <1>1, ReadFacts
  <1>5. /\ u \in Seq(Seq(Terminals)) /\ Len(u) = n + 1
        /\ \A i \in 1 .. n + 1 : u[i] = LeavesOf[d][a[i]]
    BY <1>1, ReadFacts
  <1> HIDE DEF s, u, e, N, n
  <1>6. u = s \o e
    <2> DEFINE v == s \o e
    <2>1. /\ v \in Seq(Seq(Terminals)) /\ Len(v) = Len(s) + Len(e)
          /\ \A i \in 1 .. Len(s) + Len(e) : v[i] = IF i <= Len(s) THEN s[i] ELSE e[i - Len(s)]
      BY <1>3, <1>4, Joined, Zenon
    <2> HIDE DEF v
    <2>2. Len(v) = n + 1 /\ \A i \in 1 .. n + 1 : v[i] = IF i <= n THEN s[i] ELSE e[i - n]
      BY <1>3, <1>4, <2>1
    <2>3. ASSUME NEW i \in 1 .. n + 1 PROVE u[i] = v[i]
      <3>1. CASE i <= n
        <4>1. i \in 1 .. n
          BY <1>1, <3>1
        <4>2. v[i] = s[i] /\ s[i] = LeavesOf[d][k[i]] /\ u[i] = LeavesOf[d][a[i]] /\ a[i] = k[i]
          BY <1>1, <1>4, <1>5, <2>2, <3>1, <4>1
        <4> QED
          BY <4>2
      <3>2. CASE i = n + 1
        <4>1. ~(n + 1 <= n) /\ (n + 1) - n = 1 /\ n + 1 \in 1 .. n + 1
          BY <1>1
        <4>2. v[n + 1] = e[1] /\ u[n + 1] = LeavesOf[d][a[n + 1]]
          BY <1>5, <2>2, <4>1
        <4> QED
          BY <1>1, <1>3, <3>2, <4>2 DEF l
      <3> QED
        BY <1>1, <3>1, <3>2
    <2>4. u = [i \in 1 .. n + 1 |-> u[i]] /\ v = [i \in 1 .. n + 1 |-> v[i]]
      BY <1>5, <2>1, <2>2
    <2>5. u = v
      BY <2>3, <2>4
    <2> QED
      BY <2>5 DEF v
  <1>7. FlattenSeq(u) = FlattenSeq(s) \o FlattenSeq(e)
    BY <1>3, <1>4, <1>6, FlatConcat
  <1>8. FlattenSeq(e) = l
    BY <1>2, FlatOne DEF e
  <1> QED
    BY <1>1, <1>7, <1>8 DEF a, N, l, s, u

\* The nulls of a list have no leaves.
LEMMA NonNullLeaves ==
  ASSUME NEW d \in Nat, d <= MaxDepth, NEW nodes \in Seq(Nodes[d] \cup {None})
  PROVE  /\ [i \in DOMAIN nodes |-> Left(d, nodes[i])] \in Seq(Seq(Terminals))
         /\ FlattenSeq(Read(d, NonNull(nodes))) = FlattenSeq([i \in DOMAIN nodes |-> Left(d, nodes[i])])
  <1> DEFINE n == Len(nodes)
             v == [i \in DOMAIN nodes |-> Left(d, nodes[i])]
             T == Seq(Terminals)
  <1>1. n \in Nat /\ DOMAIN nodes = 1 .. n /\ \A i \in 1 .. n : nodes[i] \in Nodes[d] \cup {None}
    OBVIOUS
  <1>2. <<>> \in T /\ \A x \in Nodes[d] : LeavesOf[d][x] \in T
    BY LeavesType, EmptySeq
  <1>3. \A i \in 1 .. n : v[i] = Left(d, nodes[i]) /\ v[i] \in T
    BY <1>1, <1>2 DEF Left
  <1>4. v = [i \in 1 .. n |-> v[i]]
    BY <1>1
  <1> HIDE DEF T, v
  <1>5. v \in [1 .. n -> T]
    BY <1>3, <1>4
  <1> HIDE DEF n
  <1>6. v \in Seq(T) /\ Len(v) = n
    BY <1>1, <1>5
  <1>7. PICK f : NonNull(nodes) = f[n] /\ \A i \in 0 .. n : f[i] = NonNullStep(nodes, i, f[i - 1])
    BY <1>1, NonNullSolved DEF n
  <1>8. PICK g : Run(v, g) /\ FlattenSeq(v) = g[n]
    BY <1>6, FlatRun DEF T
  <1>9. g[0] = <<>> /\ \A i \in 1 .. n : g[i] = g[i - 1] \o v[i]
    BY <1>6, <1>8 DEF Run
  <1>10. \A i \in 0 .. n : g[i] \in T
    BY <1>6, <1>8, RunType DEF T
  <1> DEFINE Ok(i) == f[i] \in Seq(Nodes[d]) /\ FlattenSeq(Read(d, f[i])) = g[i]
             Good == {i \in Nat : i <= n => Ok(i)}
  <1>11. Ok(0)
    <2>1. f[0] = <<>>
      <3>1. 0 \in 0 .. n
        BY <1>1
      <3>2. f[0] = NonNullStep(nodes, 0, f[0 - 1])
        BY <1>7, <3>1, Zenon
      <3> QED
        BY <3>2 DEF NonNullStep
    <2>2. <<>> \in Seq(Nodes[d])
      BY EmptySeq
    <2>3. Read(d, <<>>) = <<>>
      BY DEF Read
    <2> QED
      BY <1>9, <2>1, <2>2, <2>3, FlatEmpty
  <1>12. ASSUME NEW i \in Nat, i + 1 <= n, Ok(i) PROVE Ok(i + 1)
    <2> DEFINE x == nodes[i + 1]
               k == f[i]
    <2>1. i + 1 \in 1 .. n /\ i + 1 \in 0 .. n /\ i + 1 # 0 /\ (i + 1) - 1 = i /\ i \in 0 .. n
      BY <1>1, <1>12
    <2>2. f[i + 1] = IF x = None THEN k ELSE Append(k, x)
      BY <1>7, <2>1 DEF NonNullStep
    <2>3. g[i + 1] = g[i] \o v[i + 1] /\ v[i + 1] = Left(d, x)
      BY <1>3, <1>9, <2>1
    <2>4. k \in Seq(Nodes[d]) /\ FlattenSeq(Read(d, k)) = g[i]
      BY <1>12
    <2>5. x \in Nodes[d] \cup {None} /\ g[i] \in Seq(Terminals)
      BY <1>1, <1>10, <2>1 DEF T
    <2> HIDE DEF x, k
    <2>6. CASE x = None
      <3>1. g[i] \o <<>> = g[i]
        BY <2>5, ConcatEmptySeq
      <3> QED
        BY <2>2, <2>3, <2>4, <2>6, <3>1 DEF Left
    <2>7. CASE x # None
      <3>1. /\ Append(k, x) \in Seq(Nodes[d])
            /\ FlattenSeq(Read(d, Append(k, x))) = FlattenSeq(Read(d, k)) \o LeavesOf[d][x]
        BY <2>4, <2>5, <2>7, ReadAppend
      <3> QED
        BY <2>2, <2>3, <2>4, <2>7, <3>1 DEF Left
    <2> QED
      BY <2>6, <2>7
  <1> HIDE DEF Ok
  <1>13. 0 \in Good
    BY <1>11
  <1>14. ASSUME NEW i \in Good PROVE i + 1 \in Good
    BY <1>1, <1>12
  <1> HIDE DEF Good
  <1>15. Good \subseteq Nat
    BY DEF Good
  <1>16. Good = Nat
    BY <1>13, <1>14, <1>15, Induction
  <1>17. Ok(n)
    BY <1>1, <1>16 DEF Good
  <1>18. FlattenSeq(Read(d, NonNull(nodes))) = FlattenSeq(v)
    BY <1>7, <1>8, <1>17 DEF Ok
  <1> QED
    BY <1>6, <1>18 DEF v, T

\* What collapses keeps its leaves.
LEMMA CollapseLeaves ==
  ASSUME NEW e \in Nat, e <= MaxDepth, NEW h \in BOOLEAN, NEW k \in Seq(Nodes[e])
  PROVE  Left(e + 1, Collapse(h, k)) = FlattenSeq(Read(e, k))
  <1>1. CASE k = <<>>
    <2>1. Collapse(h, k) = None
      BY <1>1 DEF Collapse
    <2>2. Read(e, k) = <<>>
      BY <1>1 DEF Read
    <2> QED
      BY <2>1, <2>2, FlatEmpty DEF Left
  <1>2. CASE k # <<>> /\ Len(k) = 1
    <2> DEFINE n == k[1]
               l == LeavesOf[e][n]
    <2>1. DOMAIN k = {1} /\ n \in Nodes[e]
      BY <1>2
    <2>2. Collapse(h, k) = n
      BY <1>2 DEF Collapse
    <2>3. LeavesOf[e + 1][n] = l /\ n # None /\ l \in Seq(Terminals)
      BY <2>1, LeavesGrow, LeavesType, NodeKinds
    <2>4. Read(e, k) = <<l>>
      BY <2>1 DEF Read
    <2> HIDE DEF n, l
    <2> QED
      BY <2>2, <2>3, <2>4, FlatOne DEF Left
  <1>3. CASE k # <<>> /\ Len(k) # 1
    <2> DEFINE n == Container(h, k)
    <2>1. Collapse(h, k) = n
      BY <1>3 DEF Collapse
    <2>2. n \in Nodes[e + 1] /\ None \notin Nodes[e + 1]
      BY NodeKinds
    <2>3. LeavesOf[e + 1][n] = FlattenSeq(Read(e, k))
      BY ContainerLeaves
    <2> HIDE DEF n
    <2> QED
      BY <2>1, <2>2, <2>3 DEF Left
  <1> QED
    BY <1>1, <1>2, <1>3

\* What a removal does to a list of terminals: the target goes.
RemovedLeaves(d, node, result, target) ==
  Single(LeavesOf[d][node]) /\ node # target =>
    IF target \in Range(LeavesOf[d][node])
    THEN Put(Left(d, result), LeavesOf[d][node], target)
    ELSE Left(d, result) = LeavesOf[d][node]

LEMMA RemoveLeavesLevels ==
  ASSUME NEW target \in Terminals, NEW f, RemoveLevelled(f, target)
  PROVE  \A d \in Nat : d <= MaxDepth =>
           \A node \in Nodes[d] : RemovedLeaves(d, node, f[d][node], target)
  <1> DEFINE Good == {d \in Nat : d <= MaxDepth =>
                        \A node \in Nodes[d] : RemovedLeaves(d, node, f[d][node], target)}
  <1>1. ASSUME NEW d \in Nat, d <= MaxDepth, NEW node \in Nodes[d],
               node \notin Terminals =>
                 \A n \in Nodes[d - 1] : RemovedLeaves(d - 1, n, f[d - 1][n], target)
        PROVE  RemovedLeaves(d, node, f[d][node], target)
    <2> DEFINE r == f[d][node]
               l == LeavesOf[d][node]
               m == Left(d, r)
               c == node.children
               h == node.horizontal
               e == d - 1
               s == [i \in DOMAIN c |-> IF c[i] = target THEN None ELSE f[e][c[i]]]
               k == NonNull(s)
    <2>1. r = IF node \in Terminals THEN node ELSE Collapse(h, k)
      BY <1>1, RemoveLevel
    <2>2. l = IF node \in Terminals THEN <<node>> ELSE FlattenSeq(Read(e, c))
      BY <1>1, LeavesFacts
    <2>3. CASE node \in Terminals
      <3>1. r = node /\ node # None /\ Range(l) = {node}
        BY <2>1, <2>2, <2>3, NodeAssumption, OneType
      <3> HIDE DEF r
      <3>2. m = l
        BY <3>1 DEF Left
      <3> HIDE DEF m, l
      <3>3. RemovedLeaves(d, node, r, target)
        BY <3>1, <3>2 DEF RemovedLeaves, m, l
      <3> QED
        BY <3>3 DEF r
    <2>4. CASE node \notin Terminals
      <3>1. /\ e \in Nat /\ e + 1 = d /\ e <= MaxDepth
            /\ h \in BOOLEAN /\ c \in Seq(Nodes[e])
            /\ \A i \in DOMAIN c : c[i] \in Nodes[e]
        BY <1>1, <2>4, OldKinds
      <3>2. r = Collapse(h, k) /\ l = FlattenSeq(Read(e, c))
        BY <2>1, <2>2, <2>4
      <3>3. None \notin Nodes[e] /\ Terminals \subseteq Nodes[e]
        BY <3>1, NodeKinds
      <3>4. \A i \in DOMAIN c : f[e][c[i]] \in Nodes[e] \cup {None} /\ RemovedLeaves(e, c[i], f[e][c[i]], target)
        <4>1. \A n \in Nodes[e] : Removed(e, n, f[e][n], target)
          BY <3>1, RemoveLevels
        <4> QED
          BY <1>1, <2>4, <3>1, <4>1 DEF Removed
      <3> HIDE DEF e, r, h, l
      <3>5. s \in Seq(Nodes[e] \cup {None}) /\ DOMAIN s = DOMAIN c /\ Len(s) = Len(c)
        <4> DEFINE N == Nodes[e] \cup {None}
                   n == Len(c)
        <4>1. n \in Nat /\ DOMAIN c = 1 .. n
          BY <3>1
        <4>2. \A i \in DOMAIN c : f[e][c[i]] \in N
          BY <3>4
        <4> HIDE DEF N, n, c
        <4>3. s \in [1 .. n -> N]
          BY <4>1, <4>2 DEF N
        <4> HIDE DEF s
        <4>4. s \in Seq(N) /\ DOMAIN s = 1 .. n /\ Len(s) = n
          BY <4>1, <4>3
        <4> QED
          BY <4>1, <4>4 DEF N, n
      <3>6. \A i \in DOMAIN c : s[i] = IF c[i] = target THEN None ELSE f[e][c[i]]
        OBVIOUS
      <3> DEFINE v == [i \in DOMAIN s |-> Left(e, s[i])]
                 u == Read(e, c)
                 H == {i \in DOMAIN c : target \in Range(LeavesOf[e][c[i]])}
      <3> HIDE DEF s, c
      <3>7. v \in Seq(Seq(Terminals)) /\ FlattenSeq(Read(e, k)) = FlattenSeq(v)
        BY <3>1, <3>5, NonNullLeaves
      <3>8. k \in Seq(Nodes[e])
        BY <3>3, <3>5, NonNullFacts
      <3> HIDE DEF k
      <3>9. m = FlattenSeq(v)
        BY <3>1, <3>2, <3>7, <3>8, CollapseLeaves
      <3>10. DOMAIN v = DOMAIN c /\ Len(v) = Len(c) /\ \A i \in DOMAIN c : v[i] = Left(e, s[i])
        <4>1. DOMAIN v = DOMAIN c /\ \A i \in DOMAIN c : v[i] = Left(e, s[i])
          BY <3>5
        <4> HIDE DEF v
        <4> QED
          BY <3>1, <3>7, <4>1
      <3>11. /\ u \in Seq(Seq(Terminals)) /\ Len(u) = Len(c)
             /\ \A i \in DOMAIN c : u[i] = LeavesOf[e][c[i]]
        BY <3>1, ReadFacts
      <3> HIDE DEF m, v
      <3> SUFFICES ASSUME Single(l)
                   PROVE  IF target \in Range(l) THEN Put(m, l, target) ELSE m = l
        BY DEF RemovedLeaves, r, l, m
      <3>12. /\ target \in Range(l) <=> \E i \in DOMAIN c : target \in Range(LeavesOf[e][c[i]])
             /\ \A i \in DOMAIN c :
                  /\ Single(LeavesOf[e][c[i]])
                  /\ \A j \in DOMAIN c :
                       target \in Range(LeavesOf[e][c[i]]) /\ target \in Range(LeavesOf[e][c[j]]) => i = j
        BY <3>1, <3>2, ReadApart
      <3>13. ASSUME NEW i \in DOMAIN c
             PROVE  IF target \in Range(LeavesOf[e][c[i]]) THEN Put(v[i], u[i], target) ELSE u[i] = v[i]
        <4>1. u[i] = LeavesOf[e][c[i]] /\ v[i] = Left(e, s[i])
          BY <3>10, <3>11
        <4>2. CASE c[i] = target
          <5>a. target \in Nodes[e] /\ s[i] = None
            BY <3>3, <3>6, <4>2
          <5>b. LeavesOf[e][target] = <<target>>
            BY <3>1, <5>a, LeavesFacts
          <5>1. u[i] = <<target>> /\ v[i] = <<>>
            BY <4>1, <4>2, <5>a, <5>b DEF Left
          <5>2. Put(<<>>, <<>> \o <<target>>, target) /\ <<>> \o <<target>> = <<target>>
            BY OneType, PutEnd, ConcatEmptySeq
          <5>3. target \in Range(u[i])
            BY <5>1, OneType
          <5> QED
            BY <4>1, <5>1, <5>2, <5>3
        <4>3. CASE c[i] # target
          <5>1. v[i] = Left(e, f[e][c[i]])
            BY <3>6, <4>1, <4>3
          <5>2. RemovedLeaves(e, c[i], f[e][c[i]], target) /\ Single(LeavesOf[e][c[i]])
            BY <3>4, <3>12
          <5> QED
            BY <4>1, <4>3, <5>1, <5>2 DEF RemovedLeaves
        <4> QED
          BY <4>2, <4>3
      <3> HIDE DEF u
      <3>14. H \in SUBSET DOMAIN v /\ \A i, j \in H : i = j
        BY <3>10, <3>12
      <3>15. \A i \in H : Put(v[i], u[i], target)
        BY <3>13
      <3>16. \A i \in DOMAIN v \ H : u[i] = v[i]
        BY <3>10, <3>13
      <3>17. H = {} <=> target \notin Range(l)
        BY <3>12
      <3> HIDE DEF H
      <3>18. Len(u) = Len(v)
        BY <3>10, <3>11
      <3>19. IF H = {} THEN FlattenSeq(u) = FlattenSeq(v) ELSE Put(FlattenSeq(v), FlattenSeq(u), target)
        BY <3>7, <3>11, <3>14, <3>15, <3>16, <3>18, FlatPutOnce
      <3> QED
        BY <3>2, <3>9, <3>17, <3>19 DEF u
    <2> QED
      BY <2>3, <2>4
  <1>2. 0 \in Good
    BY <1>1, NodesFacts
  <1>3. ASSUME NEW d \in Good PROVE d + 1 \in Good
    <2> SUFFICES ASSUME d + 1 <= MaxDepth, NEW node \in Nodes[d + 1]
                 PROVE  RemovedLeaves(d + 1, node, f[d + 1][node], target)
      OBVIOUS
    <2>1. d + 1 \in Nat /\ (d + 1) - 1 = d /\ d <= MaxDepth
      BY NodeAssumption
    <2>2. \A n \in Nodes[(d + 1) - 1] : RemovedLeaves((d + 1) - 1, n, f[(d + 1) - 1][n], target)
      BY <2>1
    <2> QED
      BY <1>1, <2>1, <2>2
  <1> HIDE DEF Good
  <1>4. Good \subseteq Nat
    BY DEF Good
  <1>5. Good = Nat
    BY <1>2, <1>3, <1>4, Induction
  <1> QED
    BY <1>5 DEF Good


-----------------------------------------------------------------------------

\* The leaves of a tree are its terminals.
LEMMA TreeLeaves ==
  ASSUME NEW root \in Tree
  PROVE  /\ Leaves(root) = Left(MaxDepth, root)
         /\ Leaves(root) \in Seq(Terminals) /\ Range(Leaves(root)) = Panes(root)
  <1>1. MaxDepth \in Nat /\ MaxDepth <= MaxDepth
    BY NodeAssumption
  <1>2. CASE root = None
    <2>1. Leaves(root) = <<>> /\ Left(MaxDepth, root) = <<>> /\ Panes(root) = {}
      BY <1>2 DEF Leaves, Left, Panes
    <2>2. <<>> \in Seq(Terminals) /\ Range(<<>>) = {}
      BY EmptySeq DEF Range
    <2> QED
      BY <2>1, <2>2
  <1>3. CASE root # None
    <2>1. root \in Nodes[MaxDepth]
      BY <1>3 DEF Tree, Node
    <2>2. /\ LeavesOf[MaxDepth][root] \in Seq(Terminals)
          /\ Range(LeavesOf[MaxDepth][root]) = Parts[MaxDepth][root] \cap Terminals
      BY <1>1, <2>1, LeavesType
    <2> QED
      BY <1>3, <2>2 DEF Leaves, Left, Panes
  <1> QED
    BY <1>2, <1>3

LEMMA TerminalLeaves ==
  ASSUME NEW t \in Terminals
  PROVE  t \in Tree /\ Leaves(t) = <<t>> /\ Leaves(None) = <<>> /\ Put(<<>>, <<t>>, t)
  <1>1. t \in Node /\ MaxDepth \in Nat /\ t # None
    BY TerminalTree, NodeAssumption
  <1>2. LeavesOf[MaxDepth][t] = <<t>>
    BY <1>1, LeavesFacts DEF Node
  <1>3. Put(<<>>, <<>> \o <<t>>, t) /\ <<>> \o <<t>> = <<t>>
    BY OneType, PutEnd, ConcatEmptySeq
  <1> QED
    BY <1>1, <1>2, <1>3 DEF Tree, Leaves

\* What the bound on the depth allows has the leaves it has one level deeper.
LEMMA DeeperLeaves ==
  ASSUME NEW r \in Tree, r \in Nodes[MaxDepth + 1]
  PROVE  r \in Node /\ Leaves(r) = LeavesOf[MaxDepth + 1][r]
  <1>1. MaxDepth \in Nat /\ MaxDepth <= MaxDepth
    BY NodeAssumption
  <1>a. None \notin Nodes[MaxDepth + 1]
    BY <1>1, NodeKinds
  <1>2. r # None
    BY <1>a
  <1>3. r \in Node
    BY <1>2 DEF Tree
  <1>4. LeavesOf[MaxDepth + 1][r] = LeavesOf[MaxDepth][r]
    BY <1>1, <1>3, LeavesGrow DEF Node
  <1> QED
    BY <1>2, <1>3, <1>4 DEF Leaves

LEMMA InsertLeaves ==
  ASSUME NEW target \in Terminals \cup {None}, NEW new \in Terminals,
         NEW horizontal \in BOOLEAN, NEW before \in BOOLEAN, NEW root \in Node,
         InsertNode(root, target, new, horizontal, before) \in Tree, Single(Leaves(root))
  PROVE  IF target \in Panes(root)
         THEN Put(Leaves(root), Leaves(InsertNode(root, target, new, horizontal, before)), new)
         ELSE Leaves(InsertNode(root, target, new, horizontal, before)) = Leaves(root)
  <1> DEFINE r == InsertNode(root, target, new, horizontal, before)
  <1>1. PICK f : /\ \A x : InsertNode(x, target, new, horizontal, before) = f[MaxDepth][x]
                 /\ InsertLevelled(f, target, new, horizontal, before)
    BY InsertSolved
  <1>2. MaxDepth \in Nat /\ MaxDepth <= MaxDepth /\ root \in Nodes[MaxDepth] /\ root \in Tree
    BY NodeAssumption DEF Node, Tree
  <1>3. r = f[MaxDepth][root]
    BY <1>1
  <1>4. r \in Nodes[MaxDepth + 1]
    BY InsertFacts DEF Inserted
  <1> HIDE DEF r
  <1>5. InsertedLeaves(MaxDepth, root, r, target, new)
    BY <1>1, <1>2, <1>3, InsertLeavesLevels
  <1>6. Leaves(r) = LeavesOf[MaxDepth + 1][r]
    <2>1. r \in Tree
      BY DEF r
    <2> QED
      BY <1>4, <2>1, DeeperLeaves
  <1>7. root # None
    BY TreeFacts
  <1>8. Leaves(root) = LeavesOf[MaxDepth][root] /\ Range(Leaves(root)) = Panes(root)
    BY <1>2, <1>7, TreeLeaves DEF Left
  <1> QED
    BY <1>5, <1>6, <1>8 DEF InsertedLeaves, r

LEMMA RemoveLeaves ==
  ASSUME NEW target \in Terminals, NEW root \in Node, root # target,
         target \in Panes(root), Single(Leaves(root))
  PROVE  Put(Leaves(RemoveNode(root, target)), Leaves(root), target)
  <1> DEFINE r == RemoveNode(root, target)
  <1>1. PICK f : /\ \A x : RemoveNode(x, target) = f[MaxDepth][x]
                 /\ RemoveLevelled(f, target)
    BY RemoveSolved
  <1>2. MaxDepth \in Nat /\ MaxDepth <= MaxDepth /\ root \in Nodes[MaxDepth] /\ root \in Tree
    BY NodeAssumption DEF Node, Tree
  <1>3. r = f[MaxDepth][root]
    BY <1>1
  <1>4. r \in Tree
    BY RemoveTree
  <1> HIDE DEF r
  <1>5. RemovedLeaves(MaxDepth, root, r, target)
    BY <1>1, <1>2, <1>3, RemoveLeavesLevels
  <1>6. Leaves(r) = Left(MaxDepth, r)
    BY <1>4, TreeLeaves
  <1>7. root # None
    BY TreeFacts
  <1>8. Leaves(root) = LeavesOf[MaxDepth][root] /\ Range(Leaves(root)) = Panes(root)
    BY <1>2, <1>7, TreeLeaves DEF Left
  <1> QED
    BY <1>5, <1>6, <1>8 DEF RemovedLeaves, r

LEMMA PairLeaves ==
  ASSUME NEW t \in Terminals, NEW root \in Node, Container(TRUE, <<root, t>>) \in Tree
  PROVE  Put(Leaves(root), Leaves(Container(TRUE, <<root, t>>)), t)
  <1> DEFINE c == <<root, t>>
             k == <<root>>
             r == Container(TRUE, c)
             N == Nodes[MaxDepth]
  <1>1. MaxDepth \in Nat /\ MaxDepth <= MaxDepth
    BY NodeAssumption
  <1>2. root \in N /\ t \in N /\ root # None
    BY TerminalTree, TreeFacts DEF Node
  <1> HIDE DEF N
  <1>3. k \in Seq(N) /\ c = Append(k, t)
    BY <1>2
  <1>4. c \in Seq(Nodes[MaxDepth]) /\ FlattenSeq(Read(MaxDepth, c)) = FlattenSeq(Read(MaxDepth, k)) \o LeavesOf[MaxDepth][t]
    <2>1. /\ Append(k, t) \in Seq(Nodes[MaxDepth])
          /\ FlattenSeq(Read(MaxDepth, Append(k, t))) = FlattenSeq(Read(MaxDepth, k)) \o LeavesOf[MaxDepth][t]
      <3> HIDE DEF k
      <3> QED
        BY <1>1, <1>2, <1>3, ReadAppend DEF N
    <2> QED
      BY <1>3, <2>1
  <1>5. FlattenSeq(Read(MaxDepth, k)) = Leaves(root)
    <2> DEFINE l == LeavesOf[MaxDepth][root]
    <2>1. Leaves(root) = l /\ l \in Seq(Terminals)
      BY <1>2, TreeLeaves DEF Leaves, Tree
    <2>2. Read(MaxDepth, k) = <<l>>
      BY DEF Read
    <2> HIDE DEF l
    <2> QED
      BY <2>1, <2>2, FlatOne
  <1>6. LeavesOf[MaxDepth][t] = <<t>>
    BY <1>1, <1>2, LeavesFacts DEF N
  <1>7. r \in Tree
    OBVIOUS
  <1> HIDE DEF c, k
  <1>8. r \in Nodes[MaxDepth + 1]
    BY <1>1, <1>4, NodeKinds
  <1>9. Leaves(r) = FlattenSeq(Read(MaxDepth, c))
    BY <1>1, <1>4, <1>7, <1>8, DeeperLeaves, ContainerLeaves
  <1>10. Put(Leaves(root), Leaves(root) \o <<t>>, t)
    BY TreeLeaves, PutEnd DEF Tree
  <1> QED
    BY <1>4, <1>5, <1>6, <1>9, <1>10 DEF c


(***************************************************************************)
(* The lists of the workspaces.  A step of Workspace is one of PaneLists,  *)
(* or none, as long as no terminal is twice in a tree and the one that is  *)
(* dragged is in the current one.                                          *)
(***************************************************************************)

Placed ==
  /\ \A i \in DOMAIN roots : Single(Leaves(roots[i]))
  /\ drag # None => drag \in Panes(Root)

lists == [i \in DOMAIN roots |-> Leaves(roots[i])]

LEMMA ListsFacts ==
  ASSUME Trees
  PROVE  /\ lists \in Seq(Seq(Terminals)) /\ Len(lists) = Len(roots) /\ Len(roots) \in Nat
         /\ DOMAIN lists = 1 .. Len(roots) /\ DOMAIN roots = 1 .. Len(roots)
         /\ \A i \in DOMAIN roots : lists[i] = Leaves(roots[i])
         /\ current + 1 \in 1 .. Len(roots) /\ lists[current + 1] = Leaves(Root)
  <1> DEFINE T == Seq(Terminals)
             n == Len(roots)
  <1>1. n \in Nat /\ DOMAIN roots = 1 .. n /\ \A i \in DOMAIN roots : roots[i] \in Tree
    BY RootsFacts
  <1>2. \A i \in DOMAIN roots : lists[i] = Leaves(roots[i]) /\ lists[i] \in T
    BY <1>1, TreeLeaves DEF lists
  <1>3. lists = [i \in 1 .. n |-> lists[i]]
    BY <1>1 DEF lists
  <1> HIDE DEF T, n
  <1>4. lists \in [1 .. n -> T]
    BY <1>1, <1>2, <1>3
  <1>5. lists \in Seq(T) /\ Len(lists) = n /\ DOMAIN lists = 1 .. n
    BY <1>1, <1>4
  <1>6. current + 1 \in DOMAIN roots /\ Root = roots[current + 1]
    BY RootsFacts
  <1> QED
    BY <1>1, <1>2, <1>5, <1>6 DEF T, n

\* One tree is replaced, and its list with it.
LEMMA ListReplaced ==
  ASSUME Trees, Placed, NEW root \in Tree, Single(Leaves(root)),
         roots' = [roots EXCEPT ![current + 1] = root], current' = current,
         drag' # None => drag' \in Panes(root)
  PROVE  /\ lists' = [lists EXCEPT ![current + 1] = Leaves(root)]
         /\ Placed'
         /\ current + 1 \in DOMAIN roots' /\ roots'[current + 1] = root
         /\ \A i \in DOMAIN roots' : i = current + 1 \/ (i \in DOMAIN roots /\ roots'[i] = roots[i])
  <1>1. current + 1 \in DOMAIN roots /\ DOMAIN roots = 1 .. Len(roots) /\ roots \in Seq(Tree)
    BY RootsFacts DEF Trees
  <1>2. /\ DOMAIN roots' = DOMAIN roots /\ roots'[current + 1] = root
        /\ \A i \in DOMAIN roots : i # current + 1 => roots'[i] = roots[i]
    BY <1>1
  <1>3. Root' = root
    BY <1>2 DEF Root
  <1>4. Placed'
    BY <1>2, <1>3 DEF Placed
  <1>5. lists' = [i \in DOMAIN roots |-> Leaves(roots'[i])]
    BY <1>2 DEF lists
  <1>6. \A i \in DOMAIN roots : Leaves(roots'[i]) = IF i = current + 1 THEN Leaves(root) ELSE lists[i]
    BY <1>2 DEF lists
  <1>7. DOMAIN lists = DOMAIN roots
    BY DEF lists
  <1>8. lists' = [lists EXCEPT ![current + 1] = Leaves(root)]
    BY <1>5, <1>6, <1>7
  <1> QED
    BY <1>1, <1>2, <1>4, <1>8

\* A terminal that is nowhere comes in: PaneLists opens it.
LEMMA ListsOpen ==
  ASSUME Trees, Placed, NEW root \in Tree, NEW t \in Terminals \ opened,
         roots' = [roots EXCEPT ![current + 1] = root], UNCHANGED <<current, drag>>,
         opened' = opened \cup ({t} \cap AllPanes(roots')),
         Put(Leaves(Root), Leaves(root), t)
  PROVE  Lists!Open /\ Placed'
  <1>1. Root \in Tree /\ root \in Tree /\ Panes(Root) \subseteq opened
    BY RootsFacts
  <1>2. /\ Range(Leaves(Root)) = Panes(Root) /\ Range(Leaves(root)) = Panes(root)
        /\ Panes(root) = Panes(Root) \cup {t}
    BY <1>1, TreeLeaves, PutType
  <1>3. Single(Leaves(Root)) /\ (drag # None => drag \in Panes(Root))
    BY RootsFacts DEF Placed
  <1>4. Single(Leaves(root))
    BY <1>1, <1>2, <1>3, PutSingle
  <1>5. /\ lists' = [lists EXCEPT ![current + 1] = Leaves(root)] /\ Placed'
        /\ current + 1 \in DOMAIN roots' /\ roots'[current + 1] = root
    BY <1>2, <1>3, <1>4, ListReplaced
  <1>6. t \in AllPanes(roots')
    BY <1>2, <1>5 DEF AllPanes
  <1>7. opened' = opened \cup {t}
    BY <1>6
  <1>8. PICK k \in DOMAIN Leaves(root) : Leaves(root) = P!With(Leaves(Root), k, t)
    BY PutWith
  <1>9. k \in 1 .. Len(Leaves(Root)) + 1
    <2>1. Leaves(root) \in Seq(Terminals) /\ Len(Leaves(root)) = Len(Leaves(Root)) + 1
      BY PutType
    <2> QED
      BY <2>1
  <1>10. lists[current + 1] = Leaves(Root)
    BY ListsFacts
  <1>11. lists' = [lists EXCEPT ![current + 1] = P!With(lists[current + 1], k, t)]
    BY <1>5, <1>8, <1>10
  <1>12. Lists!Open
    BY <1>7, <1>9, <1>10, <1>11 DEF Lists!Open, Lists!Here, Lists!With, P!With, lists
  <1> QED
    BY <1>5, <1>12

\* The trees may change where their lists do not.
LEMMA ListsStay ==
  ASSUME Trees, Placed, NEW root \in Tree, NEW t \in Terminals \ opened,
         roots' = [roots EXCEPT ![current + 1] = root], UNCHANGED <<current, drag>>,
         opened' = opened \cup ({t} \cap AllPanes(roots')),
         Leaves(root) = Leaves(Root)
  PROVE  UNCHANGED Lists!vars /\ Placed'
  <1>1. Root \in Tree /\ root \in Tree /\ Panes(Root) \subseteq opened
    BY RootsFacts
  <1>2. Panes(root) = Panes(Root)
    BY <1>1, TreeLeaves
  <1>3. Single(Leaves(root)) /\ (drag # None => drag \in Panes(Root))
    BY RootsFacts DEF Placed
  <1>4. /\ lists' = [lists EXCEPT ![current + 1] = Leaves(root)] /\ Placed'
        /\ roots'[current + 1] = root
        /\ \A i \in DOMAIN roots' : i = current + 1 \/ (i \in DOMAIN roots /\ roots'[i] = roots[i])
    BY <1>2, <1>3, ListReplaced
  <1>5. \A i \in DOMAIN roots' : Panes(roots'[i]) \subseteq opened
    BY <1>1, <1>2, <1>4 DEF Trees
  <1>6. opened' = opened
    BY <1>5 DEF AllPanes
  <1>7. lists \in Seq(Seq(Terminals)) /\ lists[current + 1] = Leaves(Root)
    BY ListsFacts
  <1>8. lists' = lists
    BY <1>4, <1>7
  <1> QED
    BY <1>4, <1>6, <1>8 DEF Lists!vars, lists

LEMMA OpenListed ==
  ASSUME Trees, Placed, NEW r \in Requests, OpenPane(r), UNCHANGED drag
  PROVE  [Lists!Next]_(Lists!vars) /\ Placed'
  <1>1. PICK t \in Terminals \ opened :
          /\ IF r.op = "add" THEN AddTerminal(t) ELSE SplitTerminal(r.target, t, r.horizontal)
          /\ opened' = opened \cup ({t} \cap AllPanes(roots'))
          /\ UNCHANGED current
    BY DEF OpenPane
  <1>2. r.horizontal \in BOOLEAN /\ r.target \in Terminals \cup {None}
    BY DEF Requests
  <1>3. Root \in Tree /\ Single(Leaves(Root))
    BY RootsFacts DEF Placed
  <1>4. PICK root : /\ Replace(root, dragging) /\ root \in Tree
                    /\ Put(Leaves(Root), Leaves(root), t) \/ Leaves(root) = Leaves(Root)
    <2>1. CASE r.op = "add" /\ Root = None
      <3>1. Replace(t, dragging)
        BY <1>1, <2>1 DEF AddTerminal
      <3>2. t \in Tree /\ Put(Leaves(Root), Leaves(t), t)
        BY <2>1, TerminalLeaves
      <3> QED
        BY <3>1, <3>2
    <2>2. CASE r.op = "add" /\ Root # None
      <3> DEFINE n == Container(TRUE, <<Root, t>>)
      <3>1. Replace(n, dragging)
        BY <1>1, <2>2 DEF AddTerminal
      <3>2. n \in Tree /\ Root \in Node
        BY <1>3, <2>2, <3>1 DEF Replace, Tree
      <3>3. Put(Leaves(Root), Leaves(n), t)
        BY <3>2, PairLeaves
      <3> QED
        BY <3>1, <3>2, <3>3
    <2>3. CASE r.op # "add" /\ Root = None
      <3>1. Replace(None, dragging)
        BY <1>1, <2>3 DEF SplitTerminal
      <3> QED
        BY <1>3, <2>3, <3>1
    <2>4. CASE r.op # "add" /\ Root # None
      <3> DEFINE n == InsertNode(Root, r.target, t, r.horizontal, FALSE)
      <3>1. Replace(n, dragging)
        BY <1>1, <2>4 DEF SplitTerminal
      <3>2. n \in Tree /\ Root \in Node
        BY <1>3, <2>4, <3>1 DEF Replace, Tree
      <3>3. Put(Leaves(Root), Leaves(n), t) \/ Leaves(n) = Leaves(Root)
        <4> DEFINE target == r.target
                   h == r.horizontal
                   before == FALSE
        <4>1. target \in Terminals \cup {None} /\ h \in BOOLEAN
          BY <1>2
        <4>2. before \in BOOLEAN /\ n = InsertNode(Root, target, t, h, before)
          OBVIOUS
        <4>3. Single(Leaves(Root))
          BY <1>3
        <4> HIDE DEF target, h, before, n
        <4>4. InsertNode(Root, target, t, h, before) \in Tree /\ Root \in Node
          BY <3>2, <4>2
        <4>5. IF target \in Panes(Root) THEN Put(Leaves(Root), Leaves(n), t)
              ELSE Leaves(n) = Leaves(Root)
          BY <4>1, <4>2, <4>3, <4>4, InsertLeaves
        <4> QED
          BY <4>5
      <3> QED
        BY <3>1, <3>2, <3>3
    <2> QED
      BY <2>1, <2>2, <2>3, <2>4
  <1>5. roots' = [roots EXCEPT ![current + 1] = root]
    BY <1>4 DEF Replace
  <1>6. CASE Put(Leaves(Root), Leaves(root), t)
    BY <1>1, <1>4, <1>5, <1>6, ListsOpen DEF Lists!Next
  <1>7. CASE Leaves(root) = Leaves(Root)
    BY <1>1, <1>4, <1>5, <1>7, ListsStay
  <1> QED
    BY <1>4, <1>6, <1>7

\* The close button: PaneLists closes it.
LEMMA CloseListed ==
  ASSUME Whole, Placed, NEW t \in Terminals, CloseTerminal(t)
  PROVE  Lists!Close /\ Placed'
  <1> DEFINE root == IF Root = t THEN None ELSE RemoveNode(Root, t)
             l == Leaves(Root)
  <1>1. /\ t \in Panes(Root) /\ Replace(root, dragging)
        /\ drag = None /\ UNCHANGED <<current, opened, drag>>
    BY DEF CloseTerminal, Present, Free
  <1>2. Trees
    BY DEF Whole
  <1>3. Root \in Node /\ Single(l)
    BY <1>1, <1>2, RootsFacts, NothingThere DEF Tree, Placed
  <1>4. root \in Tree /\ roots' = [roots EXCEPT ![current + 1] = root]
    BY <1>1 DEF Replace, Tree
  <1>5. Put(Leaves(root), l, t)
    <2>1. CASE Root = t
      BY <2>1, TerminalLeaves
    <2>2. CASE Root # t
      BY <1>1, <1>3, <2>2, RemoveLeaves
    <2> QED
      BY <2>1, <2>2
  <1> HIDE DEF root, l
  <1>6. Single(Leaves(root))
    BY <1>3, <1>5, PutSingle
  <1>7. lists' = [lists EXCEPT ![current + 1] = Leaves(root)] /\ Placed'
    BY <1>1, <1>2, <1>4, <1>6, ListReplaced
  <1>8. PICK k \in DOMAIN l : Leaves(root) = P!Without(l, k)
    BY <1>5, PutWith
  <1>9. lists[current + 1] = l
    BY <1>2, ListsFacts DEF l
  <1>10. lists' = [lists EXCEPT ![current + 1] = P!Without(lists[current + 1], k)]
         /\ k \in DOMAIN lists[current + 1]
    BY <1>7, <1>8, <1>9
  <1>11. Lists!Close
    BY <1>1, <1>10 DEF Lists!Close, Lists!Here, Lists!Positions, Lists!Without, P!Without, lists
  <1> QED
    BY <1>7, <1>11

\* A drop on another terminal: PaneLists moves it.
LEMMA DropListed ==
  ASSUME Whole, Placed, NEW t \in Terminals, NEW h \in BOOLEAN, NEW before \in BOOLEAN,
         Drop(t, h, before)
  PROVE  Lists!Move /\ Placed'
  <1> DEFINE rest == RemoveNode(Root, drag)
             root == IF rest = None THEN drag ELSE InsertNode(rest, t, drag, h, before)
             l == Leaves(Root)
             x == Leaves(rest)
  <1>1. /\ drag # None /\ t \in Panes(Root) /\ t # drag /\ Replace(root, AfterDrag)
        /\ drag' = None /\ UNCHANGED <<current, opened>>
    BY DEF Drop, Present, MoveTerminal
  <1>2. Trees /\ Page /\ Views
    BY DEF Whole
  <1>3. Root \in Node /\ Root \in Tree /\ Single(l)
    BY <1>1, <1>2, RootsFacts, NothingThere DEF Tree, Placed
  <1>4. drag \in Terminals /\ drag \in Panes(Root)
    BY <1>1, <1>2 DEF Page, Views, Placed
  <1>5. Root # drag
    <2>1. Panes(drag) = {drag}
      BY <1>4, TerminalTree
    <2> QED
      BY <1>1, <2>1
  <1>6. Put(x, l, drag)
    BY <1>3, <1>4, <1>5, RemoveLeaves
  <1>7. rest \in Tree
    BY <1>3, <1>4, RemoveTree
  <1>8. root \in Tree /\ roots' = [roots EXCEPT ![current + 1] = root]
    BY <1>1 DEF Replace, Tree
  <1> HIDE DEF rest
  <1>9. Range(l) = Panes(Root) /\ Range(x) = Panes(rest) /\ Range(l) = Range(x) \cup {drag}
    BY <1>3, <1>4, <1>6, <1>7, TreeLeaves, PutType
  <1>10. t \in Panes(rest)
    BY <1>1, <1>9
  <1>11. rest # None /\ rest \in Node
    BY <1>7, <1>10, NothingThere DEF Tree
  <1>12. Single(x) /\ drag \notin Range(x)
    BY <1>3, <1>4, <1>6, PutSingle
  <1>13. Put(x, Leaves(root), drag)
    <2>1. root = InsertNode(rest, t, drag, h, before)
      BY <1>11
    <2> HIDE DEF root
    <2>2. InsertNode(rest, t, drag, h, before) \in Tree
      BY <1>8, <2>1
    <2> QED
      BY <1>4, <1>10, <1>11, <1>12, <2>1, <2>2, InsertLeaves
  <1> HIDE DEF root, l, x
  <1>14. Single(Leaves(root))
    BY <1>4, <1>12, <1>13, PutSingle
  <1>15. lists' = [lists EXCEPT ![current + 1] = Leaves(root)] /\ Placed'
    BY <1>1, <1>2, <1>8, <1>14, ListReplaced
  <1>16. PICK i \in DOMAIN l : x = P!Without(l, i) /\ l[i] = drag
    BY <1>4, <1>6, PutWith
  <1>17. PICK k \in DOMAIN Leaves(root) : Leaves(root) = P!With(x, k, drag)
    BY <1>4, <1>13, PutWith
  <1>18. DOMAIN Leaves(root) = DOMAIN l
    <2>1. l \in Seq(Terminals) /\ Len(l) = Len(x) + 1
      BY <1>4, <1>6, PutType
    <2>2. Leaves(root) \in Seq(Terminals) /\ Len(Leaves(root)) = Len(x) + 1
      BY <1>4, <1>13, PutType
    <2> QED
      BY <2>1, <2>2
  <1>19. lists[current + 1] = l
    BY <1>2, ListsFacts DEF l
  <1>20. /\ lists' = [lists EXCEPT ![current + 1] =
                        P!With(P!Without(lists[current + 1], i), k, lists[current + 1][i])]
         /\ i \in DOMAIN lists[current + 1] /\ k \in DOMAIN lists[current + 1]
    BY <1>15, <1>16, <1>17, <1>18, <1>19
  <1>21. Lists!Move
    BY <1>1, <1>20
       DEF Lists!Move, Lists!Here, Lists!Positions, Lists!With, P!With, Lists!Without, P!Without, lists
  <1> QED
    BY <1>15, <1>21


\* The workspaces themselves.
LEMMA AddListed ==
  ASSUME Whole, Placed, AddWorkspace
  PROVE  Lists!AddWorkspace /\ Placed'
  <1> DEFINE rs == Append(roots, None)
             n == Len(roots)
             ls == Append(lists, <<>>)
  <1>1. roots' = rs /\ current' = n /\ drag = None /\ UNCHANGED <<opened, drag>>
    BY DEF AddWorkspace, Free
  <1>2. Trees
    BY DEF Whole
  <1>3. /\ lists \in Seq(Seq(Terminals)) /\ Len(lists) = n /\ n \in Nat /\ DOMAIN lists = 1 .. n
        /\ DOMAIN roots = 1 .. n /\ \A i \in DOMAIN roots : lists[i] = Leaves(roots[i])
    BY <1>2, ListsFacts
  <1>4. /\ DOMAIN rs = 1 .. n + 1 /\ rs[n + 1] = None /\ \A i \in 1 .. n : rs[i] = roots[i]
    BY <1>2, <1>3 DEF Trees
  <1> DEFINE L == lists
             T == Seq(Terminals)
             e == <<>>
  <1>5. /\ ls = [i \in 1 .. n + 1 |-> ls[i]] /\ ls[n + 1] = <<>>
        /\ \A i \in 1 .. n : ls[i] = lists[i]
    <2>1. L \in Seq(T) /\ Len(L) = n /\ n \in Nat /\ e \in T /\ ls = Append(L, e)
      BY <1>3
    <2> HIDE DEF L, T, e, n, ls
    <2>2. ls \in Seq(T) /\ Len(ls) = n + 1 /\ ls[n + 1] = e
      BY <2>1
    <2>3. \A i \in 1 .. n : ls[i] = L[i]
      BY <2>1
    <2>4. ls = [i \in 1 .. n + 1 |-> ls[i]]
      BY <2>2
    <2> QED
      BY <2>2, <2>3, <2>4 DEF L, e
  <1> HIDE DEF rs, n, ls
  <1>6. \A i \in 1 .. n + 1 : i \in 1 .. n \/ i = n + 1
    BY <1>3
  <1>7. Leaves(None) = <<>> /\ Single(<<>>)
    BY DEF Leaves, Single
  <1>8. ASSUME NEW i \in 1 .. n + 1 PROVE Leaves(rs[i]) = ls[i] /\ Single(ls[i])
    <2>1. CASE i \in 1 .. n
      <3>1. i \in DOMAIN roots /\ rs[i] = roots[i] /\ ls[i] = lists[i]
        BY <1>3, <1>4, <1>5, <2>1
      <3>2. lists[i] = Leaves(roots[i]) /\ Single(Leaves(roots[i]))
        BY <1>3, <3>1 DEF Placed
      <3> QED
        BY <3>1, <3>2
    <2>2. CASE i = n + 1
      BY <1>4, <1>5, <1>7, <2>2
    <2> QED
      BY <1>6, <2>1, <2>2
  <1>9. lists' = [i \in 1 .. n + 1 |-> Leaves(rs[i])]
    BY <1>1, <1>4 DEF lists
  <1>10. lists' = ls
    BY <1>5, <1>8, <1>9
  <1>11. Placed'
    BY <1>1, <1>4, <1>8 DEF Placed
  <1>12. Lists!AddWorkspace
    BY <1>1, <1>3, <1>10 DEF Lists!AddWorkspace, lists, ls
  <1> QED
    BY <1>11, <1>12

LEMMA RemoveAtPlaces ==
  ASSUME NEW S, NEW s \in Seq(S), NEW i \in DOMAIN s
  PROVE  \A j \in 1 .. Len(s) - 1 : RemoveAt(s, i)[j] = IF j < i THEN s[j] ELSE s[j + 1]
  <1> DEFINE n == Len(s)
             a == SubSeq(s, 1, i - 1)
             b == SubSeq(s, i + 1, n)
             r == RemoveAt(s, i)
  <1>1. n \in Nat /\ i \in 1 .. n
    OBVIOUS
  <1>2. a \in Seq(S) /\ Len(a) = i - 1 /\ \A j \in 1 .. i - 1 : a[j] = s[j]
    BY <1>1
  <1>3. b \in Seq(S) /\ Len(b) = n - i /\ \A j \in 1 .. n - i : b[j] = s[i + j]
    BY <1>1
  <1>4. r = a \o b
    BY DEF RemoveAt
  <1> HIDE DEF a, b, r, n
  <1>5. \A j \in 1 .. Len(a) + Len(b) : r[j] = IF j <= Len(a) THEN a[j] ELSE b[j - Len(a)]
    BY <1>2, <1>3, <1>4, Joined, Zenon
  <1>6. \A j \in 1 .. n - 1 : r[j] = IF j <= i - 1 THEN a[j] ELSE b[j - (i - 1)]
    BY <1>1, <1>2, <1>3, <1>5
  <1>7. ASSUME NEW j \in 1 .. n - 1 PROVE r[j] = IF j < i THEN s[j] ELSE s[j + 1]
    <2>1. CASE j < i
      <3>1. j <= i - 1 /\ j \in 1 .. i - 1
        BY <1>1, <2>1
      <3> QED
        BY <1>2, <1>6, <2>1, <3>1
    <2>2. CASE ~(j < i)
      <3>1. ~(j <= i - 1) /\ j - (i - 1) \in 1 .. n - i /\ i + (j - (i - 1)) = j + 1
        BY <1>1, <2>2
      <3>2. b[j - (i - 1)] = s[j + 1]
        BY <1>3, <3>1
      <3> QED
        BY <1>6, <2>2, <3>1, <3>2
    <2> QED
      BY <2>1, <2>2
  <1> QED
    BY <1>7 DEF r, n

LEMMA RemoveListed ==
  ASSUME Whole, Placed, NEW i, RemoveWorkspace(i)
  PROVE  Lists!RemoveWorkspace /\ Placed'
  <1> DEFINE n == Len(roots)
  <1>1. /\ i \in DOMAIN roots /\ roots' = IF n = 1 THEN <<None>> ELSE RemoveAt(roots, i)
        /\ current' = IF current >= Len(roots') THEN Len(roots') - 1 ELSE current
        /\ drag = None /\ UNCHANGED <<opened, drag>>
    BY DEF RemoveWorkspace, Free
  <1>2. Trees
    BY DEF Whole
  <1>3. /\ lists \in Seq(Seq(Terminals)) /\ Len(lists) = n /\ n \in Nat
        /\ DOMAIN roots = 1 .. n /\ \A j \in 1 .. n : lists[j] = Leaves(roots[j])
    BY <1>2, ListsFacts
  <1> HIDE DEF n
  <1>4. CASE n = 1
    <2>1. roots' = <<None>>
      BY <1>1, <1>4
    <2>2. Leaves(None) = <<>> /\ Single(<<>>)
      BY DEF Leaves, Single
    <2>3. DOMAIN roots' = {1} /\ roots'[1] = None /\ Len(roots') = 1
      BY <2>1
    <2>4. lists' = << <<>> >>
      BY <2>2, <2>3 DEF lists
    <2>5. Placed'
      BY <1>1, <2>2, <2>3 DEF Placed
    <2>6. Len(lists') = Len(roots')
      BY <2>3, <2>4
    <2>7. Lists!RemoveWorkspace
      BY <1>1, <1>3, <1>4, <2>4, <2>6 DEF Lists!RemoveWorkspace, lists
    <2> QED
      BY <2>5, <2>7
  <1>5. CASE n # 1
    <2> DEFINE rs == RemoveAt(roots, i)
    <2>1. roots' = rs
      BY <1>1, <1>5
    <2>2. /\ rs \in Seq(Tree) /\ Len(rs) = n - 1
          /\ \A j \in 1 .. n - 1 : rs[j] = IF j < i THEN roots[j] ELSE roots[j + 1]
      BY <1>1, <1>2, RemoveAtType, RemoveAtPlaces DEF Trees, n
    <2> HIDE DEF rs
    <2>3. DOMAIN rs = 1 .. n - 1
      BY <2>2
    <2>4. ASSUME NEW j \in 1 .. n - 1
          PROVE  /\ Leaves(rs[j]) = IF j < i THEN lists[j] ELSE lists[j + 1]
                 /\ Single(Leaves(rs[j]))
      <3>1. j \in 1 .. n /\ j + 1 \in 1 .. n
        BY <1>3
      <3> QED
        BY <1>3, <2>2, <3>1 DEF Placed
    <2>5. lists' = [j \in 1 .. n - 1 |-> Leaves(rs[j])]
      BY <2>1, <2>3 DEF lists
    <2>6. lists' = P!Without(lists, i)
      BY <1>3, <2>4, <2>5 DEF P!Without
    <2>7. Placed'
      BY <1>1, <2>1, <2>3, <2>4 DEF Placed
    <2>8. Len(lists') = Len(roots')
      <3>1. n - 1 \in Nat
        BY <1>1, <1>3, <1>5
      <3>2. Len(lists') = n - 1
        BY <2>5, <3>1
      <3> QED
        BY <2>1, <2>2, <3>2
    <2>9. Lists!RemoveWorkspace
      BY <1>1, <1>3, <1>5, <2>6, <2>8 DEF Lists!RemoveWorkspace, Lists!Without, P!Without, lists
    <2> QED
      BY <2>7, <2>9
  <1> QED
    BY <1>4, <1>5

\* The lists are as they were where trees, current workspace and ids are.
LEMMA NothingListed ==
  ASSUME UNCHANGED treeVars
  PROVE  /\ UNCHANGED Lists!vars
         /\ Placed /\ (drag' = drag \/ drag' = None \/ drag' \in Panes(Root)) => Placed'
  BY DEF treeVars, Lists!vars, Placed, Root

\* A pane is opened for a request, or none is.
LEMMA PageAsks ==
  ASSUME Page, ConnectSaved \/ PickSaved \/ DialogConfirm \/ SaveDone
  PROVE  UNCHANGED drag /\ ((\E r \in Requests : OpenPane(r)) \/ UNCHANGED treeVars)
  <1>1. UNCHANGED drag
    BY DEF ConnectSaved, PickSaved, DialogConfirm, SaveDone
  <1> SUFFICES (\E r \in Requests : OpenPane(r)) \/ UNCHANGED treeVars
    BY <1>1
  <1>2. CASE ConnectSaved
    <2> DEFINE r == [op |-> "add", target |-> None, horizontal |-> TRUE]
    <2>1. r \in Requests /\ OpenPane(r)
      BY <1>2 DEF ConnectSaved, Requests
    <2> QED
      BY <2>1, Zenon
  <1>3. CASE PickSaved
    <2>1. request \in Requests /\ OpenPane(request)
      BY <1>3 DEF PickSaved, Page
    <2> QED
      BY <2>1, Zenon
  <1>4. CASE DialogConfirm
    <2>1. UNCHANGED treeVars \/ (request \in Requests /\ OpenPane(request))
      BY <1>4 DEF DialogConfirm, Page, NoRequest
    <2> QED
      BY <2>1, Zenon
  <1>5. CASE SaveDone
    <2>1. saving \in Requests /\ OpenPane(saving)
      BY <1>5 DEF SaveDone, Page, NoRequest
    <2> QED
      BY <2>1, Zenon
  <1> QED
    BY <1>2, <1>3, <1>4, <1>5

LEMMA ListedStep ==
  ASSUME Whole, Placed, [Next]_vars
  PROVE  [Lists!Next]_(Lists!vars) /\ Placed'
  <1>1. Trees /\ Views /\ Page
    BY DEF Whole
  <1>2. CASE UNCHANGED vars
    BY <1>2, NothingListed DEF vars
  <1>3. CASE \E i \in 0 .. MaxWorkspaces : SetCurrentIndex(i)
    <2>1. PICK i \in 0 .. MaxWorkspaces : SetCurrentIndex(i)
      BY <1>3
    <2>2. /\ drag = None /\ i \in 0 .. Len(roots) - 1 /\ current' = i
          /\ UNCHANGED <<roots, opened, drag>>
      BY <2>1 DEF SetCurrentIndex, Free
    <2>3. Placed'
      BY <2>2 DEF Placed
    <2>4. lists' = lists /\ Len(lists) = Len(roots)
      BY <1>1, <2>2, ListsFacts DEF lists
    <2>5. Lists!SetCurrent
      BY <2>2, <2>4 DEF Lists!SetCurrent, lists
    <2> QED
      BY <2>3, <2>5 DEF Lists!Next
  <1>4. CASE \E i \in 0 .. MaxWorkspaces : RemoveWorkspace(i)
    BY <1>4, RemoveListed DEF Lists!Next
  <1>5. CASE AddWorkspace
    BY <1>5, AddListed DEF Lists!Next
  <1>6. CASE ConnectSaved \/ PickSaved \/ DialogConfirm \/ SaveDone
    <2>1. UNCHANGED drag /\ ((\E r \in Requests : OpenPane(r)) \/ UNCHANGED treeVars)
      BY <1>1, <1>6, PageAsks
    <2> QED
      BY <1>1, <2>1, OpenListed, NothingListed
  <1>7. CASE \/ EditSaved \/ PickNew \/ DialogConfirmFavorite \/ SaveFails \/ Dismiss
             \/ \E r \in Requests : ShowConnectionChooser(r)
    <2>1. UNCHANGED <<treeVars, drag>>
      BY <1>7 DEF EditSaved, PickNew, DialogConfirmFavorite, SaveFails, Dismiss, ShowConnectionChooser
    <2> QED
      BY <2>1, NothingListed
  <1>8. CASE Release \/ \E t \in Terminals : DragStart(t)
    <2>1. UNCHANGED treeVars /\ (drag' = None \/ drag' \in Panes(Root))
      BY <1>8 DEF Release, DragStart, Present
    <2> QED
      BY <2>1, NothingListed
  <1>9. CASE \E t \in Terminals : CloseTerminal(t)
    BY <1>9, CloseListed DEF Lists!Next
  <1>10. CASE \E t \in Terminals, horizontal, before \in BOOLEAN : Drop(t, horizontal, before)
    BY <1>10, DropListed DEF Lists!Next
  <1> QED
    BY <1>2, <1>3, <1>4, <1>5, <1>6, <1>7, <1>8, <1>9, <1>10 DEF Next

\* Split, moved and closed however often, the trees are lists of terminals to
\* the user: what PaneLists says of them holds.
THEOREM WorkspaceImplementsLists == Spec => ImplementsLists
  <1>1. Init => Placed /\ Lists!Init
    <2> SUFFICES ASSUME Init PROVE Placed /\ Lists!Init
      OBVIOUS
    <2>1. DOMAIN roots = {1} /\ roots[1] = None /\ drag = None /\ current = 0 /\ opened = {}
      BY DEF Init
    <2>2. Leaves(None) = <<>> /\ Single(<<>>)
      BY DEF Leaves, Single
    <2>3. lists = << <<>> >>
      BY <2>1, <2>2 DEF lists
    <2> QED
      BY <2>1, <2>2, <2>3 DEF Placed, Lists!Init, lists
  <1>2. Whole /\ Placed /\ [Next]_vars => [Lists!Next]_(Lists!vars) /\ Placed'
    BY ListedStep
  <1> QED
    BY <1>1, <1>2, WorkspaceInductive, PTL DEF Spec, ImplementsLists, Lists!Spec

-----------------------------------------------------------------------------
(***************************************************************************)
(* Where a dropped terminal goes: a container of the direction asked for   *)
(* gets it beside the target.                                              *)
(***************************************************************************)

Zone(c, target, new, horizontal, before) ==
  /\ c.horizontal = horizontal
  /\ \E i \in 1 .. Len(c.children) - 1 :
       SubSeq(c.children, i, i + 1) = IF before THEN <<new, target>> ELSE <<target, new>>

LEMMA TwoOf ==
  ASSUME NEW S, NEW s \in Seq(S), NEW i \in 1 .. Len(s) - 1
  PROVE  SubSeq(s, i, i + 1) = <<s[i], s[i + 1]>>
  <1> DEFINE r == SubSeq(s, i, i + 1)
             x == s[i]
             y == s[i + 1]
             u == <<x, y>>
  <1>1. r \in Seq(S) /\ Len(r) = 2 /\ r[1] = x /\ r[2] = y
    <2>1. i \in Nat /\ i \in 1 .. Len(s) /\ i + 1 \in 1 .. Len(s) /\ (i + 1) - i + 1 = 2
      OBVIOUS
    <2>2. r \in Seq(S) /\ Len(r) = 2
      BY <2>1, SubSeqProperties
    <2>3. \A j \in 1 .. 2 : r[j] = s[i + j - 1]
      BY <2>1, SubSeqProperties
    <2>4. i + 1 - 1 = i /\ i + 2 - 1 = i + 1
      BY <2>1
    <2> HIDE DEF r
    <2>5. r[1] = s[i + 1 - 1] /\ r[2] = s[i + 2 - 1]
      BY <2>3
    <2> QED
      BY <2>2, <2>4, <2>5
  <1>2. x \in S /\ y \in S
    OBVIOUS
  <1> HIDE DEF r, x, y
  <1>3. u \in Seq(S) /\ Len(u) = 2 /\ u[1] = x /\ u[2] = y
    BY <1>2
  <1> HIDE DEF u
  <1>4. r = u
    BY <1>1, <1>3
  <1> QED
    BY <1>4 DEF r, u, x, y

LEMMA BesidePair ==
  ASSUME NEW S, NEW c \in Seq(S), NEW target, NEW new \in S, NEW before \in BOOLEAN,
         \E i \in DOMAIN c : c[i] = target, NEW horizontal
  PROVE  Zone(Container(horizontal, Beside(c, target, new, before)), target, new, horizontal, before)
  <1> DEFINE n == Len(c)
             i == CHOOSE i \in DOMAIN c : c[i] = target
             p == IF before THEN i ELSE i + 1
             r == Beside(c, target, new, before)
  <1>1. n \in Nat /\ i \in 1 .. n /\ c[i] = target
    OBVIOUS
  <1> HIDE DEF i
  <1>2. p \in 1 .. n + 1
    BY <1>1
  <1>3. r = InsertAt(c, p, new)
    BY DEF Beside, i
  <1> HIDE DEF p, r
  <1>4. r \in Seq(S) /\ Len(r) = n + 1
    BY <1>2, <1>3, InsertAtType
  <1>a. r[p] = new /\ \A j \in 1 .. n : c[j] = r[IF j < p THEN j ELSE j + 1]
    BY <1>2, <1>3, InsertAtPlaces
  <1>5. r[p] = new /\ r[IF i < p THEN i ELSE i + 1] = target
    BY <1>1, <1>a
  <1> HIDE DEF n
  <1>6. i \in 1 .. Len(r) - 1
    BY <1>1, <1>4
  <1>7. SubSeq(r, i, i + 1) = <<r[i], r[i + 1]>>
    BY <1>4, <1>6, TwoOf
  <1>8. IF before THEN r[i] = new /\ r[i + 1] = target ELSE r[i] = target /\ r[i + 1] = new
    BY <1>1, <1>5 DEF p
  <1>9. SubSeq(r, i, i + 1) = IF before THEN <<new, target>> ELSE <<target, new>>
    BY <1>7, <1>8
  <1>10. Container(horizontal, r).horizontal = horizontal /\ Container(horizontal, r).children = r
    BY DEF Container
  <1> QED
    BY <1>6, <1>9, <1>10 DEF Zone, r

\* At every level: a tree with the target gets such a container.
InsertedZone(d, node, result, target, new, horizontal, before) ==
  target \in Parts[d][node] =>
    \E c \in Parts[d + 1][result] \ Terminals : Zone(c, target, new, horizontal, before)

LEMMA InsertZoneLevels ==
  ASSUME NEW target \in Terminals, NEW new \in Terminals,
         NEW horizontal \in BOOLEAN, NEW before \in BOOLEAN,
         NEW f, InsertLevelled(f, target, new, horizontal, before)
  PROVE  \A d \in Nat : d <= MaxDepth =>
           \A node \in Nodes[d] : InsertedZone(d, node, f[d][node], target, new, horizontal, before)
  <1> DEFINE Good == {d \in Nat : d <= MaxDepth =>
                        \A node \in Nodes[d] :
                          InsertedZone(d, node, f[d][node], target, new, horizontal, before)}
  <1>1. ASSUME NEW d \in Nat, d <= MaxDepth, NEW node \in Nodes[d],
               node \notin Terminals =>
                 \A n \in Nodes[d - 1] :
                   InsertedZone(d - 1, n, f[d - 1][n], target, new, horizontal, before)
        PROVE  InsertedZone(d, node, f[d][node], target, new, horizontal, before)
    <2> DEFINE r == f[d][node]
               one == <<node>>
               c == node.children
               e == d - 1
    <2>1. r = IF node = target THEN Container(horizontal, Beside(one, node, new, before))
              ELSE IF node \in Terminals THEN node
              ELSE IF TakesIn(node, target, horizontal)
              THEN Container(horizontal, Beside(c, target, new, before))
              ELSE Container(node.horizontal, [i \in DOMAIN c |-> f[e][c[i]]])
      BY <1>1, InsertLevel
    <2> HIDE DEF r
    <2>2. Terminals \subseteq Nodes[d]
      BY <1>1, NodeKinds
    <2>3. ASSUME NEW b \in Seq(Nodes[d]), NEW h \in BOOLEAN, r = Container(h, b)
          PROVE  r \notin Terminals /\ Parts[d + 1][r] = {r} \cup Below(d, b)
      BY <1>1, <2>3, ContainerParts, NewKinds
    <2>4. CASE node = target
      <3>1. one \in Seq(Nodes[d]) /\ \E i \in DOMAIN one : one[i] = node
        <4> DEFINE N == Nodes[d]
        <4>1. node \in N
          OBVIOUS
        <4> HIDE DEF N
        <4>2. one \in Seq(N) /\ 1 \in DOMAIN one /\ one[1] = node
          BY <4>1
        <4> QED
          BY <4>2 DEF N
      <3> HIDE DEF one
      <3>2. new \in Nodes[d]
        BY <2>2
      <3> DEFINE b == Beside(one, node, new, before)
      <3>3. b \in Seq(Nodes[d]) /\ Zone(Container(horizontal, b), node, new, horizontal, before)
        BY <3>1, <3>2, BesideType, BesidePair
      <3>4. r = Container(horizontal, b)
        BY <2>1, <2>4
      <3> HIDE DEF b
      <3> QED
        BY <2>3, <2>4, <3>3, <3>4 DEF InsertedZone, r
    <2>5. CASE node # target /\ node \in Terminals
      <3>1. Parts[d][node] = {node}
        BY <1>1, <2>5, PartsFacts
      <3> QED
        BY <2>5, <3>1 DEF InsertedZone
    <2>6. CASE node # target /\ node \notin Terminals
      <3>1. /\ e \in Nat /\ e + 1 = d /\ e <= MaxDepth
            /\ node.horizontal \in BOOLEAN /\ c \in Seq(Nodes[e])
            /\ \A i \in DOMAIN c : c[i] \in Nodes[e]
        BY <1>1, <2>6, OldKinds
      <3>2. Nodes[e] \subseteq Nodes[d]
        BY <3>1, NodesGrow
      <3>3. CASE TakesIn(node, target, horizontal)
        <4> DEFINE b == Beside(c, target, new, before)
        <4>1. r = Container(horizontal, b)
          BY <2>1, <2>6, <3>3
        <4>2. \E i \in DOMAIN c : c[i] = target
          BY <3>3 DEF TakesIn, ToSet
        <4> HIDE DEF c, e
        <4>3. c \in Seq(Nodes[d]) /\ new \in Nodes[d]
          BY <2>2, <3>1, <3>2
        <4>4. b \in Seq(Nodes[d]) /\ Zone(Container(horizontal, b), target, new, horizontal, before)
          BY <4>2, <4>3, BesideType, BesidePair
        <4> HIDE DEF b
        <4> QED
          BY <2>3, <4>1, <4>4 DEF InsertedZone, r
      <3>4. CASE ~TakesIn(node, target, horizontal)
        <4> DEFINE b == [i \in DOMAIN c |-> f[e][c[i]]]
                   h == node.horizontal
        <4>1. r = Container(h, b)
          BY <2>1, <2>6, <3>4
        <4>2. \A i \in DOMAIN c :
                /\ b[i] \in Nodes[d]
                /\ InsertedZone(e, c[i], b[i], target, new, horizontal, before)
          <5>1. \A n \in Nodes[e] : Inserted(e, n, f[e][n], new)
            BY <3>1, InsertLevels
          <5> QED
            BY <1>1, <2>6, <3>1, <5>1 DEF Inserted
        <4>3. b \in Seq(Nodes[d]) /\ DOMAIN b = DOMAIN c
          <5> DEFINE n == Len(c)
          <5>1. n \in Nat /\ DOMAIN c = 1 .. n
            BY <3>1
          <5> HIDE DEF n, c
          <5>2. b \in [1 .. n -> Nodes[d]]
            BY <4>2, <5>1
          <5> HIDE DEF b
          <5> QED
            BY <5>1, <5>2 DEF n
        <4>4. Parts[d][node] = {node} \cup Below(e, c)
          BY <1>1, <2>6, PartsFacts
        <4> HIDE DEF b, c, h, e
        <4>5. Parts[d + 1][r] = {r} \cup Below(d, b)
          BY <2>3, <3>1, <4>1, <4>3 DEF h
        <4> SUFFICES ASSUME target \in Parts[d][node]
                     PROVE  \E x \in Parts[d + 1][r] \ Terminals :
                              Zone(x, target, new, horizontal, before)
          BY DEF InsertedZone, r
        <4>6. PICK i \in DOMAIN c : target \in Parts[e][c[i]]
          BY <2>6, <4>4, BelowFacts
        <4>7. PICK x \in Parts[d][b[i]] \ Terminals : Zone(x, target, new, horizontal, before)
          BY <3>1, <4>2, <4>6 DEF InsertedZone
        <4>8. x \in Below(d, b)
          BY <4>3, <4>7, BelowFacts
        <4> QED
          BY <4>5, <4>7, <4>8
      <3> QED
        BY <3>3, <3>4
    <2> QED
      BY <2>4, <2>5, <2>6
  <1>2. 0 \in Good
    BY <1>1, NodesFacts
  <1>3. ASSUME NEW d \in Good PROVE d + 1 \in Good
    <2> SUFFICES ASSUME d + 1 <= MaxDepth, NEW node \in Nodes[d + 1]
                 PROVE  InsertedZone(d + 1, node, f[d + 1][node], target, new, horizontal, before)
      OBVIOUS
    <2>1. d + 1 \in Nat /\ (d + 1) - 1 = d /\ d <= MaxDepth
      BY NodeAssumption
    <2>2. \A n \in Nodes[(d + 1) - 1] :
            InsertedZone((d + 1) - 1, n, f[(d + 1) - 1][n], target, new, horizontal, before)
      BY <2>1
    <2> QED
      BY <1>1, <2>1, <2>2
  <1> HIDE DEF Good
  <1>4. Good \subseteq Nat
    BY DEF Good
  <1>5. Good = Nat
    BY <1>2, <1>3, <1>4, Induction
  <1> QED
    BY <1>5 DEF Good

LEMMA InsertZone ==
  ASSUME NEW target \in Terminals, NEW new \in Terminals,
         NEW horizontal \in BOOLEAN, NEW before \in BOOLEAN, NEW root \in Node,
         target \in Panes(root), InsertNode(root, target, new, horizontal, before) \in Tree
  PROVE  \E c \in Containers(InsertNode(root, target, new, horizontal, before)) :
           Zone(c, target, new, horizontal, before)
  <1> DEFINE r == InsertNode(root, target, new, horizontal, before)
  <1>1. PICK f : /\ \A x : InsertNode(x, target, new, horizontal, before) = f[MaxDepth][x]
                 /\ InsertLevelled(f, target, new, horizontal, before)
    BY InsertSolved
  <1>2. MaxDepth \in Nat /\ MaxDepth <= MaxDepth /\ root \in Nodes[MaxDepth]
    BY NodeAssumption DEF Node
  <1>3. r = f[MaxDepth][root]
    BY <1>1
  <1>4. r \in Nodes[MaxDepth + 1] /\ r \in Tree
    BY InsertFacts DEF Inserted
  <1> HIDE DEF r
  <1>5. InsertedZone(MaxDepth, root, r, target, new, horizontal, before)
    BY <1>1, <1>2, <1>3, InsertZoneLevels
  <1>6. target \in Parts[MaxDepth][root]
    BY TreeFacts
  <1>7. PICK c \in Parts[MaxDepth + 1][r] \ Terminals : Zone(c, target, new, horizontal, before)
    BY <1>5, <1>6 DEF InsertedZone
  <1>8. r \in Node
    BY <1>4, DeeperLeaves
  <1>9. Parts[MaxDepth + 1][r] = Parts[MaxDepth][r]
    BY <1>2, <1>8, PartsGrow DEF Node
  <1>10. c \in Containers(r)
    BY <1>7, <1>8, <1>9, TreeFacts DEF Containers
  <1> QED
    BY <1>7, <1>10 DEF r

\* A drop: what moveTerminal makes of the tree without the dragged terminal.
LEMMA DropPlaced ==
  ASSUME Whole, Placed, NEW t \in Terminals, NEW h \in BOOLEAN, NEW before \in BOOLEAN,
         Drop(t, h, before)
  PROVE  \E c \in Containers(roots'[current + 1]) : Zone(c, t, drag, h, before)
  <1> DEFINE rest == RemoveNode(Root, drag)
             n == InsertNode(rest, t, drag, h, before)
             root == IF rest = None THEN drag ELSE n
  <1>1. /\ drag # None /\ t \in Panes(Root) /\ t # drag /\ Replace(root, AfterDrag)
    BY DEF Drop, Present, MoveTerminal
  <1>2. Trees /\ Page /\ Views
    BY DEF Whole
  <1>3. Root \in Node /\ current + 1 \in DOMAIN roots
    BY <1>1, <1>2, RootsFacts, NothingThere DEF Tree
  <1>4. drag \in Terminals
    BY <1>1, <1>2 DEF Page, Views
  <1>5. rest \in Tree /\ t \in Panes(rest)
    BY <1>1, <1>3, <1>4, RemoveTree
  <1> HIDE DEF rest
  <1>6. rest # None /\ rest \in Node
    BY <1>5, NothingThere DEF Tree
  <1>7. root = n /\ n \in Tree
    BY <1>1, <1>6 DEF Replace, Tree
  <1> HIDE DEF root
  <1>8. \E c \in Containers(n) : Zone(c, t, drag, h, before)
    BY <1>4, <1>5, <1>6, <1>7, InsertZone
  <1>9. roots'[current + 1] = n
    BY <1>1, <1>3, <1>7 DEF Replace
  <1> QED
    BY <1>8, <1>9

(***************************************************************************)
(* Which container has two terminals in different children: there is one,  *)
(* and, where no terminal is in a tree twice, only one.                    *)
(***************************************************************************)

Turns(c, a, b) ==
  \E i, j \in DOMAIN c.children :
    i # j /\ a \in Panes(c.children[i]) /\ b \in Panes(c.children[j])

\* A tree of d levels has a and b in different children of a container of that direction.
Way(d, node, a, b, horizontal) ==
  \E c \in Parts[d][node] \ Terminals : c.horizontal = horizontal /\ Turns(c, a, b)

\* Panes and leaves are the same at every level.
LEMMA LevelPanes ==
  ASSUME NEW d \in Nat, d <= MaxDepth, NEW node \in Nodes[d]
  PROVE  /\ node \in Node
         /\ Panes(node) = Parts[d][node] \cap Terminals
         /\ Panes(node) = Range(LeavesOf[d][node])
  <1> DEFINE Good == {k \in Nat : d + k <= MaxDepth =>
                        node \in Nodes[d + k] /\ Parts[d + k][node] = Parts[d][node]}
  <1>1. 0 \in Good
    OBVIOUS
  <1>2. ASSUME NEW k \in Good PROVE k + 1 \in Good
    <2> DEFINE e == d + k
    <2>1. e \in Nat /\ d + (k + 1) = e + 1
      OBVIOUS
    <2> SUFFICES ASSUME e + 1 <= MaxDepth
                 PROVE  node \in Nodes[e + 1] /\ Parts[e + 1][node] = Parts[d][node]
      BY <2>1
    <2>2. e <= MaxDepth
      BY <2>1, NodeAssumption
    <2>3. node \in Nodes[e] /\ Parts[e][node] = Parts[d][node]
      BY <2>2
    <2> HIDE DEF e
    <2> QED
      BY <2>1, <2>2, <2>3, NodesGrow, PartsGrow
  <1> HIDE DEF Good
  <1>3. Good \subseteq Nat
    BY DEF Good
  <1>4. Good = Nat
    BY <1>1, <1>2, <1>3, Induction
  <1>5. MaxDepth - d \in Nat /\ d + (MaxDepth - d) = MaxDepth /\ MaxDepth <= MaxDepth
    BY NodeAssumption
  <1>6. node \in Nodes[MaxDepth] /\ Parts[MaxDepth][node] = Parts[d][node]
    BY <1>4, <1>5 DEF Good
  <1>7. node \in Node /\ Panes(node) = Parts[d][node] \cap Terminals
    BY <1>6, TreeFacts DEF Node
  <1>8. Range(LeavesOf[d][node]) = Parts[d][node] \cap Terminals
    BY LeavesType
  <1> QED
    BY <1>7, <1>8

Divided(d, node) ==
  /\ \A x \in Parts[d][node] \ Terminals : \A a, b :
       Turns(x, a, b) => a \in Parts[d][node] \cap Terminals /\ b \in Parts[d][node] \cap Terminals
  /\ \A a, b \in Parts[d][node] \cap Terminals :
       a # b => \E x \in Parts[d][node] \ Terminals : Turns(x, a, b)
  /\ Single(LeavesOf[d][node]) =>
       \A x, y \in Parts[d][node] \ Terminals : \A a, b : Turns(x, a, b) /\ Turns(y, a, b) => x = y

LEMMA DividedLevels ==
  \A d \in Nat : d <= MaxDepth => \A node \in Nodes[d] : Divided(d, node)
  <1> DEFINE Good == {d \in Nat : d <= MaxDepth => \A node \in Nodes[d] : Divided(d, node)}
  <1>1. ASSUME NEW d \in Nat, d <= MaxDepth, NEW node \in Nodes[d],
               node \notin Terminals => \A n \in Nodes[d - 1] : Divided(d - 1, n)
        PROVE  Divided(d, node)
    <2>1. CASE node \in Terminals
      <3>1. Parts[d][node] = {node}
        BY <1>1, <2>1, PartsFacts
      <3> QED
        BY <2>1, <3>1 DEF Divided
    <2>2. CASE node \notin Terminals
      <3> DEFINE c == node.children
                 e == d - 1
                 parts == Parts[d][node]
                 In(i) == Parts[e][c[i]]
      <3>1. /\ e \in Nat /\ e <= MaxDepth /\ c \in Seq(Nodes[e])
            /\ \A i \in DOMAIN c : c[i] \in Nodes[e]
        BY <1>1, <2>2, OldKinds
      <3>2. parts = {node} \cup Below(e, c)
        BY <1>1, <2>2, PartsFacts
      <3>3. \A i \in DOMAIN c : Panes(c[i]) = In(i) \cap Terminals /\ Panes(c[i]) = Range(LeavesOf[e][c[i]])
        BY <3>1, LevelPanes
      <3>4. \A i \in DOMAIN c : Divided(e, c[i])
        BY <1>1, <2>2, <3>1
      <3>5. LeavesOf[d][node] = FlattenSeq(Read(e, c))
        BY <1>1, <2>2, LeavesFacts
      <3>6. \A a, b : Turns(node, a, b) <=>
              \E i, j \in DOMAIN c : i # j /\ a \in Panes(c[i]) /\ b \in Panes(c[j])
        BY DEF Turns
      <3>7. \A x : x \in Below(e, c) <=> \E i \in DOMAIN c : x \in In(i)
        BY BelowFacts
      <3> HIDE DEF parts, In, c, e
      <3>8. ASSUME NEW x \in parts \ Terminals, NEW a, NEW b, Turns(x, a, b)
            PROVE  a \in parts \cap Terminals /\ b \in parts \cap Terminals
        <4>1. CASE x = node
          BY <3>2, <3>3, <3>6, <3>7, <3>8, <4>1
        <4>2. CASE x # node
          <5>1. PICK i \in DOMAIN c : x \in In(i)
            BY <3>2, <3>7, <4>2
          <5>2. a \in In(i) \cap Terminals /\ b \in In(i) \cap Terminals
            BY <3>4, <3>8, <5>1 DEF Divided, In
          <5> QED
            BY <3>2, <3>7, <5>2
        <4> QED
          BY <4>1, <4>2
      <3>9. ASSUME NEW a \in parts \cap Terminals, NEW b \in parts \cap Terminals, a # b
            PROVE  \E x \in parts \ Terminals : Turns(x, a, b)
        <4>1. PICK i \in DOMAIN c : a \in In(i)
          BY <2>2, <3>2, <3>7
        <4>2. PICK j \in DOMAIN c : b \in In(j)
          BY <2>2, <3>2, <3>7
        <4>3. CASE i = j
          <5>1. PICK x \in In(i) \ Terminals : Turns(x, a, b)
            BY <3>4, <3>9, <4>1, <4>2, <4>3 DEF Divided, In
          <5>2. x \in parts
            BY <3>2, <3>7, <5>1
          <5> QED
            BY <5>1, <5>2
        <4>4. CASE i # j
          <5>1. Turns(node, a, b)
            BY <3>3, <3>6, <4>1, <4>2, <4>4
          <5> QED
            BY <2>2, <3>2, <5>1
        <4> QED
          BY <4>3, <4>4
      <3>10. ASSUME Single(LeavesOf[d][node]), NEW x \in parts \ Terminals, NEW y \in parts \ Terminals,
                    NEW a, NEW b, Turns(x, a, b), Turns(y, a, b)
             PROVE  x = y
        <4>1. \A z : \A i, j \in DOMAIN c : z \in Panes(c[i]) /\ z \in Panes(c[j]) => i = j
          <5>1. SUFFICES ASSUME NEW z PROVE \A i, j \in DOMAIN c : z \in Panes(c[i]) /\ z \in Panes(c[j]) => i = j
            OBVIOUS
          <5>2. Single(FlattenSeq(Read(e, c)))
            BY <3>5, <3>10
          <5>3. \A i, j \in DOMAIN c :
                  z \in Range(LeavesOf[e][c[i]]) /\ z \in Range(LeavesOf[e][c[j]]) => i = j
            BY <3>1, <5>2, ReadApart
          <5> QED
            BY <3>3, <5>3
        <4>2. \A i \in DOMAIN c : Single(LeavesOf[e][c[i]])
          BY <3>1, <3>5, <3>10, ReadApart
        <4>3. \A w \in parts \ Terminals :
                w # node /\ Turns(w, a, b) =>
                  \E i \in DOMAIN c : w \in In(i) /\ a \in Panes(c[i]) /\ b \in Panes(c[i])
          <5> SUFFICES ASSUME NEW w \in parts \ Terminals, w # node, Turns(w, a, b)
                       PROVE  \E i \in DOMAIN c : w \in In(i) /\ a \in Panes(c[i]) /\ b \in Panes(c[i])
            OBVIOUS
          <5>1. PICK i \in DOMAIN c : w \in In(i)
            BY <3>2, <3>7
          <5>2. a \in In(i) \cap Terminals /\ b \in In(i) \cap Terminals
            BY <3>4, <5>1 DEF Divided, In
          <5> QED
            BY <3>3, <5>1, <5>2
        <4>4. CASE x = node \/ y = node
          BY <3>6, <3>10, <4>1, <4>3, <4>4
        <4>5. CASE x # node /\ y # node
          <5>1. PICK i \in DOMAIN c : x \in In(i) /\ a \in Panes(c[i])
            BY <3>10, <4>3, <4>5
          <5>2. PICK j \in DOMAIN c : y \in In(j) /\ a \in Panes(c[j])
            BY <3>10, <4>3, <4>5
          <5>3. i = j
            BY <4>1, <5>1, <5>2
          <5> QED
            BY <3>4, <3>10, <4>2, <5>1, <5>2, <5>3 DEF Divided, In
        <4> QED
          BY <4>4, <4>5
      <3> QED
        BY <3>8, <3>9, <3>10 DEF Divided, parts
    <2> QED
      BY <2>1, <2>2
  <1>2. 0 \in Good
    BY <1>1, NodesFacts
  <1>3. ASSUME NEW d \in Good PROVE d + 1 \in Good
    <2> SUFFICES ASSUME d + 1 <= MaxDepth, NEW node \in Nodes[d + 1] PROVE Divided(d + 1, node)
      OBVIOUS
    <2>1. d + 1 \in Nat /\ (d + 1) - 1 = d /\ d <= MaxDepth
      BY NodeAssumption
    <2>2. \A n \in Nodes[(d + 1) - 1] : Divided((d + 1) - 1, n)
      BY <2>1
    <2> QED
      BY <1>1, <2>1, <2>2
  <1> HIDE DEF Good
  <1>4. Good \subseteq Nat
    BY DEF Good
  <1>5. Good = Nat
    BY <1>2, <1>3, <1>4, Induction
  <1> QED
    BY <1>5 DEF Good

\* Two trees in which a and b are turned the same way.
LEMMA SameWay ==
  ASSUME NEW root \in Node, NEW r \in Node, Single(Leaves(r)),
         NEW a \in Panes(root), NEW b \in Panes(root), a # b,
         \A h : Way(MaxDepth, root, a, b, h) => Way(MaxDepth, r, a, b, h)
  PROVE  Between(root, a, b).horizontal = Between(r, a, b).horizontal
  <1> DEFINE x == Between(root, a, b)
             y == Between(r, a, b)
             C(n) == Parts[MaxDepth][n] \ Terminals
  <1>1. MaxDepth \in Nat /\ MaxDepth <= MaxDepth
    BY NodeAssumption
  <1>2. /\ root # None /\ root \in Nodes[MaxDepth] /\ Panes(root) = Parts[MaxDepth][root] \cap Terminals
        /\ r # None /\ r \in Nodes[MaxDepth]
    BY TreeFacts
  <1>3. Containers(root) = C(root) /\ Containers(r) = C(r)
    BY <1>2 DEF Containers
  <1>4. Divided(MaxDepth, root) /\ Divided(MaxDepth, r)
    BY <1>1, <1>2, DividedLevels
  <1>5. x = CHOOSE c \in C(root) : Turns(c, a, b)
    BY <1>3 DEF Between, Turns
  <1>6. y = CHOOSE c \in C(r) : Turns(c, a, b)
    BY <1>3 DEF Between, Turns
  <1>7. \E c \in C(root) : Turns(c, a, b)
    BY <1>2, <1>4 DEF Divided
  <1> HIDE DEF x, y
  <1>8. x \in C(root) /\ Turns(x, a, b)
    BY <1>5, <1>7
  <1>9. Way(MaxDepth, root, a, b, x.horizontal)
    BY <1>8 DEF Way
  <1>10. PICK z \in C(r) : z.horizontal = x.horizontal /\ Turns(z, a, b)
    BY <1>9 DEF Way
  <1>11. y \in C(r) /\ Turns(y, a, b)
    BY <1>6, <1>10
  <1>12. Leaves(r) = LeavesOf[MaxDepth][r]
    BY <1>2 DEF Leaves
  <1>13. y = z
    BY <1>4, <1>10, <1>11, <1>12 DEF Divided
  <1> QED
    BY <1>10, <1>13 DEF x, y

\* What was in a list is in it, apart as it was, once something is put beside.
LEMMA BesideAt ==
  ASSUME NEW S, NEW c \in Seq(S), NEW target, NEW new \in S, NEW before \in BOOLEAN,
         \E i \in DOMAIN c : c[i] = target
  PROVE  \E at : \A i \in DOMAIN c :
           /\ at[i] \in DOMAIN Beside(c, target, new, before)
           /\ Beside(c, target, new, before)[at[i]] = c[i]
           /\ \A j \in DOMAIN c : i # j => at[i] # at[j]
  <1> DEFINE n == Len(c)
             r == Beside(c, target, new, before)
  <1>1. n \in Nat /\ DOMAIN c = 1 .. n
    OBVIOUS
  <1>2. PICK p \in 1 .. n + 1 : r = InsertAt(c, p, new)
    BY BesideInserts
  <1> HIDE DEF r
  <1>3. r \in Seq(S) /\ Len(r) = n + 1
    BY <1>2, InsertAtType
  <1>4. \A i \in 1 .. n : c[i] = r[IF i < p THEN i ELSE i + 1]
    BY <1>2, InsertAtPlaces
  <1> DEFINE at == [i \in 1 .. n |-> IF i < p THEN i ELSE i + 1]
  <1>5. \A i \in 1 .. n : at[i] = IF i < p THEN i ELSE i + 1
    OBVIOUS
  <1>6. DOMAIN r = 1 .. n + 1
    BY <1>3
  <1> HIDE DEF n, at
  <1>7. \A i \in 1 .. n : at[i] \in 1 .. n + 1 /\ r[at[i]] = c[i]
    BY <1>1, <1>2, <1>4, <1>5
  <1>8. \A i, j \in 1 .. n : i # j => at[i] # at[j]
    BY <1>1, <1>2, <1>5
  <1>9. \A i \in DOMAIN c : /\ at[i] \in DOMAIN r /\ r[at[i]] = c[i]
                            /\ \A j \in DOMAIN c : i # j => at[i] # at[j]
    BY <1>1, <1>6, <1>7, <1>8
  <1> QED
    BY <1>9 DEF r

LEMMA BesideHas ==
  ASSUME NEW S, NEW c \in Seq(S), NEW target, NEW new \in S, NEW before \in BOOLEAN,
         \E i \in DOMAIN c : c[i] = target
  PROVE  \E j \in DOMAIN Beside(c, target, new, before) : Beside(c, target, new, before)[j] = target
  BY BesideAt

(***************************************************************************)
(* Inserting and removing turn nothing that stays.                         *)
(***************************************************************************)

InsertedWay(d, node, result) ==
  /\ Parts[d][node] \cap Terminals \subseteq Parts[d + 1][result]
  /\ \A a, b, h : Way(d, node, a, b, h) => Way(d + 1, result, a, b, h)

LEMMA InsertWayLevels ==
  ASSUME NEW target \in Terminals \cup {None}, NEW new \in Terminals,
         NEW horizontal \in BOOLEAN, NEW before \in BOOLEAN,
         NEW f, InsertLevelled(f, target, new, horizontal, before)
  PROVE  \A d \in Nat : d <= MaxDepth =>
           \A node \in Nodes[d] : InsertedWay(d, node, f[d][node])
  <1> DEFINE Good == {d \in Nat : d <= MaxDepth =>
                        \A node \in Nodes[d] : InsertedWay(d, node, f[d][node])}
  <1>1. ASSUME NEW d \in Nat, d <= MaxDepth, NEW node \in Nodes[d],
               node \notin Terminals =>
                 \A n \in Nodes[d - 1] : InsertedWay(d - 1, n, f[d - 1][n])
        PROVE  InsertedWay(d, node, f[d][node])
    <2> DEFINE r == f[d][node]
               one == <<node>>
               c == node.children
               e == d - 1
    <2>1. r = IF node = target THEN Container(horizontal, Beside(one, node, new, before))
              ELSE IF node \in Terminals THEN node
              ELSE IF TakesIn(node, target, horizontal)
              THEN Container(horizontal, Beside(c, target, new, before))
              ELSE Container(node.horizontal, [i \in DOMAIN c |-> f[e][c[i]]])
      BY <1>1, InsertLevel
    <2> HIDE DEF r
    <2>2. Terminals \subseteq Nodes[d] /\ Nodes[d] \subseteq Nodes[d + 1]
      BY <1>1, NodeKinds, NodesGrow
    <2>3. ASSUME NEW b \in Seq(Nodes[d]), NEW h \in BOOLEAN, r = Container(h, b)
          PROVE  /\ r \notin Terminals /\ r.horizontal = h /\ r.children = b
                 /\ Parts[d + 1][r] = {r} \cup Below(d, b)
      BY <1>1, <2>3, ContainerParts, NewKinds
    <2>4. node = target => node \in Terminals
      BY <1>1, NodeKinds
    <2>5. CASE node \in Terminals
      <3>1. Parts[d][node] = {node} /\ Parts[d + 1][node] = {node}
        BY <1>1, <2>5, PartsFacts, PartsGrow
      <3>2. \A a, b, h : ~Way(d, node, a, b, h)
        BY <2>5, <3>1 DEF Way
      <3>3. node \in Parts[d + 1][r]
        <4>1. CASE node = target
          <5>1. one \in Seq(Nodes[d]) /\ 1 \in DOMAIN one /\ one[1] = node
            <6> DEFINE N == Nodes[d]
            <6>1. node \in N
              OBVIOUS
            <6> HIDE DEF N
            <6>2. one \in Seq(N) /\ 1 \in DOMAIN one /\ one[1] = node
              BY <6>1
            <6> QED
              BY <6>2 DEF N
          <5> HIDE DEF one
          <5> DEFINE b == Beside(one, node, new, before)
          <5>2. new \in Nodes[d]
            BY <2>2
          <5>3. b \in Seq(Nodes[d])
            BY <5>1, <5>2, BesideType
          <5>a. \E j \in DOMAIN one : one[j] = node
            BY <5>1
          <5>4. \E j \in DOMAIN b : b[j] = node
            BY <5>1, <5>a, <5>2, BesideHas
          <5>5. r = Container(horizontal, b)
            BY <2>1, <4>1
          <5> HIDE DEF b
          <5>6. Parts[d + 1][r] = {r} \cup Below(d, b)
            BY <2>3, <5>3, <5>5
          <5> QED
            BY <3>1, <5>4, <5>6, BelowFacts
        <4>2. CASE node # target
          BY <2>1, <2>5, <3>1, <4>2
        <4> QED
          BY <4>1, <4>2
      <3> QED
        BY <3>1, <3>2, <3>3 DEF InsertedWay, r
    <2>6. CASE node \notin Terminals
      <3> DEFINE parts == Parts[d][node]
                 h0 == node.horizontal
      <3>1. /\ e \in Nat /\ e + 1 = d /\ e <= MaxDepth
            /\ h0 \in BOOLEAN /\ c \in Seq(Nodes[e])
            /\ \A i \in DOMAIN c : c[i] \in Nodes[e]
        BY <1>1, <2>6, OldKinds
      <3>2. /\ Nodes[e] \subseteq Nodes[d]
            /\ \A n \in Nodes[e] : Parts[d][n] = Parts[e][n]
        BY <3>1, NodesGrow, PartsGrow
      <3>3. parts = {node} \cup Below(e, c)
        BY <1>1, <2>6, PartsFacts
      <3>4. \A i \in DOMAIN c : Panes(c[i]) = Parts[e][c[i]] \cap Terminals
        BY <3>1, LevelPanes
      <3>5. \A a, b : Turns(node, a, b) =>
              \E i, j \in DOMAIN c : i # j /\ a \in Panes(c[i]) /\ b \in Panes(c[j])
        BY DEF Turns
      \* Enough: every child has its place in the new container, with all that is in it.
      <3>6. ASSUME NEW b \in Seq(Nodes[d]), r = Container(h0, b), NEW at,
                   \A i \in DOMAIN c :
                     /\ at[i] \in DOMAIN b
                     /\ \A j \in DOMAIN c : i # j => at[i] # at[j]
                     /\ Parts[e][c[i]] \cap Terminals \subseteq Parts[d][b[at[i]]]
                     /\ \A x, y, h : Way(e, c[i], x, y, h) => Way(d, b[at[i]], x, y, h)
            PROVE  InsertedWay(d, node, r)
        <4>1. /\ r \notin Terminals /\ r.horizontal = h0 /\ r.children = b
              /\ Parts[d + 1][r] = {r} \cup Below(d, b)
          BY <2>3, <3>1, <3>6
        <4>2. \A j \in DOMAIN b : b[j] \in Nodes[d]
          OBVIOUS
        <4>3. \A j \in DOMAIN b : Panes(b[j]) = Parts[d][b[j]] \cap Terminals
          BY <1>1, <4>2, LevelPanes
        <4> HIDE DEF parts, c, e, h0
        <4>4. \A i \in DOMAIN c : \A x : x \in Panes(c[i]) => x \in Panes(b[at[i]])
          BY <3>4, <3>6, <4>3
        <4>5. ASSUME NEW x \in parts \cap Terminals PROVE x \in Parts[d + 1][r]
          <5>1. PICK i \in DOMAIN c : x \in Parts[e][c[i]]
            BY <2>6, <3>3, BelowFacts
          <5>2. x \in Parts[d][b[at[i]]] /\ at[i] \in DOMAIN b
            BY <3>6, <5>1
          <5> QED
            BY <4>1, <5>2, BelowFacts
        <4>6. ASSUME NEW x, NEW y, NEW h, Way(d, node, x, y, h)
              PROVE  Way(d + 1, r, x, y, h)
          <5>1. PICK z \in parts \ Terminals : z.horizontal = h /\ Turns(z, x, y)
            BY <4>6 DEF Way, parts
          <5>2. CASE z = node
            <6>1. PICK i, j \in DOMAIN c : i # j /\ x \in Panes(c[i]) /\ y \in Panes(c[j])
              BY <3>5, <5>1, <5>2
            <6>2. at[i] # at[j] /\ x \in Panes(b[at[i]]) /\ y \in Panes(b[at[j]])
                  /\ at[i] \in DOMAIN b /\ at[j] \in DOMAIN b
              BY <3>6, <4>4, <6>1
            <6>3. Turns(r, x, y) /\ r.horizontal = h
              BY <4>1, <5>1, <5>2, <6>2 DEF Turns, h0
            <6> QED
              BY <4>1, <6>3 DEF Way
          <5>3. CASE z # node
            <6>1. PICK i \in DOMAIN c : z \in Parts[e][c[i]]
              BY <3>3, <5>3, BelowFacts
            <6>2. Way(e, c[i], x, y, h)
              BY <5>1, <6>1 DEF Way
            <6>3. Way(d, b[at[i]], x, y, h) /\ at[i] \in DOMAIN b
              BY <3>6, <6>2
            <6>4. PICK w \in Parts[d][b[at[i]]] \ Terminals : w.horizontal = h /\ Turns(w, x, y)
              BY <6>3 DEF Way
            <6>5. w \in Below(d, b)
              BY <6>3, <6>4, BelowFacts
            <6> QED
              BY <4>1, <6>4, <6>5 DEF Way
          <5> QED
            BY <5>2, <5>3
        <4> QED
          BY <4>5, <4>6 DEF InsertedWay, parts
      <3>7. CASE TakesIn(node, target, horizontal)
        <4> DEFINE b == Beside(c, target, new, before)
        <4>1. r = Container(h0, b)
          BY <2>1, <2>4, <2>6, <3>7 DEF TakesIn
        <4>2. \E i \in DOMAIN c : c[i] = target
          BY <3>7 DEF TakesIn, ToSet
        <4> HIDE DEF c, e, h0
        <4>3. c \in Seq(Nodes[d]) /\ new \in Nodes[d]
          BY <2>2, <3>1, <3>2
        <4>4. b \in Seq(Nodes[d])
          BY <4>2, <4>3, BesideType
        <4>5. PICK at : \A i \in DOMAIN c :
                          /\ at[i] \in DOMAIN b /\ b[at[i]] = c[i]
                          /\ \A j \in DOMAIN c : i # j => at[i] # at[j]
          BY <4>2, <4>3, BesideAt
        <4> HIDE DEF b
        <4>6. \A i \in DOMAIN c : \A x, y, h : Way(e, c[i], x, y, h) => Way(d, b[at[i]], x, y, h)
          BY <3>1, <3>2, <4>5 DEF Way
        <4>7. \A i \in DOMAIN c : Parts[e][c[i]] \cap Terminals \subseteq Parts[d][b[at[i]]]
          BY <3>1, <3>2, <4>5
        <4>8. InsertedWay(d, node, r)
          BY <3>6, <4>1, <4>4, <4>5, <4>6, <4>7
        <4> QED
          BY <4>8 DEF r
      <3>8. CASE ~TakesIn(node, target, horizontal)
        <4> DEFINE b == [i \in DOMAIN c |-> f[e][c[i]]]
                   at == [i \in DOMAIN c |-> i]
        <4>1. r = Container(h0, b)
          BY <2>1, <2>4, <2>6, <3>8
        <4>2. \A i \in DOMAIN c : b[i] \in Nodes[d] /\ InsertedWay(e, c[i], b[i])
          <5>1. \A n \in Nodes[e] : Inserted(e, n, f[e][n], new)
            BY <3>1, InsertLevels
          <5> QED
            BY <1>1, <2>6, <3>1, <5>1 DEF Inserted
        <4>3. b \in Seq(Nodes[d]) /\ DOMAIN b = DOMAIN c
          <5> DEFINE n == Len(c)
          <5>1. n \in Nat /\ DOMAIN c = 1 .. n
            BY <3>1
          <5> HIDE DEF n, c
          <5>2. b \in [1 .. n -> Nodes[d]]
            BY <4>2, <5>1
          <5> HIDE DEF b
          <5> QED
            BY <5>1, <5>2 DEF n
        <4>4. \A i \in DOMAIN c : at[i] = i
          OBVIOUS
        <4> HIDE DEF b, c, h0, e, at
        <4>5. \A i \in DOMAIN c :
                /\ Parts[e][c[i]] \cap Terminals \subseteq Parts[d][b[i]]
                /\ \A x, y, h : Way(e, c[i], x, y, h) => Way(d, b[i], x, y, h)
          BY <3>1, <4>2 DEF InsertedWay
        <4>6. \A i \in DOMAIN c :
                /\ at[i] \in DOMAIN b
                /\ \A j \in DOMAIN c : i # j => at[i] # at[j]
                /\ Parts[e][c[i]] \cap Terminals \subseteq Parts[d][b[at[i]]]
                /\ \A x, y, h : Way(e, c[i], x, y, h) => Way(d, b[at[i]], x, y, h)
          BY <4>3, <4>4, <4>5
        <4>7. InsertedWay(d, node, r)
          BY <3>6, <4>1, <4>3, <4>6
        <4> QED
          BY <4>7 DEF r
      <3> QED
        BY <3>7, <3>8
    <2> QED
      BY <2>5, <2>6
  <1>2. 0 \in Good
    BY <1>1, NodesFacts
  <1>3. ASSUME NEW d \in Good PROVE d + 1 \in Good
    <2> SUFFICES ASSUME d + 1 <= MaxDepth, NEW node \in Nodes[d + 1]
                 PROVE  InsertedWay(d + 1, node, f[d + 1][node])
      OBVIOUS
    <2>1. d + 1 \in Nat /\ (d + 1) - 1 = d /\ d <= MaxDepth
      BY NodeAssumption
    <2>2. \A n \in Nodes[(d + 1) - 1] : InsertedWay((d + 1) - 1, n, f[(d + 1) - 1][n])
      BY <2>1
    <2> QED
      BY <1>1, <2>1, <2>2
  <1> HIDE DEF Good
  <1>4. Good \subseteq Nat
    BY DEF Good
  <1>5. Good = Nat
    BY <1>2, <1>3, <1>4, Induction
  <1> QED
    BY <1>5 DEF Good

\* What collapses keeps its containers, but for the one that goes.
LEMMA CollapseKeeps ==
  ASSUME NEW e \in Nat, e <= MaxDepth, NEW h \in BOOLEAN, NEW k \in Seq(Nodes[e]),
         NEW p \in DOMAIN k
  PROVE  /\ Collapse(h, k) # None
         /\ Parts[e][k[p]] \subseteq Parts[e + 1][Collapse(h, k)]
         /\ \A q \in DOMAIN k : p # q => /\ Collapse(h, k) \notin Terminals
                                         /\ Collapse(h, k).horizontal = h
                                         /\ Collapse(h, k).children = k
                                         /\ Collapse(h, k) \in Parts[e + 1][Collapse(h, k)]
  <1> DEFINE r == Collapse(h, k)
             n == Len(k)
  <1>1. n \in Nat /\ DOMAIN k = 1 .. n /\ \A i \in DOMAIN k : k[i] \in Nodes[e]
    OBVIOUS
  <1>2. k # <<>>
    <2> DEFINE z == <<>>
    <2>1. DOMAIN z = {}
      OBVIOUS
    <2> HIDE DEF z
    <2>2. k # z
      BY <2>1
    <2> QED
      BY <2>2 DEF z
  <1>3. r = IF n = 1 THEN k[1] ELSE Container(h, k)
    BY <1>2 DEF Collapse
  <1> HIDE DEF r
  <1>4. None \notin Nodes[e] /\ None \notin Nodes[e + 1]
    BY NodeKinds
  <1>5. CASE n = 1
    <2>1. p = 1 /\ \A q \in DOMAIN k : q = p
      BY <1>1, <1>5
    <2>2. r = k[p] /\ r \in Nodes[e]
      BY <1>1, <1>3, <1>5, <2>1
    <2>3. Parts[e + 1][r] = Parts[e][r] /\ r # None
      BY <1>4, <2>2, PartsGrow
    <2> QED
      BY <2>1, <2>2, <2>3 DEF r
  <1>6. CASE n # 1
    <2>1. r = Container(h, k)
      BY <1>3, <1>6
    <2>2. r \in Nodes[e + 1] /\ r \notin Terminals /\ r.horizontal = h /\ r.children = k
      BY <2>1, NewKinds
    <2>3. Parts[e + 1][r] = {r} \cup Below(e, k)
      BY <2>1, ContainerParts
    <2>4. Parts[e][k[p]] \subseteq Below(e, k)
      BY BelowFacts
    <2>5. r # None
      BY <1>4, <2>2
    <2> QED
      BY <2>2, <2>3, <2>4, <2>5 DEF r
  <1> QED
    BY <1>5, <1>6

RemovedWay(d, node, result, target) ==
  Single(LeavesOf[d][node]) =>
    \A a, b, h : a # target /\ b # target /\ Way(d, node, a, b, h) =>
                   result # None /\ Way(d, result, a, b, h)

LEMMA RemoveWayLevels ==
  ASSUME NEW target \in Terminals, NEW f, RemoveLevelled(f, target)
  PROVE  \A d \in Nat : d <= MaxDepth =>
           \A node \in Nodes[d] : RemovedWay(d, node, f[d][node], target)
  <1> DEFINE Good == {d \in Nat : d <= MaxDepth =>
                        \A node \in Nodes[d] : RemovedWay(d, node, f[d][node], target)}
  <1>1. ASSUME NEW d \in Nat, d <= MaxDepth, NEW node \in Nodes[d],
               node \notin Terminals =>
                 \A n \in Nodes[d - 1] : RemovedWay(d - 1, n, f[d - 1][n], target)
        PROVE  RemovedWay(d, node, f[d][node], target)
    <2> DEFINE r == f[d][node]
               c == node.children
               h0 == node.horizontal
               e == d - 1
               s == [i \in DOMAIN c |-> IF c[i] = target THEN None ELSE f[e][c[i]]]
               k == NonNull(s)
    <2>1. r = IF node \in Terminals THEN node ELSE Collapse(h0, k)
      BY <1>1, RemoveLevel
    <2>2. CASE node \in Terminals
      <3>1. Parts[d][node] = {node}
        BY <1>1, <2>2, PartsFacts
      <3> QED
        BY <2>2, <3>1 DEF RemovedWay, Way
    <2>3. CASE node \notin Terminals
      <3>1. /\ e \in Nat /\ e + 1 = d /\ e <= MaxDepth
            /\ h0 \in BOOLEAN /\ c \in Seq(Nodes[e])
            /\ \A i \in DOMAIN c : c[i] \in Nodes[e]
        BY <1>1, <2>3, OldKinds
      <3>2. r = Collapse(h0, k)
        BY <2>1, <2>3
      <3>3. Parts[d][node] = {node} \cup Below(e, c) /\ LeavesOf[d][node] = FlattenSeq(Read(e, c))
        BY <1>1, <2>3, PartsFacts, LeavesFacts
      <3>4. None \notin Nodes[e]
        BY <3>1, NodeKinds
      <3>5. \A i \in DOMAIN c :
              /\ Removed(e, c[i], f[e][c[i]], target)
              /\ RemovedWay(e, c[i], f[e][c[i]], target)
        <4>1. \A n \in Nodes[e] : Removed(e, n, f[e][n], target)
          BY <3>1, RemoveLevels
        <4> QED
          BY <1>1, <2>3, <3>1, <4>1
      <3>6. \A i \in DOMAIN c : /\ Panes(c[i]) = Parts[e][c[i]] \cap Terminals
                                /\ Panes(c[i]) = Range(LeavesOf[e][c[i]])
        BY <3>1, LevelPanes
      <3>7. \A i \in DOMAIN c : s[i] = IF c[i] = target THEN None ELSE f[e][c[i]]
        OBVIOUS
      <3>8. \A i \in DOMAIN c : f[e][c[i]] \in Nodes[e] \cup {None}
        BY <3>5 DEF Removed
      <3>9. \A a, b : Turns(node, a, b) =>
              \E i, j \in DOMAIN c : i # j /\ a \in Panes(c[i]) /\ b \in Panes(c[j])
        BY DEF Turns
      <3>10. s \in Seq(Nodes[e] \cup {None}) /\ DOMAIN s = DOMAIN c
        <4> DEFINE N == Nodes[e] \cup {None}
                   n == Len(c)
        <4>1. n \in Nat /\ DOMAIN c = 1 .. n
          BY <3>1
        <4>2. \A i \in DOMAIN c : f[e][c[i]] \in N
          BY <3>8
        <4> HIDE DEF N, n, c
        <4>3. s \in [1 .. n -> N]
          BY <4>1, <4>2 DEF N
        <4> HIDE DEF s
        <4>4. s \in Seq(N) /\ DOMAIN s = 1 .. n
          BY <4>1, <4>3
        <4> QED
          BY <4>1, <4>4 DEF N
      <3> HIDE DEF s, c, e, h0
      <3>11. /\ k \in Seq(Nodes[e])
             /\ \A j \in DOMAIN s : s[j] # None => \E x \in DOMAIN k : k[x] = s[j]
        BY <3>4, <3>10, NonNullFacts
      <3> HIDE DEF k, r
      <3> SUFFICES ASSUME Single(LeavesOf[d][node]), NEW a, NEW b, NEW h,
                          a # target, b # target, Way(d, node, a, b, h)
                   PROVE  r # None /\ Way(d, r, a, b, h)
        BY DEF RemovedWay, r
      <3>12. /\ \A i \in DOMAIN c : Single(LeavesOf[e][c[i]])
             /\ \A i, j \in DOMAIN c : a \in Panes(c[i]) /\ a \in Panes(c[j]) => i = j
        <4>1. Single(FlattenSeq(Read(e, c)))
          BY <3>3
        <4>2. \A i \in DOMAIN c :
                /\ Single(LeavesOf[e][c[i]])
                /\ \A j \in DOMAIN c :
                     a \in Range(LeavesOf[e][c[i]]) /\ a \in Range(LeavesOf[e][c[j]]) => i = j
          BY <3>1, <4>1, ReadApart
        <4> QED
          BY <3>6, <4>2
      \* What is in a child is in what is left of it.
      <3>13. ASSUME NEW i \in DOMAIN c, NEW x \in Panes(c[i]), x # target
             PROVE  s[i] # None /\ \A p \in DOMAIN k : k[p] = s[i] => x \in Panes(k[p])
        <4>1. x \in Parts[e][c[i]] \cap Terminals
          BY <3>6, <3>13
        <4>2. c[i] # target
          <5>1. ASSUME c[i] = target PROVE FALSE
            <6>1. Parts[e][c[i]] = {c[i]}
              BY <3>1, <5>1, PartsFacts
            <6> QED
              BY <3>13, <4>1, <5>1, <6>1
          <5> QED
            BY <5>1
        <4>3. s[i] = f[e][c[i]]
          BY <3>7, <4>2
        <4>4. s[i] # None /\ x \in Parts[e][s[i]]
          BY <3>5, <3>13, <4>1, <4>3 DEF Removed
        <4>5. ASSUME NEW p \in DOMAIN k, k[p] = s[i] PROVE x \in Panes(k[p])
          <5>1. k[p] \in Nodes[e]
            BY <3>11
          <5>2. Panes(k[p]) = Parts[e][k[p]] \cap Terminals
            BY <3>1, <5>1, LevelPanes
          <5> QED
            BY <4>1, <4>4, <4>5, <5>2
        <4> QED
          BY <4>4, <4>5
      \* And nothing else is.
      <3>14. ASSUME NEW i \in DOMAIN c, NEW p \in DOMAIN k, s[i] # None, k[p] = s[i], a \in Panes(k[p])
             PROVE  a \in Panes(c[i])
        <4>1. s[i] = f[e][c[i]] /\ Removed(e, c[i], s[i], target)
          BY <3>5, <3>7, <3>14
        <4>2. k[p] \in Nodes[e]
          BY <3>11
        <4>3. Panes(k[p]) = Parts[e][k[p]] \cap Terminals
          BY <3>1, <4>2, LevelPanes
        <4> QED
          BY <3>6, <3>14, <4>1, <4>3 DEF Removed
      <3>15. PICK z \in Parts[d][node] \ Terminals : z.horizontal = h /\ Turns(z, a, b)
        BY DEF Way
      <3>16. CASE z = node
        <4>1. PICK i, j \in DOMAIN c : i # j /\ a \in Panes(c[i]) /\ b \in Panes(c[j])
          BY <3>9, <3>15, <3>16
        <4>2. PICK p \in DOMAIN k : k[p] = s[i]
          BY <3>10, <3>11, <3>13, <4>1
        <4>3. PICK q \in DOMAIN k : k[q] = s[j]
          BY <3>10, <3>11, <3>13, <4>1
        <4>4. a \in Panes(k[p]) /\ b \in Panes(k[q])
          BY <3>13, <4>1, <4>2, <4>3
        <4>5. p # q
          <5>1. ASSUME p = q PROVE FALSE
            <6>1. s[j] # None
              BY <3>13, <4>1
            <6>2. a \in Panes(c[j])
              BY <3>14, <4>3, <4>4, <5>1, <6>1
            <6> QED
              BY <3>12, <4>1, <6>2
          <5> QED
            BY <5>1
        <4>6. r # None /\ r \notin Terminals /\ r.horizontal = h0 /\ r.children = k /\ r \in Parts[d][r]
          BY <3>1, <3>2, <3>11, <4>5, CollapseKeeps
        <4>7. Turns(r, a, b)
          BY <4>4, <4>5, <4>6 DEF Turns
        <4>8. r.horizontal = h
          BY <3>15, <3>16, <4>6 DEF h0
        <4> QED
          BY <4>6, <4>7, <4>8 DEF Way
      <3>17. CASE z # node
        <4>1. PICK i \in DOMAIN c : z \in Parts[e][c[i]]
          BY <3>3, <3>15, <3>17, BelowFacts
        <4>2. c[i] # target
          <5>1. ASSUME c[i] = target PROVE FALSE
            <6>1. Parts[e][c[i]] = {c[i]}
              BY <3>1, <5>1, PartsFacts
            <6> QED
              BY <3>15, <4>1, <5>1, <6>1
          <5> QED
            BY <5>1
        <4>3. Way(e, c[i], a, b, h)
          BY <3>15, <4>1 DEF Way
        <4>4. s[i] # None /\ Way(e, s[i], a, b, h)
          BY <3>5, <3>7, <3>12, <4>2, <4>3 DEF RemovedWay
        <4>5. PICK p \in DOMAIN k : k[p] = s[i]
          BY <3>10, <3>11, <4>4
        <4>6. PICK w \in Parts[e][k[p]] \ Terminals : w.horizontal = h /\ Turns(w, a, b)
          BY <4>4, <4>5 DEF Way
        <4>7. r # None /\ Parts[e][k[p]] \subseteq Parts[d][r]
          BY <3>1, <3>2, <3>11, CollapseKeeps
        <4> QED
          BY <4>6, <4>7 DEF Way
      <3> QED
        BY <3>16, <3>17
    <2> QED
      BY <2>2, <2>3
  <1>2. 0 \in Good
    BY <1>1, NodesFacts
  <1>3. ASSUME NEW d \in Good PROVE d + 1 \in Good
    <2> SUFFICES ASSUME d + 1 <= MaxDepth, NEW node \in Nodes[d + 1]
                 PROVE  RemovedWay(d + 1, node, f[d + 1][node], target)
      OBVIOUS
    <2>1. d + 1 \in Nat /\ (d + 1) - 1 = d /\ d <= MaxDepth
      BY NodeAssumption
    <2>2. \A n \in Nodes[(d + 1) - 1] : RemovedWay((d + 1) - 1, n, f[(d + 1) - 1][n], target)
      BY <2>1
    <2> QED
      BY <1>1, <2>1, <2>2
  <1> HIDE DEF Good
  <1>4. Good \subseteq Nat
    BY DEF Good
  <1>5. Good = Nat
    BY <1>2, <1>3, <1>4, Induction
  <1> QED
    BY <1>5 DEF Good

(***************************************************************************)
(* What that makes of whole trees.                                         *)
(***************************************************************************)

\* r turns all as root does that neither of the two is in.
Keeps(root, r, x, y) ==
  \A a, b, h : {a, b} \cap {x, y} = {} /\ Way(MaxDepth, root, a, b, h) => Way(MaxDepth, r, a, b, h)

\* The bound on the depth allows r.
LEMMA DeeperWay ==
  ASSUME NEW root \in Node, NEW r \in Tree, r \in Nodes[MaxDepth + 1],
         \A a, b, h : Way(MaxDepth, root, a, b, h) => Way(MaxDepth + 1, r, a, b, h)
  PROVE  r \in Node /\ Keeps(root, r, None, None)
  <1>1. MaxDepth \in Nat /\ MaxDepth <= MaxDepth
    BY NodeAssumption
  <1>2. r \in Node
    BY DeeperLeaves
  <1>3. Parts[MaxDepth + 1][r] = Parts[MaxDepth][r]
    BY <1>1, <1>2, PartsGrow DEF Node
  <1>4. \A a, b, h : Way(MaxDepth + 1, r, a, b, h) => Way(MaxDepth, r, a, b, h)
    BY <1>3 DEF Way
  <1> QED
    BY <1>2, <1>4 DEF Keeps

LEMMA InsertKeeps ==
  ASSUME NEW target \in Terminals \cup {None}, NEW new \in Terminals,
         NEW horizontal \in BOOLEAN, NEW before \in BOOLEAN, NEW root \in Node,
         InsertNode(root, target, new, horizontal, before) \in Tree
  PROVE  Keeps(root, InsertNode(root, target, new, horizontal, before), None, None)
  <1> DEFINE r == InsertNode(root, target, new, horizontal, before)
  <1>1. PICK f : /\ \A x : InsertNode(x, target, new, horizontal, before) = f[MaxDepth][x]
                 /\ InsertLevelled(f, target, new, horizontal, before)
    BY InsertSolved
  <1>2. MaxDepth \in Nat /\ MaxDepth <= MaxDepth /\ root \in Nodes[MaxDepth]
    BY NodeAssumption DEF Node
  <1>3. r = f[MaxDepth][root]
    BY <1>1
  <1>4. r \in Nodes[MaxDepth + 1] /\ r \in Tree
    BY InsertFacts DEF Inserted
  <1> HIDE DEF r
  <1>5. InsertedWay(MaxDepth, root, r)
    BY <1>1, <1>2, <1>3, InsertWayLevels
  <1>6. Keeps(root, r, None, None)
    BY <1>4, <1>5, DeeperWay DEF InsertedWay
  <1> QED
    BY <1>6 DEF r

LEMMA PairKeeps ==
  ASSUME NEW t \in Terminals, NEW root \in Node, Container(TRUE, <<root, t>>) \in Tree
  PROVE  Keeps(root, Container(TRUE, <<root, t>>), None, None)
  <1> DEFINE c == <<root, t>>
             r == Container(TRUE, c)
             N == Nodes[MaxDepth]
  <1>1. MaxDepth \in Nat /\ MaxDepth <= MaxDepth
    BY NodeAssumption
  <1>2. root \in N /\ t \in N
    BY TerminalTree DEF Node
  <1> HIDE DEF N
  <1>3. c \in Seq(N) /\ 1 \in DOMAIN c /\ c[1] = root
    BY <1>2
  <1>4. r \in Tree
    OBVIOUS
  <1> HIDE DEF c
  <1>5. r \in Nodes[MaxDepth + 1] /\ Parts[MaxDepth + 1][r] = {r} \cup Below(MaxDepth, c)
    BY <1>1, <1>3, NewKinds, ContainerParts DEF N
  <1> HIDE DEF r
  <1>6. Parts[MaxDepth][root] \subseteq Parts[MaxDepth + 1][r]
    BY <1>3, <1>5, BelowFacts
  <1>7. \A a, b, h : Way(MaxDepth, root, a, b, h) => Way(MaxDepth + 1, r, a, b, h)
    BY <1>6 DEF Way
  <1>8. Keeps(root, r, None, None)
    BY <1>4, <1>5, <1>7, DeeperWay
  <1> QED
    BY <1>8 DEF r, c

LEMMA RemoveKeeps ==
  ASSUME NEW target \in Terminals, NEW root \in Node, Single(Leaves(root))
  PROVE  Keeps(root, RemoveNode(root, target), target, target)
  <1> DEFINE r == RemoveNode(root, target)
  <1>1. PICK f : /\ \A x : RemoveNode(x, target) = f[MaxDepth][x]
                 /\ RemoveLevelled(f, target)
    BY RemoveSolved
  <1>2. MaxDepth \in Nat /\ MaxDepth <= MaxDepth /\ root \in Nodes[MaxDepth] /\ root # None
    BY NodeAssumption, TreeFacts DEF Node
  <1>3. r = f[MaxDepth][root]
    BY <1>1
  <1> HIDE DEF r
  <1>4. RemovedWay(MaxDepth, root, r, target)
    BY <1>1, <1>2, <1>3, RemoveWayLevels
  <1>5. Leaves(root) = LeavesOf[MaxDepth][root]
    BY <1>2 DEF Leaves
  <1> QED
    BY <1>4, <1>5 DEF RemovedWay, Keeps, r

(***************************************************************************)
(* The steps.  A workspace that is removed leaves its place to the next,   *)
(* which has no terminal in common with it: Apart.                         *)
(***************************************************************************)

Apart == \A i, j \in DOMAIN roots : i # j => Panes(roots[i]) \cap Panes(roots[j]) = {}

\* One tree is turned as the other.
Alike(root, r) ==
  \A a, b \in (Panes(root) \cap Panes(r)) \ {drag} :
    a # b => Between(root, a, b).horizontal = Between(r, a, b).horizontal

AllAlike ==
  \A i \in {i \in DOMAIN roots \cap DOMAIN roots' : roots[i] # roots'[i]} : Alike(roots[i], roots'[i])

LEMMA KeepsAlike ==
  ASSUME NEW root \in Tree, NEW r \in Tree, Single(Leaves(r)), NEW x,
         x \notin Panes(root) \cap Panes(r),
         root # None /\ r # None => Keeps(root, r, x, drag)
  PROVE  Alike(root, r)
  <1>1. CASE root = None \/ r = None
    BY <1>1, NothingThere DEF Alike
  <1>2. CASE root # None /\ r # None
    <2>1. root \in Node /\ r \in Node
      BY <1>2 DEF Tree
    <2> SUFFICES ASSUME NEW a \in (Panes(root) \cap Panes(r)) \ {drag},
                        NEW b \in (Panes(root) \cap Panes(r)) \ {drag}, a # b
                 PROVE  Between(root, a, b).horizontal = Between(r, a, b).horizontal
      BY DEF Alike
    <2>2. {a, b} \cap {x, drag} = {}
      OBVIOUS
    <2>3. \A h : Way(MaxDepth, root, a, b, h) => Way(MaxDepth, r, a, b, h)
      BY <1>2, <2>2 DEF Keeps
    <2> QED
      BY <2>1, <2>3, SameWay
  <1> QED
    BY <1>1, <1>2

\* One tree is replaced.
LEMMA OneReplaced ==
  ASSUME Trees, Apart, Placed', NEW root \in Tree, roots' = [roots EXCEPT ![current + 1] = root],
         NEW t, t \notin opened, Panes(root) \subseteq Panes(Root) \cup {t}, Alike(Root, root)
  PROVE  Apart' /\ AllAlike
  <1>1. /\ current + 1 \in DOMAIN roots /\ Root = roots[current + 1]
        /\ \A i \in DOMAIN roots : Panes(roots[i]) \subseteq opened
    BY RootsFacts DEF Trees
  <1>2. /\ DOMAIN roots' = DOMAIN roots /\ roots'[current + 1] = root
        /\ \A i \in DOMAIN roots : i # current + 1 => roots'[i] = roots[i]
    BY <1>1
  <1>3. \A i \in DOMAIN roots : i # current + 1 => Panes(root) \cap Panes(roots[i]) = {}
    BY <1>1 DEF Apart
  <1>4. Apart'
    BY <1>2, <1>3 DEF Apart
  <1>5. AllAlike
    BY <1>1, <1>2 DEF AllAlike
  <1> QED
    BY <1>4, <1>5

LEMMA OpenAlike ==
  ASSUME Trees, Apart, Placed', NEW r \in Requests, OpenPane(r)
  PROVE  Apart' /\ AllAlike
  <1>1. PICK t \in Terminals \ opened :
          /\ IF r.op = "add" THEN AddTerminal(t) ELSE SplitTerminal(r.target, t, r.horizontal)
          /\ UNCHANGED current
    BY DEF OpenPane
  <1>2. r.horizontal \in BOOLEAN /\ r.target \in Terminals \cup {None}
    BY DEF Requests
  <1>3. Root \in Tree /\ current + 1 \in DOMAIN roots
    BY RootsFacts
  <1>4. PICK root : /\ Replace(root, dragging) /\ root \in Tree
                    /\ Panes(root) \subseteq Panes(Root) \cup {t}
                    /\ Root # None /\ root # None => Keeps(Root, root, None, None)
    <2>1. CASE r.op = "add" /\ Root = None
      <3>1. Replace(t, dragging)
        BY <1>1, <2>1 DEF AddTerminal
      <3>2. t \in Tree /\ Panes(t) = {t}
        BY TerminalTree DEF Tree
      <3> QED
        BY <2>1, <3>1, <3>2
    <2>2. CASE r.op = "add" /\ Root # None
      <3> DEFINE n == Container(TRUE, <<Root, t>>)
      <3>1. Replace(n, dragging)
        BY <1>1, <2>2 DEF AddTerminal
      <3>2. n \in Tree /\ Root \in Node
        BY <1>3, <2>2, <3>1 DEF Replace, Tree
      <3>3. Panes(n) \subseteq Panes(Root) \cup {t} /\ Keeps(Root, n, None, None)
        BY <3>2, PairTree, PairKeeps
      <3> QED
        BY <3>1, <3>2, <3>3
    <2>3. CASE r.op # "add" /\ Root = None
      <3>1. Replace(None, dragging)
        BY <1>1, <2>3 DEF SplitTerminal
      <3> QED
        BY <1>3, <2>3, <3>1
    <2>4. CASE r.op # "add" /\ Root # None
      <3> DEFINE target == r.target
                 h == r.horizontal
                 before == FALSE
                 n == InsertNode(Root, target, t, h, before)
      <3>1. Replace(n, dragging)
        BY <1>1, <2>4 DEF SplitTerminal
      <3>2. n \in Tree /\ Root \in Node
        BY <1>3, <2>4, <3>1 DEF Replace, Tree
      <3>3. target \in Terminals \cup {None} /\ h \in BOOLEAN /\ before \in BOOLEAN
        BY <1>2
      <3> HIDE DEF target, h, before
      <3>4. Panes(n) \subseteq Panes(Root) \cup {t}
        BY <3>2, <3>3, InsertTree
      <3>5. Keeps(Root, n, None, None)
        BY <3>2, <3>3, InsertKeeps
      <3> HIDE DEF n
      <3> QED
        BY <3>1, <3>2, <3>4, <3>5
    <2> QED
      BY <2>1, <2>2, <2>3, <2>4
  <1>5. roots' = [roots EXCEPT ![current + 1] = root]
    BY <1>4 DEF Replace
  <1>6. Single(Leaves(root))
    BY <1>3, <1>5 DEF Placed
  <1>7. None \notin Panes(Root)
    BY NodeAssumption DEF Panes
  <1>8. Root # None /\ root # None => Keeps(Root, root, None, drag)
    BY <1>4 DEF Keeps
  <1>9. Alike(Root, root)
    BY <1>3, <1>4, <1>6, <1>7, <1>8, KeepsAlike
  <1> QED
    BY <1>1, <1>4, <1>5, <1>9, OneReplaced

LEMMA CloseAlike ==
  ASSUME Trees, Placed, Apart, Placed', NEW t \in Terminals, CloseTerminal(t)
  PROVE  Apart' /\ AllAlike
  <1> DEFINE root == IF Root = t THEN None ELSE RemoveNode(Root, t)
  <1>1. t \in Panes(Root) /\ Replace(root, dragging)
    BY DEF CloseTerminal, Present
  <1>2. Root \in Tree /\ current + 1 \in DOMAIN roots /\ Panes(Root) \subseteq opened
    BY RootsFacts
  <1>3. Root \in Node /\ Single(Leaves(Root))
    BY <1>1, <1>2, NothingThere DEF Tree, Placed, Root
  <1>4. root \in Tree /\ roots' = [roots EXCEPT ![current + 1] = root]
    BY <1>1 DEF Replace, Tree
  <1>5. /\ Panes(root) \subseteq Panes(Root) /\ t \notin Panes(root)
        /\ Root # None /\ root # None => Keeps(Root, root, t, t)
    <2>1. CASE Root = t
      BY <2>1, NothingThere
    <2>2. CASE Root # t
      <3>1. root = RemoveNode(Root, t)
        BY <2>2
      <3>2. Panes(root) \subseteq Panes(Root) /\ Keeps(Root, root, t, t)
        BY <1>3, <3>1, RemoveTree, RemoveKeeps
      <3>3. Put(Leaves(root), Leaves(Root), t)
        BY <1>1, <1>3, <2>2, <3>1, RemoveLeaves
      <3> HIDE DEF root
      <3>4. t \notin Panes(root)
        BY <1>3, <1>4, <3>3, PutSingle, TreeLeaves
      <3> QED
        BY <3>2, <3>4
    <2> QED
      BY <2>1, <2>2
  <1> HIDE DEF root
  <1>6. Single(Leaves(root))
    BY <1>2, <1>4 DEF Placed
  <1>7. Root # None /\ root # None => Keeps(Root, root, t, drag)
    BY <1>5 DEF Keeps
  <1>8. Alike(Root, root)
    BY <1>2, <1>4, <1>5, <1>6, <1>7, KeepsAlike
  <1>9. PICK x : x \notin opened
    <2>1. None \notin opened
      BY NodeAssumption DEF Trees
    <2> QED
      BY <2>1
  <1> QED
    BY <1>4, <1>5, <1>8, <1>9, OneReplaced

LEMMA DropAlike ==
  ASSUME Whole, Placed, Apart, Placed', NEW t \in Terminals, NEW h \in BOOLEAN, NEW before \in BOOLEAN,
         Drop(t, h, before)
  PROVE  Apart' /\ AllAlike
  <1> DEFINE rest == RemoveNode(Root, drag)
             n == InsertNode(rest, t, drag, h, before)
             root == IF rest = None THEN drag ELSE n
  <1>1. drag # None /\ t \in Panes(Root) /\ t # drag /\ Replace(root, AfterDrag)
    BY DEF Drop, Present, MoveTerminal
  <1>2. Trees /\ Page /\ Views
    BY DEF Whole
  <1>3. Root \in Tree /\ current + 1 \in DOMAIN roots
    BY <1>2, RootsFacts
  <1>4. Root \in Node /\ Single(Leaves(Root))
    BY <1>1, <1>3, NothingThere DEF Tree, Placed, Root
  <1>5. drag \in Terminals /\ drag \in Panes(Root)
    BY <1>1, <1>2 DEF Page, Views, Placed
  <1>6. rest \in Tree /\ t \in Panes(rest) /\ Panes(rest) \subseteq Panes(Root)
    BY <1>1, <1>4, <1>5, RemoveTree
  <1>7. Keeps(Root, rest, drag, drag)
    BY <1>4, <1>5, RemoveKeeps
  <1> HIDE DEF rest
  <1>8. rest # None /\ rest \in Node
    BY <1>6, NothingThere DEF Tree
  <1>9. root = n /\ n \in Tree
    BY <1>1, <1>8 DEF Replace, Tree
  <1>10. roots' = [roots EXCEPT ![current + 1] = n]
    BY <1>1, <1>9 DEF Replace
  <1> HIDE DEF root
  <1>11. Panes(n) \subseteq Panes(rest) \cup {drag} /\ Keeps(rest, n, None, None)
    BY <1>5, <1>8, <1>9, InsertTree, InsertKeeps
  <1> HIDE DEF n
  <1>12. Keeps(Root, n, drag, drag)
    <2> SUFFICES ASSUME NEW a, NEW b, NEW w, a # drag, b # drag, Way(MaxDepth, Root, a, b, w)
                 PROVE  Way(MaxDepth, n, a, b, w)
      BY DEF Keeps
    <2>1. Way(MaxDepth, rest, a, b, w)
      BY <1>7 DEF Keeps
    <2>2. CASE a = None \/ b = None
      <3>1. \A c : ~(None \in Panes(c))
        BY NodeAssumption DEF Panes
      <3> QED
        BY <2>1, <2>2, <3>1 DEF Way, Turns
    <2>3. CASE a # None /\ b # None
      BY <1>11, <2>1, <2>3 DEF Keeps
    <2> QED
      BY <2>2, <2>3
  <1>13. Single(Leaves(n))
    BY <1>3, <1>10 DEF Placed
  <1>14. None \notin Panes(Root) /\ None \notin opened
    BY <1>2, NodeAssumption DEF Panes, Trees
  <1>15. Root # None /\ n # None => Keeps(Root, n, None, drag)
    BY <1>12 DEF Keeps
  <1>16. Alike(Root, n)
    BY <1>3, <1>9, <1>13, <1>14, <1>15, KeepsAlike
  <1>17. Panes(n) \subseteq Panes(Root) \cup {None}
    BY <1>5, <1>6, <1>11
  <1> QED
    BY <1>2, <1>9, <1>10, <1>14, <1>16, <1>17, OneReplaced

LEMMA AddAlike ==
  ASSUME Trees, Apart, AddWorkspace
  PROVE  Apart' /\ AllAlike
  <1> DEFINE n == Len(roots)
  <1>1. n \in Nat /\ DOMAIN roots = 1 .. n
    BY RootsFacts
  <1>2. roots' = Append(roots, None)
    BY DEF AddWorkspace
  <1>3. DOMAIN roots' = 1 .. n + 1 /\ roots'[n + 1] = None /\ \A i \in 1 .. n : roots'[i] = roots[i]
    BY <1>1, <1>2 DEF Trees
  <1> HIDE DEF n
  <1>4. Panes(None) = {}
    BY NothingThere
  <1>5. \A i \in 1 .. n + 1 : i \in 1 .. n \/ i = n + 1
    BY <1>1
  <1>6. Apart'
    BY <1>1, <1>3, <1>4, <1>5 DEF Apart
  <1>7. AllAlike
    BY <1>1, <1>3 DEF AllAlike
  <1> QED
    BY <1>6, <1>7

LEMMA RemoveAlike ==
  ASSUME Trees, Apart, NEW i, RemoveWorkspace(i)
  PROVE  Apart' /\ AllAlike
  <1> DEFINE n == Len(roots)
  <1>1. /\ i \in DOMAIN roots /\ roots' = IF n = 1 THEN <<None>> ELSE RemoveAt(roots, i)
    BY DEF RemoveWorkspace
  <1>2. n \in Nat /\ DOMAIN roots = 1 .. n
    BY RootsFacts
  <1> HIDE DEF n
  <1>3. CASE n = 1
    <2>1. DOMAIN roots' = {1} /\ roots'[1] = None /\ Panes(None) = {}
      BY <1>1, <1>3, NothingThere
    <2> QED
      BY <2>1 DEF Apart, AllAlike, Alike
  <1>4. CASE n # 1
    <2> DEFINE rs == RemoveAt(roots, i)
    <2>1. roots' = rs
      BY <1>1, <1>4
    <2>2. /\ rs \in Seq(Tree) /\ Len(rs) = n - 1
          /\ \A j \in 1 .. n - 1 : rs[j] = IF j < i THEN roots[j] ELSE roots[j + 1]
      BY <1>1, RemoveAtType, RemoveAtPlaces DEF Trees, n
    <2> HIDE DEF rs
    <2>3. DOMAIN rs = 1 .. n - 1
      BY <2>2
    <2> DEFINE old(j) == IF j < i THEN j ELSE j + 1
    <2>4. \A j \in 1 .. n - 1 : old(j) \in 1 .. n /\ rs[j] = roots[old(j)]
      BY <1>1, <1>2, <2>2
    <2>5. \A j, k \in 1 .. n - 1 : j # k => old(j) # old(k)
      BY <1>1, <1>2
    <2> HIDE DEF old
    <2>6. Apart'
      BY <1>2, <2>1, <2>3, <2>4, <2>5 DEF Apart
    <2>7. ASSUME NEW j \in DOMAIN roots \cap DOMAIN roots', roots[j] # roots'[j]
          PROVE  Panes(roots[j]) \cap Panes(roots'[j]) = {}
      <3>1. old(j) \in 1 .. n /\ old(j) # j /\ roots'[j] = roots[old(j)]
        BY <2>1, <2>3, <2>4, <2>7
      <3> QED
        BY <1>2, <3>1 DEF Apart
    <2>8. AllAlike
      BY <2>7 DEF AllAlike, Alike
    <2> QED
      BY <2>6, <2>8
  <1> QED
    BY <1>3, <1>4

LEMMA NothingAlike ==
  ASSUME Apart, UNCHANGED roots
  PROVE  Apart' /\ AllAlike
  BY DEF Apart, AllAlike

LEMMA AlikeStep ==
  ASSUME Whole, Placed, Apart, [Next]_vars
  PROVE  Apart' /\ AllAlike
  <1>1. Trees /\ Views /\ Page
    BY DEF Whole
  <1>2. Placed'
    BY ListedStep
  <1>3. CASE UNCHANGED vars
    BY <1>3, NothingAlike DEF vars, treeVars
  <1>4. CASE \E i \in 0 .. MaxWorkspaces : SetCurrentIndex(i)
    BY <1>4, NothingAlike DEF SetCurrentIndex
  <1>5. CASE \E i \in 0 .. MaxWorkspaces : RemoveWorkspace(i)
    BY <1>1, <1>5, RemoveAlike
  <1>6. CASE AddWorkspace
    BY <1>1, <1>6, AddAlike
  <1>7. CASE ConnectSaved \/ PickSaved \/ DialogConfirm \/ SaveDone
    <2>1. (\E r \in Requests : OpenPane(r)) \/ UNCHANGED treeVars
      BY <1>1, <1>7, PageAsks
    <2>2. CASE \E r \in Requests : OpenPane(r)
      BY <1>1, <1>2, <2>2, OpenAlike
    <2>3. CASE UNCHANGED treeVars
      BY <2>3, NothingAlike DEF treeVars
    <2> QED
      BY <2>1, <2>2, <2>3
  <1>8. CASE \/ EditSaved \/ PickNew \/ DialogConfirmFavorite \/ SaveFails \/ Dismiss
             \/ Release \/ \E r \in Requests : ShowConnectionChooser(r)
             \/ \E t \in Terminals : DragStart(t)
    <2>1. UNCHANGED treeVars
      BY <1>8 DEF EditSaved, PickNew, DialogConfirmFavorite, SaveFails, Dismiss, Release,
                  ShowConnectionChooser, DragStart
    <2> QED
      BY <2>1, NothingAlike DEF treeVars
  <1>9. CASE \E t \in Terminals : CloseTerminal(t)
    BY <1>1, <1>2, <1>9, CloseAlike
  <1>10. CASE \E t \in Terminals, horizontal, before \in BOOLEAN : Drop(t, horizontal, before)
    BY <1>2, <1>10, DropAlike
  <1> QED
    BY <1>3, <1>4, <1>5, <1>6, <1>7, <1>8, <1>9, <1>10 DEF Next

\* No terminal is twice in a tree or in two trees, after any mixture of splits,
\* moves and closes in any number of workspaces.
THEOREM WorkspaceApart == Spec => [](Placed /\ Apart)
  <1>1. Init => Placed /\ Apart
    <2> SUFFICES ASSUME Init PROVE Placed /\ Apart
      OBVIOUS
    <2>1. DOMAIN roots = {1} /\ roots[1] = None /\ drag = None
      BY DEF Init
    <2>2. Single(Leaves(None))
      BY DEF Leaves, Single
    <2> QED
      BY <2>1, <2>2 DEF Placed, Apart
  <1>2. Whole /\ Placed /\ Apart /\ [Next]_vars => Placed' /\ Apart'
    BY ListedStep, AlikeStep
  <1> QED
    BY <1>1, <1>2, WorkspaceInductive, PTL DEF Spec

\* A dropped terminal is where the user saw the zone, directly before or after the
\* one it was dropped on, and no step of moveTerminal, _insertNode or
\* _removeNode turns the split between two terminals it is not about.
THEOREM DropsKeepLayoutHolds == Spec => DropsKeepLayout
  <1>1. Whole /\ Placed =>
          \A t \in Terminals, horizontal, before \in BOOLEAN :
            Drop(t, horizontal, before) =>
              \E c \in Containers(roots'[current + 1]) : \E i \in 1 .. Len(c.children) - 1 :
                /\ c.horizontal = horizontal
                /\ SubSeq(c.children, i, i + 1) = IF before THEN <<drag, t>> ELSE <<t, drag>>
    BY DropPlaced DEF Zone
  <1>2. Whole /\ Placed /\ Apart /\ [Next]_vars =>
          \A i \in {i \in DOMAIN roots \cap DOMAIN roots' : roots[i] # roots'[i]} :
            \A a, b \in (Panes(roots[i]) \cap Panes(roots'[i])) \ {drag} :
              a # b => Between(roots[i], a, b).horizontal = Between(roots'[i], a, b).horizontal
    BY AlikeStep DEF AllAlike, Alike
  <1> QED
    BY <1>1, <1>2, WorkspaceInductive, WorkspaceApart, PTL
       DEF Spec, DropsKeepLayout, PlacedBeside, LayoutKept

=============================================================================
