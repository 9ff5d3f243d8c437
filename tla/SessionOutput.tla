--------------------------- MODULE SessionOutput ---------------------------
(***************************************************************************)
(* The way of a session's output from the SSH channel to its readers: the  *)
(* broadcast channel of the session, the scrollback task that stores what  *)
(* it receives in the chunks of `scrollback_chunks`, and a client that     *)
(* attaches, goes away and recovers.                                       *)
(*                                                                         *)
(* The bytes of a session are numbered in the order in which its SSH       *)
(* channel delivers them, so a sequence of bytes tells what is missing, in *)
(* the wrong place or twice.  Receivers of a broadcast channel do not      *)
(* disturb each other: one client is as good as many.                      *)
(***************************************************************************)
EXTENDS Integers, SequencesExt

CONSTANTS
  ChunkSize,  \* SCROLLBACK_CHUNK_SIZE
  Capacity,   \* messages a broadcast channel retains
  MaxPacket,  \* bound: bytes in one SSH data message
  MaxBytes    \* bound: bytes a session ever outputs

ASSUME ChunkSizeAssumption == ChunkSize \in Nat \ {0}
ASSUME CapacityAssumption == Capacity \in Nat \ {0}
ASSUME BoundsAssumption == MaxPacket \in Nat /\ MaxBytes \in Nat

VARIABLES
  sent,    \* all messages of the broadcast channel, the overwritten ones too
  up,      \* a sender of the broadcast channel is left
  row,     \* the row of the session exists
  chunks,  \* the chunks of the session, by chunk_index
  saver,   \* the scrollback task, with the locals of ScrollbackChunk::append
  client,  \* the client, with the locals of attach_with_recovery
  clean    \* history: the task has missed no message, lost no query

vars == <<sent, up, row, chunks, saver, client, clean>>

-----------------------------------------------------------------------------
(***************************************************************************)
(* tokio::sync::broadcast, read by position.                               *)
(***************************************************************************)

End == Len(sent) + 1
Oldest == IF Len(sent) > Capacity THEN Len(sent) - Capacity + 1 ELSE 1
CanReceive(next) == next \in Oldest..Len(sent)
Lagged(next) == next < Oldest
Closed(next) == ~up /\ next = End

Produced == IF sent = <<>> THEN 0 ELSE Last(Last(sent))

-----------------------------------------------------------------------------
(***************************************************************************)
(* ScrollbackChunk: what its queries return.                               *)
(***************************************************************************)

\* Mutant: an empty table counts as one index too low.
MaxIndex_TooLow == IF DOMAIN chunks = {} THEN -2 ELSE Max(DOMAIN chunks)

\* MAX(chunk_index), or -1.
MaxIndex == IF DOMAIN chunks = {} THEN -1 ELSE Max(DOMAIN chunks)

\* A query that sorts by chunk_index sees the indexes below Past from zero on,
\* and no data where there is no chunk.
Past == IF DOMAIN chunks = {} THEN 0 ELSE Max(DOMAIN chunks) + 1
Data(index) == IF index \in DOMAIN chunks THEN chunks[index] ELSE <<>>

\* SELECT data ... ORDER BY chunk_index, concatenated.
BytesBelow[index \in Nat] ==
  IF index = 0 THEN <<>> ELSE BytesBelow[index - 1] \o Data(index - 1)

GetAll == BytesBelow[Past]

\* Mutant: the bytes of a skipped chunk are not counted.
Visit_SkipUncounted(acc, data, offset) ==
  IF acc.at + Len(data) <= offset
  THEN acc
  ELSE [at |-> acc.at + Len(data),
        result |-> acc.result \o
          SubSeq(data, IF acc.at < offset THEN offset - acc.at + 1 ELSE 1, Len(data))]

\* Mutant: the chunk the offset falls into is returned whole.
Visit_WholeChunk(acc, data, offset) ==
  [at |-> acc.at + Len(data),
   result |-> IF acc.at + Len(data) <= offset THEN acc.result ELSE acc.result \o data]

\* A chunk before the offset is skipped, the one it falls into is cut.
Visit(acc, data, offset) ==
  [at |-> acc.at + Len(data),
   result |-> IF acc.at + Len(data) <= offset
              THEN acc.result
              ELSE acc.result \o
                SubSeq(data, IF acc.at < offset THEN offset - acc.at + 1 ELSE 1, Len(data))]

GetFromOffset(offset) ==
  LET Walk[index \in Nat] ==
        IF index = 0 THEN [at |-> 0, result |-> <<>>]
        ELSE Visit(Walk[index - 1], Data(index - 1), offset)
  IN Walk[Past].result

\* SELECT SUM(LENGTH(data))
SizeBelow[index \in Nat] ==
  IF index = 0 THEN 0 ELSE SizeBelow[index - 1] + Len(Data(index - 1))

TotalSize == SizeBelow[Past]

-----------------------------------------------------------------------------

AppendPC == {"max", "load", "update", "insert"}
SaverPC == AppendPC \cup {"none", "recv", "done", "dead"}
ClientPC == {"live", "idle", "fetched"}

Init ==
  /\ sent = <<>>
  /\ up = TRUE
  /\ row = TRUE
  /\ chunks = [i \in {} |-> <<>>]
  /\ saver = [pc |-> "none", next |-> 1, rest |-> <<>>, index |-> -1, last |-> <<>>]
  \* The receiver made with the channel, that create_session returns.
  /\ client = [pc |-> "live", next |-> 1, view |-> <<>>, fetched |-> <<>>, full |-> TRUE]
  /\ clean = TRUE

\* SessionHandler::data and extended_data: a message of n bytes.
Produce(n) ==
  /\ up
  /\ Produced + n <= MaxBytes
  /\ sent' = Append(sent, [k \in 1..n |-> Produced + k])
  /\ UNCHANGED <<up, row, chunks, saver, client, clean>>

\* The last sender is dropped: the SSH session and the ActiveSession are gone.
Hangup ==
  /\ up
  /\ up' = FALSE
  /\ UNCHANGED <<sent, row, chunks, saver, client, clean>>

-----------------------------------------------------------------------------
(***************************************************************************)
(* The scrollback task of create_session.                                  *)
(***************************************************************************)

\* The task subscribes after the shell was requested.
SaverSubscribe ==
  /\ saver.pc = "none"
  /\ saver' = [saver EXCEPT !.pc = "recv", !.next = End]
  /\ UNCHANGED <<sent, up, row, chunks, client, clean>>

SaverRecv ==
  /\ saver.pc = "recv"
  /\ CanReceive(saver.next)
  /\ saver' = [saver EXCEPT !.pc = "max", !.next = @ + 1, !.rest = sent[saver.next]]
  /\ UNCHANGED <<sent, up, row, chunks, client, clean>>

\* Mutant: the task breaks out of its loop when it has lagged.
SaverLagged_Break ==
  /\ saver.pc = "recv"
  /\ Lagged(saver.next)
  /\ saver' = [saver EXCEPT !.pc = "done"]
  /\ clean' = FALSE
  /\ UNCHANGED <<sent, up, row, chunks, client>>

\* RecvError::Lagged moves the receiver to the oldest message retained.
SaverLagged ==
  /\ saver.pc = "recv"
  /\ Lagged(saver.next)
  /\ saver' = [saver EXCEPT !.next = Oldest]
  /\ clean' = FALSE
  /\ UNCHANGED <<sent, up, row, chunks, client>>

SaverClosed ==
  /\ saver.pc = "recv"
  /\ Closed(saver.next)
  /\ saver' = [saver EXCEPT !.pc = "done"]
  /\ UNCHANGED <<sent, up, row, chunks, client, clean>>

(***************************************************************************)
(* ScrollbackChunk::append, one action per query.                          *)
(***************************************************************************)

AppendMax ==
  /\ saver.pc = "max"
  /\ saver' = [saver EXCEPT !.pc = IF MaxIndex >= 0 THEN "load" ELSE "insert",
                            !.index = MaxIndex]
  /\ UNCHANGED <<sent, up, row, chunks, client, clean>>

\* The last chunk may have been deleted since, or have no space left.
AppendLoad ==
  /\ saver.pc = "load"
  /\ IF saver.index \in DOMAIN chunks /\ Len(chunks[saver.index]) < ChunkSize
     THEN saver' = [saver EXCEPT !.pc = "update", !.last = chunks[saver.index]]
     ELSE saver' = [saver EXCEPT !.pc = "insert"]
  /\ UNCHANGED <<sent, up, row, chunks, client, clean>>

Smaller(m, n) == IF m <= n THEN m ELSE n

\* append returns once nothing remains, and inserts what does.
AfterWrite(index, rest) ==
  IF rest = <<>>
  THEN [saver EXCEPT !.pc = "recv", !.rest = <<>>, !.index = -1, !.last = <<>>]
  ELSE [saver EXCEPT !.pc = "insert", !.rest = rest, !.index = index, !.last = <<>>]

\* Mutant: `remaining` is not advanced past what the last chunk took.
AppendUpdate_NotAdvanced ==
  LET space == ChunkSize - Len(saver.last)
      taken == Smaller(space, Len(saver.rest))
      data == saver.last \o SubSeq(saver.rest, 1, taken)
  IN  /\ saver.pc = "update"
      /\ chunks' = [i \in DOMAIN chunks |-> IF i = saver.index THEN data ELSE chunks[i]]
      /\ saver' = AfterWrite(saver.index, saver.rest)
      /\ UNCHANGED <<sent, up, row, client, clean>>

\* Mutant: the new bytes overwrite the chunk.
AppendUpdate_Overwrite ==
  LET taken == Smaller(ChunkSize - Len(saver.last), Len(saver.rest))
      data == SubSeq(saver.rest, 1, taken)
      rest == SubSeq(saver.rest, taken + 1, Len(saver.rest))
  IN  /\ saver.pc = "update"
      /\ chunks' = [i \in DOMAIN chunks |-> IF i = saver.index THEN data ELSE chunks[i]]
      /\ saver' = AfterWrite(saver.index, rest)
      /\ UNCHANGED <<sent, up, row, client, clean>>

\* UPDATE ... SET data = new_data: writes back what AppendLoad read, extended,
\* and matches no row if the chunk was deleted in between.
AppendUpdate ==
  LET taken == Smaller(ChunkSize - Len(saver.last), Len(saver.rest))
      data == saver.last \o SubSeq(saver.rest, 1, taken)
      rest == SubSeq(saver.rest, taken + 1, Len(saver.rest))
  IN  /\ saver.pc = "update"
      /\ chunks' = [i \in DOMAIN chunks |-> IF i = saver.index THEN data ELSE chunks[i]]
      /\ saver' = AfterWrite(saver.index, rest)
      /\ UNCHANGED <<sent, up, row, client, clean>>

\* The foreign key to the session and UNIQUE(session_id, chunk_index).
CanInsert(index) == row /\ index \notin DOMAIN chunks

\* Mutant: `remaining` goes on past the whole message after one chunk.
AppendInsert_OneChunk ==
  LET index == saver.index + 1
      taken == Smaller(ChunkSize, Len(saver.rest))
  IN  /\ saver.pc = "insert"
      /\ CanInsert(index)
      /\ chunks' = [i \in DOMAIN chunks \cup {index} |->
                      IF i = index THEN SubSeq(saver.rest, 1, taken) ELSE chunks[i]]
      /\ saver' = AfterWrite(index, <<>>)
      /\ UNCHANGED <<sent, up, row, client, clean>>

\* Mutant: the message goes into one chunk whatever its length.
AppendInsert_Uncut ==
  LET index == saver.index + 1
  IN  /\ saver.pc = "insert"
      /\ CanInsert(index)
      /\ chunks' = [i \in DOMAIN chunks \cup {index} |->
                      IF i = index THEN saver.rest ELSE chunks[i]]
      /\ saver' = AfterWrite(index, <<>>)
      /\ UNCHANGED <<sent, up, row, client, clean>>

\* INSERT of the next chunk; `remaining` is not empty here.
AppendInsert ==
  LET index == saver.index + 1
      taken == Smaller(ChunkSize, Len(saver.rest))
      rest == SubSeq(saver.rest, taken + 1, Len(saver.rest))
  IN  /\ saver.pc = "insert"
      /\ CanInsert(index)
      /\ chunks' = [i \in DOMAIN chunks \cup {index} |->
                      IF i = index THEN SubSeq(saver.rest, 1, taken) ELSE chunks[i]]
      /\ saver' = AfterWrite(index, rest)
      /\ UNCHANGED <<sent, up, row, client, clean>>

\* append returns Err: the rest of the message is dropped, the task goes on.
GiveUp ==
  /\ saver' = AfterWrite(saver.index, <<>>)
  /\ clean' = FALSE
  /\ UNCHANGED <<sent, up, row, chunks, client>>

AppendRejected ==
  /\ saver.pc = "insert"
  /\ ~CanInsert(saver.index + 1)
  /\ GiveUp

\* The database fails any one of the queries.
AppendFails ==
  /\ saver.pc \in AppendPC
  /\ GiveUp

-----------------------------------------------------------------------------
(***************************************************************************)
(* The client.                                                             *)
(***************************************************************************)

\* create_session puts the session in the map after the task has subscribed;
\* there it can be until its last sender is dropped.
InMap == up /\ saver.pc # "none"

\* Terminal.Attach and attach_to_session: from now on, no history.
Attach ==
  /\ client.pc = "idle"
  /\ InMap
  /\ client' = [client EXCEPT !.pc = "live", !.next = End, !.view = <<>>, !.full = TRUE]
  /\ UNCHANGED <<sent, up, row, chunks, saver, clean>>

\* attach_with_recovery reads the scrollback: all of it for a client that
\* starts afresh, or from the number of bytes the client has seen.
RecoverRead ==
  /\ client.pc = "idle"
  /\ row
  /\ \/ client' = [client EXCEPT !.pc = "fetched", !.fetched = GetAll, !.view = <<>>,
                                 !.full = TRUE]
     \/ client' = [client EXCEPT !.pc = "fetched", !.full = FALSE,
                                 !.fetched = GetFromOffset(Len(client.view))]
  /\ UNCHANGED <<sent, up, row, chunks, saver, clean>>

\* ... and only then subscribes; (scrollback, receiver) go to the client.
RecoverSubscribe ==
  /\ client.pc = "fetched"
  /\ InMap
  /\ client' = [client EXCEPT !.pc = "live", !.next = End,
                              !.view = @ \o client.fetched, !.fetched = <<>>]
  /\ UNCHANGED <<sent, up, row, chunks, saver, clean>>

\* The session is not in the map, a query fails or the call is cancelled.
RecoverFails ==
  /\ client.pc = "fetched"
  /\ client' = [client EXCEPT !.pc = "idle", !.fetched = <<>>]
  /\ UNCHANGED <<sent, up, row, chunks, saver, clean>>

ClientRecv ==
  /\ client.pc = "live"
  /\ CanReceive(client.next)
  /\ client' = [client EXCEPT !.next = @ + 1, !.view = @ \o sent[client.next]]
  /\ UNCHANGED <<sent, up, row, chunks, saver, clean>>

ClientLagged ==
  /\ client.pc = "live"
  /\ Lagged(client.next)
  /\ client' = [client EXCEPT !.next = Oldest]
  /\ UNCHANGED <<sent, up, row, chunks, saver, clean>>

\* The receiver is dropped, by the client or because the channel closed.
Disconnect ==
  /\ client.pc = "live"
  /\ client' = [client EXCEPT !.pc = "idle", !.next = 1]
  /\ UNCHANGED <<sent, up, row, chunks, saver, clean>>

-----------------------------------------------------------------------------
(***************************************************************************)
(* The environment.                                                        *)
(***************************************************************************)

\* delete_for_session, or the cascade of a deletion of the session's row.
DeleteChunks ==
  /\ row' \in {row, FALSE}
  /\ chunks' = [i \in {} |-> <<>>]
  /\ clean' = FALSE
  /\ UNCHANGED <<sent, up, saver, client>>

\* The server stops: nothing but the rows is left.
Crash ==
  /\ saver.pc # "dead"
  /\ up' = FALSE
  /\ saver' = [AfterWrite(saver.index, <<>>) EXCEPT !.pc = "dead", !.next = 1]
  /\ client' = [client EXCEPT !.pc = "idle", !.next = 1, !.fetched = <<>>]
  /\ clean' = FALSE
  /\ UNCHANGED <<sent, row, chunks>>

SaverStep ==
  \/ SaverSubscribe \/ SaverRecv \/ SaverLagged \/ SaverClosed
  \/ AppendMax \/ AppendLoad \/ AppendUpdate \/ AppendInsert \/ AppendRejected

ClientStep ==
  \/ Attach \/ RecoverRead \/ RecoverSubscribe \/ RecoverFails
  \/ ClientRecv \/ ClientLagged \/ Disconnect

Next ==
  \/ \E n \in 1..MaxPacket : Produce(n)
  \/ Hangup \/ DeleteChunks \/ Crash
  \/ SaverStep \/ AppendFails \/ ClientStep

Spec == Init /\ [][Next]_vars

\* The runtime polls the scrollback task; nobody else owes anything.
FairSpec == Spec /\ WF_vars(SaverStep)

-----------------------------------------------------------------------------
(***************************************************************************)
(* Correctness.                                                            *)
(***************************************************************************)

Saver == [pc : SaverPC, next : Nat \ {0}, rest : Seq(Nat),
          index : Nat \cup {-1}, last : Seq(Nat)]
Client == [pc : ClientPC, next : Nat \ {0}, view : Seq(Nat), fetched : Seq(Nat),
           full : BOOLEAN]

\* Every variable has its type; chunk indexes are never negative.
TypeOK ==
  /\ sent \in Seq(Seq(Nat))
  /\ up \in BOOLEAN /\ row \in BOOLEAN /\ clean \in BOOLEAN
  /\ DOMAIN chunks \subseteq Nat /\ \A i \in DOMAIN chunks : chunks[i] \in Seq(Nat)
  /\ saver \in Saver
  /\ client \in Client

Increasing(s) == \A k, l \in 1..Len(s) : k < l => s[k] < s[l]
Before(s, t) == \A k \in 1..Len(s), l \in 1..Len(t) : s[k] < t[l]

\* The chunks hold bytes in the order in which the session put them out and
\* none twice, within a chunk and from chunk to chunk, although append reads
\* MAX, reads the last chunk, rewrites it and inserts in queries of their own
\* that can fail, lag and race a deletion.
PersistedInOrder ==
  \A i \in DOMAIN chunks :
    /\ Increasing(chunks[i])
    /\ \A j \in DOMAIN chunks : i < j => Before(chunks[i], chunks[j])

\* The chunks have consecutive indexes, none is empty or longer than
\* SCROLLBACK_CHUNK_SIZE (append subtracts the length from it, unsigned), and
\* all but the last are full - also after an append that stopped half way.
ChunksPacked ==
  \A i \in DOMAIN chunks :
    /\ Len(chunks[i]) \in 1..ChunkSize
    /\ \A j \in DOMAIN chunks : i < j => Len(chunks[i]) = ChunkSize /\ i + 1 \in DOMAIN chunks

\* A step keeps what is stored: unless the chunks are deleted altogether, each
\* stays where it is and at most grows at its end, and new ones follow it.
AppendOnly ==
  [][ \/ DOMAIN chunks' = {}
      \/ \A i \in DOMAIN chunks :
           /\ i \in DOMAIN chunks'
           /\ IsPrefix(chunks[i], chunks'[i])
           /\ \A j \in DOMAIN chunks' \ DOMAIN chunks : i < j ]_vars

\* The messages that the task has still to receive.
Waiting == saver.next..Len(sent)

\* The bytes that are stored, in the hands of append, or waiting.
Stored == UNION {ToSet(chunks[i]) : i \in DOMAIN chunks}
Held == Stored \cup ToSet(saver.rest) \cup UNION {ToSet(sent[p]) : p \in Waiting}

\* What is stored comes before what append holds, and both before what waits.
InTurn ==
  /\ Increasing(saver.rest)
  /\ \A i \in DOMAIN chunks : Before(chunks[i], saver.rest)
  /\ \A p \in Waiting :
       /\ Increasing(sent[p]) /\ Before(saver.rest, sent[p])
       /\ \A i \in DOMAIN chunks : Before(chunks[i], sent[p])
       /\ \A q \in Waiting : p < q => Before(sent[p], sent[q])

\* As long as no message was missed and no query lost, every byte from some
\* first one to the latest is in exactly one place and in its turn: stored, in
\* the hands of append, or waiting in the channel.
Conserved ==
  clean => /\ PersistedInOrder /\ InTurn
           /\ \E first \in 1..Produced + 1 : Held = first..Produced

\* A client that has seen the first n bytes and resumes from offset n sees
\* nothing again.
ResumedInOrder ==
  [][ client.pc = "fetched" /\ client'.pc = "live"
        /\ client.view = [k \in 1..Len(client.view) |-> k]
      => Increasing(client'.view) ]_vars

\* A client that started with the session, attached, or recovered the whole
\* scrollback sees bytes in order and none twice: the live stream never
\* repeats what the scrollback returned, whatever was stored meanwhile.  And
\* get_from_offset, which walks the chunks, returns the part of get_all from
\* that offset on, and total_size is the length of get_all, for any layout of
\* the chunks that append leaves behind and any offset.
RecoveryReads ==
  /\ client.pc = "live" /\ client.full => Increasing(client.view)
  /\ \A offset \in 0..MaxBytes + 1 :
       GetFromOffset(offset) = SubSeq(GetAll, offset + 1, Len(GetAll))
  /\ TotalSize = Len(GetAll)

\* The task catches up: again and again (as output is bounded here) it has
\* taken every message and stored or given up what it took, lags, rejected
\* inserts and a closing channel notwithstanding, unless the server stops.
SaverCatchesUp ==
  []<>(saver.pc = "dead" \/ (saver.pc \in {"recv", "done"} /\ saver.next = End))

(***************************************************************************)
(* What comments of the code say and the server does not do.               *)
(***************************************************************************)

\* "returns scrollback data + live stream": where no receiver ever lags and no
\* query is lost, a client that recovered the whole scrollback misses nothing
\* between the two.
RecoveryComplete ==
  clean /\ client.pc = "live" /\ client.full /\ client.view # <<>>
  => \A k \in 1..Len(client.view) - 1 : client.view[k + 1] = client.view[k] + 1

=============================================================================
