# Hive Terminal in TLA+

Hive Terminal is a Flutter terminal client and a Rust server. The server keeps
SSH sessions open for its users, broadcasts their output to every attached
client and stores it in PostgreSQL; the client shows sessions in a tree of
split panes. This directory models the parts of it in which the order of steps
matters, checks them with TLC and proves the most important properties with
TLAPS. `PROJECT.json` lists every run, mutant, mapped definition, finding,
hazard and theorem in machine-readable form.

Contents: [the system](#the-system), [the modules](#the-modules),
[what the runs check](#what-the-runs-check),
[disagreements found](#disagreements-between-the-code-and-its-documentation),
[what is proved](#what-is-proved), [what is not modelled](#what-is-not-modelled),
[the plan](#the-plan).

## The system

| component | state | operations | hard because |
|---|---|---|---|
| `SessionManager` (`server/src/terminal/manager.rs`) | the map id -> `Arc<Mutex<ActiveSession>>` behind an `RwLock`; rows of `sessions` | `create_session`, `get_session`, `close_session`, `attach_to_session`, `attach_with_recovery`, `get_scrollback*` | three stores - table, map, SSH connection - change in separate steps of concurrent handlers that can fail or be cancelled at every `.await` |
| scrollback (`db/models.rs`, the task in `create_session`) | `scrollback_chunks` rows of at most 64 KB | `append`, `get_all`, `get_from_offset`, `total_size`, `delete_for_session` | `append` is four kinds of queries without a transaction; receivers lag; readers combine stored and live output |
| `SessionsService` (`api/sessions.rs`) | none of its own | List, Create, Close | Close changes the table only |
| `TerminalService` (`terminal/service.rs`) | two tasks and an mpsc channel per stream | Attach | a clone of the session outlives its removal from the map; full channels and a closed window are waited for, some with the session locked |
| `SshClient`, `SshSession` (`ssh/*.rs`) | a russh handle, a channel | connect, authenticate, open, request, send, resize, close | used by tests; `SessionManager` makes the same calls on russh itself |
| `ConnectionsService` (`api/connections.rs`) | `connections` rows | List, Create, Update, Delete | the owner is read in one query, the row changed in another; Delete cascades to the session rows under live sessions |
| `AuthService`, CLI (`api/auth.rs`, `cli/mod.rs`) | `users`, `api_keys` | ValidateApiKey; create, list, revoke | validation is three queries, making a key two; names of deleted users are taken again |
| `HiveTerminalView`, `HiveTerminalService` (Dart) | session, stream, subscription of a pane | connect, disconnect, dispose, send | asynchronous methods overlap |
| `HiveServerService`, `HiveClient`, `SettingsPage` (Dart) | the one gRPC client, the key, the user | load, connect, disconnect, set/clear key, validate | the client is replaced across awaits |
| `HiveConnectionsService` (Dart) | cached list of connections | load, create, update, delete | not used by the application |
| `WorkspaceManager`, `SplitView` (Dart) | list of workspaces, tree of panes | add, split, move, close, drag | trees are rebuilt under the views |
| `ConnectionRepository`, `SavedConnectionsPage` (Dart) | the list of saved connections in memory, in the preferences and on the page; credentials in the secure storage | load, save, delete, reorder | up to six writes per operation in two storages, with others in between |
| `UpdateService`, `FileLogger`, `SettingsManager` (Dart) | preferences, a file | check, skip; rotate; set | I/O |
| `mosh_client` (Dart and C++) | a native session behind an FFI handle | connect, poll, send, dispose | not yet used by the application |

How they interact. A pane of the client calls Sessions.Create, then
Terminal.Attach, over gRPC. Create checks the connection, inserts a row
`active`, builds the SSH channel, spawns the scrollback task and publishes the
`ActiveSession` in the map. russh calls `SessionHandler::data` for every packet
of output, which sends it on a `tokio::sync::broadcast` channel of 1024
messages; the scrollback task and every attached stream receive from it. A
stream's input task locks the session for every message it sends. Closing goes
two ways: the RPC updates the row, `SessionManager::close_session` (called by
the tests, not by an RPC) takes the session out of the map, closes the channel
and updates the row. A deleted connection takes its session rows along. A
restart empties the map and keeps the rows. Users and API keys are made by commands
of the same program (`hive-server user`, `hive-server key`), which run beside the
server on the same database; Auth and Connections serve the client from it.

On the client's side `HiveServerService` holds the one `HiveClient`; a
`HiveTerminalView` creates a session and attaches to it through that client.
`WorkspaceManager` keeps the trees of panes and `SplitView` shows them; a view
that is not in any tree of a frame is disposed, and disposing it closes its
session.

What makes each part correct: rows, map and streams agree about who owns a
session; a session ends once and for all; a close that succeeded is complete;
nobody waits for ever for a lock; stored output is in order, complete and never
changed; a client that recovers sees nothing twice and, as the documentation
promises, misses nothing; a pane gives back every session it created; the client
in place carries the key and the user that belong together, and no other channel
stays open; a terminal is in one place, where the user put it, and its view lives
as long as it does; the output of a stream arrives in order and what is missing is
counted, the input arrives whole; and a request on accounts or connections acts at
one moment, whatever else happens between its queries.

## The modules

Actions carry the names of the code. A handler is split into actions at the
`.await` points at which other handlers can change what it works on; a step
that only reads and then returns early is a stutter. Requests (handler futures)
are model values with a program counter.

| module | what it is |
|---|---|
| `SessionLifecycle` | abstract: a session id goes unused -> starting -> live -> ended, is held by one user, and only that user ever watches it |
| `SessionManager` | `SessionsService`, `ConnectionsService::delete`, `TerminalService::attach` and `SessionManager` over the table, the map and the SSH channels; implements `SessionLifecycle` |
| `SessionOutput` | output of one session: broadcast channel, scrollback task with `append` query by query, chunks, a client that attaches, leaves and recovers |
| `SessionLocks` | the `RwLock` of the map and the `Mutex` of each session as fair queues, with streams, calls and cancelled calls |
| `SshSession` | one SSH connection with its channel: the calls of `SshClient` and `SshSession`, the window of the host, the loss of the peer |
| `TerminalStream` | extends `SshSession` by the streams of a session: client, handler, input and output task, broadcast and mpsc channel, with `create_session` and `close_session` around them |
| `Registry` | abstract: a call on users, keys and connections takes effect in one step between its start and its answer |
| `Accounts` | the CLI, `AuthService` and `ConnectionsService` query by query; implements `Registry` |
| `HiveTerminalView` | `_connect`, `_disconnect` and `dispose` of one pane, overlapping, with the stream and the RPCs of `HiveTerminalService` |
| `HiveServer` | `HiveServerService`, `HiveClient` and the buttons of the settings page, with terminals that keep a channel busy |
| `ConnectionRepository` | the saved connections call by call over the preferences and the secure storage, with the page that shows them, failing storages and restarts |
| `SplitTree` | the tree of panes and the pure functions of `WorkspaceManager` on it |
| `Workspace` | `WorkspaceManager`, the connection chooser of `WorkspacePage`, drag and drop of `SplitView`, and which views are mounted; implements `PaneLists` |
| `PaneLists` | abstract: every workspace is a list of terminals, and an operation concerns one of them |
| `*_proofs` | theorems about the module they are named after; `Panes_proofs` about `HiveTerminalView`, `PaneLists` and `Workspace` |
| `MC*` | instances for TLC |

### SessionManager

`rows` is the `sessions` table (`HasRow` when there is a row; of a deleted row the
model remembers what it said), `sessions` the keys of the map, `active` the user
and connection stored in each `ActiveSession`, `ssh` the state of its channel.
`req[r]` is the future of request `r`: its operation and position, and its
arguments.

| code | actions |
|---|---|
| `SessionsService::create`, `create_session` | `CreateCheck` (both look-ups of the connection), `CreateInsert` (INSERT, with the foreign key), `CreateSsh` (connect ... shell, one step: nothing else is changed until the channel is there), `CreatePublish`, `CreateReply` |
| `SessionsService::close` | `CloseRpcCheck`, `CloseRpcUpdate` |
| `close_session` | `CloseRemove`, `CloseChannel`, `CloseUpdate`, `CloseReturn` |
| `TerminalService::attach` | `AttachLookup` (`get_session`), `AttachSubscribe`, then `InputEnds` and `OutputEnds` for its tasks |
| `attach_to_session`, `attach_with_recovery` | `ReattachCheck`, `ReattachSubscribe` |
| `ConnectionsService::delete` | `DeleteCheck`, `DeleteConnection` (with the cascade) |
| errors, cancelled calls | `Abort` at any position of a handler: what it owned is dropped, what it wrote stays |
| client, remote host, process | `ClientGone`, `SshDies`, `Restart` |

An `ActiveSession` lives while something owns it (`Owned`): the create handler,
the map, a handler or an input task that holds a clone of the `Arc`. When the
last owner goes, its channel closes (`DropUnowned`). `MapFree` is the write
guard `close_session` holds from the removal to its end.

### SessionOutput

The bytes of a session are numbered in the order of the SSH channel, so any
sequence of bytes shows loss, reordering and repetition. `sent` is everything
ever broadcast; a receiver is a position in it, `Lagged` when it is more than
`Capacity` behind. The scrollback task is `SaverSubscribe`, `SaverRecv`,
`SaverLagged`, `SaverClosed`, and the queries of `append`: `AppendMax`,
`AppendLoad`, `AppendUpdate`, `AppendInsert`; `AppendRejected` is an INSERT that breaks
the foreign key or the unique index, `AppendFails` a database error at any query.
`GetAll`, `GetFromOffset` and `TotalSize` are the read queries: recursive functions over
the chunk index, where `Data` is what the table has there and `Past` the first index
after the last chunk; `Visit` is the body of the loop of `get_from_offset`. The client starts with the receiver
of `create_session`, disconnects, attaches without history, or recovers
(`RecoverRead`, then `RecoverSubscribe`) from the start or from the number of
bytes it has seen. `DeleteChunks` and `Crash` are the environment. `clean` is a
history variable: no receiver of the task lagged, no query was lost.

### SessionLocks

tokio's `RwLock` and `Mutex` are fair: whoever asks is queued, and permits are
handed out in the order of the queue (`queue` for the map, `waiting[s]` for a
session). Readers may hold the map together, a writer alone. `get_session`
releases the map before the session is locked; `attach_to_session` keeps its
read guard and `close_session` its write guard while they wait for the session.
`Cancel` drops the future of a call wherever it waits, and takes it out of the queue
(nobody is in a queue twice), except for input tasks, which are spawned.

### SshSession and TerminalStream

`link` is how far the connection has come - the awaits of `SshSession::connect`, one
action each - and `window` how many packets the host takes before it reads again.
`SessionManager` makes these calls on its own russh handle and channel, in the same
order, so `TerminalStream` extends the module for the session it is about.

A stream `t` is `client[t]` (away, here, with its half closed, gone), `attach[t]` (the
handler), `input[t]` and `output[t]` (its tasks); `lock` is the mutex of the session.

| code | actions |
|---|---|
| `create_session`, `close_session` | `CreateSsh`, `CreateFails`, `CreatePublish`; `CloseRemove`, `CloseLock`, `CloseReturn` |
| `attach` until it answers | `AttachFirst` (the first message, whose payload nobody looks at, and `get_session`), `AttachSubscribe`; `AttachRefused`, `AttachDropped` |
| the output task | `OutputReceive`, `OutputLagged`, `OutputPush` (into the mpsc channel, when it has a place), `OutputEnds` |
| the input task | `InputNext`, `InputLock`, `InputPacket` (one packet, when the window has room), `InputResized` (a resize or a file), `InputFailed` and `InputReported` (the SSH_ERROR, with the session locked), `InputEnds` |
| `TerminalStream` of the client, gRPC | `ClientCalls`, `ClientTypes`, `ClientReads`, `ClientCloses`, `ClientLeaves` |
| russh and the remote host | `Output`, `HostStep`, `InputSwallowed` (a send into a channel that is gone) |

Messages of a client are their numbers; `Script` says how many packets each takes. The
output is numbered too; `next` is where a receiver is in it, `outbox` the mpsc channel,
`got` what the client has read, `host` what the shell was given. `taken` and `typed` count
the messages taken by the server and sent by the client. The order of locks, cancelled
calls and several sessions are in `SessionLocks`; here a lock is free or taken, and the
fairness says that it is handed out in order.

### Registry and Accounts

`state` says of every user, key and connection whether its row is new, there or gone,
`owner` and `data` what the row says, `used` which keys have a `last_used_at`. `req[r]` is
an activation of a command or an RPC: its call, the query it has come to, what it found,
and its reply. One action is one query with the code up to the next one: `KeyFindUser`
then `KeyInsert` or `KeyList`; `ValidateKey`, `ValidateUser`, `ValidateStamp`; `ConnFind`
then `ConnUpdate` or `ConnDelete`; one query for the rest. `Fails` is an error of a query,
a cancelled call or the end of the process, between any two queries. `DeleteUser` is SQL by
hand - no command deletes a user - with the cascades of the schema. `NameOf` gives several
user ids one name, so that a name can change hands.

`Registry` knows calls and their effects, not queries. `Called` is the refinement mapping:
a validation takes effect where it finds the key, every other call with its last query;
in particular a key created for a name belongs to a user that has the name when the key
appears, because the foreign key refuses the INSERT when that user is gone.

### HiveTerminalView

`session`, `stream` and `sub` are the fields of the State object, `server`, `input`
and `events` what is behind them: whether a session is open at the server, whether
its input may still be sent to, whether its events are listened to. A call is a
record with its position; `Cancel`, `AfterCancel`, `AfterClose`, `CloseReply` are
the pieces of `_disconnect` between its awaits, `CreateFails`, `AttachFails` and
`CreateReply` the answers to `createSession`. Dart runs continuations of completed
futures before the next event, which is what `Turn` and `pending` say: a call that
waits for nothing outside the isolate goes on before anything else happens.
`lost` are the sessions of which an RPC failed, so that the client cannot know
them; `calm` is a history variable: no `_connect` ran into another call, and no
`dispose` into a creation.
`ViewInit`, `ViewSpec`, `ViewTypeOK` and `NoSession`, for null, are named apart from those
of `Workspace`: `Panes_proofs` extends both.

### HiveServer

`clients` are the `HiveClient` objects in the order of their creation, `current` the
one in place. `TapConnect`, `ConfigSaved`, `KeyWritten`, `Connect`, `KeyRead`,
`KeyAccepted`/`KeyRejected`/`ValidateFails` follow `_toggleConnection` and `connect`;
`BeginDisconnect` and `ShutdownDone` are the two halves of `disconnect`, around the
await of `shutdown`. The first shutdown of a channel waits for what is under way on
it - an answer to `validateApiKey`, and the streams of terminals, which may last as
long as the user likes - a second one returns at once; both then clear `_client`.
The button is disabled while its own connect runs (`busy`), but the page can be left
and opened again (`Leave`), and a disconnect disables nothing, so calls overlap.
Host and port are not told apart: every connect sets them first. `overlapped` is a
history variable: a disconnect began while another one was waiting.

### ConnectionRepository

`connections` is the list in memory, `shown` the one the page was last built with, `dialog`
the connection of the dialog in front of it; `list` and `order` are in the preferences,
`vault` in the secure storage. What an operation still has to do is in the call it waits for:
`prefsCalls` and `vaultCalls` hold the calls of each storage, which answers them in order
(on macOS the secure storage is the preferences, which is a special case). `save`, `delete`,
`reorder` and `Start` are the parts up to the first call; `ListWritten`, `OrderWritten`,
`SaveAnswered`, `DeleteAnswered` and `LoadAnswered` an answer with what follows it up to the
next call; `PrefsThrow`, `SaveThrows`, `DeleteThrows`, `LoadThrows` and `StartThrows` the
exceptions, which end a save or a reorder and are caught everywhere else. The list is
encoded when its write is called, the order when the list is written. `Restart` is the end
of the application at any moment, whatever is under way. What `toJson` keeps of the
credentials is left out: load takes them from the secure storage. An entry that cannot be
decoded is left out too; the program writes none. `wanted` (what the user saved last) and
`unsure` (ids whose last operation was cut short by a failure or a restart, or whose
credentials could not be read) are history variables.

### SplitTree and Workspace

`SplitTree` has the functions as operators: `InsertNode` is `_insertNode` and
`_splitNode`, `RemoveNode` is `_removeNode` with `Collapse` for its containers of one
child, `FilterNode` what `SplitView` shows during a drag. What the code computes by
recursion on a node is a recursive function of the levels of containers below it:
`Nodes[d]` are the nodes with at most `d` of them, and `insert[d]` calls `insert[d - 1]` on
the children. `Node` is `Nodes[MaxDepth]`; an operation that would make a deeper tree is
not a step (`Replace`). `Parts` are the nodes of a tree, `Leaves` its terminals in
order. Ratios are left out.

`Workspace` has one tree per workspace. `Show` is what a `setState` does to the views:
`shown` are the terminals whose view is mounted in the next frame, `disposed` those
that lost it although they are still open. The dragged terminal is filtered out of
its tree (`DragStart`), dropped on a zone of another (`Drop`) or released elsewhere
(`Release`); `AfterDrag` says whether `onDragEnd` is called, which takes a
`Draggable` that is still mounted. The chooser is a sheet, then a dialog, with a
request that awaits them (`ShowConnectionChooser`, `PickSaved`, `PickNew`,
`DialogConfirm`, `DialogConfirmFavorite`, `Dismiss`); a favourite is saved before
its terminal opens (`SaveDone`, `SaveFails`), and the trees may change meanwhile.

## What the runs check

Every property of a passing run has a mutant in `PROJECT.json`: a plausible bug
in one mapped definition that makes TLC find the property violated.

### session_manager

Two users with one connection each, two session ids, three concurrent handlers
(symmetric in sessions and handlers), unlimited calls. Two sessions are enough
for a handler to confuse them, three handlers for a create, a close and an
attach, or two closes and a delete, of the same session at once. About 570,000
distinct states.

- `TypeOK`.
- `Ownership`: rows, live sessions and every stream belong to the owner of the
  connection, whichever copy of the user the handler compared and whatever
  Delete, Close and Restart did in between.
- `LiveSessionHasRow`: the only way in which a live session can lose its row is
  the deletion of its connection.
- `CloseEffective`: when `close_session` returns for a session it found, it is out
  of the map, its channel is closed, no row calls it active, and no create,
  attach or delete still on its way changes that.
- `ImplementsLifecycle`: refinement of `SessionLifecycle`. It says among other
  things that a session never comes back after it left the map, and that a user
  never watches a session of another, nor one that was never live.

### session_output

Chunks of 2 bytes, a channel of 2 messages, messages of up to 3 bytes, at most 5
bytes: messages longer than a chunk, chunks filled exactly and half, lagging of
one and several messages. About 900,000 distinct states. The system may stop
(everything was output, the task is dead), so deadlock is not checked.

- `PersistedInOrder`, `ChunksPacked`, `AppendOnly`: what is stored is in order and
  never twice; chunks are consecutive, never empty, never longer than the chunk
  size (the code subtracts unsigned), all but the last full; a stored byte never
  moves or changes.
- `Conserved`: with nothing lost (`clean`), the bytes in the chunks, in the hands of
  `append` and in the messages waiting in the channel are together all bytes from some
  byte on - the first after the subscription, or after a deletion - to the last, each
  place in turn before the next (`InTurn`).
- `ResumedInOrder`: a client that recovered from the offset it had seen sees nothing
  twice and nothing out of order.
- `RecoveryReads`: a client that recovered whole sees everything once and in order, and
  `get_from_offset` for any offset is the rest of `get_all`, `total_size` its length,
  for every layout of chunks `append` produces.
- `SaverCatchesUp`: under weak fairness of the scrollback task alone, it has
  again and again taken every message, unless the server stopped. The runtime
  polls a task that is ready; clients, the remote host and failures get no
  fairness. Output is bounded, which is what lets the task catch up at all.

### session_locks

Three tasks, two sessions: a stream that sends, a close that waits for it with
the map locked and a reader queued behind the close; both sessions are needed
for a call about one to be blocked by the other. Deadlock is checked.

- `OneOnChannel`: the sends of all streams and the close of a session exclude
  each other, although the streams have left the map behind.
- `ReattachFindsSession`: no close comes between the look-up and the subscription of
  `attach_to_session`.
- `EveryoneServed`: everybody who waits for a lock gets it, or is cancelled, so no
  dropped future leaves a guard or a place in a queue behind.
  Fairness: a task that was granted a permit is polled, and a send, a resize
  and the close of a channel return. The latter is an assumption about the
  remote host: russh waits for its window. If it stops reading while a stream
  sends, `close_session` waits for that stream with the whole map locked and
  every other session is blocked with it; the run stream_progress is about this.

### terminal_stream

Two streams of one session, channels of one place and a window of one packet. The client
of the first sends a message of one packet and one of two, and may leave; the second
sends two packets and a resize, and stays. Two pieces of output are enough for a receiver
to lag behind a channel of one, and for the mpsc channel to be full when the task pushes.
About 1,280,000 states. Everything is bounded, so the system stops and deadlock is not
checked.

- `TypeOK`, which includes that no mpsc channel holds more than it has places for.
- `OutputConserved`: what a client was given, what waits for it and what the output task
  has in its hands are in order and never twice; together with what came before the
  subscription and what `Lagged` reported they are all the output the stream has come to.
  A stream that ended under a client that reads has come to the last piece.
- `InputWhole`: no message is torn by packets of another stream, and while the channel is
  open the shell has every packet of every message but the first, in the order of its
  client, except what the input task has in its hands.

### stream_progress

`StreamsGetOn` with both clients free to leave, each with two short messages, and one piece
of output; about 154,000 states under `FairSpec`. It says that no input task, no handler and
no `close_session` waits for the session for ever, that a client which left lets go of the
session, and that a stream whose session nobody holds ends.

Fairness: the runtime polls whoever can go on, which is weak fairness of each handler and
task. tokio hands out a mutex, and the places of an mpsc channel, in the order in which
they were asked for, and the tasks of a stream wait for one of them at a time, which is
strong fairness of those steps, per stream. A send that waits for the window of a channel
that is gone is owed nothing. Clients, the host and failures are not fair.

The property assumes `EverybodyReads`: the mpsc channel of a client has a free place again
and again, or the client is gone; and so has the window of the host. Without it the
property does not hold, and that is the hazard at `service.rs:116` and `118`: one client
that stops reading, or one host, keeps the session locked, `close_session` waits for it
with the map locked, and every other session waits behind the map.

### accounts

Three users, of which two may have the same name one after the other; one key, one
connection with one of two contents or a malformed one; two requests at a time and as many
one after the other as there are ids for. Two requests are enough for one to come between
the queries of the other, and `DeleteUser` comes between both. Symmetric in what no call
tells apart; about 860,000 states. Requests can always be made, so deadlock is checked.

- `TypeOK`, which includes the constraints of the schema: names are unique, and no key or
  connection outlives its user.
- `ImplementsRegistry`: every request acts at one moment between its start and its answer,
  and answers what was true then: a key is accepted only if it was there when it was asked
  about, only its owner changes a connection, and nothing deleted comes back.
- `AnswersHold`: an accepted key that is still there is stamped; a key made for a name
  belongs, while it is there, to the user that has the name now; and a connection its owner
  was told is deleted is gone.

### terminal_view

Three calls, two sessions: enough for a connect that overtakes another one and a
dispose behind both. The pane may stop, so deadlock is not checked.

- `NothingOrphaned`, `FieldsAgree`: as long as `calm`, a session is in `_session` or
  closed, and session, stream, subscription and what is open agree - when RPCs fail,
  streams end at any moment and a dispose meets a disconnect.
- `ClosedInOrder`: the server is told to close a session after its stream is closed
  and nobody listens to it.
- `ViewSettles` (`DisposeReleases` and `ConnectSettles`): a disposed view gives everything back and no
  view stays `connecting`. Fairness: the event loop runs what is ready and RPCs
  return, if with an error.

`calm` excludes exactly the two overlaps that `OneConnection` and the list of
other findings describe; everything else may happen.

### hive_server

Two calls, two clients, two keys of two users; about 160,000 states. Two calls
overlap in every pair of kinds, and both keys and both clients are needed to mix
them up. (Three calls with the same bounds pass as well, in 1.7 million states and
some minutes; the theorems hold for any number.) Clients run out, so the system
may stop and deadlock is not checked.

- `ChannelsOwned`: no channel stays open but the one in place, unless two disconnects
  overlapped.
- `SettledAgree`: when nothing is under way, a client with a key has the user of that
  key, the page shows that user, and a key that was refused or could not be checked
  leaves nobody connected.
- `ButtonReturns`: the Connect button comes back, unless a terminal keeps the channel
  that connect closes. Fairness: storage and server answer, possibly with an error;
  terminals need not end.

### workspaces

Up to four terminals and two workspaces, cut by the constraint `Bounds` of
`MCWorkspace` to: two terminals with everything; three while nothing but splits is
saved; four in one workspace with nothing being saved. Four terminals make three
levels of containers, which is where collapsing and inserting differ, and never more, so
that `MaxDepth = 3` excludes nothing; about 80,000 states. The user may stop, so deadlock
is not checked.

- `ImplementsLists`: refinement of `PaneLists`: whatever becomes of the containers, an
  operation concerns one terminal and leaves the others in order. Proved as well
  (`WorkspaceImplementsLists`), so that what is proved of the lists - a terminal is in one
  place of one workspace (`OncePlacedHolds`) - is so of the trees.
- `NoIdleContainers`: every container separates something.
- `DropsKeepLayout`, in two parts. `PlacedBeside`: a dropped terminal is directly beside its
  target, on the side and in the direction of the zone. `LayoutKept`: no step turns the split
  between two terminals it is not about. Proved as well (`DropsKeepLayoutHolds`).
- `ViewsKept`: a terminal nobody dragged keeps its view, hence its session.

### connections

Two connections with two versions of their fields and two credentials each, two operations
under way, four operations and two failures or restarts in all; ids and versions are
symmetric; 4.6 million states in a minute and a half. (Three operations under way with one
failure pass too, in 5.2 million states.) Two credentials are enough for an operation to be
cut between them; four operations are two connections, one of them deleted or edited, and a
drag. `Haste` is empty: the user begins nothing before the load is over, and drags only on
a page that shows the list as it is. The bounds stop the system, so deadlock is not checked.

- `TypeOK`: among other things that no list has a connection twice.
- `ConnectionsKept`, in two parts. `Durable`: whatever else is under way, was cut short or
  failed, a connection whose own last save or delete was answered to its end is found by the
  next load as it was saved, with its own credentials, or is not found. `Settled`: when
  nothing is under way and nothing failed, page, memory and what the next load would find
  are the same connections in the same order.

## Disagreements between the code and its documentation

Each has a run of its own that is expected to be violated, on an instance small
enough to read the trace.

- recovery_gap, `RecoveryComplete`: `attach_with_recovery` queries the scrollback
  before it subscribes and loses what comes in between, even when nothing lags
  and no query fails.
- first_input, `SentIsDelivered`: `attach` takes the first message of a stream for the
  name of the session and drops its payload, and it answers, and subscribes, only when
  that message has come. The view sends nothing when it attaches, so no prompt appears
  before the first key is pressed, and that key is lost.

Seven more are stated in their modules and violated; TLC shows them when it is given the
definition and the MC module named with it:

- `ClosedRowsAreGone` (`SessionManager`, `MCSessionManager` with one session and one
  request): the RPC the client calls to "Close a terminal session"
  (`hive_terminal_service.dart:43`) updates the row only (`sessions.rs:138`); the session
  stays live and attachable, and no RPC can close it.
- `ClosedStreamsEnd` (`SessionManager`; `MCSessionManager` under `FairSpec`, with one
  session, two requests and no symmetry): the plan and the
  client expect to be told when a session ended; the stream does not end while the client
  keeps its half open, because the input task itself keeps the broadcast channel alive
  (`service.rs:105`).
- `OneConnection` (`HiveTerminalView`, `MCHiveTerminalView`): `_connect` begins with
  "Disconnect any existing connection first", but a second tap while that disconnect waits
  for its RPC starts a second `_connect`, and the pane listens to two sessions, one of
  which nobody can close any more.
- `DroppedIsShown` (`Workspace`, `MCWorkspace`): the dragged terminal is filtered out of the
  tree together with the `Draggable` that would report the end of the drag; `_draggingId`
  stays set and the dropped terminal stays invisible.
- `LoadsAll` (`ConnectionRepository`, `MCConnectionRepository` with `Haste = {"load"}` and one
  restart): "Load all saved connections" ends by assigning the list it read at its beginning
  (`connection_repository.dart:73`), and nobody waits for it (`workspace_page.dart:41`). A
  connection saved meanwhile goes into the empty list, which its save writes over the stored
  one; then the load drops it from memory. Each of the connections is gone after a restart
  or after the next save.
- `DragLosesNone` (the same with `Haste = {"page"}` and no failures): a delete leaves the list
  at once and the page only after its last write; a drag in between takes places of the
  longer list (`connection_repository.dart:113`), moves another connection, or throws in
  `insert` after `removeAt`, and the delete persists the list without it.
- `ChoiceOpens` (`Workspace`, `MCWorkspace`): a connection entered under "New Connection"
  opens no terminal, because the sheet has already completed the chooser with null.

Other things the models show and that no run is spent on: a failed or cancelled
create and a restart leave rows `active` that stand for nothing (`manager.rs:121`);
the scrollback begins later than the output a client sees, so a byte count of the
client is not an offset into it (`manager.rs:179`); a view disposed during a
creation leaves the session and its stream open (`hive_terminal_view.dart:158`); a
terminal that is dragged loses its view, hence its session (`split_view.dart:41`);
two taps on Disconnect, with a terminal open, leave a shutdown behind that drops the
client of a later connect without closing it (`hive_server_service.dart:279`);
`removeWorkspace` of a workspace before the current one makes the next one current
(`workspace_manager.dart:96`).

## What is proved

The theorems hold for every value of the constants, under the named assumptions
of the modules (`OwnerAssumption`: every connection has an owner; `NoneAssumption`:
`None` is nothing else; chunk size and channel capacity are positive).

`SessionManager_proofs`: the inductive invariant adds to the four checked
invariants what each handler knows about its session at each position - that the
row was inserted for the user and connection in the request, that the session of
a create that has not published is in nobody's hands, that two creates never
hold the same id, that a close in progress has taken the session out of the map
and its id is past publication. `Inductive` is the invariance, with one lemma
per action. From it follow `TypeCorrect`, `OwnershipHolds`,
`LiveSessionHasRowHolds`, `CloseEffectiveHolds` and, action by action,
`Refinement`: every step of the server maps to a step of `SessionLifecycle` or
a stutter.

`SessionOutput_proofs`: `PersistedInOrder` is not inductive; one needs that
every byte in the chunks, then `rest` in `append`, then the messages at or after the
task's position are increasing, that `last` and `index` held between two queries
are the last chunk unless it was deleted, and that messages are numbered
consecutively. From it follow `PersistedInOrderHolds`, `ChunksPackedHolds` and
the action property `AppendOnlyHolds`.

`ConservedHolds` needs two more invariants: `SaverPlace`, that the task is never ahead of
the channel and holds nothing between two messages, and `Kept`, that while `clean` the
chunk found by a query is still there, so that a write moves bytes from `rest` to the
table and every other step leaves the set of bytes held as it is or adds the new ones.
`RecoveryReadsHolds` and `ResumedInOrderHolds` are about the client. `NoZero` (bytes are
numbered from one) and the order of the table give that the byte at place k is at least k
(`Climb`), hence that what `get_from_offset` returns comes after what a client has
seen that has seen as many bytes as the offset says (`FromOffset`); `ClientKnows` keeps
this from the read to the subscription. That the read queries agree with each other for every
table is a fact about recursive functions over the index. It is proved by induction over the
natural numbers in the form of sets: a set with 0 and the successor of each of its
elements is `Nat` (`Induction`, from `NatLessThanWellFounded`), and a function given by
a start and a step exists and is unique (`Recursion`).

`SessionLocks_proofs`: guards are held exactly where the program counters say
(`GuardsHeldAlways`), from which mutual exclusion (`OneOnChannelHolds`) and
`ReattachFindsSessionHolds` follow. `TypeCorrect` needs that a queue without the task that
was cancelled is a queue (`RemoveFirstType`), for which a set of numbers has a
least element.

`TerminalStream_proofs`: `IInv` is `TypeOK` with what is true at each position of a
handler and a task (`Phases`), and who holds the lock (`LockHeld`): an input task from the
moment it has it until its message is sent or its error reported, so that one task at most is
between two packets. For the output, `Received` says how far the receivers are and
`Placed` that what the client has, what is in the mpsc channel and what the task is
pushing are, in this order and without the SSH_ERRORs, what was received; a
step moves a piece from one of the three to the next (`RegroupPairs`), an SSH_ERROR comes
between them without disturbing the others (`ErrorApart`). For the input, `Taken`
and `Latest` say which packets the shell can have been given at all and that those of a
message under way are the last of its stream, `Arrived` that packets come whole and in order,
`Counted` how many of each message there are. `TypeCorrect`, `OutputConservedHolds`
and `InputWholeHolds` follow, from the assumptions `TerminalStream` and `SshSession` make on
scripts, names and bounds.

`Panes_proofs`, on `HiveTerminalView`: `FieldsAgree` is not inductive, because what a call finds
when it goes on depends on how far it came. `Settled` adds, while `calm`, that what
a call has cleared stays clear until it creates a session, and that nobody overtakes
a creation. `NothingOrphanedHolds`, `FieldsAgreeHolds` and `ClosedInOrderHolds` follow.

`HiveServer_proofs`: `SettledAgree` speaks only of states in which nothing is under
way. The invariant says what holds before: unless overtaken, all calls that wait for
a channel wait for the one in place and one of them at most closes it (`OneClient`);
the client's key, the stored key and the key the server is asked about are in step
(`InStep`); a client whose user is not known yet is still being asked about or closed
(`KnownOrAsked`). `ClientUsableHolds`, `ChannelsOwnedHolds` and `SettledAgreeHolds`
follow, from `KeyUserAssumption`, `ClientsAssumption` and `NoneAssumption`.

`Accounts_proofs`: neither part of `AnswersHold` is inductive. `IInv` adds to `TypeOK`
what a request knows at each of its queries (`Knows`): the row it names is not a new
one, a user it found has the name it asked for, a connection it found has the owner
who asks, and what it answered holds. All this survives the steps of the others
because rows are deleted but never come back, owners do not change and a stamp stays
(`Evolves`, `KnowsPersists`). One lemma per query; `TypeCorrect` and
`AnswersHoldHolds` follow, from `RowsAssumption` and
`NoneAssumption`. On the same invariant `Refinement`: the initial states of `Accounts` are
initial states of `Registry`, and each query is a call, an effect, an answer or nothing
there, one mapping lemma per query. `Knows` is what makes an effect possible when the last
query of a request comes: a user found before has the name still or is gone, and then the
foreign key refuses the INSERT.

`ConnectionRepository_proofs`: `TypeCorrect` holds whatever the user waits for. `Shape`
says of every call that waits what it carries, that there is one load at most and that
a load has not yet read what it has still to read; `Sorted` is a permutation because
the ranks of a list are all different (`Ranks`).

`ConnectionsKeptHolds` is for `Haste = {}`, a user who waits for the load and for the
page: without the first TLC finds `LoadsAll` violated and without the second
`DragLosesNone` (above). Neither `Durable` nor `Settled` is inductive: both speak of
states in which nothing is under way. `Consistent` follows an operation id by id through
the two storages. Unless `unsure`, a connection is in memory as it was saved last
(`InMemory`); the stored list says so, and so does every list that waits to be written,
but for ids whose own list is still behind it or which are to be deleted (`InLists`); the
last save of it carries its credentials and waits to write the list, then the order, then
is the last to write each of the credentials it has still to write, or they are all
written (`InVault`). A load goes through the stored list alone (`InLoad`), so what a user
who waits does meets a loaded list (`Loaded`). For `Settled`, the last order to be written
is that of the list in memory (`InOrder`), and what is sorted by its own order comes back
as it was (`SortedBack`). `Quiet` and `Found` turn this into what the next load finds. One
lemma per action, and one per way in which a queue of calls changes.

`Panes_proofs`, on `PaneLists`: `OncePlacedHolds`, for any number of workspaces and
terminals.

`Panes_proofs`, on `Workspace`, for any number of terminals and workspaces and any
`MaxDepth`, from `NodeAssumption` (null and containers are no ids) and
`MaxWorkspacesAssumption` (there is a workspace). All recursive functions of `SplitTree` are
cases of one `Step`, so that they exist by one lemma (`Recursion`) and are unfolded by one lemma
each (`NodesSolved` and its like). By
induction over the levels (`Induction`): a tree of one depth is a tree of every greater one
with the same parts (`NodesGrow`, `PartsGrow`); what `InsertNode` returns is a tree one level
deeper at most, with the new pane and no other besides those there were, and without an
idle container if there was none (`Inserted`, `InsertFacts`); what `RemoveNode` returns is
nothing or such a tree, with all panes but the target at most (`Removed`, `RemoveFacts`).
`TypeOK` and `NoIdleContainers` are not inductive. `Whole` adds that the panes of all trees
have been opened, that `disposed` and the pane a view drags are among those dragged so
far, and that the sheet has a request. `WorkspaceTypeCorrect`,
`NoIdleContainersHolds` and `ViewsKeptHolds` follow.

`WorkspaceImplementsLists` is about the leaves in their order. What `FlattenSeq` returns is
followed piece by piece (`Run`); from it: one more item in one piece is one more item in the
whole (`Put`), and pieces that are empty, or an item of their own, do not matter. By induction
over the levels, `Leaves` after `InsertNode` is the list before it with the new pane put
somewhere, where the target is in the tree, and the same list where it is not
(`InsertLeaves`); after `RemoveNode` it is the list without the target (`RemoveLeaves`). Both need that
no pane is in a tree twice, which, with the pane that is dragged being in the current tree, is
`Placed`, the invariant this proof adds to `Whole`. Every step then maps to one of `PaneLists`, a drop
to `Move`, or to a stutter.

`DropsKeepLayoutHolds` is about the containers. `PlacedBeside`: at every level, what
`InsertNode` makes of a tree with the target has a container of the direction asked for with the
new terminal directly beside it (`InsertZone`), and `RemoveNode` leaves the target of a drop in the tree.
`LayoutKept`: two terminals of a tree are in different children of some container, and of
one only, if no terminal is in the tree twice (`Divided`). An insertion gives every child a place in the new
container with all that is in it (`InsertWayLevels`); a removal does so with every child of which
something is left (`RemoveWayLevels`), and the container stays because two different children
are left, which is where a terminal in both of them would break the argument; so the direction
between two terminals that stay is one that the new tree has between
them (`Keeps`), hence the only one (`SameWay`). When a workspace is removed the next takes its
place in the list, so that trees of different workspaces are compared: these have nothing
in common (`Apart`). `WorkspaceApart` is the invariance of `Placed` and `Apart`, which TLC
confirms on the instance of the `workspaces` run.

Only model-checked: the
liveness properties (TLAPS proves none here), and what the runs that expect a violation
are about.
`ClientUsable` of `HiveServer` is proved and not in a run: it says that a client in place
has a channel.

## What is not modelled

- Contents of messages, terminal sizes, wording and logging. Resize and file
  messages are sends like any other as far as locks go; a file is only logged.
- `Session::find_by_id` and Sessions.List: they change nothing.
- `ApiKey::revoke_by_id`, `SshClient::disconnect`, `SshSession::into_channel`,
  `clearServerConfig`, `clearUserId`: nothing calls them.
- Collisions of random ids, keys and hashes. `ssh_keys` and `uploads`, which no code fills.
- Ratios of the panes, which are fractions of pixels.
- `HiveConnectionsService` and `mosh_client`: the application does not use them.
- `UpdateService`, `FileLogger`, `SettingsManager`: downloads, a log file, one string in the
  preferences.
- Widgets, layout, generated code, configuration, native shells.

## The plan

Done, in this order: `SessionLifecycle` and `SessionManager` with proofs and
refinement; `SessionOutput` with proofs; `SessionLocks` with proofs;
`HiveTerminalView` with proofs; `SplitTree`, `PaneLists` (with proofs) and `Workspace`;
`HiveServer` with proofs; `SshSession` and `TerminalStream`; `Registry` and `Accounts`
with proofs; `ConnectionRepository`.

Then, with proofs: `TypeOK`, `Conserved`, `RecoveryReads` and `ResumedInOrder` of
`SessionOutput`; `TypeOK` of `SessionLocks`; all invariants of `TerminalStream`; that
`Accounts` implements `Registry`; both invariants of `ConnectionRepository`, for which
`Sorted` was restated by the rank of each connection; and the invariants of `Workspace`, for
which the functions of `SplitTree` were restated level by level; that `Workspace` implements
`PaneLists`, and `DropsKeepLayout`.

Next: what `ConnectionsKept` becomes for a user in haste: `Durable` for the connections a load
has not overwritten and a drag has not lost, with `Haste` left open.
