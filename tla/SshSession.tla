----------------------------- MODULE SshSession -----------------------------
(***************************************************************************)
(* One SSH connection with the one channel a terminal session runs on: the *)
(* calls of SshClient and SshSession, which SessionManager makes in the    *)
(* same order on the russh handle and channel of an ActiveSession.  A call *)
(* returns once russh has taken it; what russh does with it when the       *)
(* connection is gone is a choice of the modules that use this one.        *)
(***************************************************************************)
EXTENDS Naturals

CONSTANT Window  \* messages the remote host takes before it has to read

ASSUME WindowAssumption == Window \in Nat \ {0}

VARIABLES
  link,   \* how far the connection has come
  window  \* messages the remote host takes now

Setup == <<"none", "connected", "authenticated", "opened", "pty">>
InSetup == \E i \in 1..5 : link = Setup[i]

SshInit ==
  /\ link = "none"
  /\ window = Window

Advance(from, to) ==
  /\ link = from
  /\ link' = to
  /\ UNCHANGED window

\* client::connect; check_server_key accepts every key.
Connect == Advance("none", "connected")

\* authenticate_password answered true.
Authenticate == Advance("connected", "authenticated")

OpenSession == Advance("authenticated", "opened")

\* Neither request asks for a reply.
RequestPty == Advance("opened", "pty")

RequestShell == Advance("pty", "shell")

\* SshSession::connect, one await after the other.
SetupStep == Connect \/ Authenticate \/ OpenSession \/ RequestPty \/ RequestShell

\* Some await returns Err, the password is refused, or the future is dropped:
\* the handle goes, and with it the connection.
SetupFails ==
  /\ InSetup
  /\ link' = "closed"
  /\ UNCHANGED window

\* Channel::data waits until the window of the host has room.
Data ==
  /\ link = "shell"
  /\ window > 0
  /\ window' = window - 1
  /\ UNCHANGED link

\* Channel::window_change is no data and waits for no window; whether it fails
\* makes no difference to anybody.
WindowChange ==
  /\ link \in {"shell", "closed"}
  /\ UNCHANGED <<link, window>>

\* Channel::close; an error of a channel that is gone is dropped.
CloseChannel ==
  /\ link' = "closed"
  /\ UNCHANGED window

\* The host reads what it was sent and opens its window again.
HostReads ==
  /\ link = "shell"
  /\ window < Window
  /\ window' = Window
  /\ UNCHANGED link

\* The shell exits, or three keepalives go unanswered.
PeerGone ==
  /\ link = "shell"
  /\ link' = "closed"
  /\ UNCHANGED window

=============================================================================
