-------------------------- MODULE SessionLifecycle --------------------------
(***************************************************************************)
(* What the server promises about terminal sessions, with no table, map or *)
(* SSH connection in sight: an id is used once, a session belongs to one   *)
(* user, it goes from starting to live to ended and never back, and only   *)
(* its user ever watches it, never before it was live.                     *)
(***************************************************************************)
CONSTANTS Users, Sessions, None

VARIABLES
  phase,    \* how far each session has come
  holder,   \* the user a session was created for
  viewers   \* the users that hold a stream of the session

lvars == <<phase, holder, viewers>>

Phase == {"unused", "starting", "live", "ended"}

LInit ==
  /\ phase = [s \in Sessions |-> "unused"]
  /\ holder = [s \in Sessions |-> None]
  /\ viewers = [s \in Sessions |-> {}]

Begin(s, u) ==
  /\ phase[s] = "unused"
  /\ phase' = [phase EXCEPT ![s] = "starting"]
  /\ holder' = [holder EXCEPT ![s] = u]
  /\ UNCHANGED viewers

GoLive(s) ==
  /\ phase[s] = "starting"
  /\ phase' = [phase EXCEPT ![s] = "live"]
  /\ UNCHANGED <<holder, viewers>>

\* A stream may still be granted on a session that ended a moment ago.
View(s, u) ==
  /\ phase[s] \in {"live", "ended"}
  /\ holder[s] = u
  /\ viewers' = [viewers EXCEPT ![s] = @ \cup {u}]
  /\ UNCHANGED <<phase, holder>>

\* Sessions end - one, none, or all of them at once - and viewers leave.
EndAndLeave(ending) ==
  /\ \A s \in ending : phase[s] \in {"starting", "live"}
  /\ phase' = [s \in Sessions |-> IF s \in ending THEN "ended" ELSE phase[s]]
  /\ viewers' \in [Sessions -> SUBSET Users]
  /\ \A s \in Sessions : viewers'[s] \subseteq viewers[s]
  /\ UNCHANGED holder

LNext ==
  \/ \E s \in Sessions, u \in Users : Begin(s, u) \/ View(s, u)
  \/ \E s \in Sessions : GoLive(s)
  \/ \E ending \in SUBSET Sessions : EndAndLeave(ending)

LSpec == LInit /\ [][LNext]_lvars

=============================================================================
