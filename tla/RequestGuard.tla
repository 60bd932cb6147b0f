----------------------------- MODULE RequestGuard -----------------------------
(***************************************************************************)
(* backend/server/execution/request-guard.ts: one execution of a session   *)
(* at a time in a process, runs a cooldown apart, and the entry of a       *)
(* session removed by a timer when it is over.                             *)
(*                                                                         *)
(* Entries are never shared or replaced while in use, so an entry is its   *)
(* place in the map.  A timer may fire late, and by a tick early.          *)
(***************************************************************************)
EXTENDS Integers

CONSTANTS Session, Cooldown, None

\* SessionGuardState
GuardEntry == [active : BOOLEAN, lastRun : Nat \cup {None}, timer : Nat \cup {None}]

ASSUME GuardAssumption ==
  Cooldown \in Nat \ {0} /\ None \notin Nat /\ None \notin GuardEntry

VARIABLE guard   \* the entry of a session; None when there is none

Fresh == [active |-> FALSE, lastRun |-> None, timer |-> None]
Entry(s) == IF guard[s] = None THEN Fresh ELSE guard[s]

GuardInit == guard = [s \in Session |-> None]

\* execute, at time t.  A definition with a suffix is a mistake the code could
\* have made in place of the one it precedes.
MayStart_Kept(s, kind, t) ==
  /\ kind = "run" /\ Entry(s).lastRun # None => t - Entry(s).lastRun >= Cooldown
MayStart(s, kind, t) ==
  /\ ~Entry(s).active
  /\ kind = "run" /\ Entry(s).lastRun # None => t - Entry(s).lastRun >= Cooldown

Starts(s, kind, t) ==
  /\ MayStart(s, kind, t)
  /\ guard' = [guard EXCEPT ![s] =
       [active |-> TRUE, timer |-> None,
        lastRun |-> IF kind = "run" THEN t ELSE Entry(s).lastRun]]

\* scheduleCleanup for an entry that is not active.
Cleanup(e, t) ==
  IF e.lastRun = None THEN None
  ELSE LET rest == Cooldown - (t - e.lastRun)
       IN  [e EXCEPT !.active = FALSE, !.timer = t + IF rest > 1 THEN rest ELSE 1]

Releases(s, t) ==
  /\ guard[s] # None /\ guard[s].active
  /\ guard' = [guard EXCEPT ![s] = Cleanup(@, t)]

\* The timer looks again whether the cooldown is over.
Expired_Any(e, t) == TRUE
Expired(e, t) == t - e.lastRun >= Cooldown

TimerFires(s, t) ==
  /\ guard[s] # None /\ guard[s].timer # None /\ guard[s].timer <= t + 1
  /\ guard' = [guard EXCEPT ![s] = IF Expired(@, t) THEN None ELSE Cleanup(@, t)]

-----------------------------------------------------------------------------
\* No entry leaks: one that is not in use is about to be looked at by its timer,
\* and one in use has no timer.
EntriesCollected ==
  \A s \in Session : guard[s] # None => (guard[s].active <=> guard[s].timer = None)
=============================================================================
