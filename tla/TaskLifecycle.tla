--------------------------- MODULE TaskLifecycle ---------------------------
(***************************************************************************)
(* What the platform promises about one requested VM operation, whatever   *)
(* crashes, is redelivered or is retried underneath: the phases a task     *)
(* goes through and the moves between them.  TaskEngine implements it.     *)
(*                                                                         *)
(* The promise is in what is missing from Moves.  Once the provider has    *)
(* accepted an operation ("accepted") no move leads back to "waiting" by   *)
(* itself: a task whose outcome is unknown is "unverified" until the       *)
(* provider's real state has been compared, and only a person sends a      *)
(* failed task round again.  "done" and "cancelled" are left by nothing.   *)
(***************************************************************************)

CONSTANT Tasks

VARIABLE phase

Phases == {"absent", "waiting", "started", "accepted", "unverified",
           "done", "failed", "cancelled"}

\* The phases a task may move to in one step, by the phase it is in.
Moves == [absent     |-> {"waiting"},
          waiting    |-> {"started", "cancelled"},
          started    |-> {"accepted", "waiting", "failed", "cancelled"},
          accepted   |-> {"done", "unverified", "failed", "cancelled"},
          unverified |-> {"done", "failed"},
          done       |-> {},
          failed     |-> {"waiting"},
          cancelled  |-> {}]

Init == phase = [t \in Tasks |-> "absent"]

\* One transaction of the store may move several tasks at once (recovery).
Next ==
  /\ phase' \in [Tasks -> Phases]
  /\ \A t \in Tasks : phase'[t] \in Moves[phase[t]] \cup {phase[t]}

Spec == Init /\ [][Next]_phase
=============================================================================
