----------------------------- MODULE Cf140Board -----------------------------
(***************************************************************************)
(* The supervisor of Cf140Guard with the board that hosts it.  The board   *)
(* performs the actions the guard returns and reports how they went; its   *)
(* answers can be late or lost, its watchdog fires while an answer is      *)
(* outstanding, and its operator presses either button at any time.  The   *)
(* board is not in the repository: the guard's contract describes it.      *)
(***************************************************************************)
EXTENDS Cf140Guard

CONSTANT MaxArms   \* bound on the ARM events

ASSUME BoardAssumption == MaxArms \in Nat

VARIABLES cancels,     \* whether the board abandons the work of an attempt
                       \* when the guard ends that attempt
          todo,        \* work in progress: the kind of work and its attempt
          current,     \* the number of the attempt in progress
          confirmed,   \* history: work that succeeded
          arms         \* ARM events so far

board == <<cancels, todo, current, confirmed, arms>>
supervised == <<guard, board>>

BoardInit ==
  /\ GuardInit
  /\ cancels \in BOOLEAN
  /\ todo = {}
  /\ current = 0
  /\ confirmed = {}
  /\ arms = 0

\* What the board takes up when the guard returns an action, and `rest` is what
\* it was at.
Perform(rest) ==
  /\ current' = IF action' \in {"EXECUTE", "RETRY"} THEN current + 1 ELSE current
  /\ todo' = (IF cancels /\ action' # "REQUEST_ACK" THEN {} ELSE rest) \cup
             (CASE action' \in {"EXECUTE", "RETRY"} -> {<<"exec", current'>>}
                [] action' = "REQUEST_ACK"          -> {<<"ack", current>>}
                [] action' = "ROLLBACK"             -> {<<"rollback", current>>}
                [] OTHER                            -> {})
  /\ UNCHANGED cancels

\* The event that reports the result of a piece of work.
Report(kind, ok) ==
  CASE kind = "exec"     -> IF ok THEN "EXEC_OK" ELSE "EXEC_FAIL"
    [] kind = "ack"      -> IF ok THEN "ACK_OK" ELSE "ACK_FAIL"
    [] kind = "rollback" -> IF ok THEN "ROLLBACK_OK" ELSE "ROLLBACK_FAIL"

Answer(work, ok) ==
  /\ work \in todo
  /\ rmr_cf_guard_step(Report(work[1], ok))
  /\ Perform(todo \ {work})
  /\ confirmed' = IF ok THEN confirmed \cup {work} ELSE confirmed
  /\ UNCHANGED arms

\* A piece of work hangs, or its answer is lost.
Lose(work) ==
  /\ work \in todo
  /\ todo' = todo \ {work}
  /\ UNCHANGED <<guard, cancels, current, confirmed, arms>>

\* The board's watchdog runs while the guard waits for an answer.
Watchdog ==
  /\ state \in {"RUNNING", "ACK_WAIT", "ROLLBACK"}
  /\ rmr_cf_guard_step("WATCHDOG_EXPIRED")
  /\ Perform(todo)
  /\ UNCHANGED <<confirmed, arms>>

Arm ==
  /\ arms < MaxArms
  /\ arms' = arms + 1
  /\ rmr_cf_guard_step("ARM")
  /\ Perform(todo)
  /\ UNCHANGED confirmed

Reset ==
  /\ rmr_cf_guard_step("OPERATOR_RESET")
  /\ Perform(todo)
  /\ UNCHANGED <<confirmed, arms>>

\* A word that is no event.
Stray ==
  /\ rmr_cf_guard_step("OTHER")
  /\ Perform(todo)
  /\ UNCHANGED <<confirmed, arms>>

BoardNext ==
  \/ \E work \in todo, ok \in BOOLEAN : Answer(work, ok)
  \/ \E work \in todo : Lose(work)
  \/ Watchdog
  \/ Arm
  \/ Reset
  \/ Stray

BoardSpec == BoardInit /\ [][BoardNext]_supervised

\* The watchdog is a hardware timer: while the guard waits, it expires.
FairSpec == BoardSpec /\ WF_supervised(Watchdog)

-----------------------------------------------------------------------------
\* "Until ACK_OK, success remains uncommitted": the guard orders a commit only
\* when the attempt in progress was executed and acknowledged.  The events name
\* no attempt, so this takes a board that drops an attempt's work when the guard
\* ends the attempt.
CommitConfirmed ==
  cancels /\ action = "COMMIT" =>
    {<<"exec", current>>, <<"ack", current>>} \subseteq confirmed

\* Whatever is lost, late or hung, the guard does not wait for ever.
WaitingEnds ==
  state \in {"RUNNING", "ACK_WAIT", "ROLLBACK"} ~> state \in {"IDLE", "FAILSAFE", "HALTED"}
=============================================================================
