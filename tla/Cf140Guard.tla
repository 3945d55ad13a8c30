----------------------------- MODULE Cf140Guard -----------------------------
(***************************************************************************)
(* The supervisor of the freestanding build,                               *)
(* rmr/crypto_freestanding140/control/rmr_cf140_guard.c: a state machine   *)
(* that owns no clock and no timer, takes one event at a time from its     *)
(* caller and returns the action the caller must perform.                  *)
(***************************************************************************)
EXTENDS Naturals

CONSTANTS RetryLimit,       \* RMR_CF_GUARD_RETRY_LIMIT, 7 in the code
          Requested,        \* budgets a caller passes to rmr_cf_guard_init
          SequenceModulus   \* sequence is a u32: 2^32 in the code

ASSUME GuardAssumption ==
  /\ RetryLimit \in Nat
  /\ Requested \subseteq Nat
  /\ SequenceModulus \in Nat \ {0}

VARIABLES state, retries, max_retries, sequence, last_event,
          action,     \* what the last rmr_cf_guard_step returned
          attempts,   \* history: executions ordered since the last EXECUTE
          failed      \* history: a failure was declared, and not reset since

guard == <<state, retries, max_retries, sequence, last_event, action,
           attempts, failed>>

States == {"IDLE", "RUNNING", "ACK_WAIT", "ROLLBACK", "FAILSAFE", "HALTED"}

\* The events the header names, and one that stands for every other word.
Events == {"ARM", "EXEC_OK", "EXEC_FAIL", "ACK_OK", "ACK_FAIL",
           "WATCHDOG_EXPIRED", "ROLLBACK_OK", "ROLLBACK_FAIL",
           "OPERATOR_RESET", "OTHER"}

Actions == {"NONE", "EXECUTE", "REQUEST_ACK", "COMMIT", "RETRY", "ROLLBACK",
            "ENTER_FAILSAFE", "HALT", "RESET_ACCEPTED"}

\* rmr_cf_guard_init clamps the budget it is given.
rmr_cf_guard_init(requested) ==
  /\ state = "IDLE"
  /\ retries = 0
  /\ max_retries = IF requested <= RetryLimit THEN requested ELSE RetryLimit
  /\ sequence = 0
  /\ last_event = "NONE"
  /\ action = "NONE"
  /\ attempts = 0
  /\ failed = FALSE

GuardInit == \E requested \in Requested : rmr_cf_guard_init(requested)

-----------------------------------------------------------------------------
Goes(s, r, a) == state' = s /\ retries' = r /\ action' = a

\* Mutants of rmr_cf_guard_fail_closed: the state is left as it is, and the
\* event is ignored.
fail_open == Goes(state, retries, "ENTER_FAILSAFE")
fail_ignored == Goes(state, retries, "NONE")

rmr_cf_guard_fail_closed == Goes("FAILSAFE", retries, "ENTER_FAILSAFE")

\* Mutants of rmr_cf_guard_retry_or_rollback: one retry too many, and retries
\* that are not counted.
retry_once_more ==
  \/ retries <= max_retries /\ Goes("RUNNING", retries + 1, "RETRY")
  \/ retries > max_retries /\ Goes("ROLLBACK", retries, "ROLLBACK")
retry_uncounted ==
  \/ retries < max_retries /\ Goes("RUNNING", retries, "RETRY")
  \/ retries >= max_retries /\ Goes("ROLLBACK", retries, "ROLLBACK")

rmr_cf_guard_retry_or_rollback ==
  \/ retries < max_retries /\ Goes("RUNNING", retries + 1, "RETRY")
  \/ retries >= max_retries /\ Goes("ROLLBACK", retries, "ROLLBACK")

\* The failures that use up the budget.
Retryable == {<<"RUNNING", "EXEC_FAIL">>, <<"RUNNING", "WATCHDOG_EXPIRED">>,
              <<"ACK_WAIT", "ACK_FAIL">>, <<"ACK_WAIT", "WATCHDOG_EXPIRED">>}

\* The events each state waits for.
Expected == Retryable \cup
            {<<"IDLE", "ARM">>, <<"RUNNING", "EXEC_OK">>, <<"ACK_WAIT", "ACK_OK">>,
             <<"ROLLBACK", "ROLLBACK_OK">>, <<"ROLLBACK", "ROLLBACK_FAIL">>,
             <<"FAILSAFE", "OPERATOR_RESET">>}

\* Mutant of Succeeds: what was executed is committed at once.
SucceedsUnacknowledged(event) ==
  \/ state = "IDLE" /\ event = "ARM" /\ Goes("RUNNING", 0, "EXECUTE")
  \/ state = "RUNNING" /\ event = "EXEC_OK" /\ Goes("IDLE", 0, "COMMIT")

\* The way of a transaction that meets no failure.
Succeeds(event) ==
  \/ state = "IDLE" /\ event = "ARM" /\ Goes("RUNNING", 0, "EXECUTE")
  \/ state = "RUNNING" /\ event = "EXEC_OK" /\ Goes("ACK_WAIT", retries, "REQUEST_ACK")
  \/ state = "ACK_WAIT" /\ event = "ACK_OK" /\ Goes("IDLE", 0, "COMMIT")

\* The switch of rmr_cf_guard_step.  An event the state does not wait for fails
\* closed, which in FAILSAFE changes nothing.
Switch(event) ==
  \/ Succeeds(event)
  \/ <<state, event>> \in Retryable /\ rmr_cf_guard_retry_or_rollback
  \/ state = "ROLLBACK" /\ event = "ROLLBACK_OK" /\ Goes("FAILSAFE", retries, "ENTER_FAILSAFE")
  \/ state = "ROLLBACK" /\ event = "ROLLBACK_FAIL" /\ Goes("HALTED", retries, "HALT")
  \/ state = "FAILSAFE" /\ event = "OPERATOR_RESET" /\ Goes("IDLE", 0, "RESET_ACCEPTED")
  \/ state # "HALTED" /\ <<state, event>> \notin Expected /\ rmr_cf_guard_fail_closed
  \/ state = "HALTED" /\ Goes("HALTED", retries, "HALT")

\* The history of the actions ordered.
Record ==
  /\ attempts' = CASE action' = "EXECUTE" -> 1
                   [] action' = "RETRY"   -> attempts + 1
                   [] OTHER               -> attempts
  /\ failed' = (action' # "RESET_ACCEPTED"
                /\ (failed \/ action' \in {"ROLLBACK", "ENTER_FAILSAFE", "HALT"}))

rmr_cf_guard_step(event) ==
  /\ sequence' = (sequence + 1) % SequenceModulus
  /\ last_event' = event
  /\ Switch(event)
  /\ Record
  /\ UNCHANGED max_retries

\* The guard under every sequence of events.
GuardNext == \E event \in Events : rmr_cf_guard_step(event)
GuardSpec == GuardInit /\ [][GuardNext]_guard

-----------------------------------------------------------------------------
\* The shape of struct rmr_cf_guard, with the budget clamped by
\* RMR_CF_GUARD_RETRY_LIMIT.
GuardTypeOK ==
  /\ state \in States
  /\ retries \in 0 .. max_retries
  /\ max_retries \in 0 .. RetryLimit
  /\ sequence \in 0 .. SequenceModulus - 1
  /\ last_event \in Events \cup {"NONE"}
  /\ action \in Actions
  /\ attempts \in Nat
  /\ failed \in BOOLEAN

\* "EXEC_FAIL, ACK_FAIL, or WATCHDOG_EXPIRED consume a bounded retry budget":
\* between one ARM and the next, the operation is ordered at most once more than
\* the budget, whatever events arrive and in whatever order.
AttemptsWithinBudget == attempts <= max_retries + 1

\* "A successful rollback does not automatically resume execution": once a
\* rollback, the failsafe or the halt is ordered, no event but an accepted
\* operator reset brings the guard back to a state that runs or arms.
ResetBeforeResume == failed <=> state \in {"ROLLBACK", "FAILSAFE", "HALTED"}
=============================================================================
