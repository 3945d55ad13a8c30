------------------------- MODULE FreestandingProofs -------------------------
(***************************************************************************)
(* Proofs about the freestanding programs.  The supervisor of              *)
(* freestanding_clean: what it guarantees for every budget and every       *)
(* sequence of events, and what it guarantees to a board that abandons the *)
(* work of the attempts that it has ended.  Custody16: what its three      *)
(* files, which are neither synced nor renamed, tell whoever checks them,  *)
(* that two scans of a tree that nothing changes agree, and that the seal  *)
(* of two scans that agree is of the tree at one moment.                   *)
(***************************************************************************)
EXTENDS Cf140Board, Custody16, FiniteSetTheorems, WellFoundedInduction, SequenceTheorems, TLAPS

\* The attempts of the transaction in progress are its retries and the first.
AttemptsAreRetries == state \in {"RUNNING", "ACK_WAIT"} => attempts = retries + 1

GuardInv ==
  /\ GuardTypeOK
  /\ AttemptsWithinBudget
  /\ AttemptsAreRetries
  /\ ResetBeforeResume

LEMMA GuardInitInv == GuardInit => GuardInv
<1> SUFFICES ASSUME NEW requested \in Requested, rmr_cf_guard_init(requested)
             PROVE  GuardInv
  BY DEF GuardInit
<1>1. max_retries \in 0 .. RetryLimit
  BY GuardAssumption, SMT DEF rmr_cf_guard_init
<1>2. /\ retries \in 0 .. max_retries
      /\ sequence \in 0 .. SequenceModulus - 1
      /\ attempts \in Nat
      /\ AttemptsWithinBudget
  BY <1>1, GuardAssumption, SMT DEF rmr_cf_guard_init, AttemptsWithinBudget
<1>3. QED
  BY <1>1, <1>2
     DEF rmr_cf_guard_init, GuardInv, GuardTypeOK, AttemptsAreRetries, ResetBeforeResume,
         States, Actions

\* One step of the guard, on any event.
LEMMA GuardStepInv ==
  ASSUME GuardInv, NEW event \in Events, rmr_cf_guard_step(event)
  PROVE  GuardInv'
<1> USE DEF GuardInv, Goes, States, Actions
<1>1. /\ retries \in Nat /\ max_retries \in Nat /\ max_retries' = max_retries
      /\ attempts \in Nat /\ attempts <= max_retries + 1
  BY GuardAssumption, SMT DEF GuardTypeOK, AttemptsWithinBudget, rmr_cf_guard_step
<1>2. sequence' \in 0 .. SequenceModulus - 1 /\ last_event' \in Events
  BY GuardAssumption, SMT DEF GuardTypeOK, rmr_cf_guard_step
<1>3. state' \in States /\ action' \in Actions /\ retries' \in 0 .. max_retries'
  BY <1>1, SMT DEF rmr_cf_guard_step, Switch, Succeeds, rmr_cf_guard_retry_or_rollback,
                   rmr_cf_guard_fail_closed, GuardTypeOK
<1>4. /\ attempts' \in Nat /\ attempts' <= max_retries' + 1
      /\ AttemptsAreRetries'
  BY <1>1, SMT DEF rmr_cf_guard_step, Switch, Succeeds, rmr_cf_guard_retry_or_rollback,
                   rmr_cf_guard_fail_closed, Retryable, Record, AttemptsAreRetries
<1>5. failed' \in BOOLEAN
  BY DEF rmr_cf_guard_step, Record
<1>6. ResetBeforeResume'
  <2> DEFINE Failures == {"ROLLBACK", "ENTER_FAILSAFE", "HALT"}
             Down == {"ROLLBACK", "FAILSAFE", "HALTED"}
  <2>1. /\ action' \in Failures <=> state' \in Down
        /\ action' = "RESET_ACCEPTED" => state' \notin Down
        /\ action' \notin Failures \cup {"RESET_ACCEPTED"} => state \notin Down
    BY SMT DEF rmr_cf_guard_step, Switch, Succeeds, rmr_cf_guard_retry_or_rollback,
               rmr_cf_guard_fail_closed, Retryable, Expected, GuardTypeOK
  <2>2. failed' <=> action' # "RESET_ACCEPTED" /\ (failed \/ action' \in Failures)
    BY DEF rmr_cf_guard_step, Record
  <2>3. failed <=> state \in Down
    BY DEF ResetBeforeResume
  <2>4. failed' <=> state' \in Down
    BY <2>1, <2>2, <2>3, Zenon
  <2>5. QED
    BY <2>4 DEF ResetBeforeResume
<1>7. max_retries' \in 0 .. RetryLimit
  BY <1>1 DEF GuardTypeOK
<1>8. QED
  BY <1>2, <1>3, <1>4, <1>5, <1>6, <1>7 DEF GuardTypeOK, AttemptsWithinBudget

THEOREM GuardInvariant == GuardSpec => []GuardInv
<1>1. GuardInv /\ [GuardNext]_guard => GuardInv'
  <2>1. CASE UNCHANGED guard
    BY <2>1 DEF guard, GuardInv, GuardTypeOK, AttemptsWithinBudget, AttemptsAreRetries,
                ResetBeforeResume
  <2>2. CASE GuardNext
    BY <2>2, GuardStepInv DEF GuardNext
  <2>3. QED
    BY <2>1, <2>2
<1>2. QED
  BY <1>1, GuardInitInv, PTL DEF GuardSpec

-----------------------------------------------------------------------------
\* The board's own state.
Kinds == {"exec", "ack", "rollback"}

BoardTypeOK ==
  /\ cancels \in BOOLEAN
  /\ current \in Nat
  /\ todo \subseteq Kinds \X Nat

LEMMA PerformType ==
  ASSUME BoardTypeOK, NEW rest \in SUBSET todo, Perform(rest)
  PROVE  BoardTypeOK'
<1>1. current' \in Nat
  BY SMT DEF Perform, BoardTypeOK
<1>2. todo' \subseteq rest \cup {<<"exec", current'>>, <<"ack", current>>, <<"rollback", current>>}
  BY SMT DEF Perform
<1>3. todo' \subseteq Kinds \X Nat
  BY <1>1, <1>2, SMT DEF BoardTypeOK, Kinds
<1>4. QED
  BY <1>1, <1>3 DEF Perform, BoardTypeOK

THEOREM BoardTypeCorrect == BoardSpec => []BoardTypeOK
<1>1. BoardInit => BoardTypeOK
  BY DEF BoardInit, BoardTypeOK
<1>2. BoardTypeOK /\ [BoardNext]_supervised => BoardTypeOK'
  <2> SUFFICES ASSUME BoardTypeOK, [BoardNext]_supervised
               PROVE  BoardTypeOK'
    OBVIOUS
  <2>1. ASSUME NEW rest \in SUBSET todo, Perform(rest)
        PROVE  BoardTypeOK'
    BY <2>1, PerformType
  <2>2. ASSUME NEW work \in todo, Lose(work)
        PROVE  BoardTypeOK'
    BY <2>2 DEF Lose, BoardTypeOK
  <2>3. CASE UNCHANGED supervised
    BY <2>3 DEF supervised, board, BoardTypeOK
  <2>4. QED
    BY <2>1, <2>2, <2>3 DEF BoardNext, Answer, Watchdog, Arm, Reset, Stray
<1>3. QED
  BY <1>1, <1>2, PTL DEF BoardSpec

\* A board gives the guard nothing but events, one at a time: what is proved of
\* the guard under every sequence of events holds of the guard on its board.
THEOREM BoardDrivesGuard == BoardSpec => GuardSpec
<1>1. BoardInit => GuardInit
  BY DEF BoardInit
<1>2. BoardTypeOK /\ [BoardNext]_supervised => [GuardNext]_guard
  <2> SUFFICES ASSUME BoardTypeOK, BoardNext
               PROVE  GuardNext \/ UNCHANGED guard
    BY DEF supervised
  <2>1. ASSUME NEW work \in todo, NEW ok \in BOOLEAN, Answer(work, ok)
        PROVE  GuardNext
    <3>1. rmr_cf_guard_step(Report(work[1], ok))
      BY <2>1 DEF Answer
    <3>2. work[1] \in Kinds
      BY DEF BoardTypeOK
    <3>3. Report(work[1], ok) \in Events
      BY <3>2 DEF Report, Events, Kinds
    <3>4. QED
      BY <3>1, <3>3 DEF GuardNext
  <2>2. CASE Watchdog \/ Arm \/ Reset \/ Stray
    BY <2>2 DEF Watchdog, Arm, Reset, Stray, GuardNext, Events
  <2>3. ASSUME NEW work \in todo, Lose(work)
        PROVE  UNCHANGED guard
    BY <2>3 DEF Lose
  <2>4. QED
    BY <2>1, <2>2, <2>3 DEF BoardNext
<1>3. QED
  BY <1>1, <1>2, BoardTypeCorrect, PTL DEF BoardSpec, GuardSpec

\* The retry budget bounds the attempts, on every board.
THEOREM BudgetCorrect == BoardSpec => []AttemptsWithinBudget
BY BoardDrivesGuard, GuardInvariant, PTL DEF GuardInv

\* Nothing but the operator's reset ends a failure, on every board.
THEOREM ResetCorrect == BoardSpec => []ResetBeforeResume
BY BoardDrivesGuard, GuardInvariant, PTL DEF GuardInv

\* The guard keeps the shape of its structure, on every board.
THEOREM GuardTypeCorrect == BoardSpec => []GuardTypeOK
BY BoardDrivesGuard, GuardInvariant, PTL DEF GuardInv

-----------------------------------------------------------------------------
\* The work a board that cancels may have in progress.
Work ==
  CASE state = "RUNNING"  -> {<<"exec", current>>}
    [] state = "ACK_WAIT" -> {<<"ack", current>>}
    [] state = "ROLLBACK" -> {<<"rollback", current>>}
    [] OTHER              -> {}

CommitInv ==
  cancels =>
    /\ todo \subseteq Work
    /\ state = "ACK_WAIT" => <<"exec", current>> \in confirmed
    /\ action = "COMMIT" => {<<"exec", current>>, <<"ack", current>>} \subseteq confirmed

\* The state the guard goes to and the action it returns belong together.
LEMMA StepActions ==
  ASSUME NEW event, rmr_cf_guard_step(event)
  PROVE  /\ state' = "RUNNING" <=> action' \in {"EXECUTE", "RETRY"}
         /\ state' = "ACK_WAIT" <=> action' = "REQUEST_ACK"
         /\ state' = "ROLLBACK" <=> action' = "ROLLBACK"
         /\ state' = "ACK_WAIT" => event = "EXEC_OK" /\ state = "RUNNING"
         /\ action' = "COMMIT" => event = "ACK_OK" /\ state = "ACK_WAIT"
BY SMT DEF rmr_cf_guard_step, Switch, Succeeds, rmr_cf_guard_retry_or_rollback,
           rmr_cf_guard_fail_closed, Goes

\* What is in progress after the board has performed the guard's action.
LEMMA PerformWork ==
  ASSUME NEW event, NEW rest, rmr_cf_guard_step(event), Perform(rest), cancels,
         event = "EXEC_OK" /\ state = "RUNNING" => rest = {}
  PROVE  /\ cancels'
         /\ todo' \subseteq Work'
         /\ state' = "ACK_WAIT" \/ action' = "COMMIT" => current' = current
<1>1. cancels'
  BY DEF Perform
<1>2. CASE action' \in {"EXECUTE", "RETRY"}
  BY <1>1, <1>2, StepActions, SMT DEF Perform, Work
<1>3. CASE action' = "REQUEST_ACK"
  BY <1>1, <1>3, StepActions, SMT DEF Perform, Work
<1>4. CASE action' = "ROLLBACK"
  BY <1>1, <1>4, StepActions, SMT DEF Perform, Work
<1>5. CASE action' \notin {"EXECUTE", "RETRY", "REQUEST_ACK", "ROLLBACK"}
  BY <1>1, <1>5, StepActions, SMT DEF Perform, Work
<1>6. QED
  BY <1>2, <1>3, <1>4, <1>5

\* With a board that cancels, no late or lost answer makes the guard order a
\* commit of an attempt that was not both executed and acknowledged.
THEOREM CommitCorrect == BoardSpec => []CommitConfirmed
<1>1. BoardInit => CommitInv
  BY DEF BoardInit, GuardInit, rmr_cf_guard_init, CommitInv, Work
<1>2. BoardTypeOK /\ CommitInv /\ [BoardNext]_supervised => CommitInv'
  <2> SUFFICES ASSUME BoardTypeOK, CommitInv, [BoardNext]_supervised, cancels'
               PROVE  CommitInv'
    BY DEF CommitInv
  <2>1. cancels
    BY DEF BoardNext, Answer, Lose, Watchdog, Arm, Reset, Stray, Perform, supervised, board
  <2>2. ASSUME NEW work \in todo, NEW ok \in BOOLEAN, Answer(work, ok)
        PROVE  CommitInv'
    <3> DEFINE event == Report(work[1], ok)
    <3>1. rmr_cf_guard_step(event) /\ Perform(todo \ {work})
      BY <2>2 DEF Answer
    <3>2. todo \subseteq Work /\ work \in Work
      BY <2>1 DEF CommitInv
    <3>3. event = "EXEC_OK" => work[1] = "exec" /\ ok
      BY <3>2, SMT DEF Report, Work
    <3>4. event = "ACK_OK" => work[1] = "ack" /\ ok
      BY <3>2, SMT DEF Report, Work
    <3>5. event = "EXEC_OK" /\ state = "RUNNING" => todo \ {work} = {}
      BY <3>2 DEF Work
    <3>6. /\ todo' \subseteq Work'
          /\ state' = "ACK_WAIT" \/ action' = "COMMIT" => current' = current
      BY <2>1, <3>1, <3>5, PerformWork
    <3>7. ok => confirmed' = confirmed \cup {work}
      BY <2>2 DEF Answer
    <3>8. state' = "ACK_WAIT" => <<"exec", current'>> \in confirmed'
      <4> SUFFICES ASSUME state' = "ACK_WAIT"
                   PROVE  <<"exec", current'>> \in confirmed'
        OBVIOUS
      <4>1. event = "EXEC_OK" /\ state = "RUNNING"
        BY <3>1, StepActions
      <4>2. work = <<"exec", current>> /\ ok
        BY <3>2, <3>3, <4>1 DEF Work
      <4>3. QED
        BY <3>6, <3>7, <4>2
    <3>9. action' = "COMMIT" =>
            {<<"exec", current'>>, <<"ack", current'>>} \subseteq confirmed'
      <4> SUFFICES ASSUME action' = "COMMIT"
                   PROVE  {<<"exec", current'>>, <<"ack", current'>>} \subseteq confirmed'
        OBVIOUS
      <4>1. event = "ACK_OK" /\ state = "ACK_WAIT"
        BY <3>1, StepActions
      <4>2. work = <<"ack", current>> /\ ok
        BY <3>2, <3>4, <4>1 DEF Work
      <4>3. <<"exec", current>> \in confirmed
        BY <2>1, <4>1 DEF CommitInv
      <4>4. QED
        BY <3>6, <3>7, <4>2, <4>3
    <3>10. QED
      BY <3>6, <3>8, <3>9 DEF CommitInv
  <2>3. ASSUME NEW event \in {"WATCHDOG_EXPIRED", "ARM", "OPERATOR_RESET", "OTHER"},
               rmr_cf_guard_step(event), Perform(todo)
        PROVE  CommitInv'
    <3>1. todo' \subseteq Work'
      BY <2>1, <2>3, PerformWork
    <3>2. state' # "ACK_WAIT" /\ action' # "COMMIT"
      BY <2>3, StepActions
    <3>3. QED
      BY <3>1, <3>2 DEF CommitInv
  <2>4. CASE Watchdog \/ Arm \/ Reset \/ Stray
    BY <2>3, <2>4 DEF Watchdog, Arm, Reset, Stray
  <2>5. ASSUME NEW work \in todo, Lose(work)
        PROVE  CommitInv'
    BY <2>1, <2>5 DEF Lose, guard, CommitInv, Work
  <2>6. CASE UNCHANGED supervised
    BY <2>1, <2>6 DEF supervised, guard, board, CommitInv, Work
  <2>7. QED
    BY <2>2, <2>4, <2>5, <2>6 DEF BoardNext
<1>3. CommitInv => CommitConfirmed
  BY DEF CommitInv, CommitConfirmed
<1>4. QED
  BY <1>1, <1>2, <1>3, BoardTypeCorrect, PTL DEF BoardSpec

-----------------------------------------------------------------------------
(* Custody16: the three files on the disk. *)

Written == {"bin", "zip", "digest"}
Sealed == {<<r>> : r \in Nat}
Digests == {<<r, r>> : r \in Nat}

\* What runs have left on the disk, and what a power failure can make of it:
\* each file is empty, torn, or of one run.
WrittenInv ==
  /\ run \in Nat
  /\ DOMAIN disk = Written /\ DOMAIN had = Written
  /\ had["bin"] \subseteq {<<>>, Torn} \cup Sealed
  /\ had["zip"] \subseteq {<<>>, Torn} \cup Sealed
  /\ had["digest"] \subseteq {<<>>, Torn} \cup Digests
  /\ \A w \in Written : disk[w] \in had[w]
  /\ pc = "write" => writing \in Seq(Written) /\ writing # <<>>

LEMMA TwoInARow ==
  ASSUME NEW a \in Nat, NEW b \in Nat
  PROVE  <<a>> \o <<b>> = <<a, b>>
<1>1. <<a>> \in Seq(Nat) /\ <<b>> \in Seq(Nat) /\ Len(<<a>>) = 1 /\ Len(<<b>>) = 1
  BY SMT
<1> DEFINE s == <<a>> \o <<b>>
           t == <<a, b>>
<1>2. s \in Seq(Nat) /\ Len(s) = 2 /\ s[1] = <<a>>[1] /\ s[2] = <<b>>[1]
  BY <1>1, ConcatProperties, SMT
<1>3. t \in Seq(Nat) /\ Len(t) = 2 /\ t[1] = a /\ t[2] = b /\ <<a>>[1] = a /\ <<b>>[1] = b
  BY SMT
<1> HIDE DEF s, t
<1>4. \A i \in 1 .. 2 : s[i] = t[i]
  BY <1>2, <1>3, SMT
<1>5. s = t
  BY <1>2, <1>3, <1>4, SeqEqual
<1>6. QED
  BY <1>5 DEF s, t

\* A file that is stored holds what may be stored.
LEMMA StoreStep ==
  ASSUME WrittenInv, NEW w \in Written, NEW bytes, Store(w, bytes),
         bytes \in {Torn} \cup (IF w = "digest" THEN Digests ELSE Sealed)
  PROVE  /\ DOMAIN disk' = Written /\ DOMAIN had' = Written
         /\ had'["bin"] \subseteq {<<>>, Torn} \cup Sealed
         /\ had'["zip"] \subseteq {<<>>, Torn} \cup Sealed
         /\ had'["digest"] \subseteq {<<>>, Torn} \cup Digests
         /\ \A v \in Written : disk'[v] \in had'[v]
<1> HIDE DEF Torn, Digests, Sealed
<1>1. /\ disk' = [disk EXCEPT ![w] = bytes]
      /\ had' = [had EXCEPT ![w] = @ \cup {bytes}]
  BY DEF Store
<1>2. /\ DOMAIN disk' = Written /\ DOMAIN had' = Written
      /\ \A v \in Written : disk'[v] = IF v = w THEN bytes ELSE disk[v]
      /\ \A v \in Written : had'[v] = IF v = w THEN had[v] \cup {bytes} ELSE had[v]
  BY <1>1 DEF WrittenInv
<1>3. "bin" \in Written /\ "zip" \in Written /\ "digest" \in Written
  BY DEF Written
<1>4. had'["bin"] \subseteq {<<>>, Torn} \cup Sealed
  BY <1>2, <1>3, Zenon DEF WrittenInv
<1>5. had'["zip"] \subseteq {<<>>, Torn} \cup Sealed
  BY <1>2, <1>3, Zenon DEF WrittenInv
<1>6. had'["digest"] \subseteq {<<>>, Torn} \cup Digests
  BY <1>2, <1>3, Zenon DEF WrittenInv
<1>7. \A v \in Written : disk'[v] \in had'[v]
  BY <1>2 DEF WrittenInv
<1>8. QED
  BY <1>2, <1>4, <1>5, <1>6, <1>7

\* A step that leaves the files alone, and does not begin to write.
LEMMA FilesAlone ==
  ASSUME WrittenInv, run' \in Nat, UNCHANGED <<disk, had>>,
         pc' = "write" => pc = "write" /\ writing' = writing
  PROVE  WrittenInv'
BY DEF WrittenInv

THEOREM WrittenInvariant == Spec => []WrittenInv
<1>1. Init => WrittenInv
  <2>1. SUFFICES ASSUME Init PROVE WrittenInv
    OBVIOUS
  <2>2. run = 0 /\ pc = "idle" /\ disk = [w \in Written |-> <<>>] /\ had = [w \in Written |-> {<<>>}]
    BY <2>1 DEF Init, Written
  <2> HIDE DEF Sealed, Digests, Torn
  <2>3. QED
    BY <2>2, SMT DEF WrittenInv, Written
<1>2. WrittenInv /\ [Next]_vars => WrittenInv'
  <2>1. SUFFICES ASSUME WrittenInv, [Next]_vars PROVE WrittenInv'
    OBVIOUS
  <2>2. ASSUME NEW outcome, End(outcome), outcome # "write"
        PROVE  WrittenInv'
    BY <2>1, <2>2, FilesAlone DEF End, WrittenInv
  <2>3. CASE Change \/ Start
    <3>1. run' \in Nat /\ UNCHANGED <<disk, had>> /\ (pc' = "write" => pc = "write" /\ writing' = writing)
      BY <2>1, <2>3, SMT DEF Change, Start, WrittenInv
    <3>2. QED
      BY <2>1, <3>1, FilesAlone
  <2>4. ASSUME NEW d, NEW frames, NEW c, scan_dir(d, frames, c), pc = "scan"
        PROVE  WrittenInv'
    <3>1. CASE End("ERR_CAPACITY")
      BY <2>2, <3>1
    <3>2. CASE ~ End("ERR_CAPACITY")
      <4>1. UNCHANGED <<environment, run, pc, fd, first, disk, had, writing>>
        BY <2>4, <3>2 DEF scan_dir
      <4>2. QED
        BY <2>1, <4>1, FilesAlone DEF WrittenInv
    <3>3. QED
      BY <3>1, <3>2
  <2>5. CASE OpenRoot \/ EnterDirectory
    BY <2>4, <2>5 DEF OpenRoot, EnterDirectory, AtEntry
  <2>6. CASE SkipLink \/ CountFile \/ LeaveDirectory
    <3>1. run' = run /\ UNCHANGED <<disk, had>> /\ (pc' = "write" => pc = "write" /\ writing' = writing)
      BY <2>6 DEF SkipLink, CountFile, LeaveDirectory
    <3>2. QED
      BY <2>1, <3>1, FilesAlone DEF WrittenInv
  <2>7. CASE StatFile \/ BeginFile \/ ReadFile \/ EndFile
    <3>1. CASE \E outcome \in {"ERR_STATE", "ERR_SIZE"} : End(outcome)
      BY <2>2, <3>1
    <3>2. CASE ~ \E outcome \in {"ERR_STATE", "ERR_SIZE"} : End(outcome)
      <4>1. run' = run /\ UNCHANGED <<disk, had>> /\ (pc' = "write" => pc = "write" /\ writing' = writing)
        BY <2>7, <3>2 DEF StatFile, BeginFile, ReadFile, EndFile
      <4>2. QED
        BY <2>1, <4>1, FilesAlone DEF WrittenInv
    <3>3. QED
      BY <3>1, <3>2
  <2>8. CASE Fails \/ Killed
    BY <2>2, <2>8 DEF Fails, Killed
  <2>9. CASE Compare
    <3>1. CASE End("MISMATCH")
      BY <2>2, <3>1
    <3>2. CASE ~ End("MISMATCH")
      <4>1. writing' = <<"bin", "zip", "digest">> /\ UNCHANGED <<run, disk, had>>
        BY <2>9, <3>2 DEF Compare
      <4>2. <<"bin", "zip", "digest">> \in Seq(Written) /\ <<"bin", "zip", "digest">> # <<>>
        BY SMT DEF Written
      <4>3. QED
        BY <2>1, <4>1, <4>2 DEF WrittenInv
    <3>3. QED
      BY <3>1, <3>2
  <2>10. CASE WriteFile
    <3> DEFINE w == Head(writing)
               bytes == IF disk[w] # Torn THEN Torn
                        ELSE IF w = "digest" THEN digest_make(<<run>>, <<run>>) ELSE <<run>>
    <3>1. pc = "write" /\ run' = run /\ run \in Nat
      BY <2>1, <2>10 DEF WriteFile, WrittenInv
    <3>2. w \in Written /\ Tail(writing) \in Seq(Written)
      BY <2>1, <3>1, HeadTailProperties DEF WrittenInv
    <3>3. digest_make(<<run>>, <<run>>) = <<run, run>>
      BY <3>1, TwoInARow DEF digest_make
    <3>4. bytes \in {Torn} \cup (IF w = "digest" THEN Digests ELSE Sealed)
      <4> HIDE DEF w
      <4>1. QED
        BY <3>1, <3>3 DEF Sealed, Digests
    <3>5. /\ Store(w, bytes)
          /\ \/ UNCHANGED <<pc, writing>>
             \/ writing' = Tail(writing) /\ pc' = IF writing' = <<>> THEN "OK" ELSE pc
      BY <2>10, Zenon DEF WriteFile
    <3> HIDE DEF bytes, w
    <3>6. pc' = "write" => writing' \in Seq(Written) /\ writing' # <<>>
      BY <2>1, <3>1, <3>2, <3>5 DEF WrittenInv
    <3>7. QED
      BY <2>1, <3>1, <3>2, <3>4, <3>5, <3>6, StoreStep DEF WrittenInv
  <2>11. CASE PowerFails
    <3>1. PICK bin \in had["bin"] \cup {Torn}, zip \in had["zip"] \cup {Torn},
               digest \in had["digest"] \cup {Torn} :
                 disk' = [bin |-> bin, zip |-> zip, digest |-> digest]
      BY <2>11 DEF PowerFails
    <3>2. had' = [v \in DOMAIN disk |-> {disk'[v]}] /\ run' = run /\ pc' = "killed"
      BY <2>11 DEF PowerFails
    <3>3. DOMAIN disk' = Written /\ disk'["bin"] = bin /\ disk'["zip"] = zip /\ disk'["digest"] = digest
      BY <3>1, SMT DEF Written
    <3>4. DOMAIN had' = Written /\ \A v \in Written : had'[v] = {disk'[v]}
      BY <2>1, <3>2 DEF WrittenInv
    <3>5. /\ bin \in {<<>>, Torn} \cup Sealed /\ zip \in {<<>>, Torn} \cup Sealed
          /\ digest \in {<<>>, Torn} \cup Digests
      <4> HIDE DEF Torn, Sealed, Digests
      <4>1. QED
        BY <2>1, <3>1 DEF WrittenInv
    <3> HIDE DEF Torn, Sealed, Digests
    <3>6. "bin" \in Written /\ "zip" \in Written /\ "digest" \in Written
      BY DEF Written
    <3>7. /\ had'["bin"] = {bin} /\ had'["zip"] = {zip} /\ had'["digest"] = {digest}
          /\ \A v \in Written : disk'[v] \in had'[v]
      BY <3>3, <3>4, <3>6, Zenon
    <3>8. QED
      BY <2>1, <3>2, <3>3, <3>4, <3>5, <3>7, Zenon DEF WrittenInv
  <2>12. CASE UNCHANGED vars
    BY <2>1, <2>12 DEF vars, WrittenInv
  <2>13. QED
    BY <2>1, <2>3, <2>5, <2>6, <2>7, <2>8, <2>9, <2>10, <2>11, <2>12 DEF Next
<1>3. QED
  BY <1>1, <1>2, PTL DEF Spec

\* After any kill or power failure, a digest that names the seal and the
\* archive found with it names two of the same run.
THEOREM VerifiedCorrect == Spec => []VerifiedFilesAreOneRun
<1>1. WrittenInv => VerifiedFilesAreOneRun
  <2>1. SUFFICES ASSUME WrittenInv, disk["bin"] \notin {<<>>, Torn}, disk["zip"] \notin {<<>>, Torn},
                        disk["digest"] = digest_make(disk["bin"], disk["zip"])
                 PROVE  disk["bin"] = disk["zip"]
    BY DEF VerifiedFilesAreOneRun
  <2>2. /\ disk["bin"] \in Sealed /\ disk["zip"] \in Sealed
        /\ disk["digest"] \in {<<>>, Torn} \cup Digests
    <3> HIDE DEF Torn, Sealed, Digests
    <3>1. disk["bin"] \in had["bin"] /\ disk["zip"] \in had["zip"] /\ disk["digest"] \in had["digest"]
      BY <2>1 DEF WrittenInv, Written
    <3>2. QED
      BY <2>1, <3>1 DEF WrittenInv
  <2>3. PICK a \in Nat, b \in Nat : disk["bin"] = <<a>> /\ disk["zip"] = <<b>>
    BY <2>2 DEF Sealed
  <2>4. disk["digest"] = <<a, b>>
    BY <2>1, <2>3, TwoInARow DEF digest_make
  <2>5. a = b
    <3>1. <<a, b>> # <<>> /\ <<a, b>> # <<-1>>
      BY SMT
    <3>2. PICK r \in Nat : <<a, b>> = <<r, r>>
      BY <2>2, <2>4, <3>1 DEF Digests, Torn
    <3>3. QED
      BY <3>2, SMT
  <2>6. QED
    BY <2>3, <2>5
<1>2. QED
  BY <1>1, WrittenInvariant, PTL

-----------------------------------------------------------------------------
(* Sequences: a least element, and what FlattenSeq makes of sequences.      *)

\* A set of natural numbers that is not empty has a least element.
LEMMA LeastElement ==
  ASSUME NEW T \in SUBSET Nat, T # {}
  PROVE  \E m \in T : \A k \in T : m <= k
<1> DEFINE UpTo == {0 .. m : m \in T}
<1>1. UpTo # {}
  OBVIOUS
<1>2. UpTo \subseteq FiniteSubsetsOf(Nat)
  <2>1. ASSUME NEW m \in T
        PROVE  0 .. m \in FiniteSubsetsOf(Nat)
    <3>1. 0 \in Int /\ m \in Int /\ 0 .. m \subseteq Nat
      BY SMT
    <3>2. IsFiniteSet(0 .. m)
      BY <3>1, FS_Interval
    <3>3. QED
      BY <3>1, <3>2 DEF FiniteSubsetsOf
  <2>2. QED
    BY <2>1
<1>3. PICK s \in UpTo : \A t \in UpTo : ~ (<<t, s>> \in StrictSubsetOrdering(Nat))
  <2>1. IsWellFoundedOn(StrictSubsetOrdering(Nat), FiniteSubsetsOf(Nat))
    BY FS_StrictSubsetOrderingWellFounded
  <2>2. QED
    BY <1>1, <1>2, <2>1, WFMin
<1>4. PICK m \in T : s = 0 .. m
  OBVIOUS
<1>5. ASSUME NEW k \in T, k < m
      PROVE  FALSE
  <2>1. 0 .. k \subseteq Nat /\ 0 .. m \subseteq Nat /\ 0 .. k \subseteq 0 .. m /\ 0 .. k # 0 .. m
    <3>1. m \in 0 .. m /\ m \notin 0 .. k
      BY <1>5, SMT
    <3>2. 0 .. k \subseteq 0 .. m
      BY <1>5, SMT
    <3>3. QED
      BY <3>1, <3>2, SMT
  <2>2. <<0 .. k, 0 .. m>> \in StrictSubsetOrdering(Nat)
    BY <2>1 DEF StrictSubsetOrdering
  <2>3. QED
    BY <1>3, <1>4, <2>2
<1>6. QED
  BY <1>5, SMT

\* Induction over the natural numbers, stated of a set.
LEMMA SetInduction ==
  ASSUME NEW P, 0 \in P, \A n \in Nat : n \in P => n + 1 \in P
  PROVE  \A n \in Nat : n \in P
<1> DEFINE T == {n \in Nat : n \notin P}
<1>1. SUFFICES ASSUME T # {} PROVE FALSE
  OBVIOUS
<1>2. PICK m \in T : \A k \in T : m <= k
  BY <1>1, LeastElement
<1>3. m # 0 /\ m \in Nat
  OBVIOUS
<1>4. m - 1 \in Nat /\ ~ (m <= m - 1) /\ (m - 1) + 1 = m
  BY <1>3, SMT
<1>5. m - 1 \in P
  BY <1>2, <1>4
<1>6. QED
  BY <1>4, <1>5

-----------------------------------------------------------------------------
(* FlattenSeq: its recursive function, and what it makes of sequences.      *)

\* The recursive function of FlattenSeq exists.
LEMMA FlattenFunction ==
  ASSUME NEW s
  PROVE  \A n \in Nat : \E f : f = [i \in 1 .. n |-> IF i = 1 THEN s[i] ELSE f[i - 1] \o s[i]]
<1> DEFINE Is(n, f) == f = [i \in 1 .. n |-> IF i = 1 THEN s[i] ELSE f[i - 1] \o s[i]]
           P == {n \in Nat : \E f : Is(n, f)}
<1>1. 0 \in P
  <2> DEFINE f == [i \in {} |-> i]
  <2>1. 1 .. 0 = {}
    BY SMT
  <2>2. Is(0, f)
    BY <2>1, Zenon
  <2>3. QED
    BY <2>2, Zenon
<1>2. ASSUME NEW n \in Nat, n \in P
      PROVE  n + 1 \in P
  <2>1. PICK f : Is(n, f)
    BY <1>2
  <2> DEFINE next(i, p) == IF i = 1 THEN s[i] ELSE p \o s[i]
             g == [i \in 1 .. n + 1 |-> IF i = n + 1 THEN next(i, f[i - 1]) ELSE f[i]]
             h == [i \in 1 .. n + 1 |-> next(i, g[i - 1])]
  <2>2. \A i \in 1 .. n : f[i] = next(i, f[i - 1])
    BY <2>1, Zenon
  <2> HIDE DEF next, Is
  <2>3. ASSUME NEW i \in 1 .. n + 1
        PROVE  g[i] = next(i, g[i - 1])
    <3>1. CASE i = 1
      <4>1. \A p, q : next(1, p) = next(1, q)
        BY DEF next
      <4>2. n + 1 = 1 \/ 1 \in 1 .. n
        BY SMT
      <4>3. g[i] = next(i, f[i - 1])
        BY <3>1, <4>2, <2>2, Zenon
      <4>4. QED
        BY <3>1, <4>1, <4>3
    <3>2. CASE i # 1
      <4>1. i - 1 \in 1 .. n + 1 /\ i - 1 # n + 1 /\ (i = n + 1 \/ i \in 1 .. n)
        BY <3>2, SMT
      <4>2. g[i - 1] = f[i - 1]
        BY <4>1, Zenon
      <4>3. g[i] = next(i, f[i - 1])
        BY <4>1, <2>2, Zenon
      <4>4. QED
        BY <4>2, <4>3
    <3>3. QED
      BY <3>1, <3>2
  <2>4. g = h
    <3>1. \A i \in 1 .. n + 1 : g[i] = h[i]
      BY <2>3, Zenon
    <3>2. DOMAIN g = 1 .. n + 1 /\ DOMAIN h = 1 .. n + 1
      BY Zenon
    <3> HIDE DEF g, h
    <3>3. g = [i \in 1 .. n + 1 |-> g[i]] /\ h = [i \in 1 .. n + 1 |-> h[i]]
      BY DEF g, h
    <3>4. QED
      BY <3>1, <3>3
  <2>5. Is(n + 1, g)
    <3> HIDE DEF g
    <3>1. QED
      BY <2>4 DEF h, Is, next
  <2>6. n + 1 \in Nat
    BY SMT
  <2>7. QED
    BY <2>5, <2>6
<1> HIDE DEF P
<1>3. \A n \in Nat : n \in P
  BY <1>1, <1>2, SetInduction
<1>4. QED
  BY <1>3 DEF P

\* Concatenation under a name, which hides the operator from the provers.
Cat(a, b) == a \o b

LEMMA CatAssociative ==
  ASSUME NEW X, NEW a \in Seq(X), NEW b \in Seq(X), NEW c \in Seq(X)
  PROVE  Cat(Cat(a, b), c) = Cat(a, Cat(b, c))
BY ConcatAssociative DEF Cat

LEMMA CatProperties ==
  ASSUME NEW X, NEW a \in Seq(X), NEW b \in Seq(X)
  PROVE  /\ Cat(a, b) \in Seq(X)
         /\ Len(Cat(a, b)) = Len(a) + Len(b)
         /\ \A i \in 1 .. Len(a) + Len(b) : Cat(a, b)[i] = IF i <= Len(a) THEN a[i] ELSE b[i - Len(a)]
BY ConcatProperties DEF Cat

LEMMA CatEmpty ==
  ASSUME NEW X, NEW a \in Seq(X)
  PROVE  Cat(a, <<>>) = a /\ Cat(<<>>, a) = a
BY ConcatEmptySeq DEF Cat

\* What FlattenSeq returns is the last of the sequences that grow by one
\* sequence at a time, and there is only one way to grow them.
Grows(s, f) == f[0] = <<>> /\ \A i \in 1 .. Len(s) : f[i] = Cat(f[i - 1], s[i])

LEMMA FlattenIs ==
  ASSUME NEW X, NEW s \in Seq(Seq(X))
  PROVE  /\ \E f \in [0 .. Len(s) -> Seq(X)] : Grows(s, f)
         /\ \A f \in [0 .. Len(s) -> Seq(X)] : Grows(s, f) => FlattenSeq(s) = f[Len(s)]
<1> DEFINE n == Len(s)
<1>1. n \in Nat /\ \A i \in 1 .. n : s[i] \in Seq(X)
  BY LenProperties, ElementOfSeq
<1>2. <<>> \in Seq(X)
  BY EmptySeq
<1>3. CASE n = 0
  <2>1. s = <<>>
    BY <1>3, EmptySeq
  <2>2. FlattenSeq(s) = <<>>
    BY <1>3, <2>1 DEF FlattenSeq
  <2> DEFINE f == [i \in 0 .. n |-> <<>>]
  <2>3. 0 \in 0 .. n /\ 1 .. n = {}
    BY <1>3, SMT
  <2>4. f \in [0 .. Len(s) -> Seq(X)] /\ Grows(s, f)
    BY <1>2, <2>3 DEF Grows
  <2>5. QED
    BY <1>3, <2>2, <2>4 DEF Grows
<1>4. CASE n # 0
  <2> DEFINE Is(g) == g = [i \in 1 .. n |-> IF i = 1 THEN s[i] ELSE g[i - 1] \o s[i]]
             g == CHOOSE h : Is(h)
             f == [i \in 0 .. n |-> IF i = 0 THEN <<>> ELSE g[i]]
  <2>1. FlattenSeq(s) = g[n]
    BY <1>4 DEF FlattenSeq
  <2>2. \E h : Is(h)
    BY <1>1, FlattenFunction
  <2>3. Is(g)
    BY <2>2
  <2>4. \A i \in 1 .. n : g[i] = IF i = 1 THEN s[i] ELSE Cat(g[i - 1], s[i])
    <3> HIDE DEF g
    <3>1. QED
      BY <2>3, Zenon DEF Cat
  <2> HIDE DEF g, Is
  <2>5. \A i \in 1 .. n : f[i] = g[i] /\ f[i - 1] = IF i = 1 THEN <<>> ELSE g[i - 1]
    <3>1. ASSUME NEW i \in 1 .. n
          PROVE  i \in 0 .. n /\ i # 0 /\ i - 1 \in 0 .. n /\ (i - 1 = 0 <=> i = 1)
      BY <1>1, SMT
    <3>2. QED
      BY <3>1, Zenon
  <2>6. 0 \in 0 .. n /\ f[0] = <<>>
    BY <1>1, SMT
  <2>7. Grows(s, f)
    <3>1. ASSUME NEW i \in 1 .. n
          PROVE  f[i] = Cat(f[i - 1], s[i])
      <4>1. CASE i = 1
        <5>1. f[i] = s[i] /\ f[i - 1] = <<>>
          BY <2>4, <2>5, <4>1, Zenon
        <5>2. QED
          BY <5>1, <1>1, CatEmpty
      <4>2. CASE i # 1
        BY <2>4, <2>5, <4>2, Zenon
      <4>3. QED
        BY <4>1, <4>2
    <3>2. QED
      BY <2>6, <3>1 DEF Grows
  <2>8. DOMAIN f = 0 .. n /\ f[n] = g[n]
    <3>1. n \in 0 .. n
      BY <1>1, SMT
    <3>2. QED
      BY <1>4, <3>1, Zenon
  <2>f. f = [i \in 0 .. n |-> f[i]]
    BY Zenon
  <2> HIDE DEF f
  <2>9. \A i \in 0 .. n : f[i] \in Seq(X)
    <3> DEFINE P == {i \in Nat : i <= n => f[i] \in Seq(X)}
    <3>1. 0 \in P
      BY <1>2, <2>6
    <3>2. ASSUME NEW i \in Nat, i \in P
          PROVE  i + 1 \in P
      <4>1. SUFFICES ASSUME i + 1 <= n PROVE f[i + 1] \in Seq(X)
        BY SMT
      <4>2. i <= n /\ i + 1 \in 1 .. n /\ (i + 1) - 1 = i
        BY <1>1, <4>1, SMT
      <4>3. f[i + 1] = Cat(f[i], s[i + 1])
        BY <2>7, <4>2 DEF Grows
      <4>4. f[i] \in Seq(X) /\ s[i + 1] \in Seq(X)
        BY <1>1, <3>2, <4>2
      <4>5. QED
        BY <4>3, <4>4, CatProperties
    <3> HIDE DEF P
    <3>3. \A i \in Nat : i \in P
      BY <3>1, <3>2, SetInduction
    <3>4. QED
      BY <1>1, <3>3, SMT DEF P
  <2>10. f \in [0 .. n -> Seq(X)]
    BY <2>f, <2>9
  <2>11. ASSUME NEW h \in [0 .. n -> Seq(X)], Grows(s, h)
         PROVE  h[n] = g[n]
    <3> DEFINE P == {i \in Nat : i <= n => h[i] = f[i]}
    <3>1. 0 \in P
      BY <2>6, <2>11 DEF Grows
    <3>2. ASSUME NEW i \in Nat, i \in P
          PROVE  i + 1 \in P
      <4>1. SUFFICES ASSUME i + 1 <= n PROVE h[i + 1] = f[i + 1]
        BY SMT
      <4>2. i <= n /\ i + 1 \in 1 .. n /\ (i + 1) - 1 = i
        BY <1>1, <4>1, SMT
      <4>3. f[i + 1] = Cat(f[i], s[i + 1]) /\ h[i + 1] = Cat(h[i], s[i + 1])
        BY <2>7, <2>11, <4>2 DEF Grows
      <4>4. QED
        BY <3>2, <4>2, <4>3
    <3> HIDE DEF P
    <3>3. \A i \in Nat : i \in P
      BY <3>1, <3>2, SetInduction
    <3>4. QED
      BY <1>1, <2>8, <3>3 DEF P
  <2>12. QED
    BY <2>1, <2>7, <2>10, <2>11
<1>5. QED
  BY <1>3, <1>4

\* It is a sequence of the elements of the sequences.
LEMMA FlattenType ==
  ASSUME NEW X, NEW s \in Seq(Seq(X))
  PROVE  FlattenSeq(s) \in Seq(X)
<1>1. PICK f \in [0 .. Len(s) -> Seq(X)] : Grows(s, f)
  BY FlattenIs
<1>2. FlattenSeq(s) = f[Len(s)]
  BY <1>1, FlattenIs
<1>3. Len(s) \in 0 .. Len(s)
  BY LenProperties, SMT
<1>4. QED
  BY <1>2, <1>3

LEMMA FlattenEmpty == FlattenSeq(<<>>) = <<>>
BY EmptySeq DEF FlattenSeq

LEMMA FlattenOne ==
  ASSUME NEW X, NEW x \in Seq(X)
  PROVE  FlattenSeq(<<x>>) = x
<1> DEFINE s == <<x>>
           f == [i \in 0 .. 1 |-> IF i = 0 THEN <<>> ELSE x]
<1>1. s \in Seq(Seq(X)) /\ Len(s) = 1 /\ s[1] = x
  BY SMT
<1>2. <<>> \in Seq(X) /\ Cat(<<>>, x) = x
  BY EmptySeq, CatEmpty
<1>3. f \in [0 .. 1 -> Seq(X)] /\ f[0] = <<>> /\ f[1] = x
  BY <1>2, SMT
<1> HIDE DEF f, s
<1>4. Grows(s, f)
  <2>1. \A i \in 1 .. 1 : i = 1 /\ i - 1 = 0
    BY SMT
  <2>2. QED
    BY <1>1, <1>2, <1>3, <2>1 DEF Grows
<1>5. FlattenSeq(s) = f[1]
  BY <1>1, <1>3, <1>4, FlattenIs
<1>6. QED
  BY <1>3, <1>5 DEF s

\* A place behind the first of two sequences.
LEMMA BehindFirst ==
  ASSUME NEW n \in Nat, NEW m \in Nat, NEW i \in 1 .. n + m, ~ (i <= n)
  PROVE  i - n \in 1 .. m /\ i - n - 1 \in 0 .. m /\ (i - 1 <= n <=> i - n = 1) /\ i - 1 - n = i - n - 1
BY SMT

\* Two lists of sequences are flattened one after the other.
LEMMA FlattenConcat ==
  ASSUME NEW X, NEW s \in Seq(Seq(X)), NEW t \in Seq(Seq(X))
  PROVE  FlattenSeq(Cat(s, t)) = Cat(FlattenSeq(s), FlattenSeq(t))
<1> DEFINE n == Len(s)
           m == Len(t)
           u == Cat(s, t)
<1>1. PICK f \in [0 .. n -> Seq(X)] : Grows(s, f) /\ FlattenSeq(s) = f[n]
  BY FlattenIs
<1>2. PICK g \in [0 .. m -> Seq(X)] : Grows(t, g) /\ FlattenSeq(t) = g[m]
  BY FlattenIs
<1>3. /\ n \in Nat /\ m \in Nat /\ u \in Seq(Seq(X)) /\ Len(u) = n + m
      /\ \A i \in 1 .. n + m : u[i] = IF i <= n THEN s[i] ELSE t[i - n]
  BY LenProperties, CatProperties
<1>4. (\A i \in 1 .. n : s[i] \in Seq(X)) /\ \A i \in 1 .. m : t[i] \in Seq(X)
  BY ElementOfSeq
<1> HIDE DEF u
<1> DEFINE h == [i \in 0 .. n + m |-> IF i <= n THEN f[i] ELSE Cat(f[n], g[i - n])]
<1>5. n \in 0 .. n /\ m \in 0 .. m /\ 0 \in 0 .. n /\ 0 \in 0 .. m /\ 0 \in 0 .. n + m /\ n + m \in 0 .. n + m
  BY <1>3, SMT
<1>6. h \in [0 .. n + m -> Seq(X)]
  <2>1. ASSUME NEW i \in 0 .. n + m
        PROVE  (IF i <= n THEN f[i] ELSE Cat(f[n], g[i - n])) \in Seq(X)
    <3>1. CASE i <= n
      <4>1. i \in 0 .. n
        BY <1>3, <3>1, SMT
      <4>2. QED
        BY <3>1, <4>1
    <3>2. CASE ~ (i <= n)
      <4>1. i - n \in 0 .. m
        BY <1>3, <3>2, SMT
      <4>2. f[n] \in Seq(X) /\ g[i - n] \in Seq(X)
        BY <4>1, <1>5
      <4>3. QED
        BY <3>2, <4>2, CatProperties
    <3>3. QED
      BY <3>1, <3>2
  <2>2. QED
    BY <2>1
<1>7. h[0] = <<>>
  <2>1. 0 <= n
    BY <1>3, SMT
  <2>2. QED
    BY <1>1, <1>5, <2>1 DEF Grows
<1>8. ASSUME NEW i \in 1 .. n + m
      PROVE  h[i] = Cat(h[i - 1], u[i])
  <2>1. i \in 0 .. n + m /\ i - 1 \in 0 .. n + m
    BY <1>3, SMT
  <2>2. CASE i <= n
    <3>1. i \in 1 .. n /\ i - 1 <= n
      BY <1>3, <2>2, SMT
    <3>2. h[i] = f[i] /\ h[i - 1] = f[i - 1] /\ u[i] = s[i]
      BY <1>3, <2>1, <2>2, <3>1
    <3>3. QED
      BY <1>1, <3>1, <3>2 DEF Grows
  <2>3. CASE ~ (i <= n)
    <3>1. i - n \in 1 .. m /\ i - n - 1 \in 0 .. m /\ (i - 1 <= n <=> i - n = 1) /\ i - 1 - n = i - n - 1
      <4>1. n \in Nat /\ m \in Nat
        BY <1>3
      <4> HIDE DEF n, m, h
      <4>2. QED
        BY <4>1, <2>3, BehindFirst
    <3>2. h[i] = Cat(f[n], g[i - n]) /\ u[i] = t[i - n]
      BY <1>3, <2>1, <2>3
    <3>3. g[i - n] = Cat(g[i - n - 1], t[i - n])
      BY <1>2, <3>1 DEF Grows
    <3>4. f[n] \in Seq(X) /\ g[i - n - 1] \in Seq(X) /\ t[i - n] \in Seq(X)
      BY <1>4, <1>5, <3>1
    <3>5. h[i] = Cat(Cat(f[n], g[i - n - 1]), t[i - n])
      <4>1. Cat(Cat(f[n], g[i - n - 1]), t[i - n]) = Cat(f[n], Cat(g[i - n - 1], t[i - n]))
        BY <3>4, CatAssociative
      <4> HIDE DEF h
      <4>2. QED
        BY <3>2, <3>3, <4>1, Zenon
    <3>6. h[i - 1] = Cat(f[n], g[i - n - 1])
      <4>1. CASE i - 1 <= n
        <5>1. i - 1 = n /\ i - n - 1 = 0
          BY <1>3, <2>3, <4>1, SMT
        <5>2. h[i - 1] = f[n] /\ g[i - n - 1] = <<>>
          BY <1>2, <2>1, <4>1, <5>1 DEF Grows
        <5>3. QED
          BY <5>2, <3>4, CatEmpty
      <4>2. CASE ~ (i - 1 <= n)
        BY <2>1, <3>1, <4>2
      <4>3. QED
        BY <4>1, <4>2
    <3>7. QED
      BY <3>2, <3>5, <3>6
  <2>4. QED
    BY <2>2, <2>3
<1>9. FlattenSeq(u) = h[n + m]
  <2> HIDE DEF h
  <2>1. Grows(u, h)
    BY <1>3, <1>7, <1>8 DEF Grows
  <2>2. QED
    BY <1>3, <1>6, <2>1, FlattenIs
<1>10. h[n + m] = Cat(f[n], g[m])
  <2>1. CASE m = 0
    <3>1. n + m = n /\ n <= n
      BY <1>3, <2>1, SMT
    <3>2. h[n + m] = f[n] /\ g[m] = <<>>
      BY <1>2, <1>5, <2>1, <3>1 DEF Grows
    <3>3. f[n] \in Seq(X)
      BY <1>5
    <3>4. QED
      BY <3>2, <3>3, CatEmpty
  <2>2. CASE m # 0
    <3>1. ~ (n + m <= n) /\ n + m - n = m
      BY <1>3, <2>2, SMT
    <3>2. QED
      BY <1>5, <3>1
  <2>3. QED
    BY <2>1, <2>2
<1>11. QED
  BY <1>1, <1>2, <1>9, <1>10 DEF u

-----------------------------------------------------------------------------
(* Where a byte goes does not depend on how the kernel cuts the reads.      *)

-----------------------------------------------------------------------------
(* The lanes of the bytes of one call.                                      *)

\* Quotient and remainder.
LEMMA Division ==
  ASSUME NEW b \in Nat \ {0}, NEW x \in Nat
  PROVE  /\ x \div b \in Nat /\ x % b \in 0 .. b - 1
         /\ x = b * (x \div b) + (x % b)
         /\ b * (x \div b) \in Nat
<1>1. x \div b \in Nat /\ x % b \in 0 .. b - 1
  BY SMT
<1>2. x % b = x - b * (x \div b)
  BY SMT
<1> DEFINE q == x \div b
<1>4. q \in Nat
  BY <1>1
<1> HIDE DEF q
<1>5. b * q \in Nat
  BY <1>4, SMT
<1>6. x % b = x - b * q /\ x % b \in Nat
  BY <1>1, <1>2, SMT DEF q
<1>7. x = b * q + (x % b)
  BY <1>5, <1>6, SMT
<1>8. QED
  BY <1>1, <1>5, <1>7 DEF q

\* A number is divided in one way only.
LEMMA Divided ==
  ASSUME NEW b \in Nat \ {0}, NEW q \in Nat, NEW r \in 0 .. b - 1
  PROVE  (b * q + r) \div b = q /\ (b * q + r) % b = r
BY SMT

\* The bytes up to the end of a block, and where the block of a byte starts.
HeadOf(seen) == (LaneBytes - (seen % LaneBytes)) % LaneBytes
StartOf(i, head) == i - ((i - head - 1) % LaneBytes)

LEMMA HeadAligns ==
  ASSUME NEW seen \in Nat
  PROVE  HeadOf(seen) \in Nat /\ \E k \in Nat : seen + HeadOf(seen) = LaneBytes * k
<1> DEFINE b == LaneBytes
           q == seen \div b
           r == seen % b
           m == HeadOf(seen)
<1>0. b \in Nat \ {0}
  BY Custody16Assumption
<1>1. q \in Nat /\ r \in 0 .. b - 1 /\ seen = b * q + r /\ b * q \in Nat
  BY <1>0, Division
<1>2. m = (b - r) % b
  BY DEF HeadOf
<1>3. SUFFICES m \in Nat /\ \E k \in Nat : seen + m = b * k
  OBVIOUS
<1> HIDE DEF b, q, r, m
<1>4. CASE r = 0
  <2>1. b - r = b * 1 + 0 /\ 0 \in 0 .. b - 1 /\ 1 \in Nat
    BY <1>0, <1>4, SMT
  <2>2. m = 0
    BY <1>0, <1>2, <2>1, Divided
  <2>3. seen + m = b * q
    BY <1>1, <1>4, <2>2, SMT
  <2>4. QED
    BY <1>1, <2>2, <2>3
<1>5. CASE r # 0
  <2>1. b - r = b * 0 + (b - r) /\ b - r \in 0 .. b - 1 /\ 0 \in Nat
    BY <1>0, <1>1, <1>5, SMT
  <2>2. m = b - r
    BY <1>0, <1>2, <2>1, Divided
  <2>3. seen + m = b * q + b /\ b * (q + 1) = b * q + b /\ q + 1 \in Nat /\ m \in Nat
    BY <1>0, <1>1, <2>1, <2>2, SMT
  <2>4. QED
    BY <2>3
<1>6. QED
  BY <1>4, <1>5

\* The first byte of a whole block is at a multiple of the block's length.
LEMMA BlockStart ==
  ASSUME NEW seen \in Nat, NEW i \in Nat \ {0}, i > HeadOf(seen)
  PROVE  /\ i - StartOf(i, HeadOf(seen)) = (seen + i - 1) % LaneBytes
         /\ (seen + StartOf(i, HeadOf(seen)) - 1) \div LaneBytes = (seen + i - 1) \div LaneBytes
<1> DEFINE b == LaneBytes
           head == HeadOf(seen)
           x == i - head - 1
           q == x \div b
           r == x % b
<1>0. b \in Nat \ {0}
  BY Custody16Assumption
<1>k. PICK k \in Nat : seen + head = b * k
  BY HeadAligns
<1>1. head \in Nat /\ x \in Nat
  <2>1. head \in Nat /\ i > head
    BY HeadAligns
  <2> HIDE DEF head
  <2>2. QED
    BY <2>1, SMT
<1>2. q \in Nat /\ r \in 0 .. b - 1 /\ x = b * q + r /\ b * q \in Nat
  <2> HIDE DEF x, b
  <2>1. QED
    BY <1>0, <1>1, Division
<1>3. StartOf(i, HeadOf(seen)) = i - r
  BY DEF StartOf
<1>4. i - head - 1 = b * q + r
  BY <1>2
<1>5. SUFFICES i - (i - r) = (seen + i - 1) % b /\ (seen + (i - r) - 1) \div b = (seen + i - 1) \div b
  BY <1>3
<1> HIDE DEF x, q, r, head, b
<1>6. b * k \in Nat /\ b * (k + q) = b * k + b * q /\ k + q \in Nat
  BY <1>0, <1>2, SMT
<1>7. /\ seen + i - 1 = b * (k + q) + r
      /\ seen + (i - r) - 1 = b * (k + q) + 0 /\ 0 \in 0 .. b - 1
      /\ i - (i - r) = r
  BY <1>0, <1>1, <1>k, <1>2, <1>4, <1>6, SMT
<1>8. (seen + i - 1) \div b = k + q /\ (seen + i - 1) % b = r
  <2> DEFINE j == k + q
             z == seen + i - 1
  <2>1. j \in Nat /\ z = b * j + r
    BY <1>6, <1>7
  <2> HIDE DEF j, z
  <2>2. z \div b = j /\ z % b = r
    BY <1>0, <1>2, <2>1, Divided
  <2>3. QED
    BY <2>2 DEF j, z
<1>9. (seen + (i - r) - 1) \div b = k + q
  BY <1>0, <1>6, <1>7, Divided
<1>10. i - (i - r) = (seen + i - 1) % b
  BY <1>7, <1>8, Zenon
<1>11. (seen + (i - r) - 1) \div b = (seen + i - 1) \div b
  BY <1>8, <1>9, Zenon
<1>12. QED
  BY <1>10, <1>11, Zenon

\* A byte is placed by its position in the file.
PlaceOf(base, p, byte) ==
  [lane |-> (base + p \div LaneBytes) % Lanes, item |-> <<byte, p % LaneBytes>>]

LEMMA PlacedByPosition ==
  ASSUME NEW c, NEW data \in Seq(Nat), c.seen \in Nat, NEW i \in DOMAIN data
  PROVE  placed(c, data)[i] = PlaceOf(c.base, c.seen + i - 1, data[i])
<1> DEFINE seen == c.seen
           head == HeadOf(seen)
           blocks == IF Len(data) > head THEN (Len(data) - head) \div LaneBytes ELSE 0
           whole == i > head /\ i <= head + blocks * LaneBytes
           start == IF whole THEN StartOf(i, head) ELSE i
<1>1. i \in Nat \ {0}
  BY LenProperties, SMT
<1>3. placed(c, data)[i] =
        [lane |-> lane_of(c, start, whole),
         item |-> <<data[i], IF whole THEN i - start ELSE (c.seen + i - 1) % LaneBytes>>]
  BY DEF placed, HeadOf, StartOf
<1>4. seen \in Nat
  OBVIOUS
<1>5. CASE whole
  <2>1. /\ i - start = (seen + i - 1) % LaneBytes
        /\ (seen + start - 1) \div LaneBytes = (seen + i - 1) \div LaneBytes
    <3>1. start = StartOf(i, HeadOf(seen)) /\ i > HeadOf(seen)
      BY <1>5
    <3> HIDE DEF head, start, seen, whole
    <3>2. QED
      BY <1>1, <1>4, <3>1, BlockStart
  <2>2. lane_of(c, start, whole) = (c.base + (seen + i - 1) \div LaneBytes) % Lanes
    <3>1. lane_of(c, start, whole) = (c.base + (seen + start - 1) \div LaneBytes) % Lanes
      BY DEF lane_of
    <3> HIDE DEF start, seen, whole
    <3>2. QED
      BY <2>1, <3>1
  <2>3. QED
    BY <1>3, <1>5, <2>1, <2>2 DEF PlaceOf
<1>6. CASE ~ whole
  BY <1>3, <1>6 DEF PlaceOf, lane_of
<1>7. QED
  BY <1>5, <1>6

-----------------------------------------------------------------------------
(* What a context holds, and what entries and data do to it.                *)

EntryKinds == {"REGULAR", "DIRECTORY", "SYMLINK_SKIPPED"}
Begun == {<<"ENTR", e, n, k>> : e \in Entries, n \in Nat, k \in EntryKinds}
Closed == {<<"ENDR", e, n>> : e \in Entries, n \in Nat}
Read == {<<"DATA", b>> : b \in Nat}
LogItems == Begun \cup Closed \cup Read
LaneItems == Begun \cup (Nat \X Nat)
LaneSeqs == Seq(LaneItems)
LaneSet == 0 .. Lanes - 1
Contexts == [log : Seq(LogItems), lanes : [LaneSet -> Seq(LaneItems)],
             declared : Nat, seen : Nat, base : Nat]

\* What a lane gets of bytes from a position on.
Pieces(base, l, data, from) ==
  [i \in DOMAIN data |->
     IF PlaceOf(base, from + i - 1, data[i]).lane = l
     THEN <<PlaceOf(base, from + i - 1, data[i]).item>> ELSE <<>>]

LEMMA PiecesType ==
  ASSUME NEW base \in Nat, NEW l, NEW data \in Seq(Nat), NEW from \in Nat
  PROVE  /\ Pieces(base, l, data, from) \in Seq(LaneSeqs)
         /\ Len(Pieces(base, l, data, from)) = Len(data)
         /\ FlattenSeq(Pieces(base, l, data, from)) \in Seq(LaneItems)
<1> DEFINE n == Len(data)
           p == Pieces(base, l, data, from)
<1>1. n \in Nat /\ DOMAIN data = 1 .. n /\ \A i \in 1 .. n : data[i] \in Nat
  BY LenProperties, ElementOfSeq
<1>2. ASSUME NEW i \in 1 .. n
      PROVE  p[i] \in Seq(LaneItems)
  <2> DEFINE item == <<data[i], (from + i - 1) % LaneBytes>>
  <2>1. p[i] = <<>> \/ p[i] = <<item>>
    BY <1>1 DEF Pieces, PlaceOf
  <2>2. LaneBytes \in Nat \ {0} /\ from + i - 1 \in Nat
    BY <1>1, Custody16Assumption, SMT
  <2>3. (from + i - 1) % LaneBytes \in Nat
    <3> DEFINE x == from + i - 1
    <3>1. x \in Nat
      BY <2>2
    <3> HIDE DEF x
    <3>2. x % LaneBytes \in 0 .. LaneBytes - 1
      BY <2>2, <3>1, Division
    <3>3. x % LaneBytes \in Nat
      BY <2>2, <3>2, SMT
    <3>4. QED
      BY <3>3 DEF x
  <2>4. item \in LaneItems
    BY <1>1, <2>3 DEF LaneItems
  <2> HIDE DEF item, LaneItems
  <2>5. <<item>> \in Seq(LaneItems) /\ <<>> \in Seq(LaneItems)
    BY <2>4, SMT
  <2>6. QED
    BY <2>1, <2>5
<1>3. p = [i \in 1 .. n |-> p[i]]
  BY <1>1 DEF Pieces
<1> HIDE DEF p
<1>4. p \in [1 .. n -> LaneSeqs]
  BY <1>2, <1>3 DEF LaneSeqs
<1>5. p \in Seq(LaneSeqs) /\ Len(p) = n
  BY <1>1, <1>4, SMT
<1>6. FlattenSeq(p) \in Seq(LaneItems)
  BY <1>5, FlattenType DEF LaneSeqs
<1>7. QED
  BY <1>5, <1>6 DEF p

\* Cut bytes give a lane what they give it at once.
LEMMA PiecesConcat ==
  ASSUME NEW base \in Nat, NEW l, NEW x \in Seq(Nat), NEW y \in Seq(Nat), NEW from \in Nat
  PROVE  Pieces(base, l, Cat(x, y), from) = Cat(Pieces(base, l, x, from), Pieces(base, l, y, from + Len(x)))
<1> DEFINE n == Len(x)
           m == Len(y)
           z == Cat(x, y)
           a == Pieces(base, l, x, from)
           b == Pieces(base, l, y, from + n)
           c == Pieces(base, l, z, from)
<1>1. /\ n \in Nat /\ m \in Nat /\ z \in Seq(Nat) /\ Len(z) = n + m
      /\ \A i \in 1 .. n + m : z[i] = IF i <= n THEN x[i] ELSE y[i - n]
      /\ from + n \in Nat
      /\ DOMAIN x = 1 .. n /\ DOMAIN y = 1 .. m
  <2>1. /\ n \in Nat /\ m \in Nat /\ DOMAIN x = 1 .. n /\ DOMAIN y = 1 .. m
    BY LenProperties
  <2>2. from + n \in Nat
    BY <2>1, SMT
  <2>3. /\ z \in Seq(Nat) /\ Len(z) = n + m
        /\ \A i \in 1 .. n + m : z[i] = IF i <= n THEN x[i] ELSE y[i - n]
    BY CatProperties, Zenon
  <2>4. QED
    BY <2>1, <2>2, <2>3
<1>2. DOMAIN z = 1 .. n + m
  BY <1>1, LenProperties
<1> HIDE DEF z
<1>3. /\ a \in Seq(LaneSeqs) /\ Len(a) = n
      /\ b \in Seq(LaneSeqs) /\ Len(b) = m
      /\ c \in Seq(LaneSeqs) /\ Len(c) = n + m
  BY <1>1, PiecesType
<1>4. /\ Cat(a, b) \in Seq(LaneSeqs) /\ Len(Cat(a, b)) = n + m
      /\ \A i \in 1 .. n + m : Cat(a, b)[i] = IF i <= n THEN a[i] ELSE b[i - n]
  <2> DEFINE S == LaneSeqs
  <2>1. a \in Seq(S) /\ b \in Seq(S)
    BY <1>3
  <2> HIDE DEF a, b, S
  <2>2. /\ Cat(a, b) \in Seq(S) /\ Len(Cat(a, b)) = n + m
        /\ \A i \in 1 .. n + m : Cat(a, b)[i] = IF i <= n THEN a[i] ELSE b[i - n]
    <3>1. /\ Cat(a, b) \in Seq(S) /\ Len(Cat(a, b)) = Len(a) + Len(b)
          /\ \A i \in 1 .. Len(a) + Len(b) : Cat(a, b)[i] = IF i <= Len(a) THEN a[i] ELSE b[i - Len(a)]
      BY <2>1, CatProperties, Zenon
    <3>2. QED
      BY <1>3, <3>1
  <2>3. QED
    BY <2>2 DEF S
<1> DEFINE at(byte, p) == IF PlaceOf(base, p, byte).lane = l THEN <<PlaceOf(base, p, byte).item>> ELSE <<>>
<1>5. /\ \A i \in 1 .. n : a[i] = at(x[i], from + i - 1)
      /\ \A i \in 1 .. m : b[i] = at(y[i], from + n + i - 1)
      /\ \A i \in 1 .. n + m : c[i] = at(z[i], from + i - 1)
  BY <1>1, <1>2, Zenon DEF Pieces
<1> HIDE DEF a, b, c, at
<1>6. ASSUME NEW i \in 1 .. n + m
      PROVE  c[i] = Cat(a, b)[i]
  <2>1. CASE i <= n
    <3>1. i \in 1 .. n
      BY <1>1, <2>1, SMT
    <3>2. QED
      BY <1>1, <1>4, <1>5, <2>1, <3>1, Zenon
  <2>2. CASE ~ (i <= n)
    <3>1. i - n \in 1 .. m /\ from + n + (i - n) - 1 = from + i - 1
      BY <1>1, <2>2, SMT
    <3>2. b[i - n] = at(y[i - n], from + n + (i - n) - 1)
      BY <1>5, <3>1
    <3>3. QED
      BY <1>1, <1>4, <1>5, <2>2, <3>1, <3>2, Zenon
  <2>3. QED
    BY <2>1, <2>2
<1>7. c = Cat(a, b)
  <2> DEFINE d == Cat(a, b)
  <2>1. d \in Seq(LaneSeqs) /\ Len(d) = n + m /\ \A i \in 1 .. n + m : c[i] = d[i]
    BY <1>4, <1>6
  <2> HIDE DEF d
  <2>2. c = d
    BY <1>3, <2>1, SeqEqual
  <2>3. QED
    BY <2>2 DEF d
<1>8. QED
  BY <1>7 DEF a, b, c, z

\* The bytes of a call in the log.
LEMMA LoggedType ==
  ASSUME NEW data \in Seq(Nat)
  PROVE  /\ logged(data) \in Seq(LogItems) /\ Len(logged(data)) = Len(data)
         /\ \A i \in 1 .. Len(data) : logged(data)[i] = <<"DATA", data[i]>>
<1> DEFINE n == Len(data)
           p == logged(data)
<1>1. n \in Nat /\ DOMAIN data = 1 .. n /\ \A i \in 1 .. n : data[i] \in Nat
  BY LenProperties, ElementOfSeq
<1>2. p = [i \in 1 .. n |-> <<"DATA", data[i]>>]
  BY <1>1 DEF logged
<1>3. \A i \in 1 .. n : p[i] = <<"DATA", data[i]>> /\ <<"DATA", data[i]>> \in LogItems
  BY <1>1, <1>2 DEF LogItems, Read
<1>4. p = [i \in 1 .. n |-> p[i]]
  BY <1>2
<1> HIDE DEF p, n
<1>5. p \in [1 .. n -> LogItems]
  BY <1>3, <1>4
<1>6. p \in Seq(LogItems) /\ Len(p) = n
  BY <1>1, <1>5, SMT
<1>7. QED
  BY <1>3, <1>6 DEF p, n

LEMMA LoggedConcat ==
  ASSUME NEW x \in Seq(Nat), NEW y \in Seq(Nat)
  PROVE  logged(Cat(x, y)) = Cat(logged(x), logged(y))
<1> DEFINE n == Len(x)
           m == Len(y)
           z == Cat(x, y)
           a == logged(x)
           b == logged(y)
           c == logged(z)
           d == Cat(a, b)
<1>1. /\ n \in Nat /\ m \in Nat /\ z \in Seq(Nat) /\ Len(z) = n + m
      /\ \A i \in 1 .. n + m : z[i] = IF i <= n THEN x[i] ELSE y[i - n]
  <2>1. n \in Nat /\ m \in Nat
    BY LenProperties
  <2>2. /\ z \in Seq(Nat) /\ Len(z) = n + m
        /\ \A i \in 1 .. n + m : z[i] = IF i <= n THEN x[i] ELSE y[i - n]
    BY CatProperties, Zenon
  <2>3. QED
    BY <2>1, <2>2
<1> HIDE DEF z
<1>2. /\ a \in Seq(LogItems) /\ Len(a) = n /\ \A i \in 1 .. n : a[i] = <<"DATA", x[i]>>
      /\ b \in Seq(LogItems) /\ Len(b) = m /\ \A i \in 1 .. m : b[i] = <<"DATA", y[i]>>
      /\ c \in Seq(LogItems) /\ Len(c) = n + m /\ \A i \in 1 .. n + m : c[i] = <<"DATA", z[i]>>
  BY <1>1, LoggedType
<1> HIDE DEF a, b, c
<1>3. /\ d \in Seq(LogItems) /\ Len(d) = n + m
      /\ \A i \in 1 .. n + m : d[i] = IF i <= n THEN a[i] ELSE b[i - n]
  <2>1. a \in Seq(LogItems) /\ b \in Seq(LogItems)
    BY <1>2
  <2>2. /\ d \in Seq(LogItems) /\ Len(d) = Len(a) + Len(b)
        /\ \A i \in 1 .. Len(a) + Len(b) : d[i] = IF i <= Len(a) THEN a[i] ELSE b[i - Len(a)]
    BY <2>1, CatProperties, Zenon
  <2>3. QED
    BY <1>2, <2>2
<1> HIDE DEF d
<1>4. ASSUME NEW i \in 1 .. n + m
      PROVE  c[i] = d[i]
  <2>1. CASE i <= n
    <3>1. i \in 1 .. n
      BY <1>1, <2>1, SMT
    <3>2. QED
      BY <1>1, <1>2, <1>3, <2>1, <3>1, Zenon
  <2>2. CASE ~ (i <= n)
    <3>1. i - n \in 1 .. m
      <4>1. n \in Nat /\ m \in Nat
        BY <1>1
      <4> HIDE DEF n, m
      <4>2. QED
        BY <4>1, <2>2, BehindFirst
    <3>2. QED
      BY <1>1, <1>2, <1>3, <2>2, <3>1, Zenon
  <2>3. QED
    BY <2>1, <2>2
<1>5. c = d
  BY <1>2, <1>3, <1>4, SeqEqual
<1>6. QED
  BY <1>5 DEF a, b, c, d, z

LEMMA LoggedNothing == logged(<<>>) = <<>>
<1>1. <<>> \in Seq(Nat) /\ Len(<<>>) = 0
  BY EmptySeq
<1>2. logged(<<>>) \in Seq(LogItems) /\ Len(logged(<<>>)) = 0
  BY <1>1, LoggedType
<1>3. QED
  BY <1>2, EmptySeq

\* rmr_fc16_entry_data by positions.
LEMMA DataIs ==
  ASSUME NEW c \in Contexts, NEW data \in Seq(Nat)
  PROVE  rmr_fc16_entry_data(c, data) =
           [log |-> Cat(c.log, logged(data)),
            lanes |-> [l \in LaneSet |-> Cat(c.lanes[l], FlattenSeq(Pieces(c.base, l, data, c.seen)))],
            declared |-> c.declared, seen |-> c.seen + Len(data), base |-> c.base]
<1> DEFINE p == placed(c, data)
           onto(l) == FlattenSeq([i \in DOMAIN data |-> IF p[i].lane = l THEN <<p[i].item>> ELSE <<>>])
           lanes == [l \in DOMAIN c.lanes |-> Cat(c.lanes[l], onto(l))]
<1>1. rmr_fc16_entry_data(c, data) =
        [c EXCEPT !.log = Cat(c.log, logged(data)), !.seen = c.seen + Len(data), !.lanes = lanes]
  BY DEF rmr_fc16_entry_data, Cat
<1>2. c.seen \in Nat /\ DOMAIN c.lanes = LaneSet
  BY DEF Contexts
<1>3. \A i \in DOMAIN data : p[i] = PlaceOf(c.base, c.seen + i - 1, data[i])
  BY <1>2, PlacedByPosition
<1>4. ASSUME NEW l \in LaneSet
      PROVE  onto(l) = FlattenSeq(Pieces(c.base, l, data, c.seen))
  <2> HIDE DEF p
  <2>1. [i \in DOMAIN data |-> IF p[i].lane = l THEN <<p[i].item>> ELSE <<>>] =
          Pieces(c.base, l, data, c.seen)
    BY <1>3 DEF Pieces
  <2>2. QED
    BY <2>1
<1>5. lanes = [l \in LaneSet |-> Cat(c.lanes[l], FlattenSeq(Pieces(c.base, l, data, c.seen)))]
  <2> HIDE DEF onto
  <2>1. QED
    BY <1>2, <1>4
<1> HIDE DEF lanes
<1>6. c = [log |-> c.log, lanes |-> c.lanes, declared |-> c.declared, seen |-> c.seen, base |-> c.base]
  BY DEF Contexts
<1>7. rmr_fc16_entry_data(c, data) =
        [log |-> Cat(c.log, logged(data)), lanes |-> lanes, declared |-> c.declared, seen |-> c.seen + Len(data), base |-> c.base]
  BY <1>1, <1>6
<1>8. QED
  BY <1>5, <1>7, Zenon

LEMMA DataType ==
  ASSUME NEW c \in Contexts, NEW data \in Seq(Nat)
  PROVE  rmr_fc16_entry_data(c, data) \in Contexts
<1>1. /\ c.log \in Seq(LogItems) /\ c.lanes \in [LaneSet -> Seq(LaneItems)]
      /\ c.declared \in Nat /\ c.seen \in Nat /\ c.base \in Nat
  BY DEF Contexts
<1>2. logged(data) \in Seq(LogItems) /\ Len(data) \in Nat
  BY LoggedType, LenProperties
<1>3. Cat(c.log, logged(data)) \in Seq(LogItems)
  BY <1>1, <1>2, CatProperties
<1>4. ASSUME NEW l \in LaneSet
      PROVE  Cat(c.lanes[l], FlattenSeq(Pieces(c.base, l, data, c.seen))) \in Seq(LaneItems)
  <2>1. c.lanes[l] \in Seq(LaneItems)
    BY <1>1
  <2>2. FlattenSeq(Pieces(c.base, l, data, c.seen)) \in Seq(LaneItems)
    BY <1>1, PiecesType
  <2> HIDE DEF LaneItems
  <2>3. QED
    BY <2>1, <2>2, CatProperties
<1>5. c.seen + Len(data) \in Nat
  BY <1>1, <1>2, SMT
<1> DEFINE lanes == [l \in LaneSet |-> Cat(c.lanes[l], FlattenSeq(Pieces(c.base, l, data, c.seen)))]
<1>6. lanes \in [LaneSet -> Seq(LaneItems)]
  <2> HIDE DEF LaneItems, LaneSet
  <2>1. QED
    BY <1>4
<1>7. rmr_fc16_entry_data(c, data) =
        [log |-> Cat(c.log, logged(data)), lanes |-> lanes,
         declared |-> c.declared, seen |-> c.seen + Len(data), base |-> c.base]
  BY DataIs
<1> HIDE DEF LogItems, LaneItems, LaneSet, lanes
<1>8. QED
  BY <1>1, <1>3, <1>5, <1>6, <1>7 DEF Contexts

\* Two calls of rmr_fc16_entry_data leave the context that one call with all
\* their bytes does: how the kernel cuts a file into reads leaves no trace.
THEOREM DataTwice ==
  ASSUME NEW c \in Contexts, NEW x \in Seq(Nat), NEW y \in Seq(Nat)
  PROVE  rmr_fc16_entry_data(rmr_fc16_entry_data(c, x), y) = rmr_fc16_entry_data(c, Cat(x, y))
<1> DEFINE d == rmr_fc16_entry_data(c, x)
           fx(l) == FlattenSeq(Pieces(c.base, l, x, c.seen))
           fy(l) == FlattenSeq(Pieces(c.base, l, y, c.seen + Len(x)))
           fz(l) == FlattenSeq(Pieces(c.base, l, Cat(x, y), c.seen))
<1>1. /\ c.log \in Seq(LogItems) /\ c.lanes \in [LaneSet -> Seq(LaneItems)]
      /\ c.declared \in Nat /\ c.seen \in Nat /\ c.base \in Nat
  BY DEF Contexts
<1>2. /\ Cat(x, y) \in Seq(Nat) /\ Len(x) \in Nat /\ Len(y) \in Nat /\ Len(Cat(x, y)) = Len(x) + Len(y)
      /\ c.seen + Len(x) \in Nat
  <2>1. Cat(x, y) \in Seq(Nat) /\ Len(Cat(x, y)) = Len(x) + Len(y)
    BY CatProperties, Zenon
  <2>2. Len(x) \in Nat /\ Len(y) \in Nat
    BY LenProperties
  <2>3. c.seen + Len(x) \in Nat
    BY <1>1, <2>2, SMT
  <2>4. QED
    BY <2>1, <2>2, <2>3
<1>3. logged(x) \in Seq(LogItems) /\ logged(y) \in Seq(LogItems) /\ logged(Cat(x, y)) = Cat(logged(x), logged(y))
  BY LoggedType, LoggedConcat
<1>4. Cat(Cat(c.log, logged(x)), logged(y)) = Cat(c.log, logged(Cat(x, y)))
  BY <1>1, <1>3, CatAssociative
<1>5. ASSUME NEW l \in LaneSet
      PROVE  Cat(Cat(c.lanes[l], fx(l)), fy(l)) = Cat(c.lanes[l], fz(l))
  <2> DEFINE px == Pieces(c.base, l, x, c.seen)
             py == Pieces(c.base, l, y, c.seen + Len(x))
  <2>1. px \in Seq(LaneSeqs) /\ py \in Seq(LaneSeqs) /\ fx(l) \in Seq(LaneItems) /\ fy(l) \in Seq(LaneItems)
    <3> DEFINE from == c.seen + Len(x)
    <3>1. from \in Nat /\ from = c.seen + Len(x)
      BY <1>2
    <3> HIDE DEF from
    <3>2. Pieces(c.base, l, y, from) \in Seq(LaneSeqs) /\ FlattenSeq(Pieces(c.base, l, y, from)) \in Seq(LaneItems)
      BY <1>1, <3>1, PiecesType
    <3>3. px \in Seq(LaneSeqs) /\ fx(l) \in Seq(LaneItems)
      BY <1>1, PiecesType
    <3>4. QED
      BY <3>1, <3>2, <3>3
  <2>2. Pieces(c.base, l, Cat(x, y), c.seen) = Cat(px, py)
    BY <1>1, PiecesConcat
  <2>3. fz(l) = FlattenSeq(Cat(px, py))
    BY <2>2
  <2>4. FlattenSeq(Cat(px, py)) = Cat(fx(l), fy(l))
    <3> HIDE DEF px, py
    <3>1. FlattenSeq(Cat(px, py)) = Cat(FlattenSeq(px), FlattenSeq(py))
      BY <2>1, FlattenConcat DEF LaneSeqs
    <3>2. QED
      BY <3>1 DEF px, py
  <2>5. c.lanes[l] \in Seq(LaneItems)
    BY <1>1
  <2> HIDE DEF fx, fy, fz, LaneItems
  <2>6. Cat(Cat(c.lanes[l], fx(l)), fy(l)) = Cat(c.lanes[l], Cat(fx(l), fy(l)))
    BY <2>1, <2>5, CatAssociative
  <2>7. QED
    BY <2>3, <2>4, <2>6
<1>6. d = [log |-> Cat(c.log, logged(x)), lanes |-> [l \in LaneSet |-> Cat(c.lanes[l], fx(l))],
           declared |-> c.declared, seen |-> c.seen + Len(x), base |-> c.base]
  BY DataIs
<1>7. d \in Contexts
  BY DataType
<1>8. rmr_fc16_entry_data(d, y) =
        [log |-> Cat(d.log, logged(y)),
         lanes |-> [l \in LaneSet |-> Cat(d.lanes[l], FlattenSeq(Pieces(d.base, l, y, d.seen)))],
         declared |-> d.declared, seen |-> d.seen + Len(y), base |-> d.base]
  <2> HIDE DEF d
  <2>1. QED
    BY <1>7, DataIs
<1>9. rmr_fc16_entry_data(c, Cat(x, y)) =
        [log |-> Cat(c.log, logged(Cat(x, y))), lanes |-> [l \in LaneSet |-> Cat(c.lanes[l], fz(l))],
         declared |-> c.declared, seen |-> c.seen + Len(Cat(x, y)), base |-> c.base]
  BY <1>2, DataIs
<1> HIDE DEF d
<1>10. /\ d.log = Cat(c.log, logged(x)) /\ d.declared = c.declared /\ d.seen = c.seen + Len(x) /\ d.base = c.base
       /\ \A l \in LaneSet : d.lanes[l] = Cat(c.lanes[l], fx(l))
  <2> HIDE DEF fx
  <2>1. QED
    BY <1>6
<1>11. [l \in LaneSet |-> Cat(d.lanes[l], FlattenSeq(Pieces(d.base, l, y, d.seen)))] =
         [l \in LaneSet |-> Cat(c.lanes[l], fz(l))]
  <2>1. ASSUME NEW l \in LaneSet
        PROVE  Cat(d.lanes[l], FlattenSeq(Pieces(d.base, l, y, d.seen))) = Cat(c.lanes[l], fz(l))
    <3>1. FlattenSeq(Pieces(d.base, l, y, d.seen)) = fy(l)
      BY <1>10
    <3> HIDE DEF fx, fy, fz
    <3>2. QED
      BY <1>5, <1>10, <3>1
  <2> HIDE DEF fz
  <2>2. QED
    BY <2>1, Zenon
<1>12. Cat(d.log, logged(y)) = Cat(c.log, logged(Cat(x, y))) /\ d.seen + Len(y) = c.seen + Len(Cat(x, y))
  <2>1. Cat(d.log, logged(y)) = Cat(c.log, logged(Cat(x, y)))
    BY <1>4, <1>10
  <2>2. d.seen + Len(y) = c.seen + Len(Cat(x, y))
    BY <1>1, <1>2, <1>10, SMT
  <2>3. QED
    BY <2>1, <2>2
<1> HIDE DEF fz
<1>13. rmr_fc16_entry_data(d, y) = rmr_fc16_entry_data(c, Cat(x, y))
  BY <1>8, <1>9, <1>10, <1>11, <1>12
<1>14. QED
  BY <1>13 DEF d

LEMMA PiecesNone ==
  ASSUME NEW base \in Nat, NEW l, NEW from \in Nat
  PROVE  FlattenSeq(Pieces(base, l, <<>>, from)) = <<>>
<1>1. ASSUME NEW data \in Seq(Nat)
      PROVE  Pieces(base, l, data, from) \in Seq(LaneSeqs) /\ Len(Pieces(base, l, data, from)) = Len(data)
  BY PiecesType
<1>2. <<>> \in Seq(Nat) /\ Len(<<>>) = 0
  BY EmptySeq
<1>3. Pieces(base, l, <<>>, from) \in Seq(LaneSeqs) /\ Len(Pieces(base, l, <<>>, from)) = 0
  BY <1>1, <1>2, Zenon
<1>4. Pieces(base, l, <<>>, from) = <<>>
  BY <1>3, EmptySeq
<1>5. QED
  BY <1>4, FlattenEmpty

LEMMA DataNone ==
  ASSUME NEW c \in Contexts
  PROVE  rmr_fc16_entry_data(c, <<>>) = c
<1>1. /\ c.log \in Seq(LogItems) /\ c.lanes \in [LaneSet -> Seq(LaneItems)]
      /\ c.declared \in Nat /\ c.seen \in Nat /\ c.base \in Nat
      /\ c = [log |-> c.log, lanes |-> c.lanes, declared |-> c.declared, seen |-> c.seen, base |-> c.base]
  BY DEF Contexts
<1>2. <<>> \in Seq(Nat) /\ Len(<<>>) = 0
  BY EmptySeq, SMT
<1>3. ASSUME NEW l \in LaneSet
      PROVE  Cat(c.lanes[l], FlattenSeq(Pieces(c.base, l, <<>>, c.seen))) = c.lanes[l]
  <2>1. FlattenSeq(Pieces(c.base, l, <<>>, c.seen)) = <<>>
    BY <1>1, <1>2, PiecesNone
  <2>2. c.lanes[l] \in Seq(LaneItems)
    BY <1>1
  <2>3. QED
    BY <2>1, <2>2, CatEmpty
<1>4. [l \in LaneSet |-> Cat(c.lanes[l], FlattenSeq(Pieces(c.base, l, <<>>, c.seen)))] = c.lanes
  <2>1. c.lanes = [l \in LaneSet |-> c.lanes[l]]
    BY <1>1
  <2>2. QED
    BY <1>3, <2>1
<1>5. Cat(c.log, logged(<<>>)) = c.log /\ c.seen + Len(<<>>) = c.seen
  <2>1. Cat(c.log, logged(<<>>)) = c.log
    BY <1>1, CatEmpty, LoggedNothing
  <2>2. QED
    BY <1>1, <1>2, <2>1, SMT
<1>6. QED
  BY <1>1, <1>2, <1>4, <1>5, DataIs

LEMMA InitContext == rmr_fc16_init \in Contexts
<1>1. <<>> \in Seq(LogItems) /\ <<>> \in Seq(LaneItems)
  BY EmptySeq
<1>2. [l \in LaneSet |-> <<>>] \in [LaneSet -> Seq(LaneItems)]
  BY <1>1
<1>3. rmr_fc16_init = [log |-> <<>>, lanes |-> [l \in LaneSet |-> <<>>], declared |-> 0, seen |-> 0, base |-> 0]
  BY DEF rmr_fc16_init, LaneSet
<1> HIDE DEF LogItems, LaneItems, LaneSet
<1>4. QED
  BY <1>1, <1>2, <1>3 DEF Contexts

LEMMA BeginContext ==
  ASSUME NEW c \in Contexts, NEW e \in Entries, NEW n \in Nat, NEW k \in EntryKinds
  PROVE  LET b == rmr_fc16_entry_begin(c, e, n, k) IN
         /\ b \in Contexts /\ b.seen = 0 /\ b.declared = n
         /\ b.log = Cat(c.log, << <<"ENTR", e, n, k>> >>)
<1> DEFINE m == <<"ENTR", e, n, k>>
<1>1. m \in LogItems /\ m \in LaneItems
  BY DEF LogItems, LaneItems, Begun
<1>2. /\ c.log \in Seq(LogItems) /\ c.lanes \in [LaneSet -> Seq(LaneItems)] /\ c.log \in Seq(LogItems)
  BY DEF Contexts
<1>3. BaseLane[e] \in LaneSet /\ BaseLane[e] \in Nat
  <2>1. BaseLane[e] \in 0 .. Lanes - 1 /\ Lanes \in Nat
    BY Custody16Assumption
  <2>2. QED
    BY <2>1, SMT DEF LaneSet
<1>4. rmr_fc16_entry_begin(c, e, n, k) =
        [log |-> Append(c.log, m),
         lanes |-> [c.lanes EXCEPT ![BaseLane[e]] = Append(c.lanes[BaseLane[e]], m)],
         declared |-> n, seen |-> 0, base |-> BaseLane[e]]
  BY DEF rmr_fc16_entry_begin
<1> HIDE DEF m
<1>5. Append(c.log, m) \in Seq(LogItems)
  BY <1>1, <1>2, AppendProperties
<1>6. Append(c.lanes[BaseLane[e]], m) \in Seq(LaneItems)
  BY <1>1, <1>2, <1>3, AppendProperties
<1> DEFINE lanes == [c.lanes EXCEPT ![BaseLane[e]] = Append(c.lanes[BaseLane[e]], m)]
<1>7. lanes \in [LaneSet -> Seq(LaneItems)]
  BY <1>2, <1>3, <1>6
<1>8. Append(c.log, m) = Cat(c.log, <<m>>)
  BY <1>1, <1>2, AppendIsConcat DEF Cat
<1> DEFINE b == rmr_fc16_entry_begin(c, e, n, k)
<1>9. b = [log |-> Append(c.log, m), lanes |-> lanes, declared |-> n, seen |-> 0, base |-> BaseLane[e]]
  BY <1>4
<1> HIDE DEF LogItems, LaneItems, LaneSet, lanes, b
<1>10. b \in Contexts /\ b.seen = 0 /\ b.declared = n /\ b.log = Append(c.log, m)
  BY <1>3, <1>5, <1>7, <1>9 DEF Contexts
<1>11. QED
  BY <1>8, <1>10 DEF m, b

LEMMA EndContext ==
  ASSUME NEW c \in Contexts, NEW e \in Entries
  PROVE  LET b == rmr_fc16_entry_end(c, e) IN
         /\ b \in Contexts
         /\ b.log = Cat(c.log, << <<"ENDR", e, c.seen>> >>)
<1> DEFINE m == <<"ENDR", e, c.seen>>
<1>1. m \in LogItems
  BY DEF LogItems, Closed, Contexts
<1>2. c.log \in Seq(LogItems)
  BY DEF Contexts
<1>3. rmr_fc16_entry_end(c, e) = [c EXCEPT !.log = Append(c.log, m)]
  BY DEF rmr_fc16_entry_end
<1> HIDE DEF m
<1>4. Append(c.log, m) \in Seq(LogItems)
  BY <1>1, <1>2, AppendProperties
<1>5. Append(c.log, m) = Cat(c.log, <<m>>)
  BY <1>1, <1>2, AppendIsConcat DEF Cat
<1> HIDE DEF LogItems, LaneItems, LaneSet
<1>6. QED
  BY <1>3, <1>4, <1>5 DEF Contexts, m

\* What the kernel lists is a list of entries.
Frames == Seq(Entries)

LEMMA ListedType ==
  ASSUME NEW d \in Dirs
  PROVE  listed(d) \in Frames
<1> DEFINE c == Children[d]
           s == [i \in DOMAIN c |-> IF there(c[i]) THEN <<c[i]>> ELSE <<>>]
           n == Len(c)
<1>1. c \in Seq(Entries)
  BY Custody16Assumption
<1>2. n \in Nat /\ DOMAIN c = 1 .. n /\ \A i \in 1 .. n : c[i] \in Entries
  BY <1>1, LenProperties, ElementOfSeq
<1>3. ASSUME NEW i \in 1 .. n
      PROVE  s[i] \in Frames
  <2>1. s[i] = <<c[i]>> \/ s[i] = <<>>
    BY <1>2
  <2>2. <<c[i]>> \in Seq(Entries) /\ <<>> \in Seq(Entries)
    <3> DEFINE e == c[i]
    <3>1. e \in Entries
      BY <1>2
    <3> HIDE DEF e, c
    <3>2. <<e>> \in Seq(Entries) /\ <<>> \in Seq(Entries)
      BY <3>1, SMT
    <3>3. QED
      BY <3>2 DEF e
  <2>3. QED
    BY <2>1, <2>2 DEF Frames
<1>4. s = [i \in 1 .. n |-> s[i]]
  BY <1>2
<1>5. listed(d) = FlattenSeq(s)
  BY DEF listed
<1> HIDE DEF s, n
<1>6. s \in [1 .. n -> Frames]
  BY <1>3, <1>4
<1>7. s \in Seq(Frames)
  <2> HIDE DEF Frames
  <2>1. QED
    BY <1>2, <1>6, SMT
<1>8. QED
  BY <1>5, <1>7, FlattenType DEF Frames

\* The innermost directory and the next entry.
LEMMA StackHead ==
  ASSUME stack \in Seq(Frames), stack # <<>>
  PROVE  /\ Head(stack) \in Frames /\ Tail(stack) \in Seq(Frames)
         /\ Len(stack) = 1 => Tail(stack) = <<>>
         /\ Head(stack) # <<>> => entry \in Entries /\ others \in Seq(Frames)
<1>1. Head(stack) \in Frames /\ Tail(stack) \in Seq(Frames) /\ (Len(stack) = 1 => Tail(stack) = <<>>)
  <2> HIDE DEF Frames
  <2>1. Head(stack) \in Frames /\ Tail(stack) \in Seq(Frames) /\ Len(Tail(stack)) = Len(stack) - 1
    BY HeadTailProperties
  <2>2. QED
    BY <2>1, EmptySeq
<1>2. ASSUME Head(stack) # <<>>
      PROVE  entry \in Entries /\ others \in Seq(Frames)
  <2> DEFINE h == Head(stack)
             r == Tail(stack)
  <2>1. h \in Seq(Entries) /\ h # <<>>
    BY <1>1, <1>2 DEF Frames
  <2>2. Head(h) \in Entries /\ Tail(h) \in Seq(Entries)
    <3> HIDE DEF h
    <3>1. QED
      BY <2>1, HeadTailProperties
  <2> DEFINE t == Tail(h)
  <2>3. t \in Frames /\ r \in Seq(Frames)
    BY <1>1, <2>2 DEF Frames
  <2>4. others = <<t>> \o r
    BY DEF others
  <2> HIDE DEF t, r, Frames
  <2>5. <<t>> \in Seq(Frames)
    BY <2>3, SMT
  <2>6. <<t>> \o r \in Seq(Frames)
    BY <2>3, <2>5, ConcatProperties
  <2>7. QED
    BY <2>2, <2>4, <2>6 DEF entry
<1>3. QED
  BY <1>1, <1>2

\* The bytes of a file are bytes up to a position and the bytes after it.
LEMMA CutBytes ==
  ASSUME NEW b \in Seq(Nat), NEW p \in 0 .. Len(b), NEW k \in Nat, p + k <= Len(b)
  PROVE  /\ SubSeq(b, 1, p) \in Seq(Nat) /\ Len(SubSeq(b, 1, p)) = p
         /\ SubSeq(b, p + 1, p + k) \in Seq(Nat) /\ Len(SubSeq(b, p + 1, p + k)) = k
         /\ Cat(SubSeq(b, 1, p), SubSeq(b, p + 1, p + k)) = SubSeq(b, 1, p + k)
<1> DEFINE x == SubSeq(b, 1, p)
           y == SubSeq(b, p + 1, p + k)
           z == SubSeq(b, 1, p + k)
<1>0. p \in Nat /\ Len(b) \in Nat /\ p <= Len(b) /\ p + k \in Nat
  BY LenProperties, SMT
<1>1. \A i \in 1 .. Len(b) : b[i] \in Nat
  BY ElementOfSeq
<1>2. x \in Seq(Nat) /\ Len(x) = p /\ \A i \in 1 .. p : x[i] = b[i]
  BY <1>0, <1>1, SMT
<1>3. y \in Seq(Nat) /\ Len(y) = k /\ \A i \in 1 .. k : y[i] = b[p + i]
  BY <1>0, <1>1, SMT
<1>4. z \in Seq(Nat) /\ Len(z) = p + k /\ \A i \in 1 .. p + k : z[i] = b[i]
  BY <1>0, <1>1, SMT
<1> HIDE DEF x, y, z
<1>5. /\ Cat(x, y) \in Seq(Nat) /\ Len(Cat(x, y)) = Len(x) + Len(y)
      /\ \A i \in 1 .. Len(x) + Len(y) : Cat(x, y)[i] = IF i <= Len(x) THEN x[i] ELSE y[i - Len(x)]
  BY <1>2, <1>3, CatProperties, Zenon
<1> DEFINE u == Cat(x, y)
<1> HIDE DEF u
<1>6. u \in Seq(Nat) /\ Len(u) = p + k /\ \A i \in 1 .. p + k : u[i] = IF i <= p THEN x[i] ELSE y[i - p]
  BY <1>2, <1>3, <1>5, Zenon DEF u
<1>7. \A i \in 1 .. p + k : u[i] = z[i]
  <2>1. ASSUME NEW i \in 1 .. p + k
        PROVE  u[i] = z[i]
    <3>1. CASE i <= p
      <4>1. i \in 1 .. p
        BY <1>0, <3>1, SMT
      <4>2. QED
        BY <1>2, <1>4, <1>6, <3>1, <4>1, Zenon
    <3>2. CASE ~ (i <= p)
      <4>1. i - p \in 1 .. k /\ p + (i - p) = i
        BY <1>0, <3>2, SMT
      <4>2. y[i - p] = b[i]
        BY <1>3, <4>1
      <4>3. QED
        BY <1>4, <1>6, <3>2, <4>2, Zenon
    <3>3. QED
      BY <3>1, <3>2
  <2>2. QED
    BY <2>1
<1>8. u = z
  BY <1>4, <1>6, <1>7, SeqEqual
<1>9. QED
  BY <1>2, <1>3, <1>8 DEF u, x, y, z

\* A context that began the entry of a file and was fed bytes up to a position.
Fed(c, e, bytes, p) ==
  rmr_fc16_entry_data(rmr_fc16_entry_begin(c, e, Len(bytes), "REGULAR"), SubSeq(bytes, 1, p))

LEMMA FedContext ==
  ASSUME NEW c \in Contexts, NEW e \in Entries, NEW b \in Seq(Nat), NEW p \in 0 .. Len(b)
  PROVE  Fed(c, e, b, p) \in Contexts /\ Fed(c, e, b, p).seen = p /\ Fed(c, e, b, p).declared = Len(b)
<1> DEFINE o == rmr_fc16_entry_begin(c, e, Len(b), "REGULAR")
           x == SubSeq(b, 1, p)
<1>1. Len(b) \in Nat /\ "REGULAR" \in EntryKinds /\ p \in Nat
  BY LenProperties, SMT DEF EntryKinds
<1>2. o \in Contexts /\ o.seen = 0 /\ o.declared = Len(b)
  BY <1>1, BeginContext
<1>3. p + 0 <= Len(b) /\ 0 \in Nat
  BY <1>1, SMT
<1>4. x \in Seq(Nat) /\ Len(x) = p
  BY <1>3, CutBytes
<1> HIDE DEF o, x
<1>5. rmr_fc16_entry_data(o, x) \in Contexts
  BY <1>2, <1>4, DataType
<1>6. rmr_fc16_entry_data(o, x).seen = o.seen + Len(x) /\ rmr_fc16_entry_data(o, x).declared = o.declared
  BY <1>2, <1>4, DataIs
<1>7. 0 + p = p
  BY <1>1, SMT
<1>8. QED
  BY <1>2, <1>4, <1>5, <1>6, <1>7 DEF Fed, o, x

LEMMA FedNothing ==
  ASSUME NEW c \in Contexts, NEW e \in Entries, NEW b \in Seq(Nat)
  PROVE  Fed(c, e, b, 0) = rmr_fc16_entry_begin(c, e, Len(b), "REGULAR")
<1> DEFINE o == rmr_fc16_entry_begin(c, e, Len(b), "REGULAR")
<1>1. Len(b) \in Nat /\ "REGULAR" \in EntryKinds
  BY LenProperties DEF EntryKinds
<1>2. o \in Contexts
  BY <1>1, BeginContext
<1>3. 0 \in 0 .. Len(b) /\ 0 \in Nat /\ 0 + 0 <= Len(b)
  BY <1>1, SMT
<1>4. SubSeq(b, 1, 0) \in Seq(Nat) /\ Len(SubSeq(b, 1, 0)) = 0
  BY <1>3, CutBytes
<1>5. SubSeq(b, 1, 0) = <<>>
  BY <1>4, EmptySeq
<1>6. rmr_fc16_entry_data(o, <<>>) = o
  BY <1>2, DataNone
<1>7. QED
  BY <1>5, <1>6 DEF Fed

\* However the bytes are cut, they leave the same context.
LEMMA FedMore ==
  ASSUME NEW c \in Contexts, NEW e \in Entries, NEW b \in Seq(Nat), NEW p \in 0 .. Len(b),
         NEW k \in Nat, p + k <= Len(b)
  PROVE  rmr_fc16_entry_data(Fed(c, e, b, p), SubSeq(b, p + 1, p + k)) = Fed(c, e, b, p + k)
<1> DEFINE o == rmr_fc16_entry_begin(c, e, Len(b), "REGULAR")
           x == SubSeq(b, 1, p)
           y == SubSeq(b, p + 1, p + k)
<1>1. Len(b) \in Nat /\ "REGULAR" \in EntryKinds
  BY LenProperties DEF EntryKinds
<1>2. o \in Contexts
  BY <1>1, BeginContext
<1>3. x \in Seq(Nat) /\ y \in Seq(Nat) /\ Cat(x, y) = SubSeq(b, 1, p + k)
  BY CutBytes
<1> HIDE DEF o, x, y
<1>4. rmr_fc16_entry_data(rmr_fc16_entry_data(o, x), y) = rmr_fc16_entry_data(o, Cat(x, y))
  BY <1>2, <1>3, DataTwice
<1>5. QED
  BY <1>3, <1>4 DEF Fed, o, x, y

-----------------------------------------------------------------------------
(* The scan of a tree that stands still is one walk of it, entry by entry.  *)

\* What the kernel lists of a directory of a tree.
listing(t, d) ==
  FlattenSeq([i \in DOMAIN Children[d] |->
    IF Children[d][i] \in Files => t[Children[d][i]] # Absent THEN <<Children[d][i]>> ELSE <<>>])

LEMMA ListedOfTree ==
  ASSUME NEW d
  PROVE  listed(d) = listing(tree, d)
BY DEF listed, listing, there

\* The walk opens the root, leaves a directory or takes the next entry.
Taken(c, e, size, kind) == rmr_fc16_entry_end(rmr_fc16_entry_begin(c, e, size, kind), e)
TakenFile(c, e, bytes) == rmr_fc16_entry_end(Fed(c, e, bytes, Len(bytes)), e)

At(st, c) == [stack |-> st, ctx |-> c]
NextEntry(st) == Head(Head(st))
Rest(st) == <<Tail(Head(st))>> \o Tail(st)

WalkStep(t, s) ==
  IF s.stack = <<>> THEN At(<<listing(t, Root)>> \o <<>>, s.ctx)
  ELSE IF Head(s.stack) = <<>> THEN At(Tail(s.stack), s.ctx)
  ELSE IF NextEntry(s.stack) \in Dirs
  THEN At(<<listing(t, NextEntry(s.stack))>> \o Rest(s.stack), Taken(s.ctx, NextEntry(s.stack), 0, "DIRECTORY"))
  ELSE IF NextEntry(s.stack) \in Links
  THEN At(Rest(s.stack), Taken(s.ctx, NextEntry(s.stack), 0, "SYMLINK_SKIPPED"))
  ELSE At(Rest(s.stack), TakenFile(s.ctx, NextEntry(s.stack), t[NextEntry(s.stack)]))

\* The walk has ended when the list of the root is empty.
WalkEnded(s) == s.stack # <<>> /\ Head(s.stack) = <<>> /\ Len(s.stack) = 1

IsWalk(t, n, w) ==
  /\ w[0] = At(<<>>, rmr_fc16_init)
  /\ \A i \in 0 .. n - 1 : ~ WalkEnded(w[i]) /\ w[i + 1] = WalkStep(t, w[i])

Walked(t, s) == \E n \in Nat : \E w : IsWalk(t, n, w) /\ s = w[n]

LEMMA WalkStarts ==
  ASSUME NEW t
  PROVE  Walked(t, At(<<>>, rmr_fc16_init))
<1> DEFINE s == At(<<>>, rmr_fc16_init)
           w == [i \in {0} |-> s]
<1>1. w[0] = s /\ 0 .. 0 - 1 = {} /\ 0 \in Nat
  BY SMT
<1> HIDE DEF s, w
<1>2. IsWalk(t, 0, w)
  BY <1>1 DEF IsWalk, s
<1>3. QED
  BY <1>1, <1>2 DEF Walked, s

LEMMA WalkGoesOn ==
  ASSUME NEW t, NEW s, Walked(t, s), ~ WalkEnded(s)
  PROVE  Walked(t, WalkStep(t, s))
<1>1. PICK n \in Nat : \E w : IsWalk(t, n, w) /\ s = w[n]
  BY DEF Walked
<1>2. PICK w : IsWalk(t, n, w) /\ s = w[n]
  BY <1>1
<1> DEFINE v == [i \in 0 .. n + 1 |-> IF i = n + 1 THEN WalkStep(t, s) ELSE w[i]]
<1>3. /\ n + 1 \in 0 .. n + 1 /\ n + 1 \in Nat /\ 0 \in 0 .. n + 1 /\ 0 # n + 1
      /\ \A i \in 0 .. (n + 1) - 1 : /\ i \in 0 .. n + 1 /\ i # n + 1 /\ i + 1 \in 0 .. n + 1
                                     /\ i + 1 = n + 1 <=> i = n
                                     /\ i = n \/ i \in 0 .. n - 1
  BY SMT
<1>4. v[n + 1] = WalkStep(t, s) /\ v[0] = w[0]
  BY <1>3
<1>5. ASSUME NEW i \in 0 .. (n + 1) - 1
      PROVE  ~ WalkEnded(v[i]) /\ v[i + 1] = WalkStep(t, v[i])
  <2>1. v[i] = w[i] /\ v[i + 1] = IF i = n THEN WalkStep(t, s) ELSE w[i + 1]
    BY <1>3, Zenon
  <2> HIDE DEF v
  <2>2. CASE i = n
    BY <1>2, <2>1, <2>2
  <2>3. CASE i # n
    <3>1. i \in 0 .. n - 1
      BY <1>3, <2>3
    <3>2. QED
      BY <1>2, <2>1, <2>3, <3>1 DEF IsWalk
  <2>4. QED
    BY <2>2, <2>3
<1> HIDE DEF v
<1>6. IsWalk(t, n + 1, v)
  BY <1>2, <1>4, <1>5 DEF IsWalk
<1>7. QED
  BY <1>3, <1>4, <1>6 DEF Walked

\* A tree is walked in one way only, so that two walks end alike.
LEMMA WalksEndAlike ==
  ASSUME NEW t, NEW s, NEW r, Walked(t, s), Walked(t, r), WalkEnded(s), WalkEnded(r)
  PROVE  s = r
<1>1. PICK n \in Nat, m \in Nat : (\E w : IsWalk(t, n, w) /\ s = w[n]) /\ \E w : IsWalk(t, m, w) /\ r = w[m]
  BY DEF Walked
<1>2. PICK v, w : IsWalk(t, n, v) /\ s = v[n] /\ IsWalk(t, m, w) /\ r = w[m]
  BY <1>1
<1> DEFINE P == {i \in Nat : i <= n /\ i <= m => v[i] = w[i]}
<1>3. 0 \in P
  BY <1>2 DEF IsWalk
<1>4. ASSUME NEW i \in Nat, i \in P
      PROVE  i + 1 \in P
  <2>1. SUFFICES ASSUME i + 1 <= n, i + 1 <= m PROVE v[i + 1] = w[i + 1]
    BY SMT
  <2>2. i \in 0 .. n - 1 /\ i \in 0 .. m - 1 /\ i <= n /\ i <= m
    BY <2>1, SMT
  <2>3. v[i] = w[i]
    BY <1>4, <2>2
  <2>4. QED
    BY <1>2, <2>2, <2>3 DEF IsWalk
<1> HIDE DEF P
<1>5. \A i \in Nat : i \in P
  BY <1>3, <1>4, SetInduction
<1>6. CASE n = m
  <2>1. n <= n
    BY SMT
  <2>2. QED
    BY <1>2, <1>5, <1>6, <2>1 DEF P
<1>7. CASE n < m
  <2>1. n <= n /\ n <= m /\ n \in 0 .. m - 1
    BY <1>7, SMT
  <2>2. v[n] = w[n]
    BY <1>5, <2>1 DEF P
  <2>3. QED
    BY <1>2, <2>1, <2>2 DEF IsWalk
<1>8. CASE m < n
  <2>1. m <= m /\ m <= n /\ m \in 0 .. n - 1
    BY <1>8, SMT
  <2>2. v[m] = w[m]
    BY <1>5, <2>1 DEF P
  <2>3. QED
    BY <1>2, <2>1, <2>2 DEF IsWalk
<1>9. n = m \/ n < m \/ m < n
  BY SMT
<1>10. QED
  BY <1>6, <1>7, <1>8, <1>9

-----------------------------------------------------------------------------
(* While nothing changes, the state of a run is a place in such a walk.     *)

\* The types, and where a run has open directories.
CustodyPlaces ==
  /\ tree \in [Files -> {Absent} \cup Seq(Nat)] /\ changes \in Nat
  /\ stack \in Seq(Frames)
  /\ pc \in {"count", "begin", "data"} => stack # <<>> /\ Head(stack) # <<>>
  /\ pc \notin {"scan", "count", "begin", "data"} => stack = <<>>

FileIsEntry ==
  /\ \E p, g, z : fd = [name |-> entry, position |-> p, gone |-> g, size |-> z]
  /\ entry \in Files /\ tree[entry] # Absent

EndedWalk(s) == Walked(tree, s) /\ WalkEnded(s)

StandsStill ==
  /\ pc \notin {"MISMATCH", "ERR_SIZE"}
  /\ pc \in {"scan", "count", "begin"} => ctx \in Contexts /\ Walked(tree, At(stack, ctx))
  /\ pc \in {"count", "begin", "data"} => FileIsEntry
  /\ pc \in {"count", "data"} => fd.gone = Absent /\ fd.position \in 0 .. Len(tree[entry])
  /\ pc \in {"begin", "data"} => fd.size = Len(tree[entry])
  /\ pc = "data" =>
       \E c \in Contexts : Walked(tree, At(stack, c)) /\ ctx = Fed(c, entry, tree[entry], fd.position)
  /\ pc \in {"scan", "count", "begin", "data", "compare"} /\ first # <<>> =>
       \E s : EndedWalk(s) /\ first[1].seen = rmr_fc16_finalize(s.ctx)
  /\ pc = "compare" => first # <<>> /\ \E s : EndedWalk(s) /\ ctx = s.ctx

ScansAgree == CustodyPlaces /\ (quiet => StandsStill)

LEMMA ScanStarts == Init => ScansAgree
<1> SUFFICES ASSUME Init PROVE ScansAgree
  OBVIOUS
<1>1. tree \in [Files -> {Absent} \cup Seq(Nat)]
  <2>1. ASSUME NEW k \in UNION Range(FileLengths)
        PROVE  [i \in 1 .. k |-> 0] \in Seq(Nat)
    <3>1. k \in Nat
      BY Custody16Assumption DEF Range
    <3>2. QED
      BY <3>1, SMT
  <2> DEFINE B == {Absent} \cup {[i \in 1 .. k |-> 0] : k \in UNION Range(FileLengths)}
  <2>2. tree \in [Files -> B]
    BY DEF Init
  <2>3. B \subseteq {Absent} \cup Seq(Nat)
    BY <2>1
  <2> HIDE DEF B
  <2>4. QED
    BY <2>2, <2>3
<1>2. <<>> \in Seq(Frames)
  BY EmptySeq
<1>3. pc = "idle" /\ stack = <<>> /\ first = <<>> /\ changes = 0
  BY DEF Init
<1>4. QED
  BY <1>1, <1>2, <1>3 DEF ScansAgree, CustodyPlaces, StandsStill

\* The end of a run, but by a size or a comparison that is wrong.
LEMMA EndKeepsScans ==
  ASSUME ScansAgree, NEW o \in Outcomes, End(o), o \in {"MISMATCH", "ERR_SIZE"} => ~ quiet
  PROVE  ScansAgree'
<1>1. <<>> \in Seq(Frames)
  BY EmptySeq
<1>2. pc' = o /\ stack' = <<>> /\ tree' = tree /\ changes' = changes /\ quiet' = quiet
  BY DEF End, environment
<1>3. o \notin {"scan", "count", "begin", "data", "compare"}
  BY DEF Outcomes
<1>4. CustodyPlaces'
  BY <1>1, <1>2, <1>3 DEF ScansAgree, CustodyPlaces
<1>5. quiet' => StandsStill'
  BY <1>2, <1>3 DEF StandsStill
<1>6. QED
  BY <1>4, <1>5 DEF ScansAgree

\* A directory is opened inside those of frames.
LEMMA ScanDirKeepsScans ==
  ASSUME ScansAgree, pc = "scan", NEW d \in Dirs, NEW frames \in Seq(Frames), NEW c, scan_dir(d, frames, c),
         quiet => c \in Contexts /\ Walked(tree, At(<<listing(tree, d)>> \o frames, c))
  PROVE  ScansAgree'
<1>1. CASE End("ERR_CAPACITY")
  BY <1>1, EndKeepsScans DEF Outcomes
<1>2. CASE ~ End("ERR_CAPACITY")
  <2>1. stack' = <<listing(tree, d)>> \o frames /\ ctx' = c /\ UNCHANGED <<tree, changes, quiet, pc, first>>
    BY <1>2, ListedOfTree DEF scan_dir, environment
  <2>2. stack' \in Seq(Frames)
    <3>1. listing(tree, d) \in Frames
      BY ListedType, ListedOfTree
    <3> DEFINE l == listing(tree, d)
    <3>2. l \in Frames /\ stack' = <<l>> \o frames
      BY <2>1, <3>1
    <3> HIDE DEF l
    <3>3. <<l>> \in Seq(Frames)
      BY <3>2, SMT
    <3>4. QED
      BY <3>2, <3>3, ConcatProperties
  <2>3. CustodyPlaces'
    BY <2>1, <2>2 DEF ScansAgree, CustodyPlaces
  <2>4. quiet' => StandsStill'
    <3>1. SUFFICES ASSUME quiet PROVE StandsStill'
      BY <2>1
    <3>2. ctx' \in Contexts /\ Walked(tree, At(stack, ctx))'
      BY <2>1, <3>1
    <3>3. (first # <<>> => \E s : EndedWalk(s) /\ first[1].seen = rmr_fc16_finalize(s.ctx))'
      BY <2>1, <3>1 DEF ScansAgree, StandsStill, EndedWalk
    <3>4. QED
      BY <2>1, <3>2, <3>3 DEF StandsStill
  <2>5. QED
    BY <2>3, <2>4 DEF ScansAgree
<1>3. QED
  BY <1>1, <1>2

LEMMA OpenRootKeepsScans ==
  ASSUME ScansAgree, OpenRoot
  PROVE  ScansAgree'
<1>1. pc = "scan" /\ stack = <<>> /\ scan_dir(Root, <<>>, ctx)
  BY DEF OpenRoot
<1>2. <<>> \in Seq(Frames) /\ Root \in Dirs
  BY EmptySeq, Custody16Assumption
<1>3. ASSUME quiet
      PROVE  ctx \in Contexts /\ Walked(tree, At(<<listing(tree, Root)>> \o <<>>, ctx))
  <2> DEFINE s == At(<<>>, ctx)
  <2>1. ctx \in Contexts /\ Walked(tree, s)
    BY <1>1, <1>3 DEF ScansAgree, StandsStill
  <2>2. s.stack = <<>> /\ s.ctx = ctx
    BY DEF At
  <2> HIDE DEF s
  <2>3. ~ WalkEnded(s)
    BY <2>2 DEF WalkEnded
  <2>4. WalkStep(tree, s) = At(<<listing(tree, Root)>> \o <<>>, ctx)
    BY <2>2 DEF WalkStep
  <2>5. QED
    BY <2>1, <2>3, <2>4, WalkGoesOn
<1>4. QED
  BY <1>1, <1>2, <1>3, ScanDirKeepsScans

\* The next step of the walk at an entry.
LEMMA WalkAtEntry ==
  ASSUME ScansAgree, stack # <<>>, Head(stack) # <<>>, NEW c, Walked(tree, At(stack, c))
  PROVE  /\ entry \in Dirs =>
              Walked(tree, At(<<listing(tree, entry)>> \o others, Taken(c, entry, 0, "DIRECTORY")))
         /\ entry \notin Dirs /\ entry \in Links =>
              Walked(tree, At(others, Taken(c, entry, 0, "SYMLINK_SKIPPED")))
         /\ entry \notin Dirs \cup Links =>
              Walked(tree, At(others, TakenFile(c, entry, tree[entry])))
<1> DEFINE s == At(stack, c)
<1>1. s.stack = stack /\ s.ctx = c
  BY DEF At
<1>2. NextEntry(stack) = entry /\ Rest(stack) = others
  BY DEF NextEntry, Rest, entry, others
<1> HIDE DEF s
<1>3. ~ WalkEnded(s)
  BY <1>1 DEF WalkEnded
<1>4. Walked(tree, WalkStep(tree, s))
  BY <1>3, WalkGoesOn DEF s
<1>5. /\ entry \in Dirs =>
           WalkStep(tree, s) = At(<<listing(tree, entry)>> \o others, Taken(c, entry, 0, "DIRECTORY"))
      /\ entry \notin Dirs /\ entry \in Links =>
           WalkStep(tree, s) = At(others, Taken(c, entry, 0, "SYMLINK_SKIPPED"))
      /\ entry \notin Dirs \cup Links =>
           WalkStep(tree, s) = At(others, TakenFile(c, entry, tree[entry]))
  BY <1>1, <1>2 DEF WalkStep
<1>6. QED
  BY <1>4, <1>5

\* An entry without data leaves a context.
LEMMA TakenContext ==
  ASSUME NEW c \in Contexts, NEW e \in Entries, NEW k \in EntryKinds
  PROVE  Taken(c, e, 0, k) \in Contexts
<1>1. rmr_fc16_entry_begin(c, e, 0, k) \in Contexts
  BY BeginContext
<1>2. QED
  BY <1>1, EndContext DEF Taken

LEMMA EnterDirectoryKeepsScans ==
  ASSUME ScansAgree, EnterDirectory
  PROVE  ScansAgree'
<1>1. pc = "scan" /\ stack # <<>> /\ Head(stack) # <<>> /\ entry \in Dirs /\ scan_dir(entry, others, bare("DIRECTORY"))
  BY DEF EnterDirectory, AtEntry
<1>2. entry \in Entries /\ others \in Seq(Frames)
  BY <1>1, StackHead DEF ScansAgree, CustodyPlaces
<1>3. bare("DIRECTORY") = Taken(ctx, entry, 0, "DIRECTORY") /\ "DIRECTORY" \in EntryKinds
  BY DEF bare, Taken, EntryKinds
<1>4. ASSUME quiet
      PROVE  /\ bare("DIRECTORY") \in Contexts
             /\ Walked(tree, At(<<listing(tree, entry)>> \o others, bare("DIRECTORY")))
  <2>1. ctx \in Contexts /\ Walked(tree, At(stack, ctx))
    BY <1>1, <1>4 DEF ScansAgree, StandsStill
  <2>2. Taken(ctx, entry, 0, "DIRECTORY") \in Contexts
    BY <1>2, <1>3, <2>1, TakenContext
  <2>3. Walked(tree, At(<<listing(tree, entry)>> \o others, Taken(ctx, entry, 0, "DIRECTORY")))
    BY <1>1, <2>1, WalkAtEntry
  <2>4. QED
    BY <1>3, <2>2, <2>3
<1>5. QED
  BY <1>1, <1>2, <1>4, ScanDirKeepsScans

LEMMA SkipLinkKeepsScans ==
  ASSUME ScansAgree, SkipLink
  PROVE  ScansAgree'
<1>1. /\ pc = "scan" /\ stack # <<>> /\ Head(stack) # <<>> /\ entry \in Links
      /\ ctx' = bare("SYMLINK_SKIPPED") /\ stack' = others /\ UNCHANGED <<tree, changes, quiet, pc, first>>
  BY DEF SkipLink, AtEntry, environment
<1>2. entry \in Entries /\ others \in Seq(Frames) /\ entry \notin Dirs
  BY <1>1, StackHead, Custody16Assumption DEF ScansAgree, CustodyPlaces
<1>3. bare("SYMLINK_SKIPPED") = Taken(ctx, entry, 0, "SYMLINK_SKIPPED") /\ "SYMLINK_SKIPPED" \in EntryKinds
  BY DEF bare, Taken, EntryKinds
<1>4. CustodyPlaces'
  BY <1>1, <1>2 DEF ScansAgree, CustodyPlaces
<1>5. ASSUME quiet
      PROVE  StandsStill'
  <2>1. ctx \in Contexts /\ Walked(tree, At(stack, ctx))
    BY <1>1, <1>5 DEF ScansAgree, StandsStill
  <2>2. ctx' \in Contexts
    BY <1>1, <1>2, <1>3, <2>1, TakenContext
  <2>3. Walked(tree, At(others, Taken(ctx, entry, 0, "SYMLINK_SKIPPED")))
    BY <1>1, <1>2, <2>1, WalkAtEntry
  <2>4. Walked(tree, At(stack, ctx))'
    BY <1>1, <1>3, <2>3
  <2>5. (first # <<>> => \E s : EndedWalk(s) /\ first[1].seen = rmr_fc16_finalize(s.ctx))'
    BY <1>1, <1>5 DEF ScansAgree, StandsStill, EndedWalk
  <2>6. QED
    BY <1>1, <2>2, <2>4, <2>5 DEF StandsStill
<1>6. QED
  BY <1>1, <1>4, <1>5 DEF ScansAgree

\* A state that keeps the tree keeps the walk the first scan was.
LEMMA FirstStays ==
  ASSUME ScansAgree, quiet, tree' = tree, first' = first, pc \in {"scan", "count", "begin", "data"}
  PROVE  (first # <<>> => \E s : EndedWalk(s) /\ first[1].seen = rmr_fc16_finalize(s.ctx))'
BY DEF ScansAgree, StandsStill, EndedWalk

\* The open file with another position.
LEMMA Repositioned ==
  ASSUME NEW e, NEW p, NEW g, NEW z, NEW q,
         NEW f, f = [name |-> e, position |-> p, gone |-> g, size |-> z]
  PROVE  [f EXCEPT !.position = q] = [name |-> e, position |-> q, gone |-> g, size |-> z]
OBVIOUS

LEMMA Reopened ==
  ASSUME NEW e, NEW p, NEW g, NEW z, NEW q,
         NEW f, f = [name |-> e, position |-> p, gone |-> g, size |-> z]
  PROVE  [f EXCEPT !.position = q, !.gone = Absent] =
           [name |-> e, position |-> q, gone |-> Absent, size |-> z]
<1> DEFINE h == [f EXCEPT !.position = q]
<1>1. h = [name |-> e, position |-> q, gone |-> g, size |-> z]
  BY Repositioned
<1>2. [f EXCEPT !.position = q, !.gone = Absent] = [h EXCEPT !.gone = Absent]
  OBVIOUS
<1> HIDE DEF h
<1>3. [h EXCEPT !.gone = Absent] = [name |-> e, position |-> q, gone |-> Absent, size |-> z]
  BY <1>1
<1>4. QED
  BY <1>2, <1>3

LEMMA StatFileKeepsScans ==
  ASSUME ScansAgree, StatFile
  PROVE  ScansAgree'
<1>1. CASE tree[entry] = Absent
  <2>1. End("ERR_STATE")
    BY <1>1 DEF StatFile
  <2>2. QED
    BY <2>1, EndKeepsScans DEF Outcomes
<1>2. CASE tree[entry] # Absent
  <2>1. /\ pc = "scan" /\ stack # <<>> /\ Head(stack) # <<>> /\ entry \in Files
        /\ pc' = IF statx THEN "begin" ELSE "count"
        /\ fd' = [NoFile EXCEPT !.name = entry, !.size = IF statx THEN Len(tree[entry]) ELSE 0]
        /\ UNCHANGED <<tree, changes, quiet, stack, ctx, first>>
    BY <1>2 DEF StatFile, AtEntry, environment
  <2>2. entry' = entry
    BY <2>1 DEF entry
  <2>3. CustodyPlaces'
    BY <2>1 DEF ScansAgree, CustodyPlaces
  <2>4. ASSUME quiet
        PROVE  StandsStill'
    <3>1. ctx' \in Contexts /\ Walked(tree, At(stack, ctx))'
      BY <2>1, <2>4 DEF ScansAgree, StandsStill
    <3>2. fd' = [name |-> entry, position |-> 0, gone |-> Absent, size |-> IF statx THEN Len(tree[entry]) ELSE 0]
      BY <2>1 DEF NoFile
    <3>3. FileIsEntry'
      BY <1>2, <2>1, <2>2, <3>2 DEF FileIsEntry
    <3>4. Len(tree[entry]) \in Nat
      <4>1. tree[entry] \in Seq(Nat)
        BY <1>2, <2>1 DEF ScansAgree, CustodyPlaces
      <4>2. QED
        BY <4>1, LenProperties
    <3>5. pc' = "count" => fd'.gone = Absent /\ fd'.position \in 0 .. Len(tree[entry])
      <4>1. 0 \in 0 .. Len(tree[entry])
        BY <3>4, SMT
      <4>2. QED
        BY <3>2, <4>1
    <3>6. pc' = "begin" => fd'.size = Len(tree[entry])
      BY <2>1, <3>2
    <3>7. (first # <<>> => \E s : EndedWalk(s) /\ first[1].seen = rmr_fc16_finalize(s.ctx))'
      BY <2>1, <2>4, FirstStays
    <3>8. pc' \in {"begin", "count"}
      BY <2>1
    <3>9. QED
      BY <2>1, <2>2, <3>1, <3>3, <3>5, <3>6, <3>7, <3>8 DEF StandsStill
  <2>5. QED
    BY <2>1, <2>3, <2>4 DEF ScansAgree
<1>3. QED
  BY <1>1, <1>2

\* The bytes of the open file while nothing changes.
LEMMA OpenFile ==
  ASSUME ScansAgree, quiet, pc \in {"count", "begin", "data"}
  PROVE  /\ fd.name = entry /\ entry \in Files /\ entry \in Entries \ (Dirs \cup Links)
         /\ tree[entry] \in Seq(Nat) /\ tree[entry] # Absent /\ Len(tree[entry]) \in Nat
         /\ pc # "begin" => content = tree[entry] /\ left = Len(tree[entry]) - fd.position
<1>1. FileIsEntry
  BY DEF ScansAgree, StandsStill
<1>2. fd.name = entry /\ entry \in Files /\ tree[entry] # Absent
  BY <1>1 DEF FileIsEntry
<1>3. tree[entry] \in Seq(Nat)
  BY <1>2 DEF ScansAgree, CustodyPlaces
<1>4. Len(tree[entry]) \in Nat
  BY <1>3, LenProperties
<1>5. pc # "begin" => content = tree[entry]
  BY <1>2 DEF ScansAgree, StandsStill, content
<1>6. entry \in Entries \ (Dirs \cup Links)
  BY <1>2 DEF Files
<1>7. pc # "begin" => left = Len(tree[entry]) - fd.position
  BY <1>5 DEF left
<1>8. QED
  BY <1>2, <1>3, <1>4, <1>5, <1>6, <1>7

LEMMA CountFileKeepsScans ==
  ASSUME ScansAgree, CountFile
  PROVE  ScansAgree'
<1>1. /\ pc = "count" /\ pc' \in {"count", "begin"}
      /\ UNCHANGED <<tree, changes, quiet, stack, ctx, first>>
  BY DEF CountFile, environment
<1>2. entry' = entry
  BY <1>1 DEF entry
<1>3. CustodyPlaces'
  BY <1>1 DEF ScansAgree, CustodyPlaces
<1>4. ASSUME quiet
      PROVE  StandsStill'
  <2>0. /\ fd.name = entry /\ entry \in Files /\ tree[entry] # Absent /\ Len(tree[entry]) \in Nat
        /\ left = Len(tree[entry]) - fd.position
    BY <1>1, <1>4, OpenFile
  <2>1. ctx' \in Contexts /\ Walked(tree, At(stack, ctx))'
    BY <1>1, <1>4 DEF ScansAgree, StandsStill
  <2>2. /\ FileIsEntry /\ fd.gone = Absent /\ fd.position \in 0 .. Len(tree[entry])
    BY <1>1, <1>4 DEF ScansAgree, StandsStill
  <2>3. (first # <<>> => \E s : EndedWalk(s) /\ first[1].seen = rmr_fc16_finalize(s.ctx))'
    BY <1>1, <1>4, FirstStays
  <2>4. CASE left <= 0
    <3>1. pc' = "begin" /\ fd' = [name |-> entry, position |-> 0, gone |-> Absent, size |-> fd.position]
      BY <2>0, <2>4 DEF CountFile, NoFile
    <3>2. fd.position = Len(tree[entry])
      BY <2>0, <2>2, <2>4, SMT
    <3>3. FileIsEntry' /\ fd'.size = Len(tree[entry])
      BY <1>1, <1>2, <2>0, <3>1, <3>2 DEF FileIsEntry
    <3>4. QED
      BY <1>1, <1>2, <2>1, <2>3, <3>1, <3>3 DEF StandsStill
  <2>5. CASE ~ (left <= 0)
    <3>1. PICK k \in 1 .. IoBytes : k <= left /\ fd' = [fd EXCEPT !.position = fd.position + k]
      BY <2>5 DEF CountFile
    <3>2. pc' = "count"
      BY <1>1, <2>5 DEF CountFile
    <3>a. PICK p, g, z : fd = [name |-> entry, position |-> p, gone |-> g, size |-> z]
      BY <2>2 DEF FileIsEntry
    <3>b. p = fd.position /\ g = Absent
      BY <2>2, <3>a
    <3>c. fd' = [fd EXCEPT !.position = p + k]
      BY <3>1, <3>b
    <3>3. fd' = [name |-> entry, position |-> p + k, gone |-> Absent, size |-> z]
      BY <3>a, <3>b, <3>c, Repositioned
    <3>4. fd.position + k \in 0 .. Len(tree[entry])
      BY <2>0, <2>2, <3>1, Custody16Assumption, SMT
    <3>5. FileIsEntry' /\ fd'.gone = Absent /\ fd'.position \in 0 .. Len(tree[entry])
      BY <1>1, <1>2, <2>0, <3>b, <3>3, <3>4 DEF FileIsEntry
    <3>6. QED
      BY <1>1, <1>2, <2>1, <2>3, <3>2, <3>5 DEF StandsStill
  <2>6. QED
    BY <2>4, <2>5
<1>5. QED
  BY <1>1, <1>3, <1>4 DEF ScansAgree

LEMMA BeginFileKeepsScans ==
  ASSUME ScansAgree, BeginFile
  PROVE  ScansAgree'
<1>1. CASE tree[fd.name] = Absent
  <2>1. End("ERR_STATE")
    BY <1>1 DEF BeginFile
  <2>2. QED
    BY <2>1, EndKeepsScans DEF Outcomes
<1>2. CASE tree[fd.name] # Absent
  <2>1. /\ pc = "begin" /\ pc' = "data"
        /\ fd' = [fd EXCEPT !.position = 0, !.gone = Absent]
        /\ ctx' = rmr_fc16_entry_begin(ctx, fd.name, fd.size, "REGULAR")
        /\ UNCHANGED <<tree, changes, quiet, stack, first>>
    BY <1>2 DEF BeginFile, environment
  <2>2. entry' = entry
    BY <2>1 DEF entry
  <2>3. CustodyPlaces'
    BY <2>1 DEF ScansAgree, CustodyPlaces
  <2>4. ASSUME quiet
        PROVE  StandsStill'
    <3>1. /\ fd.name = entry /\ entry \in Files /\ entry \in Entries
          /\ tree[entry] \in Seq(Nat) /\ tree[entry] # Absent /\ Len(tree[entry]) \in Nat
      BY <2>1, <2>4, OpenFile
    <3>2. ctx \in Contexts /\ Walked(tree, At(stack, ctx)) /\ FileIsEntry /\ fd.size = Len(tree[entry])
      BY <2>1, <2>4 DEF ScansAgree, StandsStill
    <3>3. ctx' = Fed(ctx, entry, tree[entry], 0)
      BY <2>1, <3>1, <3>2, FedNothing
    <3>a. PICK p, g, z : fd = [name |-> entry, position |-> p, gone |-> g, size |-> z]
      BY <3>2 DEF FileIsEntry
    <3>b. z = fd.size
      BY <3>a
    <3>c. fd' = [fd EXCEPT !.position = 0, !.gone = Absent]
      BY <2>1
    <3>4. fd' = [name |-> entry, position |-> 0, gone |-> Absent, size |-> z]
      BY <3>a, <3>c, Reopened
    <3>5. 0 \in 0 .. Len(tree[entry])
      BY <3>1, SMT
    <3>6. FileIsEntry'
      BY <2>1, <2>2, <3>1, <3>4 DEF FileIsEntry
    <3>7. fd'.gone = Absent /\ fd'.position = 0 /\ fd'.size = Len(tree[entry])
      BY <3>2, <3>b, <3>4
    <3>8. (\E c \in Contexts : Walked(tree, At(stack, c)) /\ ctx = Fed(c, entry, tree[entry], fd.position))'
      BY <2>1, <2>2, <3>2, <3>3, <3>7
    <3>9. (first # <<>> => \E s : EndedWalk(s) /\ first[1].seen = rmr_fc16_finalize(s.ctx))'
      BY <2>1, <2>4, FirstStays
    <3>10. QED
      BY <2>1, <2>2, <3>5, <3>6, <3>7, <3>8, <3>9 DEF StandsStill
  <2>5. QED
    BY <2>1, <2>3, <2>4 DEF ScansAgree
<1>3. QED
  BY <1>1, <1>2

\* What the context has seen of the open file.
LEMMA SeenOfFile ==
  ASSUME ScansAgree, quiet, pc = "data"
  PROVE  /\ ctx.seen = fd.position /\ ctx.declared = Len(tree[entry]) /\ fd.size = Len(tree[entry])
         /\ fd.position \in 0 .. Len(tree[entry])
<1>1. entry \in Entries /\ tree[entry] \in Seq(Nat)
  BY OpenFile
<1>2. fd.position \in 0 .. Len(tree[entry]) /\ fd.size = Len(tree[entry])
  BY DEF ScansAgree, StandsStill
<1>3. PICK c \in Contexts : ctx = Fed(c, entry, tree[entry], fd.position)
  BY DEF ScansAgree, StandsStill
<1>4. QED
  BY <1>1, <1>2, <1>3, FedContext

LEMMA ReadFileKeepsScans ==
  ASSUME ScansAgree, ReadFile
  PROVE  ScansAgree'
<1>1. PICK k \in 1 .. IoBytes :
        /\ k <= left
        /\ IF ctx.seen + k > ctx.declared THEN End("ERR_SIZE")
           ELSE /\ ctx' = rmr_fc16_entry_data(ctx, SubSeq(content, fd.position + 1, fd.position + k))
                /\ fd' = [fd EXCEPT !.position = @ + k]
                /\ UNCHANGED <<environment, run, pc, stack, first, disk, had, writing>>
  BY DEF ReadFile
<1>2. pc = "data"
  BY DEF ReadFile
<1>k. k \in Nat
  BY Custody16Assumption, SMT
<1>3. ASSUME quiet
      PROVE  /\ fd.position + k <= Len(tree[entry]) /\ content = tree[entry]
             /\ ~ (ctx.seen + k > ctx.declared)
  <2>1. left = Len(tree[entry]) - fd.position /\ Len(tree[entry]) \in Nat /\ content = tree[entry]
    BY <1>2, <1>3, OpenFile
  <2>2. ctx.seen = fd.position /\ ctx.declared = Len(tree[entry]) /\ fd.position \in 0 .. Len(tree[entry])
    BY <1>2, <1>3, SeenOfFile
  <2> DEFINE n == Len(tree[entry])
             p == fd.position
  <2>3. p + k <= n /\ ~ (p + k > n)
    <3>1. k <= n - p /\ n \in Nat /\ p \in 0 .. n
      BY <1>1, <2>1, <2>2
    <3> HIDE DEF n, p
    <3>2. QED
      BY <1>k, <3>1, SMT
  <2>4. QED
    BY <2>1, <2>2, <2>3
<1>4. CASE ctx.seen + k > ctx.declared
  <2>1. ~ quiet
    BY <1>3, <1>4
  <2>2. QED
    BY <1>1, <1>4, <2>1, EndKeepsScans DEF Outcomes
<1>5. CASE ~ (ctx.seen + k > ctx.declared)
  <2>1. /\ ctx' = rmr_fc16_entry_data(ctx, SubSeq(content, fd.position + 1, fd.position + k))
        /\ fd' = [fd EXCEPT !.position = fd.position + k]
        /\ UNCHANGED <<tree, changes, quiet, pc, stack, first>>
    BY <1>1, <1>5 DEF environment
  <2>2. entry' = entry
    BY <2>1 DEF entry
  <2>3. CustodyPlaces'
    BY <2>1 DEF ScansAgree, CustodyPlaces
  <2>4. ASSUME quiet
        PROVE  StandsStill'
    <3>1. /\ entry \in Files /\ entry \in Entries
          /\ tree[entry] \in Seq(Nat) /\ tree[entry] # Absent /\ Len(tree[entry]) \in Nat
      BY <1>2, <2>4, OpenFile
    <3>2. /\ FileIsEntry /\ fd.size = Len(tree[entry]) /\ fd.gone = Absent
          /\ fd.position \in 0 .. Len(tree[entry])
      BY <1>2, <2>4 DEF ScansAgree, StandsStill
    <3>3. fd.position + k <= Len(tree[entry]) /\ content = tree[entry]
      BY <1>3, <2>4
    <3>4. PICK c \in Contexts : Walked(tree, At(stack, c)) /\ ctx = Fed(c, entry, tree[entry], fd.position)
      BY <1>2, <2>4 DEF ScansAgree, StandsStill
    <3>5. ctx' = Fed(c, entry, tree[entry], fd.position + k)
      BY <1>k, <2>1, <3>1, <3>2, <3>3, <3>4, FedMore
    <3>a. PICK p, g, z : fd = [name |-> entry, position |-> p, gone |-> g, size |-> z]
      BY <3>2 DEF FileIsEntry
    <3>b. p = fd.position /\ g = Absent /\ z = fd.size
      BY <3>2, <3>a
    <3>c. fd' = [fd EXCEPT !.position = p + k]
      BY <2>1, <3>b
    <3>6. fd' = [name |-> entry, position |-> p + k, gone |-> Absent, size |-> z]
      BY <3>a, <3>b, <3>c, Repositioned
    <3>7. fd.position + k \in 0 .. Len(tree[entry])
      BY <1>k, <3>1, <3>2, <3>3, SMT
    <3>8. FileIsEntry'
      BY <2>1, <2>2, <3>1, <3>6 DEF FileIsEntry
    <3>9. fd'.gone = Absent /\ fd'.position = fd.position + k /\ fd'.size = Len(tree[entry])
      BY <3>2, <3>b, <3>6
    <3>10. (\E d \in Contexts : Walked(tree, At(stack, d)) /\ ctx = Fed(d, entry, tree[entry], fd.position))'
      BY <2>1, <2>2, <3>4, <3>5, <3>9
    <3>11. (first # <<>> => \E s : EndedWalk(s) /\ first[1].seen = rmr_fc16_finalize(s.ctx))'
      BY <1>2, <2>1, <2>4, FirstStays
    <3>12. pc' = "data"
      BY <1>2, <2>1
    <3>13. QED
      BY <2>1, <2>2, <3>7, <3>8, <3>9, <3>10, <3>11, <3>12 DEF StandsStill
  <2>5. QED
    BY <2>1, <2>3, <2>4 DEF ScansAgree
<1>6. QED
  BY <1>4, <1>5

LEMMA EndFileKeepsScans ==
  ASSUME ScansAgree, EndFile
  PROVE  ScansAgree'
<1>1. pc = "data" /\ left <= 0
  BY DEF EndFile
<1>2. ASSUME quiet
      PROVE  ctx.seen = fd.size /\ fd.position = Len(tree[entry])
  <2>1. left = Len(tree[entry]) - fd.position /\ Len(tree[entry]) \in Nat
    BY <1>1, <1>2, OpenFile
  <2>2. ctx.seen = fd.position /\ fd.size = Len(tree[entry]) /\ fd.position \in 0 .. Len(tree[entry])
    BY <1>1, <1>2, SeenOfFile
  <2>3. fd.position = Len(tree[entry])
    BY <1>1, <2>1, <2>2, SMT
  <2>4. QED
    BY <2>2, <2>3
<1>3. CASE ctx.seen # fd.size
  <2>1. End("ERR_SIZE") /\ ~ quiet
    BY <1>2, <1>3 DEF EndFile
  <2>2. QED
    BY <2>1, EndKeepsScans DEF Outcomes
<1>4. CASE ctx.seen = fd.size
  <2>1. /\ ctx' = rmr_fc16_entry_end(ctx, fd.name) /\ stack' = others /\ pc' = "scan"
        /\ UNCHANGED <<tree, changes, quiet, first>>
    BY <1>4 DEF EndFile, environment
  <2>2. stack # <<>> /\ Head(stack) # <<>>
    BY <1>1 DEF ScansAgree, CustodyPlaces
  <2>3. others \in Seq(Frames)
    BY <2>2, StackHead DEF ScansAgree, CustodyPlaces
  <2>4. CustodyPlaces'
    BY <2>1, <2>3 DEF ScansAgree, CustodyPlaces
  <2>5. ASSUME quiet
        PROVE  StandsStill'
    <3>1. fd.name = entry /\ entry \in Entries /\ entry \notin Dirs \cup Links /\ tree[entry] \in Seq(Nat)
      BY <1>1, <2>5, OpenFile
    <3>2. PICK c \in Contexts : Walked(tree, At(stack, c)) /\ ctx = Fed(c, entry, tree[entry], fd.position)
      BY <1>1, <2>5 DEF ScansAgree, StandsStill
    <3>3. ctx' = TakenFile(c, entry, tree[entry])
      BY <1>2, <2>1, <2>5, <3>1, <3>2 DEF TakenFile
    <3>4. Walked(tree, At(others, TakenFile(c, entry, tree[entry])))
      BY <2>2, <3>1, <3>2, WalkAtEntry
    <3>5. Walked(tree, At(stack, ctx))'
      BY <2>1, <3>3, <3>4
    <3>6. ctx \in Contexts
      <4>1. fd.position \in 0 .. Len(tree[entry])
        BY <1>1, <2>5, SeenOfFile
      <4>2. QED
        BY <3>1, <3>2, <4>1, FedContext
    <3>7. ctx' \in Contexts
      BY <2>1, <3>1, <3>6, EndContext
    <3>8. (first # <<>> => \E s : EndedWalk(s) /\ first[1].seen = rmr_fc16_finalize(s.ctx))'
      BY <1>1, <2>1, <2>5, FirstStays
    <3>9. QED
      BY <2>1, <3>5, <3>7, <3>8 DEF StandsStill
  <2>6. QED
    BY <2>1, <2>4, <2>5 DEF ScansAgree
<1>5. QED
  BY <1>3, <1>4

LEMMA LeaveDirectoryKeepsScans ==
  ASSUME ScansAgree, LeaveDirectory
  PROVE  ScansAgree'
<1>1. /\ pc = "scan" /\ stack # <<>> /\ Head(stack) = <<>> /\ stack' = Tail(stack)
      /\ UNCHANGED <<tree, changes, quiet>>
  BY DEF LeaveDirectory, environment
<1>2. Tail(stack) \in Seq(Frames) /\ (Len(stack) = 1 => Tail(stack) = <<>>)
  BY <1>1, StackHead DEF ScansAgree, CustodyPlaces
<1> DEFINE s == At(stack, ctx)
<1>3. s.stack = stack /\ s.ctx = ctx
  BY DEF At
<1>4. quiet => ctx \in Contexts /\ Walked(tree, s)
  BY <1>1 DEF ScansAgree, StandsStill
<1> HIDE DEF s
<1>5. quiet => (first # <<>> => \E r : EndedWalk(r) /\ first[1].seen = rmr_fc16_finalize(r.ctx))
  BY <1>1 DEF ScansAgree, StandsStill
<1>6. CASE Len(stack) > 1 /\ UNCHANGED <<pc, ctx, first>>
  <2>1. CustodyPlaces'
    BY <1>1, <1>2, <1>6 DEF ScansAgree, CustodyPlaces
  <2>2. ASSUME quiet
        PROVE  StandsStill'
    <3>1. ~ (Len(stack) = 1)
      <4>1. Len(stack) > 1
        BY <1>6, Zenon
      <4>2. ~ (1 > 1)
        BY SMT
      <4>3. QED
        BY <4>1, <4>2, Zenon
    <3>2. ~ WalkEnded(s) /\ WalkStep(tree, s) = At(Tail(stack), ctx)
      BY <1>1, <1>3, <3>1 DEF WalkEnded, WalkStep
    <3>3. Walked(tree, At(Tail(stack), ctx))
      BY <1>4, <2>2, <3>2, WalkGoesOn
    <3>4. ctx' \in Contexts /\ Walked(tree, At(stack, ctx))'
      BY <1>1, <1>4, <1>6, <2>2, <3>3
    <3>5. (first # <<>> => \E r : EndedWalk(r) /\ first[1].seen = rmr_fc16_finalize(r.ctx))'
      BY <1>1, <1>6, <2>2, FirstStays
    <3>6. QED
      BY <1>1, <1>6, <3>4, <3>5 DEF StandsStill
  <2>3. QED
    BY <1>1, <2>1, <2>2 DEF ScansAgree
<1>7. ASSUME Len(stack) = 1
      PROVE  stack' = <<>> /\ <<>> \in Seq(Frames) /\ (quiet => EndedWalk(s))
  BY <1>1, <1>2, <1>3, <1>4, <1>7 DEF EndedWalk, WalkEnded
<1>8. CASE /\ Len(stack) = 1 /\ first = <<>>
           /\ first' = <<[seen |-> rmr_fc16_finalize(ctx), tree |-> tree]>>
           /\ ctx' = rmr_fc16_init /\ UNCHANGED pc
  <2>1. CustodyPlaces'
    BY <1>1, <1>7, <1>8 DEF ScansAgree, CustodyPlaces
  <2>2. ASSUME quiet
        PROVE  StandsStill'
    <3>1. ctx' \in Contexts /\ Walked(tree, At(stack, ctx))'
      BY <1>1, <1>7, <1>8, InitContext, WalkStarts
    <3>2. first'[1].seen = rmr_fc16_finalize(s.ctx) /\ EndedWalk(s)
      BY <1>3, <1>7, <1>8, <2>2
    <3>3. (\E r : EndedWalk(r) /\ first[1].seen = rmr_fc16_finalize(r.ctx))'
      BY <1>1, <3>2 DEF EndedWalk
    <3>4. QED
      BY <1>1, <1>8, <3>1, <3>3 DEF StandsStill
  <2>3. QED
    BY <1>1, <2>1, <2>2 DEF ScansAgree
<1>9. CASE Len(stack) = 1 /\ first # <<>> /\ pc' = "compare" /\ UNCHANGED <<ctx, first>>
  <2>1. CustodyPlaces'
    BY <1>1, <1>7, <1>9 DEF ScansAgree, CustodyPlaces
  <2>2. ASSUME quiet
        PROVE  StandsStill'
    <3>1. EndedWalk(s) /\ s.ctx = ctx
      BY <1>3, <1>7, <1>9, <2>2
    <3>2. (\E r : EndedWalk(r) /\ ctx = r.ctx)'
      BY <1>1, <1>9, <3>1 DEF EndedWalk
    <3>3. (first # <<>> => \E r : EndedWalk(r) /\ first[1].seen = rmr_fc16_finalize(r.ctx))'
      BY <1>1, <1>9, <2>2, FirstStays
    <3>4. QED
      BY <1>1, <1>9, <3>2, <3>3 DEF StandsStill
  <2>3. QED
    BY <1>1, <2>1, <2>2 DEF ScansAgree
<1>10. QED
  BY <1>6, <1>8, <1>9 DEF LeaveDirectory

\* The comparison of two scans of a tree that nothing changed.
LEMMA CompareKeepsScans ==
  ASSUME ScansAgree, Compare
  PROVE  ScansAgree'
<1>1. pc = "compare"
  BY DEF Compare
<1>2. ASSUME quiet
      PROVE  rmr_fc16_snapshot_equal(first[1].seen, rmr_fc16_finalize(ctx))
  <2>1. PICK s : EndedWalk(s) /\ first[1].seen = rmr_fc16_finalize(s.ctx)
    BY <1>1, <1>2 DEF ScansAgree, StandsStill
  <2>2. PICK r : EndedWalk(r) /\ ctx = r.ctx
    BY <1>1, <1>2 DEF ScansAgree, StandsStill
  <2>3. s = r
    BY <2>1, <2>2, WalksEndAlike DEF EndedWalk
  <2>4. QED
    BY <2>1, <2>2, <2>3 DEF rmr_fc16_snapshot_equal
<1>3. CASE rmr_fc16_snapshot_equal(first[1].seen, rmr_fc16_finalize(ctx))
  <2>1. pc' = "write" /\ UNCHANGED <<tree, changes, quiet, stack>>
    BY <1>3 DEF Compare, environment
  <2>2. CustodyPlaces'
    BY <1>1, <2>1 DEF ScansAgree, CustodyPlaces
  <2>3. StandsStill'
    BY <2>1 DEF StandsStill
  <2>4. QED
    BY <2>2, <2>3 DEF ScansAgree
<1>4. CASE ~ rmr_fc16_snapshot_equal(first[1].seen, rmr_fc16_finalize(ctx))
  <2>1. End("MISMATCH") /\ ~ quiet
    BY <1>2, <1>4 DEF Compare
  <2>2. QED
    BY <2>1, EndKeepsScans DEF Outcomes
<1>5. QED
  BY <1>3, <1>4

LEMMA FailsKeepsScans ==
  ASSUME ScansAgree, Fails \/ Killed
  PROVE  ScansAgree'
<1>1. CASE End("ERR_STATE")
  BY <1>1, EndKeepsScans DEF Outcomes
<1>2. CASE End("ERR_THERMAL")
  BY <1>2, EndKeepsScans DEF Outcomes
<1>3. CASE End("killed")
  BY <1>3, EndKeepsScans DEF Outcomes
<1>4. QED
  BY <1>1, <1>2, <1>3 DEF Fails, Killed

LEMMA WriteFileKeepsScans ==
  ASSUME ScansAgree, WriteFile
  PROVE  ScansAgree'
<1>1. pc = "write" /\ pc' \in {"write", "OK"} /\ UNCHANGED <<tree, changes, quiet, stack>>
  BY DEF WriteFile, environment
<1>2. CustodyPlaces'
  BY <1>1 DEF ScansAgree, CustodyPlaces
<1>3. StandsStill'
  BY <1>1 DEF StandsStill
<1>4. QED
  BY <1>2, <1>3 DEF ScansAgree

LEMMA PowerFailsKeepsScans ==
  ASSUME ScansAgree, PowerFails
  PROVE  ScansAgree'
<1>1. pc' = "killed" /\ stack' = <<>> /\ UNCHANGED <<tree, changes, quiet>>
  BY DEF PowerFails, environment
<1>2. <<>> \in Seq(Frames)
  BY EmptySeq
<1>3. CustodyPlaces'
  BY <1>1, <1>2 DEF ScansAgree, CustodyPlaces
<1>4. StandsStill'
  BY <1>1 DEF StandsStill
<1>5. QED
  BY <1>3, <1>4 DEF ScansAgree

LEMMA StartKeepsScans ==
  ASSUME ScansAgree, Start
  PROVE  ScansAgree'
<1>1. /\ Ended /\ pc' = "scan" /\ ctx' = rmr_fc16_init /\ first' = <<>>
      /\ UNCHANGED <<tree, changes, stack>>
  BY DEF Start
<1>2. stack = <<>>
  BY <1>1 DEF Ended, Outcomes, ScansAgree, CustodyPlaces
<1>3. CustodyPlaces'
  BY <1>1, <1>2 DEF ScansAgree, CustodyPlaces
<1>4. ctx' \in Contexts /\ Walked(tree, At(stack, ctx))'
  BY <1>1, <1>2, InitContext, WalkStarts
<1>5. StandsStill'
  BY <1>1, <1>4 DEF StandsStill
<1>6. QED
  BY <1>3, <1>5 DEF ScansAgree

LEMMA ChangeKeepsScans ==
  ASSUME ScansAgree, Change
  PROVE  ScansAgree'
<1>1. changes \in Nat /\ tree \in [Files -> {Absent} \cup Seq(Nat)]
  BY DEF ScansAgree, CustodyPlaces
<1>2. PICK f \in Files :
        \E new \in {Absent} \cup UNION {[1 .. k -> 0 .. changes + 1] : k \in FileLengths[f]} :
          tree' = [tree EXCEPT ![f] = new]
  BY DEF Change
<1>n. PICK new \in {Absent} \cup UNION {[1 .. k -> 0 .. changes + 1] : k \in FileLengths[f]} :
        tree' = [tree EXCEPT ![f] = new]
  BY <1>2
<1>3. new \in {Absent} \cup Seq(Nat)
  <2>1. ASSUME NEW k \in FileLengths[f], new \in [1 .. k -> 0 .. changes + 1]
        PROVE  new \in Seq(Nat)
    <3>1. k \in Nat
      BY Custody16Assumption
    <3>2. 0 .. changes + 1 \subseteq Nat
      BY <1>1, SMT
    <3>3. new \in [1 .. k -> Nat]
      BY <2>1, <3>2
    <3>4. QED
      BY <3>1, <3>3, SMT
  <2>2. QED
    BY <1>n, <2>1
<1>4. tree' \in [Files -> {Absent} \cup Seq(Nat)]
  BY <1>1, <1>n, <1>3
<1>5. changes' \in Nat /\ UNCHANGED <<pc, stack>> /\ ~ quiet'
  <2>1. changes' = changes + 1 /\ quiet' = FALSE /\ UNCHANGED <<pc, stack>>
    BY DEF Change
  <2>2. changes + 1 \in Nat
    BY <1>1, SMT
  <2>3. QED
    BY <2>1, <2>2
<1>6. CustodyPlaces'
  BY <1>4, <1>5 DEF ScansAgree, CustodyPlaces
<1>7. QED
  BY <1>5, <1>6 DEF ScansAgree

LEMMA ScanSteps == ScansAgree /\ [Next]_vars => ScansAgree'
<1> SUFFICES ASSUME ScansAgree, [Next]_vars PROVE ScansAgree'
  OBVIOUS
<1>1. CASE Next
  BY <1>1, ChangeKeepsScans, StartKeepsScans, OpenRootKeepsScans, EnterDirectoryKeepsScans,
     SkipLinkKeepsScans, StatFileKeepsScans, CountFileKeepsScans, BeginFileKeepsScans,
     ReadFileKeepsScans, EndFileKeepsScans, LeaveDirectoryKeepsScans, FailsKeepsScans,
     CompareKeepsScans, WriteFileKeepsScans, PowerFailsKeepsScans DEF Next
<1>2. CASE UNCHANGED vars
  <2>1. UNCHANGED <<tree, changes, quiet, pc, stack, fd, ctx, first>>
    BY <1>2 DEF vars, environment
  <2>2. entry' = entry
    BY <2>1 DEF entry
  <2>3. CustodyPlaces'
    BY <2>1 DEF ScansAgree, CustodyPlaces
  <2>4. ASSUME quiet PROVE StandsStill'
    <3>1. StandsStill
      BY <2>4 DEF ScansAgree
    <3>2. QED
      BY <2>1, <2>2, <3>1 DEF StandsStill, FileIsEntry, EndedWalk
  <2>5. QED
    BY <2>1, <2>3, <2>4 DEF ScansAgree
<1>3. QED
  BY <1>1, <1>2

\* Whatever the tree, its size and the lengths of the reads: two scans of
\* what nothing changes agree, and every file has the size it was said to have.
THEOREM NoFalseAlarmRaised == Spec => []NoFalseAlarm
<1>1. ScansAgree => NoFalseAlarm
  BY DEF ScansAgree, StandsStill, NoFalseAlarm
<1>2. QED
  BY <1>1, ScanStarts, ScanSteps, PTL DEF Spec

-----------------------------------------------------------------------------
(* What the entries of a tree that stands still log: the function of LogOf. *)

AllEntries == Entries \cup {Root}
Trees == [Files -> {Absent} \cup Seq(Nat)]

LogBody(t, log, e) ==
  IF e \in Links THEN record(e, 0, "SYMLINK_SKIPPED", <<>>)
  ELSE IF e \in Files
  THEN IF t[e] = Absent THEN <<>> ELSE record(e, Len(t[e]), "REGULAR", t[e])
  ELSE (IF e = Root THEN <<>> ELSE record(e, 0, "DIRECTORY", <<>>))
       \o FlattenSeq([i \in DOMAIN Children[e] |-> log[Children[e][i]]])

EntryLogs(t) == CHOOSE log : log = [e \in AllEntries |-> LogBody(t, log, e)]

LEMMA LogOfRoot ==
  ASSUME NEW t
  PROVE  LogOf(t) = EntryLogs(t)[Root]
BY DEF LogOf, EntryLogs, LogBody, AllEntries

\* The log of an entry is made of those of its children.
LEMMA BodyOfChildren ==
  ASSUME NEW t, NEW g, NEW h, NEW e \in AllEntries,
         e \in Dirs => \A i \in DOMAIN Children[e] : g[Children[e][i]] = h[Children[e][i]]
  PROVE  LogBody(t, g, e) = LogBody(t, h, e)
<1>1. CASE e \in Links \/ e \in Files
  BY <1>1 DEF LogBody
<1>2. CASE e \notin Links /\ e \notin Files
  <2>1. e \in Dirs
    BY <1>2, Custody16Assumption DEF AllEntries, Files
  <2> DEFINE a == [i \in DOMAIN Children[e] |-> g[Children[e][i]]]
             b == [i \in DOMAIN Children[e] |-> h[Children[e][i]]]
             k == IF e = Root THEN <<>> ELSE record(e, 0, "DIRECTORY", <<>>)
  <2>2. a = b
    BY <2>1
  <2>3. LogBody(t, g, e) = k \o FlattenSeq(a) /\ LogBody(t, h, e) = k \o FlattenSeq(b)
    BY <1>2 DEF LogBody
  <2> HIDE DEF a, b, k
  <2>4. QED
    BY <2>2, <2>3
<1>3. QED
  BY <1>1, <1>2

\* The children of a directory are entries.
LEMMA ChildIsEntry ==
  ASSUME NEW d \in Dirs, NEW i \in DOMAIN Children[d]
  PROVE  Children[d][i] \in Entries /\ Children[d][i] \in Range(Children[d])
<1> DEFINE c == Children[d]
<1>1. c \in Seq(Entries)
  BY Custody16Assumption
<1> HIDE DEF c
<1>2. \A j \in DOMAIN c : c[j] \in Entries
  BY <1>1, LenProperties, ElementOfSeq
<1>3. QED
  BY <1>2 DEF c, Range

\* The function exists, as directories have a height.
LEMMA LogsExist ==
  ASSUME NEW t
  PROVE  \E log : log = [e \in AllEntries |-> LogBody(t, log, e)]
<1>1. PICK height \in [Dirs -> 0 .. Cardinality(Dirs)] :
        \A d \in Dirs : \A e \in Range(Children[d]) \cap Dirs : height[e] < height[d]
  BY Custody16Assumption
<1>2. Cardinality(Dirs) \in Nat
  BY Custody16Assumption, FS_CardinalityType
<1>3. \A d \in Dirs : height[d] \in Nat /\ height[d] <= Cardinality(Dirs)
  BY <1>1, <1>2, SMT
<1> DEFINE Done(n) == {e \in AllEntries : e \in Dirs => height[e] < n}
           Right(g, n) == \A e \in Done(n) : g[e] = LogBody(t, g, e)
           P == {n \in Nat : \E g : Right(g, n)}
           Next1(g) == [e \in AllEntries |-> LogBody(t, g, e)]
<1>4. ASSUME NEW g, NEW n \in Nat, Right(g, n)
      PROVE  \A e \in Done(n + 1) : LogBody(t, g, e) = LogBody(t, Next1(g), e)
  <2>1. SUFFICES ASSUME NEW e \in Done(n + 1), e \in Dirs, NEW i \in DOMAIN Children[e]
                 PROVE  g[Children[e][i]] = Next1(g)[Children[e][i]]
    BY BodyOfChildren
  <2> DEFINE x == Children[e][i]
  <2>2. x \in Entries /\ x \in Range(Children[e])
    BY <2>1, ChildIsEntry
  <2> HIDE DEF x
  <2>3. x \in AllEntries
    BY <2>2 DEF AllEntries
  <2>4. x \in Dirs => height[x] < n
    <3>1. SUFFICES ASSUME x \in Dirs PROVE height[x] < n
      OBVIOUS
    <3>2. height[x] < height[e] /\ height[e] < n + 1 /\ height[x] \in Nat /\ height[e] \in Nat
      BY <1>1, <1>3, <2>1, <2>2, <3>1
    <3>3. QED
      BY <3>2, SMT
  <2>5. g[x] = LogBody(t, g, x)
    BY <1>4, <2>3, <2>4
  <2>6. Next1(g)[x] = LogBody(t, g, x)
    BY <2>3
  <2>7. QED
    BY <2>5, <2>6 DEF x
<1>5. 0 \in P
  <2> DEFINE g == Next1(<<>>)
  <2>1. ASSUME NEW e \in Done(0)
        PROVE  g[e] = LogBody(t, g, e)
    <3>1. e \in AllEntries /\ e \notin Dirs
      BY <1>3, SMT
    <3>2. LogBody(t, <<>>, e) = LogBody(t, g, e)
      BY <3>1, BodyOfChildren
    <3>3. QED
      BY <3>1, <3>2
  <2>2. QED
    BY <2>1
<1>6. ASSUME NEW n \in Nat, n \in P
      PROVE  n + 1 \in P
  <2>1. PICK g : Right(g, n)
    BY <1>6
  <2>2. \A e \in Done(n + 1) : LogBody(t, g, e) = LogBody(t, Next1(g), e)
    BY <1>4, <2>1
  <2>3. \A e \in Done(n + 1) : Next1(g)[e] = LogBody(t, Next1(g), e)
    BY <2>2
  <2>4. n + 1 \in Nat
    BY SMT
  <2>5. QED
    BY <2>3, <2>4
<1>7. \A n \in Nat : n \in P
  <2> HIDE DEF P
  <2>1. QED
    BY <1>5, <1>6, SetInduction
<1> DEFINE N == Cardinality(Dirs) + 1
<1>8. N \in Nat /\ N + 1 \in Nat
  BY <1>2, SMT
<1>9. PICK g : Right(g, N)
  BY <1>7, <1>8
<1>10. Done(N + 1) = AllEntries
  <2>1. \A d \in Dirs : height[d] < N + 1
    BY <1>2, <1>3, SMT
  <2>2. QED
    BY <2>1
<1>11. \A e \in AllEntries : LogBody(t, g, e) = LogBody(t, Next1(g), e)
  BY <1>4, <1>8, <1>9, <1>10
<1>12. Next1(g) = [e \in AllEntries |-> LogBody(t, Next1(g), e)]
  BY <1>11
<1>13. QED
  BY <1>12

LEMMA LogsAre ==
  ASSUME NEW t, NEW e \in AllEntries
  PROVE  EntryLogs(t)[e] = LogBody(t, EntryLogs(t), e)
<1>1. EntryLogs(t) = [x \in AllEntries |-> LogBody(t, EntryLogs(t), x)]
  BY LogsExist DEF EntryLogs
<1>2. QED
  BY <1>1

\* What an entry with its data leaves in the log.
Logs == Seq(LogItems)

LEMMA RecordType ==
  ASSUME NEW e \in Entries, NEW n \in Nat, NEW k \in EntryKinds, NEW data \in Seq(Nat)
  PROVE  /\ record(e, n, k, data) \in Logs
         /\ record(e, n, k, data) =
              Cat(Cat(<< <<"ENTR", e, n, k>> >>, logged(data)), << <<"ENDR", e, n>> >>)
         /\ << <<"ENTR", e, n, k>> >> \in Logs /\ << <<"ENDR", e, n>> >> \in Logs
         /\ Cat(<< <<"ENTR", e, n, k>> >>, logged(data)) \in Logs
<1> DEFINE b == <<"ENTR", e, n, k>>
           c == <<"ENDR", e, n>>
           r == record(e, n, k, data)
<1>1. b \in LogItems /\ c \in LogItems
  BY DEF LogItems, Begun, Closed
<1>2. r = Cat(Cat(<<b>>, logged(data)), <<c>>)
  BY DEF record, Cat
<1> HIDE DEF b, c, r
<1>3. <<b>> \in Seq(LogItems) /\ <<c>> \in Seq(LogItems)
  BY <1>1, SMT
<1>4. logged(data) \in Seq(LogItems)
  BY LoggedType
<1>5. Cat(<<b>>, logged(data)) \in Seq(LogItems)
  BY <1>3, <1>4, CatProperties
<1>6. r \in Seq(LogItems)
  BY <1>2, <1>3, <1>5, CatProperties
<1>7. QED
  BY <1>2, <1>3, <1>5, <1>6 DEF b, c, r, Logs

\* The logs of a list of entries.
MapLogs(t, p) == [i \in DOMAIN p |-> EntryLogs(t)[p[i]]]
LogsOf(t, p) == FlattenSeq(MapLogs(t, p))

LEMMA MappedType ==
  ASSUME NEW t, NEW p \in Frames, \A i \in DOMAIN p : EntryLogs(t)[p[i]] \in Logs
  PROVE  /\ MapLogs(t, p) \in Seq(Logs) /\ Len(MapLogs(t, p)) = Len(p)
         /\ LogsOf(t, p) \in Logs
<1> DEFINE n == Len(p)
           m == MapLogs(t, p)
<1>1. n \in Nat /\ DOMAIN p = 1 .. n
  BY LenProperties DEF Frames
<1>2. m = [i \in 1 .. n |-> m[i]] /\ \A i \in 1 .. n : m[i] \in Logs
  BY <1>1 DEF MapLogs
<1> HIDE DEF m, n
<1>3. m \in [1 .. n -> Logs]
  BY <1>2
<1>4. m \in Seq(Logs) /\ Len(m) = n
  BY <1>1, <1>3, SMT
<1>5. FlattenSeq(m) \in Seq(LogItems)
  BY <1>4, FlattenType DEF Logs
<1>6. QED
  BY <1>4, <1>5 DEF m, n, LogsOf, Logs

LEMMA LogsType ==
  ASSUME NEW t \in Trees, NEW e \in AllEntries
  PROVE  EntryLogs(t)[e] \in Logs
<1>1. PICK height \in [Dirs -> 0 .. Cardinality(Dirs)] :
        \A d \in Dirs : \A x \in Range(Children[d]) \cap Dirs : height[x] < height[d]
  BY Custody16Assumption
<1>2. Cardinality(Dirs) \in Nat
  BY Custody16Assumption, FS_CardinalityType
<1>3. \A d \in Dirs : height[d] \in Nat /\ height[d] <= Cardinality(Dirs)
  BY <1>1, <1>2, SMT
<1> DEFINE P == {n \in Nat : \A x \in AllEntries : (x \in Dirs => height[x] < n) => EntryLogs(t)[x] \in Logs}
<1>e. <<>> \in Logs
  BY EmptySeq DEF Logs
<1>4. ASSUME NEW x \in AllEntries, x \notin Dirs
      PROVE  EntryLogs(t)[x] \in Logs
  <2>1. x \in Entries /\ x # Root
    BY <1>4, Custody16Assumption DEF AllEntries
  <2>2. EntryLogs(t)[x] = LogBody(t, EntryLogs(t), x)
    BY LogsAre
  <2>3. CASE x \in Links
    <3>1. <<>> \in Seq(Nat) /\ "SYMLINK_SKIPPED" \in EntryKinds /\ 0 \in Nat
      BY EmptySeq DEF EntryKinds
    <3>2. record(x, 0, "SYMLINK_SKIPPED", <<>>) \in Logs
      BY <2>1, <3>1, RecordType
    <3>3. QED
      BY <2>2, <2>3, <3>2 DEF LogBody
  <2>4. CASE x \notin Links
    <3>1. x \in Files
      BY <1>4, <2>1, <2>4 DEF Files
    <3>2. CASE t[x] = Absent
      BY <1>e, <2>2, <2>4, <3>1, <3>2 DEF LogBody
    <3>3. CASE t[x] # Absent
      <4>1. t[x] \in Seq(Nat)
        BY <3>1, <3>3 DEF Trees
      <4>2. Len(t[x]) \in Nat /\ "REGULAR" \in EntryKinds
        BY <4>1, LenProperties DEF EntryKinds
      <4>3. record(x, Len(t[x]), "REGULAR", t[x]) \in Logs
        BY <2>1, <4>1, <4>2, RecordType
      <4>4. QED
        BY <2>2, <2>4, <3>1, <3>3, <4>3 DEF LogBody
    <3>4. QED
      BY <3>2, <3>3
  <2>5. QED
    BY <2>3, <2>4
<1>5. 0 \in P
  <2>1. \A d \in Dirs : ~ (height[d] < 0)
    BY <1>3, SMT
  <2>2. QED
    BY <1>4, <2>1
<1>6. ASSUME NEW n \in Nat, n \in P
      PROVE  n + 1 \in P
  <2>0. n + 1 \in Nat
    BY SMT
  <2>1. SUFFICES ASSUME NEW x \in AllEntries, x \in Dirs, height[x] < n + 1
                 PROVE  EntryLogs(t)[x] \in Logs
    BY <1>4, <2>0
  <2> DEFINE c == Children[x]
             k == IF x = Root THEN <<>> ELSE record(x, 0, "DIRECTORY", <<>>)
             m == MapLogs(t, c)
  <2>2. x \notin Links /\ x \notin Files
    BY <2>1, Custody16Assumption DEF Files
  <2>3. EntryLogs(t)[x] = Cat(k, LogsOf(t, c))
    <3>1. EntryLogs(t)[x] = LogBody(t, EntryLogs(t), x)
      BY LogsAre
    <3>2. QED
      BY <2>2, <3>1 DEF LogBody, Cat, LogsOf, MapLogs
  <2>4. k \in Logs
    <3>1. CASE x = Root
      BY <1>e, <3>1
    <3>2. CASE x # Root
      <4>1. x \in Entries /\ <<>> \in Seq(Nat) /\ "DIRECTORY" \in EntryKinds /\ 0 \in Nat
        BY <3>2, EmptySeq DEF EntryKinds, AllEntries
      <4>2. record(x, 0, "DIRECTORY", <<>>) \in Logs
        BY <4>1, RecordType
      <4>3. QED
        BY <3>2, <4>2
    <3>3. QED
      BY <3>1, <3>2
  <2>5. ASSUME NEW i \in DOMAIN c
        PROVE  EntryLogs(t)[c[i]] \in Logs
    <3> DEFINE y == c[i]
    <3>1. y \in Entries /\ y \in Range(c)
      BY <2>1, ChildIsEntry
    <3>2. y \in Dirs => height[y] < height[x]
      BY <1>1, <2>1, <3>1
    <3> HIDE DEF y, c
    <3>3. y \in Dirs => height[y] < n
      <4>1. SUFFICES ASSUME y \in Dirs PROVE height[y] < n
        OBVIOUS
      <4>2. height[y] < height[x] /\ height[x] < n + 1 /\ height[y] \in Nat /\ height[x] \in Nat
        BY <1>3, <2>1, <3>2, <4>1
      <4>3. QED
        BY <4>2, SMT
    <3>4. EntryLogs(t)[y] \in Logs
      BY <1>6, <3>1, <3>3 DEF AllEntries
    <3>5. QED
      BY <3>4 DEF y
  <2>6. c \in Frames
    BY <2>1, Custody16Assumption DEF Frames
  <2> HIDE DEF c, k
  <2>7. LogsOf(t, c) \in Logs
    BY <2>5, <2>6, MappedType
  <2>8. QED
    BY <2>3, <2>4, <2>7, CatProperties DEF Logs
<1>7. \A n \in Nat : n \in P
  <2> HIDE DEF P
  <2>1. QED
    BY <1>5, <1>6, SetInduction
<1>8. Cardinality(Dirs) + 1 \in Nat /\ \A d \in Dirs : height[d] < Cardinality(Dirs) + 1
  BY <1>2, <1>3, SMT
<1>9. QED
  BY <1>7, <1>8

-----------------------------------------------------------------------------
(* Lists by their elements.                                                 *)

\* The elements of two lists, one behind the other.
Joined(X, a, b, c, n, m) ==
  /\ c \in Seq(X) /\ Len(c) = n + m /\ n \in Nat /\ m \in Nat
  /\ DOMAIN a = 1 .. n /\ DOMAIN b = 1 .. m /\ DOMAIN c = 1 .. n + m
  /\ \A i \in 1 .. n : i \in 1 .. n + m /\ c[i] = a[i]
  /\ \A j \in 1 .. m : n + j \in 1 .. n + m /\ c[n + j] = b[j]
  /\ \A i \in 1 .. n + m : i \in 1 .. n \/ \E j \in 1 .. m : i = n + j

LEMMA CatElements ==
  ASSUME NEW X, NEW a \in Seq(X), NEW b \in Seq(X)
  PROVE  Joined(X, a, b, Cat(a, b), Len(a), Len(b))
<1> DEFINE n == Len(a)
           m == Len(b)
           c == Cat(a, b)
<1>1. n \in Nat /\ m \in Nat /\ DOMAIN a = 1 .. n /\ DOMAIN b = 1 .. m
  BY LenProperties
<1>2. c \in Seq(X) /\ Len(c) = n + m /\ \A i \in 1 .. n + m : c[i] = IF i <= n THEN a[i] ELSE b[i - n]
  BY CatProperties, Zenon
<1>3. DOMAIN c = 1 .. n + m
  <2> HIDE DEF c
  <2>1. DOMAIN c = 1 .. Len(c)
    BY <1>2, LenProperties
  <2>2. QED
    BY <1>2, <2>1
<1> HIDE DEF c, n, m
<1>4. \A i \in 1 .. n : i \in 1 .. n + m /\ i <= n
  BY <1>1, SMT
<1>5. \A j \in 1 .. m : n + j \in 1 .. n + m /\ ~ (n + j <= n) /\ (n + j) - n = j
  BY <1>1, SMT
<1>6. \A i \in 1 .. n + m : i \in 1 .. n \/ (i - n \in 1 .. m /\ i = n + (i - n))
  BY <1>1, SMT
<1>7. \A i \in 1 .. n : c[i] = a[i]
  BY <1>2, <1>4, Zenon
<1>8. \A j \in 1 .. m : c[n + j] = b[j]
  BY <1>2, <1>5, Zenon
<1>9. \A i \in 1 .. n + m : i \in 1 .. n \/ \E j \in 1 .. m : i = n + j
  BY <1>6, Zenon
<1>10. QED
  BY <1>1, <1>2, <1>3, <1>4, <1>5, <1>7, <1>8, <1>9 DEF c, n, m, Joined

LEMMA CatRange ==
  ASSUME NEW X, NEW a \in Seq(X), NEW b \in Seq(X)
  PROVE  Range(Cat(a, b)) = Range(a) \cup Range(b)
<1> DEFINE n == Len(a)
           m == Len(b)
           c == Cat(a, b)
<1>0. Joined(X, a, b, c, n, m)
  BY CatElements
<1> HIDE DEF c, n, m
<1>1. /\ DOMAIN a = 1 .. n /\ DOMAIN b = 1 .. m /\ DOMAIN c = 1 .. n + m
      /\ \A i \in 1 .. n : i \in 1 .. n + m /\ c[i] = a[i]
      /\ \A j \in 1 .. m : n + j \in 1 .. n + m /\ c[n + j] = b[j]
      /\ \A i \in 1 .. n + m : i \in 1 .. n \/ \E j \in 1 .. m : i = n + j
  BY <1>0 DEF Joined
<1>2. Range(a) \subseteq Range(c)
  BY <1>1, Zenon DEF Range
<1>3. Range(b) \subseteq Range(c)
  BY <1>1, Zenon DEF Range
<1>4. ASSUME NEW i \in 1 .. n + m
      PROVE  c[i] \in Range(a) \cup Range(b)
  <2>1. CASE i \in 1 .. n
    BY <1>1, <2>1, Zenon DEF Range
  <2>2. CASE \E j \in 1 .. m : i = n + j
    <3>1. PICK j \in 1 .. m : i = n + j
      BY <2>2
    <3>2. c[i] = b[j] /\ j \in DOMAIN b
      BY <1>1, <3>1, Zenon
    <3>3. QED
      BY <3>2, Zenon DEF Range
  <2>3. QED
    BY <1>1, <2>1, <2>2, Zenon
<1>5. Range(c) \subseteq Range(a) \cup Range(b)
  BY <1>1, <1>4, Zenon DEF Range
<1>6. QED
  BY <1>2, <1>3, <1>5 DEF c

\* No element is there twice.
Distinct(p) == \A i, j \in DOMAIN p : p[i] = p[j] => i = j

LEMMA CatDistinct ==
  ASSUME NEW X, NEW a \in Seq(X), NEW b \in Seq(X)
  PROVE  Distinct(Cat(a, b)) <=> Distinct(a) /\ Distinct(b) /\ Range(a) \cap Range(b) = {}
<1> DEFINE n == Len(a)
           m == Len(b)
           c == Cat(a, b)
<1>0. Joined(X, a, b, c, n, m)
  BY CatElements
<1> HIDE DEF c, n, m
<1>1. /\ DOMAIN a = 1 .. n /\ DOMAIN b = 1 .. m /\ DOMAIN c = 1 .. n + m /\ n \in Nat /\ m \in Nat
      /\ \A i \in 1 .. n : i \in 1 .. n + m /\ c[i] = a[i]
      /\ \A j \in 1 .. m : n + j \in 1 .. n + m /\ c[n + j] = b[j]
      /\ \A i \in 1 .. n + m : i \in 1 .. n \/ \E j \in 1 .. m : i = n + j
  BY <1>0 DEF Joined
<1>2. /\ \A i \in 1 .. n, j \in 1 .. m : i # n + j
      /\ \A i, j \in 1 .. m : n + i = n + j => i = j
  BY <1>1, SMT
<1>3. ASSUME Distinct(c)
      PROVE  Distinct(a) /\ Distinct(b) /\ Range(a) \cap Range(b) = {}
  <2>1. Distinct(a)
    BY <1>1, <1>3, Zenon DEF Distinct
  <2>2. Distinct(b)
    <3>1. SUFFICES ASSUME NEW i \in 1 .. m, NEW j \in 1 .. m, b[i] = b[j] PROVE i = j
      BY <1>1 DEF Distinct
    <3>2. c[n + i] = c[n + j] /\ n + i \in DOMAIN c /\ n + j \in DOMAIN c
      BY <1>1, <3>1, Zenon
    <3>3. n + i = n + j
      BY <1>3, <3>2, Zenon DEF Distinct
    <3>4. QED
      BY <1>2, <3>3, Zenon
  <2>3. ASSUME NEW i \in 1 .. n, NEW j \in 1 .. m, a[i] = b[j]
        PROVE  FALSE
    <3>1. c[i] = c[n + j] /\ i \in DOMAIN c /\ n + j \in DOMAIN c
      BY <1>1, <2>3, Zenon
    <3>2. i = n + j
      BY <1>3, <3>1, Zenon DEF Distinct
    <3>3. QED
      BY <1>2, <3>2, Zenon
  <2>4. Range(a) \cap Range(b) = {}
    <3>1. \A i \in DOMAIN a, j \in DOMAIN b : a[i] # b[j]
      BY <1>1, <2>3, Zenon
    <3>2. \A x \in Range(a), y \in Range(b) : x # y
      BY <3>1, Zenon DEF Range
    <3>3. QED
      BY <3>2
  <2>5. QED
    BY <2>1, <2>2, <2>4
<1>4. ASSUME Distinct(a), Distinct(b), Range(a) \cap Range(b) = {}
      PROVE  Distinct(c)
  <2>0. \A i \in 1 .. n, j \in 1 .. m : a[i] # b[j]
    <3>1. \A i \in DOMAIN a, j \in DOMAIN b : a[i] # b[j]
      BY <1>4 DEF Range
    <3>2. QED
      BY <1>1, <3>1, Zenon
  <2>1. SUFFICES ASSUME NEW i \in 1 .. n + m, NEW j \in 1 .. n + m, c[i] = c[j] PROVE i = j
    BY <1>1 DEF Distinct
  <2>2. CASE i \in 1 .. n /\ j \in 1 .. n
    <3>1. a[i] = a[j]
      BY <1>1, <2>1, <2>2, Zenon
    <3>2. QED
      BY <1>1, <1>4, <2>2, <3>1, Zenon DEF Distinct
  <2>3. CASE i \in 1 .. n /\ \E k \in 1 .. m : j = n + k
    <3>1. PICK k \in 1 .. m : j = n + k
      BY <2>3
    <3>2. a[i] = b[k]
      BY <1>1, <2>1, <2>3, <3>1, Zenon
    <3>3. QED
      BY <2>0, <2>3, <3>2, Zenon
  <2>4. CASE j \in 1 .. n /\ \E k \in 1 .. m : i = n + k
    <3>1. PICK k \in 1 .. m : i = n + k
      BY <2>4
    <3>2. a[j] = b[k]
      BY <1>1, <2>1, <2>4, <3>1, Zenon
    <3>3. QED
      BY <2>0, <2>4, <3>2, Zenon
  <2>5. CASE (\E k \in 1 .. m : i = n + k) /\ (\E l \in 1 .. m : j = n + l)
    <3>1. PICK k \in 1 .. m, l \in 1 .. m : i = n + k /\ j = n + l
      BY <2>5
    <3>2. b[k] = b[l] /\ k \in DOMAIN b /\ l \in DOMAIN b
      BY <1>1, <2>1, <3>1, Zenon
    <3>3. k = l
      BY <1>4, <3>2, Zenon DEF Distinct
    <3>4. QED
      BY <3>1, <3>3
  <2>6. QED
    BY <1>1, <2>2, <2>3, <2>4, <2>5, Zenon
<1>5. QED
  BY <1>3, <1>4 DEF c

\* Lists of one element and of none.
LEMMA OneElement ==
  ASSUME NEW X, NEW e \in X
  PROVE  /\ <<e>> \in Seq(X) /\ Range(<<e>>) = {e} /\ Distinct(<<e>>)
         /\ <<>> \in Seq(X) /\ Range(<<>>) = {} /\ Distinct(<<>>)
<1>1. <<e>> \in Seq(X) /\ <<>> \in Seq(X) /\ DOMAIN <<e>> = {1} /\ DOMAIN <<>> = {}
  BY SMT
<1>2. Range(<<e>>) = {e}
  BY <1>1, SMT DEF Range
<1>3. Range(<<>>) = {}
  BY <1>1 DEF Range
<1>4. Distinct(<<e>>) /\ Distinct(<<>>)
  BY <1>1 DEF Distinct
<1>5. QED
  BY <1>1, <1>2, <1>3, <1>4

\* A list is its first element and the others.
LEMMA SplitList ==
  ASSUME NEW X, NEW p \in Seq(X), p # <<>>
  PROVE  Head(p) \in X /\ Tail(p) \in Seq(X) /\ p = Cat(<<Head(p)>>, Tail(p))
<1> DEFINE h == Head(p)
           t == Tail(p)
           n == Len(p)
<1>1. n \in Nat /\ n # 0
  BY EmptySeq, LenProperties
<1>2. h \in X /\ t \in Seq(X) /\ Len(t) = n - 1 /\ (\A i \in 1 .. Len(t) : t[i] = p[i + 1]) /\ h = p[1]
  BY HeadTailProperties
<1> HIDE DEF h, t
<1> DEFINE s == <<h>>
           c == Cat(s, t)
<1>3. s \in Seq(X) /\ Len(s) = 1 /\ s[1] = h
  BY <1>2, SMT
<1> HIDE DEF s
<1>4. Joined(X, s, t, c, Len(s), Len(t))
  BY <1>2, <1>3, CatElements
<1> HIDE DEF c
<1>5. c \in Seq(X) /\ Len(c) = n
  <2>1. Len(c) = 1 + (n - 1)
    BY <1>2, <1>3, <1>4 DEF Joined
  <2>2. c \in Seq(X)
    BY <1>4 DEF Joined
  <2> HIDE DEF n
  <2>3. 1 + (n - 1) = n
    BY <1>1, SMT
  <2>4. QED
    BY <2>1, <2>2, <2>3
<1>6. ASSUME NEW i \in 1 .. n
      PROVE  c[i] = p[i]
  <2>1. CASE i = 1
    <3>1. 1 \in 1 .. 1
      BY SMT
    <3>2. QED
      BY <1>2, <1>3, <1>4, <2>1, <3>1 DEF Joined
  <2>2. CASE i # 1
    <3> DEFINE j == i - 1
    <3>1. j \in 1 .. n - 1 /\ i = 1 + j /\ i = j + 1
      <4> HIDE DEF n
      <4>1. QED
        BY <1>1, <2>2, SMT
    <3> HIDE DEF j, n
    <3>2. c[1 + j] = t[j] /\ t[j] = p[j + 1]
      BY <1>2, <1>3, <1>4, <3>1, Zenon DEF Joined
    <3>3. QED
      BY <3>1, <3>2, Zenon
  <2>3. QED
    BY <2>1, <2>2
<1>7. c = p
  BY <1>5, <1>6, SeqEqual
<1>8. QED
  BY <1>2, <1>7 DEF c, s, h, t

\* What is still to be scanned, in order.
Pending(st) == FlattenSeq(st)

LEMMA PendingOf ==
  ASSUME NEW h \in Frames, NEW st \in Seq(Frames)
  PROVE  /\ Pending(<<h>> \o st) = Cat(h, Pending(st))
         /\ Pending(st) \in Frames /\ Pending(<<h>> \o st) \in Frames
<1> DEFINE s == <<h>>
<1>1. s \in Seq(Frames)
  <2> HIDE DEF Frames
  <2>1. QED
    BY SMT
<1>2. FlattenSeq(s) = h
  BY FlattenOne DEF Frames
<1> HIDE DEF s
<1>3. FlattenSeq(Cat(s, st)) = Cat(FlattenSeq(s), FlattenSeq(st))
  BY <1>1, FlattenConcat DEF Frames
<1>4. FlattenSeq(st) \in Frames
  BY FlattenType DEF Frames
<1>5. Cat(h, FlattenSeq(st)) \in Frames
  BY <1>4, CatProperties DEF Frames
<1>6. QED
  BY <1>2, <1>3, <1>4, <1>5 DEF s, Pending, Cat

\* The entry that is next, and what is pending once it is taken.
LEMMA PendingEntry ==
  ASSUME NEW st \in Seq(Frames), st # <<>>, Head(st) # <<>>
  PROVE  /\ NextEntry(st) \in Entries /\ Rest(st) \in Seq(Frames) /\ Pending(Rest(st)) \in Frames
         /\ Pending(st) = Cat(<<NextEntry(st)>>, Pending(Rest(st)))
<1> DEFINE h == Head(st)
           r == Tail(st)
<1>1. h \in Frames /\ r \in Seq(Frames) /\ st = Cat(<<h>>, r)
  <2> HIDE DEF Frames
  <2>1. QED
    BY SplitList
<1> HIDE DEF h, r
<1> DEFINE e == Head(h)
           t == Tail(h)
<1>2. h # <<>>
  BY DEF h
<1>3. e \in Entries /\ t \in Seq(Entries) /\ h = Cat(<<e>>, t)
  BY <1>1, <1>2, SplitList DEF Frames
<1>4. t \in Frames
  BY <1>3 DEF Frames
<1>5. NextEntry(st) = e /\ Rest(st) = <<t>> \o r
  BY DEF NextEntry, Rest, h, r
<1> HIDE DEF e, t
<1>6. Pending(<<t>> \o r) = Cat(t, Pending(r)) /\ Pending(r) \in Frames /\ Pending(<<t>> \o r) \in Frames
  BY <1>1, <1>4, PendingOf
<1>7. Pending(st) = Cat(h, Pending(r))
  BY <1>1, PendingOf DEF Cat
<1>8. <<e>> \in Seq(Entries)
  BY <1>3, OneElement
<1>9. Cat(Cat(<<e>>, t), Pending(r)) = Cat(<<e>>, Cat(t, Pending(r)))
  <2> DEFINE u == Pending(r)
             s == <<e>>
  <2>1. s \in Seq(Entries) /\ t \in Seq(Entries) /\ u \in Seq(Entries)
    BY <1>3, <1>6, <1>8 DEF Frames
  <2> HIDE DEF s, u
  <2>2. Cat(Cat(s, t), u) = Cat(s, Cat(t, u))
    BY <2>1, CatAssociative
  <2>3. QED
    BY <2>2 DEF s, u
<1>10. <<t>> \o r \in Seq(Frames)
  <2> HIDE DEF Frames
  <2>1. <<t>> \in Seq(Frames)
    BY <1>4, SMT
  <2>2. QED
    BY <1>1, <2>1, ConcatProperties
<1>11. QED
  BY <1>3, <1>5, <1>6, <1>7, <1>9, <1>10

\* A directory that is done leaves the same pending.
LEMMA PendingLeft ==
  ASSUME NEW st \in Seq(Frames), st # <<>>, Head(st) = <<>>
  PROVE  Pending(st) = Pending(Tail(st)) /\ Pending(st) \in Frames
<1> DEFINE r == Tail(st)
           h == Head(st)
<1>1. h \in Frames /\ r \in Seq(Frames) /\ st = Cat(<<h>>, r)
  <2> HIDE DEF Frames
  <2>1. QED
    BY SplitList
<1> HIDE DEF h, r
<1>2. Pending(st) = Cat(h, Pending(r)) /\ Pending(r) \in Frames
  BY <1>1, PendingOf DEF Cat
<1>3. Cat(<<>>, Pending(r)) = Pending(r)
  BY <1>2, CatEmpty DEF Frames
<1>4. QED
  BY <1>2, <1>3 DEF h, r

LEMMA PendingNone == Pending(<<>>) = <<>>
BY FlattenEmpty DEF Pending

\* The logs of two lists.
LEMMA LogsOfConcat ==
  ASSUME NEW t \in Trees, NEW p \in Frames, NEW q \in Frames
  PROVE  /\ LogsOf(t, p) \in Logs /\ LogsOf(t, q) \in Logs
         /\ LogsOf(t, Cat(p, q)) = Cat(LogsOf(t, p), LogsOf(t, q))
<1> DEFINE c == Cat(p, q)
           a == MapLogs(t, p)
           b == MapLogs(t, q)
           n == Len(p)
           m == Len(q)
<1>1. Joined(Entries, p, q, c, n, m)
  BY CatElements DEF Frames
<1>2. \A s \in Frames : \A i \in DOMAIN s : EntryLogs(t)[s[i]] \in Logs
  <2>1. SUFFICES ASSUME NEW s \in Frames, NEW i \in DOMAIN s PROVE EntryLogs(t)[s[i]] \in Logs
    OBVIOUS
  <2>2. s[i] \in Entries
    BY LenProperties, ElementOfSeq DEF Frames
  <2> DEFINE e == s[i]
  <2> HIDE DEF e
  <2>3. e \in AllEntries
    BY <2>2 DEF e, AllEntries
  <2>4. EntryLogs(t)[e] \in Logs
    BY <2>3, LogsType
  <2>5. QED
    BY <2>4 DEF e
<1>3. /\ a \in Seq(Logs) /\ Len(a) = n /\ LogsOf(t, p) \in Logs
      /\ b \in Seq(Logs) /\ Len(b) = m /\ LogsOf(t, q) \in Logs
  BY <1>2, MappedType
<1>4. c \in Frames
  BY <1>1 DEF Joined, Frames
<1>5. MapLogs(t, c) \in Seq(Logs) /\ Len(MapLogs(t, c)) = Len(c)
  BY <1>2, <1>4, MappedType
<1> DEFINE x == MapLogs(t, c)
           y == Cat(a, b)
<1>6. /\ \A i \in 1 .. n : a[i] = EntryLogs(t)[p[i]]
      /\ \A j \in 1 .. m : b[j] = EntryLogs(t)[q[j]]
      /\ \A i \in 1 .. n + m : x[i] = EntryLogs(t)[c[i]]
  BY <1>1 DEF MapLogs, Joined
<1> HIDE DEF a, b, c, n, m, x, Logs
<1>7. Joined(Logs, a, b, y, n, m)
  BY <1>3, CatElements
<1> HIDE DEF y
<1>j. /\ \A i \in 1 .. n : c[i] = p[i] /\ y[i] = a[i]
      /\ \A j \in 1 .. m : c[n + j] = q[j] /\ y[n + j] = b[j]
  BY <1>1, <1>7, Zenon DEF Joined
<1>8. ASSUME NEW i \in 1 .. n + m
      PROVE  x[i] = y[i]
  <2>0. x[i] = EntryLogs(t)[c[i]]
    BY <1>6
  <2>1. CASE i \in 1 .. n
    <3>1. c[i] = p[i] /\ y[i] = a[i] /\ a[i] = EntryLogs(t)[p[i]]
      BY <1>6, <1>j, <2>1
    <3>2. QED
      BY <2>0, <3>1, Zenon
  <2>2. CASE \E j \in 1 .. m : i = n + j
    <3>1. PICK j \in 1 .. m : i = n + j
      BY <2>2
    <3>2. c[n + j] = q[j] /\ y[n + j] = b[j] /\ b[j] = EntryLogs(t)[q[j]]
      BY <1>6, <1>j
    <3>3. QED
      BY <2>0, <3>1, <3>2, Zenon
  <2>3. QED
    BY <1>1, <2>1, <2>2, Zenon DEF Joined
<1>9. x = y
  <2>1. Len(x) = n + m /\ Len(y) = n + m /\ x \in Seq(Logs) /\ y \in Seq(Logs)
    BY <1>1, <1>5, <1>7, Zenon DEF Joined, x
  <2>2. QED
    BY <1>8, <2>1, SeqEqual
<1>10. FlattenSeq(y) = Cat(FlattenSeq(a), FlattenSeq(b))
  BY <1>3, FlattenConcat DEF y, Logs
<1>11. QED
  BY <1>3, <1>9, <1>10 DEF LogsOf, x, a, b, c, n, m

LEMMA LogsOfOne ==
  ASSUME NEW t \in Trees, NEW e \in Entries
  PROVE  LogsOf(t, <<e>>) = EntryLogs(t)[e] /\ LogsOf(t, <<>>) = <<>> /\ EntryLogs(t)[e] \in Logs
<1> DEFINE x == EntryLogs(t)[e]
<1>1. x \in Logs
  BY LogsType DEF AllEntries
<1>2. MapLogs(t, <<e>>) = <<x>>
  BY DEF MapLogs
<1>3. MapLogs(t, <<>>) = <<>>
  BY DEF MapLogs
<1> HIDE DEF x
<1>4. FlattenSeq(<<x>>) = x
  BY <1>1, FlattenOne DEF Logs
<1>5. QED
  BY <1>1, <1>2, <1>3, <1>4, FlattenEmpty DEF LogsOf, x

\* What of a directory is in a tree: all but the files that are not there.
Here(t, e) == e \in Files => t[e] # Absent

\* The listing of a directory, entry by entry.
Listing(t, c, f) ==
  /\ f \in [0 .. Len(c) -> Frames] /\ f[0] = <<>>
  /\ \A i \in 1 .. Len(c) : f[i] = IF Here(t, c[i]) THEN Cat(f[i - 1], <<c[i]>>) ELSE f[i - 1]

LEMMA ListingSteps ==
  ASSUME NEW t, NEW d \in Dirs
  PROVE  \E f : Listing(t, Children[d], f) /\ listing(t, d) = f[Len(Children[d])]
<1> DEFINE c == Children[d]
           n == Len(c)
           s == [i \in DOMAIN c |-> IF Here(t, c[i]) THEN <<c[i]>> ELSE <<>>]
<1>1. c \in Seq(Entries)
  BY Custody16Assumption
<1>2. listing(t, d) = FlattenSeq(s)
  BY DEF listing, Here
<1> HIDE DEF c
<1>3. n \in Nat /\ DOMAIN c = 1 .. n /\ \A i \in 1 .. n : c[i] \in Entries
  BY <1>1, LenProperties, ElementOfSeq
<1>4. ASSUME NEW i \in 1 .. n
      PROVE  s[i] \in Frames /\ s[i] = IF Here(t, c[i]) THEN <<c[i]>> ELSE <<>>
  <2>1. <<c[i]>> \in Seq(Entries) /\ <<>> \in Seq(Entries)
    BY <1>3, OneElement
  <2>2. s[i] = IF Here(t, c[i]) THEN <<c[i]>> ELSE <<>>
    BY <1>3
  <2>3. QED
    BY <2>1, <2>2 DEF Frames
<1>5. s = [i \in 1 .. n |-> s[i]]
  BY <1>3
<1> HIDE DEF s, n
<1>6. s \in Seq(Frames) /\ Len(s) = n
  <2>1. s \in [1 .. n -> Frames]
    BY <1>4, <1>5
  <2> HIDE DEF Frames
  <2>2. QED
    BY <1>3, <2>1, SMT
<1>7. PICK f \in [0 .. n -> Frames] : Grows(s, f) /\ FlattenSeq(s) = f[n]
  <2>1. s \in Seq(Seq(Entries))
    BY <1>6 DEF Frames
  <2>2. PICK f \in [0 .. Len(s) -> Seq(Entries)] : Grows(s, f)
    BY <2>1, FlattenIs
  <2>3. FlattenSeq(s) = f[Len(s)]
    BY <2>1, <2>2, FlattenIs
  <2>4. QED
    BY <1>6, <2>2, <2>3 DEF Frames
<1>8. ASSUME NEW i \in 1 .. n
      PROVE  f[i] = IF Here(t, c[i]) THEN Cat(f[i - 1], <<c[i]>>) ELSE f[i - 1]
  <2>1. f[i] = Cat(f[i - 1], s[i])
    BY <1>6, <1>7 DEF Grows
  <2>2. CASE Here(t, c[i])
    BY <1>4, <2>1, <2>2
  <2>3. CASE ~ Here(t, c[i])
    <3>1. s[i] = <<>>
      BY <1>4, <2>3
    <3>2. i - 1 \in 0 .. n
      BY <1>3, SMT
    <3>3. f[i - 1] \in Seq(Entries)
      BY <1>7, <3>2 DEF Frames
    <3>4. QED
      BY <2>1, <2>3, <3>1, <3>3, CatEmpty
  <2>4. QED
    BY <2>2, <2>3
<1>9. f[0] = <<>>
  BY <1>7 DEF Grows
<1>10. Listing(t, c, f)
  BY <1>7, <1>8, <1>9 DEF Listing, n
<1>11. QED
  BY <1>2, <1>7, <1>10 DEF c, n

\* It has every entry that is there, once.
LEMMA ListingIs ==
  ASSUME NEW t, NEW d \in Dirs
  PROVE  /\ listing(t, d) \in Frames /\ Distinct(listing(t, d))
         /\ \A e : e \in Range(listing(t, d)) <=> e \in Range(Children[d]) /\ Here(t, e)
<1> DEFINE c == Children[d]
           n == Len(c)
<1>1. c \in Seq(Entries) /\ Distinct(c)
  BY Custody16Assumption DEF Distinct
<1>2. PICK f : Listing(t, c, f) /\ listing(t, d) = f[n]
  BY ListingSteps
<1> HIDE DEF c, n
<1>3. n \in Nat /\ DOMAIN c = 1 .. n /\ \A i \in 1 .. n : c[i] \in Entries
  BY <1>1, LenProperties, ElementOfSeq DEF n
<1>4. /\ f \in [0 .. n -> Frames] /\ f[0] = <<>>
      /\ \A i \in 1 .. n : f[i] = IF Here(t, c[i]) THEN Cat(f[i - 1], <<c[i]>>) ELSE f[i - 1]
  BY <1>2 DEF Listing, n
<1> DEFINE In(i) == \A e : e \in Range(f[i]) <=> \E j \in 1 .. i : e = c[j] /\ Here(t, e)
           P == {i \in Nat : i <= n => In(i) /\ Distinct(f[i])}
<1>5. 0 \in P
  <2>1. 1 .. 0 = {}
    BY SMT
  <2>2. DOMAIN <<>> = {} /\ 0 \in Nat
    BY SMT
  <2>3. Range(f[0]) = {} /\ Distinct(f[0])
    BY <1>4, <2>2 DEF Range, Distinct
  <2>4. QED
    BY <2>1, <2>2, <2>3
<1>6. ASSUME NEW i \in Nat, i \in P
      PROVE  i + 1 \in P
  <2>0. i + 1 \in Nat /\ (i + 1) - 1 = i
    BY SMT
  <2>1. SUFFICES ASSUME i + 1 <= n PROVE In(i + 1) /\ Distinct(f[i + 1])
    BY <2>0
  <2>2. i <= n /\ i + 1 \in 1 .. n /\ i \in 0 .. n /\ \A j \in 1 .. i : j \in 1 .. n /\ j # i + 1
    BY <1>3, <2>1, SMT
  <2>3. \A j : j \in 1 .. i + 1 <=> j \in 1 .. i \/ j = i + 1
    BY SMT
  <2>4. In(i) /\ Distinct(f[i])
    BY <1>6, <2>2
  <2> DEFINE e == c[i + 1]
  <2>5. f[i + 1] = IF Here(t, e) THEN Cat(f[i], <<e>>) ELSE f[i]
    BY <1>4, <2>0, <2>2
  <2>6. e \in Entries /\ f[i] \in Seq(Entries)
    BY <1>3, <1>4, <2>2 DEF Frames
  <2>7. CASE Here(t, e)
    <3>1. e \notin Range(f[i])
      <4>1. SUFFICES ASSUME NEW j \in 1 .. i, e = c[j] PROVE FALSE
        BY <2>4
      <4>2. j = i + 1
        BY <1>1, <1>3, <2>2, <4>1 DEF Distinct
      <4>3. QED
        BY <2>2, <4>2
    <3>2. <<e>> \in Seq(Entries) /\ Range(<<e>>) = {e} /\ Distinct(<<e>>)
      BY <2>6, OneElement
    <3> DEFINE u == <<e>>
               a == f[i]
               b == f[i + 1]
    <3>3. u \in Seq(Entries) /\ Range(u) = {e} /\ Distinct(u) /\ a \in Seq(Entries) /\ b = Cat(a, u)
      BY <2>5, <2>6, <2>7, <3>2
    <3>4. a \in Seq(Entries) /\ Distinct(a) /\ e \notin Range(a)
          /\ \A x : x \in Range(a) <=> \E j \in 1 .. i : x = c[j] /\ Here(t, x)
      BY <2>4, <2>6, <3>1
    <3>5. SUFFICES Distinct(b) /\ \A x : x \in Range(b) <=> \E j \in 1 .. i + 1 : x = c[j] /\ Here(t, x)
      OBVIOUS
    <3> HIDE DEF u, a, b
    <3>6. Range(b) = Range(a) \cup Range(u)
      BY <3>3, CatRange
    <3>7. Distinct(b)
      <4>1. Range(a) \cap Range(u) = {}
        BY <3>3, <3>4
      <4>2. QED
        BY <3>3, <3>4, <4>1, CatDistinct
    <3>8. \A x : x \in Range(b) <=> x \in Range(a) \/ x = e
      BY <3>3, <3>6
    <3>9. QED
      BY <2>3, <2>7, <3>4, <3>7, <3>8
  <2>8. CASE ~ Here(t, e)
    <3>1. f[i + 1] = f[i]
      BY <2>5, <2>8
    <3>2. \A x : (\E j \in 1 .. i : x = c[j] /\ Here(t, x)) <=> \E j \in 1 .. i + 1 : x = c[j] /\ Here(t, x)
      BY <2>3, <2>8
    <3>3. QED
      BY <2>4, <3>1, <3>2
  <2>9. QED
    BY <2>7, <2>8
<1> HIDE DEF P
<1>7. \A i \in Nat : i \in P
  BY <1>5, <1>6, SetInduction
<1>8. In(n) /\ Distinct(f[n])
  <2>1. n <= n
    BY <1>3, SMT
  <2>2. QED
    BY <1>3, <1>7, <2>1 DEF P
<1>9. f[n] \in Frames
  <2>1. n \in 0 .. n
    BY <1>3, SMT
  <2>2. QED
    BY <1>4, <2>1
<1>10. \A e : e \in Range(c) <=> \E j \in 1 .. n : e = c[j]
  BY <1>3 DEF Range
<1>11. QED
  BY <1>2, <1>8, <1>9, <1>10 DEF c

\* If nothing is in the one tree that is not in the other, the listing of the
\* other leaves the same in the log as the whole directory.
LEMMA ListingLogs ==
  ASSUME NEW m \in Trees, NEW t, NEW d \in Dirs,
         \A e \in Range(Children[d]) : Here(m, e) => Here(t, e)
  PROVE  LogsOf(m, listing(t, d)) = LogsOf(m, Children[d])
<1> DEFINE c == Children[d]
           n == Len(c)
<1>1. c \in Seq(Entries)
  BY Custody16Assumption
<1>2. PICK f : Listing(t, c, f) /\ listing(t, d) = f[n]
  BY ListingSteps
<1> DEFINE s == MapLogs(m, c)
<1> HIDE DEF c, n
<1>3. n \in Nat /\ DOMAIN c = 1 .. n /\ (\A i \in 1 .. n : c[i] \in Entries) /\ c \in Frames
  BY <1>1, LenProperties, ElementOfSeq DEF n, Frames
<1>4. /\ f \in [0 .. n -> Frames] /\ f[0] = <<>>
      /\ \A i \in 1 .. n : f[i] = IF Here(t, c[i]) THEN Cat(f[i - 1], <<c[i]>>) ELSE f[i - 1]
  BY <1>2 DEF Listing, n
<1>5. \A i \in 1 .. n : EntryLogs(m)[c[i]] \in Logs /\ s[i] = EntryLogs(m)[c[i]]
  BY <1>3, LogsType DEF MapLogs, AllEntries
<1>6. s \in Seq(Logs) /\ Len(s) = n
  BY <1>3, <1>5, MappedType DEF n
<1> HIDE DEF s
<1>7. PICK h \in [0 .. n -> Logs] : Grows(s, h) /\ FlattenSeq(s) = h[n]
  <2>1. s \in Seq(Seq(LogItems))
    BY <1>6 DEF Logs
  <2>2. PICK h \in [0 .. Len(s) -> Seq(LogItems)] : Grows(s, h)
    BY <2>1, FlattenIs
  <2>3. FlattenSeq(s) = h[Len(s)]
    BY <2>1, <2>2, FlattenIs
  <2>4. QED
    BY <1>6, <2>2, <2>3 DEF Logs
<1> DEFINE P == {i \in Nat : i <= n => LogsOf(m, f[i]) = h[i]}
<1>8. 0 \in P
  <2>1. LogsOf(m, <<>>) = <<>>
    BY FlattenEmpty DEF LogsOf, MapLogs
  <2>2. h[0] = <<>> /\ 0 \in Nat
    BY <1>7 DEF Grows
  <2>3. QED
    BY <1>4, <2>1, <2>2
<1>9. ASSUME NEW i \in Nat, i \in P
      PROVE  i + 1 \in P
  <2>0. i + 1 \in Nat /\ (i + 1) - 1 = i
    BY SMT
  <2>1. SUFFICES ASSUME i + 1 <= n PROVE LogsOf(m, f[i + 1]) = h[i + 1]
    BY <2>0
  <2>2. i <= n /\ i + 1 \in 1 .. n /\ i \in 0 .. n
    BY <1>3, <2>1, SMT
  <2>3. LogsOf(m, f[i]) = h[i]
    BY <1>9, <2>2
  <2> DEFINE e == c[i + 1]
  <2>4. f[i + 1] = IF Here(t, e) THEN Cat(f[i], <<e>>) ELSE f[i]
    BY <1>4, <2>0, <2>2
  <2>5. h[i + 1] = Cat(h[i], EntryLogs(m)[e])
    BY <1>5, <1>6, <1>7, <2>0, <2>2 DEF Grows
  <2>6. e \in Entries /\ f[i] \in Frames /\ h[i] \in Logs
    BY <1>3, <1>4, <1>7, <2>2
  <2>7. e \in Range(Children[d])
    BY <1>3, <2>2 DEF Range, c
  <2> HIDE DEF e
  <2>8. CASE Here(t, e)
    <3>1. <<e>> \in Frames
      BY <2>6, OneElement DEF Frames
    <3>2. LogsOf(m, Cat(f[i], <<e>>)) = Cat(LogsOf(m, f[i]), LogsOf(m, <<e>>))
      BY <2>6, <3>1, LogsOfConcat
    <3>3. LogsOf(m, <<e>>) = EntryLogs(m)[e]
      BY <2>6, LogsOfOne
    <3>4. QED
      BY <2>3, <2>4, <2>5, <2>8, <3>2, <3>3
  <2>9. CASE ~ Here(t, e)
    <3>1. ~ Here(m, e)
      BY <2>7, <2>9
    <3>2. e \in Files /\ m[e] = Absent
      BY <3>1 DEF Here
    <3>3. EntryLogs(m)[e] = <<>>
      <4>1. EntryLogs(m)[e] = LogBody(m, EntryLogs(m), e)
        BY <2>6, LogsAre DEF AllEntries
      <4>2. e \notin Links
        BY <3>2 DEF Files
      <4>3. QED
        BY <3>2, <4>1, <4>2 DEF LogBody
    <3>4. Cat(h[i], <<>>) = h[i]
      BY <2>6, CatEmpty DEF Logs
    <3>5. QED
      BY <2>3, <2>4, <2>5, <2>9, <3>3, <3>4
  <2>10. QED
    BY <2>8, <2>9
<1> HIDE DEF P
<1>10. \A i \in Nat : i \in P
  BY <1>8, <1>9, SetInduction
<1>11. LogsOf(m, f[n]) = h[n]
  <2>1. n <= n
    BY <1>3, SMT
  <2>2. QED
    BY <1>3, <1>10, <2>1 DEF P
<1>12. QED
  BY <1>2, <1>7, <1>11 DEF c, s, LogsOf

-----------------------------------------------------------------------------
(* What a log says of entries, their sizes and bytes.                       *)

\* A byte at a place of a file; the entries a log has; how old its bytes are.
Has(bytes, i, x) == bytes # Absent /\ i \in DOMAIN bytes /\ bytes[i] = x
Names(g) == {e \in Entries : \E n \in Nat, k \in EntryKinds : <<"ENTR", e, n, k>> \in Range(g)}
OldBytes(g, ch) == \A x \in Nat : <<"DATA", x>> \in Range(g) => x <= ch

\* Each file has a size it had, or its last byte is no longer in the tree.
Sized(g, t, lens) ==
  \A p \in DOMAIN g, f \in Files, n \in Nat, k \in EntryKinds :
    g[p] = <<"ENTR", f, n, k>> =>
      \/ n \in lens[f]
      \/ n >= 1 /\ p + n \in DOMAIN g /\ \E x \in Nat : g[p + n] = <<"DATA", x>> /\ ~ Has(t[f], n, x)

LEMMA NamesOfConcat ==
  ASSUME NEW a \in Logs, NEW b \in Logs
  PROVE  Names(Cat(a, b)) = Names(a) \cup Names(b)
<1>1. Range(Cat(a, b)) = Range(a) \cup Range(b)
  BY CatRange DEF Logs
<1> DEFINE A == Range(a)
           B == Range(b)
           C == Range(Cat(a, b))
<1>2. C = A \cup B
  BY <1>1
<1> HIDE DEF A, B, C
<1>3. QED
  BY <1>2 DEF Names, A, B, C

\* The items of a record.
LEMMA RecordItems ==
  ASSUME NEW e \in Entries, NEW n \in Nat, NEW k \in EntryKinds, NEW data \in Seq(Nat)
  PROVE  LET r == record(e, n, k, data) IN
         /\ r \in Logs /\ Len(r) = Len(data) + 2 /\ DOMAIN r = 1 .. Len(data) + 2 /\ Len(data) \in Nat
         /\ r[1] = <<"ENTR", e, n, k>>
         /\ \A i \in 1 .. Len(data) : r[1 + i] = <<"DATA", data[i]>>
         /\ r[Len(data) + 2] = <<"ENDR", e, n>>
<1> DEFINE m == Len(data)
           b == <<"ENTR", e, n, k>>
           d == logged(data)
           c == <<"ENDR", e, n>>
           u == <<b>>
           v == <<c>>
           x == Cat(u, d)
           r == Cat(x, v)
<1>1. record(e, n, k, data) = r /\ u \in Logs /\ v \in Logs /\ x \in Logs /\ r \in Logs
  BY RecordType
<1>2. /\ m \in Nat /\ d \in Seq(LogItems) /\ Len(d) = m /\ \A i \in 1 .. m : d[i] = <<"DATA", data[i]>>
  BY LoggedType, LenProperties
<1>3. Len(u) = 1 /\ Len(v) = 1 /\ u[1] = b /\ v[1] = c
  BY SMT
<1> HIDE DEF m, b, c, d, u, v
<1>4. Joined(LogItems, u, d, x, 1, m)
  <2>1. Joined(LogItems, u, d, x, Len(u), Len(d))
    BY <1>1, <1>2, CatElements DEF Logs
  <2>2. QED
    BY <1>2, <1>3, <2>1
<1> HIDE DEF x
<1>5. Joined(LogItems, x, v, r, 1 + m, 1)
  <2>1. Joined(LogItems, x, v, r, Len(x), Len(v))
    BY <1>1, CatElements DEF Logs
  <2>2. Len(x) = 1 + m
    BY <1>4 DEF Joined
  <2>3. QED
    BY <1>3, <2>1, <2>2
<1> HIDE DEF r
<1>6. (1 + m) + 1 = m + 2 /\ 1 \in 1 .. 1 /\ 1 \in 1 .. 1 + m /\ \A i \in 1 .. m : 1 + i \in 1 .. 1 + m
  BY <1>2, SMT
<1>7. Len(r) = m + 2 /\ DOMAIN r = 1 .. m + 2
  BY <1>5, <1>6 DEF Joined
<1>8. r[1] = b
  <2>1. r[1] = x[1]
    BY <1>5, <1>6 DEF Joined
  <2>2. x[1] = u[1]
    BY <1>4, <1>6 DEF Joined
  <2>3. QED
    BY <1>3, <2>1, <2>2
<1>9. \A i \in 1 .. m : r[1 + i] = <<"DATA", data[i]>>
  <2>1. SUFFICES ASSUME NEW i \in 1 .. m PROVE r[1 + i] = <<"DATA", data[i]>>
    OBVIOUS
  <2>2. r[1 + i] = x[1 + i]
    BY <1>5, <1>6, Zenon DEF Joined
  <2>3. x[1 + i] = d[i]
    BY <1>4, Zenon DEF Joined
  <2>4. QED
    BY <1>2, <2>2, <2>3
<1>10. r[m + 2] = c
  <2>1. r[(1 + m) + 1] = v[1]
    BY <1>5, <1>6, Zenon DEF Joined
  <2>2. QED
    BY <1>3, <1>6, <2>1
<1>11. QED
  BY <1>1, <1>2, <1>7, <1>8, <1>9, <1>10 DEF b, c, m

\* Where in a record an entry begins, and what its bytes are.
LEMMA RecordHas ==
  ASSUME NEW e \in Entries, NEW n \in Nat, NEW k \in EntryKinds, NEW data \in Seq(Nat)
  PROVE  LET r == record(e, n, k, data) IN
         /\ \A p \in DOMAIN r : \A f, z, j : r[p] = <<"ENTR", f, z, j>> => p = 1 /\ f = e /\ z = n /\ j = k
         /\ \A p \in DOMAIN r : \A x : r[p] = <<"DATA", x>> => \E i \in 1 .. Len(data) : p = 1 + i /\ x = data[i]
<1> DEFINE r == record(e, n, k, data)
           m == Len(data)
<1>1. /\ DOMAIN r = 1 .. m + 2 /\ m \in Nat
      /\ r[1] = <<"ENTR", e, n, k>>
      /\ \A i \in 1 .. m : r[1 + i] = <<"DATA", data[i]>>
      /\ r[m + 2] = <<"ENDR", e, n>>
  BY RecordItems
<1> HIDE DEF r, m
<1>2. \A p \in 1 .. m + 2 : p = 1 \/ p = m + 2 \/ (p - 1 \in 1 .. m /\ p = 1 + (p - 1))
  BY <1>1, SMT
<1>3. ASSUME NEW p \in DOMAIN r
      PROVE  p = 1 \/ p = m + 2 \/ \E i \in 1 .. m : p = 1 + i
  BY <1>1, <1>2, Zenon
<1>4. ASSUME NEW p \in DOMAIN r, NEW f, NEW z, NEW j, r[p] = <<"ENTR", f, z, j>>
      PROVE  p = 1 /\ f = e /\ z = n /\ j = k
  <2>1. CASE p = 1
    BY <1>1, <1>4, <2>1
  <2>2. CASE p = m + 2
    <3>1. <<"ENTR", f, z, j>> = <<"ENDR", e, n>>
      BY <1>1, <1>4, <2>2
    <3>2. QED
      BY <3>1
  <2>3. CASE \E i \in 1 .. m : p = 1 + i
    <3>1. PICK i \in 1 .. m : p = 1 + i
      BY <2>3
    <3>2. <<"ENTR", f, z, j>> = <<"DATA", data[i]>>
      BY <1>1, <1>4, <3>1
    <3>3. QED
      BY <3>2
  <2>4. QED
    BY <1>3, <2>1, <2>2, <2>3
<1>5. ASSUME NEW p \in DOMAIN r, NEW x, r[p] = <<"DATA", x>>
      PROVE  \E i \in 1 .. m : p = 1 + i /\ x = data[i]
  <2>1. CASE p = 1
    <3>1. <<"DATA", x>> = <<"ENTR", e, n, k>>
      BY <1>1, <1>5, <2>1
    <3>2. QED
      BY <3>1
  <2>2. CASE p = m + 2
    <3>1. <<"DATA", x>> = <<"ENDR", e, n>>
      BY <1>1, <1>5, <2>2
    <3>2. QED
      BY <3>1
  <2>3. CASE \E i \in 1 .. m : p = 1 + i
    <3>1. PICK i \in 1 .. m : p = 1 + i
      BY <2>3
    <3>2. <<"DATA", x>> = <<"DATA", data[i]>>
      BY <1>1, <1>5, <3>1
    <3>3. x = data[i]
      BY <3>2
    <3>4. QED
      BY <3>1, <3>3
  <2>4. QED
    BY <1>3, <2>1, <2>2, <2>3
<1>6. QED
  BY <1>4, <1>5 DEF r, m

LEMMA NamesOfRecord ==
  ASSUME NEW e \in Entries, NEW n \in Nat, NEW k \in EntryKinds, NEW data \in Seq(Nat)
  PROVE  Names(record(e, n, k, data)) = {e}
<1> DEFINE r == record(e, n, k, data)
<1>1. 1 \in DOMAIN r /\ r[1] = <<"ENTR", e, n, k>>
  <2>1. DOMAIN r = 1 .. Len(data) + 2 /\ Len(data) \in Nat /\ r[1] = <<"ENTR", e, n, k>>
    BY RecordItems
  <2>2. 1 \in 1 .. Len(data) + 2
    BY <2>1, SMT
  <2>3. QED
    BY <2>1, <2>2
<1>2. \A p \in DOMAIN r : \A f, z, j : r[p] = <<"ENTR", f, z, j>> => p = 1 /\ f = e /\ z = n /\ j = k
  BY RecordHas
<1> HIDE DEF r
<1>3. e \in Names(r)
  <2>1. <<"ENTR", e, n, k>> \in Range(r)
    BY <1>1 DEF Range
  <2>2. QED
    BY <2>1 DEF Names
<1>4. ASSUME NEW f \in Names(r)
      PROVE  f = e
  <2>1. PICK z \in Nat, j \in EntryKinds : <<"ENTR", f, z, j>> \in Range(r)
    BY DEF Names
  <2>2. PICK p \in DOMAIN r : r[p] = <<"ENTR", f, z, j>>
    BY <2>1 DEF Range
  <2>3. QED
    BY <1>2, <2>2
<1>5. QED
  BY <1>3, <1>4 DEF r

\* A record of bytes that are known, of a file whose size is accounted for.
LEMMA OldBytesMore ==
  ASSUME NEW g \in Logs, NEW ch, NEW e \in Entries, NEW n \in Nat, NEW k \in EntryKinds, NEW data \in Seq(Nat),
         OldBytes(g, ch), \A i \in 1 .. Len(data) : data[i] <= ch
  PROVE  OldBytes(Cat(g, record(e, n, k, data)), ch)
<1> DEFINE r == record(e, n, k, data)
<1>0. r \in Logs
  BY RecordItems
<1>1. \A p \in DOMAIN r : \A x : r[p] = <<"DATA", x>> => \E i \in 1 .. Len(data) : p = 1 + i /\ x = data[i]
  BY RecordHas
<1> HIDE DEF r
<1>2. Range(Cat(g, r)) = Range(g) \cup Range(r)
  BY <1>0, CatRange DEF Logs
<1>3. ASSUME NEW x \in Nat, <<"DATA", x>> \in Range(r)
      PROVE  x <= ch
  <2>1. PICK p \in DOMAIN r : r[p] = <<"DATA", x>>
    BY <1>3 DEF Range
  <2>2. PICK i \in 1 .. Len(data) : x = data[i]
    BY <1>1, <2>1
  <2>3. QED
    BY <2>2
<1>4. ASSUME NEW x \in Nat, <<"DATA", x>> \in Range(Cat(g, r))
      PROVE  x <= ch
  <2>1. <<"DATA", x>> \in Range(g) \/ <<"DATA", x>> \in Range(r)
    BY <1>2, <1>4
  <2>2. QED
    BY <1>3, <2>1 DEF OldBytes
<1>5. QED
  BY <1>4 DEF OldBytes, r

LEMMA SizedMore ==
  ASSUME NEW g \in Logs, NEW t, NEW lens, NEW e \in Entries, NEW n \in Nat, NEW k \in EntryKinds,
         NEW data \in Seq(Nat), Sized(g, t, lens),
         e \in Files => \/ n \in lens[e]
                        \/ n >= 1 /\ n = Len(data) /\ ~ Has(t[e], n, data[n])
  PROVE  Sized(Cat(g, record(e, n, k, data)), t, lens)
<1> DEFINE r == record(e, n, k, data)
           m == Len(data)
           c == Cat(g, r)
           l == Len(g)
<1>1. /\ r \in Logs /\ Len(r) = m + 2 /\ DOMAIN r = 1 .. m + 2 /\ m \in Nat
      /\ \A i \in 1 .. m : r[1 + i] = <<"DATA", data[i]>> /\ data[i] \in Nat
  BY RecordItems, ElementOfSeq
<1>2. \A p \in DOMAIN r : \A f, z, j : r[p] = <<"ENTR", f, z, j>> => p = 1 /\ f = e /\ z = n /\ j = k
  BY RecordHas
<1> HIDE DEF r, m
<1>3. Joined(LogItems, g, r, c, l, m + 2)
  <2>1. Joined(LogItems, g, r, c, l, Len(r))
    BY <1>1, CatElements DEF Logs
  <2>2. QED
    BY <1>1, <2>1
<1> HIDE DEF c, l
<1>4. /\ l \in Nat /\ DOMAIN g = 1 .. l /\ DOMAIN c = 1 .. l + (m + 2)
      /\ \A i \in 1 .. l : i \in 1 .. l + (m + 2) /\ c[i] = g[i]
      /\ \A j \in 1 .. m + 2 : l + j \in 1 .. l + (m + 2) /\ c[l + j] = r[j]
      /\ \A i \in 1 .. l + (m + 2) : i \in 1 .. l \/ \E j \in 1 .. m + 2 : i = l + j
  BY <1>3, Zenon DEF Joined
<1>5. SUFFICES ASSUME NEW p \in DOMAIN c, NEW f \in Files, NEW z \in Nat, NEW j \in EntryKinds,
                      c[p] = <<"ENTR", f, z, j>>
               PROVE  \/ z \in lens[f]
                      \/ z >= 1 /\ p + z \in DOMAIN c /\ \E x \in Nat : c[p + z] = <<"DATA", x>> /\ ~ Has(t[f], z, x)
  BY DEF Sized, c, r
<1>6. CASE p \in 1 .. l
  <2>1. g[p] = <<"ENTR", f, z, j>> /\ p \in DOMAIN g
    BY <1>4, <1>5, <1>6, Zenon
  <2>2. \/ z \in lens[f]
        \/ z >= 1 /\ p + z \in DOMAIN g /\ \E x \in Nat : g[p + z] = <<"DATA", x>> /\ ~ Has(t[f], z, x)
    BY <2>1, Zenon DEF Sized
  <2>3. p + z \in DOMAIN g => p + z \in DOMAIN c /\ c[p + z] = g[p + z]
    BY <1>4, Zenon
  <2>4. QED
    BY <2>2, <2>3, Zenon
<1>7. CASE \E i \in 1 .. m + 2 : p = l + i
  <2>1. PICK i \in 1 .. m + 2 : p = l + i
    BY <1>7
  <2>2. r[i] = <<"ENTR", f, z, j>> /\ i \in DOMAIN r
    BY <1>1, <1>4, <1>5, <2>1, Zenon
  <2>3. i = 1 /\ f = e /\ z = n
    BY <1>2, <2>2
  <2>4. CASE n \in lens[e]
    BY <2>3, <2>4
  <2>5. CASE n >= 1 /\ n = m /\ ~ Has(t[e], n, data[n])
    <3>1. n \in 1 .. m /\ 1 + n \in 1 .. m + 2 /\ p + n = l + (1 + n)
      BY <1>1, <1>4, <2>1, <2>3, <2>5, SMT
    <3>2. p + n \in DOMAIN c /\ c[p + n] = r[1 + n]
      BY <1>4, <3>1, Zenon
    <3>3. r[1 + n] = <<"DATA", data[n]>> /\ data[n] \in Nat
      BY <1>1, <3>1
    <3>4. QED
      BY <2>3, <2>5, <3>2, <3>3
  <2>6. QED
    BY <2>3, <2>4, <2>5 DEF m
<1>8. QED
  BY <1>4, <1>6, <1>7, Zenon

-----------------------------------------------------------------------------
(* Where a scan is: its log, and what is pending.                           *)

\* A directory that was listed, the root if the scan has begun.
Opened(d, g, o) == d \in Names(g) \/ (d = Root /\ o)
Known(g, p) == Names(g) \cup Range(p)

\* Every entry is logged or pending once, and below a directory that was listed.
Placed(g, p, o) ==
  /\ Range(p) \cap Names(g) = {} /\ Distinct(p)
  /\ \A e \in Known(g, p) : \E d \in Dirs : Opened(d, g, o) /\ e \in Range(Children[d])

\* A file of such a directory that is neither was absent at some moment.
Found(g, p, o, lens) ==
  \A d \in Dirs : Opened(d, g, o) =>
    \A f \in Range(Children[d]) \cap Files : f \in Known(g, p) \/ -1 \in lens[f]

\* What a scan that runs or has run says of the tree, its history and its age.
Accounts(g, p, o, t, lens, ch) ==
  Placed(g, p, o) /\ Found(g, p, o, lens) /\ OldBytes(g, ch) /\ Sized(g, t, lens)

\* An entry is in one directory, which is not below it.
LEMMA OneParent ==
  ASSUME NEW d \in Dirs, NEW e \in Range(Children[d])
  PROVE  /\ e \in Entries /\ e # Root /\ e # d
         /\ \A c \in Dirs : e \in Range(Children[c]) => c = d
<1>1. \A c \in Dirs : e \in Range(Children[c]) => c = d
  <2>1. SUFFICES ASSUME NEW c \in Dirs, e \in Range(Children[c]) PROVE c = d
    OBVIOUS
  <2>2. PICK i \in DOMAIN Children[d] : e = Children[d][i]
    BY DEF Range
  <2>3. PICK j \in DOMAIN Children[c] : e = Children[c][j]
    BY <2>1 DEF Range
  <2>4. QED
    BY <2>2, <2>3, Custody16Assumption
<1>2. e \in Entries /\ e # Root
  <2>1. e \in Entries
    BY DEF Entries
  <2>2. QED
    BY <2>1, Custody16Assumption
<1>3. e # d
  <2>1. SUFFICES ASSUME e = d PROVE FALSE
    OBVIOUS
  <2>2. PICK height \in [Dirs -> 0 .. Cardinality(Dirs)] :
          \A c \in Dirs : \A x \in Range(Children[c]) \cap Dirs : height[x] < height[c]
    BY Custody16Assumption
  <2>3. height[d] < height[d] /\ height[d] \in 0 .. Cardinality(Dirs)
    BY <2>1, <2>2
  <2>4. Cardinality(Dirs) \in Nat
    BY Custody16Assumption, FS_CardinalityType
  <2>5. QED
    BY <2>3, <2>4, SMT
<1>4. QED
  BY <1>1, <1>2, <1>3

\* Nothing below a directory that is pending was met.
LEMMA NewBelow ==
  ASSUME NEW g, NEW p, NEW o, Placed(g, p, o), NEW e \in Dirs, e \in Range(p), e \in Entries,
         NEW f \in Range(Children[e])
  PROVE  f \notin Known(g, p)
<1>1. SUFFICES ASSUME f \in Known(g, p) PROVE FALSE
  OBVIOUS
<1>2. PICK d \in Dirs : Opened(d, g, o) /\ f \in Range(Children[d])
  BY <1>1 DEF Placed
<1>3. d = e
  BY <1>2, OneParent
<1>4. e # Root
  BY Custody16Assumption
<1>5. e \in Names(g)
  BY <1>2, <1>3, <1>4 DEF Opened
<1>6. QED
  BY <1>5 DEF Placed

\* The entry that is next is logged, and what is listed of it comes before the others.
LEMMA PlacedOn ==
  ASSUME NEW g, NEW h, NEW e \in Entries, NEW q \in Frames, NEW l \in Frames, NEW o,
         Placed(g, Cat(<<e>>, q), o), Names(h) = Names(g) \cup {e}, Distinct(l),
         \A f \in Range(l) : e \in Dirs /\ f \in Range(Children[e])
  PROVE  /\ Placed(h, Cat(l, q), o) /\ Known(h, Cat(l, q)) = Known(g, Cat(<<e>>, q)) \cup Range(l)
         /\ \A d \in Dirs : Opened(d, h, o) <=> Opened(d, g, o) \/ d = e
<1> DEFINE u == <<e>>
           p == Cat(u, q)
           s == Cat(l, q)
<1>1. u \in Seq(Entries) /\ Range(u) = {e}
  BY OneElement
<1>2. q \in Seq(Entries) /\ l \in Seq(Entries)
  BY DEF Frames
<1>3. Placed(g, p, o)
  OBVIOUS
<1> HIDE DEF u, p, s
<1>4. Range(p) = {e} \cup Range(q) /\ (Distinct(p) => Distinct(q) /\ e \notin Range(q))
  <2>1. Range(p) = Range(u) \cup Range(q)
    BY <1>1, <1>2, CatRange DEF p
  <2>2. Distinct(p) => Distinct(q) /\ Range(u) \cap Range(q) = {}
    BY <1>1, <1>2, CatDistinct DEF p
  <2>3. QED
    BY <1>1, <2>1, <2>2
<1>5. Range(s) = Range(l) \cup Range(q) /\ (Distinct(l) /\ Distinct(q) /\ Range(l) \cap Range(q) = {} => Distinct(s))
  BY <1>2, CatRange, CatDistinct DEF s
<1>6. Distinct(p) /\ Range(p) \cap Names(g) = {}
  BY <1>3 DEF Placed
<1>7. ASSUME NEW f \in Range(l)
      PROVE  f \notin Known(g, p) /\ f # e
  <2>1. e \in Dirs /\ f \in Range(Children[e]) /\ e \in Range(p)
    BY <1>4
  <2>2. QED
    BY <1>3, <2>1, NewBelow, OneParent
<1>8. Known(h, s) = Known(g, p) \cup Range(l)
  BY <1>4, <1>5 DEF Known
<1>9. Range(s) \cap Names(h) = {}
  BY <1>4, <1>5, <1>6, <1>7 DEF Known
<1>10. Distinct(s)
  <2>1. Range(l) \cap Range(q) = {}
    BY <1>4, <1>7 DEF Known
  <2>2. QED
    BY <1>4, <1>5, <1>6, <2>1
<1>11. \A d \in Dirs : Opened(d, h, o) <=> Opened(d, g, o) \/ d = e
  BY DEF Opened
<1>12. ASSUME NEW f \in Known(h, s)
       PROVE  \E d \in Dirs : Opened(d, h, o) /\ f \in Range(Children[d])
  <2>1. CASE f \in Known(g, p)
    <3>1. PICK d \in Dirs : Opened(d, g, o) /\ f \in Range(Children[d])
      BY <1>3, <2>1 DEF Placed
    <3>2. QED
      BY <1>11, <3>1
  <2>2. CASE f \in Range(l)
    BY <1>11, <2>2
  <2>3. QED
    BY <1>8, <2>1, <2>2
<1>13. Placed(h, s, o)
  BY <1>9, <1>10, <1>12 DEF Placed
<1>14. QED
  BY <1>8, <1>11, <1>13 DEF p, s, u

LEMMA PlacedStill ==
  ASSUME NEW g, NEW h, NEW e \in Entries, NEW q \in Frames, NEW l \in Frames, NEW o,
         Placed(g, Cat(<<e>>, q), o), Names(h) = Names(g) \cup {e}, Distinct(l),
         \A f \in Range(l) : e \in Dirs /\ f \in Range(Children[e])
  PROVE  Placed(h, Cat(l, q), o)
BY PlacedOn

LEMMA KnownStill ==
  ASSUME NEW g, NEW h, NEW e \in Entries, NEW q \in Frames, NEW l \in Frames,
         Names(h) = Names(g) \cup {e}
  PROVE  Known(h, Cat(l, q)) = Known(g, Cat(<<e>>, q)) \cup Range(l)
<1>1. Range(Cat(l, q)) = Range(l) \cup Range(q)
  BY CatRange DEF Frames
<1> DEFINE u == <<e>>
<1>2. u \in Seq(Entries) /\ Range(u) = {e} /\ q \in Seq(Entries)
  BY OneElement DEF Frames
<1> HIDE DEF u
<1>3. Range(Cat(u, q)) = {e} \cup Range(q)
  BY <1>2, CatRange
<1>4. Range(Cat(<<e>>, q)) = {e} \cup Range(q)
  BY <1>3 DEF u
<1>5. QED
  BY <1>1, <1>4 DEF Known

LEMMA FoundOn ==
  ASSUME NEW g, NEW h, NEW e \in Entries, NEW q \in Frames, NEW l \in Frames, NEW o, NEW lens,
         Placed(g, Cat(<<e>>, q), o), Names(h) = Names(g) \cup {e}, Distinct(l),
         \A f \in Range(l) : e \in Dirs /\ f \in Range(Children[e]),
         Found(g, Cat(<<e>>, q), o, lens),
         e \in Dirs => \A f \in Range(Children[e]) \cap Files : f \in Range(l) \/ -1 \in lens[f]
  PROVE  Found(h, Cat(l, q), o, lens)
<1> DEFINE p == Cat(<<e>>, q)
           s == Cat(l, q)
<1>1. Known(h, s) = Known(g, p) \cup Range(l) /\ \A d \in Dirs : Opened(d, h, o) <=> Opened(d, g, o) \/ d = e
  BY PlacedOn
<1>2. Found(g, p, o, lens)
  OBVIOUS
<1> HIDE DEF p, s
<1>3. ASSUME NEW d \in Dirs, Opened(d, h, o), NEW f \in Range(Children[d]) \cap Files
      PROVE  f \in Known(h, s) \/ -1 \in lens[f]
  <2>1. CASE Opened(d, g, o)
    BY <1>1, <1>2, <1>3, <2>1 DEF Found
  <2>2. CASE d = e
    BY <1>1, <1>3, <2>2
  <2>3. QED
    BY <1>1, <1>3, <2>1, <2>2
<1>4. QED
  BY <1>3 DEF Found, s

\* The root is listed.
LEMMA RootPlaced ==
  ASSUME NEW l \in Frames, Distinct(l), \A f \in Range(l) : f \in Range(Children[Root]), NEW lens,
         \A f \in Range(Children[Root]) \cap Files : f \in Range(l) \/ -1 \in lens[f]
  PROVE  Placed(<<>>, l, TRUE) /\ Found(<<>>, l, TRUE, lens) /\ Names(<<>>) = {} /\ Root \in Dirs
<1>1. Names(<<>>) = {} /\ Root \in Dirs
  <2>1. Range(<<>>) = {}
    BY DEF Range
  <2>2. QED
    BY <2>1, Custody16Assumption DEF Names
<1>2. Known(<<>>, l) = Range(l) /\ \A d : Opened(d, <<>>, TRUE) <=> d = Root
  BY <1>1 DEF Known, Opened
<1>3. Placed(<<>>, l, TRUE)
  BY <1>1, <1>2 DEF Placed
<1>4. Found(<<>>, l, TRUE, lens)
  BY <1>2 DEF Found
<1>5. QED
  BY <1>1, <1>3, <1>4

\* What is listed of a directory has all but files that are absent now.
LEMMA ListingFound ==
  ASSUME NEW t, NEW lens, \A f \in Files : Length(t[f]) \in lens[f], NEW d \in Dirs
  PROVE  /\ \A f \in Range(listing(t, d)) : f \in Range(Children[d])
         /\ \A f \in Range(Children[d]) \cap Files : f \in Range(listing(t, d)) \/ -1 \in lens[f]
<1>1. \A e : e \in Range(listing(t, d)) <=> e \in Range(Children[d]) /\ Here(t, e)
  BY ListingIs
<1>2. ASSUME NEW f \in Range(Children[d]) \cap Files, ~ Here(t, f)
      PROVE  -1 \in lens[f]
  <2>1. t[f] = Absent
    BY <1>2 DEF Here
  <2>2. Length(t[f]) = -1
    BY <2>1 DEF Length
  <2>3. QED
    BY <2>2
<1>3. QED
  BY <1>1, <1>2

-----------------------------------------------------------------------------
(* What the second scan says of the tree the first one ended with.          *)

Prefix(g, log) == \E c \in Logs : log = Cat(g, c)

\* An entry the first scan met that the second can no longer meet.
Missing(g, p, o, log) ==
  \E f \in Names(log) : f \notin Known(g, p) /\ \E d \in Dirs : Opened(d, g, o) /\ f \in Range(Children[d])

\* As long as it logs the same, with what the tree m has for what is pending
\* the log of the second scan is that of the tree.
Agreeing(g, p, o, m, log) ==
  Prefix(g, log) /\ ~ Missing(g, p, o, log) /\ o => Cat(g, LogsOf(m, p)) = LogOf(m)

\* A tree t with its history, that was m when the first scan ended.
Later(m, c0, lm, t, lens, ch) ==
  /\ c0 <= ch
  /\ \A f \in Files :
       /\ lm[f] \subseteq lens[f]
       /\ Length(t[f]) \in lm[f] => Length(t[f]) = Length(m[f])
       /\ \A i \in Nat, x \in Nat : Has(t[f], i, x) /\ x <= c0 => Has(m[f], i, x)

\* The log of the first scan, the tree when it ended, and the history until then.
FirstScan(log, m, lm, c0) ==
  /\ log \in Logs /\ m \in Trees /\ c0 \in Nat /\ lm \in [Files -> SUBSET Int]
  /\ Accounts(log, <<>>, TRUE, m, lm, c0)

LEMMA NextIn ==
  ASSUME NEW e \in Entries, NEW q \in Frames
  PROVE  e \in Range(Cat(<<e>>, q))
<1> DEFINE u == <<e>>
<1>1. u \in Seq(Entries) /\ Range(u) = {e} /\ q \in Seq(Entries)
  BY OneElement DEF Frames
<1> HIDE DEF u
<1>2. Range(Cat(u, q)) = Range(u) \cup Range(q)
  BY <1>1, CatRange
<1>3. QED
  BY <1>1, <1>2 DEF u

LEMMA MissingOn ==
  ASSUME NEW g, NEW h, NEW e \in Entries, NEW q \in Frames, NEW l \in Frames, NEW o, NEW log,
         Placed(g, Cat(<<e>>, q), o), Names(h) = Names(g) \cup {e}, Distinct(l),
         \A f \in Range(l) : e \in Dirs /\ f \in Range(Children[e]),
         Missing(g, Cat(<<e>>, q), o, log)
  PROVE  Missing(h, Cat(l, q), o, log)
<1> DEFINE p == Cat(<<e>>, q)
           s == Cat(l, q)
<1>1. Known(h, s) = Known(g, p) \cup Range(l) /\ \A d \in Dirs : Opened(d, h, o) <=> Opened(d, g, o) \/ d = e
  BY PlacedOn
<1>2. PICK f \in Names(log), d \in Dirs : f \notin Known(g, p) /\ Opened(d, g, o) /\ f \in Range(Children[d])
  BY DEF Missing
<1>3. e \in Range(p)
  BY NextIn
<1>4. Placed(g, p, o)
  OBVIOUS
<1> HIDE DEF p, s
<1>5. f \notin Range(l)
  <2>1. SUFFICES ASSUME f \in Range(l) PROVE FALSE
    OBVIOUS
  <2>2. e = d
    BY <1>2, <2>1, OneParent
  <2>3. e # Root /\ e \notin Names(g)
    BY <1>3, <1>4, Custody16Assumption DEF Placed
  <2>4. QED
    BY <1>2, <2>2, <2>3 DEF Opened
<1>6. QED
  BY <1>1, <1>2, <1>5 DEF Missing, s

LEMMA PrefixOf ==
  ASSUME NEW g \in Logs, NEW r \in Logs, NEW log \in Logs, Prefix(Cat(g, r), log)
  PROVE  Prefix(g, log) /\ Names(r) \subseteq Names(log)
<1>1. PICK c \in Logs : log = Cat(Cat(g, r), c)
  BY DEF Prefix
<1>2. Cat(Cat(g, r), c) = Cat(g, Cat(r, c)) /\ Cat(r, c) \in Logs /\ Cat(g, r) \in Logs
  BY CatAssociative, CatProperties DEF Logs
<1>3. Prefix(g, log)
  BY <1>1, <1>2 DEF Prefix
<1>4. Names(log) = Names(Cat(g, r)) \cup Names(c) /\ Names(Cat(g, r)) = Names(g) \cup Names(r)
  BY <1>1, <1>2, NamesOfConcat
<1>5. QED
  BY <1>3, <1>4

\* The next entry, with the record the scan makes of it.
LEMMA AgreeOn ==
  ASSUME NEW g \in Logs, NEW r \in Logs, NEW e \in Entries, NEW q \in Frames, NEW l \in Frames,
         NEW m \in Trees, NEW log \in Logs,
         Placed(g, Cat(<<e>>, q), TRUE), Names(r) = {e}, Distinct(l),
         \A f \in Range(l) : e \in Dirs /\ f \in Range(Children[e]),
         Agreeing(g, Cat(<<e>>, q), TRUE, m, log),
         Prefix(Cat(g, r), log) =>
           EntryLogs(m)[e] = Cat(r, LogsOf(m, l)) \/ Missing(Cat(g, r), Cat(l, q), TRUE, log)
  PROVE  Agreeing(Cat(g, r), Cat(l, q), TRUE, m, log)
<1> DEFINE h == Cat(g, r)
           p == Cat(<<e>>, q)
           s == Cat(l, q)
           x == EntryLogs(m)[e]
           y == LogsOf(m, q)
           z == LogsOf(m, l)
<1>1. SUFFICES ASSUME Prefix(h, log), ~ Missing(h, s, TRUE, log)
               PROVE  Cat(h, LogsOf(m, s)) = LogOf(m)
  BY DEF Agreeing
<1>2. Prefix(g, log)
  BY <1>1, PrefixOf
<1>3. Names(h) = Names(g) \cup {e}
  BY NamesOfConcat
<1>4. ~ Missing(g, p, TRUE, log)
  BY <1>1, <1>3, MissingOn
<1>5. Cat(g, LogsOf(m, p)) = LogOf(m)
  BY <1>2, <1>4 DEF Agreeing
<1>6. x = Cat(r, z)
  BY <1>1
<1>7. <<e>> \in Frames
  BY OneElement DEF Frames
<1>8. LogsOf(m, p) = Cat(LogsOf(m, <<e>>), y) /\ y \in Logs
  BY <1>7, LogsOfConcat
<1>9. LogsOf(m, s) = Cat(z, y) /\ z \in Logs
  BY LogsOfConcat
<1>10. LogsOf(m, <<e>>) = x
  BY LogsOfOne
<1> HIDE DEF h, p, s, x, y, z
<1>11. Cat(r, z) \in Logs /\ Cat(z, y) \in Logs
  BY <1>8, <1>9, CatProperties DEF Logs
<1>12. Cat(Cat(g, r), Cat(z, y)) = Cat(g, Cat(r, Cat(z, y)))
  BY <1>11, CatAssociative DEF Logs
<1>13. Cat(Cat(r, z), y) = Cat(r, Cat(z, y))
  BY <1>8, <1>9, CatAssociative DEF Logs
<1>14. QED
  BY <1>5, <1>6, <1>8, <1>9, <1>10, <1>12, <1>13 DEF h

\* The listing of a directory that the first scan listed too.
LEMMA ListingAgrees ==
  ASSUME NEW log, NEW m, NEW lm, NEW c0, FirstScan(log, m, lm, c0),
         NEW t, NEW lens, NEW ch, Later(m, c0, lm, t, lens, ch),
         NEW d \in Dirs, Opened(d, log, TRUE), NEW h, NEW s, Opened(d, h, TRUE),
         \A f \in Range(Children[d]) \cap Files : f \notin Range(listing(t, d)) => f \notin Known(h, s)
  PROVE  LogsOf(m, listing(t, d)) = LogsOf(m, Children[d]) \/ Missing(h, s, TRUE, log)
<1>1. CASE \A e \in Range(Children[d]) : Here(m, e) => Here(t, e)
  BY <1>1, ListingLogs DEF FirstScan
<1>2. CASE ~ \A e \in Range(Children[d]) : Here(m, e) => Here(t, e)
  <2>1. PICK e \in Range(Children[d]) : Here(m, e) /\ ~ Here(t, e)
    BY <1>2
  <2>2. e \in Files /\ t[e] = Absent /\ m[e] # Absent
    BY <2>1 DEF Here
  <2>3. e \notin Range(listing(t, d))
    BY <2>1, ListingIs
  <2>4. e \in Known(log, <<>>) \/ -1 \in lm[e]
    <3>1. Found(log, <<>>, TRUE, lm) /\ e \in Range(Children[d]) \cap Files
      BY <2>1, <2>2 DEF FirstScan, Accounts
    <3>2. QED
      BY <3>1, Zenon DEF Found
  <2>5. -1 \notin lm[e]
    <3>1. SUFFICES ASSUME -1 \in lm[e] PROVE FALSE
      OBVIOUS
    <3>2. Length(t[e]) = -1 /\ Length(m[e]) = Len(m[e])
      BY <2>2 DEF Length
    <3>3. Length(t[e]) = Length(m[e])
      BY <2>2, <3>1, <3>2 DEF Later
    <3>4. m[e] \in Seq(Nat)
      BY <2>2 DEF FirstScan, Trees
    <3>5. Len(m[e]) \in Nat
      BY <3>4, LenProperties
    <3>6. QED
      BY <3>2, <3>3, <3>5, SMT
  <2>6. Known(log, <<>>) = Names(log)
    BY DEF Known, Range
  <2>7. e \in Names(log) /\ e \notin Known(h, s)
    BY <2>1, <2>2, <2>3, <2>4, <2>5, <2>6
  <2>8. QED
    BY <2>7 DEF Missing
<1>3. QED
  BY <1>1, <1>2

\* A file the second scan ends with the record the first one made.
LEMMA FileAgrees ==
  ASSUME NEW log, NEW m, NEW lm, NEW c0, FirstScan(log, m, lm, c0),
         NEW f \in Files, NEW g \in Logs, NEW b \in Seq(Nat), NEW n, n = Len(b),
         Prefix(Cat(g, record(f, n, "REGULAR", b)), log),
         \A i \in 1 .. n : b[i] <= c0 => Has(m[f], i, b[i]),
         \/ n \in lm[f] => n = Length(m[f])
         \/ n >= 1 /\ ~ (b[n] <= c0)
  PROVE  EntryLogs(m)[f] = record(f, n, "REGULAR", b)
<1> DEFINE r == record(f, n, "REGULAR", b)
           l == Len(g)
           w == Cat(g, r)
<1>0. f \in Entries /\ f \notin Links /\ f \in AllEntries /\ "REGULAR" \in EntryKinds
  BY DEF Files, AllEntries, EntryKinds
<1>n. n \in Nat
  BY LenProperties
<1>1. /\ r \in Logs /\ Len(r) = n + 2 /\ DOMAIN r = 1 .. n + 2
      /\ r[1] = <<"ENTR", f, n, "REGULAR">>
      /\ \A i \in 1 .. n : r[1 + i] = <<"DATA", b[i]>>
  BY <1>0, <1>n, RecordItems
<1> HIDE DEF r
<1>2. PICK c \in Logs : log = Cat(w, c)
  BY DEF Prefix, r
<1>3. Joined(LogItems, g, r, w, l, n + 2)
  <2>1. Joined(LogItems, g, r, w, l, Len(r))
    BY <1>1, CatElements DEF Logs
  <2>2. QED
    BY <1>1, <2>1
<1> HIDE DEF w, l
<1> DEFINE a == l + (n + 2)
           z == Len(c)
<1>4. Joined(LogItems, w, c, log, a, z)
  <2>1. w \in Seq(LogItems) /\ Len(w) = a
    BY <1>3 DEF Joined
  <2>2. Joined(LogItems, w, c, log, Len(w), z)
    BY <1>2, <2>1, CatElements DEF Logs
  <2>3. QED
    BY <2>1, <2>2
<1> HIDE DEF z
<1>5. /\ \A j \in 1 .. n + 2 : l + j \in 1 .. a /\ w[l + j] = r[j]
      /\ \A i \in 1 .. a : i \in 1 .. a + z /\ log[i] = w[i]
      /\ DOMAIN log = 1 .. a + z /\ l \in Nat
  BY <1>3, <1>4, Zenon DEF Joined
<1> HIDE DEF a
<1>6. \A j \in 1 .. n + 2 : l + j \in DOMAIN log /\ log[l + j] = r[j]
  BY <1>5, Zenon
<1>7. 1 \in 1 .. n + 2 /\ \A i \in 1 .. n : 1 + i \in 1 .. n + 2
  BY <1>n, SMT
<1>8. l + 1 \in DOMAIN log /\ log[l + 1] = <<"ENTR", f, n, "REGULAR">>
  BY <1>1, <1>6, <1>7
<1>9. \A i \in 1 .. n : l + (1 + i) \in DOMAIN log /\ log[l + (1 + i)] = <<"DATA", b[i]>>
  BY <1>1, <1>6, <1>7
<1>10. \A i \in 1 .. n : b[i] \in Nat /\ b[i] <= c0 /\ Has(m[f], i, b[i])
  <2>1. SUFFICES ASSUME NEW i \in 1 .. n PROVE b[i] \in Nat /\ b[i] <= c0
    OBVIOUS
  <2>2. b[i] \in Nat
    BY ElementOfSeq
  <2>3. <<"DATA", b[i]>> \in Range(log)
    BY <1>9 DEF Range
  <2>4. QED
    BY <2>2, <2>3 DEF FirstScan, Accounts, OldBytes
<1>11. \/ n \in lm[f]
       \/ n >= 1 /\ (l + 1) + n \in DOMAIN log
          /\ \E x \in Nat : log[(l + 1) + n] = <<"DATA", x>> /\ ~ Has(m[f], n, x)
  <2>1. Sized(log, m, lm)
    BY DEF FirstScan, Accounts
  <2>2. QED
    BY <1>0, <1>n, <1>8, <2>1 DEF Sized
<1>12. n \in lm[f]
  <2>1. SUFFICES ASSUME n >= 1, NEW x \in Nat, log[(l + 1) + n] = <<"DATA", x>>, ~ Has(m[f], n, x)
                 PROVE  FALSE
    BY <1>11
  <2>2. n \in 1 .. n /\ (l + 1) + n = l + (1 + n)
    BY <1>5, <1>n, <2>1, SMT
  <2>3. <<"DATA", x>> = <<"DATA", b[n]>>
    BY <1>9, <2>1, <2>2
  <2>4. x = b[n]
    BY <2>3
  <2>5. QED
    BY <1>10, <2>1, <2>2, <2>4
<1>13. n = Length(m[f])
  <2>1. n >= 1 => n \in 1 .. n
    BY <1>n, SMT
  <2>2. QED
    BY <1>10, <1>12, <2>1
<1>14. m[f] # Absent
  <2>1. SUFFICES ASSUME m[f] = Absent PROVE FALSE
    OBVIOUS
  <2>2. n = -1
    BY <1>13, <2>1 DEF Length
  <2>3. QED
    BY <1>n, <2>2, SMT
<1>15. m[f] \in Seq(Nat) /\ Len(m[f]) = n
  BY <1>13, <1>14 DEF Length, FirstScan, Trees
<1>16. m[f] = b
  <2>1. \A i \in 1 .. n : m[f][i] = b[i]
    BY <1>10 DEF Has
  <2>2. QED
    BY <1>15, <2>1, SeqEqual
<1>17. EntryLogs(m)[f] = LogBody(m, EntryLogs(m), f)
  BY <1>0, LogsAre
<1>18. QED
  BY <1>0, <1>14, <1>16, <1>17 DEF LogBody, r

-----------------------------------------------------------------------------
(* What a change of a file leaves true.                                     *)

\* Every length a file has is one it had, and no byte is of a later change.
TreeKnown(t, lens, ch) ==
  /\ t \in Trees /\ lens \in [Files -> SUBSET Int] /\ ch \in Nat
  /\ \A f \in Files : Length(t[f]) \in lens[f] /\ \A i \in Nat, x \in Nat : Has(t[f], i, x) => x <= ch

\* The tree u that the next change makes of t, at the file h.
Changing(h, replaced, t, lens, ch, u, with) ==
  /\ h \in Files /\ TreeKnown(t, lens, ch) /\ TreeKnown(u, with, ch + 1)
  /\ ~ replaced => u[h] # Absent
  /\ \A f \in Files :
       /\ f # h => u[f] = t[f]
       /\ lens[f] \subseteq with[f]
       /\ Length(u[f]) = Length(t[f]) \/ Length(u[f]) \notin lens[f]
       /\ \A i \in Nat, x \in Nat : Has(u[f], i, x) => x = ch + 1 \/ (Has(t[f], i, x) /\ ~ (replaced /\ f = h))

\* The open file: what was read is old; if its name is gone or another's, its
\* bytes are of before all the bytes that are there now.
OpenFileKnown(f, gone, b, t, lens, ch) ==
  /\ gone = Absent => t[f] # Absent
  /\ \A i \in DOMAIN b : b[i] <= ch
  /\ gone # Absent =>
       /\ Length(gone) \in lens[f]
       /\ \A i \in Nat, x \in Nat : Has(gone, i, x) => x <= ch
       /\ \A i \in Nat, x \in Nat : Has(t[f], i, x) =>
            (\A j \in Nat, y \in Nat : Has(gone, j, y) => y < x) /\ \A j \in DOMAIN b : b[j] < x

\* In the second scan: what it has of the time of the first is as m has it.
OpenFileAgrees(f, gone, b, t, m, lm, c0) ==
  /\ \A i \in DOMAIN b : b[i] <= c0 => Has(m[f], i, b[i])
  /\ gone # Absent =>
       /\ Length(gone) \in lm[f] => Length(gone) = Length(m[f])
       /\ \A i \in Nat, x \in Nat : Has(gone, i, x) /\ x <= c0 => Has(m[f], i, x)
       /\ \A i \in Nat, x \in Nat : Has(t[f], i, x) => ~ (x <= c0)

\* A size that was found: as m has it, or no byte at its end is of the time of m.
SizeAgrees(f, n, gone, b, t, m, lm, c0) ==
  \/ n \in lm[f] => n = Length(m[f])
  \/ /\ n >= 1 /\ (n \in DOMAIN b => ~ (b[n] <= c0))
     /\ \A x \in Nat : Has(t[f], n, x) \/ Has(gone, n, x) => ~ (x <= c0)

LEMMA LaterChanges ==
  ASSUME NEW h, NEW replaced, NEW t, NEW lens, NEW ch, NEW u, NEW with,
         Changing(h, replaced, t, lens, ch, u, with),
         NEW m, NEW lm, NEW c0 \in Nat, Later(m, c0, lm, t, lens, ch)
  PROVE  Later(m, c0, lm, u, with, ch + 1) /\ ~ (ch + 1 <= c0)
<1>1. ch \in Nat /\ c0 <= ch
  BY DEF Changing, TreeKnown, Later
<1>2. c0 <= ch + 1 /\ ~ (ch + 1 <= c0)
  BY <1>1, SMT
<1>3. ASSUME NEW f \in Files
      PROVE  /\ lm[f] \subseteq with[f]
             /\ Length(u[f]) \in lm[f] => Length(u[f]) = Length(m[f])
             /\ \A i \in Nat, x \in Nat : Has(u[f], i, x) /\ x <= c0 => Has(m[f], i, x)
  <2>1. /\ lens[f] \subseteq with[f]
        /\ Length(u[f]) = Length(t[f]) \/ Length(u[f]) \notin lens[f]
        /\ \A i \in Nat, x \in Nat : Has(u[f], i, x) => x = ch + 1 \/ Has(t[f], i, x)
    BY DEF Changing
  <2>2. /\ lm[f] \subseteq lens[f]
        /\ Length(t[f]) \in lm[f] => Length(t[f]) = Length(m[f])
        /\ \A i \in Nat, x \in Nat : Has(t[f], i, x) /\ x <= c0 => Has(m[f], i, x)
    BY DEF Later
  <2>3. QED
    BY <1>2, <2>1, <2>2
<1>4. QED
  BY <1>2, <1>3 DEF Later

LEMMA AccountsChange ==
  ASSUME NEW h, NEW replaced, NEW t, NEW lens, NEW ch, NEW u, NEW with,
         Changing(h, replaced, t, lens, ch, u, with),
         NEW g \in Logs, NEW p, NEW o, Accounts(g, p, o, t, lens, ch)
  PROVE  Accounts(g, p, o, u, with, ch + 1)
<1>1. ch \in Nat
  BY DEF Changing, TreeKnown
<1>2. \A f \in Files : lens[f] \subseteq with[f]
  BY DEF Changing
<1>3. Placed(g, p, o)
  BY DEF Accounts
<1>4. Found(g, p, o, with)
  BY <1>2 DEF Accounts, Found
<1>5. OldBytes(g, ch) /\ OldBytes(g, ch + 1)
  <2>1. \A x \in Nat : x <= ch => x <= ch + 1
    BY <1>1, SMT
  <2>2. QED
    BY <2>1 DEF Accounts, OldBytes
<1>6. Sized(g, u, with)
  <2>1. SUFFICES ASSUME NEW p1 \in DOMAIN g, NEW f \in Files, NEW n \in Nat, NEW k \in EntryKinds,
                        g[p1] = <<"ENTR", f, n, k>>, n \notin with[f]
                 PROVE  n >= 1 /\ p1 + n \in DOMAIN g
                        /\ \E x \in Nat : g[p1 + n] = <<"DATA", x>> /\ ~ Has(u[f], n, x)
    BY DEF Sized
  <2>2. n \notin lens[f]
    BY <1>2, <2>1
  <2>3. n >= 1 /\ p1 + n \in DOMAIN g /\ \E x \in Nat : g[p1 + n] = <<"DATA", x>> /\ ~ Has(t[f], n, x)
    BY <2>1, <2>2 DEF Accounts, Sized
  <2>4. PICK x \in Nat : g[p1 + n] = <<"DATA", x>> /\ ~ Has(t[f], n, x)
    BY <2>3
  <2>5. <<"DATA", x>> \in Range(g)
    BY <2>3, <2>4 DEF Range
  <2>6. x <= ch
    BY <1>5, <2>5 DEF OldBytes
  <2>7. x # ch + 1
    BY <1>1, <2>6, SMT
  <2>8. ~ Has(u[f], n, x)
    BY <2>4, <2>7 DEF Changing
  <2>9. QED
    BY <2>3, <2>4, <2>8
<1>7. QED
  BY <1>3, <1>4, <1>5, <1>6 DEF Accounts

\* The bytes of the open file once its name is gone or another's.
GoneBytes(f, h, replaced, gone, t) == IF f = h /\ gone = Absent /\ replaced THEN t[f] ELSE gone

LEMMA OpenFileChanges ==
  ASSUME NEW h, NEW replaced, NEW t, NEW lens, NEW ch, NEW u, NEW with,
         Changing(h, replaced, t, lens, ch, u, with),
         NEW f \in Files, NEW gone, NEW b \in Seq(Nat), OpenFileKnown(f, gone, b, t, lens, ch)
  PROVE  OpenFileKnown(f, GoneBytes(f, h, replaced, gone, t), b, u, with, ch + 1)
<1>1. ch \in Nat /\ lens[f] \subseteq with[f] /\ Length(t[f]) \in lens[f]
  BY DEF Changing, TreeKnown
<1>2. \A i \in DOMAIN b : b[i] \in Nat /\ b[i] <= ch
  <2>1. \A i \in DOMAIN b : b[i] \in Nat
    BY LenProperties, ElementOfSeq
  <2>2. QED
    BY <2>1 DEF OpenFileKnown
<1>3. \A x \in Nat : x <= ch => x <= ch + 1 /\ x < ch + 1
  BY <1>1, SMT
<1>4. \A i \in DOMAIN b : b[i] <= ch + 1 /\ b[i] < ch + 1
  BY <1>2, <1>3
<1>5. \A i \in Nat, x \in Nat : Has(u[f], i, x) => x = ch + 1 \/ (Has(t[f], i, x) /\ ~ (replaced /\ f = h))
  BY DEF Changing
<1>6. CASE gone # Absent
  <2>1. GoneBytes(f, h, replaced, gone, t) = gone
    BY <1>6 DEF GoneBytes
  <2>2. /\ Length(gone) \in lens[f]
        /\ \A i \in Nat, x \in Nat : Has(gone, i, x) => x <= ch
        /\ \A i \in Nat, x \in Nat : Has(t[f], i, x) =>
             (\A j \in Nat, y \in Nat : Has(gone, j, y) => y < x) /\ \A j \in DOMAIN b : b[j] < x
    BY <1>6 DEF OpenFileKnown
  <2>3. Length(gone) \in with[f]
    BY <1>1, <2>2
  <2>4. \A i \in Nat, x \in Nat : Has(gone, i, x) => x <= ch + 1 /\ x < ch + 1
    BY <1>3, <2>2
  <2>5. \A i \in Nat, x \in Nat : Has(u[f], i, x) =>
             (\A j \in Nat, y \in Nat : Has(gone, j, y) => y < x) /\ \A j \in DOMAIN b : b[j] < x
    BY <1>4, <1>5, <2>2, <2>4
  <2>6. QED
    BY <1>4, <1>6, <2>1, <2>3, <2>4, <2>5 DEF OpenFileKnown
<1>7. CASE gone = Absent /\ ~ (f = h /\ replaced)
  <2>1. GoneBytes(f, h, replaced, gone, t) = gone
    BY <1>7 DEF GoneBytes
  <2>2. u[f] # Absent
    BY <1>7 DEF OpenFileKnown, Changing
  <2>3. QED
    BY <1>4, <1>7, <2>1, <2>2 DEF OpenFileKnown
<1>8. CASE gone = Absent /\ f = h /\ replaced
  <2>1. GoneBytes(f, h, replaced, gone, t) = t[f] /\ t[f] # Absent
    BY <1>8 DEF GoneBytes, OpenFileKnown
  <2>2. \A i \in Nat, x \in Nat : Has(t[f], i, x) => x <= ch
    BY DEF Changing, TreeKnown
  <2>3. \A i \in Nat, x \in Nat : Has(t[f], i, x) => x <= ch + 1 /\ x < ch + 1
    BY <1>3, <2>2
  <2>4. \A i \in Nat, x \in Nat : Has(u[f], i, x) => x = ch + 1
    BY <1>5, <1>8
  <2>5. QED
    BY <1>1, <1>4, <2>1, <2>3, <2>4 DEF OpenFileKnown
<1>9. QED
  BY <1>6, <1>7, <1>8

LEMMA OpenFileStillAgrees ==
  ASSUME NEW h, NEW replaced, NEW t, NEW lens, NEW ch, NEW u, NEW with,
         Changing(h, replaced, t, lens, ch, u, with),
         NEW m, NEW lm, NEW c0 \in Nat, Later(m, c0, lm, t, lens, ch),
         NEW f \in Files, NEW gone, NEW b, OpenFileAgrees(f, gone, b, t, m, lm, c0)
  PROVE  OpenFileAgrees(f, GoneBytes(f, h, replaced, gone, t), b, u, m, lm, c0)
<1>1. ~ (ch + 1 <= c0)
  BY LaterChanges
<1>2. \A i \in Nat, x \in Nat : Has(u[f], i, x) => x = ch + 1 \/ (Has(t[f], i, x) /\ ~ (replaced /\ f = h))
  BY DEF Changing
<1>3. \A i \in DOMAIN b : b[i] <= c0 => Has(m[f], i, b[i])
  BY DEF OpenFileAgrees
<1>4. CASE gone # Absent
  <2>1. GoneBytes(f, h, replaced, gone, t) = gone
    BY <1>4 DEF GoneBytes
  <2>2. /\ Length(gone) \in lm[f] => Length(gone) = Length(m[f])
        /\ \A i \in Nat, x \in Nat : Has(gone, i, x) /\ x <= c0 => Has(m[f], i, x)
        /\ \A i \in Nat, x \in Nat : Has(t[f], i, x) => ~ (x <= c0)
    BY <1>4 DEF OpenFileAgrees
  <2>3. \A i \in Nat, x \in Nat : Has(u[f], i, x) => ~ (x <= c0)
    BY <1>1, <1>2, <2>2
  <2>4. QED
    BY <1>3, <2>1, <2>2, <2>3 DEF OpenFileAgrees
<1>5. CASE gone = Absent /\ ~ (f = h /\ replaced)
  <2>1. GoneBytes(f, h, replaced, gone, t) = Absent
    BY <1>5 DEF GoneBytes
  <2>2. QED
    BY <1>3, <2>1 DEF OpenFileAgrees
<1>6. CASE gone = Absent /\ f = h /\ replaced
  <2>1. GoneBytes(f, h, replaced, gone, t) = t[f]
    BY <1>6 DEF GoneBytes
  <2>2. /\ Length(t[f]) \in lm[f] => Length(t[f]) = Length(m[f])
        /\ \A i \in Nat, x \in Nat : Has(t[f], i, x) /\ x <= c0 => Has(m[f], i, x)
    BY DEF Later
  <2>3. \A i \in Nat, x \in Nat : Has(u[f], i, x) => ~ (x <= c0)
    BY <1>1, <1>2, <1>6
  <2>4. QED
    BY <1>3, <2>1, <2>2, <2>3 DEF OpenFileAgrees
<1>7. QED
  BY <1>4, <1>5, <1>6

LEMMA SizeStillAgrees ==
  ASSUME NEW h, NEW replaced, NEW t, NEW lens, NEW ch, NEW u, NEW with,
         Changing(h, replaced, t, lens, ch, u, with),
         NEW m, NEW lm, NEW c0 \in Nat, Later(m, c0, lm, t, lens, ch),
         NEW f \in Files, NEW n \in Nat, NEW gone, NEW b, SizeAgrees(f, n, gone, b, t, m, lm, c0),
         NEW lost, lost = gone \/ lost = t[f]
  PROVE  SizeAgrees(f, n, lost, b, u, m, lm, c0)
<1>1. ~ (ch + 1 <= c0)
  BY LaterChanges
<1>2. \A i \in Nat, x \in Nat : Has(u[f], i, x) => x = ch + 1 \/ Has(t[f], i, x)
  BY DEF Changing
<1>3. CASE n \in lm[f] => n = Length(m[f])
  BY <1>3 DEF SizeAgrees
<1>4. CASE ~ (n \in lm[f] => n = Length(m[f]))
  <2>1. /\ n >= 1 /\ (n \in DOMAIN b => ~ (b[n] <= c0))
        /\ \A x \in Nat : Has(t[f], n, x) \/ Has(gone, n, x) => ~ (x <= c0)
    BY <1>4 DEF SizeAgrees
  <2>2. \A x \in Nat : Has(u[f], n, x) \/ Has(lost, n, x) => ~ (x <= c0)
    BY <1>1, <1>2, <2>1
  <2>3. QED
    BY <2>1, <2>2 DEF SizeAgrees
<1>5. QED
  BY <1>3, <1>4

-----------------------------------------------------------------------------
(* What counting, reading and closing a file find out.                      *)

\* The bytes that a read goes on to find.
OpenBytes(f, gone, t) == IF gone # Absent THEN gone ELSE t[f]

LEMMA OpenBytesAre ==
  ASSUME NEW t, NEW lens, NEW ch, TreeKnown(t, lens, ch), NEW f \in Files, NEW gone \in {Absent} \cup Seq(Nat),
         NEW b, OpenFileKnown(f, gone, b, t, lens, ch)
  PROVE  LET c == OpenBytes(f, gone, t) IN
         /\ c \in Seq(Nat) /\ c # Absent /\ Len(c) \in Nat /\ DOMAIN c = 1 .. Len(c) /\ Length(c) = Len(c)
         /\ Length(c) \in lens[f]
         /\ \A i \in DOMAIN c : i \in Nat /\ c[i] \in Nat /\ c[i] <= ch /\ Has(c, i, c[i])
<1> DEFINE c == OpenBytes(f, gone, t)
<1>1. c \in Seq(Nat) /\ c # Absent
  BY DEF OpenBytes, OpenFileKnown, TreeKnown, Trees
<1>2. Length(c) \in lens[f] /\ \A i \in Nat, x \in Nat : Has(c, i, x) => x <= ch
  <2>1. CASE gone = Absent
    BY <2>1 DEF OpenBytes, TreeKnown
  <2>2. CASE gone # Absent
    BY <2>2 DEF OpenBytes, OpenFileKnown
  <2>3. QED
    BY <2>1, <2>2
<1> HIDE DEF c
<1>3. Len(c) \in Nat /\ DOMAIN c = 1 .. Len(c) /\ \A i \in 1 .. Len(c) : c[i] \in Nat
  BY <1>1, LenProperties, ElementOfSeq
<1>4. \A i \in DOMAIN c : i \in Nat /\ c[i] \in Nat /\ Has(c, i, c[i])
  <2>1. \A i \in 1 .. Len(c) : i \in Nat
    BY <1>3, SMT
  <2>2. QED
    BY <1>1, <1>3, <2>1 DEF Has
<1>5. Length(c) = Len(c)
  BY <1>1 DEF Length
<1>6. QED
  BY <1>1, <1>2, <1>3, <1>4, <1>5 DEF c

\* The bytes read so far and those of one more read.
LEMMA BytesRead ==
  ASSUME NEW b \in Seq(Nat), NEW c \in Seq(Nat), NEW k \in Nat, Len(b) + k <= Len(c)
  PROVE  LET data == SubSeq(c, Len(b) + 1, Len(b) + k) IN
         /\ data \in Seq(Nat) /\ Len(data) = k
         /\ Cat(b, data) \in Seq(Nat) /\ Len(Cat(b, data)) = Len(b) + k
         /\ \A i \in DOMAIN Cat(b, data) : \/ i \in DOMAIN b /\ Cat(b, data)[i] = b[i]
                                           \/ i \in DOMAIN c /\ Cat(b, data)[i] = c[i]
<1> DEFINE p == Len(b)
           data == SubSeq(c, p + 1, p + k)
           z == Cat(b, data)
<1>1. p \in Nat /\ Len(c) \in Nat /\ DOMAIN c = 1 .. Len(c)
  BY LenProperties
<1>2. \A i \in 1 .. Len(c) : c[i] \in Nat
  BY ElementOfSeq
<1> HIDE DEF p
<1>3. data \in Seq(Nat) /\ Len(data) = k /\ \A i \in 1 .. k : data[i] = c[p + i]
  <2>1. p + k <= Len(c)
    BY DEF p
  <2>2. QED
    BY <1>1, <1>2, <2>1, SMT
<1>4. \A i \in 1 .. k : p + i \in 1 .. Len(c)
  <2>1. p + k <= Len(c)
    BY DEF p
  <2>2. QED
    BY <1>1, <2>1, SMT
<1> HIDE DEF data
<1>5. Joined(Nat, b, data, z, p, k)
  <2>1. Joined(Nat, b, data, z, Len(b), Len(data))
    BY <1>3, CatElements
  <2>2. QED
    BY <1>3, <2>1 DEF p
<1> HIDE DEF z
<1>6. /\ z \in Seq(Nat) /\ Len(z) = p + k /\ DOMAIN z = 1 .. p + k /\ DOMAIN b = 1 .. p
      /\ \A i \in 1 .. p : z[i] = b[i]
      /\ \A j \in 1 .. k : z[p + j] = data[j]
      /\ \A i \in 1 .. p + k : i \in 1 .. p \/ \E j \in 1 .. k : i = p + j
  BY <1>5, Zenon DEF Joined
<1>7. \A i \in DOMAIN z : (i \in DOMAIN b /\ z[i] = b[i]) \/ (i \in DOMAIN c /\ z[i] = c[i])
  <2>1. SUFFICES ASSUME NEW i \in 1 .. p + k
                 PROVE  (i \in 1 .. p /\ z[i] = b[i]) \/ (i \in 1 .. Len(c) /\ z[i] = c[i])
    BY <1>1, <1>6
  <2>2. CASE i \in 1 .. p
    BY <1>6, <2>2
  <2>3. CASE \E j \in 1 .. k : i = p + j
    <3>1. PICK j \in 1 .. k : i = p + j
      BY <2>3
    <3>2. z[i] = data[j] /\ data[j] = c[i] /\ i \in 1 .. Len(c)
      BY <1>3, <1>4, <1>6, <3>1
    <3>3. QED
      BY <3>2
  <2>4. QED
    BY <1>6, <2>2, <2>3
<1>8. QED
  BY <1>3, <1>6, <1>7 DEF p, z, data

LEMMA ReadKnown ==
  ASSUME NEW t, NEW lens, NEW ch, TreeKnown(t, lens, ch), NEW f \in Files, NEW gone \in {Absent} \cup Seq(Nat),
         NEW b, OpenFileKnown(f, gone, b, t, lens, ch), NEW z,
         \A i \in DOMAIN z : \/ i \in DOMAIN b /\ z[i] = b[i]
                             \/ i \in DOMAIN OpenBytes(f, gone, t) /\ z[i] = OpenBytes(f, gone, t)[i]
  PROVE  OpenFileKnown(f, gone, z, t, lens, ch)
<1> DEFINE c == OpenBytes(f, gone, t)
<1>1. \A i \in DOMAIN c : i \in Nat /\ c[i] \in Nat /\ c[i] <= ch /\ Has(c, i, c[i])
  BY OpenBytesAre
<1>2. \A i \in DOMAIN z : (i \in DOMAIN b /\ z[i] = b[i]) \/ (i \in DOMAIN c /\ z[i] = c[i])
  OBVIOUS
<1>3. gone # Absent => c = gone
  BY DEF OpenBytes
<1> HIDE DEF c
<1>4. \A i \in DOMAIN z : z[i] <= ch
  BY <1>1, <1>2 DEF OpenFileKnown
<1>5. ASSUME gone # Absent, NEW i \in Nat, NEW x \in Nat, Has(t[f], i, x), NEW j \in DOMAIN z
      PROVE  z[j] < x
  <2>1. (\A l \in Nat, y \in Nat : Has(gone, l, y) => y < x) /\ \A l \in DOMAIN b : b[l] < x
    BY <1>5 DEF OpenFileKnown
  <2>2. \A l \in DOMAIN c : c[l] < x
    BY <1>1, <1>3, <1>5, <2>1
  <2>3. QED
    BY <1>2, <2>1, <2>2
<1>6. gone # Absent => \A i \in Nat, x \in Nat : Has(t[f], i, x) => \A j \in DOMAIN z : z[j] < x
  BY <1>5
<1>7. QED
  BY <1>4, <1>6 DEF OpenFileKnown

LEMMA ReadAgrees ==
  ASSUME NEW t, NEW lens, NEW ch, TreeKnown(t, lens, ch), NEW f \in Files, NEW gone \in {Absent} \cup Seq(Nat),
         NEW b, OpenFileKnown(f, gone, b, t, lens, ch), NEW z,
         \A i \in DOMAIN z : \/ i \in DOMAIN b /\ z[i] = b[i]
                             \/ i \in DOMAIN OpenBytes(f, gone, t) /\ z[i] = OpenBytes(f, gone, t)[i],
         NEW m, NEW lm, NEW c0, Later(m, c0, lm, t, lens, ch), OpenFileAgrees(f, gone, b, t, m, lm, c0),
         NEW n \in Nat, SizeAgrees(f, n, gone, b, t, m, lm, c0)
  PROVE  OpenFileAgrees(f, gone, z, t, m, lm, c0) /\ SizeAgrees(f, n, gone, z, t, m, lm, c0)
<1> DEFINE c == OpenBytes(f, gone, t)
<1>1. \A i \in DOMAIN c : i \in Nat /\ c[i] \in Nat /\ Has(c, i, c[i])
  BY OpenBytesAre
<1>2. \A i \in DOMAIN z : (i \in DOMAIN b /\ z[i] = b[i]) \/ (i \in DOMAIN c /\ z[i] = c[i])
  OBVIOUS
<1>3. (gone # Absent /\ c = gone) \/ (gone = Absent /\ c = t[f])
  BY DEF OpenBytes
<1> HIDE DEF c
<1>4. \A i \in Nat, x \in Nat : Has(c, i, x) /\ x <= c0 => Has(m[f], i, x)
  BY <1>3 DEF Later, OpenFileAgrees
<1>5. \A i \in DOMAIN z : z[i] <= c0 => Has(m[f], i, z[i])
  BY <1>1, <1>2, <1>4 DEF OpenFileAgrees
<1>6. OpenFileAgrees(f, gone, z, t, m, lm, c0)
  BY <1>5 DEF OpenFileAgrees
<1>7. CASE n \in lm[f] => n = Length(m[f])
  BY <1>6, <1>7 DEF SizeAgrees
<1>8. CASE ~ (n \in lm[f] => n = Length(m[f]))
  <2>1. /\ n >= 1 /\ (n \in DOMAIN b => ~ (b[n] <= c0))
        /\ \A x \in Nat : Has(t[f], n, x) \/ Has(gone, n, x) => ~ (x <= c0)
    BY <1>8 DEF SizeAgrees
  <2>2. n \in DOMAIN c => ~ (c[n] <= c0)
    BY <1>1, <1>3, <2>1
  <2>3. n \in DOMAIN z => ~ (z[n] <= c0)
    BY <1>2, <2>1, <2>2
  <2>4. QED
    BY <1>6, <2>1, <2>3 DEF SizeAgrees
<1>9. QED
  BY <1>7, <1>8

\* The end of a file is found: its size was or is that of what was read, or
\* what was read last is no longer there.
LEMMA EndFound ==
  ASSUME NEW t, NEW lens, NEW ch, TreeKnown(t, lens, ch), NEW f \in Files, NEW gone \in {Absent} \cup Seq(Nat),
         NEW b \in Seq(Nat), OpenFileKnown(f, gone, b, t, lens, ch), NEW n \in Nat,
         ~ (Len(OpenBytes(f, gone, t)) > n)
  PROVE  /\ \/ n \in lens[f]
            \/ n >= 1 /\ (n = Len(b) => ~ Has(t[f], n, b[n]))
         /\ \A m, lm, c0 : Later(m, c0, lm, t, lens, ch) /\ OpenFileAgrees(f, gone, b, t, m, lm, c0) =>
              SizeAgrees(f, n, Absent, <<>>, t, m, lm, c0)
<1> DEFINE c == OpenBytes(f, gone, t)
           s == Len(c)
<1>1. s \in Nat /\ DOMAIN c = 1 .. s /\ Length(c) = s /\ Length(c) \in lens[f]
  BY OpenBytesAre
<1>2. (gone # Absent /\ c = gone) \/ (gone = Absent /\ c = t[f])
  BY DEF OpenBytes
<1>3. ~ (s > n)
  OBVIOUS
<1> HIDE DEF s, c
<1>4. CASE s = n
  <2>1. n \in lens[f]
    BY <1>1, <1>4
  <2>2. ASSUME NEW m, NEW lm, NEW c0, Later(m, c0, lm, t, lens, ch), OpenFileAgrees(f, gone, b, t, m, lm, c0)
        PROVE  n \in lm[f] => n = Length(m[f])
    <3>1. CASE gone = Absent
      BY <1>1, <1>2, <1>4, <2>2, <3>1 DEF Later
    <3>2. CASE gone # Absent
      BY <1>1, <1>2, <1>4, <2>2, <3>2 DEF OpenFileAgrees
    <3>3. QED
      BY <3>1, <3>2
  <2>3. QED
    BY <2>1, <2>2 DEF SizeAgrees
<1>5. CASE s # n
  <2>1. n >= 1 /\ n \notin DOMAIN c
    <3>1. n >= 1 /\ n \notin 1 .. s
      BY <1>1, <1>3, <1>5, SMT
    <3>2. QED
      BY <1>1, <3>1
  <2>2. gone = Absent => \A x \in Nat : ~ Has(t[f], n, x)
    BY <1>2, <2>1 DEF Has
  <2>3. n = Len(b) => ~ Has(t[f], n, b[n])
    <3>1. SUFFICES ASSUME n = Len(b), Has(t[f], n, b[n]) PROVE FALSE
      OBVIOUS
    <3>2. n \in 1 .. n
      BY <2>1, SMT
    <3>3. n \in DOMAIN b /\ b[n] \in Nat
      BY <3>1, <3>2, LenProperties, ElementOfSeq
    <3>4. gone # Absent
      BY <2>2, <3>1, <3>3
    <3>5. b[n] < b[n]
      BY <3>1, <3>3, <3>4 DEF OpenFileKnown
    <3>6. QED
      BY <3>3, <3>5, SMT
  <2>4. ASSUME NEW m, NEW lm, NEW c0, Later(m, c0, lm, t, lens, ch), OpenFileAgrees(f, gone, b, t, m, lm, c0)
        PROVE  SizeAgrees(f, n, Absent, <<>>, t, m, lm, c0)
    <3>1. \A x \in Nat : Has(t[f], n, x) => ~ (x <= c0)
      BY <2>2, <2>4 DEF OpenFileAgrees
    <3>2. \A x \in Nat : ~ Has(Absent, n, x)
      BY DEF Has
    <3>3. n \notin DOMAIN <<>>
      OBVIOUS
    <3>4. QED
      BY <2>1, <3>1, <3>2, <3>3 DEF SizeAgrees
  <2>5. QED
    BY <2>1, <2>3, <2>4
<1>6. QED
  BY <1>4, <1>5

-----------------------------------------------------------------------------
(* The state of a run, as two scans that say what they saw of the tree.     *)

\* What the log of a tree is at a directory.
LEMMA LogOfDirectory ==
  ASSUME NEW m \in Trees, NEW e \in Dirs
  PROVE  /\ e \in Entries => EntryLogs(m)[e] = Cat(record(e, 0, "DIRECTORY", <<>>), LogsOf(m, Children[e]))
         /\ e = Root => LogOf(m) = LogsOf(m, Children[e]) /\ LogsOf(m, Children[e]) \in Logs
<1>1. e \notin Links /\ e \notin Files
  BY Custody16Assumption DEF Files
<1>2. ASSUME e \in AllEntries
      PROVE  EntryLogs(m)[e] =
               Cat(IF e = Root THEN <<>> ELSE record(e, 0, "DIRECTORY", <<>>), LogsOf(m, Children[e]))
  <2>1. EntryLogs(m)[e] = LogBody(m, EntryLogs(m), e)
    BY <1>2, LogsAre
  <2>2. QED
    BY <1>1, <2>1 DEF LogBody, Cat, LogsOf, MapLogs
<1>3. e \in Entries => e # Root /\ e \in AllEntries
  BY Custody16Assumption DEF AllEntries
<1>4. ASSUME e = Root
      PROVE  LogOf(m) = LogsOf(m, Children[e]) /\ LogsOf(m, Children[e]) \in Logs
  <2>1. Children[e] \in Frames
    BY Custody16Assumption DEF Frames
  <2>2. LogsOf(m, Children[e]) \in Logs
    BY <2>1, LogsOfConcat
  <2>3. EntryLogs(m)[e] = Cat(<<>>, LogsOf(m, Children[e]))
    BY <1>2, <1>4 DEF AllEntries
  <2>4. QED
    BY <1>4, <2>2, <2>3, LogOfRoot, CatEmpty DEF Logs
<1>5. QED
  BY <1>2, <1>3, <1>4

FirstLog == first[1].seen.log
FirstTree == first[1].tree
Scanning == pc \in {"scan", "count", "begin", "data"}

\* The file that is open, and the entry it is.
FileAtEntry ==
  /\ \E p \in Nat, g \in {Absent} \cup Seq(Nat), z \in Nat :
       fd = [name |-> entry, position |-> p, gone |-> g, size |-> z]
  /\ entry \in Files

\* A scan that logged g, and b of the file it is at.
InScan(g, b) ==
  /\ ctx \in Contexts
  /\ stack = <<>> => g = <<>>
  /\ pc # "data" => ctx.log = g /\ b = <<>>
  /\ pc = "data" =>
       /\ ctx.log = Cat(Cat(g, << <<"ENTR", entry, fd.size, "REGULAR">> >>), logged(b))
       /\ ctx.seen = Len(b) /\ fd.position = Len(b)
  /\ Accounts(g, Pending(stack), stack # <<>>, tree, lengths, changes)
  /\ pc \in {"count", "begin", "data"} => FileAtEntry
  /\ pc \in {"count", "data"} => OpenFileKnown(entry, fd.gone, b, tree, lengths, changes)

\* The same of the second scan, with what the first one ended with.
InSecondScan(g, b, log, m, lm, c0) ==
  /\ FirstScan(log, m, lm, c0) /\ Later(m, c0, lm, tree, lengths, changes)
  /\ Agreeing(g, Pending(stack), stack # <<>>, m, log)
  /\ pc \in {"count", "data"} => OpenFileAgrees(entry, fd.gone, b, tree, m, lm, c0)
  /\ pc = "begin" => SizeAgrees(entry, fd.size, Absent, <<>>, tree, m, lm, c0)
  /\ pc = "data" => SizeAgrees(entry, fd.size, fd.gone, b, tree, m, lm, c0)

SecondScan(g, b) == first # <<>> => \E lm, c0 : InSecondScan(g, b, FirstLog, FirstTree, lm, c0)

SealIsTrue ==
  /\ TreeKnown(tree, lengths, changes)
  /\ Scanning => \E g \in Logs, b \in Seq(Nat) : InScan(g, b) /\ SecondScan(g, b)
  /\ pc = "compare" /\ FirstLog = ctx.log => FirstLog = LogOf(FirstTree)
  /\ pc = "write" => FirstLog = LogOf(FirstTree)

\* A step to where nothing is scanned, compared or written.
LEMMA SealEnds ==
  ASSUME SealIsTrue, NEW o \in Outcomes, pc' = o, UNCHANGED <<tree, lengths, changes>>
  PROVE  SealIsTrue'
<1>1. TreeKnown(tree, lengths, changes)'
  BY DEF SealIsTrue
<1>2. pc' \notin {"scan", "count", "begin", "data", "compare", "write"}
  BY DEF Outcomes
<1>3. QED
  BY <1>1, <1>2 DEF SealIsTrue, Scanning

LEMMA EndSeals ==
  ASSUME SealIsTrue, NEW o \in Outcomes, End(o)
  PROVE  SealIsTrue'
BY SealEnds DEF End, environment

Recorded(t, lens) == \A f \in Files : Length(t[f]) \in lens[f]

\* What is logged of an entry, and what becomes pending with it.
TakenAs(e, n, k, data, l, t, lens, ch) ==
  /\ e \in Dirs => l = listing(t, e) /\ n = 0 /\ k = "DIRECTORY" /\ data = <<>>
  /\ e \notin Dirs => l = <<>>
  /\ \A i \in 1 .. Len(data) : data[i] <= ch
  /\ e \in Files => \/ n \in lens[e]
                    \/ n >= 1 /\ n = Len(data) /\ ~ Has(t[e], n, data[n])

LEMMA EntryLogged ==
  ASSUME NEW g \in Logs, NEW e \in Entries, NEW n \in Nat, NEW k \in EntryKinds, NEW data \in Seq(Nat)
  PROVE  /\ Cat(g, record(e, n, k, data)) \in Logs
         /\ Names(Cat(g, record(e, n, k, data))) = Names(g) \cup {e}
<1> DEFINE r == record(e, n, k, data)
           h == Cat(g, r)
<1>2. r \in Logs /\ Names(r) = {e}
  BY RecordItems, NamesOfRecord
<1>3. h \in Logs /\ Names(h) = Names(g) \cup {e}
  <2> HIDE DEF r
  <2>1. g \in Seq(LogItems) /\ r \in Seq(LogItems)
    BY <1>2 DEF Logs
  <2>2. h \in Seq(LogItems)
    BY <2>1, CatProperties
  <2>3. Names(h) = Names(g) \cup Names(r)
    BY <1>2, NamesOfConcat
  <2>4. QED
    BY <1>2, <2>2, <2>3 DEF Logs
<1>4. QED
  BY <1>3

\* An entry is logged, a directory with its listing before the others.
LEMMA EntryAccounted ==
  ASSUME NEW t, NEW lens, NEW ch, NEW g \in Logs, NEW e \in Entries, NEW n \in Nat, NEW k \in EntryKinds,
         NEW data \in Seq(Nat), NEW l \in Frames, NEW q \in Frames, NEW o,
         Recorded(t, lens), Accounts(g, Cat(<<e>>, q), o, t, lens, ch),
         TakenAs(e, n, k, data, l, t, lens, ch)
  PROVE  /\ Accounts(Cat(g, record(e, n, k, data)), Cat(l, q), o, t, lens, ch)
         /\ Distinct(l) /\ \A f \in Range(l) : e \in Dirs /\ f \in Range(Children[e])
<1> DEFINE r == record(e, n, k, data)
           h == Cat(g, r)
           p == Cat(<<e>>, q)
           s == Cat(l, q)
<1>3. h \in Logs /\ Names(h) = Names(g) \cup {e}
  BY EntryLogged
<1>6. /\ Distinct(l) /\ \A f \in Range(l) : e \in Dirs /\ f \in Range(Children[e])
      /\ e \in Dirs => \A f \in Range(Children[e]) \cap Files : f \in Range(l) \/ -1 \in lens[f]
  <2>1. CASE e \in Dirs
    BY <2>1, ListingIs, ListingFound DEF TakenAs, Recorded
  <2>2. CASE e \notin Dirs
    BY <2>2, OneElement DEF TakenAs
  <2>3. QED
    BY <2>1, <2>2
<1>7. Placed(g, p, o) /\ Found(g, p, o, lens) /\ OldBytes(g, ch) /\ Sized(g, t, lens)
  BY DEF Accounts
<1> HIDE DEF r, h, p, s
<1>8. Placed(h, s, o) /\ Known(h, s) = Known(g, p) \cup Range(l)
  <2>1. Placed(g, Cat(<<e>>, q), o)
    BY <1>7 DEF p
  <2>2. Names(h) = Names(g) \cup {e} /\ Distinct(l)
    BY <1>3, <1>6
  <2>3. \A f \in Range(l) : e \in Dirs /\ f \in Range(Children[e])
    BY <1>6
  <2>4. Placed(h, Cat(l, q), o)
    BY <2>1, <2>2, <2>3, PlacedStill
  <2>5. Known(h, Cat(l, q)) = Known(g, Cat(<<e>>, q)) \cup Range(l)
    BY <2>2, KnownStill
  <2>6. QED
    BY <2>4, <2>5 DEF p, s
<1>9. Found(h, s, o, lens)
  BY <1>3, <1>6, <1>7, FoundOn DEF p, s
<1>10. OldBytes(h, ch)
  BY <1>7, OldBytesMore DEF h, r, TakenAs
<1>11. Sized(h, t, lens)
  BY <1>7, SizedMore DEF h, r, TakenAs
<1>12. Accounts(h, s, o, t, lens, ch)
  BY <1>8, <1>9, <1>10, <1>11 DEF Accounts
<1>13. QED
  BY <1>6, <1>12 DEF h, r, s

LEMMA EntryAgreed ==
  ASSUME NEW t, NEW lens, NEW ch, NEW g \in Logs, NEW e \in Entries, NEW n \in Nat, NEW k \in EntryKinds,
         NEW data \in Seq(Nat), NEW l \in Frames, NEW q \in Frames,
         Recorded(t, lens), Accounts(g, Cat(<<e>>, q), TRUE, t, lens, ch),
         TakenAs(e, n, k, data, l, t, lens, ch),
         NEW log, NEW m, NEW lm, NEW c0, FirstScan(log, m, lm, c0), Later(m, c0, lm, t, lens, ch),
         Agreeing(g, Cat(<<e>>, q), TRUE, m, log),
         e \notin Dirs /\ Prefix(Cat(g, record(e, n, k, data)), log) => EntryLogs(m)[e] = record(e, n, k, data)
  PROVE  Agreeing(Cat(g, record(e, n, k, data)), Cat(l, q), TRUE, m, log)
<1> DEFINE r == record(e, n, k, data)
           h == Cat(g, r)
           p == Cat(<<e>>, q)
           s == Cat(l, q)
<1>1. log \in Logs /\ m \in Trees
  BY DEF FirstScan
<1>2. r \in Logs /\ Names(r) = {e}
  BY RecordItems, NamesOfRecord
<1>3. /\ Accounts(h, s, TRUE, t, lens, ch) /\ Known(h, s) = Known(g, p) \cup Range(l)
      /\ h \in Logs /\ Names(h) = Names(g) \cup {e}
      /\ Distinct(l) /\ \A f \in Range(l) : e \in Dirs /\ f \in Range(Children[e])
  <2> DEFINE o == TRUE
  <2> HIDE DEF o
  <2>1. Accounts(g, Cat(<<e>>, q), o, t, lens, ch)
    BY DEF o
  <2>2. Accounts(Cat(g, record(e, n, k, data)), Cat(l, q), o, t, lens, ch)
    BY <2>1, EntryAccounted
  <2>3. Cat(g, record(e, n, k, data)) \in Logs /\ Names(Cat(g, record(e, n, k, data))) = Names(g) \cup {e}
    BY EntryLogged
  <2>4. Known(Cat(g, record(e, n, k, data)), Cat(l, q)) = Known(g, Cat(<<e>>, q)) \cup Range(l)
    BY <2>3, KnownStill
  <2>5. Distinct(l) /\ \A f \in Range(l) : e \in Dirs /\ f \in Range(Children[e])
    BY <2>1, EntryAccounted
  <2>6. QED
    BY <2>2, <2>3, <2>4, <2>5 DEF o
<1>4. Placed(g, p, TRUE)
  BY DEF Accounts
<1> HIDE DEF r, h, p, s
<1>5. ASSUME Prefix(h, log)
      PROVE  EntryLogs(m)[e] = Cat(r, LogsOf(m, l)) \/ Missing(h, s, TRUE, log)
  <2>1. CASE e \in Dirs
    <3>1. e \in Names(log)
      <4>1. Prefix(Cat(g, r), log)
        BY <1>5 DEF h
      <4>2. QED
        BY <1>1, <1>2, <4>1, PrefixOf
    <3>2. Opened(e, log, TRUE) /\ Opened(e, h, TRUE)
      BY <1>3, <3>1 DEF Opened
    <3>3. \A f \in Range(Children[e]) \cap Files : f \notin Range(l) => f \notin Known(h, s)
      <4>1. e \in Range(p)
        BY NextIn DEF p
      <4>2. QED
        BY <1>3, <1>4, <2>1, <4>1, NewBelow
    <3>4. LogsOf(m, l) = LogsOf(m, Children[e]) \/ Missing(h, s, TRUE, log)
      BY <2>1, <3>2, <3>3, ListingAgrees DEF TakenAs, Recorded
    <3>5. r = record(e, 0, "DIRECTORY", <<>>)
      BY <2>1 DEF r, TakenAs
    <3>6. EntryLogs(m)[e] = Cat(r, LogsOf(m, Children[e]))
      BY <1>1, <2>1, <3>5, LogOfDirectory
    <3>7. QED
      BY <3>4, <3>6
  <2>2. CASE e \notin Dirs
    <3>1. EntryLogs(m)[e] = r
      BY <1>5, <2>2 DEF r, h
    <3>2. LogsOf(m, l) = <<>>
      BY <1>1, <2>2, LogsOfOne DEF TakenAs
    <3>3. Cat(r, <<>>) = r
      BY <1>2, CatEmpty DEF Logs
    <3>4. QED
      BY <3>1, <3>2, <3>3
  <2>3. QED
    BY <2>1, <2>2
<1>6. Placed(g, Cat(<<e>>, q), TRUE) /\ Agreeing(g, Cat(<<e>>, q), TRUE, m, log)
  BY <1>4 DEF p
<1>7. Prefix(Cat(g, r), log) =>
        EntryLogs(m)[e] = Cat(r, LogsOf(m, l)) \/ Missing(Cat(g, r), Cat(l, q), TRUE, log)
  BY <1>5 DEF h, s
<1>8. Distinct(l) /\ \A f \in Range(l) : e \in Dirs /\ f \in Range(Children[e])
  BY <1>3
<1>9. Agreeing(Cat(g, r), Cat(l, q), TRUE, m, log)
  BY <1>1, <1>2, <1>6, <1>7, <1>8, AgreeOn
<1>10. QED
  BY <1>9 DEF r

\* The second scan logs of an entry what the tree has that the first ended with.
SeenAgain(g, b, e, n, k, data) ==
  \A lm, c0 : InSecondScan(g, b, FirstLog, FirstTree, lm, c0) /\ e \notin Dirs
              /\ Prefix(Cat(g, record(e, n, k, data)), FirstLog)
              => EntryLogs(FirstTree)[e] = record(e, n, k, data)

\* The next entry is logged: a directory with its listing before the others,
\* or another entry with its bytes.
LEMMA EntryTaken ==
  ASSUME SealIsTrue, CustodyPlaces, stack # <<>>, Head(stack) # <<>>,
         NEW g \in Logs, NEW b \in Seq(Nat), InScan(g, b), SecondScan(g, b),
         NEW e, e = entry, NEW n \in Nat, NEW k \in EntryKinds, NEW data \in Seq(Nat), NEW l \in Frames,
         UNCHANGED <<tree, lengths, changes, first>>, pc' = "scan",
         ctx' \in Contexts, ctx'.log = Cat(g, record(e, n, k, data)),
         stack' # <<>>, Pending(stack') = Cat(l, Pending(others)),
         TakenAs(e, n, k, data, l, tree, lengths, changes), SeenAgain(g, b, e, n, k, data)
  PROVE  SealIsTrue'
<1> DEFINE r == record(e, n, k, data)
           h == Cat(g, r)
           q == Pending(others)
           p == Cat(<<e>>, q)
           s == Cat(l, q)
           m == FirstTree
           log == FirstLog
<1>1. e \in Entries /\ q \in Frames /\ Pending(stack) = p
  <2>1. NextEntry(stack) = e /\ Rest(stack) = others
    BY DEF NextEntry, Rest, entry, others
  <2>2. stack \in Seq(Frames)
    BY DEF CustodyPlaces
  <2>3. QED
    BY <2>1, <2>2, PendingEntry
<1>2. Accounts(g, p, TRUE, tree, lengths, changes)
  BY <1>1 DEF InScan
<1>3. Recorded(tree, lengths)
  BY DEF SealIsTrue, TreeKnown, Recorded
<1>a. ctx'.log = h /\ Pending(stack') = s
  OBVIOUS
<1>12. Accounts(h, s, TRUE, tree, lengths, changes) /\ h \in Logs
  BY <1>1, <1>2, <1>3, EntryAccounted, EntryLogged
<1>13. ASSUME NEW lm, NEW c0, InSecondScan(g, b, log, m, lm, c0)
       PROVE  Agreeing(h, s, TRUE, m, log)
  <2>1. FirstScan(log, m, lm, c0) /\ Later(m, c0, lm, tree, lengths, changes) /\ Agreeing(g, p, TRUE, m, log)
    BY <1>1, <1>13 DEF InSecondScan
  <2>2. e \notin Dirs /\ Prefix(h, log) => EntryLogs(m)[e] = r
    BY <1>13 DEF SeenAgain
  <2> HIDE DEF m, log
  <2>3. QED
    BY <1>1, <1>2, <1>3, <2>1, <2>2, EntryAgreed
<1> HIDE DEF r, h, q, p, s, m, log
<1>14. InScan(h, <<>>)'
  <2>1. Accounts(h, Pending(stack'), TRUE, tree', lengths', changes')
    BY <1>12, <1>a
  <2>2. pc' \notin {"data", "count", "begin"} /\ (stack' # <<>>) = TRUE
    OBVIOUS
  <2>3. ctx' \in Contexts /\ ctx'.log = h
    BY <1>a
  <2> HIDE DEF Accounts
  <2>4. Accounts(h, Pending(stack'), stack' # <<>>, tree', lengths', changes')
    BY <2>1, <2>2
  <2>5. QED
    BY <2>2, <2>3, <2>4 DEF InScan
<1>15. SecondScan(h, <<>>)'
  <2>1. SUFFICES ASSUME first # <<>> PROVE (\E lm, c0 : InSecondScan(h, <<>>, FirstLog, FirstTree, lm, c0))'
    BY DEF SecondScan
  <2>2. PICK lm, c0 : InSecondScan(g, b, log, m, lm, c0)
    BY <2>1 DEF SecondScan, m, log
  <2>3. FirstScan(log, m, lm, c0) /\ Later(m, c0, lm, tree, lengths, changes) /\ Agreeing(h, s, TRUE, m, log)
    BY <1>13, <2>2 DEF InSecondScan
  <2>4. FirstLog' = log /\ FirstTree' = m
    BY DEF FirstLog, FirstTree, m, log
  <2>5. InSecondScan(h, <<>>, FirstLog, FirstTree, lm, c0)'
    <3>1. pc' \notin {"data", "count", "begin"} /\ (stack' # <<>>) = TRUE
      OBVIOUS
    <3>2. Agreeing(h, Pending(stack'), stack' # <<>>, FirstTree', FirstLog')
      BY <1>a, <2>3, <2>4, <3>1
    <3>3. FirstScan(FirstLog', FirstTree', lm, c0) /\ Later(FirstTree', c0, lm, tree', lengths', changes')
      BY <2>3, <2>4
    <3>4. QED
      BY <3>1, <3>2, <3>3 DEF InSecondScan
  <2>6. QED
    BY <2>5
<1>16. <<>> \in Seq(Nat)
  BY EmptySeq
<1>17. TreeKnown(tree, lengths, changes)'
  BY DEF SealIsTrue
<1>18. (\E g1 \in Logs, b1 \in Seq(Nat) : InScan(g1, b1) /\ SecondScan(g1, b1))'
  BY <1>12, <1>14, <1>15, <1>16
<1>19. pc' \notin {"compare", "write"}
  OBVIOUS
<1>20. QED
  BY <1>17, <1>18, <1>19 DEF SealIsTrue

\* An entry is closed: the log has its record.
LEMMA ClosedLog ==
  ASSUME NEW c \in Contexts, NEW g \in Logs, NEW b \in Seq(Nat), NEW e \in Entries, NEW n \in Nat,
         NEW k \in EntryKinds, c.log = Cat(Cat(g, << <<"ENTR", e, n, k>> >>), logged(b)), c.seen = n
  PROVE  rmr_fc16_entry_end(c, e) \in Contexts /\ rmr_fc16_entry_end(c, e).log = Cat(g, record(e, n, k, b))
<1> DEFINE x == << <<"ENTR", e, n, k>> >>
           y == << <<"ENDR", e, n>> >>
           l == logged(b)
           r == record(e, n, k, b)
           d == rmr_fc16_entry_end(c, e)
<1>1. d \in Contexts /\ d.log = Cat(c.log, y)
  BY EndContext
<1>2. r = Cat(Cat(x, l), y) /\ x \in Seq(LogItems) /\ y \in Seq(LogItems) /\ Cat(x, l) \in Seq(LogItems)
  BY RecordType DEF Logs
<1>3. l \in Seq(LogItems) /\ g \in Seq(LogItems)
  BY LoggedType DEF Logs
<1>4. c.log = Cat(Cat(g, x), l)
  OBVIOUS
<1> HIDE DEF x, y, l, r, d
<1>5. Cat(Cat(g, x), l) = Cat(g, Cat(x, l))
  BY <1>2, <1>3, CatAssociative
<1>6. Cat(Cat(g, Cat(x, l)), y) = Cat(g, Cat(Cat(x, l), y))
  BY <1>2, <1>3, CatAssociative
<1>7. QED
  BY <1>1, <1>2, <1>4, <1>5, <1>6 DEF d, r

\* An entry without data.
LEMMA BareLog ==
  ASSUME NEW c \in Contexts, NEW e \in Entries, NEW k \in EntryKinds
  PROVE  Taken(c, e, 0, k) \in Contexts /\ Taken(c, e, 0, k).log = Cat(c.log, record(e, 0, k, <<>>))
<1>0. PICK n \in Nat, b \in Seq(Nat) : n = 0 /\ b = <<>>
  BY EmptySeq
<1> DEFINE d == rmr_fc16_entry_begin(c, e, n, k)
           x == << <<"ENTR", e, n, k>> >>
           g == c.log
<1>1. d \in Contexts /\ d.seen = n /\ d.log = Cat(g, x)
  BY <1>0, BeginContext
<1>2. g \in Logs /\ x \in Logs /\ <<>> \in Seq(Nat)
  <2>1. <<>> \in Seq(Nat)
    BY EmptySeq
  <2>2. x \in Logs
    BY <1>0, <2>1, RecordType
  <2>3. QED
    BY <2>1, <2>2 DEF Contexts, Logs
<1> HIDE DEF x, g, d
<1>3. Cat(g, x) \in Seq(LogItems)
  BY <1>2, CatProperties DEF Logs
<1>4. d.log = Cat(Cat(g, x), logged(b))
  BY <1>1, <1>3, <1>0, CatEmpty, LoggedNothing
<1>5. d.log = Cat(Cat(g, << <<"ENTR", e, n, k>> >>), logged(b))
  BY <1>4 DEF x
<1>6. rmr_fc16_entry_end(d, e) \in Contexts /\ rmr_fc16_entry_end(d, e).log = Cat(g, record(e, n, k, b))
  BY <1>1, <1>2, <1>5, ClosedLog
<1>7. Taken(c, e, 0, k) = rmr_fc16_entry_end(d, e)
  BY <1>0 DEF Taken, d
<1>8. QED
  BY <1>0, <1>6, <1>7 DEF g

\* What is on the stack above the lists of the directories outside.
LEMMA StackedOn ==
  ASSUME NEW l \in Frames, NEW st \in Seq(Frames)
  PROVE  <<l>> \o st # <<>> /\ Pending(<<l>> \o st) = Cat(l, Pending(st)) /\ <<l>> \o st \in Seq(Frames)
<1>1. Pending(<<l>> \o st) = Cat(l, Pending(st))
  BY PendingOf
<1> HIDE DEF Frames
<1>2. <<l>> \in Seq(Frames) /\ Len(<<l>>) = 1
  <2>1. <<l>> \in Seq(Frames)
    BY SMT
  <2>2. Len(<<l>>) = 1
    OBVIOUS
  <2>3. QED
    BY <2>1, <2>2
<1> DEFINE u == <<l>>
<1> HIDE DEF u
<1>3. u \o st \in Seq(Frames) /\ Len(u \o st) = Len(u) + Len(st)
  BY <1>2, ConcatProperties DEF u
<1>4. Len(u \o st) > 0
  <2>1. Len(u) = 1 /\ Len(st) \in Nat
    BY <1>2, LenProperties DEF u
  <2>2. QED
    BY <1>3, <2>1, SMT
<1>5. Len(<<>>) = 0 /\ ~ (0 > 0)
  BY SMT
<1>6. u \o st # <<>>
  BY <1>4, <1>5
<1>7. QED
  BY <1>1, <1>3, <1>6 DEF u

LEMMA RestNotEmpty ==
  ASSUME stack \in Seq(Frames), stack # <<>>, Head(stack) # <<>>
  PROVE  others # <<>>
<1> DEFINE t == Tail(Head(stack))
           r == Tail(stack)
<1>1. t \in Frames /\ r \in Seq(Frames)
  <2>1. Head(stack) \in Seq(Entries) /\ Tail(stack) \in Seq(Frames)
    BY StackHead DEF Frames
  <2> DEFINE h == Head(stack)
  <2> HIDE DEF h
  <2>2. h \in Seq(Entries) /\ h # <<>>
    BY <2>1 DEF h
  <2>3. Tail(h) \in Seq(Entries)
    BY <2>2, HeadTailProperties
  <2>4. QED
    BY <2>1, <2>3 DEF h, Frames
<1>2. others = <<t>> \o r
  BY DEF others
<1> HIDE DEF t, r
<1>3. QED
  BY <1>1, <1>2, StackedOn

\* Where a scan that is at an entry is.
LEMMA AtAnEntry ==
  ASSUME SealIsTrue, CustodyPlaces, pc = "scan", stack # <<>>, Head(stack) # <<>>
  PROVE  /\ entry \in Entries /\ others \in Seq(Frames) /\ others # <<>> /\ Pending(others) \in Frames
         /\ \E g \in Logs : /\ InScan(g, <<>>) /\ SecondScan(g, <<>>) /\ ctx \in Contexts /\ ctx.log = g
<1>1. stack \in Seq(Frames)
  BY DEF CustodyPlaces
<1>2. NextEntry(stack) = entry /\ Rest(stack) = others
  BY DEF NextEntry, Rest, entry, others
<1>3. entry \in Entries /\ others \in Seq(Frames) /\ Pending(others) \in Frames
  BY <1>1, <1>2, PendingEntry
<1>4. others # <<>>
  BY <1>1, RestNotEmpty
<1>5. PICK g \in Logs, b \in Seq(Nat) : InScan(g, b) /\ SecondScan(g, b)
  BY DEF SealIsTrue, Scanning
<1>6. b = <<>> /\ ctx \in Contexts /\ ctx.log = g
  BY <1>5 DEF InScan
<1>7. QED
  BY <1>3, <1>4, <1>5, <1>6

LEMMA SkipLinkSeals ==
  ASSUME SealIsTrue, CustodyPlaces, SkipLink
  PROVE  SealIsTrue'
<1>1. /\ pc = "scan" /\ stack # <<>> /\ Head(stack) # <<>> /\ entry \in Links
      /\ ctx' = bare("SYMLINK_SKIPPED") /\ stack' = others /\ UNCHANGED <<tree, lengths, changes, pc, first>>
  BY DEF SkipLink, AtEntry, environment
<1>2. PICK g \in Logs : InScan(g, <<>>) /\ SecondScan(g, <<>>) /\ ctx \in Contexts /\ ctx.log = g
  BY <1>1, AtAnEntry
<1>3. entry \in Entries /\ others # <<>> /\ Pending(others) \in Frames
  BY <1>1, AtAnEntry
<1>4. PICK e \in Entries : e = entry
  BY <1>3
<1>5. e \in Links /\ e \notin Dirs /\ e \notin Files /\ "SYMLINK_SKIPPED" \in EntryKinds
  BY <1>1, <1>4, Custody16Assumption DEF Files, EntryKinds
<1>6. ctx' = Taken(ctx, e, 0, "SYMLINK_SKIPPED")
  BY <1>1, <1>4 DEF bare, Taken
<1>7. ctx' \in Contexts /\ ctx'.log = Cat(g, record(e, 0, "SYMLINK_SKIPPED", <<>>))
  BY <1>2, <1>5, <1>6, BareLog
<1>8. <<>> \in Seq(Nat) /\ <<>> \in Frames /\ 0 \in Nat
  BY EmptySeq DEF Frames
<1>9. Pending(stack') = Cat(<<>>, Pending(others))
  BY <1>1, <1>3, CatEmpty DEF Frames
<1>10. TakenAs(e, 0, "SYMLINK_SKIPPED", <<>>, <<>>, tree, lengths, changes)
  <2>1. 1 .. Len(<<>>) = {}
    BY SMT
  <2>2. QED
    BY <1>5, <2>1 DEF TakenAs
<1>11. ASSUME NEW m
       PROVE  EntryLogs(m)[e] = record(e, 0, "SYMLINK_SKIPPED", <<>>)
  BY <1>5, LogsAre DEF LogBody, AllEntries
<1>12. SeenAgain(g, <<>>, e, 0, "SYMLINK_SKIPPED", <<>>)
  BY <1>11 DEF SeenAgain
<1>13. QED
  BY <1>1, <1>2, <1>3, <1>4, <1>5, <1>7, <1>8, <1>9, <1>10, <1>12, EntryTaken

LEMMA EnterDirectorySeals ==
  ASSUME SealIsTrue, CustodyPlaces, EnterDirectory
  PROVE  SealIsTrue'
<1>1. pc = "scan" /\ stack # <<>> /\ Head(stack) # <<>> /\ entry \in Dirs /\ scan_dir(entry, others, bare("DIRECTORY"))
  BY DEF EnterDirectory, AtEntry
<1>2. CASE End("ERR_CAPACITY")
  BY <1>2, EndSeals DEF Outcomes
<1>3. CASE ~ End("ERR_CAPACITY")
  <2>1. /\ stack' = <<listing(tree, entry)>> \o others /\ ctx' = bare("DIRECTORY")
        /\ UNCHANGED <<tree, lengths, changes, pc, first>>
    BY <1>1, <1>3, ListedOfTree DEF scan_dir, environment
  <2>2. PICK g \in Logs : InScan(g, <<>>) /\ SecondScan(g, <<>>) /\ ctx \in Contexts /\ ctx.log = g
    BY <1>1, AtAnEntry
  <2>3. entry \in Entries /\ others \in Seq(Frames)
    BY <1>1, AtAnEntry
  <2>4. PICK e \in Entries : e = entry
    BY <2>3
  <2>5. e \in Dirs /\ e \notin Files /\ "DIRECTORY" \in EntryKinds
    BY <1>1, <2>4 DEF Files, EntryKinds
  <2>6. ctx' = Taken(ctx, e, 0, "DIRECTORY")
    BY <2>1, <2>4 DEF bare, Taken
  <2>7. ctx' \in Contexts /\ ctx'.log = Cat(g, record(e, 0, "DIRECTORY", <<>>))
    BY <2>2, <2>5, <2>6, BareLog
  <2>8. PICK l \in Frames : l = listing(tree, e)
    BY <2>5, ListedType, ListedOfTree
  <2>9. stack' = <<l>> \o others
    BY <2>1, <2>4, <2>8
  <2>10. stack' # <<>> /\ Pending(stack') = Cat(l, Pending(others))
    BY <2>3, <2>9, StackedOn
  <2>11. <<>> \in Seq(Nat) /\ 0 \in Nat
    BY EmptySeq
  <2>12. TakenAs(e, 0, "DIRECTORY", <<>>, l, tree, lengths, changes)
    <3>1. 1 .. Len(<<>>) = {}
      BY SMT
    <3>2. QED
      BY <2>5, <2>8, <3>1 DEF TakenAs
  <2>13. SeenAgain(g, <<>>, e, 0, "DIRECTORY", <<>>)
    BY <2>5 DEF SeenAgain
  <2>14. QED
    BY <1>1, <2>1, <2>2, <2>4, <2>5, <2>7, <2>10, <2>11, <2>12, <2>13, EntryTaken
<1>4. QED
  BY <1>2, <1>3

\* A scan that goes on.
LEMMA ScanOn ==
  ASSUME SealIsTrue, UNCHANGED <<tree, lengths, changes>>, pc' \in {"scan", "count", "begin", "data"},
         NEW g \in Logs, NEW b \in Seq(Nat), InScan(g, b)', SecondScan(g, b)'
  PROVE  SealIsTrue'
<1>1. TreeKnown(tree, lengths, changes)'
  BY DEF SealIsTrue
<1>2. (\E h \in Logs, c \in Seq(Nat) : InScan(h, c) /\ SecondScan(h, c))'
  OBVIOUS
<1>3. pc' \notin {"compare", "write"}
  OBVIOUS
<1>4. QED
  BY <1>1, <1>2, <1>3 DEF SealIsTrue

\* What the next step of a scan at a file has to say of it in the second scan.
SeenSame(g, b, e, gone, c, z, at) ==
  \A lm, c0 : InSecondScan(g, b, FirstLog, FirstTree, lm, c0) =>
    /\ at \in {"count", "data"} => OpenFileAgrees(e, gone, c, tree, FirstTree, lm, c0)
    /\ at = "begin" => SizeAgrees(e, z, Absent, <<>>, tree, FirstTree, lm, c0)
    /\ at = "data" => SizeAgrees(e, z, gone, c, tree, FirstTree, lm, c0)

LEMMA FileScanOn ==
  ASSUME SealIsTrue, NEW g \in Logs, NEW b \in Seq(Nat), InScan(g, b), SecondScan(g, b),
         UNCHANGED <<tree, lengths, changes, stack, first>>, pc' \in {"count", "begin", "data"}, stack # <<>>,
         NEW e, e = entry, e \in Files, NEW c \in Seq(Nat),
         NEW p \in Nat, NEW gone \in {Absent} \cup Seq(Nat), NEW z \in Nat,
         fd' = [name |-> e, position |-> p, gone |-> gone, size |-> z], ctx' \in Contexts,
         pc' # "data" => ctx'.log = g /\ c = <<>>,
         pc' = "data" => /\ ctx'.log = Cat(Cat(g, << <<"ENTR", e, z, "REGULAR">> >>), logged(c))
                         /\ ctx'.seen = Len(c) /\ p = Len(c),
         pc' # "begin" => OpenFileKnown(e, gone, c, tree, lengths, changes),
         SeenSame(g, b, e, gone, c, z, pc')
  PROVE  SealIsTrue'
<1>1. entry' = e
  BY DEF entry
<1>2. fd'.gone = gone /\ fd'.size = z /\ fd'.position = p
  OBVIOUS
<1>3. FileAtEntry'
  BY <1>1 DEF FileAtEntry
<1>4. Accounts(g, Pending(stack'), stack' # <<>>, tree', lengths', changes')
  <2>1. Accounts(g, Pending(stack), stack # <<>>, tree, lengths, changes)
    BY DEF InScan
  <2>2. QED
    BY <2>1
<1>5. InScan(g, c)'
  <2>1. pc' \in {"count", "data"} => OpenFileKnown(entry', fd'.gone, c, tree', lengths', changes')
    BY <1>1, <1>2
  <2>2. pc' = "data" => /\ ctx'.log = Cat(Cat(g, << <<"ENTR", entry', fd'.size, "REGULAR">> >>), logged(c))
                        /\ ctx'.seen = Len(c) /\ fd'.position = Len(c)
    BY <1>1, <1>2
  <2>3. QED
    BY <1>3, <1>4, <2>1, <2>2 DEF InScan
<1>6. ASSUME first # <<>>
      PROVE  (\E lm, c0 : InSecondScan(g, c, FirstLog, FirstTree, lm, c0))'
  <2>1. PICK lm, c0 : InSecondScan(g, b, FirstLog, FirstTree, lm, c0)
    BY <1>6 DEF SecondScan
  <2>2. FirstLog' = FirstLog /\ FirstTree' = FirstTree
    BY DEF FirstLog, FirstTree
  <2>3. FirstScan(FirstLog', FirstTree', lm, c0) /\ Later(FirstTree', c0, lm, tree', lengths', changes')
    BY <2>1, <2>2 DEF InSecondScan
  <2>4. Agreeing(g, Pending(stack'), stack' # <<>>, FirstTree', FirstLog')
    <3>1. Agreeing(g, Pending(stack), stack # <<>>, FirstTree, FirstLog)
      BY <2>1 DEF InSecondScan
    <3>2. QED
      BY <2>2, <3>1
  <2>5. /\ pc' \in {"count", "data"} => OpenFileAgrees(e, gone, c, tree, FirstTree, lm, c0)
        /\ pc' = "begin" => SizeAgrees(e, z, Absent, <<>>, tree, FirstTree, lm, c0)
        /\ pc' = "data" => SizeAgrees(e, z, gone, c, tree, FirstTree, lm, c0)
    BY <2>1 DEF SeenSame
  <2>6. /\ pc' \in {"count", "data"} => OpenFileAgrees(entry', fd'.gone, c, tree', FirstTree', lm, c0)
        /\ pc' = "begin" => SizeAgrees(entry', fd'.size, Absent, <<>>, tree', FirstTree', lm, c0)
        /\ pc' = "data" => SizeAgrees(entry', fd'.size, fd'.gone, c, tree', FirstTree', lm, c0)
    BY <1>1, <1>2, <2>2, <2>5
  <2>7. InSecondScan(g, c, FirstLog, FirstTree, lm, c0)'
    BY <2>3, <2>4, <2>6 DEF InSecondScan
  <2>8. QED
    BY <2>7
<1>7. SecondScan(g, c)'
  BY <1>6 DEF SecondScan
<1>8. QED
  BY <1>5, <1>7, ScanOn

\* The file that was just opened or is not yet open.
LEMMA FreshFile ==
  ASSUME NEW e, NEW t, NEW lens, NEW ch, t[e] # Absent
  PROVE  /\ OpenFileKnown(e, Absent, <<>>, t, lens, ch)
         /\ \A m, lm, c0 : OpenFileAgrees(e, Absent, <<>>, t, m, lm, c0)
<1>1. DOMAIN <<>> = {}
  OBVIOUS
<1>2. OpenFileKnown(e, Absent, <<>>, t, lens, ch)
  BY <1>1 DEF OpenFileKnown
<1>3. ASSUME NEW m, NEW lm, NEW c0
      PROVE  OpenFileAgrees(e, Absent, <<>>, t, m, lm, c0)
  BY <1>1 DEF OpenFileAgrees
<1>4. QED
  BY <1>2, <1>3

LEMMA StatFileSeals ==
  ASSUME SealIsTrue, CustodyPlaces, StatFile
  PROVE  SealIsTrue'
<1>1. CASE tree[entry] = Absent
  <2>1. End("ERR_STATE")
    BY <1>1 DEF StatFile
  <2>2. QED
    BY <2>1, EndSeals DEF Outcomes
<1>2. CASE tree[entry] # Absent
  <2>1. /\ pc = "scan" /\ stack # <<>> /\ Head(stack) # <<>> /\ entry \in Files
        /\ pc' = IF statx THEN "begin" ELSE "count"
        /\ fd' = [NoFile EXCEPT !.name = entry, !.size = IF statx THEN Len(tree[entry]) ELSE 0]
        /\ UNCHANGED <<tree, lengths, changes, stack, ctx, first>>
    BY <1>2 DEF StatFile, AtEntry, environment
  <2>2. PICK g \in Logs : InScan(g, <<>>) /\ SecondScan(g, <<>>) /\ ctx \in Contexts /\ ctx.log = g
    BY <2>1, AtAnEntry
  <2>3. PICK e \in Files : e = entry
    BY <2>1
  <2>4. tree[e] \in Seq(Nat) /\ tree[e] # Absent
    BY <1>2, <2>3 DEF CustodyPlaces
  <2>5. Len(tree[e]) \in Nat /\ Length(tree[e]) = Len(tree[e])
    BY <2>4, LenProperties DEF Length
  <2>6. PICK z \in Nat : z = IF statx THEN Len(tree[e]) ELSE 0
    BY <2>5
  <2>7. fd' = [name |-> e, position |-> 0, gone |-> Absent, size |-> z]
    BY <2>1, <2>3, <2>6 DEF NoFile
  <2>8. OpenFileKnown(e, Absent, <<>>, tree, lengths, changes)
    BY <2>4, FreshFile
  <2>9. SeenSame(g, <<>>, e, Absent, <<>>, z, pc')
    <3>1. SUFFICES ASSUME NEW lm, NEW c0, InSecondScan(g, <<>>, FirstLog, FirstTree, lm, c0)
                   PROVE  /\ OpenFileAgrees(e, Absent, <<>>, tree, FirstTree, lm, c0)
                          /\ pc' = "begin" => SizeAgrees(e, z, Absent, <<>>, tree, FirstTree, lm, c0)
                          /\ pc' # "data"
      BY DEF SeenSame
    <3>2. OpenFileAgrees(e, Absent, <<>>, tree, FirstTree, lm, c0)
      BY <2>4, FreshFile
    <3>3. Later(FirstTree, c0, lm, tree, lengths, changes)
      BY <3>1 DEF InSecondScan
    <3>4. pc' = "begin" => z = Length(tree[e])
      BY <2>1, <2>5, <2>6
    <3>5. Length(tree[e]) \in lm[e] => Length(tree[e]) = Length(FirstTree[e])
      BY <3>3 DEF Later
    <3>6. pc' = "begin" => SizeAgrees(e, z, Absent, <<>>, tree, FirstTree, lm, c0)
      BY <3>4, <3>5 DEF SizeAgrees
    <3>7. QED
      BY <2>1, <3>2, <3>6
  <2>10. <<>> \in Seq(Nat) /\ 0 \in Nat /\ Absent \in {Absent} \cup Seq(Nat)
    BY EmptySeq
  <2>11. ctx' \in Contexts /\ ctx'.log = g /\ pc' \in {"begin", "count"}
    BY <2>1, <2>2
  <2>12. QED
    BY <2>1, <2>2, <2>3, <2>7, <2>8, <2>9, <2>10, <2>11, FileScanOn
<1>3. QED
  BY <1>1, <1>2

\* The open file, its bytes, and how a scan is at it.
LEMMA AtAFile ==
  ASSUME SealIsTrue, CustodyPlaces, pc \in {"count", "begin", "data"}
  PROVE  /\ stack # <<>> /\ Head(stack) # <<>>
         /\ \E g \in Logs, b \in Seq(Nat), e \in Files, p \in Nat, gone \in {Absent} \cup Seq(Nat), z \in Nat :
              /\ InScan(g, b) /\ SecondScan(g, b) /\ ctx \in Contexts
              /\ e = entry /\ fd = [name |-> e, position |-> p, gone |-> gone, size |-> z]
              /\ fd.position = p /\ fd.gone = gone /\ fd.size = z /\ fd.name = e
              /\ content = OpenBytes(e, gone, tree)
<1>1. stack # <<>> /\ Head(stack) # <<>>
  BY DEF CustodyPlaces
<1>2. PICK g \in Logs, b \in Seq(Nat) : InScan(g, b) /\ SecondScan(g, b)
  BY DEF SealIsTrue, Scanning
<1>3. FileAtEntry /\ ctx \in Contexts
  BY <1>2 DEF InScan
<1>4. PICK e \in Files : e = entry
  BY <1>3 DEF FileAtEntry
<1>5. PICK p \in Nat, gone \in {Absent} \cup Seq(Nat), z \in Nat :
        fd = [name |-> e, position |-> p, gone |-> gone, size |-> z]
  BY <1>3, <1>4 DEF FileAtEntry
<1>6. fd.position = p /\ fd.gone = gone /\ fd.size = z /\ fd.name = e
  BY <1>5
<1>7. content = OpenBytes(e, gone, tree)
  BY <1>6 DEF content, OpenBytes
<1>8. QED
  BY <1>1, <1>2, <1>3, <1>4, <1>5, <1>6, <1>7

LEMMA CountFileSeals ==
  ASSUME SealIsTrue, CustodyPlaces, CountFile
  PROVE  SealIsTrue'
<1>1. /\ pc = "count" /\ pc' \in {"count", "begin"}
      /\ UNCHANGED <<tree, lengths, changes, stack, ctx, first>>
  BY DEF CountFile, environment
<1>2. PICK g \in Logs, b \in Seq(Nat), e \in Files, p \in Nat, gone \in {Absent} \cup Seq(Nat), z \in Nat :
        /\ InScan(g, b) /\ SecondScan(g, b) /\ ctx \in Contexts
        /\ e = entry /\ fd = [name |-> e, position |-> p, gone |-> gone, size |-> z]
        /\ fd.position = p /\ fd.gone = gone /\ fd.size = z /\ fd.name = e
        /\ content = OpenBytes(e, gone, tree)
  BY <1>1, AtAFile
<1>3. stack # <<>>
  BY <1>1, AtAFile
<1>4. b = <<>> /\ ctx.log = g /\ OpenFileKnown(e, gone, b, tree, lengths, changes)
  BY <1>1, <1>2 DEF InScan
<1>5. TreeKnown(tree, lengths, changes)
  BY DEF SealIsTrue
<1>6. Len(content) \in Nat
  BY <1>2, <1>4, <1>5, OpenBytesAre
<1>7. ctx' \in Contexts /\ ctx'.log = g
  BY <1>1, <1>2, <1>4
<1>8. <<>> \in Seq(Nat) /\ 0 \in Nat /\ Absent \in {Absent} \cup Seq(Nat)
  BY EmptySeq
<1>9. CASE left <= 0
  <2>1. pc' = "begin" /\ fd' = [name |-> e, position |-> 0, gone |-> Absent, size |-> p]
    BY <1>2, <1>9 DEF CountFile, NoFile
  <2>2. ~ (Len(content) > p)
    BY <1>2, <1>6, <1>9, SMT DEF left
  <2>3. SeenSame(g, b, e, Absent, <<>>, p, pc')
    <3>1. SUFFICES ASSUME NEW lm, NEW c0, InSecondScan(g, b, FirstLog, FirstTree, lm, c0)
                   PROVE  SizeAgrees(e, p, Absent, <<>>, tree, FirstTree, lm, c0)
      BY <2>1 DEF SeenSame
    <3>2. Later(FirstTree, c0, lm, tree, lengths, changes)
      BY <3>1 DEF InSecondScan
    <3>3. OpenFileAgrees(e, gone, b, tree, FirstTree, lm, c0)
      BY <1>1, <1>2, <3>1 DEF InSecondScan
    <3>4. ~ (Len(OpenBytes(e, gone, tree)) > p)
      BY <1>2, <2>2
    <3>5. QED
      BY <1>2, <1>4, <1>5, <3>2, <3>3, <3>4, EndFound
  <2>4. QED
    BY <1>1, <1>2, <1>3, <1>7, <1>8, <2>1, <2>3, FileScanOn
<1>10. CASE ~ (left <= 0)
  <2>1. PICK k \in 1 .. IoBytes : k <= left /\ fd' = [fd EXCEPT !.position = fd.position + k]
    BY <1>10 DEF CountFile
  <2>2. pc' = "count"
    BY <1>1, <1>10 DEF CountFile
  <2>3. p + k \in Nat
    BY <2>1, Custody16Assumption, SMT
  <2>4. fd' = [fd EXCEPT !.position = p + k]
    BY <1>2, <2>1
  <2>5. fd' = [name |-> e, position |-> p + k, gone |-> gone, size |-> z]
    BY <1>2, <2>4, Repositioned
  <2>6. SeenSame(g, b, e, gone, b, z, pc')
    <3>1. SUFFICES ASSUME NEW lm, NEW c0, InSecondScan(g, b, FirstLog, FirstTree, lm, c0)
                   PROVE  OpenFileAgrees(e, gone, b, tree, FirstTree, lm, c0)
      BY <2>2 DEF SeenSame
    <3>2. QED
      BY <1>1, <1>2, <3>1 DEF InSecondScan
  <2>7. PICK q \in Nat : q = p + k
    BY <2>3
  <2>8. fd' = [name |-> e, position |-> q, gone |-> gone, size |-> z]
    BY <2>5, <2>7
  <2>9. QED
    BY <1>1, <1>2, <1>3, <1>4, <1>7, <2>2, <2>6, <2>8, FileScanOn
<1>11. QED
  BY <1>9, <1>10

LEMMA BeginFileSeals ==
  ASSUME SealIsTrue, CustodyPlaces, BeginFile
  PROVE  SealIsTrue'
<1>1. CASE tree[fd.name] = Absent
  <2>1. End("ERR_STATE")
    BY <1>1 DEF BeginFile
  <2>2. QED
    BY <2>1, EndSeals DEF Outcomes
<1>2. CASE tree[fd.name] # Absent
  <2>1. /\ pc = "begin" /\ pc' = "data"
        /\ fd' = [fd EXCEPT !.position = 0, !.gone = Absent]
        /\ ctx' = rmr_fc16_entry_begin(ctx, fd.name, fd.size, "REGULAR")
        /\ UNCHANGED <<tree, lengths, changes, stack, first>>
    BY <1>2 DEF BeginFile, environment
  <2>2. PICK g \in Logs, b \in Seq(Nat), e \in Files, p \in Nat, gone \in {Absent} \cup Seq(Nat), z \in Nat :
          /\ InScan(g, b) /\ SecondScan(g, b) /\ ctx \in Contexts
          /\ e = entry /\ fd = [name |-> e, position |-> p, gone |-> gone, size |-> z]
          /\ fd.position = p /\ fd.gone = gone /\ fd.size = z /\ fd.name = e
          /\ content = OpenBytes(e, gone, tree)
    BY <2>1, AtAFile
  <2>3. stack # <<>>
    BY <2>1, AtAFile
  <2>4. ctx.log = g /\ tree[e] # Absent
    BY <1>2, <2>1, <2>2 DEF InScan
  <2>5. fd' = [name |-> e, position |-> 0, gone |-> Absent, size |-> z]
    BY <2>1, <2>2, Reopened
  <2>6. e \in Entries /\ "REGULAR" \in EntryKinds
    BY <2>2 DEF Files, EntryKinds
  <2>7. PICK d : d = << <<"ENTR", e, z, "REGULAR">> >>
    OBVIOUS
  <2>8. ctx' = rmr_fc16_entry_begin(ctx, e, z, "REGULAR")
    BY <2>1, <2>2
  <2>9. ctx' \in Contexts /\ ctx'.seen = 0 /\ ctx'.log = Cat(g, d)
    BY <2>2, <2>4, <2>6, <2>7, <2>8, BeginContext
  <2>10. <<>> \in Seq(Nat) /\ 0 \in Nat /\ Absent \in {Absent} \cup Seq(Nat) /\ Len(<<>>) = 0
    BY EmptySeq
  <2>11. ctx'.log = Cat(Cat(g, d), logged(<<>>))
    <3>1. ctx'.log \in Seq(LogItems)
      BY <2>9 DEF Contexts
    <3>2. QED
      BY <2>9, <3>1, CatEmpty, LoggedNothing
  <2>12. OpenFileKnown(e, Absent, <<>>, tree, lengths, changes)
    BY <2>4, FreshFile
  <2>13. SeenSame(g, b, e, Absent, <<>>, z, pc')
    <3>1. SUFFICES ASSUME NEW lm, NEW c0, InSecondScan(g, b, FirstLog, FirstTree, lm, c0)
                   PROVE  /\ OpenFileAgrees(e, Absent, <<>>, tree, FirstTree, lm, c0)
                          /\ SizeAgrees(e, z, Absent, <<>>, tree, FirstTree, lm, c0)
      BY <2>1 DEF SeenSame
    <3>2. OpenFileAgrees(e, Absent, <<>>, tree, FirstTree, lm, c0)
      BY <2>4, FreshFile
    <3>3. QED
      BY <2>1, <2>2, <3>1, <3>2 DEF InSecondScan
  <2>14. PICK l \in Seq(Nat) : l = <<>>
    BY <2>10
  <2>15. /\ ctx'.log = Cat(Cat(g, << <<"ENTR", e, z, "REGULAR">> >>), logged(l))
         /\ ctx'.seen = Len(l) /\ 0 = Len(l)
    BY <2>7, <2>9, <2>10, <2>11, <2>14
  <2>16. PICK q \in Nat : q = 0
    BY <2>10
  <2>17. /\ fd' = [name |-> e, position |-> q, gone |-> Absent, size |-> z]
         /\ OpenFileKnown(e, Absent, l, tree, lengths, changes) /\ SeenSame(g, b, e, Absent, l, z, pc')
         /\ q = Len(l)
    BY <2>5, <2>12, <2>13, <2>14, <2>15, <2>16
  <2>18. QED
    BY <2>1, <2>2, <2>3, <2>9, <2>10, <2>15, <2>17, FileScanOn
<1>3. QED
  BY <1>1, <1>2

\* The log of a file that more is read of.
LEMMA ReadLog ==
  ASSUME NEW c \in Contexts, NEW h \in Logs, NEW b \in Seq(Nat), NEW data \in Seq(Nat),
         c.log = Cat(h, logged(b)), c.seen = Len(b)
  PROVE  /\ rmr_fc16_entry_data(c, data) \in Contexts
         /\ rmr_fc16_entry_data(c, data).log = Cat(h, logged(Cat(b, data)))
         /\ rmr_fc16_entry_data(c, data).seen = Len(b) + Len(data)
<1> DEFINE d == rmr_fc16_entry_data(c, data)
           x == logged(b)
           y == logged(data)
<1>1. d \in Contexts
  BY DataType
<1>2. d.log = Cat(c.log, y) /\ d.seen = c.seen + Len(data)
  <2>1. PICK lanes, log, seen :
          /\ d = [log |-> log, lanes |-> lanes, declared |-> c.declared, seen |-> seen, base |-> c.base]
          /\ log = Cat(c.log, y) /\ seen = c.seen + Len(data)
    BY DataIs
  <2> HIDE DEF d, y
  <2>2. d.log = log /\ d.seen = seen
    BY <2>1
  <2>3. QED
    BY <2>1, <2>2
<1>3. x \in Seq(LogItems) /\ y \in Seq(LogItems) /\ h \in Seq(LogItems)
  BY LoggedType DEF Logs
<1>4. logged(Cat(b, data)) = Cat(x, y)
  BY LoggedConcat
<1>5. c.log = Cat(h, x)
  OBVIOUS
<1> HIDE DEF d, x, y
<1>6. Cat(Cat(h, x), y) = Cat(h, Cat(x, y))
  BY <1>3, CatAssociative
<1>7. d.log = Cat(h, logged(Cat(b, data))) /\ d.seen = Len(b) + Len(data)
  BY <1>2, <1>4, <1>5, <1>6
<1>8. QED
  BY <1>1, <1>7 DEF d

\* Reading on, the bytes read and all read so far.
ReadOn(b, s, k, data, c) ==
  /\ data \in Seq(Nat) /\ Len(data) = k /\ c \in Seq(Nat) /\ Len(c) = Len(b) + k
  /\ \A i \in DOMAIN c : \/ i \in DOMAIN b /\ c[i] = b[i]
                         \/ i \in DOMAIN s /\ c[i] = s[i]

LEMMA ReadBytes ==
  ASSUME NEW b \in Seq(Nat), NEW s \in Seq(Nat), NEW k \in Nat, Len(b) + k <= Len(s)
  PROVE  ReadOn(b, s, k, SubSeq(s, Len(b) + 1, Len(b) + k), Cat(b, SubSeq(s, Len(b) + 1, Len(b) + k)))
<1>1. LET d == SubSeq(s, Len(b) + 1, Len(b) + k) IN
      /\ d \in Seq(Nat) /\ Len(d) = k
      /\ Cat(b, d) \in Seq(Nat) /\ Len(Cat(b, d)) = Len(b) + k
      /\ \A i \in DOMAIN Cat(b, d) : \/ i \in DOMAIN b /\ Cat(b, d)[i] = b[i]
                                     \/ i \in DOMAIN s /\ Cat(b, d)[i] = s[i]
  BY BytesRead, Zenon
<1>2. QED
  BY <1>1, Zenon DEF ReadOn

LEMMA ReadFileSeals ==
  ASSUME SealIsTrue, CustodyPlaces, ReadFile
  PROVE  SealIsTrue'
<1>1. PICK k \in 1 .. IoBytes :
        /\ k <= left
        /\ IF ctx.seen + k > ctx.declared THEN End("ERR_SIZE")
           ELSE /\ ctx' = rmr_fc16_entry_data(ctx, SubSeq(content, fd.position + 1, fd.position + k))
                /\ fd' = [fd EXCEPT !.position = @ + k]
                /\ UNCHANGED <<environment, run, pc, stack, first, disk, had, writing>>
  BY DEF ReadFile
<1>2. pc = "data"
  BY DEF ReadFile
<1>k. k \in Nat
  BY Custody16Assumption, SMT
<1>3. CASE End("ERR_SIZE")
  BY <1>3, EndSeals DEF Outcomes
<1>4. CASE ~ End("ERR_SIZE")
  <2>1. /\ ctx' = rmr_fc16_entry_data(ctx, SubSeq(content, fd.position + 1, fd.position + k))
        /\ fd' = [fd EXCEPT !.position = fd.position + k]
        /\ UNCHANGED <<tree, lengths, changes, pc, stack, first>>
    BY <1>1, <1>4 DEF environment
  <2>2. PICK g \in Logs, b \in Seq(Nat), e \in Files, p \in Nat, gone \in {Absent} \cup Seq(Nat), z \in Nat :
          /\ InScan(g, b) /\ SecondScan(g, b) /\ ctx \in Contexts
          /\ e = entry /\ fd = [name |-> e, position |-> p, gone |-> gone, size |-> z]
          /\ fd.position = p /\ fd.gone = gone /\ fd.size = z /\ fd.name = e
          /\ content = OpenBytes(e, gone, tree)
    BY <1>2, AtAFile
  <2>3. stack # <<>>
    BY <1>2, AtAFile
  <2>4. PICK d : d = << <<"ENTR", e, z, "REGULAR">> >>
    OBVIOUS
  <2>5. e \in Entries /\ "REGULAR" \in EntryKinds
    BY <2>2 DEF Files, EntryKinds
  <2>6. /\ ctx.log = Cat(Cat(g, d), logged(b)) /\ ctx.seen = Len(b) /\ p = Len(b)
        /\ OpenFileKnown(e, gone, b, tree, lengths, changes)
    BY <1>2, <2>2, <2>4 DEF InScan
  <2>7. TreeKnown(tree, lengths, changes)
    BY DEF SealIsTrue
  <2>8. content \in Seq(Nat) /\ Len(content) \in Nat
    BY <2>2, <2>6, <2>7, OpenBytesAre
  <2>9. Len(b) + k <= Len(content)
    <3>1. k <= Len(content) - p /\ p \in Nat
      BY <1>1, <2>2 DEF left
    <3>2. p + k <= Len(content)
      BY <1>k, <2>8, <3>1, SMT
    <3>3. QED
      BY <2>6, <3>2
  <2>10. PICK data : data = SubSeq(content, Len(b) + 1, Len(b) + k)
    OBVIOUS
  <2>11. PICK c : c = Cat(b, data)
    OBVIOUS
  <2>12. /\ data \in Seq(Nat) /\ Len(data) = k /\ c \in Seq(Nat) /\ Len(c) = Len(b) + k
         /\ \A i \in DOMAIN c : \/ i \in DOMAIN b /\ c[i] = b[i]
                                \/ i \in DOMAIN content /\ c[i] = content[i]
    <3>1. PICK s \in Seq(Nat) : s = content
      BY <2>8
    <3>2. Len(b) + k <= Len(s) /\ data = SubSeq(s, Len(b) + 1, Len(b) + k)
      BY <2>9, <2>10, <3>1
    <3>3. ReadOn(b, s, k, SubSeq(s, Len(b) + 1, Len(b) + k), Cat(b, SubSeq(s, Len(b) + 1, Len(b) + k)))
      BY <1>k, <3>2, ReadBytes
    <3>4. ReadOn(b, s, k, data, c)
      BY <2>11, <3>2, <3>3
    <3>5. QED
      BY <3>1, <3>4 DEF ReadOn
  <2>13. ctx' = rmr_fc16_entry_data(ctx, data)
    BY <2>1, <2>2, <2>6, <2>10
  <2>14. Cat(g, d) \in Logs
    <3>1. d \in Logs
      BY <2>2, <2>4, <2>5, RecordType
    <3>2. QED
      BY <3>1, CatProperties DEF Logs
  <2>15. ctx' \in Contexts /\ ctx'.log = Cat(Cat(g, d), logged(c)) /\ ctx'.seen = Len(b) + Len(data)
    BY <2>2, <2>6, <2>11, <2>12, <2>13, <2>14, ReadLog
  <2>16. PICK q \in Nat : q = p + k
    BY <1>k, <2>2, SMT
  <2>17. ctx'.seen = Len(c) /\ q = Len(c)
    BY <2>6, <2>12, <2>15, <2>16
  <2>18. fd' = [fd EXCEPT !.position = q]
    BY <2>1, <2>2, <2>16
  <2>19. fd' = [name |-> e, position |-> q, gone |-> gone, size |-> z]
    BY <2>2, <2>18, Repositioned
  <2>20. \A i \in DOMAIN c : \/ i \in DOMAIN b /\ c[i] = b[i]
                             \/ i \in DOMAIN OpenBytes(e, gone, tree) /\ c[i] = OpenBytes(e, gone, tree)[i]
    BY <2>2, <2>12
  <2>21. OpenFileKnown(e, gone, c, tree, lengths, changes)
    BY <2>2, <2>6, <2>7, <2>20, ReadKnown
  <2>22. SeenSame(g, b, e, gone, c, z, pc')
    <3>1. SUFFICES ASSUME NEW lm, NEW c0, InSecondScan(g, b, FirstLog, FirstTree, lm, c0)
                   PROVE  /\ OpenFileAgrees(e, gone, c, tree, FirstTree, lm, c0)
                          /\ SizeAgrees(e, z, gone, c, tree, FirstTree, lm, c0)
      BY <1>2, <2>1 DEF SeenSame
    <3>2. /\ Later(FirstTree, c0, lm, tree, lengths, changes)
          /\ OpenFileAgrees(e, gone, b, tree, FirstTree, lm, c0)
          /\ SizeAgrees(e, z, gone, b, tree, FirstTree, lm, c0)
      BY <1>2, <2>2, <3>1 DEF InSecondScan
    <3>3. QED
      BY <2>2, <2>6, <2>7, <2>20, <3>2, ReadAgrees
  <2>23. pc' = "data" /\ ctx'.log = Cat(Cat(g, << <<"ENTR", e, z, "REGULAR">> >>), logged(c))
    BY <1>2, <2>1, <2>4, <2>15
  <2>24. QED
    BY <2>1, <2>2, <2>3, <2>12, <2>15, <2>17, <2>19, <2>21, <2>22, <2>23, FileScanOn
<1>5. QED
  BY <1>1, <1>3, <1>4

LEMMA EndFileSeals ==
  ASSUME SealIsTrue, CustodyPlaces, EndFile
  PROVE  SealIsTrue'
<1>1. pc = "data" /\ left <= 0
  BY DEF EndFile
<1>2. CASE ctx.seen # fd.size
  <2>1. End("ERR_SIZE")
    BY <1>2 DEF EndFile
  <2>2. QED
    BY <2>1, EndSeals DEF Outcomes
<1>3. CASE ctx.seen = fd.size
  <2>1. /\ ctx' = rmr_fc16_entry_end(ctx, fd.name) /\ stack' = others /\ pc' = "scan"
        /\ UNCHANGED <<tree, lengths, changes, first>>
    BY <1>3 DEF EndFile, environment
  <2>2. PICK g \in Logs, b \in Seq(Nat), e \in Files, p \in Nat, gone \in {Absent} \cup Seq(Nat), z \in Nat :
          /\ InScan(g, b) /\ SecondScan(g, b) /\ ctx \in Contexts
          /\ e = entry /\ fd = [name |-> e, position |-> p, gone |-> gone, size |-> z]
          /\ fd.position = p /\ fd.gone = gone /\ fd.size = z /\ fd.name = e
          /\ content = OpenBytes(e, gone, tree)
    BY <1>1, AtAFile
  <2>3. stack # <<>> /\ Head(stack) # <<>>
    BY <1>1, AtAFile
  <2>4. others # <<>> /\ Pending(others) \in Frames
    <3>1. NextEntry(stack) = entry /\ Rest(stack) = others /\ stack \in Seq(Frames)
      BY DEF NextEntry, Rest, entry, others, CustodyPlaces
    <3>2. Pending(others) \in Frames
      BY <2>3, <3>1, PendingEntry
    <3>3. others # <<>>
      BY <2>3, RestNotEmpty DEF CustodyPlaces
    <3>4. QED
      BY <3>2, <3>3
  <2>5. e \in Entries /\ e \notin Dirs /\ "REGULAR" \in EntryKinds
    BY <2>2 DEF Files, EntryKinds
  <2>6. /\ ctx.log = Cat(Cat(g, << <<"ENTR", e, z, "REGULAR">> >>), logged(b))
        /\ ctx.seen = Len(b) /\ p = Len(b) /\ z = Len(b)
        /\ OpenFileKnown(e, gone, b, tree, lengths, changes)
    BY <1>1, <1>3, <2>2 DEF InScan
  <2>7. ctx' \in Contexts /\ ctx'.log = Cat(g, record(e, z, "REGULAR", b))
    <3>1. ctx' = rmr_fc16_entry_end(ctx, e) /\ ctx.seen = z
      BY <2>1, <2>2, <2>6
    <3>2. QED
      BY <2>2, <2>5, <2>6, <3>1, ClosedLog
  <2>8. TreeKnown(tree, lengths, changes)
    BY DEF SealIsTrue
  <2>9. Len(content) \in Nat
    BY <2>2, <2>6, <2>8, OpenBytesAre
  <2>10. ~ (Len(content) > z)
    <3>1. Len(content) - p <= 0 /\ p \in Nat
      BY <1>1, <2>2 DEF left
    <3>2. ~ (Len(content) > p)
      BY <2>9, <3>1, SMT
    <3>3. QED
      BY <2>6, <3>2
  <2>11. /\ \/ z \in lengths[e]
            \/ z >= 1 /\ (z = Len(b) => ~ Has(tree[e], z, b[z]))
    BY <2>2, <2>6, <2>8, <2>10, EndFound
  <2>12. DOMAIN b = 1 .. Len(b)
    BY LenProperties
  <2>13. \A i \in 1 .. Len(b) : b[i] <= changes
    BY <2>6, <2>12 DEF OpenFileKnown
  <2>14. TakenAs(e, z, "REGULAR", b, <<>>, tree, lengths, changes)
    BY <2>5, <2>6, <2>11, <2>13 DEF TakenAs
  <2>15. SeenAgain(g, b, e, z, "REGULAR", b)
    <3>1. SUFFICES ASSUME NEW lm, NEW c0, InSecondScan(g, b, FirstLog, FirstTree, lm, c0),
                          Prefix(Cat(g, record(e, z, "REGULAR", b)), FirstLog)
                   PROVE  EntryLogs(FirstTree)[e] = record(e, z, "REGULAR", b)
      BY DEF SeenAgain
    <3>2. /\ FirstScan(FirstLog, FirstTree, lm, c0)
          /\ OpenFileAgrees(e, gone, b, tree, FirstTree, lm, c0)
          /\ SizeAgrees(e, z, gone, b, tree, FirstTree, lm, c0)
      BY <1>1, <2>2, <3>1 DEF InSecondScan
    <3>3. \A i \in 1 .. z : b[i] <= c0 => Has(FirstTree[e], i, b[i])
      BY <2>6, <2>12, <3>2 DEF OpenFileAgrees
    <3>4. \/ z \in lm[e] => z = Length(FirstTree[e])
          \/ z >= 1 /\ ~ (b[z] <= c0)
      <4>1. z >= 1 => z \in DOMAIN b
        BY <2>2, <2>6, <2>12, SMT
      <4>2. QED
        BY <3>2, <4>1 DEF SizeAgrees
    <3>5. QED
      BY <2>6, <3>1, <3>2, <3>3, <3>4, FileAgrees
  <2>16. Pending(stack') = Cat(<<>>, Pending(others)) /\ stack' # <<>>
    BY <2>1, <2>4, CatEmpty DEF Frames
  <2>17. <<>> \in Frames
    BY EmptySeq DEF Frames
  <2>18. QED
    BY <2>1, <2>2, <2>3, <2>5, <2>7, <2>14, <2>15, <2>16, <2>17, EntryTaken
<1>4. QED
  BY <1>2, <1>3

\* The root is opened: all that is below it is pending.
LEMMA OpenRootSeals ==
  ASSUME SealIsTrue, CustodyPlaces, OpenRoot
  PROVE  SealIsTrue'
<1>1. pc = "scan" /\ stack = <<>> /\ scan_dir(Root, <<>>, ctx)
  BY DEF OpenRoot
<1>2. CASE End("ERR_CAPACITY")
  BY <1>2, EndSeals DEF Outcomes
<1>3. CASE ~ End("ERR_CAPACITY")
  <2>1. /\ stack' = <<listing(tree, Root)>> \o <<>> /\ ctx' = ctx
        /\ UNCHANGED <<tree, lengths, changes, pc, first>>
    BY <1>1, <1>3, ListedOfTree DEF scan_dir, environment
  <2>2. PICK g \in Logs, b \in Seq(Nat) : InScan(g, b) /\ SecondScan(g, b)
    BY <1>1 DEF SealIsTrue, Scanning
  <2>3. g = <<>> /\ b = <<>> /\ ctx \in Contexts /\ ctx.log = g
    BY <1>1, <2>2 DEF InScan
  <2>4. PICK d \in Dirs : d = Root
    BY Custody16Assumption
  <2>5. PICK l \in Frames : l = listing(tree, d)
    BY ListedType, ListedOfTree
  <2>6. stack' # <<>> /\ Pending(stack') = l
    <3>1. PICK st \in Seq(Frames) : st = <<>>
      BY EmptySeq
    <3>2. stack' = <<l>> \o st
      BY <2>1, <2>4, <2>5, <3>1
    <3>3. Pending(st) = <<>>
      BY <3>1, PendingNone
    <3>4. Cat(l, <<>>) = l
      BY CatEmpty DEF Frames
    <3>5. <<l>> \o st # <<>> /\ Pending(<<l>> \o st) = Cat(l, Pending(st))
      BY StackedOn
    <3>6. QED
      BY <3>2, <3>3, <3>4, <3>5
  <2>7. /\ Distinct(l) /\ \A f \in Range(l) : f \in Range(Children[Root])
        /\ \A f \in Range(Children[Root]) \cap Files : f \in Range(l) \/ -1 \in lengths[f]
    <3>1. \A f \in Files : Length(tree[f]) \in lengths[f]
      BY DEF SealIsTrue, TreeKnown
    <3>2. Distinct(l)
      BY <2>5, ListingIs
    <3>3. /\ \A f \in Range(l) : f \in Range(Children[d])
          /\ \A f \in Range(Children[d]) \cap Files : f \in Range(l) \/ -1 \in lengths[f]
      BY <2>5, <3>1, ListingFound
    <3>4. QED
      BY <2>4, <3>2, <3>3
  <2>8. Placed(<<>>, l, TRUE) /\ Found(<<>>, l, TRUE, lengths) /\ Names(<<>>) = {}
    BY <2>7, RootPlaced
  <2>9. OldBytes(g, changes) /\ Sized(g, tree, lengths)
    BY <2>2 DEF InScan, Accounts
  <2>10. Accounts(g, l, TRUE, tree, lengths, changes)
    BY <2>3, <2>8, <2>9 DEF Accounts
  <2>11. InScan(g, b)'
    <3>1. pc' = "scan" /\ (stack' # <<>>) = TRUE
      BY <1>1, <2>1, <2>6
    <3>2. Accounts(g, Pending(stack'), stack' # <<>>, tree', lengths', changes')
      BY <2>1, <2>6, <2>10, <3>1
    <3>3. ctx' \in Contexts /\ ctx'.log = g
      BY <2>1, <2>3
    <3>4. QED
      BY <2>3, <3>1, <3>2, <3>3 DEF InScan
  <2>12. ASSUME first # <<>>
         PROVE  (\E lm, c0 : InSecondScan(g, b, FirstLog, FirstTree, lm, c0))'
    <3>1. PICK lm, c0 : InSecondScan(g, b, FirstLog, FirstTree, lm, c0)
      BY <2>2, <2>12 DEF SecondScan
    <3>2. PICK m, log : m = FirstTree /\ log = FirstLog
      OBVIOUS
    <3>3. FirstScan(log, m, lm, c0) /\ Later(m, c0, lm, tree, lengths, changes) /\ m \in Trees
      BY <3>1, <3>2 DEF InSecondScan, FirstScan
    <3>4. Opened(d, log, TRUE) /\ Opened(d, g, TRUE)
      BY <2>4 DEF Opened
    <3>5. \A f \in Range(Children[d]) \cap Files : f \notin Range(listing(tree, d)) => f \notin Known(g, l)
      BY <2>3, <2>5, <2>8 DEF Known
    <3>6. LogsOf(m, listing(tree, d)) = LogsOf(m, Children[d]) \/ Missing(g, l, TRUE, log)
      BY <3>3, <3>4, <3>5, ListingAgrees
    <3>7. LogOf(m) = LogsOf(m, Children[d]) /\ LogsOf(m, Children[d]) \in Logs
      BY <2>4, <3>3, LogOfDirectory
    <3>8. Cat(g, LogsOf(m, Children[d])) = LogsOf(m, Children[d])
      BY <2>3, <3>7, CatEmpty DEF Logs
    <3>9. Agreeing(g, l, TRUE, m, log)
      BY <2>5, <3>6, <3>7, <3>8 DEF Agreeing
    <3>10. pc' = "scan" /\ (stack' # <<>>) = TRUE /\ FirstLog' = log /\ FirstTree' = m
      BY <1>1, <2>1, <2>6, <3>2 DEF FirstLog, FirstTree
    <3>11. Agreeing(g, Pending(stack'), stack' # <<>>, FirstTree', FirstLog')
      BY <2>6, <3>9, <3>10
    <3>12. FirstScan(FirstLog', FirstTree', lm, c0) /\ Later(FirstTree', c0, lm, tree', lengths', changes')
      BY <2>1, <3>3, <3>10
    <3>13. InSecondScan(g, b, FirstLog, FirstTree, lm, c0)'
      BY <3>10, <3>11, <3>12 DEF InSecondScan
    <3>14. QED
      BY <3>13
  <2>13. SecondScan(g, b)'
    BY <2>1, <2>12 DEF SecondScan
  <2>14. pc' \in {"scan", "count", "begin", "data"}
    BY <1>1, <2>1
  <2>15. QED
    BY <2>1, <2>2, <2>11, <2>13, <2>14, ScanOn
<1>4. QED
  BY <1>2, <1>3

\* A scan that has not begun.
LEMMA NothingAccounts ==
  ASSUME NEW t, NEW lens, NEW ch, NEW g \in Logs, NEW p \in Frames, g = <<>>, p = <<>>, NEW o, o = FALSE
  PROVE  Accounts(g, p, o, t, lens, ch)
<1>1. Range(g) = {} /\ Range(p) = {} /\ DOMAIN g = {} /\ DOMAIN p = {}
  BY DEF Range
<1>2. Names(g) = {}
  BY <1>1 DEF Names
<1>3. Placed(g, p, o)
  BY <1>1, <1>2 DEF Placed, Distinct, Known
<1>4. Found(g, p, o, lens)
  BY <1>2 DEF Found, Opened
<1>5. OldBytes(g, ch) /\ Sized(g, t, lens)
  BY <1>1 DEF OldBytes, Sized
<1>6. QED
  BY <1>3, <1>4, <1>5 DEF Accounts

\* The second scan logged the same as the first.
LEMMA SameLog ==
  ASSUME NEW m \in Trees, NEW log \in Logs, NEW o, o = TRUE, NEW p, p = <<>>, Agreeing(log, p, o, m, log)
  PROVE  log = LogOf(m)
<1>1. Cat(log, <<>>) = log /\ <<>> \in Logs
  BY CatEmpty, EmptySeq DEF Logs
<1>2. Prefix(log, log)
  BY <1>1 DEF Prefix
<1>3. ~ Missing(log, p, o, log)
  BY DEF Missing, Known
<1>4. LogsOf(m, p) = <<>>
  <2>1. MapLogs(m, <<>>) = <<>>
    BY DEF MapLogs
  <2>2. QED
    BY <2>1, FlattenEmpty DEF LogsOf
<1>5. QED
  BY <1>1, <1>2, <1>3, <1>4 DEF Agreeing

\* A scan ends: the first with all it says of the tree, the second compared.
LEMMA FirstScanEnds ==
  ASSUME SealIsTrue, pc = "scan", NEW g \in Logs, InScan(g, <<>>), Pending(stack) = <<>>, stack # <<>>,
         UNCHANGED <<tree, lengths, changes, pc>>, stack' = <<>>,
         first' = <<[seen |-> rmr_fc16_finalize(ctx), tree |-> tree]>>, ctx' = rmr_fc16_init
  PROVE  SealIsTrue'
<1>1. PICK h \in Logs, b \in Seq(Nat) : h = <<>> /\ b = <<>>
  BY EmptySeq DEF Logs
<1>2. ctx.log = g /\ Accounts(g, <<>>, stack # <<>>, tree, lengths, changes)
  BY DEF InScan
<1>3. TreeKnown(tree, lengths, changes)
  BY DEF SealIsTrue
<1>4. Pending(stack') = <<>> /\ (stack' # <<>>) = FALSE /\ ctx' \in Contexts /\ ctx'.log = <<>>
  BY PendingNone, InitContext DEF rmr_fc16_init
<1>5. PICK p \in Frames : p = <<>>
  BY EmptySeq DEF Frames
<1>6. PICK t, lens, ch, o : t = tree /\ lens = lengths /\ ch = changes /\ o = FALSE
  OBVIOUS
<1>7. Accounts(h, p, o, t, lens, ch)
  BY <1>1, <1>5, <1>6, NothingAccounts
<1>8. InScan(h, b)'
  <2>1. Accounts(h, Pending(stack'), stack' # <<>>, tree', lengths', changes')
    BY <1>4, <1>5, <1>6, <1>7
  <2>2. QED
    BY <1>1, <1>4, <2>1 DEF InScan
<1>9. FirstLog' = g /\ FirstTree' = t
  BY <1>2, <1>6 DEF FirstLog, FirstTree, rmr_fc16_finalize
<1>10. FirstScan(g, t, lens, ch)
  <2>1. PICK y : y = TRUE /\ Accounts(g, p, y, t, lens, ch)
    BY <1>2, <1>5, <1>6
  <2>2. t \in Trees /\ ch \in Nat /\ lens \in [Files -> SUBSET Int]
    BY <1>3, <1>6 DEF TreeKnown
  <2>3. QED
    BY <1>5, <2>1, <2>2 DEF FirstScan
<1>11. Later(t, ch, lens, t, lens, ch)
  <2>1. ch <= ch
    BY <1>3, <1>6 DEF TreeKnown
  <2>2. QED
    BY <2>1 DEF Later
<1>12. Agreeing(h, p, o, t, g)
  BY <1>6 DEF Agreeing
<1>13. InSecondScan(h, b, FirstLog, FirstTree, lens, ch)'
  <2>1. FirstScan(FirstLog', FirstTree', lens, ch) /\ Later(FirstTree', ch, lens, tree', lengths', changes')
    BY <1>6, <1>9, <1>10, <1>11
  <2>2. Agreeing(h, Pending(stack'), stack' # <<>>, FirstTree', FirstLog')
    BY <1>4, <1>5, <1>6, <1>9, <1>12
  <2>3. QED
    BY <2>1, <2>2 DEF InSecondScan
<1>14. SecondScan(h, b)'
  BY <1>13 DEF SecondScan
<1>15. pc' \in {"scan", "count", "begin", "data"}
  OBVIOUS
<1>16. QED
  BY <1>8, <1>14, <1>15, ScanOn

LEMMA SecondScanEnds ==
  ASSUME SealIsTrue, pc = "scan", NEW g \in Logs, InScan(g, <<>>), SecondScan(g, <<>>),
         Pending(stack) = <<>>, stack # <<>>, first # <<>>,
         UNCHANGED <<tree, lengths, changes, first, ctx>>, pc' = "compare"
  PROVE  SealIsTrue'
<1>1. TreeKnown(tree, lengths, changes)'
  BY DEF SealIsTrue
<1>2. ASSUME FirstLog = ctx.log
      PROVE  FirstLog = LogOf(FirstTree)
  <2>1. PICK lm, c0 : InSecondScan(g, <<>>, FirstLog, FirstTree, lm, c0)
    BY DEF SecondScan
  <2>2. PICK m, p, o : m = FirstTree /\ p = <<>> /\ o = TRUE
    OBVIOUS
  <2>3. FirstLog = g
    BY <1>2 DEF InScan
  <2>4. Agreeing(g, p, o, m, g) /\ m \in Trees
    BY <2>1, <2>2, <2>3 DEF InSecondScan, FirstScan
  <2>5. g = LogOf(m)
    BY <2>2, <2>4, SameLog
  <2>6. QED
    BY <2>2, <2>3, <2>5
<1>3. FirstLog' = FirstLog /\ FirstTree' = FirstTree /\ ctx'.log = ctx.log
  BY DEF FirstLog, FirstTree
<1>4. pc' = "compare" /\ FirstLog' = ctx'.log => FirstLog' = LogOf(FirstTree')
  BY <1>2, <1>3
<1>5. QED
  BY <1>1, <1>4 DEF SealIsTrue, Scanning

LEMMA LeaveDirectorySeals ==
  ASSUME SealIsTrue, CustodyPlaces, LeaveDirectory
  PROVE  SealIsTrue'
<1>1. /\ pc = "scan" /\ stack # <<>> /\ Head(stack) = <<>> /\ stack' = Tail(stack)
      /\ UNCHANGED <<tree, lengths, changes>>
  BY DEF LeaveDirectory, environment
<1>2. PICK g \in Logs, b \in Seq(Nat) : InScan(g, b) /\ SecondScan(g, b)
  BY <1>1 DEF SealIsTrue, Scanning
<1>3. b = <<>> /\ ctx \in Contexts /\ ctx.log = g
  BY <1>1, <1>2 DEF InScan
<1>4. stack \in Seq(Frames) /\ Pending(stack') = Pending(stack)
  <2>1. stack \in Seq(Frames)
    BY DEF CustodyPlaces
  <2>2. Pending(stack) = Pending(Tail(stack))
    BY <1>1, <2>1, PendingLeft
  <2>3. QED
    BY <1>1, <2>1, <2>2
<1>5. Len(Tail(stack)) = Len(stack) - 1 /\ Len(stack) \in Nat /\ Len(<<>>) = 0 /\ Tail(stack) \in Seq(Frames)
  <2> HIDE DEF Frames
  <2>1. QED
    BY <1>1, <1>4, HeadTailProperties, LenProperties
<1>6. CASE Len(stack) > 1 /\ UNCHANGED <<pc, ctx, first>>
  <2>1. stack' # <<>>
    <3>1. Len(Tail(stack)) # 0
      <4>1. PICK n \in Nat : n = Len(stack)
        BY <1>5
      <4>2. n > 1 /\ Len(Tail(stack)) = n - 1
        BY <1>5, <1>6, <4>1
      <4>3. n - 1 # 0
        BY <4>2, SMT
      <4>4. QED
        BY <4>2, <4>3
    <3>2. QED
      BY <1>1, <1>5, <3>1
  <2>2. InScan(g, b)'
    <3>1. Accounts(g, Pending(stack), stack # <<>>, tree, lengths, changes)
      BY <1>2 DEF InScan
    <3>2. Accounts(g, Pending(stack'), stack' # <<>>, tree', lengths', changes')
      BY <1>1, <1>4, <2>1, <3>1
    <3>3. QED
      BY <1>1, <1>3, <1>6, <2>1, <3>2 DEF InScan
  <2>3. ASSUME first # <<>>
        PROVE  (\E lm, c0 : InSecondScan(g, b, FirstLog, FirstTree, lm, c0))'
    <3>1. PICK lm, c0 : InSecondScan(g, b, FirstLog, FirstTree, lm, c0)
      BY <1>2, <2>3 DEF SecondScan
    <3>2. FirstLog' = FirstLog /\ FirstTree' = FirstTree
      BY <1>6 DEF FirstLog, FirstTree
    <3>3. FirstScan(FirstLog', FirstTree', lm, c0) /\ Later(FirstTree', c0, lm, tree', lengths', changes')
      BY <1>1, <3>1, <3>2 DEF InSecondScan
    <3>4. Agreeing(g, Pending(stack), stack # <<>>, FirstTree, FirstLog)
      BY <3>1 DEF InSecondScan
    <3>5. Agreeing(g, Pending(stack'), stack' # <<>>, FirstTree', FirstLog')
      BY <1>1, <1>4, <2>1, <3>2, <3>4
    <3>6. InSecondScan(g, b, FirstLog, FirstTree, lm, c0)'
      BY <1>1, <1>6, <3>3, <3>5 DEF InSecondScan
    <3>7. QED
      BY <3>6
  <2>4. SecondScan(g, b)'
    BY <1>6, <2>3 DEF SecondScan
  <2>5. pc' \in {"scan", "count", "begin", "data"}
    BY <1>1, <1>6
  <2>6. QED
    BY <1>1, <1>2, <2>2, <2>4, <2>5, ScanOn
<1>7. ASSUME Len(stack) = 1
      PROVE  stack' = <<>> /\ Pending(stack) = <<>>
  <2>1. Len(Tail(stack)) = 0
    BY <1>5, <1>7, SMT
  <2>2. Tail(stack) = <<>>
    <3> HIDE DEF Frames
    <3>1. QED
      BY <1>5, <2>1, EmptySeq
  <2>3. QED
    BY <1>1, <1>4, <2>2, PendingNone
<1>8. CASE /\ Len(stack) = 1 /\ first = <<>>
           /\ first' = <<[seen |-> rmr_fc16_finalize(ctx), tree |-> tree]>>
           /\ ctx' = rmr_fc16_init /\ UNCHANGED pc
  BY <1>1, <1>2, <1>3, <1>7, <1>8, FirstScanEnds
<1>9. CASE Len(stack) = 1 /\ first # <<>> /\ pc' = "compare" /\ UNCHANGED <<ctx, first>>
  BY <1>1, <1>2, <1>3, <1>7, <1>9, SecondScanEnds
<1>10. QED
  BY <1>6, <1>8, <1>9 DEF LeaveDirectory

\* Where nothing is scanned, what the first scan saw and its tree stay.
LEMMA SealStays ==
  ASSUME SealIsTrue, pc \in {"compare", "write"}, FirstLog = LogOf(FirstTree) \/ (pc = "compare" /\ pc' = pc),
         TreeKnown(tree, lengths, changes)', UNCHANGED <<ctx, first>>, pc' \in {"compare", "write"}
  PROVE  SealIsTrue'
<1>1. FirstLog' = FirstLog /\ FirstTree' = FirstTree /\ ctx'.log = ctx.log
  BY DEF FirstLog, FirstTree
<1>2. pc' = "compare" /\ FirstLog' = ctx'.log => FirstLog' = LogOf(FirstTree')
  BY <1>1 DEF SealIsTrue
<1>3. pc' = "write" => FirstLog' = LogOf(FirstTree')
  BY <1>1
<1>4. QED
  BY <1>2, <1>3 DEF SealIsTrue, Scanning

LEMMA CompareSeals ==
  ASSUME SealIsTrue, Compare
  PROVE  SealIsTrue'
<1>1. pc = "compare"
  BY DEF Compare
<1>2. CASE End("MISMATCH")
  BY <1>2, EndSeals DEF Outcomes
<1>3. CASE ~ End("MISMATCH")
  <2>1. /\ rmr_fc16_snapshot_equal(first[1].seen, rmr_fc16_finalize(ctx))
        /\ pc' = "write" /\ UNCHANGED <<tree, lengths, changes, ctx, first>>
    BY <1>3 DEF Compare, environment
  <2>2. FirstLog = ctx.log
    BY <2>1 DEF FirstLog, rmr_fc16_snapshot_equal, rmr_fc16_finalize
  <2>3. FirstLog = LogOf(FirstTree)
    BY <1>1, <2>2 DEF SealIsTrue
  <2>4. TreeKnown(tree, lengths, changes)'
    BY <2>1 DEF SealIsTrue
  <2>5. QED
    BY <1>1, <2>1, <2>3, <2>4, SealStays
<1>4. QED
  BY <1>2, <1>3

LEMMA WriteFileSeals ==
  ASSUME SealIsTrue, WriteFile
  PROVE  SealIsTrue'
<1>1. pc = "write" /\ pc' \in {"write", "OK"} /\ UNCHANGED <<tree, lengths, changes, ctx, first>>
  BY DEF WriteFile, environment
<1>2. CASE pc' = "OK"
  BY <1>1, <1>2, SealEnds DEF Outcomes
<1>3. CASE pc' = "write"
  <2>1. FirstLog = LogOf(FirstTree) /\ TreeKnown(tree, lengths, changes)'
    BY <1>1 DEF SealIsTrue
  <2>2. QED
    BY <1>1, <1>3, <2>1, SealStays
<1>4. QED
  BY <1>1, <1>2, <1>3

LEMMA FailsSeals ==
  ASSUME SealIsTrue, Fails \/ Killed \/ PowerFails
  PROVE  SealIsTrue'
<1>1. CASE Fails
  <2>1. CASE End("ERR_STATE")
    BY <2>1, EndSeals DEF Outcomes
  <2>2. CASE End("ERR_THERMAL")
    BY <2>2, EndSeals DEF Outcomes
  <2>3. QED
    BY <1>1, <2>1, <2>2 DEF Fails
<1>2. CASE Killed
  <2>1. End("killed")
    BY <1>2 DEF Killed
  <2>2. QED
    BY <2>1, EndSeals DEF Outcomes
<1>3. CASE PowerFails
  <2>1. pc' = "killed" /\ UNCHANGED <<tree, lengths, changes>>
    BY <1>3 DEF PowerFails, environment
  <2>2. QED
    BY <2>1, SealEnds DEF Outcomes
<1>4. QED
  BY <1>1, <1>2, <1>3

LEMMA StartSeals ==
  ASSUME SealIsTrue, CustodyPlaces, Start
  PROVE  SealIsTrue'
<1>1. /\ Ended /\ pc' = "scan" /\ ctx' = rmr_fc16_init /\ first' = <<>>
      /\ UNCHANGED <<tree, lengths, changes, stack>>
  BY DEF Start
<1>2. stack' = <<>> /\ Pending(stack') = <<>> /\ (stack' # <<>>) = FALSE
  BY <1>1, PendingNone DEF Ended, Outcomes, CustodyPlaces
<1>3. PICK h \in Logs, b \in Seq(Nat) : h = <<>> /\ b = <<>>
  BY EmptySeq DEF Logs
<1>4. PICK p \in Frames : p = <<>>
  BY EmptySeq DEF Frames
<1>5. PICK t, lens, ch, o : t = tree /\ lens = lengths /\ ch = changes /\ o = FALSE
  OBVIOUS
<1>6. Accounts(h, p, o, t, lens, ch)
  BY <1>3, <1>4, <1>5, NothingAccounts
<1>7. InScan(h, b)'
  <2>1. Accounts(h, Pending(stack'), stack' # <<>>, tree', lengths', changes')
    BY <1>1, <1>2, <1>4, <1>5, <1>6
  <2>2. ctx' \in Contexts /\ ctx'.log = <<>>
    BY <1>1, InitContext DEF rmr_fc16_init
  <2>3. QED
    BY <1>1, <1>3, <2>1, <2>2 DEF InScan
<1>8. SecondScan(h, b)'
  BY <1>1 DEF SecondScan
<1>9. pc' \in {"scan", "count", "begin", "data"}
  BY <1>1
<1>10. QED
  BY <1>1, <1>7, <1>8, <1>9, ScanOn

LEMMA SealStarts ==
  ASSUME Init
  PROVE  SealIsTrue
<1>1. tree \in Trees
  BY ScanStarts DEF ScansAgree, CustodyPlaces, Trees
<1>2. ASSUME NEW f \in Files
      PROVE  Length(tree[f]) \in Int
  <2>1. CASE tree[f] = Absent
    BY <2>1 DEF Length
  <2>2. CASE tree[f] # Absent
    <3>1. tree[f] \in Seq(Nat)
      BY <1>1, <2>2 DEF Trees
    <3>2. Len(tree[f]) \in Nat
      BY <3>1, LenProperties
    <3>3. QED
      BY <2>2, <3>2 DEF Length
  <2>3. QED
    BY <2>1, <2>2
<1>3. lengths = [f \in Files |-> {Length(tree[f])}] /\ changes = 0 /\ pc = "idle"
  BY DEF Init
<1>4. lengths \in [Files -> SUBSET Int]
  BY <1>2, <1>3
<1>5. ASSUME NEW f \in Files, NEW i \in Nat, NEW x \in Nat, Has(tree[f], i, x)
      PROVE  x <= 0
  <2>1. tree[f] \in {Absent} \cup {[j \in 1 .. k |-> 0] : k \in UNION Range(FileLengths)}
    BY DEF Init
  <2>2. PICK k : tree[f] = [j \in 1 .. k |-> 0]
    BY <1>5, <2>1 DEF Has
  <2>3. x = 0
    BY <1>5, <2>2 DEF Has
  <2>4. QED
    BY <2>3, SMT
<1>6. TreeKnown(tree, lengths, changes)
  BY <1>1, <1>3, <1>4, <1>5 DEF TreeKnown
<1>7. QED
  BY <1>3, <1>6 DEF SealIsTrue, Scanning

\* The bytes another program leaves in a file, with the lengths it had before.
LEMMA NewBytes ==
  ASSUME NEW t, NEW lens, NEW ch, TreeKnown(t, lens, ch), NEW h \in Files, NEW replaced \in BOOLEAN,
         NEW new \in {Absent} \cup UNION {[1 .. k -> 0 .. ch + 1] : k \in FileLengths[h]},
         new = Absent \/ t[h] = Absent => replaced,
         new # Absent => \A i \in DOMAIN new : new[i] = ch + 1 \/ (~ replaced /\ i <= Len(t[h]) /\ new[i] = t[h][i])
  PROVE  /\ new \in {Absent} \cup Seq(Nat) /\ Length(new) \in Int
         /\ \A i \in Nat, x \in Nat : Has(new, i, x) => x <= ch + 1
         /\ \A i \in Nat, x \in Nat : Has(new, i, x) => x = ch + 1 \/ (Has(t[h], i, x) /\ ~ replaced)
<1>1. ch \in Nat /\ t[h] \in {Absent} \cup Seq(Nat)
  BY DEF TreeKnown, Trees
<1>2. CASE new = Absent
  BY <1>2, SMT DEF Length, Has
<1>3. CASE new # Absent
  <2>1. PICK k \in FileLengths[h] : new \in [1 .. k -> 0 .. ch + 1]
    BY <1>3
  <2>2. k \in Nat
    BY Custody16Assumption
  <2>3. \A x \in 0 .. ch + 1 : x \in Nat /\ x <= ch + 1
    BY <1>1, SMT
  <2>4. new \in [1 .. k -> Nat] /\ DOMAIN new = 1 .. k /\ \A i \in 1 .. k : new[i] <= ch + 1
    BY <2>1, <2>3
  <2>5. new \in Seq(Nat) /\ Len(new) \in Nat
    <3>1. new \in Seq(Nat)
      BY <2>2, <2>4, SMT
    <3>2. QED
      BY <3>1, LenProperties
  <2>6. \A i \in Nat, x \in Nat : Has(new, i, x) => x <= ch + 1
    BY <2>4 DEF Has
  <2>7. ASSUME NEW i \in Nat, NEW x \in Nat, Has(new, i, x), x # ch + 1
        PROVE  Has(t[h], i, x) /\ ~ replaced
    <3>1. i \in 1 .. k /\ new[i] = x
      BY <2>4, <2>7 DEF Has
    <3>2. ~ replaced /\ i <= Len(t[h]) /\ x = t[h][i]
      BY <1>3, <2>4, <2>7, <3>1
    <3>3. t[h] \in Seq(Nat) /\ t[h] # Absent
      BY <1>1, <3>2
    <3>4. Len(t[h]) \in Nat /\ DOMAIN t[h] = 1 .. Len(t[h])
      BY <3>3, LenProperties
    <3>5. i \in 1 .. Len(t[h])
      <4>1. i >= 1
        BY <2>2, <3>1, SMT
      <4>2. QED
        BY <3>2, <3>4, <4>1, SMT
    <3>6. QED
      BY <3>2, <3>3, <3>4, <3>5 DEF Has
  <2>8. Length(new) \in Int
    BY <1>3, <2>5 DEF Length
  <2>9. QED
    BY <2>5, <2>6, <2>7, <2>8
<1>4. QED
  BY <1>2, <1>3

\* A change is one of a file.
LEMMA ChangeIs ==
  ASSUME TreeKnown(tree, lengths, changes), Change
  PROVE  \E h \in Files, replaced \in BOOLEAN : \E u, with :
           /\ Changing(h, replaced, tree, lengths, changes, u, with)
           /\ tree' = u /\ lengths' = with /\ changes' = changes + 1 /\ UNCHANGED <<pc, stack, ctx, first>>
           /\ fd' = IF fd.name = h /\ fd.gone = Absent /\ replaced THEN [fd EXCEPT !.gone = tree[h]] ELSE fd
<1>1. PICK h \in Files, replaced \in BOOLEAN :
        \E new \in {Absent} \cup UNION {[1 .. k -> 0 .. changes + 1] : k \in FileLengths[h]} :
          LET old == tree[h]
              kept(i) == ~ replaced /\ i <= Len(old) /\ new[i] = old[i]
          IN  /\ new # old
              /\ new = Absent \/ old = Absent => replaced
              /\ new # Absent => \A i \in DOMAIN new : new[i] = changes + 1 \/ kept(i)
              /\ Length(new) = Length(old) \/ Length(new) \notin lengths[h]
              /\ tree' = [tree EXCEPT ![h] = new]
              /\ lengths' = [lengths EXCEPT ![h] = @ \cup {Length(new)}]
              /\ fd' = IF fd.name = h /\ fd.gone = Absent /\ replaced THEN [fd EXCEPT !.gone = old] ELSE fd
  BY Zenon DEF Change
<1>n. PICK new \in {Absent} \cup UNION {[1 .. k -> 0 .. changes + 1] : k \in FileLengths[h]} :
        LET old == tree[h]
            kept(i) == ~ replaced /\ i <= Len(old) /\ new[i] = old[i]
        IN  /\ new # old
            /\ new = Absent \/ old = Absent => replaced
            /\ new # Absent => \A i \in DOMAIN new : new[i] = changes + 1 \/ kept(i)
            /\ Length(new) = Length(old) \/ Length(new) \notin lengths[h]
            /\ tree' = [tree EXCEPT ![h] = new]
            /\ lengths' = [lengths EXCEPT ![h] = @ \cup {Length(new)}]
            /\ fd' = IF fd.name = h /\ fd.gone = Absent /\ replaced THEN [fd EXCEPT !.gone = old] ELSE fd
  BY <1>1, Zenon
<1>2. /\ new = Absent \/ tree[h] = Absent => replaced
      /\ new # Absent => \A i \in DOMAIN new :
           new[i] = changes + 1 \/ (~ replaced /\ i <= Len(tree[h]) /\ new[i] = tree[h][i])
      /\ Length(new) = Length(tree[h]) \/ Length(new) \notin lengths[h]
      /\ tree' = [tree EXCEPT ![h] = new]
      /\ lengths' = [lengths EXCEPT ![h] = lengths[h] \cup {Length(new)}]
      /\ fd' = IF fd.name = h /\ fd.gone = Absent /\ replaced THEN [fd EXCEPT !.gone = tree[h]] ELSE fd
  BY <1>n
<1>3. PICK t, lens, ch : t = tree /\ lens = lengths /\ ch = changes
  OBVIOUS
<1>4. /\ TreeKnown(t, lens, ch) /\ new \in {Absent} \cup UNION {[1 .. k -> 0 .. ch + 1] : k \in FileLengths[h]}
      /\ new = Absent \/ t[h] = Absent => replaced
      /\ new # Absent => \A i \in DOMAIN new : new[i] = ch + 1 \/ (~ replaced /\ i <= Len(t[h]) /\ new[i] = t[h][i])
      /\ Length(new) = Length(t[h]) \/ Length(new) \notin lens[h]
  BY <1>2, <1>3
<1>5. /\ new \in {Absent} \cup Seq(Nat) /\ Length(new) \in Int
      /\ \A i \in Nat, x \in Nat : Has(new, i, x) => x <= ch + 1
      /\ \A i \in Nat, x \in Nat : Has(new, i, x) => x = ch + 1 \/ (Has(t[h], i, x) /\ ~ replaced)
  BY <1>4, NewBytes
<1>6. PICK u, with : u = [t EXCEPT ![h] = new] /\ with = [lens EXCEPT ![h] = lens[h] \cup {Length(new)}]
  OBVIOUS
<1>7. /\ t \in Trees /\ lens \in [Files -> SUBSET Int] /\ ch \in Nat
      /\ \A f \in Files : Length(t[f]) \in lens[f] /\ \A i \in Nat, x \in Nat : Has(t[f], i, x) => x <= ch
  BY <1>4 DEF TreeKnown
<1>8. /\ u[h] = new /\ with[h] = lens[h] \cup {Length(new)}
      /\ \A f \in Files : f # h => u[f] = t[f] /\ with[f] = lens[f]
      /\ u \in Trees /\ with \in [Files -> SUBSET Int]
  <2>1. u \in Trees /\ u[h] = new /\ \A f \in Files : f # h => u[f] = t[f]
    BY <1>5, <1>6, <1>7 DEF Trees
  <2>2. lens[h] \cup {Length(new)} \in SUBSET Int
    BY <1>5, <1>7
  <2>3. with \in [Files -> SUBSET Int] /\ with[h] = lens[h] \cup {Length(new)} /\ \A f \in Files : f # h => with[f] = lens[f]
    BY <1>6, <1>7, <2>2
  <2>4. QED
    BY <2>1, <2>3
<1>9. ch + 1 \in Nat /\ \A x \in Nat : x <= ch => x <= ch + 1
  BY <1>7, SMT
<1>10. ASSUME NEW f \in Files
       PROVE  Length(u[f]) \in with[f] /\ \A i \in Nat, x \in Nat : Has(u[f], i, x) => x <= ch + 1
  <2>1. CASE f = h
    BY <1>5, <1>8, <2>1
  <2>2. CASE f # h
    BY <1>7, <1>8, <1>9, <2>2
  <2>3. QED
    BY <2>1, <2>2
<1>11. TreeKnown(u, with, ch + 1)
  BY <1>8, <1>9, <1>10 DEF TreeKnown
<1>12. ASSUME NEW f \in Files
       PROVE  /\ f # h => u[f] = t[f]
              /\ lens[f] \subseteq with[f]
              /\ Length(u[f]) = Length(t[f]) \/ Length(u[f]) \notin lens[f]
              /\ \A i \in Nat, x \in Nat :
                   Has(u[f], i, x) => x = ch + 1 \/ (Has(t[f], i, x) /\ ~ (replaced /\ f = h))
  <2>1. CASE f = h
    BY <1>4, <1>5, <1>8, <2>1
  <2>2. CASE f # h
    BY <1>8, <2>2
  <2>3. QED
    BY <2>1, <2>2
<1>13. ~ replaced => u[h] # Absent
  BY <1>4, <1>8
<1>14. Changing(h, replaced, t, lens, ch, u, with)
  BY <1>4, <1>11, <1>12, <1>13 DEF Changing
<1>15. /\ tree' = u /\ lengths' = with /\ changes' = changes + 1 /\ UNCHANGED <<pc, stack, ctx, first>>
       /\ fd' = IF fd.name = h /\ fd.gone = Absent /\ replaced THEN [fd EXCEPT !.gone = tree[h]] ELSE fd
  BY <1>2, <1>3, <1>6 DEF Change
<1>16. Changing(h, replaced, tree, lengths, changes, u, with)
  BY <1>3, <1>14
<1>17. QED
  BY <1>15, <1>16

\* The open file, if its name is lost to it.
LEMMA FileLost ==
  ASSUME NEW e, NEW p, NEW g, NEW z, NEW x, NEW f, f = [name |-> e, position |-> p, gone |-> g, size |-> z]
  PROVE  [f EXCEPT !.gone = x] = [name |-> e, position |-> p, gone |-> x, size |-> z]
OBVIOUS

\* A scan under which a file is changed goes on with all it says still true.
LEMMA ChangedScan ==
  ASSUME SealIsTrue, Scanning, NEW h \in Files, NEW replaced \in BOOLEAN, NEW u, NEW with,
         Changing(h, replaced, tree, lengths, changes, u, with),
         tree' = u, lengths' = with, changes' = changes + 1, UNCHANGED <<pc, stack, ctx, first>>,
         fd' = IF fd.name = h /\ fd.gone = Absent /\ replaced THEN [fd EXCEPT !.gone = tree[h]] ELSE fd
  PROVE  \E g \in Logs, b \in Seq(Nat) : InScan(g, b)' /\ SecondScan(g, b)'
<1>1. PICK g \in Logs, b \in Seq(Nat) : InScan(g, b) /\ SecondScan(g, b)
  BY DEF SealIsTrue
<1>2. entry' = entry
  BY DEF entry
<1>3. PICK t, lens, ch : t = tree /\ lens = lengths /\ ch = changes
  OBVIOUS
<1>4. Changing(h, replaced, t, lens, ch, u, with) /\ changes' = ch + 1 /\ ch \in Nat
  BY <1>3 DEF Changing, TreeKnown
<1>5. Accounts(g, Pending(stack'), stack' # <<>>, tree', lengths', changes')
  <2>1. PICK p, o : p = Pending(stack) /\ o = (stack # <<>>)
    OBVIOUS
  <2>2. Accounts(g, p, o, t, lens, ch)
    BY <1>1, <1>3, <2>1 DEF InScan
  <2>3. Accounts(g, p, o, u, with, ch + 1)
    BY <1>4, <2>2, AccountsChange
  <2>4. p = Pending(stack') /\ o = (stack' # <<>>)
    BY <2>1
  <2>5. QED
    BY <1>4, <2>3, <2>4
<1>6. ASSUME pc \in {"count", "begin", "data"}
      PROVE  \E e \in Files, p \in Nat, gone, lost \in {Absent} \cup Seq(Nat), z \in Nat :
               /\ e = entry /\ fd.gone = gone /\ fd.size = z /\ fd.position = p
               /\ lost = GoneBytes(e, h, replaced, gone, t)
               /\ fd' = [name |-> e, position |-> p, gone |-> lost, size |-> z]
  <2>1. PICK p \in Nat, gone \in {Absent} \cup Seq(Nat), z \in Nat :
          fd = [name |-> entry, position |-> p, gone |-> gone, size |-> z] /\ entry \in Files
    BY <1>1, <1>6 DEF InScan, FileAtEntry
  <2>2. PICK e \in Files : e = entry
    BY <2>1
  <2>3. fd = [name |-> e, position |-> p, gone |-> gone, size |-> z]
    BY <2>1, <2>2
  <2>4. fd.name = e /\ fd.gone = gone /\ fd.size = z /\ fd.position = p
    BY <2>3
  <2>5. t[h] \in {Absent} \cup Seq(Nat)
    BY <1>4 DEF Changing, TreeKnown, Trees
  <2>6. PICK lost : lost = GoneBytes(e, h, replaced, gone, t)
    OBVIOUS
  <2>n. lost \in {Absent} \cup Seq(Nat)
    BY <2>5, <2>6 DEF GoneBytes
  <2>7. ASSUME e = h /\ gone = Absent /\ replaced
        PROVE  fd' = [name |-> e, position |-> p, gone |-> lost, size |-> z]
    <3>1. lost = t[h]
      BY <2>6, <2>7 DEF GoneBytes
    <3>2. fd' = [fd EXCEPT !.gone = lost]
      BY <1>3, <2>4, <2>7, <3>1
    <3>3. QED
      BY <2>3, <3>2, FileLost
  <2>8. ASSUME ~ (e = h /\ gone = Absent /\ replaced)
        PROVE  fd' = [name |-> e, position |-> p, gone |-> lost, size |-> z]
    <3>1. lost = gone
      BY <2>6, <2>8 DEF GoneBytes
    <3>2. fd' = fd
      BY <2>4, <2>8
    <3>3. QED
      BY <2>3, <3>1, <3>2
  <2>9. fd' = [name |-> e, position |-> p, gone |-> lost, size |-> z]
    BY <2>7, <2>8
  <2>10. QED
    <3>1. /\ e = entry /\ fd.gone = gone /\ fd.size = z /\ fd.position = p
          /\ lost = GoneBytes(e, h, replaced, gone, t)
          /\ fd' = [name |-> e, position |-> p, gone |-> lost, size |-> z]
      BY <2>2, <2>4, <2>6, <2>9
    <3> HIDE DEF Files, GoneBytes
    <3>2. QED
      BY <2>n, <3>1, Zenon
<1>7. InScan(g, b)'
  <2>1. /\ ctx' \in Contexts
        /\ stack' = <<>> => g = <<>>
        /\ pc' # "data" => ctx'.log = g /\ b = <<>>
    BY <1>1 DEF InScan
  <2>2. CASE pc \in {"count", "begin", "data"}
    <3>1. PICK e \in Files, p \in Nat, gone, lost \in {Absent} \cup Seq(Nat), z \in Nat :
               /\ e = entry /\ fd.gone = gone /\ fd.size = z /\ fd.position = p
               /\ lost = GoneBytes(e, h, replaced, gone, t)
               /\ fd' = [name |-> e, position |-> p, gone |-> lost, size |-> z]
      BY <1>6, <2>2
    <3>2. fd'.size = z /\ fd'.position = p /\ fd'.gone = lost
      BY <3>1
    <3>3. FileAtEntry'
      BY <1>2, <3>1 DEF FileAtEntry
    <3>4. pc' = "data" =>
            /\ ctx'.log = Cat(Cat(g, << <<"ENTR", entry', fd'.size, "REGULAR">> >>), logged(b))
            /\ ctx'.seen = Len(b) /\ fd'.position = Len(b)
      BY <1>1, <1>2, <3>1, <3>2 DEF InScan
    <3>5. pc' \in {"count", "data"} => OpenFileKnown(entry', fd'.gone, b, tree', lengths', changes')
      <4>1. SUFFICES ASSUME pc \in {"count", "data"} PROVE OpenFileKnown(e, lost, b, u, with, ch + 1)
        BY <1>2, <1>4, <3>1, <3>2
      <4>2. OpenFileKnown(e, gone, b, t, lens, ch)
        BY <1>1, <1>3, <3>1, <4>1 DEF InScan
      <4>3. OpenFileKnown(e, GoneBytes(e, h, replaced, gone, t), b, u, with, ch + 1)
        BY <1>4, <4>2, OpenFileChanges
      <4>4. QED
        BY <3>1, <4>3
    <3>6. QED
      BY <1>5, <2>1, <3>3, <3>4, <3>5 DEF InScan
  <2>3. CASE pc \notin {"count", "begin", "data"}
    BY <1>5, <2>1, <2>3 DEF InScan
  <2>4. QED
    BY <2>2, <2>3
<1>8. ASSUME first # <<>>
      PROVE  (\E lm, c0 : InSecondScan(g, b, FirstLog, FirstTree, lm, c0))'
  <2>1. PICK lm, c0 : InSecondScan(g, b, FirstLog, FirstTree, lm, c0)
    BY <1>1, <1>8 DEF SecondScan
  <2>2. PICK m, log : m = FirstTree /\ log = FirstLog
    OBVIOUS
  <2>3. FirstLog' = log /\ FirstTree' = m
    BY <2>2 DEF FirstLog, FirstTree
  <2>4. FirstScan(log, m, lm, c0) /\ Later(m, c0, lm, t, lens, ch) /\ c0 \in Nat
    BY <1>3, <2>1, <2>2 DEF InSecondScan, FirstScan
  <2>5. Later(m, c0, lm, u, with, ch + 1)
    BY <1>4, <2>4, LaterChanges
  <2>6. FirstScan(FirstLog', FirstTree', lm, c0) /\ Later(FirstTree', c0, lm, tree', lengths', changes')
    BY <1>4, <2>3, <2>4, <2>5
  <2>7. Agreeing(g, Pending(stack'), stack' # <<>>, FirstTree', FirstLog')
    <3>1. Agreeing(g, Pending(stack), stack # <<>>, m, log)
      BY <2>1, <2>2 DEF InSecondScan
    <3>2. QED
      BY <2>3, <3>1
  <2>8. CASE pc \in {"count", "begin", "data"}
    <3>1. PICK e \in Files, p \in Nat, gone, lost \in {Absent} \cup Seq(Nat), z \in Nat :
               /\ e = entry /\ fd.gone = gone /\ fd.size = z /\ fd.position = p
               /\ lost = GoneBytes(e, h, replaced, gone, t)
               /\ fd' = [name |-> e, position |-> p, gone |-> lost, size |-> z]
      BY <1>6, <2>8
    <3>2. fd'.size = z /\ fd'.position = p /\ fd'.gone = lost
      BY <3>1
    <3>3. lost = gone \/ lost = t[e]
      BY <3>1 DEF GoneBytes
    <3>4. pc \in {"count", "data"} => OpenFileAgrees(e, lost, b, u, m, lm, c0)
      <4>1. SUFFICES ASSUME pc \in {"count", "data"} PROVE OpenFileAgrees(e, lost, b, u, m, lm, c0)
        OBVIOUS
      <4>2. OpenFileAgrees(e, gone, b, t, m, lm, c0)
        BY <1>3, <2>1, <2>2, <3>1, <4>1 DEF InSecondScan
      <4>3. OpenFileAgrees(e, GoneBytes(e, h, replaced, gone, t), b, u, m, lm, c0)
        BY <1>4, <2>4, <4>2, OpenFileStillAgrees
      <4>4. QED
        BY <3>1, <4>3
    <3>5. pc = "data" => SizeAgrees(e, z, lost, b, u, m, lm, c0)
      <4>1. SUFFICES ASSUME pc = "data" PROVE SizeAgrees(e, z, lost, b, u, m, lm, c0)
        OBVIOUS
      <4>2. SizeAgrees(e, z, gone, b, t, m, lm, c0)
        BY <1>3, <2>1, <2>2, <3>1, <4>1 DEF InSecondScan
      <4>3. QED
        BY <1>4, <2>4, <3>3, <4>2, SizeStillAgrees
    <3>6. pc = "begin" => SizeAgrees(e, z, Absent, <<>>, u, m, lm, c0)
      <4>1. SUFFICES ASSUME pc = "begin" PROVE SizeAgrees(e, z, Absent, <<>>, u, m, lm, c0)
        OBVIOUS
      <4>2. PICK a, l : a = Absent /\ l = <<>>
        OBVIOUS
      <4>3. SizeAgrees(e, z, a, l, t, m, lm, c0)
        BY <1>3, <2>1, <2>2, <3>1, <4>1, <4>2 DEF InSecondScan
      <4>4. SizeAgrees(e, z, a, l, u, m, lm, c0)
        BY <1>4, <2>4, <4>3, SizeStillAgrees
      <4>5. QED
        BY <4>2, <4>4
    <3>7. /\ pc' \in {"count", "data"} => OpenFileAgrees(entry', fd'.gone, b, tree', FirstTree', lm, c0)
          /\ pc' = "begin" => SizeAgrees(entry', fd'.size, Absent, <<>>, tree', FirstTree', lm, c0)
          /\ pc' = "data" => SizeAgrees(entry', fd'.size, fd'.gone, b, tree', FirstTree', lm, c0)
      BY <1>2, <2>3, <3>1, <3>2, <3>4, <3>5, <3>6
    <3>8. InSecondScan(g, b, FirstLog, FirstTree, lm, c0)'
      BY <2>6, <2>7, <3>7 DEF InSecondScan
    <3>9. QED
      BY <3>8
  <2>9. CASE pc \notin {"count", "begin", "data"}
    <3>1. InSecondScan(g, b, FirstLog, FirstTree, lm, c0)'
      BY <2>6, <2>7, <2>9 DEF InSecondScan
    <3>2. QED
      BY <3>1
  <2>10. QED
    BY <2>8, <2>9
<1>9. SecondScan(g, b)'
  BY <1>8 DEF SecondScan
<1>10. QED
  BY <1>7, <1>9

LEMMA ChangeSeals ==
  ASSUME SealIsTrue, Change
  PROVE  SealIsTrue'
<1>1. PICK h \in Files, replaced \in BOOLEAN : \E u, with :
           /\ Changing(h, replaced, tree, lengths, changes, u, with)
           /\ tree' = u /\ lengths' = with /\ changes' = changes + 1 /\ UNCHANGED <<pc, stack, ctx, first>>
           /\ fd' = IF fd.name = h /\ fd.gone = Absent /\ replaced THEN [fd EXCEPT !.gone = tree[h]] ELSE fd
  BY ChangeIs DEF SealIsTrue
<1>2. PICK u, with :
           /\ Changing(h, replaced, tree, lengths, changes, u, with)
           /\ tree' = u /\ lengths' = with /\ changes' = changes + 1 /\ UNCHANGED <<pc, stack, ctx, first>>
           /\ fd' = IF fd.name = h /\ fd.gone = Absent /\ replaced THEN [fd EXCEPT !.gone = tree[h]] ELSE fd
  BY <1>1
<1>3. TreeKnown(tree, lengths, changes)'
  BY <1>2 DEF Changing
<1>4. CASE Scanning
  <2>1. \E g \in Logs, b \in Seq(Nat) : InScan(g, b)' /\ SecondScan(g, b)'
    BY <1>2, <1>4, ChangedScan
  <2>2. (\E g \in Logs, b \in Seq(Nat) : InScan(g, b) /\ SecondScan(g, b))'
    BY <2>1
  <2>3. pc' \notin {"compare", "write"}
    BY <1>2, <1>4 DEF Scanning
  <2>4. QED
    BY <1>3, <2>2, <2>3 DEF SealIsTrue
<1>5. CASE pc \in {"compare", "write"}
  <2>1. UNCHANGED <<pc, ctx, first>>
    BY <1>2
  <2>2. FirstLog = LogOf(FirstTree) \/ (pc = "compare" /\ pc' = pc)
    BY <1>5, <2>1 DEF SealIsTrue
  <2>3. QED
    BY <1>3, <1>5, <2>1, <2>2, SealStays
<1>6. CASE ~ Scanning /\ pc \notin {"compare", "write"}
  <2>1. ~ Scanning' /\ pc' \notin {"compare", "write"}
    BY <1>2, <1>6 DEF Scanning
  <2>2. QED
    BY <1>3, <2>1 DEF SealIsTrue
<1>7. QED
  BY <1>4, <1>5, <1>6

\* A step that changes nothing of the run or the tree.
LEMMA SealStutters ==
  ASSUME SealIsTrue, UNCHANGED vars
  PROVE  SealIsTrue'
<1>1. UNCHANGED <<tree, lengths, changes, pc, stack, fd, ctx, first>>
  BY DEF vars, environment
<1>2. entry' = entry /\ FirstLog' = FirstLog /\ FirstTree' = FirstTree
  BY <1>1 DEF entry, FirstLog, FirstTree
<1>3. ASSUME NEW g, NEW b, InScan(g, b)
      PROVE  InScan(g, b)'
  BY <1>1, <1>2, <1>3 DEF InScan, FileAtEntry
<1>4. ASSUME NEW g, NEW b, SecondScan(g, b)
      PROVE  SecondScan(g, b)'
  BY <1>1, <1>2, <1>4 DEF SecondScan, InSecondScan
<1>5. (Scanning => \E g \in Logs, b \in Seq(Nat) : InScan(g, b) /\ SecondScan(g, b))'
  BY <1>1, <1>3, <1>4 DEF SealIsTrue, Scanning
<1>6. QED
  BY <1>1, <1>2, <1>5 DEF SealIsTrue

LEMMA SealSteps == ScansAgree /\ SealIsTrue /\ [Next]_vars => SealIsTrue'
<1> SUFFICES ASSUME ScansAgree, SealIsTrue, [Next]_vars PROVE SealIsTrue'
  OBVIOUS
<1>1. CustodyPlaces
  BY DEF ScansAgree
<1>2. CASE Next
  BY <1>1, <1>2, ChangeSeals, StartSeals, OpenRootSeals, EnterDirectorySeals, SkipLinkSeals, StatFileSeals,
     CountFileSeals, BeginFileSeals, ReadFileSeals, EndFileSeals, LeaveDirectorySeals, FailsSeals,
     CompareSeals, WriteFileSeals DEF Next
<1>3. CASE UNCHANGED vars
  BY <1>3, SealStutters
<1>4. QED
  BY <1>2, <1>3

\* Whatever the tree and whoever changes it between any two steps of either
\* scan: if the two scans agree, the seal that is written is of the whole tree
\* as it was at one moment, when the first scan had ended.  As everywhere in
\* Custody16, no byte, length or absence that was changed comes back.
THEOREM SealedCorrect == Spec => []SealedIsTreeBetween
<1>1. SealIsTrue => SealedIsTreeBetween
  BY DEF SealIsTrue, SealedIsTreeBetween, FirstLog, FirstTree
<1>2. Init => SealIsTrue
  BY SealStarts
<1>3. QED
  BY <1>1, <1>2, ScanStarts, ScanSteps, SealSteps, PTL DEF Spec
=============================================================================
