---------------------------- MODULE ConflictAgent ----------------------------
(***************************************************************************)
(* The resumable conflict agent (porch/conflict_agent.rs): passes of       *)
(* run_once drive every pending row of conflict_queue through resolver     *)
(* attempts until one succeeds or the retry budget is used up, while the   *)
(* detector enqueues rows and the user gives verdicts.                     *)
(*                                                                         *)
(* Every SQL helper takes the porch mutex on its own, so the steps of a    *)
(* drive are the calls between two acquisitions of it; a resolver runs     *)
(* between them without the mutex, under a wall-clock timeout.             *)
(***************************************************************************)
EXTENDS Naturals, Sequences

CONSTANTS
  Conflict,      \* conflict ids
  Pass,          \* passes of run_once that may be under way at once
  MaxAttempts,   \* OrchestratorConfig::max_attempts
  MaxFailures    \* bound on crashes and failed SQL statements

ASSUME BudgetAssumption == MaxAttempts \in Nat \ {0} /\ MaxFailures \in Nat

VARIABLES
  status,    \* status[c]: the status column, "absent" before the row exists
  verdict,   \* verdict[c]: who gave final_verdict_json
  attempts,  \* attempts[c]: the rows of conflict_attempts in start order
  task,      \* task[p][c]: the drive_one task of pass p on conflict c
  forced,    \* history: conflicts the user sent to manual_required
  failures   \* crashes and failed statements so far

vars == <<status, verdict, attempts, task, forced, failures>>

ConflictStatus == {"absent", "pending", "resolved", "manual_required"}
AttemptState == {"running", "succeeded", "timeout", "aborted"}

\* snapshot: the row has a heartbeat; from: the attempt whose snapshot was in the
\* <<previous-session>> preamble of this one, 0 without a preamble.
Attempt == [state : AttemptState, snapshot : BOOLEAN, from : Nat]

\* pc: the next call of the task; prior: the attempt the next preamble is made
\* of, 0 if there is none or it did not time out; at: the running attempt.
Pc == {"idle", "prior", "count", "exhausted", "insert", "resolve", "succeeded"}
Task == [pc : Pc, prior : Nat, at : Nat]
NoTask == [pc |-> "idle", prior |-> 0, at |-> 0]

Init ==
  /\ status = [c \in Conflict |-> "absent"]
  /\ verdict = [c \in Conflict |-> "none"]
  /\ attempts = [c \in Conflict |-> <<>>]
  /\ task = [p \in Pass |-> [c \in Conflict |-> NoTask]]
  /\ forced = {}
  /\ failures = 0

-----------------------------------------------------------------------------
(***************************************************************************)
(* The detector and the user.                                              *)
(***************************************************************************)

\* INSERT OR IGNORE: the detector may fire again for the same conflict.
enqueue(c) ==
  /\ status[c] = "absent"
  /\ status' = [status EXCEPT ![c] = "pending"]
  /\ UNCHANGED <<verdict, attempts, task, forced, failures>>

manual_resolve(c) ==
  /\ status[c] \in {"pending", "manual_required"}
  /\ status' = [status EXCEPT ![c] = "resolved"]
  /\ verdict' = [verdict EXCEPT ![c] = "user"]
  /\ UNCHANGED <<attempts, task, forced, failures>>

\* Mutant: the UPDATE without AND status = 'pending'.
mark_manual_required_Unguarded(c) ==
  status' = [status EXCEPT ![c] = "manual_required"]

mark_manual_required(c) ==
  status' = IF status[c] = "pending"
            THEN [status EXCEPT ![c] = "manual_required"] ELSE status

force_manual(c) ==
  /\ status[c] = "pending"
  /\ mark_manual_required(c)
  /\ forced' = forced \cup {c}
  /\ UNCHANGED <<verdict, attempts, task, failures>>

-----------------------------------------------------------------------------
(***************************************************************************)
(* A pass.                                                                 *)
(***************************************************************************)

Goto(p, c, pc, prior, at) ==
  task' = [task EXCEPT ![p][c] = [pc |-> pc, prior |-> prior, at |-> at]]

\* The rows with resolved_at IS NULL: pending and manual_required ones.
list_unresolved == {c \in Conflict : status[c] \in {"pending", "manual_required"}}

\* One task per unresolved row; a task returns at once unless it read 'pending'.
\* A pass joins its tasks before it returns.
run_once(p) ==
  LET driven == {c \in list_unresolved : status[c] = "pending"} IN
  /\ \A c \in Conflict : task[p][c].pc = "idle"
  /\ driven # {}
  /\ task' = [task EXCEPT ![p] =
       [c \in Conflict |-> IF c \in driven THEN [NoTask EXCEPT !.pc = "prior"]
                                            ELSE NoTask]]
  /\ UNCHANGED <<status, verdict, attempts, forced, failures>>

\* The attempt whose snapshot goes into the next preamble if n was the last one.
Preamble(c, n) ==
  IF n \in DOMAIN attempts[c] /\ attempts[c][n].state = "timeout" THEN n ELSE 0

ReadPrior(p, c) ==
  /\ task[p][c].pc = "prior"
  /\ Goto(p, c, "count", Preamble(c, Len(attempts[c])), 0)
  /\ UNCHANGED <<status, verdict, attempts, forced, failures>>

\* Mutant: off by one in the budget test.
CountAttempts_OneMore(p, c) ==
  /\ task[p][c].pc = "count"
  /\ Goto(p, c, IF Len(attempts[c]) > MaxAttempts THEN "exhausted" ELSE "insert",
          task[p][c].prior, 0)
  /\ UNCHANGED <<status, verdict, attempts, forced, failures>>

CountAttempts(p, c) ==
  /\ task[p][c].pc = "count"
  /\ Goto(p, c, IF Len(attempts[c]) >= MaxAttempts THEN "exhausted" ELSE "insert",
          task[p][c].prior, 0)
  /\ UNCHANGED <<status, verdict, attempts, forced, failures>>

\* Mutant: the drive of a spent conflict returns without putting it before the user.
GiveUp_Silent(p, c) ==
  /\ task[p][c].pc = "exhausted"
  /\ Goto(p, c, "idle", 0, 0)
  /\ UNCHANGED <<status, verdict, attempts, forced, failures>>

GiveUp(p, c) ==
  /\ task[p][c].pc = "exhausted"
  /\ mark_manual_required(c)
  /\ Goto(p, c, "idle", 0, 0)
  /\ UNCHANGED <<verdict, attempts, forced, failures>>

insert_running(p, c) ==
  /\ task[p][c].pc = "insert"
  /\ attempts' = [attempts EXCEPT ![c] =
       Append(@, [state |-> "running", snapshot |-> FALSE, from |-> task[p][c].prior])]
  /\ Goto(p, c, "resolve", 0, Len(attempts[c]) + 1)
  /\ UNCHANGED <<status, verdict, forced, failures>>

\* A heartbeat of the resolver.  The timeout drops the resolver's future, so
\* none comes after it.
snapshot(p, c) ==
  LET n == task[p][c].at IN
  /\ task[p][c].pc = "resolve"
  /\ ~attempts[c][n].snapshot
  /\ attempts' = [attempts EXCEPT ![c][n].snapshot = TRUE]
  /\ UNCHANGED <<status, verdict, task, forced, failures>>

\* COALESCE keeps the stored snapshot when none is given.
finalize(c, n, state, blob) ==
  attempts' = [attempts EXCEPT ![c][n].state = state,
                               ![c][n].snapshot = @ \/ blob]

\* Mutant: the timed-out attempt is not carried into the next iteration.
ResolverTimesOut_Forgets(p, c) ==
  LET n == task[p][c].at IN
  /\ task[p][c].pc = "resolve"
  /\ finalize(c, n, "timeout", TRUE)
  /\ Goto(p, c, "count", 0, 0)
  /\ UNCHANGED <<status, verdict, forced, failures>>

\* Timeout reported by the resolver or by the wall clock: finalize writes the
\* last snapshot (or a placeholder) and the next iteration resumes from it.
ResolverTimesOut(p, c) ==
  LET n == task[p][c].at IN
  /\ task[p][c].pc = "resolve"
  /\ finalize(c, n, "timeout", TRUE)
  /\ Goto(p, c, "count", n, 0)
  /\ UNCHANGED <<status, verdict, forced, failures>>

\* The abort reason is written as the snapshot; nothing is resumed from it.
ResolverAborts(p, c) ==
  LET n == task[p][c].at IN
  /\ task[p][c].pc = "resolve"
  /\ finalize(c, n, "aborted", TRUE)
  /\ Goto(p, c, "count", 0, 0)
  /\ UNCHANGED <<status, verdict, forced, failures>>

ResolverSucceeds(p, c) ==
  LET n == task[p][c].at IN
  /\ task[p][c].pc = "resolve"
  /\ finalize(c, n, "succeeded", FALSE)
  /\ Goto(p, c, "succeeded", 0, n)
  /\ UNCHANGED <<status, verdict, forced, failures>>

mark_resolved(p, c) ==
  /\ task[p][c].pc = "succeeded"
  /\ status' = [status EXCEPT ![c] = "resolved"]
  /\ verdict' = [verdict EXCEPT ![c] = "agent"]
  /\ Goto(p, c, "idle", 0, 0)
  /\ UNCHANGED <<attempts, forced, failures>>

-----------------------------------------------------------------------------
(***************************************************************************)
(* Failures.  The tables stay, the tasks are gone.                         *)
(***************************************************************************)

\* A statement fails: `?` ends the task, run_once counts an error.
DriveFails(p, c) ==
  /\ task[p][c].pc # "idle"
  /\ failures < MaxFailures
  /\ failures' = failures + 1
  /\ Goto(p, c, "idle", 0, 0)
  /\ UNCHANGED <<status, verdict, attempts, forced>>

\* The application is closed or crashes.
Crash ==
  /\ \E p \in Pass, c \in Conflict : task[p][c].pc # "idle"
  /\ failures < MaxFailures
  /\ failures' = failures + 1
  /\ task' = [p \in Pass |-> [c \in Conflict |-> NoTask]]
  /\ UNCHANGED <<status, verdict, attempts, forced>>

Drive(p, c) ==
  \/ ReadPrior(p, c)
  \/ CountAttempts(p, c)
  \/ GiveUp(p, c)
  \/ insert_running(p, c)
  \/ snapshot(p, c)
  \/ ResolverTimesOut(p, c)
  \/ ResolverAborts(p, c)
  \/ ResolverSucceeds(p, c)
  \/ mark_resolved(p, c)

Next ==
  \/ \E c \in Conflict : enqueue(c) \/ manual_resolve(c) \/ force_manual(c)
  \/ \E p \in Pass : run_once(p)
  \/ \E p \in Pass, c \in Conflict : Drive(p, c) \/ DriveFails(p, c)
  \/ Crash

Spec == Init /\ [][Next]_vars

\* The wall-clock timeout ends every attempt and the runtime polls every task.
\* Nothing in the source calls run_once on a schedule: passes are not fair.
FairSpec == Spec /\ \A p \in Pass, c \in Conflict : WF_vars(Drive(p, c))

-----------------------------------------------------------------------------
(***************************************************************************)
(* Properties.                                                             *)
(***************************************************************************)

TypeOK ==
  /\ status \in [Conflict -> ConflictStatus]
  /\ verdict \in [Conflict -> {"none", "agent", "user"}]
  /\ attempts \in [Conflict -> Seq(Attempt)]
  /\ task \in [Pass -> [Conflict -> Task]]
  /\ \A p \in Pass, c \in Conflict :
       task[p][c].pc \in {"resolve", "succeeded"} => task[p][c].at \in DOMAIN attempts[c]
  /\ forced \subseteq Conflict
  /\ failures \in 0..MaxFailures

\* "Cap on total attempts per conflict": across resumed passes, crashes and
\* failed statements, no conflict gets more than max_attempts attempts.
WithinBudget == \A c \in Conflict : Len(attempts[c]) <= MaxAttempts

\* The user is asked only after the whole budget went by, or on request.
ManualOnlyWhenExhausted ==
  \A c \in Conflict : status[c] = "manual_required" =>
    c \in forced \/ Len(attempts[c]) >= MaxAttempts

\* max_attempts is how often a conflict is tried before the user is asked: not
\* more often, and not less.
BudgetIsKept == WithinBudget /\ ManualOnlyWhenExhausted

\* "Some(...) on every subsequent attempt whose predecessor terminated with
\* Timeout": in the same drive, in a later pass, or after a restart.
TimedOutContextFlows ==
  \A c \in Conflict : \A n \in DOMAIN attempts[c] :
    n > 1 /\ attempts[c][n - 1].state = "timeout" => attempts[c][n].from = n - 1

\* A verdict of the agent has its succeeded attempt in the audit trail, also when
\* the process dies between the two statements.
VerdictIsBacked ==
  \A c \in Conflict : verdict[c] = "agent" =>
    \E n \in DOMAIN attempts[c] : attempts[c][n].state = "succeeded"

\* The rows of conflict_attempts tell what happened: well formed, each resumed
\* from the one it followed, and with the success that a verdict came from.
AuditTrail == TypeOK /\ TimedOutContextFlows /\ VerdictIsBacked

\* What is decided stays: a task that still runs on a conflict when its verdict
\* comes in, and then uses up its budget, does not reopen it; and "once that
\* attempt finalizes the row is immutable".
DecidedIsFinal ==
  [][\A c \in Conflict :
       /\ status[c] = "resolved" => status'[c] = "resolved"
       /\ \A n \in DOMAIN attempts[c] :
            attempts[c][n].state # "running" => attempts'[c][n] = attempts[c][n]]_vars

\* One pass is enough: a conflict that a pass takes up is resolved or put before
\* the user, whatever the resolver does in each attempt and whatever earlier
\* passes left behind, unless a statement fails or the process dies on the way.
\* Who starts a pass is open; after a failure the next one has the same duty.
Settled(c) == status[c] \in {"resolved", "manual_required"}
PassesSettle ==
  \A p \in Pass, c \in Conflict, n \in 0..MaxFailures :
    task[p][c].pc = "prior" /\ failures = n ~> Settled(c) \/ failures > n
=============================================================================
