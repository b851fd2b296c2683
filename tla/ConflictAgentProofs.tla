------------------------ MODULE ConflictAgentProofs -------------------------
(***************************************************************************)
(* Theorems about the conflict agent: the budget is kept and the audit     *)
(* trail is sound, for any number of conflicts, any budget and any number  *)
(* of failures, as long as one pass runs at a time.                        *)
(***************************************************************************)
EXTENDS ConflictAgent, TLAPS

\* Callers await run_once before they call it again.
OnePass == \A p, q \in Pass : p = q

\* The number of the last attempt if that one timed out, and 0 otherwise.
LastTimeout(trail) ==
  IF Len(trail) > 0 /\ trail[Len(trail)].state = "timeout" THEN Len(trail) ELSE 0

\* What task t knows of the attempts as made on its conflict.
Fits(t, trail) ==
  /\ t.pc = "insert" => Len(trail) < MaxAttempts
  /\ t.pc = "exhausted" => Len(trail) >= MaxAttempts
  /\ t.pc \in {"count", "insert"} => t.prior = LastTimeout(trail)
  /\ t.pc = "resolve" => /\ Len(trail) > 0 /\ t.at = Len(trail)
                         /\ trail[Len(trail)].state = "running"
  /\ t.pc = "succeeded" => t.at \in 1..Len(trail) /\ trail[t.at].state = "succeeded"

\* Attempts within the budget, each with the context of a timed-out predecessor.
Resumed(trail) ==
  /\ Len(trail) <= MaxAttempts
  /\ \A n \in 1..Len(trail) : n > 1 /\ trail[n - 1].state = "timeout" => trail[n].from = n - 1

Won(trail) == \E n \in 1..Len(trail) : trail[n].state = "succeeded"

\* What a conflict's row says is backed by its attempts.
Backed(st, v, trail, asked) ==
  /\ st = "manual_required" => asked \/ Len(trail) >= MaxAttempts
  /\ v = "agent" => Won(trail)

Typed ==
  /\ status \in [Conflict -> ConflictStatus]
  /\ verdict \in [Conflict -> {"none", "agent", "user"}]
  /\ attempts \in [Conflict -> Seq(Attempt)]
  /\ task \in [Pass -> [Conflict -> Task]]
  /\ forced \subseteq Conflict
  /\ failures \in 0..MaxFailures

AgentInv ==
  /\ Typed
  /\ \A p \in Pass, c \in Conflict : Fits(task[p][c], attempts[c])
  /\ \A c \in Conflict : Resumed(attempts[c])
  /\ \A c \in Conflict : Backed(status[c], verdict[c], attempts[c], c \in forced)

-----------------------------------------------------------------------------

\* AgentInv says all that the properties do.
LEMMA Enough == AgentInv => BudgetIsKept /\ AuditTrail
  <1> SUFFICES ASSUME AgentInv
               PROVE  BudgetIsKept /\ AuditTrail
    OBVIOUS
  <1>1. ASSUME NEW c \in Conflict
        PROVE  DOMAIN attempts[c] = 1..Len(attempts[c]) /\ Len(attempts[c]) \in Nat
    <2>1. attempts[c] \in Seq(Attempt)
      BY DEF AgentInv, Typed
    <2> QED
      BY <2>1
  <1>2. BudgetIsKept
    BY DEF AgentInv, Resumed, Backed, BudgetIsKept, WithinBudget, ManualOnlyWhenExhausted
  <1>3. TypeOK
    <2>1. ASSUME NEW p \in Pass, NEW c \in Conflict, task[p][c].pc \in {"resolve", "succeeded"}
          PROVE  task[p][c].at \in DOMAIN attempts[c]
      <3>1. Fits(task[p][c], attempts[c]) /\ Len(attempts[c]) \in Nat
        BY <1>1 DEF AgentInv
      <3> QED
        BY <1>1, <2>1, <3>1 DEF Fits
    <2> QED
      BY <2>1 DEF AgentInv, Typed, TypeOK
  <1>4. TimedOutContextFlows
    BY <1>1 DEF AgentInv, Resumed, TimedOutContextFlows
  <1>5. VerdictIsBacked
    BY <1>1 DEF AgentInv, Backed, Won, VerdictIsBacked
  <1> QED
    BY <1>2, <1>3, <1>4, <1>5 DEF AuditTrail

\* No conflict is known at the start.
LEMMA AgentInit == Init => AgentInv
  <1> SUFFICES ASSUME Init
               PROVE  AgentInv
    OBVIOUS
  <1>1. /\ \A c \in Conflict : attempts[c] = <<>> /\ status[c] = "absent" /\ verdict[c] = "none"
        /\ \A p \in Pass, c \in Conflict : task[p][c] = NoTask
        /\ <<>> \in Seq(Attempt) /\ Len(<<>>) = 0 /\ NoTask \in Task /\ NoTask.pc = "idle"
    BY DEF Init, NoTask, Task, Pc
  <1>2. Typed
    BY <1>1, BudgetAssumption DEF Init, Typed, ConflictStatus
  <1>3. \A p \in Pass, c \in Conflict : Fits(task[p][c], attempts[c])
    BY <1>1, Zenon DEF Fits
  <1>4. \A c \in Conflict : Resumed(attempts[c])
    <2>1. Resumed(<<>>)
      BY BudgetAssumption DEF Resumed
    <2> QED
      BY <1>1, <2>1, Zenon
  <1>5. \A c \in Conflict : Backed(status[c], verdict[c], attempts[c], c \in forced)
    BY <1>1, Zenon DEF Backed
  <1> QED
    BY <1>2, <1>3, <1>4, <1>5 DEF AgentInv

-----------------------------------------------------------------------------

\* A step that concerns one conflict: it leaves the rows, the attempts and the
\* tasks of all others alone.
Touches(c, st, v, trail, asked) ==
  /\ status' = [status EXCEPT ![c] = st]
  /\ verdict' = [verdict EXCEPT ![c] = v]
  /\ attempts' = [attempts EXCEPT ![c] = trail]
  /\ forced' = IF asked THEN forced \cup {c} ELSE forced

\* Such a step keeps AgentInv if what it leaves behind fits together.
LEMMA OneConflict ==
  ASSUME AgentInv, OnePass,
         NEW c \in Conflict, NEW st \in ConflictStatus, NEW v \in {"none", "agent", "user"},
         NEW trail \in Seq(Attempt), NEW asked \in BOOLEAN,
         Touches(c, st, v, trail, asked),
         failures' \in 0..MaxFailures,
         task' \in [Pass -> [Conflict -> Task]],
         \A p \in Pass, d \in Conflict : d # c => task'[p][d] = task[p][d],
         \A p \in Pass : Fits(task'[p][c], trail),
         Resumed(trail),
         Backed(st, v, trail, asked \/ c \in forced)
  PROVE  AgentInv'
  <1>1. /\ status'[c] = st /\ verdict'[c] = v /\ attempts'[c] = trail
        /\ \A d \in Conflict : d # c =>
             status'[d] = status[d] /\ verdict'[d] = verdict[d] /\ attempts'[d] = attempts[d]
    BY DEF AgentInv, Typed, Touches
  <1>2. \A d \in Conflict : d # c => (d \in forced' <=> d \in forced)
    BY DEF Touches
  <1>3. c \in forced' <=> asked \/ c \in forced
    BY DEF Touches
  <1>4. Typed'
    BY DEF AgentInv, Typed, Touches
  <1>5. \A p \in Pass, d \in Conflict : Fits(task'[p][d], attempts'[d])
    BY <1>1 DEF AgentInv
  <1>6. \A d \in Conflict : Resumed(attempts'[d])
    BY <1>1 DEF AgentInv
  <1>7. \A d \in Conflict : Backed(status'[d], verdict'[d], attempts'[d], d \in forced')
    <2> TAKE d \in Conflict
    <2>1. CASE d = c
      BY <1>1, <1>3, <2>1 DEF Backed
    <2>2. CASE d # c
      BY <1>1, <1>2, <2>2 DEF AgentInv, Backed
    <2> QED
      BY <2>1, <2>2
  <1> QED
    BY <1>4, <1>5, <1>6, <1>7 DEF AgentInv

\* What Goto does to the tasks.
LEMMA GotoTask ==
  ASSUME AgentInv, NEW p \in Pass, NEW c \in Conflict,
         NEW pc \in Pc, NEW prior \in Nat, NEW at \in Nat,
         Goto(p, c, pc, prior, at)
  PROVE  /\ task' \in [Pass -> [Conflict -> Task]]
         /\ task'[p][c] = [pc |-> pc, prior |-> prior, at |-> at]
         /\ \A q \in Pass, d \in Conflict : q # p \/ d # c => task'[q][d] = task[q][d]
  <1> DEFINE t == [pc |-> pc, prior |-> prior, at |-> at]
  <1>1. t \in Task
    BY DEF Task
  <1>2. task \in [Pass -> [Conflict -> Task]]
    BY DEF AgentInv, Typed
  <1>3. task' = [task EXCEPT ![p][c] = t]
    BY DEF Goto
  <1> HIDE DEF t
  <1>4. /\ task' \in [Pass -> [Conflict -> Task]]
        /\ task'[p][c] = t
        /\ \A q \in Pass, d \in Conflict : q # p \/ d # c => task'[q][d] = task[q][d]
    BY <1>1, <1>2, <1>3
  <1> QED
    BY <1>4 DEF t

\* A step of a task on its conflict keeps AgentInv if what it leaves behind fits.
LEMMA OneTask ==
  ASSUME AgentInv, OnePass, NEW p \in Pass, NEW c \in Conflict,
         NEW st \in ConflictStatus, NEW v \in {"none", "agent", "user"}, NEW trail \in Seq(Attempt),
         NEW pc \in Pc, NEW prior \in Nat, NEW at \in Nat,
         Goto(p, c, pc, prior, at),
         Touches(c, st, v, trail, FALSE),
         failures' \in 0..MaxFailures,
         Fits([pc |-> pc, prior |-> prior, at |-> at], trail),
         Resumed(trail),
         Backed(st, v, trail, c \in forced)
  PROVE  AgentInv'
  <1>1. /\ task' \in [Pass -> [Conflict -> Task]]
        /\ task'[p][c] = [pc |-> pc, prior |-> prior, at |-> at]
        /\ \A q \in Pass, d \in Conflict : q # p \/ d # c => task'[q][d] = task[q][d]
    BY GotoTask
  <1>2. \A q \in Pass : Fits(task'[q][c], trail)
    BY <1>1 DEF OnePass
  <1>3. Backed(st, v, trail, FALSE \/ c \in forced)
    BY DEF Backed
  <1> QED
    BY <1>1, <1>2, <1>3, OneConflict, ZenonT(40)

\* What is known of a conflict and of the task on it.
LEMMA Known ==
  ASSUME AgentInv, NEW p \in Pass, NEW c \in Conflict
  PROVE  /\ status[c] \in ConflictStatus /\ verdict[c] \in {"none", "agent", "user"}
         /\ attempts[c] \in Seq(Attempt) /\ Len(attempts[c]) \in Nat
         /\ DOMAIN attempts[c] = 1..Len(attempts[c])
         /\ task[p][c] \in Task
         /\ task[p][c].pc \in Pc /\ task[p][c].prior \in Nat /\ task[p][c].at \in Nat
         /\ Fits(task[p][c], attempts[c]) /\ Resumed(attempts[c])
         /\ Backed(status[c], verdict[c], attempts[c], c \in forced)
         /\ LastTimeout(attempts[c]) \in Nat
         /\ failures \in 0..MaxFailures
  <1>1. status[c] \in ConflictStatus /\ verdict[c] \in {"none", "agent", "user"}
    BY DEF AgentInv, Typed
  <1>2. attempts[c] \in Seq(Attempt)
    BY DEF AgentInv, Typed
  <1>3. Len(attempts[c]) \in Nat /\ DOMAIN attempts[c] = 1..Len(attempts[c])
    BY <1>2
  <1>4. task[p][c] \in Task
    BY DEF AgentInv, Typed
  <1>5. task[p][c].pc \in Pc /\ task[p][c].prior \in Nat /\ task[p][c].at \in Nat
    BY <1>4 DEF Task
  <1>6. LastTimeout(attempts[c]) \in Nat
    BY <1>3 DEF LastTimeout
  <1> QED
    BY <1>1, <1>2, <1>3, <1>4, <1>5, <1>6 DEF AgentInv, Typed

\* Nothing of the conflict's row and attempts is touched.
LEMMA Untouched ==
  ASSUME AgentInv, NEW c \in Conflict, UNCHANGED <<status, verdict, attempts, forced>>
  PROVE  Touches(c, status[c], verdict[c], attempts[c], FALSE)
  BY DEF AgentInv, Typed, Touches

-----------------------------------------------------------------------------

\* Writing attempt n of a sequence: the others stay, and n was resumed from what
\* it was.
LEMMA Rewritten ==
  ASSUME NEW trail \in Seq(Attempt), NEW n \in 1..Len(trail), NEW r \in Attempt,
         r.from = trail[n].from
  PROVE  LET new == [trail EXCEPT ![n] = r] IN
         /\ new \in Seq(Attempt) /\ Len(new) = Len(trail)
         /\ new[n] = r
         /\ \A m \in 1..Len(trail) : m # n => new[m] = trail[m]
         /\ \A m \in 1..Len(trail) : new[m].from = trail[m].from
  <1> DEFINE new == [trail EXCEPT ![n] = r]
  <1>1. new \in Seq(Attempt) /\ Len(new) = Len(trail)
    OBVIOUS
  <1>2. new[n] = r /\ \A m \in 1..Len(trail) : m # n => new[m] = trail[m]
    OBVIOUS
  <1>3. \A m \in 1..Len(trail) : new[m].from = trail[m].from
    BY <1>2
  <1> QED
    BY <1>1, <1>2, <1>3

\* finalize writes one attempt, with the state it is given.
LEMMA Finalizes ==
  ASSUME AgentInv, NEW c \in Conflict, NEW n \in 1..Len(attempts[c]),
         NEW state \in AttemptState, NEW blob \in BOOLEAN,
         finalize(c, n, state, blob)
  PROVE  \E r \in Attempt :
           /\ r.state = state /\ r.from = attempts[c][n].from
           /\ attempts' = [attempts EXCEPT ![c] = [@ EXCEPT ![n] = r]]
  <1>1. attempts \in [Conflict -> Seq(Attempt)] /\ attempts[c] \in Seq(Attempt)
    BY DEF AgentInv, Typed
  <1>2. attempts[c][n] \in Attempt
    BY <1>1
  <1> DEFINE old == attempts[c][n]
             r == [old EXCEPT !.state = state, !.snapshot = @ \/ blob]
  <1>3. (old.snapshot \/ blob) \in BOOLEAN
    BY Zenon
  <1>4. r \in Attempt /\ r.state = state /\ r.from = old.from
    BY <1>2, <1>3 DEF Attempt
  <1>5. attempts' = [attempts EXCEPT ![c] = [@ EXCEPT ![n] = r]]
    BY <1>1 DEF finalize
  <1> QED
    BY <1>4, <1>5

\* When the last attempt, a running one, gets another state, the rest of the
\* trail stands.
LEMMA TrailStands ==
  ASSUME NEW trail \in Seq(Attempt), Len(trail) > 0, NEW r \in Attempt,
         trail[Len(trail)].state = "running", r.from = trail[Len(trail)].from, Resumed(trail)
  PROVE  LET new == [trail EXCEPT ![Len(trail)] = r] IN
         /\ new \in Seq(Attempt) /\ Len(new) = Len(trail) /\ new[Len(trail)] = r
         /\ Resumed(new) /\ (Won(trail) => Won(new))
  <1> DEFINE new == [trail EXCEPT ![Len(trail)] = r]
  <1>1. Len(trail) \in Nat /\ Len(trail) \in 1..Len(trail)
    OBVIOUS
  <1>2. /\ new \in Seq(Attempt) /\ Len(new) = Len(trail) /\ new[Len(trail)] = r
        /\ \A m \in 1..Len(trail) : m # Len(trail) => new[m] = trail[m]
        /\ \A m \in 1..Len(trail) : new[m].from = trail[m].from
    BY <1>1, Rewritten
  <1> HIDE DEF new
  <1>3. Resumed(new)
    <2>1. Len(new) <= MaxAttempts
      BY <1>2 DEF Resumed
    <2>2. ASSUME NEW n \in 1..Len(new), n > 1, new[n - 1].state = "timeout"
          PROVE  new[n].from = n - 1
      <3>1. n - 1 \in 1..Len(trail) /\ n - 1 # Len(trail) /\ n \in 1..Len(trail)
        BY <1>1, <1>2, <2>2
      <3>2. new[n - 1] = trail[n - 1] /\ new[n].from = trail[n].from
        BY <1>2, <3>1
      <3> QED
        BY <2>2, <3>1, <3>2 DEF Resumed
    <2> QED
      BY <2>1, <2>2 DEF Resumed
  <1>4. ASSUME Won(trail)
        PROVE  Won(new)
    <2>1. PICK n \in 1..Len(trail) : trail[n].state = "succeeded"
      BY <1>4 DEF Won
    <2>2. n # Len(trail)
      BY <2>1
    <2> QED
      BY <1>2, <2>1, <2>2 DEF Won
  <1> QED
    BY <1>2, <1>3, <1>4 DEF new

\* One more attempt, resumed from the last one if that timed out.
LEMMA TrailGrows ==
  ASSUME NEW trail \in Seq(Attempt), NEW r \in Attempt, Len(trail) < MaxAttempts,
         r.from = LastTimeout(trail), Resumed(trail)
  PROVE  LET new == Append(trail, r) IN
         /\ new \in Seq(Attempt) /\ Len(new) = Len(trail) + 1 /\ new[Len(trail) + 1] = r
         /\ Resumed(new) /\ (Won(trail) => Won(new))
  <1> DEFINE new == Append(trail, r)
  <1>1. /\ Len(trail) \in Nat
        /\ new \in Seq(Attempt) /\ Len(new) = Len(trail) + 1 /\ new[Len(trail) + 1] = r
        /\ \A m \in 1..Len(trail) : new[m] = trail[m]
    OBVIOUS
  <1> HIDE DEF new
  <1>2. Resumed(new)
    <2>1. Len(new) <= MaxAttempts
      BY <1>1, BudgetAssumption
    <2>2. ASSUME NEW n \in 1..Len(new), n > 1, new[n - 1].state = "timeout"
          PROVE  new[n].from = n - 1
      <3>1. n - 1 \in 1..Len(trail) /\ new[n - 1] = trail[n - 1]
        BY <1>1, <2>2
      <3>2. CASE n = Len(trail) + 1
        <4>1. trail[Len(trail)].state = "timeout" /\ Len(trail) > 0
          BY <1>1, <2>2, <3>1, <3>2
        <4>2. r.from = Len(trail)
          BY <4>1 DEF LastTimeout
        <4> QED
          BY <1>1, <3>2, <4>2
      <3>3. CASE n # Len(trail) + 1
        <4>1. n \in 1..Len(trail) /\ new[n] = trail[n]
          BY <1>1, <3>3
        <4> QED
          BY <2>2, <3>1, <4>1 DEF Resumed
      <3> QED
        BY <3>2, <3>3
    <2> QED
      BY <2>1, <2>2 DEF Resumed
  <1>3. Won(trail) => Won(new)
    BY <1>1 DEF Won
  <1> QED
    BY <1>1, <1>2, <1>3 DEF new

-----------------------------------------------------------------------------

\* The steps that only look, and the one that gives up.
LEMMA Looks ==
  ASSUME AgentInv, OnePass, NEW p \in Pass, NEW c \in Conflict,
         ReadPrior(p, c) \/ CountAttempts(p, c) \/ DriveFails(p, c)
  PROVE  AgentInv'
  <1>1. Touches(c, status[c], verdict[c], attempts[c], FALSE)
    BY Untouched DEF ReadPrior, CountAttempts, DriveFails
  <1>2. CASE ReadPrior(p, c)
    <2> DEFINE prior == Preamble(c, Len(attempts[c]))
    <2>1. prior = LastTimeout(attempts[c]) /\ prior \in Nat
      BY Known DEF Preamble, LastTimeout
    <2>2. Goto(p, c, "count", prior, 0) /\ failures' = failures
      BY <1>2 DEF ReadPrior
    <2> HIDE DEF prior
    <2>3. Fits([pc |-> "count", prior |-> prior, at |-> 0], attempts[c])
      BY <2>1 DEF Fits
    <2>4. "count" \in Pc /\ 0 \in Nat
      BY DEF Pc
    <2> QED
      BY <1>1, <2>1, <2>2, <2>3, <2>4, Known, OneTask
  <1>3. CASE CountAttempts(p, c)
    <2> DEFINE pc == IF Len(attempts[c]) >= MaxAttempts THEN "exhausted" ELSE "insert"
               prior == task[p][c].prior
    <2>1. task[p][c].pc = "count" /\ Goto(p, c, pc, prior, 0) /\ failures' = failures
      BY <1>3 DEF CountAttempts
    <2>2. prior \in Nat /\ prior = LastTimeout(attempts[c]) /\ pc \in Pc
      BY <2>1, Known DEF Fits, Pc
    <2>3. Fits([pc |-> pc, prior |-> prior, at |-> 0], attempts[c])
      BY <2>2, Known, BudgetAssumption DEF Fits
    <2> HIDE DEF pc, prior
    <2> QED
      BY <1>1, <2>1, <2>2, <2>3, Known, OneTask
  <1>4. CASE DriveFails(p, c)
    <2>1. Goto(p, c, "idle", 0, 0) /\ failures' \in 0..MaxFailures
      BY <1>4, Known, BudgetAssumption DEF DriveFails
    <2>2. Fits([pc |-> "idle", prior |-> 0, at |-> 0], attempts[c]) /\ "idle" \in Pc
      BY DEF Fits, Pc
    <2> QED
      BY <1>1, <2>1, <2>2, Known, OneTask
  <1> QED
    BY <1>2, <1>3, <1>4

\* The steps that end a drive with a row of conflict_queue written.
LEMMA Ends ==
  ASSUME AgentInv, OnePass, NEW p \in Pass, NEW c \in Conflict,
         GiveUp(p, c) \/ mark_resolved(p, c)
  PROVE  AgentInv'
  <1>1. /\ Goto(p, c, "idle", 0, 0) /\ failures' = failures
        /\ Fits([pc |-> "idle", prior |-> 0, at |-> 0], attempts[c]) /\ "idle" \in Pc
    BY DEF GiveUp, mark_resolved, Fits, Pc
  <1>2. CASE GiveUp(p, c)
    <2> DEFINE st == IF status[c] = "pending" THEN "manual_required" ELSE status[c]
    <2>1. Touches(c, st, verdict[c], attempts[c], FALSE) /\ st \in ConflictStatus
      BY <1>2 DEF GiveUp, mark_manual_required, AgentInv, Typed, Touches, ConflictStatus
    <2>2. Len(attempts[c]) >= MaxAttempts
      BY <1>2, Known DEF GiveUp, Fits
    <2>3. Backed(st, verdict[c], attempts[c], c \in forced)
      BY <2>2, Known DEF Backed
    <2> HIDE DEF st
    <2> QED
      BY <1>1, <2>1, <2>3, Known, OneTask
  <1>3. CASE mark_resolved(p, c)
    <2>1. Touches(c, "resolved", "agent", attempts[c], FALSE) /\ "resolved" \in ConflictStatus
      BY <1>3 DEF mark_resolved, AgentInv, Typed, Touches, ConflictStatus
    <2>2. \E n \in 1..Len(attempts[c]) : attempts[c][n].state = "succeeded"
      BY <1>3, Known DEF mark_resolved, Fits
    <2>3. Backed("resolved", "agent", attempts[c], c \in forced)
      BY <2>2 DEF Backed, Won
    <2> QED
      BY <1>1, <2>1, <2>3, Known, OneTask
  <1> QED
    BY <1>2, <1>3

\* A new attempt: there is room for it, and prior is the last one if that timed
\* out, since this is the only task on the conflict.
LEMMA Inserts ==
  ASSUME AgentInv, OnePass, NEW p \in Pass, NEW c \in Conflict, insert_running(p, c)
  PROVE  AgentInv'
  <1> DEFINE r == [state |-> "running", snapshot |-> FALSE, from |-> task[p][c].prior]
             new == Append(attempts[c], r)
             n == Len(attempts[c]) + 1
  <1>1. /\ task[p][c].pc = "insert" /\ Goto(p, c, "resolve", 0, n) /\ failures' = failures
        /\ attempts' = [attempts EXCEPT ![c] = new]
        /\ UNCHANGED <<status, verdict, forced>>
    BY DEF insert_running
  <1>2. Len(attempts[c]) < MaxAttempts /\ r.from = LastTimeout(attempts[c])
    BY <1>1, Known DEF Fits
  <1>3. r \in Attempt /\ r.state = "running"
    BY Known DEF Attempt, AttemptState
  <1> HIDE DEF r
  <1>4. /\ new \in Seq(Attempt) /\ Len(new) = n /\ new[n] = r
        /\ Resumed(new) /\ (Won(attempts[c]) => Won(new))
    <2>1. attempts[c] \in Seq(Attempt) /\ Resumed(attempts[c])
      BY Known
    <2> QED
      BY <1>2, <1>3, <2>1, TrailGrows
  <1>5. n \in Nat /\ n > 0 /\ "resolve" \in Pc
    BY Known DEF Pc
  <1> HIDE DEF new
  <1>6. Fits([pc |-> "resolve", prior |-> 0, at |-> n], new)
    BY <1>3, <1>4, <1>5 DEF Fits
  <1>7. Touches(c, status[c], verdict[c], new, FALSE)
    BY <1>1 DEF AgentInv, Typed, Touches
  <1>8. Backed(status[c], verdict[c], new, c \in forced)
    BY <1>4, <1>5, Known, BudgetAssumption DEF Backed
  <1>9. /\ status[c] \in ConflictStatus /\ verdict[c] \in {"none", "agent", "user"}
        /\ failures' \in 0..MaxFailures /\ 0 \in Nat
    BY <1>1, Known
  <1> HIDE DEF n
  <1> QED
    BY <1>1, <1>4, <1>5, <1>6, <1>7, <1>8, <1>9, OneTask

\* A heartbeat rewrites the last attempt with the state it has.
LEMMA Snapshots ==
  ASSUME AgentInv, OnePass, NEW p \in Pass, NEW c \in Conflict, snapshot(p, c)
  PROVE  AgentInv'
  <1> DEFINE n == task[p][c].at
             r == [attempts[c][n] EXCEPT !.snapshot = TRUE]
             new == [attempts[c] EXCEPT ![n] = r]
  <1>1. /\ task[p][c].pc = "resolve" /\ n = Len(attempts[c]) /\ Len(attempts[c]) > 0
        /\ attempts[c][n].state = "running" /\ n \in 1..Len(attempts[c])
    BY Known DEF snapshot, Fits
  <1>2. attempts[c][n] \in Attempt
    BY <1>1, Known
  <1>3. r \in Attempt /\ r.state = "running" /\ r.from = attempts[c][n].from
    BY <1>1, <1>2 DEF Attempt
  <1>4. /\ attempts' = [attempts EXCEPT ![c] = new]
        /\ UNCHANGED <<status, verdict, task, forced, failures>>
    BY DEF snapshot, AgentInv, Typed
  <1> HIDE DEF r
  <1>5. /\ new \in Seq(Attempt) /\ Len(new) = Len(attempts[c]) /\ new[n] = r
        /\ Resumed(new) /\ (Won(attempts[c]) => Won(new))
    <2>1. attempts[c] \in Seq(Attempt) /\ Resumed(attempts[c])
      BY Known
    <2> QED
      BY <1>1, <1>3, <2>1, TrailStands
  <1> HIDE DEF new
  <1>6. Fits(task[p][c], new)
    BY <1>1, <1>3, <1>5 DEF Fits
  <1>7. \A q \in Pass : Fits(task'[q][c], new)
    BY <1>4, <1>6 DEF OnePass
  <1>8. Touches(c, status[c], verdict[c], new, FALSE)
    BY <1>4 DEF AgentInv, Typed, Touches
  <1>9. Backed(status[c], verdict[c], new, FALSE \/ c \in forced)
    BY <1>5, Known DEF Backed
  <1>10. task' \in [Pass -> [Conflict -> Task]] /\ failures' \in 0..MaxFailures
    BY <1>4 DEF AgentInv, Typed
  <1>11. \A q \in Pass, d \in Conflict : d # c => task'[q][d] = task[q][d]
    BY <1>4
  <1>12. status[c] \in ConflictStatus /\ verdict[c] \in {"none", "agent", "user"}
    BY Known
  <1> HIDE DEF n
  <1> QED
    BY <1>5, <1>7, <1>8, <1>9, <1>10, <1>11, <1>12, OneConflict

\* The resolver ends: finalize writes the last attempt, which was running.
LEMMA Resolves ==
  ASSUME AgentInv, OnePass, NEW p \in Pass, NEW c \in Conflict,
         ResolverTimesOut(p, c) \/ ResolverAborts(p, c) \/ ResolverSucceeds(p, c)
  PROVE  AgentInv'
  <1> DEFINE n == task[p][c].at
  <1>1. /\ task[p][c].pc = "resolve" /\ n = Len(attempts[c]) /\ Len(attempts[c]) > 0
        /\ attempts[c][n].state = "running" /\ n \in 1..Len(attempts[c]) /\ n \in Nat
    <2>1. task[p][c].pc = "resolve"
      BY DEF ResolverTimesOut, ResolverAborts, ResolverSucceeds
    <2> QED
      BY <2>1, Known DEF Fits
  <1>2. PICK s \in {"timeout", "aborted", "succeeded"}, b \in BOOLEAN :
          /\ finalize(c, n, s, b)
          /\ s = "timeout" => Goto(p, c, "count", n, 0)
          /\ s = "aborted" => Goto(p, c, "count", 0, 0)
          /\ s = "succeeded" => Goto(p, c, "succeeded", 0, n)
    <2>1. CASE ResolverTimesOut(p, c)
      BY <2>1 DEF ResolverTimesOut
    <2>2. CASE ResolverAborts(p, c)
      BY <2>2 DEF ResolverAborts
    <2>3. CASE ResolverSucceeds(p, c)
      BY <2>3 DEF ResolverSucceeds
    <2> QED
      BY <2>1, <2>2, <2>3
  <1>3. UNCHANGED <<status, verdict, forced, failures>>
    BY DEF ResolverTimesOut, ResolverAborts, ResolverSucceeds
  <1>4. s \in AttemptState
    BY DEF AttemptState
  <1>5. PICK r \in Attempt :
          /\ r.state = s /\ r.from = attempts[c][n].from
          /\ attempts' = [attempts EXCEPT ![c] = [@ EXCEPT ![n] = r]]
    BY <1>1, <1>2, <1>4, Finalizes
  <1> DEFINE new == [attempts[c] EXCEPT ![n] = r]
  <1>6. /\ new \in Seq(Attempt) /\ Len(new) = Len(attempts[c]) /\ new[n] = r
        /\ Resumed(new) /\ (Won(attempts[c]) => Won(new))
    <2>1. attempts[c] \in Seq(Attempt) /\ Resumed(attempts[c])
      BY Known
    <2> QED
      BY <1>1, <1>5, <2>1, TrailStands
  <1>7. Touches(c, status[c], verdict[c], new, FALSE)
    BY <1>3, <1>5 DEF AgentInv, Typed, Touches
  <1> HIDE DEF new
  <1>8. /\ Backed(status[c], verdict[c], new, c \in forced)
        /\ "count" \in Pc /\ "succeeded" \in Pc /\ 0 \in Nat
        /\ status[c] \in ConflictStatus /\ verdict[c] \in {"none", "agent", "user"}
        /\ failures' \in 0..MaxFailures
    BY <1>3, <1>6, Known DEF Backed, Pc
  <1> HIDE DEF n
  <1>9. CASE s = "timeout"
    <2>1. Fits([pc |-> "count", prior |-> n, at |-> 0], new)
      BY <1>1, <1>5, <1>6, <1>9 DEF Fits, LastTimeout
    <2> QED
      BY <1>1, <1>2, <1>6, <1>7, <1>8, <1>9, <2>1, OneTask
  <1>10. CASE s = "aborted"
    <2>1. Fits([pc |-> "count", prior |-> 0, at |-> 0], new)
      BY <1>1, <1>5, <1>6, <1>10 DEF Fits, LastTimeout
    <2> QED
      BY <1>1, <1>2, <1>6, <1>7, <1>8, <1>10, <2>1, OneTask
  <1>11. CASE s = "succeeded"
    <2>1. Fits([pc |-> "succeeded", prior |-> 0, at |-> n], new)
      BY <1>1, <1>5, <1>6, <1>11 DEF Fits
    <2> QED
      BY <1>1, <1>2, <1>6, <1>7, <1>8, <1>11, <2>1, OneTask
  <1> QED
    BY <1>9, <1>10, <1>11

\* The detector and the user.
LEMMA Outside ==
  ASSUME AgentInv, OnePass, NEW c \in Conflict,
         enqueue(c) \/ manual_resolve(c) \/ force_manual(c)
  PROVE  AgentInv'
  <1>1. /\ task' \in [Pass -> [Conflict -> Task]] /\ failures' \in 0..MaxFailures
        /\ \A p \in Pass, d \in Conflict : d # c => task'[p][d] = task[p][d]
        /\ \A p \in Pass : Fits(task'[p][c], attempts[c])
    BY DEF AgentInv, Typed, enqueue, manual_resolve, force_manual
  <1>2. /\ attempts[c] \in Seq(Attempt) /\ Resumed(attempts[c])
        /\ status[c] \in ConflictStatus /\ verdict[c] \in {"none", "agent", "user"}
        /\ Backed(status[c], verdict[c], attempts[c], c \in forced)
    BY DEF AgentInv, Typed
  <1>3. CASE enqueue(c)
    <2>1. Touches(c, "pending", verdict[c], attempts[c], FALSE) /\ "pending" \in ConflictStatus
      BY <1>3 DEF enqueue, AgentInv, Typed, Touches, ConflictStatus
    <2>2. Backed("pending", verdict[c], attempts[c], FALSE \/ c \in forced)
      BY <1>2 DEF Backed
    <2> QED
      BY <1>1, <1>2, <2>1, <2>2, OneConflict
  <1>4. CASE manual_resolve(c)
    <2>1. Touches(c, "resolved", "user", attempts[c], FALSE) /\ "resolved" \in ConflictStatus
      BY <1>4 DEF manual_resolve, AgentInv, Typed, Touches, ConflictStatus
    <2>2. Backed("resolved", "user", attempts[c], FALSE \/ c \in forced)
      BY DEF Backed
    <2> QED
      BY <1>1, <1>2, <2>1, <2>2, OneConflict
  <1>5. CASE force_manual(c)
    <2>1. Touches(c, "manual_required", verdict[c], attempts[c], TRUE)
      BY <1>5 DEF force_manual, mark_manual_required, AgentInv, Typed, Touches
    <2>2. "manual_required" \in ConflictStatus
      BY DEF ConflictStatus
    <2>3. Backed("manual_required", verdict[c], attempts[c], TRUE \/ c \in forced)
      BY <1>2 DEF Backed
    <2> QED
      BY <1>1, <1>2, <2>1, <2>2, <2>3, OneConflict
  <1> QED
    BY <1>3, <1>4, <1>5

\* The steps that set all tasks of a pass: its start and the crash.
LEMMA Passes ==
  ASSUME AgentInv, OnePass, Crash \/ \E p \in Pass : run_once(p)
  PROVE  AgentInv'
  <1>1. UNCHANGED <<status, verdict, attempts, forced>>
    BY DEF Crash, run_once
  <1> DEFINE Start == [NoTask EXCEPT !.pc = "prior"]
  <1>2. /\ NoTask \in Task /\ Start \in Task
        /\ \A trail : Fits(NoTask, trail) /\ Fits(Start, trail)
    BY DEF NoTask, Task, Pc, Fits
  <1>3. failures' \in 0..MaxFailures
    BY BudgetAssumption DEF AgentInv, Typed, Crash, run_once
  <1>4. \A q \in Pass, c \in Conflict : task'[q][c] \in {task[q][c], NoTask, Start}
    BY DEF AgentInv, Typed, Crash, run_once
  <1>5. task' \in [Pass -> [Conflict -> Task]]
    <2>1. CASE Crash
      BY <1>2, <2>1 DEF Crash
    <2>2. ASSUME NEW p \in Pass, run_once(p)
          PROVE  task' \in [Pass -> [Conflict -> Task]]
      <3> DEFINE row == [c \in Conflict |-> IF c \in {d \in list_unresolved : status[d] = "pending"}
                                            THEN Start ELSE NoTask]
      <3>1. row \in [Conflict -> Task]
        BY <1>2
      <3>2. task' = [task EXCEPT ![p] = row]
        BY <2>2 DEF run_once
      <3> HIDE DEF row
      <3> QED
        BY <3>1, <3>2 DEF AgentInv, Typed
    <2> QED
      BY <2>1, <2>2
  <1> HIDE DEF Start
  <1>6. \A q \in Pass, c \in Conflict : Fits(task'[q][c], attempts'[c])
    BY <1>1, <1>2, <1>4 DEF AgentInv
  <1>7. Typed'
    BY <1>1, <1>3, <1>5 DEF AgentInv, Typed
  <1> QED
    BY <1>1, <1>6, <1>7 DEF AgentInv

\* AgentInv is inductive when one pass runs at a time.
LEMMA AgentStep == ASSUME AgentInv, OnePass, [Next]_vars PROVE AgentInv'
  <1>1. CASE UNCHANGED vars
    BY <1>1 DEF vars, AgentInv, Typed
  <1>2. ASSUME NEW c \in Conflict, enqueue(c) \/ manual_resolve(c) \/ force_manual(c)
        PROVE  AgentInv'
    BY <1>2, Outside
  <1>3. ASSUME NEW p \in Pass, NEW c \in Conflict, Drive(p, c) \/ DriveFails(p, c)
        PROVE  AgentInv'
    BY <1>3, Looks, Ends, Inserts, Snapshots, Resolves DEF Drive
  <1>4. CASE Crash \/ \E p \in Pass : run_once(p)
    BY <1>4, Passes
  <1> QED
    BY <1>1, <1>2, <1>3, <1>4 DEF Next

\* AgentInv holds in every behaviour.
LEMMA AgentHolds == ASSUME OnePass PROVE Spec => []AgentInv
  <1>1. AgentInv /\ [Next]_vars => AgentInv'
    BY AgentStep
  <1> QED
    BY <1>1, AgentInit, PTL DEF Spec

\* max_attempts is how often a conflict is tried before the user is asked,
\* across passes, failures and crashes: the count and the insert of drive_one
\* take the mutex each on its own, and one pass at a time is what makes the
\* budget hold.
THEOREM BudgetKept == ASSUME OnePass PROVE Spec => []BudgetIsKept
  <1>1. AgentInv => BudgetIsKept
    BY Enough
  <1> QED
    BY <1>1, AgentHolds, PTL

\* The rows of conflict_attempts tell what happened: the context of a timed-out
\* attempt is in the next one, in whatever pass that is, and a verdict of the
\* agent has its succeeded attempt.
THEOREM TrailHolds == ASSUME OnePass PROVE Spec => []AuditTrail
  <1>1. AgentInv => AuditTrail
    BY Enough
  <1> QED
    BY <1>1, AgentHolds, PTL

-----------------------------------------------------------------------------

\* What one step leaves of what was decided about conflict c.
Kept(c) ==
  /\ status[c] = "resolved" => status'[c] = "resolved"
  /\ \A n \in DOMAIN attempts[c] :
       attempts[c][n].state # "running" => attempts'[c][n] = attempts[c][n]

\* A step that rewrites attempt n of conflict c, a running one, keeps the others.
LEMMA OnlyRunning ==
  ASSUME AgentInv, NEW c \in Conflict, NEW n \in 1..Len(attempts[c]), NEW r,
         attempts[c][n].state = "running", status' = status,
         attempts' = [attempts EXCEPT ![c] = [@ EXCEPT ![n] = r]]
  PROVE  \A d \in Conflict : Kept(d)
  <1>1. attempts \in [Conflict -> Seq(Attempt)]
    BY DEF AgentInv, Typed
  <1>2. \A d \in Conflict : d # c => attempts'[d] = attempts[d]
    BY <1>1
  <1>3. \A m \in DOMAIN attempts[c] : m # n => attempts'[c][m] = attempts[c][m]
    BY <1>1
  <1> QED
    BY <1>2, <1>3 DEF Kept

\* No step takes a decision back.
LEMMA DecisionsStay == ASSUME AgentInv, [Next]_vars, NEW e \in Conflict PROVE Kept(e)
  <1>1. status \in [Conflict -> ConflictStatus] /\ attempts \in [Conflict -> Seq(Attempt)]
    BY DEF AgentInv, Typed
  <1>2. CASE UNCHANGED vars
    BY <1>2 DEF vars, Kept
  <1>3. ASSUME NEW c \in Conflict, enqueue(c) \/ manual_resolve(c) \/ force_manual(c)
        PROVE  Kept(e)
    BY <1>1, <1>3 DEF enqueue, manual_resolve, force_manual, mark_manual_required, Kept
  <1>4. CASE Crash \/ \E p \in Pass : run_once(p)
    BY <1>4 DEF Crash, run_once, Kept
  <1>5. ASSUME NEW p \in Pass, NEW c \in Conflict, Drive(p, c) \/ DriveFails(p, c)
        PROVE  Kept(e)
    <2>1. CASE ReadPrior(p, c) \/ CountAttempts(p, c) \/ DriveFails(p, c)
      BY <2>1 DEF ReadPrior, CountAttempts, DriveFails, Kept
    <2>2. CASE GiveUp(p, c) \/ mark_resolved(p, c)
      BY <1>1, <2>2 DEF GiveUp, mark_manual_required, mark_resolved, Kept
    <2>3. CASE insert_running(p, c)
      <3> DEFINE r == [state |-> "running", snapshot |-> FALSE, from |-> task[p][c].prior]
      <3>1. r \in Attempt
        BY Known DEF Attempt, AttemptState
      <3>2. attempts' = [attempts EXCEPT ![c] = Append(@, r)] /\ status' = status
        BY <2>3 DEF insert_running
      <3> HIDE DEF r
      <3>3. CASE e = c
        <4>1. attempts'[c] = Append(attempts[c], r) /\ attempts[c] \in Seq(Attempt)
          BY <1>1, <3>2
        <4>2. \A n \in DOMAIN attempts[c] : attempts'[c][n] = attempts[c][n]
          BY <3>1, <4>1
        <4> QED
          BY <3>2, <3>3, <4>2 DEF Kept
      <3>4. CASE e # c
        BY <1>1, <3>2, <3>4 DEF Kept
      <3> QED
        BY <3>3, <3>4
    <2>4. CASE snapshot(p, c)
      <3> DEFINE n == task[p][c].at
      <3>1. n \in 1..Len(attempts[c]) /\ attempts[c][n].state = "running"
        <4>1. task[p][c].pc = "resolve"
          BY <2>4 DEF snapshot
        <4> QED
          BY <4>1, Known DEF Fits
      <3>2. \E r : attempts' = [attempts EXCEPT ![c] = [@ EXCEPT ![n] = r]] /\ status' = status
        BY <1>1, <2>4 DEF snapshot
      <3> HIDE DEF n
      <3> QED
        BY <3>1, <3>2, OnlyRunning
    <2>5. CASE ResolverTimesOut(p, c) \/ ResolverAborts(p, c) \/ ResolverSucceeds(p, c)
      <3> DEFINE n == task[p][c].at
      <3>1. n \in 1..Len(attempts[c]) /\ attempts[c][n].state = "running"
        <4>1. task[p][c].pc = "resolve"
          BY <2>5 DEF ResolverTimesOut, ResolverAborts, ResolverSucceeds
        <4> QED
          BY <4>1, Known DEF Fits
      <3>2. \E s \in AttemptState, b \in BOOLEAN : finalize(c, n, s, b) /\ status' = status
        BY <2>5 DEF ResolverTimesOut, ResolverAborts, ResolverSucceeds, AttemptState
      <3> HIDE DEF n
      <3>3. \E r : attempts' = [attempts EXCEPT ![c] = [@ EXCEPT ![n] = r]] /\ status' = status
        BY <3>1, <3>2, Finalizes
      <3> QED
        BY <3>1, <3>3, OnlyRunning
    <2> QED
      BY <1>5, <2>1, <2>2, <2>3, <2>4, <2>5 DEF Drive
  <1> QED
    BY <1>2, <1>3, <1>4, <1>5 DEF Next

\* What is decided stays: mark_manual_required writes pending rows only, and an
\* attempt is written by the one task that runs it, while it runs.
THEOREM DecisionsFinal == ASSUME OnePass PROVE Spec => DecidedIsFinal
  <1>1. AgentInv /\ [Next]_vars =>
          [\A c \in Conflict :
             /\ status[c] = "resolved" => status'[c] = "resolved"
             /\ \A n \in DOMAIN attempts[c] :
                  attempts[c][n].state # "running" => attempts'[c][n] = attempts[c][n]]_vars
    BY DecisionsStay DEF Kept
  <1> QED
    BY <1>1, AgentHolds, PTL DEF Spec, DecidedIsFinal
=============================================================================
