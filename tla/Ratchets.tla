------------------------------ MODULE Ratchets ------------------------------
(***************************************************************************)
(* Auto-fire: the worker loop of the daemon asks the Detector for          *)
(* candidates on every tick and turns each into a ratchet, a worker that   *)
(* brainbox starts and that ends with a pull request.  The table           *)
(* ratchet_runs is the ledger whose guards keep one ratchet per skill, a   *)
(* cooldown after it, and a cap on those in flight.                        *)
(*                                                                         *)
(* brainbox and the Detector are other programs: what they may answer is   *)
(* modelled from internal/brainbox and from the interface in pipeline.go.  *)
(* The ledger has no writer but this loop: nothing calls                   *)
(* UpdateRatchetStatus.                                                    *)
(***************************************************************************)
EXTENDS Integers, FiniteSets

CONSTANTS
  Skills,           \* skill names of the profile
  CandidateKinds,   \* kinds the Detector may emit
  Jobs,             \* identities of the ratchets brainbox may start
  MaxConcurrent,    \* registry.max_concurrent_ratchets; 0 stands for a negative one: no cap
  Cooldown,         \* registry.ratchet_cooldown_hours
  MaxTime,          \* bound: hours
  MaxFaults         \* bound: lost replies, store errors and restarts

LedgerKinds == {"create", "edit", "prune", "merge"}

ASSUME RatchetsAssumption ==
  /\ MaxConcurrent \in Nat /\ Cooldown \in Nat /\ MaxTime \in Nat /\ MaxFaults \in Nat

VARIABLES
  jobs,       \* [Jobs -> the ratchet at brainbox]
  ledger,     \* [Jobs -> its row of ratchet_runs, by task_id]
  loop,       \* the worker loop: its stage, the candidates of this tick, the job fired
  time,       \* now, in hours
  faults      \* faults so far

vars == <<jobs, ledger, loop, time, faults>>

Candidates == [skill : Skills, kind : CandidateKinds]

NotStarted == [state |-> "none", of |-> [skill |-> "none", kind |-> "none"]]

Job == [state : {"working", "pr_open", "merged", "closed", "failed"}, of : Candidates]

LedgerRow == [status : {"absent", "fired"}, at : 0..MaxTime]

\* The types of the ledger and of the loop; a ratchet is recorded only once
\* brainbox has taken it.
RatchetTypeOK ==
  /\ jobs \in [Jobs -> Job \cup {NotStarted}]
  /\ ledger \in [Jobs -> LedgerRow]
  /\ loop \in [stage : {"wait", "guard", "record"}, todo : SUBSET Candidates, fired : SUBSET Jobs]
  /\ time \in 0..MaxTime /\ faults \in 0..MaxFaults
  /\ \A j \in Jobs : ledger[j].status = "fired" => jobs[j].state # "none"
  /\ Cardinality(loop.fired) = IF loop.stage = "record" THEN 1 ELSE 0
  /\ loop.stage = "guard" => loop.todo # {}

Waiting == [stage |-> "wait", todo |-> {}, fired |-> {}]

Init ==
  /\ jobs = [j \in Jobs |-> NotStarted]
  /\ ledger = [j \in Jobs |-> [status |-> "absent", at |-> 0]]
  /\ loop = Waiting
  /\ time = 0 /\ faults = 0

-----------------------------------------------------------------------------
InFlight(j) == ledger[j].status = "fired"

\* Mutant: the cap is off by one.
RateLimitedLate ==
  MaxConcurrent > 0 /\ Cardinality({j \in Jobs : InFlight(j)}) > MaxConcurrent

HasInFlightRatchet(skill) == \E j \in Jobs : InFlight(j) /\ jobs[j].of.skill = skill

RecentlyRatcheted(skill) ==
  \E j \in Jobs :
    /\ ledger[j].status # "absent" /\ jobs[j].of.skill = skill
    /\ ledger[j].at > time - Cooldown

RateLimited ==
  MaxConcurrent > 0 /\ Cardinality({j \in Jobs : InFlight(j)}) >= MaxConcurrent

Suppressed(skill) ==
  HasInFlightRatchet(skill) \/ (Cooldown > 0 /\ RecentlyRatcheted(skill)) \/ RateLimited

\* Mutant: the end of the tick is missed.
GoesOnPastEnd(todo) == loop' = [Waiting EXCEPT !.stage = "guard", !.todo = todo]

\* The loop goes on with the other candidates of the tick.
GoesOn(todo) == loop' = IF todo = {} THEN Waiting ELSE [Waiting EXCEPT !.stage = "guard", !.todo = todo]

Fault == faults < MaxFaults /\ faults' = faults + 1

-----------------------------------------------------------------------------
(* The loop.                                                               *)

\* A failed Detect is a tick without candidates.
Detect(candidates) ==
  /\ loop.stage = "wait" /\ candidates # {}
  /\ loop' = [Waiting EXCEPT !.stage = "guard", !.todo = candidates]
  /\ UNCHANGED <<jobs, ledger, time, faults>>

Skip(c) ==
  /\ loop.stage = "guard" /\ c \in loop.todo
  /\ Suppressed(c.skill)
  /\ GoesOn(loop.todo \ {c})
  /\ UNCHANGED <<jobs, ledger, time, faults>>

Started(c, j) ==
  /\ loop.stage = "guard" /\ c \in loop.todo
  /\ ~Suppressed(c.skill)
  /\ jobs[j].state = "none"
  /\ jobs' = [jobs EXCEPT ![j] = [state |-> "working", of |-> c]]

\* POST /api/ratchet, answered.
Fire(c, j) ==
  /\ Started(c, j)
  /\ loop' = [stage |-> "record", todo |-> loop.todo \ {c}, fired |-> {j}]
  /\ UNCHANGED <<ledger, time, faults>>

\* The ratchet runs, but the call ends in an error.
FireUnanswered(c, j) ==
  /\ Started(c, j) /\ Fault
  /\ GoesOn(loop.todo \ {c})
  /\ UNCHANGED <<ledger, time>>

\* brainbox refuses, or a guard's query fails.
FireRefused(c) ==
  /\ loop.stage = "guard" /\ c \in loop.todo
  /\ GoesOn(loop.todo \ {c})
  /\ UNCHANGED <<jobs, ledger, time, faults>>

\* Mutant: the result of the call is not recorded.
RecordNothing ==
  /\ loop.stage = "record"
  /\ GoesOn(loop.todo)
  /\ UNCHANGED <<jobs, ledger, time, faults>>

\* The INSERT fails on a kind that ratchet_kind_chk does not list.
RecordRatchet ==
  /\ loop.stage = "record"
  /\ ledger' = [j \in Jobs |->
       IF j \in loop.fired /\ jobs[j].of.kind \in LedgerKinds
       THEN [status |-> "fired", at |-> time] ELSE ledger[j]]
  /\ GoesOn(loop.todo)
  /\ UNCHANGED <<jobs, time, faults>>

RecordFailed ==
  /\ loop.stage = "record" /\ Fault
  /\ GoesOn(loop.todo)
  /\ UNCHANGED <<jobs, ledger, time>>

\* The daemon is restarted; the shutdown does not wait for the loop.
Restart ==
  /\ loop.stage # "wait" /\ Fault
  /\ loop' = Waiting
  /\ UNCHANGED <<jobs, ledger, time>>

(* The world.                                                              *)

Progress(j) ==
  /\ \/ jobs[j].state = "working" /\ \E s \in {"pr_open", "failed"} : jobs' = [jobs EXCEPT ![j].state = s]
     \/ jobs[j].state = "pr_open" /\ \E s \in {"merged", "closed"} : jobs' = [jobs EXCEPT ![j].state = s]
  /\ UNCHANGED <<ledger, loop, time, faults>>

Hour ==
  /\ time < MaxTime
  /\ time' = time + 1
  /\ UNCHANGED <<jobs, ledger, loop, faults>>

Dispatch ==
  \/ \E c \in Candidates, j \in Jobs : Fire(c, j) \/ FireUnanswered(c, j)
  \/ \E c \in Candidates : Skip(c) \/ FireRefused(c)
  \/ RecordRatchet \/ RecordFailed

Next ==
  \/ \E candidates \in SUBSET Candidates : Detect(candidates)
  \/ Dispatch
  \/ Restart
  \/ \E j \in Jobs : Progress(j)
  \/ Hour

Spec == Init /\ [][Next]_vars

-----------------------------------------------------------------------------
(* Properties.                                                             *)

Active(j) == jobs[j].state \in {"working", "pr_open"}

\* The ledger never has two ratchets of a skill in flight, and never more than
\* the cap of all: the guards of autoFireRatchet and the row they lead to.
LedgerGuarded ==
  /\ \A j, k \in Jobs :
       InFlight(j) /\ InFlight(k) /\ jobs[j].of.skill = jobs[k].of.skill => j = k
  /\ MaxConcurrent > 0 => Cardinality({j \in Jobs : InFlight(j)}) <= MaxConcurrent

\* As long as no reply is lost, no query fails and the daemon is not restarted,
\* the ledger has "one row per ratchet the daemon fires at brainbox"
\* (0006_ratchet_runs.up.sql), but for the kinds that ratchet_kind_chk refuses.
LedgerComplete ==
  faults = 0 /\ loop.stage # "record" =>
    \A j \in Jobs :
      jobs[j].state # "none" /\ jobs[j].of.kind \in LedgerKinds => ledger[j].status # "absent"

-----------------------------------------------------------------------------
(* A claim of the repository that the code does not keep.                  *)

\* 0006_ratchet_runs.up.sql: "never launch a second ratchet for a skill that
\* already has one in flight".
OneActivePerSkill ==
  \A j, k \in Jobs : Active(j) /\ Active(k) /\ jobs[j].of.skill = jobs[k].of.skill => j = k

=============================================================================
