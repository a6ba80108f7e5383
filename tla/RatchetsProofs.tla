--------------------------- MODULE RatchetsProofs ---------------------------
(***************************************************************************)
(* The guards of autoFireRatchet keep the ledger within its limits, and    *)
(* without a fault the ledger has every ratchet, for any number of skills  *)
(* and jobs and any cap and cooldown.                                      *)
(*                                                                         *)
(* LedgerGuarded is not inductive: the guards look at the ledger before    *)
(* the call and the row is written after it.  What makes it so is that the *)
(* loop is the only writer: between the two, the job that was fired is     *)
(* still one that the ledger has room for (Room).                          *)
(***************************************************************************)
EXTENDS Ratchets, TLAPS, FiniteSetTheorems

Loops == [stage : {"wait", "guard", "record"}, todo : SUBSET Candidates, fired : SUBSET Jobs]

Types ==
  /\ jobs \in [Jobs -> Job \cup {NotStarted}]
  /\ ledger \in [Jobs -> LedgerRow]
  /\ loop \in Loops
  /\ time \in 0..MaxTime /\ faults \in 0..MaxFaults

\* The stages of the loop: it records one job, and guards at least one candidate.
Stages ==
  /\ loop.stage = "record" => \E j \in Jobs : loop.fired = {j}
  /\ loop.stage # "record" => loop.fired = {}
  /\ loop.stage = "guard" => loop.todo # {}

Flying == {j \in Jobs : InFlight(j)}

OnlyStarted == \A j \in Jobs : InFlight(j) => jobs[j].state # "none"

Guarded ==
  /\ IsFiniteSet(Flying)
  /\ \A j, k \in Flying : jobs[j].of.skill = jobs[k].of.skill => j = k
  /\ MaxConcurrent > 0 => Cardinality(Flying) <= MaxConcurrent

\* The ledger has room for the job that is to be recorded.
Room ==
  \A j \in loop.fired :
    /\ jobs[j].state # "none" /\ j \notin Flying
    /\ \A k \in Flying : jobs[k].of.skill # jobs[j].of.skill
    /\ MaxConcurrent > 0 => Cardinality(Flying) < MaxConcurrent

\* Without a fault, a job is in the ledger or about to be.
Complete ==
  faults = 0 =>
    \A j \in Jobs :
      jobs[j].state # "none" /\ jobs[j].of.kind \in LedgerKinds => j \in Flying \cup loop.fired

LoopInv == Types /\ Stages /\ OnlyStarted /\ Guarded /\ Room /\ Complete

-----------------------------------------------------------------------------
\* Nothing has been started and the ledger is empty.
LEMMA InvInit == Init => LoopInv
<1> SUFFICES ASSUME Init  PROVE LoopInv
  OBVIOUS
<1>1. Types /\ Stages
  BY RatchetsAssumption DEF Init, Types, Stages, Loops, Waiting, LedgerRow
<1>2. Flying = {}
  BY DEF Init, Flying, InFlight
<1>3. Cardinality(Flying) = 0 /\ IsFiniteSet(Flying)
  BY <1>2, FS_EmptySet
<1>4. Guarded
  BY <1>2, <1>3, RatchetsAssumption DEF Guarded
<1>5. OnlyStarted /\ Room /\ Complete
  BY <1>2 DEF OnlyStarted, Room, Complete, Init, Waiting, NotStarted, Flying
<1> QED  BY <1>1, <1>4, <1>5 DEF LoopInv

\* A job keeps its skill and its kind, and what was started stays started.
LEMMA LoopOnly ==
  ASSUME LoopInv, UNCHANGED <<jobs, ledger>>, loop' \in Loops, Stages', time' \in 0..MaxTime,
         faults' \in 0..MaxFaults, loop'.fired = {},
         faults' = 0 => faults = 0 /\ loop.fired \cap {j \in Jobs : jobs[j].of.kind \in LedgerKinds} = {}
  PROVE  LoopInv'
<1>1. Flying' = Flying
  BY DEF Flying, InFlight
<1>2. Types'
  BY DEF LoopInv, Types
<1>3. Guarded' /\ OnlyStarted'
  BY <1>1 DEF LoopInv, Guarded, OnlyStarted, InFlight
<1>4. Room' /\ Complete'
  BY <1>1 DEF LoopInv, Room, Complete
<1> QED  BY <1>2, <1>3, <1>4 DEF LoopInv

\* GoesOn is a step to a stage that fires nothing.
LEMMA GoesOnLoop ==
  ASSUME NEW todo \in SUBSET Candidates, GoesOn(todo)
  PROVE  loop' \in Loops /\ Stages' /\ loop'.fired = {}
BY DEF GoesOn, Waiting, Loops, Stages

\* The stages that fire nothing.
LEMMA NoneFired ==
  ASSUME LoopInv, loop.stage # "record"
  PROVE  loop.fired = {}
BY DEF LoopInv, Stages

\* A job that starts leaves the ledger as it is.
LEMMA StartKeeps ==
  ASSUME LoopInv, NEW c \in Candidates, NEW j \in Jobs, Started(c, j), UNCHANGED ledger
  PROVE  /\ jobs' \in [Jobs -> Job \cup {NotStarted}]
         /\ Flying' = Flying /\ j \notin Flying
         /\ \A k \in Jobs \ {j} : jobs'[k] = jobs[k]
         /\ jobs'[j].of = c /\ jobs'[j].state = "working"
         /\ Guarded' /\ OnlyStarted'
<1>1. jobs \in [Jobs -> Job \cup {NotStarted}]
  BY DEF LoopInv, Types
<1>2. [state |-> "working", of |-> c] \in Job
  BY DEF Job
<1>3. Flying' = Flying
  BY DEF Flying, InFlight
<1>4. j \notin Flying
  BY DEF LoopInv, OnlyStarted, Flying, Started
<1>5. /\ jobs' \in [Jobs -> Job \cup {NotStarted}]
      /\ \A k \in Jobs \ {j} : jobs'[k] = jobs[k]
      /\ jobs'[j].of = c /\ jobs'[j].state = "working"
  BY <1>1, <1>2 DEF Started
<1>6. Flying \subseteq Jobs
  BY DEF Flying
<1>7. Guarded'
  BY <1>3, <1>4, <1>5, <1>6 DEF LoopInv, Guarded
<1>8. OnlyStarted'
  BY <1>3, <1>4, <1>5 DEF LoopInv, OnlyStarted, Flying
<1> QED  BY <1>3, <1>4, <1>5, <1>7, <1>8

\* Fire: the guards have just found room for the job.
LEMMA FireInv ==
  ASSUME LoopInv, NEW c \in Candidates, NEW j \in Jobs, Fire(c, j)
  PROVE  LoopInv'
<1> USE DEF Fire
<1>1. /\ jobs' \in [Jobs -> Job \cup {NotStarted}]
      /\ Flying' = Flying /\ j \notin Flying
      /\ \A k \in Jobs \ {j} : jobs'[k] = jobs[k]
      /\ jobs'[j].of = c /\ jobs'[j].state = "working"
      /\ Guarded' /\ OnlyStarted'
  BY StartKeeps
<1>2. loop \in Loops /\ loop.stage = "guard" /\ loop.fired = {}
  BY NoneFired DEF LoopInv, Types, Started
<1>3. loop'.stage = "record" /\ loop'.fired = {j} /\ loop' \in Loops
  BY <1>2 DEF Loops
<1>4. Types' /\ Stages'
  BY <1>1, <1>3 DEF LoopInv, Types, Stages
<1>5. Flying \subseteq Jobs
  BY DEF Flying
<1>6. Room'
  <2>1. \A k \in Flying : jobs[k].of.skill # c.skill
    BY DEF Started, Suppressed, HasInFlightRatchet, Flying
  <2>2. MaxConcurrent > 0 => Cardinality(Flying) < MaxConcurrent
    <3>1. Cardinality(Flying) \in Nat
      BY FS_CardinalityType DEF LoopInv, Guarded
    <3> QED  BY <3>1, RatchetsAssumption DEF Started, Suppressed, RateLimited, Flying
  <2> QED  BY <1>1, <1>3, <1>5, <2>1, <2>2 DEF Room
<1>7. Complete'
  BY <1>1, <1>2, <1>3 DEF LoopInv, Complete
<1> QED  BY <1>1, <1>4, <1>6, <1>7 DEF LoopInv

\* RecordRatchet: the row goes where Room has kept its place.
LEMMA RecordInv ==
  ASSUME LoopInv, RecordRatchet
  PROVE  LoopInv'
<1> USE DEF RecordRatchet
<1>1. PICK j \in Jobs : loop.fired = {j}
  BY DEF LoopInv, Stages
<1>2. ledger \in [Jobs -> LedgerRow] /\ jobs \in [Jobs -> Job \cup {NotStarted}] /\ loop \in Loops
  BY DEF LoopInv, Types
<1>3. loop' \in Loops /\ Stages' /\ loop'.fired = {}
  BY <1>2, GoesOnLoop DEF Loops
<1>4. CASE jobs[j].of.kind \notin LedgerKinds
  <2>1. ledger' = ledger
    BY <1>1, <1>2, <1>4
  <2> QED  BY <1>1, <1>3, <1>4, <2>1, LoopOnly DEF LoopInv, Types
<1>5. CASE jobs[j].of.kind \in LedgerKinds
  <2>1. [status |-> "fired", at |-> time] \in LedgerRow
    BY DEF LoopInv, Types, LedgerRow
  <2>2. /\ ledger' \in [Jobs -> LedgerRow]
        /\ \A k \in Jobs \ {j} : ledger'[k] = ledger[k]
        /\ ledger'[j].status = "fired"
    BY <1>1, <1>2, <1>5, <2>1
  <2>3. Flying' = Flying \cup {j} /\ j \notin Flying
    BY <1>1, <2>2 DEF LoopInv, Room, Flying, InFlight
  <2>4. IsFiniteSet(Flying') /\ Cardinality(Flying') = Cardinality(Flying) + 1
    BY <2>3, FS_AddElement DEF LoopInv, Guarded
  <2>5. Cardinality(Flying) \in Nat
    BY FS_CardinalityType DEF LoopInv, Guarded
  <2>6. Guarded'
    BY <1>1, <2>3, <2>4, <2>5, RatchetsAssumption DEF LoopInv, Guarded, Room
  <2>7. OnlyStarted'
    BY <1>1, <2>2 DEF LoopInv, OnlyStarted, Room, InFlight
  <2>8. Types'
    BY <1>3, <2>2 DEF LoopInv, Types
  <2>9. Room' /\ Complete'
    BY <1>1, <1>3, <2>3 DEF LoopInv, Room, Complete
  <2> QED  BY <1>3, <2>6, <2>7, <2>8, <2>9 DEF LoopInv
<1> QED  BY <1>4, <1>5

\* Progress: brainbox moves a job on, the ledger does not see it.
LEMMA ProgressInv ==
  ASSUME LoopInv, NEW j \in Jobs, Progress(j)
  PROVE  LoopInv'
<1>1. jobs \in [Jobs -> Job \cup {NotStarted}] /\ UNCHANGED <<ledger, loop, time, faults>>
  BY DEF LoopInv, Types, Progress
<1>2. PICK s \in {"pr_open", "failed", "merged", "closed"} :
        jobs[j].state # "none" /\ jobs' = [jobs EXCEPT ![j].state = s]
  BY DEF Progress
<1>3. jobs[j] \in Job
  BY <1>1, <1>2 DEF NotStarted
<1>4. /\ jobs' \in [Jobs -> Job \cup {NotStarted}]
      /\ \A k \in Jobs : jobs'[k].of = jobs[k].of
      /\ \A k \in Jobs : jobs'[k].state = "none" <=> jobs[k].state = "none"
  BY <1>1, <1>2, <1>3 DEF Job
<1>5. Flying' = Flying /\ Flying \subseteq Jobs
  BY <1>1 DEF Flying, InFlight
<1>6. Types' /\ Stages'
  BY <1>1, <1>4 DEF LoopInv, Types, Stages
<1>7. Guarded'
  BY <1>4, <1>5 DEF LoopInv, Guarded
<1>8. OnlyStarted'
  BY <1>4, <1>5 DEF LoopInv, OnlyStarted, Flying
<1>9. Room' /\ Complete'
  <2>1. loop.fired \subseteq Jobs
    BY DEF LoopInv, Types, Loops
  <2> QED  BY <1>1, <1>4, <1>5, <2>1 DEF LoopInv, Room, Complete
<1> QED  BY <1>6, <1>7, <1>8, <1>9 DEF LoopInv

\* The invariant holds in every state.
LEMMA LoopInvHolds == Spec => []LoopInv
<1>1. ASSUME LoopInv, [Next]_vars  PROVE LoopInv'
  <2>1. loop \in Loops /\ time \in 0..MaxTime /\ faults \in 0..MaxFaults
    BY <1>1 DEF LoopInv, Types
  <2>2. loop.todo \in SUBSET Candidates
    BY <2>1 DEF Loops
  <2>3. ASSUME Fault  PROVE faults' \in 0..MaxFaults /\ faults' # 0
    BY <2>1, <2>3, RatchetsAssumption DEF Fault
  <2>4. ASSUME NEW candidates \in SUBSET Candidates, Detect(candidates)  PROVE LoopInv'
    <3>1. loop' \in Loops /\ Stages' /\ loop'.fired = {}
      BY <2>4 DEF Detect, Waiting, Loops, Stages
    <3> QED  BY <1>1, <2>1, <2>4, <3>1, NoneFired, LoopOnly DEF Detect
  <2>5. ASSUME NEW c \in Candidates, Skip(c) \/ FireRefused(c)  PROVE LoopInv'
    <3>1. loop.todo \ {c} \in SUBSET Candidates
      BY <2>2
    <3>2. loop' \in Loops /\ Stages' /\ loop'.fired = {}
      BY <2>5, <3>1, GoesOnLoop DEF Skip, FireRefused
    <3> QED  BY <1>1, <2>1, <2>5, <3>2, NoneFired, LoopOnly DEF Skip, FireRefused
  <2>6. ASSUME NEW c \in Candidates, NEW j \in Jobs, Fire(c, j)  PROVE LoopInv'
    BY <1>1, <2>6, FireInv
  <2>7. ASSUME NEW c \in Candidates, NEW j \in Jobs, FireUnanswered(c, j)  PROVE LoopInv'
    <3> USE <2>7 DEF FireUnanswered
    <3>1. loop' \in Loops /\ Stages' /\ loop'.fired = {}
      BY <2>2, GoesOnLoop
    <3>2. /\ jobs' \in [Jobs -> Job \cup {NotStarted}]
          /\ Guarded' /\ OnlyStarted'
      BY <1>1, StartKeeps
    <3>3. faults' \in 0..MaxFaults /\ faults' # 0
      BY <2>3
    <3>4. Types'
      BY <1>1, <3>1, <3>2, <3>3 DEF LoopInv, Types
    <3>5. Room' /\ Complete'
      BY <3>1, <3>3 DEF Room, Complete
    <3> QED  BY <3>1, <3>2, <3>4, <3>5 DEF LoopInv
  <2>8. CASE RecordRatchet
    BY <1>1, <2>8, RecordInv
  <2>9. CASE RecordFailed
    <3>1. loop' \in Loops /\ Stages' /\ loop'.fired = {}
      BY <2>2, <2>9, GoesOnLoop DEF RecordFailed
    <3> QED  BY <1>1, <2>1, <2>3, <2>9, <3>1, LoopOnly DEF RecordFailed
  <2>10. CASE Restart
    <3>1. loop' \in Loops /\ Stages' /\ loop'.fired = {}
      BY <2>10 DEF Restart, Waiting, Loops, Stages
    <3> QED  BY <1>1, <2>1, <2>3, <2>10, <3>1, LoopOnly DEF Restart
  <2>11. ASSUME NEW j \in Jobs, Progress(j)  PROVE LoopInv'
    BY <1>1, <2>11, ProgressInv
  <2>12. ASSUME UNCHANGED <<jobs, ledger, loop, faults>>, time' \in 0..MaxTime  PROVE LoopInv'
    <3>1. Flying' = Flying
      BY <2>12 DEF Flying, InFlight
    <3>2. Types' /\ Stages' /\ OnlyStarted'
      BY <1>1, <2>12 DEF LoopInv, Types, Stages, OnlyStarted, InFlight
    <3>3. Guarded' /\ Room' /\ Complete'
      BY <1>1, <2>12, <3>1 DEF LoopInv, Guarded, Room, Complete
    <3> QED  BY <3>2, <3>3 DEF LoopInv
  <2>13. CASE Hour
    BY <2>1, <2>12, <2>13, RatchetsAssumption DEF Hour
  <2>14. CASE UNCHANGED vars
    BY <2>1, <2>12, <2>14 DEF vars
  <2> QED
    BY <1>1, <2>4, <2>5, <2>6, <2>7, <2>8, <2>9, <2>10, <2>11, <2>13, <2>14 DEF Next, Dispatch
<1> QED  BY <1>1, InvInit, PTL DEF Spec

-----------------------------------------------------------------------------
\* The loop records one ratchet at a time and only those brainbox has taken
\* (autoFireRatchet), whatever is lost or restarted in between.
THEOREM RatchetTypes == Spec => []RatchetTypeOK
<1>1. ASSUME LoopInv  PROVE RatchetTypeOK
  <2>1. \A j \in Jobs : Cardinality({j}) = 1
    BY FS_Singleton
  <2>2. Cardinality(loop.fired) = IF loop.stage = "record" THEN 1 ELSE 0
    BY <1>1, <2>1, FS_EmptySet DEF LoopInv, Stages
  <2> QED  BY <1>1, <2>2 DEF LoopInv, Types, Stages, Loops, OnlyStarted, InFlight, RatchetTypeOK
<1> QED  BY <1>1, LoopInvHolds, PTL

\* The ledger never has two ratchets of a skill in flight, nor more than
\* max_concurrent_ratchets in all, although the guards are read before the call
\* and the row is written after it (autoFireRatchet, RecordRatchet).
THEOREM LedgerIsGuarded == Spec => []LedgerGuarded
<1>1. LoopInv => LedgerGuarded
  BY DEF LoopInv, Guarded, Flying, LedgerGuarded
<1> QED  BY <1>1, LoopInvHolds, PTL

\* Without lost replies, store errors and restarts, every ratchet of a kind
\* that ratchet_kind_chk takes has its row once its dispatch is over.
THEOREM LedgerIsComplete == Spec => []LedgerComplete
<1>1. ASSUME LoopInv  PROVE LedgerComplete
  BY <1>1 DEF LoopInv, Complete, Stages, Flying, InFlight, LedgerComplete
<1> QED  BY <1>1, LoopInvHolds, PTL

=============================================================================
