------------------------------- MODULE WQueue -------------------------------
(***************************************************************************)
(* The write-ahead queue of an agent (internal/client/wqueue, a SQLite     *)
(* file in the state dir) between the tools that write to the daemon and   *)
(* the daemon.  skill_usage_report and skill_propose enqueue their write   *)
(* and send it at once (enqueueAndAttempt); the Drainer of every MCP       *)
(* session, and "queue drain", send again what is left.  All of them share *)
(* the file, and each statement on it is atomic by itself.                 *)
(*                                                                         *)
(* A send may succeed, fail, or be processed by the daemon while its reply *)
(* is lost.  One the daemon refuses (a 4xx, a violated CHECK) just fails   *)
(* every time: the client does not tell it from an outage.                 *)
(***************************************************************************)
EXTENDS Integers, FiniteSets

CONSTANTS
  Ids,            \* ids of the table, in the order of AUTOINCREMENT
  Usage,          \* the usage reports; the other items are proposals
  Handlers,       \* tool calls that may run side by side
  Drainers,       \* drain loops: one for each session, and the CLI's
  Batch,          \* limit of NextEligible
  MaxAttempts,    \* maxAttempts
  MaxFailures     \* bound: failures of an item are counted up to here

Workers == Handlers \cup Drainers

ASSUME QueueAssumption ==
  /\ Ids \subseteq Nat
  /\ Usage \subseteq Ids
  /\ Batch \in Nat \ {0} /\ MaxAttempts \in Nat \ {0}
  /\ IsFiniteSet(Workers)
  /\ MaxFailures \in Nat /\ MaxFailures >= MaxAttempts + Cardinality(Workers) - 1

VARIABLES
  queue,          \* [Ids -> row of the table wqueue]
  worker,         \* [Workers -> what it is doing, and the items still to send]
  recorded,       \* [Ids -> rows the daemon has of the item; 2: several]
  failures,       \* [Ids -> sends the client saw fail]
  purged          \* items an operator has purged

vars == <<queue, worker, recorded, failures, purged>>

\* wait is what is left until next_attempt_at, in seconds: all of it or none.
\* blank: the payload is a usage report that names no skill.
BackoffFor(attempts) ==
  LET d == 2 ^ (IF attempts < 1 THEN 1 ELSE attempts)
  IN IF d > 1800 THEN 1800 ELSE d

Row == [state : {"new", "queued", "gone"}, attempts : 0..MaxFailures,
        wait : {0} \cup {BackoffFor(k) : k \in 1..MaxAttempts}, dead : BOOLEAN,
        blank : BOOLEAN]

\* delete: the send succeeded; read, write: it failed, and MarkAttempt runs
\* its two statements, the second with the attempts the first has read.
Worker == [stage : {"idle", "send", "delete", "read", "write"},
           todo : SUBSET Ids, attempts : 0..MaxFailures]

Idle == [stage |-> "idle", todo |-> {}, attempts |-> 0]

\* The types; a worker is idle exactly when it has nothing left to send.
QueueTypeOK ==
  /\ queue \in [Ids -> Row]
  /\ worker \in [Workers -> Worker]
  /\ recorded \in [Ids -> 0..2]
  /\ failures \in [Ids -> 0..MaxFailures]
  /\ purged \subseteq Ids
  /\ \A w \in Workers : worker[w].stage = "idle" <=> worker[w].todo = {}

Init ==
  /\ queue = [i \in Ids |-> [state |-> "new", attempts |-> 0, wait |-> 0, dead |-> FALSE,
                              blank |-> FALSE]]
  /\ worker = [w \in Workers |-> Idle]
  /\ recorded = [i \in Ids |-> 0]
  /\ failures = [i \in Ids |-> 0]
  /\ purged = {}

-----------------------------------------------------------------------------
Oldest(items) == CHOOSE i \in items : \A j \in items : i <= j

\* The item a worker is busy with.
Current(w) == Oldest(worker[w].todo)

Eligible == {i \in Ids : queue[i].state = "queued" /\ ~queue[i].dead /\ queue[i].wait = 0}

NextEligible == {i \in Eligible : Cardinality({j \in Eligible : j <= i}) <= Batch}

At(w, stage) == worker[w].stage = stage

To(w, stage) == worker' = [worker EXCEPT ![w].stage = stage]

\* Mutant: the end of the batch is missed.
ProceedPastEnd(w) ==
  worker' = [worker EXCEPT ![w] =
    [Idle EXCEPT !.stage = "send", !.todo = worker[w].todo \ {Current(w)}]]

\* The worker is done with its item: a drain goes on with the next one.
Proceed(w) ==
  LET rest == worker[w].todo \ {Current(w)}
  IN worker' = [worker EXCEPT ![w] =
       IF rest = {} THEN Idle ELSE [Idle EXCEPT !.stage = "send", !.todo = rest]]

\* Mutants: one attempt too few; the row is dropped; a late mark revives a
\* dead row; there is no ceiling.
MarkedEarly(r, attempts) ==
  IF attempts + 1 >= MaxAttempts THEN [r EXCEPT !.attempts = attempts, !.dead = TRUE]
  ELSE [r EXCEPT !.attempts = attempts, !.wait = BackoffFor(attempts)]
MarkedGone(r, attempts) ==
  IF attempts >= MaxAttempts THEN [r EXCEPT !.attempts = attempts, !.state = "gone"]
  ELSE [r EXCEPT !.attempts = attempts, !.wait = BackoffFor(attempts)]
MarkedAlive(r, attempts) ==
  [r EXCEPT !.attempts = attempts, !.dead = attempts >= MaxAttempts,
            !.wait = IF attempts >= MaxAttempts THEN @ ELSE BackoffFor(attempts)]
MarkedForEver(r, attempts) ==
  IF attempts >= MaxAttempts THEN [r EXCEPT !.wait = BackoffFor(MaxAttempts)]
  ELSE [r EXCEPT !.attempts = attempts, !.wait = BackoffFor(attempts)]

\* The row after a failed attempt: dead once the ceiling is reached, or
\* scheduled again.  A dead row stays dead.
Marked(r, attempts) ==
  IF attempts >= MaxAttempts THEN [r EXCEPT !.attempts = attempts, !.dead = TRUE]
  ELSE [r EXCEPT !.attempts = attempts, !.wait = BackoffFor(attempts)]

\* Mutant: usage is inserted without ON CONFLICT.
InsertedAgain(i, rows) == IF queue[i].blank THEN rows ELSE IF rows = 0 THEN 1 ELSE 2

\* What a write the daemon processes makes of its rows: usage is inserted with
\* ON CONFLICT DO NOTHING on a key the payload carries, a proposal each time.
\* A report without a skill is passed over, and answered like the others.
Inserted(i, rows) ==
  IF queue[i].blank THEN rows ELSE IF i \in Usage \/ rows = 0 THEN 1 ELSE 2

-----------------------------------------------------------------------------
(* Picking up work.                                                        *)

Enqueue(w, i, blank) ==
  /\ At(w, "idle")
  /\ queue[i].state = "new" /\ \A j \in Ids : j < i => queue[j].state # "new"
  /\ queue' = [queue EXCEPT ![i].state = "queued", ![i].blank = blank]
  /\ worker' = [worker EXCEPT ![w] = [Idle EXCEPT !.stage = "send", !.todo = {i}]]
  /\ UNCHANGED <<recorded, failures, purged>>

\* skill_usage_report checks the event, but takes any skill, the empty one too.
ReportUsage(w, i) == i \in Usage /\ \E blank \in BOOLEAN : Enqueue(w, i, blank)

\* skill_propose, once its arguments are valid.
ProposeSkill(w, i) == i \notin Usage /\ Enqueue(w, i, FALSE)

DrainOnce(w) ==
  /\ At(w, "idle") /\ NextEligible # {}
  /\ worker' = [worker EXCEPT ![w] = [Idle EXCEPT !.stage = "send", !.todo = NextEligible]]
  /\ UNCHANGED <<queue, recorded, failures, purged>>

(* The send: PostUsage or PostProposal.                                    *)

Processed(w) ==
  /\ At(w, "send")
  /\ recorded' = [recorded EXCEPT ![Current(w)] = Inserted(Current(w), @)]

Failed(w) ==
  /\ failures' = [failures EXCEPT ![Current(w)] = IF @ < MaxFailures THEN @ + 1 ELSE @]
  /\ To(w, "read")

Deliver(w) ==
  /\ Processed(w) /\ To(w, "delete")
  /\ UNCHANGED <<queue, failures, purged>>

LoseReply(w) ==
  /\ Processed(w) /\ Failed(w)
  /\ UNCHANGED <<queue, purged>>

Refuse(w) ==
  /\ At(w, "send") /\ Failed(w)
  /\ UNCHANGED <<queue, recorded, purged>>

(* The statements on the queue that follow it.                             *)

Delete(w) ==
  /\ At(w, "delete")
  /\ queue' = [queue EXCEPT ![Current(w)].state = "gone"]
  /\ Proceed(w)
  /\ UNCHANGED <<recorded, failures, purged>>

\* A row that is gone needs no mark.  A drain stops at the first failure.
ReadAttempts(w) ==
  /\ At(w, "read")
  /\ worker' = [worker EXCEPT ![w] =
       IF queue[Current(w)].state = "gone" THEN Idle
       ELSE [@ EXCEPT !.stage = "write", !.attempts = queue[Current(w)].attempts]]
  /\ UNCHANGED <<queue, recorded, failures, purged>>

WriteAttempts(w) ==
  /\ At(w, "write")
  /\ queue' = IF queue[Current(w)].state = "gone" THEN queue
              ELSE [queue EXCEPT ![Current(w)] = Marked(@, worker[w].attempts + 1)]
  /\ worker' = [worker EXCEPT ![w] = Idle]
  /\ UNCHANGED <<recorded, failures, purged>>

\* A statement on the queue fails (a busy or full file, a cancelled context):
\* the error is dropped, and the worker goes on as if it had run.
QueueError(w) ==
  /\ worker[w].stage \in {"delete", "read", "write"}
  /\ IF At(w, "delete") THEN Proceed(w) ELSE worker' = [worker EXCEPT ![w] = Idle]
  /\ UNCHANGED <<queue, recorded, failures, purged>>

-----------------------------------------------------------------------------
\* The process of a worker dies.
Crash(w) ==
  /\ ~At(w, "idle")
  /\ worker' = [worker EXCEPT ![w] = Idle]
  /\ UNCHANGED <<queue, recorded, failures, purged>>

\* Time passes until a row's next_attempt_at.
Elapse(i) ==
  /\ queue[i].wait > 0
  /\ queue' = [queue EXCEPT ![i].wait = 0]
  /\ UNCHANGED <<worker, recorded, failures, purged>>

\* "queue purge --dead" and "queue purge --all".
Purge(all) ==
  LET out == {i \in Ids : queue[i].state = "queued" /\ (all \/ queue[i].dead)}
  IN /\ out # {}
     /\ queue' = [i \in Ids |-> IF i \in out THEN [queue[i] EXCEPT !.state = "gone"] ELSE queue[i]]
     /\ purged' = purged \cup out
     /\ UNCHANGED <<worker, recorded, failures>>

Step(w) ==
  Deliver(w) \/ LoseReply(w) \/ Refuse(w) \/ Delete(w) \/ ReadAttempts(w) \/ WriteAttempts(w)

Next ==
  \/ \E w \in Handlers, i \in Ids : ReportUsage(w, i) \/ ProposeSkill(w, i)
  \/ \E w \in Drainers : DrainOnce(w)
  \/ \E w \in Workers : Step(w) \/ QueueError(w) \/ Crash(w)
  \/ \E i \in Ids : Elapse(i)
  \/ \E all \in BOOLEAN : Purge(all)

Spec == Init /\ [][Next]_vars

\* Sends have a timeout and so end, the ticker of a session drains for ever,
\* and time passes.
Fairness ==
  /\ \A w \in Workers : WF_vars(Step(w))
  /\ \A w \in Drainers : WF_vars(DrainOnce(w))
  /\ \A i \in Ids : WF_vars(Elapse(i))

FairSpec == Spec /\ Fairness

-----------------------------------------------------------------------------
(* Properties.                                                             *)

\* "keep recording usage without losing data" (wqueue.go): a row leaves the
\* queue only when the daemon has it, or at the hand of an operator, whichever
\* sessions send it, fail or die.  The exception is a report without a skill,
\* which the daemon answers with 200 and drops (IngestUsage).
NothingLost ==
  \A i \in Ids :
    queue[i].state = "gone" /\ i \notin purged => recorded[i] > 0 \/ queue[i].blank

\* 0003_usage_events.up.sql: the unique key is there so that the immediate
\* attempt and the drainer, posting the same report, do not count it twice.
UsageCountedOnce == \A i \in Usage : recorded[i] <= 1

\* Sessions that mark the same row at the same time may lose a mark, but no
\* write is given up before MaxAttempts of its sends have failed.
DeadOnlyAtCeiling ==
  \A i \in Ids :
    /\ queue[i].attempts <= failures[i]
    /\ queue[i].dead => failures[i] >= MaxAttempts

\* What a row amounts to, for those who only know the promise.
Shown(i) ==
  CASE queue[i].state = "new" -> "new"
    [] queue[i].state = "queued" -> IF queue[i].dead THEN "dead" ELSE "held"
    [] queue[i].state = "gone" ->
         IF i \in purged THEN "withdrawn" ELSE IF queue[i].blank THEN "dropped" ELSE "settled"

Abstract == INSTANCE Outbox WITH
  state <- [i \in Ids |-> Shown(i)],
  got <- recorded,
  void <- {i \in Ids : queue[i].blank}

\* The rows, with their marks and the sessions that race for them, are what
\* the queue promises (package wqueue, enqueueAndAttempt): in particular a
\* mark that comes late does not revive a row that is dead, settled or purged.
ImplementsOutbox == Abstract!OutboxSpec

\* From some time on no worker dies and the queue file can be written.  (A
\* statement that finds nothing to change looks like one that fails.)
Stable == <>[][\A w \in Workers : Crash(w) \/ QueueError(w) => Step(w)]_vars

\* Every write is settled in the end: delivered, purged or dead-lettered.  In
\* particular one that is always refused does not hold up those behind it.
Settled ==
  Stable => \A i \in Ids :
    queue[i].state = "queued" ~> queue[i].state = "gone" \/ queue[i].dead

=============================================================================
