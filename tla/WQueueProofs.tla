---------------------------- MODULE WQueueProofs ----------------------------
(***************************************************************************)
(* The write-ahead queue loses nothing, counts usage once and implements   *)
(* Outbox, for every number of writes, tool calls, drain loops and         *)
(* attempts.                                                               *)
(*                                                                         *)
(* QueueInv is the inductive invariant.  Beside what is claimed it says    *)
(* that a worker is busy only with rows that were accepted, that it goes   *)
(* on to delete a row only when the daemon has the write or has dropped    *)
(* it, and that only rows that are gone count as purged.                   *)
(*                                                                         *)
(* CounterInv, which rests on it, is about attempts and failures: a mark   *)
(* is two statements that race, so it counts the sessions that have a row, *)
(* and those with a mark of it to come.  The types follow from it, since   *)
(* they bound attempts, and so does DeadOnlyAtCeiling.                     *)
(***************************************************************************)
EXTENDS WQueue, LeastProofs, FiniteSetTheorems

\* The part of the types that holds whatever the counters do.
Rows == [state : {"new", "queued", "gone"}, attempts : Nat,
         wait : {0} \cup {BackoffFor(k) : k \in 1..MaxAttempts}, dead : BOOLEAN,
         blank : BOOLEAN]

Sessions == [stage : {"idle", "send", "delete", "read", "write"}, todo : SUBSET Ids, attempts : Nat]

Types ==
  /\ queue \in [Ids -> Rows]
  /\ worker \in [Workers -> Sessions]
  /\ recorded \in [Ids -> 0..2]
  /\ purged \subseteq Ids

\* What a worker is busy with was accepted, and it deletes only what the
\* daemon has, or a report that names no skill.
BusyOK(w) ==
  /\ worker[w].stage # "idle" => worker[w].todo # {}
  /\ \A i \in worker[w].todo : queue[i].state # "new"
  /\ worker[w].stage = "delete" => recorded[Current(w)] > 0 \/ queue[Current(w)].blank

PurgedGone == \A i \in purged : queue[i].state = "gone"

QueueInv ==
  /\ Types
  /\ \A w \in Workers : BusyOK(w)
  /\ PurgedGone
  /\ NothingLost
  /\ UsageCountedOnce

-----------------------------------------------------------------------------
\* The item a worker is busy with is one of its items.
LEMMA CurrentIn ==
  ASSUME Types, NEW w \in Workers, worker[w].todo # {}
  PROVE  Current(w) \in worker[w].todo /\ Current(w) \in Ids
<1>1. worker[w].todo \in SUBSET Nat /\ worker[w].todo \subseteq Ids
  BY QueueAssumption DEF Types, Sessions
<1> QED  BY <1>1, LeastExists DEF Current, Oldest

\* A mark keeps the state and the payload of a row, and a dead row dead.
LEMMA MarkedRow ==
  ASSUME NEW r \in Rows, NEW attempts \in Nat, attempts > 0
  PROVE  /\ Marked(r, attempts) \in Rows
         /\ Marked(r, attempts).state = r.state
         /\ Marked(r, attempts).blank = r.blank
         /\ r.dead => Marked(r, attempts).dead
<1>1. CASE attempts >= MaxAttempts
  BY <1>1 DEF Marked, Rows
<1>2. CASE ~(attempts >= MaxAttempts)
  <2>1. attempts \in 1..MaxAttempts
    BY <1>2, QueueAssumption
  <2>2. BackoffFor(attempts) \in {BackoffFor(k) : k \in 1..MaxAttempts}
    BY <2>1
  <2> QED  BY <1>2, <2>2 DEF Marked, Rows
<1> QED  BY <1>1, <1>2

\* The initial states satisfy the invariant.
LEMMA InitQueueInv == Init => QueueInv
<1> SUFFICES ASSUME Init  PROVE QueueInv
  OBVIOUS
<1>1. Types
  BY DEF Init, Types, Rows, Sessions, Idle
<1>2. \A w \in Workers : BusyOK(w)
  BY DEF Init, BusyOK, Idle
<1>3. PurgedGone /\ NothingLost /\ UsageCountedOnce
  BY QueueAssumption DEF Init, PurgedGone, NothingLost, UsageCountedOnce
<1> QED  BY <1>1, <1>2, <1>3 DEF QueueInv

\* What steps never undo: a write stays accepted, gone and received, and keeps
\* its payload.
Onward ==
  \A i \in Ids :
    /\ queue[i].state # "new" => queue'[i].state # "new" /\ queue'[i].blank = queue[i].blank
    /\ queue[i].state = "gone" => queue'[i].state = "gone"
    /\ recorded[i] > 0 => recorded'[i] > 0

\* A step leaves the row of an item what it was, but for its counters.
Same(i) ==
  /\ queue'[i].state = queue[i].state
  /\ queue'[i].dead = queue[i].dead
  /\ queue'[i].blank = queue[i].blank

\* A worker that does not move stays in order.
LEMMA BusyFrame ==
  ASSUME QueueInv, NEW w \in Workers, worker'[w] = worker[w], Onward
  PROVE  BusyOK(w)'
<1>1. worker[w].todo \subseteq Ids
  BY DEF QueueInv, Types, Sessions
<1>2. worker[w].todo # {} => Current(w) \in Ids /\ Current(w) \in worker[w].todo
  BY CurrentIn DEF QueueInv
<1>3. Current(w)' = Current(w)
  BY DEF Current
<1> QED  BY <1>1, <1>2, <1>3 DEF QueueInv, BusyOK, Onward

\* A worker that is idle, or at work on rows it had, is in order.
LEMMA BusyMoves ==
  ASSUME QueueInv, NEW w \in Workers, Onward,
         worker'[w].todo \subseteq worker[w].todo,
         worker'[w].stage # "idle" => worker'[w].todo # {},
         worker'[w].stage # "delete"
  PROVE  BusyOK(w)'
<1>1. worker[w].todo \subseteq Ids
  BY DEF QueueInv, Types, Sessions
<1> QED  BY <1>1 DEF QueueInv, BusyOK, Onward

\* A worker that proceeds leaves its item, and is idle or has others to send.
LEMMA ProceedMoves ==
  ASSUME QueueInv, NEW w \in Workers, Proceed(w)
  PROVE  /\ worker' \in [Workers -> Sessions]
         /\ worker'[w].todo \subseteq worker[w].todo
         /\ worker'[w].stage # "idle" => worker'[w].todo # {}
         /\ worker'[w].stage \in {"idle", "send"}
         /\ worker'[w].stage = "idle" => worker'[w].todo = {}
         /\ worker'[w].attempts = 0
         /\ \A v \in Workers \ {w} : worker'[v] = worker[v]
<1>1. worker \in [Workers -> Sessions]
  BY DEF QueueInv, Types
<1> DEFINE rest == worker[w].todo \ {Current(w)}
<1>2. rest \in SUBSET Ids
  BY <1>1 DEF Sessions
<1>3. worker' = [worker EXCEPT ![w] =
         IF rest = {} THEN Idle ELSE [Idle EXCEPT !.stage = "send", !.todo = rest]]
  BY DEF Proceed
<1>4. Idle \in Sessions /\ [Idle EXCEPT !.stage = "send", !.todo = rest] \in Sessions
  BY <1>2 DEF Idle, Sessions
<1>5. CASE rest = {}
  <2>1. worker'[w] = Idle
    BY <1>1, <1>3, <1>5
  <2> QED  BY <1>1, <1>3, <1>4, <2>1 DEF Idle
<1>6. CASE rest # {}
  <2>1. worker'[w] = [Idle EXCEPT !.stage = "send", !.todo = rest]
    BY <1>1, <1>3, <1>6
  <2> QED  BY <1>1, <1>3, <1>4, <1>6, <2>1 DEF Idle
<1> QED  BY <1>5, <1>6

-----------------------------------------------------------------------------
(* One lemma for each kind of step.                                        *)

\* Enqueue accepts a new row and starts to send it.
LEMMA EnqueueInv ==
  ASSUME QueueInv, NEW w \in Workers, NEW i \in Ids, NEW blank \in BOOLEAN,
         Enqueue(w, i, blank)
  PROVE  QueueInv'
<1>1. Types'
  BY DEF Enqueue, QueueInv, Types, Rows, Sessions, Idle
<1>2. queue'[i].state = "queued" /\ \A j \in Ids \ {i} : queue'[j] = queue[j]
  BY DEF Enqueue, QueueInv, Types, Rows
<1>3. Onward
  BY <1>2 DEF Onward, Enqueue
<1>4. \A v \in Workers : BusyOK(v)'
  <2>1. worker'[w] = [Idle EXCEPT !.stage = "send", !.todo = {i}]
    BY DEF Enqueue, QueueInv, Types
  <2>2. BusyOK(w)'
    BY <1>2, <2>1 DEF BusyOK, Idle
  <2>3. ASSUME NEW v \in Workers \ {w}  PROVE  BusyOK(v)'
    BY <1>3, BusyFrame DEF Enqueue, QueueInv, Types
  <2> QED  BY <2>2, <2>3
<1>5. PurgedGone' /\ NothingLost' /\ UsageCountedOnce'
  BY <1>2 DEF Enqueue, QueueInv, Types, PurgedGone, NothingLost, UsageCountedOnce
<1> QED  BY <1>1, <1>4, <1>5 DEF QueueInv

\* DrainOnce takes rows that are queued.
LEMMA DrainInv ==
  ASSUME QueueInv, NEW w \in Workers, DrainOnce(w)
  PROVE  QueueInv'
<1>1. NextEligible \in SUBSET Ids /\ \A i \in NextEligible : queue[i].state = "queued"
  BY DEF NextEligible, Eligible
<1>2. Types'
  BY <1>1 DEF DrainOnce, QueueInv, Types, Sessions, Idle
<1>3. Onward
  BY DEF Onward, DrainOnce
<1>4. \A v \in Workers : BusyOK(v)'
  <2>1. worker'[w] = [Idle EXCEPT !.stage = "send", !.todo = NextEligible]
    BY DEF DrainOnce, QueueInv, Types
  <2>2. worker'[w].stage = "send" /\ worker'[w].todo = NextEligible
    BY <2>1 DEF Idle
  <2>3. queue' = queue /\ NextEligible # {}
    BY DEF DrainOnce
  <2>4. BusyOK(w)'
    BY <1>1, <2>2, <2>3 DEF BusyOK
  <2>5. ASSUME NEW v \in Workers \ {w}  PROVE  BusyOK(v)'
    BY <1>3, BusyFrame DEF DrainOnce, QueueInv, Types
  <2> QED  BY <2>4, <2>5
<1>5. PurgedGone' /\ NothingLost' /\ UsageCountedOnce'
  BY DEF DrainOnce, QueueInv, PurgedGone, NothingLost, UsageCountedOnce
<1> QED  BY <1>2, <1>4, <1>5 DEF QueueInv

\* A send that the daemon processes, answered or not, adds at most a row, and
\* leaves the write recorded unless it names no skill.
LEMMA ProcessedRows ==
  ASSUME QueueInv, NEW w \in Workers, Processed(w)
  PROVE  /\ Current(w) \in Ids
         /\ recorded' \in [Ids -> 0..2]
         /\ recorded'[Current(w)] = Inserted(Current(w), recorded[Current(w)])
         /\ recorded'[Current(w)] > 0 \/ queue[Current(w)].blank
         /\ recorded[Current(w)] > 0 => recorded'[Current(w)] > 0
         /\ \A i \in Ids \ {Current(w)} : recorded'[i] = recorded[i]
         /\ UsageCountedOnce'
<1>1. Current(w) \in Ids
  BY CurrentIn DEF Processed, At, QueueInv, BusyOK
<1>2. recorded' = [recorded EXCEPT ![Current(w)] = Inserted(Current(w), @)]
  BY DEF Processed
<1>3. recorded \in [Ids -> 0..2]
  BY DEF QueueInv, Types
<1> DEFINE n == Inserted(Current(w), recorded[Current(w)])
<1>4. /\ n \in 0..2 /\ (n > 0 \/ queue[Current(w)].blank)
      /\ recorded[Current(w)] > 0 => n > 0
  BY <1>1, <1>3 DEF Inserted
<1>5. Current(w) \in Usage => n <= 1
  BY <1>1, <1>3 DEF Inserted, QueueInv, UsageCountedOnce
<1> HIDE DEF n
<1>6. recorded'[Current(w)] = n
  BY <1>1, <1>2, <1>3 DEF n
<1>7. \A i \in Ids \ {Current(w)} : recorded'[i] = recorded[i]
  BY <1>2, <1>3
<1>8. recorded' \in [Ids -> 0..2]
  BY <1>1, <1>2, <1>4, <1>3 DEF n
<1>9. UsageCountedOnce'
  BY <1>5, <1>6, <1>7, QueueAssumption DEF QueueInv, UsageCountedOnce
<1> QED  BY <1>1, <1>4, <1>6, <1>7, <1>8, <1>9 DEF n

\* The end of a send: the worker goes on with the same item.
LEMMA SendInv ==
  ASSUME QueueInv, NEW w \in Workers, Deliver(w) \/ LoseReply(w) \/ Refuse(w)
  PROVE  QueueInv'
<1>1. /\ worker[w].stage = "send" /\ UNCHANGED <<queue, purged>>
      /\ \E stage \in {"delete", "read"} :
           /\ worker' = [worker EXCEPT ![w].stage = stage]
           /\ stage = "delete" => Processed(w)
  BY DEF Deliver, LoseReply, Refuse, Processed, Failed, To, At
<1>2. PICK stage \in {"delete", "read"} :
        worker' = [worker EXCEPT ![w].stage = stage] /\ (stage = "delete" => Processed(w))
  BY <1>1
<1>3. Processed(w) \/ UNCHANGED recorded
  BY DEF Deliver, LoseReply, Refuse
<1>4. /\ recorded' \in [Ids -> 0..2] /\ UsageCountedOnce'
      /\ \A i \in Ids : recorded[i] > 0 => recorded'[i] > 0
  BY <1>3, ProcessedRows DEF QueueInv, Types, UsageCountedOnce
<1>5. Onward
  BY <1>1, <1>4 DEF Onward
<1>6. Types'
  BY <1>1, <1>2, <1>4 DEF QueueInv, Types, Sessions
<1>7. \A v \in Workers : BusyOK(v)'
  <2>1. worker'[w].stage = stage /\ worker'[w].todo = worker[w].todo
    BY <1>2 DEF QueueInv, Types, Sessions
  <2>2. worker[w].todo # {} /\ worker[w].todo \subseteq Ids
    BY <1>1 DEF QueueInv, BusyOK, Types, Sessions
  <2>3. Current(w)' = Current(w)
    BY <2>1 DEF Current
  <2>4. stage = "delete" => recorded'[Current(w)] > 0 \/ queue'[Current(w)].blank
    BY <1>1, <1>2, ProcessedRows
  <2>5. BusyOK(w)'
    BY <1>1, <2>1, <2>2, <2>3, <2>4 DEF BusyOK, QueueInv
  <2>6. ASSUME NEW v \in Workers \ {w}  PROVE  BusyOK(v)'
    BY <1>2, <1>5, BusyFrame DEF QueueInv, Types
  <2> QED  BY <2>5, <2>6
<1>8. PurgedGone' /\ NothingLost'
  BY <1>1, <1>4 DEF QueueInv, PurgedGone, NothingLost
<1> QED  BY <1>4, <1>6, <1>7, <1>8 DEF QueueInv

\* A statement that settles or marks rows, or none: the rows it leaves keep
\* their place, and the worker is done with its item.
LEMMA SettleInv ==
  ASSUME QueueInv, NEW w \in Workers,
         queue' \in [Ids -> Rows], Onward, UNCHANGED <<recorded, purged>>,
         \A i \in Ids : queue'[i].state = "gone" /\ queue[i].state # "gone" =>
           recorded[i] > 0 \/ queue'[i].blank,
         worker' \in [Workers -> Sessions],
         worker'[w].todo \subseteq worker[w].todo,
         worker'[w].stage # "idle" => worker'[w].todo # {},
         worker'[w].stage # "delete",
         \A v \in Workers \ {w} : worker'[v] = worker[v]
  PROVE  QueueInv'
<1>1. Types'
  BY DEF QueueInv, Types
<1>2. \A v \in Workers : BusyOK(v)'
  BY BusyFrame, BusyMoves
<1>3. PurgedGone' /\ NothingLost' /\ UsageCountedOnce'
  BY DEF QueueInv, Types, Onward, PurgedGone, NothingLost, UsageCountedOnce
<1> QED  BY <1>1, <1>2, <1>3 DEF QueueInv

\* A worker that goes idle.
LEMMA IdleMoves ==
  ASSUME QueueInv, NEW w \in Workers, worker' = [worker EXCEPT ![w] = Idle]
  PROVE  /\ worker' \in [Workers -> Sessions]
         /\ worker'[w].todo \subseteq worker[w].todo
         /\ worker'[w] = Idle
         /\ worker'[w].stage = "idle" /\ worker'[w].todo = {} /\ worker'[w].attempts = 0
         /\ \A v \in Workers \ {w} : worker'[v] = worker[v]
<1>1. worker \in [Workers -> Sessions] /\ Idle \in Sessions
  BY DEF QueueInv, Types, Sessions, Idle
<1>2. worker'[w] = Idle
  BY <1>1
<1> QED  BY <1>1, <1>2 DEF Idle

\* Delete, which only follows an answer of the daemon.
LEMMA DeleteInv ==
  ASSUME QueueInv, NEW w \in Workers, Delete(w)
  PROVE  QueueInv' /\ Onward
<1>1. Current(w) \in Ids /\ (recorded[Current(w)] > 0 \/ queue[Current(w)].blank)
  BY CurrentIn DEF Delete, At, QueueInv, BusyOK
<1>2. queue' = [queue EXCEPT ![Current(w)].state = "gone"] /\ queue \in [Ids -> Rows]
  BY DEF Delete, QueueInv, Types
<1>3. /\ queue' \in [Ids -> Rows]
      /\ queue'[Current(w)].state = "gone"
      /\ queue'[Current(w)].blank = queue[Current(w)].blank
      /\ \A i \in Ids \ {Current(w)} : queue'[i] = queue[i]
  BY <1>1, <1>2 DEF Rows
<1>4. UNCHANGED <<recorded, purged>> /\ Proceed(w)
  BY DEF Delete
<1>5. Onward
  BY <1>3, <1>4 DEF Onward
<1> QED  BY <1>1, <1>3, <1>4, <1>5, ProceedMoves, SettleInv

\* The two statements of MarkAttempt.
LEMMA ReadInv ==
  ASSUME QueueInv, NEW w \in Workers, ReadAttempts(w)
  PROVE  QueueInv'
<1>1. Current(w) \in Ids /\ worker[w].todo # {} /\ worker \in [Workers -> Sessions]
  BY CurrentIn DEF ReadAttempts, At, QueueInv, BusyOK, Types
<1>2. UNCHANGED <<queue, recorded, purged>>
  BY DEF ReadAttempts
<1>3. Onward /\ queue' \in [Ids -> Rows]
  BY <1>2 DEF Onward, QueueInv, Types
<1>4. CASE worker' = [worker EXCEPT ![w] = Idle]
  BY <1>2, <1>3, <1>4, IdleMoves, SettleInv
<1>5. CASE worker' = [worker EXCEPT ![w] =
             [@ EXCEPT !.stage = "write", !.attempts = queue[Current(w)].attempts]]
  <2>1. queue[Current(w)].attempts \in Nat
    BY <1>1 DEF QueueInv, Types, Rows
  <2>2. /\ worker'[w].todo = worker[w].todo /\ worker'[w].stage = "write"
        /\ worker' \in [Workers -> Sessions]
        /\ \A v \in Workers \ {w} : worker'[v] = worker[v]
    BY <1>1, <1>5, <2>1 DEF Sessions
  <2> QED  BY <1>1, <1>2, <1>3, <2>2, SettleInv
<1> QED  BY <1>4, <1>5 DEF ReadAttempts

\* The row that WriteAttempts leaves.
LEMMA WrittenRow ==
  ASSUME QueueInv, NEW w \in Workers, WriteAttempts(w)
  PROVE  /\ Current(w) \in Ids
         /\ queue' \in [Ids -> Rows]
         /\ \A i \in Ids : /\ queue'[i].state = queue[i].state
                           /\ queue'[i].blank = queue[i].blank
                           /\ queue[i].dead => queue'[i].dead
                           /\ i # Current(w) => queue'[i] = queue[i]
                           /\ queue[i].state = "gone" => queue'[i] = queue[i]
<1>1. Current(w) \in Ids
  BY CurrentIn DEF WriteAttempts, At, QueueInv, BusyOK
<1>2. queue \in [Ids -> Rows] /\ worker[w].attempts \in Nat
  BY DEF QueueInv, Types, Sessions
<1> DEFINE i == Current(w)
           n == worker[w].attempts + 1
<1>3. CASE queue[i].state = "gone"
  BY <1>1, <1>2, <1>3 DEF WriteAttempts
<1>4. CASE queue[i].state # "gone"
  <2>1. queue' = [queue EXCEPT ![i] = Marked(queue[i], n)]
    BY <1>4 DEF WriteAttempts
  <2>2. n \in Nat /\ n > 0 /\ queue[i] \in Rows
    BY <1>1, <1>2
  <2>3. /\ Marked(queue[i], n) \in Rows /\ Marked(queue[i], n).state = queue[i].state
        /\ Marked(queue[i], n).blank = queue[i].blank
        /\ queue[i].dead => Marked(queue[i], n).dead
    BY <2>2, MarkedRow
  <2> HIDE DEF n
  <2>4. queue'[i] = Marked(queue[i], n) /\ \A j \in Ids \ {i} : queue'[j] = queue[j]
    BY <1>1, <1>2, <2>1
  <2>5. queue' \in [Ids -> Rows]
    BY <1>1, <1>2, <2>1, <2>3
  <2> QED  BY <1>1, <1>4, <2>3, <2>4, <2>5
<1> QED  BY <1>3, <1>4

\* The second statement of MarkAttempt marks a row, or finds none to mark.
LEMMA WriteInv ==
  ASSUME QueueInv, NEW w \in Workers, WriteAttempts(w)
  PROVE  QueueInv'
<1>1. UNCHANGED <<recorded, purged>> /\ worker' = [worker EXCEPT ![w] = Idle]
  BY DEF WriteAttempts
<1>2. Onward
  BY <1>1, WrittenRow DEF Onward
<1> QED  BY <1>1, <1>2, WrittenRow, IdleMoves, SettleInv

\* A failing statement and the death of a process change no row.
LEMMA DropInv ==
  ASSUME QueueInv, NEW w \in Workers, QueueError(w) \/ Crash(w)
  PROVE  QueueInv'
<1>1. UNCHANGED <<queue, recorded, purged>>
  BY DEF QueueError, Crash
<1>2. Onward /\ queue' \in [Ids -> Rows]
  BY <1>1 DEF Onward, QueueInv, Types
<1>3. Proceed(w) \/ worker' = [worker EXCEPT ![w] = Idle]
  BY DEF QueueError, Crash
<1> QED  BY <1>1, <1>2, <1>3, ProceedMoves, IdleMoves, SettleInv

\* Time changes only the wait of a row.
LEMMA ElapseInv ==
  ASSUME QueueInv, NEW i \in Ids, Elapse(i)
  PROVE  QueueInv' /\ \A j \in Ids : Same(j)
<1>1. queue \in [Ids -> Rows] /\ queue' = [queue EXCEPT ![i].wait = 0]
  BY DEF Elapse, QueueInv, Types
<1>2. queue' \in [Ids -> Rows]
      /\ \A j \in Ids : Same(j)
  BY <1>1 DEF Rows, Same
<1>3. UNCHANGED <<worker, recorded, purged>>
  BY DEF Elapse
<1>4. Onward /\ Types'
  BY <1>2, <1>3 DEF Onward, QueueInv, Types, Same
<1>5. \A v \in Workers : BusyOK(v)'
  BY <1>3, <1>4, BusyFrame
<1>6. PurgedGone' /\ NothingLost' /\ UsageCountedOnce'
  BY <1>2, <1>3 DEF QueueInv, Types, PurgedGone, NothingLost, UsageCountedOnce, Same
<1> QED  BY <1>2, <1>4, <1>5, <1>6 DEF QueueInv

\* A purge takes rows that are queued.
LEMMA PurgeInv ==
  ASSUME QueueInv, NEW all \in BOOLEAN, Purge(all)
  PROVE  QueueInv'
<1> DEFINE out == {i \in Ids : queue[i].state = "queued" /\ (all \/ queue[i].dead)}
<1>1. /\ queue' = [i \in Ids |-> IF i \in out THEN [queue[i] EXCEPT !.state = "gone"] ELSE queue[i]]
      /\ purged' = purged \cup out /\ UNCHANGED <<worker, recorded>>
  BY DEF Purge
<1>2. queue \in [Ids -> Rows] /\ purged \subseteq Ids
  BY DEF QueueInv, Types
<1>3. queue' \in [Ids -> Rows]
  BY <1>1, <1>2 DEF Rows
<1>4. \A i \in Ids : /\ queue'[i].state = IF i \in out THEN "gone" ELSE queue[i].state
                     /\ queue'[i].blank = queue[i].blank
  BY <1>1, <1>2 DEF Rows
<1>5. Onward /\ Types'
  BY <1>1, <1>2, <1>3, <1>4 DEF Onward, QueueInv, Types
<1>6. \A v \in Workers : BusyOK(v)'
  BY <1>1, <1>5, BusyFrame
<1>7. PurgedGone' /\ NothingLost' /\ UsageCountedOnce'
  BY <1>1, <1>2, <1>4 DEF QueueInv, PurgedGone, NothingLost, UsageCountedOnce
<1> QED  BY <1>5, <1>6, <1>7 DEF QueueInv

\* Every step keeps the invariant.
LEMMA NextQueueInv == QueueInv /\ [Next]_vars => QueueInv'
<1> SUFFICES ASSUME QueueInv, [Next]_vars  PROVE QueueInv'
  OBVIOUS
<1>1. ASSUME NEW w \in Handlers, NEW i \in Ids, ReportUsage(w, i) \/ ProposeSkill(w, i)
      PROVE  QueueInv'
  BY <1>1, EnqueueInv DEF ReportUsage, ProposeSkill, Workers
<1>2. ASSUME NEW w \in Drainers, DrainOnce(w)  PROVE QueueInv'
  BY <1>2, DrainInv DEF Workers
<1>3. ASSUME NEW w \in Workers, Step(w) \/ QueueError(w) \/ Crash(w)  PROVE QueueInv'
  BY <1>3, SendInv, DeleteInv, ReadInv, WriteInv, DropInv DEF Step
<1>4. ASSUME NEW i \in Ids, Elapse(i)  PROVE QueueInv'
  BY <1>4, ElapseInv
<1>5. ASSUME NEW all \in BOOLEAN, Purge(all)  PROVE QueueInv'
  BY <1>5, PurgeInv
<1>6. CASE UNCHANGED vars
  <2>1. UNCHANGED <<queue, worker, recorded, purged>>
    BY <1>6 DEF vars
  <2>2. Onward
    BY <2>1 DEF Onward
  <2>3. \A w \in Workers : BusyOK(w)'
    BY <2>1, <2>2, BusyFrame
  <2> QED  BY <2>1, <2>3 DEF QueueInv, Types, PurgedGone, NothingLost, UsageCountedOnce
<1> QED  BY <1>1, <1>2, <1>3, <1>4, <1>5, <1>6 DEF Next

\* Every reachable state satisfies the invariant.
LEMMA QueueInvHolds == Spec => []QueueInv
BY InitQueueInv, NextQueueInv, PTL DEF Spec

\* NothingLost: whatever the sessions race for, and whenever they die, a row
\* that left the queue is with the daemon or was purged, or was a report that
\* named no skill.
THEOREM QueueLosesNothing == Spec => []NothingLost
<1>1. QueueInv => NothingLost  BY DEF QueueInv
<1> QED  BY <1>1, QueueInvHolds, PTL

\* UsageCountedOnce: the sends of the tool, of every drain, and those whose
\* reply was lost leave one row of a usage report.
THEOREM UsageOnce == Spec => []UsageCountedOnce
<1>1. QueueInv => UsageCountedOnce  BY DEF QueueInv
<1> QED  BY <1>1, QueueInvHolds, PTL

-----------------------------------------------------------------------------
(* Each step of the queue is one of Outbox, or none.                       *)

\* Only rows that were accepted are given up, or have a payload.
NewAlive == \A i \in Ids : queue[i].state = "new" => ~queue[i].dead /\ ~queue[i].blank

\* The second statement of a mark finds a row that was accepted.
LEMMA NewAliveStep == QueueInv /\ NewAlive /\ [Next]_vars => NewAlive'
<1> SUFFICES ASSUME QueueInv, NewAlive, [Next]_vars  PROVE NewAlive'
  OBVIOUS
<1>1. queue \in [Ids -> Rows]
  BY DEF QueueInv, Types
<1>2. ASSUME NEW w \in Handlers, NEW i \in Ids, ReportUsage(w, i) \/ ProposeSkill(w, i)
      PROVE  NewAlive'
  <2>1. \E blank \in BOOLEAN :
          queue' = [queue EXCEPT ![i].state = "queued", ![i].blank = blank]
    BY <1>2 DEF ReportUsage, ProposeSkill, Enqueue
  <2> QED  BY <1>1, <2>1 DEF NewAlive, Rows
<1>3. ASSUME NEW w \in Workers, WriteAttempts(w)  PROVE NewAlive'
  <2>1. Current(w) \in Ids /\ queue[Current(w)].state # "new"
    BY <1>3, CurrentIn DEF WriteAttempts, At, QueueInv, BusyOK
  <2> QED  BY <1>3, <2>1, WrittenRow DEF NewAlive
<1>4. ASSUME NEW w \in Workers, Delete(w)  PROVE NewAlive'
  <2>1. queue' = [queue EXCEPT ![Current(w)].state = "gone"]
    BY <1>4 DEF Delete
  <2> QED  BY <1>1, <2>1 DEF NewAlive, Rows
<1>5. ASSUME NEW i \in Ids, Elapse(i)  PROVE NewAlive'
  BY <1>5, ElapseInv DEF NewAlive, Same
<1>6. ASSUME NEW all \in BOOLEAN, Purge(all)  PROVE NewAlive'
  BY <1>1, <1>6 DEF Purge, NewAlive, Rows
<1>7. CASE UNCHANGED queue
  BY <1>7 DEF NewAlive
<1> QED  BY <1>2, <1>3, <1>4, <1>5, <1>6, <1>7
         DEF Next, Step, DrainOnce, Deliver, LoseReply, Refuse, ReadAttempts, QueueError, Crash, vars

\* A row that stays as it is shows the same.
LEMMA SameShown ==
  ASSUME NEW i \in Ids, Same(i), i \in purged' <=> i \in purged
  PROVE  Shown(i)' = Shown(i)
BY DEF Same, Shown

\* A step that changes neither rows nor receipts is a stutter of Outbox.
LEMMA ShownStutter ==
  ASSUME \A i \in Ids : Same(i), UNCHANGED <<recorded, purged>>
  PROVE  UNCHANGED Abstract!outboxVars
<1>1. \A i \in Ids : Shown(i)' = Shown(i)
  BY SameShown
<1>2. {i \in Ids : queue[i].blank}' = {i \in Ids : queue[i].blank}
  BY DEF Same
<1> QED  BY <1>1, <1>2 DEF Abstract!outboxVars

\* Enqueue is Accept.
LEMMA EnqueueAccepts ==
  ASSUME QueueInv, NewAlive, NEW w \in Workers, NEW i \in Ids,
         NEW blank \in BOOLEAN, blank => i \in Usage, Enqueue(w, i, blank)
  PROVE  Abstract!Accept(i)
<1>1. /\ queue \in [Ids -> Rows]
      /\ queue' = [queue EXCEPT ![i].state = "queued", ![i].blank = blank]
  BY DEF Enqueue, QueueInv, Types
<1>2. /\ queue[i].state = "new" /\ ~queue[i].dead /\ ~queue[i].blank
      /\ UNCHANGED <<recorded, purged>>
  BY DEF Enqueue, NewAlive
<1>3. /\ queue'[i].state = "queued" /\ ~queue'[i].dead /\ queue'[i].blank = blank
      /\ \A j \in Ids \ {i} : queue'[j] = queue[j]
  BY <1>1, <1>2 DEF Rows
<1>4. Shown(i) = "new" /\ Shown(i)' = "held"
  BY <1>2, <1>3 DEF Shown
<1>5. \A j \in Ids \ {i} : Shown(j)' = Shown(j)
  BY <1>2, <1>3, SameShown DEF Same
<1> DEFINE void == {j \in Ids : queue[j].blank}
<1>6. void' \in {void, void \cup ({i} \cap Usage)}
  <2>1. CASE blank
    <3>1. void' = void \cup ({i} \cap Usage)  BY <1>3, <2>1
    <3> QED  BY <3>1
  <2>2. CASE ~blank
    <3>1. void' = void  BY <1>2, <1>3, <2>2
    <3> QED  BY <3>1
  <2> QED  BY <2>1, <2>2
<1> QED  BY <1>2, <1>4, <1>5, <1>6 DEF Abstract!Accept

\* A send the daemon processes is Receive, or names no skill.
LEMMA SendReceives ==
  ASSUME QueueInv, NEW w \in Workers, Deliver(w) \/ LoseReply(w)
  PROVE  (\E i \in Ids : Abstract!Receive(i)) \/ UNCHANGED Abstract!outboxVars
<1>1. Processed(w) /\ worker[w].stage = "send" /\ UNCHANGED <<queue, purged>>
  BY DEF Deliver, LoseReply, Processed, At
<1> DEFINE i == Current(w)
<1>2. i \in Ids /\ queue[i].state # "new"
  BY <1>1, CurrentIn DEF QueueInv, BusyOK
<1>3. queue[i].state \in {"queued", "gone"}
  BY <1>2 DEF QueueInv, Types, Rows
<1>4. Shown(i) # "new"
  BY <1>3 DEF Shown
<1>5. \A j \in Ids : Same(j)
  BY <1>1 DEF Same
<1>6. CASE ~queue[i].blank
  <2>1. recorded' = [recorded EXCEPT ![i] = IF i \in Usage \/ @ = 0 THEN 1 ELSE 2]
    BY <1>1, <1>6 DEF Processed, Inserted
  <2>2. \A j \in Ids : Shown(j)' = Shown(j)
    BY <1>1, <1>5, SameShown
  <2> QED  BY <1>1, <1>2, <1>4, <1>6, <2>1, <2>2 DEF Abstract!Receive
<1>7. CASE queue[i].blank
  <2>1. recorded' = recorded
    BY <1>1, <1>2, <1>7 DEF Processed, Inserted, QueueInv, Types
  <2> QED  BY <1>1, <1>5, <2>1, ShownStutter
<1> QED  BY <1>6, <1>7

\* Delete is Settle or Drop, or finds that the row is gone.
LEMMA DeleteSettles ==
  ASSUME QueueInv, NEW w \in Workers, Delete(w)
  PROVE  \/ \E i \in Ids : Abstract!Settle(i) \/ Abstract!Drop(i)
         \/ UNCHANGED Abstract!outboxVars
<1>1. PICK i \in Ids :
        i = Current(w) /\ (recorded[i] > 0 \/ queue[i].blank) /\ queue[i].state # "new"
  BY CurrentIn DEF Delete, At, QueueInv, BusyOK
<1>2. /\ queue \in [Ids -> Rows] /\ queue' = [queue EXCEPT ![i].state = "gone"]
      /\ UNCHANGED <<recorded, purged>>
  BY <1>1 DEF Delete, QueueInv, Types
<1>3. queue'[i].state = "gone" /\ \A j \in Ids \ {i} : queue'[j] = queue[j]
  BY <1>1, <1>2 DEF Rows
<1>4. CASE queue[i].state = "gone"
  <2>1. \A j \in Ids : Same(j)
    BY <1>2, <1>4 DEF Same, Rows
  <2> QED  BY <1>2, <2>1, ShownStutter
<1>5. CASE queue[i].state = "queued"
  <2>1. i \notin purged
    BY <1>5 DEF QueueInv, PurgedGone
  <2>2. queue'[i].blank = queue[i].blank /\ queue[i].blank \in BOOLEAN
    BY <1>1, <1>2 DEF Rows
  <2>3. /\ Shown(i) \in {"held", "dead"}
        /\ Shown(i)' = IF queue[i].blank THEN "dropped" ELSE "settled"
    BY <1>2, <1>3, <1>5, <2>1, <2>2 DEF Shown
  <2>4. \A j \in Ids \ {i} : Shown(j)' = Shown(j)
    BY <1>2, <1>3, SameShown DEF Same
  <2>5. {j \in Ids : queue[j].blank}' = {j \in Ids : queue[j].blank}
    BY <1>3, <2>2
  <2>6. CASE queue[i].blank
    BY <1>1, <1>2, <2>3, <2>4, <2>5, <2>6 DEF Abstract!Drop
  <2>7. CASE ~queue[i].blank
    BY <1>1, <1>2, <2>3, <2>4, <2>5, <2>7 DEF Abstract!Settle
  <2> QED  BY <1>1, <2>6, <2>7
<1> QED  BY <1>1, <1>2, <1>4, <1>5 DEF Rows

\* The mark of a failed attempt is GiveUp, or no news.
LEMMA WriteGivesUp ==
  ASSUME QueueInv, NEW w \in Workers, WriteAttempts(w)
  PROVE  (\E i \in Ids : Abstract!GiveUp(i)) \/ UNCHANGED Abstract!outboxVars
<1>0. PICK i \in Ids : i = Current(w)
  BY CurrentIn DEF WriteAttempts, At, QueueInv, BusyOK
<1>1. /\ queue[i].state # "new"
      /\ queue \in [Ids -> Rows] /\ queue' \in [Ids -> Rows]
      /\ UNCHANGED <<recorded, purged>>
  BY <1>0, CurrentIn, WrittenRow DEF WriteAttempts, At, QueueInv, BusyOK, Types
<1>2. \A j \in Ids :
        /\ queue'[j].state = queue[j].state
        /\ queue'[j].blank = queue[j].blank
        /\ queue[j].dead => queue'[j].dead
        /\ j # i => queue'[j] = queue[j]
        /\ queue[j].state = "gone" => queue'[j] = queue[j]
  BY <1>0, WrittenRow
<1>3. queue[i].dead \in BOOLEAN /\ queue'[i].dead \in BOOLEAN
  BY <1>1 DEF Rows
<1>4. CASE queue'[i].dead = queue[i].dead
  <2>1. \A j \in Ids : Same(j)
    BY <1>2, <1>4 DEF Same
  <2> QED  BY <1>1, <2>1, ShownStutter
<1>5. CASE queue'[i].dead # queue[i].dead
  <2>1. queue'[i].dead /\ ~queue[i].dead /\ queue[i].state = "queued" /\ queue'[i].state = "queued"
    BY <1>1, <1>2, <1>3, <1>5 DEF Rows
  <2>2. Shown(i) = "held" /\ Shown(i)' = "dead"
    BY <2>1 DEF Shown
  <2>3. \A j \in Ids \ {i} : Shown(j)' = Shown(j)
    BY <1>1, <1>2, SameShown DEF Same
  <2>4. {j \in Ids : queue[j].blank}' = {j \in Ids : queue[j].blank}
    BY <1>2
  <2>5. Abstract!GiveUp(i)
    BY <1>1, <2>2, <2>3, <2>4 DEF Abstract!GiveUp
  <2> QED  BY <1>1, <2>5
<1> QED  BY <1>4, <1>5

\* A purge is Withdraw.
LEMMA PurgeWithdraws ==
  ASSUME QueueInv, NEW all \in BOOLEAN, Purge(all)
  PROVE  \E out \in SUBSET Ids : Abstract!Withdraw(out)
<1> DEFINE out == {i \in Ids : queue[i].state = "queued" /\ (all \/ queue[i].dead)}
<1>1. /\ queue' = [i \in Ids |-> IF i \in out THEN [queue[i] EXCEPT !.state = "gone"] ELSE queue[i]]
      /\ purged' = purged \cup out /\ UNCHANGED recorded
      /\ queue \in [Ids -> Rows]
  BY DEF Purge, QueueInv, Types
<1>2. ASSUME NEW i \in out  PROVE  Shown(i) \in {"held", "dead"} /\ Shown(i)' = "withdrawn"
  <2>1. queue'[i].state = "gone" /\ i \in purged'
    BY <1>1 DEF Rows
  <2> QED  BY <2>1 DEF Shown
<1>3. ASSUME NEW i \in Ids \ out  PROVE  Shown(i)' = Shown(i)
  <2>1. queue'[i] = queue[i] /\ (i \in purged' <=> i \in purged)
    BY <1>1
  <2> QED  BY <2>1, SameShown DEF Same
<1> HIDE DEF out
<1>4. out \in SUBSET Ids
  BY DEF out
<1>5. {i \in Ids : queue[i].blank}' = {i \in Ids : queue[i].blank}
  BY <1>1 DEF Rows
<1>6. Abstract!Withdraw(out)
  BY <1>1, <1>2, <1>3, <1>4, <1>5 DEF Abstract!Withdraw
<1> QED  BY <1>4, <1>6

\* Every step of the queue is one of Outbox, or none.
LEMMA StepIsOutbox ==
  QueueInv /\ NewAlive /\ [Next]_vars => [Abstract!OutboxNext]_(Abstract!outboxVars)
<1> SUFFICES ASSUME QueueInv, NewAlive, [Next]_vars
             PROVE  Abstract!OutboxNext \/ UNCHANGED Abstract!outboxVars
  OBVIOUS
<1>1. ASSUME NEW w \in Handlers, NEW i \in Ids, ReportUsage(w, i) \/ ProposeSkill(w, i)
      PROVE  Abstract!OutboxNext
  BY <1>1, EnqueueAccepts DEF ReportUsage, ProposeSkill, Workers, Abstract!OutboxNext
<1>2. ASSUME NEW w \in Workers, Deliver(w) \/ LoseReply(w)
      PROVE  Abstract!OutboxNext \/ UNCHANGED Abstract!outboxVars
  BY <1>2, SendReceives DEF Abstract!OutboxNext
<1>3. ASSUME NEW w \in Workers, Delete(w) \/ WriteAttempts(w)
      PROVE  Abstract!OutboxNext \/ UNCHANGED Abstract!outboxVars
  BY <1>3, DeleteSettles, WriteGivesUp DEF Abstract!OutboxNext
<1>4. ASSUME NEW all \in BOOLEAN, Purge(all)  PROVE Abstract!OutboxNext
  BY <1>4, PurgeWithdraws DEF Abstract!OutboxNext
<1>5. ASSUME NEW i \in Ids, Elapse(i)  PROVE UNCHANGED Abstract!outboxVars
  <2>1. UNCHANGED <<recorded, purged>>
    BY <1>5 DEF Elapse
  <2> QED  BY <1>5, <2>1, ElapseInv, ShownStutter
<1>6. CASE UNCHANGED <<queue, recorded, purged>>
  BY <1>6, ShownStutter DEF Same
<1> QED  BY <1>1, <1>2, <1>3, <1>4, <1>5, <1>6
         DEF Next, Step, DrainOnce, Refuse, ReadAttempts, QueueError, Crash, vars

\* ImplementsOutbox: the rows, their two-statement marks and the sessions that
\* race for them keep the promise of the queue, however many there are.
THEOREM QueueImplementsOutbox == Spec => ImplementsOutbox
<1>1. Init => Abstract!OutboxInit
  BY DEF Init, Shown, Abstract!OutboxInit
<1>2. Init => NewAlive
  BY DEF Init, NewAlive
<1> QED
  BY <1>1, <1>2, NewAliveStep, StepIsOutbox, QueueInvHolds, PTL
     DEF Spec, ImplementsOutbox, Abstract!OutboxSpec

-----------------------------------------------------------------------------
(* The counters.  A mark is two statements, so marks of sessions that race  *)
(* for a row may be lost: attempts stays behind failures by the failures    *)
(* whose mark is still to come, and every session that holds a row can      *)
(* raise attempts by one more after the row is dead.                        *)

\* The sessions that have the row still to send or to mark.
Holders(i) == {w \in Workers : i \in worker[w].todo}

\* Those whose send of it has failed, with the mark to come.
Pending(i) == {w \in Workers : worker[w].stage \in {"read", "write"} /\ Current(w) = i}

\* The session has read the attempts of the row and is about to write them.
Marking(w, i) == worker[w].stage = "write" /\ Current(w) = i

\* No session that marks a live row will write more than the ceiling.
BelowCeiling(i) ==
  ~queue[i].dead =>
    /\ queue[i].attempts < MaxAttempts
    /\ \A w \in Workers : Marking(w, i) => worker[w].attempts < MaxAttempts

\* The marks to come leave attempts within the bound of the model.
Bounded(i) ==
  /\ queue[i].attempts + Cardinality(Holders(i)) <= MaxFailures
  /\ \A w \in Workers : Marking(w, i) =>
       worker[w].attempts + Cardinality(Holders(i)) <= MaxFailures

\* The marks to come leave attempts behind the failures.
Counted(i) ==
  \/ failures[i] = MaxFailures
  \/ /\ queue[i].attempts + Cardinality(Pending(i)) <= failures[i]
     /\ \A w \in Workers : Marking(w, i) =>
          worker[w].attempts + Cardinality(Pending(i)) <= failures[i]

CountersOK(i) ==
  /\ BelowCeiling(i)
  /\ Bounded(i)
  /\ Counted(i)
  /\ queue[i].dead => failures[i] >= MaxAttempts

\* A session without work holds no row, and only one that marks has attempts.
SessionOK(w) ==
  /\ worker[w].stage = "idle" => worker[w].todo = {}
  /\ worker[w].stage # "write" => worker[w].attempts = 0

CounterInv ==
  /\ failures \in [Ids -> 0..MaxFailures]
  /\ NewAlive
  /\ \A w \in Workers : SessionOK(w)
  /\ \A i \in Ids : CountersOK(i)

\* The sessions that hold a row, and those with a mark to come, are as many as
\* there are workers at most.
LEMMA HolderCounts ==
  ASSUME NEW i
  PROVE  /\ IsFiniteSet(Holders(i)) /\ IsFiniteSet(Pending(i))
         /\ Cardinality(Holders(i)) \in Nat /\ Cardinality(Pending(i)) \in Nat
         /\ Cardinality(Holders(i)) <= Cardinality(Workers)
<1>1. Holders(i) \in SUBSET Workers /\ Pending(i) \in SUBSET Workers
  BY DEF Holders, Pending
<1> QED  BY <1>1, QueueAssumption, FS_Subset, FS_CardinalityType

\* Fewer sessions hold a row.
LEMMA FewerHolders ==
  ASSUME NEW i, \A v \in Workers : i \in worker'[v].todo => i \in worker[v].todo
  PROVE  /\ Cardinality(Holders(i))' \in Nat
         /\ Cardinality(Holders(i))' <= Cardinality(Holders(i))
<1>1. Holders(i)' \in SUBSET Holders(i)
  BY DEF Holders
<1>2. IsFiniteSet(Holders(i))
  BY HolderCounts
<1> QED  BY <1>1, <1>2, FS_Subset, FS_CardinalityType

\* Fewer sessions have a mark of it to come.
LEMMA FewerPending ==
  ASSUME NEW i,
         \A v \in Workers : worker'[v].stage \in {"read", "write"} /\ Current(v)' = i =>
           worker[v].stage \in {"read", "write"} /\ Current(v) = i
  PROVE  /\ Cardinality(Pending(i))' \in Nat
         /\ Cardinality(Pending(i))' <= Cardinality(Pending(i))
<1>1. Pending(i)' \in SUBSET Pending(i)
  BY DEF Pending
<1>2. IsFiniteSet(Pending(i))
  BY HolderCounts
<1> QED  BY <1>1, <1>2, FS_Subset, FS_CardinalityType

\* One session less.
LEMMA OneLess ==
  ASSUME NEW i, NEW w \in Workers, i \in worker[w].todo, worker[w].stage \in {"read", "write"},
         Current(w) = i, worker'[w] = Idle,
         \A v \in Workers \ {w} : worker'[v] = worker[v]
  PROVE  /\ Cardinality(Holders(i))' \in Nat /\ Cardinality(Pending(i))' \in Nat
         /\ Cardinality(Holders(i))' + 1 = Cardinality(Holders(i))
         /\ Cardinality(Pending(i))' + 1 = Cardinality(Pending(i))
<1>1. \A v \in Workers \ {w} : Current(v)' = Current(v)
  BY DEF Current
<1>2. /\ Holders(i)' = Holders(i) \ {w} /\ w \in Holders(i)
      /\ Pending(i)' = Pending(i) \ {w} /\ w \in Pending(i)
  BY <1>1 DEF Holders, Pending, Idle
<1>3. IsFiniteSet(Holders(i)) /\ IsFiniteSet(Pending(i))
  BY HolderCounts
<1>4. /\ Cardinality(Holders(i)) \in Nat /\ Cardinality(Pending(i)) \in Nat
      /\ Cardinality(Holders(i)') \in Nat /\ Cardinality(Pending(i)') \in Nat
  BY <1>2, <1>3, FS_RemoveElement, FS_CardinalityType
<1>5. /\ Cardinality(Holders(i)') = Cardinality(Holders(i)) - 1
      /\ Cardinality(Pending(i)') = Cardinality(Pending(i)) - 1
  BY <1>2, <1>3, FS_RemoveElement
<1> QED  BY <1>4, <1>5

\* What fits with more fits with less.
LEMMA LessFits ==
  ASSUME NEW more \in Nat, NEW less \in Nat, NEW bound \in Nat, less <= more
  PROVE  \A n \in Nat : n + more <= bound => n + less <= bound
OBVIOUS

\* And with one less, so does one more.
LEMMA OneMoreFits ==
  ASSUME NEW more \in Nat, NEW less \in Nat, NEW bound \in Nat, less + 1 <= more
  PROVE  \A n \in Nat : n + more <= bound => n + less <= bound /\ (n + 1) + less <= bound
OBVIOUS

\* Where there is a worker, the bound of the model is not below the ceiling.
LEMMA CeilingFits ==
  ASSUME NEW w \in Workers
  PROVE  MaxFailures >= MaxAttempts
<1> DEFINE all == Cardinality(Workers)
<1>1. all \in Nat /\ all # 0
  BY QueueAssumption, FS_CardinalityType, FS_EmptySet
<1>2. MaxFailures \in Nat /\ MaxAttempts \in Nat /\ MaxFailures >= MaxAttempts + all - 1
  BY QueueAssumption
<1> HIDE DEF all
<1> QED  BY <1>1, <1>2

\* A row keeps its counters in order while they stay and marks only go away.
LEMMA CounterFrame ==
  ASSUME QueueInv, QueueInv', NEW i \in Ids, CountersOK(i), failures[i] \in 0..MaxFailures,
         queue'[i].attempts = queue[i].attempts, queue'[i].dead = queue[i].dead,
         failures'[i] = failures[i],
         \A v \in Workers : i \in worker'[v].todo => i \in worker[v].todo,
         \A v \in Workers : worker'[v].stage \in {"read", "write"} /\ Current(v)' = i =>
           worker[v].stage \in {"read", "write"} /\ Current(v) = i,
         \A v \in Workers : Marking(v, i)' =>
           Marking(v, i) /\ worker'[v].attempts = worker[v].attempts
  PROVE  CountersOK(i)'
<1> DEFINE h == Cardinality(Holders(i))
           p == Cardinality(Pending(i))
<1>1. h' \in Nat /\ p' \in Nat /\ h' <= h /\ p' <= p
  BY FewerHolders, FewerPending
<1>2. h \in Nat /\ p \in Nat
  BY HolderCounts
<1>3. /\ queue[i].attempts \in Nat /\ MaxFailures \in Nat /\ failures[i] \in Nat
      /\ \A v \in Workers : worker[v].attempts \in Nat
  BY QueueAssumption DEF QueueInv, Types, Rows, Sessions
<1> HIDE DEF h, p
<1>4. /\ queue[i].attempts + h <= MaxFailures => queue[i].attempts + h' <= MaxFailures
      /\ queue[i].attempts + p <= failures[i] => queue[i].attempts + p' <= failures[i]
      /\ \A v \in Workers :
           /\ worker[v].attempts + h <= MaxFailures => worker[v].attempts + h' <= MaxFailures
           /\ worker[v].attempts + p <= failures[i] => worker[v].attempts + p' <= failures[i]
  BY <1>1, <1>2, <1>3
<1>5. BelowCeiling(i)'
  BY DEF CountersOK, BelowCeiling
<1>6. Bounded(i)'
  BY <1>4 DEF CountersOK, Bounded, h
<1>7. Counted(i)'
  BY <1>4 DEF CountersOK, Counted, p
<1> QED  BY <1>5, <1>6, <1>7 DEF CountersOK

\* The same for a step of one worker.
LEMMA WorkerFrame ==
  ASSUME QueueInv, QueueInv', CounterInv, NEW i \in Ids, NEW w \in Workers,
         queue'[i].attempts = queue[i].attempts, queue'[i].dead = queue[i].dead,
         failures'[i] = failures[i],
         \A v \in Workers \ {w} : worker'[v] = worker[v],
         i \in worker'[w].todo => i \in worker[w].todo,
         worker'[w].stage \in {"read", "write"} => Current(w)' # i
  PROVE  CountersOK(i)'
<1>1. \A v \in Workers \ {w} : Current(v)' = Current(v)
  BY DEF Current
<1>2. \A v \in Workers :
        worker'[v].stage \in {"read", "write"} /\ Current(v)' = i =>
          worker[v].stage \in {"read", "write"} /\ Current(v) = i
  BY <1>1
<1>3. \A v \in Workers : Marking(v, i)' => Marking(v, i) /\ worker'[v].attempts = worker[v].attempts
  BY <1>1 DEF Marking
<1>4. CountersOK(i) /\ failures[i] \in 0..MaxFailures
  BY DEF CounterInv
<1> QED  BY <1>2, <1>3, <1>4, CounterFrame

\* A row that is picked up is not dead: it has room for a mark of every worker.
LEMMA PickUpCounters ==
  ASSUME QueueInv, QueueInv', CounterInv, NEW w \in Workers, NEW i \in Ids,
         queue'[i].attempts = queue[i].attempts, queue'[i].dead = queue[i].dead,
         failures'[i] = failures[i],
         worker'[w].stage = "send", \A v \in Workers \ {w} : worker'[v] = worker[v],
         ~queue[i].dead
  PROVE  CountersOK(i)'
<1>1. \A v \in Workers \ {w} : Current(v)' = Current(v)
  BY DEF Current
<1>2. \A v \in Workers : Marking(v, i)' => Marking(v, i) /\ worker'[v].attempts = worker[v].attempts
  BY <1>1 DEF Marking
<1>3. CountersOK(i)
  BY DEF CounterInv
<1> DEFINE h == Cardinality(Holders(i))
           p == Cardinality(Pending(i))
<1>4. p' \in Nat /\ p' <= p /\ p \in Nat
  BY <1>1, FewerPending, HolderCounts
<1>5. h' \in Nat /\ h' <= Cardinality(Workers)
  <2>1. Holders(i)' \in SUBSET Workers  BY DEF Holders
  <2> QED  BY <2>1, QueueAssumption, FS_Subset, FS_CardinalityType
<1>6. /\ queue[i].attempts \in Nat /\ failures[i] \in Nat
      /\ \A v \in Workers : worker[v].attempts \in Nat
  BY DEF QueueInv, Types, Rows, Sessions, CounterInv
<1>7. /\ Cardinality(Workers) \in Nat /\ MaxFailures \in Nat /\ MaxAttempts \in Nat
      /\ MaxFailures >= MaxAttempts + Cardinality(Workers) - 1
  BY QueueAssumption, FS_CardinalityType
<1> HIDE DEF h, p
<1>8. /\ queue[i].attempts < MaxAttempts
      /\ \A v \in Workers : Marking(v, i) => worker[v].attempts < MaxAttempts
  BY <1>3 DEF CountersOK, BelowCeiling
<1>9. ASSUME NEW n \in Nat, n < MaxAttempts  PROVE n + h' <= MaxFailures
  <2> DEFINE all == Cardinality(Workers)
             held == h'
  <2>1. /\ all \in Nat /\ held \in Nat /\ held <= all
        /\ MaxFailures \in Nat /\ MaxAttempts \in Nat /\ MaxFailures >= MaxAttempts + all - 1
    BY <1>5, <1>7
  <2> HIDE DEF all, held
  <2>2. n + held <= MaxFailures
    BY <1>9, <2>1
  <2> QED  BY <2>2 DEF held
<1>10. BelowCeiling(i)'
  BY <1>2, <1>8 DEF BelowCeiling
<1>11. Bounded(i)'
  BY <1>2, <1>6, <1>8, <1>9 DEF Bounded, h
<1>12. Counted(i)'
  <2>1. \A n \in Nat : n + p <= failures[i] => n + p' <= failures[i]
    BY <1>4, <1>6
  <2> QED  BY <1>2, <1>3, <1>6, <2>1 DEF CountersOK, Counted, p
<1> QED  BY <1>3, <1>10, <1>11, <1>12 DEF CountersOK

\* A send that fails counts as a failure, with one more mark to come.
LEMMA FailedCounters ==
  ASSUME QueueInv, QueueInv', CounterInv, NEW w \in Workers, worker[w].stage = "send",
         Failed(w), UNCHANGED queue
  PROVE  /\ failures' \in [Ids -> 0..MaxFailures]
         /\ \A j \in Ids : CountersOK(j)'
<1>1. PICK i \in Ids : i = Current(w)
  BY CurrentIn DEF QueueInv, BusyOK
<1>2. /\ worker'[w].stage = "read" /\ worker'[w].todo = worker[w].todo
      /\ \A v \in Workers \ {w} : worker'[v] = worker[v]
  BY DEF Failed, To, QueueInv, Types, Sessions
<1>3. \A v \in Workers : Current(v)' = Current(v)
  BY <1>2 DEF Current
<1>4. failures \in [Ids -> 0..MaxFailures] /\ MaxFailures \in Nat
  BY QueueAssumption DEF CounterInv
<1>5. failures' = [failures EXCEPT ![i] = IF @ < MaxFailures THEN @ + 1 ELSE @]
  BY <1>1 DEF Failed
<1>6. /\ failures' \in [Ids -> 0..MaxFailures]
      /\ \A j \in Ids \ {i} : failures'[j] = failures[j]
      /\ failures'[i] = IF failures[i] < MaxFailures THEN failures[i] + 1 ELSE failures[i]
  BY <1>1, <1>4, <1>5
<1>7. ASSUME NEW j \in Ids \ {i}  PROVE CountersOK(j)'
  BY <1>1, <1>2, <1>3, <1>6, WorkerFrame
<1>8. CountersOK(i)'
  <2> DEFINE h == Cardinality(Holders(i))
             p == Cardinality(Pending(i))
  <2>1. \A v \in Workers : Marking(v, i)' => Marking(v, i) /\ worker'[v].attempts = worker[v].attempts
    BY <1>2, <1>3 DEF Marking
  <2>2. CountersOK(i)
    BY <1>1 DEF CounterInv
  <2>3. h' \in Nat /\ h' <= h /\ h \in Nat
    BY <1>2, FewerHolders, HolderCounts
  <2>4. p \in Nat /\ p' = p + 1
    <3>1. Pending(i)' = Pending(i) \cup {w} /\ w \notin Pending(i)
      BY <1>1, <1>2, <1>3 DEF Pending
    <3>2. IsFiniteSet(Pending(i)) /\ Cardinality(Pending(i)) \in Nat
      BY HolderCounts
    <3>3. Cardinality(Pending(i)') = Cardinality(Pending(i)) + 1
      BY <3>1, <3>2, FS_AddElement
    <3> QED  BY <3>2, <3>3
  <2>5. /\ queue[i].attempts \in Nat /\ failures[i] \in Nat
        /\ \A v \in Workers : worker[v].attempts \in Nat
    BY <1>1, <1>4 DEF QueueInv, Types, Rows, Sessions
  <2>6. MaxAttempts \in Nat  BY QueueAssumption
  <2> HIDE DEF h, p
  <2>7. BelowCeiling(i)'
    BY <2>1, <2>2 DEF CountersOK, BelowCeiling
  <2>8. Bounded(i)'
    <3>1. \A n \in Nat : n + h <= MaxFailures => n + h' <= MaxFailures
      BY <1>4, <2>3, LessFits
    <3> QED  BY <2>1, <2>2, <2>5, <3>1 DEF CountersOK, Bounded, h
  <2>9. Counted(i)'
    <3>1. CASE failures[i] = MaxFailures
      BY <1>4, <1>6, <3>1 DEF Counted
    <3>2. CASE failures[i] # MaxFailures
      <4>1. failures'[i] = failures[i] + 1
        BY <1>1, <1>4, <1>6, <3>2
      <4>2. \A n \in Nat : n + p <= failures[i] => n + p' <= failures'[i]
        BY <2>4, <2>5, <4>1
      <4> QED  BY <2>1, <2>2, <2>5, <3>2, <4>2 DEF CountersOK, Counted, p
    <3> QED  BY <3>1, <3>2
  <2>10. failures'[i] >= failures[i] /\ failures'[i] \in Nat
    BY <1>4, <1>6, <2>5
  <2>11. queue'[i].dead => failures'[i] >= MaxAttempts
    BY <2>2, <2>5, <2>6, <2>10 DEF CountersOK
  <2> QED  BY <2>7, <2>8, <2>9, <2>11 DEF CountersOK
<1> QED  BY <1>6, <1>7, <1>8

\* The first statement of a mark reads attempts that are in order.
LEMMA ReadCounters ==
  ASSUME QueueInv, QueueInv', CounterInv, NEW w \in Workers, worker[w].stage = "read",
         worker' = [worker EXCEPT ![w] =
           [@ EXCEPT !.stage = "write", !.attempts = queue[Current(w)].attempts]],
         UNCHANGED <<queue, failures>>
  PROVE  \A j \in Ids : CountersOK(j)'
<1>1. PICK i \in Ids : i = Current(w)
  BY CurrentIn DEF QueueInv, BusyOK
<1>2. /\ worker'[w].stage = "write" /\ worker'[w].todo = worker[w].todo
      /\ worker'[w].attempts = queue[i].attempts
      /\ \A v \in Workers \ {w} : worker'[v] = worker[v]
  BY <1>1 DEF QueueInv, Types, Sessions
<1>3. \A v \in Workers : Current(v)' = Current(v)
  BY <1>2 DEF Current
<1>4. ASSUME NEW j \in Ids \ {i}  PROVE CountersOK(j)'
  BY <1>1, <1>2, <1>3, WorkerFrame
<1>5. CountersOK(i)'
  <2> DEFINE h == Cardinality(Holders(i))
             p == Cardinality(Pending(i))
  <2>1. \A v \in Workers \ {w} :
          Marking(v, i)' => Marking(v, i) /\ worker'[v].attempts = worker[v].attempts
    BY <1>2, <1>3 DEF Marking
  <2>2. CountersOK(i)
    BY DEF CounterInv
  <2>3. h' \in Nat /\ h' <= h /\ h \in Nat
    BY <1>2, FewerHolders, HolderCounts
  <2>4. p' \in Nat /\ p' <= p /\ p \in Nat
    BY <1>2, <1>3, FewerPending, HolderCounts
  <2>5. /\ queue[i].attempts \in Nat /\ failures[i] \in Nat
        /\ \A v \in Workers : worker[v].attempts \in Nat
    BY DEF QueueInv, Types, Rows, Sessions, CounterInv
  <2> HIDE DEF h, p
  <2>6. \A n \in Nat : n + h <= MaxFailures => n + h' <= MaxFailures
    BY <2>3, QueueAssumption
  <2>7. \A n \in Nat : n + p <= failures[i] => n + p' <= failures[i]
    BY <2>4, <2>5
  <2>8. BelowCeiling(i)'
    BY <1>2, <2>1, <2>2 DEF CountersOK, BelowCeiling
  <2>9. Bounded(i)'
    BY <1>2, <2>1, <2>2, <2>5, <2>6 DEF CountersOK, Bounded, h
  <2>10. Counted(i)'
    BY <1>2, <2>1, <2>2, <2>5, <2>7 DEF CountersOK, Counted, p
  <2> QED  BY <2>2, <2>8, <2>9, <2>10 DEF CountersOK
<1> QED  BY <1>4, <1>5

\* What a mark makes of the counters of a row.
LEMMA MarkedCounters ==
  ASSUME NEW r \in Rows, NEW n \in Nat
  PROVE  /\ Marked(r, n).attempts = n
         /\ Marked(r, n).dead <=> r.dead \/ n >= MaxAttempts
<1>1. CASE n >= MaxAttempts  BY <1>1 DEF Marked, Rows
<1>2. CASE ~(n >= MaxAttempts)  BY <1>2 DEF Marked, Rows
<1> QED  BY <1>1, <1>2

\* The second writes what it read and one: the mark is not to come any more,
\* and the session no longer holds the row.
LEMMA WriteCounters ==
  ASSUME QueueInv, QueueInv', CounterInv, NEW w \in Workers, WriteAttempts(w)
  PROVE  \A j \in Ids : CountersOK(j)'
<1>1. PICK i \in Ids : i = Current(w)
  BY CurrentIn DEF WriteAttempts, At, QueueInv, BusyOK
<1>2. /\ worker'[w] = Idle /\ \A v \in Workers \ {w} : worker'[v] = worker[v]
      /\ worker[w].stage = "write" /\ failures' = failures
      /\ i \in worker[w].todo
  BY <1>1, CurrentIn DEF WriteAttempts, At, QueueInv, BusyOK, Types
<1>3. /\ worker'[w].stage = "idle" /\ worker'[w].todo = {}
      /\ \A v \in Workers \ {w} : Current(v)' = Current(v)
  BY <1>2 DEF Idle, Current
<1>4. ASSUME NEW j \in Ids, queue'[j] = queue[j]  PROVE CountersOK(j)'
  BY <1>2, <1>3, <1>4, WorkerFrame
<1>5. ASSUME NEW j \in Ids \ {i}  PROVE CountersOK(j)'
  <2>1. queue'[j] = queue[j]  BY <1>1, WrittenRow
  <2> QED  BY <1>4, <2>1
<1>6. CASE queue[i].state = "gone"
  <2>1. queue'[i] = queue[i]  BY <1>6, WrittenRow
  <2> QED  BY <1>4, <1>5, <2>1
<1>7. CASE queue[i].state # "gone"
  <2> DEFINE h == Cardinality(Holders(i))
             p == Cardinality(Pending(i))
             a == worker[w].attempts
  <2>1. queue' = [queue EXCEPT ![i] = Marked(queue[i], a + 1)]
    BY <1>1, <1>7 DEF WriteAttempts
  <2>2. queue \in [Ids -> Rows] /\ a \in Nat
    BY DEF QueueInv, Types, Sessions
  <2>3. queue'[i].attempts = a + 1 /\ (queue'[i].dead <=> queue[i].dead \/ a + 1 >= MaxAttempts)
    <3>1. queue'[i] = Marked(queue[i], a + 1) /\ queue[i] \in Rows /\ a + 1 \in Nat
      BY <2>1, <2>2
    <3> QED  BY <3>1, MarkedCounters
  <2>4. p \in Nat /\ p' \in Nat /\ p = p' + 1
    BY <1>1, <1>2, OneLess, HolderCounts
  <2>5. h \in Nat /\ h' \in Nat /\ h' + 1 <= h
    BY <1>1, <1>2, OneLess, HolderCounts
  <2>6. /\ CountersOK(i) /\ Marking(w, i)
        /\ \A v \in Workers : Marking(v, i)' =>
             Marking(v, i) /\ worker'[v].attempts = worker[v].attempts
    BY <1>1, <1>2, <1>3 DEF CounterInv, Marking
  <2>7. /\ queue[i].attempts \in Nat /\ failures[i] \in Nat
        /\ \A v \in Workers : worker[v].attempts \in Nat
    BY DEF QueueInv, Types, Rows, Sessions, CounterInv
  <2>8. /\ MaxFailures \in Nat /\ MaxAttempts \in Nat /\ MaxFailures >= MaxAttempts
    BY QueueAssumption, CeilingFits
  <2>9. BelowCeiling(i)'
    BY <2>2, <2>3, <2>6, <2>8 DEF CountersOK, BelowCeiling
  <2>10. a + h <= MaxFailures /\ (failures[i] = MaxFailures \/ a + p <= failures[i])
    BY <2>6 DEF CountersOK, Bounded, Counted
  <2> HIDE DEF h, p, a
  <2>11. Bounded(i)'
    <3>1. /\ a + h <= MaxFailures => (a + 1) + h' <= MaxFailures
          /\ \A n \in Nat : n + h <= MaxFailures => n + h' <= MaxFailures
      BY <2>2, <2>5, <2>8, OneMoreFits
    <3>2. (a + 1) + h' <= MaxFailures
      BY <2>10, <3>1
    <3> QED  BY <2>3, <2>6, <2>7, <3>1, <3>2 DEF CountersOK, Bounded, h
  <2>12. Counted(i)'
    <3>1. CASE failures[i] = MaxFailures
      BY <1>2, <3>1 DEF Counted
    <3>2. CASE failures[i] # MaxFailures
      <4>1. (a + 1) + p' <= failures[i]  BY <2>2, <2>4, <2>7, <2>10, <3>2
      <4>2. \A n \in Nat : n + p <= failures[i] => n + p' <= failures[i]
        BY <2>4, <2>7
      <4> QED  BY <1>2, <2>3, <2>6, <2>7, <3>2, <4>1, <4>2 DEF CountersOK, Counted, p
    <3> QED  BY <3>1, <3>2
  <2>13. queue'[i].dead => failures'[i] >= MaxAttempts
    <3>1. CASE queue[i].dead
      BY <1>2, <2>6, <3>1 DEF CountersOK
    <3>2. CASE a + 1 >= MaxAttempts
      BY <1>2, <2>2, <2>4, <2>7, <2>8, <2>10, <3>2
    <3> QED  BY <2>3, <3>1, <3>2
  <2>14. CountersOK(i)'
    BY <2>9, <2>11, <2>12, <2>13 DEF CountersOK
  <2> QED  BY <1>5, <2>14
<1> QED  BY <1>6, <1>7

\* A worker that gives up what it had, or goes on to a next row, leaves the
\* counters as they are.
LEMMA QuietCounters ==
  ASSUME QueueInv, QueueInv', CounterInv, NewAlive', NEW w \in Workers,
         \A j \in Ids : queue'[j].attempts = queue[j].attempts /\ queue'[j].dead = queue[j].dead,
         failures' = failures,
         \A v \in Workers \ {w} : worker'[v] = worker[v],
         worker'[w].todo \subseteq worker[w].todo,
         worker'[w].stage \notin {"read", "write"},
         SessionOK(w)'
  PROVE  CounterInv'
<1>1. \A j \in Ids : CountersOK(j)'
  BY WorkerFrame
<1>2. \A v \in Workers : SessionOK(v)'
  BY DEF CounterInv, SessionOK
<1> QED  BY <1>1, <1>2 DEF CounterInv

\* Steps that move no worker.
LEMMA StillCounters ==
  ASSUME QueueInv, QueueInv', CounterInv, NewAlive',
         \A j \in Ids : queue'[j].attempts = queue[j].attempts /\ queue'[j].dead = queue[j].dead,
         UNCHANGED <<worker, failures>>
  PROVE  CounterInv'
<1>1. \A v \in Workers : Current(v)' = Current(v) /\ SessionOK(v)'
  BY DEF Current, CounterInv, SessionOK
<1>2. \A v \in Workers, j \in Ids : Marking(v, j)' <=> Marking(v, j)
  BY <1>1 DEF Marking
<1>3. \A j \in Ids : CountersOK(j)'
  BY <1>1, <1>2, CounterFrame DEF CounterInv
<1> QED  BY <1>1, <1>3 DEF CounterInv

\* A step takes up rows that are alive.
LEMMA TakeUpCounters ==
  ASSUME QueueInv, QueueInv', CounterInv, NewAlive', NEW w \in Workers, NEW items \in SUBSET Ids,
         \A j \in Ids : queue'[j].attempts = queue[j].attempts /\ queue'[j].dead = queue[j].dead,
         \A j \in items : ~queue[j].dead,
         worker' = [worker EXCEPT ![w] = [Idle EXCEPT !.stage = "send", !.todo = items]],
         failures' = failures
  PROVE  CounterInv'
<1>1. /\ worker'[w].stage = "send" /\ worker'[w].todo = items /\ worker'[w].attempts = 0
      /\ \A v \in Workers \ {w} : worker'[v] = worker[v]
  <2>1. worker \in [Workers -> Sessions]  BY DEF QueueInv, Types
  <2>2. worker'[w] = [Idle EXCEPT !.stage = "send", !.todo = items]  BY <2>1
  <2> QED  BY <2>1, <2>2 DEF Idle
<1>2. ASSUME NEW j \in items  PROVE CountersOK(j)'
  BY <1>1, <1>2, PickUpCounters
<1>3. ASSUME NEW j \in Ids \ items  PROVE CountersOK(j)'
  BY <1>1, <1>3, WorkerFrame
<1>4. \A v \in Workers : SessionOK(v)'
  BY <1>1 DEF CounterInv, SessionOK
<1> QED  BY <1>2, <1>3, <1>4 DEF CounterInv

\* Every step keeps the counters in order.
LEMMA CounterStep == QueueInv /\ QueueInv' /\ CounterInv /\ [Next]_vars => CounterInv'
<1> SUFFICES ASSUME QueueInv, QueueInv', CounterInv, [Next]_vars  PROVE CounterInv'
  OBVIOUS
<1>1. NewAlive' /\ NewAlive
  BY NewAliveStep DEF CounterInv
<1>2. queue \in [Ids -> Rows] /\ worker \in [Workers -> Sessions]
  BY DEF QueueInv, Types
<1>3. ASSUME NEW w \in Handlers, NEW i \in Ids, ReportUsage(w, i) \/ ProposeSkill(w, i)
      PROVE  CounterInv'
  <2>1. PICK blank \in BOOLEAN : Enqueue(w, i, blank)
    BY <1>3 DEF ReportUsage, ProposeSkill
  <2>2. \A j \in Ids : queue'[j].attempts = queue[j].attempts /\ queue'[j].dead = queue[j].dead
    BY <1>2, <2>1 DEF Enqueue, Rows
  <2>3. /\ w \in Workers /\ failures' = failures
        /\ worker' = [worker EXCEPT ![w] = [Idle EXCEPT !.stage = "send", !.todo = {i}]]
        /\ {i} \in SUBSET Ids /\ \A j \in {i} : ~queue[j].dead
    BY <1>1, <2>1 DEF Enqueue, NewAlive, Workers
  <2> QED  BY <1>1, <2>2, <2>3, TakeUpCounters
<1>4. ASSUME NEW w \in Drainers, DrainOnce(w)  PROVE CounterInv'
  <2>1. NextEligible \in SUBSET Ids /\ \A j \in NextEligible : ~queue[j].dead
    BY DEF NextEligible, Eligible
  <2>2. /\ w \in Workers /\ UNCHANGED <<queue, failures>>
        /\ worker' = [worker EXCEPT ![w] = [Idle EXCEPT !.stage = "send", !.todo = NextEligible]]
    BY <1>4 DEF DrainOnce, Workers
  <2> QED  BY <1>1, <2>1, <2>2, TakeUpCounters
<1>5. ASSUME NEW w \in Workers, Deliver(w)  PROVE CounterInv'
  <2>1. UNCHANGED <<queue, failures>> /\ worker' = [worker EXCEPT ![w].stage = "delete"]
        /\ worker[w].stage = "send"
    BY <1>5 DEF Deliver, Processed, At, To
  <2>2. /\ worker'[w].stage = "delete" /\ worker'[w].todo = worker[w].todo
        /\ worker'[w].attempts = worker[w].attempts
        /\ \A v \in Workers \ {w} : worker'[v] = worker[v]
    BY <1>2, <2>1 DEF Sessions
  <2>3. SessionOK(w)'
    BY <2>1, <2>2 DEF CounterInv, SessionOK
  <2> QED  BY <1>1, <2>1, <2>2, <2>3, QuietCounters
<1>6. ASSUME NEW w \in Workers, LoseReply(w) \/ Refuse(w)  PROVE CounterInv'
  <2>1. worker[w].stage = "send" /\ Failed(w) /\ UNCHANGED queue
    BY <1>6 DEF LoseReply, Refuse, Processed, At
  <2>2. failures' \in [Ids -> 0..MaxFailures] /\ \A j \in Ids : CountersOK(j)'
    BY <2>1, FailedCounters
  <2>3. worker' = [worker EXCEPT ![w].stage = "read"]
    BY <2>1 DEF Failed, To
  <2>4. \A v \in Workers : SessionOK(v)'
    BY <1>2, <2>1, <2>3 DEF CounterInv, SessionOK, Sessions
  <2> QED  BY <1>1, <2>2, <2>4 DEF CounterInv
<1>7. ASSUME NEW w \in Workers, worker' = [worker EXCEPT ![w] = Idle] \/ Proceed(w),
             \A j \in Ids : queue'[j].attempts = queue[j].attempts /\ queue'[j].dead = queue[j].dead,
             failures' = failures
      PROVE  CounterInv'
  <2>1. /\ worker'[w].todo \subseteq worker[w].todo
        /\ worker'[w].stage \in {"idle", "send"}
        /\ worker'[w].stage = "idle" => worker'[w].todo = {}
        /\ worker'[w].attempts = 0
        /\ \A v \in Workers \ {w} : worker'[v] = worker[v]
    BY <1>7, IdleMoves, ProceedMoves
  <2>2. SessionOK(w)'
    BY <2>1 DEF SessionOK
  <2> QED  BY <1>1, <1>7, <2>1, <2>2, QuietCounters
<1>8. ASSUME NEW w \in Workers, Delete(w)  PROVE CounterInv'
  <2>1. Current(w) \in Ids /\ queue' = [queue EXCEPT ![Current(w)].state = "gone"]
    BY <1>8, CurrentIn DEF Delete, At, QueueInv, BusyOK
  <2>2. \A j \in Ids : queue'[j].attempts = queue[j].attempts /\ queue'[j].dead = queue[j].dead
    BY <1>2, <2>1 DEF Rows
  <2>3. Proceed(w) /\ failures' = failures
    BY <1>8 DEF Delete
  <2> QED  BY <1>7, <2>2, <2>3
<1>9. ASSUME NEW w \in Workers, QueueError(w) \/ Crash(w)  PROVE CounterInv'
  <2>1. /\ worker' = [worker EXCEPT ![w] = Idle] \/ Proceed(w)
        /\ UNCHANGED <<queue, failures>>
    BY <1>9 DEF QueueError, Crash
  <2> QED  BY <1>7, <2>1
<1>10. ASSUME NEW w \in Workers, ReadAttempts(w)  PROVE CounterInv'
  <2>1. UNCHANGED <<queue, failures>> /\ worker[w].stage = "read"
    BY <1>10 DEF ReadAttempts, At
  <2>2. CASE queue[Current(w)].state = "gone"
    <3>1. worker' = [worker EXCEPT ![w] = Idle]
      BY <1>10, <2>2 DEF ReadAttempts
    <3> QED  BY <1>7, <2>1, <3>1
  <2>3. CASE queue[Current(w)].state # "gone"
    <3>1. worker' = [worker EXCEPT ![w] =
            [@ EXCEPT !.stage = "write", !.attempts = queue[Current(w)].attempts]]
      BY <1>10, <2>3 DEF ReadAttempts
    <3>2. \A j \in Ids : CountersOK(j)'
      BY <2>1, <3>1, ReadCounters
    <3>3. \A v \in Workers : SessionOK(v)'
      BY <1>2, <3>1 DEF CounterInv, SessionOK, Sessions
    <3> QED  BY <1>1, <2>1, <3>2, <3>3 DEF CounterInv
  <2> QED  BY <2>2, <2>3
<1>11. ASSUME NEW w \in Workers, WriteAttempts(w)  PROVE CounterInv'
  <2>1. worker' = [worker EXCEPT ![w] = Idle] /\ failures' = failures
    BY <1>11 DEF WriteAttempts
  <2>2. \A v \in Workers : SessionOK(v)'
    BY <1>2, <2>1, IdleMoves DEF CounterInv, SessionOK
  <2> QED  BY <1>1, <1>11, <2>1, <2>2, WriteCounters DEF CounterInv
<1>12. ASSUME NEW i \in Ids, Elapse(i)  PROVE CounterInv'
  <2>1. \A j \in Ids : queue'[j].attempts = queue[j].attempts /\ queue'[j].dead = queue[j].dead
    BY <1>2, <1>12 DEF Elapse, Rows
  <2> QED  BY <1>1, <1>12, <2>1, StillCounters DEF Elapse
<1>13. ASSUME NEW all \in BOOLEAN, Purge(all)  PROVE CounterInv'
  <2>1. \A j \in Ids : queue'[j].attempts = queue[j].attempts /\ queue'[j].dead = queue[j].dead
    BY <1>2, <1>13 DEF Purge, Rows
  <2> QED  BY <1>1, <1>13, <2>1, StillCounters DEF Purge
<1>14. CASE UNCHANGED vars
  BY <1>1, <1>14, StillCounters DEF vars
<1> QED  BY <1>3, <1>4, <1>5, <1>6, <1>8, <1>9, <1>10, <1>11, <1>12, <1>13, <1>14 DEF Next, Step

\* Nothing has failed at first.
LEMMA InitCounterInv == Init => CounterInv
<1> SUFFICES ASSUME Init  PROVE CounterInv
  OBVIOUS
<1>1. /\ failures \in [Ids -> 0..MaxFailures] /\ NewAlive
      /\ \A w \in Workers : SessionOK(w)
  BY QueueAssumption DEF Init, NewAlive, SessionOK, Idle
<1>2. ASSUME NEW i \in Ids  PROVE CountersOK(i)
  <2>1. Holders(i) = {} /\ Pending(i) = {} /\ \A w \in Workers : ~Marking(w, i)
    BY DEF Init, Idle, Holders, Pending, Marking
  <2>2. Cardinality(Holders(i)) = 0 /\ Cardinality(Pending(i)) = 0
    BY <2>1, FS_EmptySet
  <2>3. queue[i].attempts = 0 /\ queue[i].dead = FALSE /\ failures[i] = 0
    BY DEF Init
  <2> QED  BY <2>1, <2>2, <2>3, QueueAssumption
           DEF CountersOK, BelowCeiling, Bounded, Counted
<1> QED  BY <1>1, <1>2 DEF CounterInv

\* Every reachable state has its counters in order.
LEMMA CounterInvHolds == Spec => []CounterInv
BY QueueInvHolds, InitCounterInv, CounterStep, PTL DEF Spec

\* DeadOnlyAtCeiling: marks may be lost to each other, but a row is given up
\* only after MaxAttempts of its sends have failed.
THEOREM DeadAtCeiling == Spec => []DeadOnlyAtCeiling
<1>1. ASSUME QueueInv, CounterInv, NEW i \in Ids
      PROVE  /\ queue[i].attempts <= failures[i]
             /\ queue[i].dead => failures[i] >= MaxAttempts
  <2>1. CountersOK(i) /\ queue[i].attempts \in Nat /\ failures[i] \in 0..MaxFailures
    BY <1>1 DEF CounterInv, QueueInv, Types, Rows
  <2> DEFINE h == Cardinality(Holders(i))
             p == Cardinality(Pending(i))
  <2>2. h \in Nat /\ p \in Nat /\ MaxFailures \in Nat
    BY HolderCounts, QueueAssumption
  <2>3. /\ queue[i].attempts + h <= MaxFailures
        /\ failures[i] = MaxFailures \/ queue[i].attempts + p <= failures[i]
    BY <2>1 DEF CountersOK, Bounded, Counted
  <2> HIDE DEF h, p
  <2>4. queue[i].attempts <= failures[i]
    BY <2>1, <2>2, <2>3
  <2> QED  BY <2>1, <2>4 DEF CountersOK
<1>2. QueueInv /\ CounterInv => DeadOnlyAtCeiling
  BY <1>1 DEF DeadOnlyAtCeiling
<1> QED  BY <1>2, QueueInvHolds, CounterInvHolds, PTL

\* QueueTypeOK: in particular the bound of the model is never met by attempts.
THEOREM QueueTypes == Spec => []QueueTypeOK
<1>1. ASSUME QueueInv, CounterInv, NEW i \in Ids  PROVE queue[i] \in Row
  <2>1. CountersOK(i) /\ queue[i] \in Rows
    BY <1>1 DEF CounterInv, QueueInv, Types
  <2> DEFINE h == Cardinality(Holders(i))
  <2>2. h \in Nat /\ MaxFailures \in Nat /\ queue[i].attempts \in Nat
    BY <2>1, HolderCounts, QueueAssumption DEF Rows
  <2>3. queue[i].attempts + h <= MaxFailures
    BY <2>1 DEF CountersOK, Bounded
  <2> HIDE DEF h
  <2>4. queue[i].attempts \in 0..MaxFailures
    BY <2>2, <2>3
  <2> QED  BY <2>1, <2>4 DEF Row, Rows
<1>2. ASSUME QueueInv, CounterInv, NEW w \in Workers
      PROVE  worker[w] \in Worker /\ (worker[w].stage = "idle" <=> worker[w].todo = {})
  <2>1. worker[w] \in Sessions /\ SessionOK(w) /\ BusyOK(w)
    BY <1>2 DEF CounterInv, QueueInv, Types
  <2>2. worker[w].attempts \in 0..MaxFailures
    <3>1. CASE worker[w].stage # "write"
      BY <2>1, <3>1, QueueAssumption DEF SessionOK
    <3>2. CASE worker[w].stage = "write"
      <4>1. PICK i \in Ids : i = Current(w)
        BY <1>2, <2>1, <3>2, CurrentIn DEF QueueInv, BusyOK
      <4> DEFINE h == Cardinality(Holders(i))
      <4>2. h \in Nat /\ MaxFailures \in Nat /\ worker[w].attempts \in Nat
        BY <2>1, HolderCounts, QueueAssumption DEF Sessions
      <4>3. worker[w].attempts + h <= MaxFailures
        BY <1>2, <3>2, <4>1 DEF CounterInv, CountersOK, Bounded, Marking
      <4> HIDE DEF h
      <4> QED  BY <4>2, <4>3
    <3> QED  BY <3>1, <3>2
  <2> QED  BY <2>1, <2>2 DEF Worker, Sessions, SessionOK, BusyOK
<1>3. QueueInv /\ CounterInv => QueueTypeOK
  BY <1>1, <1>2 DEF QueueTypeOK, QueueInv, CounterInv, Types
<1> QED  BY <1>3, QueueInvHolds, CounterInvHolds, PTL

=============================================================================
