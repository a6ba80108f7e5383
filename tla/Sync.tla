-------------------------------- MODULE Sync --------------------------------
(***************************************************************************)
(* The change feed and the machine that mirrors it: handleSync pages       *)
(* through the skills ordered by updated_at, and each run of the syncer    *)
(* (a skill_sync tool call or a "client sync") replays the feed from the   *)
(* cursor saved by the last run into the skills dir, then saves the cursor *)
(* it reached.  The registry keeps changing in the meantime: this module   *)
(* composes the syncers of one machine with the transactions of Registry.  *)
(*                                                                         *)
(* A transaction has its own updated_at, so the feed is totally ordered by *)
(* it and a position is a timestamp; the id of the keyset never decides.   *)
(* An entry is written or removed in one step here; what two processes do  *)
(* to one file is below this module's grain.                               *)
(***************************************************************************)
EXTENDS Registry

CONSTANTS
  Syncers,        \* processes that may sync the machine's skills dir
  PageSize,       \* sync_change_feed_page
  HandAuthored    \* content of a skill dir that bears no marker

ASSUME SyncAssumption ==
  /\ PageSize \in Nat \ {0}
  /\ HandAuthored \notin Contents \cup {NoContent}

VARIABLES
  disk,           \* [Names -> sha in the marker, NoContent: no dir, or HandAuthored]
  cursor,         \* the saved position: every process shares the state dir
  run             \* [Syncers -> state of the process's run of Sync]

syncVars == <<disk, cursor, run>>
allVars == <<vars, syncVars>>

Modes == {"pull", "reset", "dry"}

Entry == [name : Names, status : {"promoted", "retired"}, sha : Contents, at : 1..MaxClock]

Run == [stage : {"idle", "fetch", "apply", "save"}, mode : Modes, at : 0..MaxClock,
        next : 0..MaxClock, todo : SUBSET Entry]

IdleRun == [stage |-> "idle", mode |-> "pull", at |-> 0, next |-> 0, todo |-> {}]

\* The types of the syncer's state; a page never takes a run backwards.
SyncTypeOK ==
  /\ disk \in [Names -> Contents \cup {NoContent, HandAuthored}]
  /\ cursor \in 0..MaxClock
  /\ run \in [Syncers -> Run]
  /\ \A a \in Syncers : run[a].at <= run[a].next

SyncInit ==
  /\ Init
  /\ disk \in [Names -> {NoContent, HandAuthored}]
  /\ cursor = 0
  /\ run = [a \in Syncers |-> IdleRun]

-----------------------------------------------------------------------------
(* The daemon: GET /api/skills/sync.                                       *)

HeadSha(name) ==
  (CHOOSE v \in skills[name].versions : v.version = skills[name].head).sha

\* Mutant: the keyset comparison includes the position itself.
ChangedInclusive(since) == {n \in Names : skills[n].status # "absent" /\ updatedAt[n] >= since}

\* Rows after the position, whatever their status.
Changed(since) == {n \in Names : skills[n].status # "absent" /\ updatedAt[n] > since}

\* The first PageSize of them.
Page(since) ==
  {n \in Changed(since) :
     Cardinality({m \in Changed(since) : updatedAt[m] <= updatedAt[n]}) <= PageSize}

\* Only promoted and retired rows are sent.
Sent(since) ==
  {[name |-> n, status |-> skills[n].status, sha |-> HeadSha(n), at |-> updatedAt[n]] :
     n \in {m \in Page(since) : skills[m].status \in {"promoted", "retired"}}}

\* Mutant: an empty page has no position.
NewCursorOrNone(since) ==
  IF Page(since) = {} THEN 0
  ELSE CHOOSE c \in {updatedAt[n] : n \in Page(since)} : \A n \in Page(since) : updatedAt[n] <= c

\* The position of the last row of the page, sent or not.
NewCursor(since) ==
  IF Page(since) = {} THEN since
  ELSE CHOOSE c \in {updatedAt[n] : n \in Page(since)} : \A n \in Page(since) : updatedAt[n] <= c

-----------------------------------------------------------------------------
(* The syncer.                                                             *)

\* Mutant: --reset is ignored.
StartFromCursor(a, mode) ==
  /\ run[a].stage = "idle"
  /\ run' = [run EXCEPT ![a] = [IdleRun EXCEPT !.stage = "fetch", !.mode = mode,
                                               !.at = cursor, !.next = cursor]]
  /\ UNCHANGED <<disk, cursor>>

Start(a, mode) ==
  /\ run[a].stage = "idle"
  /\ run' = [run EXCEPT ![a] = [IdleRun EXCEPT !.stage = "fetch", !.mode = mode,
                                               !.at = IF mode = "reset" THEN 0 ELSE cursor,
                                               !.next = IF mode = "reset" THEN 0 ELSE cursor]]
  /\ UNCHANGED <<disk, cursor>>

Fetch(a) ==
  /\ run[a].stage = "fetch"
  /\ run' = [run EXCEPT ![a].stage = "apply", ![a].todo = Sent(run[a].at),
                        ![a].next = NewCursor(run[a].at)]
  /\ UNCHANGED <<disk, cursor>>

\* The skills of a page before its deletes, each in the order of the feed.
IsNext(e, todo) ==
  /\ e \in todo
  /\ \A f \in todo :
       \/ e.status = "promoted" /\ f.status = "retired"
       \/ e.status = f.status /\ e.at <= f.at

Keeps(a, name) == run[a].mode = "dry" \/ disk[name] = HandAuthored

Done(a, e) == [run EXCEPT ![a].todo = @ \ {e}]

Materialize(a) ==
  \E e \in run[a].todo :
    /\ run[a].stage = "apply" /\ IsNext(e, run[a].todo) /\ e.status = "promoted"
    /\ disk' = IF Keeps(a, e.name) THEN disk ELSE [disk EXCEPT ![e.name] = e.sha]
    /\ run' = Done(a, e)
    /\ UNCHANGED cursor

Remove(a) ==
  \E e \in run[a].todo :
    /\ run[a].stage = "apply" /\ IsNext(e, run[a].todo) /\ e.status = "retired"
    /\ disk' = IF Keeps(a, e.name) THEN disk ELSE [disk EXCEPT ![e.name] = NoContent]
    /\ run' = Done(a, e)
    /\ UNCHANGED cursor

\* Mutant: the cursor is saved with every page.
EndPageSaved(a) ==
  /\ run[a].stage = "apply" /\ run[a].todo = {}
  /\ run' = [run EXCEPT ![a].stage = IF run[a].next = run[a].at THEN "save" ELSE "fetch",
                        ![a].at = run[a].next]
  /\ cursor' = IF run[a].mode = "dry" THEN cursor ELSE run[a].next
  /\ UNCHANGED disk

\* No forward progress means caught up; otherwise the next page.
EndPage(a) ==
  /\ run[a].stage = "apply" /\ run[a].todo = {}
  /\ run' = [run EXCEPT ![a].stage = IF run[a].next = run[a].at THEN "save" ELSE "fetch",
                        ![a].at = run[a].next]
  /\ UNCHANGED <<disk, cursor>>

\* Mutant: a dry run saves the cursor too.
SaveDry(a) ==
  /\ run[a].stage = "save"
  /\ cursor' = run[a].at
  /\ run' = [run EXCEPT ![a] = IdleRun]
  /\ UNCHANGED disk

\* A dry run leaves the cursor alone.
Save(a) ==
  /\ run[a].stage = "save"
  /\ cursor' = IF run[a].mode = "dry" THEN cursor ELSE run[a].at
  /\ run' = [run EXCEPT ![a] = IdleRun]
  /\ UNCHANGED disk

\* The daemon does not answer, a file cannot be written, the process dies:
\* the run ends where it is and the saved cursor stays.
Abandon(a) ==
  /\ run[a].stage # "idle"
  /\ run' = [run EXCEPT ![a] = IdleRun]
  /\ UNCHANGED <<disk, cursor>>

Continue(a) == Fetch(a) \/ Materialize(a) \/ Remove(a) \/ EndPage(a) \/ Save(a)

SyncNext ==
  \/ Next /\ UNCHANGED syncVars
  \/ /\ \E a \in Syncers : (\E m \in Modes : Start(a, m)) \/ Continue(a) \/ Abandon(a)
     /\ UNCHANGED vars

SyncSpec == SyncInit /\ [][SyncNext]_allVars

\* A run that nothing interrupts goes on.  Nothing makes a run start.
SyncFairness == \A a \in Syncers : WF_allVars(Continue(a) /\ UNCHANGED vars)

FairSyncSpec == SyncSpec /\ SyncFairness

-----------------------------------------------------------------------------
(* Properties.                                                             *)

\* The dir of a skill shows what the registry says, unless it is the user's own.
Mirrored(name) ==
  \/ disk[name] = HandAuthored
  \/ disk[name] = IF skills[name].status = "promoted" THEN HeadSha(name) ELSE NoContent

\* Writers take turns, and runs do.
NoOverlap == \A t, u \in Txns : pc[t] # "idle" /\ pc[u] # "idle" => t = u

OneRun == \A a, b \in Syncers : run[a].stage # "idle" /\ run[b].stage # "idle" => a = b

Turns == NoOverlap /\ OneRun

\* Whatever the saved cursor has passed is on disk: "Returns promoted skills
\* changed since the cursor, the names of skills retired since the cursor"
\* (handleSync), so the next run, which starts there, will not see it again.
UpToCursor == \A n \in Names : 0 < updatedAt[n] /\ updatedAt[n] <= cursor => Mirrored(n)

\* The same between runs, when several processes sync the dir: "reconciles each
\* entry into the skills dir" (Sync).  A process that writes a page fetched
\* before another's and is then cut short leaves the older entry for good.
UpToCursorAtRest == (\A a \in Syncers : run[a].stage = "idle") => UpToCursor

\* A run ends only when it is caught up, so not even a reset, which starts
\* from the beginning, moves the saved cursor back.  This holds as long as
\* writers do not overlap: past a change that committed out of order, a reset
\* may end below the position that an earlier run has saved.
CursorNeverRewinds == [][cursor <= cursor']_allVars

\* If runs keep being started and from some time on none is cut short, the
\* skills dir ends up as the registry says: for incremental runs and for resets.
\* (A Save that leaves the cursor where it is looks like an Abandon.)
Reliable == <>[][\A a \in Syncers : Abandon(a) => Save(a)]_allVars

Converges(mode) ==
  Reliable /\ []<><<\E a \in Syncers : Start(a, mode)>>_allVars
    => <>[](\A n \in Names : Mirrored(n))

\* Incremental runs (skill_sync, "client sync") mirror the registry, provided
\* that writers do not overlap.
PullsConverge == []NoOverlap => Converges("pull")

\* Full runs ("client sync --reset") mirror it even when commits overtake the
\* cursor, as they start from nothing.
ResetsConverge == Converges("reset")

=============================================================================
