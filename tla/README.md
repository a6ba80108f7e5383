# phantom-skills in TLA+

TLA+ models of the skill registry daemon (its tables, its life, its auto-fire
loop), the machines that mirror it into a directory, the write-ahead queue of
the agents and the replication between nodes; TLC configurations that check
them on small instances; and TLAPS proofs, for any number of skills, contents,
processes and nodes, of the safety that the passing runs check.

    tlc -workers 4 -config MCRegistry.cfg Registry.tla
    tlc -workers 4 -config MCSync.cfg SyncInTurns.tla
    tlc -workers 4 -config MCSkillsDir.cfg MCSkillsDir.tla
    tlapm RegistryProofs.tla

`PROJECT.json` lists every run, the source lines behind every definition, the
mutations each property catches, the hazards of the code and the disagreements
between the code and what the repository says of it.

## 1. The system

phantom-skills is a registry of "skills" (a `SKILL.md` each) in Postgres, a
daemon (`pskillctl serve`) that serves it over HTTP, and an agent-side program
(`pskillctl mcp`, and CLI commands) that mirrors the registry into a directory
and reports usage and proposals back.

| component | source | state it keeps | operations that change it |
|---|---|---|---|
| skill registry | `internal/pgstore/{pgstore,proposals}.go`, migrations 0001, 0002, 0004, 0005; handlers in `internal/server` | tables `skills`, `skill_versions`, `proposals`, `promotion_state` | RegisterVersion, RetireSkill, CreateProposal, ApproveProposal, RejectProposal |
| change feed | `pgstore.SyncFeed`, `server/handlers_sync.go` | none (reads `skills`) | a page per request |
| syncer | `internal/syncer`, `mcp/skill_sync.go`, `cmd/pskillctl/sync.go` | the skills dir, the cursor file in the state dir | Sync: pages, materialize, remove, save the cursor |
| write-ahead queue | `internal/client/wqueue` | SQLite table `wqueue` | Enqueue, NextEligible, MarkAttempt, Delete, Purge |
| drainer and tools | `internal/client/drainer.go`, `internal/mcp` (`skill_usage_report`, `skill_propose`, `wqueue_helper`), `cmd/pskillctl/queue.go` | the batch in hand | DrainOnce, enqueueAndAttempt |
| usage ingestion | `pgstore/usage.go`, `server/handlers_usage.go` | table `usage_events` | IngestUsage |
| auto-fire | `internal/server/{workers,improver,pipeline}.go`, `pgstore/ratchets.go`, migration 0006 | table `ratchet_runs`, the loop's window | runPipelineOnce, dispatchRatchet, autoFireRatchet, RecordRatchet |
| brainbox client | `internal/brainbox` | a cached API key | Ratchet, sessions, queries |
| node sync | `internal/nodesync`, migration 0007 | `row_ulid`, `origin_node` of `skill_versions` | ExportSkillVersions, ImportSkillVersions (no caller but their test yet) |
| scope registry, authentication | `server/{registry,auth,config}.go` | scopes and token bindings, swapped on SIGHUP | Load, swap, AuthMiddleware |
| SKILL.md codec | `internal/skillfile` | none | Parse, Render, CanonicalSHA, Slugify |
| daemon lifecycle, HTTP plumbing | `server/server.go`, `errors.go`, `cmd/pskillctl/{serve,main}.go` | a listener, the pool of the store, a lock file | Start, Run, Shutdown |
| agent HTTP client, connectivity, config, brain link, operator CLI, MCP server and read tools, migrations runner | the rest | none that outlives a call, or two timestamps | calls |

How they interact. A tool call of an MCP session writes to the wqueue and posts
to the daemon; the session's drainer, started beside it, and those of other
sessions of the same scope share the queue file. The daemon runs each request
on a pooled connection: a request that writes skills is one transaction of
several statements, serialised with others only by Postgres row locks. A
session pulls the change feed with a keyset cursor `(updated_at, id)` and
replays it into a directory it shares, without a lock, with other sessions, the
CLI and the user, who keeps skills of their own there. The daemon's loop asks a
Detector for candidates on every tick, calls brainbox for each that the ledger's
guards let through, and then writes the ledger.

What is hard here: transactions that interleave; timestamps that are taken when
a transaction starts and read by a cursor that assumes commit order; several
processes on one directory, one cursor file and one queue file; replies lost
after the effect; a process that dies between an effect and its record; an
attempt counter that is read and written in two statements; writes that are
always refused at the head of a queue; a ledger that is written after the
fact and never updated; scopes that are read file by file while an operator
edits them; and a shutdown that runs out of time with requests at work.
`PROJECT.json` names them one by one under "hazards".

What makes each component correct:

- *Registry.* Histories are numbered without gaps, are never rewritten, and the
  head is their last version; a proposal is decided once; an approval and its
  effect are one; a skill is promoted only through a promote proposal; every
  transaction ends; and all of this whatever the interleaving: the tables evolve
  as if every call ran alone.
- *Feed and syncer.* What the saved cursor has passed is on disk; the cursor does
  not go back; the directory ends up as the registry says.
- *Skills dir.* The user's files are theirs; a reader sees whole files only; what
  dead runs leave behind does not stay. (The code keeps the first not at all, and
  the second only for processes that take turns.)
- *Queue.* A write leaves it only when the daemon has it or an operator purged
  it, but for a report that names no skill; usage is counted once; nothing is given up before the retry ceiling; every
  write is settled in the end.
- *Auto-fire.* One ratchet per skill and a cap on all; one ledger row for each
  ratchet.
- *Daemon.* One daemon at a time has the store; a token whose scope keeps it
  stays bound; a reload takes effect; a stop comes to its end.
- *Node sync.* An import and a registration of the same skill, which number
  versions without waiting for each other, leave one intact history; peers end up
  with each other's contents whatever was cut short or done twice.

## 2. Modules

| module | models | state and actions |
|---|---|---|
| `SerialRegistry` | what the registry promises (abstract) | `skills`, `proposals`, `promotions` are the committed rows; one action per write |
| `Registry` | how Postgres runs it | for each connection: how far its transaction is (`pc`), its call, its `now()` and the row it has staged; one action per statement, plus Commit, NotFound, Rollback |
| `Sync` | feed and syncers, composed with `Registry` | `disk`, `cursor`, and one `run` per process; Start, Fetch, Materialize, Remove, EndPage, Save, Abandon |
| `SkillsDir` | what `materialize` and `remove` do to the files | per dir `SKILL.md` and its temp file, the entry each process is busy with; one action per file operation, and the user's |
| `Outbox` | what the queue promises (abstract) | where each write is and how often the daemon has it |
| `WQueue` | queue, tools, drainers, usage ingestion | rows, one record per worker, what the daemon holds of each write; one action per statement or reply |
| `Ratchets` | the auto-fire loop, its ledger, brainbox | the ratchets at brainbox, the ledger, the stage of the loop |
| `Daemon` | scope registry, authentication, life of the daemon | the scope files, the flock, a record and a published map per process, the requests; one action per file read, signal, query and stage of the shutdown |
| `NodeSync` | version histories replicated between nodes | per node the committed rows, one registration and one merge tick; one action per statement |
| `VersionLog` | what the histories promise (abstract) | `history`, `head`; a version registered, a version imported |
| `RegistryProofs`, `SyncProofs`, `WQueueProofs`, `SkillsDirProofs`, `DaemonProofs`, `RatchetsProofs`, `NodeSyncProofs` | theorems | |
| `LeastProofs` | the least and the greatest member of a set of naturals | |
| `SyncInTurns` | `Sync`, and whether turns were taken | `turns`, a history variable |
| `MCSkillsDir`, `MCRatchets` | instances for TLC | the slugs, a symmetry set |

### Registry

`SerialRegistry` has one step for each write of the store. Its row operators are
the code's SQL: `Upserted` is `INSERT ... ON CONFLICT DO UPDATE`, in which the
status counts only on insertion; `Appended` is the sha lookup, `MAX(version)+1`,
the insert and the head update of `registerVersionTx`; `Applied` is the switch
of `ApproveProposal` on the proposal's kind.

`Registry` splits the three writes that are transactions into their statements:

    register   Begin -> UpsertSkill -> AppendVersion -> Commit
    retire     Begin -> SetStatus -> Commit
    approve    Begin -> LockProposal -> UpsertSkill -> AppendVersion -> Commit   (create)
                                     -> SetStatus -> Commit                      (promote, prune)

with `NotFound` where the code returns ErrNotFound and `Rollback` anywhere: a
failing statement, a caller that goes away and a daemon that dies look alike to
the database. Postgres itself is represented by what the code relies on: row
locks from the statement that takes them to the end of the transaction, writes
that become visible at the commit, statements that read what is committed (READ
COMMITTED), an UPDATE that skips a row it cannot see, and `now()` as the start of
the transaction. `AppendVersion` takes three statements together: they run
under the row lock of the skill and nothing else can observe them. `clock` ticks
at each Begin, so two transactions never share a timestamp.

Abstractions: one profile (every statement is scoped by it); a content is its
CanonicalSHA; the description, which the upsert also sets, the author and the
source of a version and the rationale of a proposal are free text that no
decision reads, and are left out; reads are left out.

### Sync

`Sync` EXTENDS `Registry`, so the feed is read between any two statements of any
transaction. The keyset `(updated_at, id)` is a timestamp, since timestamps are
distinct. `Page` is the query with its LIMIT and without the status filter,
`Sent` the filter of the handler, `NewCursor` the position of the last row of
the page, whether it is sent or not. A run applies promoted skills before
deletes, each in feed order, stops when a page makes no progress, and saves its
position unless it is a dry run; `Abandon` ends it anywhere. `disk` records the
sha in a directory's marker, or that the directory has none (hand-authored, never
touched). Writing one directory is one step; what that takes is `SkillsDir`.

`SyncInTurns` adds a history variable, `turns`: no two transactions that write, and no
two runs, have been under way at the same time so far (`Turns` of `Sync`). A
safety property that the code keeps under this premise becomes an invariant of one
instance in which writers may also overlap (`UpToCursorInTurns`,
`CursorNeverRewindsInTurns`).

### SkillsDir

A process takes an entry of the feed (`Take`), reads the `SKILL.md` and decides
(`Examine`), and then opens, writes and renames the temp file, or calls
`RemoveAll`. Others may run between any two of these, and so may the user
(`Author`, `Discard`). A file has a head, which holds the frontmatter and its
marker, and a tail, which only a `Long` content has; a write replaces the blocks it
has, at the file that is *open*: `fd` says what name that file bears by now
(`temp`, `live`, or `gone`). `WriteCut` is a full disk or a death in the middle of
the file. `SlugOf` is any map from names to dirs; `Root` is the dir of the empty
slug, which is the skills dir itself. What POSIX does with open files under
rename and unlink is external to the code and modelled as it relies on it.

Abstractions: whatever the feed said last is what a process takes (order and
cursor are in `Sync`); `RemoveAll` is one step; a file is read in one step, so a
reader sees one state of it.

### WQueue

A worker is a tool call (`Handlers`), or a drain loop (`Drainers`: one for each
MCP session, or `queue drain`). Sending, the reply, `Delete`, and the two statements
of `MarkAttempt` are separate steps, so workers interleave between them. A send
is processed and answered (`Deliver`), processed with its reply lost
(`LoseReply`), or fails (`Refuse`). `wait` is the time left until
`next_attempt_at`: all or none of it, as nothing depends on the rest. `recorded`
counts the daemon's rows of an item up to 2, `failures` saturates at
`MaxFailures`. A report may be `blank`: `skill_usage_report` asks that the skill is
given and trims it, but lets through what is empty then; `IngestUsage` passes over
it (`usage.go:36-38`), the daemon answers 200 as ever, and the row is deleted. `QueueError` is a statement whose error the code drops, `Crash`
the death of the process.

`Outbox` is the promise without rows and marks: a write is held until it is
settled, dead or withdrawn, what has ended does not come back (but a late answer
settles what was given up), and a usage report is in the tables once, but one that names
no skill is not, and is dropped. `WQueue` instantiates it with `Shown`, which reads
the state of a write off its row and the set of purged ids.

### Ratchets

The loop waits, takes the candidates of a tick in some order, and for each
either skips it (a guard holds), fires it, or sees the call fail; then it writes
the row. The Detector (any set of candidates) and brainbox (takes the call,
loses the reply, refuses; the worker opens a pull request or fails, the request
is merged or closed) are other programs, modelled from the interface in
`pipeline.go` and from the client. There is one loop, because the daemon holds a
lock file. A failed Detect and a refused kind end a tick's work on a candidate
in the same way. The path without brainbox (`proposeCandidate`) is a
CreateProposal, which `Registry` has.

### Daemon

`Start` takes the flock and begins the first Load; `ReadScope` reads one scope's
files, in the order of ReadDir, into a map that `Swap` publishes once all are
read; `LoadFails` ends the process on boot and keeps the old map on SIGHUP. `TakeHup`
begins a Load in the loop of `Run`, so the loop does not listen for SIGTERM in the
meantime. The signal channel holds one SIGHUP. A request is admitted with a token
that the published map knows, and queries the store. `Drain` is srv.Shutdown
with its timeout; `Close` is store.Close, which waits for queries but not for
handlers, then the unlock and the end of the process. `Die` ends the process at
any step. Several processes may be started on one data dir.

Abstractions: the header is a token or not; the files of one scope are read
together and are a token, broken, or absent; the fields that a scope overrides
are left out, as nothing in the state depends on them; the signal loop's failure
to accept is a `BeginDrain` like SIGTERM.

### NodeSync

Each node has the versions of one skill (skills meet only in the uniqueness of
ULIDs), its status and its head. Two programs write them: a registration, which
is one transaction (`Upsert`, `Lookup`, `Insert`, `Commit` or `Rollback`), and the
merge tick, whose statements commit one by one (`EnsureSkill`, then `Dedup` and
`ImportVersion` for each exported version, oldest ULID first). The import does not
take the skill's row lock once the row exists, so both can pick the same next
version; then the unique indexes decide, by making the import wait for the staged
row, and by failing whichever INSERT comes second. The sha lookup and
`MAX(version)+1` of a registration are one step: if an import comes between
them, the INSERT fails on the same content or takes the next number, which is
what happens if it comes before or after both. ULIDs are made by a trigger from
a clock in milliseconds and random bits, so a new one may be less than those that
exist: `Insert` takes any unused number. Every row has one: the rows without,
which the export and the import pass over (`nodesync.go:52`, `87-89`), are older
than the trigger of migration 0007, and nothing in the repository gives them a
ULID; they stay at their node. The tick that exports and imports is
not in the repository; `Export` starts it from any peer, cursor and limit.

`VersionLog` is the promise without statements: a history is appended to, by the
number after its last and a content new to it; a registration brings an identity
that no node has and moves the head there; an import brings identity and content
from another node and leaves the head. `NodeSync` instantiates it with its own
`history` and `head`; staged versions, lookups and clashes are stutters.

## 3. What the runs show

Bounds are the constants of each `.cfg`; `MaxClock` (transactions begun),
`MaxFailures`, `MaxTime`, `MaxFaults` and `MaxUlid` (versions stamped) are the
ones that exist only in the models.

| run | instance | shows |
|---|---|---|
| `registry` | 1 skill, 2 contents, 2 proposals, 2 transactions at a time, 3 in all | types, `HistoryIntact`, `RegisteredHasVersion`, `ApprovalApplied`, `Isolation`; steps keep `DecisionsFinal`, `HistoryAppendOnly`, `PromotionGate`; the transactions implement `SerialSpec`; `TransactionsEnd`: no deadlock and no starvation |
| `sync` | 2 skills, 1 content, pages of 1, 2 connections, 3 transactions, 1 syncer | `UpToCursorInTurns` and `CursorNeverRewindsInTurns`, and `PullsConverge`, as long as writers do not overlap; `ResetsConverge`, without that premise |
| `skills_dir` | 1 skill, 2 contents of which one is long, 2 processes, the user, whose files may not parse | for processes that take turns, `WholeIfAlone` and `MirrorsIfAlone`: whatever cut runs leave in the dir, no partial file shows and the next runs repair it |
| `queue` | 2 items (1 usage, blank or not, 1 proposal), 1 tool, 1 drainer, batches of 2, ceiling 3 | `NothingLost`, `UsageCountedOnce`, `DeadOnlyAtCeiling`; the rows implement `Outbox`; `Settled`: the head of the queue does not block the rest, and marks that overwrite each other still reach the ceiling |
| `daemon` | 2 daemons, 2 scopes, 2 tokens, 1 client | `OneStore`: no two daemons have the store, though a drain times out, a start fails or a process dies; `TokensKept` through reloads that fail and restarts; `ReloadTakesEffect`; `StopEnds` |
| `ratchets` | 3 skills, 2 kinds (one that the ledger refuses), 3 ratchets, cap 2, 1 fault | `LedgerGuarded`, `LedgerComplete` |
| `node_sync` | 2 nodes, 2 contents, 2 versions stamped | `NodeHistoryIntact`, whatever registers and imports at once; `UlidNamesContent`: the identity that imports dedup by stands for one content; the nodes implement `VersionLog`; `FullExportsConverge`: repeated full exports bring every content of the peer, whatever clashed or was cut short before |

Why these are enough. Two transactions are what a conflict takes, and one skill
makes every pair conflict; the third transaction is a second try after one of
them has failed or committed. Two skills and pages of one make a run read several
pages, with a change in between; what tells a directory that is up to date from
one that is not is whether it is there at all, and where an older content is at
stake, `sync_sessions` has two and the proofs any number. Two processes on one row, one temp file or one data dir are what a race takes; the
tool call and the drainer do to a row all that two drainers can. Two rows in a
batch tell the batch from its head, and a ceiling of three leaves a mark between
the first and the last, which a stale one can undo. A long content and a short
one mix in both orders. Two scopes and two tokens let a token move between scopes
in either direction in the middle of a Load; the client is needed once, for the
drain that it outlives. Three ratchets exceed the cap of two. Two nodes that each
stamp a version give both orders of the same content and of different contents
under one number; that a copy is copied on takes a third node, and is left to the
proof. The proofs of section 4 remove the bounds altogether for the safety
properties.

`CHECK_DEADLOCK FALSE` stands where a system may stop: callers need not call
again once the bounds are used up, a queue may be empty, and all ratchets may be
spent. The `Sync`, `SkillsDir`, `Daemon` and `NodeSync` runs do not need it: a run,
an edit or a registration can always be started.

Symmetry is used in `ratchets` only, which checks no liveness, over sets whose
members the model never compares or orders.

### Fairness

- `Registry`: strong fairness of each transaction's next statement. The handler
  waits for its statement, and Postgres hands a lock to its waiters in turn, so a
  statement that is enabled again and again runs. Nothing is assumed of Begin,
  Propose or Rollback.
- `Sync`: weak fairness of a run that has started. Starting one is up to people
  and agents, so convergence has the premise that runs are started again and
  again and from some time on are not cut short (`Reliable`).
- `SkillsDir`: weak fairness of the entry a process is busy with. `MirrorsIfAlone` has
  the premises that one process at a time takes every skill again and again, and
  that from some time on the registry and the user are quiet and no call fails.
- `Daemon`: weak fairness of the process's own work and of the end of a query
  (`middleware.Timeout` cancels it), strong fairness of taking SIGTERM, because the
  select of `Run` picks among ready channels at random. The drain ends by its
  timeout, so no fairness of handlers is assumed: a client may never end.
- `WQueue`: weak fairness of each worker's steps (requests have a timeout), of
  `DrainOnce` (a ticker), and of time. `Settled` has the premise `Stable`: from
  some time on no process dies and the file can be written.
- `NodeSync`: weak fairness of a registration, which can always roll back, and
  strong fairness of an import's next statement, as it waits for locks. Exports
  are up to a ticker outside the repository; convergence has the premise that
  they are repeated and from some time on imports are not abandoned (`Uncut`).
- `Ratchets`: none; only safety is checked.

### Where the code and its documentation part

Each of these runs checks one sentence of the repository and ends with a
counterexample; the sentences and lines are in `PROJECT.json`, "findings".

- `sync_overtaken`: `updated_at` is the start of a transaction. One that starts
  first and commits last publishes a position the cursor has passed; the machine
  does not see that change until the skill changes again or a reset.
- `sync_sessions`: two sessions share directory and cursor file. One that fetched
  its page earlier writes it over the other's and is cut short: the older
  content stays.
- `ratchets_twice`: a lost reply leaves a ratchet without a row, and so does the
  kind `promote`, which a candidate may have (`pipeline.go`) and `ratchet_kind_chk`
  refuses; the next candidate of the skill starts a second one. With
  `MaxFaults = 0` the run shows the second way alone, with `CandidateKinds = {"edit"}`
  the first.
- `skills_dir_torn`: the temp name is the same for all processes. Two that write
  one skill at the same time can publish an empty or a mixed file, and it stays:
  an empty file bears no marker and a mixed one bears the current sha.
- `skills_dir_user`: "a hand-authored skill (no marker) is never overwritten or
  pruned", and there are three ways in which it is. One process and a file that
  the user saves after the look: the rename, or `RemoveAll`, takes it
  (`Names = {s1}`, `HandKinds = {"mine"}`). A file whose frontmatter does not parse:
  it is overwritten (`HandKinds = {"unparsable"}`; whether it was there before the
  look makes no difference). And a name without letters or digits, which the
  handler lets through: its slug is empty, its dir is the skills dir itself, and
  retiring it removes what the user has in all the others (`Names = {dots}`). The
  run has all of them and stops at one; with the constants in brackets it shows
  each.

Smaller ones, met on the way, each visible in a single step or outside the models,
and so without a run:

- Approving a create for a skill that is promoted changes what the fleet pulls,
  though an "approved-create lands local"; and POST, PUT and DELETE /skills change
  the registry without a proposal, though `0004_proposals.up.sql` says that
  nothing mutates skills without a decision.
- An import creates a skill whose head stays NULL. Promoting it makes a promoted
  skill without content, though the feed's promoted rows "carry their current
  version's content".
- With overlapping writers even a reset can leave the saved cursor below an
  earlier one, as it ends at what it saw last.
- `MarkAttempt` may set an attempt count back, as a mark can be based on an old
  read (`DeadOnlyAtCeiling` and `Settled` hold all the same); and the backoffs
  before the ceiling of 12 attempts add up to 3846 s, and not to about a day, as
  the comment of `maxAttempts` says.
- Nothing calls `UpdateRatchetStatus`, so a ledger row stays in flight for good:
  its skill is never fired again (the cooldown never decides) and the loop stops
  after `max_concurrent` ratchets. (`LedgerGuarded` is about too many in flight, not
  about this; and `LedgerComplete` excepts the kind that the ledger refuses, which
  is the subject of `ratchets_twice`.) After a failed Detect the window of the tick
  is not looked at again (`workers.go:31`), and the guards are those of the first
  scope only (`workers.go:68`).
- Names that differ in punctuation only share a dir, and the last entry of the feed
  decides what it holds.
- A usage report with a blank skill is answered "Recorded usage event for", and
  recorded nowhere: the daemon passes over it and the client deletes its row.
  `NothingLost` and `Outbox` say so of these reports, and promise the others.
- POST and PUT /skills store the `source` that the caller sends
  (`handlers_skills.go:82`, `125`), so a version whose source is "proposal:7" need
  not come from the approval of a proposal.
- A `bearer_token` with spaces around it passes the check, which trims it, and
  never matches (`config.go:224`); the page size that a scope overrides is not the
  one `handleSync` uses (`handlers_sync.go:32`); a SIGHUP during the boot kills the
  daemon, as any unhandled one does.

## 4. What is proved

All theorems hold for every value of the constants that satisfies the named
assumption of the module. These say little: that marks such as `NoContent` are not
values, that ids and scopes are numbers, that bounds are numbers; `SkillsDir`
leaves the slugs and what users write open, and `WQueue` asks for finitely many
workers and a bound `MaxFailures` that leaves room for a mark of each of them past
the ceiling. Sets may be infinite unless a module says otherwise.

`RegistryProofs`, about the serial registry:

- `SerialSafety`: `SerialSpec => []SerialInv`. `SerialInv` is the conjunction of
  `SerialTypeOK`, `HistoryIntact`, `RegisteredHasVersion` and `ApprovalApplied`. They are inductive only together: that a new version does
  not repeat a number needs `MAX(version)` to be the head, which is
  `HistoryIntact`; that a promote or prune of an existing skill keeps its head
  needs `RegisteredHasVersion`. Lemmas about `NextVersion`, `Upserted`, `Appended` and
  `Applied` carry the arithmetic.
- The steps of `SerialNext` satisfy the action properties.

And about the transactions:

- the inductive invariant is `TypeOK`, `SerialInv` of the committed tables, that
  each transaction's staged row is what its statements make of the row that is
  committed *now* (`Sound`), and that no two hold one row (`Exclusive`).
  `Sound` is what makes the invariant inductive: a commit publishes a row that
  was computed several steps earlier, and is a serial step only if nothing under
  it has moved; nothing moves because of `Exclusive`.
- `TypeCorrect`, `TransactionsIsolated` and the three theorems on the rows
  (`RegistryHistoryIntact`, `RegistryHeads`, `RegistryApprovals`) follow.
- `Serializable`: `Spec => SerialSpec`. Commit maps to the serial step of its
  call, Propose and Reject to theirs, everything else to a stutter.
- `RegistryGate`, `RegistryHistory`, `RegistryDecisions`: the action properties,
  carried over from the serial registry.

`SyncProofs`. What the cursor promises fails when transactions overlap or runs do:
`sync_overtaken` and `sync_sessions` show it. So it is proved for the behaviours in
which they take turns: `Turns` says that no two transactions that write and no two
runs are under way at the same time. It is a premise about behaviours and not a
constraint on the constants: in the form `[]Turns => ...` in `CursorIsMirrored` and
`CursorForward`, and with the history variable, up to the state at hand, in
`MirroredInTurns` and `ForwardInTurns`, which state what the run checks
(`TurnsRefines`: the variable takes nothing from the system). `AloneIsMirrored` has
no premise, as with one connection and one syncer every behaviour takes turns.
`SyncTypes` holds without it too.

- `MirrorInv` is the inductive invariant. `ClockInv`: timestamps are distinct, and
  a transaction under way has one that no row and no position has reached. So a
  commit changes only what lies ahead: what a run has read of a skill is still so,
  or the skill is ahead of the run and of the cursor (`EntriesFresh`).
- `RunMirrors`: what is behind the position of a run is on disk, and what its page
  spans is on disk or still to be applied. It needs that a page has *all* the
  changed rows up to its last one, which is a lemma about `Page` and `NewCursor`,
  and that a row the feed leaves out has left nothing on disk (`UnsentUntouched`).
- `EndsCaughtUp`: a run that is about to save is not behind the cursor. A reset
  starts at 0 and stops at a page that makes no progress, and then has passed every
  position there is (`Reached`); so `CursorForward` holds for resets too.

`WQueueProofs`: `QueueInv` adds to `NothingLost` and `UsageCountedOnce` that a worker
is busy only with writes that were accepted, that it goes on to delete a row only
when the daemon has the write or has passed over a blank report (between the two others may send, delete or purge
it), and that what was purged is gone. `QueueLosesNothing` and `UsageOnce` follow.
`QueueImplementsOutbox` maps each step to a step of `Outbox` or a stutter: a
`Delete` settles or drops, a `WriteAttempts` gives up or stutters, a `Purge` withdraws many
writes at once.

The counters have an invariant of their own (`CounterInv`), as a mark is two
statements and those of several sessions race for a row. `Counted`: a row's
attempts, and what a session has read of them, are behind the failures by at
least the marks that are still to come. `BelowCeiling`: while the row is alive,
nobody is about to write more than the ceiling. `Bounded`: past it, each session
that has the row in its batch can raise the attempts by one at most, because a drain ends
with its first failure. That gives `DeadAtCeiling`, and also that the bound
`MaxFailures` of the model is never met by the attempts (`QueueTypes`).

`SkillsDirProofs`: `DirInv` is the types and, for each process, that a file is
open exactly while it is written, that it is where `fd` says, and that what is
written is a content (`ProcessOK`), which holds because `Examine` lets nothing
else through; it is proved for any map from names to slugs, the empty one
included, and for files of the user's that do not parse. `AloneShowsWhole` adds that with one process at a time the
temp file that is renamed is the one that was just truncated and written in full.

`DaemonProofs`: `DaemonTypeOK` is inductive, because the flock is held from before
the first Load until the process is gone, and `OneStoreAtATime` follows.
`TokensAreKept` rests on an invariant for one token and one scope (`Kept`): the map
in use binds the token to the scope, and a Load under way has bound it so or has
the scope still to read. A Load that finds the token taken by another scope
fails as soon as it reads this one, so it never publishes a map without it.

`RatchetsProofs`: `LedgerGuarded` is not inductive, as the guards are evaluated
before the call to brainbox and the row is written after it. `LoopInv` adds that
the ledger still has room for the job in hand (`Room`), because the loop is the
only writer. `LedgerIsComplete` adds that a started job is in the ledger or in
hand as long as no fault has occurred.

`NodeSyncProofs`: `NodeInv` adds to the histories that a number computed for an
INSERT may be too small by then but never too large (`RegOK`, `MergeOK`), so an
INSERT that meets no unique index continues the history; that a staged version
keeps its place until it commits; and that its ULID is nowhere else.
`NodesImplementLog` maps `Commit` of a staged version and an `ImportVersion` that does
not clash to the steps of `VersionLog`, and everything else to a stutter; it adds
that what a batch carries is stored at some node with the content it had
(`CopiesOK`), since histories only grow. `UlidsNameContents` follows by induction
over the steps of `VersionLog`, for any number of nodes and chains of copies. The
premise is in `Insert`: the trigger never makes a ULID that is in use.

Only model-checked: everything under fairness, as the provers know neither ENABLED
nor the lattice arguments of leads-to (`TransactionsEnd`, `PullsConverge`,
`ResetsConverge`, `Settled`, `ReloadTakesEffect`, `StopEnds`, `MirrorsIfAlone`,
`FullExportsConverge`).

## 5. What is not modelled, and the plan

Not modelled because there is no state or it is pure input and output: the agent
configuration, connectivity notice, brain link, read tools, operator CLI (its
writes are the same store calls), HTTP plumbing, migrations runner.

Next, in this order:

1. Usage batches of several events, of which one is refused.
2. The safety half of convergence: what one undisturbed reset, or one full export,
   leaves behind when it ends.

An export cursor that has passed a ULID which commits later, or is made later with
a smaller value, misses that version; as the cursor is kept by a tick that the
repository does not have, `NodeSync` takes any cursor and states convergence for
full exports only.
