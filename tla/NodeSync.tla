------------------------------ MODULE NodeSync ------------------------------
(***************************************************************************)
(* Peer-to-peer replication of the version histories (internal/nodesync):  *)
(* a node exports the versions of its skills in the order of their ULIDs,  *)
(* and another imports them one by one, each with statements that commit   *)
(* by themselves, while its own daemon goes on registering versions in     *)
(* transactions.  One skill is modelled: versions of different skills meet *)
(* only in the uniqueness of ULIDs.                                        *)
(*                                                                         *)
(* Two ULIDs made in one millisecond, or by two clocks, may have any       *)
(* order: a ULID here is any number not in use.  The tick that runs        *)
(* exports and imports is not in the repository; it is "single-threaded".  *)
(***************************************************************************)
EXTENDS Integers, FiniteSets

CONSTANTS
  Nodes,          \* databases that replicate each other
  Contents,       \* contents of the skill's versions (their shas)
  NoContent,      \* no content chosen yet
  MaxUlid         \* bound: versions stamped

ASSUME NodeSyncAssumption == MaxUlid \in Nat \ {0} /\ NoContent \notin Contents

VARIABLES
  history,        \* [Nodes -> committed rows of skill_versions]
  status,         \* [Nodes -> status of the skill's row]
  head,           \* [Nodes -> version of current_version_id, 0: NULL]
  reg,            \* [Nodes -> the registration that holds the skill's row]
  merge           \* [Nodes -> the node's merge tick]

vars == <<history, status, head, reg, merge>>

Ulids == 1..MaxUlid

StoredVersion == [version : 1..MaxUlid, sha : Contents, ulid : Ulids]

\* known: the content exists already; inserted: staged, not committed.
Registration == [stage : {"idle", "upserted", "known", "numbered", "inserted"},
                 sha : Contents \cup {NoContent}, version : 0..MaxUlid + 1, ulid : {0} \cup Ulids]

Merge == [stage : {"idle", "skill", "dedup", "insert"},
          todo : SUBSET StoredVersion, version : 0..MaxUlid + 1]

NoRegistration == [stage |-> "idle", sha |-> NoContent, version |-> 0, ulid |-> 0]
NoMerge == [stage |-> "idle", todo |-> {}, version |-> 0]

\* The types; a merge is idle exactly when no version is left to import.
NodeTypeOK ==
  /\ history \in [Nodes -> SUBSET StoredVersion]
  /\ status \in [Nodes -> {"absent", "draft", "promoted"}]
  /\ head \in [Nodes -> 0..MaxUlid]
  /\ reg \in [Nodes -> Registration]
  /\ merge \in [Nodes -> Merge]
  /\ \A n \in Nodes : merge[n].stage = "idle" <=> merge[n].todo = {}

Init ==
  /\ history = [n \in Nodes |-> {}]
  /\ status = [n \in Nodes |-> "absent"]
  /\ head = [n \in Nodes |-> 0]
  /\ reg = [n \in Nodes |-> NoRegistration]
  /\ merge = [n \in Nodes |-> NoMerge]

Shas(n) == {v.sha : v \in history[n]}

\* Mutant: the ULIDs of committed versions are made again.
InUseStaged == {0} \cup {reg[n].ulid : n \in Nodes}

InUse == {v.ulid : v \in UNION {history[n] : n \in Nodes}} \cup {reg[n].ulid : n \in Nodes}

\* COALESCE(MAX(version), 0) + 1
NextVersion(n) ==
  CHOOSE k \in 1..MaxUlid + 1 :
    /\ \A v \in history[n] : v.version < k
    /\ k = 1 \/ \E v \in history[n] : v.version = k - 1

\* Mutant: the schema has no UNIQUE (skill_id, version).
ClashingSha(n, version, sha) == sha \in Shas(n)

\* A row would violate UNIQUE (skill_id, version) or UNIQUE (skill_id, sha).
Clashing(n, version, sha) == \E v \in history[n] : v.version = version \/ v.sha = sha

-----------------------------------------------------------------------------
(* registerVersionTx at one node.                                          *)

Upsert(n, sha) ==
  /\ reg[n].stage = "idle"
  /\ reg' = [reg EXCEPT ![n] = [NoRegistration EXCEPT !.stage = "upserted", !.sha = sha]]
  /\ UNCHANGED <<history, status, head, merge>>

\* The sha lookup and, for new content, MAX(version)+1.
Lookup(n) ==
  /\ reg[n].stage = "upserted"
  /\ reg' = [reg EXCEPT ![n] =
       IF reg[n].sha \in Shas(n) THEN [reg[n] EXCEPT !.stage = "known"]
       ELSE [reg[n] EXCEPT !.stage = "numbered", !.version = NextVersion(n)]]
  /\ UNCHANGED <<history, status, head, merge>>

\* The INSERT, stamped by its trigger.
Insert(n, ulid) ==
  /\ reg[n].stage = "numbered"
  /\ ~Clashing(n, reg[n].version, reg[n].sha)
  /\ ulid \in Ulids \ InUse
  /\ reg' = [reg EXCEPT ![n].stage = "inserted", ![n].ulid = ulid]
  /\ UNCHANGED <<history, status, head, merge>>

Commit(n) ==
  /\ reg[n].stage \in {"known", "inserted"}
  /\ IF reg[n].stage = "inserted"
     THEN /\ history' = [history EXCEPT ![n] = @ \cup
               {[version |-> reg[n].version, sha |-> reg[n].sha, ulid |-> reg[n].ulid]}]
          /\ head' = [head EXCEPT ![n] = reg[n].version]
     ELSE UNCHANGED <<history, head>>
  /\ status' = [status EXCEPT ![n] = IF @ = "absent" THEN "draft" ELSE @]
  /\ reg' = [reg EXCEPT ![n] = NoRegistration]
  /\ UNCHANGED merge

\* A statement fails, for one an INSERT that clashes with an imported version.
Rollback(n) ==
  /\ reg[n].stage # "idle"
  /\ reg' = [reg EXCEPT ![n] = NoRegistration]
  /\ UNCHANGED <<history, status, head, merge>>

\* ApproveProposal of a promote, which waits for the skill's row.
Promote(n) ==
  /\ reg[n].stage = "idle" /\ status[n] = "draft"
  /\ status' = [status EXCEPT ![n] = "promoted"]
  /\ UNCHANGED <<history, head, reg, merge>>

-----------------------------------------------------------------------------
(* The merge tick of node n.                                               *)

Oldest(rows) == CHOOSE v \in rows : \A w \in rows : v.ulid <= w.ulid

\* ExportSkillVersions at node m: the first rows after the cursor.  All rows
\* have a ULID, as the trigger of migration 0007 stamps each INSERT: the ones
\* without, which the export and the import pass over, are older than that.
Exported(m, since, limit) ==
  LET after == {v \in history[m] : v.ulid > since}
  IN {v \in after : Cardinality({w \in after : w.ulid <= v.ulid}) <= limit}

Export(n, m, since, limit) ==
  /\ merge[n].stage = "idle" /\ n # m
  /\ Exported(m, since, limit) # {}
  /\ merge' = [merge EXCEPT ![n] =
       [NoMerge EXCEPT !.stage = "skill", !.todo = Exported(m, since, limit)]]
  /\ UNCHANGED <<history, status, head, reg>>

\* Mutant: the end of the batch is missed.
NextRowPastEnd(n) ==
  merge' = [merge EXCEPT ![n] =
    [NoMerge EXCEPT !.stage = "skill", !.todo = merge[n].todo \ {Oldest(merge[n].todo)}]]

NextRow(n) ==
  LET rest == merge[n].todo \ {Oldest(merge[n].todo)}
  IN merge' = [merge EXCEPT ![n] =
       IF rest = {} THEN NoMerge ELSE [NoMerge EXCEPT !.stage = "skill", !.todo = rest]]

\* INSERT INTO skills ... DO NOTHING, which waits for a registration that is
\* inserting the skill; the row it makes is a draft without a head.
EnsureSkill(n) ==
  /\ merge[n].stage = "skill"
  /\ status[n] = "absent" => reg[n].stage = "idle"
  /\ status' = [status EXCEPT ![n] = IF @ = "absent" THEN "draft" ELSE @]
  /\ merge' = [merge EXCEPT ![n].stage = "dedup"]
  /\ UNCHANGED <<history, head, reg>>

\* Mutant: a version that is known ends the import.
DedupStops(n) ==
  /\ merge[n].stage = "dedup"
  /\ LET r == Oldest(merge[n].todo)
     IN IF \E v \in history[n] : v.ulid = r.ulid \/ v.sha = r.sha
        THEN merge' = [merge EXCEPT ![n] = NoMerge]
        ELSE merge' = [merge EXCEPT ![n].stage = "insert", ![n].version = NextVersion(n)]
  /\ UNCHANGED <<history, status, head, reg>>

\* Skip a version that is known by its ULID or its content; otherwise the
\* INSERT ... SELECT picks its number from what is committed now.
Dedup(n) ==
  /\ merge[n].stage = "dedup"
  /\ LET r == Oldest(merge[n].todo)
     IN IF \E v \in history[n] : v.ulid = r.ulid \/ v.sha = r.sha THEN NextRow(n)
        ELSE merge' = [merge EXCEPT ![n].stage = "insert", ![n].version = NextVersion(n)]
  /\ UNCHANGED <<history, status, head, reg>>

\* Mutant: the INSERT leaves the ULID to the trigger, which stamps its own.
ImportedAnew(r, version) ==
  [r EXCEPT !.version = version,
            !.ulid = CHOOSE u \in Ulids : u \notin InUse \/ Ulids \subseteq InUse]

\* The row of an import: the peer's version under a number of this node.
Imported(r, version) == [r EXCEPT !.version = version]

\* The unique indexes make the INSERT wait for a staged row it clashes with,
\* and fail on a committed one: the import returns with the rest not done.
ImportVersion(n) ==
  LET r == Oldest(merge[n].todo) IN
  /\ merge[n].stage = "insert"
  /\ ~(/\ reg[n].stage = "inserted"
       /\ reg[n].version = merge[n].version \/ reg[n].sha = r.sha)
  /\ IF Clashing(n, merge[n].version, r.sha)
     THEN merge' = [merge EXCEPT ![n] = NoMerge] /\ UNCHANGED history
     ELSE /\ history' = [history EXCEPT ![n] = @ \cup {Imported(r, merge[n].version)}]
          /\ NextRow(n)
  /\ UNCHANGED <<status, head, reg>>

\* A statement fails, or the node goes down.
Abandon(n) ==
  /\ merge[n].stage # "idle"
  /\ merge' = [merge EXCEPT ![n] = NoMerge]
  /\ UNCHANGED <<history, status, head, reg>>

Import(n) == EnsureSkill(n) \/ Dedup(n) \/ ImportVersion(n)

Register(n) == Lookup(n) \/ (\E u \in Ulids : Insert(n, u)) \/ Commit(n) \/ Rollback(n)

Next ==
  \E n \in Nodes :
    \/ \E c \in Contents : Upsert(n, c)
    \/ Register(n)
    \/ Promote(n)
    \/ \E m \in Nodes, since \in {0} \cup Ulids, limit \in Ulids : Export(n, m, since, limit)
    \/ Import(n)
    \/ Abandon(n)

Spec == Init /\ [][Next]_vars

\* Transactions end, and Postgres serves a lock's waiters in turn.
FairSpec == Spec /\ \A n \in Nodes : WF_vars(Register(n)) /\ SF_vars(Import(n))

-----------------------------------------------------------------------------
(* Properties.                                                             *)

\* Imports and registrations of one skill, each numbering with MAX(version)+1
\* and neither waiting for the other's lookup, leave one history: numbered
\* without gap or repetition, no content and no ULID twice, the head in it.
NodeHistoryIntact ==
  \A n \in Nodes :
    /\ {v.version : v \in history[n]} = 1..Cardinality(history[n])
    /\ \A v, w \in history[n] :
         v.version = w.version \/ v.sha = w.sha \/ v.ulid = w.ulid => v = w
    /\ head[n] # 0 => \E v \in history[n] : v.version = head[n]

\* "dedups by the globally-unique row_ulid" (package nodesync): to skip a
\* version whose ULID is known loses nothing only if, at whatever node it was
\* met and through whatever copies, the ULID stands for the same content.
UlidNamesContent ==
  \A m, n \in Nodes : \A v \in history[m], w \in history[n] : v.ulid = w.ulid => v.sha = w.sha

Log == INSTANCE VersionLog WITH Versions <- StoredVersion

\* Registrations and imports, as statements that interleave, are what the
\* histories promise: imports rewrite nothing, keep the identity and the content
\* of the peer's version and leave the head; registrations move it forward.
ImplementsVersionLog == Log!LogSpec

\* From some time on no import is cut short.  (An import that ends on its own
\* may look the same.)
Uncut == <>[][\A n \in Nodes : Abandon(n) => Import(n)]_vars

\* "Idempotent and order-independent" (ImportSkillVersions): whatever clashes
\* on the way, full exports that are repeated bring every content of the peer.
FullExportsConverge ==
  Uncut => \A n \in Nodes : \A m \in Nodes \ {n} :
    []<><<Export(n, m, 0, MaxUlid)>>_vars => <>[](Shas(m) \subseteq Shas(n))

=============================================================================
