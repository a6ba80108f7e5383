------------------------------ MODULE Registry ------------------------------
(***************************************************************************)
(* The registry as internal/pgstore runs it: RegisterVersion,              *)
(* ApproveProposal and RetireSkill are Postgres transactions (READ         *)
(* COMMITTED) of several statements that run side by side, take row locks  *)
(* and stage their writes until they commit or are rolled back.            *)
(* CreateProposal and RejectProposal are single statements.                *)
(*                                                                         *)
(* now() is the start time of the transaction, so the updated_at a commit  *)
(* publishes is older than the commit itself; Sync.tla builds on that.     *)
(***************************************************************************)
EXTENDS SerialRegistry

CONSTANTS
  Txns,           \* connections of the pool that run write transactions
  MaxClock        \* bound: transactions begun

ASSUME MaxClockAssumption == MaxClock \in Nat

VARIABLES
  pc,             \* how far the transaction of each connection has come
  req,            \* the call it serves
  row,            \* the skill row it has staged
  ts,             \* its now()
  clock,          \* the database clock: one tick per transaction
  updatedAt       \* [Names -> committed updated_at, 0 before the first]

txnVars == <<pc, req, row, ts, clock, updatedAt>>
vars == <<skills, proposals, promotions, pc, req, row, ts, clock, updatedAt>>

NoRequest == [op |-> "none"]

Request ==
  [op : {"register"}, name : Names, content : Contents, status : PostStatuses]
  \cup [op : {"retire"}, name : Names]
  \cup [op : {"approve"}, id : ProposalIds]

\* The tables, and the state of each transaction, have their types.
TypeOK ==
  /\ SerialTypeOK
  /\ pc \in [Txns -> {"idle", "begun", "decided", "locked", "written"}]
  /\ req \in [Txns -> Request \cup {NoRequest}]
  /\ row \in [Txns -> SkillRow]
  /\ ts \in [Txns -> 0..MaxClock]
  /\ clock \in 0..MaxClock
  /\ updatedAt \in [Names -> 0..MaxClock]

Init ==
  /\ SerialInit
  /\ pc = [t \in Txns |-> "idle"]
  /\ req = [t \in Txns |-> NoRequest]
  /\ row = [t \in Txns |-> AbsentSkill]
  /\ ts = [t \in Txns |-> 0]
  /\ clock = 0
  /\ updatedAt = [n \in Names |-> 0]

-----------------------------------------------------------------------------
(* Row locks, held from the statement that takes them to the end.          *)

Approves(t) == req[t].op = "approve"

\* The skill a transaction writes.
Target(t) == IF Approves(t) THEN proposals[req[t].id].name ELSE req[t].name

\* It runs registerVersionTx; the others run one UPDATE of the status.
AppendsVersion(t) ==
  \/ req[t].op = "register"
  \/ Approves(t) /\ proposals[req[t].id].kind = "create"

\* The status the upsert gives a skill it has to insert.
InsertStatus(t) == IF Approves(t) THEN "local" ELSE req[t].status

HoldsProposal(t, id) ==
  /\ pc[t] \in {"decided", "locked", "written"}
  /\ Approves(t) /\ req[t].id = id

\* Mutants: the lock is gone before the commit; it is taken with BEGIN.
HoldsSkillWhileUpserting(t, name) == pc[t] = "locked" /\ Target(t) = name
HoldsSkillFromBegin(t, name) == pc[t] # "idle" /\ Target(t) = name

HoldsSkill(t, name) == pc[t] \in {"locked", "written"} /\ Target(t) = name

\* Mutants: FOR UPDATE is left out; an upsert does not wait.
ProposalUnlocked(t, id) == TRUE
SkillUnlocked(t) == TRUE

ProposalFree(t, id) == \A u \in Txns \ {t} : ~HoldsProposal(u, id)
SkillFree(t) == \A u \in Txns \ {t} : ~HoldsSkill(u, Target(t))

\* The transaction has run every statement before the one on the skill row.
AtSkillRow(t) == pc[t] = (IF Approves(t) THEN "decided" ELSE "begun")

\* The effect of the transaction on a row, as its last statement leaves it.
Result(t, r) ==
  CASE req[t].op = "register" -> Registered(r, req[t].content, req[t].status)
    [] req[t].op = "retire"   -> WithStatus(r, "retired")
    [] Approves(t)            -> Applied(r, req[t].id)

-----------------------------------------------------------------------------
(* The statements of a transaction.                                        *)

Begin(t, r) ==
  /\ pc[t] = "idle"
  /\ clock < MaxClock
  /\ pc' = [pc EXCEPT ![t] = "begun"]
  /\ req' = [req EXCEPT ![t] = r]
  /\ clock' = clock + 1
  /\ ts' = [ts EXCEPT ![t] = clock + 1]
  /\ UNCHANGED <<skills, proposals, promotions, row, updatedAt>>

\* Give the connection back: the transaction is over, its locks are gone.
Release(t) ==
  /\ pc' = [pc EXCEPT ![t] = "idle"]
  /\ req' = [req EXCEPT ![t] = NoRequest]
  /\ row' = [row EXCEPT ![t] = AbsentSkill]
  /\ ts' = [ts EXCEPT ![t] = 0]

\* SELECT ... WHERE status = 'pending' FOR UPDATE, which waits for the lock.
LockProposal(t) ==
  /\ pc[t] = "begun" /\ Approves(t)
  /\ ProposalFree(t, req[t].id)
  /\ proposals[req[t].id].status = "pending"
  /\ pc' = [pc EXCEPT ![t] = "decided"]
  /\ UNCHANGED <<skills, proposals, promotions, req, row, ts, clock, updatedAt>>

\* INSERT ... ON CONFLICT DO UPDATE, which waits for the row of that name,
\* committed or not.
UpsertSkill(t) ==
  /\ AtSkillRow(t) /\ AppendsVersion(t)
  /\ SkillFree(t)
  /\ row' = [row EXCEPT ![t] = Upserted(skills[Target(t)], InsertStatus(t))]
  /\ pc' = [pc EXCEPT ![t] = "locked"]
  /\ UNCHANGED <<skills, proposals, promotions, req, ts, clock, updatedAt>>

\* The sha lookup, MAX(version)+1, the INSERT and the new head.  These
\* statements read the versions committed by now, not those of the upsert.
AppendVersion(t) ==
  /\ pc[t] = "locked"
  /\ LET r == [row[t] EXCEPT !.versions = skills[Target(t)].versions]
     IN row' = [row EXCEPT ![t] =
          Appended(r, IF Approves(t) THEN proposals[req[t].id].content ELSE req[t].content)]
  /\ pc' = [pc EXCEPT ![t] = "written"]
  /\ UNCHANGED <<skills, proposals, promotions, req, ts, clock, updatedAt>>

\* UPDATE skills SET status, of a retire or a promote or prune approval.
SetStatus(t) ==
  /\ AtSkillRow(t) /\ ~AppendsVersion(t)
  /\ skills[Target(t)].status # "absent"
  /\ SkillFree(t)
  /\ row' = [row EXCEPT ![t] = Result(t, skills[Target(t)])]
  /\ pc' = [pc EXCEPT ![t] = "written"]
  /\ UNCHANGED <<skills, proposals, promotions, req, ts, clock, updatedAt>>

\* ErrNotFound: the proposal is not pending, or no committed row has the name
\* (an UPDATE does not wait for a row that is being inserted).  Rolled back.
NotFound(t) ==
  /\ \/ /\ pc[t] = "begun" /\ Approves(t)
        /\ ProposalFree(t, req[t].id)
        /\ proposals[req[t].id].status # "pending"
     \/ /\ AtSkillRow(t) /\ ~AppendsVersion(t)
        /\ skills[Target(t)].status = "absent"
  /\ Release(t)
  /\ UNCHANGED <<skills, proposals, promotions, clock, updatedAt>>

\* COMMIT publishes the row, the timestamp and the decision together.
Commit(t) ==
  /\ pc[t] = "written"
  /\ skills' = [skills EXCEPT ![Target(t)] = row[t]]
  /\ updatedAt' = [updatedAt EXCEPT ![Target(t)] = ts[t]]
  /\ IF Approves(t)
     THEN /\ proposals' = [proposals EXCEPT ![req[t].id].status = "approved"]
          /\ promotions' = PromotionsAfter(req[t].id)
     ELSE UNCHANGED <<proposals, promotions>>
  /\ Release(t)
  /\ UNCHANGED clock

\* A statement fails, the caller goes away, the daemon or a connection dies.
Rollback(t) ==
  /\ pc[t] # "idle"
  /\ Release(t)
  /\ UNCHANGED <<skills, proposals, promotions, clock, updatedAt>>

-----------------------------------------------------------------------------
(* The single statements.                                                  *)

Propose(id, kind, name, content) ==
  /\ CreateProposal(id, kind, name, content)
  /\ UNCHANGED txnVars

\* Mutant: decides on a status it has read before.
RejectUnlocked(id) ==
  /\ RejectProposal(id)
  /\ UNCHANGED txnVars

\* UPDATE ... WHERE status = 'pending': waits for an approval that has locked
\* the row, then tests the status again.
Reject(id) ==
  /\ \A t \in Txns : ~HoldsProposal(t, id)
  /\ RejectProposal(id)
  /\ UNCHANGED txnVars

Statement(t) ==
  LockProposal(t) \/ UpsertSkill(t) \/ AppendVersion(t) \/ SetStatus(t) \/ NotFound(t) \/ Commit(t)

Next ==
  \/ \E t \in Txns :
       \/ \E n \in Names, c \in Contents, s \in PostStatuses :
            Begin(t, [op |-> "register", name |-> n, content |-> c, status |-> s])
       \/ \E n \in Names : Begin(t, [op |-> "retire", name |-> n])
       \/ \E id \in ProposalIds :
            proposals[id].status # "absent" /\ Begin(t, [op |-> "approve", id |-> id])
       \/ Statement(t)
       \/ Rollback(t)
  \/ \E id \in ProposalIds, k \in Kinds, n \in Names, c \in Contents \cup {NoContent} :
       Propose(id, k, n, c)
  \/ \E id \in ProposalIds : Reject(id)

Spec == Init /\ [][Next]_vars

\* A client waits for its statements and Postgres serves a lock's waiters in
\* turn, so a statement that can run again and again does run.
Fairness == \A t \in Txns : SF_vars(Statement(t))

FairSpec == Spec /\ Fairness

-----------------------------------------------------------------------------
(* Safety and liveness of the transactions.                                *)

\* Two transactions never hold the same row, and what a transaction has
\* staged is still what its statements make of the committed row: nothing it
\* read has changed under it (no lost update, no decision on a stale row).
Isolation ==
  \A t \in Txns :
    /\ \A u \in Txns \ {t} :
         /\ \A id \in ProposalIds : ~(HoldsProposal(t, id) /\ HoldsProposal(u, id))
         /\ \A n \in Names : ~(HoldsSkill(t, n) /\ HoldsSkill(u, n))
    /\ Approves(t) /\ pc[t] \in {"decided", "locked", "written"} =>
         proposals[req[t].id].status = "pending"
    /\ pc[t] = "locked" => row[t] = Upserted(skills[Target(t)], InsertStatus(t))
    /\ pc[t] = "written" => row[t] = Result(t, skills[Target(t)])

\* Every transaction ends: approvals hold a proposal row while they wait for
\* a skill row, and still no two transactions wait for each other for ever.
TransactionsEnd == \A t \in Txns : pc[t] # "idle" ~> pc[t] = "idle"

=============================================================================
