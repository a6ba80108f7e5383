--------------------------- MODULE SerialRegistry ---------------------------
(***************************************************************************)
(* What the skill registry promises its callers: every write of            *)
(* internal/pgstore (register a version, retire, create, approve or reject *)
(* a proposal) takes effect as one indivisible step on the committed rows  *)
(* of the tables skills, skill_versions, proposals and promotion_state.    *)
(* Registry.tla models how Postgres transactions implement these steps.    *)
(*                                                                         *)
(* One profile is modelled: every statement is scoped by the profile of    *)
(* the caller's token, so profiles do not interact.  A content stands for  *)
(* a frontmatter and a body, and is identified with its CanonicalSHA.  The *)
(* author and the source of a version are free text that callers send and  *)
(* nothing reads, and are left out.                                        *)
(***************************************************************************)
EXTENDS Integers, FiniteSets

CONSTANTS
  Names,          \* skill names of the profile
  Contents,       \* the contents (shas) a version may freeze
  NoContent,      \* what a promote or prune proposal carries
  ProposalIds,    \* identities of the proposals that may be created
  PostStatuses    \* statuses the callers of POST /skills ask for

Statuses == {"draft", "local", "promoted", "retired"}

ASSUME ConstantsAssumption ==
  /\ NoContent \notin Contents
  /\ PostStatuses \subseteq Statuses

VARIABLES
  skills,         \* [Names -> row of skills, with its skill_versions]
  proposals,      \* [ProposalIds -> row of proposals]
  promotions      \* names with a row in promotion_state

serialVars == <<skills, proposals, promotions>>

Version == [version : Nat \ {0}, sha : Contents]
SkillRow == [status : Statuses \cup {"absent"}, head : Nat, versions : SUBSET Version]

AbsentSkill == [status |-> "absent", head |-> 0, versions |-> {}]

Kinds == {"create", "promote", "prune"}

\* A promote or prune proposal carries no content.
Proposal ==
  [status : {"pending", "approved", "rejected"}, kind : {"create"},
   name : Names, content : Contents]
  \cup
  [status : {"pending", "approved", "rejected"}, kind : {"promote", "prune"},
   name : Names, content : {NoContent}]

AbsentProposal == [status |-> "absent"]

\* The tables hold rows of their types.
SerialTypeOK ==
  /\ skills \in [Names -> SkillRow]
  /\ proposals \in [ProposalIds -> Proposal \cup {AbsentProposal}]
  /\ promotions \subseteq Names

-----------------------------------------------------------------------------
(* The rows a write produces.                                              *)

\* Mutant: DO UPDATE SET status = EXCLUDED.status.
UpsertedWithStatus(row, status) == [row EXCEPT !.status = status]

\* INSERT ... ON CONFLICT DO UPDATE: the status counts only on insertion.
Upserted(row, status) ==
  IF row.status = "absent" THEN [row EXCEPT !.status = status] ELSE row

Numbers(versions) == {v.version : v \in versions}

\* Mutant: COUNT(*) for MAX(version)+1.
NextVersionFromCount(versions) == IF versions = {} THEN 1 ELSE Cardinality(versions)

\* COALESCE(MAX(version), 0) + 1
NextVersion(versions) ==
  IF versions = {} THEN 1
  ELSE 1 + (CHOOSE m \in Numbers(versions) : \A k \in Numbers(versions) : k <= m)

HasContent(row, content) == \E v \in row.versions : v.sha = content

\* Mutant: the head is not moved.
AppendedBelowHead(row, content) ==
  IF HasContent(row, content) THEN row
  ELSE [row EXCEPT !.versions = @ \cup {[version |-> NextVersion(@), sha |-> content]}]

\* Known content is a no-op that leaves the head alone; new content becomes
\* the next version and the head.
Appended(row, content) ==
  IF HasContent(row, content) THEN row
  ELSE LET n == NextVersion(row.versions)
       IN [row EXCEPT !.head = n,
                      !.versions = @ \cup {[version |-> n, sha |-> content]}]

Registered(row, content, status) == Appended(Upserted(row, status), content)

WithStatus(row, status) == [row EXCEPT !.status = status]

\* Mutant: a prune writes a status the table does not know.
DecidedStatusPruned(kind) == IF kind = "promote" THEN "promoted" ELSE "pruned"

DecidedStatus(kind) == IF kind = "promote" THEN "promoted" ELSE "retired"

\* The row that approving proposal id leaves of its skill.
Applied(row, id) ==
  LET p == proposals[id]
  IN IF p.kind = "create" THEN Registered(row, p.content, "local")
     ELSE WithStatus(row, DecidedStatus(p.kind))

\* Mutant: the promotion_state row is not written.
PromotionsForgotten(id) == promotions

\* Approving a promote records the promotion.
PromotionsAfter(id) ==
  IF proposals[id].kind = "promote" THEN promotions \cup {proposals[id].name} ELSE promotions

-----------------------------------------------------------------------------
SerialInit ==
  /\ skills = [n \in Names |-> AbsentSkill]
  /\ proposals = [id \in ProposalIds |-> AbsentProposal]
  /\ promotions = {}

RegisterVersion(name, content, status) ==
  /\ skills' = [skills EXCEPT ![name] = Registered(@, content, status)]
  /\ UNCHANGED <<proposals, promotions>>

RetireSkill(name) ==
  /\ skills[name].status # "absent"
  /\ skills' = [skills EXCEPT ![name] = WithStatus(@, "retired")]
  /\ UNCHANGED <<proposals, promotions>>

CreateProposal(id, kind, name, content) ==
  /\ proposals[id].status = "absent"
  /\ content \in IF kind = "create" THEN Contents ELSE {NoContent}
  /\ proposals' = [proposals EXCEPT ![id] =
       [status |-> "pending", kind |-> kind, name |-> name, content |-> content]]
  /\ UNCHANGED <<skills, promotions>>

RejectProposal(id) ==
  /\ proposals[id].status = "pending"
  /\ proposals' = [proposals EXCEPT ![id].status = "rejected"]
  /\ UNCHANGED <<skills, promotions>>

ApproveProposal(id) ==
  /\ proposals[id].status = "pending"
  /\ proposals[id].kind # "create" => skills[proposals[id].name].status # "absent"
  /\ skills' = [skills EXCEPT ![proposals[id].name] = Applied(@, id)]
  /\ promotions' = PromotionsAfter(id)
  /\ proposals' = [proposals EXCEPT ![id].status = "approved"]

SerialNext ==
  \/ \E n \in Names, c \in Contents, s \in PostStatuses : RegisterVersion(n, c, s)
  \/ \E n \in Names : RetireSkill(n)
  \/ \E id \in ProposalIds, k \in Kinds, n \in Names, c \in Contents \cup {NoContent} :
       CreateProposal(id, k, n, c)
  \/ \E id \in ProposalIds : RejectProposal(id) \/ ApproveProposal(id)

SerialSpec == SerialInit /\ [][SerialNext]_serialVars

-----------------------------------------------------------------------------
(* Safety.                                                                 *)

\* The history of a skill is numbered 1..n without gap or repetition, no
\* content appears twice in it, and current_version_id points at version n:
\* MAX(version)+1, the sha lookup and the head update of registerVersionTx
\* agree, whichever transactions ran side by side.
RowIntact(r) ==
  /\ Numbers(r.versions) = 1..r.head
  /\ \A v, w \in r.versions : v.version = w.version \/ v.sha = w.sha => v = w

HistoryIntact == \A n \in Names : RowIntact(skills[n])

\* A skill row exists only with a version: the comment of ListVersions
\* ("a skill always has >= 1 version once registered").
RegisteredHasVersion ==
  \A n \in Names : skills[n].status # "absent" <=> skills[n].head > 0

\* An approved proposal left its effect: the content of a create is in the
\* skill's history, a promote has its promotion_state row.
ApprovalApplied ==
  \A id \in ProposalIds :
    LET p == proposals[id] IN
    p.status = "approved" =>
      /\ skills[p.name].status # "absent"
      /\ p.kind = "create" => HasContent(skills[p.name], p.content)
      /\ p.kind = "promote" => p.name \in promotions

\* A proposal is decided at most once, whoever approves and rejects it at the
\* same time, and what it proposes never changes.
DecisionsFinal ==
  [][\A id \in ProposalIds :
       /\ proposals[id].status \in {"approved", "rejected"} => proposals'[id] = proposals[id]
       /\ proposals[id].status = "pending" =>
            \E s \in {"pending", "approved", "rejected"} :
              proposals'[id] = [proposals[id] EXCEPT !.status = s]]_serialVars

\* Versions are frozen: a step adds at most one to a skill and drops or
\* rewrites none, and the head never moves back.
HistoryAppendOnly ==
  [][\A n \in Names :
       /\ skills[n].versions \subseteq skills'[n].versions
       /\ skills'[n].versions # skills[n].versions => skills'[n].head = skills[n].head + 1
       /\ skills[n].head <= skills'[n].head]_serialVars

\* The gate of the fleet: a skill that exists becomes promoted only in the
\* step that approves a promote proposal for it.
PromotionGate ==
  [][\A n \in Names :
       skills[n].status \notin {"absent", "promoted"} /\ skills'[n].status = "promoted" =>
         \E id \in ProposalIds :
           /\ proposals[id].status = "pending" /\ proposals'[id].status = "approved"
           /\ proposals[id].kind = "promote" /\ proposals[id].name = n]_serialVars

=============================================================================
