--------------------------- MODULE RegistryProofs ---------------------------
(***************************************************************************)
(* The safety of the registry, for every number of connections, names,     *)
(* contents and proposals, in two parts.                                   *)
(*                                                                         *)
(* The serial registry.  The argument is about one row: registering a      *)
(* content or setting a status turns a good row into a good row that keeps *)
(* all its versions.  SerialInv then says every row is good and that       *)
(* proposals and rows agree; it is inductive.                              *)
(*                                                                         *)
(* The transactions of Registry implement the serial registry.  Inv is     *)
(* the inductive invariant: every transaction is Sound (the row it has     *)
(* staged is what its statements make of the row committed now, the        *)
(* proposal it has locked is still pending) and no row has two holders.    *)
(* A step of one transaction leaves the others sound because the rows it   *)
(* publishes are the ones it alone holds (lemma Frame).  A commit of a     *)
(* sound transaction is then a step of the serial registry, and every      *)
(* other step of a transaction changes nothing the serial registry sees.   *)
(***************************************************************************)
EXTENDS Registry, TLAPS

-----------------------------------------------------------------------------
(* The serial registry.                                                    *)

GoodRow(r) ==
  /\ r \in SkillRow
  /\ RowIntact(r)
  /\ r.status # "absent" <=> r.head > 0

SerialInv ==
  /\ SerialTypeOK
  /\ HistoryIntact
  /\ RegisteredHasVersion
  /\ ApprovalApplied

\* The versions of a row being numbered 1..h, MAX(version) + 1 is h + 1.
LEMMA NextVersionIsHeadPlusOne ==
  ASSUME NEW versions, NEW h \in Nat, Numbers(versions) = 1..h
  PROVE  NextVersion(versions) = h + 1
<1>1. CASE versions = {}
  <2>1. 1..h = {}  BY <1>1 DEF Numbers
  <2>2. h = 0  BY <2>1
  <2> QED  BY <1>1, <2>2 DEF NextVersion
<1>2. CASE versions # {}
  <2> DEFINE IsMax(m) == m \in Numbers(versions) /\ \A k \in Numbers(versions) : k <= m
             top == CHOOSE m \in Numbers(versions) : \A k \in Numbers(versions) : k <= m
  <2>1. PICK v \in versions : TRUE  BY <1>2
  <2>2. v.version \in 1..h  BY <2>1 DEF Numbers
  <2>3. IsMax(h)  BY <2>2
  <2>4. IsMax(top)  BY <2>3
  <2>5. top = h  BY <2>3, <2>4
  <2>6. NextVersion(versions) = 1 + top  BY <1>2 DEF NextVersion
  <2> HIDE DEF top
  <2> QED  BY <2>5, <2>6
<1> QED  BY <1>1, <1>2

\* Inserting or keeping the identity changes nothing but an absent status.
LEMMA UpsertedRow ==
  ASSUME NEW r, GoodRow(r), NEW s \in Statuses
  PROVE  /\ Upserted(r, s) \in SkillRow
         /\ RowIntact(Upserted(r, s))
         /\ Upserted(r, s).status \in Statuses
         /\ r.status # "absent" => Upserted(r, s).status = r.status
         /\ Upserted(r, s).versions = r.versions
         /\ Upserted(r, s).head = r.head
BY DEF GoodRow, Upserted, RowIntact, SkillRow, Statuses

\* registerVersionTx on a good row yields a good row that has the content,
\* keeps every version and adds at most the new one.
LEMMA RegisteredRow ==
  ASSUME NEW r, GoodRow(r), NEW c \in Contents, NEW s \in Statuses
  PROVE  LET q == Registered(r, c, s) IN
         /\ GoodRow(q)
         /\ q.status # "absent"
         /\ r.status # "absent" => q.status = r.status
         /\ HasContent(q, c)
         /\ r.versions \subseteq q.versions
         /\ q.versions # r.versions => q.head = r.head + 1
         /\ r.head <= q.head
<1> DEFINE u == Upserted(r, s)
           q == Appended(u, c)
           n == u.head + 1
           v0 == [version |-> n, sha |-> c]
<1>1. /\ u \in SkillRow /\ RowIntact(u) /\ u.status \in Statuses
      /\ r.status # "absent" => u.status = r.status
      /\ u.versions = r.versions /\ u.head = r.head
  BY UpsertedRow
<1>2. u.head \in Nat /\ u.versions \subseteq Version
  BY <1>1 DEF SkillRow
<1> HIDE DEF u
<1>3. CASE HasContent(u, c)
  <2>1. q = u  BY <1>3 DEF Appended
  <2>2. u.head > 0
    <3>1. PICK v \in u.versions : v.sha = c  BY <1>3 DEF HasContent
    <3>2. v.version \in 1..u.head  BY <1>1 DEF RowIntact, Numbers
    <3> QED  BY <1>2, <3>2
  <2>3. GoodRow(q)  BY <1>1, <2>1, <2>2 DEF GoodRow, Statuses
  <2> QED  BY <1>1, <1>2, <1>3, <2>1, <2>3 DEF Registered, Statuses, u
<1>4. CASE ~HasContent(u, c)
  <2>1. NextVersion(u.versions) = n
    BY <1>1, <1>2, NextVersionIsHeadPlusOne DEF RowIntact
  <2>2. q = [u EXCEPT !.head = n, !.versions = u.versions \cup {v0}]
    BY <1>4, <2>1 DEF Appended
  <2>3. /\ q.head = n /\ q.versions = u.versions \cup {v0} /\ q.status = u.status
    BY <1>1, <2>2 DEF SkillRow
  <2>4. v0 \in Version /\ v0.version = n /\ v0.sha = c
    BY <1>2 DEF Version
  <2> HIDE DEF q, v0
  <2>5. q \in SkillRow
    <3>1. n \in Nat  BY <1>2
    <3>2. u.versions \cup {v0} \in SUBSET Version  BY <1>2, <2>4
    <3> QED  BY <1>1, <2>2, <3>1, <3>2 DEF SkillRow
  <2>6. Numbers(q.versions) = 1..n
    <3>1. Numbers(q.versions) = Numbers(u.versions) \cup {n}  BY <2>3, <2>4 DEF Numbers
    <3> QED  BY <1>1, <1>2, <3>1 DEF RowIntact
  <2>7. \A v \in u.versions : v.version # n /\ v.sha # c
    BY <1>1, <1>2, <1>4 DEF RowIntact, Numbers, HasContent
  <2>8. RowIntact(q)  BY <1>1, <2>3, <2>4, <2>6, <2>7 DEF RowIntact
  <2>9. GoodRow(q)  BY <1>1, <1>2, <2>3, <2>5, <2>8 DEF GoodRow, Statuses
  <2>10. HasContent(q, c)  BY <2>3, <2>4 DEF HasContent
  <2> QED  BY <1>1, <1>2, <2>3, <2>4, <2>9, <2>10 DEF Registered, Statuses, u, q
<1> QED  BY <1>3, <1>4

\* Setting the status of a skill that exists keeps its history.
LEMMA WithStatusRow ==
  ASSUME NEW r, GoodRow(r), r.status # "absent", NEW s \in Statuses
  PROVE  /\ GoodRow(WithStatus(r, s))
         /\ WithStatus(r, s).status = s
         /\ WithStatus(r, s).versions = r.versions
         /\ WithStatus(r, s).head = r.head
BY DEF GoodRow, WithStatus, RowIntact, SkillRow, Statuses

-----------------------------------------------------------------------------
\* Replacing one row by a good one that keeps its versions keeps all rows good.
LEMMA RowReplaced ==
  ASSUME SerialInv, NEW n \in Names, NEW q, GoodRow(q), q.status # "absent",
         skills[n].versions \subseteq q.versions,
         skills' = [skills EXCEPT ![n] = q]
  PROVE  /\ skills' \in [Names -> SkillRow]
         /\ HistoryIntact'
         /\ RegisteredHasVersion'
         /\ skills'[n] = q
         /\ \A m \in Names : m # n => skills'[m] = skills[m]
         /\ \A m \in Names : skills[m].versions \subseteq skills'[m].versions
         /\ \A m \in Names : skills[m].status # "absent" => skills'[m].status # "absent"
<1>1. skills \in [Names -> SkillRow] /\ q \in SkillRow
  BY DEF SerialInv, SerialTypeOK, GoodRow
<1>2. /\ skills' \in [Names -> SkillRow] /\ skills'[n] = q
      /\ \A m \in Names : m # n => skills'[m] = skills[m]
  BY <1>1
<1>3. HistoryIntact'
  BY <1>2 DEF SerialInv, HistoryIntact, GoodRow
<1>4. RegisteredHasVersion'
  BY <1>2 DEF SerialInv, RegisteredHasVersion, GoodRow
<1>5. \A m \in Names : skills[m].versions \subseteq skills'[m].versions
  BY <1>2
<1> QED  BY <1>2, <1>3, <1>4, <1>5

\* What SerialInv says of the row of one skill.
LEMMA SkillsGood ==
  ASSUME SerialInv  PROVE  \A n \in Names : GoodRow(skills[n])
BY DEF SerialInv, SerialTypeOK, HistoryIntact, RegisteredHasVersion, GoodRow

\* The row that an enabled approval leaves is good and keeps its versions; a
\* create leaves its content in the history.
LEMMA AppliedRow ==
  ASSUME SerialInv, NEW id \in ProposalIds, proposals[id].status = "pending",
         NEW r, GoodRow(r), proposals[id].kind # "create" => r.status # "absent"
  PROVE  /\ GoodRow(Applied(r, id))
         /\ Applied(r, id).status # "absent"
         /\ r.versions \subseteq Applied(r, id).versions
         /\ proposals[id].kind = "create" => HasContent(Applied(r, id), proposals[id].content)
         /\ Applied(r, id).versions # r.versions => Applied(r, id).head = r.head + 1
         /\ r.head <= Applied(r, id).head
         /\ proposals[id].kind # "promote" /\ r.status \notin {"absent", "promoted"}
              => Applied(r, id).status # "promoted"
<1>1. proposals[id] \in Proposal
  BY DEF SerialInv, SerialTypeOK, AbsentProposal
<1>2. CASE proposals[id].kind = "create"
  <2>1. /\ proposals[id].content \in Contents /\ "local" \in Statuses
    BY <1>1, <1>2 DEF Proposal, Statuses
  <2>2. Applied(r, id) = Registered(r, proposals[id].content, "local")
    BY <1>2 DEF Applied
  <2> QED  BY <1>2, <2>1, <2>2, RegisteredRow
<1>3. CASE proposals[id].kind # "create"
  <2>1. DecidedStatus(proposals[id].kind) \in Statuses \ {"absent"}
    BY DEF DecidedStatus, Statuses
  <2>2. Applied(r, id) = WithStatus(r, DecidedStatus(proposals[id].kind))
    BY <1>3 DEF Applied
  <2>3. r.head \in Nat  BY DEF GoodRow, SkillRow
  <2> HIDE DEF DecidedStatus
  <2>4. proposals[id].kind # "promote" => DecidedStatus(proposals[id].kind) # "promoted"
    BY DEF DecidedStatus
  <2> QED  BY <1>3, <2>1, <2>2, <2>3, <2>4, WithStatusRow
<1> QED  BY <1>2, <1>3

-----------------------------------------------------------------------------
\* The empty registry satisfies the invariant.
LEMMA SerialInvInit == SerialInit => SerialInv
<1> SUFFICES ASSUME SerialInit PROVE SerialInv  OBVIOUS
<1>1. SerialTypeOK
  BY DEF SerialInit, SerialTypeOK, SkillRow, AbsentSkill
<1>2. HistoryIntact /\ RegisteredHasVersion
  BY DEF SerialInit, HistoryIntact, RowIntact, Numbers, RegisteredHasVersion, AbsentSkill
<1>3. ApprovalApplied
  BY DEF SerialInit, ApprovalApplied, AbsentSkill, AbsentProposal
<1> QED  BY <1>1, <1>2, <1>3 DEF SerialInv

\* Every write keeps the invariant: one case for each call.
LEMMA SerialInvStep == SerialInv /\ [SerialNext]_serialVars => SerialInv'
<1> SUFFICES ASSUME SerialInv, [SerialNext]_serialVars PROVE SerialInv'  OBVIOUS
<1> USE DEF SerialTypeOK
<1>1. ASSUME NEW n \in Names, NEW c \in Contents, NEW s \in PostStatuses,
             RegisterVersion(n, c, s)
      PROVE  SerialInv'
  <2> DEFINE q == Registered(skills[n], c, s)
  <2>1. GoodRow(skills[n]) /\ s \in Statuses
    BY SkillsGood, ConstantsAssumption
  <2>2. GoodRow(q) /\ q.status # "absent" /\ skills[n].versions \subseteq q.versions
    BY <2>1, RegisteredRow
  <2> HIDE DEF q
  <2>3. skills' = [skills EXCEPT ![n] = q] /\ UNCHANGED <<proposals, promotions>>
    BY <1>1 DEF RegisterVersion, q, SerialInv
  <2>4. /\ skills' \in [Names -> SkillRow] /\ HistoryIntact' /\ RegisteredHasVersion'
        /\ skills'[n] = q /\ \A m \in Names : m # n => skills'[m] = skills[m]
        /\ \A m \in Names : skills[m].versions \subseteq skills'[m].versions
        /\ \A m \in Names : skills[m].status # "absent" => skills'[m].status # "absent"
    BY <2>2, <2>3, RowReplaced
  <2>5. ApprovalApplied'
    BY <2>3, <2>4 DEF SerialInv, ApprovalApplied, HasContent, Proposal, AbsentProposal
  <2> QED  BY <2>3, <2>4, <2>5 DEF SerialInv
<1>2. ASSUME NEW n \in Names, RetireSkill(n)
      PROVE  SerialInv'
  <2> DEFINE q == WithStatus(skills[n], "retired")
  <2>1. GoodRow(q) /\ q.status # "absent" /\ q.versions = skills[n].versions
    BY <1>2, SkillsGood, WithStatusRow DEF RetireSkill, Statuses
  <2> HIDE DEF q
  <2>2. skills' = [skills EXCEPT ![n] = q] /\ UNCHANGED <<proposals, promotions>>
    BY <1>2 DEF RetireSkill, q, SerialInv
  <2>3. /\ skills' \in [Names -> SkillRow] /\ HistoryIntact' /\ RegisteredHasVersion'
        /\ skills'[n] = q /\ \A m \in Names : m # n => skills'[m] = skills[m]
        /\ \A m \in Names : skills[m].versions \subseteq skills'[m].versions
        /\ \A m \in Names : skills[m].status # "absent" => skills'[m].status # "absent"
    BY <2>1, <2>2, RowReplaced
  <2>4. ApprovalApplied'
    BY <2>2, <2>3 DEF SerialInv, ApprovalApplied, HasContent, Proposal, AbsentProposal
  <2> QED  BY <2>2, <2>3, <2>4 DEF SerialInv
<1>3. ASSUME NEW id \in ProposalIds, NEW k \in Kinds, NEW n \in Names,
             NEW c \in Contents \cup {NoContent}, CreateProposal(id, k, n, c)
      PROVE  SerialInv'
  <2>1. proposals' \in [ProposalIds -> Proposal \cup {AbsentProposal}]
    BY <1>3 DEF SerialInv, CreateProposal, Proposal, Kinds
  <2>2. ApprovalApplied'
    BY <1>3 DEF SerialInv, ApprovalApplied, CreateProposal, HasContent
  <2> QED
    BY <1>3, <2>1, <2>2
    DEF SerialInv, CreateProposal, HistoryIntact, RegisteredHasVersion
<1>4. ASSUME NEW id \in ProposalIds, RejectProposal(id)
      PROVE  SerialInv'
  <2>1. proposals' \in [ProposalIds -> Proposal \cup {AbsentProposal}]
    BY <1>4 DEF SerialInv, RejectProposal, Proposal, AbsentProposal
  <2>2. ApprovalApplied'
    BY <1>4 DEF SerialInv, ApprovalApplied, RejectProposal, HasContent, Proposal, AbsentProposal
  <2> QED
    BY <1>4, <2>1, <2>2
    DEF SerialInv, RejectProposal, HistoryIntact, RegisteredHasVersion
<1>5. ASSUME NEW id \in ProposalIds, ApproveProposal(id)
      PROVE  SerialInv'
  <2> DEFINE n == proposals[id].name
             q == Applied(skills[n], id)
  <2>1. proposals[id] \in Proposal /\ n \in Names
    BY <1>5 DEF SerialInv, ApproveProposal, Proposal, AbsentProposal
  <2>2. /\ GoodRow(q) /\ q.status # "absent" /\ skills[n].versions \subseteq q.versions
        /\ proposals[id].kind = "create" => HasContent(q, proposals[id].content)
    BY <1>5, <2>1, SkillsGood, AppliedRow DEF ApproveProposal
  <2>3. /\ skills' = [skills EXCEPT ![n] = q]
        /\ proposals' = [proposals EXCEPT ![id].status = "approved"]
        /\ promotions' = PromotionsAfter(id)
    BY <1>5 DEF ApproveProposal, SerialInv
  <2> HIDE DEF n, q
  <2>4. /\ skills' \in [Names -> SkillRow] /\ HistoryIntact' /\ RegisteredHasVersion'
        /\ skills'[n] = q /\ \A m \in Names : m # n => skills'[m] = skills[m]
        /\ \A m \in Names : skills[m].versions \subseteq skills'[m].versions
        /\ \A m \in Names : skills[m].status # "absent" => skills'[m].status # "absent"
    BY <2>1, <2>2, <2>3, RowReplaced
  <2>5. /\ proposals' \in [ProposalIds -> Proposal \cup {AbsentProposal}]
        /\ proposals'[id].status = "approved" /\ proposals'[id].kind = proposals[id].kind
        /\ proposals'[id].name = n /\ proposals'[id].content = proposals[id].content
        /\ \A i \in ProposalIds : i # id => proposals'[i] = proposals[i]
    BY <2>1, <2>3 DEF SerialInv, Proposal, n
  <2>6. promotions \subseteq promotions' /\ promotions' \subseteq Names
        /\ (proposals[id].kind = "promote" => n \in promotions')
    BY <2>1, <2>3 DEF SerialInv, PromotionsAfter, n
  <2>7. ApprovalApplied'
    <3> SUFFICES ASSUME NEW i \in ProposalIds, proposals'[i].status = "approved"
                 PROVE  /\ skills'[proposals'[i].name].status # "absent"
                        /\ proposals'[i].kind = "create" =>
                             HasContent(skills'[proposals'[i].name], proposals'[i].content)
                        /\ proposals'[i].kind = "promote" => proposals'[i].name \in promotions'
      BY DEF ApprovalApplied, HasContent
    <3>1. CASE i = id
      BY <3>1, <2>2, <2>4, <2>5, <2>6
    <3>2. CASE i # id
      <4>1. proposals'[i] = proposals[i]  BY <3>2, <2>5
      <4>2. proposals[i].name \in Names
        BY <4>1 DEF SerialInv, Proposal, AbsentProposal
      <4> QED  BY <4>1, <4>2, <2>4, <2>6 DEF SerialInv, ApprovalApplied, HasContent
    <3> QED  BY <3>1, <3>2
  <2> QED  BY <2>4, <2>5, <2>6, <2>7 DEF SerialInv
<1>6. CASE UNCHANGED serialVars
  BY <1>6 DEF serialVars, SerialInv, HistoryIntact, RegisteredHasVersion,
              ApprovalApplied, HasContent
<1> QED  BY <1>1, <1>2, <1>3, <1>4, <1>5, <1>6 DEF SerialNext

\* SerialInv holds in every behaviour of the serial registry.
THEOREM SerialSafety == SerialSpec => []SerialInv
<1>1. SerialInit => SerialInv  BY SerialInvInit
<1>2. SerialInv /\ [SerialNext]_serialVars => SerialInv'  BY SerialInvStep
<1> QED  BY <1>1, <1>2, PTL DEF SerialSpec

-----------------------------------------------------------------------------
\* What a step may do to the skills: every row keeps its versions, gains at
\* most one, and is promoted from another status only by an approval.
LEMMA SkillsStep ==
  ASSUME SerialInv, [SerialNext]_serialVars, NEW m \in Names
  PROVE  /\ skills[m].versions \subseteq skills'[m].versions
         /\ skills'[m].versions # skills[m].versions => skills'[m].head = skills[m].head + 1
         /\ skills[m].head <= skills'[m].head
         /\ skills[m].status \notin {"absent", "promoted"} /\ skills'[m].status = "promoted" =>
              \E id \in ProposalIds :
                /\ proposals[id].status = "pending" /\ proposals'[id].status = "approved"
                /\ proposals[id].kind = "promote" /\ proposals[id].name = m
<1>1. /\ skills \in [Names -> SkillRow] /\ skills[m].head \in Nat
      /\ proposals \in [ProposalIds -> Proposal \cup {AbsentProposal}]
  BY DEF SerialInv, SerialTypeOK, SkillRow
<1>2. ASSUME NEW n \in Names, NEW c \in Contents, NEW s \in PostStatuses,
             RegisterVersion(n, c, s)
      PROVE  /\ skills[m].versions \subseteq skills'[m].versions
             /\ skills'[m].versions # skills[m].versions => skills'[m].head = skills[m].head + 1
             /\ skills[m].head <= skills'[m].head
             /\ skills[m].status # "absent" => skills'[m].status = skills[m].status
  <2>1. GoodRow(skills[n]) /\ s \in Statuses
    BY SkillsGood, ConstantsAssumption
  <2>2. skills' = [skills EXCEPT ![n] = Registered(skills[n], c, s)]
    BY <1>2 DEF RegisterVersion
  <2> QED  BY <1>1, <2>1, <2>2, RegisteredRow
<1>3. ASSUME NEW n \in Names, RetireSkill(n)
      PROVE  /\ skills'[m].versions = skills[m].versions
             /\ skills'[m].head = skills[m].head
             /\ skills'[m].status = skills[m].status \/ skills'[m].status # "promoted"
  <2>1. GoodRow(skills[n]) /\ skills[n].status # "absent" /\ "retired" \in Statuses
    BY <1>3, SkillsGood DEF RetireSkill, Statuses
  <2>2. skills' = [skills EXCEPT ![n] = WithStatus(skills[n], "retired")]
    BY <1>3 DEF RetireSkill
  <2> QED  BY <1>1, <2>1, <2>2, WithStatusRow
<1>4. ASSUME NEW id \in ProposalIds, ApproveProposal(id), m = proposals[id].name
      PROVE  /\ skills[m].versions \subseteq skills'[m].versions
             /\ skills'[m].versions # skills[m].versions => skills'[m].head = skills[m].head + 1
             /\ skills[m].head <= skills'[m].head
             /\ skills[m].status \notin {"absent", "promoted"} /\ skills'[m].status = "promoted" =>
                  /\ proposals[id].status = "pending" /\ proposals'[id].status = "approved"
                  /\ proposals[id].kind = "promote"
  <2>1. /\ skills'[m] = Applied(skills[m], id) /\ GoodRow(skills[m])
        /\ proposals[id].status = "pending"
        /\ proposals[id].kind # "create" => skills[m].status # "absent"
    BY <1>1, <1>4, SkillsGood DEF ApproveProposal
  <2>2. proposals'[id].status = "approved"
    BY <1>1, <1>4 DEF ApproveProposal, Proposal, AbsentProposal
  <2> QED  BY <2>1, <2>2, AppliedRow
<1>5. ASSUME NEW id \in ProposalIds, ApproveProposal(id), m # proposals[id].name
      PROVE  skills'[m] = skills[m]
  BY <1>1, <1>5 DEF ApproveProposal
<1>6. CASE skills' = skills
  BY <1>1, <1>6
<1> QED
  BY <1>1, <1>2, <1>3, <1>4, <1>5, <1>6
  DEF SerialNext, serialVars, CreateProposal, RejectProposal

\* No interleaving loses, renumbers or rewrites a version.
THEOREM SerialHistory == SerialSpec => HistoryAppendOnly
<1>1. SerialInv /\ [SerialNext]_serialVars =>
        [\A n \in Names :
           /\ skills[n].versions \subseteq skills'[n].versions
           /\ skills'[n].versions # skills[n].versions => skills'[n].head = skills[n].head + 1
           /\ skills[n].head <= skills'[n].head]_serialVars
  BY SkillsStep
<1> QED  BY <1>1, SerialSafety, PTL DEF SerialSpec, HistoryAppendOnly

\* A skill that exists reaches the fleet only through an approved promote.
THEOREM SerialGate == SerialSpec => PromotionGate
<1>1. SerialInv /\ [SerialNext]_serialVars =>
        [\A n \in Names :
           skills[n].status \notin {"absent", "promoted"} /\ skills'[n].status = "promoted" =>
             \E id \in ProposalIds :
               /\ proposals[id].status = "pending" /\ proposals'[id].status = "approved"
               /\ proposals[id].kind = "promote" /\ proposals[id].name = n]_serialVars
  BY SkillsStep
<1> QED  BY <1>1, SerialSafety, PTL DEF SerialSpec, PromotionGate

\* A decision is taken once and is final.
THEOREM SerialDecisions == SerialSpec => DecisionsFinal
<1> DEFINE Final ==
  \A id \in ProposalIds :
    /\ proposals[id].status \in {"approved", "rejected"} => proposals'[id] = proposals[id]
    /\ proposals[id].status = "pending" =>
         \E s \in {"pending", "approved", "rejected"} :
           proposals'[id] = [proposals[id] EXCEPT !.status = s]
<1>1. SerialInv /\ [SerialNext]_serialVars => [Final]_serialVars
  <2> SUFFICES ASSUME SerialInv, SerialNext, NEW id \in ProposalIds
               PROVE  /\ proposals[id].status \in {"approved", "rejected"} =>
                            proposals'[id] = proposals[id]
                      /\ proposals[id].status = "pending" =>
                            \E s \in {"pending", "approved", "rejected"} :
                              proposals'[id] = [proposals[id] EXCEPT !.status = s]
    OBVIOUS
  <2>1. proposals \in [ProposalIds -> Proposal \cup {AbsentProposal}]
    BY DEF SerialInv, SerialTypeOK
  <2>2. proposals[id].status = "pending" =>
          proposals[id] = [proposals[id] EXCEPT !.status = "pending"]
    BY <2>1 DEF Proposal, AbsentProposal
  <2>3. CASE proposals' = proposals
    BY <2>2, <2>3
  <2>4. ASSUME NEW i \in ProposalIds, RejectProposal(i) \/ ApproveProposal(i)
        PROVE  /\ proposals[i].status = "pending"
               /\ \E s \in {"approved", "rejected"} :
                    proposals' = [proposals EXCEPT ![i] = [proposals[i] EXCEPT !.status = s]]
    BY <2>4 DEF RejectProposal, ApproveProposal
  <2>5. ASSUME NEW i \in ProposalIds, NEW k \in Kinds, NEW n \in Names,
               NEW c \in Contents \cup {NoContent}, CreateProposal(i, k, n, c)
        PROVE  /\ proposals[i].status = "absent"
               /\ \A j \in ProposalIds : j # i => proposals'[j] = proposals[j]
    BY <2>1, <2>5 DEF CreateProposal
  <2>6. ASSUME NEW i \in ProposalIds, RejectProposal(i) \/ ApproveProposal(i)
        PROVE  /\ proposals[id].status \in {"approved", "rejected"} => proposals'[id] = proposals[id]
               /\ proposals[id].status = "pending" =>
                    \E s \in {"pending", "approved", "rejected"} :
                      proposals'[id] = [proposals[id] EXCEPT !.status = s]
    <3>1. PICK s \in {"approved", "rejected"} :
            proposals' = [proposals EXCEPT ![i] = [proposals[i] EXCEPT !.status = s]]
      BY <2>4, <2>6
    <3>2. CASE i = id  BY <2>1, <2>4, <2>6, <3>1, <3>2
    <3>3. CASE i # id
      <4>1. proposals'[id] = proposals[id]  BY <2>1, <3>1, <3>3
      <4> QED  BY <4>1, <2>2
    <3> QED  BY <3>2, <3>3
  <2> QED
    BY <2>2, <2>3, <2>5, <2>6 DEF SerialNext, RegisterVersion, RetireSkill
<1> QED  BY <1>1, SerialSafety, PTL DEF SerialSpec, DecisionsFinal

-----------------------------------------------------------------------------
(* The transactions.                                                       *)

Stages == {"idle", "begun", "decided", "locked", "written"}

Sound(t) ==
  /\ pc[t] = "idle" <=> req[t] = NoRequest
  /\ Approves(t) => proposals[req[t].id].status # "absent"
  /\ Approves(t) /\ pc[t] \in {"decided", "locked", "written"} =>
       proposals[req[t].id].status = "pending"
  /\ pc[t] = "decided" => Approves(t)
  /\ pc[t] = "locked" => /\ AppendsVersion(t)
                         /\ row[t] = Upserted(skills[Target(t)], InsertStatus(t))
  /\ pc[t] = "written" => /\ row[t] = Result(t, skills[Target(t)])
                          /\ ~AppendsVersion(t) => skills[Target(t)].status # "absent"

Exclusive ==
  \A t \in Txns : \A u \in Txns \ {t} :
    /\ \A id \in ProposalIds : ~(HoldsProposal(t, id) /\ HoldsProposal(u, id))
    /\ \A n \in Names : ~(HoldsSkill(t, n) /\ HoldsSkill(u, n))

Inv ==
  /\ TypeOK
  /\ SerialInv
  /\ \A t \in Txns : Sound(t)
  /\ Exclusive

\* Isolation is a part of the inductive invariant.
LEMMA InvIsolation == Inv => Isolation
BY DEF Inv, Sound, Exclusive, Isolation

-----------------------------------------------------------------------------
\* What a live request refers to.
LEMMA RequestTypes ==
  ASSUME Inv, NEW t \in Txns, pc[t] # "idle"
  PROVE  /\ req[t] \in Request
         /\ Approves(t) => /\ req[t].id \in ProposalIds
                           /\ proposals[req[t].id] \in Proposal
         /\ Target(t) \in Names
         /\ skills[Target(t)] \in SkillRow
<1>1. req[t] \in Request
  BY DEF Inv, Sound, TypeOK
<1>2. Approves(t) => req[t].id \in ProposalIds
  BY <1>1 DEF Request, Approves
<1>3. Approves(t) => proposals[req[t].id] \in Proposal
  BY <1>2 DEF Inv, Sound, TypeOK, SerialTypeOK, AbsentProposal
<1>4. Target(t) \in Names
  BY <1>1, <1>3 DEF Target, Request, Approves, Proposal
<1> QED  BY <1>1, <1>2, <1>3, <1>4 DEF Inv, TypeOK, SerialTypeOK

\* A transaction stays sound while its own stage, request and row, the
\* proposal it decides and the skill row it holds stay the same.
LEMMA Frame ==
  ASSUME Inv, NEW u \in Txns,
         pc'[u] = pc[u], req'[u] = req[u], row'[u] = row[u],
         Approves(u) =>
           /\ proposals'[req[u].id].kind = proposals[req[u].id].kind
           /\ proposals'[req[u].id].name = proposals[req[u].id].name
           /\ proposals'[req[u].id].content = proposals[req[u].id].content
           /\ proposals'[req[u].id].status # "absent",
         Approves(u) /\ pc[u] \in {"decided", "locked", "written"} =>
           proposals'[req[u].id].status = proposals[req[u].id].status,
         pc[u] \in {"locked", "written"} => skills'[Target(u)] = skills[Target(u)]
  PROVE  /\ Sound(u)'
         /\ Target(u)' = Target(u)
         /\ Approves(u)' = Approves(u)
         /\ AppendsVersion(u)' = AppendsVersion(u)
         /\ \A id : HoldsProposal(u, id)' = HoldsProposal(u, id)
         /\ \A n : HoldsSkill(u, n)' = HoldsSkill(u, n)
<1>1. /\ Approves(u)' = Approves(u) /\ Target(u)' = Target(u)
      /\ AppendsVersion(u)' = AppendsVersion(u) /\ InsertStatus(u)' = InsertStatus(u)
  BY DEF Approves, Target, AppendsVersion, InsertStatus
<1>2. \A r : Approves(u) => Applied(r, req[u].id)' = Applied(r, req[u].id)
  BY DEF Applied
<1>3. pc[u] # "idle" => \A r : Result(u, r)' = Result(u, r)
  BY <1>1, <1>2, RequestTypes DEF Result, Approves, Request
<1>4. \A id : HoldsProposal(u, id)' = HoldsProposal(u, id)
  BY <1>1 DEF HoldsProposal
<1>5. \A n : HoldsSkill(u, n)' = HoldsSkill(u, n)
  BY <1>1 DEF HoldsSkill
<1>6. Sound(u)'
  BY <1>1, <1>3 DEF Inv, Sound
<1> QED  BY <1>1, <1>4, <1>5, <1>6

\* The row a transaction ends with is good whenever its last statement can run.
LEMMA ResultGood ==
  ASSUME Inv, NEW t \in Txns, pc[t] # "idle",
         Approves(t) => proposals[req[t].id].status = "pending",
         ~AppendsVersion(t) => skills[Target(t)].status # "absent"
  PROVE  GoodRow(Result(t, skills[Target(t)]))
<1>1. /\ req[t] \in Request /\ Target(t) \in Names
      /\ Approves(t) => req[t].id \in ProposalIds /\ proposals[req[t].id] \in Proposal
  BY RequestTypes
<1>2. GoodRow(skills[Target(t)])  BY <1>1, SkillsGood DEF Inv
<1>3. CASE req[t].op = "register"
  <2>1. req[t].content \in Contents /\ req[t].status \in Statuses
    BY <1>1, <1>3, ConstantsAssumption DEF Request
  <2>2. Result(t, skills[Target(t)]) =
          Registered(skills[Target(t)], req[t].content, req[t].status)
    BY <1>3 DEF Result, Approves
  <2> QED  BY <1>2, <2>1, <2>2, RegisteredRow
<1>4. CASE req[t].op = "retire"
  <2>1. skills[Target(t)].status # "absent" /\ "retired" \in Statuses
    BY <1>4 DEF AppendsVersion, Approves, Statuses
  <2>2. Result(t, skills[Target(t)]) = WithStatus(skills[Target(t)], "retired")
    BY <1>4 DEF Result, Approves
  <2> QED  BY <1>2, <2>1, <2>2, WithStatusRow
<1>5. CASE Approves(t)
  <2>1. Result(t, skills[Target(t)]) = Applied(skills[Target(t)], req[t].id)
    BY <1>5 DEF Result, Approves
  <2>2. proposals[req[t].id].kind # "create" => skills[Target(t)].status # "absent"
    BY <1>5 DEF AppendsVersion, Approves
  <2> QED  BY <1>1, <1>2, <1>5, <2>1, <2>2, AppliedRow DEF Inv
<1> QED  BY <1>1, <1>3, <1>4, <1>5 DEF Request, Approves

\* Upsert and append, run on the same row, make the row of Result.
LEMMA AppendIsResult ==
  ASSUME Inv, NEW t \in Txns, pc[t] # "idle", AppendsVersion(t), NEW r
  PROVE  Result(t, r) =
           Appended(Upserted(r, InsertStatus(t)),
                    IF Approves(t) THEN proposals[req[t].id].content ELSE req[t].content)
<1>1. CASE Approves(t)
  <2>1. proposals[req[t].id].kind = "create"
    BY <1>1 DEF AppendsVersion, Approves
  <2> QED  BY <1>1, <2>1 DEF Result, Approves, Applied, Registered, InsertStatus
<1>2. CASE ~Approves(t)
  BY <1>2 DEF Result, AppendsVersion, Approves, Registered, InsertStatus
<1> QED  BY <1>1, <1>2

-----------------------------------------------------------------------------
(* Every step is a step of the serial registry, or changes nothing of it.  *)

\* A commit is the whole call, as one step of the serial registry.
LEMMA CommitIsSerial ==
  ASSUME Inv, NEW t \in Txns, Commit(t)
  PROVE  SerialNext
<1>1. /\ pc[t] = "written" /\ row[t] = Result(t, skills[Target(t)])
      /\ ~AppendsVersion(t) => skills[Target(t)].status # "absent"
      /\ Approves(t) => proposals[req[t].id].status = "pending"
  BY DEF Inv, Sound, Commit
<1>2. /\ req[t] \in Request /\ Target(t) \in Names
      /\ Approves(t) => req[t].id \in ProposalIds
  BY <1>1, RequestTypes
<1>3. skills' = [skills EXCEPT ![Target(t)] = Result(t, skills[Target(t)])]
  BY <1>1 DEF Commit
<1>4. CASE req[t].op = "register"
  <2>1. /\ Target(t) = req[t].name /\ req[t].content \in Contents /\ req[t].status \in PostStatuses
    BY <1>2, <1>4 DEF Target, Approves, Request
  <2>2. RegisterVersion(req[t].name, req[t].content, req[t].status)
    BY <1>3, <1>4, <2>1 DEF Commit, Approves, RegisterVersion, Result
  <2> QED  BY <1>2, <2>1, <2>2 DEF SerialNext
<1>5. CASE req[t].op = "retire"
  <2>1. Target(t) = req[t].name /\ ~AppendsVersion(t)
    BY <1>5 DEF Target, AppendsVersion, Approves
  <2>2. RetireSkill(req[t].name)
    BY <1>1, <1>3, <1>5, <2>1 DEF Commit, Approves, RetireSkill, Result
  <2> QED  BY <1>2, <2>1, <2>2 DEF SerialNext
<1>6. CASE Approves(t)
  <2>1. Target(t) = proposals[req[t].id].name
    BY <1>6 DEF Target
  <2>2. proposals[req[t].id].kind # "create" => ~AppendsVersion(t)
    BY <1>6 DEF AppendsVersion, Approves
  <2>3. Result(t, skills[Target(t)]) = Applied(skills[Target(t)], req[t].id)
    BY <1>6 DEF Result, Approves
  <2>4. ApproveProposal(req[t].id)
    BY <1>1, <1>3, <1>6, <2>1, <2>2, <2>3 DEF Commit, ApproveProposal
  <2> QED  BY <1>2, <1>6, <2>4 DEF SerialNext
<1> QED  BY <1>2, <1>4, <1>5, <1>6 DEF Request, Approves

\* Every statement but a commit or a single statement is a stutter.
LEMMA StepIsSerial == Inv /\ [Next]_vars => [SerialNext]_serialVars
<1> SUFFICES ASSUME Inv, [Next]_vars PROVE [SerialNext]_serialVars  OBVIOUS
<1>1. ASSUME NEW t \in Txns, NEW r, Begin(t, r)  PROVE UNCHANGED serialVars
  BY <1>1 DEF Begin, serialVars
<1>2. ASSUME NEW t \in Txns, Statement(t)  PROVE [SerialNext]_serialVars
  <2>1. CASE Commit(t)  BY <2>1, CommitIsSerial
  <2>2. CASE ~Commit(t)
    BY <1>2, <2>2
    DEF Statement, LockProposal, UpsertSkill, AppendVersion, SetStatus, NotFound, serialVars
  <2> QED  BY <2>1, <2>2
<1>3. ASSUME NEW t \in Txns, Rollback(t)  PROVE UNCHANGED serialVars
  BY <1>3 DEF Rollback, serialVars
<1>4. ASSUME NEW id \in ProposalIds, NEW k \in Kinds, NEW n \in Names,
             NEW c \in Contents \cup {NoContent}, Propose(id, k, n, c)
      PROVE  SerialNext
  BY <1>4 DEF Propose, SerialNext
<1>5. ASSUME NEW id \in ProposalIds, Reject(id)  PROVE SerialNext
  BY <1>5 DEF Reject, SerialNext
<1>6. CASE UNCHANGED vars  BY <1>6 DEF vars, serialVars
<1> QED  BY <1>1, <1>2, <1>3, <1>4, <1>5, <1>6 DEF Next

-----------------------------------------------------------------------------
(* The invariant is preserved, action by action.                           *)

\* All transactions but t.
Sounder(t) ==
  \A u \in Txns \ {t} :
    /\ Sound(u)' /\ Target(u)' = Target(u) /\ Approves(u)' = Approves(u)
    /\ \A id : HoldsProposal(u, id)' = HoldsProposal(u, id)
    /\ \A n : HoldsSkill(u, n)' = HoldsSkill(u, n)

\* A step of t that publishes nothing leaves the others as they are.
LEMMA OwnStep ==
  ASSUME Inv, NEW t \in Txns, UNCHANGED <<skills, proposals>>,
         \A u \in Txns \ {t} : pc'[u] = pc[u] /\ req'[u] = req[u] /\ row'[u] = row[u]
  PROVE  Sounder(t)
<1> SUFFICES ASSUME NEW u \in Txns \ {t}
             PROVE  /\ Sound(u)' /\ Target(u)' = Target(u) /\ Approves(u)' = Approves(u)
                    /\ \A id : HoldsProposal(u, id)' = HoldsProposal(u, id)
                    /\ \A n : HoldsSkill(u, n)' = HoldsSkill(u, n)
  BY DEF Sounder
<1>1. Approves(u) => proposals[req[u].id].status # "absent"
  BY DEF Inv, Sound
<1> QED  BY <1>1, Frame

\* The others hold what they held, so exclusion can only fail at what t takes.
LEMMA StillExclusive ==
  ASSUME Inv, NEW t \in Txns, Sounder(t),
         \A id \in ProposalIds : HoldsProposal(t, id)' =>
            HoldsProposal(t, id) \/ ProposalFree(t, id),
         \A n \in Names : HoldsSkill(t, n)' =>
            HoldsSkill(t, n) \/ \A u \in Txns \ {t} : ~HoldsSkill(u, n)
  PROVE  Exclusive'
<1>1. Exclusive  BY DEF Inv
<1> QED  BY <1>1 DEF Exclusive, Sounder, ProposalFree

\* A transaction that ends without a commit leaves a state that is as good.
LEMMA ReleaseInv ==
  ASSUME Inv, NEW t \in Txns, Release(t), UNCHANGED <<skills, proposals, promotions, clock, updatedAt>>
  PROVE  Inv'
<1>1. TypeOK'
  BY MaxClockAssumption DEF Inv, TypeOK, SerialTypeOK, Release, AbsentSkill, SkillRow
<1>2. /\ pc'[t] = "idle" /\ req'[t] = NoRequest
      /\ \A u \in Txns \ {t} : pc'[u] = pc[u] /\ req'[u] = req[u] /\ row'[u] = row[u]
  BY DEF Inv, TypeOK, Release
<1>3. Sounder(t)  BY <1>2, OwnStep
<1>4. Sound(t)'
  BY <1>2 DEF Sound, Approves, NoRequest
<1>5. Exclusive'
  BY <1>2, <1>3, StillExclusive DEF HoldsProposal, HoldsSkill
<1>6. SerialInv'
  BY SerialInvStep DEF Inv, serialVars
<1> QED  BY <1>1, <1>3, <1>4, <1>5, <1>6 DEF Inv, Sounder

\* A transaction that begins holds nothing yet.
LEMMA BeginInv ==
  ASSUME Inv, NEW t \in Txns, NEW r \in Request, Begin(t, r),
         r.op = "approve" => proposals[r.id].status # "absent"
  PROVE  Inv'
<1>1. TypeOK'
  BY MaxClockAssumption DEF Inv, TypeOK, SerialTypeOK, Begin
<1>2. /\ pc'[t] = "begun" /\ req'[t] = r
      /\ \A u \in Txns \ {t} : pc'[u] = pc[u] /\ req'[u] = req[u] /\ row'[u] = row[u]
      /\ UNCHANGED <<skills, proposals, promotions>>
  BY DEF Inv, TypeOK, Begin
<1>3. Sounder(t)  BY <1>2, OwnStep
<1>4. Sound(t)'
  <2>1. r # NoRequest  BY DEF Request, NoRequest
  <2> QED  BY <1>2, <2>1 DEF Sound, Approves
<1>5. Exclusive'
  BY <1>2, <1>3, StillExclusive DEF HoldsProposal, HoldsSkill
<1>6. SerialInv'
  BY <1>2, SerialInvStep DEF Inv, serialVars
<1> QED  BY <1>1, <1>3, <1>4, <1>5, <1>6 DEF Inv, Sounder

\* The four statements that take a lock or stage a row.
LEMMA StatementInv ==
  ASSUME Inv, NEW t \in Txns,
         LockProposal(t) \/ UpsertSkill(t) \/ AppendVersion(t) \/ SetStatus(t)
  PROVE  Inv'
<1>1. /\ UNCHANGED <<skills, proposals, promotions, req, ts, clock, updatedAt>>
      /\ \A u \in Txns \ {t} : pc'[u] = pc[u] /\ req'[u] = req[u] /\ row'[u] = row[u]
      /\ pc[t] # "idle"
  BY DEF Inv, TypeOK, LockProposal, UpsertSkill, AppendVersion, SetStatus, AtSkillRow
<1>2. Sounder(t)  BY <1>1, OwnStep
<1>3. SerialInv'
  BY <1>1, SerialInvStep DEF Inv, serialVars
<1>4. /\ req[t] \in Request /\ Target(t) \in Names
      /\ Approves(t) => req[t].id \in ProposalIds /\ proposals[req[t].id] \in Proposal
  BY <1>1, RequestTypes
<1>5. /\ Approves(t)' = Approves(t) /\ Target(t)' = Target(t)
      /\ AppendsVersion(t)' = AppendsVersion(t) /\ InsertStatus(t)' = InsertStatus(t)
      /\ Result(t, skills[Target(t)])' = Result(t, skills[Target(t)])
  BY <1>1 DEF Approves, Target, AppendsVersion, InsertStatus, Result, Applied
<1>6. InsertStatus(t) \in Statuses \/ ~AppendsVersion(t)
  BY <1>4, ConstantsAssumption DEF InsertStatus, AppendsVersion, Approves, Request, Statuses
<1>7. CASE LockProposal(t)
  <2>1. /\ pc[t] = "begun" /\ pc' = [pc EXCEPT ![t] = "decided"] /\ row' = row
        /\ Approves(t) /\ proposals[req[t].id].status = "pending" /\ ProposalFree(t, req[t].id)
    BY <1>7 DEF LockProposal
  <2>2. TypeOK'  BY <1>1, <2>1 DEF Inv, TypeOK, SerialTypeOK
  <2>3. pc'[t] = "decided"  BY <2>1 DEF Inv, TypeOK
  <2>4. Sound(t)'  BY <1>1, <1>5, <2>1, <2>3 DEF Sound, Inv
  <2>5. Exclusive'
    BY <1>1, <1>2, <2>1, <2>3, StillExclusive DEF HoldsProposal, HoldsSkill
  <2> QED  BY <1>2, <1>3, <2>2, <2>4, <2>5 DEF Inv, Sounder
<1>8. CASE UpsertSkill(t)
  <2>1. /\ AtSkillRow(t) /\ AppendsVersion(t) /\ SkillFree(t)
        /\ pc' = [pc EXCEPT ![t] = "locked"]
        /\ row' = [row EXCEPT ![t] = Upserted(skills[Target(t)], InsertStatus(t))]
    BY <1>8 DEF UpsertSkill
  <2>2. Upserted(skills[Target(t)], InsertStatus(t)) \in SkillRow
    BY <1>4, <1>6, <2>1, SkillsGood, UpsertedRow DEF Inv
  <2>3. TypeOK'  BY <1>1, <2>1, <2>2 DEF Inv, TypeOK, SerialTypeOK
  <2>4. pc'[t] = "locked" /\ row'[t] = Upserted(skills[Target(t)], InsertStatus(t))
    BY <2>1 DEF Inv, TypeOK
  <2>5. Sound(t)'
    BY <1>1, <1>5, <2>1, <2>4 DEF Sound, Inv, AtSkillRow
  <2>6. Exclusive'
    BY <1>1, <1>2, <1>5, <2>1, <2>4, StillExclusive
    DEF HoldsProposal, HoldsSkill, SkillFree, AtSkillRow
  <2> QED  BY <1>2, <1>3, <2>3, <2>5, <2>6 DEF Inv, Sounder
<1>9. CASE AppendVersion(t)
  <2>1. pc[t] = "locked" /\ pc' = [pc EXCEPT ![t] = "written"]
    BY <1>9 DEF AppendVersion
  <2>2. /\ AppendsVersion(t) /\ row[t] = Upserted(skills[Target(t)], InsertStatus(t))
        /\ Approves(t) => proposals[req[t].id].status = "pending"
    BY <2>1 DEF Inv, Sound
  <2>3. [row[t] EXCEPT !.versions = skills[Target(t)].versions] = row[t]
    <3>1. row[t].versions = skills[Target(t)].versions /\ row[t] \in SkillRow
      BY <1>4, <1>6, <2>2, SkillsGood, UpsertedRow DEF Inv
    <3> QED  BY <3>1 DEF SkillRow
  <2>4. row' = [row EXCEPT ![t] = Result(t, skills[Target(t)])]
    <3> DEFINE c == IF Approves(t) THEN proposals[req[t].id].content ELSE req[t].content
    <3>1. row' = [row EXCEPT ![t] = Appended(row[t], c)]
      BY <1>9, <2>3 DEF AppendVersion
    <3>2. Result(t, skills[Target(t)]) = Appended(row[t], c)
      BY <1>1, <2>2, AppendIsResult
    <3> QED  BY <3>1, <3>2
  <2>5. Result(t, skills[Target(t)]) \in SkillRow
    BY <1>1, <2>2, ResultGood DEF GoodRow
  <2>6. TypeOK'  BY <1>1, <2>1, <2>4, <2>5 DEF Inv, TypeOK, SerialTypeOK
  <2>7. pc'[t] = "written" /\ row'[t] = Result(t, skills[Target(t)])
    BY <2>1, <2>4 DEF Inv, TypeOK
  <2>8. Sound(t)'
    BY <1>1, <1>5, <2>1, <2>2, <2>7 DEF Sound, Inv
  <2>9. Exclusive'
    BY <1>1, <1>2, <1>5, <2>1, <2>7, StillExclusive DEF HoldsProposal, HoldsSkill
  <2> QED  BY <1>2, <1>3, <2>6, <2>8, <2>9 DEF Inv, Sounder
<1>10. CASE SetStatus(t)
  <2>1. /\ AtSkillRow(t) /\ ~AppendsVersion(t) /\ SkillFree(t)
        /\ skills[Target(t)].status # "absent"
        /\ pc' = [pc EXCEPT ![t] = "written"]
        /\ row' = [row EXCEPT ![t] = Result(t, skills[Target(t)])]
    BY <1>10 DEF SetStatus
  <2>2. Approves(t) => proposals[req[t].id].status = "pending"
    BY <2>1 DEF AtSkillRow, Inv, Sound
  <2>3. Result(t, skills[Target(t)]) \in SkillRow
    BY <1>1, <2>1, <2>2, ResultGood DEF GoodRow
  <2>4. TypeOK'  BY <1>1, <2>1, <2>3 DEF Inv, TypeOK, SerialTypeOK
  <2>5. pc'[t] = "written" /\ row'[t] = Result(t, skills[Target(t)])
    BY <2>1 DEF Inv, TypeOK
  <2>6. Sound(t)'
    BY <1>1, <1>5, <2>1, <2>2, <2>5 DEF Sound, Inv
  <2>7. Exclusive'
    BY <1>1, <1>2, <1>5, <2>1, <2>5, StillExclusive
    DEF HoldsProposal, HoldsSkill, SkillFree, AtSkillRow
  <2> QED  BY <1>2, <1>3, <2>4, <2>6, <2>7 DEF Inv, Sounder
<1> QED  BY <1>7, <1>8, <1>9, <1>10

\* A commit publishes rows that nobody else holds.
LEMMA CommitInv ==
  ASSUME Inv, NEW t \in Txns, Commit(t)
  PROVE  Inv'
<1>1. /\ pc[t] = "written" /\ req[t] \in Request /\ Target(t) \in Names
      /\ Approves(t) => req[t].id \in ProposalIds /\ proposals[req[t].id] \in Proposal
  BY RequestTypes DEF Commit
<1>2. SerialInv'
  BY CommitIsSerial, SerialInvStep DEF Inv
<1>3. /\ pc'[t] = "idle" /\ req'[t] = NoRequest
      /\ \A u \in Txns \ {t} : pc'[u] = pc[u] /\ req'[u] = req[u] /\ row'[u] = row[u]
  BY DEF Inv, TypeOK, Commit, Release
<1>4. TypeOK'
  <2>1. /\ pc' \in [Txns -> Stages] /\ req' \in [Txns -> Request \cup {NoRequest}]
        /\ row' \in [Txns -> SkillRow]
    BY DEF Inv, TypeOK, Commit, Release, AbsentSkill, SkillRow, Stages
  <2>2. ts' \in [Txns -> 0..MaxClock] /\ clock' \in 0..MaxClock
    BY MaxClockAssumption DEF Inv, TypeOK, Commit, Release
  <2>3. updatedAt' \in [Names -> 0..MaxClock]
    BY DEF Inv, TypeOK, Commit
  <2> QED  BY <1>2, <2>1, <2>2, <2>3 DEF SerialInv, TypeOK, Stages
<1>5. ASSUME NEW u \in Txns \ {t}
      PROVE  /\ Sound(u)' /\ Target(u)' = Target(u) /\ Approves(u)' = Approves(u)
             /\ \A id : HoldsProposal(u, id)' = HoldsProposal(u, id)
             /\ \A n : HoldsSkill(u, n)' = HoldsSkill(u, n)
  <2>1. pc[u] \in {"locked", "written"} => skills'[Target(u)] = skills[Target(u)]
    <3>1. pc[u] \in {"locked", "written"} => Target(u) \in Names /\ Target(u) # Target(t)
      BY <1>1, RequestTypes DEF Inv, Exclusive, HoldsSkill
    <3> QED  BY <1>1, <3>1 DEF Commit, Inv, TypeOK, SerialTypeOK
  <2>2. Approves(u) => /\ req[u].id \in ProposalIds
                       /\ proposals[req[u].id] \in Proposal
                       /\ proposals[req[u].id].status # "absent"
    <3>1. Approves(u) => pc[u] # "idle"  BY DEF Inv, Sound, Approves, NoRequest
    <3> QED  BY <3>1, RequestTypes DEF Inv, Sound
  <2>3. Approves(u) /\ pc[u] \in {"decided", "locked", "written"} =>
          proposals'[req[u].id] = proposals[req[u].id]
    <3>1. Approves(u) /\ pc[u] \in {"decided", "locked", "written"} /\ Approves(t) =>
            req[u].id # req[t].id
      BY <1>1, <2>2 DEF Inv, Exclusive, HoldsProposal
    <3> QED  BY <1>1, <2>2, <3>1 DEF Commit, Inv, TypeOK, SerialTypeOK
  <2>4. Approves(u) =>
          /\ proposals'[req[u].id].kind = proposals[req[u].id].kind
          /\ proposals'[req[u].id].name = proposals[req[u].id].name
          /\ proposals'[req[u].id].content = proposals[req[u].id].content
          /\ proposals'[req[u].id].status # "absent"
    <3>1. CASE ~Approves(t)
      BY <2>2, <3>1 DEF Commit
    <3>2. CASE Approves(t)
      <4>1. proposals' = [proposals EXCEPT ![req[t].id].status = "approved"]
        BY <3>2 DEF Commit
      <4>2. proposals \in [ProposalIds -> Proposal \cup {AbsentProposal}]
        BY DEF Inv, TypeOK, SerialTypeOK
      <4> QED  BY <1>1, <2>2, <3>2, <4>1, <4>2 DEF Proposal
    <3> QED  BY <3>1, <3>2
  <2> QED  BY <1>3, <2>1, <2>3, <2>4, Frame
<1>6. Sounder(t)  BY <1>5 DEF Sounder
<1>7. Sound(t)'
  BY <1>3 DEF Sound, Approves, NoRequest
<1>8. Exclusive'
  BY <1>3, <1>6, StillExclusive DEF HoldsProposal, HoldsSkill
<1> QED  BY <1>2, <1>4, <1>6, <1>7, <1>8 DEF Inv, Sounder

\* A single statement changes a proposal that no approval has locked.
LEMMA SingleStatementInv ==
  ASSUME Inv, NEW id \in ProposalIds, UNCHANGED <<skills, pc, req, row, ts, clock, updatedAt>>,
         SerialNext,
         \A i \in ProposalIds \ {id} : proposals'[i] = proposals[i],
         \/ proposals[id].status = "absent"
         \/ /\ \A t \in Txns : ~HoldsProposal(t, id)
            /\ proposals[id] \in Proposal
            /\ proposals' = [proposals EXCEPT ![id].status = "rejected"]
  PROVE  Inv'
<1>1. SerialInv'
  BY SerialInvStep DEF Inv
<1>2. TypeOK'
  BY <1>1 DEF Inv, TypeOK, SerialInv
<1>3. ASSUME NEW u \in Txns
      PROVE  /\ Sound(u)'
             /\ \A i : HoldsProposal(u, i)' = HoldsProposal(u, i)
             /\ \A n : HoldsSkill(u, n)' = HoldsSkill(u, n)
  <2>1. Approves(u) => /\ req[u].id \in ProposalIds
                       /\ proposals[req[u].id] \in Proposal
                       /\ proposals[req[u].id].status # "absent"
    <3>1. Approves(u) => pc[u] # "idle"  BY DEF Inv, Sound, Approves, NoRequest
    <3> QED  BY <3>1, RequestTypes DEF Inv, Sound
  <2>2. Approves(u) /\ pc[u] \in {"decided", "locked", "written"} =>
          proposals'[req[u].id] = proposals[req[u].id]
    BY <2>1 DEF HoldsProposal
  <2>3. Approves(u) =>
          /\ proposals'[req[u].id].kind = proposals[req[u].id].kind
          /\ proposals'[req[u].id].name = proposals[req[u].id].name
          /\ proposals'[req[u].id].content = proposals[req[u].id].content
          /\ proposals'[req[u].id].status # "absent"
    <3>1. proposals \in [ProposalIds -> Proposal \cup {AbsentProposal}]
      BY DEF Inv, TypeOK, SerialTypeOK
    <3>2. CASE req[u].id = id  BY <2>1, <3>1, <3>2 DEF Proposal
    <3>3. CASE req[u].id # id  BY <2>1, <3>3
    <3> QED  BY <3>2, <3>3
  <2> QED  BY <2>2, <2>3, Frame
<1>4. Exclusive'
  BY <1>3 DEF Inv, Exclusive
<1> QED  BY <1>1, <1>2, <1>3, <1>4 DEF Inv

-----------------------------------------------------------------------------
\* The empty registry satisfies the invariant.
LEMMA InvInit == Init => Inv
<1> SUFFICES ASSUME Init PROVE Inv  OBVIOUS
<1>1. SerialInv  BY SerialInvInit DEF Init
<1>2. TypeOK
  BY <1>1, MaxClockAssumption DEF Init, TypeOK, SerialInv, SkillRow, AbsentSkill
<1>3. \A t \in Txns : Sound(t)
  BY DEF Init, Sound, Approves, NoRequest
<1>4. Exclusive
  BY DEF Init, Exclusive, HoldsProposal, HoldsSkill
<1> QED  BY <1>1, <1>2, <1>3, <1>4 DEF Inv

\* Every step keeps the invariant: one case for each action.
LEMMA InvStep == Inv /\ [Next]_vars => Inv'
<1> SUFFICES ASSUME Inv, [Next]_vars PROVE Inv'  OBVIOUS
<1>1. ASSUME NEW t \in Txns, NEW n \in Names, NEW c \in Contents, NEW s \in PostStatuses,
             Begin(t, [op |-> "register", name |-> n, content |-> c, status |-> s])
      PROVE  Inv'
  BY <1>1, BeginInv DEF Request
<1>2. ASSUME NEW t \in Txns, NEW n \in Names, Begin(t, [op |-> "retire", name |-> n])
      PROVE  Inv'
  BY <1>2, BeginInv DEF Request
<1>3. ASSUME NEW t \in Txns, NEW id \in ProposalIds, proposals[id].status # "absent",
             Begin(t, [op |-> "approve", id |-> id])
      PROVE  Inv'
  BY <1>3, BeginInv DEF Request
<1>4. ASSUME NEW t \in Txns, Statement(t)  PROVE Inv'
  <2>1. CASE Commit(t)  BY <2>1, CommitInv
  <2>2. CASE NotFound(t)  BY <2>2, ReleaseInv DEF NotFound
  <2> QED  BY <1>4, <2>1, <2>2, StatementInv DEF Statement
<1>5. ASSUME NEW t \in Txns, Rollback(t)  PROVE Inv'
  BY <1>5, ReleaseInv DEF Rollback
<1>6. ASSUME NEW id \in ProposalIds, NEW k \in Kinds, NEW n \in Names,
             NEW c \in Contents \cup {NoContent}, Propose(id, k, n, c)
      PROVE  Inv'
  <2>1. SerialNext  BY <1>6 DEF Propose, SerialNext
  <2>2. /\ proposals[id].status = "absent"
        /\ UNCHANGED <<skills, pc, req, row, ts, clock, updatedAt>>
        /\ \A i \in ProposalIds \ {id} : proposals'[i] = proposals[i]
    BY <1>6 DEF Propose, CreateProposal, txnVars, Inv, TypeOK, SerialTypeOK
  <2> QED  BY <2>1, <2>2, SingleStatementInv
<1>7. ASSUME NEW id \in ProposalIds, Reject(id)
      PROVE  Inv'
  <2>1. SerialNext  BY <1>7 DEF Reject, SerialNext
  <2>2. /\ \A t \in Txns : ~HoldsProposal(t, id)
        /\ proposals[id] \in Proposal
        /\ proposals' = [proposals EXCEPT ![id].status = "rejected"]
        /\ UNCHANGED <<skills, pc, req, row, ts, clock, updatedAt>>
        /\ \A i \in ProposalIds \ {id} : proposals'[i] = proposals[i]
    BY <1>7
    DEF Reject, RejectProposal, txnVars, Inv, TypeOK, SerialTypeOK, AbsentProposal
  <2> QED  BY <2>1, <2>2, SingleStatementInv
<1>8. CASE UNCHANGED vars
  <2>1. UNCHANGED serialVars  BY <1>8 DEF vars, serialVars
  <2>2. SerialInv'  BY <2>1, SerialInvStep DEF Inv
  <2>3. TypeOK'  BY <1>8, <2>2 DEF vars, Inv, TypeOK, SerialInv
  <2>4. \A t \in Txns : Sound(t)' /\ (\A i : HoldsProposal(t, i)' = HoldsProposal(t, i))
                        /\ (\A n : HoldsSkill(t, n)' = HoldsSkill(t, n))
    BY <1>8
    DEF vars, Inv, Sound, Approves, Target, AppendsVersion, InsertStatus, Result, Applied,
        HoldsProposal, HoldsSkill
  <2>5. Exclusive'  BY <2>4 DEF Inv, Exclusive
  <2> QED  BY <2>2, <2>3, <2>4, <2>5 DEF Inv
<1> QED  BY <1>1, <1>2, <1>3, <1>4, <1>5, <1>6, <1>7, <1>8 DEF Next

\* The inductive invariant: what each transaction has staged is what its
\* statements make of the committed rows, and no row has two holders.
THEOREM InvHolds == Spec => []Inv
BY InvInit, InvStep, PTL DEF Spec

\* The variables keep their types.
THEOREM TypeCorrect == Spec => []TypeOK
<1>1. Inv => TypeOK  BY DEF Inv
<1> QED  BY <1>1, InvHolds, PTL

\* No transaction works on a row that another one changed under it.
THEOREM TransactionsIsolated == Spec => []Isolation
BY InvIsolation, InvHolds, PTL

\* The transactional registry implements the serial one: whatever the
\* interleaving and the rollbacks, the committed tables evolve as if the calls
\* had run one after the other.
THEOREM Serializable == Spec => SerialSpec
<1>1. Init => SerialInit  BY DEF Init
<1> QED  BY <1>1, StepIsSerial, InvHolds, PTL DEF Spec, SerialSpec

\* What the serial registry guarantees, the transactional one does too.
LEMMA RegistrySafety ==
  Spec => [](HistoryIntact /\ RegisteredHasVersion /\ ApprovalApplied)
<1>1. Inv => HistoryIntact /\ RegisteredHasVersion /\ ApprovalApplied
  BY DEF Inv, SerialInv
<1> QED  BY <1>1, InvHolds, PTL

\* Registrations and approvals of one skill that run side by side never number
\* two versions alike, skip a number or store a content twice
\* (registerVersionTx).
THEOREM RegistryHistoryIntact == Spec => []HistoryIntact
BY RegistrySafety, PTL

\* No committed skill row is without a version, whatever is rolled back
\* (registerVersionTx inserts the row first).
THEOREM RegistryHeads == Spec => []RegisteredHasVersion
BY RegistrySafety, PTL

\* An approval that was committed has taken effect: the decision and what it
\* does to the skill commit together (ApproveProposal).
THEOREM RegistryApprovals == Spec => []ApprovalApplied
BY RegistrySafety, PTL

\* No interleaving of transactions promotes a skill that exists, other than the
\* commit that approves a promote proposal (ApproveProposal).
THEOREM RegistryGate == Spec => PromotionGate
BY Serializable, SerialGate

\* No interleaving of transactions drops or rewrites a version, gives a number
\* twice or moves a head back (registerVersionTx).
THEOREM RegistryHistory == Spec => HistoryAppendOnly
BY Serializable, SerialHistory

\* Approvals and rejections of a proposal that run side by side: one wins, and
\* its decision is final (ApproveProposal, RejectProposal).
THEOREM RegistryDecisions == Spec => DecisionsFinal
BY Serializable, SerialDecisions
=============================================================================
