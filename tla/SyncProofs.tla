----------------------------- MODULE SyncProofs -----------------------------
(***************************************************************************)
(* The syncer's saved cursor and the skills dir, for every number of       *)
(* connections, syncers, skills and every page size.                       *)
(*                                                                         *)
(* What the cursor promises holds as long as writers and runs take turns   *)
(* (Turns): past two writers that overlap, or two runs that do, TLC finds  *)
(* it violated.  So Turns is a premise, an assumption about behaviours,    *)
(* while the constants stay arbitrary.                                     *)
(*                                                                         *)
(* MirrorInv is the inductive invariant.  A commit publishes a timestamp   *)
(* that no position has reached, so what a run has read of a skill is      *)
(* either still so or lies ahead of every position; and the rows of a page *)
(* are all the changed rows up to its last one.                            *)
(***************************************************************************)
EXTENDS SyncInTurns, RegistryProofs, LeastProofs, FiniteSetTheorems

Feed == {"promoted", "retired"}

\* The timestamps: distinct, positive for the rows that exist, and behind every
\* transaction that is open.
ClockInv ==
  /\ \A n \in Names : updatedAt[n] <= clock
  /\ \A n \in Names : updatedAt[n] > 0 <=> skills[n].status # "absent"
  /\ \A m, n \in Names : updatedAt[m] = updatedAt[n] /\ updatedAt[n] > 0 => m = n
  /\ IsFiniteSet({n \in Names : updatedAt[n] > 0})
  /\ \A t \in Txns : pc[t] # "idle" =>
       ts[t] > 0 /\ ts[t] <= clock /\ \A n \in Names : updatedAt[n] < ts[t]

\* Some row has this timestamp or a later one.
Reached(p) == p = 0 \/ \E n \in Names : p <= updatedAt[n]

\* A skill the feed has nothing to say about has left nothing on the disk.
UnsentUntouched ==
  \A n \in Names : skills[n].status \notin Feed => disk[n] \in {NoContent, HandAuthored}

\* What an entry says of its skill is still so.
Current(e) ==
  /\ updatedAt[e.name] = e.at
  /\ skills[e.name].status = e.status
  /\ HeadSha(e.name) = e.sha

\* Only a run that applies a page has entries, and each of them is current, or
\* the skill has changed since and lies ahead of the run and of the cursor.
EntriesFresh(a) ==
  /\ run[a].stage # "apply" => run[a].todo = {}
  /\ \A e \in run[a].todo :
       /\ skills[e.name].status \in Feed
       /\ \/ Current(e)
          \/ updatedAt[e.name] > run[a].next /\ updatedAt[e.name] > cursor

\* What a run has passed is on disk; what its page spans is on disk or to do.
RunMirrors(a) ==
  run[a].stage # "idle" /\ run[a].mode # "dry" =>
    \A n \in Names : updatedAt[n] > 0 =>
      /\ updatedAt[n] <= run[a].at => Mirrored(n)
      /\ run[a].stage = "apply" /\ updatedAt[n] <= run[a].next =>
           Mirrored(n) \/ \E e \in run[a].todo : e.name = n /\ Current(e)

\* A run that has come to its end is not behind the cursor.
EndsCaughtUp(a) ==
  \/ run[a].stage = "save"
  \/ run[a].stage = "apply" /\ run[a].next = run[a].at
  => cursor <= run[a].at

RunSound(a) ==
  /\ Reached(run[a].at) /\ Reached(run[a].next)
  /\ EntriesFresh(a)
  /\ RunMirrors(a)
  /\ EndsCaughtUp(a)

MirrorInv ==
  /\ ClockInv
  /\ Reached(cursor)
  /\ UnsentUntouched
  /\ UpToCursor
  /\ \A a \in Syncers : RunSound(a)

-----------------------------------------------------------------------------
(* The registry below the syncers, and the types.                          *)

\* The syncers read the registry and never write it.
LEMMA StepIsRegistry == [SyncNext]_allVars => [Next]_vars
<1>1. SyncNext => Next \/ UNCHANGED vars
  BY Zenon DEF SyncNext
<1>2. UNCHANGED allVars => UNCHANGED vars
  BY DEF allVars
<1> QED  BY <1>1, <1>2

\* The registry keeps its invariant while machines sync.
LEMMA RegistryInv == SyncSpec => []Inv
<1>1. SyncInit => Init  BY DEF SyncInit
<1>2. SyncSpec => Spec  BY <1>1, StepIsRegistry, PTL DEF SyncSpec, Spec
<1> QED  BY <1>2, InvHolds, PTL

\* A row that exists has a head version, which froze one of the contents.
LEMMA HeadShaTypes ==
  ASSUME Inv, NEW n \in Names, skills[n].status # "absent"
  PROVE  HeadSha(n) \in Contents
<1>1. GoodRow(skills[n])
  BY SkillsGood DEF Inv
<1>2. skills[n].head \in Nat /\ skills[n].head > 0 /\ skills[n].versions \subseteq Version
  BY <1>1 DEF GoodRow, SkillRow
<1>3. skills[n].head \in Numbers(skills[n].versions)
  BY <1>1, <1>2 DEF GoodRow, RowIntact
<1>4. \E v \in skills[n].versions : v.version = skills[n].head
  BY <1>3 DEF Numbers
<1> QED  BY <1>2, <1>4 DEF HeadSha, Version

\* The timestamps of the rows of a page are numbers after the position.
LEMMA PageTypes ==
  ASSUME TypeOK, NEW since \in 0..MaxClock, NEW n \in Page(since)
  PROVE  /\ n \in Names /\ skills[n].status # "absent"
         /\ updatedAt[n] \in 1..MaxClock /\ updatedAt[n] > since
BY MaxClockAssumption DEF Page, Changed, TypeOK

\* The position after a page is that of its last row.
LEMMA NewCursorIsLast ==
  ASSUME TypeOK, NEW since \in 0..MaxClock, Page(since) # {}
  PROVE  \E n \in Page(since) :
           /\ NewCursor(since) = updatedAt[n]
           /\ \A m \in Page(since) : updatedAt[m] <= updatedAt[n]
<1> DEFINE stamps == {updatedAt[n] : n \in Page(since)}
           IsLast(c) == c \in stamps /\ \A m \in Page(since) : updatedAt[m] <= c
<1>1. stamps \in SUBSET Nat /\ stamps # {} /\ \A c \in stamps : c <= MaxClock
  BY PageTypes, MaxClockAssumption
<1>2. \E c \in stamps : \A d \in stamps : d <= c
  BY <1>1, GreatestExists, MaxClockAssumption
<1>3. \E c : IsLast(c)
  BY <1>2
<1>4. NewCursor(since) = CHOOSE c \in stamps : \A m \in Page(since) : updatedAt[m] <= c
  BY DEF NewCursor
<1>5. IsLast(NewCursor(since))
  BY <1>3, <1>4
<1> QED  BY <1>5

\* What a page sends, and the position after it, have their types.
LEMMA FetchTypes ==
  ASSUME Inv, NEW since \in 0..MaxClock
  PROVE  /\ Sent(since) \subseteq Entry
         /\ NewCursor(since) \in 0..MaxClock
         /\ since <= NewCursor(since)
<1> USE DEF Inv
<1>1. ASSUME NEW n \in Page(since), skills[n].status \in Feed
      PROVE  [name |-> n, status |-> skills[n].status, sha |-> HeadSha(n), at |-> updatedAt[n]] \in Entry
  BY <1>1, PageTypes, HeadShaTypes DEF Entry, Feed
<1>2. Sent(since) \subseteq Entry
  BY <1>1 DEF Sent, Feed
<1>3. CASE Page(since) = {}
  <2>1. NewCursor(since) = since  BY <1>3 DEF NewCursor
  <2> QED  BY <1>2, <2>1, MaxClockAssumption
<1>4. CASE Page(since) # {}
  <2>1. PICK n \in Page(since) : NewCursor(since) = updatedAt[n]
    BY <1>4, NewCursorIsLast
  <2>2. updatedAt[n] \in 1..MaxClock /\ updatedAt[n] > since
    BY PageTypes
  <2> QED  BY <1>2, <2>1, <2>2, MaxClockAssumption
<1> QED  BY <1>3, <1>4

\* A run starts at the cursor, or at the beginning after a reset.
LEMMA StartRun ==
  ASSUME SyncTypeOK, NEW a \in Syncers, NEW m \in Modes, Start(a, m)
  PROVE  /\ run[a].stage = "idle"
         /\ run'[a].mode = m /\ run'[a].stage = "fetch" /\ run'[a].todo = {}
         /\ run'[a].at = IF m = "reset" THEN 0 ELSE cursor
         /\ run'[a].next = run'[a].at
         /\ run'[a] \in Run
         /\ run' = [run EXCEPT ![a] = run'[a]]
         /\ UNCHANGED <<disk, cursor>>
<1>1. PICK from \in 0..MaxClock :
        /\ from = IF m = "reset" THEN 0 ELSE cursor
        /\ run' = [run EXCEPT ![a] = [IdleRun EXCEPT !.stage = "fetch", !.mode = m,
                                                     !.at = from, !.next = from]]
  <2>1. 0 \in 0..MaxClock /\ cursor \in 0..MaxClock
    BY MaxClockAssumption DEF SyncTypeOK
  <2>2. CASE m = "reset"  BY <2>1, <2>2 DEF Start
  <2>3. CASE m # "reset"  BY <2>1, <2>3 DEF Start
  <2> QED  BY <2>2, <2>3
<1> DEFINE begun == [IdleRun EXCEPT !.stage = "fetch", !.mode = m, !.at = from, !.next = from]
<1>2. /\ begun.mode = m /\ begun.stage = "fetch" /\ begun.todo = {}
      /\ begun.at = from /\ begun.next = from /\ begun \in Run
  BY DEF IdleRun, Run
<1>3. run' = [run EXCEPT ![a] = begun]
  BY <1>1
<1> HIDE DEF begun
<1>4. run'[a] = begun
  BY <1>3 DEF SyncTypeOK
<1> QED  BY <1>1, <1>2, <1>3, <1>4 DEF Start

\* A page done, the run moves to the position after it.
LEMMA EndPageRun ==
  ASSUME SyncTypeOK, NEW a \in Syncers, EndPage(a)
  PROVE  /\ run[a].stage = "apply" /\ run[a].todo = {}
         /\ run'[a].mode = run[a].mode /\ run'[a].todo = {}
         /\ run'[a].stage \in {"save", "fetch"}
         /\ run'[a].stage = "save" => run[a].next = run[a].at
         /\ run'[a].at = run[a].next /\ run'[a].next = run[a].next
         /\ run'[a] \in Run
         /\ run' = [run EXCEPT ![a] = run'[a]]
         /\ UNCHANGED <<disk, cursor>>
<1>1. PICK s \in {"save", "fetch"} :
        /\ s = "save" => run[a].next = run[a].at
        /\ run' = [run EXCEPT ![a].stage = s, ![a].at = run[a].next]
  <2>1. CASE run[a].next = run[a].at
    BY <2>1, Zenon DEF EndPage
  <2>2. CASE run[a].next # run[a].at
    BY <2>2, Zenon DEF EndPage
  <2> QED  BY <2>1, <2>2
<1> DEFINE ended == [run[a] EXCEPT !.stage = s, !.at = run[a].next]
<1>2. /\ ended.mode = run[a].mode /\ ended.todo = run[a].todo
      /\ ended.stage = s /\ ended.at = run[a].next /\ ended.next = run[a].next
      /\ ended \in Run
  BY DEF SyncTypeOK, Run
<1>3. run' = [run EXCEPT ![a] = ended]
  BY <1>1 DEF SyncTypeOK, Run
<1> HIDE DEF ended
<1>4. run'[a] = ended
  BY <1>3 DEF SyncTypeOK
<1>5. /\ run[a].stage = "apply" /\ run[a].todo = {}
      /\ UNCHANGED <<disk, cursor>>
  BY DEF EndPage
<1> QED  BY <1>1, <1>2, <1>3, <1>4, <1>5

\* Every step keeps the types of the syncers' state.
LEMMA SyncTypeStep ==
  Inv /\ SyncTypeOK /\ [SyncNext]_allVars => SyncTypeOK'
<1> SUFFICES ASSUME Inv, SyncTypeOK, [SyncNext]_allVars PROVE SyncTypeOK'  OBVIOUS
<1> USE MaxClockAssumption
<1>1. CASE UNCHANGED syncVars
  BY <1>1 DEF SyncTypeOK, syncVars
<1>2. ASSUME NEW a \in Syncers, NEW m \in Modes, Start(a, m)  PROVE SyncTypeOK'
  <2>1. /\ run'[a].mode = m /\ run'[a].stage = "fetch" /\ run'[a].todo = {}
        /\ run'[a].at = IF m = "reset" THEN 0 ELSE cursor
        /\ run'[a].next = run'[a].at
        /\ run'[a] \in Run
        /\ run' = [run EXCEPT ![a] = run'[a]]
        /\ UNCHANGED <<disk, cursor>>
    BY <1>2, StartRun
  <2> QED  BY <2>1 DEF SyncTypeOK
<1>3. ASSUME NEW a \in Syncers, Fetch(a)  PROVE SyncTypeOK'
  <2>1. run[a].at \in 0..MaxClock  BY DEF SyncTypeOK, Run
  <2>2. /\ Sent(run[a].at) \subseteq Entry
        /\ NewCursor(run[a].at) \in 0..MaxClock
        /\ run[a].at <= NewCursor(run[a].at)
    BY <2>1, FetchTypes
  <2> QED  BY <1>3, <2>2 DEF Fetch, SyncTypeOK, Run
<1>4. ASSUME NEW a \in Syncers, Materialize(a)  PROVE SyncTypeOK'
  <2>1. PICK e \in run[a].todo :
          /\ disk' = IF Keeps(a, e.name) THEN disk ELSE [disk EXCEPT ![e.name] = e.sha]
          /\ run' = Done(a, e) /\ UNCHANGED cursor
    BY <1>4 DEF Materialize
  <2>2. e \in Entry  BY DEF SyncTypeOK, Run
  <2>3. disk' \in [Names -> Contents \cup {NoContent, HandAuthored}]
    BY <2>1, <2>2 DEF SyncTypeOK, Entry
  <2> QED  BY <2>1, <2>3 DEF Done, SyncTypeOK, Run
<1>5. ASSUME NEW a \in Syncers, Remove(a)  PROVE SyncTypeOK'
  <2>1. PICK e \in run[a].todo :
          /\ disk' = IF Keeps(a, e.name) THEN disk ELSE [disk EXCEPT ![e.name] = NoContent]
          /\ run' = Done(a, e) /\ UNCHANGED cursor
    BY <1>5 DEF Remove
  <2>2. disk' \in [Names -> Contents \cup {NoContent, HandAuthored}]
    BY <2>1 DEF SyncTypeOK
  <2> QED  BY <2>1, <2>2 DEF Done, SyncTypeOK, Run
<1>6. ASSUME NEW a \in Syncers, EndPage(a)  PROVE SyncTypeOK'
  BY <1>6, EndPageRun DEF SyncTypeOK, Run
<1>7. ASSUME NEW a \in Syncers, Save(a)  PROVE SyncTypeOK'
  BY <1>7 DEF Save, SyncTypeOK, Run, IdleRun, Modes
<1>8. ASSUME NEW a \in Syncers, Abandon(a)  PROVE SyncTypeOK'
  BY <1>8 DEF Abandon, SyncTypeOK, Run, IdleRun, Modes
<1>9. UNCHANGED allVars => UNCHANGED syncVars
  BY DEF allVars
<1>10. ASSUME NEW a \in Syncers, Continue(a)  PROVE SyncTypeOK'
  BY <1>3, <1>4, <1>5, <1>6, <1>7, <1>10 DEF Continue
<1> QED
  BY <1>1, <1>2, <1>8, <1>9, <1>10 DEF SyncNext

\* The syncer's state keeps its types, and no page takes a run backwards
\* (Sync, handleSync), whoever writes the registry and whoever syncs.
THEOREM SyncTypes == SyncSpec => []SyncTypeOK
<1>1. SyncInit => SyncTypeOK
  BY MaxClockAssumption DEF SyncInit, SyncTypeOK, IdleRun, Run, Modes
<1> QED  BY <1>1, SyncTypeStep, RegistryInv, PTL DEF SyncSpec

-----------------------------------------------------------------------------
(* A page is all the changed rows up to its last one.                      *)

\* The rows after a position, up to a given one.
LEMMA UpToFinite ==
  ASSUME TypeOK, ClockInv, NEW since \in 0..MaxClock, NEW n \in Names
  PROVE  IsFiniteSet({m \in Changed(since) : updatedAt[m] <= updatedAt[n]})
<1>1. {m \in Changed(since) : updatedAt[m] <= updatedAt[n]}
        \in SUBSET {m \in Names : updatedAt[m] > 0}
  BY DEF Changed, ClockInv
<1>2. IsFiniteSet({m \in Names : updatedAt[m] > 0})
  BY DEF ClockInv
<1> QED  BY <1>1, <1>2, FS_Subset

\* A page leaves out no changed row before its last one.
LEMMA PageCovers ==
  ASSUME TypeOK, ClockInv, NEW since \in 0..MaxClock, NEW n \in Names,
         updatedAt[n] > since, updatedAt[n] <= NewCursor(since)
  PROVE  n \in Page(since)
<1> DEFINE upTo(k) == {m \in Changed(since) : updatedAt[m] <= updatedAt[k]}
<1> USE MaxClockAssumption
<1>1. n \in Changed(since)
  BY DEF Changed, ClockInv, TypeOK
<1>2. Page(since) # {}
  <2>1. Page(since) = {} => NewCursor(since) = since  BY DEF NewCursor
  <2> QED  BY <2>1 DEF TypeOK
<1>3. PICK last \in Page(since) : NewCursor(since) = updatedAt[last]
  BY <1>2, NewCursorIsLast
<1>4. last \in Names /\ updatedAt[last] \in Nat /\ updatedAt[n] \in Nat
  BY PageTypes DEF TypeOK
<1>5. upTo(n) \in SUBSET upTo(last)
  <2>1. ASSUME NEW m \in upTo(n)  PROVE updatedAt[m] <= updatedAt[last]
    <3>1. updatedAt[m] \in Nat  BY DEF Changed, TypeOK
    <3> QED  BY <1>3, <1>4, <3>1
  <2> QED  BY <2>1
<1>6. IsFiniteSet(upTo(last)) /\ IsFiniteSet(upTo(n))
  BY <1>4, UpToFinite
<1>7. /\ Cardinality(upTo(n)) <= Cardinality(upTo(last))
      /\ Cardinality(upTo(n)) \in Nat /\ Cardinality(upTo(last)) \in Nat
  BY <1>5, <1>6, FS_Subset, FS_CardinalityType
<1>8. Cardinality(upTo(last)) <= PageSize
  BY DEF Page
<1>9. PageSize \in Nat
  BY SyncAssumption
<1>10. Cardinality(upTo(n)) <= PageSize
  <2> HIDE DEF upTo
  <2> QED  BY <1>7, <1>8, <1>9
<1> QED  BY <1>1, <1>10 DEF Page

\* A page that gets no further is empty because nothing has changed.
LEMMA NoProgressCaughtUp ==
  ASSUME TypeOK, ClockInv, NEW since \in 0..MaxClock, NewCursor(since) = since, NEW k \in Names
  PROVE  updatedAt[k] <= since
<1> USE MaxClockAssumption
<1>1. SUFFICES ASSUME updatedAt[k] > since PROVE FALSE
  BY DEF TypeOK
<1> DEFINE stamps == {updatedAt[m] : m \in Changed(since)}
<1>2. k \in Changed(since)
  BY <1>1 DEF Changed, ClockInv, TypeOK
<1>3. stamps \in SUBSET Nat /\ stamps # {}
  BY <1>2 DEF Changed, TypeOK
<1>4. PICK c \in stamps : \A d \in stamps : c <= d
  BY <1>3, LeastExists
<1>5. PICK n \in Changed(since) : c = updatedAt[n]
  BY <1>4
<1>6. n \in Names /\ updatedAt[n] \in Nat /\ updatedAt[n] > since
  BY DEF Changed, TypeOK
<1>7. {m \in Changed(since) : updatedAt[m] <= updatedAt[n]} = {n}
  <2>1. ASSUME NEW m \in Changed(since), updatedAt[m] <= updatedAt[n]  PROVE m = n
    <3>1. m \in Names /\ updatedAt[m] \in Nat /\ updatedAt[n] <= updatedAt[m]
      BY <1>4, <1>5 DEF Changed, TypeOK
    <3>2. updatedAt[m] = updatedAt[n] /\ updatedAt[n] > 0
      BY <1>6, <2>1, <3>1
    <3> QED  BY <1>6, <3>1, <3>2 DEF ClockInv
  <2>2. updatedAt[n] <= updatedAt[n]  BY <1>6
  <2> QED  BY <2>1, <2>2
<1>8. Cardinality({m \in Changed(since) : updatedAt[m] <= updatedAt[n]}) = 1
  BY <1>7, FS_Singleton
<1>9. n \in Page(since)
  BY <1>8, SyncAssumption DEF Page
<1>10. PICK last \in Page(since) : NewCursor(since) = updatedAt[last]
  BY <1>9, NewCursorIsLast
<1> QED  BY <1>10, PageTypes

-----------------------------------------------------------------------------
(* A step of the registry.                                                 *)

\* A commit gives one row a new timestamp, and a row that is in the feed stays
\* in it.
LEMMA CommitPublishes ==
  ASSUME Inv, NEW t \in Txns, Commit(t)
  PROVE  /\ Target(t) \in Names /\ pc[t] # "idle"
         /\ skills'[Target(t)].status # "absent"
         /\ skills[Target(t)].status \in Feed => skills'[Target(t)].status \in Feed
         /\ \A n \in Names : updatedAt'[n] = IF n = Target(t) THEN ts[t] ELSE updatedAt[n]
         /\ \A n \in Names \ {Target(t)} : skills'[n] = skills[n]
         /\ clock' = clock
         /\ \A u \in Txns : pc'[u] # "idle" => u # t /\ pc[u] # "idle" /\ ts'[u] = ts[u]
<1>1. /\ pc[t] = "written" /\ row[t] = Result(t, skills[Target(t)])
      /\ ~AppendsVersion(t) => skills[Target(t)].status # "absent"
      /\ Approves(t) => proposals[req[t].id].status = "pending"
  BY DEF Inv, Sound, Commit
<1>2. /\ req[t] \in Request /\ Target(t) \in Names
      /\ Approves(t) => req[t].id \in ProposalIds /\ proposals[req[t].id] \in Proposal
  BY <1>1, RequestTypes
<1>3. GoodRow(skills[Target(t)])
  BY <1>2, SkillsGood DEF Inv
<1> DEFINE old == skills[Target(t)]
           new == Result(t, old)
<1>4. new.status # "absent" /\ (old.status \in Feed => new.status \in Feed)
  <2>1. CASE req[t].op = "register"
    <3>1. req[t].content \in Contents /\ req[t].status \in Statuses
      BY <1>2, <2>1, ConstantsAssumption DEF Request
    <3>2. new = Registered(old, req[t].content, req[t].status)
      BY <2>1 DEF Result, Approves
    <3> HIDE DEF old, new
    <3>3. GoodRow(old)  BY <1>3 DEF old
    <3> QED  BY <3>1, <3>2, <3>3, RegisteredRow DEF Feed
  <2>2. CASE req[t].op = "retire"
    <3>1. new = WithStatus(old, "retired")
      BY <2>2 DEF Result, Approves
    <3> QED  BY <1>3, <3>1 DEF WithStatus, Feed, GoodRow, SkillRow
  <2>3. CASE Approves(t)
    <3>1. new = Applied(old, req[t].id)
      BY <2>3 DEF Result, Approves
    <3>2. CASE proposals[req[t].id].kind = "create"
      <4>1. new = Registered(old, proposals[req[t].id].content, "local")
        BY <3>1, <3>2 DEF Applied
      <4>2. proposals[req[t].id].content \in Contents /\ "local" \in Statuses
        BY <1>2, <2>3, <3>2 DEF Proposal, Statuses
      <4> HIDE DEF old, new
      <4>3. GoodRow(old)  BY <1>3 DEF old
      <4> QED  BY <4>1, <4>2, <4>3, RegisteredRow DEF Feed
    <3>3. CASE proposals[req[t].id].kind # "create"
      <4>1. new = WithStatus(old, DecidedStatus(proposals[req[t].id].kind))
        BY <3>1, <3>3 DEF Applied
      <4> QED  BY <1>3, <4>1 DEF WithStatus, DecidedStatus, Feed, GoodRow, SkillRow
    <3> QED  BY <3>2, <3>3
  <2> QED  BY <1>2, <2>1, <2>2, <2>3 DEF Request, Approves
<1>5. skills'[Target(t)] = new /\ \A n \in Names \ {Target(t)} : skills'[n] = skills[n]
  BY <1>1, <1>2 DEF Commit, Inv, TypeOK, SerialTypeOK
<1>6. \A n \in Names : updatedAt'[n] = IF n = Target(t) THEN ts[t] ELSE updatedAt[n]
  BY <1>2 DEF Commit, Inv, TypeOK
<1>7. /\ clock' = clock
      /\ \A u \in Txns : pc'[u] # "idle" => u # t /\ pc[u] # "idle" /\ ts'[u] = ts[u]
  BY DEF Commit, Release, Inv, TypeOK
<1> QED  BY <1>1, <1>2, <1>4, <1>5, <1>6, <1>7

\* Every other step leaves the rows and their timestamps alone, and opens at
\* most one transaction, whose timestamp is new.
LEMMA OtherSteps ==
  ASSUME Inv, Next, \A t \in Txns : ~Commit(t)
  PROVE  /\ UNCHANGED <<skills, updatedAt>>
         /\ clock' >= clock
         /\ \A u \in Txns : pc'[u] # "idle" =>
              \/ pc[u] # "idle" /\ ts'[u] = ts[u]
              \/ ts'[u] = clock' /\ clock' > clock
<1> DEFINE Quiet == /\ UNCHANGED <<skills, updatedAt>>
                    /\ clock' >= clock
                    /\ \A u \in Txns : pc'[u] # "idle" =>
                         \/ pc[u] # "idle" /\ ts'[u] = ts[u]
                         \/ ts'[u] = clock' /\ clock' > clock
<1> USE MaxClockAssumption
<1>1. ASSUME NEW t \in Txns, NEW r, Begin(t, r)  PROVE Quiet
  BY <1>1 DEF Begin, Inv, TypeOK
<1>2. ASSUME NEW t \in Txns, Statement(t)  PROVE Quiet
  <2>1. UNCHANGED <<skills, updatedAt, clock>>
    BY <1>2
    DEF Statement, LockProposal, UpsertSkill, AppendVersion, SetStatus, NotFound
  <2>2. \A u \in Txns : pc'[u] # "idle" => pc[u] # "idle" /\ ts'[u] = ts[u]
    BY <1>2
    DEF Statement, LockProposal, UpsertSkill, AppendVersion, SetStatus, NotFound, AtSkillRow,
        Release, Inv, TypeOK
  <2> QED  BY <2>1, <2>2 DEF Inv, TypeOK
<1>3. ASSUME NEW t \in Txns, Rollback(t)  PROVE Quiet
  BY <1>3 DEF Rollback, Release, Inv, TypeOK
<1>4. ASSUME NEW id \in ProposalIds, NEW k \in Kinds, NEW n \in Names,
             NEW c \in Contents \cup {NoContent}, Propose(id, k, n, c)
      PROVE  Quiet
  BY <1>4 DEF Propose, CreateProposal, txnVars, Inv, TypeOK
<1>5. ASSUME NEW id \in ProposalIds, Reject(id)  PROVE Quiet
  BY <1>5 DEF Reject, RejectProposal, txnVars, Inv, TypeOK
<1> HIDE DEF Quiet
<1>6. Quiet
  BY <1>1, <1>2, <1>3, <1>4, <1>5 DEF Next
<1> QED  BY <1>6 DEF Quiet

\* The timestamps stay in order as long as transactions do not overlap.
LEMMA ClockStep ==
  ASSUME Inv, Inv', ClockInv, NoOverlap, [Next]_vars
  PROVE  ClockInv'
<1>1. CASE UNCHANGED vars
  BY <1>1 DEF vars, ClockInv
<1>2. CASE Next /\ \A t \in Txns : ~Commit(t)
  <2>1. /\ UNCHANGED <<skills, updatedAt>>
        /\ clock' >= clock
        /\ \A u \in Txns : pc'[u] # "idle" =>
             \/ pc[u] # "idle" /\ ts'[u] = ts[u]
             \/ ts'[u] = clock' /\ clock' > clock
    BY <1>2, OtherSteps
  <2>2. clock \in Nat /\ clock' \in Nat /\ \A n \in Names : updatedAt[n] \in Nat
    BY MaxClockAssumption DEF Inv, TypeOK
  <2>3. \A t \in Txns : ts[t] \in Nat
    BY MaxClockAssumption DEF Inv, TypeOK
  <2> QED  BY <2>1, <2>2, <2>3 DEF ClockInv
<1>3. ASSUME NEW t \in Txns, Commit(t)  PROVE ClockInv'
  <2>1. /\ Target(t) \in Names /\ pc[t] # "idle"
        /\ skills'[Target(t)].status # "absent"
        /\ \A n \in Names : updatedAt'[n] = IF n = Target(t) THEN ts[t] ELSE updatedAt[n]
        /\ \A n \in Names \ {Target(t)} : skills'[n] = skills[n]
        /\ clock' = clock
    BY <1>3, CommitPublishes
  <2>2. /\ ts[t] > 0 /\ ts[t] <= clock /\ ts[t] \in Nat /\ clock \in Nat
        /\ \A n \in Names : updatedAt[n] < ts[t] /\ updatedAt[n] \in Nat
    BY <2>1, MaxClockAssumption DEF ClockInv, Inv, TypeOK
  <2>3. \A u \in Txns : pc'[u] = "idle"
    BY <1>3, <2>1, CommitPublishes DEF NoOverlap
  <2>4. \A n \in Names : updatedAt'[n] <= clock'
    BY <2>1, <2>2 DEF ClockInv
  <2>5. \A n \in Names : updatedAt'[n] > 0 <=> skills'[n].status # "absent"
    BY <2>1, <2>2 DEF ClockInv
  <2>6. \A m, n \in Names : updatedAt'[m] = updatedAt'[n] /\ updatedAt'[n] > 0 => m = n
    BY <2>1, <2>2 DEF ClockInv
  <2>7. IsFiniteSet({n \in Names : updatedAt'[n] > 0})
    <3>1. {n \in Names : updatedAt'[n] > 0} = {n \in Names : updatedAt[n] > 0} \cup {Target(t)}
      BY <2>1, <2>2
    <3>2. IsFiniteSet({n \in Names : updatedAt[n] > 0})
      BY DEF ClockInv
    <3> QED  BY <3>1, <3>2, FS_AddElement
  <2> QED  BY <2>3, <2>4, <2>5, <2>6, <2>7 DEF ClockInv
<1> QED  BY <1>1, <1>2, <1>3

\* What is said of a skill stays so while its row and its dir stay.
LEMMA SkillFrame ==
  ASSUME NEW n, skills'[n] = skills[n]
  PROVE  /\ HeadSha(n)' = HeadSha(n)
         /\ disk'[n] = disk[n] => (Mirrored(n)' <=> Mirrored(n))
<1>1. HeadSha(n)' = HeadSha(n)
  BY DEF HeadSha
<1> QED  BY <1>1 DEF Mirrored

LEMMA CurrentFrame ==
  ASSUME NEW e, skills'[e.name] = skills[e.name], updatedAt'[e.name] = updatedAt[e.name]
  PROVE  Current(e)' <=> Current(e)
BY SkillFrame DEF Current

\* A run has its types.
LEMMA RunTypes ==
  ASSUME SyncTypeOK, NEW a \in Syncers
  PROVE  /\ run[a] \in Run
         /\ run[a].at \in 0..MaxClock /\ run[a].next \in 0..MaxClock
         /\ run[a].at \in Nat /\ run[a].next \in Nat /\ run[a].at <= run[a].next
         /\ run[a].todo \subseteq Entry
         /\ cursor \in Nat
BY MaxClockAssumption DEF SyncTypeOK, Run

\* A commit puts its skill ahead of every position, and changes no other.
LEMMA CommitMirror ==
  ASSUME Inv, Inv', SyncTypeOK, MirrorInv, Turns, NEW t \in Txns, Commit(t), UNCHANGED syncVars
  PROVE  MirrorInv'
<1> DEFINE target == Target(t)
<1>1. /\ target \in Names /\ pc[t] # "idle"
      /\ skills[target].status \in Feed => skills'[target].status \in Feed
      /\ \A n \in Names : updatedAt'[n] = IF n = target THEN ts[t] ELSE updatedAt[n]
      /\ \A n \in Names \ {target} : skills'[n] = skills[n]
  BY CommitPublishes
<1> HIDE DEF target
<1>2. ts[t] \in Nat /\ \A n \in Names : updatedAt[n] \in Nat /\ updatedAt[n] < ts[t]
  BY <1>1, MaxClockAssumption DEF MirrorInv, ClockInv, Inv, TypeOK
<1>3. disk' = disk /\ cursor' = cursor /\ run' = run
  BY DEF syncVars
<1>4. ASSUME NEW p \in Nat, Reached(p)
      PROVE  p < updatedAt'[target] /\ \E n \in Names : p <= updatedAt'[n]
  <2>1. p < ts[t]
    <3>1. CASE p = 0
      <4>1. ts[t] > 0  BY <1>1 DEF MirrorInv, ClockInv
      <4> QED  BY <3>1, <4>1
    <3>2. CASE \E n \in Names : p <= updatedAt[n]
      BY <1>2, <3>2
    <3> QED  BY <1>4, <3>1, <3>2 DEF Reached
  <2>2. updatedAt'[target] = ts[t]  BY <1>1
  <2> QED  BY <1>1, <1>2, <2>1, <2>2
<1>5. cursor \in Nat /\ cursor < updatedAt'[target]
  BY <1>4, MaxClockAssumption DEF SyncTypeOK, MirrorInv
<1>6. \A n \in Names \ {target} :
        /\ updatedAt'[n] = updatedAt[n] /\ skills'[n] = skills[n]
        /\ Mirrored(n)' <=> Mirrored(n)
  BY <1>1, <1>3, SkillFrame
<1>7. ClockInv'
  <2>1. [Next]_vars  BY DEF Next, Statement
  <2> QED  BY <2>1, ClockStep DEF MirrorInv, Turns
<1>8. Reached(cursor)'
  BY <1>3, <1>4, <1>5 DEF MirrorInv, Reached
<1>9. UnsentUntouched'
  BY <1>1, <1>3 DEF MirrorInv, UnsentUntouched
<1>10. UpToCursor'
  <2>1. ASSUME NEW n \in Names, 0 < updatedAt'[n], updatedAt'[n] <= cursor'  PROVE Mirrored(n)'
    <3>1. n # target  BY <1>1, <1>2, <1>3, <1>5, <2>1
    <3> QED  BY <1>3, <1>6, <2>1, <3>1 DEF MirrorInv, UpToCursor
  <2> QED  BY <2>1 DEF UpToCursor
<1>11. ASSUME NEW a \in Syncers  PROVE RunSound(a)'
  <2>1. /\ run[a].at \in Nat /\ run[a].next \in Nat /\ run[a].todo \subseteq Entry
    BY RunTypes
  <2>2. RunSound(a)  BY DEF MirrorInv
  <2>3. /\ run[a].at < updatedAt'[target] /\ run[a].next < updatedAt'[target]
        /\ Reached(run[a].at)' /\ Reached(run[a].next)'
    BY <1>3, <1>4, <2>1, <2>2 DEF RunSound, Reached
  <2>4. EntriesFresh(a)'
    <3>1. ASSUME NEW e \in run[a].todo
          PROVE  /\ skills'[e.name].status \in Feed
                 /\ \/ Current(e)'
                    \/ updatedAt'[e.name] > run[a].next /\ updatedAt'[e.name] > cursor
      <4>1. e.name \in Names  BY <2>1 DEF Entry
      <4>2. /\ skills[e.name].status \in Feed
            /\ \/ Current(e)
               \/ updatedAt[e.name] > run[a].next /\ updatedAt[e.name] > cursor
        BY <2>2 DEF RunSound, EntriesFresh
      <4>3. CASE e.name = target
        BY <1>1, <1>2, <1>5, <2>1, <2>3, <4>2, <4>3
      <4>4. CASE e.name # target
        BY <1>6, <4>1, <4>2, <4>4, CurrentFrame
      <4> QED  BY <4>3, <4>4
    <3> QED  BY <1>3, <2>2, <3>1 DEF RunSound, EntriesFresh
  <2>5. RunMirrors(a)'
    <3>1. ASSUME run[a].stage # "idle", run[a].mode # "dry", NEW n \in Names, updatedAt'[n] > 0
          PROVE  /\ updatedAt'[n] <= run[a].at => Mirrored(n)'
                 /\ run[a].stage = "apply" /\ updatedAt'[n] <= run[a].next =>
                      Mirrored(n)' \/ \E e \in run[a].todo : e.name = n /\ Current(e)'
      <4>1. CASE n = target
        BY <1>1, <1>2, <2>1, <2>3, <4>1
      <4>2. CASE n # target
        <5>1. \A e \in run[a].todo : e.name = n /\ Current(e) => Current(e)'
          BY <1>6, <4>2, CurrentFrame
        <5> QED  BY <1>6, <2>2, <3>1, <4>2, <5>1 DEF RunSound, RunMirrors
      <4> QED  BY <4>1, <4>2
    <3> QED  BY <1>3, <3>1 DEF RunMirrors
  <2>6. EndsCaughtUp(a)'
    BY <1>3, <2>2 DEF RunSound, EndsCaughtUp
  <2> QED  BY <1>3, <2>3, <2>4, <2>5, <2>6 DEF RunSound
<1> QED  BY <1>7, <1>8, <1>9, <1>10, <1>11 DEF MirrorInv

\* Every other step of the registry leaves what the mirror is about alone.
LEMMA RegistryMirror ==
  ASSUME Inv, Inv', SyncTypeOK, MirrorInv, Turns, [Next]_vars, UNCHANGED syncVars
  PROVE  MirrorInv'
<1>1. ASSUME NEW t \in Txns, Commit(t)  PROVE MirrorInv'
  BY <1>1, CommitMirror
<1>2. CASE \A t \in Txns : ~Commit(t)
  <2>1. skills' = skills /\ updatedAt' = updatedAt
    BY <1>2, OtherSteps DEF vars
  <2>2. disk' = disk /\ cursor' = cursor /\ run' = run
    BY DEF syncVars
  <2>3. ClockInv'
    BY ClockStep DEF MirrorInv, Turns
  <2>4. (\A n \in Names : Mirrored(n)' <=> Mirrored(n)) /\ (\A e : Current(e)' <=> Current(e))
    BY <2>1, <2>2, SkillFrame, CurrentFrame
  <2>5. Reached(cursor)' /\ UnsentUntouched' /\ UpToCursor'
    BY <2>1, <2>2, <2>4 DEF MirrorInv, Reached, UnsentUntouched, UpToCursor
  <2>6. ASSUME NEW a \in Syncers  PROVE RunSound(a)'
    <3>1. RunSound(a)  BY DEF MirrorInv
    <3> QED
      BY <2>1, <2>2, <2>4, <3>1
      DEF RunSound, Reached, EntriesFresh, RunMirrors, EndsCaughtUp
  <2> QED  BY <2>3, <2>5, <2>6 DEF MirrorInv
<1> QED  BY <1>1, <1>2

-----------------------------------------------------------------------------
(* A step of a run.                                                        *)

\* A run's step concerns the run alone: the others are not running.
LEMMA OwnRun ==
  ASSUME SyncTypeOK, MirrorInv, Turns, Turns', UNCHANGED vars, NEW a \in Syncers,
         run' = [run EXCEPT ![a] = run'[a]],
         run[a].stage # "idle" \/ run'[a].stage # "idle",
         Reached(cursor)', UnsentUntouched', UpToCursor', RunSound(a)'
  PROVE  MirrorInv'
<1>1. skills' = skills /\ updatedAt' = updatedAt
  BY DEF vars
<1>2. ClockInv'
  BY DEF vars, MirrorInv, ClockInv
<1>3. ASSUME NEW b \in Syncers \ {a}  PROVE RunSound(b)'
  <2>1. run'[b] = run[b]  BY DEF SyncTypeOK
  <2>2. run[b].stage = "idle"
    BY <2>1 DEF Turns, OneRun
  <2>3. RunSound(b)  BY DEF MirrorInv
  <2> QED
    BY <1>1, <2>1, <2>2, <2>3 DEF RunSound, Reached, EntriesFresh, RunMirrors, EndsCaughtUp
<1> QED  BY <1>2, <1>3 DEF MirrorInv

\* What is said of the skills stays so while a run leaves the disk alone.
LEMMA DiskFrame ==
  ASSUME UNCHANGED vars, disk' = disk
  PROVE  /\ \A n \in Names : Mirrored(n)' <=> Mirrored(n)
         /\ UnsentUntouched => UnsentUntouched'
         /\ cursor' = cursor => (Reached(cursor)' <=> Reached(cursor))
         /\ cursor' = cursor /\ UpToCursor => UpToCursor'
<1>1. skills' = skills /\ updatedAt' = updatedAt
  BY DEF vars
<1>2. \A n \in Names : Mirrored(n)' <=> Mirrored(n)
  BY <1>1, SkillFrame
<1> QED  BY <1>1, <1>2 DEF UnsentUntouched, Reached, UpToCursor

LEMMA StartMirror ==
  ASSUME TypeOK, SyncTypeOK, MirrorInv, Turns, Turns', UNCHANGED vars,
         NEW a \in Syncers, NEW m \in Modes, Start(a, m)
  PROVE  MirrorInv'
<1>1. /\ run'[a].mode = m /\ run'[a].stage = "fetch" /\ run'[a].todo = {}
      /\ run'[a].at = IF m = "reset" THEN 0 ELSE cursor
      /\ run'[a].next = run'[a].at
      /\ run' = [run EXCEPT ![a] = run'[a]]
      /\ disk' = disk /\ cursor' = cursor
  BY StartRun
<1>2. skills' = skills /\ updatedAt' = updatedAt
  BY DEF vars
<1>3. /\ Reached(cursor)' /\ UnsentUntouched' /\ UpToCursor'
      /\ \A n \in Names : Mirrored(n)' <=> Mirrored(n)
  BY <1>1, DiskFrame DEF MirrorInv
<1>4. Reached(run[a].at)' /\ Reached(run[a].next)'
  BY <1>1, <1>3 DEF Reached
<1>5. EntriesFresh(a)' /\ EndsCaughtUp(a)'
  BY <1>1 DEF EntriesFresh, EndsCaughtUp
<1>6. RunMirrors(a)'
  <2>1. ASSUME NEW n \in Names, updatedAt[n] > 0, updatedAt[n] <= run'[a].at  PROVE Mirrored(n)'
    <3>1. updatedAt[n] \in Nat  BY MaxClockAssumption DEF TypeOK
    <3>2. updatedAt[n] <= cursor
      BY <1>1, <2>1, <3>1
    <3> QED  BY <1>3, <2>1, <3>2 DEF MirrorInv, UpToCursor
  <2> QED  BY <1>1, <1>2, <2>1 DEF RunMirrors
<1>7. RunSound(a)'
  BY <1>4, <1>5, <1>6 DEF RunSound
<1> QED  BY <1>1, <1>3, <1>7, OwnRun

\* A page fetched: all that changed between the two positions is to do, is
\* nothing the feed sends, or changed after the last row.
LEMMA FetchMirror ==
  ASSUME Inv, SyncTypeOK, MirrorInv, Turns, Turns', UNCHANGED vars,
         NEW a \in Syncers, Fetch(a)
  PROVE  MirrorInv'
<1> DEFINE since == run[a].at
           end == NewCursor(since)
<1>1. /\ run[a].stage = "fetch"
      /\ run'[a].stage = "apply" /\ run'[a].mode = run[a].mode
      /\ run'[a].todo = Sent(since) /\ run'[a].at = since /\ run'[a].next = end
      /\ run' = [run EXCEPT ![a] = run'[a]]
      /\ disk' = disk /\ cursor' = cursor
  BY DEF Fetch, SyncTypeOK, Run
<1>2. /\ skills' = skills /\ updatedAt' = updatedAt
      /\ TypeOK /\ ClockInv /\ RunSound(a)
      /\ \A n \in Names : updatedAt[n] \in Nat
  BY MaxClockAssumption DEF vars, Inv, MirrorInv, TypeOK
<1>3. /\ Reached(cursor)' /\ UnsentUntouched' /\ UpToCursor'
      /\ \A n \in Names : Mirrored(n)' <=> Mirrored(n)
  BY <1>1, DiskFrame DEF MirrorInv
<1>4. since \in 0..MaxClock /\ since \in Nat /\ cursor \in Nat
  BY RunTypes
<1>5. end \in 0..MaxClock /\ end \in Nat
  BY <1>4, FetchTypes, MaxClockAssumption
<1>6. Reached(since) /\ Reached(end)
  <2>1. Reached(since)  BY <1>2 DEF RunSound
  <2>2. CASE Page(since) = {}
    <3>1. end = since  BY <2>2 DEF NewCursor
    <3> QED  BY <2>1, <3>1
  <2>3. CASE Page(since) # {}
    <3>1. PICK last \in Page(since) : end = updatedAt[last]
      BY <1>2, <1>4, <2>3, NewCursorIsLast
    <3>2. last \in Names /\ end <= updatedAt[last]
      BY <1>2, <1>4, <1>5, <3>1, PageTypes
    <3> QED  BY <2>1, <3>2 DEF Reached
  <2> QED  BY <2>2, <2>3
<1> HIDE DEF since, end
<1>7. \A n \in Page(since) : skills[n].status \in Feed =>
        \E e \in Sent(since) : e.name = n /\ Current(e)
  <2>1. ASSUME NEW n \in Page(since), skills[n].status \in Feed
        PROVE  \E e \in Sent(since) : e.name = n /\ Current(e)
    <3> DEFINE e == [name |-> n, status |-> skills[n].status, sha |-> HeadSha(n), at |-> updatedAt[n]]
    <3>1. e \in Sent(since)  BY <2>1 DEF Sent, Feed
    <3>2. e.name = n /\ Current(e)  BY DEF Current
    <3> QED  BY <3>1, <3>2
  <2> QED  BY <2>1
<1>8. \A e \in Sent(since) : Current(e) /\ skills[e.name].status \in Feed
  BY DEF Sent, Current, Feed
<1>9. \A e : Current(e)' <=> Current(e)
  BY <1>2, CurrentFrame
<1>10. EntriesFresh(a)'
  BY <1>1, <1>2, <1>8, <1>9 DEF EntriesFresh
<1>11. RunMirrors(a)'
  <2>1. ASSUME run[a].mode # "dry", NEW n \in Names, updatedAt[n] > 0
        PROVE  /\ updatedAt[n] <= since => Mirrored(n)
               /\ updatedAt[n] <= end =>
                    Mirrored(n) \/ \E e \in Sent(since) : e.name = n /\ Current(e)
    <3>1. updatedAt[n] <= since => Mirrored(n)
      BY <1>1, <1>2, <2>1 DEF RunSound, RunMirrors, since
    <3>2. CASE updatedAt[n] > since /\ updatedAt[n] <= end
      <4>1. n \in Page(since)
        BY <1>2, <1>4, <3>2, PageCovers DEF end
      <4>2. CASE skills[n].status \in Feed
        BY <1>7, <3>1, <4>1, <4>2
      <4>3. CASE skills[n].status \notin Feed
        BY <4>3 DEF MirrorInv, UnsentUntouched, Mirrored, Feed
      <4> QED  BY <4>2, <4>3
    <3> QED  BY <1>2, <1>4, <3>1, <3>2
  <2> QED  BY <1>1, <1>2, <1>3, <1>9, <2>1 DEF RunMirrors
<1>12. EndsCaughtUp(a)'
  <2>1. ASSUME end = since  PROVE cursor <= since
    <3>1. \A n \in Names : updatedAt[n] <= since
      BY <1>2, <1>4, <2>1, NoProgressCaughtUp DEF end
    <3>2. cursor = 0 \/ \E n \in Names : cursor <= updatedAt[n]
      BY DEF MirrorInv, Reached
    <3> QED  BY <1>2, <1>4, <3>1, <3>2
  <2> QED  BY <1>1, <2>1 DEF EndsCaughtUp
<1>13. RunSound(a)'
  <2>1. Reached(run[a].at)' /\ Reached(run[a].next)'
    BY <1>1, <1>2, <1>6 DEF Reached
  <2> QED  BY <1>10, <1>11, <1>12, <2>1 DEF RunSound
<1> QED  BY <1>1, <1>3, <1>13, OwnRun

\* An entry written or removed mirrors its skill if it is current, and leaves
\* every other dir alone.
LEMMA ApplyDisk ==
  ASSUME SyncTypeOK, NEW a \in Syncers, Materialize(a) \/ Remove(a),
         UNCHANGED vars
  PROVE  \E e \in run[a].todo :
           /\ run[a].stage = "apply"
           /\ run'[a].stage = "apply" /\ run'[a].mode = run[a].mode
           /\ run'[a].at = run[a].at /\ run'[a].next = run[a].next
           /\ run'[a].todo = run[a].todo \ {e}
           /\ run' = [run EXCEPT ![a] = run'[a]] /\ cursor' = cursor
           /\ \A n \in Names \ {e.name} : disk'[n] = disk[n]
           /\ \A n \in Names : run[a].mode = "dry" => disk'[n] = disk[n]
           /\ run[a].mode # "dry" /\ Current(e) => Mirrored(e.name)'
           /\ Mirrored(e.name) /\ run[a].mode = "dry" => Mirrored(e.name)'
<1>1. PICK e \in run[a].todo :
        /\ run[a].stage = "apply" /\ run' = Done(a, e) /\ cursor' = cursor
        /\ \/ /\ e.status = "promoted"
              /\ disk' = IF Keeps(a, e.name) THEN disk ELSE [disk EXCEPT ![e.name] = e.sha]
           \/ /\ e.status = "retired"
              /\ disk' = IF Keeps(a, e.name) THEN disk ELSE [disk EXCEPT ![e.name] = NoContent]
  BY Zenon DEF Materialize, Remove
<1>2. /\ run[a].stage = "apply"
      /\ run'[a].stage = "apply" /\ run'[a].mode = run[a].mode
      /\ run'[a].at = run[a].at /\ run'[a].next = run[a].next
      /\ run'[a].todo = run[a].todo \ {e}
      /\ run' = [run EXCEPT ![a] = run'[a]] /\ cursor' = cursor
  BY <1>1 DEF Done, SyncTypeOK, Run
<1>3. e.name \in Names
  BY RunTypes DEF Entry
<1>4. /\ \A n \in Names \ {e.name} : disk'[n] = disk[n]
      /\ \A n \in Names : run[a].mode = "dry" => disk'[n] = disk[n]
      /\ disk[e.name] = HandAuthored => disk'[e.name] = HandAuthored
      /\ run[a].mode # "dry" /\ disk[e.name] # HandAuthored =>
           disk'[e.name] = IF e.status = "promoted" THEN e.sha ELSE NoContent
  <2>1. CASE Keeps(a, e.name)
    BY <1>1, <2>1 DEF Keeps
  <2>2. CASE ~Keeps(a, e.name)
    BY <1>1, <1>3, <2>2 DEF Keeps, SyncTypeOK
  <2> QED  BY <2>1, <2>2
<1>5. skills' = skills
  BY DEF vars
<1>6. run[a].mode # "dry" /\ Current(e) => Mirrored(e.name)'
  <2>1. HeadSha(e.name)' = HeadSha(e.name)
    BY <1>5, SkillFrame
  <2> QED  BY <1>4, <1>5, <2>1 DEF Mirrored, Current
<1>7. Mirrored(e.name) /\ run[a].mode = "dry" => Mirrored(e.name)'
  BY <1>3, <1>4, <1>5, SkillFrame
<1> QED  BY <1>1, <1>2, <1>4, <1>6, <1>7

LEMMA ApplyMirror ==
  ASSUME TypeOK, SyncTypeOK, MirrorInv, Turns, Turns', UNCHANGED vars,
         NEW a \in Syncers, Materialize(a) \/ Remove(a)
  PROVE  MirrorInv'
<1>1. PICK e \in run[a].todo :
        /\ run[a].stage = "apply"
        /\ run'[a].stage = "apply" /\ run'[a].mode = run[a].mode
        /\ run'[a].at = run[a].at /\ run'[a].next = run[a].next
        /\ run'[a].todo = run[a].todo \ {e}
        /\ run' = [run EXCEPT ![a] = run'[a]] /\ cursor' = cursor
        /\ \A n \in Names \ {e.name} : disk'[n] = disk[n]
        /\ \A n \in Names : run[a].mode = "dry" => disk'[n] = disk[n]
        /\ run[a].mode # "dry" /\ Current(e) => Mirrored(e.name)'
        /\ Mirrored(e.name) /\ run[a].mode = "dry" => Mirrored(e.name)'
  BY ApplyDisk
<1>2. /\ skills' = skills /\ updatedAt' = updatedAt
      /\ RunSound(a) /\ UpToCursor
  BY DEF vars, MirrorInv
<1>3. /\ run[a].at \in Nat /\ run[a].next \in Nat /\ run[a].at <= run[a].next
      /\ cursor \in Nat /\ e.name \in Names
      /\ \A n \in Names : updatedAt[n] \in Nat
  BY RunTypes, MaxClockAssumption DEF Entry, TypeOK
<1>4. \A n \in Names \ {e.name} : Mirrored(n)' <=> Mirrored(n)
  BY <1>1, <1>2, SkillFrame
<1>5. \A f : Current(f)' <=> Current(f)
  BY <1>2, CurrentFrame
<1>6. /\ skills[e.name].status \in Feed
      /\ \/ Current(e)
         \/ updatedAt[e.name] > run[a].next /\ updatedAt[e.name] > cursor
  BY <1>2 DEF RunSound, EntriesFresh
<1>7. ClockInv' /\ Reached(cursor)'
  BY <1>1, <1>2 DEF vars, MirrorInv, ClockInv, Reached
<1>8. UnsentUntouched'
  BY <1>1, <1>2, <1>6 DEF MirrorInv, UnsentUntouched
<1>9. UpToCursor'
  <2>1. ASSUME NEW n \in Names, 0 < updatedAt[n], updatedAt[n] <= cursor  PROVE Mirrored(n)'
    <3>1. Mirrored(n)  BY <1>2, <2>1 DEF UpToCursor
    <3>2. n = e.name => Current(e)  BY <1>3, <1>6, <2>1
    <3> QED  BY <1>1, <1>4, <3>1, <3>2
  <2> QED  BY <1>1, <1>2, <2>1 DEF UpToCursor
<1>10. EntriesFresh(a)'
  BY <1>1, <1>2, <1>5 DEF RunSound, EntriesFresh
<1>11. RunMirrors(a)'
  <2>1. ASSUME run[a].mode # "dry", NEW n \in Names, updatedAt[n] > 0
        PROVE  /\ updatedAt[n] <= run[a].at => Mirrored(n)'
               /\ updatedAt[n] <= run[a].next =>
                    Mirrored(n)' \/ \E f \in run[a].todo \ {e} : f.name = n /\ Current(f)
    <3>1. /\ updatedAt[n] <= run[a].at => Mirrored(n)
          /\ updatedAt[n] <= run[a].next =>
               Mirrored(n) \/ \E f \in run[a].todo : f.name = n /\ Current(f)
      BY <1>1, <1>2, <2>1 DEF RunSound, RunMirrors
    <3>2. CASE n = e.name
      <4>1. updatedAt[n] <= run[a].next => Current(e)
        BY <1>3, <1>6, <3>2
      <4> QED  BY <1>1, <1>3, <2>1, <3>2, <4>1
    <3>3. CASE n # e.name
      BY <1>4, <3>1, <3>3
    <3> QED  BY <3>2, <3>3
  <2> QED  BY <1>1, <1>2, <1>5, <2>1 DEF RunMirrors
<1>12. RunSound(a)'
  <2>1. Reached(run[a].at)' /\ Reached(run[a].next)' /\ EndsCaughtUp(a)'
    BY <1>1, <1>2 DEF RunSound, Reached, EndsCaughtUp
  <2> QED  BY <1>10, <1>11, <2>1 DEF RunSound
<1> QED  BY <1>1, <1>7, <1>8, <1>9, <1>12, OwnRun

LEMMA EndPageMirror ==
  ASSUME SyncTypeOK, MirrorInv, Turns, Turns', UNCHANGED vars,
         NEW a \in Syncers, EndPage(a)
  PROVE  MirrorInv'
<1>1. /\ run[a].stage = "apply" /\ run[a].todo = {}
      /\ run'[a].mode = run[a].mode /\ run'[a].todo = {}
      /\ run'[a].stage \in {"save", "fetch"}
      /\ run'[a].stage = "save" => run[a].next = run[a].at
      /\ run'[a].at = run[a].next /\ run'[a].next = run[a].next
      /\ run' = [run EXCEPT ![a] = run'[a]]
      /\ disk' = disk /\ cursor' = cursor
  BY EndPageRun
<1>2. skills' = skills /\ updatedAt' = updatedAt /\ RunSound(a)
  BY DEF vars, MirrorInv
<1>3. /\ Reached(cursor)' /\ UnsentUntouched' /\ UpToCursor'
      /\ \A n \in Names : Mirrored(n)' <=> Mirrored(n)
  BY <1>1, DiskFrame DEF MirrorInv
<1>4. Reached(run[a].at)' /\ Reached(run[a].next)'
  BY <1>1, <1>2 DEF RunSound, Reached
<1>5. EntriesFresh(a)'
  BY <1>1 DEF EntriesFresh
<1>6. RunMirrors(a)'
  <2>1. ASSUME run[a].mode # "dry", NEW n \in Names, updatedAt[n] > 0, updatedAt[n] <= run[a].next
        PROVE  Mirrored(n)
    BY <1>1, <1>2, <2>1 DEF RunSound, RunMirrors
  <2> QED  BY <1>1, <1>2, <1>3, <2>1 DEF RunMirrors
<1>7. EndsCaughtUp(a)'
  BY <1>1, <1>2 DEF RunSound, EndsCaughtUp
<1>8. RunSound(a)'
  BY <1>4, <1>5, <1>6, <1>7 DEF RunSound
<1> QED  BY <1>1, <1>3, <1>8, OwnRun

\* A run that is over has no position.
LEMMA RestSound ==
  ASSUME NEW a \in Syncers, run'[a] = IdleRun
  PROVE  RunSound(a)'
BY DEF RunSound, Reached, EntriesFresh, RunMirrors, EndsCaughtUp, IdleRun

\* What the saved cursor has passed is what the run had.
LEMMA SaveMirror ==
  ASSUME SyncTypeOK, MirrorInv, Turns, Turns', UNCHANGED vars,
         NEW a \in Syncers, Save(a)
  PROVE  MirrorInv'
<1>1. /\ run[a].stage = "save" /\ run'[a] = IdleRun
      /\ run' = [run EXCEPT ![a] = run'[a]] /\ disk' = disk
      /\ cursor' = IF run[a].mode = "dry" THEN cursor ELSE run[a].at
  BY DEF Save, SyncTypeOK
<1>2. skills' = skills /\ updatedAt' = updatedAt /\ RunSound(a)
  BY DEF vars, MirrorInv
<1>3. UnsentUntouched' /\ \A n \in Names : Mirrored(n)' <=> Mirrored(n)
  BY <1>1, DiskFrame DEF MirrorInv
<1>4. RunSound(a)'
  BY <1>1, RestSound
<1>5. CASE run[a].mode = "dry"
  <2>1. Reached(cursor)' /\ UpToCursor'
    BY <1>1, <1>5, DiskFrame DEF MirrorInv
  <2> QED  BY <1>1, <1>3, <1>4, <2>1, OwnRun
<1>6. CASE run[a].mode # "dry"
  <2>1. Reached(cursor)'
    BY <1>1, <1>2, <1>6 DEF RunSound, Reached
  <2>2. UpToCursor'
    BY <1>1, <1>2, <1>3, <1>6 DEF RunSound, RunMirrors, UpToCursor
  <2> QED  BY <1>1, <1>3, <1>4, <2>1, <2>2, OwnRun
<1> QED  BY <1>5, <1>6

LEMMA AbandonMirror ==
  ASSUME SyncTypeOK, MirrorInv, Turns, Turns', UNCHANGED vars,
         NEW a \in Syncers, Abandon(a)
  PROVE  MirrorInv'
<1>1. /\ run[a].stage # "idle" /\ run'[a] = IdleRun
      /\ run' = [run EXCEPT ![a] = run'[a]] /\ disk' = disk /\ cursor' = cursor
  BY DEF Abandon, SyncTypeOK
<1>2. Reached(cursor)' /\ UnsentUntouched' /\ UpToCursor'
  BY <1>1, DiskFrame DEF MirrorInv
<1> QED  BY <1>1, <1>2, RestSound, OwnRun

-----------------------------------------------------------------------------
\* Nothing has changed yet, and no run is on its way.
LEMMA MirrorInit == SyncInit => MirrorInv
<1> SUFFICES ASSUME SyncInit PROVE MirrorInv  OBVIOUS
<1>1. /\ \A n \in Names : updatedAt[n] = 0 /\ skills[n].status = "absent"
      /\ \A t \in Txns : pc[t] = "idle"
      /\ clock = 0 /\ cursor = 0
      /\ disk \in [Names -> {NoContent, HandAuthored}]
      /\ \A a \in Syncers : run[a] = IdleRun
  BY DEF SyncInit, Init, SerialInit, AbsentSkill
<1>2. IsFiniteSet({n \in Names : updatedAt[n] > 0})
  <2>1. {n \in Names : updatedAt[n] > 0} = {}  BY <1>1
  <2> QED  BY <2>1, FS_EmptySet
<1>3. ClockInv
  BY <1>1, <1>2 DEF ClockInv
<1>4. Reached(cursor) /\ UnsentUntouched /\ UpToCursor
  BY <1>1 DEF Reached, UnsentUntouched, UpToCursor
<1>5. \A a \in Syncers : RunSound(a)
  BY <1>1 DEF RunSound, Reached, EntriesFresh, RunMirrors, EndsCaughtUp, IdleRun
<1> QED  BY <1>3, <1>4, <1>5 DEF MirrorInv

\* Every step keeps the invariant while writers and runs take turns.
LEMMA MirrorStep ==
  Inv /\ Inv' /\ SyncTypeOK /\ MirrorInv /\ Turns /\ Turns' /\ [SyncNext]_allVars => MirrorInv'
<1> SUFFICES ASSUME Inv, Inv', SyncTypeOK, MirrorInv, Turns, Turns', [SyncNext]_allVars
             PROVE  MirrorInv'
  OBVIOUS
<1>1. TypeOK  BY DEF Inv
<1>2. CASE UNCHANGED syncVars /\ [Next]_vars
  BY <1>2, RegistryMirror
<1>3. ASSUME NEW a \in Syncers, NEW m \in Modes, Start(a, m), UNCHANGED vars  PROVE MirrorInv'
  BY <1>1, <1>3, StartMirror
<1>4. ASSUME NEW a \in Syncers, Continue(a), UNCHANGED vars  PROVE MirrorInv'
  BY <1>1, <1>4, FetchMirror, ApplyMirror, EndPageMirror, SaveMirror DEF Continue
<1>5. ASSUME NEW a \in Syncers, Abandon(a), UNCHANGED vars  PROVE MirrorInv'
  BY <1>5, AbandonMirror
<1>6. UNCHANGED allVars => UNCHANGED syncVars /\ [Next]_vars
  BY DEF allVars
<1> QED  BY <1>2, <1>3, <1>4, <1>5, <1>6 DEF SyncNext

\* While writers and runs take turns, the invariant holds.
LEMMA MirrorHolds == SyncSpec => ([]Turns => []MirrorInv)
BY MirrorInit, MirrorStep, RegistryInv, SyncTypes, PTL DEF SyncSpec

\* Whatever the saved cursor has passed is on disk (Sync, handleSync), as long
\* as writers and runs take turns: for every number of them, every page size,
\* and runs that are cut short anywhere.
THEOREM CursorIsMirrored == SyncSpec => ([]Turns => []UpToCursor)
<1>1. MirrorInv => UpToCursor  BY DEF MirrorInv
<1> QED  BY <1>1, MirrorHolds, PTL

\* A run that saves is not behind the cursor.
LEMMA SavesForward == SyncTypeOK /\ MirrorInv /\ [SyncNext]_allVars => cursor <= cursor'
<1> SUFFICES ASSUME SyncTypeOK, MirrorInv, [SyncNext]_allVars PROVE cursor <= cursor'
  OBVIOUS
<1>1. cursor \in Nat
  BY MaxClockAssumption DEF SyncTypeOK
<1>2. ASSUME NEW a \in Syncers, Save(a)  PROVE cursor <= cursor'
  <2>1. run[a].stage = "save" => cursor <= run[a].at
    BY DEF MirrorInv, RunSound, EndsCaughtUp
  <2> QED  BY <1>1, <1>2, <2>1 DEF Save
<1>3. ASSUME NEW a \in Syncers,
             \/ \E m \in Modes : Start(a, m)
             \/ Fetch(a) \/ Materialize(a) \/ Remove(a) \/ EndPage(a) \/ Abandon(a)
      PROVE  cursor' = cursor
  BY <1>3 DEF Start, Fetch, Materialize, Remove, EndPage, Abandon
<1>4. UNCHANGED syncVars => cursor' = cursor
  BY DEF syncVars
<1>5. UNCHANGED allVars => UNCHANGED syncVars
  BY DEF allVars
<1> QED  BY <1>1, <1>2, <1>3, <1>4, <1>5 DEF SyncNext, Continue

\* No run, not even a reset, moves the saved cursor back (Sync), as long as
\* writers and runs take turns.
THEOREM CursorForward == SyncSpec => ([]Turns => CursorNeverRewinds)
BY SavesForward, MirrorHolds, SyncTypes, PTL DEF SyncSpec, CursorNeverRewinds

\* With one connection that writes and one process that syncs, both hold without
\* a premise.
THEOREM AloneIsMirrored ==
  ASSUME \A t, u \in Txns : t = u, \A a, b \in Syncers : a = b
  PROVE  SyncSpec => []UpToCursor /\ CursorNeverRewinds
<1>1. Turns
  BY DEF Turns, NoOverlap, OneRun
<1> QED  BY <1>1, CursorIsMirrored, CursorForward, PTL

-----------------------------------------------------------------------------
(* The same with the history variable, as the runs check it.               *)

TurnsInv == turns => Turns /\ MirrorInv

\* The history variable does not change what the system does.
LEMMA TurnsRefines == TurnsSpec => SyncSpec
<1>1. [TurnsNext]_<<allVars, turns>> => [SyncNext]_allVars
  BY DEF TurnsNext
<1> QED  BY <1>1, PTL DEF TurnsSpec, TurnsInit, SyncSpec

\* Each step of it keeps the invariant, or ends the taking of turns for good.
LEMMA TurnsStep ==
  Inv /\ Inv' /\ SyncTypeOK /\ TurnsInv /\ [TurnsNext]_<<allVars, turns>> => TurnsInv'
<1> SUFFICES ASSUME Inv, Inv', SyncTypeOK, TurnsInv, [TurnsNext]_<<allVars, turns>>, turns'
             PROVE  Turns' /\ MirrorInv'
  BY DEF TurnsInv
<1>1. turns /\ Turns' /\ [SyncNext]_allVars
  <2>1. CASE TurnsNext
    BY <2>1, Zenon DEF TurnsNext
  <2>2. CASE UNCHANGED <<allVars, turns>>
    <3>1. turns /\ UNCHANGED allVars
      BY <2>2
    <3>2. pc' = pc /\ run' = run
      BY <3>1 DEF allVars, vars, syncVars
    <3>3. Turns
      BY <3>1, Zenon DEF TurnsInv
    <3> QED  BY <3>1, <3>2, <3>3 DEF Turns, NoOverlap, OneRun
  <2> QED  BY <2>1, <2>2
<1>2. Turns /\ MirrorInv
  BY <1>1, Zenon DEF TurnsInv
<1> QED  BY <1>1, <1>2, MirrorStep

\* As long as turns were taken so far, the invariant holds.
LEMMA TurnsHold == TurnsSpec => []TurnsInv
<1>1. SyncInit => Turns
  BY DEF SyncInit, Init, Turns, NoOverlap, OneRun, IdleRun
<1>2. TurnsInit => TurnsInv
  BY <1>1, MirrorInit DEF TurnsInit, TurnsInv
<1> QED
  BY <1>2, TurnsStep, TurnsRefines, RegistryInv, SyncTypes, PTL DEF TurnsSpec, TurnsInit, SyncSpec

\* Whatever the saved cursor has passed is on disk (Sync, handleSync), as long
\* as neither two transactions nor two runs have overlapped.
THEOREM MirroredInTurns == TurnsSpec => []UpToCursorInTurns
<1>1. TurnsInv => UpToCursorInTurns
  BY DEF TurnsInv, UpToCursorInTurns, MirrorInv
<1> QED  BY <1>1, TurnsHold, PTL

\* No run, not even a reset, moves the saved cursor back (Sync, saveCursor), as
\* long as neither two transactions nor two runs have overlapped.
THEOREM ForwardInTurns == TurnsSpec => CursorNeverRewindsInTurns
<1>1. SyncTypeOK /\ TurnsInv /\ [TurnsNext]_<<allVars, turns>>
        => [turns' => cursor <= cursor']_<<allVars, turns>>
  <2> SUFFICES ASSUME SyncTypeOK, TurnsInv, TurnsNext, turns'  PROVE cursor <= cursor'
    BY DEF TurnsNext
  <2>1. turns /\ SyncNext
    BY Zenon DEF TurnsNext
  <2>2. MirrorInv
    BY <2>1, Zenon DEF TurnsInv
  <2> QED  BY <2>1, <2>2, SavesForward
<1> QED
  BY <1>1, TurnsHold, TurnsRefines, SyncTypes, PTL
     DEF TurnsSpec, CursorNeverRewindsInTurns

=============================================================================
