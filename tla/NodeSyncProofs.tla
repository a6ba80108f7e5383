--------------------------- MODULE NodeSyncProofs ---------------------------
(***************************************************************************)
(* Registrations and imports that number versions side by side leave every *)
(* node's history intact, for any number of nodes, contents and ULIDs.     *)
(*                                                                         *)
(* What makes NodeHistoryIntact inductive: a number that was computed may  *)
(* become too small but never too large (RegOK, MergeOK), so an INSERT     *)
(* that does not clash continues the history; a version that is staged     *)
(* keeps its place until it commits, as an import that would take it       *)
(* waits; and a ULID that is staged is nowhere else, in no history and in  *)
(* no batch, so what is looked up under Dedup still holds at the INSERT.   *)
(*                                                                         *)
(* That the nodes implement VersionLog needs one thing more (CopiesOK):    *)
(* what a batch carries is stored somewhere with the content it had.       *)
(***************************************************************************)
EXTENDS NodeSync, LeastProofs, FiniteSetTheorems

Count(n) == Cardinality(history[n])

Numbers(n) == {v.version : v \in history[n]}

\* The history of some node has the ULID.
Stored(u) == \E n \in Nodes : \E v \in history[n] : v.ulid = u

HasUlid(n, u) == \E v \in history[n] : v.ulid = u

Types ==
  /\ history \in [Nodes -> SUBSET StoredVersion]
  /\ status \in [Nodes -> {"absent", "draft", "promoted"}]
  /\ head \in [Nodes -> 0..MaxUlid]
  /\ reg \in [Nodes -> Registration]
  /\ merge \in [Nodes -> Merge]

HistoryOK(n) ==
  /\ IsFiniteSet(history[n])
  /\ Numbers(n) = 1..Count(n)
  /\ \A v, w \in history[n] :
       v.version = w.version \/ v.sha = w.sha \/ v.ulid = w.ulid => v = w
  /\ head[n] # 0 => head[n] \in Numbers(n)

RegOK(n) ==
  /\ reg[n].stage # "idle" => reg[n].sha \in Contents
  /\ reg[n].stage = "numbered" => reg[n].version \in 1..Count(n) + 1
  /\ reg[n].stage # "inserted" => reg[n].ulid = 0
  /\ reg[n].stage = "inserted" =>
       /\ reg[n].version = Count(n) + 1 /\ reg[n].sha \notin Shas(n)
       /\ reg[n].ulid # 0 /\ ~Stored(reg[n].ulid)
       /\ \A m \in Nodes \ {n} : reg[m].ulid # reg[n].ulid

MergeOK(n) ==
  /\ merge[n].stage = "idle" <=> merge[n].todo = {}
  /\ \A v \in merge[n].todo : Stored(v.ulid)
  /\ merge[n].stage = "insert" =>
       /\ merge[n].version \in 1..Count(n) + 1
       /\ ~HasUlid(n, Oldest(merge[n].todo).ulid)

NodeInv == Types /\ \A n \in Nodes : HistoryOK(n) /\ RegOK(n) /\ MergeOK(n)

-----------------------------------------------------------------------------
\* Nothing is registered and nothing is stored.
LEMMA InvInit == Init => NodeInv
<1> SUFFICES ASSUME Init  PROVE NodeInv
  OBVIOUS
<1>1. Types
  BY NodeSyncAssumption
  DEF Init, Types, Registration, NoRegistration, Merge, NoMerge
<1>2. ASSUME NEW n \in Nodes  PROVE HistoryOK(n) /\ RegOK(n) /\ MergeOK(n)
  <2>1. history[n] = {} /\ head[n] = 0 /\ reg[n] = NoRegistration /\ merge[n] = NoMerge
    BY DEF Init
  <2>2. Count(n) = 0 /\ IsFiniteSet(history[n])
    BY <2>1, FS_EmptySet DEF Count
  <2>3. HistoryOK(n)
    BY <2>1, <2>2 DEF HistoryOK, Numbers
  <2>4. RegOK(n) /\ MergeOK(n)
    BY <2>1, <2>2 DEF RegOK, MergeOK, NoRegistration, NoMerge
  <2> QED  BY <2>3, <2>4
<1> QED  BY <1>1, <1>2 DEF NodeInv

\* A history has no more versions than there are ULIDs it may use.
LEMMA CountBound ==
  ASSUME NodeInv, NEW n \in Nodes, NEW T \in SUBSET Ulids, \A v \in history[n] : v.ulid \in T
  PROVE  Count(n) \in Nat /\ IsFiniteSet(T) /\ Count(n) <= Cardinality(T)
<1>1. history[n] \subseteq StoredVersion /\ HistoryOK(n)
  BY DEF NodeInv, Types
<1>2. IsFiniteSet(T)
  <2>1. MaxUlid \in Int /\ 1 \in Int
    BY NodeSyncAssumption
  <2>2. IsFiniteSet(Ulids)
    BY <2>1, FS_Interval DEF Ulids
  <2> QED  BY <2>2, FS_Subset
<1>3. Count(n) \in Nat
  BY <1>1, FS_CardinalityType DEF HistoryOK, Count
<1>4. [v \in history[n] |-> v.ulid] \in Injection(history[n], T)
  BY <1>1 DEF Injection, IsInjective, HistoryOK
<1>5. Count(n) <= Cardinality(T)
  BY <1>2, <1>4, FS_Injection DEF Count
<1> QED  BY <1>2, <1>3, <1>5

\* While a ULID is free of a history there is room for one more version.
LEMMA RoomForOne ==
  ASSUME NodeInv, NEW n \in Nodes, NEW u \in Ulids, ~HasUlid(n, u)
  PROVE  Count(n) + 1 <= MaxUlid
<1>1. MaxUlid \in Nat \ {0} /\ MaxUlid \in Int /\ 1 \in Int
  BY NodeSyncAssumption
<1>2. IsFiniteSet(Ulids) /\ Cardinality(Ulids) = MaxUlid
  BY <1>1, FS_Interval DEF Ulids
<1>3. Cardinality(Ulids \ {u}) = MaxUlid - 1
  BY <1>2, FS_RemoveElement
<1>4. \A v \in history[n] : v.ulid \in Ulids \ {u}
  BY DEF NodeInv, Types, StoredVersion, HasUlid
<1>5. Count(n) \in Nat /\ Count(n) <= Cardinality(Ulids \ {u})
  BY <1>4, CountBound
<1> QED  BY <1>1, <1>3, <1>5

\* COALESCE(MAX(version), 0) + 1 is the number after the last.
LEMMA NextVersionIs ==
  ASSUME NodeInv, NEW n \in Nodes
  PROVE  /\ Count(n) \in Nat /\ Count(n) <= MaxUlid
         /\ NextVersion(n) = Count(n) + 1
<1>1. \A v \in history[n] : v.ulid \in Ulids
  BY DEF NodeInv, Types, StoredVersion
<1>2. MaxUlid \in Nat \ {0} /\ MaxUlid \in Int /\ 1 \in Int
  BY NodeSyncAssumption
<1>3. Cardinality(Ulids) = MaxUlid
  BY <1>2, FS_Interval DEF Ulids
<1>4. Count(n) \in Nat /\ Count(n) <= MaxUlid
  BY <1>1, <1>3, CountBound
<1>5. Numbers(n) = 1..Count(n)
  BY DEF NodeInv, HistoryOK
<1>6. /\ \A v \in history[n] : v.version < Count(n) + 1
      /\ Count(n) + 1 = 1 \/ \E v \in history[n] : v.version = Count(n)
  <2>1. \A v \in history[n] : v.version \in 1..Count(n)
    BY <1>5 DEF Numbers
  <2>2. Count(n) > 0 => Count(n) \in Numbers(n)
    BY <1>4, <1>5
  <2> QED  BY <1>4, <2>1, <2>2 DEF Numbers
<1>7. ASSUME NEW k \in 1..MaxUlid + 1,
             \A v \in history[n] : v.version < k,
             k = 1 \/ \E v \in history[n] : v.version = k - 1
      PROVE  k = Count(n) + 1
  <2>1. Count(n) > 0 => Count(n) < k
    BY <1>4, <1>6, <1>7
  <2>2. k = 1 \/ k - 1 \in 1..Count(n)
    BY <1>5, <1>7 DEF Numbers
  <2> QED  BY <1>2, <1>4, <2>1, <2>2
<1>8. Count(n) + 1 \in 1..MaxUlid + 1
  BY <1>2, <1>4
<1>9. NextVersion(n) = Count(n) + 1
  BY <1>4, <1>6, <1>7, <1>8 DEF NextVersion
<1> QED  BY <1>4, <1>9

\* The row a merge is at is one of its rows.
LEMMA OldestIn ==
  ASSUME NEW rows \in SUBSET StoredVersion, rows # {}
  PROVE  Oldest(rows) \in rows
<1> DEFINE ulids == {v.ulid : v \in rows}
<1>1. ulids \in SUBSET Nat /\ ulids # {}
  BY NodeSyncAssumption DEF StoredVersion, Ulids
<1>2. PICK u \in ulids : \A t \in ulids : u <= t
  BY <1>1, LeastExists, Zenon
<1>3. PICK v \in rows : v.ulid = u
  OBVIOUS
<1>4. \A w \in rows : v.ulid <= w.ulid
  BY <1>2, <1>3
<1> QED  BY <1>3, <1>4 DEF Oldest

-----------------------------------------------------------------------------
\* A step that leaves the histories alone and changes only what node n is
\* about keeps the invariant if it does so for that node.
LEMMA Quiet ==
  ASSUME NodeInv, NEW n \in Nodes, NEW r \in Registration, NEW t \in Merge,
         UNCHANGED <<history, head>>,
         status' \in [Nodes -> {"absent", "draft", "promoted"}],
         reg' = [reg EXCEPT ![n] = r], merge' = [merge EXCEPT ![n] = t],
         r.ulid # 0 => \A m \in Nodes \ {n} : reg[m].ulid # r.ulid,
         RegOK(n)', MergeOK(n)'
  PROVE  NodeInv'
<1>1. Types'
  BY DEF NodeInv, Types
<1>2. \A m \in Nodes : Count(m)' = Count(m) /\ Shas(m)' = Shas(m)
  BY DEF Count, Shas
<1>3. \A u : Stored(u)' <=> Stored(u)
  BY DEF Stored
<1>4. /\ \A m \in Nodes \ {n} : reg'[m] = reg[m] /\ merge'[m] = merge[m]
      /\ reg'[n] = r
  BY DEF NodeInv, Types
<1>5. ASSUME NEW m \in Nodes  PROVE HistoryOK(m)'
  BY <1>2 DEF NodeInv, HistoryOK, Numbers
<1>6. ASSUME NEW m \in Nodes \ {n}  PROVE RegOK(m)'
  BY <1>2, <1>3, <1>4 DEF NodeInv, RegOK
<1>7. ASSUME NEW m \in Nodes \ {n}  PROVE MergeOK(m)'
  BY <1>2, <1>3, <1>4 DEF NodeInv, MergeOK, HasUlid
<1> QED  BY <1>1, <1>5, <1>6, <1>7 DEF NodeInv

\* A row that continues the history leaves it intact.
LEMMA Grown ==
  ASSUME NodeInv, NEW n \in Nodes, NEW r \in StoredVersion,
         r.version = Count(n) + 1, r.sha \notin Shas(n), ~HasUlid(n, r.ulid),
         history' = [history EXCEPT ![n] = history[n] \cup {r}]
  PROVE  /\ history' \in [Nodes -> SUBSET StoredVersion]
         /\ \A m \in Nodes \ {n} : history'[m] = history[m]
         /\ history'[n] = history[n] \cup {r}
         /\ Count(n)' = Count(n) + 1 /\ IsFiniteSet(history'[n])
         /\ Numbers(n)' = 1..Count(n)' /\ Numbers(n) \subseteq Numbers(n)'
         /\ \A v, w \in history'[n] :
              v.version = w.version \/ v.sha = w.sha \/ v.ulid = w.ulid => v = w
         /\ \A u : Stored(u)' <=> Stored(u) \/ u = r.ulid
<1>1. history \in [Nodes -> SUBSET StoredVersion] /\ HistoryOK(n)
  BY DEF NodeInv, Types
<1>2. /\ history' \in [Nodes -> SUBSET StoredVersion]
      /\ \A m \in Nodes \ {n} : history'[m] = history[m]
      /\ history'[n] = history[n] \cup {r}
  BY <1>1
<1>3. Count(n) \in Nat
  BY NextVersionIs
<1>4. r \notin history[n] /\ \A v \in history[n] : v.version # r.version /\ v.sha # r.sha /\ v.ulid # r.ulid
  <2>1. \A v \in history[n] : v.version \in 1..Count(n)
    BY <1>1 DEF HistoryOK, Numbers
  <2> QED  BY <1>3, <2>1 DEF Shas, HasUlid
<1>5. Count(n)' = Count(n) + 1 /\ IsFiniteSet(history'[n])
  BY <1>1, <1>2, <1>4, FS_AddElement DEF HistoryOK, Count
<1>6. Numbers(n)' = Numbers(n) \cup {r.version}
  BY <1>2 DEF Numbers
<1>7. Numbers(n)' = 1..Count(n)' /\ Numbers(n) \subseteq Numbers(n)'
  BY <1>1, <1>3, <1>5, <1>6 DEF HistoryOK
<1>8. \A v, w \in history'[n] :
        v.version = w.version \/ v.sha = w.sha \/ v.ulid = w.ulid => v = w
  BY <1>1, <1>2, <1>4 DEF HistoryOK
<1>9. \A u : Stored(u)' <=> Stored(u) \/ u = r.ulid
  BY <1>1, <1>2 DEF Stored
<1> QED  BY <1>2, <1>5, <1>7, <1>8, <1>9

\* The other nodes do not notice that node n stores a ULID they have not staged.
LEMMA Elsewhere ==
  ASSUME NodeInv, NEW n \in Nodes, NEW u,
         \A m \in Nodes \ {n} : history'[m] = history[m] /\ head'[m] = head[m]
                                /\ reg'[m] = reg[m] /\ merge'[m] = merge[m]
                                /\ reg[m].ulid # u,
         \A x : Stored(x)' <=> Stored(x) \/ x = u,
         reg'[n].ulid \in {0, reg[n].ulid},
         NEW m \in Nodes \ {n}
  PROVE  HistoryOK(m)' /\ RegOK(m)' /\ MergeOK(m)'
<1>1. Count(m)' = Count(m) /\ Shas(m)' = Shas(m) /\ Numbers(m)' = Numbers(m)
  BY DEF Count, Shas, Numbers
<1>2. HistoryOK(m)'
  BY <1>1 DEF NodeInv, HistoryOK
<1>3. RegOK(m)'
  BY <1>1 DEF NodeInv, RegOK
<1>4. MergeOK(m)'
  BY <1>1 DEF NodeInv, MergeOK, HasUlid
<1> QED  BY <1>2, <1>3, <1>4

-----------------------------------------------------------------------------
(* Registrations.                                                          *)

\* Upsert, Lookup and Rollback stage nothing.
LEMMA UnstagedInv ==
  ASSUME NodeInv, NEW n \in Nodes, (\E c \in Contents : Upsert(n, c)) \/ Lookup(n) \/ Rollback(n)
  PROVE  NodeInv'
<1>1. Count(n) \in Nat /\ Count(n) <= MaxUlid /\ NextVersion(n) = Count(n) + 1
  BY NextVersionIs
<1>2. Types /\ RegOK(n) /\ MergeOK(n) /\ reg[n] \in Registration /\ merge[n] \in Merge
  BY DEF NodeInv, Types
<1>3. \E r \in Registration :
        /\ reg' = [reg EXCEPT ![n] = r]
        /\ r.stage \in {"idle", "upserted", "known", "numbered"} /\ r.ulid = 0
        /\ r.stage # "idle" => r.sha \in Contents
        /\ r.stage = "numbered" => r.version \in 1..Count(n) + 1
  <2>1. ASSUME NEW c \in Contents, Upsert(n, c)
        PROVE  /\ [NoRegistration EXCEPT !.stage = "upserted", !.sha = c] \in Registration
               /\ reg' = [reg EXCEPT ![n] = [NoRegistration EXCEPT !.stage = "upserted", !.sha = c]]
    <3>1. c \in Contents \cup {NoContent} /\ 0 \in 0..MaxUlid + 1
      BY NodeSyncAssumption
    <3>2. [NoRegistration EXCEPT !.stage = "upserted", !.sha = c] \in Registration
      BY <3>1 DEF Registration, NoRegistration
    <3> QED  BY <2>1, <3>2 DEF Upsert
  <2>2. CASE \E c \in Contents : Upsert(n, c)
    BY <2>1, <2>2 DEF NoRegistration
  <2>3. CASE Lookup(n) /\ reg[n].sha \in Shas(n)
    <3>1. [reg[n] EXCEPT !.stage = "known"] \in Registration
      BY <1>2 DEF Registration
    <3>2. reg' = [reg EXCEPT ![n] = [reg[n] EXCEPT !.stage = "known"]]
      BY <2>3 DEF Lookup
    <3>3. reg[n].ulid = 0 /\ reg[n].sha \in Contents
      BY <1>2, <2>3 DEF Lookup, RegOK
    <3> QED  BY <1>2, <3>1, <3>2, <3>3 DEF Registration
  <2>4. CASE Lookup(n) /\ reg[n].sha \notin Shas(n)
    <3> DEFINE r == [reg[n] EXCEPT !.stage = "numbered", !.version = NextVersion(n)]
    <3>1. NextVersion(n) \in 1..Count(n) + 1 /\ NextVersion(n) \in 0..MaxUlid + 1
      BY <1>1, NodeSyncAssumption
    <3>2. /\ r \in Registration /\ r.stage = "numbered" /\ r.version = NextVersion(n)
          /\ r.ulid = reg[n].ulid /\ r.sha = reg[n].sha
      BY <1>2, <3>1 DEF Registration
    <3>3. reg' = [reg EXCEPT ![n] = r]
      BY <2>4 DEF Lookup
    <3>4. reg[n].ulid = 0 /\ reg[n].sha \in Contents
      BY <1>2, <2>4 DEF Lookup, RegOK
    <3> HIDE DEF r
    <3> QED  BY <3>1, <3>2, <3>3, <3>4
  <2>5. CASE Rollback(n)
    <3>1. NoRegistration \in Registration
      BY NodeSyncAssumption DEF Registration, NoRegistration
    <3> QED  BY <2>5, <3>1 DEF Rollback, NoRegistration
  <2> QED  BY <2>2, <2>3, <2>4, <2>5
<1>4. PICK r \in Registration :
        /\ reg' = [reg EXCEPT ![n] = r]
        /\ r.stage \in {"idle", "upserted", "known", "numbered"} /\ r.ulid = 0
        /\ r.stage # "idle" => r.sha \in Contents
        /\ r.stage = "numbered" => r.version \in 1..Count(n) + 1
  BY <1>3
<1>5. UNCHANGED <<history, status, head, merge>>
  BY DEF Upsert, Lookup, Rollback
<1>6. reg'[n] = r
  BY <1>2, <1>4 DEF Types
<1>7. RegOK(n)'
  BY <1>4, <1>5, <1>6 DEF RegOK, Count
<1>8. MergeOK(n)'
  BY <1>2, <1>5 DEF MergeOK, Count, HasUlid, Stored
<1>9. merge' = [merge EXCEPT ![n] = merge[n]] /\ status' \in [Nodes -> {"absent", "draft", "promoted"}]
  BY <1>2, <1>5 DEF Types
<1> QED  BY <1>2, <1>4, <1>5, <1>7, <1>8, <1>9, Quiet

\* Insert stages a version that continues the history under a ULID of its own.
LEMMA InsertInv ==
  ASSUME NodeInv, NEW n \in Nodes, NEW u \in Ulids, Insert(n, u)
  PROVE  NodeInv'
<1> DEFINE r == [reg[n] EXCEPT !.stage = "inserted", !.ulid = u]
<1>1. Types /\ RegOK(n) /\ MergeOK(n) /\ HistoryOK(n) /\ reg[n] \in Registration /\ merge[n] \in Merge
  BY DEF NodeInv, Types
<1>2. /\ r \in Registration /\ r.stage = "inserted" /\ r.ulid = u
      /\ r.version = reg[n].version /\ r.sha = reg[n].sha
  BY <1>1 DEF Registration
<1>3. reg' = [reg EXCEPT ![n] = r] /\ UNCHANGED <<history, status, head, merge>>
  BY <1>1 DEF Insert, Types
<1>4. Count(n) \in Nat
  BY NextVersionIs
<1>5. reg[n].version = Count(n) + 1 /\ reg[n].sha \notin Shas(n) /\ reg[n].sha \in Contents
  <2>1. reg[n].version \notin Numbers(n) /\ reg[n].sha \notin Shas(n)
    BY DEF Insert, Clashing, Numbers, Shas
  <2> QED  BY <1>1, <1>4, <2>1 DEF Insert, RegOK, HistoryOK
<1>6. u # 0 /\ ~Stored(u) /\ \A m \in Nodes : reg[m].ulid # u
  BY NodeSyncAssumption DEF Insert, InUse, Stored, Ulids
<1>7. reg'[n] = r
  BY <1>1, <1>3 DEF Types
<1>8. \A m \in Nodes \ {n} : reg'[m] = reg[m]
  BY <1>1, <1>3 DEF Types
<1> HIDE DEF r
<1>9. RegOK(n)'
  <2>1. Count(n)' = Count(n) /\ Shas(n)' = Shas(n) /\ ~Stored(u)'
    BY <1>3, <1>6 DEF Count, Shas, Stored
  <2> QED  BY <1>2, <1>5, <1>6, <1>7, <1>8, <2>1 DEF RegOK
<1>10. MergeOK(n)'
  BY <1>1, <1>3 DEF MergeOK, Count, HasUlid, Stored
<1>11. merge' = [merge EXCEPT ![n] = merge[n]] /\ status' \in [Nodes -> {"absent", "draft", "promoted"}]
  BY <1>1, <1>3 DEF Types
<1> QED  BY <1>1, <1>2, <1>3, <1>6, <1>9, <1>10, <1>11, Quiet

\* Commit of a registration of a content that is known.
LEMMA CommitKnown ==
  ASSUME NodeInv, NEW n \in Nodes, Commit(n), reg[n].stage # "inserted"
  PROVE  NodeInv'
<1>1. Types /\ RegOK(n) /\ MergeOK(n) /\ merge[n] \in Merge
  BY DEF NodeInv, Types
<1>2. reg' = [reg EXCEPT ![n] = NoRegistration] /\ UNCHANGED <<history, head, merge>>
  BY DEF Commit
<1>3. status' \in [Nodes -> {"absent", "draft", "promoted"}]
  BY <1>1 DEF Commit, Types
<1>4. NoRegistration \in Registration /\ NoRegistration.ulid = 0
  BY NodeSyncAssumption DEF Registration, NoRegistration
<1>5. RegOK(n)'
  BY <1>1, <1>2 DEF RegOK, NoRegistration, Types
<1>6. MergeOK(n)'
  BY <1>1, <1>2 DEF MergeOK, Count, HasUlid, Stored
<1>7. merge' = [merge EXCEPT ![n] = merge[n]]
  BY <1>1, <1>2 DEF Types
<1> QED  BY <1>1, <1>2, <1>3, <1>4, <1>5, <1>6, <1>7, Quiet

\* Commit of a staged version: it goes where it was numbered, and no merge has
\* its ULID.
LEMMA CommitStaged ==
  ASSUME NodeInv, NEW n \in Nodes, Commit(n), reg[n].stage = "inserted"
  PROVE  NodeInv'
<1> DEFINE r == [version |-> reg[n].version, sha |-> reg[n].sha, ulid |-> reg[n].ulid]
<1>1. Types /\ RegOK(n) /\ MergeOK(n) /\ HistoryOK(n) /\ reg[n] \in Registration /\ merge[n] \in Merge
  BY DEF NodeInv, Types
<1>2. /\ history' = [history EXCEPT ![n] = history[n] \cup {r}]
      /\ head' = [head EXCEPT ![n] = r.version]
      /\ reg' = [reg EXCEPT ![n] = NoRegistration] /\ UNCHANGED merge
  BY DEF Commit
<1>3. r.ulid \in Ulids /\ ~Stored(r.ulid) /\ ~HasUlid(n, r.ulid)
  BY <1>1 DEF RegOK, Registration, Stored, HasUlid
<1>4. Count(n) \in Nat /\ Count(n) + 1 <= MaxUlid
  BY <1>3, NextVersionIs, RoomForOne
<1>5. r.version = Count(n) + 1 /\ r.sha \in Contents /\ r.sha \notin Shas(n)
  BY <1>1 DEF RegOK
<1>6. r \in StoredVersion
  BY <1>3, <1>4, <1>5, NodeSyncAssumption DEF StoredVersion
<1> HIDE DEF r
<1>7. /\ history' \in [Nodes -> SUBSET StoredVersion]
      /\ \A m \in Nodes \ {n} : history'[m] = history[m]
      /\ history'[n] = history[n] \cup {r}
      /\ Count(n)' = Count(n) + 1 /\ IsFiniteSet(history'[n])
      /\ Numbers(n)' = 1..Count(n)'
      /\ \A v, w \in history'[n] :
           v.version = w.version \/ v.sha = w.sha \/ v.ulid = w.ulid => v = w
      /\ \A u : Stored(u)' <=> Stored(u) \/ u = r.ulid
  BY <1>2, <1>3, <1>5, <1>6, Grown
<1>8. Types'
  <2>1. NoRegistration \in Registration /\ r.version \in 0..MaxUlid
    BY <1>4, <1>5, NodeSyncAssumption DEF Registration, NoRegistration
  <2>2. status' \in [Nodes -> {"absent", "draft", "promoted"}]
    BY <1>1 DEF Commit, Types
  <2> QED  BY <1>1, <1>2, <1>7, <2>1, <2>2 DEF Types
<1>9. /\ reg'[n] = NoRegistration /\ head'[n] = r.version
      /\ \A m \in Nodes \ {n} : head'[m] = head[m] /\ reg'[m] = reg[m] /\ merge'[m] = merge[m]
  BY <1>1, <1>2 DEF Types
<1>10. HistoryOK(n)'
  BY <1>4, <1>5, <1>7, <1>9 DEF HistoryOK
<1>11. RegOK(n)'
  BY <1>9 DEF RegOK, NoRegistration
<1>12. MergeOK(n)'
  <2>1. \A v \in merge[n].todo : v.ulid # r.ulid
    BY <1>1, <1>3 DEF MergeOK
  <2>2. merge[n].todo # {} => Oldest(merge[n].todo) \in merge[n].todo
    BY <1>1, OldestIn DEF Merge
  <2>3. ASSUME merge[n].stage = "insert"
        PROVE  merge[n].version \in 1..Count(n)' + 1 /\ ~HasUlid(n, Oldest(merge[n].todo).ulid)'
    BY <1>1, <1>2, <1>4, <1>7, <2>1, <2>2, <2>3 DEF MergeOK, HasUlid
  <2> QED  BY <1>1, <1>2, <1>7, <2>3 DEF MergeOK
<1>13. \A m \in Nodes \ {n} : reg[m].ulid # r.ulid
  <2>1. r.ulid = reg[n].ulid
    BY DEF r
  <2> QED  BY <1>1, <2>1 DEF RegOK
<1>14. ASSUME NEW m \in Nodes \ {n}  PROVE HistoryOK(m)' /\ RegOK(m)' /\ MergeOK(m)'
  <2>1. reg'[n].ulid \in {0, reg[n].ulid}
    BY <1>9 DEF NoRegistration
  <2> QED  BY <1>7, <1>9, <1>13, <2>1, Elsewhere
<1> QED  BY <1>8, <1>10, <1>11, <1>12, <1>14 DEF NodeInv

-----------------------------------------------------------------------------
(* Promotions and imports.                                                 *)

\* A promotion concerns the status alone.
LEMMA PromoteInv ==
  ASSUME NodeInv, NEW n \in Nodes, Promote(n)
  PROVE  NodeInv'
<1>1. Types /\ RegOK(n) /\ MergeOK(n) /\ reg[n] \in Registration /\ merge[n] \in Merge
  BY DEF NodeInv, Types
<1>2. UNCHANGED <<history, head, reg, merge>> /\ status' \in [Nodes -> {"absent", "draft", "promoted"}]
  BY <1>1 DEF Promote, Types
<1>3. RegOK(n)' /\ MergeOK(n)'
  BY <1>1, <1>2 DEF RegOK, MergeOK, Count, Shas, HasUlid, Stored
<1>4. reg' = [reg EXCEPT ![n] = reg[n]] /\ merge' = [merge EXCEPT ![n] = merge[n]]
  BY <1>1, <1>2 DEF Types
<1>5. reg[n].ulid # 0 => \A m \in Nodes \ {n} : reg[m].ulid # reg[n].ulid
  BY <1>1 DEF RegOK
<1> QED  BY <1>1, <1>2, <1>3, <1>4, <1>5, Quiet

\* A step of the merge that stores nothing.
LEMMA MergeQuiet ==
  ASSUME NodeInv, NEW n \in Nodes, NEW t \in Merge,
         UNCHANGED <<history, head, reg>>, merge' = [merge EXCEPT ![n] = t],
         status' \in [Nodes -> {"absent", "draft", "promoted"}],
         t.stage = "idle" <=> t.todo = {},
         \A v \in t.todo : Stored(v.ulid),
         t.stage = "insert" =>
           t.version \in 1..Count(n) + 1 /\ ~HasUlid(n, Oldest(t.todo).ulid)
  PROVE  NodeInv'
<1>1. Types /\ RegOK(n) /\ reg[n] \in Registration
  BY DEF NodeInv, Types
<1>2. reg' = [reg EXCEPT ![n] = reg[n]] /\ merge'[n] = t
  BY <1>1 DEF Types
<1>3. RegOK(n)'
  BY <1>1 DEF RegOK, Count, Shas, Stored
<1>4. MergeOK(n)'
  BY <1>2 DEF MergeOK, Count, HasUlid, Stored
<1>5. reg[n].ulid # 0 => \A m \in Nodes \ {n} : reg[m].ulid # reg[n].ulid
  BY <1>1 DEF RegOK
<1> QED  BY <1>1, <1>2, <1>3, <1>4, <1>5, Quiet

\* What NextRow leaves of a batch.
LEMMA NextRowIs ==
  ASSUME NodeInv, NEW n \in Nodes, NextRow(n)
  PROVE  \E t \in Merge :
           /\ merge' = [merge EXCEPT ![n] = t]
           /\ t.stage = "idle" <=> t.todo = {}
           /\ t.stage # "insert" /\ t.todo \subseteq merge[n].todo
<1> DEFINE rest == merge[n].todo \ {Oldest(merge[n].todo)}
           t == IF rest = {} THEN NoMerge ELSE [NoMerge EXCEPT !.stage = "skill", !.todo = rest]
<1>1. merge[n].todo \in SUBSET StoredVersion
  BY DEF NodeInv, Types, Merge
<1>2. NoMerge \in Merge
  BY NodeSyncAssumption DEF Merge, NoMerge
<1>3. t \in Merge
  BY <1>1, <1>2 DEF Merge, NoMerge
<1>4. (t.stage = "idle" <=> t.todo = {}) /\ t.stage # "insert" /\ t.todo \subseteq merge[n].todo
  BY <1>1 DEF NoMerge
<1>5. merge' = [merge EXCEPT ![n] = t]
  BY DEF NextRow
<1> QED  BY <1>3, <1>4, <1>5

\* The steps of a merge before its INSERT.
LEMMA LookInv ==
  ASSUME NodeInv, NEW n \in Nodes,
         (\E m \in Nodes, since \in {0} \cup Ulids, limit \in Ulids : Export(n, m, since, limit))
         \/ EnsureSkill(n) \/ Dedup(n) \/ Abandon(n)
  PROVE  NodeInv'
<1>1. Types /\ MergeOK(n) /\ merge[n] \in Merge
  BY DEF NodeInv, Types
<1>2. UNCHANGED <<history, head, reg>>
  BY DEF Export, EnsureSkill, Dedup, Abandon
<1>3. status' \in [Nodes -> {"absent", "draft", "promoted"}]
  BY <1>1 DEF Types, Export, EnsureSkill, Dedup, Abandon
<1>4. NoMerge \in Merge
  BY NodeSyncAssumption DEF Merge, NoMerge
<1>5. ASSUME NEW m \in Nodes, NEW since \in {0} \cup Ulids, NEW limit \in Ulids, Export(n, m, since, limit)
      PROVE  NodeInv'
  <2> DEFINE t == [NoMerge EXCEPT !.stage = "skill", !.todo = Exported(m, since, limit)]
  <2>1. Exported(m, since, limit) \subseteq history[m] /\ Exported(m, since, limit) # {}
    BY <1>5 DEF Export, Exported
  <2>2. t \in Merge /\ t.stage = "skill" /\ t.todo = Exported(m, since, limit)
    BY <1>1, <1>4, <2>1 DEF Merge, NoMerge, Types
  <2>3. \A v \in t.todo : Stored(v.ulid)
    BY <2>1, <2>2 DEF Stored
  <2>4. merge' = [merge EXCEPT ![n] = t]
    BY <1>5 DEF Export
  <2> HIDE DEF t
  <2> QED  BY <1>2, <1>3, <2>1, <2>2, <2>3, <2>4, MergeQuiet
<1>6. CASE EnsureSkill(n)
  <2> DEFINE t == [merge[n] EXCEPT !.stage = "dedup"]
  <2>1. t \in Merge /\ t.stage = "dedup" /\ t.todo = merge[n].todo
    BY <1>1 DEF Merge
  <2>2. merge' = [merge EXCEPT ![n] = t] /\ merge[n].stage = "skill"
    BY <1>6 DEF EnsureSkill
  <2> HIDE DEF t
  <2> QED  BY <1>1, <1>2, <1>3, <2>1, <2>2, MergeQuiet DEF MergeOK
<1>7. CASE Dedup(n) /\ NextRow(n)
  <2>1. PICK t \in Merge :
          /\ merge' = [merge EXCEPT ![n] = t]
          /\ t.stage = "idle" <=> t.todo = {}
          /\ t.stage # "insert" /\ t.todo \subseteq merge[n].todo
    BY <1>7, NextRowIs
  <2> QED  BY <1>1, <1>2, <1>3, <2>1, MergeQuiet DEF MergeOK
<1>8. CASE Dedup(n) /\ ~NextRow(n)
  <2> DEFINE t == [merge[n] EXCEPT !.stage = "insert", !.version = NextVersion(n)]
  <2>1. Count(n) \in Nat /\ Count(n) <= MaxUlid /\ NextVersion(n) = Count(n) + 1
    BY NextVersionIs
  <2>2. NextVersion(n) \in 0..MaxUlid + 1 /\ NextVersion(n) \in 1..Count(n) + 1
    BY <2>1, NodeSyncAssumption
  <2>3. t \in Merge /\ t.stage = "insert" /\ t.todo = merge[n].todo /\ t.version = NextVersion(n)
    BY <1>1, <2>2 DEF Merge
  <2>4. merge[n].stage = "dedup" /\ merge' = [merge EXCEPT ![n] = t]
    BY <1>8 DEF Dedup
  <2>5. ~HasUlid(n, Oldest(merge[n].todo).ulid)
    BY <1>8 DEF Dedup, HasUlid
  <2> HIDE DEF t
  <2> QED  BY <1>1, <1>2, <1>3, <2>2, <2>3, <2>4, <2>5, MergeQuiet DEF MergeOK
<1>9. CASE Abandon(n)
  <2>1. merge' = [merge EXCEPT ![n] = NoMerge]
    BY <1>9 DEF Abandon
  <2> QED  BY <1>2, <1>3, <1>4, <2>1, MergeQuiet DEF NoMerge
<1> QED  BY <1>5, <1>6, <1>7, <1>8, <1>9

\* ImportVersion: a number that is free is the next one, and nobody has staged it.
LEMMA ImportInv ==
  ASSUME NodeInv, NEW n \in Nodes, ImportVersion(n)
  PROVE  NodeInv'
<1> DEFINE o == Oldest(merge[n].todo)
           r == Imported(o, merge[n].version)
<1>1. Types /\ RegOK(n) /\ MergeOK(n) /\ HistoryOK(n) /\ reg[n] \in Registration /\ merge[n] \in Merge
  BY DEF NodeInv, Types
<1>2. UNCHANGED <<status, head, reg>> /\ merge[n].stage = "insert"
  BY DEF ImportVersion
<1>3. o \in merge[n].todo /\ o \in StoredVersion
  BY <1>1, <1>2, OldestIn DEF MergeOK, Merge
<1>4. Stored(o.ulid) /\ ~HasUlid(n, o.ulid) /\ o.ulid \in Ulids
  BY <1>1, <1>2, <1>3 DEF MergeOK, StoredVersion
<1>5. NoMerge \in Merge
  BY NodeSyncAssumption DEF Merge, NoMerge
<1>6. CASE Clashing(n, merge[n].version, o.sha)
  <2>1. merge' = [merge EXCEPT ![n] = NoMerge] /\ UNCHANGED history
    BY <1>6 DEF ImportVersion
  <2>2. status' \in [Nodes -> {"absent", "draft", "promoted"}]
    BY <1>1, <1>2 DEF Types
  <2> QED  BY <1>2, <1>5, <2>1, <2>2, MergeQuiet DEF NoMerge
<1>7. CASE ~Clashing(n, merge[n].version, o.sha)
  <2>1. Count(n) \in Nat /\ Count(n) + 1 <= MaxUlid
    BY <1>4, NextVersionIs, RoomForOne
  <2>2. merge[n].version = Count(n) + 1 /\ o.sha \notin Shas(n)
    <3>1. merge[n].version \notin Numbers(n) /\ o.sha \notin Shas(n)
      BY <1>7 DEF Clashing, Numbers, Shas
    <3> QED  BY <1>1, <1>2, <2>1, <3>1 DEF MergeOK, HistoryOK
  <2>3. history' = [history EXCEPT ![n] = history[n] \cup {r}] /\ NextRow(n)
    BY <1>1, <1>7 DEF ImportVersion, Types
  <2>4. r.version = Count(n) + 1 /\ r.sha = o.sha /\ r.ulid = o.ulid /\ r \in StoredVersion
    BY <1>3, <2>1, <2>2, NodeSyncAssumption DEF StoredVersion, Imported
  <2>5. PICK t \in Merge :
          /\ merge' = [merge EXCEPT ![n] = t]
          /\ t.stage = "idle" <=> t.todo = {}
          /\ t.stage # "insert" /\ t.todo \subseteq merge[n].todo
    BY <2>3, NextRowIs
  <2>6. reg[n].stage # "inserted"
    BY <1>1, <2>2 DEF ImportVersion, RegOK
  <2> HIDE DEF o, r
  <2>7. /\ history' \in [Nodes -> SUBSET StoredVersion]
        /\ \A m \in Nodes \ {n} : history'[m] = history[m]
        /\ Count(n)' = Count(n) + 1 /\ IsFiniteSet(history'[n])
        /\ Numbers(n)' = 1..Count(n)' /\ Numbers(n) \subseteq Numbers(n)'
        /\ \A v, w \in history'[n] :
             v.version = w.version \/ v.sha = w.sha \/ v.ulid = w.ulid => v = w
        /\ \A u : Stored(u)' <=> Stored(u) \/ u = o.ulid
    BY <1>4, <2>2, <2>3, <2>4, Grown
  <2>8. Types' /\ merge'[n] = t /\ \A m \in Nodes \ {n} : merge'[m] = merge[m]
    BY <1>1, <1>2, <2>5, <2>7 DEF Types
  <2>9. HistoryOK(n)'
    BY <1>1, <1>2, <2>7 DEF HistoryOK
  <2>10. RegOK(n)'
    BY <1>1, <1>2, <2>1, <2>6, <2>7 DEF RegOK
  <2>11. MergeOK(n)'
    BY <1>1, <2>5, <2>7, <2>8 DEF MergeOK
  <2>12. \A m \in Nodes \ {n} : reg[m].ulid # o.ulid
    BY <1>4, NodeSyncAssumption DEF NodeInv, RegOK, Ulids
  <2>13. ASSUME NEW m \in Nodes \ {n}  PROVE HistoryOK(m)' /\ RegOK(m)' /\ MergeOK(m)'
    BY <1>2, <2>7, <2>8, <2>12, Elsewhere
  <2> QED  BY <2>8, <2>9, <2>10, <2>11, <2>13 DEF NodeInv
<1> QED  BY <1>6, <1>7

-----------------------------------------------------------------------------
\* The invariant holds in every state.
LEMMA NodeInvHolds == Spec => []NodeInv
<1>1. ASSUME NodeInv, [Next]_vars  PROVE NodeInv'
  <2>1. CASE UNCHANGED vars
    <3>1. Types'
      BY <1>1, <2>1 DEF NodeInv, Types, vars
    <3>2. ASSUME NEW n \in Nodes  PROVE HistoryOK(n)' /\ RegOK(n)' /\ MergeOK(n)'
      <4>1. Count(n)' = Count(n) /\ Numbers(n)' = Numbers(n) /\ Shas(n)' = Shas(n)
        BY <2>1 DEF vars, Count, Numbers, Shas
      <4> QED
        BY <1>1, <2>1, <4>1 DEF NodeInv, HistoryOK, RegOK, MergeOK, vars, HasUlid, Stored
    <3> QED  BY <3>1, <3>2 DEF NodeInv
  <2>2. ASSUME NEW n \in Nodes, Commit(n)  PROVE NodeInv'
    BY <1>1, <2>2, CommitKnown, CommitStaged
  <2> QED
    BY <1>1, <2>1, <2>2, UnstagedInv, InsertInv, PromoteInv, LookInv, ImportInv
    DEF Next, Register, Import
<1> QED  BY <1>1, InvInit, PTL DEF Spec

\* Every merge that goes on has a version to import, whatever clashes or is
\* cut short (ImportSkillVersions).
THEOREM NodeTypes == Spec => []NodeTypeOK
<1>1. ASSUME NodeInv  PROVE NodeTypeOK
  BY <1>1 DEF NodeInv, Types, MergeOK, NodeTypeOK
<1> QED  BY <1>1, NodeInvHolds, PTL

\* Imports and registrations of one skill that number side by side leave every
\* node's history without gap or repetition (ImportSkillVersions,
\* registerVersionTx).
THEOREM NodeHistoriesIntact == Spec => []NodeHistoryIntact
<1>1. ASSUME NodeInv  PROVE NodeHistoryIntact
  BY <1>1 DEF NodeInv, HistoryOK, Numbers, Count, NodeHistoryIntact
<1> QED  BY <1>1, NodeInvHolds, PTL

-----------------------------------------------------------------------------
(* Each step of the nodes is one of VersionLog, or none.                   *)

\* Histories only grow.
Grows == \A m \in Nodes : history[m] \subseteq history'[m]

\* Some node has the identity of v with its content.
Known(v) == \E m \in Nodes : \E w \in history[m] : w.ulid = v.ulid /\ w.sha = v.sha

\* What a merge has still to import is stored at a node as it is.
CopiesOK == \A n \in Nodes : \A v \in merge[n].todo : Known(v)

\* A version that continues a history is appended to it.
LEMMA AppendIs ==
  ASSUME NodeInv, NEW n \in Nodes, NEW r, r.version = Count(n) + 1, r.sha \notin Shas(n),
         history' = [history EXCEPT ![n] = history[n] \cup {r}]
  PROVE  Log!Append(n, r)
<1>1. Count(n) \in Nat /\ Numbers(n) = 1..Count(n)
  BY NextVersionIs DEF NodeInv, HistoryOK
<1>2. \A w \in history[n] : w.version < r.version /\ w.sha # r.sha
  <2>1. \A w \in history[n] : w.version \in 1..Count(n)
    BY <1>1 DEF Numbers
  <2> QED  BY <1>1, <2>1 DEF Shas
<1>3. r.version = 1 \/ \E w \in history[n] : w.version = r.version - 1
  <2>1. Count(n) = 0 \/ Count(n) \in Numbers(n)
    BY <1>1
  <2> QED  BY <1>1, <2>1 DEF Numbers
<1> QED  BY <1>2, <1>3 DEF Log!Append

\* A commit of a staged version is a registration of the log.
LEMMA CommitRegisters ==
  ASSUME NodeInv, NEW n \in Nodes, Commit(n), reg[n].stage = "inserted"
  PROVE  \E v \in StoredVersion : Log!RegisterVersion(n, v)
<1> DEFINE r == [version |-> reg[n].version, sha |-> reg[n].sha, ulid |-> reg[n].ulid]
<1>1. RegOK(n) /\ reg[n] \in Registration
  BY DEF NodeInv, Types
<1>2. r.ulid \in Ulids /\ ~Stored(r.ulid) /\ ~HasUlid(n, r.ulid)
  BY <1>1 DEF RegOK, Registration, Stored, HasUlid
<1>3. Count(n) \in Nat /\ Count(n) + 1 <= MaxUlid
  BY <1>2, NextVersionIs, RoomForOne
<1>4. r.version = Count(n) + 1 /\ r.sha \in Contents /\ r.sha \notin Shas(n)
  BY <1>1 DEF RegOK
<1>5. r \in StoredVersion
  BY <1>2, <1>3, <1>4, NodeSyncAssumption DEF StoredVersion
<1>6. /\ history' = [history EXCEPT ![n] = history[n] \cup {r}]
      /\ head' = [head EXCEPT ![n] = r.version]
  BY DEF Commit
<1> HIDE DEF r
<1>7. Log!Append(n, r)
  BY <1>4, <1>6, AppendIs
<1>8. Log!RegisterVersion(n, r)
  BY <1>2, <1>6, <1>7 DEF Log!RegisterVersion, Stored
<1> QED  BY <1>5, <1>8

\* An INSERT of an import that succeeds is an import of the log.
LEMMA ImportImports ==
  ASSUME NodeInv, CopiesOK, NEW n \in Nodes, ImportVersion(n)
  PROVE  \/ UNCHANGED <<history, head>>
         \/ \E v \in StoredVersion : Log!ImportVersion(n, v)
<1> DEFINE o == Oldest(merge[n].todo)
           r == Imported(o, merge[n].version)
<1>1. Types /\ MergeOK(n) /\ HistoryOK(n) /\ merge[n] \in Merge
  BY DEF NodeInv, Types
<1>2. UNCHANGED head /\ merge[n].stage = "insert"
  BY DEF ImportVersion
<1>3. o \in merge[n].todo /\ o \in StoredVersion
  BY <1>1, <1>2, OldestIn DEF MergeOK, Merge
<1>4. Known(o) /\ ~HasUlid(n, o.ulid) /\ o.ulid \in Ulids
  BY <1>1, <1>2, <1>3 DEF MergeOK, StoredVersion, CopiesOK
<1>5. CASE Clashing(n, merge[n].version, o.sha)
  BY <1>2, <1>5 DEF ImportVersion
<1>6. CASE ~Clashing(n, merge[n].version, o.sha)
  <2>1. Count(n) \in Nat /\ Count(n) + 1 <= MaxUlid
    BY <1>4, NextVersionIs, RoomForOne
  <2>2. merge[n].version = Count(n) + 1 /\ o.sha \notin Shas(n)
    <3>1. merge[n].version \notin Numbers(n) /\ o.sha \notin Shas(n)
      BY <1>6 DEF Clashing, Numbers, Shas
    <3> QED  BY <1>1, <1>2, <2>1, <3>1 DEF MergeOK, HistoryOK
  <2>3. history' = [history EXCEPT ![n] = history[n] \cup {r}]
    BY <1>1, <1>6 DEF ImportVersion, Types
  <2>4. r.version = Count(n) + 1 /\ r.sha = o.sha /\ r.ulid = o.ulid /\ r \in StoredVersion
    BY <1>3, <2>1, <2>2, NodeSyncAssumption DEF StoredVersion, Imported
  <2> HIDE DEF o, r
  <2>5. Log!Append(n, r)
    BY <2>2, <2>3, <2>4, AppendIs
  <2>6. Log!ImportVersion(n, r)
    BY <1>2, <1>4, <2>4, <2>5 DEF Log!ImportVersion, Known, HasUlid
  <2> QED  BY <2>4, <2>6
<1> QED  BY <1>5, <1>6

\* No other step stores anything or moves a head.
LEMMA StepIsLog ==
  ASSUME NodeInv, CopiesOK, [Next]_vars
  PROVE  [Log!LogNext]_Log!logVars
<1>1. CASE UNCHANGED <<history, head>>
  BY <1>1 DEF Log!logVars
<1>2. ASSUME NEW n \in Nodes, Commit(n)  PROVE [Log!LogNext]_Log!logVars
  <2>1. CASE reg[n].stage = "inserted"
    BY <1>2, <2>1, CommitRegisters DEF Log!LogNext
  <2>2. CASE reg[n].stage # "inserted"
    BY <1>1, <1>2, <2>2 DEF Commit
  <2> QED  BY <2>1, <2>2
<1>3. ASSUME NEW n \in Nodes, ImportVersion(n)  PROVE [Log!LogNext]_Log!logVars
  BY <1>1, <1>3, ImportImports DEF Log!LogNext
<1> QED
  BY <1>1, <1>2, <1>3
  DEF Next, Register, Import, Upsert, Lookup, Insert, Rollback, Promote, Export, EnsureSkill,
      Dedup, Abandon, vars

\* A merge takes what a node has, and histories only grow.
LEMMA CopiesStep == NodeInv /\ CopiesOK /\ [Next]_vars => CopiesOK'
<1> SUFFICES ASSUME NodeInv, CopiesOK, [Next]_vars  PROVE CopiesOK'
  OBVIOUS
<1>1. history \in [Nodes -> SUBSET StoredVersion] /\ merge \in [Nodes -> Merge]
  BY DEF NodeInv, Types
<1>2. Grows
  <2>1. ASSUME NEW n \in Nodes, NEW v, Log!Append(n, v)  PROVE Grows
    BY <1>1, <2>1 DEF Log!Append, Grows
  <2> QED
    BY <2>1, StepIsLog
    DEF Log!LogNext, Log!RegisterVersion, Log!ImportVersion, Log!logVars, Grows
<1>3. ASSUME NEW n \in Nodes, NEW t \in Merge, merge' = [merge EXCEPT ![n] = t],
             \A v \in t.todo : v \in merge[n].todo \/ \E m \in Nodes : v \in history[m]
      PROVE  CopiesOK'
  <2>1. ASSUME NEW m \in Nodes, NEW v \in merge'[m].todo  PROVE Known(v)
    BY <1>1, <1>3, <2>1 DEF CopiesOK, Known
  <2> QED  BY <1>2, <2>1 DEF CopiesOK, Known, Grows
<1>4. CASE UNCHANGED merge
  BY <1>2, <1>4 DEF CopiesOK, Known, Grows
<1>5. NoMerge \in Merge
  BY NodeSyncAssumption DEF Merge, NoMerge
<1>6. ASSUME NEW n \in Nodes, merge' = [merge EXCEPT ![n] = NoMerge]  PROVE CopiesOK'
  BY <1>3, <1>5, <1>6 DEF NoMerge
<1>7. ASSUME NEW n \in Nodes, NextRow(n)  PROVE CopiesOK'
  <2>1. PICK t \in Merge : merge' = [merge EXCEPT ![n] = t] /\ t.todo \subseteq merge[n].todo
    BY <1>7, NextRowIs
  <2> QED  BY <1>3, <2>1
<1>8. ASSUME NEW n \in Nodes, NEW m \in Nodes, NEW since \in {0} \cup Ulids, NEW limit \in Ulids,
             Export(n, m, since, limit)
      PROVE  CopiesOK'
  <2> DEFINE t == [NoMerge EXCEPT !.stage = "skill", !.todo = Exported(m, since, limit)]
  <2>1. Exported(m, since, limit) \subseteq history[m]
    BY DEF Exported
  <2>2. t \in Merge /\ t.todo = Exported(m, since, limit) /\ merge' = [merge EXCEPT ![n] = t]
    BY <1>1, <1>5, <1>8, <2>1 DEF Merge, NoMerge, Export
  <2> HIDE DEF t
  <2> QED  BY <1>3, <2>1, <2>2
<1>9. ASSUME NEW n \in Nodes, EnsureSkill(n)  PROVE CopiesOK'
  <2> DEFINE t == [merge[n] EXCEPT !.stage = "dedup"]
  <2>1. t \in Merge /\ t.todo = merge[n].todo /\ merge' = [merge EXCEPT ![n] = t]
    BY <1>1, <1>9 DEF Merge, EnsureSkill
  <2> HIDE DEF t
  <2> QED  BY <1>3, <2>1
<1>10. ASSUME NEW n \in Nodes, Dedup(n), ~NextRow(n)  PROVE CopiesOK'
  <2> DEFINE t == [merge[n] EXCEPT !.stage = "insert", !.version = NextVersion(n)]
  <2>1. NextVersion(n) \in 0..MaxUlid + 1
    <3>1. Count(n) \in Nat /\ Count(n) <= MaxUlid /\ NextVersion(n) = Count(n) + 1
      BY NextVersionIs
    <3> QED  BY <3>1, NodeSyncAssumption
  <2>2. t \in Merge /\ t.todo = merge[n].todo /\ merge' = [merge EXCEPT ![n] = t]
    BY <1>1, <1>10, <2>1 DEF Merge, Dedup
  <2> HIDE DEF t
  <2> QED  BY <1>3, <2>2
<1>11. ASSUME NEW n \in Nodes, ImportVersion(n)  PROVE CopiesOK'
  <2>1. merge' = [merge EXCEPT ![n] = NoMerge] \/ NextRow(n)
    BY <1>11 DEF ImportVersion
  <2> QED  BY <1>6, <1>7, <2>1
<1> QED
  BY <1>4, <1>6, <1>7, <1>8, <1>9, <1>10, <1>11
  DEF Next, Register, Import, Upsert, Lookup, Insert, Commit, Rollback, Promote, Abandon, vars

\* What a batch carries is stored, in every state.
LEMMA CopiesHold == Spec => []CopiesOK
<1>1. Init => CopiesOK
  BY DEF Init, CopiesOK, NoMerge
<1> QED  BY <1>1, CopiesStep, NodeInvHolds, PTL DEF Spec

\* ImplementsVersionLog: what the statements of registrations and imports do
\* to the histories, in any order, are registrations and imports of the log.
THEOREM NodesImplementLog == Spec => ImplementsVersionLog
<1>1. Init => Log!LogInit
  BY DEF Init, Log!LogInit
<1>2. NodeInv /\ CopiesOK /\ [Next]_vars => [Log!LogNext]_Log!logVars
  BY StepIsLog
<1> QED  BY <1>1, <1>2, NodeInvHolds, CopiesHold, PTL DEF Spec, ImplementsVersionLog, Log!LogSpec

\* UlidNamesContent: a copy brings the content it stood for at its source.
THEOREM UlidsNameContents == Spec => []UlidNamesContent
<1>1. ASSUME NodeInv, CopiesOK, UlidNamesContent, [Next]_vars  PROVE UlidNamesContent'
  <2>1. history \in [Nodes -> SUBSET StoredVersion]
    BY <1>1 DEF NodeInv, Types
  <2>2. CASE UNCHANGED history
    BY <1>1, <2>2 DEF UlidNamesContent
  <2>3. ASSUME NEW n \in Nodes, NEW r, history' = [history EXCEPT ![n] = history[n] \cup {r}],
               \A m \in Nodes : \A w \in history[m] : w.ulid = r.ulid => w.sha = r.sha
        PROVE  UlidNamesContent'
    <3>1. \A m \in Nodes : \A v \in history'[m] : v = r \/ v \in history[m]
      BY <2>1, <2>3
    <3> QED  BY <1>1, <2>3, <3>1 DEF UlidNamesContent
  <2>4. ASSUME NEW n \in Nodes, NEW r \in StoredVersion, Log!RegisterVersion(n, r)
        PROVE  UlidNamesContent'
    BY <2>3, <2>4 DEF Log!RegisterVersion, Log!Append
  <2>5. ASSUME NEW n \in Nodes, NEW r \in StoredVersion, Log!ImportVersion(n, r)
        PROVE  UlidNamesContent'
    <3>1. \A m \in Nodes : \A w \in history[m] : w.ulid = r.ulid => w.sha = r.sha
      BY <1>1, <2>5 DEF Log!ImportVersion, UlidNamesContent
    <3> QED  BY <2>3, <2>5, <3>1 DEF Log!ImportVersion, Log!Append
  <2> QED  BY <1>1, <2>2, <2>4, <2>5, StepIsLog DEF Log!LogNext, Log!logVars
<1>2. Init => UlidNamesContent
  BY DEF Init, UlidNamesContent
<1> QED  BY <1>1, <1>2, NodeInvHolds, CopiesHold, PTL DEF Spec

=============================================================================
