-------------------------- MODULE SkillsDirProofs --------------------------
(***************************************************************************)
(* The skills dir, for any number of skills, dirs and processes: with one  *)
(* process at a time every SKILL.md that is not the user's is whole.       *)
(*                                                                         *)
(* DirTypeOK alone is not inductive: what a process writes into a file is  *)
(* a content only because Examine goes on with nothing else (ProcessOK).   *)
(***************************************************************************)
EXTENDS SkillsDir, TLAPS

Files == Data \cup {NoFile}

\* A process has a file open exactly while it writes, the file that it has
\* open is there, and it writes nothing but contents.
ProcessOK(p) ==
  /\ sync[p].fd # "none" <=> sync[p].stage = "write"
  /\ sync[p].fd = "temp" => temp[Dir(p)] # NoFile
  /\ sync[p].fd = "live" => live[Dir(p)] # NoFile
  /\ sync[p].stage # "idle" => sync[p].entry # "unknown"
  /\ sync[p].stage \in {"open", "write", "rename"} => sync[p].entry \in Contents

Typed ==
  /\ wanted \in [Names -> Contents \cup {"retired", "unknown"}]
  /\ live \in [Dirs -> Files]
  /\ temp \in [Dirs -> Files]
  /\ sync \in [Syncers -> Busy]

DirInv == Typed /\ \A p \in Syncers : ProcessOK(p)

\* No file is NoFile, and a user's file is not the syncer's.
LEMMA FileFacts ==
  /\ NoFile \notin Data /\ EmptyFile \in Data
  /\ \A c \in Contents : c \notin {"mine", "unparsable", "empty", "none", "retired", "unknown"}
  /\ \A c \in Contents : Whole(c) \in Data
BY SkillsDirAssumption DEF NoFile, EmptyFile, Data, Whole

\* Every process works below a dir of the model.
LEMMA DirFacts ==
  ASSUME Typed, NEW p \in Syncers
  PROVE  Dir(p) \in Dirs
BY SkillsDirAssumption DEF Typed, Busy, Dir, Dirs

\* A process that ends its entry is idle.
LEMMA EndsMoves ==
  ASSUME sync \in [Syncers -> Busy], NEW p \in Syncers, Ends(p)
  PROVE  /\ sync' \in [Syncers -> Busy]
         /\ sync'[p].stage = "idle" /\ sync'[p].fd = "none" /\ sync'[p].name = sync[p].name
         /\ \A q \in Syncers \ {p} : sync'[q] = sync[q]
<1>1. Idle(sync[p].name) \in Busy
  BY DEF Idle, Busy
<1> QED  BY <1>1 DEF Ends, Idle

\* What becomes of the open files of the others, and of nothing else.
LEMMA EndsAndMovesMoves ==
  ASSUME sync \in [Syncers -> Busy], NEW p \in Syncers, NEW ds,
         NEW becomes \in {Renamed, Unlinked}, EndsAndMoves(p, ds, becomes)
  PROVE  /\ sync' \in [Syncers -> Busy]
         /\ sync'[p].stage = "idle" /\ sync'[p].fd = "none" /\ sync'[p].name = sync[p].name
         /\ \A q \in Syncers \ {p} :
              sync'[q] = IF Dir(q) \in ds THEN [sync[q] EXCEPT !.fd = becomes[sync[q].fd]] ELSE sync[q]
<1> DEFINE moved == [q \in Syncers |->
             IF Dir(q) \in ds THEN [sync[q] EXCEPT !.fd = becomes[sync[q].fd]] ELSE sync[q]]
<1>1. \A f \in {"none", "temp", "live", "gone"} : becomes[f] \in {"none", "temp", "live", "gone"}
  BY DEF Renamed, Unlinked
<1>2. moved \in [Syncers -> Busy] /\ \A q \in Syncers : moved[q].name = sync[q].name
  BY <1>1 DEF Busy
<1>3. Idle(moved[p].name) \in Busy
  BY <1>2 DEF Idle, Busy
<1>4. sync' = [moved EXCEPT ![p] = Idle(moved[p].name)]
  BY DEF EndsAndMoves
<1> QED  BY <1>2, <1>3, <1>4 DEF Idle

\* What becomes of the open files when the user acts on a dir.
LEMMA MovesMoves ==
  ASSUME sync \in [Syncers -> Busy], NEW d,
         NEW becomes \in {Replaced, Unlinked}, Moves(d, becomes)
  PROVE  /\ sync' \in [Syncers -> Busy]
         /\ \A q \in Syncers :
              sync'[q] = IF Dir(q) = d THEN [sync[q] EXCEPT !.fd = becomes[sync[q].fd]] ELSE sync[q]
<1>1. \A f \in {"none", "temp", "live", "gone"} : becomes[f] \in {"none", "temp", "live", "gone"}
  BY DEF Replaced, Unlinked
<1> QED  BY <1>1 DEF Moves, Busy

\* A write changes the file that is open, wherever that is, and makes none.
LEMMA WriteMoves ==
  ASSUME DirInv, NEW p \in Syncers, Write(p) \/ WriteCut(p)
  PROVE  /\ temp' \in [Dirs -> Files] /\ live' \in [Dirs -> Files] /\ UNCHANGED wanted
         /\ \A d \in Dirs : /\ temp'[d] = NoFile <=> temp[d] = NoFile
                            /\ live'[d] = NoFile <=> live[d] = NoFile
                            /\ temp'[d] # temp[d] => d = Dir(p) /\ sync[p].fd = "temp"
                            /\ live'[d] # live[d] => d = Dir(p) /\ sync[p].fd = "live"
                            /\ temp'[d] # temp[d] => temp'[d].head \in Contents
         /\ sync' \in [Syncers -> Busy]
         /\ sync'[p].stage \in {"idle", "rename"} /\ sync'[p].fd = "none"
         /\ sync'[p].stage = "rename" =>
              sync'[p] = [sync[p] EXCEPT !.stage = "rename", !.fd = "none"]
         /\ sync'[p].name = sync[p].name
         /\ \A q \in Syncers \ {p} : sync'[q] = sync[q]
<1> DEFINE d == Dir(p)
           e == sync[p].entry
           f == sync[p].fd
<1>1. /\ sync \in [Syncers -> Busy] /\ temp \in [Dirs -> Files] /\ live \in [Dirs -> Files]
      /\ d \in Dirs /\ e \in Contents
      /\ f = "temp" => temp[d] # NoFile
      /\ f = "live" => live[d] # NoFile
  BY DirFacts DEF DirInv, Typed, ProcessOK, Files, Write, WriteCut
<1>2. ASSUME NEW file \in Data
      PROVE  /\ Written(p, file) \in Data /\ Written(p, file).head = e
             /\ [file EXCEPT !.head = e] \in Data /\ [file EXCEPT !.head = e].head = e
  BY <1>1, <1>2 DEF Written, Data
<1>3. NoFile \notin Data
  BY FileFacts
<1>4. /\ f # "temp" => UNCHANGED temp
      /\ f # "live" => UNCHANGED live
      /\ f = "temp" => \E file \in Data : file.head = e /\ temp' = [temp EXCEPT ![d] = file]
      /\ f = "live" => \E file \in Data : file.head = e /\ live' = [live EXCEPT ![d] = file]
  <2>1. CASE Write(p)
    <3>1. /\ temp' = IF f = "temp" THEN [temp EXCEPT ![d] = Written(p, temp[d])] ELSE temp
          /\ live' = IF f = "live" THEN [live EXCEPT ![d] = Written(p, live[d])] ELSE live
      BY <2>1 DEF Write, Puts, OpenFile
    <3>2. f = "temp" => temp[d] \in Data
      BY <1>1 DEF Files
    <3>3. f = "live" => live[d] \in Data
      BY <1>1 DEF Files
    <3> HIDE DEF d, e, f
    <3> QED  BY <1>2, <3>1, <3>2, <3>3
  <2>2. CASE WriteCut(p)
    <3>1. /\ temp' = IF f = "temp" THEN [temp EXCEPT ![d] = [temp[d] EXCEPT !.head = e]] ELSE temp
          /\ live' = IF f = "live" THEN [live EXCEPT ![d] = [live[d] EXCEPT !.head = e]] ELSE live
      BY <2>2 DEF WriteCut, Puts, OpenFile
    <3>2. f = "temp" => temp[d] \in Data
      BY <1>1 DEF Files
    <3>3. f = "live" => live[d] \in Data
      BY <1>1 DEF Files
    <3> HIDE DEF d, e, f
    <3> QED  BY <1>2, <3>1, <3>2, <3>3
  <2> QED  BY <2>1, <2>2
<1>5. /\ temp' \in [Dirs -> Files]
      /\ \A x \in Dirs : /\ temp'[x] = NoFile <=> temp[x] = NoFile
                         /\ temp'[x] # temp[x] => x = d /\ f = "temp" /\ temp'[x].head \in Contents
  BY <1>1, <1>3, <1>4 DEF Files
<1>6. /\ live' \in [Dirs -> Files]
      /\ \A x \in Dirs : /\ live'[x] = NoFile <=> live[x] = NoFile
                         /\ live'[x] # live[x] => x = d /\ f = "live"
  BY <1>1, <1>3, <1>4 DEF Files
<1>7. /\ sync' \in [Syncers -> Busy]
      /\ sync'[p].stage \in {"idle", "rename"} /\ sync'[p].fd = "none"
      /\ sync'[p].stage = "rename" =>
           sync'[p] = [sync[p] EXCEPT !.stage = "rename", !.fd = "none"]
      /\ sync'[p].name = sync[p].name
      /\ \A q \in Syncers \ {p} : sync'[q] = sync[q]
  <2>1. CASE Write(p)
    BY <1>1, <2>1 DEF Write, Busy
  <2>2. CASE WriteCut(p)
    BY <1>1, <2>2, EndsMoves DEF WriteCut
  <2> QED  BY <2>1, <2>2
<1>8. UNCHANGED wanted
  BY DEF Write, WriteCut
<1> QED  BY <1>5, <1>6, <1>7, <1>8

-----------------------------------------------------------------------------
(* The types.                                                              *)

\* The initial states satisfy the invariant.
LEMMA InitDirInv == Init => DirInv
<1> SUFFICES ASSUME Init  PROVE DirInv
  OBVIOUS
<1>1. ASSUME NEW p \in Syncers  PROVE ProcessOK(p) /\ sync[p] \in Busy
  <2>1. SlugOf \in [Names -> Slugs \cup {Root}] /\ sync[p] = Idle(AnyName)
    BY SkillsDirAssumption DEF Init
  <2>2. AnyName \in Names
    BY SkillsDirAssumption DEF AnyName
  <2> QED  BY <2>1, <2>2 DEF ProcessOK, Idle, Busy
<1> QED  BY <1>1 DEF Init, DirInv, Typed, Files

\* Take and Examine open no file, and Examine goes on with a content or a
\* retirement.
LEMMA ExamineDirInv ==
  ASSUME DirInv, NEW p \in Syncers, (\E n \in Names : Take(p, n)) \/ Examine(p)
  PROVE  DirInv'
<1>1. Typed /\ \A q \in Syncers : ProcessOK(q)
  BY DEF DirInv
<1>2. UNCHANGED <<wanted, live, temp>>
  BY DEF Take, Examine
<1>3. CASE \E n \in Names : Take(p, n)
  <2>1. PICK n \in Names : Take(p, n)
    BY <1>3
  <2> DEFINE taken == [Idle(n) EXCEPT !.stage = "examine", !.entry = wanted[n]]
  <2>2. wanted[n] \in Contents \cup {"retired"}
    BY <1>1, <2>1 DEF Take, Typed
  <2>3. taken \in Busy /\ taken.stage = "examine" /\ taken.fd = "none" /\ taken.entry = wanted[n]
    BY <2>2 DEF Idle, Busy
  <2>4. sync' = [sync EXCEPT ![p] = taken]
    BY <2>1 DEF Take
  <2> HIDE DEF taken
  <2>5. sync' \in [Syncers -> Busy] /\ sync'[p] = taken /\ \A q \in Syncers \ {p} : sync'[q] = sync[q]
    BY <1>1, <2>3, <2>4 DEF Typed
  <2>6. wanted[n] # "unknown"
    BY <2>1 DEF Take
  <2> QED  BY <1>1, <1>2, <2>3, <2>5, <2>6 DEF DirInv, Typed, ProcessOK, Dir
<1>4. CASE Examine(p)
  <2>1. CASE Ends(p)
    BY <1>1, <1>2, <2>1, EndsMoves DEF DirInv, Typed, ProcessOK, Dir
  <2>2. CASE ~Ends(p)
    <3>1. PICK next \in {"open", "remove"} :
            /\ sync' = [sync EXCEPT ![p].stage = next]
            /\ next = "open" => sync[p].entry # "retired"
      BY <1>4, <2>2 DEF Examine
    <3>2. live[Dir(p)] \in Files /\ sync[p].stage = "examine"
      BY <1>1, <1>4, DirFacts DEF DirInv, Typed, Examine
    <3>3. /\ sync' \in [Syncers -> Busy] /\ sync'[p].stage = next
          /\ sync'[p].entry = sync[p].entry /\ sync'[p].fd = sync[p].fd
          /\ \A q \in Syncers \ {p} : sync'[q] = sync[q]
      BY <1>1, <3>1, <3>2 DEF Typed, Busy, Files
    <3>4. sync[p].entry \in Contents \cup {"retired"}
      BY <1>1, <3>2 DEF Typed, ProcessOK, Busy
    <3>5. ProcessOK(p)'
      BY <1>1, <3>1, <3>2, <3>3, <3>4 DEF ProcessOK
    <3>6. \A q \in Syncers \ {p} : ProcessOK(q)'
      BY <1>1, <1>2, <3>3 DEF ProcessOK, Dir
    <3> QED  BY <1>1, <1>2, <3>3, <3>5, <3>6 DEF DirInv, Typed
  <2> QED  BY <2>1, <2>2
<1> QED  BY <1>3, <1>4

\* Open makes the temp file it opens, or empties it.
LEMMA OpenDirInv ==
  ASSUME DirInv, NEW p \in Syncers, Open(p)
  PROVE  DirInv'
<1>1. Typed /\ \A q \in Syncers : ProcessOK(q)
  BY DEF DirInv
<1>2. Dir(p) \in Dirs /\ EmptyFile \in Data /\ NoFile \notin Data
  BY DirFacts, FileFacts DEF DirInv
<1>3. /\ temp' \in [Dirs -> Files] /\ temp'[Dir(p)] # NoFile
      /\ \A d \in Dirs : temp[d] # NoFile => temp'[d] # NoFile
      /\ UNCHANGED <<wanted, live>>
  BY <1>1, <1>2 DEF Open, Typed, Files
<1>4. /\ sync' \in [Syncers -> Busy] /\ sync[p].stage = "open"
      /\ sync'[p] = [sync[p] EXCEPT !.stage = "write", !.fd = "temp"]
      /\ \A q \in Syncers \ {p} : sync'[q] = sync[q]
  BY <1>1 DEF Open, Typed, Busy
<1>5. ProcessOK(p)'
  <2>1. sync[p] \in Busy
    BY <1>1 DEF Typed
  <2>2. /\ sync'[p].stage = "write" /\ sync'[p].fd = "temp"
        /\ sync'[p].entry = sync[p].entry /\ Dir(p)' = Dir(p)
    BY <1>4, <2>1 DEF Busy, Dir
  <2> QED  BY <1>1, <1>3, <1>4, <2>2 DEF ProcessOK
<1>6. \A q \in Syncers \ {p} : ProcessOK(q)'
  BY <1>1, <1>3, <1>4, DirFacts DEF ProcessOK, Dir, DirInv
<1> QED  BY <1>1, <1>3, <1>4, <1>5, <1>6 DEF DirInv, Typed

\* A write ends with its file closed.
LEMMA WriteDirInv ==
  ASSUME DirInv, NEW p \in Syncers, Write(p) \/ WriteCut(p)
  PROVE  DirInv'
<1>1. Typed /\ \A q \in Syncers : ProcessOK(q)
  BY DEF DirInv
<1>2. sync[p].stage = "write" /\ sync[p] \in Busy
  BY <1>1 DEF Write, WriteCut, Typed
<1>3. ProcessOK(p)'
  <2>1. CASE sync'[p].stage = "idle"
    BY <2>1, WriteMoves DEF ProcessOK
  <2>2. CASE sync'[p].stage = "rename"
    <3>1. sync'[p].entry = sync[p].entry /\ sync'[p].fd = "none"
      BY <1>2, <2>2, WriteMoves DEF Busy
    <3> QED  BY <1>1, <1>2, <2>2, <3>1 DEF ProcessOK
  <2> QED  BY <2>1, <2>2, WriteMoves
<1>4. ASSUME NEW q \in Syncers \ {p}  PROVE ProcessOK(q)'
  <2>1. sync'[q] = sync[q] /\ Dir(q) \in Dirs
    BY WriteMoves, DirFacts DEF DirInv
  <2>2. Dir(q)' = Dir(q)
    BY <2>1 DEF Dir
  <2>3. temp'[Dir(q)] = NoFile <=> temp[Dir(q)] = NoFile
    BY <2>1, WriteMoves
  <2>4. live'[Dir(q)] = NoFile <=> live[Dir(q)] = NoFile
    BY <2>1, WriteMoves
  <2> QED  BY <1>1, <2>1, <2>2, <2>3, <2>4 DEF ProcessOK
<1> QED  BY <1>1, <1>3, <1>4, WriteMoves DEF DirInv, Typed

\* A process that is done, whose file nobody has touched.
LEMMA EndsDirInv ==
  ASSUME DirInv, NEW p \in Syncers, Ends(p), UNCHANGED <<wanted, live, temp>>
  PROVE  DirInv'
<1>1. Typed /\ \A q \in Syncers : ProcessOK(q)
  BY DEF DirInv
<1>2. \A q \in Syncers : ProcessOK(q)'
  BY <1>1, EndsMoves DEF Typed, ProcessOK, Dir
<1> QED  BY <1>1, <1>2, EndsMoves DEF DirInv, Typed

\* A rename carries the open files along.
LEMMA RenameDirInv ==
  ASSUME DirInv, NEW p \in Syncers, Rename(p)
  PROVE  DirInv'
<1>1. Typed /\ \A q \in Syncers : ProcessOK(q)
  BY DEF DirInv
<1>2. CASE temp[Dir(p)] = NoFile
  BY <1>2, EndsDirInv DEF Rename
<1>3. CASE temp[Dir(p)] # NoFile
  <2>1. PICK d \in Dirs : d = Dir(p)
    BY <1>1, DirFacts
  <2>2. /\ live' = [live EXCEPT ![d] = temp[d]] /\ temp' = [temp EXCEPT ![d] = NoFile]
        /\ EndsAndMoves(p, {d}, Renamed) /\ UNCHANGED wanted
    BY <1>3, <2>1 DEF Rename
  <2>3. /\ live' \in [Dirs -> Files] /\ temp' \in [Dirs -> Files]
        /\ live'[d] = temp[d] /\ temp[d] # NoFile
        /\ \A x \in Dirs \ {d} : live'[x] = live[x] /\ temp'[x] = temp[x]
    BY <1>1, <1>3, <2>1, <2>2 DEF Typed, Files
  <2>4. /\ sync' \in [Syncers -> Busy]
        /\ sync'[p].stage = "idle" /\ sync'[p].fd = "none"
        /\ \A q \in Syncers \ {p} :
             sync'[q] = IF Dir(q) \in {d} THEN [sync[q] EXCEPT !.fd = Renamed[sync[q].fd]] ELSE sync[q]
    BY <1>1, <2>2, EndsAndMovesMoves DEF Typed
  <2>5. ProcessOK(p)'
    BY <2>4 DEF ProcessOK
  <2>6. ASSUME NEW q \in Syncers \ {p}  PROVE ProcessOK(q)'
    <3>1. sync[q] \in Busy /\ Dir(q) \in Dirs
      BY <1>1, DirFacts DEF Typed
    <3>2. /\ sync'[q].stage = sync[q].stage /\ sync'[q].entry = sync[q].entry /\ Dir(q)' = Dir(q)
          /\ sync'[q].fd = IF Dir(q) = d THEN Renamed[sync[q].fd] ELSE sync[q].fd
      BY <2>4, <3>1 DEF Busy, Dir
    <3>3. sync[q].fd \in {"none", "temp", "live", "gone"}
      BY <3>1 DEF Busy
    <3>4. CASE Dir(q) = d
      <4>1. ProcessOK(q)
        BY <1>1
      <4> QED  BY <2>3, <3>2, <3>3, <3>4, <4>1 DEF ProcessOK, Renamed
    <3>5. CASE Dir(q) # d
      <4>1. ProcessOK(q)
        BY <1>1
      <4> QED  BY <2>3, <3>1, <3>2, <3>5, <4>1 DEF ProcessOK
    <3> QED  BY <3>4, <3>5
  <2> QED  BY <1>1, <2>2, <2>3, <2>4, <2>5, <2>6 DEF DirInv, Typed
<1> QED  BY <1>2, <1>3

\* Files that lose their names stay open.
LEMMA UnlinkedProcess ==
  ASSUME DirInv, NEW q \in Syncers, NEW ds,
         sync'[q] = IF Dir(q) \in ds THEN [sync[q] EXCEPT !.fd = Unlinked[sync[q].fd]] ELSE sync[q],
         \A d \in Dirs \ ds : live'[d] = live[d] /\ temp'[d] = temp[d]
  PROVE  ProcessOK(q)'
<1>1. sync[q] \in Busy /\ Dir(q) \in Dirs /\ ProcessOK(q)
  BY DirFacts DEF DirInv, Typed
<1>2. /\ sync'[q].stage = sync[q].stage /\ sync'[q].entry = sync[q].entry /\ Dir(q)' = Dir(q)
      /\ sync'[q].fd = IF Dir(q) \in ds THEN Unlinked[sync[q].fd] ELSE sync[q].fd
  BY <1>1 DEF Busy, Dir
<1>3. sync[q].fd \in {"none", "temp", "live", "gone"}
  BY <1>1 DEF Busy
<1>4. CASE Dir(q) \in ds
  BY <1>1, <1>2, <1>3, <1>4 DEF ProcessOK, Unlinked
<1>5. CASE Dir(q) \notin ds
  BY <1>1, <1>2, <1>5 DEF ProcessOK
<1> QED  BY <1>4, <1>5

\* RemoveAll takes the names of the files below the dir.
LEMMA RemoveDirInv ==
  ASSUME DirInv, NEW p \in Syncers, RemoveAll(p)
  PROVE  DirInv'
<1>1. Typed /\ \A q \in Syncers : ProcessOK(q)
  BY DEF DirInv
<1>2. PICK ds \in SUBSET Dirs :
        /\ live' = [d \in Dirs |-> IF d \in ds THEN NoFile ELSE live[d]]
        /\ temp' = [d \in Dirs |-> IF d \in ds THEN NoFile ELSE temp[d]]
        /\ EndsAndMoves(p, ds, Unlinked) /\ UNCHANGED wanted
  BY <1>1, DirFacts DEF RemoveAll, Inside
<1>3. live' \in [Dirs -> Files] /\ temp' \in [Dirs -> Files]
  BY <1>1, <1>2 DEF Typed, Files
<1>4. /\ sync' \in [Syncers -> Busy]
      /\ sync'[p].stage = "idle" /\ sync'[p].fd = "none"
      /\ \A q \in Syncers \ {p} :
           sync'[q] = IF Dir(q) \in ds THEN [sync[q] EXCEPT !.fd = Unlinked[sync[q].fd]] ELSE sync[q]
  BY <1>1, <1>2, EndsAndMovesMoves DEF Typed
<1>5. ProcessOK(p)'
  BY <1>4 DEF ProcessOK
<1>6. \A q \in Syncers \ {p} : ProcessOK(q)'
  BY <1>2, <1>4, UnlinkedProcess
<1> QED  BY <1>1, <1>2, <1>3, <1>4, <1>5, <1>6 DEF DirInv, Typed

\* The user's steps.
LEMMA UserDirInv ==
  ASSUME DirInv, NEW d \in Slugs, (\E k \in HandKinds : Author(d, k)) \/ Discard(d)
  PROVE  DirInv'
<1>1. Typed /\ (\A q \in Syncers : ProcessOK(q)) /\ d \in Dirs
  BY DEF DirInv, Dirs
<1>2. CASE Discard(d)
  <2>1. /\ live' \in [Dirs -> Files] /\ temp' \in [Dirs -> Files] /\ UNCHANGED wanted
        /\ \A x \in Dirs \ {d} : live'[x] = live[x] /\ temp'[x] = temp[x]
    BY <1>1, <1>2 DEF Discard, Typed, Files
  <2>2. /\ sync' \in [Syncers -> Busy]
        /\ \A q \in Syncers :
             sync'[q] = IF Dir(q) \in {d} THEN [sync[q] EXCEPT !.fd = Unlinked[sync[q].fd]] ELSE sync[q]
    BY <1>1, <1>2, MovesMoves DEF Discard, Typed
  <2>3. \A q \in Syncers : ProcessOK(q)'
    BY <2>1, <2>2, UnlinkedProcess
  <2> QED  BY <1>1, <2>1, <2>2, <2>3 DEF DirInv, Typed
<1>3. CASE \E k \in HandKinds : Author(d, k)
  <2>1. PICK k \in HandKinds : Author(d, k)
    BY <1>3
  <2>2. [head |-> k, tail |-> "empty"] \in Data
    BY SkillsDirAssumption DEF Data
  <2>3. live' \in [Dirs -> Files] /\ UNCHANGED <<wanted, temp>>
    BY <1>1, <2>1, <2>2 DEF Author, Typed, Files
  <2>4. \A x \in Dirs \ {d} : live'[x] = live[x]
    BY <1>1, <2>1 DEF Author, Typed
  <2>5. /\ sync' \in [Syncers -> Busy]
        /\ \A q \in Syncers :
             sync'[q] = IF Dir(q) = d THEN [sync[q] EXCEPT !.fd = Replaced[sync[q].fd]] ELSE sync[q]
    BY <1>1, <2>1, MovesMoves DEF Author, Typed
  <2>6. ASSUME NEW q \in Syncers  PROVE ProcessOK(q)'
    <3>1. sync[q] \in Busy /\ Dir(q) \in Dirs /\ ProcessOK(q)
      BY <1>1, DirFacts DEF Typed
    <3>2. /\ sync'[q].stage = sync[q].stage /\ sync'[q].entry = sync[q].entry /\ Dir(q)' = Dir(q)
          /\ sync'[q].fd = IF Dir(q) = d THEN Replaced[sync[q].fd] ELSE sync[q].fd
      BY <2>5, <3>1 DEF Busy, Dir
    <3>3. sync[q].fd \in {"none", "temp", "live", "gone"}
      BY <3>1 DEF Busy
    <3>4. CASE Dir(q) = d
      BY <2>3, <3>1, <3>2, <3>3, <3>4 DEF ProcessOK, Replaced, Unlinked
    <3>5. CASE Dir(q) # d
      BY <2>3, <2>4, <3>1, <3>2, <3>5 DEF ProcessOK
    <3> QED  BY <3>4, <3>5
  <2> QED  BY <1>1, <2>3, <2>5, <2>6 DEF DirInv, Typed
<1> QED  BY <1>2, <1>3

\* The registry changes nothing in the dir.
LEMMA RegistryDirInv ==
  ASSUME DirInv, NEW n \in Names, (\E c \in Contents : Publish(n, c)) \/ Retire(n)
  PROVE  DirInv'
<1>1. wanted' \in [Names -> Contents \cup {"retired", "unknown"}]
  BY DEF DirInv, Typed, Publish, Retire
<1>2. UNCHANGED <<live, temp, sync>>
  BY DEF Publish, Retire
<1> QED  BY <1>1, <1>2 DEF DirInv, Typed, ProcessOK, Dir

\* Every step keeps the invariant.
LEMMA NextDirInv == DirInv /\ [Next]_vars => DirInv'
<1> SUFFICES ASSUME DirInv, [Next]_vars  PROVE DirInv'
  OBVIOUS
<1>1. ASSUME NEW p \in Syncers, Syncer(p)  PROVE DirInv'
  BY <1>1, ExamineDirInv, OpenDirInv, WriteDirInv, RenameDirInv, RemoveDirInv, EndsDirInv
     DEF Syncer, Continue, Abandon
<1>2. CASE UNCHANGED vars
  BY <1>2 DEF vars, DirInv, Typed, ProcessOK, Dir
<1> QED  BY <1>1, <1>2, UserDirInv, RegistryDirInv DEF Next

\* Every reachable state satisfies the invariant.
LEMMA DirInvHolds == Spec => []DirInv
BY InitDirInv, NextDirInv, PTL DEF Spec

\* DirTypeOK: in particular no process writes to a file that is closed, and
\* one that it writes to under a name is there (writeAtomic).
THEOREM DirTypes == Spec => []DirTypeOK
<1>1. DirInv => DirTypeOK
  BY DEF DirInv, Typed, ProcessOK, DirTypeOK, Files
<1> QED  BY <1>1, DirInvHolds, PTL

-----------------------------------------------------------------------------
(* Whole files, with one process at a time.                                *)

\* What the one process has open is the temp file it has emptied, or a file
\* without a name; what it renames is whole.
FreshTemp ==
  \A p \in Syncers :
    /\ sync[p].stage = "write" => \/ sync[p].fd = "temp" /\ temp[Dir(p)] = EmptyFile
                                  \/ sync[p].fd = "gone" /\ temp[Dir(p)] = NoFile
    /\ sync[p].stage = "rename" => temp[Dir(p)] \in {NoFile, Whole(sync[p].entry)}

\* The steps of the one process that runs.
LEMMA AloneStep ==
  ASSUME DirInv, OneAtATime, FreshTemp, WholeFiles, NEW p \in Syncers, Syncer(p)
  PROVE  FreshTemp' /\ WholeFiles'
<1>1. Typed /\ \A q \in Syncers : ProcessOK(q) /\ sync[q] \in Busy /\ Dir(q) \in Dirs
  BY DirFacts DEF DirInv, Typed
<1>2. CASE (\E n \in Names : Take(p, n)) \/ Examine(p) \/ Abandon(p)
  <2>1. UNCHANGED <<live, temp>> /\ \A q \in Syncers \ {p} : sync'[q] = sync[q]
    BY <1>1, <1>2 DEF Take, Examine, Abandon, Ends, Typed
  <2>2. sync'[p].stage \notin {"write", "rename"}
    <3>1. CASE \E n \in Names : Take(p, n)
      BY <1>1, <3>1 DEF Take, Idle, Typed
    <3>2. CASE Ends(p)
      BY <1>1, <3>2, EndsMoves DEF Typed
    <3>3. CASE Examine(p) /\ ~Ends(p)
      <4>1. PICK next \in {"open", "remove"} :
              sync' = [sync EXCEPT ![p].stage = next]
        BY <3>3 DEF Examine
      <4> QED  BY <1>1, <4>1 DEF Typed, Busy
    <3> QED  BY <1>2, <3>1, <3>2, <3>3 DEF Abandon
  <2>3. WholeFiles'
    BY <2>1 DEF WholeFiles, HandAuthored
  <2> QED  BY <2>1, <2>2, <2>3 DEF FreshTemp, Dir
<1>3. ASSUME sync[p].stage # "idle"
      PROVE  \A q \in Syncers \ {p} : sync[q].stage = "idle" /\ sync[q].fd = "none"
  BY <1>1, <1>3 DEF OneAtATime, ProcessOK
<1>4. CASE Open(p)
  <2>1. /\ sync'[p].stage = "write" /\ sync'[p].fd = "temp" /\ Dir(p)' = Dir(p)
        /\ \A q \in Syncers \ {p} : sync'[q] = sync[q]
    BY <1>1, <1>4 DEF Open, Typed, Busy, Dir
  <2>2. temp'[Dir(p)] = EmptyFile /\ UNCHANGED live
    BY <1>1, <1>4 DEF Open, Typed
  <2>3. \A q \in Syncers \ {p} : sync'[q].stage = "idle"
    BY <1>3, <1>4, <2>1 DEF Open
  <2>4. WholeFiles'
    BY <2>2 DEF WholeFiles, HandAuthored
  <2> QED  BY <2>1, <2>2, <2>3, <2>4 DEF FreshTemp
<1>5. CASE Write(p) \/ WriteCut(p)
  <2>1. sync[p].stage = "write" /\ sync[p].fd # "live" /\ sync[p].entry \in Contents
    BY <1>1, <1>5 DEF Write, WriteCut, FreshTemp, ProcessOK
  <2>2. UNCHANGED live
    BY <1>5, <2>1 DEF Write, WriteCut, Puts, OpenFile
  <2>3. \A q \in Syncers \ {p} : sync'[q].stage = "idle"
    <3>1. \A q \in Syncers \ {p} : sync[q].stage = "idle"
      BY <1>3, <2>1
    <3>2. \A q \in Syncers \ {p} : sync'[q] = sync[q]
      BY <1>5, WriteMoves
    <3> QED  BY <3>1, <3>2
  <2>4. sync'[p].stage = "rename" =>
          sync'[p].entry = sync[p].entry /\ Dir(p)' = Dir(p) /\ Write(p)
    <3>1. CASE Write(p)
      BY <1>1, <3>1 DEF Write, Typed, Busy, Dir
    <3>2. CASE WriteCut(p)
      BY <1>1, <3>2, EndsMoves DEF WriteCut, Typed
    <3> QED  BY <1>5, <3>1, <3>2
  <2>5. Write(p) => temp'[Dir(p)] \in {NoFile, Whole(sync[p].entry)}
    <3>1. ASSUME Write(p), sync[p].fd = "temp", temp[Dir(p)] = EmptyFile
          PROVE  temp'[Dir(p)] = Whole(sync[p].entry)
      <4>1. temp' = [temp EXCEPT ![Dir(p)] = Written(p, temp[Dir(p)])]
        BY <3>1 DEF Write, Puts, OpenFile
      <4>2. Written(p, EmptyFile) = Whole(sync[p].entry)
        BY DEF Written, Whole, EmptyFile
      <4> QED  BY <1>1, <3>1, <4>1, <4>2 DEF Typed
    <3>2. ASSUME Write(p), sync[p].fd = "gone", temp[Dir(p)] = NoFile
          PROVE  temp'[Dir(p)] = NoFile
      BY <3>2 DEF Write, Puts, OpenFile
    <3> QED  BY <2>1, <3>1, <3>2 DEF FreshTemp
  <2>6. sync'[p].stage # "write"
    BY <1>5, WriteMoves
  <2>7. WholeFiles'
    BY <2>2 DEF WholeFiles, HandAuthored
  <2> QED  BY <2>3, <2>4, <2>5, <2>6, <2>7 DEF FreshTemp
<1>6. CASE Rename(p)
  <2>1. sync[p].stage = "rename" /\ sync[p].entry \in Contents
    BY <1>1, <1>6 DEF Rename, ProcessOK
  <2>2. \A q \in Syncers : sync'[q].stage = "idle"
    <3>1. CASE Ends(p)
      BY <1>1, <1>3, <2>1, <3>1, EndsMoves DEF Typed
    <3>2. CASE EndsAndMoves(p, {Dir(p)}, Renamed)
      <4>1. ASSUME NEW q \in Syncers \ {p}  PROVE sync'[q].stage = sync[q].stage
        <5>1. sync'[q] = IF Dir(q) \in {Dir(p)} THEN [sync[q] EXCEPT !.fd = Renamed[sync[q].fd]] ELSE sync[q]
          BY <1>1, <3>2, EndsAndMovesMoves DEF Typed
        <5> QED  BY <1>1, <5>1 DEF Busy
      <4> QED  BY <1>1, <1>3, <2>1, <3>2, <4>1, EndsAndMovesMoves DEF Typed
    <3> QED  BY <1>6, <3>1, <3>2 DEF Rename
  <2>3. \A d \in Dirs : live'[d] = live[d] \/ live'[d] = Whole(sync[p].entry)
    BY <1>1, <1>6, <2>1 DEF Rename, FreshTemp, Typed
  <2>4. WholeFiles'
    BY <2>1, <2>3 DEF WholeFiles, HandAuthored
  <2> QED  BY <2>2, <2>4 DEF FreshTemp
<1>7. CASE RemoveAll(p)
  <2>1. PICK ds \in SUBSET Dirs :
          /\ live' = [d \in Dirs |-> IF d \in ds THEN NoFile ELSE live[d]]
          /\ EndsAndMoves(p, ds, Unlinked)
    BY <1>1, <1>7 DEF RemoveAll, Inside
  <2>2. \A q \in Syncers : sync'[q].stage = "idle"
    <3>1. ASSUME NEW q \in Syncers \ {p}  PROVE sync'[q].stage = sync[q].stage
      <4>1. sync'[q] = IF Dir(q) \in ds THEN [sync[q] EXCEPT !.fd = Unlinked[sync[q].fd]] ELSE sync[q]
        BY <1>1, <2>1, EndsAndMovesMoves DEF Typed
      <4> QED  BY <1>1, <4>1 DEF Busy
    <3> QED  BY <1>1, <1>3, <1>7, <2>1, <3>1, EndsAndMovesMoves DEF Typed, RemoveAll
  <2>3. WholeFiles'
    BY <2>1 DEF WholeFiles, HandAuthored
  <2> QED  BY <2>2, <2>3 DEF FreshTemp
<1> QED  BY <1>2, <1>4, <1>5, <1>6, <1>7 DEF Syncer, Continue

\* The user's steps do not tear a file, nor put one into the temp name.
LEMMA AloneUser ==
  ASSUME DirInv, FreshTemp, WholeFiles, NEW d \in Slugs,
         (\E k \in HandKinds : Author(d, k)) \/ Discard(d)
  PROVE  FreshTemp' /\ WholeFiles'
<1>1. Typed /\ d \in Dirs /\ \A q \in Syncers : sync[q] \in Busy /\ Dir(q) \in Dirs
  BY DirFacts DEF DirInv, Typed, Dirs
<1>2. \A x \in Dirs : live'[x] \in {live[x], NoFile} \/ live'[x].head \in {"mine", "unparsable"}
  BY <1>1, SkillsDirAssumption DEF Author, Discard, Typed
<1>3. WholeFiles'
  BY <1>2 DEF WholeFiles, HandAuthored
<1>4. CASE \E k \in HandKinds : Author(d, k)
  <2>1. ASSUME NEW q \in Syncers
        PROVE  /\ Dir(q)' = Dir(q) /\ sync'[q].stage = sync[q].stage /\ sync'[q].entry = sync[q].entry
               /\ sync[q].fd \in {"temp", "gone"} => sync'[q].fd = sync[q].fd
    <3>1. sync'[q] = IF Dir(q) = d THEN [sync[q] EXCEPT !.fd = Replaced[sync[q].fd]] ELSE sync[q]
      BY <1>1, <1>4, MovesMoves DEF Author, Typed
    <3> QED  BY <1>1, <3>1 DEF Dir, Busy, Replaced, Unlinked
  <2>2. UNCHANGED temp
    BY <1>4 DEF Author
  <2> QED  BY <1>3, <2>1, <2>2 DEF FreshTemp
<1>5. CASE Discard(d)
  <2>1. ASSUME NEW q \in Syncers
        PROVE  /\ Dir(q)' = Dir(q) /\ sync'[q].stage = sync[q].stage /\ sync'[q].entry = sync[q].entry
               /\ Dir(q) # d => sync'[q].fd = sync[q].fd
               /\ Dir(q) = d /\ sync[q].fd \in {"temp", "gone"} => sync'[q].fd = "gone"
    <3>1. sync'[q] = IF Dir(q) = d THEN [sync[q] EXCEPT !.fd = Unlinked[sync[q].fd]] ELSE sync[q]
      BY <1>1, <1>5, MovesMoves DEF Discard, Typed
    <3> QED  BY <1>1, <3>1 DEF Dir, Busy, Unlinked
  <2>2. temp'[d] = NoFile /\ \A x \in Dirs \ {d} : temp'[x] = temp[x]
    BY <1>1, <1>5 DEF Discard, Typed
  <2>3. ASSUME NEW q \in Syncers
        PROVE  (/\ sync[q].stage = "write" => \/ sync[q].fd = "temp" /\ temp[Dir(q)] = EmptyFile
                                              \/ sync[q].fd = "gone" /\ temp[Dir(q)] = NoFile
                /\ sync[q].stage = "rename" => temp[Dir(q)] \in {NoFile, Whole(sync[q].entry)})'
    <3>1. CASE Dir(q) = d
      BY <2>1, <2>2, <3>1 DEF FreshTemp
    <3>2. CASE Dir(q) # d
      BY <1>1, <2>1, <2>2, <3>2 DEF FreshTemp
    <3> QED  BY <3>1, <3>2
  <2> QED  BY <1>3, <2>3 DEF FreshTemp
<1> QED  BY <1>4, <1>5

\* WholeIfAlone: runs that do not overlap never show a torn SKILL.md, whatever
\* runs that were cut short have left in the temp name (writeAtomic).
THEOREM AloneShowsWhole == Spec => WholeIfAlone
<1>1. Init => FreshTemp /\ WholeFiles
  BY DEF Init, FreshTemp, WholeFiles, Idle
<1>2. DirInv /\ OneAtATime /\ FreshTemp /\ WholeFiles /\ [Next]_vars => FreshTemp' /\ WholeFiles'
  <2> SUFFICES ASSUME DirInv, OneAtATime, FreshTemp, WholeFiles, [Next]_vars
               PROVE  FreshTemp' /\ WholeFiles'
    OBVIOUS
  <2>1. CASE UNCHANGED <<live, temp, sync>>
    BY <2>1 DEF FreshTemp, WholeFiles, HandAuthored, Dir
  <2> QED  BY <2>1, AloneStep, AloneUser DEF Next, Publish, Retire, vars
<1> QED  BY <1>1, <1>2, DirInvHolds, PTL DEF Spec, WholeIfAlone

=============================================================================
