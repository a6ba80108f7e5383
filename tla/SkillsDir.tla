----------------------------- MODULE SkillsDir -----------------------------
(***************************************************************************)
(* The skills dir of one machine as a file system: what internal/syncer    *)
(* does to it file by file, under the eyes of a program that watches it.   *)
(* Sync.tla takes each entry of the feed in one step; here materialize     *)
(* reads the SKILL.md, decides, writes a temp file and renames it, remove  *)
(* reads, decides and calls RemoveAll, and in between other processes and  *)
(* the user, who keeps skills of their own in the same dir, do what they   *)
(* like.  The temp file has a fixed name, so processes share it.           *)
(*                                                                         *)
(* A file has two blocks: the head holds the frontmatter and with it the  *)
(* marker, the tail is what a long content has beyond a short one.  A write *)
(* replaces the blocks it has and leaves the rest, and goes to the file    *)
(* that was opened, whatever name it bears by then.                        *)
(***************************************************************************)

CONSTANTS
  Names,          \* skills of the registry
  Slugs,          \* dirs below the skills dir
  Root,           \* the empty slug: its dir is the skills dir itself
  SlugOf,         \* [Names -> Slugs \cup {Root}]: Slugify
  Contents,       \* contents of skills (their shas)
  Long,           \* the contents that have a tail
  Syncers,        \* processes that may sync the dir
  HandKinds       \* what users write: "mine", or "unparsable" frontmatter

ASSUME SkillsDirAssumption ==
  /\ Names # {} /\ Root \notin Slugs
  /\ SlugOf \in [Names -> Slugs \cup {Root}]
  /\ Long \subseteq Contents
  /\ HandKinds \subseteq {"mine", "unparsable"}
  /\ Contents \cap {"mine", "unparsable", "empty", "none", "retired", "unknown"} = {}

VARIABLES
  wanted,         \* [Names -> what the feed says of the skill]
  live,           \* [Dirs -> SKILL.md]
  temp,           \* [Dirs -> SKILL.md.tmp]
  sync            \* [Syncers -> the entry a process is busy with]

vars == <<wanted, live, temp, sync>>

Dirs == Slugs \cup {SlugOf[n] : n \in Names}

Data == [head : Contents \cup {"mine", "unparsable", "empty"}, tail : Contents \cup {"empty"}]

EmptyFile == [head |-> "empty", tail |-> "empty"]

NoFile == [head |-> "none", tail |-> "empty"]

\* What Render makes of a content.
Whole(c) == [head |-> c, tail |-> IF c \in Long THEN c ELSE "empty"]

\* entry: the content to write, or "retired"; fd: where the file is that it
\* has open, "gone" if unlinked.
Busy == [stage : {"idle", "examine", "open", "write", "rename", "remove"},
         name : Names, entry : Contents \cup {"retired", "unknown"},
         fd : {"none", "temp", "live", "gone"}]

Idle(n) == [stage |-> "idle", name |-> n, entry |-> "unknown", fd |-> "none"]

AnyName == CHOOSE n \in Names : TRUE

Dir(p) == SlugOf[sync[p].name]

\* The types; a file is open while it is written and no longer, and an open
\* file that has a name is there.
DirTypeOK ==
  /\ wanted \in [Names -> Contents \cup {"retired", "unknown"}]
  /\ live \in [Dirs -> Data \cup {NoFile}]
  /\ temp \in [Dirs -> Data \cup {NoFile}]
  /\ sync \in [Syncers -> Busy]
  /\ \A p \in Syncers :
       /\ sync[p].fd # "none" <=> sync[p].stage = "write"
       /\ sync[p].fd = "temp" => temp[Dir(p)] # NoFile
       /\ sync[p].fd = "live" => live[Dir(p)] # NoFile

Init ==
  /\ wanted = [n \in Names |-> "unknown"]
  /\ live = [d \in Dirs |-> NoFile]
  /\ temp = [d \in Dirs |-> NoFile]
  /\ sync = [p \in Syncers |-> Idle(AnyName)]

-----------------------------------------------------------------------------
\* The user's own SKILL.md: Parse fails, or MarkerOf finds no marker.
HandAuthored(d) == live[d].head \in {"mine", "unparsable"}

\* RemoveAll of the skills dir takes every dir with it.
Inside(d) == IF d = Root THEN Dirs ELSE {d}

Ends(p) == sync' = [sync EXCEPT ![p] = Idle(sync[p].name)]

\* The process p is done, and the files of the dirs ds that others have open
\* have become what "becomes" says.
EndsAndMoves(p, ds, becomes) ==
  sync' = [[q \in Syncers |-> IF Dir(q) \in ds THEN [sync[q] EXCEPT !.fd = becomes[@]] ELSE sync[q]]
             EXCEPT ![p] = Idle(@.name)]

Renamed == [none |-> "none", temp |-> "live", live |-> "gone", gone |-> "gone"]
Unlinked == [none |-> "none", temp |-> "gone", live |-> "gone", gone |-> "gone"]

-----------------------------------------------------------------------------
(* The registry, and a process that has fetched an entry of the feed.      *)

Publish(n, c) ==
  /\ wanted[n] # c
  /\ wanted' = [wanted EXCEPT ![n] = c]
  /\ UNCHANGED <<live, temp, sync>>

Retire(n) ==
  /\ wanted[n] \in Contents
  /\ wanted' = [wanted EXCEPT ![n] = "retired"]
  /\ UNCHANGED <<live, temp, sync>>

Take(p, n) ==
  /\ sync[p].stage = "idle" /\ wanted[n] # "unknown"
  /\ sync' = [sync EXCEPT ![p] = [Idle(n) EXCEPT !.stage = "examine", !.entry = wanted[n]]]
  /\ UNCHANGED <<wanted, live, temp>>

-----------------------------------------------------------------------------
(* materialize and remove.                                                 *)

\* Mutant: a marker is enough, whatever its sha.
UpToDateAnySha(p) == live[Dir(p)].head \in {"mine", "empty"} \cup Contents

\* materialize leaves the file alone: it bears no marker, or its sha is current.
UpToDate(p) == live[Dir(p)].head \in {"mine", "empty", sync[p].entry}

\* remove goes on only if the file bears a marker.
Removable(p) == live[Dir(p)].head \in Contents

Examine(p) ==
  /\ sync[p].stage = "examine"
  /\ LET goesOn == IF sync[p].entry = "retired" THEN Removable(p) ELSE ~UpToDate(p)
         next == IF sync[p].entry = "retired" THEN "remove" ELSE "open"
     IN IF goesOn
        THEN sync' = [sync EXCEPT ![p].stage = next]
        ELSE Ends(p)
  /\ UNCHANGED <<wanted, live, temp>>

\* Mutant: the temp file is opened without O_TRUNC.
OpenOver(p) ==
  /\ sync[p].stage = "open"
  /\ temp' = [temp EXCEPT ![Dir(p)] = IF @ = NoFile THEN EmptyFile ELSE @]
  /\ sync' = [sync EXCEPT ![p].stage = "write", ![p].fd = "temp"]
  /\ UNCHANGED <<wanted, live>>

\* MkdirAll, and the open of WriteFile, which truncates the temp file if there
\* is one: a dead run's, or that of a process at work.
Open(p) ==
  /\ sync[p].stage = "open"
  /\ temp' = [temp EXCEPT ![Dir(p)] = EmptyFile]
  /\ sync' = [sync EXCEPT ![p].stage = "write", ![p].fd = "temp"]
  /\ UNCHANGED <<wanted, live>>

\* The file that p has open, under the name it bears by now.
OpenFile(p) == IF sync[p].fd = "temp" THEN temp[Dir(p)] ELSE live[Dir(p)]

\* It becomes "file"; one that has no name any more is lost.
Puts(p, file) ==
  /\ temp' = IF sync[p].fd = "temp" THEN [temp EXCEPT ![Dir(p)] = file] ELSE temp
  /\ live' = IF sync[p].fd = "live" THEN [live EXCEPT ![Dir(p)] = file] ELSE live

Written(p, file) ==
  [head |-> sync[p].entry, tail |-> IF sync[p].entry \in Long THEN sync[p].entry ELSE file.tail]

\* Mutant: the file is not closed before it is renamed.
WriteUnclosed(p) ==
  /\ sync[p].stage = "write"
  /\ Puts(p, Written(p, OpenFile(p)))
  /\ sync' = [sync EXCEPT ![p].stage = "rename"]
  /\ UNCHANGED wanted

Write(p) ==
  /\ sync[p].stage = "write"
  /\ Puts(p, Written(p, OpenFile(p)))
  /\ sync' = [sync EXCEPT ![p].stage = "rename", ![p].fd = "none"]
  /\ UNCHANGED wanted

\* The disk is full, or the process dies: the head is written and no more.
WriteCut(p) ==
  /\ sync[p].stage = "write"
  /\ Puts(p, [OpenFile(p) EXCEPT !.head = sync[p].entry])
  /\ Ends(p)
  /\ UNCHANGED wanted

\* Whatever file has the temp name becomes SKILL.md; without one it fails.
Rename(p) ==
  /\ sync[p].stage = "rename"
  /\ IF temp[Dir(p)] = NoFile
     THEN Ends(p) /\ UNCHANGED <<live, temp>>
     ELSE /\ live' = [live EXCEPT ![Dir(p)] = temp[Dir(p)]]
          /\ temp' = [temp EXCEPT ![Dir(p)] = NoFile]
          /\ EndsAndMoves(p, {Dir(p)}, Renamed)
  /\ UNCHANGED wanted

RemoveAll(p) ==
  /\ sync[p].stage = "remove"
  /\ live' = [d \in Dirs |-> IF d \in Inside(Dir(p)) THEN NoFile ELSE live[d]]
  /\ temp' = [d \in Dirs |-> IF d \in Inside(Dir(p)) THEN NoFile ELSE temp[d]]
  /\ EndsAndMoves(p, Inside(Dir(p)), Unlinked)
  /\ UNCHANGED wanted

\* A call fails or the process dies: what it has left behind stays.
Abandon(p) ==
  /\ sync[p].stage # "idle"
  /\ Ends(p)
  /\ UNCHANGED <<wanted, live, temp>>

-----------------------------------------------------------------------------
(* The user.                                                               *)

\* The others' open files when the user replaces SKILL.md, or removes the dir.
Moves(d, becomes) ==
  sync' = [q \in Syncers |-> IF Dir(q) = d THEN [sync[q] EXCEPT !.fd = becomes[@]] ELSE sync[q]]

Replaced == [Unlinked EXCEPT !.temp = "temp"]

Author(d, kind) ==
  /\ live' = [live EXCEPT ![d] = [head |-> kind, tail |-> "empty"]]
  /\ Moves(d, Replaced)
  /\ UNCHANGED <<wanted, temp>>

Discard(d) ==
  /\ live[d] # NoFile
  /\ live' = [live EXCEPT ![d] = NoFile]
  /\ temp' = [temp EXCEPT ![d] = NoFile]
  /\ Moves(d, Unlinked)
  /\ UNCHANGED wanted

-----------------------------------------------------------------------------
Continue(p) == Examine(p) \/ Open(p) \/ Write(p) \/ Rename(p) \/ RemoveAll(p)

Syncer(p) == (\E n \in Names : Take(p, n)) \/ Continue(p) \/ WriteCut(p) \/ Abandon(p)

Next ==
  \/ \E n \in Names : (\E c \in Contents : Publish(n, c)) \/ Retire(n)
  \/ \E p \in Syncers : Syncer(p)
  \/ \E d \in Slugs : (\E k \in HandKinds : Author(d, k)) \/ Discard(d)

Spec == Init /\ [][Next]_vars

\* A run that nothing interrupts goes on.  Nothing makes one start.
FairSpec == Spec /\ \A p \in Syncers : WF_vars(Continue(p))

-----------------------------------------------------------------------------
(* Properties.                                                             *)

OneAtATime == \A p, q \in Syncers : sync[p].stage # "idle" /\ sync[q].stage # "idle" => p = q

WholeFiles ==
  \A d \in Dirs : live[d] = NoFile \/ HandAuthored(d) \/ \E c \in Contents : live[d] = Whole(c)

\* "A reader never sees a partial SKILL.md (Claude Code is watching)"
\* (writeAtomic): whatever runs are cut short and leave behind, as long as only
\* one process at a time syncs the dir.
WholeIfAlone == []OneAtATime => []WholeFiles

\* The dir of a skill holds what the feed says of it, or the user's own file.
Mirrored(n) ==
  LET d == SlugOf[n] IN
  \/ wanted[n] = "unknown" \/ HandAuthored(d)
  \/ wanted[n] = "retired" /\ live[d] = NoFile
  \/ wanted[n] \in Contents /\ live[d] = Whole(wanted[n])

\* From some time on the registry and the user are quiet and no call fails.
\* (A Continue may look the same.)
Quiet ==
  <>[][/\ wanted' = wanted
       /\ \A p \in Syncers : Abandon(p) \/ WriteCut(p) => Continue(p)
       /\ \A d \in Slugs : ~Discard(d) \/ \E p \in Syncers : Continue(p)]_vars

\* If one process at a time takes every skill again and again, the dir ends up
\* as the feed says, whatever dead runs have left in it.
MirrorsIfAlone ==
  []OneAtATime /\ Quiet /\ (\A n \in Names : []<><<\E p \in Syncers : Take(p, n)>>_vars)
    => <>[](\A n \in Names : Mirrored(n))

-----------------------------------------------------------------------------
(* Claims of the repository that the code does not keep.                   *)

\* writeAtomic, at rest: a SKILL.md that no process has open is the user's or
\* a whole content.  Processes that share the temp name break it for good, as
\* the marker in the head says that the file is current.
WholeAtRest == (\A p \in Syncers : sync[p].stage = "idle") => WholeFiles

\* "A hand-authored skill (no marker) is never overwritten or pruned - that is
\* the core safety rule" (package syncer): no step of a process changes or
\* removes a SKILL.md of the user's.  materialize overwrites one that does not
\* parse; remove takes all of them with the dir of a skill whose slug is empty;
\* and one that is saved between the look and the rename or RemoveAll is lost.
HandAuthoredKept ==
  [][\A p \in Syncers, d \in Dirs : Syncer(p) /\ HandAuthored(d) => live'[d] = live[d]]_vars

=============================================================================
