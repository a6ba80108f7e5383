---------------------------- MODULE SyncInTurns ----------------------------
(***************************************************************************)
(* Sync with a history variable: turns says whether writers and runs have  *)
(* taken turns so far.  A safety property that holds under that premise    *)
(* becomes an invariant, or an action property, of this module.            *)
(***************************************************************************)
EXTENDS Sync

VARIABLE turns

TurnsInit == SyncInit /\ turns = TRUE

TurnsNext == SyncNext /\ turns' = (turns /\ Turns')

TurnsSpec == TurnsInit /\ [][TurnsNext]_<<allVars, turns>> /\ SyncFairness

\* Whatever the saved cursor has passed is on disk (SyncFeed, Sync), as long as
\* neither two transactions nor two runs have overlapped.
UpToCursorInTurns == turns => UpToCursor

\* No run moves the saved cursor back, not even a reset (Sync, saveCursor), as
\* long as neither two transactions nor two runs have overlapped.
CursorNeverRewindsInTurns == [][turns' => cursor <= cursor']_<<allVars, turns>>
=============================================================================
