----------------------------- MODULE VersionLog -----------------------------
(***************************************************************************)
(* What the version histories of the nodes promise to each other, without  *)
(* the statements that keep them: a history only grows, by a version with  *)
(* the number after its last and a content that is new to it.  A           *)
(* registration gives it an identity that no node has seen and moves the   *)
(* head to it; an import takes identity and content from another node, and *)
(* leaves the head alone.  So an identity means one content everywhere.    *)
(***************************************************************************)
EXTENDS Integers

CONSTANTS
  Nodes,          \* databases that replicate each other
  Versions        \* versions of the skill: a number, a sha, an identity (ulid)

VARIABLES
  history,        \* [Nodes -> SUBSET Versions]
  head            \* [Nodes -> number of the current version, 0: none]

logVars == <<history, head>>

LogInit ==
  /\ history = [n \in Nodes |-> {}]
  /\ head = [n \in Nodes |-> 0]

Append(n, v) ==
  /\ \A w \in history[n] : w.version < v.version /\ w.sha # v.sha
  /\ v.version = 1 \/ \E w \in history[n] : w.version = v.version - 1
  /\ history' = [history EXCEPT ![n] = @ \cup {v}]

RegisterVersion(n, v) ==
  /\ \A m \in Nodes : \A w \in history[m] : w.ulid # v.ulid
  /\ Append(n, v)
  /\ head' = [head EXCEPT ![n] = v.version]

ImportVersion(n, v) ==
  /\ \A w \in history[n] : w.ulid # v.ulid
  /\ \E m \in Nodes : \E w \in history[m] : w.ulid = v.ulid /\ w.sha = v.sha
  /\ Append(n, v)
  /\ UNCHANGED head

LogNext == \E n \in Nodes, v \in Versions : RegisterVersion(n, v) \/ ImportVersion(n, v)

LogSpec == LogInit /\ [][LogNext]_logVars

=============================================================================
