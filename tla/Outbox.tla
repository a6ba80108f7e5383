------------------------------- MODULE Outbox -------------------------------
(***************************************************************************)
(* What the write-ahead queue promises to the tools: a write that was      *)
(* accepted is held until the daemon has it, or it was tried too often, or *)
(* an operator took it back.  Nothing else ends it, what has ended does    *)
(* not come back, and a usage report reaches the tables once, however      *)
(* often it is sent.  A report that names no skill is accepted like the    *)
(* others, never reaches the tables, and is dropped.  WQueue.tla shows     *)
(* how: rows, two-statement marks, sessions that send the same row, lost   *)
(* replies and crashes.                                                    *)
(***************************************************************************)
EXTENDS Naturals

CONSTANTS
  Ids,            \* the writes that tools may make
  Usage           \* the usage reports among them

VARIABLES
  state,          \* [Ids -> where the write is]
  got,            \* [Ids -> rows the daemon has of it; 2: several]
  void            \* the accepted reports that name no skill

outboxVars == <<state, got, void>>

States == {"new", "held", "settled", "dropped", "dead", "withdrawn"}

OutboxTypeOK ==
  /\ state \in [Ids -> States]
  /\ got \in [Ids -> 0..2]
  /\ void \subseteq Usage

OutboxInit ==
  /\ state = [i \in Ids |-> "new"]
  /\ got = [i \in Ids |-> 0]
  /\ void = {}

Accept(i) ==
  /\ state[i] = "new"
  /\ state' = [state EXCEPT ![i] = "held"]
  /\ void' \in {void, void \cup ({i} \cap Usage)}
  /\ UNCHANGED got

\* Sends may come late, when the write has been settled or taken back.
Receive(i) ==
  /\ state[i] # "new" /\ i \notin void
  /\ got' = [got EXCEPT ![i] = IF i \in Usage \/ @ = 0 THEN 1 ELSE 2]
  /\ UNCHANGED <<state, void>>

\* The answer to a late send settles a write that was given up.
Settle(i) ==
  /\ state[i] \in {"held", "dead"} /\ got[i] > 0
  /\ state' = [state EXCEPT ![i] = "settled"]
  /\ UNCHANGED <<got, void>>

Drop(i) ==
  /\ state[i] \in {"held", "dead"} /\ i \in void
  /\ state' = [state EXCEPT ![i] = "dropped"]
  /\ UNCHANGED <<got, void>>

GiveUp(i) ==
  /\ state[i] = "held"
  /\ state' = [state EXCEPT ![i] = "dead"]
  /\ UNCHANGED <<got, void>>

Withdraw(out) ==
  /\ \A i \in out : state[i] \in {"held", "dead"}
  /\ state' = [i \in Ids |-> IF i \in out THEN "withdrawn" ELSE state[i]]
  /\ UNCHANGED <<got, void>>

OutboxNext ==
  \/ \E i \in Ids : Accept(i) \/ Receive(i) \/ Settle(i) \/ Drop(i) \/ GiveUp(i)
  \/ \E out \in SUBSET Ids : Withdraw(out)

OutboxSpec == OutboxInit /\ [][OutboxNext]_outboxVars

=============================================================================
