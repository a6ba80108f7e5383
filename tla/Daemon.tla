------------------------------- MODULE Daemon -------------------------------
(***************************************************************************)
(* The life of the daemon, from Start to the end of Shutdown, beside an    *)
(* operator who edits the auth.toml of each scope, sends SIGHUP and        *)
(* SIGTERM and starts other daemons on the same data dir, and clients      *)
(* whose requests run under the scope their token was bound to.            *)
(*                                                                         *)
(* Load reads the scopes one file at a time, on boot and on SIGHUP, while  *)
(* the files may change; requests are served in the meantime.  A signal    *)
(* that Run does not listen for yet kills the process.                     *)
(***************************************************************************)
EXTENDS Naturals

CONSTANTS
  Daemons,        \* processes that may run as daemons of one data dir
  Profiles,       \* scopes, in the order of ReadDir
  Tokens,         \* bearer tokens
  Clients,        \* requests that may run at a time
  NoOne, Broken

ASSUME DaemonAssumption ==
  /\ Profiles \subseteq Nat /\ 0 \notin Profiles
  /\ NoOne \notin Daemons /\ {NoOne, Broken} \cap Tokens = {} /\ NoOne # Broken

NoScope == 0

VARIABLES
  files,          \* [Profiles -> bearer_token, Broken, or NoOne: no dir]
  lock,           \* who holds the flock
  daemon,         \* [Daemons -> state of the process]
  published,      \* [Daemons -> [Tokens -> scope, or NoScope]]: byToken
  request,        \* [Clients -> who handles its request, and whether it is in a query]
  informed        \* the files have not changed since the last SIGHUP or boot

vars == <<files, lock, daemon, published, request, informed>>

Bindings == [Tokens -> Profiles \cup {NoScope}]

NoBindings == [t \in Tokens |-> NoScope]

\* loading .. starting: Start; the rest: Run and Shutdown.
Stages == {"down", "loading", "opening", "starting", "serving", "reloading", "draining", "closing"}

\* scan, todo: the map a Load is building, and the dirs it has still to read;
\* hup, term: signals that wait for the loop of Run.
Process == [stage : Stages, scan : Bindings, todo : SUBSET Profiles, hup : BOOLEAN, term : BOOLEAN]

Down == [stage |-> "down", scan |-> NoBindings, todo |-> {}, hup |-> FALSE, term |-> FALSE]

NoRequest == [by |-> NoOne, calling |-> FALSE]

At(d, stages) == daemon[d].stage \in stages

Up(d) == At(d, {"serving", "reloading"})

\* The types; a daemon that runs holds the flock.
DaemonTypeOK ==
  /\ files \in [Profiles -> Tokens \cup {Broken, NoOne}]
  /\ lock \in Daemons \cup {NoOne}
  /\ daemon \in [Daemons -> Process]
  /\ published \in [Daemons -> Bindings]
  /\ request \in [Clients -> [by : Daemons \cup {NoOne}, calling : BOOLEAN]]
  /\ informed \in BOOLEAN
  /\ \A d \in Daemons : lock = d <=> daemon[d].stage # "down"
  /\ \A c \in Clients : request[c].by # NoOne => At(request[c].by, {"serving", "reloading", "draining", "closing"})

Init ==
  /\ files \in [Profiles -> Tokens \cup {Broken, NoOne}]
  /\ lock = NoOne
  /\ daemon = [d \in Daemons |-> Down]
  /\ published = [d \in Daemons |-> NoBindings]
  /\ request = [c \in Clients |-> NoRequest]
  /\ informed = FALSE

-----------------------------------------------------------------------------
Goes(d, stage) == daemon' = [daemon EXCEPT ![d].stage = stage]

\* The process ends; the kernel frees its flock and drops its requests.
Ends(d) ==
  /\ daemon' = [daemon EXCEPT ![d] = Down]
  /\ published' = [published EXCEPT ![d] = NoBindings]
  /\ request' = [c \in Clients |-> IF request[c].by = d THEN NoRequest ELSE request[c]]
  /\ lock' = IF lock = d THEN NoOne ELSE lock

Unchanged == UNCHANGED <<files, informed>>

-----------------------------------------------------------------------------
(* Start: the flock, the first Load, the store.                            *)

\* ReadDir has what is there when a Load begins.
Listed == {p \in Profiles : files[p] # NoOne}

\* A daemon that does not get the flock goes away without a trace.
Start(d) ==
  /\ At(d, {"down"}) /\ lock = NoOne
  /\ lock' = d
  /\ daemon' = [daemon EXCEPT ![d] = [Down EXCEPT !.stage = "loading", !.todo = Listed]]
  /\ informed' = TRUE
  /\ UNCHANGED <<files, published, request>>

Loading(d) == At(d, {"loading", "reloading"})

First(todo) == CHOOSE p \in todo : \A q \in todo : p <= q

Current(d) == First(daemon[d].todo)

\* Mutant: a token of two scopes goes to the last of them.
ReadableAgain(d) == files[Current(d)] \in Tokens

\* LoadScopeFiles succeeds and no scope before this one has the token.
Readable(d) ==
  /\ files[Current(d)] \in Tokens
  /\ daemon[d].scan[files[Current(d)]] = NoScope

ReadScope(d) ==
  /\ Loading(d) /\ daemon[d].todo # {} /\ Readable(d)
  /\ daemon' = [daemon EXCEPT ![d].todo = @ \ {Current(d)}, ![d].scan[files[Current(d)]] = Current(d)]
  /\ UNCHANGED <<lock, published, request>> /\ Unchanged

\* Mutant: a daemon that does not start keeps the flock.
LoadFailsLocked(d) ==
  /\ Loading(d) /\ daemon[d].todo # {} /\ ~Readable(d)
  /\ daemon' = [daemon EXCEPT ![d] = Down]
  /\ UNCHANGED <<lock, published, request>> /\ Unchanged

\* Any scope that cannot be read ends the Load: on boot the daemon does not
\* start, on SIGHUP it keeps the map it has.
LoadFails(d) ==
  /\ Loading(d) /\ daemon[d].todo # {} /\ ~Readable(d)
  /\ IF At(d, {"loading"})
     THEN Ends(d)
     ELSE /\ daemon' = [daemon EXCEPT ![d].stage = "serving", ![d].todo = {}, ![d].scan = NoBindings]
          /\ UNCHANGED <<lock, published, request>>
  /\ Unchanged

Swap(d) ==
  /\ Loading(d) /\ daemon[d].todo = {}
  /\ published' = [published EXCEPT ![d] = daemon[d].scan]
  /\ daemon' = [daemon EXCEPT ![d].stage = IF @ = "loading" THEN "opening" ELSE "serving",
                              ![d].scan = NoBindings]
  /\ UNCHANGED <<lock, request>> /\ Unchanged

OpenStore(d) ==
  /\ At(d, {"opening"}) /\ Goes(d, "starting")
  /\ UNCHANGED <<lock, published, request>> /\ Unchanged

OpenFails(d) == At(d, {"opening"}) /\ Ends(d) /\ Unchanged

-----------------------------------------------------------------------------
(* Run: the signal loop, beside the requests.                              *)

Notify(d) ==
  /\ At(d, {"starting"}) /\ Goes(d, "serving")
  /\ UNCHANGED <<lock, published, request>> /\ Unchanged

\* The begin of a Load on SIGHUP.
TakeHup(d) ==
  /\ At(d, {"serving"}) /\ daemon[d].hup
  /\ daemon' = [daemon EXCEPT ![d].stage = "reloading", ![d].hup = FALSE, ![d].todo = Listed]
  /\ UNCHANGED <<lock, published, request>> /\ Unchanged

\* SIGTERM, or the port cannot be bound, or Accept fails for good.
BeginDrain(d) ==
  /\ At(d, {"serving"})
  /\ daemon' = [daemon EXCEPT ![d].stage = "draining", ![d].hup = FALSE]
  /\ UNCHANGED <<lock, published, request>> /\ Unchanged

\* A token the map knows: the request runs under the scope it is bound to.
Admit(d, c) ==
  /\ Up(d) /\ request[c].by = NoOne
  /\ \E t \in Tokens : published[d][t] # NoScope
  /\ request' = [request EXCEPT ![c].by = d]
  /\ UNCHANGED <<lock, daemon, published>> /\ Unchanged

\* A handler takes a connection of the pool, which a pool being closed refuses.
Query(c) ==
  /\ request[c].by # NoOne /\ ~request[c].calling
  /\ ~At(request[c].by, {"closing"})
  /\ request' = [request EXCEPT ![c].calling = TRUE]
  /\ UNCHANGED <<lock, daemon, published>> /\ Unchanged

\* The query ends, at the latest when middleware.Timeout cancels it.
QueryEnds(c) ==
  /\ request[c].calling
  /\ request' = [request EXCEPT ![c].calling = FALSE]
  /\ UNCHANGED <<lock, daemon, published>> /\ Unchanged

\* The handler returns.  Nothing makes it, as a client may never send its body.
Answer(c) ==
  /\ request[c].by # NoOne /\ ~request[c].calling
  /\ request' = [request EXCEPT ![c] = NoRequest]
  /\ UNCHANGED <<lock, daemon, published>> /\ Unchanged

-----------------------------------------------------------------------------
(* Shutdown.                                                               *)

\* Mutants: the drain has no timeout; the flock is freed before the store is
\* closed.
DrainForEver(d) ==
  /\ At(d, {"draining"}) /\ \A c \in Clients : request[c].by # d
  /\ Goes(d, "closing")
  /\ UNCHANGED <<lock, published, request>> /\ Unchanged
DrainUnlocks(d) ==
  /\ At(d, {"draining"}) /\ Goes(d, "closing") /\ lock' = NoOne
  /\ UNCHANGED <<published, request>> /\ Unchanged

\* srv.Shutdown returns when no request is left, or after its timeout.
Drain(d) ==
  /\ At(d, {"draining"}) /\ Goes(d, "closing")
  /\ UNCHANGED <<lock, published, request>> /\ Unchanged

\* store.Close waits for the connections in use; then the flock is freed, and
\* the process ends with the requests that are left.
Close(d) ==
  /\ At(d, {"closing"})
  /\ \A c \in Clients : request[c].by = d => ~request[c].calling
  /\ Ends(d) /\ Unchanged

-----------------------------------------------------------------------------
(* The operator.                                                           *)

Edit(p, content) ==
  /\ files[p] # content
  /\ files' = [files EXCEPT ![p] = content]
  /\ informed' = FALSE
  /\ UNCHANGED <<lock, daemon, published, request>>

\* Mutant: the channel has no buffer.
SighupUnbuffered(d) ==
  /\ Up(d)
  /\ daemon' = [daemon EXCEPT ![d].hup = @ \/ At(d, {"serving"})]
  /\ informed' = TRUE
  /\ UNCHANGED <<files, lock, published, request>>

\* The channel holds one SIGHUP: one that comes during a Load is not lost, a
\* third one says nothing new.
Sighup(d) ==
  /\ Up(d)
  /\ daemon' = [daemon EXCEPT ![d].hup = TRUE]
  /\ informed' = TRUE
  /\ UNCHANGED <<files, lock, published, request>>

Sigterm(d) ==
  /\ Up(d)
  /\ daemon' = [daemon EXCEPT ![d].term = TRUE]
  /\ UNCHANGED <<lock, published, request>> /\ Unchanged

\* SIGKILL or a panic at any time; SIGHUP and SIGTERM as long as Run has not
\* called Notify.
Die(d) == daemon[d].stage # "down" /\ Ends(d) /\ Unchanged

-----------------------------------------------------------------------------
Work(d) ==
  \/ ReadScope(d) \/ LoadFails(d) \/ Swap(d) \/ OpenStore(d) \/ OpenFails(d)
  \/ Notify(d) \/ TakeHup(d) \/ Drain(d) \/ Close(d)

Next ==
  \/ \E d \in Daemons : Start(d) \/ Work(d) \/ BeginDrain(d) \/ Sighup(d) \/ Sigterm(d) \/ Die(d)
  \/ \E d \in Daemons, c \in Clients : Admit(d, c)
  \/ \E c \in Clients : Query(c) \/ QueryEnds(c) \/ Answer(c)
  \/ \E p \in Profiles, content \in Tokens \cup {Broken, NoOne} : Edit(p, content)

Spec == Init /\ [][Next]_vars

\* The process runs, its drain has a timeout and so have queries; the select
\* of Run picks among ready channels at random, so it does not pass over
\* SIGTERM for ever.  Nothing makes the operator or a client do anything.
Fairness ==
  /\ \A d \in Daemons : WF_vars(Work(d)) /\ SF_vars(BeginDrain(d) /\ daemon[d].term)
  /\ \A c \in Clients : WF_vars(QueryEnds(c))

FairSpec == Spec /\ Fairness

-----------------------------------------------------------------------------
(* Properties.                                                             *)

HasStore(d) == At(d, {"starting", "serving", "reloading", "draining", "closing"})

\* "Acquires an exclusive flock ... so a second instance can't corrupt shared
\* state" (serve): as long as a query of one daemon may run, no other daemon
\* has the store open, whatever dies, times out or is started again.
OneStore ==
  \A d, e \in Daemons : HasStore(d) /\ HasStore(e) => d = e

IsUp == \E d \in Daemons : Up(d)

AtRest == \E d \in Daemons : At(d, {"serving"})

\* The token is bound to the scope, in the daemon that is up if there is one.
Bound(t, p) == \A d \in Daemons : Up(d) => published[d][t] = p

\* "A partial scope set would drop tokens silently" (Load): a token whose
\* scope keeps it works for ever, through reloads and restarts, while its own
\* file is broken at times and other scopes come, break, take the same token
\* and go in the middle of a Load.  (AtRest: no Load is under way at first,
\* which may have read the dir before.)
TokensKept ==
  \A t \in Tokens, p \in Profiles :
    [](AtRest /\ Bound(t, p) /\ [](files[p] \in {t, Broken}) => []Bound(t, p))

\* What a Load of the files would publish, if it can be read.
Loadable ==
  /\ Broken \notin {files[p] : p \in Profiles}
  /\ \A p, q \in Profiles : files[p] = files[q] /\ files[p] # NoOne => p = q

Configured(t, p) == IF p = NoScope THEN \A q \in Profiles : files[q] # t ELSE files[p] = t

\* "SIGHUP reloads the scope registry" (Run): if the daemon stays up and a
\* SIGHUP or the boot comes after the last edit, even while a Load of the
\* older files is under way, the map ends up as the files say.
ReloadTakesEffect ==
  <>[](IsUp /\ informed)
    => <>[](Loadable => \A t \in Tokens : \E p \in Profiles \cup {NoScope} : Configured(t, p) /\ Bound(t, p))

\* "Gracefully drains the HTTP server and releases the global flock"
\* (Shutdown): a stop comes to its end, even with a client that never does.
StopEnds == \A d \in Daemons : daemon[d].term ~> daemon[d].stage = "down"

=============================================================================
