---------------------------- MODULE DaemonProofs ----------------------------
(***************************************************************************)
(* Of any number of daemons on a data dir one at most has the store open.  *)
(*                                                                         *)
(* DaemonTypeOK is inductive: the flock is held from before the first Load *)
(* until the process is down, by one daemon at a time, and requests live   *)
(* only in a daemon that serves.                                           *)
(***************************************************************************)
EXTENDS Daemon, LeastProofs

\* The scope a Load reads next is one it has still to read.
LEMMA CurrentIn ==
  ASSUME NEW d \in Daemons, daemon[d].todo \subseteq Profiles, daemon[d].todo # {}
  PROVE  Current(d) \in daemon[d].todo
<1>1. daemon[d].todo \in SUBSET Nat
  BY DaemonAssumption
<1> QED  BY <1>1, LeastExists DEF Current, First

\* The initial states have the types.
LEMMA InitTypes == Init => DaemonTypeOK
<1> SUFFICES ASSUME Init  PROVE DaemonTypeOK
  OBVIOUS
<1>1. NoBindings \in Bindings
  BY DEF NoBindings, Bindings
<1>2. Down \in Process /\ Down.stage = "down"
  BY <1>1 DEF Down, Process, Stages
<1>3. \A d \in Daemons : daemon[d].stage = "down" /\ lock # d
  BY <1>2, DaemonAssumption DEF Init
<1>4. \A c \in Clients : request[c] = NoRequest /\ request[c].by = NoOne
  BY DEF Init, NoRequest
<1> QED  BY <1>1, <1>2, <1>3, <1>4 DEF Init, DaemonTypeOK, NoRequest

\* A step of a process that goes on: it keeps the flock, its requests, and its
\* stage unless it moves to one in which it may have requests.
LEMMA MovesTypes ==
  ASSUME DaemonTypeOK, NEW d \in Daemons,
         daemon' \in [Daemons -> Process],
         \A e \in Daemons \ {d} : daemon'[e] = daemon[e],
         daemon[d].stage # "down", daemon'[d].stage # "down",
         \/ daemon'[d].stage = daemon[d].stage
         \/ daemon[d].stage \in {"loading", "opening"}
         \/ daemon'[d].stage \in {"serving", "reloading", "draining", "closing"},
         published' \in [Daemons -> Bindings],
         UNCHANGED <<lock, request, files, informed>>
  PROVE  DaemonTypeOK'
<1>1. \A e \in Daemons : lock' = e <=> daemon'[e].stage # "down"
  BY DEF DaemonTypeOK
<1>2. ASSUME NEW c \in Clients, request'[c].by # NoOne
      PROVE  At(request[c].by, {"serving", "reloading", "draining", "closing"})'
  <2>1. PICK e \in Daemons : e = request[c].by
    BY <1>2 DEF DaemonTypeOK
  <2>2. daemon[e].stage \in {"serving", "reloading", "draining", "closing"}
    BY <1>2, <2>1 DEF DaemonTypeOK, At
  <2> QED  BY <2>1, <2>2 DEF At
<1> QED  BY <1>1, <1>2 DEF DaemonTypeOK

\* A process that ends leaves neither a flock nor requests.
LEMMA EndsTypes ==
  ASSUME DaemonTypeOK, NEW d \in Daemons, daemon[d].stage # "down", Ends(d), Unchanged
  PROVE  DaemonTypeOK'
<1>1. NoBindings \in Bindings /\ Down \in Process /\ Down.stage = "down"
  BY DEF Down, Process, Stages, NoBindings, Bindings
<1>2. /\ daemon' \in [Daemons -> Process] /\ daemon'[d].stage = "down"
      /\ \A e \in Daemons \ {d} : daemon'[e] = daemon[e]
      /\ published' \in [Daemons -> Bindings]
  BY <1>1 DEF Ends, DaemonTypeOK
<1>3. lock = d /\ lock' = NoOne
  BY DEF Ends, DaemonTypeOK
<1>4. \A e \in Daemons : lock' = e <=> daemon'[e].stage # "down"
  BY <1>2, <1>3, DaemonAssumption DEF DaemonTypeOK
<1>5. request' \in [Clients -> [by : Daemons \cup {NoOne}, calling : BOOLEAN]]
  BY DEF Ends, DaemonTypeOK, NoRequest
<1>6. ASSUME NEW c \in Clients, request'[c].by # NoOne
      PROVE  At(request[c].by, {"serving", "reloading", "draining", "closing"})'
  <2>1. request'[c] = request[c] /\ request[c].by # d /\ request[c].by # NoOne
    BY <1>6 DEF Ends, NoRequest
  <2>2. PICK e \in Daemons : e = request[c].by
    BY <2>1 DEF DaemonTypeOK
  <2>3. daemon[e].stage \in {"serving", "reloading", "draining", "closing"}
    BY <2>1, <2>2 DEF DaemonTypeOK, At
  <2> QED  BY <1>2, <2>1, <2>2, <2>3 DEF At
<1>7. UNCHANGED <<files, informed>>
  BY DEF Unchanged
<1>8. lock' \in Daemons \cup {NoOne}
  BY <1>3
<1> QED  BY <1>2, <1>4, <1>5, <1>6, <1>7, <1>8 DEF DaemonTypeOK

\* The steps of Start and Run that go on: what becomes of the process.
LEMMA WorkMoves ==
  ASSUME DaemonTypeOK, NEW d \in Daemons,
         \/ ReadScope(d) \/ Swap(d) \/ OpenStore(d) \/ Notify(d) \/ TakeHup(d) \/ BeginDrain(d)
         \/ Drain(d) \/ Sighup(d) \/ Sigterm(d)
         \/ (LoadFails(d) /\ At(d, {"reloading"}))
  PROVE  DaemonTypeOK'
<1>1. /\ daemon \in [Daemons -> Process] /\ published \in [Daemons -> Bindings]
      /\ files \in [Profiles -> Tokens \cup {Broken, NoOne}]
  BY DEF DaemonTypeOK
<1>2. NoBindings \in Bindings
  BY DEF NoBindings, Bindings
<1>3. CASE ReadScope(d)
  <2>1. daemon[d].todo \subseteq Profiles /\ Current(d) \in daemon[d].todo
    BY <1>1, <1>3, CurrentIn DEF ReadScope, Process
  <2>2. files[Current(d)] \in Tokens /\ Current(d) \in Profiles
    BY <1>3, <2>1 DEF ReadScope, Readable
  <2>3. [daemon[d].scan EXCEPT ![files[Current(d)]] = Current(d)] \in Bindings
    BY <1>1, <2>2 DEF Process, Bindings
  <2>4. daemon' = [daemon EXCEPT ![d] =
          [daemon[d] EXCEPT !.todo = daemon[d].todo \ {Current(d)},
                            !.scan = [daemon[d].scan EXCEPT ![files[Current(d)]] = Current(d)]]]
    BY <1>1, <1>3 DEF ReadScope, Process
  <2>5. /\ daemon' \in [Daemons -> Process] /\ daemon'[d].stage = daemon[d].stage
        /\ \A e \in Daemons \ {d} : daemon'[e] = daemon[e]
    BY <1>1, <2>1, <2>3, <2>4 DEF Process
  <2>6. daemon[d].stage # "down"
    BY <1>3 DEF ReadScope, Loading, At
  <2> QED  BY <1>1, <1>3, <2>5, <2>6, MovesTypes DEF ReadScope, Unchanged
<1>4. CASE Swap(d)
  <2>1. daemon' = [daemon EXCEPT ![d] =
          [daemon[d] EXCEPT !.stage = IF daemon[d].stage = "loading" THEN "opening" ELSE "serving",
                            !.scan = NoBindings]]
    BY <1>1, <1>4 DEF Swap, Process
  <2>2. /\ daemon' \in [Daemons -> Process]
        /\ daemon'[d].stage = (IF daemon[d].stage = "loading" THEN "opening" ELSE "serving")
        /\ \A e \in Daemons \ {d} : daemon'[e] = daemon[e]
    BY <1>1, <1>2, <2>1 DEF Process, Stages
  <2>3. published' \in [Daemons -> Bindings]
    BY <1>1, <1>4 DEF Swap, Process
  <2>4. daemon[d].stage \in {"loading", "reloading"}
    BY <1>4 DEF Swap, Loading, At
  <2> QED  BY <1>4, <2>2, <2>3, <2>4, MovesTypes DEF Swap, Unchanged
<1>5. ASSUME NEW from \in Stages \ {"down"}, NEW to \in Stages \ {"down"},
             daemon[d].stage = from, Goes(d, to),
             from = "opening" \/ to \in {"serving", "closing"},
             UNCHANGED <<lock, published, request, files, informed>>
      PROVE  DaemonTypeOK'
  <2>1. /\ daemon' \in [Daemons -> Process] /\ daemon'[d].stage = to
        /\ \A e \in Daemons \ {d} : daemon'[e] = daemon[e]
    BY <1>1, <1>5 DEF Goes, Process
  <2> QED  BY <1>1, <1>5, <2>1, MovesTypes
<1>6. CASE OpenStore(d) \/ Notify(d) \/ Drain(d)
  BY <1>5, <1>6 DEF OpenStore, Notify, Drain, At, Unchanged, Stages
<1>7. CASE TakeHup(d) \/ BeginDrain(d) \/ (LoadFails(d) /\ At(d, {"reloading"}))
  <2>1. Listed \in SUBSET Profiles
    BY DEF Listed
  <2>2. /\ daemon' \in [Daemons -> Process]
        /\ daemon'[d].stage \in {"serving", "reloading", "draining"}
        /\ \A e \in Daemons \ {d} : daemon'[e] = daemon[e]
    BY <1>1, <1>2, <1>7, <2>1 DEF TakeHup, BeginDrain, LoadFails, Process, Stages, At
  <2>3. daemon[d].stage # "down" /\ UNCHANGED <<lock, published, request, files, informed>>
    BY <1>7 DEF TakeHup, BeginDrain, LoadFails, At, Unchanged
  <2> QED  BY <1>1, <2>2, <2>3, MovesTypes
<1>8. CASE Sighup(d) \/ Sigterm(d)
  <2>1. /\ daemon' \in [Daemons -> Process] /\ daemon'[d].stage = daemon[d].stage
        /\ \A e \in Daemons \ {d} : daemon'[e] = daemon[e]
    BY <1>1, <1>8 DEF Sighup, Sigterm, Process
  <2>2. /\ daemon[d].stage # "down" /\ UNCHANGED <<lock, published, request, files>>
        /\ informed' \in BOOLEAN
    BY <1>8 DEF Sighup, Sigterm, Up, At, Unchanged, DaemonTypeOK
  <2>3. \A e \in Daemons : lock' = e <=> daemon'[e].stage # "down"
    BY <2>1, <2>2 DEF DaemonTypeOK
  <2>4. ASSUME NEW e \in Daemons  PROVE daemon'[e].stage = daemon[e].stage
    BY <2>1
  <2>5. \A c \in Clients : request[c].by # NoOne =>
          At(request[c].by, {"serving", "reloading", "draining", "closing"})'
    <3>1. \A c \in Clients : request[c].by # NoOne => request[c].by \in Daemons
      BY DEF DaemonTypeOK
    <3> QED  BY <2>2, <2>4, <3>1 DEF At, DaemonTypeOK
  <2> QED  BY <1>1, <2>1, <2>2, <2>3, <2>5 DEF DaemonTypeOK
<1> QED  BY <1>3, <1>4, <1>6, <1>7, <1>8

\* The steps of requests and of the operator.
LEMMA OthersTypes ==
  ASSUME DaemonTypeOK,
         \/ \E d \in Daemons, c \in Clients : Admit(d, c)
         \/ \E c \in Clients : Query(c) \/ QueryEnds(c) \/ Answer(c)
         \/ \E p \in Profiles, content \in Tokens \cup {Broken, NoOne} : Edit(p, content)
  PROVE  DaemonTypeOK'
<1>1. ASSUME NEW d \in Daemons, NEW c \in Clients, Admit(d, c)  PROVE DaemonTypeOK'
  BY <1>1 DEF Admit, Up, At, Unchanged, DaemonTypeOK
<1>2. ASSUME NEW c \in Clients, Query(c) \/ QueryEnds(c) \/ Answer(c)  PROVE DaemonTypeOK'
  <2> DEFINE Requests == [by : Daemons \cup {NoOne}, calling : BOOLEAN]
  <2>0. request \in [Clients -> Requests]
    BY DEF DaemonTypeOK
  <2>1. PICK r \in Requests : r.by \in {request[c].by, NoOne} /\ request' = [request EXCEPT ![c] = r]
    <3>1. CASE Query(c) \/ QueryEnds(c)
      <4>1. PICK calling \in BOOLEAN : request' = [request EXCEPT ![c].calling = calling]
        BY <3>1 DEF Query, QueryEnds
      <4>2. [request[c] EXCEPT !.calling = calling] \in Requests
        BY <2>0
      <4> QED  BY <2>0, <4>1, <4>2
    <3>2. CASE Answer(c)
      <4>1. NoRequest \in Requests /\ NoRequest.by = NoOne
        BY DEF NoRequest
      <4> QED  BY <3>2, <4>1 DEF Answer
    <3> QED  BY <1>2, <3>1, <3>2
  <2>3. request' \in [Clients -> Requests] /\ \A b \in Clients : request'[b].by \in {request[b].by, NoOne}
    BY <2>0, <2>1
  <2>2. UNCHANGED <<lock, daemon, published, files, informed>>
    BY <1>2 DEF Query, QueryEnds, Answer, Unchanged
  <2> QED  BY <2>2, <2>3 DEF At, DaemonTypeOK
<1>3. ASSUME NEW p \in Profiles, NEW content \in Tokens \cup {Broken, NoOne}, Edit(p, content)
      PROVE  DaemonTypeOK'
  BY <1>3 DEF Edit, At, DaemonTypeOK
<1> QED  BY <1>1, <1>2, <1>3

\* A daemon starts when no other holds the flock.
LEMMA StartTypes ==
  ASSUME DaemonTypeOK, NEW d \in Daemons, Start(d)
  PROVE  DaemonTypeOK'
<1>1. /\ [Down EXCEPT !.stage = "loading", !.todo = Listed] \in Process
      /\ [Down EXCEPT !.stage = "loading", !.todo = Listed].stage = "loading"
  BY DEF Down, Process, Stages, NoBindings, Bindings, Listed
<1>2. /\ daemon' \in [Daemons -> Process] /\ daemon'[d].stage = "loading"
      /\ \A e \in Daemons \ {d} : daemon'[e] = daemon[e]
  BY <1>1 DEF Start, DaemonTypeOK
<1>3. \A e \in Daemons : lock' = e <=> daemon'[e].stage # "down"
  BY <1>2, DaemonAssumption DEF Start, DaemonTypeOK
<1>4. \A c \in Clients : request[c].by # NoOne => request[c].by \in Daemons \ {d}
  BY DEF Start, DaemonTypeOK, At
<1> QED  BY <1>2, <1>3, <1>4 DEF Start, DaemonTypeOK, At

\* Every step keeps the types.
LEMMA NextTypes == DaemonTypeOK /\ [Next]_vars => DaemonTypeOK'
<1> SUFFICES ASSUME DaemonTypeOK, [Next]_vars  PROVE DaemonTypeOK'
  OBVIOUS
<1>1. ASSUME NEW d \in Daemons, Start(d) \/ Work(d) \/ BeginDrain(d) \/ Sighup(d) \/ Sigterm(d) \/ Die(d)
      PROVE  DaemonTypeOK'
  <2>1. CASE LoadFails(d)
    <3>1. CASE At(d, {"loading"})
      BY <2>1, <3>1, EndsTypes DEF LoadFails, At
    <3>2. CASE ~At(d, {"loading"})
      BY <2>1, <3>2, WorkMoves DEF LoadFails, Loading, At
    <3> QED  BY <3>1, <3>2
  <2>2. CASE OpenFails(d) \/ Close(d) \/ Die(d)
    BY <2>2, EndsTypes DEF OpenFails, Close, Die, At
  <2> QED  BY <1>1, <2>1, <2>2, StartTypes, WorkMoves DEF Work
<1>2. CASE UNCHANGED vars
  BY <1>2 DEF vars, DaemonTypeOK, At
<1> QED  BY <1>1, <1>2, OthersTypes DEF Next

\* DaemonTypeOK: the flock is held by the daemon that is not down (Start,
\* Shutdown), and requests live only in a daemon that serves.
THEOREM DaemonTypes == Spec => []DaemonTypeOK
BY InitTypes, NextTypes, PTL DEF Spec

\* OneStore: the flock keeps a second daemon away from the store until the
\* first has closed it, whatever is killed, times out or fails to start.
THEOREM OneStoreAtATime == Spec => []OneStore
<1>1. DaemonTypeOK => OneStore
  BY DEF DaemonTypeOK, OneStore, HasStore, At
<1> QED  BY <1>1, DaemonTypes, PTL

-----------------------------------------------------------------------------
(* A token keeps its scope as long as the file of the scope keeps it.      *)

\* The map in use has the binding, and the one a Load builds has it or has
\* still to read the scope.
Kept(t, p) ==
  \A d \in Daemons :
    /\ At(d, {"opening", "starting", "serving", "reloading"}) => published[d][t] = p
    /\ Loading(d) => p \in daemon[d].todo \/ daemon[d].scan[t] = p

\* With a daemon at rest, there is no other that loads.
LEMMA KeptAtRest ==
  ASSUME NEW t \in Tokens, NEW p \in Profiles, DaemonTypeOK, AtRest, Bound(t, p)
  PROVE  Kept(t, p)
<1>1. PICK d \in Daemons : daemon[d].stage = "serving"
  BY DEF AtRest, At
<1>2. published[d][t] = p
  BY <1>1 DEF Bound, Up, At
<1>3. \A e \in Daemons \ {d} : daemon[e].stage = "down"
  BY <1>1 DEF DaemonTypeOK
<1> QED  BY <1>1, <1>2, <1>3 DEF Kept, At, Loading

\* A scope whose file has the token takes it, unless another one has it in
\* the same Load; once it has it, no other can take it.
LEMMA KeptReadScope ==
  ASSUME NEW t \in Tokens, NEW p \in Profiles, DaemonTypeOK, Kept(t, p),
         files[p] \in {t, Broken}, NEW d \in Daemons, ReadScope(d)
  PROVE  Kept(t, p)'
<1>1. daemon \in [Daemons -> Process] /\ daemon[d].todo \subseteq Profiles
  BY DEF DaemonTypeOK, Process
<1>2. Loading(d) /\ Current(d) \in daemon[d].todo
  BY <1>1, CurrentIn DEF ReadScope
<1>3. PICK q \in Profiles, u \in Tokens :
        q = Current(d) /\ u = files[q] /\ daemon[d].scan[u] = NoScope
  BY <1>1, <1>2 DEF ReadScope, Readable
<1>4. /\ daemon' = [daemon EXCEPT ![d] = [daemon[d] EXCEPT !.todo = daemon[d].todo \ {q},
                                                   !.scan = [daemon[d].scan EXCEPT ![u] = q]]]
      /\ UNCHANGED published
  BY <1>1, <1>3 DEF ReadScope, Process
<1>5. /\ daemon'[d].stage = daemon[d].stage
      /\ daemon'[d].todo = daemon[d].todo \ {q}
      /\ daemon'[d].scan = [daemon[d].scan EXCEPT ![u] = q]
      /\ \A e \in Daemons \ {d} : daemon'[e] = daemon[e]
  BY <1>1, <1>4 DEF Process
<1>6. daemon[d].scan \in Bindings
  BY <1>1 DEF Process
<1>7. p \in daemon'[d].todo \/ daemon'[d].scan[t] = p
  <2>1. CASE q = p
    <3>1. u = t
      BY <1>3, <2>1, DaemonAssumption
    <3> QED  BY <1>5, <1>6, <2>1, <3>1 DEF Bindings
  <2>2. CASE q # p /\ p \in daemon[d].todo
    BY <1>5, <2>2
  <2>3. CASE p \notin daemon[d].todo
    <3>1. daemon[d].scan[t] = p
      BY <1>2, <2>3 DEF Kept
    <3>2. u # t
      BY <1>3, <3>1, DaemonAssumption DEF NoScope
    <3> QED  BY <1>5, <1>6, <3>1, <3>2 DEF Bindings
  <2> QED  BY <2>1, <2>2, <2>3
<1>8. ASSUME NEW e \in Daemons \ {d}  PROVE (At(e, {"opening", "starting", "serving", "reloading"})
                                               => published[e][t] = p)'
                                           /\ (Loading(e) => p \in daemon[e].todo \/ daemon[e].scan[t] = p)'
  BY <1>4, <1>5 DEF Kept, At, Loading
<1>9. (At(d, {"opening", "starting", "serving", "reloading"}) => published[d][t] = p)'
  BY <1>4, <1>5 DEF Kept, At
<1> QED  BY <1>7, <1>8, <1>9 DEF Kept

\* A Load that begins finds the scope.
LEMMA KeptBegins ==
  ASSUME NEW t \in Tokens, NEW p \in Profiles, DaemonTypeOK, Kept(t, p),
         files[p] \in {t, Broken}, NEW d \in Daemons, Start(d) \/ TakeHup(d)
  PROVE  Kept(t, p)'
<1>1. p \in Listed
  BY DaemonAssumption DEF Listed
<1>2. /\ daemon'[d].todo = Listed /\ daemon'[d].stage \in {"loading", "reloading"}
      /\ daemon'[d].stage = "reloading" => daemon[d].stage = "serving"
      /\ \A e \in Daemons \ {d} : daemon'[e] = daemon[e]
      /\ UNCHANGED published
  <2>1. daemon \in [Daemons -> Process]
    BY DEF DaemonTypeOK
  <2>2. CASE Start(d)
    <3>1. daemon' = [daemon EXCEPT ![d] = [Down EXCEPT !.stage = "loading", !.todo = Listed]]
      BY <2>2 DEF Start
    <3> QED  BY <2>1, <2>2, <3>1 DEF Start, Down
  <2>3. CASE TakeHup(d)
    BY <2>1, <2>3 DEF TakeHup, Process, At
  <2> QED  BY <2>2, <2>3
<1> QED  BY <1>1, <1>2 DEF Kept, At, Loading

\* Of the other steps only Swap changes a map, and it has read every scope.
LEMMA KeptMoves ==
  ASSUME NEW t \in Tokens, NEW p \in Profiles, DaemonTypeOK, Kept(t, p), NEW d \in Daemons,
         \/ LoadFails(d) \/ Swap(d) \/ OpenStore(d) \/ OpenFails(d) \/ Notify(d)
         \/ Drain(d) \/ Close(d) \/ BeginDrain(d) \/ Sighup(d) \/ Sigterm(d) \/ Die(d)
  PROVE  Kept(t, p)'
<1>1. daemon \in [Daemons -> Process] /\ published \in [Daemons -> Bindings]
  BY DEF DaemonTypeOK
<1>2. CASE Swap(d)
  <2>1. daemon[d].todo = {} /\ Loading(d)
    BY <1>2 DEF Swap
  <2>2. daemon[d].scan[t] = p
    BY <2>1 DEF Kept
  <2>3. /\ published'[d] = daemon[d].scan
        /\ \A e \in Daemons \ {d} : published'[e] = published[e] /\ daemon'[e] = daemon[e]
        /\ daemon'[d].stage \in {"opening", "serving"}
    BY <1>1, <1>2 DEF Swap, Process
  <2> QED  BY <2>2, <2>3 DEF Kept, At, Loading
<1>3. CASE Ends(d)
  <2>1. /\ daemon'[d].stage = "down"
        /\ \A e \in Daemons \ {d} : published'[e] = published[e] /\ daemon'[e] = daemon[e]
    BY <1>1, <1>3 DEF Ends, Down
  <2> QED  BY <2>1 DEF Kept, At, Loading
<1>4. CASE \/ OpenStore(d) \/ Notify(d) \/ Drain(d) \/ BeginDrain(d)
           \/ (LoadFails(d) /\ ~At(d, {"loading"}))
  <2>1. /\ daemon'[d].stage \in {"starting", "serving", "draining", "closing"}
        /\ daemon'[d].stage \in {"starting", "serving"} =>
             daemon[d].stage \in {"opening", "starting", "reloading"}
        /\ \A e \in Daemons \ {d} : daemon'[e] = daemon[e]
        /\ UNCHANGED published
    BY <1>1, <1>4 DEF OpenStore, Notify, Drain, BeginDrain, LoadFails, Loading, Goes, At, Process
  <2> QED  BY <2>1 DEF Kept, At, Loading
<1>5. CASE Sighup(d) \/ Sigterm(d)
  <2>1. /\ \A e \in Daemons : /\ daemon'[e].stage = daemon[e].stage
                              /\ daemon'[e].todo = daemon[e].todo
                              /\ daemon'[e].scan = daemon[e].scan
        /\ UNCHANGED published
    BY <1>1, <1>5 DEF Sighup, Sigterm, Process
  <2> QED  BY <2>1 DEF Kept, At, Loading
<1> QED  BY <1>2, <1>3, <1>4, <1>5 DEF LoadFails, OpenFails, Close, Die

\* As long as the file of the scope has the token or is broken, every step
\* keeps the binding.
LEMMA KeptStep ==
  ASSUME NEW t \in Tokens, NEW p \in Profiles
  PROVE  DaemonTypeOK /\ Kept(t, p) /\ files[p] \in {t, Broken} /\ [Next]_vars => Kept(t, p)'
<1> SUFFICES ASSUME DaemonTypeOK, Kept(t, p), files[p] \in {t, Broken}, [Next]_vars
             PROVE  Kept(t, p)'
  OBVIOUS
<1>1. ASSUME NEW d \in Daemons, Start(d) \/ Work(d) \/ BeginDrain(d) \/ Sighup(d) \/ Sigterm(d) \/ Die(d)
      PROVE  Kept(t, p)'
  BY <1>1, KeptReadScope, KeptBegins, KeptMoves DEF Work
<1>2. CASE UNCHANGED <<daemon, published>>
  BY <1>2 DEF Kept, At, Loading
<1> QED  BY <1>1, <1>2 DEF Next, Admit, Query, QueryEnds, Answer, Edit, vars

\* TokensKept: reloads, failed reloads, restarts and other scopes that come,
\* break, take the token and go never part a token from a scope that keeps it.
THEOREM TokensAreKept == Spec => TokensKept
<1>1. ASSUME NEW t \in Tokens, NEW p \in Profiles
      PROVE  Spec => [](AtRest /\ Bound(t, p) /\ [](files[p] \in {t, Broken}) => []Bound(t, p))
  <2>1. DaemonTypeOK /\ AtRest /\ Bound(t, p) => Kept(t, p)
    BY KeptAtRest
  <2>2. DaemonTypeOK /\ Kept(t, p) /\ files[p] \in {t, Broken} /\ [Next]_vars => Kept(t, p)'
    BY KeptStep
  <2>3. Kept(t, p) => Bound(t, p)
    BY DEF Kept, Bound, Up, At
  <2> QED  BY <2>1, <2>2, <2>3, DaemonTypes, PTL DEF Spec
<1> QED  BY <1>1 DEF TokensKept

=============================================================================
