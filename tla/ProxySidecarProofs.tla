------------------------- MODULE ProxySidecarProofs -------------------------
(***************************************************************************)
(* Theorems about ProxySidecar, for any number of commands, ports, processes *)
(* and ways of starting, and any workload.                                   *)
(***************************************************************************)
EXTENDS ProxySidecar, FiniteSetTheorems, TLAPS

Places == {"idle", "probing", "found", "closed", "opening", "waiting", "starting", "trying",
           "stopping", "stoppingRedis"}

Calling == [at : Places, port : Ports \cup {None}, fresh : BOOLEAN,
            child : Redises \cup Sidecars \cup {None}, tries : 0 .. MaxAttempts,
            old : SUBSET (Redises \cup Sidecars),
            answer : {"none", "running", "stopped", "error"}]

RedisState == [at : Ports \cup {None}, is : {"dead", "loading", "up"}]

Inside == {"starting", "trying"}

(* The variables' types, the commands' records included.                     *)
Typed ==
    /\ port \in Ports /\ other \subseteq Ports /\ sidecar \subseteq Sidecars
    /\ redis \in [Redises -> RedisState]
    /\ rslot \in Redises \cup {None} /\ slot \in Sidecars \cup {None}
    /\ rlock \in Calls \cup {None} /\ lock \in Calls \cup {None}
    /\ call \in [Calls -> Calling]

(* Who is where: the locks are held inside, the ways of starting are counted *)
(* from none, and an answer is that of a command that has ended.             *)
Placed ==
    \A c \in Calls :
        /\ rlock = c <=> call[c].at = "opening"
        /\ lock = c <=> call[c].at \in Inside
        /\ call[c].at \notin Inside => call[c].tries = 0
        /\ call[c].at # "idle" => call[c].answer = "none"
        /\ call[c].at = "opening" => call[c].child \in Redises

(* The service: while a command starts it, its slot is empty and the only    *)
(* process is the command's; otherwise it is the slot's.                     *)
Service ==
    IF lock = None THEN sidecar \subseteq {slot}
    ELSE /\ slot = None
         /\ call[lock].at = "starting" => sidecar \subseteq {call[lock].child}
         /\ call[lock].at = "trying" => sidecar = {}

(* Redis: the same with its own slot and lock.                               *)
Database ==
    IF rlock = None THEN \A r \in Redises : Runs(r) => r = rslot
    ELSE rslot = None /\ \A r \in Redises : Runs(r) => r = call[rlock].child

(* What a stop has found running in the service's slot does not run again.   *)
Stopped ==
    \A c \in Calls : call[c].at = "stoppingRedis" => call[c].old \cap sidecar = {}

SidecarInv == Typed /\ Placed /\ Service /\ Database /\ Stopped

-----------------------------------------------------------------------------
(* A process that is chosen is one of those that may be.                     *)
LEMMA AnyOfChosen == ASSUME NEW S PROVE AnyOf(S) \subseteq S
BY DEF AnyOf

(* A new process is none that runs, is in a slot or is remembered.           *)
LEMMA FreeIsFree ==
    /\ \A r \in FreeRedis : r \in Redises /\ ~Runs(r) /\ r # rslot
    /\ \A s \in FreeSidecar : s \in Sidecars \ sidecar /\ s # slot /\ Fresh(s)
<1>1. FreeRedis \subseteq {r \in Redises : ~Runs(r) /\ r # rslot /\ Fresh(r)}
    BY AnyOfChosen DEF FreeRedis
<1>2. FreeSidecar \subseteq {s \in Sidecars \ sidecar : s # slot /\ Fresh(s)}
    BY AnyOfChosen DEF FreeSidecar
<1> QED
    BY <1>1, <1>2

(* A set within one value has at most one element.                           *)
LEMMA AtMostOne == ASSUME NEW S, NEW x, S \subseteq {x} PROVE Cardinality(S) <= 1
<1>1. S = {} \/ S = {x}
    OBVIOUS
<1>2. Cardinality({}) = 0 /\ Cardinality({x}) = 1
    BY FS_EmptySet, FS_Singleton
<1> QED
    BY <1>1, <1>2

(* The invariant says what NothingStray says.                                *)
LEMMA InvIsNothingStray == SidecarInv => NothingStray
<1> SUFFICES ASSUME SidecarInv PROVE NothingStray
    OBVIOUS
<1>1. TypeOK
    BY DEF SidecarInv, Typed, Placed, TypeOK, Calling, Places, RedisState, Inside
<1>2. OneSidecar
  <2>1. \E x : sidecar \subseteq {x}
      BY DEF SidecarInv, Typed, Placed, Service, Inside
  <2> QED
      BY <2>1, AtMostOne DEF OneSidecar
<1>3. NoStrayRedis
    BY DEF SidecarInv, Typed, Placed, Database, NoStrayRedis
<1> QED
    BY <1>1, <1>2, <1>3 DEF NothingStray

(* It holds when nothing has been started yet.                               *)
LEMMA SidecarInvInit == Init => SidecarInv
<1> SUFFICES ASSUME Init PROVE SidecarInv
    OBVIOUS
<1>1. MaxAttempts \in Nat /\ None \notin Calls \cup Ports \cup Redises \cup Sidecars
    BY ProxySidecarAssumption
<1>2. Rest \in Calling
    BY <1>1 DEF Rest, Calling, Places
<1>3. Typed
    BY <1>2 DEF Init, Typed, RedisState, Dead
<1>4. Placed /\ Service /\ Database /\ Stopped
    BY <1>1 DEF Init, Placed, Service, Database, Stopped, Runs, Dead, Rest, Inside
<1> QED
    BY <1>3, <1>4 DEF SidecarInv

-----------------------------------------------------------------------------
(* Every step keeps the invariant.                                           *)

(* The machine: settings, other programs and processes that end.             *)
LEMMA MachineSteps ==
    ASSUME SidecarInv,
           \/ EditSettings \/ OtherStarts \/ StatusReaps
           \/ \E r \in Redises : RedisOpens(r) \/ RedisDies(r)
           \/ \E s \in Sidecars : SidecarDies(s)
    PROVE  SidecarInv'
<1> USE DEF SidecarInv
<1>1. CASE EditSettings \/ OtherStarts
    BY <1>1 DEF EditSettings, OtherStarts, procs, Typed, Placed, Service, Database, Stopped, Runs
<1>2. CASE StatusReaps
    BY <1>2 DEF StatusReaps, Typed, Placed, Service, Database, Stopped, Runs
<1>3. ASSUME NEW r \in Redises, RedisOpens(r) \/ RedisDies(r) PROVE SidecarInv'
  <2>1. redis' \in [Redises -> RedisState]
      BY <1>3 DEF RedisOpens, RedisDies, Typed, RedisState, Dead
  <2>2. \A q \in Redises : Runs(q)' => Runs(q)
      BY <1>3 DEF RedisOpens, RedisDies, Typed, RedisState, Runs, Dead
  <2> QED
      BY <1>3, <2>1, <2>2 DEF RedisOpens, RedisDies, Typed, Placed, Service, Database, Stopped
<1>4. ASSUME NEW s \in Sidecars, SidecarDies(s) PROVE SidecarInv'
    BY <1>4 DEF SidecarDies, Typed, Placed, Service, Database, Stopped, Runs
<1> QED
    BY <1>1, <1>2, <1>3, <1>4

(* A command that only moves on, under no lock, disturbs nothing.            *)
LEMMA Moves ==
    ASSUME SidecarInv, NEW c \in Calls, NEW next \in Calling,
           call[c].at \notin Inside \cup {"opening"},
           next.at \notin Inside \cup {"opening"}, next.tries = 0,
           next.at # "idle" => next.answer = "none",
           next.at = "stoppingRedis" => next.old \cap sidecar = {},
           call' = [call EXCEPT ![c] = next], UNCHANGED procs
    PROVE  /\ call' \in [Calls -> Calling]
           /\ Placed' /\ Service' /\ Database' /\ Stopped'
<1> USE DEF SidecarInv
<1>1. call' \in [Calls -> Calling]
    BY DEF Typed
<1>2. Placed'
    BY DEF Typed, Placed, procs, Inside
<1>3. Service' /\ Database'
    BY DEF Typed, Placed, Service, Database, Runs, procs, Inside
<1>4. Stopped'
    BY DEF Typed, Stopped, procs
<1> QED
    BY <1>1, <1>2, <1>3, <1>4

(* A record that Rest is changed into, or whose place alone changes, is one   *)
(* of a command.                                                             *)
LEMMA Records ==
    /\ \A ans \in {"running", "stopped", "error"} : [Rest EXCEPT !.answer = ans] \in Calling
    /\ \A p \in Ports : [Rest EXCEPT !.at = "probing", !.port = p] \in Calling
    /\ \A s \in SUBSET (Redises \cup Sidecars) :
           [Rest EXCEPT !.at = "stopping", !.old = s] \in Calling
    /\ \A r \in Calling, at \in Places : [r EXCEPT !.at = at] \in Calling
<1>1. MaxAttempts \in Nat
    BY ProxySidecarAssumption
<1>2. Rest \in Calling
    BY <1>1 DEF Rest, Calling, Places
<1>3. \A r \in Calling, at \in Places : [r EXCEPT !.at = at] \in Calling
    BY DEF Calling
<1>4. ASSUME NEW ans \in {"running", "stopped", "error"}
      PROVE  [Rest EXCEPT !.answer = ans] \in Calling
    BY <1>2 DEF Calling
<1>5. ASSUME NEW p \in Ports PROVE [Rest EXCEPT !.at = "probing", !.port = p] \in Calling
    BY <1>2 DEF Calling, Places
<1>6. ASSUME NEW s \in SUBSET (Redises \cup Sidecars)
      PROVE  [Rest EXCEPT !.at = "stopping", !.old = s] \in Calling
    BY <1>2 DEF Calling, Places
<1> QED
    BY <1>3, <1>4, <1>5, <1>6

(* ensure_local_redis up to its spawn, a service that runs, and what a stop   *)
(* begins with.                                                              *)
LEMMA ProbeSteps ==
    ASSUME SidecarInv, NEW c \in Calls,
           StartAsked(c) \/ Probes(c) \/ Skips(c) \/ AlreadyRuns(c) \/ StopAsked(c)
    PROVE  SidecarInv'
<1>1. Typed /\ Placed
    BY DEF SidecarInv
<1>2. UNCHANGED <<port, other, procs>>
    BY DEF StartAsked, Probes, Skips, AlreadyRuns, StopAsked
<1>3. SUFFICES ASSUME NEW next \in Calling,
                      call' = [call EXCEPT ![c] = next],
                      call[c].at \notin Inside \cup {"opening"},
                      next.at \notin Inside \cup {"opening", "stoppingRedis"}, next.tries = 0,
                      next.at # "idle" => next.answer = "none"
               PROVE  SidecarInv'
  <2>1. CASE StartAsked(c)
    <3> DEFINE new == [Rest EXCEPT !.at = "probing", !.port = port]
    <3>1. new \in Calling
        BY <1>1, Records DEF Typed
    <3> QED
        BY <2>1, <3>1, <1>3 DEF StartAsked, Admitted, Rest, Inside
  <2>2. CASE StopAsked(c)
    <3> DEFINE new == [Rest EXCEPT !.at = "stopping",
                           !.old = sidecar \cup {r \in Redises : Runs(r)}]
    <3>1. new \in Calling
        BY <1>1, Records DEF Typed
    <3> QED
        BY <2>2, <3>1, <1>3 DEF StopAsked, Admitted, Rest, Inside
  <2>3. CASE AlreadyRuns(c)
    <3> DEFINE new == [Rest EXCEPT !.answer = "running"]
    <3>1. new \in Calling
        BY Records
    <3> QED
        BY <2>3, <3>1, <1>3 DEF AlreadyRuns, Answers, Rest, Inside
  <2>4. ASSUME NEW at \in {"found", "closed", "waiting"}, call[c].at \in {"probing", "closed"},
               Goes(c, at)
        PROVE  SidecarInv'
    <3> DEFINE new == [call[c] EXCEPT !.at = at]
    <3>1. call[c] \in Calling
        BY <1>1 DEF Typed
    <3>2. new \in Calling
        BY <3>1, Records DEF Places
    <3>3. call[c].tries = 0 /\ call[c].answer = "none"
        BY <1>1, <2>4 DEF Placed, Inside
    <3>4. new.at = at /\ new.tries = call[c].tries /\ new.answer = call[c].answer
        BY <3>1 DEF Calling
    <3>5. call' = [call EXCEPT ![c] = new]
        BY <2>4 DEF Goes
    <3> QED
        BY <2>4, <3>2, <3>3, <3>4, <3>5, <1>3 DEF Inside
  <2> QED
      BY <2>1, <2>2, <2>3, <2>4 DEF Probes, Skips
<1>4. Placed' /\ Service' /\ Database' /\ Stopped' /\ call' \in [Calls -> Calling]
    BY <1>2, <1>3, Moves
<1> QED
    BY <1>1, <1>2, <1>4 DEF SidecarInv, Typed, procs

(* ensure_local_redis with its lock: another command is neither inside nor    *)
(* waiting with a child of its own.                                          *)
LEMMA RedisSteps ==
    ASSUME SidecarInv, NEW c \in Calls,
           Recognises(c) \/ SpawnsRedis(c) \/ RedisReady(c) \/ RedisFails(c)
    PROVE  SidecarInv'
<1> USE DEF SidecarInv
<1>1. None \notin Calls /\ None \notin Redises /\ MaxAttempts \in Nat
    BY ProxySidecarAssumption
<1>2. call \in [Calls -> Calling] /\ call[c] \in Calling
    BY DEF Typed
<1>3. CASE Recognises(c)
  <2>1. call' = [call EXCEPT ![c] = [call[c] EXCEPT !.at = "waiting"]]
      BY <1>3 DEF Recognises, Goes
  <2>2. call' \in [Calls -> Calling]
      BY <1>2, <2>1, Records DEF Places
  <2>3. Typed'
      BY <1>3, <2>2 DEF Recognises, Typed
  <2>4. Placed' /\ Stopped'
      BY <1>2, <1>3, <2>1 DEF Recognises, Placed, Stopped, Inside, Calling
  <2>5. Service' /\ Database'
      BY <1>1, <1>2, <1>3, <2>1 DEF Recognises, Placed, Service, Database, Runs, Inside, Calling, Typed
  <2> QED
      BY <2>3, <2>4, <2>5
<1>4. CASE SpawnsRedis(c)
  <2>1. PICK r \in FreeRedis :
            /\ redis' = [redis EXCEPT ![r] = [at |-> call[c].port, is |-> "loading"]]
            /\ call' = [call EXCEPT ![c].at = "opening", ![c].child = r]
      BY <1>4 DEF SpawnsRedis
  <2>2. r \in Redises
      BY FreeIsFree
  <2>3. call' \in [Calls -> Calling] /\ redis' \in [Redises -> RedisState]
      BY <1>2, <2>1, <2>2 DEF Calling, Places, Typed, RedisState
  <2>4. Typed'
      BY <1>4, <2>3 DEF SpawnsRedis, Typed
  <2>5. Placed' /\ Stopped'
      BY <1>1, <1>2, <1>4, <2>1, <2>2 DEF SpawnsRedis, Placed, Stopped, Inside, Calling
  <2>6. \A q \in Redises : Runs(q)' => q = r
      BY <1>1, <1>4, <2>1, <2>2 DEF SpawnsRedis, Typed, Database, Runs
  <2>7. call'[c].child = r
      BY <1>2, <2>1 DEF Calling
  <2>8. Database'
      BY <1>1, <1>4, <2>6, <2>7 DEF SpawnsRedis, Database
  <2>9. Service'
      BY <1>1, <1>2, <1>4, <2>1 DEF SpawnsRedis, Service, Placed, Inside, Calling, Typed
  <2> QED
      BY <2>4, <2>5, <2>8, <2>9
<1>5. CASE RedisReady(c)
  <2>1. /\ call[c].child \in Redises /\ rlock = c /\ lock # c
        /\ call[c].answer = "none" /\ call[c].tries = 0
      BY <1>5 DEF RedisReady, Placed, Inside
  <2>2. call' = [call EXCEPT ![c] = [call[c] EXCEPT !.at = "waiting", !.fresh = TRUE, !.child = None]]
      BY <1>2, <1>5 DEF RedisReady, Calling
  <2>3. call' \in [Calls -> Calling]
      BY <1>2, <2>2 DEF Calling, Places
  <2>4. Typed'
      BY <1>5, <2>1, <2>3 DEF RedisReady, Typed
  <2>5. Placed' /\ Stopped'
      BY <1>1, <1>2, <1>5, <2>1, <2>2 DEF RedisReady, Placed, Stopped, Inside, Calling
  <2>6. Database'
      BY <1>1, <1>5, <2>1 DEF RedisReady, Database, Runs
  <2>7. Service'
      BY <1>1, <1>2, <1>5, <2>1, <2>2 DEF RedisReady, Service, Placed, Inside, Calling, Typed
  <2> QED
      BY <2>4, <2>5, <2>6, <2>7
<1>6. CASE RedisFails(c)
  <2>1. call[c].child \in Redises /\ rlock = c /\ lock # c
      BY <1>6 DEF RedisFails, Placed, Inside
  <2>2. call' = [call EXCEPT ![c] = [Rest EXCEPT !.answer = "error"]]
      BY <1>6 DEF RedisFails, Answers
  <2>3. call' \in [Calls -> Calling] /\ redis' \in [Redises -> RedisState]
      BY <1>2, <1>6, <2>2, Records DEF RedisFails, Typed, RedisState, Dead
  <2>4. Typed'
      BY <1>6, <2>3 DEF RedisFails, Typed
  <2>5. Placed' /\ Stopped'
      BY <1>1, <1>2, <1>6, <2>1, <2>2 DEF RedisFails, Placed, Stopped, Inside, Rest
  <2>6. \A q \in Redises : ~Runs(q)'
      BY <1>1, <1>6, <2>1 DEF RedisFails, Database, Runs, Typed, Dead
  <2>7. Database'
      BY <1>6, <2>6 DEF RedisFails, Database
  <2>8. Service'
    <3>1. \A d \in Calls \ {c} : call'[d] = call[d]
        BY <1>2, <2>2
    <3> QED
        BY <1>6, <2>1, <3>1 DEF RedisFails, Service, Typed
  <2> QED
      BY <2>4, <2>5, <2>7, <2>8
<1> QED
    BY <1>3, <1>4, <1>5, <1>6

(* The service under its lock, and the two halves of a stop.                  *)
LEMMA ServiceSteps ==
    ASSUME SidecarInv, NEW c \in Calls,
           \/ Spawns(c) \/ ExitsEarly(c) \/ TriesAgain(c) \/ Started(c) \/ NoneStarts(c)
           \/ StopsSidecar(c) \/ StopsRedis(c)
    PROVE  SidecarInv'
<1> USE DEF SidecarInv
<1>1. /\ None \notin Calls /\ None \notin Redises /\ None \notin Sidecars
      /\ MaxAttempts \in Nat \ {0}
    BY ProxySidecarAssumption
<1>2. call \in [Calls -> Calling] /\ call[c] \in Calling
    BY DEF Typed
(* A new process, first or next.                                             *)
<1>3. ASSUME Spawned(c), sidecar = {}, slot' = None, lock' = c, rlock # c,
             call[c].answer = "none", call[c].tries < MaxAttempts, call[c].at \notin {"opening"},
             \A d \in Calls \ {c} : call[d].at \notin Inside,
             UNCHANGED <<port, other, redis, rslot, rlock, left>>
      PROVE  SidecarInv'
  <2>1. PICK s \in FreeSidecar :
            /\ sidecar' = sidecar \cup {s}
            /\ call' = [call EXCEPT ![c].at = "starting", ![c].child = s, ![c].tries = @ + 1]
      BY <1>3 DEF Spawned
  <2>2. s \in Sidecars /\ Fresh(s)
      BY FreeIsFree
  <2>3. call' = [call EXCEPT ![c] = [call[c] EXCEPT !.at = "starting", !.child = s, !.tries = @ + 1]]
      BY <1>2, <2>1 DEF Calling
  <2>4. call[c].tries + 1 \in 0 .. MaxAttempts
      BY <1>1, <1>2, <1>3 DEF Calling
  <2>5. call' \in [Calls -> Calling]
      BY <1>2, <2>2, <2>3, <2>4 DEF Calling, Places
  <2>6. Typed'
      BY <1>3, <2>1, <2>2, <2>5 DEF Typed
  <2>7. Placed'
      BY <1>1, <1>2, <1>3, <2>3 DEF Placed, Inside, Calling
  <2>8. Service'
      BY <1>1, <1>2, <1>3, <2>1, <2>3 DEF Service, Calling
  <2>9. Database'
      BY <1>1, <1>2, <1>3, <2>3 DEF Database, Runs, Typed
  <2>10. Stopped'
      BY <1>2, <1>3, <2>1, <2>2, <2>3 DEF Stopped, Fresh, Calling
  <2> QED
      BY <2>6, <2>7, <2>8, <2>9, <2>10
<1>4. CASE Spawns(c)
  <2>1. sidecar = {}
      BY <1>1, <1>4 DEF Spawns, Service
  <2>2. /\ rlock # c /\ call[c].answer = "none" /\ call[c].tries = 0
        /\ \A d \in Calls : call[d].at \notin Inside
      BY <1>1, <1>4 DEF Spawns, Placed, Inside
  <2> QED
      BY <1>1, <1>3, <1>4, <2>1, <2>2 DEF Spawns
<1>5. ASSUME call[c].at \in Inside
      PROVE  /\ lock = c /\ rlock # c /\ slot = None /\ call[c].answer = "none"
             /\ \A d \in Calls \ {c} : call[d].at \notin Inside
    BY <1>1, <1>5 DEF Placed, Service, Inside
<1>6. CASE TriesAgain(c)
  <2>1. call[c].at = "trying" /\ UNCHANGED <<slot, lock>>
      BY <1>6 DEF TriesAgain
  <2>2. sidecar = {}
      BY <1>1, <1>5, <2>1 DEF Service, Inside
  <2> QED
      BY <1>3, <1>5, <1>6, <2>1, <2>2 DEF TriesAgain, Inside
<1>7. CASE ExitsEarly(c)
  <2>1. call' = [call EXCEPT ![c] = [call[c] EXCEPT !.at = "trying", !.child = None]]
      BY <1>2, <1>7 DEF ExitsEarly, Calling
  <2>2. call' \in [Calls -> Calling]
      BY <1>2, <2>1 DEF Calling, Places
  <2>3. Typed'
      BY <1>7, <2>2 DEF ExitsEarly, Typed
  <2>4. sidecar' = {}
      BY <1>1, <1>5, <1>7 DEF ExitsEarly, Service, Inside
  <2>5. Placed' /\ Stopped'
      BY <1>2, <1>5, <1>7, <2>1, <2>4 DEF ExitsEarly, Placed, Stopped, Inside, Calling
  <2>6. Service'
      BY <1>1, <1>5, <1>7, <2>4 DEF ExitsEarly, Service, Inside
  <2>7. Database'
      BY <1>2, <1>5, <1>7, <2>1 DEF ExitsEarly, Database, Runs, Inside, Typed
  <2> QED
      BY <2>3, <2>5, <2>6, <2>7
<1>8. CASE Started(c)
  <2>1. call' = [call EXCEPT ![c] = [Rest EXCEPT !.answer = "running"]]
      BY <1>8 DEF Started, Answers
  <2>2. Typed'
      BY <1>2, <1>8, <2>1, Records DEF Started, Typed
  <2>3. Placed' /\ Stopped'
      BY <1>1, <1>2, <1>5, <1>8, <2>1 DEF Started, Placed, Stopped, Inside, Rest
  <2>4. Service'
      BY <1>1, <1>5, <1>8 DEF Started, Service, Inside
  <2>5. Database'
      BY <1>2, <1>5, <1>8, <2>1 DEF Started, Database, Runs, Inside, Typed
  <2> QED
      BY <2>2, <2>3, <2>4, <2>5
<1>9. CASE NoneStarts(c)
  <2>1. call' = [call EXCEPT ![c] = [Rest EXCEPT !.answer = "error"]]
      BY <1>9 DEF NoneStarts, Answers
  <2>2. redis' \in [Redises -> RedisState] /\ rslot' \in Redises \cup {None}
      BY <1>9 DEF NoneStarts, RedisTaken, Typed, RedisState, Dead
  <2>3. Typed'
      BY <1>2, <1>9, <2>1, <2>2, Records DEF NoneStarts, Typed
  <2>4. Placed' /\ Stopped'
      BY <1>1, <1>2, <1>5, <1>9, <2>1 DEF NoneStarts, Placed, Stopped, Inside, Rest
  <2>5. Service'
      BY <1>1, <1>5, <1>9 DEF NoneStarts, Service, Inside
  <2>6. Database'
    <3>1. CASE UNCHANGED <<redis, rslot>>
        BY <1>2, <1>5, <1>9, <2>1, <3>1 DEF NoneStarts, Database, Runs, Inside, Typed
    <3>2. CASE rlock = None /\ RedisTaken
        BY <1>1, <1>9, <3>2 DEF NoneStarts, RedisTaken, Database, Runs, Typed, Dead
    <3> QED
        BY <1>9, <3>1, <3>2 DEF NoneStarts
  <2> QED
      BY <2>3, <2>4, <2>5, <2>6
<1>10. CASE StopsSidecar(c)
  <2>1. call' = [call EXCEPT ![c] = [call[c] EXCEPT !.at = "stoppingRedis"]]
      BY <1>10 DEF StopsSidecar, Goes
  <2>2. call' \in [Calls -> Calling]
      BY <1>2, <2>1, Records DEF Places
  <2>3. Typed'
      BY <1>10, <2>2 DEF StopsSidecar, Typed
  <2>4. sidecar' = {}
      BY <1>10 DEF StopsSidecar, Service
  <2>5. Placed' /\ Stopped'
      BY <1>1, <1>2, <1>10, <2>1, <2>4 DEF StopsSidecar, Placed, Stopped, Inside, Calling
  <2>6. Service' /\ Database'
    <3>1. rlock # c
        BY <1>10 DEF StopsSidecar, Placed
    <3> QED
        BY <1>2, <1>10, <2>1, <2>4, <3>1 DEF StopsSidecar, Service, Database, Runs, Typed
  <2> QED
      BY <2>3, <2>5, <2>6
<1>11. CASE StopsRedis(c)
  <2>1. call' = [call EXCEPT ![c] = [Rest EXCEPT !.answer = "stopped"]]
      BY <1>11 DEF StopsRedis, Answers
  <2>2. redis' \in [Redises -> RedisState]
      BY <1>11 DEF StopsRedis, RedisTaken, Typed, RedisState, Dead
  <2>3. Typed'
      BY <1>2, <1>11, <2>1, <2>2, Records DEF StopsRedis, RedisTaken, Typed
  <2>4. Placed' /\ Stopped'
      BY <1>1, <1>2, <1>11, <2>1 DEF StopsRedis, Placed, Stopped, Inside, Rest
  <2>5. Database'
      BY <1>1, <1>11 DEF StopsRedis, RedisTaken, Database, Runs, Typed, Dead
  <2>6. Service'
    <3>1. lock # c
        BY <1>11 DEF StopsRedis, Placed, Inside
    <3> QED
        BY <1>2, <1>11, <2>1, <3>1 DEF StopsRedis, Service, Typed
  <2> QED
      BY <2>3, <2>4, <2>5, <2>6
<1> QED
    BY <1>4, <1>6, <1>7, <1>8, <1>9, <1>10, <1>11

LEMMA SidecarInvStep == SidecarInv /\ [Next]_vars => SidecarInv'
<1> SUFFICES ASSUME SidecarInv, [Next]_vars PROVE SidecarInv'
    OBVIOUS
<1>1. CASE UNCHANGED vars
    BY <1>1 DEF vars, procs, SidecarInv, Typed, Placed, Service, Database, Stopped, Runs
<1>2. ASSUME NEW c \in Calls, StartAsked(c) \/ StopAsked(c) \/ CallSteps(c) PROVE SidecarInv'
    BY <1>2, ProbeSteps, RedisSteps, ServiceSteps DEF CallSteps
<1> QED
    BY <1>1, <1>2, MachineSteps DEF Next

-----------------------------------------------------------------------------
(* However many commands overlap, and whatever fails or dies meanwhile: one   *)
(* service at a time, and no Redis that the application has started and      *)
(* cannot stop (proxypool_start, ensure_local_redis).                        *)
THEOREM NeverStray == Spec => []NothingStray
<1>1. Spec => []SidecarInv
    BY SidecarInvInit, SidecarInvStep, PTL DEF Spec
<1> QED
    BY <1>1, InvIsNothingStray, PTL

(* A command that waits for the Redis slot to stop it is answered by no other *)
(* step, and all Redises are down when it is.                                *)
LEMMA StopStep ==
    ASSUME SidecarInv, [Next]_vars, NEW c \in Calls,
           call[c].at = "stoppingRedis", call'[c].answer = "stopped"
    PROVE  \A p \in call[c].old : p \notin sidecar' /\ (p \in Redises => redis'[p].is = "dead")
<1> USE DEF SidecarInv
<1>1. call[c].answer = "none" /\ call \in [Calls -> Calling] /\ None \notin Redises
    BY ProxySidecarAssumption DEF Placed, Typed
<1>2. ASSUME NEW d \in Calls \ {c}, StartAsked(d) \/ StopAsked(d) \/ CallSteps(d) PROVE FALSE
  <2>1. call'[c] = call[c]
      BY <1>1, <1>2 DEF StartAsked, StopAsked, CallSteps, Probes, Recognises, Skips, SpawnsRedis,
             RedisReady, RedisFails, AlreadyRuns, Spawns, Spawned, ExitsEarly, TriesAgain, Started,
             NoneStarts, StopsSidecar, StopsRedis, Goes, Answers
  <2> QED
      BY <1>1, <2>1
<1>3. StopsRedis(c)
  <2>1. UNCHANGED call => FALSE
      BY <1>1
  <2>2. StartAsked(c) \/ StopAsked(c) \/ CallSteps(c)
      BY <1>2, <2>1 DEF Next, vars, EditSettings, OtherStarts, StatusReaps, RedisOpens, RedisDies,
             SidecarDies
  <2> QED
      BY <2>2 DEF StartAsked, StopAsked, Admitted, CallSteps, Probes, Recognises, Skips, SpawnsRedis,
             RedisReady, RedisFails, AlreadyRuns, Spawns, ExitsEarly, TriesAgain, Started,
             NoneStarts, StopsSidecar
<1>4. \A r \in Redises : redis'[r].is = "dead"
    BY <1>1, <1>3 DEF StopsRedis, RedisTaken, Database, Runs, Typed, Dead
<1>5. call[c].old \cap sidecar' = {}
    BY <1>3 DEF StopsRedis, Stopped
<1> QED
    BY <1>4, <1>5

(* What ran when a stop was asked for, in the slots or still being started,   *)
(* has ended when it answers (proxypool_stop).                               *)
THEOREM StopEnds == Spec => StopStops
<1>1. Spec => []SidecarInv
    BY SidecarInvInit, SidecarInvStep, PTL DEF Spec
<1> DEFINE Stops ==
        \A c \in Calls :
            call[c].at = "stoppingRedis" /\ call'[c].answer = "stopped"
                => \A p \in call[c].old : p \notin sidecar' /\ (p \in Redises => redis'[p].is = "dead")
<1>2. SidecarInv /\ [Next]_vars => [Stops]_vars
    BY StopStep
<1>3. Spec => [][Stops]_vars
    BY <1>1, <1>2, PTL DEF Spec
<1> QED
    BY <1>3 DEF StopStops

-----------------------------------------------------------------------------
(* Commands one after the other, settings that stay and no process that      *)
(* dies by itself.                                                           *)
Calm(w) == w.alone => w.edits = 0 /\ w.deaths = 0

Starting == {"probing", "found", "closed", "opening", "waiting", "starting", "trying"}

(* From the moment a start has found or awaited it: the port answers.        *)
Ready == {"found", "waiting", "starting", "trying"}

One == \A c, d \in Calls : call[c].at # "idle" /\ call[d].at # "idle" => c = d

(* One port, for the commands and for the Redises of the application.        *)
OnePort ==
    /\ \A c \in Calls : call[c].at \in Starting => call[c].port = port
    /\ \A r \in Redises : Runs(r) => redis[r].at = port

Answered == \A c \in Calls : call[c].at \in Ready => PortOpen(port)

(* A Redis that loads is awaited, or stands before a port that another took. *)
Awaited == rlock = None /\ (\E r \in Redises : redis[r].is = "loading") => PortOpen(port)

CalmInv ==
    /\ SidecarInv /\ left \in WorkloadRecords /\ Calm(left)
    /\ left.alone => One /\ OnePort /\ Answered /\ Awaited

Calmly == (left \in WorkloadRecords)' /\ Calm(left)'
          /\ (left.alone => One /\ OnePort /\ Answered /\ Awaited)'

(* The port answers as long as no Redis that is up ends.                     *)
LEMMA StaysOpen ==
    ASSUME NEW p, PortOpen(p), other \subseteq other',
           \A r \in Redises : redis[r] = [at |-> p, is |-> "up"] => redis'[r] = redis[r]
    PROVE  PortOpen(p)'
BY DEF PortOpen

(* A Redis that is up makes its port answer.                                 *)
LEMMA UpIsOpen ==
    ASSUME Typed, NEW r \in Redises, redis[r].is = "up"
    PROVE  PortOpen(redis[r].at)
<1>1. redis[r] \in RedisState
    BY DEF Typed
<1>2. redis[r] = [at |-> redis[r].at, is |-> "up"]
    BY <1>1 DEF RedisState
<1> QED
    BY <1>2 DEF PortOpen

(* A command alone takes a step that leaves the Redises and the port alone.  *)
LEMMA CallCalm ==
    ASSUME CalmInv, NEW c \in Calls, NEW next, call' = [call EXCEPT ![c] = next],
           left.alone => \A d \in Calls \ {c} : call[d].at = "idle",
           left.alone /\ next.at \in Starting => next.port = port,
           left.alone /\ next.at \in Ready => PortOpen(port),
           left.alone /\ rlock' = None /\ (\E r \in Redises : redis[r].is = "loading") =>
               PortOpen(port),
           UNCHANGED <<port, other, redis, left>>
    PROVE  Calmly
<1>1. call'[c] = next /\ \A d \in Calls \ {c} : call'[d] = call[d]
    BY DEF CalmInv, SidecarInv, Typed
<1>2. (left \in WorkloadRecords)' /\ Calm(left)'
    BY DEF CalmInv, Calm
<1>3. ASSUME left.alone PROVE One' /\ OnePort' /\ Answered' /\ Awaited'
  <2>1. One /\ OnePort /\ Answered /\ Awaited
      BY <1>3 DEF CalmInv
  <2>2. One'
      BY <1>1, <1>3 DEF One
  <2>3. OnePort'
      BY <1>1, <1>3, <2>1 DEF OnePort, Runs
  <2>4. PortOpen(port) => PortOpen(port)'
      BY DEF PortOpen
  <2>5. Answered' /\ Awaited'
      BY <1>1, <1>3, <2>1, <2>4 DEF Answered, Awaited
  <2> QED
      BY <2>2, <2>3, <2>5
<1> QED
    BY <1>2, <1>3 DEF Calmly

(* A command alone has killed every Redis of the application and ends.       *)
LEMMA KilledCalm ==
    ASSUME CalmInv, NEW c \in Calls, NEW answer, Answers(c, answer),
           left.alone => \A d \in Calls \ {c} : call[d].at = "idle",
           \A r \in Redises : redis'[r].is = "dead",
           UNCHANGED <<port, other, left>>
    PROVE  Calmly
<1> DEFINE next == [Rest EXCEPT !.answer = answer]
<1>1. call'[c] = next /\ \A d \in Calls \ {c} : call'[d] = call[d]
    BY DEF CalmInv, SidecarInv, Typed, Answers
<1>2. next.at = "idle"
    BY DEF Rest
<1> HIDE DEF next
<1>3. left.alone => \A d \in Calls : call'[d].at = "idle"
    BY <1>1, <1>2
<1> QED
    BY <1>3 DEF Calmly, CalmInv, Calm, One, OnePort, Answered, Awaited, Starting, Ready, Runs

LEMMA MachineCalm ==
    ASSUME CalmInv,
           \/ EditSettings \/ OtherStarts \/ StatusReaps
           \/ \E r \in Redises : RedisOpens(r) \/ RedisDies(r)
           \/ \E s \in Sidecars : SidecarDies(s)
    PROVE  Calmly
<1>1. Typed /\ Database /\ left \in WorkloadRecords /\ Calm(left) /\ None \notin Redises
    BY ProxySidecarAssumption DEF CalmInv, SidecarInv
(* Nothing of the machine but the port of another program changes.           *)
<1>2. ASSUME UNCHANGED <<port, redis, rlock, call>>, other \subseteq other', left' = left
      PROVE  Calmly
  <2>1. PortOpen(port) => PortOpen(port)'
      BY <1>2 DEF PortOpen
  <2> QED
      BY <1>2, <2>1 DEF Calmly, CalmInv, Calm, One, OnePort, Answered, Awaited, Runs
(* A process ends by itself, or the settings change.                         *)
<1>3. ASSUME NEW bound, bound \in {"edits", "deaths"}, left[bound] > 0,
             left' = [left EXCEPT ![bound] = @ - 1]
      PROVE  Calmly
  <2>1. ~left.alone
      BY <1>1, <1>3 DEF Calm, WorkloadRecords
  <2>2. left' \in WorkloadRecords /\ left'.alone = left.alone
      BY <1>1, <1>3 DEF WorkloadRecords
  <2> QED
      BY <2>1, <2>2 DEF Calmly, Calm
<1>4. CASE EditSettings
  <2>1. left["edits"] > 0 /\ left' = [left EXCEPT !["edits"] = @ - 1]
      BY <1>4 DEF EditSettings
  <2> QED
      BY <1>3, <2>1
<1>5. CASE OtherStarts \/ StatusReaps
    BY <1>2, <1>5 DEF OtherStarts, StatusReaps, procs
<1>6. ASSUME NEW r \in Redises, RedisOpens(r) PROVE Calmly
  <2>1. /\ redis[r].is = "loading" /\ UNCHANGED <<port, other, rlock, call, left>>
        /\ redis' = [redis EXCEPT ![r] =
               IF PortOpen(redis[r].at) THEN Dead ELSE [redis[r] EXCEPT !.is = "up"]]
        /\ redis[r] \in RedisState
      BY <1>1, <1>6 DEF RedisOpens, Typed
  <2>2. \A q \in Redises \ {r} : redis'[q] = redis[q]
      BY <1>1, <2>1 DEF Typed
  <2>3. /\ redis'[r] \in RedisState /\ redis'[r].is # "loading"
        /\ redis'[r].is # "dead" => redis'[r].at = redis[r].at
      BY <1>1, <2>1 DEF Typed, RedisState, Dead
  <2>4. PortOpen(port) => PortOpen(port)'
    <3>1. \A q \in Redises : redis[q] = [at |-> port, is |-> "up"] => redis'[q] = redis[q]
        BY <2>1, <2>2
    <3> QED
        BY <2>1, <3>1, StaysOpen
  <2>5. ASSUME left.alone PROVE One' /\ OnePort' /\ Answered' /\ Awaited'
    <3>1. One /\ OnePort /\ Answered /\ Awaited
        BY <2>5 DEF CalmInv
    <3>2. One' /\ Answered'
        BY <2>1, <2>4, <3>1 DEF One, Answered
    <3>3. OnePort'
        BY <2>1, <2>2, <2>3, <3>1 DEF OnePort, Runs
    <3>4. Awaited'
        BY <2>1, <2>2, <2>3, <2>4, <3>1 DEF Awaited
    <3> QED
        BY <3>2, <3>3, <3>4
  <2> QED
      BY <1>1, <2>1, <2>5 DEF Calmly, Calm
<1>7. CASE (\E r \in Redises : RedisDies(r)) \/ \E s \in Sidecars : SidecarDies(s)
  <2>1. left["deaths"] > 0 /\ left' = [left EXCEPT !["deaths"] = @ - 1]
      BY <1>7 DEF RedisDies, SidecarDies
  <2> QED
      BY <1>3, <2>1
<1> QED
    BY <1>4, <1>5, <1>6, <1>7

(* A command that moves on, with what it knew of the port or more.           *)
LEMMA GoesCalm ==
    ASSUME CalmInv, NEW c \in Calls, NEW at \in Places, NEW next,
           call' = [call EXCEPT ![c] = next], next.at = at, next.port = call[c].port,
           call[c].at # "idle", at \in Starting => call[c].at \in Starting,
           at \in Ready => call[c].at \in Ready \/ (left.alone => PortOpen(port)),
           rlock' = rlock \/ (left.alone => PortOpen(port)),
           UNCHANGED <<port, other, redis, left>>
    PROVE  Calmly
<1>1. left.alone => One /\ OnePort /\ Answered /\ Awaited
    BY DEF CalmInv
<1>2. left.alone => \A d \in Calls \ {c} : call[d].at = "idle"
    BY <1>1 DEF One
<1>3. left.alone /\ next.at \in Starting => next.port = port
    BY <1>1 DEF OnePort
<1>4. left.alone /\ next.at \in Ready => PortOpen(port)
    BY <1>1 DEF Answered
<1>5. left.alone /\ rlock' = None /\ (\E r \in Redises : redis[r].is = "loading") => PortOpen(port)
    BY <1>1 DEF Awaited
<1> QED
    BY <1>2, <1>3, <1>4, <1>5, CallCalm

LEMMA AskedCalm ==
    ASSUME CalmInv, NEW c \in Calls, StartAsked(c) \/ StopAsked(c)
    PROVE  Calmly
<1>1. /\ left.alone => \A d \in Calls \ {c} : call[d].at = "idle"
      /\ UNCHANGED <<port, other, redis, rlock, left>>
    BY DEF StartAsked, StopAsked, Admitted, procs
<1>2. left.alone /\ rlock' = None /\ (\E r \in Redises : redis[r].is = "loading") => PortOpen(port)
    BY <1>1 DEF CalmInv, Awaited
<1>3. CASE StartAsked(c)
  <2> DEFINE next == [Rest EXCEPT !.at = "probing", !.port = port]
  <2>1. call' = [call EXCEPT ![c] = next] /\ next.at = "probing" /\ next.port = port
      BY <1>3 DEF StartAsked, Rest
  <2> HIDE DEF next
  <2> QED
      BY <1>1, <1>2, <2>1, CallCalm DEF Ready
<1>4. CASE StopAsked(c)
  <2> DEFINE next == [Rest EXCEPT !.at = "stopping", !.old = sidecar \cup {r \in Redises : Runs(r)}]
  <2>1. call' = [call EXCEPT ![c] = next] /\ next.at = "stopping"
      BY <1>4 DEF StopAsked, Rest
  <2> HIDE DEF next
  <2> QED
      BY <1>1, <1>2, <2>1, CallCalm DEF Ready, Starting
<1> QED
    BY <1>3, <1>4

(* An answer takes the command out of the way.                               *)
LEMMA AnswersCalm ==
    ASSUME CalmInv, NEW c \in Calls, NEW answer, Answers(c, answer), call[c].at # "idle",
           UNCHANGED <<port, other, redis, rlock, left>>
    PROVE  Calmly
<1> DEFINE next == [Rest EXCEPT !.answer = answer]
<1>1. call' = [call EXCEPT ![c] = next] /\ next.at = "idle"
    BY DEF Answers, Rest
<1> HIDE DEF next
<1>2. left.alone => One /\ Awaited
    BY DEF CalmInv
<1> QED
    BY <1>1, <1>2, CallCalm DEF One, Awaited, Ready, Starting

LEMMA SpawnsRedisCalm ==
    ASSUME CalmInv, NEW c \in Calls, SpawnsRedis(c)
    PROVE  Calmly
<1>1. Typed /\ left \in WorkloadRecords /\ Calm(left) /\ None \notin Calls /\ call[c] \in Calling
    BY ProxySidecarAssumption DEF CalmInv, SidecarInv, Typed
<1>2. PICK r \in FreeRedis :
          /\ redis' = [redis EXCEPT ![r] = [at |-> call[c].port, is |-> "loading"]]
          /\ call' = [call EXCEPT ![c].at = "opening", ![c].child = r]
    BY DEF SpawnsRedis
<1>3. r \in Redises /\ ~Runs(r)
    BY FreeIsFree
<1>4. /\ call[c].at = "closed" /\ rlock' = c /\ UNCHANGED <<port, other, left>>
    BY DEF SpawnsRedis
<1>5. /\ call'[c].at = "opening" /\ call'[c].port = call[c].port
      /\ \A d \in Calls \ {c} : call'[d] = call[d]
    BY <1>1, <1>2 DEF Typed, Calling
<1>6. /\ redis'[r] = [at |-> call[c].port, is |-> "loading"]
      /\ \A q \in Redises \ {r} : redis'[q] = redis[q]
    BY <1>1, <1>2, <1>3 DEF Typed
<1>7. ASSUME left.alone PROVE One' /\ OnePort' /\ Answered' /\ Awaited'
  <2>1. One /\ OnePort
      BY <1>7 DEF CalmInv
  <2>2. \A d \in Calls \ {c} : call[d].at = "idle"
      BY <1>4, <2>1 DEF One
  <2>3. call[c].port = port
      BY <1>4, <2>1 DEF OnePort, Starting
  <2>4. One' /\ Answered' /\ Awaited'
      BY <1>1, <1>4, <1>5, <2>2 DEF One, Answered, Awaited, Ready
  <2>5. OnePort'
      BY <1>4, <1>5, <1>6, <2>1, <2>2, <2>3 DEF OnePort, Runs, Starting
  <2> QED
      BY <2>4, <2>5
<1> QED
    BY <1>1, <1>4, <1>7 DEF Calmly, Calm

LEMMA StartCalm ==
    ASSUME CalmInv, NEW c \in Calls,
           \/ Probes(c) \/ Recognises(c) \/ Skips(c) \/ RedisReady(c) \/ StopsSidecar(c)
           \/ ExitsEarly(c) \/ Spawns(c) \/ TriesAgain(c)
    PROVE  Calmly
<1>1. Typed /\ Database /\ call[c] \in Calling /\ None \notin Redises
    BY ProxySidecarAssumption DEF CalmInv, SidecarInv, Typed
<1>2. left.alone => OnePort /\ Awaited
    BY DEF CalmInv
<1>3. call[c].at \in Starting /\ left.alone => call[c].port = port
    BY <1>2 DEF OnePort
(* The place alone changes.                                                  *)
<1>4. ASSUME NEW at \in Places, Goes(c, at), call[c].at # "idle",
             at \in Starting => call[c].at \in Starting,
             at \in Ready => call[c].at \in Ready \/ (left.alone => PortOpen(port)),
             UNCHANGED <<port, other, redis, rlock, left>>
      PROVE  Calmly
  <2> DEFINE next == [call[c] EXCEPT !.at = at]
  <2>1. call' = [call EXCEPT ![c] = next] /\ next.at = at /\ next.port = call[c].port
      BY <1>1, <1>4 DEF Goes, Calling
  <2> HIDE DEF next
  <2> QED
      BY <1>4, <2>1, GoesCalm
<1>5. CASE Probes(c)
  <2>1. /\ call[c].at = "probing" /\ Goes(c, IF PortOpen(call[c].port) THEN "found" ELSE "closed")
        /\ UNCHANGED <<port, other, redis, rlock, left>>
      BY <1>5 DEF Probes, procs
  <2>2. CASE PortOpen(call[c].port)
    <3>1. Goes(c, "found") /\ (left.alone => PortOpen(port))
        BY <1>3, <2>1, <2>2 DEF Starting
    <3> QED
        BY <1>4, <2>1, <3>1 DEF Starting, Ready, Places
  <2>3. CASE ~PortOpen(call[c].port)
    <3>1. Goes(c, "closed")
        BY <2>1, <2>3
    <3> QED
        BY <1>4, <2>1, <3>1 DEF Starting, Ready, Places
  <2> QED
      BY <2>2, <2>3
<1>6. CASE Recognises(c)
    BY <1>4, <1>6 DEF Recognises, Starting, Ready, Places
<1>7. CASE Skips(c)
  <2>1. /\ call[c].at = "closed" /\ rlock = None /\ rslot \in Redises /\ Runs(rslot) /\ Goes(c, "waiting")
        /\ UNCHANGED <<port, other, redis, rlock, left>>
      BY <1>1, <1>7 DEF Skips, procs, Typed
  <2>2. redis[rslot].is \in {"up", "loading"}
      BY <1>1, <2>1 DEF Typed, RedisState, Runs
  <2>3. left.alone => PortOpen(port)
      BY <1>1, <1>2, <2>1, <2>2, UpIsOpen DEF OnePort, Awaited
  <2> QED
      BY <1>4, <2>1, <2>3 DEF Starting, Ready, Places
<1>8. CASE StopsSidecar(c)
    BY <1>4, <1>8 DEF StopsSidecar, Starting, Ready, Places
<1>9. CASE RedisReady(c)
  <2> DEFINE next == [call[c] EXCEPT !.at = "waiting", !.fresh = TRUE, !.child = None]
  <2>1. /\ call' = [call EXCEPT ![c] = next] /\ next.at = "waiting" /\ next.port = call[c].port
        /\ call[c].at = "opening" /\ PortOpen(call[c].port)
        /\ UNCHANGED <<port, other, redis, left>>
      BY <1>1, <1>9 DEF RedisReady, Opened, Calling
  <2> HIDE DEF next
  <2>2. left.alone => PortOpen(port)
      BY <1>3, <2>1 DEF Starting
  <2> QED
      BY <2>1, <2>2, GoesCalm DEF Starting, Ready, Places
<1>10. CASE ExitsEarly(c)
  <2> DEFINE next == [call[c] EXCEPT !.at = "trying", !.child = None]
  <2>1. /\ call' = [call EXCEPT ![c] = next] /\ next.at = "trying" /\ next.port = call[c].port
        /\ call[c].at = "starting" /\ UNCHANGED <<port, other, redis, rlock, left>>
      BY <1>1, <1>10 DEF ExitsEarly, Calling
  <2> HIDE DEF next
  <2> QED
      BY <2>1, GoesCalm DEF Starting, Ready, Places
<1>11. CASE Spawns(c) \/ TriesAgain(c)
  <2>1. /\ call[c].at \in {"waiting", "trying"} /\ Spawned(c)
        /\ UNCHANGED <<port, other, redis, rlock, left>>
      BY <1>11 DEF Spawns, TriesAgain
  <2>2. PICK s \in FreeSidecar :
            call' = [call EXCEPT ![c].at = "starting", ![c].child = s, ![c].tries = @ + 1]
      BY <2>1 DEF Spawned
  <2> DEFINE next == [call[c] EXCEPT !.at = "starting", !.child = s, !.tries = @ + 1]
  <2>3. call' = [call EXCEPT ![c] = next] /\ next.at = "starting" /\ next.port = call[c].port
      BY <1>1, <2>2 DEF Calling
  <2> HIDE DEF next
  <2> QED
      BY <2>1, <2>3, GoesCalm DEF Starting, Ready, Places
<1> QED
    BY <1>5, <1>6, <1>7, <1>8, <1>9, <1>10, <1>11

LEMMA EndsCalm ==
    ASSUME CalmInv, NEW c \in Calls,
           \/ RedisFails(c) \/ AlreadyRuns(c) \/ Started(c) \/ NoneStarts(c) \/ StopsRedis(c)
    PROVE  Calmly
<1>1. /\ Typed /\ Placed /\ Database /\ None \notin Redises /\ None \notin Calls
    BY ProxySidecarAssumption DEF CalmInv, SidecarInv
<1>2. left.alone /\ call[c].at # "idle" => \A d \in Calls \ {c} : call[d].at = "idle"
    BY DEF CalmInv, One
<1>3. CASE AlreadyRuns(c) \/ Started(c)
    BY <1>3, AnswersCalm DEF AlreadyRuns, Started, procs
<1>4. CASE RedisFails(c)
  <2>1. /\ rlock = c /\ call[c].at = "opening" /\ call[c].child \in Redises
        /\ redis' = [redis EXCEPT ![call[c].child] = Dead] /\ Answers(c, "error")
        /\ UNCHANGED <<port, other, left>>
      BY <1>1, <1>4 DEF RedisFails, Placed
  <2>2. \A r \in Redises : redis'[r].is = "dead"
      BY <1>1, <2>1 DEF Database, Runs, Typed, Dead
  <2> QED
      BY <1>2, <2>1, <2>2, KilledCalm
<1>5. ASSUME rlock = None, RedisTaken PROVE \A r \in Redises : redis'[r].is = "dead"
    BY <1>1, <1>5 DEF RedisTaken, Database, Runs, Typed, Dead
<1>6. CASE StopsRedis(c)
  <2>1. /\ call[c].at = "stoppingRedis" /\ rlock = None /\ RedisTaken /\ Answers(c, "stopped")
        /\ UNCHANGED <<port, other, left>>
      BY <1>6 DEF StopsRedis
  <2> QED
      BY <1>2, <1>5, <2>1, KilledCalm
<1>7. CASE NoneStarts(c)
  <2>1. /\ call[c].at = "trying" /\ Answers(c, "error") /\ UNCHANGED <<port, other, rlock, left>>
      BY <1>7 DEF NoneStarts
  <2>2. CASE call[c].fresh
    <3>1. rlock = None /\ RedisTaken
        BY <1>7, <2>2 DEF NoneStarts
    <3> QED
        BY <1>2, <1>5, <2>1, <3>1, KilledCalm
  <2>3. CASE ~call[c].fresh
    <3>1. UNCHANGED redis
        BY <1>7, <2>3 DEF NoneStarts
    <3> QED
        BY <2>1, <3>1, AnswersCalm
  <2> QED
      BY <2>2, <2>3
<1> QED
    BY <1>3, <1>4, <1>6, <1>7

LEMMA CalmStep == CalmInv /\ [Next]_vars => CalmInv'
<1> SUFFICES ASSUME CalmInv, [Next]_vars PROVE Calmly
    BY SidecarInvStep DEF CalmInv, Calmly
<1>1. CASE UNCHANGED vars
    BY <1>1 DEF vars, procs, CalmInv, Calmly, Calm, One, OnePort, Answered, Awaited, Runs, PortOpen
<1>2. ASSUME NEW c \in Calls, StartAsked(c) \/ StopAsked(c) \/ CallSteps(c) PROVE Calmly
    BY <1>2, AskedCalm, SpawnsRedisCalm, StartCalm, EndsCalm DEF CallSteps
<1> QED
    BY <1>1, <1>2, MachineCalm DEF Next

LEMMA CalmInit ==
    ASSUME \A w \in Workloads : Calm(w), Init
    PROVE  CalmInv
<1>1. SidecarInv /\ left \in WorkloadRecords /\ Calm(left)
    BY SidecarInvInit, ProxySidecarAssumption DEF Init
<1>2. \A c \in Calls : call[c].at = "idle"
    BY DEF Init, Rest
<1>3. \A r \in Redises : redis[r].is = "dead"
    BY DEF Init, Dead
<1> QED
    BY <1>1, <1>2, <1>3 DEF CalmInv, One, OnePort, Answered, Awaited, Starting, Ready, Runs

(* When commands come one after the other, under settings that stay, a start *)
(* that answers has its service run beside a Redis that answers on the port  *)
(* of its settings; and a stop has ended what ran, whatever comes in between *)
(* (proxypool_start, proxypool_stop).                                        *)
THEOREM AnswersAreTrue ==
    ASSUME \A w \in Workloads : Calm(w)
    PROVE  Spec => AnswersHold
<1> DEFINE Stands ==
        left.alone => \A c \in Calls :
            call[c].at = "starting" /\ call'[c].answer = "running" => PortOpen(call[c].port)
<1>1. Init => CalmInv
    BY CalmInit
<1>2. CalmInv => Stands
    BY DEF CalmInv, OnePort, Answered, Starting, Ready
<1>3. Spec => [][Stands]_vars
    BY <1>1, <1>2, CalmStep, PTL DEF Spec
<1> QED
    BY <1>3, StopEnds DEF AnswersHold, StartedHasRedis
=============================================================================
