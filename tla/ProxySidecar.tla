---------------------------- MODULE ProxySidecar ----------------------------
(***************************************************************************)
(* The commands that start and stop the ProxyPool service (proxypool.rs):    *)
(* its own process, and the bundled Redis it needs when the configured one   *)
(* is local and not running.  Each of the two processes has a slot behind a  *)
(* lock of its own; a command holds a lock across its waits.                 *)
(*                                                                           *)
(* The module follows the Windows release, whose resources are complete, and *)
(* a Redis URL of this machine.                                              *)
(***************************************************************************)
EXTENDS Naturals, FiniteSets

CONSTANTS
    Calls,          \* commands at once
    Ports,          \* local ports a Redis may be configured on
    Redises,        \* processes of the bundled Redis
    Sidecars,       \* processes of the service
    MaxAttempts,    \* sidecar_attempts: ways of starting the service
    Workloads,      \* what the operator and the machine do in one behaviour
    None

(* Whether a command is only given when none is under way; and the bounds:   *)
(* changes of the settings, and ends of processes by themselves.             *)
WorkloadRecords == [alone : BOOLEAN, edits : Nat, deaths : Nat]

ASSUME ProxySidecarAssumption ==
    /\ Calls # {} /\ Ports # {} /\ IsFiniteSet(Sidecars)
    /\ MaxAttempts \in Nat \ {0} /\ Workloads \subseteq WorkloadRecords
    /\ None \notin Calls \cup Ports \cup Redises \cup Sidecars

VARIABLES
    port,       \* the settings' proxypool_redis_url
    other,      \* ports on which a Redis of someone else listens
    redis,      \* Redises -> [at, is]
    sidecar,    \* the processes of the service that run
    rslot,      \* REDIS_CHILD
    slot,       \* CHILD
    rlock,      \* the call that holds REDIS_CHILD's lock
    lock,       \* the call that holds CHILD's lock
    call,       \* Calls -> the command under way
    left        \* a workload, and what is left of its bounds

vars == <<port, other, redis, sidecar, rslot, slot, rlock, lock, call, left>>

procs == <<redis, sidecar, rslot, slot, rlock, lock>>

-----------------------------------------------------------------------------
Dead == [at |-> None, is |-> "dead"]

(* `fresh`: started_now.  `old`: what ran when a stop was asked for.         *)
Rest == [at |-> "idle", port |-> None, fresh |-> FALSE, child |-> None, tries |-> 0,
         old |-> {}, answer |-> "none"]

Init ==
    /\ port \in Ports /\ other = {} /\ redis = [r \in Redises |-> Dead] /\ sidecar = {}
    /\ rslot = None /\ slot = None /\ rlock = None /\ lock = None
    /\ call = [c \in Calls |-> Rest]
    /\ left \in Workloads

Runs(r) == redis[r].is # "dead"

(* redis_port_open                                                           *)
PortOpen(p) == p \in other \/ \E r \in Redises : redis[r] = [at |-> p, is |-> "up"]

Goes(c, at) == call' = [call EXCEPT ![c].at = at]

Answers(c, answer) == call' = [call EXCEPT ![c] = [Rest EXCEPT !.answer = answer]]

Fresh(p) == \A c \in Calls : call[c].child # p /\ p \notin call[c].old

(* A process nobody remembers stands for the next one that is started; which *)
(* of them it is makes no difference.                                        *)
AnyOf(S) == IF S = {} THEN {} ELSE {CHOOSE p \in S : TRUE}

FreeRedis == AnyOf({r \in Redises : ~Runs(r) /\ r # rslot /\ Fresh(r)})
FreeSidecar == AnyOf({s \in Sidecars \ sidecar : s # slot /\ Fresh(s)})

-----------------------------------------------------------------------------
(* The machine: processes end, someone starts a Redis, the settings change.  *)

EditSettings ==
    /\ left.edits > 0 /\ left' = [left EXCEPT !.edits = @ - 1]
    /\ \E p \in Ports \ {port} : port' = p
    /\ UNCHANGED <<other, procs, call>>

OtherStarts ==
    /\ \E p \in Ports : ~PortOpen(p) /\ other' = other \cup {p}
    /\ UNCHANGED <<port, procs, call, left>>

(* A Redis whose port is taken exits.                                        *)
RedisOpens(r) ==
    /\ redis[r].is = "loading"
    /\ redis' = [redis EXCEPT ![r] =
           IF PortOpen(@.at) THEN Dead ELSE [@ EXCEPT !.is = "up"]]
    /\ UNCHANGED <<port, other, sidecar, rslot, slot, rlock, lock, call, left>>

RedisDies(r) ==
    /\ Runs(r) /\ left.deaths > 0 /\ left' = [left EXCEPT !.deaths = @ - 1]
    /\ redis' = [redis EXCEPT ![r] = Dead]
    /\ UNCHANGED <<port, other, sidecar, rslot, slot, rlock, lock, call>>

SidecarDies(s) ==
    /\ s \in sidecar /\ left.deaths > 0 /\ left' = [left EXCEPT !.deaths = @ - 1]
    /\ sidecar' = sidecar \ {s}
    /\ UNCHANGED <<port, other, redis, rslot, slot, rlock, lock, call>>

-----------------------------------------------------------------------------
(* proxypool_start: ensure_local_redis.                                      *)

Admitted(c) == call[c].at = "idle" /\ (left.alone => \A d \in Calls : call[d].at = "idle")

StartAsked(c) ==
    /\ Admitted(c)
    /\ call' = [call EXCEPT ![c] = [Rest EXCEPT !.at = "probing", !.port = port]]
    /\ UNCHANGED <<port, other, procs, left>>

Probes(c) ==
    /\ call[c].at = "probing"
    /\ Goes(c, IF PortOpen(call[c].port) THEN "found" ELSE "closed")
    /\ UNCHANGED <<port, other, procs, left>>

(* Something listens, the managed Redis or another one; which of the two      *)
(* decides only how its URL is written into the service's configuration.     *)
Recognises(c) ==
    /\ call[c].at = "found" /\ rlock = None
    /\ LET alive == rslot # None /\ Runs(rslot) IN
       /\ rslot' = IF alive THEN rslot ELSE None
       /\ Goes(c, "waiting")
    /\ UNCHANGED <<port, other, redis, sidecar, slot, rlock, lock, left>>

(* Nothing listens, but the slot has a living Redis: on another port, or     *)
(* loading still.                                                            *)
Skips(c) ==
    /\ call[c].at = "closed" /\ rlock = None /\ rslot # None /\ Runs(rslot)
    /\ Goes(c, "waiting")
    /\ UNCHANGED <<port, other, procs, left>>

SpawnsRedis(c) ==
    /\ call[c].at = "closed" /\ rlock = None /\ ~(rslot # None /\ Runs(rslot))
    /\ rslot' = None
    /\ \E r \in FreeRedis :
           /\ redis' = [redis EXCEPT ![r] = [at |-> call[c].port, is |-> "loading"]]
           /\ call' = [call EXCEPT ![c].at = "opening", ![c].child = r]
    /\ rlock' = c
    /\ UNCHANGED <<port, other, sidecar, slot, lock, left>>

Opened(c) == PortOpen(call[c].port)

(* Mutant: the guard lives as long as the outcome.                           *)
RedisReady_Guarded(c) ==
    /\ call[c].at = "opening" /\ Opened(c)
    /\ rslot' = call[c].child
    /\ call' = [call EXCEPT ![c].at = "waiting", ![c].fresh = TRUE, ![c].child = None]
    /\ UNCHANGED <<port, other, redis, sidecar, slot, rlock, lock, left>>

RedisReady(c) ==
    /\ call[c].at = "opening" /\ Opened(c)
    /\ rslot' = call[c].child /\ rlock' = None
    /\ call' = [call EXCEPT ![c].at = "waiting", ![c].fresh = TRUE, ![c].child = None]
    /\ UNCHANGED <<port, other, redis, sidecar, slot, lock, left>>

(* Mutant: a Redis that is late is left alone.                               *)
RedisFails_Left(c) ==
    /\ call[c].at = "opening" /\ ~PortOpen(call[c].port)
    /\ rlock' = None /\ Answers(c, "error")
    /\ UNCHANGED <<port, other, redis, sidecar, rslot, slot, lock, left>>

(* It has exited, or is late and is killed.                                  *)
RedisFails(c) ==
    /\ call[c].at = "opening" /\ ~PortOpen(call[c].port)
    /\ redis' = [redis EXCEPT ![call[c].child] = Dead]
    /\ rlock' = None /\ Answers(c, "error")
    /\ UNCHANGED <<port, other, sidecar, rslot, slot, lock, left>>

-----------------------------------------------------------------------------
(* proxypool_start: the service, with CHILD's lock held from here on.        *)

AlreadyRuns(c) ==
    /\ call[c].at = "waiting" /\ lock = None /\ slot \in sidecar
    /\ Answers(c, "running")
    /\ UNCHANGED <<port, other, procs, left>>

Spawned(c) ==
    \E s \in FreeSidecar :
        /\ sidecar' = sidecar \cup {s}
        /\ call' = [call EXCEPT ![c].at = "starting", ![c].child = s, ![c].tries = @ + 1]

Spawns(c) ==
    /\ call[c].at = "waiting" /\ lock = None /\ slot \notin sidecar
    /\ slot' = None /\ lock' = c /\ Spawned(c)
    /\ UNCHANGED <<port, other, redis, rslot, rlock, left>>

(* Within 800 ms the process exits: the next way is tried, or none is left.  *)
ExitsEarly(c) ==
    /\ call[c].at = "starting" /\ sidecar' = sidecar \ {call[c].child}
    /\ call' = [call EXCEPT ![c].at = "trying", ![c].child = None]
    /\ UNCHANGED <<port, other, redis, rslot, slot, rlock, lock, left>>

TriesAgain(c) ==
    /\ call[c].at = "trying" /\ call[c].tries < MaxAttempts /\ Spawned(c)
    /\ UNCHANGED <<port, other, redis, rslot, slot, rlock, lock, left>>

Started(c) ==
    /\ call[c].at = "starting" /\ call[c].child \in sidecar
    /\ slot' = call[c].child /\ lock' = None /\ Answers(c, "running")
    /\ UNCHANGED <<port, other, redis, sidecar, rslot, rlock, left>>

(* stop_managed_redis                                                        *)
RedisTaken ==
    /\ rslot' = None
    /\ redis' = IF rslot = None THEN redis ELSE [redis EXCEPT ![rslot] = Dead]

NoneStarts(c) ==
    /\ call[c].at = "trying" /\ call[c].tries = MaxAttempts
    /\ IF call[c].fresh THEN rlock = None /\ RedisTaken ELSE UNCHANGED <<redis, rslot>>
    /\ lock' = None /\ Answers(c, "error")
    /\ UNCHANGED <<port, other, sidecar, slot, rlock, left>>

-----------------------------------------------------------------------------
(* proxypool_stop and proxypool_status.                                      *)

StopAsked(c) ==
    /\ Admitted(c)
    /\ call' = [call EXCEPT ![c] = [Rest EXCEPT !.at = "stopping",
                   !.old = sidecar \cup {r \in Redises : Runs(r)}]]
    /\ UNCHANGED <<port, other, procs, left>>

StopsSidecar(c) ==
    /\ call[c].at = "stopping" /\ lock = None
    /\ slot' = None /\ sidecar' = sidecar \ {slot}
    /\ Goes(c, "stoppingRedis")
    /\ UNCHANGED <<port, other, redis, rslot, rlock, lock, left>>

(* Mutant: the slot is looked at without its lock.                           *)
StopsRedis_Unlocked(c) ==
    /\ call[c].at = "stoppingRedis" /\ RedisTaken /\ Answers(c, "stopped")
    /\ UNCHANGED <<port, other, sidecar, slot, rlock, lock, left>>

StopsRedis(c) ==
    /\ call[c].at = "stoppingRedis" /\ rlock = None /\ RedisTaken /\ Answers(c, "stopped")
    /\ UNCHANGED <<port, other, sidecar, slot, rlock, lock, left>>

StatusReaps ==
    /\ lock = None /\ slot # None /\ slot \notin sidecar /\ slot' = None
    /\ UNCHANGED <<port, other, redis, sidecar, rslot, rlock, lock, call, left>>

-----------------------------------------------------------------------------
CallSteps(c) ==
    \/ Probes(c) \/ Recognises(c) \/ Skips(c) \/ SpawnsRedis(c) \/ RedisReady(c) \/ RedisFails(c)
    \/ AlreadyRuns(c) \/ Spawns(c) \/ ExitsEarly(c) \/ TriesAgain(c) \/ Started(c) \/ NoneStarts(c)
    \/ StopsSidecar(c) \/ StopsRedis(c)

Next ==
    \/ EditSettings \/ OtherStarts \/ StatusReaps
    \/ \E r \in Redises : RedisOpens(r) \/ RedisDies(r)
    \/ \E s \in Sidecars : SidecarDies(s)
    \/ \E c \in Calls : StartAsked(c) \/ StopAsked(c) \/ CallSteps(c)

Spec == Init /\ [][Next]_vars

(* A command's task goes on, and the locks are fair queues (tokio's Mutex).  *)
FairSpec == Spec /\ \A c \in Calls : SF_vars(CallSteps(c))

-----------------------------------------------------------------------------
(* Properties.                                                               *)

(* Every variable has its type, and a lock is held by a command that is       *)
(* between its acquisition and its release.                                   *)
TypeOK ==
    /\ port \in Ports /\ other \subseteq Ports /\ sidecar \subseteq Sidecars
    /\ redis \in [Redises -> [at : Ports \cup {None}, is : {"dead", "loading", "up"}]]
    /\ rslot \in Redises \cup {None} /\ slot \in Sidecars \cup {None}
    /\ rlock \in Calls \cup {None} /\ lock \in Calls \cup {None}
    /\ \A c \in Calls :
           /\ call[c].at \in {"idle", "probing", "found", "closed", "opening", "waiting",
                              "starting", "trying", "stopping", "stoppingRedis"}
           /\ call[c].tries \in 0 .. MaxAttempts
           /\ rlock = c <=> call[c].at = "opening"
           /\ lock = c <=> call[c].at \in {"starting", "trying"}

(* However many commands overlap, one process of the service runs at a time   *)
(* (proxypool_start holds the slot's lock while it spawns).                   *)
OneSidecar == Cardinality(sidecar) <= 1

(* A Redis the application has started is in the slot through which it can be *)
(* stopped, or is being waited for: none is left behind by a failed start     *)
(* (ensure_local_redis).                                                      *)
NoStrayRedis ==
    \A r \in Redises : Runs(r) =>
        r = rslot \/ \E c \in Calls : call[c].at = "opening" /\ call[c].child = r

(* A stop ends what ran when it was asked for, a process that was still being *)
(* started included (proxypool_stop).                                         *)
StopStops ==
    [][\A c \in Calls :
           call[c].at = "stoppingRedis" /\ call'[c].answer = "stopped"
               => \A p \in call[c].old : p \notin sidecar' /\ (p \in Redises => redis'[p].is = "dead")]_vars

(* As long as commands come one after the other under settings that stay, a   *)
(* start that answers has the service run beside a Redis, one it started      *)
(* when none was running ("Start launches local Redis automatically").        *)
StartedHasRedis ==
    [][left.alone => \A c \in Calls :
           call[c].at = "starting" /\ call'[c].answer = "running" => PortOpen(call[c].port)]_vars

(* No command waits for ever, whatever the order in which the two locks are   *)
(* asked for (proxypool_start, proxypool_stop).                               *)
CallsReturn == \A c \in Calls : call[c].at # "idle" ~> call[c].at = "idle"

(* Every variable has its type, the locks are held where the commands are     *)
(* inside, and no process runs beside the slots (proxypool_start,            *)
(* ensure_local_redis).                                                      *)
NothingStray == TypeOK /\ OneSidecar /\ NoStrayRedis

(* A command has done what it answers (proxypool_start, proxypool_stop).      *)
AnswersHold == StopStops /\ StartedHasRedis
=============================================================================
