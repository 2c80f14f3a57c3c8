---------------------------- MODULE LauncherProofs ----------------------------
(***************************************************************************)
(* Theorems about Launcher, for any number of callers and browsers and any   *)
(* workload.                                                                 *)
(***************************************************************************)
EXTENDS Launcher, FiniteSetTheorems, TLAPS

(* The variables' types, the workload's included.                            *)
Places == {"idle", "launching", "reading", "cdpwait", "absent", "ready", "binding",
           "unbinding", "deleting", "testing"}

CallRecords ==
    [at : Places,
     cmd : {"none", "start", "launch", "open", "prepare", "keeper_delete", "edit", "imported"},
     cdp : BOOLEAN, copy : Files, tries : 0 .. 2, want : Bindings, got : Pids \cup {NoPid}]

ChildRecords ==
    [state : {"none", "up", "closing", "ended", "orphan", "gone"},
     cdp : BOOLEAN, via : Bindings, asked : BOOLEAN]

Typed ==
    /\ file \in Files /\ port \in Pids \cup {NoPid}
    /\ entry \in [pid : Pids \cup {NoPid}, cdp : Pids \cup {NoPid}]
    /\ child \in [Pids -> ChildRecords] /\ seen \in BOOLEAN
    /\ call \in [Callers -> CallRecords]
    /\ owned \in [pin : BOOLEAN, folder : Folders, sessions : Nat, gone : BOOLEAN]
    /\ work \in WorkloadRecords
    /\ entry = NoEntry \/ entry.pid \in Pids

(* Two preparations of a browser at most, the second one without a third.    *)
Tried == \A c \in Callers : call[c].tries = 2 => call[c].at = "absent"

(* Every recorded session is a browser that has closed, and no copy of the   *)
(* file has counted more of them.                                            *)
Closed == {p \in Pids : child[p].state = "gone"}

Counted ==
    /\ owned.sessions <= Cardinality(Closed)
    /\ file.runtime <= owned.sessions
    /\ \A c \in Callers : call[c].copy.runtime <= owned.sessions

TypeInv == Typed /\ Tried /\ Counted

(* The file: it goes with the profile, and comes back by an edit only.       *)
FileInv ==
    /\ file.there \/ owned.gone
    /\ Edits \/ \A c \in Callers : call[c].at # "testing"
    /\ RuntimeCounted /\ PinOwned
    /\ work.temporary /\ ~Edits /\ (\E p \in Pids : child[p].state \in {"gone", "orphan"}) =>
           ~file.there

(* The browser: it has the entry until its task has ended, a launch under    *)
(* way has none to replace, and what a launch reads is its own browser's.    *)
BrowserInv ==
    /\ \A c \in Callers : c > 1 => call[c].at = "idle"
    /\ \A p \in Pids : child[p].state \in {"up", "closing", "ended"} => entry.pid = p
    /\ \A p \in Pids : child[p].state = "closing" => child[p].asked
    /\ entry.cdp \in {NoPid, entry.pid}
    /\ \A c \in Callers : call[c].at = "launching" => entry = NoEntry
    /\ \A c \in Callers : call[c].at = "reading" => entry = NoEntry \/ port \in {NoPid, entry.pid}

OrderlyInv == Orderly => BrowserInv

LauncherInv == TypeInv /\ FileInv /\ OrderlyInv

-----------------------------------------------------------------------------
(* What a step may do to the commands under way.                             *)

Others(c) == \A d \in Callers \ {c} : call'[d] = call[d]

CallsOK ==
    /\ call' \in [Callers -> CallRecords] /\ Tried'
    /\ \A c \in Callers : /\ call'[c].copy \in {call[c].copy, file, Idle.copy}
                          /\ call'[c].at = "testing" => call[c].at = "testing" \/ Edits

LEMMA NumbersTyped == MaxPids \in Nat /\ MaxCallers \in Nat /\ Workloads \subseteq WorkloadRecords
BY LauncherAssumption

LEMMA IdleTyped ==
    /\ Idle \in CallRecords /\ Idle.at = "idle" /\ Idle.tries = 0 /\ Idle.copy.runtime = 0
    /\ Idle.cmd = "none" /\ Idle.copy \in Files
BY NumbersTyped DEF Idle, CallRecords, Places, Files, Bindings, Folders, NoPid, Pids

LEMMA OneMoves ==
    ASSUME Typed, Tried, NEW c \in Callers, NEW r \in CallRecords, call' = [call EXCEPT ![c] = r],
           r.tries = 2 => r.at = "absent", r.copy \in {call[c].copy, file, Idle.copy},
           r.at = "testing" => call[c].at = "testing" \/ Edits
    PROVE  CallsOK /\ call'[c] = r /\ Others(c)
<1>1. call' \in [Callers -> CallRecords] /\ call'[c] = r /\ \A d \in Callers \ {c} : call'[d] = call[d]
  BY DEF Typed
<1>2. Tried'
  BY <1>1 DEF Tried
<1> QED BY <1>1, <1>2 DEF CallsOK, Others

LEMMA CallsStay ==
    ASSUME Typed, Tried, call' = call
    PROVE  CallsOK
BY DEF CallsOK, Typed, Tried

LEMMA BeginsMoves ==
    ASSUME Typed, Tried, NEW c \in Callers, NEW at \in Places, NEW cdp \in BOOLEAN,
           NEW cmd \in {"start", "launch", "open", "keeper_delete", "edit"},
           Begins(c, at, cmd, cdp), at = "testing" => Edits
    PROVE  CallsOK /\ call'[c].at = at /\ call'[c].cmd = cmd /\ Others(c)
<1> DEFINE r == [Idle EXCEPT !.at = at, !.cmd = cmd, !.cdp = cdp, !.copy = file]
<1>1. r \in CallRecords
  BY IdleTyped DEF CallRecords, Typed
<1>2. r.at = at /\ r.cmd = cmd /\ r.tries = 0 /\ r.copy = file
  BY IdleTyped DEF CallRecords
<1> HIDE DEF r
<1>3. call' = [call EXCEPT ![c] = r]
  BY DEF Begins, r
<1>4. r.copy \in {call[c].copy, file, Idle.copy} /\ (r.tries = 2 => r.at = "absent")
  BY <1>2
<1>6. r.at = "testing" => call[c].at = "testing" \/ Edits
  BY <1>2
<1>5. CallsOK /\ call'[c] = r /\ Others(c)
  BY <1>1, <1>3, <1>4, <1>6, OneMoves
<1> QED BY <1>2, <1>5

LEMMA ReturnsMoves ==
    ASSUME Typed, Tried, NEW c \in Callers, NEW got \in Pids \cup {NoPid}, Returns(c, got)
    PROVE  CallsOK /\ call'[c].at = "idle" /\ call'[c].cmd = "none" /\ Others(c)
<1> DEFINE r == [Idle EXCEPT !.got = got]
<1>1. r \in CallRecords
  BY IdleTyped DEF CallRecords
<1>2. r.at = "idle" /\ r.cmd = "none" /\ r.tries = 0 /\ r.copy = Idle.copy
  BY IdleTyped DEF CallRecords
<1> HIDE DEF r
<1>3. call' = [call EXCEPT ![c] = r]
  BY DEF Returns, r
<1>4. r.copy \in {call[c].copy, file, Idle.copy} /\ r.tries # 2 /\ r.at # "testing"
  BY <1>2
<1>5. CallsOK /\ call'[c] = r /\ Others(c)
  BY <1>1, <1>3, <1>4, OneMoves
<1> QED BY <1>2, <1>5

(* A command goes on to another place.                                       *)
LEMMA PlaceMoves ==
    ASSUME Typed, Tried, NEW c \in Callers, NEW at \in Places, at # "testing",
           call[c].at # "absent", call' = [call EXCEPT ![c].at = at]
    PROVE  CallsOK /\ call'[c].at = at /\ call'[c].cmd = call[c].cmd /\ Others(c)
<1> DEFINE r == [call[c] EXCEPT !.at = at]
<1>1. call[c] \in CallRecords /\ call[c].tries # 2
  BY DEF Typed, Tried
<1>2. r \in CallRecords
  BY <1>1 DEF CallRecords
<1>3. r.at = at /\ r.cmd = call[c].cmd /\ r.tries = call[c].tries /\ r.copy = call[c].copy
  BY <1>1 DEF CallRecords
<1>4. call' = [call EXCEPT ![c] = r]
  OBVIOUS
<1> HIDE DEF r
<1> QED BY <1>1, <1>2, <1>3, <1>4, OneMoves

-----------------------------------------------------------------------------
(* What most steps leave as it is.                                           *)

WorkSame ==
    /\ work' \in WorkloadRecords /\ work'.allowed = work.allowed
    /\ work'.temporary = work.temporary /\ work'.callers = work.callers
    /\ work'.pids = work.pids

(* A command starts where it may, and a launch where nothing runs.           *)
PlacesKept ==
    \A c \in Callers :
        /\ call'[c].at # "idle" => call[c].at # "idle" \/ c <= work.callers
        /\ call'[c].at = "launching" =>
               call[c].at = "launching" \/ entry = NoEntry \/ ~Orderly
        /\ call'[c].at = "reading" => call[c].at = "reading"

(* No browser comes, none closes unasked, and those gone stay gone.          *)
KidsKept(kids) ==
    /\ kids \in [Pids -> ChildRecords]
    /\ \A p \in Pids :
          /\ kids[p].state \in {"up", "closing", "ended"} =>
                 child[p].state \in {"up", "closing", "ended"}
          /\ kids[p].state = "closing" =>
                 kids[p].asked \/ (child[p].state = "closing" /\ kids[p].asked = child[p].asked)
          /\ kids[p].state \in {"gone", "orphan"} <=> child[p].state \in {"gone", "orphan"}
          /\ child[p].state = "gone" => kids[p].state = "gone"

(* The file is the tracker's and the operator's.                             *)
FileKept ==
    /\ file' \in Files
    /\ owned' \in [pin : BOOLEAN, folder : Folders, sessions : Nat, gone : BOOLEAN]
    /\ owned'.sessions = owned.sessions /\ file'.runtime <= owned.sessions
    /\ file'.there => file.there \/ Edits
    /\ file'.there \/ owned'.gone
    /\ RuntimeCounted' /\ PinOwned'

LEMMA WorkStays == ASSUME Typed, work' = work PROVE WorkSame
BY DEF Typed, WorkSame

LEMMA AskedStays == ASSUME Typed, NEW cmd, Asked(cmd) PROVE WorkSame /\ cmd \in work.allowed
<1>1. work \in WorkloadRecords /\ work.commands \in Nat /\ work.commands > 0
  BY DEF Typed, WorkloadRecords, Asked
<1>2. work.commands - 1 \in Nat
  BY <1>1
<1> QED BY <1>1, <1>2 DEF Asked, WorkSame, WorkloadRecords

LEMMA ChildStays == ASSUME Typed PROVE KidsKept(child)
BY DEF Typed, KidsKept

LEMMA ConditionsStay == ASSUME WorkSame PROVE Orderly' = Orderly /\ Edits' = Edits
BY DEF WorkSame, Orderly, Edits

LEMMA FileStays == ASSUME TypeInv, FileInv, WorkSame, file' = file, owned' = owned PROVE FileKept
<1>1. Edits' = Edits
  BY ConditionsStay
<1> QED BY <1>1 DEF TypeInv, Typed, Counted, FileInv, FileKept, RuntimeCounted, PinOwned

(* Fewer browsers are gone before a step than after it.                      *)
LEMMA ClosedGrows ==
    ASSUME child \in [Pids -> ChildRecords], child' \in [Pids -> ChildRecords],
           \A p \in Pids : child[p].state = "gone" => child'[p].state = "gone"
    PROVE  /\ IsFiniteSet(Closed) /\ IsFiniteSet(Closed')
           /\ Cardinality(Closed) \in Nat /\ Cardinality(Closed') \in Nat
           /\ Cardinality(Closed) <= Cardinality(Closed')
           /\ Cardinality(Closed) <= MaxPids /\ Cardinality(Closed') <= MaxPids
<1>1. MaxPids \in Nat
  BY NumbersTyped
<1>2. IsFiniteSet(Pids) /\ Cardinality(Pids) = MaxPids
  BY <1>1, FS_Interval DEF Pids
<1>3. Closed \subseteq Closed' /\ Closed \subseteq Pids /\ Closed' \subseteq Pids
  BY DEF Closed
<1>4. IsFiniteSet(Closed) /\ IsFiniteSet(Closed') /\ Cardinality(Closed) <= MaxPids /\ Cardinality(Closed') <= MaxPids
  BY <1>2, <1>3, FS_Subset
<1>5. Cardinality(Closed) <= Cardinality(Closed')
  BY <1>3, <1>4, FS_Subset
<1> QED BY <1>4, <1>5, FS_CardinalityType

(* The commands' copies have counted no more sessions than were recorded.    *)
LEMMA CopiesCounted ==
    ASSUME TypeInv, CallsOK, owned'.sessions \in Nat, owned.sessions <= owned'.sessions
    PROVE  \A c \in Callers : call'[c].copy.runtime <= owned'.sessions
<1> TAKE c \in Callers
<1>1. call[c].copy.runtime <= owned.sessions /\ file.runtime <= owned.sessions /\ owned.sessions \in Nat
  BY DEF TypeInv, Typed, Counted
<1>2. Idle.copy.runtime = 0
  BY IdleTyped
<1>3. call'[c].copy \in {call[c].copy, file, Idle.copy}
  BY DEF CallsOK
<1>4. call[c].copy.runtime \in Nat /\ file.runtime \in Nat
  BY NumbersTyped DEF TypeInv, Typed, CallRecords, Files
<1> QED BY <1>1, <1>2, <1>3, <1>4

LEMMA OrderlyKept ==
    ASSUME LauncherInv, WorkSame, CallsOK, PlacesKept, KidsKept(child'), entry' = entry,
           port' \in {port, NoPid}
    PROVE  OrderlyInv'
<1>1. SUFFICES ASSUME Orderly PROVE BrowserInv'
  BY ConditionsStay DEF OrderlyInv
<1>2. BrowserInv /\ work.callers = 1
  BY <1>1 DEF LauncherInv, OrderlyInv, Orderly
<1>3. \A c \in Callers : c > 1 => call'[c].at = "idle"
  BY <1>2, NumbersTyped DEF BrowserInv, PlacesKept, Callers
<1>4. /\ \A p \in Pids : child'[p].state \in {"up", "closing", "ended"} => entry'.pid = p
      /\ \A p \in Pids : child'[p].state = "closing" => child'[p].asked
      /\ entry'.cdp \in {NoPid, entry'.pid}
  BY <1>2 DEF BrowserInv, KidsKept
<1>5. \A c \in Callers : call'[c].at = "launching" => entry' = NoEntry
  BY <1>1, <1>2 DEF BrowserInv, PlacesKept
<1>6. \A c \in Callers : call'[c].at = "reading" => entry' = NoEntry \/ port' \in {NoPid, entry'.pid}
  BY <1>2 DEF BrowserInv, PlacesKept
<1>7. NoEntry' = NoEntry
  BY DEF NoEntry
<1> QED BY <1>3, <1>4, <1>5, <1>6, <1>7 DEF BrowserInv

(* The types and the file, of a step that records no session.                *)
LEMMA TypesAndFile ==
    ASSUME LauncherInv, WorkSame, CallsOK, FileKept, port' \in Pids \cup {NoPid}, seen' \in BOOLEAN,
           entry' \in [pid : Pids \cup {NoPid}, cdp : Pids \cup {NoPid}],
           entry' = NoEntry \/ entry'.pid \in Pids,
           child' \in [Pids -> ChildRecords],
           \A p \in Pids : child[p].state = "gone" => child'[p].state = "gone",
           \/ work.temporary /\ ~file'.there
           \/ ~work.temporary
           \/ \A p \in Pids : child'[p].state \in {"gone", "orphan"} =>
                  child[p].state \in {"gone", "orphan"}
    PROVE  TypeInv' /\ FileInv'
<1>1. Typed'
  BY NumbersTyped DEF LauncherInv, TypeInv, Typed, WorkSame, CallsOK, FileKept, NoEntry, NoPid
<1>2. Counted'
  <2>1. /\ owned'.sessions = owned.sessions /\ owned'.sessions \in Nat
        /\ file'.runtime <= owned'.sessions
    BY DEF FileKept
  <2>2. \A c \in Callers : call'[c].copy.runtime <= owned'.sessions
    BY <2>1, CopiesCounted DEF LauncherInv
  <2>3. child \in [Pids -> ChildRecords]
    BY DEF LauncherInv, TypeInv, Typed
  <2>4. Cardinality(Closed) <= Cardinality(Closed') /\ Cardinality(Closed) \in Nat /\ Cardinality(Closed') \in Nat
    BY <2>3, ClosedGrows
  <2>5. owned.sessions <= Cardinality(Closed)
    BY DEF LauncherInv, TypeInv, Counted
  <2>6. owned'.sessions <= Cardinality(Closed')
    BY <2>1, <2>4, <2>5
  <2> QED BY <2>1, <2>2, <2>6 DEF Counted
<1>3. Tried'
  BY DEF CallsOK
<1>4. FileInv'
  <2>1. Edits' = Edits /\ work'.temporary = work.temporary
    BY ConditionsStay DEF WorkSame
  <2>2. Edits' \/ \A c \in Callers : call'[c].at # "testing"
    BY <2>1 DEF CallsOK, LauncherInv, FileInv
  <2>3. work'.temporary /\ ~Edits' /\ (\E p \in Pids : child'[p].state \in {"gone", "orphan"}) => ~file'.there
    BY <2>1 DEF LauncherInv, FileInv, FileKept
  <2> QED BY <2>2, <2>3 DEF FileInv, FileKept
<1> QED BY <1>1, <1>2, <1>3, <1>4 DEF TypeInv

(* A step that neither makes nor ends an entry, a browser or a session.      *)
LEMMA CommonSteps ==
    ASSUME LauncherInv, WorkSame, CallsOK, PlacesKept, KidsKept(child'), FileKept,
           entry' = entry, port' \in {port, NoPid}, seen' \in BOOLEAN
    PROVE  LauncherInv'
<1>1. /\ entry' \in [pid : Pids \cup {NoPid}, cdp : Pids \cup {NoPid}]
      /\ entry' = NoEntry \/ entry'.pid \in Pids
      /\ port' \in Pids \cup {NoPid}
  BY DEF LauncherInv, TypeInv, Typed
<1>2. /\ child' \in [Pids -> ChildRecords]
      /\ \A p \in Pids : child[p].state = "gone" => child'[p].state = "gone"
      /\ \A p \in Pids : child'[p].state \in {"gone", "orphan"} => child[p].state \in {"gone", "orphan"}
  BY DEF KidsKept
<1>3. TypeInv' /\ FileInv'
  BY <1>1, <1>2, TypesAndFile
<1>4. OrderlyInv'
  BY OrderlyKept
<1> QED BY <1>3, <1>4 DEF LauncherInv

-----------------------------------------------------------------------------
(* What the operators return.                                                *)

(* A kill closes the entry's browser, which was asked for.                   *)
LEMMA KilledKept == ASSUME Typed PROVE KidsKept(Killed(child))
<1>1. CASE entry = NoEntry
  BY <1>1, ChildStays DEF Killed
<1>2. CASE entry # NoEntry
  <2> DEFINE e == entry.pid
             kids == Dropped(entry, child)
  <2>1. e \in Pids /\ child \in [Pids -> ChildRecords]
    BY <1>2 DEF Typed
  <2>5. kids = IF child[e].state = "up" THEN [child EXCEPT ![e].state = "closing"] ELSE child
    BY <1>2 DEF Dropped
  <2>2. /\ kids \in [Pids -> ChildRecords]
        /\ \A p \in Pids : kids[p].state # child[p].state =>
              p = e /\ child[p].state = "up" /\ kids[p].state = "closing"
        /\ \A p \in Pids : kids[p].asked = child[p].asked
    <3> HIDE DEF e, kids
    <3>1. CASE child[e].state = "up"
      <4>1. kids = [child EXCEPT ![e] = [child[e] EXCEPT !.state = "closing"]]
        BY <2>5, <3>1
      <4> QED BY <2>1, <3>1, <4>1 DEF ChildRecords
    <3>2. CASE child[e].state # "up"
      BY <2>1, <2>5, <3>2
    <3> QED BY <3>1, <3>2
  <2>3. Killed(child) = [kids EXCEPT ![e].asked = TRUE]
    BY <1>2 DEF Killed
  <2> HIDE DEF e, kids
  <2>4. /\ Killed(child) \in [Pids -> ChildRecords]
        /\ Killed(child)[e].asked
        /\ \A p \in Pids : Killed(child)[p].state = kids[p].state
        /\ \A p \in Pids \ {e} : Killed(child)[p].asked = kids[p].asked
    <3> DEFINE r == [kids[e] EXCEPT !.asked = TRUE]
    <3>1. r \in ChildRecords /\ r.asked /\ r.state = kids[e].state
      BY <2>1, <2>2 DEF ChildRecords
    <3>2. Killed(child) = [kids EXCEPT ![e] = r]
      BY <2>3
    <3> HIDE DEF r
    <3> QED BY <2>1, <2>2, <3>1, <3>2
  <2> QED BY <2>1, <2>2, <2>4 DEF KidsKept
<1> QED BY <1>1, <1>2

LEMMA EndpointTyped == ASSUME Typed PROVE Endpoint \in Pids \cup {NoPid}
BY DEF Typed, Endpoint

(* Every saved copy leaves the pin and a counted session to the file.        *)
LEMMA SaveRawShape ==
    ASSUME NEW copy \in Files, NEW now \in Files
    PROVE  /\ SaveRaw(copy, now) \in Files /\ SaveRaw(copy, now).there
           /\ now.there => SaveRaw(copy, now).pinned = now.pinned
           /\ SaveRaw(copy, now).runtime \in {copy.runtime, now.runtime}
           /\ copy.runtime = now.runtime => SaveRaw(copy, now).runtime = now.runtime
BY DEF SaveRaw, Files

LEMMA FileChanges ==
    ASSUME LauncherInv, WorkSame, file' \in Files,
           owned' \in [pin : BOOLEAN, folder : Folders, sessions : Nat, gone : BOOLEAN],
           owned'.sessions = owned.sessions, owned'.gone = owned.gone,
           file.there, file'.there,
           Edits \/ file'.runtime = file.runtime, file'.runtime <= owned.sessions,
           file.pinned = owned.pin => file'.pinned = owned'.pin
    PROVE  FileKept
<1>1. Edits' = Edits
  BY ConditionsStay
<1> QED BY <1>1 DEF LauncherInv, FileInv, FileKept, RuntimeCounted, PinOwned

(* The file is deleted.                                                      *)
LEMMA GoneKept == ASSUME LauncherInv, WorkSame, Gone PROVE FileKept /\ port' = NoPid
<1>1. /\ file \in Files /\ file.runtime <= owned.sessions
      /\ owned \in [pin : BOOLEAN, folder : Folders, sessions : Nat, gone : BOOLEAN]
  BY DEF LauncherInv, TypeInv, Typed, Counted
<1>2. /\ file' \in Files /\ ~file'.there /\ file'.runtime = file.runtime /\ port' = NoPid
      /\ owned' \in [pin : BOOLEAN, folder : Folders, sessions : Nat, gone : BOOLEAN]
      /\ owned'.sessions = owned.sessions /\ owned'.gone
  BY <1>1 DEF Gone, Files
<1> QED BY <1>1, <1>2 DEF FileKept, RuntimeCounted, PinOwned

LEMMA RefiledKept ==
    ASSUME LauncherInv, WorkSame, file.there, NEW f \in Folders, Refiled(f)
    PROVE  FileKept /\ port' = port
<1>1. /\ file \in Files /\ file.runtime <= owned.sessions
      /\ owned \in [pin : BOOLEAN, folder : Folders, sessions : Nat, gone : BOOLEAN]
  BY DEF LauncherInv, TypeInv, Typed, Counted
<1>2. /\ file' \in Files /\ file'.there /\ file'.runtime = file.runtime /\ port' = port
      /\ file'.pinned = file.pinned
      /\ owned' \in [pin : BOOLEAN, folder : Folders, sessions : Nat, gone : BOOLEAN]
      /\ owned'.sessions = owned.sessions /\ owned'.gone = owned.gone /\ owned'.pin = owned.pin
  BY <1>1 DEF Refiled, Files
<1> QED BY <1>1, <1>2, FileChanges

(* A binding is saved over the file it was made from.                        *)
LEMMA BindingKept ==
    ASSUME LauncherInv, WorkSame, file.there, owned' = owned, NEW x \in Bindings,
           file' = SaveRaw([file EXCEPT !.bound = x], file)
    PROVE  FileKept
<1>1. /\ file \in Files /\ file.runtime <= owned.sessions
      /\ owned \in [pin : BOOLEAN, folder : Folders, sessions : Nat, gone : BOOLEAN]
  BY DEF LauncherInv, TypeInv, Typed, Counted
<1> DEFINE copy == [file EXCEPT !.bound = x]
<1>2. copy \in Files /\ copy.runtime = file.runtime
  BY <1>1 DEF Files
<1> HIDE DEF copy
<1>3. /\ file' \in Files /\ file'.there /\ file'.pinned = file.pinned
      /\ file'.runtime = file.runtime
  BY <1>1, <1>2, SaveRawShape DEF copy
<1> QED BY <1>1, <1>3, FileChanges

-----------------------------------------------------------------------------
(* Every step keeps the invariant.                                           *)

LEMMA BeginningSteps ==
    ASSUME LauncherInv, NEW c \in Callers,
           \/ ApiStarts(c) \/ WindowStarts(c) \/ KeeperOpens(c) \/ KeeperDeletes(c)
           \/ EditLoads(c) \/ ImportCookies(c) \/ \E x \in Proxies : KeeperPrepares(c, x)
    PROVE  LauncherInv'
<1>1. Typed /\ Tried /\ TypeInv /\ FileInv
  BY DEF LauncherInv, TypeInv
<1>2. ASSUME NEW cmd \in {"start", "launch", "open"}, NEW cdp \in BOOLEAN,
             LaunchLoads(c, cmd, cdp), entry = NoEntry \/ cmd \in {"start", "launch"}
      PROVE  LauncherInv'
  <2>1. WorkSame /\ cmd \in work.allowed
    BY <1>1, <1>2, AskedStays DEF LaunchLoads
  <2>2. CallsOK /\ call'[c].at = "launching" /\ Others(c)
    BY <1>1, <1>2, BeginsMoves DEF LaunchLoads, Places
  <2>3. PlacesKept
    BY <1>2, <2>1, <2>2 DEF PlacesKept, LaunchLoads, Free, Others, Orderly
  <2>4. FileKept /\ KidsKept(child') /\ entry' = entry /\ port' = port /\ seen' \in BOOLEAN
    BY <1>1, <1>2, <2>1, FileStays, ChildStays DEF LaunchLoads, Typed
  <2> QED BY <2>1, <2>2, <2>3, <2>4, CommonSteps
<1>3. CASE ApiStarts(c)
  BY <1>2, <1>3 DEF ApiStarts
<1>4. CASE WindowStarts(c)
  BY <1>2, <1>4 DEF WindowStarts
<1>5. CASE KeeperOpens(c)
  BY <1>2, <1>5 DEF KeeperOpens
<1>6. CASE KeeperDeletes(c)
  <2>1. WorkSame
    BY <1>1, <1>6, AskedStays DEF KeeperDeletes
  <2>2. CallsOK /\ call'[c].at = "deleting" /\ Others(c)
    BY <1>1, <1>6, BeginsMoves DEF KeeperDeletes, Places
  <2>3. PlacesKept
    BY <1>6, <2>2 DEF PlacesKept, KeeperDeletes, Free, Others
  <2>4. FileKept /\ KidsKept(child') /\ entry' = entry /\ port' = port /\ seen' \in BOOLEAN
    BY <1>1, <1>6, <2>1, FileStays, KilledKept DEF KeeperDeletes, Typed
  <2> QED BY <2>1, <2>2, <2>3, <2>4, CommonSteps
<1>7. CASE EditLoads(c)
  <2>1. WorkSame /\ Edits
    BY <1>1, <1>7, AskedStays DEF EditLoads, Edits
  <2>2. CallsOK /\ call'[c].at = "testing" /\ Others(c)
    BY <1>1, <1>7, <2>1, BeginsMoves DEF EditLoads, Places
  <2>3. PlacesKept
    BY <1>7, <2>2 DEF PlacesKept, EditLoads, Free, Others
  <2>4. FileKept /\ KidsKept(child') /\ entry' = entry /\ port' = port /\ seen' \in BOOLEAN
    BY <1>1, <1>7, <2>1, FileStays, ChildStays DEF EditLoads, Typed
  <2> QED BY <2>1, <2>2, <2>3, <2>4, CommonSteps
<1>8. CASE ImportCookies(c)
  <2>1. WorkSame
    BY <1>1, <1>8, AskedStays DEF ImportCookies
  <2>2. CallsOK /\ call'[c].at = "idle" /\ Others(c)
    <3> DEFINE r == [call[c] EXCEPT !.cmd = "imported"]
    <3>1. call[c] \in CallRecords /\ call[c].tries # 2 /\ call[c].at = "idle"
      BY <1>1, <1>8 DEF Typed, Tried, ImportCookies, Free
    <3>2. r \in CallRecords /\ r.at = "idle" /\ r.tries = call[c].tries /\ r.copy = call[c].copy
      BY <3>1 DEF CallRecords
    <3>3. call' = [call EXCEPT ![c] = r]
      BY <1>8 DEF ImportCookies
    <3> HIDE DEF r
    <3>4. CallsOK /\ call'[c] = r /\ Others(c)
      BY <1>1, <3>1, <3>2, <3>3, OneMoves
    <3> QED BY <3>2, <3>4
  <2>3. PlacesKept
    BY <1>8, <2>2 DEF PlacesKept, Others
  <2>4. FileKept /\ KidsKept(child') /\ entry' = entry /\ port' = port /\ seen' \in BOOLEAN
    BY <1>1, <1>8, <2>1, FileStays, ChildStays DEF ImportCookies, Typed
  <2> QED BY <2>1, <2>2, <2>3, <2>4, CommonSteps
<1>9. ASSUME NEW x \in Proxies, KeeperPrepares(c, x) PROVE LauncherInv'
  <2>1. WorkSame
    BY <1>1, <1>9, AskedStays DEF KeeperPrepares
  <2>2. CallsOK /\ call'[c].at \in {"ready", "unbinding", "binding"} /\ Others(c)
    <3> DEFINE at == CASE file.bound = x -> "ready"
                       [] file.bound # x /\ IsRunning -> "unbinding"
                       [] OTHER -> "binding"
               r == [Idle EXCEPT !.cmd = "prepare", !.cdp = TRUE, !.want = x, !.at = at]
    <3>1. at \in {"ready", "unbinding", "binding"} /\ x \in Bindings
      BY <1>9 DEF Bindings
    <3> HIDE DEF at
    <3>2. /\ r \in CallRecords /\ r.at \in {"ready", "unbinding", "binding"} /\ r.tries = 0
          /\ r.copy = Idle.copy
      BY <3>1, IdleTyped DEF CallRecords, Places
    <3>3. call' = [call EXCEPT ![c] = r]
      BY <1>9 DEF KeeperPrepares, at
    <3> HIDE DEF r
    <3>4. CallsOK /\ call'[c] = r /\ Others(c)
      <4>1. r.tries # 2 /\ r.at # "testing" /\ r.copy \in {call[c].copy, file, Idle.copy}
        BY <3>2
      <4> QED BY <1>1, <3>2, <3>3, <4>1, OneMoves
    <3> QED BY <3>2, <3>4
  <2>3. PlacesKept
    BY <1>9, <2>2 DEF PlacesKept, KeeperPrepares, Free, Others
  <2>4. FileKept /\ entry' = entry /\ port' = port /\ seen' \in BOOLEAN
    BY <1>1, <1>9, <2>1, FileStays DEF KeeperPrepares, Typed
  <2>5. KidsKept(child')
    BY <1>1, <1>9, ChildStays, KilledKept DEF KeeperPrepares
  <2> QED BY <2>1, <2>2, <2>3, <2>4, <2>5, CommonSteps
<1> QED BY <1>3, <1>4, <1>5, <1>6, <1>7, <1>8, <1>9

(* A command that returns, having changed nothing.                           *)
LEMMA ReturningSteps ==
    ASSUME LauncherInv, NEW c \in Callers, NEW got \in Pids \cup {NoPid}, Returns(c, got),
           UNCHANGED <<file, port, entry, child, seen, owned, work>>
    PROVE  LauncherInv'
<1>1. Typed /\ Tried /\ TypeInv /\ FileInv
  BY DEF LauncherInv, TypeInv
<1>2. WorkSame
  BY <1>1, WorkStays
<1>3. CallsOK /\ call'[c].at = "idle" /\ Others(c)
  BY <1>1, ReturnsMoves
<1>4. PlacesKept
  BY <1>3 DEF PlacesKept, Others
<1>5. FileKept /\ KidsKept(child') /\ seen' \in BOOLEAN
  BY <1>1, <1>2, FileStays, ChildStays DEF Typed
<1> QED BY <1>2, <1>3, <1>4, <1>5, CommonSteps

(* A command that goes on to another place of its own.                       *)
LEMMA PlacingSteps ==
    ASSUME LauncherInv, NEW c \in Callers, call[c].at \notin {"idle", "absent"},
           call' = [call EXCEPT ![c].at = "cdpwait"],
           UNCHANGED <<file, port, entry, child, seen, owned, work>>
    PROVE  LauncherInv'
<1>1. Typed /\ Tried /\ TypeInv /\ FileInv
  BY DEF LauncherInv, TypeInv
<1>2. WorkSame
  BY <1>1, WorkStays
<1>3. CallsOK /\ call'[c].at = "cdpwait" /\ Others(c)
  BY <1>1, PlaceMoves DEF Places
<1>4. PlacesKept
  BY <1>3 DEF PlacesKept, Others
<1>5. FileKept /\ KidsKept(child') /\ seen' \in BOOLEAN
  BY <1>1, <1>2, FileStays, ChildStays DEF Typed
<1> QED BY <1>2, <1>3, <1>4, <1>5, CommonSteps

LEMMA FailingSteps ==
    ASSUME LauncherInv, NEW c \in Callers,
           \/ LaunchFails(c) \/ LaunchTimesOut(c) \/ KeeperReuses(c) \/ KeeperFindsCdp(c)
           \/ KeeperGivesUp(c)
    PROVE  LauncherInv'
<1>1. Typed
  BY DEF LauncherInv, TypeInv
<1>2. Endpoint \in Pids \cup {NoPid} /\ NoPid \in Pids \cup {NoPid}
  BY <1>1, EndpointTyped
<1>3. CASE LaunchFails(c)
  BY <1>2, <1>3, PlacingSteps, ReturningSteps DEF LaunchFails
<1>4. CASE LaunchTimesOut(c)
  BY <1>2, <1>4, PlacingSteps, ReturningSteps DEF LaunchTimesOut
<1>5. CASE KeeperReuses(c)
  BY <1>2, <1>5, ReturningSteps DEF KeeperReuses
<1>6. CASE KeeperFindsCdp(c)
  BY <1>2, <1>6, ReturningSteps DEF KeeperFindsCdp
<1>7. CASE KeeperGivesUp(c)
  BY <1>2, <1>7, ReturningSteps DEF KeeperGivesUp
<1> QED BY <1>3, <1>4, <1>5, <1>6, <1>7

LEMMA KeeperWaitSteps ==
    ASSUME LauncherInv, NEW c \in Callers, KeeperStops(c) \/ KeeperRetries(c)
    PROVE  LauncherInv'
<1>1. Typed /\ Tried /\ TypeInv /\ FileInv
  BY DEF LauncherInv, TypeInv
<1>2. WorkSame
  BY <1>1, WorkStays DEF KeeperStops, KeeperRetries
<1>3. CallsOK /\ call'[c].at = "absent" /\ Others(c)
  <2> DEFINE tries == IF KeeperStops(c) THEN call[c].tries ELSE call[c].tries + 1
             r == [call[c] EXCEPT !.at = "absent", !.tries = tries]
  <2>1. call[c] \in CallRecords /\ call[c].tries \in {0, 1}
    BY <1>1 DEF Typed, Tried, KeeperStops, KeeperRetries, CallRecords
  <2>2. tries \in 0 .. 2
    BY <2>1
  <2>3. call' = [call EXCEPT ![c] = r]
    <3>1. CASE KeeperStops(c)
      <4>1. r = [call[c] EXCEPT !.at = "absent"]
        BY <2>1, <3>1 DEF CallRecords
      <4> QED BY <3>1, <4>1 DEF KeeperStops
    <3>2. CASE ~KeeperStops(c)
      <4>1. KeeperRetries(c) /\ tries = call[c].tries + 1
        BY <3>2
      <4> HIDE DEF tries
      <4>2. call' = [call EXCEPT ![c] = [call[c] EXCEPT !.at = "absent", !.tries = tries]]
        BY <1>1, <2>1, <4>1 DEF KeeperRetries, Typed, CallRecords
      <4> QED BY <4>2
    <3> QED BY <3>1, <3>2
  <2> HIDE DEF tries
  <2>4. r \in CallRecords /\ r.at = "absent" /\ r.copy = call[c].copy
    BY <2>1, <2>2 DEF CallRecords, Places
  <2> HIDE DEF r
  <2>5. CallsOK /\ call'[c] = r /\ Others(c)
    BY <1>1, <2>3, <2>4, OneMoves
  <2> QED BY <2>4, <2>5
<1>4. PlacesKept
  BY <1>3 DEF PlacesKept, Others, KeeperStops, KeeperRetries
<1>5. FileKept /\ entry' = entry /\ port' = port /\ seen' \in BOOLEAN
  BY <1>1, <1>2, FileStays DEF KeeperStops, KeeperRetries, Typed
<1>6. KidsKept(child')
  BY <1>1, KilledKept DEF KeeperStops, KeeperRetries
<1> QED BY <1>2, <1>3, <1>4, <1>5, <1>6, CommonSteps

LEMMA KeeperLaunchSteps ==
    ASSUME LauncherInv, NEW c \in Callers, KeeperLaunches(c)
    PROVE  LauncherInv'
<1>1. Typed /\ Tried /\ TypeInv /\ FileInv
  BY DEF LauncherInv, TypeInv
<1>2. WorkSame
  BY <1>1, WorkStays DEF KeeperLaunches
<1>3. entry = NoEntry /\ call[c].tries # 2 /\ call[c].at # "idle"
  BY <1>1 DEF KeeperLaunches, Absent, IsRunning, Tried
<1>4. CallsOK /\ call'[c].at \in {"launching", "cdpwait"} /\ Others(c)
  <2> DEFINE at == IF file.there THEN "launching" ELSE "cdpwait"
             r == [call[c] EXCEPT !.copy = file, !.at = at]
  <2>1. call[c] \in CallRecords /\ at \in {"launching", "cdpwait"} /\ file \in Files
    BY <1>1 DEF Typed
  <2>2. call' = [call EXCEPT ![c] = r]
    BY <1>1 DEF KeeperLaunches
  <2> HIDE DEF at
  <2>3. r \in CallRecords /\ r.at = at /\ r.copy = file /\ r.tries = call[c].tries
    BY <2>1 DEF CallRecords, Places
  <2> HIDE DEF r
  <2>4. CallsOK /\ call'[c] = r /\ Others(c)
    <3>1. r.tries # 2 /\ r.at # "testing" /\ r.copy \in {call[c].copy, file, Idle.copy}
      BY <1>3, <2>1, <2>3
    <3> QED BY <1>1, <2>2, <2>3, <3>1, OneMoves
  <2> QED BY <2>1, <2>3, <2>4
<1>5. PlacesKept
  BY <1>3, <1>4 DEF PlacesKept, Others
<1>6. FileKept /\ KidsKept(child') /\ entry' = entry /\ port' = port /\ seen' \in BOOLEAN
  BY <1>1, <1>2, FileStays, ChildStays DEF KeeperLaunches, Typed
<1> QED BY <1>2, <1>4, <1>5, <1>6, CommonSteps

LEMMA KeeperFileSteps ==
    ASSUME LauncherInv, NEW c \in Callers, KeeperBinds(c) \/ KeeperErases(c)
    PROVE  LauncherInv'
<1>1. Typed /\ Tried /\ TypeInv /\ FileInv
  BY DEF LauncherInv, TypeInv
<1>2. WorkSame
  BY <1>1, WorkStays DEF KeeperBinds, KeeperErases
<1>3. NoPid \in Pids \cup {NoPid}
  OBVIOUS
<1>4. CallsOK /\ call'[c].at \in {"idle", "ready"} /\ Others(c)
  <2>1. CASE Returns(c, NoPid)
    BY <1>1, <1>3, <2>1, ReturnsMoves
  <2>2. CASE KeeperBinds(c) /\ call' = [call EXCEPT ![c].at = "ready"]
    <3>1. call[c].at # "absent" /\ "ready" \in Places
      BY <2>2 DEF KeeperBinds, Places
    <3> QED BY <1>1, <2>2, <3>1, PlaceMoves
  <2> QED BY <2>1, <2>2 DEF KeeperBinds, KeeperErases
<1>5. PlacesKept
  BY <1>4 DEF PlacesKept, Others, KeeperBinds, KeeperErases
<1>6. KidsKept(child') /\ entry' = entry /\ seen' \in BOOLEAN
  BY <1>1, ChildStays DEF KeeperBinds, KeeperErases, Typed
<1>7. FileKept /\ port' \in {port, NoPid}
  <2>1. CASE KeeperErases(c)
    BY <1>2, <2>1, GoneKept DEF KeeperErases
  <2>2. CASE KeeperBinds(c) /\ ~file.there
    BY <1>1, <1>2, <2>2, FileStays DEF KeeperBinds
  <2>3. CASE KeeperBinds(c) /\ file.there
    <3>1. call[c].want \in Bindings
      BY <1>1 DEF Typed, CallRecords
    <3> QED BY <1>2, <2>3, <3>1, BindingKept DEF KeeperBinds
  <2> QED BY <2>1, <2>2, <2>3
<1> QED BY <1>2, <1>4, <1>5, <1>6, <1>7, CommonSteps

(* An edit saves the copy it loaded, and may set the folder.                 *)
LEMMA EditSteps ==
    ASSUME LauncherInv, NEW c \in Callers, NEW x \in Bindings, EditSaves(c, x)
    PROVE  LauncherInv'
<1>1. Typed /\ Tried /\ TypeInv /\ FileInv
  BY DEF LauncherInv, TypeInv
<1>2. WorkSame /\ Edits /\ Edits' = Edits
  BY <1>1, WorkStays, ConditionsStay DEF EditSaves, FileInv
<1>3. CallsOK /\ call'[c].at = "idle" /\ Others(c)
  <2>1. NoPid \in Pids \cup {NoPid} /\ Returns(c, NoPid)
    BY DEF EditSaves
  <2> QED BY <1>1, <2>1, ReturnsMoves
<1>4. PlacesKept
  BY <1>3 DEF PlacesKept, Others
<1>5. KidsKept(child') /\ entry' = entry /\ port' = port /\ seen' \in BOOLEAN
  BY <1>1, ChildStays DEF EditSaves, Typed
<1>6. FileKept
  <2> DEFINE copy == [call[c].copy EXCEPT !.bound = x]
             saved == SaveRaw(copy, file)
  <2>1. /\ call[c].copy \in Files /\ file \in Files /\ file.runtime <= owned.sessions
        /\ call[c].copy.runtime <= owned.sessions
        /\ owned \in [pin : BOOLEAN, folder : Folders, sessions : Nat, gone : BOOLEAN]
    BY <1>1 DEF TypeInv, Typed, Counted, CallRecords
  <2>2. copy \in Files /\ copy.runtime = call[c].copy.runtime
    BY <2>1 DEF Files
  <2>3. /\ file' = saved \/ \E f \in Folders : file' = [saved EXCEPT !.folder = f]
        /\ owned' \in [pin : BOOLEAN, folder : Folders, sessions : Nat, gone : BOOLEAN]
        /\ owned'.sessions = owned.sessions /\ owned'.gone = owned.gone /\ owned'.pin = owned.pin
    BY <2>1 DEF EditSaves
  <2> HIDE DEF copy
  <2>4. /\ saved \in Files /\ saved.there /\ saved.runtime <= owned.sessions
        /\ file.there => saved.pinned = file.pinned
    BY <2>1, <2>2, SaveRawShape
  <2> HIDE DEF saved
  <2>5. /\ file' \in Files /\ file'.there /\ file'.runtime <= owned.sessions
        /\ file.there => file'.pinned = file.pinned
    BY <2>3, <2>4 DEF Files
  <2>6. RuntimeCounted'
    BY <1>2 DEF RuntimeCounted
  <2>7. file'.there \/ owned'.gone
    BY <2>5
  <2>8. PinOwned'
    BY <1>1, <2>3, <2>5 DEF PinOwned, FileInv
  <2> QED BY <1>2, <2>3, <2>5, <2>6, <2>7, <2>8 DEF FileKept
<1> QED BY <1>2, <1>3, <1>4, <1>5, <1>6, CommonSteps

(* The steps of nobody's command.                                            *)
LEMMA OperatorSteps ==
    ASSUME LauncherInv,
           \/ Kill \/ Poll \/ SetPin \/ Delete \/ DeleteFolder
           \/ \E x \in Bindings : Bind(x)
           \/ \E f \in Folders : SetFolder(f) \/ RenameFolder(f)
    PROVE  LauncherInv'
<1>1. Typed /\ Tried /\ TypeInv /\ FileInv
  BY DEF LauncherInv, TypeInv
<1>2. WorkSame
  BY <1>1, WorkStays, AskedStays DEF Kill, Poll, SetPin, Delete, DeleteFolder, Bind, SetFolder, RenameFolder
<1>3. call' = call /\ entry' = entry /\ seen' \in BOOLEAN
  BY <1>1 DEF Kill, Poll, SetPin, Delete, DeleteFolder, Bind, SetFolder, RenameFolder, Typed
<1>4. CallsOK /\ PlacesKept
  BY <1>1, <1>3, CallsStay DEF PlacesKept
<1>5. KidsKept(child')
  <2>1. child' = child \/ child' = Killed(child)
    BY DEF Kill, Poll, SetPin, Delete, DeleteFolder, Bind, SetFolder, RenameFolder
  <2> QED BY <1>1, <2>1, ChildStays, KilledKept
<1>6. FileKept /\ port' \in {port, NoPid}
  <2>1. CASE Kill \/ Poll
    BY <1>1, <1>2, <2>1, FileStays DEF Kill, Poll
  <2>2. CASE Gone
    BY <1>2, <2>2, GoneKept
  <2>3. ASSUME NEW f \in Folders, Refiled(f), file.there PROVE FileKept /\ port' = port
    BY <1>2, <2>3, RefiledKept
  <2>4. ASSUME NEW x \in Bindings, Bind(x) PROVE FileKept /\ port' = port
    BY <1>2, <2>4, BindingKept DEF Bind
  <2>5. CASE SetPin
    <3>1. /\ file \in Files /\ file.runtime <= owned.sessions /\ file.there
          /\ owned \in [pin : BOOLEAN, folder : Folders, sessions : Nat, gone : BOOLEAN]
      BY <1>1, <2>5 DEF TypeInv, Typed, Counted, SetPin
    <3>2. /\ file' \in Files /\ file'.there /\ file'.runtime = file.runtime /\ port' = port
          /\ owned' \in [pin : BOOLEAN, folder : Folders, sessions : Nat, gone : BOOLEAN]
          /\ owned'.sessions = owned.sessions /\ owned'.gone = owned.gone
          /\ file'.pinned = owned'.pin
      BY <3>1, <2>5 DEF SetPin, Files
    <3> QED BY <1>2, <3>1, <3>2, FileChanges
  <2>6. "unfiled" \in Folders
    BY DEF Folders
  <2> QED BY <2>1, <2>2, <2>3, <2>4, <2>5, <2>6 DEF Delete, DeleteFolder, SetFolder, RenameFolder
<1> QED BY <1>2, <1>3, <1>4, <1>5, <1>6, CommonSteps

(* A browser that was not asked, or that was, ends.                          *)
LEMMA BrowserEnds ==
    ASSUME LauncherInv, NEW p \in Pids, BrowserExits(p) \/ BrowserCloses(p)
    PROVE  LauncherInv'
<1>1. Typed /\ Tried /\ TypeInv /\ FileInv
  BY DEF LauncherInv, TypeInv
<1>2. WorkSame
  BY <1>1, WorkStays DEF BrowserExits, BrowserCloses
<1>3. CallsOK /\ PlacesKept
  BY <1>1, CallsStay DEF PlacesKept, BrowserExits, BrowserCloses
<1>4. KidsKept(child')
  <2> DEFINE s == IF child[p].state = "orphan" THEN "gone" ELSE "ended"
             r == [child[p] EXCEPT !.state = s]
  <2>1. child[p] \in ChildRecords /\ child \in [Pids -> ChildRecords]
    BY <1>1 DEF Typed
  <2>2. child' = [child EXCEPT ![p] = r] /\ child[p].state \in {"up", "closing", "orphan"}
    BY DEF BrowserExits, BrowserCloses
  <2>3. s \in {"gone", "ended"} /\ (s = "gone" <=> child[p].state = "orphan")
    OBVIOUS
  <2> HIDE DEF s
  <2>4. r \in ChildRecords /\ r.state = s
    BY <2>1, <2>3 DEF ChildRecords
  <2> HIDE DEF r
  <2> QED BY <2>1, <2>2, <2>3, <2>4 DEF KidsKept
<1>5. FileKept /\ entry' = entry /\ port' = port /\ seen' \in BOOLEAN
  BY <1>1, <1>2, FileStays DEF BrowserExits, BrowserCloses, Typed
<1> QED BY <1>2, <1>3, <1>4, <1>5, CommonSteps

(* A launch tracks its browser in place of the one that had the entry.       *)
LEMMA SpawnSteps ==
    ASSUME LauncherInv, NEW c \in Callers, LaunchSpawns(c)
    PROVE  LauncherInv'
<1>1. Typed /\ Tried /\ TypeInv /\ FileInv
  BY DEF LauncherInv, TypeInv
<1>2. WorkSame
  BY <1>1, WorkStays DEF LaunchSpawns
<1>3. PICK p \in 1 .. work.pids :
        /\ call[c].at = "launching" /\ child[p] = Unborn
        /\ child' = [Dropped(entry, child) EXCEPT
               ![p] = [state |-> "up", cdp |-> call[c].cdp, via |-> call[c].copy.bound,
                       asked |-> FALSE]]
        /\ entry' = [pid |-> p, cdp |-> NoPid]
        /\ port' = PortBefore(call[c].cdp)
  BY DEF LaunchSpawns
<1>4. p \in Pids
  BY <1>1, NumbersTyped DEF Typed, WorkloadRecords, Pids
<1>5. /\ call' = [call EXCEPT ![c].at = "reading"] /\ call[c].cdp
      \/ call' = [call EXCEPT ![c].at = "cdpwait"]
      \/ Returns(c, NoPid)
  BY <1>3 DEF LaunchSpawns
<1>6. /\ CallsOK /\ Others(c) /\ call'[c].at \in {"reading", "cdpwait", "idle"}
      /\ call'[c].at = "reading" => call[c].cdp
  <2>1. CASE call' = [call EXCEPT ![c].at = "reading"] /\ call[c].cdp
    BY <1>1, <1>3, <2>1, PlaceMoves DEF Places
  <2>2. CASE call' = [call EXCEPT ![c].at = "cdpwait"]
    BY <1>1, <1>3, <2>2, PlaceMoves DEF Places
  <2>3. CASE Returns(c, NoPid)
    <3>1. NoPid \in Pids \cup {NoPid}
      OBVIOUS
    <3> QED BY <1>1, <2>3, <3>1, ReturnsMoves
  <2> QED BY <1>5, <2>1, <2>2, <2>3
<1> DEFINE kids == Dropped(entry, child)
           b == [state |-> "up", cdp |-> call[c].cdp, via |-> call[c].copy.bound, asked |-> FALSE]
<1>7. b \in ChildRecords /\ b.state = "up"
  BY <1>1 DEF Typed, CallRecords, ChildRecords, Files
<1>8. /\ kids \in [Pids -> ChildRecords]
      /\ \A q \in Pids : kids[q].state \in {"gone", "orphan"} <=> child[q].state \in {"gone", "orphan"}
      /\ \A q \in Pids : child[q].state = "gone" => kids[q].state = "gone"
      /\ entry = NoEntry => kids = child
  <2>1. CASE entry = NoEntry \/ child[entry.pid].state # "up"
    BY <1>1, <2>1 DEF Dropped, Typed
  <2>2. CASE entry # NoEntry /\ child[entry.pid].state = "up"
    <3> DEFINE e == entry.pid
               r == [child[e] EXCEPT !.state = "closing"]
    <3>1. e \in Pids /\ child[e] \in ChildRecords /\ child \in [Pids -> ChildRecords]
      BY <1>1, <2>2 DEF Typed
    <3>2. r \in ChildRecords /\ r.state = "closing" /\ kids = [child EXCEPT ![e] = r]
      BY <2>2, <3>1 DEF ChildRecords, Dropped
    <3> HIDE DEF kids, r, e
    <3> QED BY <2>2, <3>1, <3>2 DEF e
  <2> QED BY <2>1, <2>2
<1>9. child' = [kids EXCEPT ![p] = b]
  BY <1>3
<1>10. child[p].state = "none"
  BY <1>3 DEF Unborn
<1> HIDE DEF kids, b
<1>11. /\ child' \in [Pids -> ChildRecords] /\ child'[p].state = "up"
       /\ \A q \in Pids : child[q].state = "gone" => child'[q].state = "gone"
       /\ \A q \in Pids : child'[q].state \in {"gone", "orphan"} => child[q].state \in {"gone", "orphan"}
       /\ entry = NoEntry => \A q \in Pids \ {p} : child'[q] = child[q]
  BY <1>4, <1>7, <1>8, <1>9, <1>10
<1>12. /\ entry' \in [pid : Pids \cup {NoPid}, cdp : Pids \cup {NoPid}]
       /\ entry'.pid = p /\ entry'.cdp = NoPid
  BY <1>3, <1>4
<1>13. port' \in Pids \cup {NoPid} /\ (call[c].cdp => port' = NoPid) /\ seen' \in BOOLEAN
  BY <1>1, <1>3 DEF PortBefore, Typed, LaunchSpawns
<1>14. FileKept
  BY <1>1, <1>2, FileStays DEF LaunchSpawns
<1>15. TypeInv' /\ FileInv'
  BY <1>2, <1>4, <1>6, <1>11, <1>12, <1>13, <1>14, TypesAndFile
<1>16. OrderlyInv'
  <2>1. SUFFICES ASSUME Orderly PROVE BrowserInv'
    BY <1>2, ConditionsStay DEF OrderlyInv
  <2>2. BrowserInv
    BY <2>1 DEF LauncherInv, OrderlyInv
  <2>3. entry = NoEntry /\ c \in Callers /\ ~(c > 1)
    BY <1>3, <2>2 DEF BrowserInv
  <2>4. \A q \in Pids \ {p} : child'[q].state \notin {"up", "closing", "ended"}
    BY <1>11, <2>2, <2>3 DEF BrowserInv, NoEntry, NoPid, Pids
  <2>5. \A d \in Callers \ {c} : call'[d].at \notin {"launching", "reading"} /\ call'[d].at = "idle"
    BY <1>6, <2>2, <2>3, NumbersTyped DEF BrowserInv, Others, Callers
  <2>6. call'[c].at = "reading" => port' = NoPid
    BY <1>6, <1>13
  <2>7. \A d \in Callers : d > 1 => call'[d].at = "idle"
    BY <2>3, <2>5
  <2>8. \A q \in Pids : child'[q].state = "closing" => child'[q].asked
    BY <1>11, <2>4
  <2>9. \A q \in Pids : child'[q].state \in {"up", "closing", "ended"} => entry'.pid = q
    BY <1>12, <2>4
  <2>10. /\ \A d \in Callers : call'[d].at # "launching"
         /\ \A d \in Callers : call'[d].at = "reading" => port' \in {NoPid, entry'.pid}
    BY <1>6, <2>5, <2>6
  <2> QED BY <1>12, <2>7, <2>8, <2>9, <2>10 DEF BrowserInv
<1> QED BY <1>15, <1>16 DEF LauncherInv

(* A launch notes in the entry the endpoint that it read.                    *)
LEMMA ReadSteps ==
    ASSUME LauncherInv, NEW c \in Callers, LaunchReads(c)
    PROVE  LauncherInv'
<1>1. Typed /\ Tried /\ TypeInv /\ FileInv
  BY DEF LauncherInv, TypeInv
<1>2. WorkSame
  BY <1>1, WorkStays DEF LaunchReads
<1>3. CallsOK /\ call'[c].at = "idle" /\ Others(c)
  <2>1. port \in Pids \cup {NoPid} /\ Returns(c, port)
    BY <1>1 DEF LaunchReads, Typed
  <2> QED BY <1>1, <2>1, ReturnsMoves
<1>4. /\ entry' \in [pid : Pids \cup {NoPid}, cdp : Pids \cup {NoPid}]
      /\ entry'.pid = entry.pid /\ (entry = NoEntry => entry' = NoEntry)
      /\ entry' = NoEntry \/ (entry # NoEntry /\ entry'.cdp = port)
  BY <1>1 DEF LaunchReads, Typed, NoEntry
<1>5. FileKept /\ child' = child /\ port' = port /\ seen' \in BOOLEAN /\ port \in Pids \cup {NoPid}
  BY <1>1, <1>2, FileStays DEF LaunchReads, Typed
<1>6. child \in [Pids -> ChildRecords] /\ (entry' = NoEntry \/ entry'.pid \in Pids)
  BY <1>1, <1>4 DEF Typed
<1>7. TypeInv' /\ FileInv'
  BY <1>2, <1>3, <1>4, <1>5, <1>6, TypesAndFile
<1>8. OrderlyInv'
  <2>1. SUFFICES ASSUME Orderly PROVE BrowserInv'
    BY <1>2, ConditionsStay DEF OrderlyInv
  <2>2. BrowserInv
    BY <2>1 DEF LauncherInv, OrderlyInv
  <2>3. call[c].at = "reading"
    BY DEF LaunchReads
  <2>4. \A d \in Callers \ {c} : call'[d].at = "idle"
    BY <1>3, <2>2, <2>3, NumbersTyped DEF BrowserInv, Others, Callers
  <2>5. entry'.cdp \in {NoPid, entry'.pid}
    BY <1>4, <2>2, <2>3 DEF BrowserInv, NoEntry
  <2> QED BY <1>3, <1>4, <1>5, <2>2, <2>4, <2>5 DEF BrowserInv
<1> QED BY <1>7, <1>8 DEF LauncherInv

LEMMA PortSteps ==
    ASSUME LauncherInv, NEW p \in Pids, BrowserWritesPort(p)
    PROVE  LauncherInv'
<1>1. Typed /\ Tried /\ TypeInv /\ FileInv
  BY DEF LauncherInv, TypeInv
<1>2. WorkSame
  BY <1>1, WorkStays DEF BrowserWritesPort
<1>3. CallsOK /\ FileKept
  BY <1>1, <1>2, CallsStay, FileStays DEF BrowserWritesPort
<1>4. /\ entry' = entry /\ child' = child /\ call' = call /\ port' = p /\ seen' = seen
      /\ child[p].state \in {"up", "closing"}
  BY DEF BrowserWritesPort
<1>5. /\ entry \in [pid : Pids \cup {NoPid}, cdp : Pids \cup {NoPid}] /\ seen \in BOOLEAN
      /\ entry = NoEntry \/ entry.pid \in Pids
      /\ child \in [Pids -> ChildRecords]
  BY <1>1 DEF Typed
<1>6. TypeInv' /\ FileInv'
  BY <1>2, <1>3, <1>4, <1>5, TypesAndFile
<1>7. OrderlyInv'
  <2>1. SUFFICES ASSUME Orderly PROVE BrowserInv'
    BY <1>2, ConditionsStay DEF OrderlyInv
  <2>2. BrowserInv /\ entry.pid = p
    BY <1>4, <2>1 DEF LauncherInv, OrderlyInv, BrowserInv
  <2>3. NoEntry' = NoEntry
    BY DEF NoEntry
  <2> QED BY <1>4, <2>2, <2>3 DEF BrowserInv
<1> QED BY <1>6, <1>7 DEF LauncherInv

(* The task of a browser that has ended: one session more is recorded, and   *)
(* one browser more is gone.                                                 *)
LEMMA TaskSessions ==
    ASSUME LauncherInv, NEW p \in Pids, TaskEnds(p)
    PROVE  /\ child' \in [Pids -> ChildRecords] /\ child'[p].state = "gone"
           /\ \A q \in Pids \ {p} :
                 \/ child'[q] = child[q]
                 \/ entry.pid = q /\ child[q].state = "up" /\ child'[q].state = "closing"
           /\ owned.sessions + 1 <= Cardinality(Closed')
           /\ Cardinality(Closed') \in 0 .. MaxPids
<1>1. Typed /\ owned.sessions <= Cardinality(Closed)
  BY DEF LauncherInv, TypeInv, Counted
<1> DEFINE kids == Dropped(entry, child)
           b == [kids[p] EXCEPT !.state = "gone"]
<1>2. child[p].state = "ended" /\ child' = [kids EXCEPT ![p] = b]
  BY DEF TaskEnds
<1>3. /\ kids \in [Pids -> ChildRecords]
      /\ \A q \in Pids :
            \/ kids[q] = child[q]
            \/ entry.pid = q /\ child[q].state = "up" /\ kids[q].state = "closing"
  <2>1. CASE entry = NoEntry \/ child[entry.pid].state # "up"
    BY <1>1, <2>1 DEF Dropped, Typed
  <2>2. CASE entry # NoEntry /\ child[entry.pid].state = "up"
    <3> DEFINE e == entry.pid
               r == [child[e] EXCEPT !.state = "closing"]
    <3>1. e \in Pids /\ child[e] \in ChildRecords /\ child \in [Pids -> ChildRecords]
      BY <1>1, <2>2 DEF Typed
    <3>2. r \in ChildRecords /\ r.state = "closing" /\ kids = [child EXCEPT ![e] = r]
      BY <2>2, <3>1 DEF ChildRecords, Dropped
    <3> HIDE DEF kids, r, e
    <3> QED BY <2>2, <3>1, <3>2 DEF e
  <2> QED BY <2>1, <2>2
<1> HIDE DEF kids
<1>4. b \in ChildRecords /\ b.state = "gone"
  BY <1>3 DEF ChildRecords
<1> HIDE DEF b
<1>5. /\ child' \in [Pids -> ChildRecords] /\ child'[p].state = "gone"
      /\ \A q \in Pids \ {p} :
            \/ child'[q] = child[q]
            \/ entry.pid = q /\ child[q].state = "up" /\ child'[q].state = "closing"
  BY <1>2, <1>3, <1>4
<1>6. \A q \in Pids : child[q].state = "gone" => child'[q].state = "gone"
  BY <1>2, <1>5
<1>7. child \in [Pids -> ChildRecords]
  BY <1>1 DEF Typed
<1>8. /\ IsFiniteSet(Closed) /\ IsFiniteSet(Closed')
      /\ Cardinality(Closed) \in Nat /\ Cardinality(Closed') \in Nat
      /\ Cardinality(Closed') <= MaxPids
  BY <1>5, <1>6, <1>7, ClosedGrows
<1>9. p \notin Closed /\ Closed' = Closed \cup {p}
  BY <1>2, <1>5, <1>6 DEF Closed
<1>10. Cardinality(Closed') = Cardinality(Closed) + 1
  BY <1>8, <1>9, FS_AddElement
<1>11. owned.sessions \in Nat /\ MaxPids \in Nat
  BY <1>1, NumbersTyped DEF Typed
<1>12. owned.sessions + 1 <= Cardinality(Closed') /\ Cardinality(Closed') \in 0 .. MaxPids
  BY <1>1, <1>8, <1>10, <1>11
<1> QED BY <1>5, <1>12

LEMMA TaskFile ==
    ASSUME LauncherInv, NEW p \in Pids, TaskEnds(p)
    PROVE  /\ file' \in Files /\ (file'.there => file.there) /\ file'.pinned = file.pinned
           /\ owned' \in [pin : BOOLEAN, folder : Folders, sessions : Nat, gone : BOOLEAN]
           /\ owned'.pin = owned.pin /\ owned.sessions <= owned'.sessions
           /\ owned'.sessions <= Cardinality(Closed') /\ file'.runtime <= owned'.sessions
           /\ file'.there \/ owned'.gone
           /\ ~owned'.gone => ~owned.gone
           /\ file'.there =>
                 file'.runtime = file.runtime + 1 /\ owned'.sessions = owned.sessions + 1
           /\ work.temporary => ~file'.there
           /\ port' \in {port, NoPid}
<1>1. /\ file \in Files /\ file.runtime <= owned.sessions /\ work \in WorkloadRecords
      /\ owned \in [pin : BOOLEAN, folder : Folders, sessions : Nat, gone : BOOLEAN]
      /\ (file.there \/ owned.gone) /\ MaxPids \in Nat
  BY NumbersTyped DEF LauncherInv, TypeInv, Typed, Counted, FileInv
<1>2. owned.sessions + 1 <= Cardinality(Closed') /\ Cardinality(Closed') \in 0 .. MaxPids
  BY TaskSessions
<1>3. /\ file' = Recorded(file) /\ port' = IF work.temporary THEN NoPid ELSE port
      /\ owned' = [owned EXCEPT !.gone = @ \/ work.temporary,
                        !.sessions = IF file.there /\ ~work.temporary THEN @ + 1 ELSE @]
  BY DEF TaskEnds
<1>4. /\ owned' \in [pin : BOOLEAN, folder : Folders, sessions : Nat, gone : BOOLEAN]
      /\ owned'.pin = owned.pin /\ (owned'.gone <=> owned.gone \/ work.temporary)
      /\ owned'.sessions = IF file.there /\ ~work.temporary THEN owned.sessions + 1 ELSE owned.sessions
  <2> DEFINE g == owned.gone \/ work.temporary
             n == IF file.there /\ ~work.temporary THEN owned.sessions + 1 ELSE owned.sessions
  <2>1. g \in BOOLEAN /\ n \in Nat
    BY <1>1
  <2>2. owned' = [owned EXCEPT !.gone = g, !.sessions = n]
    BY <1>1, <1>3
  <2> HIDE DEF g, n
  <2>3. /\ owned' \in [pin : BOOLEAN, folder : Folders, sessions : Nat, gone : BOOLEAN]
        /\ owned'.pin = owned.pin /\ owned'.gone = g /\ owned'.sessions = n
    BY <1>1, <2>1, <2>2
  <2> QED BY <2>3 DEF g, n
<1>5. CASE work.temporary
  <2>1. file' = [file EXCEPT !.there = FALSE]
    BY <1>3, <1>5 DEF Recorded
  <2>2. file' \in Files /\ ~file'.there /\ file'.pinned = file.pinned /\ file'.runtime = file.runtime
    BY <1>1, <2>1 DEF Files
  <2>3. owned'.sessions = owned.sessions /\ owned'.gone
    BY <1>4, <1>5
  <2>4. owned'.sessions <= Cardinality(Closed')
    BY <1>1, <1>2, <2>3
  <2> QED BY <1>1, <1>3, <1>4, <1>5, <2>2, <2>3, <2>4
<1>6. CASE ~work.temporary /\ file.there
  <2>1. file' = [file EXCEPT !.runtime = file.runtime + 1]
    BY <1>3, <1>6 DEF Recorded
  <2>2. file.runtime \in Nat /\ file.runtime + 1 \in 0 .. MaxPids
    BY <1>1, <1>2 DEF Files
  <2>3. /\ file' \in Files /\ file'.there /\ file'.pinned = file.pinned
        /\ file'.runtime = file.runtime + 1
    BY <1>1, <1>6, <2>1, <2>2 DEF Files
  <2>4. owned'.sessions = owned.sessions + 1 /\ (owned'.gone <=> owned.gone)
    BY <1>4, <1>6
  <2>5. owned.sessions <= owned'.sessions /\ file'.runtime <= owned'.sessions
    BY <1>1, <2>2, <2>3, <2>4
  <2> QED BY <1>2, <1>3, <1>4, <1>6, <2>3, <2>4, <2>5
<1>7. CASE ~work.temporary /\ ~file.there
  <2>1. file' = file /\ owned'.sessions = owned.sessions /\ (owned'.gone <=> owned.gone)
    BY <1>3, <1>4, <1>7 DEF Recorded
  <2>2. owned'.sessions <= Cardinality(Closed')
    BY <1>1, <1>2, <2>1
  <2> QED BY <1>1, <1>3, <1>4, <1>7, <2>1, <2>2
<1> QED BY <1>5, <1>6, <1>7

LEMMA TaskEndsKept ==
    ASSUME LauncherInv, NEW p \in Pids, TaskEnds(p)
    PROVE  LauncherInv'
<1>1. Typed /\ Tried /\ TypeInv /\ FileInv
  BY DEF LauncherInv, TypeInv
<1>2. WorkSame
  BY <1>1, WorkStays DEF TaskEnds
<1>3. /\ entry' = NoEntry /\ call' = call /\ seen' = seen /\ child[p].state = "ended"
      /\ work' = work
  BY DEF TaskEnds
<1>4. CallsOK
  BY <1>1, <1>3, CallsStay
<1>5. Typed'
  <2>1. /\ file' \in Files /\ port' \in {port, NoPid}
        /\ owned' \in [pin : BOOLEAN, folder : Folders, sessions : Nat, gone : BOOLEAN]
    BY TaskFile
  <2>2. child' \in [Pids -> ChildRecords]
    BY TaskSessions
  <2>3. NoEntry \in [pid : Pids \cup {NoPid}, cdp : Pids \cup {NoPid}]
    BY DEF NoEntry
  <2>4. port \in Pids \cup {NoPid} /\ call \in [Callers -> CallRecords] /\ seen \in BOOLEAN
    BY <1>1 DEF Typed
  <2>5. NoEntry' = NoEntry
    BY DEF NoEntry
  <2> QED BY <1>2, <1>3, <2>1, <2>2, <2>3, <2>4, <2>5 DEF Typed, WorkSame
<1>6. Counted'
  <2>1. owned'.sessions \in Nat
    BY TaskFile
  <2>2. \A c \in Callers : call'[c].copy.runtime <= owned'.sessions
    BY <1>1, <1>4, <2>1, TaskFile, CopiesCounted
  <2> QED BY <2>2, TaskFile DEF Counted
<1>7. Tried'
  BY <1>4 DEF CallsOK
<1>8. FileInv'
  <2>1. Edits' = Edits /\ work'.temporary = work.temporary
    BY <1>2, ConditionsStay DEF WorkSame
  <2>2. RuntimeCounted' /\ PinOwned'
    BY <1>1, <2>1, TaskFile DEF FileInv, RuntimeCounted, PinOwned
  <2>3. Edits' \/ \A c \in Callers : call'[c].at # "testing"
    BY <1>1, <1>3, <2>1 DEF FileInv
  <2>4. file'.there \/ owned'.gone
    BY TaskFile
  <2>5. work'.temporary => ~file'.there
    BY <2>1, TaskFile
  <2> QED BY <2>2, <2>3, <2>4, <2>5 DEF FileInv
<1>9. OrderlyInv'
  <2>1. SUFFICES ASSUME Orderly PROVE BrowserInv'
    BY <1>2, ConditionsStay DEF OrderlyInv
  <2>2. BrowserInv /\ entry.pid = p
    BY <1>3, <2>1 DEF LauncherInv, OrderlyInv, BrowserInv
  <2>3. /\ \A q \in Pids \ {p} : child'[q] = child[q]
        /\ child'[p].state = "gone"
    BY <2>2, TaskSessions
  <2>4. \A q \in Pids : child'[q].state \notin {"up", "closing", "ended"}
    BY <2>2, <2>3 DEF BrowserInv
  <2>5. entry'.cdp = NoPid /\ NoEntry' = NoEntry
    BY <1>3 DEF NoEntry
  <2> QED BY <1>3, <2>2, <2>4, <2>5 DEF BrowserInv
<1> QED BY <1>5, <1>6, <1>7, <1>8, <1>9 DEF LauncherInv, TypeInv

(* The application ends: its browsers live on, no command does.              *)
LEMMA RestartSteps ==
    ASSUME LauncherInv, Restart
    PROVE  LauncherInv'
<1>1. Typed /\ Tried /\ TypeInv /\ FileInv
  BY DEF LauncherInv, TypeInv
<1>2. WorkSame
  <2>1. work \in WorkloadRecords /\ work.crashes \in Nat /\ work.crashes > 0
        /\ work' = [work EXCEPT !.crashes = work.crashes - 1]
    BY <1>1 DEF Typed, WorkloadRecords, Restart
  <2>2. work.crashes - 1 \in Nat
    BY <2>1
  <2> QED BY <2>1, <2>2 DEF WorkSame, WorkloadRecords
<1>3. /\ entry' = NoEntry /\ seen' = FALSE /\ call' = [c \in Callers |-> Idle]
      /\ child' = [p \in Pids |->
           [child[p] EXCEPT !.state = CASE @ \in {"up", "closing"} -> "orphan"
                                        [] @ = "ended" -> "gone"
                                        [] OTHER -> @]]
  BY DEF Restart
<1>4. CallsOK
  BY <1>3, IdleTyped DEF CallsOK, Tried
<1>5. FileKept /\ port' \in {port, NoPid} /\ (work.temporary => ~file'.there)
  <2>1. CASE work.temporary
    <3>1. Gone
      BY <2>1 DEF Restart
    <3>2. ~file'.there
      BY <1>1, <3>1 DEF Gone, Typed, Files
    <3> QED BY <1>2, <3>1, <3>2, GoneKept
  <2>2. CASE ~work.temporary
    BY <1>1, <1>2, <2>2, FileStays DEF Restart
  <2> QED BY <2>1, <2>2
<1>6. /\ child' \in [Pids -> ChildRecords]
      /\ \A p \in Pids : child[p].state = "gone" => child'[p].state = "gone"
      /\ \A p \in Pids : child'[p].state \notin {"up", "closing", "ended"}
  <2> DEFINE s(p) == CASE child[p].state \in {"up", "closing"} -> "orphan"
                       [] child[p].state = "ended" -> "gone"
                       [] OTHER -> child[p].state
             r(p) == [child[p] EXCEPT !.state = s(p)]
  <2>1. ASSUME NEW p \in Pids
        PROVE  /\ s(p) \in {"none", "orphan", "gone"}
               /\ child[p].state = "gone" => s(p) = "gone"
    BY <1>1 DEF Typed, ChildRecords
  <2>2. child' = [p \in Pids |-> r(p)]
    BY <1>3
  <2> HIDE DEF s
  <2>3. ASSUME NEW p \in Pids PROVE r(p) \in ChildRecords /\ r(p).state = s(p)
    BY <1>1, <2>1 DEF Typed, ChildRecords
  <2> HIDE DEF r
  <2> QED BY <2>1, <2>2, <2>3
<1>7. port' \in Pids \cup {NoPid} /\ seen' \in BOOLEAN
      /\ NoEntry \in [pid : Pids \cup {NoPid}, cdp : Pids \cup {NoPid}]
  BY <1>1, <1>3, <1>5 DEF Typed, NoEntry
<1>8. TypeInv' /\ FileInv'
  <2>1. work.temporary \in BOOLEAN
    BY <1>1 DEF Typed, WorkloadRecords
  <2> QED BY <1>2, <1>3, <1>4, <1>5, <1>6, <1>7, <2>1, TypesAndFile
<1>9. OrderlyInv'
  <2>1. \A c \in Callers : call'[c].at = "idle"
    BY <1>3, IdleTyped
  <2>2. entry'.cdp = NoPid /\ NoEntry' = NoEntry
    BY <1>3 DEF NoEntry
  <2> QED BY <1>6, <2>1, <2>2 DEF OrderlyInv, BrowserInv
<1> QED BY <1>8, <1>9 DEF LauncherInv

-----------------------------------------------------------------------------
LEMMA StartsInvariant == Init => LauncherInv
<1> SUFFICES ASSUME Init PROVE LauncherInv
  OBVIOUS
<1>1. PICK f \in {"unfiled", "work"} :
        file = [there |-> TRUE, bound |-> Direct, folder |-> f, pinned |-> FALSE, runtime |-> 0]
  BY DEF Init
<1>2. /\ port = NoPid /\ entry = NoEntry /\ child = [p \in Pids |-> Unborn]
      /\ seen = FALSE /\ call = [c \in Callers |-> Idle] /\ work \in WorkloadRecords
      /\ owned = [pin |-> FALSE, folder |-> file.folder, sessions |-> 0, gone |-> FALSE]
  BY NumbersTyped DEF Init
<1>3. file \in Files /\ Unborn \in ChildRecords /\ Unborn.state = "none"
  BY <1>1, NumbersTyped DEF Files, Folders, Bindings, Unborn, ChildRecords
<1>4. Typed
  BY <1>2, <1>3, IdleTyped DEF Typed, NoEntry, Files
<1>5. Counted
  <2>1. Closed = {}
    BY <1>2, <1>3 DEF Closed
  <2>2. Cardinality(Closed) = 0
    BY <2>1, FS_EmptySet
  <2> QED BY <1>1, <1>2, <2>2, IdleTyped DEF Counted
<1>6. Tried
  BY <1>2, IdleTyped DEF Tried
<1>7. FileInv
  BY <1>1, <1>2, <1>3, IdleTyped DEF FileInv, RuntimeCounted, PinOwned
<1>8. OrderlyInv
  BY <1>2, <1>3, IdleTyped DEF OrderlyInv, BrowserInv, NoEntry
<1> QED BY <1>4, <1>5, <1>6, <1>7, <1>8 DEF LauncherInv, TypeInv

LEMMA StepsInvariant == LauncherInv /\ [Next]_vars => LauncherInv'
<1> SUFFICES ASSUME LauncherInv, [Next]_vars PROVE LauncherInv'
  OBVIOUS
<1>1. ASSUME NEW c \in Callers, CallerSteps(c) PROVE LauncherInv'
  <2>1. ASSUME NEW x \in Bindings, EditSaves(c, x) PROVE LauncherInv'
    BY <2>1, EditSteps
  <2>2. CASE LaunchSpawns(c)
    BY <2>2, SpawnSteps
  <2>3. CASE LaunchReads(c)
    BY <2>3, ReadSteps
  <2>4. CASE KeeperBinds(c) \/ KeeperErases(c)
    BY <2>4, KeeperFileSteps
  <2>5. CASE KeeperStops(c) \/ KeeperRetries(c)
    BY <2>5, KeeperWaitSteps
  <2>6. CASE KeeperLaunches(c)
    BY <2>6, KeeperLaunchSteps
  <2>7. CASE \/ LaunchFails(c) \/ LaunchTimesOut(c) \/ KeeperReuses(c) \/ KeeperFindsCdp(c)
             \/ KeeperGivesUp(c)
    BY <2>7, FailingSteps
  <2> QED BY <1>1, <2>1, <2>2, <2>3, <2>4, <2>5, <2>6, <2>7 DEF CallerSteps
<1>2. ASSUME NEW c \in Callers,
             \/ ApiStarts(c) \/ WindowStarts(c) \/ KeeperOpens(c) \/ KeeperDeletes(c)
             \/ EditLoads(c) \/ ImportCookies(c) \/ \E x \in Proxies : KeeperPrepares(c, x)
      PROVE  LauncherInv'
  BY <1>2, BeginningSteps
<1>3. ASSUME NEW p \in Pids, BrowserWritesPort(p) \/ BrowserExits(p) \/ TaskSteps(p)
      PROVE  LauncherInv'
  BY <1>3, PortSteps, BrowserEnds, TaskEndsKept DEF TaskSteps
<1>4. CASE \/ Kill \/ Poll \/ SetPin \/ Delete \/ DeleteFolder
           \/ \E x \in Bindings : Bind(x)
           \/ \E f \in Folders : SetFolder(f) \/ RenameFolder(f)
  BY <1>4, OperatorSteps
<1>5. CASE Restart
  BY <1>5, RestartSteps
<1>6. CASE UNCHANGED vars
  <2>1. Typed /\ Tried /\ TypeInv /\ FileInv
    BY DEF LauncherInv, TypeInv
  <2>2. WorkSame /\ CallsOK /\ PlacesKept /\ KidsKept(child') /\ FileKept
    BY <1>6, <2>1, WorkStays, CallsStay, ChildStays, FileStays DEF vars, PlacesKept
  <2>3. entry' = entry /\ port' \in {port, NoPid} /\ seen' \in BOOLEAN
    BY <1>6, <2>1 DEF vars, Typed
  <2> QED BY <2>2, <2>3, CommonSteps
<1> QED BY <1>1, <1>2, <1>3, <1>4, <1>5, <1>6 DEF Next

LEMMA LauncherInvariant == Spec => []LauncherInv
<1>1. Init => LauncherInv
  BY StartsInvariant
<1>2. LauncherInv /\ [Next]_vars => LauncherInv'
  BY StepsInvariant
<1> QED BY <1>1, <1>2, PTL DEF Spec

LEMMA FairIsSpec == FairSpec => Spec
BY PTL DEF FairSpec

(* Every variable has its type, and while commands come one after the other  *)
(* and only the Account Keeper launches, a browser keeps the tracker's entry, *)
(* its endpoint and its life until its own stop is asked for                 *)
(* (Tracker::track, set_cdp, kill of process.rs; prepare_profile_cdp).       *)
THEOREM BrowsersAreKept == FairSpec => []BrowserKept
<1>1. LauncherInv => BrowserKept
  <2> SUFFICES ASSUME LauncherInv PROVE BrowserKept
    OBVIOUS
  <2>1. TypeOK
    <3>1. Typed /\ owned.sessions <= Cardinality(Closed)
      BY DEF LauncherInv, TypeInv, Counted
    <3>2. Cardinality(Closed) \in Nat /\ Cardinality(Closed) <= MaxPids
      <4>1. IsFiniteSet(Pids) /\ Cardinality(Pids) = MaxPids
        BY NumbersTyped, FS_Interval DEF Pids
      <4>2. Closed \subseteq Pids
        BY DEF Closed
      <4>3. IsFiniteSet(Closed) /\ Cardinality(Closed) <= MaxPids
        BY <4>1, <4>2, FS_Subset
      <4> QED BY <4>3, FS_CardinalityType
    <3>3. owned.sessions \in 0 .. MaxPids
      BY <3>1, <3>2, NumbersTyped DEF Typed
    <3>4. owned \in [pin : BOOLEAN, folder : Folders, sessions : 0 .. MaxPids, gone : BOOLEAN]
      BY <3>1, <3>3 DEF Typed
    <3>5. work.commands \in Nat /\ work.crashes \in Nat
      BY <3>1 DEF Typed, WorkloadRecords
    <3> QED BY <3>1, <3>4, <3>5 DEF TypeOK, Typed, CallRecords, Places, ChildRecords
  <2>2. Tracked /\ StaysUp /\ EndpointFresh
    BY DEF LauncherInv, OrderlyInv, BrowserInv, Tracked, StaysUp, EndpointFresh
  <2> QED BY <2>1, <2>2 DEF BrowserKept
<1> QED BY <1>1, LauncherInvariant, FairIsSpec, PTL

(* What a profile's file says of its sessions and its pin is the tracker's   *)
(* and set_pin's, and a temporary profile that has been used is gone,        *)
(* whatever copies are saved over it (save_raw, add_runtime, set_pin of      *)
(* profile.rs).                                                              *)
THEOREM FileIsOwned == FairSpec => []FileOwned
<1>1. LauncherInv => FileOwned
  BY DEF LauncherInv, FileInv, FileOwned, TemporaryLeaves
<1> QED BY <1>1, LauncherInvariant, FairIsSpec, PTL

(* Nothing but an import marks a command as one.                             *)
LEMMA ImportsOnly ==
    ASSUME LauncherInv, Next, NEW c \in Callers, call'[c].cmd = "imported",
           call[c].cmd # "imported"
    PROVE  ImportCookies(c)
<1>1. Typed /\ Tried /\ call \in [Callers -> CallRecords]
  BY DEF LauncherInv, TypeInv, Typed
<1>2. NoPid \in Pids \cup {NoPid} /\ Endpoint \in Pids \cup {NoPid} /\ port \in Pids \cup {NoPid}
  BY <1>1, EndpointTyped DEF Typed
<1>3. Idle.cmd = "none" /\ Idle \in CallRecords
  BY IdleTyped
<1>4. ASSUME NEW d \in Callers, NEW r \in CallRecords, call' = [call EXCEPT ![d] = r],
             r.cmd # "imported" \/ r.cmd = call[d].cmd
      PROVE  FALSE
  BY <1>1, <1>4
<1>5. ASSUME NEW d \in Callers, NEW got \in Pids \cup {NoPid}, Returns(d, got) PROVE FALSE
  <2>1. call'[d].cmd = "none" /\ Others(d)
    BY <1>1, <1>5, ReturnsMoves
  <2> QED BY <2>1 DEF Others
<1>6. ASSUME NEW d \in Callers, NEW at \in {"reading", "cdpwait", "ready", "absent", "launching"},
             call' = [call EXCEPT ![d].at = at]
      PROVE  FALSE
  <2>1. call[d] \in CallRecords
    BY <1>1
  <2> DEFINE r == [call[d] EXCEPT !.at = at]
  <2>2. r \in CallRecords /\ r.cmd = call[d].cmd /\ call' = [call EXCEPT ![d] = r]
    BY <1>6, <2>1 DEF CallRecords, Places
  <2> HIDE DEF r
  <2> QED BY <1>4, <2>2
<1>7. ASSUME NEW d \in Callers, NEW x \in Bindings, EditSaves(d, x) PROVE FALSE
  BY <1>2, <1>5, <1>7 DEF EditSaves
<1>8. ASSUME NEW d \in Callers, CallerSteps(d) PROVE FALSE
  <2>1. CASE LaunchSpawns(d)
    BY <1>2, <1>5, <1>6, <2>1 DEF LaunchSpawns
  <2>2. CASE LaunchFails(d) \/ LaunchTimesOut(d)
    BY <1>2, <1>5, <1>6, <2>2 DEF LaunchFails, LaunchTimesOut
  <2>3. CASE LaunchReads(d) \/ KeeperReuses(d) \/ KeeperFindsCdp(d) \/ KeeperGivesUp(d) \/ KeeperErases(d)
    BY <1>2, <1>5, <2>3 DEF LaunchReads, KeeperReuses, KeeperFindsCdp, KeeperGivesUp, KeeperErases
  <2>4. CASE KeeperBinds(d)
    BY <1>2, <1>5, <1>6, <2>4 DEF KeeperBinds
  <2>5. CASE KeeperStops(d)
    BY <1>6, <2>5 DEF KeeperStops
  <2>6. CASE KeeperRetries(d)
    <3>1. call[d] \in CallRecords /\ call[d].tries + 1 \in 0 .. 2
      BY <1>1, <2>6 DEF CallRecords, KeeperRetries, Tried
    <3> DEFINE n == call[d].tries + 1
               r == [call[d] EXCEPT !.at = "absent", !.tries = n]
    <3>2. call' = [call EXCEPT ![d] = r]
      BY <1>1, <2>6, <3>1 DEF KeeperRetries, CallRecords
    <3> HIDE DEF n
    <3>3. r \in CallRecords /\ r.cmd = call[d].cmd
      BY <3>1 DEF CallRecords, Places, n
    <3> HIDE DEF r
    <3> QED BY <1>4, <3>2, <3>3
  <2>7. CASE KeeperLaunches(d)
    <3> DEFINE at == IF file.there THEN "launching" ELSE "cdpwait"
               r == [call[d] EXCEPT !.copy = file, !.at = at]
    <3>1. call[d] \in CallRecords /\ at \in {"launching", "cdpwait"} /\ file \in Files
      BY <1>1 DEF Typed
    <3>2. call' = [call EXCEPT ![d] = r]
      BY <1>1, <2>7 DEF KeeperLaunches
    <3> HIDE DEF at
    <3>3. r \in CallRecords /\ r.cmd = call[d].cmd
      BY <3>1 DEF CallRecords, Places
    <3> HIDE DEF r
    <3> QED BY <1>4, <3>2, <3>3
  <2> QED BY <1>7, <1>8, <2>1, <2>2, <2>3, <2>4, <2>5, <2>6, <2>7 DEF CallerSteps
<1>9. ASSUME NEW d \in Callers, NEW at \in Places, NEW cdp \in BOOLEAN,
             NEW cmd \in {"start", "launch", "open", "keeper_delete", "edit"},
             Begins(d, at, cmd, cdp)
      PROVE  FALSE
  <2> DEFINE r == [Idle EXCEPT !.at = at, !.cmd = cmd, !.cdp = cdp, !.copy = file]
  <2>1. r \in CallRecords /\ r.cmd = cmd
    BY <1>1, <1>3 DEF CallRecords, Typed
  <2>2. call' = [call EXCEPT ![d] = r]
    BY <1>9 DEF Begins
  <2> HIDE DEF r
  <2> QED BY <1>4, <2>1, <2>2
<1>10. ASSUME NEW d \in Callers,
              \/ ApiStarts(d) \/ WindowStarts(d) \/ KeeperOpens(d) \/ KeeperDeletes(d) \/ EditLoads(d)
       PROVE  FALSE
  <2>1. /\ "launching" \in Places /\ "deleting" \in Places /\ "testing" \in Places
    BY DEF Places
  <2> QED BY <1>9, <1>10, <2>1 DEF ApiStarts, WindowStarts, KeeperOpens, LaunchLoads, KeeperDeletes, EditLoads
<1>11. ASSUME NEW d \in Callers, NEW x \in Proxies, KeeperPrepares(d, x) PROVE FALSE
  <2> DEFINE at == CASE file.bound = x -> "ready"
                     [] file.bound # x /\ IsRunning -> "unbinding"
                     [] OTHER -> "binding"
             r == [Idle EXCEPT !.cmd = "prepare", !.cdp = TRUE, !.want = x, !.at = at]
  <2>1. at \in {"ready", "unbinding", "binding"} /\ x \in Bindings
    BY DEF Bindings
  <2>2. call' = [call EXCEPT ![d] = r]
    BY <1>11 DEF KeeperPrepares
  <2> HIDE DEF at
  <2>3. r \in CallRecords /\ r.cmd = "prepare"
    BY <1>3, <2>1 DEF CallRecords, Places
  <2> HIDE DEF r
  <2> QED BY <1>4, <2>2, <2>3
<1>12. ASSUME NEW d \in Callers, ImportCookies(d), d # c PROVE FALSE
  BY <1>1, <1>12 DEF ImportCookies
<1>13. call' # call
  OBVIOUS
<1>14. ASSUME NEW p \in Pids, BrowserWritesPort(p) \/ BrowserExits(p) \/ TaskSteps(p) PROVE FALSE
  BY <1>13, <1>14 DEF BrowserWritesPort, BrowserExits, TaskSteps, BrowserCloses, TaskEnds
<1>15. ASSUME Restart PROVE FALSE
  BY <1>3, <1>15 DEF Restart
<1>16. ASSUME \/ Kill \/ Poll \/ SetPin \/ Delete \/ DeleteFolder
              \/ \E x \in Bindings : Bind(x)
              \/ \E f \in Folders : SetFolder(f) \/ RenameFolder(f)
       PROVE  FALSE
  BY <1>13, <1>16 DEF Kill, Poll, SetPin, Delete, DeleteFolder, Bind, SetFolder, RenameFolder
<1> QED BY <1>8, <1>10, <1>11, <1>12, <1>14, <1>15, <1>16 DEF Next

(* While commands come one after the other and only the Account Keeper       *)
(* launches, cookies are imported only while no browser of the profile runs  *)
(* (cookies_import asks the tracker).                                        *)
THEOREM ImportsAreAlone == FairSpec => ImportsAlone
<1>1. ASSUME LauncherInv, [Next]_vars, Orderly, NEW c \in Callers,
             call'[c].cmd = "imported", call[c].cmd # "imported"
      PROVE  \A p \in Pids : child[p].state \notin {"up", "closing"}
  <2>1. ImportCookies(c)
    <3>1. Next
      BY <1>1 DEF vars
    <3> QED BY <1>1, <3>1, ImportsOnly
  <2>2. entry = NoEntry /\ BrowserInv
    BY <1>1, <2>1 DEF ImportCookies, LauncherInv, OrderlyInv
  <2> QED BY <2>2 DEF BrowserInv, NoEntry, NoPid, Pids
<1>2. LauncherInv /\ [Next]_vars =>
        [Orderly => \A c \in Callers : call'[c].cmd = "imported" /\ call[c].cmd # "imported" =>
           \A p \in Pids : child[p].state \notin {"up", "closing"}]_vars
  BY <1>1
<1> QED BY <1>2, LauncherInvariant, FairIsSpec, PTL DEF Spec, ImportsAlone
=============================================================================
