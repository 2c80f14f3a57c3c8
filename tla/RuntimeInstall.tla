--------------------------- MODULE RuntimeInstall ---------------------------
(***************************************************************************)
(* The browser runtime: runtime_install and runtime_status of runtime.rs,    *)
(* the window's gate that calls them at its start (App.tsx), and the forced  *)
(* reinstallation inside the launch command (lib.rs).                        *)
(*                                                                           *)
(* An installation fetches up to three archives, each through a temporary    *)
(* file of a fixed name, extracts it over what is there, and records the     *)
(* etags of all three in manifest.json at its end.  The archives of one      *)
(* publication have one version.                                             *)
(***************************************************************************)
EXTENDS Naturals, FiniteSets

CONSTANTS
    Launches,       \* launch commands at once
    MaxVersion,     \* bound: publications
    Workloads       \* what the user and the system do in one behaviour

(* Whether there are launches, from a browser that is there and damaged;     *)
(* whether the user may empty the fingerprint library; whether downloads and *)
(* extractions may fail; and the bounds: ends of the application, and acts   *)
(* of the user on the library.                                               *)
WorkloadRecords == [launches : BOOLEAN, empties : BOOLEAN, fails : BOOLEAN,
                    restarts : Nat, edits : Nat]

(* The window's own installation.                                            *)
Gate == "gate"

ASSUME RuntimeInstallAssumption ==
    MaxVersion \in Nat \ {0} /\ Workloads \subseteq WorkloadRecords /\ Gate \notin Launches

Jobs == Launches \cup {Gate}
Archives == {"browser", "widevine", "library"}
Versions == 1 .. MaxVersion
NoEtag == 0

VARIABLES
    remote,     \* the version published
    tree,       \* the extracted browser
    library,    \* one fingerprint of the bundled library, in the user's directory
    stamp,      \* manifest.json
    tmp,        \* Archives -> the temporary file
    job,        \* Jobs -> the installation under way
    gate,       \* the window: "closed", "in", "error"
    left        \* a workload, and what is left of its bounds

vars == <<remote, tree, library, stamp, tmp, job, gate, left>>

-----------------------------------------------------------------------------
NoStamp == [a \in Archives |-> NoEtag]

Rest == [at |-> "idle", of |-> "browser", force |-> FALSE, local |-> NoStamp, etag |-> NoStamp, all |-> FALSE]

(* installed, fingerprints_installed.                                        *)
Installed == tree.binary
LibraryInstalled == stamp["library"] # NoEtag /\ library # "absent"

(* runtime_has_bad_branding_patch looks at one file of the tree.             *)
Init ==
    /\ remote = 1 /\ gate = "closed"
    /\ tmp = [a \in Archives |-> "none"] /\ job = [j \in Jobs |-> Rest]
    /\ left \in Workloads
    /\ \/ /\ tree = [binary |-> FALSE, whole |-> FALSE, bad |-> FALSE, version |-> NoEtag]
          /\ stamp = NoStamp /\ library = "absent"
       \/ /\ left.launches /\ stamp = [a \in Archives |-> 1] /\ library = "bundled"
          /\ tree = [binary |-> TRUE, whole |-> TRUE, bad |-> TRUE, version |-> 1]

Publish ==
    /\ remote < MaxVersion /\ remote' = remote + 1
    /\ UNCHANGED <<tree, library, stamp, tmp, job, gate, left>>

(* The user edits the library's file, or empties the directory.              *)
Edit ==
    /\ left.edits > 0 /\ left' = [left EXCEPT !.edits = @ - 1]
    /\ \/ library' = "edited"
       \/ left.empties /\ library' = "absent"
    /\ UNCHANGED <<remote, tree, stamp, tmp, job, gate>>

-----------------------------------------------------------------------------
(* Who installs.  A job reads the manifest and the disk once, at its start.  *)

Starts(j, force) ==
    job' = [job EXCEPT ![j] =
        [Rest EXCEPT !.at = "deciding", !.force = force, !.local = stamp,
                     !.all = force \/ ~Installed]]

GateOpens ==
    /\ gate = "closed" /\ job[Gate].at = "idle" /\ Installed /\ LibraryInstalled
    /\ gate' = "in"
    /\ UNCHANGED <<remote, tree, library, stamp, tmp, job, left>>

GateInstalls ==
    /\ gate = "closed" /\ job[Gate].at = "idle" /\ ~(Installed /\ LibraryInstalled)
    /\ Starts(Gate, FALSE)
    /\ UNCHANGED <<remote, tree, library, stamp, tmp, gate, left>>

(* Mutant: a damaged runtime is installed again only when a newer one is     *)
(* published.                                                                *)
LaunchInstalls_Unforced(j) ==
    /\ left.launches /\ gate = "in" /\ job[j].at = "idle" /\ tree.bad /\ Starts(j, FALSE)
    /\ UNCHANGED <<remote, tree, library, stamp, tmp, gate, left>>

(* launch: a damaged runtime is installed again, whatever its stamp says.    *)
LaunchInstalls(j) ==
    /\ left.launches /\ gate = "in" /\ job[j].at = "idle" /\ tree.bad /\ Starts(j, TRUE)
    /\ UNCHANGED <<remote, tree, library, stamp, tmp, gate, left>>

LaunchRuns(j) ==
    /\ left.launches /\ gate = "in" /\ Installed
    /\ job[j].at = "launching" \/ (job[j].at = "idle" /\ ~tree.bad)
    /\ job' = [job EXCEPT ![j] = [Rest EXCEPT !.at = "launched"]]
    /\ UNCHANGED <<remote, tree, library, stamp, tmp, gate, left>>

LaunchReturns(j) ==
    /\ job[j].at = "launched" /\ job' = [job EXCEPT ![j] = Rest]
    /\ UNCHANGED <<remote, tree, library, stamp, tmp, gate, left>>

-----------------------------------------------------------------------------
(* One installation.                                                         *)

Is(j, at, a) == job[j].at = at /\ job[j].of = a

Goes(j, at) == job' = [job EXCEPT ![j].at = at]

Fetches(j, a) == job' = [job EXCEPT ![j].at = "fetching", ![j].of = a]

(* The browser is fetched unless its etag is the published one; Widevine     *)
(* with it, or without a stamp.                                              *)
AfterBrowser(j) == IF job[j].all \/ job[j].local["widevine"] = NoEtag
                   THEN "widevine" ELSE "library"

Decides(j) ==
    /\ job[j].at = "deciding"
    /\ LET all == job[j].all \/ job[j].local["browser"] # remote IN
       job' = [job EXCEPT
           ![j].all = all,
           ![j].etag = job[j].local,
           ![j].at = "fetching",
           ![j].of = IF all THEN "browser"
                     ELSE IF job[j].local["widevine"] = NoEtag THEN "widevine" ELSE "library"]
    /\ UNCHANGED <<remote, tree, library, stamp, tmp, gate, left>>

(* The library is fetched unless its etag is the published one; when that    *)
(* cannot be asked, it is.                                                   *)
LibraryIsCurrent(j) ==
    /\ Is(j, "fetching", "library") /\ ~job[j].force /\ job[j].local["library"] = remote
    /\ Goes(j, "saving")
    /\ UNCHANGED <<remote, tree, library, stamp, tmp, gate, left>>

(* The temporary file is truncated, whoever else writes or extracts it.      *)
Downloads(j, a) ==
    /\ Is(j, "fetching", a)
    /\ a = "library" => job[j].force \/ job[j].local[a] # remote \/ left.fails
    /\ tmp' = [tmp EXCEPT ![a] = "part"]
    /\ job' = [job EXCEPT ![j].at = "writing", ![j].etag[a] = remote]
    /\ UNCHANGED <<remote, tree, library, stamp, gate, left>>

Alone(j) == \A k \in Jobs \ {j} : ~Is(k, job[j].at, job[j].of)

Downloaded(j, a) ==
    /\ Is(j, "writing", a)
    /\ tmp' = [tmp EXCEPT ![a] = IF Alone(j) THEN "full" ELSE "part"]
    /\ Goes(j, "opening")
    /\ UNCHANGED <<remote, tree, library, stamp, gate, left>>

(* A truncated archive cannot be opened.  While the browser's is extracted   *)
(* the tree is neither the old nor the new one, the executable and the       *)
(* library that is checked for damage among its first files or its last.     *)
Opens(j, a) ==
    /\ Is(j, "opening", a) /\ tmp[a] = "full"
    /\ Goes(j, "extracting")
    /\ IF a = "browser"
       THEN \E binary \in {tree.binary, TRUE}, bad \in {tree.bad, FALSE} :
                tree' = [tree EXCEPT !.binary = binary, !.whole = FALSE, !.bad = bad]
       ELSE UNCHANGED tree
    /\ UNCHANGED <<remote, library, stamp, tmp, gate, left>>

(* Mutant: a seed that overwrites.                                           *)
Seeded_Over(j) == "bundled"

Seeded(j) == IF library = "edited" /\ ~job[j].force THEN library ELSE "bundled"

Extracted(j, a) ==
    /\ Is(j, "extracting", a) /\ tmp[a] = "full"
    /\ tmp' = [tmp EXCEPT ![a] = "none"]
    /\ CASE a = "browser" ->
              /\ tree' = [tree EXCEPT !.binary = TRUE, !.bad = FALSE,
                              !.whole = Alone(j),
                              !.version = job[j].etag[a]]
              /\ Fetches(j, AfterBrowser(j)) /\ UNCHANGED library
         [] a = "widevine" -> Fetches(j, "library") /\ UNCHANGED <<tree, library>>
         [] a = "library" -> Goes(j, "saving") /\ library' = Seeded(j) /\ UNCHANGED tree
    /\ UNCHANGED <<remote, stamp, gate, left>>

(* The manifest is written in place.                                         *)
Saved(j) == job[j].etag

Saves(j) ==
    /\ job[j].at = "saving" /\ stamp' = Saved(j)
    /\ IF j = Gate THEN gate' = "in" /\ job' = [job EXCEPT ![j] = Rest]
       ELSE Goes(j, "launching") /\ UNCHANGED gate
    /\ UNCHANGED <<remote, tree, library, tmp, left>>

Fails(j) ==
    /\ \/ /\ left.fails
          /\ job[j].at \in {"deciding", "fetching", "writing", "extracting"}
       \/ job[j].at \in {"opening", "extracting"} /\ tmp[job[j].of] # "full"
    /\ job' = [job EXCEPT ![j] = Rest]
    /\ gate' = IF j = Gate THEN "error" ELSE gate
    /\ UNCHANGED <<remote, tree, library, stamp, tmp, left>>

(* The application ends, at any step, and is started again.                  *)
(* Mutant: an unreadable manifest is taken for the published one.            *)
Torn_Trusted == [a \in Archives |-> remote]

Torn == NoStamp

Restart ==
    /\ left.restarts > 0 /\ left' = [left EXCEPT !.restarts = @ - 1]
    /\ \/ UNCHANGED stamp
       \/ (\E j \in Jobs : job[j].at = "saving") /\ stamp' = Torn
    /\ job' = [j \in Jobs |-> Rest] /\ gate' = "closed"
    /\ UNCHANGED <<remote, tree, library, tmp>>

-----------------------------------------------------------------------------
Next ==
    \/ Publish \/ Edit \/ GateOpens \/ GateInstalls \/ Restart
    \/ \E j \in Launches : LaunchInstalls(j) \/ LaunchRuns(j) \/ LaunchReturns(j)
    \/ \E j \in Jobs :
           \/ Decides(j) \/ LibraryIsCurrent(j) \/ Saves(j) \/ Fails(j)
           \/ \E a \in Archives : Downloads(j, a) \/ Downloaded(j, a) \/ Opens(j, a)
                                      \/ Extracted(j, a)

Spec == Init /\ [][Next]_vars

-----------------------------------------------------------------------------
(* Properties.                                                               *)

(* Every variable has its type, and the manifest names all three archives or  *)
(* none of them (runtime_install writes it once, at its end).                 *)
TypeOK ==
    /\ \A a \in Archives : stamp[a] = NoEtag => stamp = NoStamp
    /\ remote \in Versions /\ library \in {"absent", "bundled", "edited"}
    /\ tree \in [binary : BOOLEAN, whole : BOOLEAN, bad : BOOLEAN, version : Versions \cup {NoEtag}]
    /\ stamp \in [Archives -> Versions \cup {NoEtag}]
    /\ tmp \in [Archives -> {"none", "part", "full"}] /\ gate \in {"closed", "in", "error"}
    /\ \A j \in Jobs :
           /\ job[j].at \in {"idle", "deciding", "fetching", "writing", "opening", "extracting",
                              "saving", "launching", "launched"}
           /\ job[j].of \in Archives
           /\ job[j].force \in BOOLEAN /\ job[j].all \in BOOLEAN
           /\ job[j].local \in [Archives -> Versions \cup {NoEtag}]
           /\ job[j].etag \in [Archives -> Versions \cup {NoEtag}]

(* The window lets the user in with a browser that is there as a whole,      *)
(* however often its installation was interrupted (runtime_status, App.tsx). *)
GateWhole == gate = "in" /\ (\A j \in Jobs : job[j].at = "idle") => tree.whole

(* The stamp that stops a browser from being fetched again is that of the    *)
(* whole tree on the disk (runtime_install: the etag is recorded last).      *)
StampWhole ==
    stamp["browser"] = remote /\ (\A j \in Jobs : job[j].at = "idle")
        => tree.whole /\ tree.version = remote

(* The additive seed keeps what the user has edited (install_fingerprints).  *)
EditsKept ==
    [][library = "edited" /\ left' = left => \/ library' = "edited"
                                            \/ \E j \in Jobs : job[j].force]_vars

(* A browser is launched from a whole tree: a damaged one has been replaced  *)
(* by a clean one before (launch).                                           *)
LaunchWhole ==
    [][\A j \in Launches :
           job'[j].at = "launched" /\ job[j].at # "launched" => tree.whole /\ ~tree.bad]_vars

(* Unless the user has emptied it, the window lets the user in with a        *)
(* fingerprint library ("Need both browser AND fingerprints installed").     *)
GateHasLibrary == [][~left.empties /\ gate # "in" /\ gate' = "in" => library # "absent"]_vars

(* Every variable has its type, and neither the gate nor the manifest vouches *)
(* for a part of a browser (runtime_status, runtime_install).                *)
InstalledWhole == TypeOK /\ GateWhole /\ StampWhole

(* An installation gives the user a fingerprint library and keeps the edited  *)
(* one (install_fingerprints, App.tsx).                                      *)
LibraryKept == EditsKept /\ GateHasLibrary
=============================================================================
