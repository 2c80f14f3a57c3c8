------------------------ MODULE RuntimeInstallProofs -------------------------
(***************************************************************************)
(* Theorems about RuntimeInstall, for any number of publications, launches,  *)
(* acts of the user and ends of the application.                            *)
(*                                                                           *)
(* Nothing marks a half extracted tree.  That the window and the manifest   *)
(* still vouch for whole browsers only rests on what an installation knows  *)
(* of the tree at each of its places (Fits) and on one installation at a    *)
(* time (OneAtWork).                                                        *)
(***************************************************************************)
EXTENDS RuntimeInstall, TLAPS

Etags == Versions \cup {NoEtag}

JobRecords ==
    [at : {"idle", "deciding", "fetching", "writing", "opening", "extracting", "saving",
           "launching", "launched"},
     of : Archives, force : BOOLEAN, local : [Archives -> Etags], etag : [Archives -> Etags],
     all : BOOLEAN]

Trees == [binary : BOOLEAN, whole : BOOLEAN, bad : BOOLEAN, version : Etags]

Typed ==
    /\ remote \in Versions /\ library \in {"absent", "bundled", "edited"} /\ tree \in Trees
    /\ stamp \in [Archives -> Etags] /\ tmp \in [Archives -> {"none", "part", "full"}]
    /\ gate \in {"closed", "in", "error"} /\ job \in [Jobs -> JobRecords]
    /\ left \in WorkloadRecords

(* Unless the user empties it, whoever counts on the library finds it.       *)
Counted ==
    ~left.empties =>
        /\ stamp["library"] # NoEtag => library # "absent"
        /\ \A j \in Jobs : job[j].local["library"] # NoEtag \/ job[j].at = "saving" =>
               library # "absent"

LibraryInv == Typed /\ Counted

(* One launch at a time, and it neither fails nor is ended; or no launch, and *)
(* a user who does not empty the library.                                    *)
Steady(w) ==
    \/ ~w.launches /\ ~w.empties
    \/ w.launches /\ ~w.fails /\ w.restarts = 0 /\ \A j, k \in Launches : j = k

Work == {"deciding", "fetching", "writing", "opening", "extracting", "saving"}

Good(t, version) == t.whole /\ t.binary /\ t.version = version

(* What an installation has brought about at its place.                      *)
Fits(r, s, t, files) ==
    /\ r.at \in Work => r.local = s
    /\ r.at = "deciding" /\ s # NoStamp => Good(t, s["browser"])
    /\ r.at \in Work \ {"deciding"} =>
          /\ r.of = "browser" => r.all
          /\ r.of # "browser" => /\ r.etag["browser"] # NoEtag /\ Good(t, r.etag["browser"])
                                 /\ r.all => ~t.bad
          /\ r.of = "library" => r.etag["widevine"] # NoEtag
          /\ r.of # "library" \/ r.at = "fetching" => r.etag["library"] = r.local["library"]
    /\ r.at \in {"writing", "opening", "extracting"} => r.etag[r.of] # NoEtag
    /\ r.at = "saving" => r.of = "library" /\ r.etag["library"] # NoEtag
    /\ r.at \in {"opening", "extracting"} => files[r.of] = "full"

Stamped == \A a \in Archives : stamp[a] = NoEtag => stamp = NoStamp

OneAtWork == \A j, k \in Jobs : job[j].at # "idle" /\ job[k].at # "idle" => j = k

Places ==
    /\ gate = "in" => job[Gate].at = "idle" /\ stamp # NoStamp
    /\ job[Gate].at \in Work \cup {"idle"}
    /\ \A j \in Launches : job[j].at # "idle" => gate = "in" /\ left.launches
    /\ \A j \in Launches : job[j].at \in Work => job[j].all
    /\ \A j \in Launches : job[j].at = "launching" => ~tree.bad

(* Between installations, a manifest is that of the tree.                    *)
Vouched ==
    (\A j \in Jobs : job[j].at \notin Work) /\ stamp # NoStamp => Good(tree, stamp["browser"])

FirstOne == ~left.launches /\ (\E j \in Jobs : job[j].at \in Work) => stamp = NoStamp

Whole ==
    /\ Steady(left) /\ Stamped /\ OneAtWork /\ Places /\ Vouched /\ FirstOne
    /\ \A j \in Jobs : Fits(job[j], stamp, tree, tmp)

WholeInv == LibraryInv /\ Whole

-----------------------------------------------------------------------------
(* What each step leaves of the installation that takes it.                  *)

LEMMA NumbersTyped ==
    /\ MaxVersion \in Nat /\ MaxVersion >= 1 /\ Workloads \subseteq WorkloadRecords
    /\ Gate \notin Launches /\ Gate \in Jobs /\ Launches \subseteq Jobs
    /\ Jobs = Launches \cup {Gate} /\ NoEtag \notin Versions /\ 1 \in Versions
BY RuntimeInstallAssumption DEF Jobs, Versions, NoEtag

LEMMA RestTyped ==
    /\ Rest \in JobRecords /\ Rest.at = "idle" /\ NoStamp \in [Archives -> Etags]
    /\ \A a \in Archives : Rest.local[a] = NoEtag /\ NoStamp[a] = NoEtag
BY DEF Rest, NoStamp, JobRecords, Archives, Etags

Moved(j, r) == j \in Jobs /\ r \in JobRecords /\ job' = [job EXCEPT ![j] = r]

LEMMA Moves ==
    ASSUME Typed, NEW j, NEW r, Moved(j, r)
    PROVE  /\ j \in Jobs /\ r \in JobRecords /\ job' \in [Jobs -> JobRecords] /\ job'[j] = r
           /\ \A k \in Jobs \ {j} : job'[k] = job[k]
BY DEF Typed, Moved

(* The installation begins.                                                  *)
Begun(r, force) ==
    /\ r.at = "deciding" /\ r.force = force /\ r.local = stamp /\ (r.all <=> force \/ ~tree.binary)

LEMMA StartsMoves ==
    ASSUME Typed, NEW j \in Jobs, NEW force \in BOOLEAN, Starts(j, force)
    PROVE  \E r : Moved(j, r) /\ Begun(r, force)
<1> DEFINE all == force \/ ~Installed
           r == [Rest EXCEPT !.at = "deciding", !.force = force, !.local = stamp, !.all = all]
<1>1. stamp \in [Archives -> Etags] /\ (all <=> force \/ ~tree.binary) /\ all \in BOOLEAN
  BY DEF Typed, Installed
<1> HIDE DEF all
<1>2. r \in JobRecords /\ r.at = "deciding" /\ r.force = force /\ r.local = stamp /\ r.all = all
  BY <1>1, RestTyped DEF JobRecords
<1>3. job' = [job EXCEPT ![j] = r]
  BY DEF Starts, all
<1> HIDE DEF r
<1>4. Moved(j, r) /\ Begun(r, force)
  BY <1>1, <1>2, <1>3 DEF Moved, Begun
<1> QED BY <1>4

(* What the manifest says decides what is fetched first.                     *)
Decided(j, r) ==
    /\ job[j].at = "deciding" /\ r.at = "fetching" /\ r.force = job[j].force
    /\ r.local = job[j].local /\ r.etag = job[j].local
    /\ r.all <=> job[j].all \/ job[j].local["browser"] # remote
    /\ r.all => r.of = "browser"
    /\ ~r.all /\ job[j].local["widevine"] = NoEtag => r.of = "widevine"
    /\ ~r.all /\ job[j].local["widevine"] # NoEtag => r.of = "library"
    /\ UNCHANGED <<remote, tree, library, stamp, tmp, gate, left>>

LEMMA DecidesMoves ==
    ASSUME Typed, NEW j \in Jobs, Decides(j)
    PROVE  \E r : Moved(j, r) /\ Decided(j, r)
<1> DEFINE k == job[j]
           all == k.all \/ k.local["browser"] # remote
           of == IF all THEN "browser" ELSE IF k.local["widevine"] = NoEtag THEN "widevine" ELSE "library"
           r == [k EXCEPT !.all = all, !.etag = k.local, !.at = "fetching", !.of = of]
<1>1. k \in JobRecords /\ all \in BOOLEAN /\ of \in Archives
  BY DEF Typed, JobRecords, Archives
<1>2. job' = [job EXCEPT ![j] = r]
  BY DEF Decides, Typed
<1>3. /\ all => of = "browser"
      /\ ~all /\ k.local["widevine"] = NoEtag => of = "widevine"
      /\ ~all /\ k.local["widevine"] # NoEtag => of = "library"
      /\ all <=> k.all \/ k.local["browser"] # remote
  OBVIOUS
<1> HIDE DEF all, of
<1>4. /\ r \in JobRecords /\ r.at = "fetching" /\ r.force = k.force /\ r.local = k.local
      /\ r.etag = k.local /\ r.all = all /\ r.of = of
  BY <1>1 DEF JobRecords
<1> HIDE DEF r
<1>5. Moved(j, r) /\ Decided(j, r)
  BY <1>2, <1>3, <1>4 DEF Moved, Decided, Decides
<1> QED BY <1>5

(* The installation goes on with an archive and a place of its own.           *)
Follows(j, r, at, of) ==
    r.at = at /\ r.of = of /\ r.force = job[j].force /\ r.local = job[j].local /\ r.all = job[j].all

LEMMA GoesMoves ==
    ASSUME Typed, NEW j \in Jobs, NEW of \in Archives,
           NEW at \in {"fetching", "writing", "opening", "extracting", "saving", "launching"},
           job' = [job EXCEPT ![j].at = at, ![j].of = of]
    PROVE  \E r : Moved(j, r) /\ Follows(j, r, at, of) /\ r.etag = job[j].etag
<1> DEFINE r == [job[j] EXCEPT !.at = at, !.of = of]
<1>1. job[j] \in JobRecords /\ job' = [job EXCEPT ![j] = r]
  BY DEF Typed
<1>2. r \in JobRecords /\ Follows(j, r, at, of) /\ r.etag = job[j].etag
  BY <1>1 DEF JobRecords, Follows
<1>3. Moved(j, r)
  BY <1>1, <1>2 DEF Moved
<1> QED BY <1>2, <1>3

LEMMA GoesOnMoves ==
    ASSUME Typed, NEW j \in Jobs,
           NEW at \in {"fetching", "writing", "opening", "extracting", "saving", "launching"},
           Goes(j, at)
    PROVE  \E r : Moved(j, r) /\ Follows(j, r, at, job[j].of) /\ r.etag = job[j].etag
<1>1. job[j].of \in Archives /\ job[j] \in JobRecords
  BY DEF Typed, JobRecords
<1>2. job' = [job EXCEPT ![j].at = at, ![j].of = job[j].of]
  BY <1>1 DEF Goes, Typed, JobRecords
<1> QED BY <1>1, <1>2, GoesMoves

(* The temporary file is begun, and the etag of its archive noted.           *)
Noted(j, r, a) ==
    /\ Follows(j, r, "writing", a) /\ job[j].at = "fetching" /\ job[j].of = a
    /\ r.etag = [job[j].etag EXCEPT ![a] = remote]

LEMMA DownloadsMoves ==
    ASSUME Typed, NEW j \in Jobs, NEW a \in Archives, Downloads(j, a)
    PROVE  \E r : Moved(j, r) /\ Noted(j, r, a)
<1> DEFINE e == [job[j].etag EXCEPT ![a] = remote]
           r == [job[j] EXCEPT !.at = "writing", !.etag = e]
<1>1. /\ job[j] \in JobRecords /\ job' = [job EXCEPT ![j] = r] /\ remote \in Etags
      /\ job[j].at = "fetching" /\ job[j].of = a
  BY DEF Typed, Downloads, Is, Etags
<1>2. e \in [Archives -> Etags]
  BY <1>1 DEF JobRecords
<1> HIDE DEF e
<1>3. /\ r \in JobRecords /\ Follows(j, r, "writing", a) /\ r.etag = e
  BY <1>1, <1>2 DEF JobRecords, Follows
<1>4. Moved(j, r)
  BY <1>1, <1>3 DEF Moved
<1> QED BY <1>1, <1>3, <1>4 DEF Noted, e

LEMMA DownloadedMoves ==
    ASSUME Typed, NEW j \in Jobs, NEW a \in Archives, Downloaded(j, a)
    PROVE  \E r : Moved(j, r) /\ Follows(j, r, "opening", a) /\ r.etag = job[j].etag
<1>1. job[j].of = a /\ Goes(j, "opening")
  BY DEF Downloaded, Is
<1> QED BY <1>1, GoesOnMoves

LEMMA OpensMoves ==
    ASSUME Typed, NEW j \in Jobs, NEW a \in Archives, Opens(j, a)
    PROVE  \E r : Moved(j, r) /\ Follows(j, r, "extracting", a) /\ r.etag = job[j].etag
<1>1. job[j].of = a /\ Goes(j, "extracting")
  BY DEF Opens, Is
<1> QED BY <1>1, GoesOnMoves

(* Where an extraction leads.                                                *)
AfterArchive(j, r, a) ==
    /\ a = "browser" => Follows(j, r, "fetching", AfterBrowser(j))
    /\ a = "widevine" => Follows(j, r, "fetching", "library")
    /\ a = "library" => Follows(j, r, "saving", "library")
    /\ r.etag = job[j].etag

LEMMA ExtractedMoves ==
    ASSUME Typed, NEW j \in Jobs, NEW a \in Archives, Extracted(j, a)
    PROVE  \E r : Moved(j, r) /\ AfterArchive(j, r, a)
<1>1. job[j].of = a /\ "library" \in Archives /\ AfterBrowser(j) \in Archives
  BY DEF Extracted, Is, Archives, AfterBrowser
<1>2. CASE a = "browser"
  <2>1. job' = [job EXCEPT ![j].at = "fetching", ![j].of = AfterBrowser(j)]
    BY <1>2 DEF Extracted, Fetches
  <2>2. PICK r : Moved(j, r) /\ Follows(j, r, "fetching", AfterBrowser(j)) /\ r.etag = job[j].etag
    BY <1>1, <2>1, GoesMoves
  <2> QED BY <1>2, <2>2 DEF AfterArchive
<1>3. CASE a = "widevine"
  <2>1. job' = [job EXCEPT ![j].at = "fetching", ![j].of = "library"]
    BY <1>3 DEF Extracted, Fetches
  <2>2. PICK r : Moved(j, r) /\ Follows(j, r, "fetching", "library") /\ r.etag = job[j].etag
    BY <1>1, <2>1, GoesMoves
  <2> QED BY <1>3, <2>2 DEF AfterArchive
<1>4. CASE a = "library"
  <2>1. Goes(j, "saving")
    BY <1>4 DEF Extracted
  <2>2. PICK r : Moved(j, r) /\ Follows(j, r, "saving", job[j].of) /\ r.etag = job[j].etag
    BY <2>1, GoesOnMoves
  <2> QED BY <1>1, <1>4, <2>2 DEF AfterArchive
<1> QED BY <1>2, <1>3, <1>4 DEF Archives

LEMMA IsCurrentMoves ==
    ASSUME Typed, NEW j \in Jobs, LibraryIsCurrent(j)
    PROVE  \E r : Moved(j, r) /\ Follows(j, r, "saving", "library") /\ r.etag = job[j].etag
<1>1. job[j].of = "library" /\ Goes(j, "saving")
  BY DEF LibraryIsCurrent, Is
<1> QED BY <1>1, GoesOnMoves

LEMMA SavesMoves ==
    ASSUME Typed, NEW j \in Jobs, Saves(j)
    PROVE  \E r : /\ Moved(j, r)
                  /\ j = Gate => r = Rest
                  /\ j # Gate => Follows(j, r, "launching", job[j].of)
<1>1. CASE j = Gate
  BY <1>1, RestTyped DEF Saves, Moved
<1>2. CASE j # Gate
  <2>1. Goes(j, "launching")
    BY <1>2 DEF Saves
  <2> QED BY <1>2, <2>1, GoesOnMoves
<1> QED BY <1>1, <1>2

LEMMA RunsMoves ==
    ASSUME Typed, NEW j \in Launches, LaunchRuns(j)
    PROVE  \E r : /\ Moved(j, r) /\ r.at = "launched"
                  /\ \A a \in Archives : r.local[a] = NoEtag
<1> DEFINE r == [Rest EXCEPT !.at = "launched"]
<1>1. r \in JobRecords /\ r.at = "launched" /\ r.local = Rest.local
  BY RestTyped DEF JobRecords
<1>2. j \in Jobs /\ job' = [job EXCEPT ![j] = r]
  BY NumbersTyped DEF LaunchRuns
<1> HIDE DEF r
<1> QED BY <1>1, <1>2, RestTyped DEF Moved

-----------------------------------------------------------------------------
(* The library, whatever the workload.                                       *)

LEMMA CountedMoves ==
    ASSUME LibraryInv, NEW j, NEW r, Moved(j, r), stamp' = stamp, left' = left,
           library' = library \/ library' # "absent",
           ~left.empties /\ (r.local["library"] # NoEtag \/ r.at = "saving") =>
               library' # "absent"
    PROVE  Counted'
<1>1. j \in Jobs /\ job'[j] = r /\ \A k \in Jobs \ {j} : job'[k] = job[k]
  BY Moves DEF LibraryInv
<1> QED BY <1>1 DEF LibraryInv, Counted

(* The two action properties.                                                *)
KeptStep ==
    /\ library = "edited" /\ left' = left => library' = "edited" \/ \E j \in Jobs : job[j].force
    /\ ~left.empties /\ gate # "in" /\ gate' = "in" => library # "absent"

KeepsLibrary == Typed' /\ Counted' /\ KeptStep

LEMMA StartsKeep ==
    ASSUME LibraryInv, NEW j \in Jobs, NEW force \in BOOLEAN, Starts(j, force),
           UNCHANGED <<remote, tree, library, stamp, tmp, gate, left>>
    PROVE  KeepsLibrary
<1>1. Typed /\ Counted
  BY DEF LibraryInv
<1>2. PICK r : Moved(j, r) /\ Begun(r, force)
  BY <1>1, StartsMoves
<1>3. Typed'
  BY <1>1, <1>2, Moves DEF Typed
<1>4. ~left.empties /\ (r.local["library"] # NoEtag \/ r.at = "saving") => library' # "absent"
  BY <1>1, <1>2 DEF Begun, Counted
<1>5. Counted'
  BY <1>2, <1>4, CountedMoves
<1> QED BY <1>3, <1>5 DEF KeepsLibrary, KeptStep

(* A step inside an installation that leaves the library alone.              *)
LEMMA InsideKeeps ==
    ASSUME LibraryInv, NEW j \in Jobs, NEW r, Moved(j, r), UNCHANGED <<library, stamp, gate, left>>,
           r.local = job[j].local, r.at # "saving", tree' \in Trees, remote' \in Versions,
           tmp' \in [Archives -> {"none", "part", "full"}]
    PROVE  KeepsLibrary
<1>1. Typed /\ Counted
  BY DEF LibraryInv
<1>2. Typed'
  BY <1>1, Moves DEF Typed
<1>3. Counted'
  BY <1>1, CountedMoves DEF Counted
<1> QED BY <1>2, <1>3 DEF KeepsLibrary, KeptStep

(* A step back to rest.                                                      *)
LEMMA RestsKeep ==
    ASSUME LibraryInv, NEW j, NEW r, Moved(j, r), r.at # "saving",
           \A a \in Archives : r.local[a] = NoEtag,
           UNCHANGED <<remote, tree, library, stamp, tmp, left>>,
           gate' = gate \/ gate' = "error"
    PROVE  KeepsLibrary
<1>1. Typed /\ Counted /\ "library" \in Archives
  BY DEF LibraryInv, Archives
<1>2. Typed'
  BY <1>1, Moves DEF Typed
<1>3. Counted'
  BY <1>1, CountedMoves
<1> QED BY <1>2, <1>3 DEF KeepsLibrary, KeptStep

LEMMA ExtractedKeeps ==
    ASSUME LibraryInv, NEW j \in Jobs, NEW a \in Archives, Extracted(j, a)
    PROVE  KeepsLibrary
<1>1. Typed /\ Counted
  BY DEF LibraryInv
<1>2. PICK r : Moved(j, r) /\ AfterArchive(j, r, a)
  BY <1>1, ExtractedMoves
<1>3. /\ tmp' \in [Archives -> {"none", "part", "full"}] /\ remote' \in Versions
      /\ UNCHANGED <<remote, stamp, gate, left>> /\ job[j].etag \in [Archives -> Etags]
  BY <1>1 DEF Typed, Extracted, JobRecords
<1>4. CASE a # "library"
  <2>1. UNCHANGED library /\ r.local = job[j].local /\ r.at # "saving"
    BY <1>2, <1>4 DEF Extracted, Archives, AfterArchive, Follows
  <2>2. tree' \in Trees
    <3>1. CASE a = "browser"
      <4> DEFINE whole == Alone(j)
      <4>1. tree' = [tree EXCEPT !.binary = TRUE, !.bad = FALSE, !.whole = whole,
                                  !.version = job[j].etag[a]]
        BY <3>1 DEF Extracted
      <4>2. whole \in BOOLEAN
        BY DEF Alone, Is
      <4> HIDE DEF whole
      <4>3. job[j].etag[a] \in Etags
        BY <1>3
      <4> QED BY <1>1, <4>1, <4>2, <4>3 DEF Typed, Trees
    <3>2. CASE a = "widevine"
      BY <1>1, <3>2 DEF Extracted, Typed
    <3> QED BY <1>4, <3>1, <3>2 DEF Archives
  <2> QED BY <1>2, <1>3, <2>1, <2>2, InsideKeeps
<1>5. CASE a = "library"
  <2>1. UNCHANGED tree /\ library' = Seeded(j)
    BY <1>5 DEF Extracted
  <2>2. /\ library' \in {"bundled", "edited"}
        /\ library = "edited" => library' = "edited" \/ job[j].force
    BY <2>1 DEF Seeded
  <2>3. Typed'
    BY <1>1, <1>2, <1>3, <2>1, <2>2, Moves DEF Typed
  <2>4. Counted'
    BY <1>2, <1>3, <2>2, CountedMoves
  <2> QED BY <1>3, <2>2, <2>3, <2>4 DEF KeepsLibrary, KeptStep
<1> QED BY <1>4, <1>5

LEMMA SavesKeeps ==
    ASSUME LibraryInv, NEW j \in Jobs, Saves(j)
    PROVE  KeepsLibrary
<1>1. Typed /\ Counted /\ "library" \in Archives
  BY DEF LibraryInv, Archives
<1>2. PICK r : /\ Moved(j, r)
               /\ j = Gate => r = Rest
               /\ j # Gate => Follows(j, r, "launching", job[j].of)
  BY <1>1, SavesMoves
<1>3. /\ ~left.empties => library # "absent"
      /\ stamp' \in [Archives -> Etags] /\ gate' \in {gate, "in"}
      /\ UNCHANGED <<remote, tree, library, tmp, left>>
  BY <1>1 DEF Typed, Counted, Saves, Saved, JobRecords
<1>4. Typed'
  BY <1>1, <1>2, <1>3, Moves DEF Typed
<1>5. Counted'
  BY <1>3 DEF Counted
<1> QED BY <1>3, <1>4, <1>5 DEF KeepsLibrary, KeptStep

LEMMA RestartKeeps ==
    ASSUME LibraryInv, Restart
    PROVE  KeepsLibrary
<1>1. Typed /\ Counted /\ "library" \in Archives
  BY DEF LibraryInv, Archives
<1>2. /\ stamp' \in {stamp, NoStamp} /\ job' = [j \in Jobs |-> Rest] /\ gate' = "closed"
      /\ UNCHANGED <<remote, tree, library, tmp>>
      /\ left.restarts > 0 /\ left' = [left EXCEPT !.restarts = @ - 1]
  BY DEF Restart, Torn
<1>3. left' \in WorkloadRecords /\ left'.empties = left.empties /\ left' # left
  BY <1>1, <1>2 DEF Typed, WorkloadRecords
<1>4. Typed'
  BY <1>1, <1>2, <1>3, RestTyped DEF Typed
<1>5. Counted'
  BY <1>1, <1>2, <1>3, RestTyped DEF Counted
<1> QED BY <1>2, <1>3, <1>4, <1>5 DEF KeepsLibrary, KeptStep

LEMMA EditKeeps ==
    ASSUME LibraryInv, Edit
    PROVE  KeepsLibrary
<1>1. Typed /\ Counted
  BY DEF LibraryInv
<1>2. /\ library' = "edited" \/ (left.empties /\ library' = "absent")
      /\ left.edits > 0 /\ left' = [left EXCEPT !.edits = @ - 1]
      /\ UNCHANGED <<remote, tree, stamp, tmp, job, gate>>
  BY DEF Edit
<1>3. left' \in WorkloadRecords /\ left'.empties = left.empties /\ left' # left
  BY <1>1, <1>2 DEF Typed, WorkloadRecords
<1>4. Typed'
  BY <1>1, <1>2, <1>3 DEF Typed
<1>5. Counted'
  BY <1>1, <1>2, <1>3 DEF Counted
<1> QED BY <1>2, <1>3, <1>4, <1>5 DEF KeepsLibrary, KeptStep

LEMMA NextKeeps ==
    ASSUME LibraryInv, Next
    PROVE  KeepsLibrary
<1>1. Typed /\ Counted
  BY DEF LibraryInv
<1>2. CASE Publish
  <2>1. /\ remote' = remote + 1 /\ remote < MaxVersion
        /\ UNCHANGED <<tree, library, stamp, tmp, job, gate, left>>
    BY <1>2 DEF Publish
  <2>2. remote' \in Versions
    BY <1>1, <2>1, NumbersTyped DEF Typed, Versions
  <2> QED BY <1>1, <2>1, <2>2 DEF KeepsLibrary, KeptStep, Typed, Counted
<1>3. CASE Edit
  BY <1>3, EditKeeps
<1>4. CASE GateOpens
  <2>1. /\ library # "absent" /\ gate' = "in"
        /\ UNCHANGED <<remote, tree, library, stamp, tmp, job, left>>
    BY <1>4 DEF GateOpens, LibraryInstalled
  <2> QED BY <1>1, <2>1 DEF KeepsLibrary, KeptStep, Typed, Counted
<1>5. CASE GateInstalls
  BY <1>5, StartsKeep, NumbersTyped DEF GateInstalls
<1>6. CASE Restart
  BY <1>6, RestartKeeps
<1>7. ASSUME NEW j \in Launches, LaunchInstalls(j) PROVE KeepsLibrary
  BY <1>7, StartsKeep, NumbersTyped DEF LaunchInstalls
<1>8. ASSUME NEW j \in Launches, LaunchRuns(j) PROVE KeepsLibrary
  <2>1. PICK r : Moved(j, r) /\ r.at = "launched" /\ \A a \in Archives : r.local[a] = NoEtag
    BY <1>1, <1>8, RunsMoves
  <2> QED BY <1>8, <2>1, RestsKeep DEF LaunchRuns
<1>9. ASSUME NEW j \in Launches, LaunchReturns(j) PROVE KeepsLibrary
  <2>1. Moved(j, Rest)
    BY <1>9, NumbersTyped, RestTyped DEF LaunchReturns, Moved
  <2> QED BY <1>9, <2>1, RestTyped, RestsKeep DEF LaunchReturns
<1>10. ASSUME NEW j \in Jobs, Decides(j) PROVE KeepsLibrary
  <2>1. PICK r : Moved(j, r) /\ Decided(j, r)
    BY <1>1, <1>10, DecidesMoves
  <2> QED BY <1>1, <2>1, InsideKeeps DEF Decided, Typed
<1>11. ASSUME NEW j \in Jobs, LibraryIsCurrent(j) PROVE KeepsLibrary
  <2>1. PICK r : Moved(j, r) /\ Follows(j, r, "saving", "library") /\ r.etag = job[j].etag
    BY <1>1, <1>11, IsCurrentMoves
  <2>2. /\ job[j].local["library"] # NoEtag
        /\ UNCHANGED <<remote, tree, library, stamp, tmp, gate, left>>
    BY <1>1, <1>11, NumbersTyped DEF Typed, LibraryIsCurrent
  <2>3. Typed'
    BY <1>1, <2>1, <2>2, Moves DEF Typed
  <2>4. ~left.empties => library' # "absent"
    BY <1>1, <2>2 DEF Counted
  <2>5. Counted'
    BY <2>1, <2>2, <2>4, CountedMoves
  <2> QED BY <2>2, <2>3, <2>5 DEF KeepsLibrary, KeptStep
<1>12. ASSUME NEW j \in Jobs, Saves(j) PROVE KeepsLibrary
  BY <1>12, SavesKeeps
<1>13. ASSUME NEW j \in Jobs, Fails(j) PROVE KeepsLibrary
  <2>1. Moved(j, Rest) /\ gate' \in {gate, "error"}
    BY <1>13, RestTyped DEF Fails, Moved
  <2> QED BY <1>13, <2>1, RestTyped, RestsKeep DEF Fails
<1>14. ASSUME NEW j \in Jobs, NEW a \in Archives, Downloads(j, a) PROVE KeepsLibrary
  <2>1. PICK r : Moved(j, r) /\ Noted(j, r, a)
    BY <1>1, <1>14, DownloadsMoves
  <2>2. r.local = job[j].local /\ r.at # "saving"
    BY <2>1 DEF Noted, Follows
  <2>3. tmp' = [tmp EXCEPT ![a] = "part"] /\ UNCHANGED <<remote, tree, library, stamp, gate, left>>
    BY <1>14 DEF Downloads
  <2>4. tmp' \in [Archives -> {"none", "part", "full"}]
    BY <1>1, <2>3 DEF Typed
  <2> QED BY <1>1, <2>1, <2>2, <2>3, <2>4, InsideKeeps DEF Typed
<1>15. ASSUME NEW j \in Jobs, NEW a \in Archives, Downloaded(j, a) PROVE KeepsLibrary
  <2>1. PICK r : Moved(j, r) /\ Follows(j, r, "opening", a) /\ r.etag = job[j].etag
    BY <1>1, <1>15, DownloadedMoves
  <2>2. tmp' \in [Archives -> {"none", "part", "full"}]
        /\ UNCHANGED <<remote, tree, library, stamp, gate, left>>
    BY <1>1, <1>15 DEF Typed, Downloaded
  <2> QED BY <1>1, <2>1, <2>2, InsideKeeps DEF Typed, Follows
<1>16. ASSUME NEW j \in Jobs, NEW a \in Archives, Opens(j, a) PROVE KeepsLibrary
  <2>1. PICK r : Moved(j, r) /\ Follows(j, r, "extracting", a) /\ r.etag = job[j].etag
    BY <1>1, <1>16, OpensMoves
  <2>2. tree' \in Trees /\ UNCHANGED <<remote, library, stamp, tmp, gate, left>>
    BY <1>1, <1>16 DEF Typed, Opens, Trees
  <2> QED BY <1>1, <2>1, <2>2, InsideKeeps DEF Typed, Follows
<1>17. ASSUME NEW j \in Jobs, NEW a \in Archives, Extracted(j, a) PROVE KeepsLibrary
  BY <1>17, ExtractedKeeps
<1>18. \/ Publish \/ Edit \/ GateOpens \/ GateInstalls \/ Restart
       \/ \E j \in Launches : LaunchInstalls(j) \/ LaunchRuns(j) \/ LaunchReturns(j)
       \/ \E j \in Jobs : Decides(j) \/ LibraryIsCurrent(j) \/ Saves(j) \/ Fails(j)
       \/ \E j \in Jobs, a \in Archives :
              Downloads(j, a) \/ Downloaded(j, a) \/ Opens(j, a) \/ Extracted(j, a)
  BY DEF Next
<1> QED BY <1>2, <1>3, <1>4, <1>5, <1>6, <1>7, <1>8, <1>9, <1>10, <1>11, <1>12, <1>13, <1>14,
           <1>15, <1>16, <1>17, <1>18

LEMMA LibraryInit == Init => LibraryInv
<1> SUFFICES ASSUME Init PROVE LibraryInv
  OBVIOUS
<1>1. /\ remote = 1 /\ gate = "closed" /\ tmp = [a \in Archives |-> "none"]
      /\ job = [j \in Jobs |-> Rest] /\ left \in WorkloadRecords
  BY NumbersTyped DEF Init
<1>2. \/ /\ tree = [binary |-> FALSE, whole |-> FALSE, bad |-> FALSE, version |-> NoEtag]
         /\ stamp = NoStamp /\ library = "absent"
      \/ /\ stamp = [a \in Archives |-> 1] /\ library = "bundled"
         /\ tree = [binary |-> TRUE, whole |-> TRUE, bad |-> TRUE, version |-> 1]
  BY DEF Init
<1>3. tree \in Trees /\ stamp \in [Archives -> Etags] /\ library \in {"absent", "bundled", "edited"}
  <2>1. 1 \in Etags /\ NoEtag \in Etags
    BY NumbersTyped DEF Etags
  <2>2. [a \in Archives |-> 1] \in [Archives -> Etags]
    BY <2>1
  <2>3. CASE stamp = NoStamp /\ library = "absent"
             /\ tree = [binary |-> FALSE, whole |-> FALSE, bad |-> FALSE, version |-> NoEtag]
    BY <2>1, <2>3, RestTyped DEF Trees
  <2>4. CASE stamp = [a \in Archives |-> 1] /\ library = "bundled"
             /\ tree = [binary |-> TRUE, whole |-> TRUE, bad |-> TRUE, version |-> 1]
    <3>1. tree \in Trees
      BY <2>1, <2>4 DEF Trees
    <3> QED BY <2>2, <2>4, <3>1
  <2> QED BY <1>2, <2>3, <2>4
<1>4. Typed
  BY <1>1, <1>3, NumbersTyped, RestTyped DEF Typed
<1>5. Counted
  BY <1>1, <1>2, RestTyped DEF Counted, Archives
<1> QED BY <1>4, <1>5 DEF LibraryInv

LEMMA LibraryStep == LibraryInv /\ [Next]_vars => LibraryInv' /\ (KeptStep \/ UNCHANGED vars)
<1> SUFFICES ASSUME LibraryInv, [Next]_vars PROVE LibraryInv' /\ (KeptStep \/ UNCHANGED vars)
  OBVIOUS
<1>1. CASE Next
  BY <1>1, NextKeeps DEF KeepsLibrary, LibraryInv
<1>2. CASE UNCHANGED vars
  BY <1>2 DEF vars, LibraryInv, Typed, Counted
<1> QED BY <1>1, <1>2

(* Whatever is interrupted, fails or runs at once, no installation but a     *)
(* forced one takes an edited fingerprint library from the user, and the     *)
(* window lets nobody in without a library unless the user has emptied it    *)
(* (install_fingerprints of runtime.rs, the gate of App.tsx).                *)
THEOREM LibraryIsKept == Spec => LibraryKept
<1>1. LibraryInv /\ [Next]_vars =>
          [library = "edited" /\ left' = left => \/ library' = "edited"
                                                \/ \E j \in Jobs : job[j].force]_vars
  BY LibraryStep DEF KeptStep
<1>2. LibraryInv /\ [Next]_vars =>
          [~left.empties /\ gate # "in" /\ gate' = "in" => library # "absent"]_vars
  BY LibraryStep DEF KeptStep
<1>3. LibraryInv /\ [Next]_vars => LibraryInv'
  BY LibraryStep
<1> QED BY LibraryInit, <1>1, <1>2, <1>3, PTL DEF Spec, LibraryKept, EditsKept, GateHasLibrary

-----------------------------------------------------------------------------
(* The browser, for steady workloads.                                        *)

LEMMA OthersRest ==
    ASSUME WholeInv, NEW j \in Jobs, job[j].at # "idle"
    PROVE  \A k \in Jobs \ {j} : job[k].at = "idle"
BY DEF WholeInv, Whole, OneAtWork

LEMMA IdleFits ==
    ASSUME NEW r, r.at \in {"idle", "launching", "launched"}, NEW s, NEW t, NEW files
    PROVE  Fits(r, s, t, files)
BY DEF Fits, Work

(* A step from a place of an installation to another.                        *)
LEMMA Advances ==
    ASSUME WholeInv, NEW j, NEW r, Moved(j, r), job[j].at \in Work, r.at \in Work,
           UNCHANGED <<stamp, gate, left>>, j \in Launches => r.all,
           Fits(r, stamp, tree', tmp')
    PROVE  Whole'
<1>1. /\ j \in Jobs /\ job'[j] = r /\ \A k \in Jobs \ {j} : job'[k] = job[k]
  BY Moves DEF WholeInv, LibraryInv
<1>2. job[j].at # "idle" /\ r.at # "idle"
  BY DEF Work
<1>3. \A k \in Jobs \ {j} : job[k].at = "idle"
  BY <1>1, <1>2, OthersRest
<1>4. Steady(left)' /\ Stamped'
  BY DEF WholeInv, Whole, Steady, Stamped
<1>5. OneAtWork'
  BY <1>1, <1>3 DEF OneAtWork
<1>6. Places'
  <2>1. Places
    BY DEF WholeInv, Whole
  <2>2. j = Gate => gate # "in"
    BY <1>2, <2>1 DEF Places
  <2> QED BY <1>1, <1>2, <1>3, <2>1, <2>2, NumbersTyped DEF Places, Work
<1>7. Vouched'
  BY <1>1 DEF Vouched
<1>8. FirstOne'
  BY <1>1 DEF WholeInv, Whole, FirstOne
<1>9. \A k \in Jobs : Fits(job[k], stamp, tree, tmp)'
  BY <1>1, <1>3, IdleFits
<1> QED BY <1>4, <1>5, <1>6, <1>7, <1>8, <1>9 DEF Whole

LEMMA GateInstallsWhole ==
    ASSUME WholeInv, GateInstalls
    PROVE  Whole'
<1>1. Typed /\ Counted /\ Steady(left) /\ Stamped /\ OneAtWork /\ Places /\ Vouched
  BY DEF WholeInv, Whole, LibraryInv
<1>2. /\ gate = "closed" /\ job[Gate].at = "idle" /\ Starts(Gate, FALSE)
      /\ ~(tree.binary /\ stamp["library"] # NoEtag /\ library # "absent")
      /\ UNCHANGED <<remote, tree, library, stamp, tmp, gate, left>>
  BY DEF GateInstalls, Installed, LibraryInstalled
<1>3. PICK r : Moved(Gate, r) /\ Begun(r, FALSE)
  BY <1>1, <1>2, NumbersTyped, StartsMoves
<1>4. /\ job'[Gate] = r /\ \A k \in Jobs \ {Gate} : job'[k] = job[k]
      /\ r.at = "deciding" /\ r.local = stamp
  BY <1>1, <1>3, Moves DEF Begun
<1>5. \A k \in Jobs : job[k].at = "idle"
  BY <1>1, <1>2, NumbersTyped DEF Places
<1>6. stamp # NoStamp => Good(tree, stamp["browser"])
  BY <1>1, <1>5 DEF Vouched, Work
<1>7. Fits(r, stamp, tree, tmp)
  BY <1>4, <1>6 DEF Fits, Work
<1>8. ~left.launches => stamp = NoStamp
  <2> SUFFICES ASSUME ~left.launches, stamp # NoStamp PROVE FALSE
    OBVIOUS
  <2>1. stamp["library"] # NoEtag /\ ~left.empties /\ tree.binary
    BY <1>1, <1>6 DEF Stamped, Archives, Steady, Good
  <2> QED BY <1>1, <1>2, <2>1 DEF Counted
<1>9. Steady(left)' /\ Stamped'
  BY <1>1, <1>2 DEF Steady, Stamped
<1>10. OneAtWork'
  BY <1>4, <1>5 DEF OneAtWork
<1>11. Places'
  BY <1>2, <1>4, <1>5, NumbersTyped DEF Places, Work
<1>12. Vouched'
  BY <1>4, NumbersTyped DEF Vouched, Work
<1>13. FirstOne'
  BY <1>2, <1>8 DEF FirstOne
<1>14. \A k \in Jobs : Fits(job[k], stamp, tree, tmp)'
  BY <1>2, <1>4, <1>5, <1>7, IdleFits
<1> QED BY <1>9, <1>10, <1>11, <1>12, <1>13, <1>14 DEF Whole

(* In a launch of a steady workload nothing else is under way.               *)
LEMMA LaunchAlone ==
    ASSUME WholeInv, NEW j \in Launches, left.launches, gate = "in"
    PROVE  \A k \in Jobs : k # j => job[k].at = "idle"
BY NumbersTyped DEF WholeInv, Whole, Places, Steady

LEMMA LaunchInstallsWhole ==
    ASSUME WholeInv, NEW j \in Launches, LaunchInstalls(j)
    PROVE  Whole'
<1>1. Typed /\ Steady(left) /\ Stamped /\ Places /\ Vouched
  BY DEF WholeInv, Whole, LibraryInv
<1>2. /\ left.launches /\ gate = "in" /\ job[j].at = "idle" /\ Starts(j, TRUE) /\ j \in Jobs
      /\ j # Gate /\ UNCHANGED <<remote, tree, library, stamp, tmp, gate, left>>
  BY NumbersTyped DEF LaunchInstalls
<1>3. PICK r : Moved(j, r) /\ Begun(r, TRUE)
  BY <1>1, <1>2, StartsMoves
<1>4. /\ job'[j] = r /\ \A k \in Jobs \ {j} : job'[k] = job[k]
      /\ r.at = "deciding" /\ r.local = stamp /\ r.all
  BY <1>1, <1>3, Moves DEF Begun
<1>5. \A k \in Jobs : job[k].at = "idle"
  BY <1>2, LaunchAlone
<1>6. stamp # NoStamp => Good(tree, stamp["browser"])
  BY <1>1, <1>5 DEF Vouched, Work
<1>7. Fits(r, stamp, tree, tmp)
  BY <1>4, <1>6 DEF Fits, Work
<1>8. Steady(left)' /\ Stamped'
  BY <1>1, <1>2 DEF Steady, Stamped
<1>9. OneAtWork'
  BY <1>4, <1>5 DEF OneAtWork
<1>10. Places'
  BY <1>1, <1>2, <1>4, <1>5, NumbersTyped DEF Places, Work
<1>11. Vouched'
  BY <1>2, <1>4 DEF Vouched, Work
<1>12. FirstOne'
  BY <1>2 DEF FirstOne
<1>13. \A k \in Jobs : Fits(job[k], stamp, tree, tmp)'
  BY <1>2, <1>4, <1>5, <1>7, IdleFits
<1> QED BY <1>8, <1>9, <1>10, <1>11, <1>12, <1>13 DEF Whole

(* A launch of a browser that is there is one of a whole browser.            *)
LEMMA LaunchRunsWhole ==
    ASSUME WholeInv, NEW j \in Launches, LaunchRuns(j)
    PROVE  Whole' /\ tree.whole /\ ~tree.bad
<1>1. Typed /\ Steady(left) /\ Stamped /\ Places /\ Vouched
  BY DEF WholeInv, Whole, LibraryInv
<1>2. /\ left.launches /\ gate = "in"
      /\ job[j].at = "launching" \/ (job[j].at = "idle" /\ ~tree.bad)
      /\ j \in Jobs /\ j # Gate /\ UNCHANGED <<remote, tree, library, stamp, tmp, gate, left>>
  BY NumbersTyped DEF LaunchRuns
<1>3. PICK r : Moved(j, r) /\ r.at = "launched"
  BY <1>1, RunsMoves
<1>4. job'[j] = r /\ \A k \in Jobs \ {j} : job'[k] = job[k]
  BY <1>1, <1>3, Moves
<1>5. \A k \in Jobs \ {j} : job[k].at = "idle"
  BY <1>2, LaunchAlone
<1>6. stamp # NoStamp /\ \A k \in Jobs : job[k].at \notin Work
  BY <1>1, <1>2, <1>5 DEF Places, Work
<1>7. Good(tree, stamp["browser"]) /\ ~tree.bad
  BY <1>1, <1>2, <1>6 DEF Vouched, Places
<1>8. Steady(left)' /\ Stamped'
  BY <1>1, <1>2 DEF Steady, Stamped
<1>9. OneAtWork'
  BY <1>4, <1>5 DEF OneAtWork
<1>10. Places'
  BY <1>1, <1>2, <1>3, <1>4, <1>5, NumbersTyped DEF Places, Work
<1>11. Vouched'
  BY <1>2, <1>7 DEF Vouched
<1>12. FirstOne'
  BY <1>2 DEF FirstOne
<1>13. \A k \in Jobs : Fits(job[k], stamp, tree, tmp)'
  BY <1>2, <1>3, <1>4, <1>5, IdleFits
<1> QED BY <1>7, <1>8, <1>9, <1>10, <1>11, <1>12, <1>13 DEF Whole, Good

LEMMA LaunchReturnsWhole ==
    ASSUME WholeInv, NEW j \in Launches, LaunchReturns(j)
    PROVE  Whole'
<1>1. Typed /\ Steady(left) /\ Stamped /\ Places /\ Vouched
  BY DEF WholeInv, Whole, LibraryInv
<1>2. /\ job[j].at = "launched" /\ Moved(j, Rest) /\ j \in Jobs /\ j # Gate
      /\ UNCHANGED <<remote, tree, library, stamp, tmp, gate, left>>
  BY NumbersTyped, RestTyped DEF LaunchReturns, Moved
<1>3. job'[j] = Rest /\ \A k \in Jobs \ {j} : job'[k] = job[k]
  BY <1>1, <1>2, Moves
<1>4. \A k \in Jobs : job'[k].at = "idle" /\ job[k].at \notin Work
  BY <1>2, <1>3, RestTyped, OthersRest DEF Work
<1>5. Places'
  BY <1>1, <1>2, <1>4, NumbersTyped DEF Places, Work
<1>6. Steady(left)' /\ Stamped' /\ OneAtWork' /\ Vouched' /\ FirstOne'
  BY <1>1, <1>2, <1>4 DEF Steady, Stamped, OneAtWork, Vouched, FirstOne, Work
<1>7. \A k \in Jobs : Fits(job[k], stamp, tree, tmp)'
  BY <1>4, IdleFits
<1> QED BY <1>5, <1>6, <1>7 DEF Whole

LEMMA DecidesWhole ==
    ASSUME WholeInv, NEW j \in Jobs, Decides(j)
    PROVE  Whole'
<1>1. Typed /\ Stamped /\ Places /\ Fits(job[j], stamp, tree, tmp)
  BY DEF WholeInv, Whole, LibraryInv
<1>2. PICK r : Moved(j, r) /\ Decided(j, r)
  BY <1>1, DecidesMoves
<1>3. /\ job[j].at = "deciding" /\ r.at = "fetching" /\ r.local = stamp /\ r.etag = stamp
      /\ r.all <=> job[j].all \/ stamp["browser"] # remote
      /\ UNCHANGED <<remote, tree, library, stamp, tmp, gate, left>>
      /\ stamp # NoStamp => Good(tree, stamp["browser"])
  BY <1>1, <1>2 DEF Decided, Fits, Work
<1>4. CASE r.all
  <2>1. r.of = "browser"
    BY <1>2, <1>4 DEF Decided
  <2> QED BY <1>2, <1>3, <1>4, <2>1, Advances DEF Fits, Work
<1>5. CASE ~r.all
  <2>1. stamp["browser"] # NoEtag /\ "browser" \in Archives /\ "widevine" \in Archives
    BY <1>1, <1>3, <1>5, NumbersTyped DEF Typed, Archives
  <2>2. stamp # NoStamp /\ stamp["widevine"] # NoEtag
    BY <1>1, <2>1, RestTyped DEF Stamped
  <2>3. r.of = "library"
    BY <1>2, <1>3, <1>5, <2>2 DEF Decided
  <2>4. Fits(r, stamp, tree', tmp')
    BY <1>3, <1>5, <2>1, <2>2, <2>3 DEF Fits, Work
  <2>5. j \notin Launches
    BY <1>1, <1>3, <1>5 DEF Places, Work
  <2> QED BY <1>2, <1>3, <2>4, <2>5, Advances DEF Work
<1> QED BY <1>4, <1>5

(* A place of an installation, seen from the next.                           *)
LEMMA FollowsWhole ==
    ASSUME WholeInv, NEW j \in Jobs, NEW r, NEW at \in Work, NEW of, Moved(j, r),
           Follows(j, r, at, of), job[j].at \in Work, UNCHANGED <<stamp, gate, left>>,
           Fits(r, stamp, tree', tmp')
    PROVE  Whole'
<1>1. j \in Launches => r.all
  BY DEF WholeInv, Whole, Places, Follows
<1> QED BY <1>1, Advances DEF Follows

LEMMA IsCurrentWhole ==
    ASSUME WholeInv, NEW j \in Jobs, LibraryIsCurrent(j)
    PROVE  Whole'
<1>1. Typed /\ Fits(job[j], stamp, tree, tmp)
  BY DEF WholeInv, Whole, LibraryInv
<1>2. PICK r : Moved(j, r) /\ Follows(j, r, "saving", "library") /\ r.etag = job[j].etag
  BY <1>1, IsCurrentMoves
<1>3. /\ job[j].at = "fetching" /\ job[j].of = "library" /\ job[j].local["library"] # NoEtag
      /\ UNCHANGED <<remote, tree, library, stamp, tmp, gate, left>>
  BY <1>1, NumbersTyped DEF LibraryIsCurrent, Is, Typed
<1>4. Fits(r, stamp, tree', tmp')
  BY <1>1, <1>2, <1>3 DEF Fits, Work, Follows
<1> QED BY <1>2, <1>3, <1>4, FollowsWhole DEF Work

LEMMA DownloadsWhole ==
    ASSUME WholeInv, NEW j \in Jobs, NEW a \in Archives, Downloads(j, a)
    PROVE  Whole'
<1>1. Typed /\ Fits(job[j], stamp, tree, tmp) /\ remote # NoEtag
  BY NumbersTyped DEF WholeInv, Whole, LibraryInv, Typed
<1>2. PICK r : Moved(j, r) /\ Noted(j, r, a)
  BY <1>1, DownloadsMoves
<1>3. /\ job[j].at = "fetching" /\ job[j].of = a /\ Follows(j, r, "writing", a)
      /\ UNCHANGED <<remote, tree, library, stamp, gate, left>>
  BY <1>2 DEF Downloads, Noted
<1>4. job[j].etag \in [Archives -> Etags]
  BY <1>1 DEF Typed, JobRecords
<1>5. r.etag[a] = remote /\ \A b \in Archives \ {a} : r.etag[b] = job[j].etag[b]
  BY <1>2, <1>4 DEF Noted
<1>6. Fits(r, stamp, tree', tmp')
  BY <1>1, <1>3, <1>5 DEF Fits, Work, Follows, Archives
<1> QED BY <1>2, <1>3, <1>6, FollowsWhole DEF Work

LEMMA DownloadedWhole ==
    ASSUME WholeInv, NEW j \in Jobs, NEW a \in Archives, Downloaded(j, a)
    PROVE  Whole'
<1>1. Typed /\ Fits(job[j], stamp, tree, tmp)
  BY DEF WholeInv, Whole, LibraryInv
<1>2. PICK r : Moved(j, r) /\ Follows(j, r, "opening", a) /\ r.etag = job[j].etag
  BY <1>1, DownloadedMoves
<1>3. /\ job[j].at = "writing" /\ job[j].of = a
      /\ UNCHANGED <<remote, tree, library, stamp, gate, left>>
  BY DEF Downloaded, Is
<1>4. Alone(j)
  BY <1>3, OthersRest DEF Alone, Is
<1>5. tmp'[a] = "full"
  BY <1>1, <1>4 DEF Downloaded, Typed
<1>6. Fits(r, stamp, tree', tmp')
  BY <1>1, <1>2, <1>3, <1>5 DEF Fits, Work, Follows
<1> QED BY <1>2, <1>3, <1>6, FollowsWhole DEF Work

LEMMA OpensWhole ==
    ASSUME WholeInv, NEW j \in Jobs, NEW a \in Archives, Opens(j, a)
    PROVE  Whole'
<1>1. Typed /\ Fits(job[j], stamp, tree, tmp)
  BY DEF WholeInv, Whole, LibraryInv
<1>2. PICK r : Moved(j, r) /\ Follows(j, r, "extracting", a) /\ r.etag = job[j].etag
  BY <1>1, OpensMoves
<1>3. /\ job[j].at = "opening" /\ job[j].of = a /\ (a # "browser" => UNCHANGED tree)
      /\ UNCHANGED <<remote, library, stamp, tmp, gate, left>>
  BY DEF Opens, Is
<1>4. Fits(r, stamp, tree', tmp')
  BY <1>1, <1>2, <1>3 DEF Fits, Work, Follows
<1> QED BY <1>2, <1>3, <1>4, FollowsWhole DEF Work

LEMMA ExtractedWhole ==
    ASSUME WholeInv, NEW j \in Jobs, NEW a \in Archives, Extracted(j, a)
    PROVE  Whole'
<1>1. Typed /\ Fits(job[j], stamp, tree, tmp)
  BY DEF WholeInv, Whole, LibraryInv
<1>2. PICK r : Moved(j, r) /\ AfterArchive(j, r, a)
  BY <1>1, ExtractedMoves
<1>3. /\ job[j].at = "extracting" /\ job[j].of = a /\ r.etag = job[j].etag
      /\ UNCHANGED <<remote, stamp, gate, left>>
  BY <1>2 DEF Extracted, Is, AfterArchive
<1>4. CASE a = "browser"
  <2>1. Alone(j)
    BY <1>3, OthersRest DEF Alone, Is
  <2>2. job[j].all /\ job[j].etag["browser"] # NoEtag
    BY <1>1, <1>3, <1>4 DEF Fits, Work
  <2>3. Follows(j, r, "fetching", "widevine")
    BY <1>2, <1>4, <2>2 DEF AfterArchive, AfterBrowser
  <2> DEFINE whole == Alone(j)
  <2>4. tree' = [tree EXCEPT !.binary = TRUE, !.bad = FALSE, !.whole = whole,
                              !.version = job[j].etag["browser"]]
    BY <1>4 DEF Extracted
  <2>5. whole = TRUE
    BY <2>1 DEF Alone
  <2> HIDE DEF whole
  <2>6. Good(tree', job[j].etag["browser"]) /\ ~tree'.bad
    BY <1>1, <2>4, <2>5 DEF Good, Typed, Trees
  <2>7. Fits(r, stamp, tree', tmp')
    BY <1>1, <1>3, <1>4, <2>2, <2>3, <2>6 DEF Fits, Work, Follows
  <2> QED BY <1>2, <1>3, <2>3, <2>7, FollowsWhole DEF Work
<1>5. CASE a = "widevine"
  <2>1. Follows(j, r, "fetching", "library") /\ UNCHANGED tree
    BY <1>2, <1>5 DEF AfterArchive, Extracted
  <2>2. Fits(r, stamp, tree', tmp')
    BY <1>1, <1>3, <1>5, <2>1 DEF Fits, Work, Follows
  <2> QED BY <1>2, <1>3, <2>1, <2>2, FollowsWhole DEF Work
<1>6. CASE a = "library"
  <2>1. Follows(j, r, "saving", "library") /\ UNCHANGED tree
    BY <1>2, <1>6 DEF AfterArchive, Extracted
  <2>2. Fits(r, stamp, tree', tmp')
    BY <1>1, <1>3, <1>6, <2>1 DEF Fits, Work, Follows
  <2> QED BY <1>2, <1>3, <2>1, <2>2, FollowsWhole DEF Work
<1> QED BY <1>4, <1>5, <1>6 DEF Archives

LEMMA SavesWhole ==
    ASSUME WholeInv, NEW j \in Jobs, Saves(j)
    PROVE  Whole'
<1>1. /\ Typed /\ Steady(left) /\ Stamped /\ OneAtWork /\ Places
      /\ Fits(job[j], stamp, tree, tmp)
  BY DEF WholeInv, Whole, LibraryInv
<1>2. PICK r : /\ Moved(j, r)
               /\ j = Gate => r = Rest
               /\ j # Gate => Follows(j, r, "launching", job[j].of)
  BY <1>1, SavesMoves
<1>3. job'[j] = r /\ \A k \in Jobs \ {j} : job'[k] = job[k]
  BY <1>1, <1>2, Moves
<1>4. /\ job[j].at = "saving" /\ stamp' = job[j].etag
      /\ UNCHANGED <<remote, tree, library, tmp, left>>
      /\ IF j = Gate THEN gate' = "in" ELSE gate' = gate
  BY DEF Saves, Saved
<1>5. /\ \A a \in Archives : stamp'[a] # NoEtag
      /\ Good(tree, stamp'["browser"]) /\ (job[j].all => ~tree.bad)
  BY <1>1, <1>4 DEF Fits, Work, Archives
<1>6. stamp' # NoStamp
  BY <1>5, RestTyped DEF Archives
<1>7. \A k \in Jobs \ {j} : job'[k].at = "idle" /\ job[k].at = "idle"
  BY <1>3, <1>4, OthersRest
<1>8. r.at \in {"idle", "launching"} /\ (j = Gate => r.at = "idle")
  BY <1>2, RestTyped DEF Follows
<1>9. \A k \in Jobs : job'[k].at \notin Work
  BY <1>3, <1>7, <1>8 DEF Work
<1>10. Steady(left)' /\ Stamped' /\ OneAtWork' /\ Vouched' /\ FirstOne'
  BY <1>1, <1>4, <1>5, <1>7, <1>9 DEF Steady, Stamped, OneAtWork, Vouched, FirstOne
<1>11. Places'
  <2>1. CASE j = Gate
    <3>1. \A k \in Jobs : job'[k].at = "idle"
      BY <1>3, <1>7, <1>8, <2>1
    <3> QED BY <1>6, <3>1, NumbersTyped DEF Places, Work
  <2>2. CASE j # Gate
    <3>1. j \in Launches /\ gate' = "in" /\ left'.launches /\ ~tree'.bad
      BY <1>1, <1>4, <1>5, <2>2, NumbersTyped DEF Places, Work
    <3>2. job'[Gate].at = "idle"
      BY <1>7, <2>2, NumbersTyped
    <3>3. \A k \in Launches : job'[k].at \notin Work
      BY <1>9, NumbersTyped
    <3> QED BY <1>6, <3>1, <3>2, <3>3 DEF Places
  <2> QED BY <2>1, <2>2
<1>12. \A k \in Jobs : Fits(job[k], stamp, tree, tmp)'
  BY <1>3, <1>7, <1>8, IdleFits
<1> QED BY <1>10, <1>11, <1>12 DEF Whole

(* Only the gate's installation fails, and it leaves no manifest.            *)
LEMMA FailsWhole ==
    ASSUME WholeInv, NEW j \in Jobs, Fails(j)
    PROVE  Whole'
<1>1. /\ Typed /\ Steady(left) /\ Stamped /\ OneAtWork /\ Places /\ FirstOne
      /\ Fits(job[j], stamp, tree, tmp)
  BY DEF WholeInv, Whole, LibraryInv
<1>2. /\ job[j].at \in Work /\ Moved(j, Rest) /\ UNCHANGED <<remote, tree, library, stamp, tmp, left>>
      /\ gate' = IF j = Gate THEN "error" ELSE gate
  BY RestTyped DEF Fails, Work, Moved
<1>3. left.fails
  BY <1>1 DEF Fails, Fits
<1>4. ~left.launches /\ stamp = NoStamp
  BY <1>1, <1>2, <1>3 DEF Steady, FirstOne
<1>5. job'[j].at = "idle" /\ \A k \in Jobs \ {j} : job'[k] = job[k]
  BY <1>1, <1>2, Moves, RestTyped
<1>6. \A k \in Jobs : job'[k].at = "idle"
  BY <1>2, <1>5, OthersRest DEF Work
<1>7. j = Gate
  BY <1>1, <1>2, <1>4, NumbersTyped DEF Places, Work
<1>8. Places'
  BY <1>2, <1>6, <1>7, NumbersTyped DEF Places, Work
<1>9. Steady(left)' /\ Stamped' /\ OneAtWork' /\ Vouched' /\ FirstOne'
  BY <1>1, <1>2, <1>4, <1>6 DEF Steady, Stamped, OneAtWork, Vouched, FirstOne
<1>10. \A k \in Jobs : Fits(job[k], stamp, tree, tmp)'
  BY <1>6, IdleFits
<1> QED BY <1>8, <1>9, <1>10 DEF Whole

LEMMA RestartWhole ==
    ASSUME WholeInv, Restart
    PROVE  Whole'
<1>1. Typed /\ Steady(left) /\ Stamped /\ Vouched /\ FirstOne
  BY DEF WholeInv, Whole, LibraryInv
<1>2. /\ left.restarts > 0 /\ left' = [left EXCEPT !.restarts = @ - 1]
      /\ stamp' \in {stamp, NoStamp} /\ job' = [j \in Jobs |-> Rest] /\ gate' = "closed"
      /\ UNCHANGED <<remote, tree, library, tmp>>
  BY DEF Restart, Torn
<1>3. /\ left.restarts # 0 /\ left \in WorkloadRecords
      /\ left'.launches = left.launches /\ left'.empties = left.empties
  BY <1>1, <1>2 DEF Typed, WorkloadRecords
<1>4. ~left.launches /\ Steady(left)'
  BY <1>1, <1>3 DEF Steady
<1>5. \A k \in Jobs : job'[k].at = "idle"
  BY <1>2, RestTyped
<1>6. Stamped' /\ OneAtWork' /\ FirstOne'
  BY <1>1, <1>2, <1>5 DEF Stamped, OneAtWork, FirstOne, Work
<1>7. Vouched'
  BY <1>1, <1>2, <1>4 DEF Vouched, FirstOne
<1>8. Places'
  BY <1>2, <1>5, NumbersTyped DEF Places, Work
<1>9. \A k \in Jobs : Fits(job[k], stamp, tree, tmp)'
  BY <1>5, IdleFits
<1> QED BY <1>4, <1>6, <1>7, <1>8, <1>9 DEF Whole

LEMMA EditWhole ==
    ASSUME WholeInv, Edit
    PROVE  Whole'
<1>1. Typed /\ Whole
  BY DEF WholeInv, LibraryInv
<1>2. left' = [left EXCEPT !.edits = @ - 1] /\ UNCHANGED <<remote, tree, stamp, tmp, job, gate>>
  BY DEF Edit
<1>3. /\ left'.launches = left.launches /\ left'.empties = left.empties
      /\ left'.fails = left.fails /\ left'.restarts = left.restarts
  BY <1>1, <1>2 DEF Typed, WorkloadRecords
<1>4. Steady(left)' /\ Places'
  BY <1>1, <1>2, <1>3 DEF Whole, Steady, Places
<1> QED BY <1>1, <1>2, <1>3, <1>4 DEF Whole, Stamped, OneAtWork, Vouched, FirstOne

LEMMA GateOpensWhole ==
    ASSUME WholeInv, GateOpens
    PROVE  Whole'
<1>1. Typed /\ Whole /\ Places
  BY DEF WholeInv, LibraryInv, Whole
<1>2. /\ gate = "closed" /\ job[Gate].at = "idle" /\ stamp["library"] # NoEtag /\ gate' = "in"
      /\ UNCHANGED <<remote, tree, library, stamp, tmp, job, left>>
  BY DEF GateOpens, LibraryInstalled
<1>3. stamp # NoStamp
  BY <1>2, RestTyped DEF Archives
<1>4. Places'
  BY <1>1, <1>2, <1>3 DEF Places
<1> QED BY <1>1, <1>2, <1>4 DEF Whole, Steady, Stamped, OneAtWork, Vouched, FirstOne

LEMMA NextWhole ==
    ASSUME WholeInv, Next
    PROVE  Whole'
<1>1. CASE Publish
  <2>1. UNCHANGED <<tree, stamp, tmp, job, gate, left>>
    BY <1>1 DEF Publish
  <2> QED BY <2>1 DEF WholeInv, Whole, Steady, Stamped, OneAtWork, Places, Vouched, FirstOne
<1>2. CASE Edit \/ GateOpens \/ GateInstalls \/ Restart
  BY <1>2, EditWhole, GateOpensWhole, GateInstallsWhole, RestartWhole
<1>3. ASSUME NEW j \in Launches, LaunchInstalls(j) \/ LaunchRuns(j) \/ LaunchReturns(j)
      PROVE  Whole'
  BY <1>3, LaunchInstallsWhole, LaunchRunsWhole, LaunchReturnsWhole
<1>4. ASSUME NEW j \in Jobs, Decides(j) \/ LibraryIsCurrent(j) \/ Saves(j) \/ Fails(j)
      PROVE  Whole'
  BY <1>4, DecidesWhole, IsCurrentWhole, SavesWhole, FailsWhole
<1>5. ASSUME NEW j \in Jobs, NEW a \in Archives,
             Downloads(j, a) \/ Downloaded(j, a) \/ Opens(j, a) \/ Extracted(j, a)
      PROVE  Whole'
  BY <1>5, DownloadsWhole, DownloadedWhole, OpensWhole, ExtractedWhole
<1> QED BY <1>1, <1>2, <1>3, <1>4, <1>5 DEF Next

LEMMA WholeInit ==
    ASSUME \A w \in Workloads : Steady(w), Init
    PROVE  WholeInv
<1>1. LibraryInv
  BY LibraryInit
<1>2. /\ gate = "closed" /\ job = [j \in Jobs |-> Rest] /\ Steady(left)
      /\ \/ stamp = NoStamp
         \/ stamp = [a \in Archives |-> 1] /\ Good(tree, stamp["browser"])
  BY DEF Init, Good, Archives
<1>3. \A k \in Jobs : job[k].at = "idle"
  BY <1>2, RestTyped
<1>4. Stamped /\ OneAtWork /\ Vouched /\ FirstOne
  BY <1>2, <1>3, RestTyped DEF Stamped, OneAtWork, Vouched, FirstOne, Work, NoEtag
<1>5. Places
  BY <1>2, <1>3, NumbersTyped DEF Places, Work
<1>6. \A k \in Jobs : Fits(job[k], stamp, tree, tmp)
  BY <1>3, IdleFits
<1> QED BY <1>1, <1>2, <1>4, <1>5, <1>6 DEF WholeInv, Whole

(* The step that takes a launch to its browser.                              *)
LaunchStep ==
    \A j \in Launches : job'[j].at = "launched" /\ job[j].at # "launched" => tree.whole /\ ~tree.bad

LEMMA NextLaunches ==
    ASSUME WholeInv, Next
    PROVE  LaunchStep
<1> SUFFICES ASSUME NEW j \in Launches, job'[j].at = "launched", job[j].at # "launched"
             PROVE  tree.whole /\ ~tree.bad
  BY DEF LaunchStep
<1>1. Typed /\ j \in Jobs
  BY NumbersTyped DEF WholeInv, LibraryInv
<1>2. ASSUME NEW k, NEW r, Moved(k, r), r.at # "launched" PROVE FALSE
  BY <1>1, <1>2, Moves
<1>3. ~UNCHANGED job
  OBVIOUS
<1>4. Rest.at # "launched" /\ Restart => FALSE
  BY <1>1 DEF Restart
<1>5. ~Publish /\ ~Edit /\ ~GateOpens /\ ~Restart
  BY <1>3, <1>4, RestTyped DEF Publish, Edit, GateOpens
<1>6. ASSUME NEW k \in Jobs, NEW force \in BOOLEAN, Starts(k, force) PROVE FALSE
  <2>1. PICK r : Moved(k, r) /\ Begun(r, force)
    BY <1>1, <1>6, StartsMoves
  <2> QED BY <1>2, <2>1 DEF Begun
<1>7. ~GateInstalls /\ \A k \in Launches : ~LaunchInstalls(k)
  BY <1>6, NumbersTyped DEF GateInstalls, LaunchInstalls
<1>8. ASSUME NEW k \in Launches, LaunchReturns(k) PROVE FALSE
  <2>1. Moved(k, Rest)
    BY <1>8, NumbersTyped, RestTyped DEF LaunchReturns, Moved
  <2> QED BY <1>2, <2>1, RestTyped
<1>9. ASSUME NEW k \in Jobs, Decides(k) PROVE FALSE
  <2>1. PICK r : Moved(k, r) /\ Decided(k, r)
    BY <1>1, <1>9, DecidesMoves
  <2> QED BY <1>2, <2>1 DEF Decided
<1>10. ASSUME NEW k \in Jobs, LibraryIsCurrent(k) PROVE FALSE
  <2>1. PICK r : Moved(k, r) /\ Follows(k, r, "saving", "library")
    BY <1>1, <1>10, IsCurrentMoves
  <2> QED BY <1>2, <2>1 DEF Follows
<1>11. ASSUME NEW k \in Jobs, Saves(k) PROVE FALSE
  <2>1. PICK r : /\ Moved(k, r)
                 /\ k = Gate => r = Rest
                 /\ k # Gate => Follows(k, r, "launching", job[k].of)
    BY <1>1, <1>11, SavesMoves
  <2> QED BY <1>2, <2>1, RestTyped DEF Follows
<1>12. ASSUME NEW k \in Jobs, Fails(k) PROVE FALSE
  <2>1. Moved(k, Rest)
    BY <1>12, RestTyped DEF Fails, Moved
  <2> QED BY <1>2, <2>1, RestTyped
<1>13. ASSUME NEW k \in Jobs, NEW a \in Archives, Downloads(k, a) PROVE FALSE
  <2>1. PICK r : Moved(k, r) /\ Noted(k, r, a)
    BY <1>1, <1>13, DownloadsMoves
  <2> QED BY <1>2, <2>1 DEF Noted, Follows
<1>14. ASSUME NEW k \in Jobs, NEW a \in Archives, Downloaded(k, a) PROVE FALSE
  <2>1. PICK r : Moved(k, r) /\ Follows(k, r, "opening", a)
    BY <1>1, <1>14, DownloadedMoves
  <2> QED BY <1>2, <2>1 DEF Follows
<1>15. ASSUME NEW k \in Jobs, NEW a \in Archives, Opens(k, a) PROVE FALSE
  <2>1. PICK r : Moved(k, r) /\ Follows(k, r, "extracting", a)
    BY <1>1, <1>15, OpensMoves
  <2> QED BY <1>2, <2>1 DEF Follows
<1>16. ASSUME NEW k \in Jobs, NEW a \in Archives, Extracted(k, a) PROVE FALSE
  <2>1. PICK r : Moved(k, r) /\ AfterArchive(k, r, a)
    BY <1>1, <1>16, ExtractedMoves
  <2> QED BY <1>2, <2>1 DEF AfterArchive, Follows, Archives
<1>17. \E k \in Launches : LaunchRuns(k)
  BY <1>5, <1>7, <1>8, <1>9, <1>10, <1>11, <1>12, <1>13, <1>14, <1>15, <1>16 DEF Next
<1> QED BY <1>17, LaunchRunsWhole

LEMMA WholeStep ==
    ASSUME WholeInv, [Next]_vars
    PROVE  WholeInv' /\ [LaunchStep]_vars
<1>1. CASE Next
  BY <1>1, NextWhole, NextLaunches, LibraryStep DEF WholeInv
<1>2. CASE UNCHANGED vars
  <2>1. Whole'
    BY <1>2 DEF vars, WholeInv, Whole, Steady, Stamped, OneAtWork, Places, Vouched, FirstOne
  <2> QED BY <1>2, <2>1, LibraryStep DEF WholeInv
<1> QED BY <1>1, <1>2

LEMMA WholeInvariant ==
    ASSUME \A w \in Workloads : Steady(w)
    PROVE  Spec => []WholeInv
<1>1. Init => WholeInv
  BY WholeInit
<1>2. WholeInv /\ [Next]_vars => WholeInv'
  BY WholeStep
<1> QED BY <1>1, <1>2, PTL DEF Spec

(* However often the first installation fails or is ended at a step, the     *)
(* window lets the user in to whole browsers only, and a manifest that names *)
(* the published browser is beside all of it (runtime_status,                *)
(* runtime_install of runtime.rs, App.tsx); so it is where one launch at a   *)
(* time installs a damaged browser again.                                    *)
THEOREM InstallationsAreWhole ==
    ASSUME \A w \in Workloads : Steady(w)
    PROVE  Spec => []InstalledWhole
<1>1. WholeInv => InstalledWhole
  <2> SUFFICES ASSUME WholeInv PROVE InstalledWhole
    OBVIOUS
  <2>1. Typed /\ Stamped /\ Places /\ Vouched
    BY DEF WholeInv, Whole, LibraryInv
  <2>2. TypeOK
    BY <2>1 DEF TypeOK, Typed, Stamped, JobRecords, Trees, Etags
  <2>3. (\A j \in Jobs : job[j].at = "idle") => \A j \in Jobs : job[j].at \notin Work
    BY DEF Work
  <2>4. GateWhole
    BY <2>1, <2>3 DEF GateWhole, Places, Vouched, Good
  <2>5. stamp["browser"] = remote => stamp # NoStamp
    BY <2>1, NumbersTyped, RestTyped DEF Typed, Archives
  <2>6. StampWhole
    BY <2>1, <2>3, <2>5 DEF StampWhole, Vouched, Good
  <2> QED BY <2>2, <2>4, <2>6 DEF InstalledWhole
<1> QED BY <1>1, WholeInvariant, PTL

(* A launch starts a whole browser and no damaged one: a damaged browser has *)
(* been installed again before, whatever its manifest says (launch of        *)
(* lib.rs).                                                                  *)
THEOREM LaunchesAreWhole ==
    ASSUME \A w \in Workloads : Steady(w)
    PROVE  Spec => LaunchWhole
<1>1. WholeInv /\ [Next]_vars =>
          [\A j \in Launches : job'[j].at = "launched" /\ job[j].at # "launched" =>
               tree.whole /\ ~tree.bad]_vars
  BY WholeStep DEF LaunchStep
<1> QED BY <1>1, WholeInvariant, PTL DEF Spec, LaunchWhole
=============================================================================
