--------------------------- MODULE LaunchPlanProofs ---------------------------
(***************************************************************************)
(* Theorems about LaunchPlan and ProxyStore, for any number of proxies,      *)
(* exits and commands, any cap of the histories and any workload.            *)
(***************************************************************************)
EXTENDS LaunchPlan, TLAPS

(* What the two files hold, and so a copy of one.                            *)
Lists == UNION {[S -> Entries] : S \in SUBSET Ids}

Histories == UNION {[S -> Seq(Snapshots) \ {<<>>}] : S \in SUBSET Ids}

Copies == Lists \cup Histories

Places == Critical \cup {"idle", "reading", "probing", "recording"}

Operations == {"none", "save", "add", "bulk", "delete", "test"}

CommandRecords ==
    [at : Places, op : Operations, id : Ids \cup {NoExit}, entry : Entries \cup {NoExit},
     copy : Copies, snap : Snapshots \cup {NoExit}]

WritesList(c) == cmd[c].at \in {"writing", "torn"}

WritesHistory(c) == cmd[c].at \in {"hwriting", "htorn"}

(* A command under way has an id; the copy it holds is one of the file it    *)
(* is writing; a test that is over has a snapshot.                           *)
CommandOK(c) ==
    /\ cmd[c].at # "idle" => cmd[c].id \in Ids
    /\ cmd[c].at = "reading" =>
           \/ cmd[c].op \in {"save", "add", "bulk"} /\ cmd[c].entry \in Entries
           \/ cmd[c].op = "delete"
           \/ cmd[c].op = "test" /\ cmd[c].snap \in Snapshots
    /\ cmd[c].at = "probing" => cmd[c].op = "test"
    /\ cmd[c].at = "recording" \/ WritesHistory(c) =>
           \/ cmd[c].op = "delete"
           \/ cmd[c].op = "test" /\ cmd[c].snap \in Snapshots
    /\ WritesList(c) => cmd[c].copy \in Lists
    /\ WritesHistory(c) => cmd[c].copy \in Histories

StoreType ==
    /\ left \in WorkloadRecords
    /\ proxies \in Lists /\ history \in Histories
    /\ cmd \in [Commands -> CommandRecords] /\ \A c \in Commands : CommandOK(c)
    /\ kept \subseteq Ids /\ tested \subseteq Ids /\ gone \subseteq Ids \ kept

(* The shape of one history, and of every copy on its way to the file.       *)
Shaped(seq) ==
    /\ Len(seq) <= MaxSnaps
    /\ \A n \in 1 .. Len(seq) - 1 : seq[n].ip = NoExit \/ seq[n].ip # seq[n + 1].ip

AllShaped(f) == \A i \in DOMAIN f : Shaped(f[i])

ShapeInv ==
    /\ AllShaped(history)
    /\ \A c \in Commands : WritesHistory(c) => AllShaped(cmd[c].copy)

(* Threads come between no read and its write, and no write is cut short.    *)
Coarse == ~left.fine /\ ~left.restarts

OneWorks == \A c, d \in Commands : Working(c) /\ Working(d) => c = d

(* What a command adds to the list, or to the history, when it is written.   *)
Enters(c) == IF cmd[c].op \in {"save", "add", "bulk"} THEN {cmd[c].id} \cap DOMAIN cmd[c].copy ELSE {}

Tests(c) == IF cmd[c].op = "test" THEN {cmd[c].id} ELSE {}

(* The list is what was saved and not deleted, or else the copy that is      *)
(* being written is.                                                         *)
ListKept ==
    /\ (\A c \in Commands : ~WritesList(c)) => DOMAIN proxies = kept
    /\ \A c \in Commands : WritesList(c) => DOMAIN cmd[c].copy = kept \cup Enters(c)

TestsHeld ==
    /\ (\A c \in Commands : ~WritesHistory(c)) => tested \subseteq DOMAIN history
    /\ \A c \in Commands : WritesHistory(c) => tested \cup Tests(c) \subseteq DOMAIN cmd[c].copy
    /\ \A c \in Commands : Working(c) /\ cmd[c].op = "delete" => cmd[c].id \notin tested

(* One command at a time: only the deletion under way has left a history.    *)
Deletes(c) == Working(c) /\ cmd[c].op = "delete"

InTurnInv ==
    /\ \A c, d \in Commands : At(c, "idle") \/ At(d, "idle") \/ c = d
    /\ \A c \in Commands : ~At(c, "idle") /\ cmd[c].op = "test" => cmd[c].id \notin gone
    /\ \A c \in Commands : WritesHistory(c) => DOMAIN cmd[c].copy \cap gone = {}
    /\ \A i \in DOMAIN history \cap gone : \E c \in Commands : Deletes(c) /\ cmd[c].id = i

CoarseInv == Coarse => OneWorks /\ ListKept /\ TestsHeld /\ (left.alone => InTurnInv)

StoreInv == StoreType /\ ShapeInv /\ CoarseInv

(* The launch.                                                               *)
PlanRecords ==
    [at : {"idle", "udp", "geo", "webrtc", "started"}, bound : Ids \cup {NoProxy, Inline},
     kept : BOOLEAN, proxy : Entries \cup {NoProxy}, live : BOOLEAN, udp : BOOLEAN,
     zone : Exits \cup {Host, Default}, locale : Exits \cup {Host, Default},
     webrtc : {"none", "native", "relay", "tcp_only", "block"}, ip : Exits \cup {NoExit}]

PlanInv ==
    /\ binding \in Ids \cup {NoProxy, Inline}
    /\ plan \in PlanRecords
    /\ Coarse /\ plan.at # "idle" /\ plan.kept => Proxied
    /\ plan.at \in {"webrtc", "started"} /\ Proxied /\ plan.proxy.country \in Exits \ NoZone
           => /\ plan.zone \in Exits \/ (NoExit \in Answers /\ plan.zone = Default)
              /\ plan.locale # Host

-----------------------------------------------------------------------------
(* The types.                                                                *)

LEMMA ListTyped ==
    /\ \A f \in Lists : DOMAIN f \subseteq Ids /\ \A i \in DOMAIN f : f[i] \in Entries
    /\ \A S \in SUBSET Ids : \A f \in [S -> Entries] : f \in Lists
BY DEF Lists

LEMMA HistoryTyped ==
    /\ \A f \in Histories :
           DOMAIN f \subseteq Ids /\ \A i \in DOMAIN f : f[i] \in Seq(Snapshots) \ {<<>>}
    /\ \A S \in SUBSET Ids : \A f \in [S -> Seq(Snapshots) \ {<<>>}] : f \in Histories
BY DEF Histories

LEMMA EmptyTyped == Empty \in Lists /\ Empty \in Histories /\ DOMAIN Empty = {}
<1>1. Empty \in [{} -> Entries] /\ Empty \in [{} -> Seq(Snapshots) \ {<<>>}]
  BY DEF Empty
<1>2. {} \in SUBSET Ids
  OBVIOUS
<1> QED BY <1>1, <1>2, ListTyped, HistoryTyped

LEMMA RestTyped == Rest \in CommandRecords
BY EmptyTyped DEF Rest, CommandRecords, Places, Operations, Copies

(* A step that changes one command has only that one to account for.         *)
LEMMA OthersOK ==
    ASSUME StoreType, NEW c \in Commands, NEW r \in CommandRecords,
           cmd' = [cmd EXCEPT ![c] = r], CommandOK(c)'
    PROVE  cmd' \in [Commands -> CommandRecords] /\ \A d \in Commands : CommandOK(d)'
<1>1. cmd' \in [Commands -> CommandRecords]
  BY DEF StoreType
<1>2. ASSUME NEW d \in Commands, d # c PROVE CommandOK(d)'
  <2>1. cmd'[d] = cmd[d] /\ CommandOK(d)
    BY <1>2 DEF StoreType
  <2> QED BY <2>1 DEF CommandOK, WritesList, WritesHistory
<1> QED BY <1>1, <1>2

LEMMA EndsOK ==
    ASSUME StoreType, NEW c \in Commands, Ends(c)
    PROVE  cmd' \in [Commands -> CommandRecords] /\ \A d \in Commands : CommandOK(d)'
<1>1. cmd'[c] = Rest /\ CommandOK(c)'
  BY DEF Ends, StoreType, CommandOK, Rest, WritesList, WritesHistory
<1> QED BY <1>1, OthersOK, RestTyped DEF Ends

(* A piece of a sequence.                                                    *)
LEMMA PieceOfSeq ==
    ASSUME NEW S, NEW seq \in Seq(S), NEW m \in 1 .. Len(seq) + 1, NEW n \in 0 .. Len(seq),
           m - 1 <= n
    PROVE  /\ SubSeq(seq, m, n) \in Seq(S) /\ Len(SubSeq(seq, m, n)) = n - m + 1
           /\ \A i \in 1 .. n - m + 1 : SubSeq(seq, m, n)[i] = seq[i + m - 1]
OBVIOUS

(* What record_test adds keeps a history in its shape.                       *)
LEMMA RecordedShaped ==
    ASSUME NEW seq \in Seq(Snapshots), NEW s \in Snapshots, Shaped(seq)
    PROVE  /\ Recorded(seq, s) \in Seq(Snapshots) \ {<<>>}
           /\ Shaped(Recorded(seq, s))
<1> DEFINE all == Append(seq, s)
           k == IF Len(all) > MaxSnaps THEN Len(all) - MaxSnaps + 1 ELSE 1
<1>1. MaxSnaps \in Nat \ {0}
  BY ProxyStoreAssumption
<1>2. /\ all \in Seq(Snapshots) /\ Len(all) = Len(seq) + 1 /\ Len(seq) \in Nat
      /\ \A n \in 1 .. Len(seq) : all[n] = seq[n]
      /\ all[Len(all)] = s
  OBVIOUS
<1>3. CASE seq # <<>> /\ s.ip # NoExit /\ Last(seq).ip = s.ip
  <2> DEFINE new == Append(Front(seq), s)
  <2>1. Len(seq) \in Nat \ {0} /\ Recorded(seq, s) = new
    BY <1>3 DEF Recorded
  <2>2. /\ Front(seq) \in Seq(Snapshots) /\ Len(Front(seq)) = Len(seq) - 1
        /\ \A n \in 1 .. Len(seq) - 1 : Front(seq)[n] = seq[n]
    <3>1. Front(seq) = SubSeq(seq, 1, Len(seq) - 1) /\ Len(seq) - 1 \in 0 .. Len(seq)
      BY <2>1 DEF Front
    <3>2. 1 \in 1 .. Len(seq) + 1 /\ (Len(seq) - 1) - 1 + 1 = Len(seq) - 1
      BY <2>1
    <3> QED BY <2>1, <3>1, <3>2, PieceOfSeq
  <2>3. /\ new \in Seq(Snapshots) /\ Len(new) = Len(seq)
        /\ \A n \in 1 .. Len(seq) - 1 : new[n] = seq[n]
        /\ new[Len(seq)] = s
    BY <2>1, <2>2
  <2>4. s.ip = seq[Len(seq)].ip
    BY <1>3 DEF Last
  <2>5. ASSUME NEW n \in 1 .. Len(new) - 1
        PROVE  new[n].ip = NoExit \/ new[n].ip # new[n + 1].ip
    <3>1. n \in 1 .. Len(seq) - 1 /\ (seq[n].ip = NoExit \/ seq[n].ip # seq[n + 1].ip)
      BY <2>3, <2>5 DEF Shaped
    <3>2. new[n + 1].ip = seq[n + 1].ip
      BY <3>1, <2>1, <2>3, <2>4
    <3> QED BY <3>1, <3>2, <2>3
  <2> QED BY <2>1, <2>3, <2>5 DEF Shaped
<1>4. CASE ~(seq # <<>> /\ s.ip # NoExit /\ Last(seq).ip = s.ip)
  <2>1. Recorded(seq, s) = SubSeq(all, k, Len(all))
    BY <1>4 DEF Recorded
  <2>2. k \in 1 .. Len(all) /\ Len(all) - k + 1 <= MaxSnaps
    BY <1>1, <1>2
  <2> HIDE DEF all, k
  <2> DEFINE new == SubSeq(all, k, Len(all))
  <2>3. /\ new \in Seq(Snapshots) /\ Len(new) = Len(all) - k + 1
        /\ \A n \in 1 .. Len(all) - k + 1 : new[n] = all[n + k - 1]
    BY <1>2, <2>2
  <2>4. new # <<>>
    <3>1. Len(new) # 0
      BY <2>2, <2>3, <1>2
    <3> HIDE DEF new
    <3> QED BY <3>1
  <2>5. ASSUME NEW m \in 1 .. Len(all) - 1
        PROVE  all[m].ip = NoExit \/ all[m].ip # all[m + 1].ip
    <3>1. CASE m = Len(seq)
      <4>1. seq # <<>> /\ all[m] = Last(seq) /\ all[m + 1] = s
        BY <3>1, <1>2, <2>5 DEF Last
      <4> QED BY <4>1, <1>4
    <3>2. CASE m # Len(seq)
      <4>1. m \in 1 .. Len(seq) - 1 /\ m + 1 \in 1 .. Len(seq)
        BY <3>2, <1>2, <2>5
      <4> QED BY <4>1, <1>2 DEF Shaped
    <3> QED BY <3>1, <3>2
  <2>6. ASSUME NEW n \in 1 .. Len(new) - 1
        PROVE  new[n].ip = NoExit \/ new[n].ip # new[n + 1].ip
    <3>1. n + k - 1 \in 1 .. Len(all) - 1 /\ new[n] = all[n + k - 1] /\ new[n + 1] = all[n + k]
      BY <2>2, <2>3, <1>2, <2>6
    <3>2. (n + k - 1) + 1 = n + k
      BY <2>2, <1>2
    <3> QED BY <3>1, <3>2, <2>5
  <2> QED BY <2>1, <2>2, <2>3, <2>4, <2>6, <1>1 DEF Shaped
<1> QED BY <1>3, <1>4

-----------------------------------------------------------------------------
(* Every step keeps the types.                                               *)

LEMMA OfferedEntries == Offered \subseteq Entries
BY DEF Offered

(* A command asked for starts from Rest.                                     *)
LEMMA AskedTyped ==
    ASSUME NEW i \in Ids, NEW e \in Entries \cup {NoExit}, NEW at \in Places, NEW op \in Operations
    PROVE  /\ [Rest EXCEPT !.at = at, !.op = op, !.id = i, !.entry = e] \in CommandRecords
           /\ [Rest EXCEPT !.at = at, !.op = op, !.id = i] \in CommandRecords
BY RestTyped DEF CommandRecords, Rest

LEMMA AsksType ==
    ASSUME StoreType, NEW c \in Commands, Asks(c)
    PROVE  StoreType'
<1>1. PICK op \in {"save", "add", "bulk"}, e \in Offered, i \in Ids :
          cmd' = [cmd EXCEPT ![c] = [Rest EXCEPT !.at = "reading", !.op = op, !.id = i, !.entry = e]]
  BY DEF Asks
<1> DEFINE r == [Rest EXCEPT !.at = "reading", !.op = op, !.id = i, !.entry = e]
<1>2. r \in CommandRecords /\ e \in Entries
  BY OfferedEntries, AskedTyped DEF Places, Operations
<1>3. cmd'[c] = r
  BY <1>1 DEF StoreType
<1>4. CommandOK(c)'
  BY <1>2, <1>3 DEF CommandOK, WritesList, WritesHistory, Rest
<1>5. cmd' \in [Commands -> CommandRecords] /\ \A d \in Commands : CommandOK(d)'
  BY <1>1, <1>2, <1>4, OthersOK
<1> QED BY <1>5 DEF StoreType, Asks

LEMMA AsksDeleteType ==
    ASSUME StoreType, NEW c \in Commands, AsksDelete(c)
    PROVE  StoreType'
<1>1. PICK i \in DOMAIN proxies :
          cmd' = [cmd EXCEPT ![c] = [Rest EXCEPT !.at = "reading", !.op = "delete", !.id = i]]
  BY DEF AsksDelete
<1> DEFINE r == [Rest EXCEPT !.at = "reading", !.op = "delete", !.id = i]
<1>2. i \in Ids
  BY ListTyped DEF StoreType
<1>3. r \in CommandRecords
  BY <1>2, AskedTyped DEF Places, Operations
<1>4. cmd'[c] = r
  BY <1>1 DEF StoreType
<1>5. CommandOK(c)'
  BY <1>2, <1>4 DEF CommandOK, WritesList, WritesHistory, Rest
<1>6. cmd' \in [Commands -> CommandRecords] /\ \A d \in Commands : CommandOK(d)'
  BY <1>1, <1>3, <1>5, OthersOK
<1> QED BY <1>6 DEF StoreType, AsksDelete

LEMMA AsksTestType ==
    ASSUME StoreType, NEW c \in Commands, AsksTest(c)
    PROVE  StoreType'
<1>1. PICK i \in Ids, e \in Offered :
          /\ cmd' = [cmd EXCEPT ![c] = [Rest EXCEPT !.at = "probing", !.op = "test", !.id = i, !.entry = e]]
          /\ gone' = IF Unused(i) THEN gone \ {i} ELSE gone
  BY DEF AsksTest
<1> DEFINE r == [Rest EXCEPT !.at = "probing", !.op = "test", !.id = i, !.entry = e]
<1>2. r \in CommandRecords
  BY OfferedEntries, AskedTyped DEF Places, Operations
<1>3. cmd'[c] = r
  BY <1>1 DEF StoreType
<1>4. CommandOK(c)'
  BY <1>3 DEF CommandOK, WritesList, WritesHistory, Rest
<1>5. cmd' \in [Commands -> CommandRecords] /\ \A d \in Commands : CommandOK(d)'
  BY <1>1, <1>2, <1>4, OthersOK
<1>6. left' \in WorkloadRecords
  BY DEF AsksTest, StoreType, WorkloadRecords
<1> QED BY <1>1, <1>5, <1>6 DEF StoreType, AsksTest

LEMMA ProbedType ==
    ASSUME StoreType, NEW c \in Commands, Probed(c)
    PROVE  StoreType'
<1>1. PICK s \in Snapshots : cmd' = [cmd EXCEPT ![c].at = "recording", ![c].snap = s]
  BY DEF Probed
<1> DEFINE r == [cmd[c] EXCEPT !.at = "recording", !.snap = s]
<1>2. r \in CommandRecords /\ cmd' = [cmd EXCEPT ![c] = r] /\ cmd'[c] = r
  BY <1>1 DEF StoreType, CommandRecords, Places
<1>3. CommandOK(c)'
  BY <1>2 DEF CommandOK, WritesList, WritesHistory, StoreType, Probed, At, CommandRecords
<1>4. cmd' \in [Commands -> CommandRecords] /\ \A d \in Commands : CommandOK(d)'
  BY <1>2, <1>3, OthersOK
<1> QED BY <1>4 DEF StoreType, Probed

(* What a command makes of the list is a list.                               *)
LEMMA ChangedIsList ==
    ASSUME StoreType, NEW c \in Commands, At(c, "reading")
    PROVE  Changed(c) \in Lists
<1>1. /\ cmd[c] \in CommandRecords /\ cmd[c].id \in Ids /\ CommandOK(c)
      /\ proxies \in Lists /\ DOMAIN proxies \subseteq Ids
      /\ \A i \in DOMAIN proxies : proxies[i] \in Entries
  BY ListTyped DEF StoreType, CommandOK, At
<1>2. CASE cmd[c].op \in {"save", "add", "bulk"}
  <2>1. cmd[c].entry \in Entries
    BY <1>1, <1>2 DEF CommandOK, At
  <2> DEFINE new == [i \in DOMAIN proxies \cup {cmd[c].id} |->
                        IF i = cmd[c].id THEN cmd[c].entry ELSE proxies[i]]
  <2>2. Changed(c) = new \/ Changed(c) = proxies
    BY <1>2 DEF Changed
  <2>3. new \in [DOMAIN proxies \cup {cmd[c].id} -> Entries]
    BY <1>1, <2>1
  <2> QED BY <2>2, <2>3, <1>1, ListTyped
<1>3. CASE cmd[c].op = "delete"
  <2>1. Changed(c) = [i \in DOMAIN proxies \ {cmd[c].id} |-> proxies[i]]
    BY <1>3 DEF Changed, Restrict
  <2>2. Changed(c) \in [DOMAIN proxies \ {cmd[c].id} -> Entries]
    BY <2>1, <1>1
  <2> QED BY <2>2, <1>1, ListTyped
<1>4. CASE cmd[c].op = "test"
  <2>1. cmd[c].snap \in Snapshots
    BY <1>1, <1>4 DEF CommandOK, At
  <2>2. Tagged(c) \in [DOMAIN proxies -> Entries]
    BY <2>1, <1>1 DEF Tagged, Snapshots, Entries
  <2> QED BY <2>2, <1>1, <1>4, ListTyped DEF Changed
<1> QED BY <1>1, <1>2, <1>3, <1>4 DEF CommandOK, At

LEMMA ReadsType ==
    ASSUME StoreType, NEW c \in Commands, Reads(c)
    PROVE  StoreType'
<1>1. cmd' \in [Commands -> CommandRecords] /\ \A d \in Commands : CommandOK(d)'
  <2>1. CASE Writes(c)
    <3> DEFINE r == [cmd[c] EXCEPT !.at = "writing", !.copy = Changed(c)]
    <3>1. cmd[c] \in CommandRecords /\ At(c, "reading") /\ cmd[c].id \in Ids
      BY DEF StoreType, Reads, CommandOK, At
    <3>2. Changed(c) \in Lists
      BY <3>1, ChangedIsList
    <3>3. r \in CommandRecords /\ cmd' = [cmd EXCEPT ![c] = r] /\ cmd'[c] = r
      BY <2>1, <3>1, <3>2 DEF StoreType, CommandRecords, Places, Critical, Reads, Copies
    <3>4. cmd'[c].at = "writing" /\ cmd'[c].id \in Ids /\ cmd'[c].copy \in Lists
      BY <3>1, <3>2, <3>3 DEF CommandRecords
    <3>5. CommandOK(c)'
      BY <3>4 DEF CommandOK, WritesList, WritesHistory
    <3> QED BY <3>3, <3>5, OthersOK
  <2>2. CASE ~Writes(c)
    BY <2>2, EndsOK DEF Reads
  <2> QED BY <2>1, <2>2
<1>2. (IF cmd[c].op = "delete" THEN {cmd[c].id} ELSE {}) \subseteq Ids
  BY DEF Reads, At, StoreType, CommandOK
<1>3. kept' \subseteq Ids /\ tested' \subseteq Ids /\ gone' \subseteq Ids \ kept'
  BY <1>2 DEF Reads, StoreType
<1> QED BY <1>1, <1>3 DEF StoreType, Reads

(* A command that goes on to the next place keeps its record.                *)
LEMMA GoesTyped ==
    ASSUME StoreType, NEW c \in Commands, NEW at \in Places, Goes(c, at)
    PROVE  /\ [cmd[c] EXCEPT !.at = at] \in CommandRecords
           /\ cmd' = [cmd EXCEPT ![c] = [cmd[c] EXCEPT !.at = at]]
           /\ cmd'[c] = [cmd[c] EXCEPT !.at = at]
BY DEF StoreType, CommandRecords, Goes

LEMMA TruncatesType ==
    ASSUME StoreType, NEW c \in Commands, Truncates(c)
    PROVE  StoreType'
<1>1. cmd[c] \in CommandRecords /\ CommandOK(c) /\ cmd[c].at = "writing"
  BY DEF Truncates, StoreType, At
<1>2. "torn" \in Places /\ Goes(c, "torn")
  BY DEF Truncates, Places, Critical
<1>3. cmd'[c] = [cmd[c] EXCEPT !.at = "torn"]
  BY <1>2, GoesTyped
<1>4. CommandOK(c)'
  BY <1>1, <1>3 DEF CommandOK, WritesList, WritesHistory, CommandRecords
<1>5. cmd' \in [Commands -> CommandRecords] /\ \A d \in Commands : CommandOK(d)'
  BY <1>2, <1>4, GoesTyped, OthersOK
<1> QED BY <1>5, EmptyTyped DEF StoreType, Truncates

LEMMA WrittenType ==
    ASSUME StoreType, NEW c \in Commands, Written(c)
    PROVE  StoreType'
<1>1. /\ cmd[c] \in CommandRecords /\ CommandOK(c) /\ cmd[c].at = "torn"
      /\ cmd[c].copy \in Lists /\ cmd[c].id \in Ids
  BY DEF Written, StoreType, At, CommandOK, WritesList
<1>2. cmd' \in [Commands -> CommandRecords] /\ \A d \in Commands : CommandOK(d)'
  <2>1. CASE cmd[c].op = "delete"
    <3>1. "recording" \in Places /\ Goes(c, "recording")
      BY <2>1 DEF Written, Places
    <3>2. cmd'[c] = [cmd[c] EXCEPT !.at = "recording"]
      BY <3>1, GoesTyped
    <3>3. CommandOK(c)'
      BY <1>1, <2>1, <3>2 DEF CommandOK, WritesList, WritesHistory, CommandRecords
    <3> QED BY <3>1, <3>3, GoesTyped, OthersOK
  <2>2. CASE cmd[c].op # "delete"
    BY <2>2, EndsOK DEF Written
  <2> QED BY <2>1, <2>2
<1>3. kept' \subseteq Ids /\ gone' \subseteq Ids \ kept'
  BY <1>1 DEF Written, StoreType
<1> QED BY <1>1, <1>2, <1>3 DEF StoreType, Written

(* The copy of the history that a test or a deletion writes.                 *)
LEMMA HistoryCopied ==
    ASSUME StoreType, NEW c \in Commands, HistoryReads(c), AllShaped(history)
    PROVE  \/ Ends(c) /\ cmd[c].op = "delete" /\ cmd[c].id \notin DOMAIN history
           \/ /\ \/ cmd[c].op = "test" /\ DOMAIN cmd'[c].copy = DOMAIN history \cup {cmd[c].id}
                 \/ cmd[c].op = "delete" /\ DOMAIN cmd'[c].copy = DOMAIN history \ {cmd[c].id}
              /\ cmd'[c].copy \in Histories /\ AllShaped(cmd'[c].copy)
              /\ cmd' = [cmd EXCEPT ![c].at = "hwriting", ![c].copy = cmd'[c].copy]
<1>1. /\ cmd[c] \in CommandRecords /\ CommandOK(c) /\ cmd[c].at = "recording" /\ cmd[c].id \in Ids
      /\ history \in Histories /\ DOMAIN history \subseteq Ids
      /\ \A i \in DOMAIN history : history[i] \in Seq(Snapshots) \ {<<>>}
  BY HistoryTyped DEF HistoryReads, StoreType, At, CommandOK
<1>2. CASE cmd[c].op = "test"
  <2> DEFINE new == [i \in DOMAIN history \cup {cmd[c].id} |->
                        IF i = cmd[c].id THEN Recorded(Of(i), cmd[c].snap) ELSE history[i]]
  <2>1. cmd' = [cmd EXCEPT ![c].at = "hwriting", ![c].copy = new]
    BY <1>2 DEF HistoryReads
  <2>2. cmd[c].snap \in Snapshots
    BY <1>1, <1>2 DEF CommandOK
  <2>3. Of(cmd[c].id) \in Seq(Snapshots) /\ Shaped(Of(cmd[c].id))
    <3>1. CASE cmd[c].id \in DOMAIN history
      BY <3>1, <1>1 DEF Of, AllShaped
    <3>2. CASE cmd[c].id \notin DOMAIN history
      <4>1. Of(cmd[c].id) = <<>>
        BY <3>2 DEF Of
      <4> QED BY <4>1, ProxyStoreAssumption DEF Shaped
    <3> QED BY <3>1, <3>2
  <2>4. /\ Recorded(Of(cmd[c].id), cmd[c].snap) \in Seq(Snapshots) \ {<<>>}
        /\ Shaped(Recorded(Of(cmd[c].id), cmd[c].snap))
    BY <2>2, <2>3, RecordedShaped
  <2>5. new \in [DOMAIN history \cup {cmd[c].id} -> Seq(Snapshots) \ {<<>>}]
    BY <1>1, <2>4
  <2>6. new \in Histories
    BY <1>1, <2>5, HistoryTyped
  <2>7. AllShaped(new)
    BY <2>4 DEF AllShaped
  <2>8. cmd'[c].copy = new
    BY <2>1, <1>1 DEF StoreType, CommandRecords
  <2>9. DOMAIN new = DOMAIN history \cup {cmd[c].id}
    OBVIOUS
  <2> HIDE DEF new
  <2> QED BY <1>2, <2>1, <2>6, <2>7, <2>8, <2>9
<1>3. CASE cmd[c].op = "delete" /\ cmd[c].id \in DOMAIN history
  <2> DEFINE new == Restrict(history, DOMAIN history \ {cmd[c].id})
  <2>1. cmd' = [cmd EXCEPT ![c].at = "hwriting", ![c].copy = new]
    BY <1>3 DEF HistoryReads
  <2>2. new = [i \in DOMAIN history \ {cmd[c].id} |-> history[i]]
    BY DEF Restrict
  <2>3. new \in [DOMAIN history \ {cmd[c].id} -> Seq(Snapshots) \ {<<>>}]
    BY <1>1, <2>2
  <2>4. new \in Histories
    BY <1>1, <2>3, HistoryTyped
  <2>5. AllShaped(new) /\ DOMAIN new = DOMAIN history \ {cmd[c].id}
    BY <2>2 DEF AllShaped
  <2>6. cmd'[c].copy = new
    BY <2>1, <1>1 DEF StoreType, CommandRecords
  <2> HIDE DEF new
  <2> QED BY <1>3, <2>1, <2>4, <2>5, <2>6
<1>4. CASE ~(cmd[c].op = "test") /\ ~(cmd[c].op = "delete" /\ cmd[c].id \in DOMAIN history)
  <2>1. cmd[c].op = "delete" /\ cmd[c].id \notin DOMAIN history
    BY <1>1, <1>4 DEF CommandOK
  <2>2. Ends(c)
    BY <1>4 DEF HistoryReads
  <2> QED BY <2>1, <2>2
<1> QED BY <1>2, <1>3, <1>4

LEMMA HistoryReadsType ==
    ASSUME StoreType, AllShaped(history), NEW c \in Commands, HistoryReads(c)
    PROVE  StoreType'
<1>1. cmd[c] \in CommandRecords /\ CommandOK(c) /\ cmd[c].at = "recording" /\ cmd[c].id \in Ids
  BY DEF HistoryReads, StoreType, At, CommandOK
<1>2. CASE Ends(c)
  BY <1>2, EndsOK DEF StoreType, HistoryReads
<1>3. CASE ~Ends(c)
  <2> DEFINE new == cmd'[c].copy
             r == [cmd[c] EXCEPT !.at = "hwriting", !.copy = new]
  <2>1. new \in Histories /\ cmd' = [cmd EXCEPT ![c].at = "hwriting", ![c].copy = new]
    BY <1>3, HistoryCopied
  <2>2. r \in CommandRecords /\ cmd' = [cmd EXCEPT ![c] = r] /\ cmd'[c] = r
    BY <1>1, <2>1 DEF StoreType, CommandRecords, Places, Critical, Copies
  <2>3. CommandOK(c)'
    BY <1>1, <2>1, <2>2 DEF CommandOK, WritesList, WritesHistory, CommandRecords
  <2>4. cmd' \in [Commands -> CommandRecords] /\ \A d \in Commands : CommandOK(d)'
    BY <2>2, <2>3, OthersOK
  <2> QED BY <2>4 DEF StoreType, HistoryReads
<1> QED BY <1>2, <1>3

LEMMA HistoryTruncatesType ==
    ASSUME StoreType, NEW c \in Commands, HistoryTruncates(c)
    PROVE  StoreType'
<1>1. cmd[c] \in CommandRecords /\ CommandOK(c) /\ cmd[c].at = "hwriting"
  BY DEF HistoryTruncates, StoreType, At
<1>2. "htorn" \in Places /\ Goes(c, "htorn")
  BY DEF HistoryTruncates, Places, Critical
<1>3. cmd'[c] = [cmd[c] EXCEPT !.at = "htorn"]
  BY <1>2, GoesTyped
<1>4. CommandOK(c)'
  BY <1>1, <1>3 DEF CommandOK, WritesList, WritesHistory, CommandRecords
<1>5. cmd' \in [Commands -> CommandRecords] /\ \A d \in Commands : CommandOK(d)'
  BY <1>2, <1>4, GoesTyped, OthersOK
<1> QED BY <1>5, EmptyTyped DEF StoreType, HistoryTruncates

LEMMA HistoryWrittenType ==
    ASSUME StoreType, NEW c \in Commands, HistoryWritten(c)
    PROVE  StoreType'
<1>1. /\ cmd[c] \in CommandRecords /\ CommandOK(c) /\ cmd[c].at = "htorn"
      /\ cmd[c].copy \in Histories /\ cmd[c].id \in Ids
  BY DEF HistoryWritten, StoreType, At, CommandOK, WritesHistory
<1>2. cmd' \in [Commands -> CommandRecords] /\ \A d \in Commands : CommandOK(d)'
  <2>1. CASE cmd[c].op = "test" /\ cmd[c].snap.ip # NoExit
    <3>1. "reading" \in Places /\ Goes(c, "reading")
      BY <2>1 DEF HistoryWritten, Places
    <3>2. cmd'[c] = [cmd[c] EXCEPT !.at = "reading"]
      BY <3>1, GoesTyped
    <3>3. CommandOK(c)'
      BY <1>1, <2>1, <3>2 DEF CommandOK, WritesList, WritesHistory, CommandRecords
    <3> QED BY <3>1, <3>3, GoesTyped, OthersOK
  <2>2. CASE ~(cmd[c].op = "test" /\ cmd[c].snap.ip # NoExit)
    BY <2>2, EndsOK DEF HistoryWritten
  <2> QED BY <2>1, <2>2
<1> QED BY <1>1, <1>2 DEF StoreType, HistoryWritten

LEMMA RestartType ==
    ASSUME StoreType, Restart
    PROVE  StoreType'
<1>1. \A d \in Commands : cmd'[d] = Rest
  BY DEF Restart
<1>2. cmd' \in [Commands -> CommandRecords]
  BY RestTyped DEF Restart
<1>3. \A d \in Commands : CommandOK(d)'
  BY <1>1 DEF CommandOK, WritesList, WritesHistory, Rest
<1> QED BY <1>2, <1>3 DEF StoreType, Restart

LEMMA InitStore == Init => StoreInv
<1> SUFFICES ASSUME Init PROVE StoreInv
  OBVIOUS
<1>1. \A c \in Commands : cmd[c] = Rest
  BY DEF Init
<1>2. \A c \in Commands : cmd[c].at = "idle"
  BY <1>1 DEF Rest
<1>3. StoreType
  <2>1. cmd \in [Commands -> CommandRecords]
    BY RestTyped DEF Init
  <2>2. \A c \in Commands : CommandOK(c)
    BY <1>2 DEF CommandOK, WritesList, WritesHistory
  <2>3. left \in WorkloadRecords
    BY ProxyStoreAssumption DEF Init
  <2> QED BY <2>1, <2>2, <2>3, EmptyTyped DEF StoreType, Init
<1>4. ShapeInv
  BY <1>2, EmptyTyped DEF ShapeInv, AllShaped, WritesHistory, Init
<1>5. OneWorks
  BY <1>1 DEF OneWorks, Working, Rest, Critical
<1>6. ListKept /\ TestsHeld
  BY <1>1, EmptyTyped DEF ListKept, TestsHeld, WritesList, WritesHistory, Init, Rest
<1>7. InTurnInv
  BY <1>1, EmptyTyped DEF InTurnInv, At, WritesHistory, Init, Rest
<1> QED BY <1>3, <1>4, <1>5, <1>6, <1>7 DEF StoreInv, CoarseInv

-----------------------------------------------------------------------------
(* Every step keeps the shape of the histories.                              *)

LEMMA RestPlace == Rest.at = "idle" /\ Rest.op = "none"
BY DEF Rest

LEMMA OneChanges ==
    ASSUME StoreType, NEW c \in Commands, NEW r, cmd' = [cmd EXCEPT ![c] = r]
    PROVE  /\ cmd'[c] = r /\ cmd' = [cmd EXCEPT ![c] = cmd'[c]]
           /\ \A d \in Commands \ {c} : cmd'[d] = cmd[d]
BY DEF StoreType

(* A request changes one command that was idle, and no file.                 *)
LEMMA Requests ==
    ASSUME StoreType, NEW c \in Commands, Asks(c) \/ AsksDelete(c) \/ AsksTest(c)
    PROVE  /\ cmd' = [cmd EXCEPT ![c] = cmd'[c]] /\ \A d \in Commands \ {c} : cmd'[d] = cmd[d]
           /\ \/ Asks(c) /\ cmd'[c].at = "reading" /\ cmd'[c].op \in {"save", "add", "bulk"}
              \/ AsksDelete(c) /\ cmd'[c].at = "reading" /\ cmd'[c].op = "delete"
              \/ AsksTest(c) /\ cmd'[c].at = "probing" /\ cmd'[c].op = "test"
           /\ cmd[c].at = "idle" /\ (left.alone => \A d \in Commands : cmd[d].at = "idle")
           /\ UNCHANGED <<proxies, history, kept, tested>> /\ gone' \subseteq gone
<1>1. CASE Asks(c)
  <2>1. PICK op \in {"save", "add", "bulk"}, e \in Offered, i \in Ids :
            cmd' = [cmd EXCEPT ![c] = [Rest EXCEPT !.at = "reading", !.op = op, !.id = i, !.entry = e]]
    BY <1>1 DEF Asks
  <2> DEFINE r == [Rest EXCEPT !.at = "reading", !.op = op, !.id = i, !.entry = e]
  <2>2. r.at = "reading" /\ r.op = op
    BY DEF Rest
  <2> HIDE DEF r
  <2>3. cmd' = [cmd EXCEPT ![c] = r]
    BY <2>1 DEF r
  <2> QED BY <1>1, <2>2, <2>3, OneChanges DEF Asks, MayAsk, At
<1>2. CASE AsksDelete(c)
  <2>1. PICK i \in DOMAIN proxies :
            cmd' = [cmd EXCEPT ![c] = [Rest EXCEPT !.at = "reading", !.op = "delete", !.id = i]]
    BY <1>2 DEF AsksDelete
  <2> DEFINE r == [Rest EXCEPT !.at = "reading", !.op = "delete", !.id = i]
  <2>2. r.at = "reading" /\ r.op = "delete"
    BY DEF Rest
  <2> HIDE DEF r
  <2>3. cmd' = [cmd EXCEPT ![c] = r]
    BY <2>1 DEF r
  <2> QED BY <1>2, <2>2, <2>3, OneChanges DEF AsksDelete, MayAsk, At
<1>3. CASE AsksTest(c)
  <2>1. PICK i \in Ids, e \in Offered :
            cmd' = [cmd EXCEPT ![c] = [Rest EXCEPT !.at = "probing", !.op = "test", !.id = i, !.entry = e]]
    BY <1>3 DEF AsksTest
  <2> DEFINE r == [Rest EXCEPT !.at = "probing", !.op = "test", !.id = i, !.entry = e]
  <2>2. r.at = "probing" /\ r.op = "test"
    BY DEF Rest
  <2> HIDE DEF r
  <2>3. cmd' = [cmd EXCEPT ![c] = r]
    BY <2>1 DEF r
  <2>4. gone' \subseteq gone
    BY <1>3 DEF AsksTest
  <2> QED BY <1>3, <2>2, <2>3, <2>4, OneChanges DEF AsksTest, MayAsk, At
<1> QED BY <1>1, <1>2, <1>3

(* A step that leaves the history alone, and gives no command a copy of it.  *)
LEMMA ShapeKept ==
    ASSUME ShapeInv, AllShaped(history'),
           \A d \in Commands : WritesHistory(d)' =>
               AllShaped(cmd'[d].copy) \/ (WritesHistory(d) /\ cmd'[d].copy = cmd[d].copy)
    PROVE  ShapeInv'
BY DEF ShapeInv, AllShaped

LEMMA StoreShape ==
    ASSUME StoreType, ShapeInv, StoreNext
    PROVE  ShapeInv'
<1>1. CASE Restart
  <2>1. \A d \in Commands : ~WritesHistory(d)'
    BY <1>1 DEF Restart, WritesHistory, Rest
  <2> QED BY <1>1, <2>1 DEF ShapeInv, Restart, AllShaped
<1>2. ASSUME NEW c \in Commands,
             history' = history, cmd' = [cmd EXCEPT ![c] = cmd'[c]],
             cmd'[c].at \notin {"hwriting", "htorn"}
      PROVE  ShapeInv'
  <2>1. ASSUME NEW d \in Commands, WritesHistory(d)'
        PROVE  WritesHistory(d) /\ cmd'[d].copy = cmd[d].copy
    <3>1. d # c /\ cmd'[d] = cmd[d]
      BY <1>2, <2>1 DEF StoreType, WritesHistory
    <3> QED BY <2>1, <3>1 DEF WritesHistory
  <2>2. AllShaped(history')
    BY <1>2 DEF ShapeInv
  <2> QED BY <2>1, <2>2, ShapeKept
<1> USE DEF StoreType, CommandRecords
<1>3. ASSUME NEW c \in Commands, Asks(c) \/ AsksDelete(c) \/ AsksTest(c) PROVE ShapeInv'
  <2> HIDE DEF StoreType
  <2>1. history' = history /\ cmd' = [cmd EXCEPT ![c] = cmd'[c]] /\ cmd'[c].at \in {"reading", "probing"}
    BY <1>3, Requests
  <2> QED BY <1>2, <2>1
<1>4. ASSUME NEW c \in Commands, Probed(c) PROVE ShapeInv'
  <2>1. history' = history /\ cmd' = [cmd EXCEPT ![c] = cmd'[c]] /\ cmd'[c].at = "recording"
    BY <1>4 DEF Probed
  <2> QED BY <1>2, <2>1
<1>5. ASSUME NEW c \in Commands, Reads(c) PROVE ShapeInv'
  <2>1. history' = history /\ cmd' = [cmd EXCEPT ![c] = cmd'[c]] /\ cmd'[c].at \in {"writing", "idle"}
    BY <1>5 DEF Reads, Ends, Rest
  <2> QED BY <1>2, <2>1
<1>6. ASSUME NEW c \in Commands, Truncates(c) \/ Written(c) PROVE ShapeInv'
  <2>1. history' = history /\ cmd' = [cmd EXCEPT ![c] = cmd'[c]] /\ cmd'[c].at \in {"torn", "recording", "idle"}
    BY <1>6 DEF Truncates, Written, Goes, Ends, Rest
  <2> QED BY <1>2, <2>1
<1>7. ASSUME NEW c \in Commands, HistoryReads(c) PROVE ShapeInv'
  <2>1. AllShaped(history) /\ history' = history
    BY <1>7 DEF ShapeInv, HistoryReads
  <2>2. CASE Ends(c)
    <3>1. cmd' = [cmd EXCEPT ![c] = cmd'[c]] /\ cmd'[c].at = "idle"
      BY <2>2 DEF Ends, Rest
    <3> QED BY <1>2, <2>1, <3>1
  <2>3. CASE ~Ends(c)
    <3>1. /\ AllShaped(cmd'[c].copy)
          /\ cmd' = [cmd EXCEPT ![c].at = "hwriting", ![c].copy = cmd'[c].copy]
      BY <1>7, <2>1, <2>3, HistoryCopied
    <3>2. \A d \in Commands \ {c} : cmd'[d] = cmd[d]
      BY <3>1
    <3>3. \A d \in Commands : WritesHistory(d)' =>
              AllShaped(cmd'[d].copy) \/ (WritesHistory(d) /\ cmd'[d].copy = cmd[d].copy)
      BY <3>1, <3>2 DEF WritesHistory
    <3> QED BY <2>1, <3>3, ShapeKept
  <2> QED BY <2>2, <2>3
<1>8. ASSUME NEW c \in Commands, HistoryTruncates(c) PROVE ShapeInv'
  <2>1. AllShaped(history')
    BY <1>8, EmptyTyped DEF HistoryTruncates, AllShaped
  <2>2. \A d \in Commands : WritesHistory(d)' => WritesHistory(d) /\ cmd'[d].copy = cmd[d].copy
    BY <1>8 DEF HistoryTruncates, WritesHistory, Goes, At
  <2> QED BY <2>1, <2>2, ShapeKept
<1>9. ASSUME NEW c \in Commands, HistoryWritten(c) PROVE ShapeInv'
  <2>1. AllShaped(history')
    BY <1>9 DEF HistoryWritten, At, ShapeInv, WritesHistory
  <2>2. \A d \in Commands \ {c} : cmd'[d] = cmd[d]
    BY <1>9 DEF HistoryWritten, Goes, Ends
  <2>3. cmd'[c].at \in {"reading", "idle"}
    BY <1>9 DEF HistoryWritten, Goes, Ends, Rest
  <2>4. \A d \in Commands : WritesHistory(d)' => WritesHistory(d) /\ cmd'[d].copy = cmd[d].copy
    BY <2>2, <2>3 DEF WritesHistory
  <2> QED BY <2>1, <2>4, ShapeKept
<1> QED BY <1>1, <1>3, <1>4, <1>5, <1>6, <1>7, <1>8, <1>9 DEF StoreNext, Commanded
-----------------------------------------------------------------------------
(* Where threads do not come between.                                        *)

LEMMA WritersWork ==
    \A c \in Commands : WritesList(c) \/ WritesHistory(c) => Working(c)
BY DEF WritesList, WritesHistory, Working, Critical

(* A command that begins to work on a file finds nobody at work.             *)
LEMMA WorksAlone ==
    ASSUME Coarse, OneWorks, NEW c \in Commands, \A d \in Commands \ {c} : cmd'[d] = cmd[d],
           Working(c)' => Working(c) \/ Undisturbed(c)
    PROVE  OneWorks'
<1>1. \A d \in Commands \ {c} : Working(d)' <=> Working(d)
  BY DEF Working
<1> QED BY <1>1 DEF OneWorks, Undisturbed, Coarse

LEMMA ListFrame ==
    ASSUME ListKept, NEW c \in Commands, \A d \in Commands \ {c} : cmd'[d] = cmd[d],
           UNCHANGED <<proxies, kept>>, ~WritesList(c), ~WritesList(c)'
    PROVE  ListKept'
<1>1. \A d \in Commands \ {c} : /\ WritesList(d)' <=> WritesList(d)
                                /\ Enters(d)' = Enters(d) /\ cmd'[d].copy = cmd[d].copy
  BY DEF WritesList, Enters
<1> QED BY <1>1 DEF ListKept

LEMMA TestsFrame ==
    ASSUME TestsHeld, NEW c \in Commands, \A d \in Commands \ {c} : cmd'[d] = cmd[d],
           UNCHANGED <<history, tested>>, ~WritesHistory(c), ~WritesHistory(c)',
           Working(c)' /\ cmd'[c].op = "delete" => cmd'[c].id \notin tested
    PROVE  TestsHeld'
<1>1. \A d \in Commands \ {c} :
          /\ WritesHistory(d)' <=> WritesHistory(d)
          /\ Working(d)' <=> Working(d)
          /\ Tests(d)' = Tests(d) /\ cmd'[d] = cmd[d]
  BY DEF WritesHistory, Tests, Working
<1> QED BY <1>1 DEF TestsHeld

CoarseParts == OneWorks /\ ListKept /\ TestsHeld

(* A step of a command that does not work on a file, before or after it.     *)
LEMMA QuietCoarse ==
    ASSUME Coarse, CoarseParts, NEW c \in Commands, \A d \in Commands \ {c} : cmd'[d] = cmd[d],
           UNCHANGED <<proxies, history, kept, tested>>, ~Working(c), ~Working(c)'
    PROVE  CoarseParts'
<1>1. ~WritesList(c) /\ ~WritesHistory(c) /\ ~WritesList(c)' /\ ~WritesHistory(c)'
  BY DEF WritesList, WritesHistory, Working, Critical
<1> QED BY <1>1, WorksAlone, ListFrame, TestsFrame DEF CoarseParts

LEMMA ChangedDomain ==
    ASSUME StoreType, NEW c \in Commands, At(c, "reading")
    PROVE  /\ cmd[c].op = "delete" => DOMAIN Changed(c) = DOMAIN proxies \ {cmd[c].id}
           /\ cmd[c].op = "test" => DOMAIN Changed(c) = DOMAIN proxies
           /\ cmd[c].op \in {"save", "add", "bulk"} =>
                  DOMAIN Changed(c) \in {DOMAIN proxies, DOMAIN proxies \cup {cmd[c].id}}
BY DEF Changed, Tagged, Restrict

(* Where a read leaves its command, and what it holds.                       *)
LEMMA ReadsPlace ==
    ASSUME StoreType, NEW c \in Commands, Reads(c)
    PROVE  /\ \A d \in Commands \ {c} : cmd'[d] = cmd[d]
           /\ cmd[c].op \in {"save", "add", "bulk", "delete", "test"}
           /\ \/ /\ cmd'[c].at = "writing" /\ cmd'[c].copy = Changed(c)
                 /\ cmd'[c].op = cmd[c].op /\ cmd'[c].id = cmd[c].id
              \/ cmd[c].op # "delete" /\ cmd'[c].at = "idle" /\ cmd'[c].op = "none"
<1>1. cmd[c] \in CommandRecords /\ cmd[c].op \in {"save", "add", "bulk", "delete", "test"}
  BY DEF StoreType, CommandOK, Reads, At
<1>2. CASE Writes(c)
  <2> DEFINE r == [cmd[c] EXCEPT !.at = "writing", !.copy = Changed(c)]
  <2>1. cmd' = [cmd EXCEPT ![c] = r]
    BY <1>2 DEF Reads
  <2>2. r.at = "writing" /\ r.copy = Changed(c) /\ r.op = cmd[c].op /\ r.id = cmd[c].id
    BY <1>1 DEF CommandRecords
  <2> HIDE DEF r
  <2> QED BY <1>1, <2>1, <2>2, OneChanges
<1>3. CASE ~Writes(c)
  <2>1. cmd' = [cmd EXCEPT ![c] = Rest] /\ cmd[c].op # "delete"
    BY <1>3 DEF Reads, Ends, Writes
  <2>2. cmd'[c] = Rest /\ \A d \in Commands \ {c} : cmd'[d] = cmd[d]
    BY <2>1, OneChanges
  <2> QED BY <1>1, <2>1, <2>2, RestPlace
<1> QED BY <1>2, <1>3

LEMMA ReadsCoarse ==
    ASSUME StoreType, Coarse, CoarseParts, NEW c \in Commands, Reads(c)
    PROVE  CoarseParts'
<1>1. /\ \A d \in Commands \ {c} : cmd'[d] = cmd[d] /\ ~Working(d) /\ ~WritesList(d) /\ ~WritesHistory(d)
      /\ cmd[c].at = "reading" /\ ~WritesList(c) /\ ~WritesHistory(c)
  BY ReadsPlace, WritersWork DEF Reads, Undisturbed, Coarse, At, WritesList, WritesHistory
<1>2. OneWorks'
  BY <1>1, WorksAlone DEF Reads, CoarseParts
<1>3. \A d \in Commands \ {c} : ~WritesList(d)' /\ ~WritesHistory(d)' /\ ~Working(d)'
  BY <1>1 DEF WritesList, WritesHistory, Working
<1>4. DOMAIN proxies = kept /\ tested \subseteq DOMAIN history
  BY <1>1 DEF CoarseParts, ListKept, TestsHeld
<1>5. CASE cmd'[c].at = "idle" /\ cmd[c].op # "delete" /\ cmd'[c].op = "none"
  <2>1. UNCHANGED <<proxies, history, kept, tested>>
    BY <1>5 DEF Reads
  <2>2. ~WritesList(c)' /\ ~WritesHistory(c)' /\ ~Working(c)'
    BY <1>5 DEF WritesList, WritesHistory, Working, Critical
  <2> QED BY <1>1, <1>2, <2>1, <2>2, ListFrame, TestsFrame DEF CoarseParts
<1>6. CASE /\ cmd'[c].at = "writing" /\ cmd'[c].copy = Changed(c)
           /\ cmd'[c].op = cmd[c].op /\ cmd'[c].id = cmd[c].id
  <2>1. WritesList(c)' /\ ~WritesHistory(c)'
    BY <1>6 DEF WritesList, WritesHistory
  <2>2. DOMAIN cmd'[c].copy = kept' \cup Enters(c)'
    <3>1. CASE cmd[c].op = "delete"
      BY <3>1, <1>1, <1>4, <1>6, ChangedDomain DEF Reads, Enters
    <3>2. CASE cmd[c].op = "test"
      BY <3>2, <1>1, <1>4, <1>6, ChangedDomain DEF Reads, Enters
    <3>3. CASE cmd[c].op \in {"save", "add", "bulk"}
      <4>1. kept' = kept
        BY <3>3 DEF Reads
      <4>2. Enters(c)' = {cmd[c].id} \cap DOMAIN Changed(c)
        BY <3>3, <1>6 DEF Enters
      <4>3. DOMAIN Changed(c) \in {DOMAIN proxies, DOMAIN proxies \cup {cmd[c].id}}
        BY <3>3, ChangedDomain DEF Reads
      <4> QED BY <4>1, <4>2, <4>3, <1>4, <1>6
    <3> QED BY <3>1, <3>2, <3>3, ReadsPlace
  <2>3. ListKept'
    BY <2>1, <2>2, <1>3 DEF ListKept
  <2>4. tested' \subseteq DOMAIN history' /\ (cmd'[c].op = "delete" => cmd'[c].id \notin tested')
    BY <1>4, <1>6 DEF Reads
  <2>5. TestsHeld'
    BY <2>1, <2>4, <1>3 DEF TestsHeld
  <2> QED BY <1>2, <2>3, <2>5 DEF CoarseParts
<1> QED BY <1>5, <1>6, ReadsPlace

LEMMA TruncatesCoarse ==
    ASSUME StoreType, Coarse, CoarseParts, NEW c \in Commands, Truncates(c)
    PROVE  CoarseParts'
<1>1. /\ cmd[c].at = "writing" /\ WritesList(c) /\ ~WritesHistory(c) /\ Working(c)
      /\ cmd'[c] = [cmd[c] EXCEPT !.at = "torn"] /\ \A d \in Commands \ {c} : cmd'[d] = cmd[d]
      /\ UNCHANGED <<history, tested, kept>> /\ cmd[c] \in CommandRecords
  BY DEF Truncates, At, WritesList, WritesHistory, Working, Critical, Goes, StoreType
<1>2. /\ cmd'[c].at = "torn" /\ cmd'[c].copy = cmd[c].copy /\ cmd'[c].op = cmd[c].op
      /\ cmd'[c].id = cmd[c].id
  BY <1>1 DEF CommandRecords
<1>3. OneWorks'
  BY <1>1, WorksAlone DEF CoarseParts
<1>4. WritesList(c)' /\ ~WritesHistory(c)' /\ Enters(c)' = Enters(c)
  BY <1>2 DEF WritesList, WritesHistory, Enters
<1>5. \A d \in Commands \ {c} : /\ WritesList(d)' <=> WritesList(d)
                                /\ Enters(d)' = Enters(d) /\ cmd'[d].copy = cmd[d].copy
  BY <1>1 DEF WritesList, Enters
<1>6. ListKept'
  <2>1. ASSUME NEW d \in Commands, WritesList(d)' PROVE DOMAIN cmd'[d].copy = kept' \cup Enters(d)'
    <3>1. WritesList(d) /\ Enters(d)' = Enters(d) /\ cmd'[d].copy = cmd[d].copy
      BY <1>1, <1>2, <1>4, <1>5, <2>1
    <3> QED BY <1>1, <3>1 DEF CoarseParts, ListKept
  <2> QED BY <1>4, <2>1 DEF ListKept
<1>7. TestsHeld'
  <2>1. cmd'[c].op = "delete" => cmd'[c].id \notin tested
    BY <1>1, <1>2 DEF CoarseParts, TestsHeld
  <2> QED BY <1>1, <1>4, <2>1, TestsFrame DEF CoarseParts
<1> QED BY <1>3, <1>6, <1>7 DEF CoarseParts

LEMMA WrittenPlace ==
    ASSUME StoreType, NEW c \in Commands, Written(c)
    PROVE  /\ \A d \in Commands \ {c} : cmd'[d] = cmd[d]
           /\ \/ /\ cmd[c].op = "delete" /\ cmd'[c].at = "recording" /\ cmd'[c].op = "delete"
                 /\ cmd'[c].id = cmd[c].id
              \/ cmd[c].op # "delete" /\ cmd'[c].at = "idle" /\ cmd'[c].op = "none"
<1>1. cmd[c] \in CommandRecords
  BY DEF StoreType
<1>2. CASE cmd[c].op = "delete"
  <2>1. cmd' = [cmd EXCEPT ![c] = [cmd[c] EXCEPT !.at = "recording"]]
    BY <1>2 DEF Written, Goes
  <2>2. cmd'[c] = [cmd[c] EXCEPT !.at = "recording"] /\ \A d \in Commands \ {c} : cmd'[d] = cmd[d]
    BY <2>1, OneChanges
  <2> QED BY <1>1, <1>2, <2>2 DEF CommandRecords
<1>3. CASE cmd[c].op # "delete"
  <2>1. cmd' = [cmd EXCEPT ![c] = Rest]
    BY <1>3 DEF Written, Ends
  <2>2. cmd'[c] = Rest /\ \A d \in Commands \ {c} : cmd'[d] = cmd[d]
    BY <2>1, OneChanges
  <2> QED BY <1>3, <2>2, RestPlace
<1> QED BY <1>2, <1>3

LEMMA WrittenCoarse ==
    ASSUME StoreType, Coarse, CoarseParts, NEW c \in Commands, Written(c)
    PROVE  CoarseParts'
<1>1. /\ cmd[c].at = "torn" /\ WritesList(c) /\ ~WritesHistory(c) /\ Working(c)
      /\ proxies' = cmd[c].copy /\ UNCHANGED <<history, tested>>
      /\ \A d \in Commands \ {c} : cmd'[d] = cmd[d]
      /\ cmd'[c].at \in {"recording", "idle"}
  BY WrittenPlace DEF Written, At, WritesList, WritesHistory, Working, Critical
<1>2. \A d \in Commands \ {c} : ~Working(d)
  BY <1>1 DEF CoarseParts, OneWorks
<1>3. OneWorks'
  BY <1>1, WorksAlone DEF CoarseParts
<1>4. \A d \in Commands : ~WritesList(d)'
  <2>1. ~WritesList(c)'
    BY <1>1 DEF WritesList
  <2>2. \A d \in Commands \ {c} : ~WritesList(d)'
    BY <1>1, <1>2, WritersWork DEF WritesList
  <2> QED BY <2>1, <2>2
<1>5. DOMAIN proxies' = kept'
  <2>1. DOMAIN cmd[c].copy = kept \cup Enters(c)
    BY <1>1 DEF CoarseParts, ListKept
  <2> QED BY <1>1, <2>1 DEF Written, Enters
<1>6. ListKept'
  BY <1>4, <1>5 DEF ListKept
<1>7. TestsHeld'
  <2>1. ~WritesHistory(c)'
    BY <1>1 DEF WritesHistory
  <2>2. Working(c)' /\ cmd'[c].op = "delete" => cmd'[c].id \notin tested
    BY <1>1, WrittenPlace DEF CoarseParts, TestsHeld
  <2> QED BY <1>1, <2>1, <2>2, TestsFrame DEF CoarseParts
<1> QED BY <1>3, <1>6, <1>7 DEF CoarseParts
LEMMA HistoryReadsPlace ==
    ASSUME StoreType, AllShaped(history), NEW c \in Commands, HistoryReads(c)
    PROVE  /\ \A d \in Commands \ {c} : cmd'[d] = cmd[d]
           /\ \/ /\ cmd'[c].at = "idle" /\ cmd'[c].op = "none" /\ cmd[c].op = "delete"
                 /\ cmd[c].id \notin DOMAIN history
              \/ /\ cmd'[c].at = "hwriting" /\ cmd'[c].op = cmd[c].op /\ cmd'[c].id = cmd[c].id
                 /\ \/ cmd[c].op = "test" /\ DOMAIN cmd'[c].copy = DOMAIN history \cup {cmd[c].id}
                    \/ cmd[c].op = "delete" /\ DOMAIN cmd'[c].copy = DOMAIN history \ {cmd[c].id}
<1>1. cmd[c] \in CommandRecords
  BY DEF StoreType
<1>2. CASE Ends(c) /\ cmd[c].op = "delete" /\ cmd[c].id \notin DOMAIN history
  <2>1. cmd' = [cmd EXCEPT ![c] = Rest]
    BY <1>2 DEF Ends
  <2>2. cmd'[c] = Rest /\ \A d \in Commands \ {c} : cmd'[d] = cmd[d]
    BY <2>1, OneChanges
  <2> QED BY <1>2, <2>2, RestPlace
<1>3. CASE ~(Ends(c) /\ cmd[c].op = "delete" /\ cmd[c].id \notin DOMAIN history)
  <2> DEFINE new == cmd'[c].copy
             r == [cmd[c] EXCEPT !.at = "hwriting", !.copy = new]
  <2>1. /\ cmd' = [cmd EXCEPT ![c] = r]
        /\ \/ cmd[c].op = "test" /\ DOMAIN new = DOMAIN history \cup {cmd[c].id}
           \/ cmd[c].op = "delete" /\ DOMAIN new = DOMAIN history \ {cmd[c].id}
    BY <1>3, HistoryCopied
  <2>2. r.at = "hwriting" /\ r.op = cmd[c].op /\ r.id = cmd[c].id
    BY <1>1 DEF CommandRecords
  <2> HIDE DEF r
  <2>3. cmd'[c] = r /\ \A d \in Commands \ {c} : cmd'[d] = cmd[d]
    BY <2>1, OneChanges
  <2> QED BY <2>1, <2>2, <2>3
<1> QED BY <1>2, <1>3

LEMMA HistoryReadsCoarse ==
    ASSUME StoreType, ShapeInv, Coarse, CoarseParts, NEW c \in Commands, HistoryReads(c)
    PROVE  CoarseParts'
<1>0. AllShaped(history)
  BY DEF ShapeInv
<1>1. /\ \A d \in Commands \ {c} : cmd'[d] = cmd[d] /\ ~Working(d) /\ ~WritesList(d) /\ ~WritesHistory(d)
      /\ cmd[c].at = "recording" /\ ~WritesList(c) /\ ~WritesHistory(c)
      /\ UNCHANGED <<proxies, kept, history, tested>>
  BY <1>0, HistoryReadsPlace, WritersWork DEF HistoryReads, Undisturbed, Coarse, At, WritesList, WritesHistory
<1>2. OneWorks'
  BY <1>1, WorksAlone DEF HistoryReads, CoarseParts
<1>3. \A d \in Commands \ {c} : ~WritesList(d)' /\ ~WritesHistory(d)' /\ ~Working(d)'
  BY <1>1 DEF WritesList, WritesHistory, Working
<1>4. tested \subseteq DOMAIN history
  BY <1>1 DEF CoarseParts, TestsHeld
<1>5. cmd'[c].at \in {"idle", "hwriting"}
  BY <1>0, HistoryReadsPlace
<1>6. ListKept'
  <2>1. ~WritesList(c)'
    BY <1>5 DEF WritesList
  <2> QED BY <1>1, <2>1, ListFrame DEF CoarseParts
<1>7. cmd[c].op = "delete" => cmd[c].id \notin tested
  BY <1>1 DEF CoarseParts, TestsHeld, Working
<1>8. CASE cmd'[c].at = "idle" /\ cmd'[c].op = "none"
  <2>1. ~WritesHistory(c)' /\ ~Working(c)'
    BY <1>8 DEF WritesHistory, Working, Critical
  <2> QED BY <1>1, <1>2, <1>6, <2>1, TestsFrame DEF CoarseParts
<1>9. CASE /\ cmd'[c].at = "hwriting" /\ cmd'[c].op = cmd[c].op /\ cmd'[c].id = cmd[c].id
           /\ \/ cmd[c].op = "test" /\ DOMAIN cmd'[c].copy = DOMAIN history \cup {cmd[c].id}
              \/ cmd[c].op = "delete" /\ DOMAIN cmd'[c].copy = DOMAIN history \ {cmd[c].id}
  <2>1. WritesHistory(c)'
    BY <1>9 DEF WritesHistory
  <2>2. tested' \cup Tests(c)' \subseteq DOMAIN cmd'[c].copy
    BY <1>1, <1>4, <1>7, <1>9 DEF Tests
  <2>3. cmd'[c].op = "delete" => cmd'[c].id \notin tested'
    BY <1>1, <1>7, <1>9
  <2>4. TestsHeld'
    BY <2>1, <2>2, <2>3, <1>3 DEF TestsHeld
  <2> QED BY <1>2, <1>6, <2>4 DEF CoarseParts
<1> QED BY <1>0, <1>8, <1>9, HistoryReadsPlace

LEMMA HistoryTruncatesPlace ==
    ASSUME StoreType, NEW c \in Commands, HistoryTruncates(c)
    PROVE  /\ \A d \in Commands \ {c} : cmd'[d] = cmd[d]
           /\ cmd'[c].at = "htorn" /\ cmd'[c].op = cmd[c].op /\ cmd'[c].id = cmd[c].id
           /\ cmd'[c].copy = cmd[c].copy /\ cmd[c].at = "hwriting"
<1>1. cmd[c] \in CommandRecords /\ cmd' = [cmd EXCEPT ![c] = [cmd[c] EXCEPT !.at = "htorn"]]
  BY DEF StoreType, HistoryTruncates, Goes
<1>2. cmd'[c] = [cmd[c] EXCEPT !.at = "htorn"] /\ \A d \in Commands \ {c} : cmd'[d] = cmd[d]
  BY <1>1, OneChanges
<1> QED BY <1>1, <1>2 DEF CommandRecords, HistoryTruncates, At

LEMMA HistoryTruncatesCoarse ==
    ASSUME StoreType, Coarse, CoarseParts, NEW c \in Commands, HistoryTruncates(c)
    PROVE  CoarseParts'
<1>1. /\ WritesHistory(c) /\ WritesHistory(c)' /\ ~WritesList(c) /\ ~WritesList(c)' /\ Working(c)
      /\ Tests(c)' = Tests(c)
  BY HistoryTruncatesPlace DEF WritesList, WritesHistory, Working, Critical, Tests
<1>2. OneWorks' /\ ListKept'
  BY <1>1, HistoryTruncatesPlace, WorksAlone, ListFrame DEF CoarseParts, HistoryTruncates
<1>3. \A d \in Commands \ {c} : ~Working(d)' /\ ~WritesHistory(d)'
  <2>1. \A d \in Commands \ {c} : ~Working(d) /\ ~WritesHistory(d) /\ cmd'[d] = cmd[d]
    BY <1>1, HistoryTruncatesPlace, WritersWork DEF CoarseParts, OneWorks
  <2> QED BY <2>1 DEF Working, WritesHistory
<1>4. tested' \cup Tests(c)' \subseteq DOMAIN cmd'[c].copy
  BY <1>1, HistoryTruncatesPlace DEF CoarseParts, TestsHeld, HistoryTruncates
<1>5. cmd'[c].op = "delete" => cmd'[c].id \notin tested'
  BY <1>1, HistoryTruncatesPlace DEF CoarseParts, TestsHeld, HistoryTruncates
<1>6. TestsHeld'
  BY <1>1, <1>3, <1>4, <1>5 DEF TestsHeld
<1> QED BY <1>2, <1>6 DEF CoarseParts

LEMMA HistoryWrittenPlace ==
    ASSUME StoreType, NEW c \in Commands, HistoryWritten(c)
    PROVE  /\ \A d \in Commands \ {c} : cmd'[d] = cmd[d]
           /\ cmd[c].at = "htorn" /\ cmd[c].op \in {"test", "delete"}
           /\ \/ /\ cmd[c].op = "test" /\ cmd'[c].at = "reading" /\ cmd'[c].op = "test"
                 /\ cmd'[c].id = cmd[c].id
              \/ cmd'[c].at = "idle" /\ cmd'[c].op = "none"
<1>1. cmd[c] \in CommandRecords /\ cmd[c].at = "htorn" /\ cmd[c].op \in {"test", "delete"}
  BY DEF StoreType, HistoryWritten, At, CommandOK, WritesHistory
<1>2. CASE cmd[c].op = "test" /\ cmd[c].snap.ip # NoExit
  <2>1. cmd' = [cmd EXCEPT ![c] = [cmd[c] EXCEPT !.at = "reading"]]
    BY <1>2 DEF HistoryWritten, Goes
  <2>2. cmd'[c] = [cmd[c] EXCEPT !.at = "reading"] /\ \A d \in Commands \ {c} : cmd'[d] = cmd[d]
    BY <2>1, OneChanges
  <2> QED BY <1>1, <1>2, <2>2 DEF CommandRecords
<1>3. CASE ~(cmd[c].op = "test" /\ cmd[c].snap.ip # NoExit)
  <2>1. cmd' = [cmd EXCEPT ![c] = Rest]
    BY <1>3 DEF HistoryWritten, Ends
  <2>2. cmd'[c] = Rest /\ \A d \in Commands \ {c} : cmd'[d] = cmd[d]
    BY <2>1, OneChanges
  <2> QED BY <1>1, <2>2, RestPlace
<1> QED BY <1>2, <1>3

LEMMA HistoryWrittenCoarse ==
    ASSUME StoreType, Coarse, CoarseParts, NEW c \in Commands, HistoryWritten(c)
    PROVE  CoarseParts'
<1>1. /\ WritesHistory(c) /\ ~WritesHistory(c)' /\ ~WritesList(c) /\ ~WritesList(c)' /\ Working(c)
  BY HistoryWrittenPlace DEF WritesList, WritesHistory, Working, Critical
<1>2. OneWorks' /\ ListKept'
  BY <1>1, HistoryWrittenPlace, WorksAlone, ListFrame DEF CoarseParts, HistoryWritten
<1>3. \A d \in Commands \ {c} : ~Working(d)' /\ ~WritesHistory(d)'
  <2>1. \A d \in Commands \ {c} : ~Working(d) /\ ~WritesHistory(d) /\ cmd'[d] = cmd[d]
    BY <1>1, HistoryWrittenPlace, WritersWork DEF CoarseParts, OneWorks
  <2> QED BY <2>1 DEF Working, WritesHistory
<1>4. tested' \subseteq DOMAIN history'
  <2>1. tested \cup Tests(c) \subseteq DOMAIN cmd[c].copy
    BY <1>1 DEF CoarseParts, TestsHeld
  <2> QED BY <2>1 DEF HistoryWritten, Tests
<1>5. cmd'[c].op # "delete"
  BY HistoryWrittenPlace
<1>6. TestsHeld'
  BY <1>1, <1>3, <1>4, <1>5 DEF TestsHeld
<1> QED BY <1>2, <1>6 DEF CoarseParts

LEMMA ProbedPlace ==
    ASSUME StoreType, NEW c \in Commands, Probed(c)
    PROVE  /\ \A d \in Commands \ {c} : cmd'[d] = cmd[d]
           /\ cmd[c].at = "probing" /\ cmd[c].op = "test"
           /\ cmd'[c].at = "recording" /\ cmd'[c].op = "test" /\ cmd'[c].id = cmd[c].id
<1>1. cmd[c] \in CommandRecords /\ cmd[c].at = "probing" /\ cmd[c].op = "test"
  BY DEF StoreType, Probed, At, CommandOK
<1>2. PICK s \in Snapshots : cmd' = [cmd EXCEPT ![c].at = "recording", ![c].snap = s]
  BY DEF Probed
<1>3. cmd' = [cmd EXCEPT ![c] = [cmd[c] EXCEPT !.at = "recording", !.snap = s]]
  BY <1>2
<1>4. /\ cmd'[c] = [cmd[c] EXCEPT !.at = "recording", !.snap = s]
      /\ \A d \in Commands \ {c} : cmd'[d] = cmd[d]
  BY <1>3, OneChanges
<1> QED BY <1>1, <1>4 DEF CommandRecords

LEMMA CommandedCoarse ==
    ASSUME StoreType, ShapeInv, Coarse, CoarseParts, Commanded
    PROVE  CoarseParts'
<1>1. ASSUME NEW c \in Commands, Asks(c) \/ AsksDelete(c) \/ AsksTest(c) PROVE CoarseParts'
  <2>1. ~Working(c) /\ ~Working(c)'
    BY <1>1, Requests DEF Working, Critical
  <2> QED BY <1>1, <2>1, Requests, QuietCoarse
<1>2. ASSUME NEW c \in Commands, Probed(c) PROVE CoarseParts'
  <2>1. ~Working(c) /\ ~Working(c)'
    BY <1>2, ProbedPlace DEF Working, Critical
  <2> QED BY <1>2, <2>1, ProbedPlace, QuietCoarse DEF Probed
<1> QED BY <1>1, <1>2, ReadsCoarse, TruncatesCoarse, WrittenCoarse, HistoryReadsCoarse,
           HistoryTruncatesCoarse, HistoryWrittenCoarse DEF Commanded

-----------------------------------------------------------------------------
(* Where commands come one at a time.                                        *)

(* A step of the command under way.                                          *)
LEMMA InTurnStep ==
    ASSUME InTurnInv, NEW c \in Commands, cmd[c].at # "idle",
           \A d \in Commands \ {c} : cmd'[d] = cmd[d],
           cmd'[c].at = "idle" \/ (cmd'[c].op = cmd[c].op /\ cmd'[c].id = cmd[c].id),
           gone' \subseteq gone \/ cmd[c].op = "delete",
           WritesHistory(c)' => DOMAIN cmd'[c].copy \cap gone' = {},
           \A i \in DOMAIN history' \cap gone' : Deletes(c)' /\ cmd'[c].id = i
    PROVE  InTurnInv'
<1>1. \A d \in Commands \ {c} : cmd[d].at = "idle" /\ cmd'[d].at = "idle"
  BY DEF InTurnInv, At
<1>2. \A d, e \in Commands : At(d, "idle")' \/ At(e, "idle")' \/ d = e
  BY <1>1 DEF At
<1>3. \A d \in Commands : ~At(d, "idle")' /\ cmd'[d].op = "test" => cmd'[d].id \notin gone'
  <2>1. cmd'[c].at # "idle" /\ cmd'[c].op = "test" => cmd'[c].id \notin gone'
    BY DEF InTurnInv, At
  <2> QED BY <2>1, <1>1 DEF At
<1>4. \A d \in Commands : WritesHistory(d)' => DOMAIN cmd'[d].copy \cap gone' = {}
  BY <1>1 DEF WritesHistory
<1> QED BY <1>2, <1>3, <1>4 DEF InTurnInv

(* Nothing is left of a deletion unless it is the one under way.             *)
LEMMA NothingLeft ==
    ASSUME InTurnInv, NEW c \in Commands, cmd[c].at # "idle"
    PROVE  \A i \in DOMAIN history \cap gone : Deletes(c) /\ cmd[c].id = i
<1>1. \A d \in Commands \ {c} : cmd[d].at = "idle"
  BY DEF InTurnInv, At
<1>2. \A d \in Commands \ {c} : ~Deletes(d)
  BY <1>1 DEF Deletes, Working, Critical
<1> QED BY <1>2 DEF InTurnInv

LEMMA RequestsInTurn ==
    ASSUME StoreType, CoarseParts, InTurnInv, left.alone, NEW c \in Commands,
           Asks(c) \/ AsksDelete(c) \/ AsksTest(c)
    PROVE  InTurnInv'
<1>1. /\ \A d \in Commands : cmd[d].at = "idle"
      /\ \A d \in Commands \ {c} : cmd'[d].at = "idle"
      /\ gone' \subseteq gone /\ history' = history
      /\ cmd'[c].at \in {"reading", "probing"}
  BY Requests
<1>2. \A d \in Commands : ~Deletes(d) /\ ~WritesList(d)
  BY <1>1 DEF Deletes, Working, Critical, WritesList
<1>3. \A d \in Commands : ~WritesHistory(d)'
  BY <1>1 DEF WritesHistory
<1>4. DOMAIN history' \cap gone' = {}
  BY <1>1, <1>2 DEF InTurnInv
<1>5. DOMAIN proxies = kept
  BY <1>2 DEF CoarseParts, ListKept
<1>6. cmd'[c].op = "test" => cmd'[c].id \notin gone'
  <2> SUFFICES ASSUME AsksTest(c) PROVE cmd'[c].id \notin gone'
    BY Requests
  <2>1. PICK i \in Ids, e \in Offered :
            /\ i \in DOMAIN proxies \/ Unused(i) \/ Unsaved(i)
            /\ cmd' = [cmd EXCEPT ![c] = [Rest EXCEPT !.at = "probing", !.op = "test", !.id = i, !.entry = e]]
            /\ gone' = IF Unused(i) THEN gone \ {i} ELSE gone
    BY DEF AsksTest
  <2>2. cmd'[c].id = i
    BY <2>1 DEF StoreType, Rest
  <2>3. i \notin gone'
    BY <2>1, <1>5 DEF Unsaved, StoreType
  <2> QED BY <2>2, <2>3
<1>7. \A d \in Commands : ~At(d, "idle")' => d = c
  BY <1>1 DEF At
<1> QED BY <1>3, <1>4, <1>6, <1>7 DEF InTurnInv

LEMMA ReadsInTurn ==
    ASSUME StoreType, InTurnInv, NEW c \in Commands, Reads(c)
    PROVE  InTurnInv'
<1>1. cmd[c].at = "reading" /\ ~Deletes(c)
  BY DEF Reads, At, Deletes, Working, Critical
<1>2. DOMAIN history \cap gone = {}
  BY <1>1, NothingLeft
<1>3. ~WritesHistory(c)'
  BY ReadsPlace DEF WritesHistory
<1>4. CASE cmd[c].op = "delete"
  <2>1. /\ cmd'[c].at = "writing" /\ cmd'[c].op = "delete" /\ cmd'[c].id = cmd[c].id
        /\ gone' = gone \cup {cmd[c].id} /\ history' = history
    BY <1>4, ReadsPlace DEF Reads
  <2>2. \A i \in DOMAIN history' \cap gone' : Deletes(c)' /\ cmd'[c].id = i
    BY <2>1, <1>2 DEF Deletes, Working, Critical
  <2> QED BY <1>1, <1>3, <1>4, <2>1, <2>2, ReadsPlace, InTurnStep
<1>5. CASE cmd[c].op # "delete"
  <2>1. gone' = gone /\ history' = history
    BY <1>5 DEF Reads
  <2> QED BY <1>1, <1>2, <1>3, <2>1, ReadsPlace, InTurnStep
<1> QED BY <1>4, <1>5

LEMMA CommandedInTurn ==
    ASSUME StoreType, ShapeInv, Coarse, CoarseParts, InTurnInv, left.alone, Commanded
    PROVE  InTurnInv'
<1>1. ASSUME NEW c \in Commands, Probed(c) PROVE InTurnInv'
  <2>1. ~Deletes(c) /\ ~WritesHistory(c)' /\ cmd[c].at # "idle"
    BY <1>1, ProbedPlace DEF Deletes, WritesHistory
  <2>2. DOMAIN history' \cap gone' = {} /\ gone' = gone
    BY <1>1, <2>1, NothingLeft DEF Probed
  <2> QED BY <1>1, <2>1, <2>2, ProbedPlace, InTurnStep
<1>2. ASSUME NEW c \in Commands, Truncates(c) PROVE InTurnInv'
  <2>1. /\ cmd[c].at = "writing" /\ cmd'[c] = [cmd[c] EXCEPT !.at = "torn"]
        /\ \A d \in Commands \ {c} : cmd'[d] = cmd[d]
        /\ UNCHANGED <<history, gone>> /\ cmd[c] \in CommandRecords
    BY <1>2 DEF Truncates, At, Goes, StoreType
  <2>2. cmd'[c].at = "torn" /\ cmd'[c].op = cmd[c].op /\ cmd'[c].id = cmd[c].id
    BY <2>1 DEF CommandRecords
  <2>3. ~WritesHistory(c)' /\ (Deletes(c) => Deletes(c)')
    BY <2>1, <2>2 DEF WritesHistory, Deletes, Working, Critical
  <2> QED BY <2>1, <2>2, <2>3, NothingLeft, InTurnStep
<1>3. ASSUME NEW c \in Commands, Written(c) PROVE InTurnInv'
  <2>1. cmd[c].at = "torn" /\ gone' \subseteq gone /\ history' = history
    BY <1>3 DEF Written, At
  <2>2. ~WritesHistory(c)' /\ (Deletes(c) => Deletes(c)' /\ cmd'[c].id = cmd[c].id)
    BY <1>3, WrittenPlace DEF WritesHistory, Deletes, Working, Critical
  <2>3. \A i \in DOMAIN history' \cap gone' : Deletes(c)' /\ cmd'[c].id = i
    BY <2>1, <2>2, NothingLeft
  <2> QED BY <1>3, <2>1, <2>2, <2>3, WrittenPlace, InTurnStep
<1>4. ASSUME NEW c \in Commands, HistoryReads(c) PROVE InTurnInv'
  <2>1. /\ cmd[c].at = "recording" /\ gone' = gone /\ history' = history /\ AllShaped(history)
    BY <1>4 DEF HistoryReads, At, ShapeInv
  <2>2. \A i \in DOMAIN history \cap gone : cmd[c].op = "delete" /\ cmd[c].id = i
    BY <2>1, NothingLeft DEF Deletes
  <2>3. cmd[c].op = "test" => cmd[c].id \notin gone
    BY <2>1 DEF InTurnInv, At
  <2>4. WritesHistory(c)' => DOMAIN cmd'[c].copy \cap gone' = {}
    BY <1>4, <2>1, <2>2, <2>3, HistoryReadsPlace DEF WritesHistory
  <2>5. \A i \in DOMAIN history' \cap gone' : Deletes(c)' /\ cmd'[c].id = i
    BY <1>4, <2>1, <2>2, HistoryReadsPlace DEF Deletes, Working, Critical
  <2> QED BY <1>4, <2>1, <2>4, <2>5, HistoryReadsPlace, InTurnStep
<1>5. ASSUME NEW c \in Commands, HistoryTruncates(c) PROVE InTurnInv'
  <2>1. DOMAIN history' \cap gone' = {} /\ gone' = gone
    BY <1>5, EmptyTyped DEF HistoryTruncates
  <2>2. WritesHistory(c)' => DOMAIN cmd'[c].copy \cap gone' = {}
    BY <1>5, <2>1, HistoryTruncatesPlace DEF WritesHistory, InTurnInv
  <2> QED BY <1>5, <2>1, <2>2, HistoryTruncatesPlace, InTurnStep
<1>6. ASSUME NEW c \in Commands, HistoryWritten(c) PROVE InTurnInv'
  <2>1. history' = cmd[c].copy /\ gone' = gone
    BY <1>6 DEF HistoryWritten
  <2>2. DOMAIN history' \cap gone' = {} /\ ~WritesHistory(c)'
    BY <1>6, <2>1, HistoryWrittenPlace DEF WritesHistory, InTurnInv
  <2> QED BY <1>6, <2>1, <2>2, HistoryWrittenPlace, InTurnStep
<1> QED BY <1>1, <1>2, <1>3, <1>4, <1>5, <1>6, RequestsInTurn, ReadsInTurn DEF Commanded
-----------------------------------------------------------------------------
(* The invariant of the store, and the launch.                               *)

(* The workload's choices stay; only its bounds are used up.                 *)
LEMMA ChoicesStay ==
    ASSUME StoreType, StoreNext \/ LoadsProxy \/ UNCHANGED store
    PROVE  /\ left' \in WorkloadRecords
           /\ left'.fine = left.fine /\ left'.restarts = left.restarts /\ left'.alone = left.alone
<1>1. left \in WorkloadRecords
  BY DEF StoreType
<1>2. \/ left' = left
      \/ left.tests > 0 /\ left' = [left EXCEPT !.tests = @ - 1]
      \/ left.launches > 0 /\ left' = [left EXCEPT !.launches = @ - 1]
  BY DEF StoreNext, Commanded, Restart, LoadsProxy, store, Asks, AsksDelete, AsksTest, Probed, Reads,
         Truncates, Written, HistoryReads, HistoryTruncates, HistoryWritten
<1> QED BY <1>1, <1>2 DEF WorkloadRecords

LEMMA StoreStep ==
    ASSUME StoreInv, StoreNext
    PROVE  StoreInv'
<1> USE DEF StoreInv
<1>1. StoreType'
  BY AsksType, AsksDeleteType, AsksTestType, ProbedType, ReadsType, TruncatesType, WrittenType,
     HistoryReadsType, HistoryTruncatesType, HistoryWrittenType, RestartType
     DEF StoreNext, Commanded, ShapeInv
<1>2. ShapeInv'
  BY StoreShape
<1>3. ASSUME Coarse' PROVE OneWorks' /\ ListKept' /\ TestsHeld' /\ (left'.alone => InTurnInv')
  <2>1. Coarse /\ (left'.alone => left.alone)
    BY <1>3, ChoicesStay DEF Coarse
  <2>2. Commanded /\ CoarseParts
    BY <2>1 DEF StoreNext, Restart, Coarse, CoarseInv, CoarseParts
  <2>3. CoarseParts'
    BY <2>1, <2>2, CommandedCoarse
  <2>4. left.alone => InTurnInv'
    BY <2>1, <2>2, CommandedInTurn DEF CoarseInv
  <2> QED BY <2>1, <2>3, <2>4 DEF CoarseParts
<1> QED BY <1>1, <1>2, <1>3 DEF CoarseInv

(* A launch takes of the store a unit of its workload.                       *)
LEMMA LoadsStore ==
    ASSUME StoreInv, LoadsProxy
    PROVE  StoreInv'
<1>1. /\ left' \in WorkloadRecords /\ UNCHANGED <<proxies, history, cmd, kept, gone, tested>>
      /\ left'.fine = left.fine /\ left'.restarts = left.restarts /\ left'.alone = left.alone
  BY ChoicesStay DEF StoreInv, LoadsProxy
<1> QED BY <1>1 DEF StoreInv, StoreType, ShapeInv, CoarseInv, Coarse, CommandOK, WritesList, WritesHistory,
                    AllShaped, OneWorks, Working, ListKept, Enters, TestsHeld, Tests, InTurnInv, At, Deletes

LEMMA IdleStore ==
    ASSUME StoreInv, UNCHANGED store
    PROVE  StoreInv'
BY DEF StoreInv, StoreType, ShapeInv, CoarseInv, Coarse, CommandOK, WritesList, WritesHistory, store,
       AllShaped, OneWorks, Working, ListKept, Enters, TestsHeld, Tests, InTurnInv, At, Deletes

(* The store keeps its invariant under every step of commands and launches.  *)
LEMMA PlanStore ==
    ASSUME StoreInv, [PlanNext]_vars
    PROVE  StoreInv'
<1>1. StoreNext \/ LoadsProxy \/ UNCHANGED store
  BY DEF PlanNext, StoreNext, Binds, ProbesUdp, ResolvesAuto, DecidesWebrtc, Closes, vars, store
<1> QED BY <1>1, StoreStep, LoadsStore, IdleStore

LEMMA StoreInvariant == PlanSpec => []StoreInv
<1>1. PlanInit => StoreInv
  BY InitStore DEF PlanInit
<1>2. StoreInv /\ [PlanNext]_vars => StoreInv'
  BY PlanStore
<1> QED BY <1>1, <1>2, PTL DEF PlanSpec

(* The invariant says of a settled store what its properties say.            *)
LEMMA StoreInvFiles == StoreInv => FilesKept
<1> SUFFICES ASSUME StoreInv PROVE FilesKept
  OBVIOUS
<1>1. TypeOK
  <2>1. \A i \in DOMAIN history : history[i] \in Seq(Snapshots)
    BY HistoryTyped DEF StoreInv, StoreType
  <2>2. \A c \in Commands : cmd[c].at \in Places /\ cmd[c].op \in Operations
    BY DEF StoreInv, StoreType, CommandRecords
  <2> QED BY <2>1, <2>2, ListTyped, HistoryTyped DEF StoreInv, StoreType, TypeOK, Places, Operations
<1>2. HistoryShape
  BY DEF StoreInv, ShapeInv, AllShaped, Shaped, HistoryShape
<1>3. ASSUME Settled PROVE DOMAIN proxies = kept /\ tested \subseteq DOMAIN history
  <2>1. Coarse /\ \A c \in Commands : ~WritesList(c) /\ ~WritesHistory(c)
    BY <1>3, WritersWork DEF Settled, Coarse
  <2> QED BY <2>1 DEF StoreInv, CoarseInv, ListKept, TestsHeld
<1>4. NoLeftHistory
  <2> SUFFICES ASSUME Settled, left.alone, \A c \in Commands : At(c, "idle")
               PROVE  DOMAIN history \cap gone = {}
    BY DEF NoLeftHistory
  <2>1. InTurnInv
    BY DEF StoreInv, CoarseInv, Coarse, Settled
  <2>2. \A c \in Commands : ~Deletes(c)
    BY DEF Deletes, Settled
  <2> QED BY <2>1, <2>2 DEF InTurnInv
<1> QED BY <1>1, <1>2, <1>3, <1>4 DEF FilesKept, KeptStored, NoResurrection, TestsKept

(* proxies.json holds exactly what was saved and not deleted, and            *)
(* proxies-history.json what was tested, within its cap and without two      *)
(* neighbours of one address, for any number of proxies, exits and commands, *)
(* whatever order saves, imports, deletions and tests come in (upsert,       *)
(* upsert_dedup, bulk_save, delete, full_test and record_test of proxy.rs).   *)
THEOREM FilesAreKept == PlanSpec => []FilesKept
BY StoreInvariant, StoreInvFiles, PTL
-----------------------------------------------------------------------------
(* The launch.                                                               *)

(* Some snapshot is the newest test of the bound proxy, or there is none.    *)
LEMMA LatestTyped ==
    ASSUME StoreInv
    PROVE  /\ Latest \subseteq Snapshots
           /\ Latest # {} => (CHOOSE s \in Latest : TRUE) \in Snapshots /\ Latest = {CHOOSE s \in Latest : TRUE}
<1>1. CASE plan.bound \in DOMAIN history
  <2>1. history[plan.bound] \in Seq(Snapshots) \ {<<>>}
    BY <1>1, HistoryTyped DEF StoreInv, StoreType
  <2>2. Last(history[plan.bound]) \in Snapshots
    <3>1. Len(history[plan.bound]) \in 1 .. Len(history[plan.bound])
      BY <2>1
    <3> QED BY <2>1, <3>1 DEF Last
  <2>3. Latest = {Last(history[plan.bound])}
    BY <1>1 DEF Latest
  <2> QED BY <2>2, <2>3
<1>2. CASE plan.bound \notin DOMAIN history
  BY <1>2 DEF Latest
<1> QED BY <1>1, <1>2

Shown == Exits \cup {Host, Default}

(* What no live look-up gives: for a proxy with a country, an exit's.        *)
LEMMA FallbackHides ==
    ASSUME StoreInv, PlanInv
    PROVE  /\ Fallback.zone \in Shown /\ Fallback.locale \in Shown
           /\ Proxied /\ plan.proxy.country \in Exits \ NoZone =>
                  Fallback.zone \in Exits /\ Fallback.locale # Host
<1> DEFINE s == CHOOSE s \in Latest : TRUE
<1>1. CASE \E t \in Latest : t.ip # NoExit
  <2>1. s \in Snapshots /\ s.ip # NoExit
    BY <1>1, LatestTyped
  <2>2. s.ip \in Exits
    BY <2>1 DEF Snapshots
  <2>3. Fallback = Geo(s.ip, Locale(s.ip))
    BY <1>1 DEF Fallback
  <2> HIDE DEF s
  <2> QED BY <2>2, <2>3, LaunchPlanAssumption DEF Geo, Locale, Shown
<1>2. CASE ~(\E t \in Latest : t.ip # NoExit)
  <2>1. CASE Proxied /\ plan.proxy.country # NoExit
    <3>1. plan.proxy.country \in Exits
      BY <2>1 DEF PlanInv, PlanRecords, Proxied, Entries
    <3>2. Fallback = Geo(Timezone(plan.proxy.country), Locale(plan.proxy.country))
      BY <1>2, <2>1 DEF Fallback
    <3> QED BY <3>1, <3>2, LaunchPlanAssumption, ProxyStoreAssumption DEF Geo, Timezone, Locale, Shown
  <2>2. CASE ~(Proxied /\ plan.proxy.country # NoExit)
    <3>1. Fallback = Geo(Host, Host)
      BY <1>2, <2>2 DEF Fallback
    <3> QED BY <3>1, <2>2, ProxyStoreAssumption DEF Geo, Shown
  <2> QED BY <2>1, <2>2
<1> QED BY <1>1, <1>2

(* The launch keeps its invariant where it does nothing itself.              *)
LEMMA PlanFrame ==
    ASSUME PlanInv, plan' = plan, binding' = binding,
           left'.fine = left.fine, left'.restarts = left.restarts
    PROVE  PlanInv'
BY DEF PlanInv, Proxied, Coarse

LEMMA LoadsPlan ==
    ASSUME StoreInv, PlanInv, LoadsProxy
    PROVE  PlanInv'
<1>1. PICK e \in Offered :
          /\ binding \in DOMAIN proxies => e = proxies[binding]
          /\ plan' = [NoPlan EXCEPT
                 !.at = IF binding \in DOMAIN proxies \cup {Inline} /\ e.kind = "socks5" THEN "udp" ELSE "geo",
                 !.bound = binding, !.kept = binding \in kept \cup {Inline},
                 !.proxy = IF binding \in DOMAIN proxies \cup {Inline} THEN e ELSE NoProxy]
  BY DEF LoadsProxy
<1>2. e \in Entries /\ binding \in Ids \cup {NoProxy, Inline}
  BY OfferedEntries DEF PlanInv
<1> DEFINE at == IF binding \in DOMAIN proxies \cup {Inline} /\ e.kind = "socks5" THEN "udp" ELSE "geo"
           saved == binding \in kept \cup {Inline}
           proxy == IF binding \in DOMAIN proxies \cup {Inline} THEN e ELSE NoProxy
<1>3. plan' \in PlanRecords /\ plan'.at \in {"udp", "geo"}
  <2>1. at \in {"udp", "geo"} /\ saved \in BOOLEAN /\ proxy \in Entries \cup {NoProxy}
    BY <1>2
  <2>2. plan' = [NoPlan EXCEPT !.at = at, !.bound = binding, !.kept = saved, !.proxy = proxy]
    BY <1>1
  <2> HIDE DEF at, saved, proxy
  <2>3. NoPlan \in PlanRecords
    BY DEF PlanRecords, NoPlan
  <2> QED BY <1>2, <2>1, <2>2, <2>3 DEF PlanRecords
<1>4. /\ plan'.kept = (binding \in kept \cup {Inline})
      /\ plan'.proxy = IF binding \in DOMAIN proxies \cup {Inline} THEN e ELSE NoProxy
  BY <1>1 DEF NoPlan
<1>5. ASSUME Coarse', plan'.kept PROVE Proxied'
  <2>1. Coarse
    BY <1>5, ChoicesStay DEF StoreInv, Coarse
  <2>2. \A c \in Commands : ~WritesList(c)
    BY <2>1, WritersWork DEF LoadsProxy, MayRead, Coarse
  <2>3. DOMAIN proxies = kept
    BY <2>1, <2>2 DEF StoreInv, CoarseInv, ListKept
  <2> QED BY <1>2, <1>4, <1>5, <2>3, LaunchPlanAssumption DEF Proxied
<1>6. binding' = binding
  BY DEF LoadsProxy
<1> QED BY <1>2, <1>3, <1>5, <1>6 DEF PlanInv

LEMMA ProbesPlan ==
    ASSUME StoreInv, PlanInv, ProbesUdp
    PROVE  PlanInv'
<1>1. PICK live \in BOOLEAN :
          plan' = [plan EXCEPT !.at = "geo", !.live = live,
                               !.udp = live \/ \E s \in Latest : s.udp]
  BY DEF ProbesUdp
<1>2. (live \/ \E s \in Latest : s.udp) \in BOOLEAN
  OBVIOUS
<1>3. plan' \in PlanRecords
  BY <1>1, <1>2 DEF PlanInv, PlanRecords
<1>4. plan'.at = "geo" /\ plan'.proxy = plan.proxy /\ plan'.kept = plan.kept /\ plan.at = "udp"
  BY <1>1 DEF PlanInv, PlanRecords, ProbesUdp
<1>5. left' = left /\ binding' = binding
  BY DEF ProbesUdp, store
<1> QED BY <1>3, <1>4, <1>5 DEF PlanInv, Proxied, Coarse

LEMMA ResolvesPlan ==
    ASSUME StoreInv, PlanInv, ResolvesAuto
    PROVE  PlanInv'
<1>1. PICK answer \in Looks :
          LET geo == IF answer = Failed THEN Fallback
                     ELSE Geo(IF answer = NoExit THEN Timezone(NoExit) ELSE answer, Locale(answer)) IN
          plan' = [plan EXCEPT !.at = "webrtc", !.zone = geo.zone, !.locale = geo.locale]
  BY DEF ResolvesAuto
<1> DEFINE geo == IF answer = Failed THEN Fallback
                  ELSE Geo(IF answer = NoExit THEN Timezone(NoExit) ELSE answer, Locale(answer))
<1>2. /\ geo.zone \in Shown /\ geo.locale \in Shown
      /\ Proxied /\ plan.proxy.country \in Exits \ NoZone =>
             /\ geo.zone \in Exits \/ (NoExit \in Answers /\ geo.zone = Default)
             /\ geo.locale # Host
  <2>1. CASE answer = Failed
    BY <2>1, FallbackHides
  <2>2. CASE answer # Failed
    <3>1. /\ geo.zone = IF answer = NoExit THEN Default ELSE answer
          /\ geo.locale = IF answer \in NoLocale \cup {NoExit} THEN Default ELSE answer
      BY <2>2 DEF Geo, Timezone, Locale
    <3>2. CASE Proxied
      <4>1. answer \in Answers /\ answer \in Exits \cup {NoExit}
        BY <2>2, <3>2, LaunchPlanAssumption DEF Looks
      <4> QED BY <3>1, <4>1, LaunchPlanAssumption DEF Shown
    <3>3. CASE ~Proxied
      <4>1. answer = Host
        BY <2>2, <3>3 DEF Looks
      <4> QED BY <3>1, <3>3, <4>1 DEF Shown
    <3> QED BY <3>2, <3>3
  <2> QED BY <2>1, <2>2
<1> HIDE DEF geo
<1>3. plan' = [plan EXCEPT !.at = "webrtc", !.zone = geo.zone, !.locale = geo.locale]
  BY <1>1 DEF geo
<1>4. plan' \in PlanRecords
  BY <1>2, <1>3 DEF PlanInv, PlanRecords, Shown
<1>5. /\ plan'.at = "webrtc" /\ plan'.proxy = plan.proxy /\ plan'.kept = plan.kept /\ plan.at = "geo"
      /\ plan'.zone = geo.zone /\ plan'.locale = geo.locale
  BY <1>3 DEF PlanInv, PlanRecords, ResolvesAuto
<1>6. left' = left /\ binding' = binding
  BY DEF ResolvesAuto, store
<1> QED BY <1>2, <1>4, <1>5, <1>6 DEF PlanInv, Proxied, Coarse

LEMMA DecidesPlan ==
    ASSUME StoreInv, PlanInv, DecidesWebrtc
    PROVE  PlanInv'
<1>1. PICK answer \in Looks, mode \in Modes :
          plan' = [plan EXCEPT !.at = "started", !.webrtc = Policy(mode),
                               !.ip = IF Policy(mode) = "tcp_only" THEN PublicIp(answer) ELSE NoExit]
  BY DEF DecidesWebrtc
<1>2. Policy(mode) \in {"none", "native", "relay", "tcp_only", "block"}
  BY DEF Policy, Modes
<1>3. PublicIp(answer) \in Exits \cup {NoExit}
  <2>1. CASE ~Proxied
    BY <2>1 DEF PublicIp
  <2>2. CASE Proxied /\ answer \notin {NoExit, Failed}
    BY <2>2, LaunchPlanAssumption DEF PublicIp, Looks
  <2>3. CASE Proxied /\ answer \in {NoExit, Failed} /\ \E s \in Latest : TRUE
    <3>1. (CHOOSE s \in Latest : TRUE) \in Snapshots
      BY <2>3, LatestTyped
    <3>2. PublicIp(answer) = (CHOOSE s \in Latest : TRUE).ip
      BY <2>3 DEF PublicIp
    <3> QED BY <3>1, <3>2 DEF Snapshots
  <2>4. CASE Proxied /\ answer \in {NoExit, Failed} /\ ~(\E s \in Latest : TRUE)
    BY <2>4 DEF PublicIp
  <2> QED BY <2>1, <2>2, <2>3, <2>4
<1> DEFINE ip == IF Policy(mode) = "tcp_only" THEN PublicIp(answer) ELSE NoExit
           policy == Policy(mode)
<1>4. ip \in Exits \cup {NoExit}
  BY <1>3
<1> HIDE DEF ip
<1>5. plan' = [plan EXCEPT !.at = "started", !.webrtc = policy, !.ip = ip]
  BY <1>1 DEF ip
<1>6. policy \in {"none", "native", "relay", "tcp_only", "block"}
  BY <1>2
<1> HIDE DEF policy
<1>7. plan' \in PlanRecords
  BY <1>4, <1>5, <1>6 DEF PlanInv, PlanRecords
<1>8. /\ plan'.at = "started" /\ plan'.proxy = plan.proxy /\ plan'.kept = plan.kept /\ plan.at = "webrtc"
      /\ plan'.zone = plan.zone /\ plan'.locale = plan.locale
  BY <1>5 DEF PlanInv, PlanRecords, DecidesWebrtc
<1>9. left' = left /\ binding' = binding
  BY DEF DecidesWebrtc, store
<1> QED BY <1>7, <1>8, <1>9 DEF PlanInv, Proxied, Coarse

(* A launch that is over, or is cut off by the end of the application.       *)
LEMMA NoPlanInv ==
    ASSUME binding' \in Ids \cup {NoProxy, Inline}, plan' = NoPlan
    PROVE  PlanInv'
<1>1. NoPlan \in PlanRecords /\ NoPlan.at = "idle"
  BY DEF NoPlan, PlanRecords
<1> QED BY <1>1 DEF PlanInv

LEMMA LaunchStep ==
    ASSUME StoreInv, PlanInv, [PlanNext]_vars
    PROVE  PlanInv'
<1>1. CASE Commanded /\ UNCHANGED <<binding, plan>>
  BY <1>1, PlanFrame, ChoicesStay DEF StoreNext, StoreInv
<1>2. CASE (Restart /\ plan' = NoPlan /\ UNCHANGED binding) \/ Closes
  BY <1>2, NoPlanInv DEF PlanInv, Closes
<1>3. CASE Binds
  <2>1. binding' \in Ids \cup {NoProxy, Inline} /\ plan' = plan /\ left' = left
    BY <1>3, ListTyped DEF Binds, StoreInv, StoreType, store
  <2> QED BY <2>1 DEF PlanInv, Proxied, Coarse
<1>4. CASE UNCHANGED vars
  BY <1>4, PlanFrame DEF vars, store
<1> QED BY <1>1, <1>2, <1>3, <1>4, LoadsPlan, ProbesPlan, ResolvesPlan, DecidesPlan DEF PlanNext

LEMMA PlanInvSound == PlanInv => LaunchSound
BY DEF PlanInv, LaunchSound, KeptIsProxied, TaggedHidesHost, ExitShown, Started, Coarse, PlanRecords

(* A profile bound to a proxy that was saved is launched through it, one     *)
(* whose proxy has a country never shows this computer's time zone or        *)
(* language, and the address it shows is an exit's, whatever the look-ups    *)
(* answer and whatever commands change both files during the launch          *)
(* (launch_profile, resolve_auto_fields of launch.rs).                       *)
THEOREM LaunchesAreSound == PlanSpec => []LaunchSound
<1>1. PlanInit => StoreInv /\ PlanInv
  <2> SUFFICES ASSUME PlanInit PROVE StoreInv /\ PlanInv
    OBVIOUS
  <2>1. plan = NoPlan /\ NoPlan \in PlanRecords /\ NoPlan.at = "idle" /\ binding = NoProxy
    BY DEF PlanInit, NoPlan, PlanRecords
  <2>2. PlanInv
    BY <2>1 DEF PlanInv
  <2> QED BY <2>2, InitStore DEF PlanInit
<1>2. StoreInv /\ PlanInv /\ [PlanNext]_vars => StoreInv' /\ PlanInv'
  BY PlanStore, LaunchStep
<1> QED BY <1>1, <1>2, PlanInvSound, PTL DEF PlanSpec
=============================================================================
