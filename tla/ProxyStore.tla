----------------------------- MODULE ProxyStore -----------------------------
(***************************************************************************)
(* The launcher's proxies (proxy.rs): proxies.json, the history of their     *)
(* tests in proxies-history.json, and the commands that change them.  A      *)
(* command reads a whole file, changes its copy and writes it back in place, *)
(* with no lock; the window's commands run on the main thread, the tests and *)
(* the API on others.                                                        *)
(*                                                                           *)
(* A file that is being written reads as an empty one: what is there is no   *)
(* JSON yet, and both loads take the default then.                           *)
(***************************************************************************)
EXTENDS Naturals, FiniteSets, Sequences, SequencesExt, Functions

CONSTANTS
    Ids,            \* proxy ids
    Hosts,          \* host, port and user
    Kinds,          \* subset of {"socks5", "http"}
    Exits,          \* exit addresses, each with its country
    NoExit,         \* no address is known
    Commands,       \* commands at once
    MaxSnaps,       \* the cap of record_test (50)
    Workloads       \* bound: what a run asks of the store

(* A workload: how many ids, which kinds and exits occur, whether commands    *)
(* come one at a time, whether threads may interleave between a read and its *)
(* write, whether the application may end, how many tests and launches.      *)
WorkloadRecords ==
    [ids : Nat, kinds : SUBSET Kinds, exits : SUBSET Exits, alone : BOOLEAN,
     fine : BOOLEAN, restarts : BOOLEAN, tests : Nat, launches : Nat]

ASSUME ProxyStoreAssumption ==
    /\ NoExit \notin Exits /\ Kinds \subseteq {"socks5", "http"}
    /\ MaxSnaps \in Nat \ {0} /\ Workloads \subseteq WorkloadRecords

VARIABLES
    proxies,    \* proxies.json: ids -> entries
    history,    \* proxies-history.json: ids -> snapshots
    cmd,        \* Commands -> the command under way
    kept,       \* ghost: ids saved and not deleted since
    gone,       \* ghost: ids deleted
    tested,     \* ghost: ids with a recorded test, not deleted since
    left        \* what is left of the workload

store == <<proxies, history, cmd, kept, gone, tested, left>>

-----------------------------------------------------------------------------
Entries == [host : Hosts, kind : Kinds, country : Exits \cup {NoExit}]

(* TCP failed: no address either, whatever the other two probes said.        *)
Snapshots == {s \in [ip : Exits \cup {NoExit}, tcp : BOOLEAN, udp : BOOLEAN] :
                   s.tcp \/ s.ip = NoExit}

Empty == [i \in {} |-> NoExit]

Rest == [at |-> "idle", op |-> "none", id |-> NoExit, entry |-> NoExit,
         copy |-> Empty, snap |-> NoExit]

Init ==
    /\ proxies = Empty /\ history = Empty /\ kept = {} /\ gone = {} /\ tested = {}
    /\ cmd = [c \in Commands |-> Rest]
    /\ left \in Workloads

Critical == {"writing", "torn", "hwriting", "htorn"}

(* A command awaits nothing between its first read and its last write, but    *)
(* for the probes of a test.                                                 *)
Working(c) ==
    \/ cmd[c].at \in Critical
    \/ cmd[c].op = "delete" /\ cmd[c].at = "recording"
    \/ cmd[c].op = "test" /\ cmd[c].at = "reading"

Undisturbed(c) == left.fine \/ \A d \in Commands \ {c} : ~Working(d)

At(c, at) == cmd[c].at = at

Ends(c) == cmd' = [cmd EXCEPT ![c] = Rest]

Goes(c, at) == cmd' = [cmd EXCEPT ![c].at = at]

-----------------------------------------------------------------------------
(* The requests.                                                             *)

KnownIds ==
    DOMAIN proxies \cup DOMAIN history \cup kept \cup tested
        \cup UNION {DOMAIN cmd[c].copy \cup ({cmd[c].id} \cap Ids) : c \in Commands}

(* A new id is none that anything still knows.                               *)
Unused(i) == i \notin KnownIds /\ Cardinality(KnownIds \cup gone \cup {i}) <= left.ids

(* A row of the import dialog: it has its id, and may have been tested.      *)
Unsaved(i) == i \in DOMAIN history \ (DOMAIN proxies \cup kept \cup gone)

Offered == {e \in Entries : e.kind \in left.kinds /\ e.country \in left.exits \cup {NoExit}}

MayAsk(c) == At(c, "idle") /\ (left.alone => \A d \in Commands : At(d, "idle"))

(* proxy_save: a new entry, or one of the list edited; add_proxy; one row of *)
(* an import.                                                                *)
Asks(c) ==
    /\ MayAsk(c)
    /\ \E op \in {"save", "add", "bulk"}, e \in Offered, i \in Ids :
           /\ Unused(i) \/ (op = "save" /\ i \in DOMAIN proxies) \/ (op = "bulk" /\ Unsaved(i))
           /\ e.country = NoExit \/ op = "save" \/ Unsaved(i)
           /\ gone' = IF Unused(i) THEN gone \ {i} ELSE gone
           /\ cmd' = [cmd EXCEPT ![c] = [Rest EXCEPT !.at = "reading", !.op = op, !.id = i, !.entry = e]]
    /\ UNCHANGED <<proxies, history, kept, tested, left>>

AsksDelete(c) ==
    /\ MayAsk(c)
    /\ \E i \in DOMAIN proxies :
           cmd' = [cmd EXCEPT ![c] = [Rest EXCEPT !.at = "reading", !.op = "delete", !.id = i]]
    /\ UNCHANGED <<proxies, history, kept, gone, tested, left>>

AsksTest(c) ==
    /\ MayAsk(c) /\ left.tests > 0 /\ left' = [left EXCEPT !.tests = @ - 1]
    /\ \E i \in Ids, e \in Offered :
           /\ i \in DOMAIN proxies => e = proxies[i]
           /\ i \in DOMAIN proxies \/ Unused(i) \/ Unsaved(i)
           /\ cmd' = [cmd EXCEPT ![c] = [Rest EXCEPT !.at = "probing", !.op = "test", !.id = i, !.entry = e]]
           /\ gone' = IF Unused(i) THEN gone \ {i} ELSE gone
    /\ UNCHANGED <<proxies, history, kept, tested>>

-----------------------------------------------------------------------------
(* proxies.json                                                              *)

Same(c, i) ==
    /\ proxies[i].host = cmd[c].entry.host
    /\ cmd[c].op = "add" => proxies[i].kind = cmd[c].entry.kind

Known(c) == \E i \in DOMAIN proxies : Same(c, i)

(* Mutant: the entry that was tested is saved with its country.              *)
Tagged_Upsert(c) ==
    [i \in DOMAIN proxies \cup {cmd[c].id} |->
        IF i = cmd[c].id THEN [cmd[c].entry EXCEPT !.country = cmd[c].snap.ip] ELSE proxies[i]]

(* The address that a test has found fills an empty country.                 *)
Tagged(c) ==
    [i \in DOMAIN proxies |->
        IF i = cmd[c].id /\ proxies[i].country = NoExit
        THEN [proxies[i] EXCEPT !.country = cmd[c].snap.ip] ELSE proxies[i]]

Changed(c) ==
    CASE cmd[c].op = "save" \/ (cmd[c].op \in {"add", "bulk"} /\ ~Known(c)) ->
           [i \in DOMAIN proxies \cup {cmd[c].id} |->
               IF i = cmd[c].id THEN cmd[c].entry ELSE proxies[i]]
      [] cmd[c].op = "delete" -> Restrict(proxies, DOMAIN proxies \ {cmd[c].id})
      [] cmd[c].op = "test" -> Tagged(c)
      [] OTHER -> proxies

Writes(c) == cmd[c].op \in {"save", "bulk", "delete"} \/ Changed(c) # proxies

Reads(c) ==
    /\ At(c, "reading") /\ Undisturbed(c)
    /\ IF Writes(c)
       THEN cmd' = [cmd EXCEPT ![c].at = "writing", ![c].copy = Changed(c)]
       ELSE Ends(c)
    /\ LET out == IF cmd[c].op = "delete" THEN {cmd[c].id} ELSE {} IN
       kept' = kept \ out /\ tested' = tested \ out /\ gone' = gone \cup out
    /\ UNCHANGED <<proxies, history, left>>

Truncates(c) ==
    /\ At(c, "writing") /\ proxies' = Empty /\ Goes(c, "torn")
    /\ UNCHANGED <<history, kept, gone, tested, left>>

Written(c) ==
    /\ At(c, "torn") /\ proxies' = cmd[c].copy
    /\ LET in == IF cmd[c].op \in {"save", "add", "bulk"}
                 THEN {cmd[c].id} \cap DOMAIN cmd[c].copy ELSE {} IN
       kept' = kept \cup in /\ gone' = gone \ in
    /\ IF cmd[c].op = "delete" THEN Goes(c, "recording") ELSE Ends(c)
    /\ UNCHANGED <<history, tested, left>>

-----------------------------------------------------------------------------
(* full_test, and the history.                                               *)

Probed(c) ==
    /\ At(c, "probing")
    /\ \E s \in Snapshots :
           /\ s.ip \in left.exits \cup {NoExit} /\ (s.udp => cmd[c].entry.kind = "socks5")
           /\ cmd' = [cmd EXCEPT ![c].at = "recording", ![c].snap = s]
    /\ UNCHANGED <<proxies, history, kept, gone, tested, left>>

Of(i) == IF i \in DOMAIN history THEN history[i] ELSE <<>>

(* record_test: the same address again only renews the last snapshot.        *)
Recorded(seq, s) ==
    IF seq # <<>> /\ s.ip # NoExit /\ Last(seq).ip = s.ip
    THEN Append(Front(seq), s)
    ELSE LET all == Append(seq, s) IN
         SubSeq(all, IF Len(all) > MaxSnaps THEN Len(all) - MaxSnaps + 1 ELSE 1, Len(all))

HistoryReads(c) ==
    /\ At(c, "recording") /\ Undisturbed(c)
    /\ CASE cmd[c].op = "test" ->
              cmd' = [cmd EXCEPT ![c].at = "hwriting", ![c].copy =
                  [i \in DOMAIN history \cup {cmd[c].id} |->
                      IF i = cmd[c].id THEN Recorded(Of(i), cmd[c].snap) ELSE history[i]]]
         [] cmd[c].op = "delete" /\ cmd[c].id \in DOMAIN history ->
              cmd' = [cmd EXCEPT ![c].at = "hwriting",
                                 ![c].copy = Restrict(history, DOMAIN history \ {cmd[c].id})]
         [] OTHER -> Ends(c)
    /\ UNCHANGED <<proxies, history, kept, gone, tested, left>>

HistoryTruncates(c) ==
    /\ At(c, "hwriting") /\ history' = Empty /\ Goes(c, "htorn")
    /\ UNCHANGED <<proxies, kept, gone, tested, left>>

HistoryWritten(c) ==
    /\ At(c, "htorn") /\ history' = cmd[c].copy
    /\ tested' = IF cmd[c].op = "test" THEN tested \cup {cmd[c].id} ELSE tested
    /\ IF cmd[c].op = "test" /\ cmd[c].snap.ip # NoExit THEN Goes(c, "reading") ELSE Ends(c)
    /\ UNCHANGED <<proxies, kept, gone, left>>

(* The application ends, at any step, and is started again.                  *)
Restart ==
    /\ left.restarts /\ cmd' = [c \in Commands |-> Rest]
    /\ UNCHANGED <<proxies, history, kept, gone, tested, left>>

-----------------------------------------------------------------------------
Commanded ==
    \E c \in Commands :
        \/ Asks(c) \/ AsksDelete(c) \/ AsksTest(c) \/ Probed(c)
        \/ Reads(c) \/ Truncates(c) \/ Written(c)
        \/ HistoryReads(c) \/ HistoryTruncates(c) \/ HistoryWritten(c)

StoreNext == Restart \/ Commanded

Spec == Init /\ [][StoreNext]_store

-----------------------------------------------------------------------------
(* Properties.                                                               *)

(* Every variable has its type, and a snapshot without TCP has no address     *)
(* ("TCP failure -> zero geo", full_test).                                    *)
TypeOK ==
    /\ DOMAIN proxies \subseteq Ids /\ \A i \in DOMAIN proxies : proxies[i] \in Entries
    /\ DOMAIN history \subseteq Ids
    /\ \A i \in DOMAIN history : history[i] \in Seq(Snapshots)
    /\ kept \subseteq Ids /\ tested \subseteq Ids /\ gone \subseteq Ids \ kept
    /\ \A c \in Commands :
           /\ cmd[c].at \in Critical \cup {"idle", "reading", "probing", "recording"}
           /\ cmd[c].op \in {"none", "save", "add", "bulk", "delete", "test"}

(* No command is at work on the files, no thread has come between a read and  *)
(* its write, and no write was cut short by the end of the application.       *)
Settled == ~left.fine /\ ~left.restarts /\ \A c \in Commands : ~Working(c)

(* What was saved is in the list when no command is at work on the files,     *)
(* whatever a test has been holding for the seconds of its probes (upsert,    *)
(* upsert_dedup, bulk_save, full_test).                                       *)
KeptStored == Settled => kept \subseteq DOMAIN proxies

(* Nothing that was deleted is in the list again (delete, full_test).         *)
NoResurrection == Settled => DOMAIN proxies \subseteq kept

(* A recorded test stays, whatever other tests are recorded beside it, the    *)
(* test of an import row that is saved afterwards included (record_test).     *)
TestsKept == Settled => tested \subseteq DOMAIN history

(* A history has no two neighbours of one address and never exceeds its cap,  *)
(* whichever threads come between and wherever the application ends ("same-IP *)
(* entries collapse, capped at 50", record_test).                             *)
HistoryShape ==
    \A i \in DOMAIN history :
        /\ Len(history[i]) <= MaxSnaps
        /\ \A n \in 1 .. Len(history[i]) - 1 :
               history[i][n].ip = NoExit \/ history[i][n].ip # history[i][n + 1].ip

(* Where commands come one at a time, a deletion takes the history with it    *)
(* ("Also wipe persisted test history", delete).                              *)
NoLeftHistory ==
    Settled /\ left.alone /\ (\A c \in Commands : At(c, "idle")) => DOMAIN history \cap gone = {}

(* Every variable of the store has its type; the list holds what was saved    *)
(* and not deleted and nothing else, and the history what was tested, in its  *)
(* shape (load, save, record_test).                                          *)
FilesKept ==
    /\ TypeOK /\ KeptStored /\ NoResurrection
    /\ TestsKept /\ HistoryShape /\ NoLeftHistory
=============================================================================
