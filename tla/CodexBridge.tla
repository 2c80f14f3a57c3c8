----------------------------- MODULE CodexBridge -----------------------------
(***************************************************************************)
(* Codex sign-in in a browser of the user's: the operations of               *)
(* account_keeper.rs (start_codex_oauth_browser_session, its task, its       *)
(* export) and, above them, the one pairing slot through which the Chrome    *)
(* extension may sign in once and export the result once (bridge_pairing.rs).*)
(*                                                                           *)
(* The slot and the operations have a lock each; a handler gives it up at    *)
(* every await and between the two.  The extension draws a fresh nonce for   *)
(* every pairing, so a pairing is its number.  Ten minutes after its begin a *)
(* pairing is old; an operation is forgotten after fifteen.                  *)
(***************************************************************************)
EXTENDS Naturals, FiniteSets

CONSTANTS
    Profiles,       \* managed profiles
    Requests,       \* requests the API serves at once
    Budgets,        \* bounds: how much may happen in one behaviour
    MaxPairings,    \* bound: pairings of any budget
    MaxOps          \* bound: sign-ins of any budget

External == "external"          \* the empty profile id
Keys == Profiles \cup {External}

(* The profile ids that sign in through the API, and the numbers of pairings *)
(* begun and of sign-ins started.                                            *)
Spending == [keys : SUBSET Keys, pairings : 0 .. MaxPairings, ops : 0 .. MaxOps]

ASSUME CodexBridgeAssumption ==
    MaxPairings \in Nat /\ MaxOps \in Nat /\ Budgets \subseteq Spending

Pairings == 1 .. MaxPairings
Ops == 1 .. MaxOps
None == 0
NoPort == 0
Ports == {1455, 1457}

VARIABLES
    slot,       \* the Pairing
    begun,      \* pairings begun so far
    dialogs,    \* pairings whose approval dialog is open
    op,         \* Ops -> its entry in the operations map, and its task
    request,    \* Requests -> the handler under way
    tabs,       \* operations whose authorization page is open in a browser
    told        \* history: approvals, and exports by operation and by pairing

vars == <<slot, begun, dialogs, op, request, tabs, told>>

-----------------------------------------------------------------------------
FreeSlot == [nonce |-> None, approved |-> FALSE, denied |-> FALSE, operation |-> None,
             starting |-> FALSE, old |-> TRUE]

Unborn == [key |-> External, status |-> "none", credential |-> FALSE, task |-> "none",
           port |-> NoPort, code |-> None, for |-> None]

Rest == [at |-> "idle", key |-> External, nonce |-> None, op |-> None, port |-> NoPort]

Blocks == ~slot.denied /\ ~slot.old

Valid(n) == slot.nonce = n /\ ~slot.old

(* Mutant: a pairing nobody has answered yet is authorized.                  *)
Authorized_Unanswered(n) == Valid(n) /\ ~slot.denied

Authorized(n) == Valid(n) /\ slot.approved /\ ~slot.denied

PendingOf(key) == {o \in Ops : op[o].status = "pending" /\ op[o].key = key}

Taken == {op[o].port : o \in {p \in Ops : op[p].task = "waiting"}}
             \cup {request[r].port : r \in Requests}

(* What a behaviour has spent, and this much more, is within a budget.       *)
Affordable(keys, pairing, started) ==
    LET used == {request[r].key : r \in {q \in Requests : /\ request[q].at # "idle"
                                                         /\ request[q].nonce = None}}
                    \cup {op[o].key : o \in {q \in Ops : /\ op[q].status # "none"
                                                          /\ op[q].for = None}}
        born == Cardinality({o \in Ops : op[o].status # "none"})
    IN \E budget \in Budgets : /\ used \cup keys \subseteq budget.keys
                               /\ begun + pairing <= budget.pairings
                               /\ born + started <= budget.ops

Goes(r, at) == request' = [request EXCEPT ![r].at = at]

Ends(r) == request' = [request EXCEPT ![r] = Rest]

Init ==
    /\ slot = FreeSlot /\ begun = 0 /\ dialogs = {} /\ op = [o \in Ops |-> Unborn]
    /\ request = [r \in Requests |-> Rest] /\ tabs = {}
    /\ told = [approved |-> {}, exported |-> [o \in Ops |-> 0],
               given |-> [n \in Pairings |-> 0]]

-----------------------------------------------------------------------------
(* The pairing slot.                                                         *)

(* begin: a pairing under way is not replaced.                               *)
Begin ==
    /\ ~Blocks /\ Affordable({}, 1, 0)
    /\ begun' = begun + 1 /\ dialogs' = dialogs \cup {begun'}
    /\ slot' = [FreeSlot EXCEPT !.nonce = begun', !.old = FALSE]
    /\ UNCHANGED <<op, request, tabs, told>>

Answer(n, yes) ==
    /\ n \in dialogs /\ dialogs' = dialogs \ {n}
    /\ slot' = IF Valid(n) THEN [slot EXCEPT !.approved = yes, !.denied = ~yes] ELSE slot
    /\ told' = [told EXCEPT !.approved = IF yes THEN @ \cup {n} ELSE @]
    /\ UNCHANGED <<begun, op, request, tabs>>

Expire ==
    /\ ~slot.old /\ slot' = [slot EXCEPT !.old = TRUE]
    /\ UNCHANGED <<begun, dialogs, op, request, tabs, told>>

-----------------------------------------------------------------------------
(* Starting a sign-in.                                                       *)

(* oauth, up to its await.                                                   *)
Oauth(r) ==
    /\ request[r].at = "idle" /\ Authorized(slot.nonce)
    /\ slot.operation = None /\ ~slot.starting
    /\ slot' = [slot EXCEPT !.starting = TRUE]
    /\ request' = [request EXCEPT ![r] =
           [Rest EXCEPT !.at = "checking", !.nonce = slot.nonce]]
    /\ UNCHANGED <<begun, dialogs, op, tabs, told>>

(* account_keeper_start_codex_oauth.                                         *)
ApiStarts(r, key) ==
    /\ request[r].at = "idle" /\ Affordable({key}, 0, 0)
    /\ request' = [request EXCEPT ![r] = [Rest EXCEPT !.at = "checking", !.key = key]]
    /\ UNCHANGED <<slot, begun, dialogs, op, tabs, told>>

Checks(r) ==
    /\ request[r].at = "checking"
    /\ Goes(r, IF PendingOf(request[r].key) # {} THEN "returning" ELSE "binding")
    /\ UNCHANGED <<slot, begun, dialogs, op, tabs, told>>

(* bind_callback: a port may be taken by another program as well.            *)
Binds(r) ==
    /\ request[r].at = "binding"
    /\ \/ \E p \in Ports \ Taken :
              request' = [request EXCEPT ![r].at = "inserting", ![r].port = p]
       \/ Goes(r, "returning")
    /\ UNCHANGED <<slot, begun, dialogs, op, tabs, told>>

(* The operations are looked at again after the await, under the lock they   *)
(* are changed under.                                                        *)
Born(r) == [Unborn EXCEPT !.key = request[r].key, !.status = "pending", !.task = "waiting",
                          !.port = request[r].port, !.for = request[r].nonce]

(* Mutant: the check before the await is taken to hold still.                *)
Inserts_Unchecked(r) ==
    /\ request[r].at = "inserting"
    /\ \E o \in Ops :
           /\ op[o] = Unborn /\ Affordable({}, 0, 1) /\ op' = [op EXCEPT ![o] = Born(r)]
           /\ request' = [request EXCEPT ![r].at = "returning", ![r].op = o,
                                         ![r].port = NoPort]
    /\ UNCHANGED <<slot, begun, dialogs, tabs, told>>

Inserts(r) ==
    /\ request[r].at = "inserting"
    /\ IF PendingOf(request[r].key) # {}
       THEN /\ request' = [request EXCEPT ![r].at = "returning", ![r].port = NoPort]
            /\ UNCHANGED op
       ELSE \E o \in Ops :
            /\ op[o] = Unborn /\ \A p \in 1 .. o - 1 : op[p] # Unborn
            /\ Affordable({}, 0, 1)
            /\ op' = [op EXCEPT ![o] = Born(r)]
            /\ request' = [request EXCEPT ![r].at = "returning", ![r].op = o,
                                          ![r].port = NoPort]
    /\ UNCHANGED <<slot, begun, dialogs, tabs, told>>

(* oauth after its await: the pairing may have become old, or another one.   *)
Answered(r) ==
    slot' = IF ~Authorized(request[r].nonce) THEN slot
            ELSE IF request[r].op = None THEN [slot EXCEPT !.starting = FALSE, !.denied = TRUE]
            ELSE [slot EXCEPT !.starting = FALSE, !.operation = request[r].op]

Returns(r) ==
    /\ request[r].at = "returning" /\ Ends(r)
    /\ IF request[r].nonce = None THEN UNCHANGED slot ELSE Answered(r)
    /\ tabs' = IF request[r].op # None /\ (request[r].nonce = None \/ Authorized(request[r].nonce))
               THEN tabs \cup {request[r].op} ELSE tabs
    /\ UNCHANGED <<begun, dialogs, op, told>>

(* The client goes away and its handler is dropped at an await.              *)
Vanishes(r) ==
    /\ request[r].at \in {"checking", "binding", "inserting", "exporting"} /\ Ends(r)
    /\ UNCHANGED <<slot, begun, dialogs, op, tabs, told>>

-----------------------------------------------------------------------------
(* The task of a sign-in.                                                    *)

(* The page of a sign-in calls back on its port, where by now another one    *)
(* may listen: one connection is accepted, and its state compared.           *)
CallsBack(o, page) ==
    /\ op[o].task = "waiting" /\ page \in tabs /\ op[page].port = op[o].port
    /\ tabs' = tabs \ {page}
    /\ \E consent \in BOOLEAN :
           op' = IF consent /\ page = o
                 THEN [op EXCEPT ![o].task = "exchanging", ![o].code = page]
                 ELSE [op EXCEPT ![o].task = "failing"]
    /\ UNCHANGED <<slot, begun, dialogs, request, told>>

(* Five minutes without a callback, or a failed exchange.                    *)
SignInFails(o) ==
    /\ op[o].task \in {"waiting", "exchanging"}
    /\ op' = [op EXCEPT ![o].task = "failing"]
    /\ UNCHANGED <<slot, begun, dialogs, request, tabs, told>>

(* The credential of an external sign-in is kept in the operation; that of a *)
(* profile goes to the vault.                                                *)
Exchanges(o) ==
    /\ op[o].task = "exchanging"
    /\ op' = IF op[o].key = External /\ op[o].status = "pending"
             THEN [op EXCEPT ![o].task = "publishing", ![o].status = "ready",
                             ![o].credential = TRUE]
             ELSE [op EXCEPT ![o].task = "publishing"]
    /\ UNCHANGED <<slot, begun, dialogs, request, tabs, told>>

Outcome(o) == IF op[o].task = "publishing" THEN "ready" ELSE "failed"

(* Mutant: the outcome is written whatever has become of the operation.      *)
Publishes_Anyway(o) ==
    /\ op[o].task \in {"publishing", "failing"}
    /\ op' = [op EXCEPT ![o].task = "ended",
                  ![o].status = IF @ = "forgotten" THEN @ ELSE Outcome(o)]
    /\ UNCHANGED <<slot, begun, dialogs, request, tabs, told>>

Publishes(o) ==
    /\ op[o].task \in {"publishing", "failing"}
    /\ op' = [op EXCEPT ![o].task = "ended",
                  ![o].status = IF @ = "pending" THEN Outcome(o) ELSE @]
    /\ UNCHANGED <<slot, begun, dialogs, request, tabs, told>>

(* Fifteen minutes after its start: an exchange has no limit of its own, and *)
(* the pairing that started it is old by then.                               *)
Forgets(o) ==
    /\ op[o].status \notin {"none", "forgotten"} /\ op[o].task # "waiting"
    /\ slot.old \/ op[o].for # slot.nonce
    /\ \A r \in Requests : request[r].at = "returning" => request[r].op # o
    /\ op' = [op EXCEPT ![o].status = "forgotten", ![o].credential = FALSE]
    /\ UNCHANGED <<slot, begun, dialogs, request, tabs, told>>

-----------------------------------------------------------------------------
(* Exporting.                                                                *)

(* export: the operation is the slot's, never the client's choice.           *)
Export(r) ==
    /\ request[r].at = "idle" /\ Authorized(slot.nonce) /\ slot.operation # None
    /\ request' = [request EXCEPT ![r] =
           [Rest EXCEPT !.at = "exporting", !.nonce = slot.nonce, !.op = slot.operation]]
    /\ UNCHANGED <<slot, begun, dialogs, op, tabs, told>>

Exportable(o) == op[o].status = "ready" /\ op[o].key = External /\ op[o].credential

(* account_keeper_codex_export_external.                                     *)
Consumed(o) == [op EXCEPT ![o].status = "consumed", ![o].credential = FALSE]

Consumes(r) ==
    /\ request[r].at = "exporting"
    /\ IF Exportable(request[r].op)
       THEN /\ op' = Consumed(request[r].op) /\ Goes(r, "resetting")
            /\ told' = [told EXCEPT !.exported[request[r].op] = @ + 1,
                                    !.given[request[r].nonce] = @ + 1]
       ELSE Ends(r) /\ UNCHANGED <<op, told>>
    /\ UNCHANGED <<slot, begun, dialogs, tabs>>

Resets(r) ==
    /\ request[r].at = "resetting" /\ Ends(r)
    /\ slot' = IF Valid(request[r].nonce) THEN FreeSlot ELSE slot
    /\ UNCHANGED <<begun, dialogs, op, tabs, told>>

(* account_keeper_export_codex with the operation the client has started.    *)
ApiExports(o) ==
    /\ op[o].for = None /\ Exportable(o) /\ op' = Consumed(o)
    /\ told' = [told EXCEPT !.exported[o] = @ + 1]
    /\ UNCHANGED <<slot, begun, dialogs, request, tabs>>

-----------------------------------------------------------------------------
Next ==
    \/ Begin \/ Expire
    \/ \E n \in dialogs, yes \in BOOLEAN : Answer(n, yes)
    \/ \E r \in Requests : \/ Oauth(r) \/ Checks(r) \/ Binds(r) \/ Inserts(r) \/ Returns(r)
                           \/ Vanishes(r) \/ Export(r) \/ Consumes(r) \/ Resets(r)
                           \/ \E key \in Keys : ApiStarts(r, key)
    \/ \E o \in Ops : \/ SignInFails(o) \/ Exchanges(o) \/ Publishes(o) \/ Forgets(o)
                      \/ ApiExports(o)
                      \/ \E page \in tabs : CallsBack(o, page)

Spec == Init /\ [][Next]_vars

-----------------------------------------------------------------------------
(* Properties.                                                               *)

TypeOK ==
    /\ slot \in [nonce : Pairings \cup {None}, approved : BOOLEAN, denied : BOOLEAN,
                 operation : Ops \cup {None}, starting : BOOLEAN, old : BOOLEAN]
    /\ begun \in 0 .. MaxPairings /\ dialogs \subseteq Pairings /\ tabs \subseteq Ops
    /\ op \in [Ops ->
           [key : Keys,
            status : {"none", "pending", "ready", "failed", "consumed", "forgotten"},
            credential : BOOLEAN,
            task : {"none", "waiting", "exchanging", "publishing", "failing", "ended"},
            port : Ports \cup {NoPort}, code : Ops \cup {None}, for : Pairings \cup {None}]]
    /\ \A o \in Ops : op[o].credential => op[o].status = "ready" /\ op[o].key = External
    /\ request \in [Requests ->
           [at : {"idle", "checking", "binding", "inserting", "returning", "exporting",
                  "resetting"},
            key : Keys, nonce : Pairings \cup {None}, op : Ops \cup {None},
            port : Ports \cup {NoPort}]]
    /\ told \in [approved : SUBSET Pairings, exported : [Ops -> Nat], given : [Pairings -> Nat]]

(* A credential is given away once and a pairing gives one credential,       *)
(* however many requests ask (begin's dialog: "ONE current-session Codex     *)
(* OAuth export").                                                           *)
OneExport ==
    /\ \A o \in Ops : told.exported[o] <= 1
    /\ \A n \in Pairings : told.given[n] <= 1

(* What a pairing exports was started and exported under the user's approval *)
(* of that pairing (oauth, export: authorized).                              *)
ExportApproved ==
    \A o \in Ops : told.exported[o] > 0 /\ op[o].for # None => op[o].for \in told.approved

(* One sign-in at a time is open for a profile, although the check that says *)
(* so is made before an await (codex_oauth_in_progress).                     *)
OnePending == \A key \in Keys : Cardinality(PendingOf(key)) <= 1

(* A sign-in succeeds with the callback of its own page, even when that of   *)
(* an abandoned one arrives on the same port (parse_callback_query).         *)
OwnCallback == \A o \in Ops : op[o].status \in {"ready", "consumed"} => op[o].code = o

(* The slot's operation is one its own pairing started (oauth looks at the   *)
(* pairing again after its await).                                           *)
OperationOfPairing == slot.operation # None => op[slot.operation].for = slot.nonce

(* An operation whose credential has been exported does not come back        *)
(* ("Do not resurrect an operation consumed by a fast export request").      *)
ConsumedStays ==
    [][\A o \in Ops : op[o].status = "consumed" => op'[o].status \in {"consumed", "forgotten"}]_vars

(* Every variable has its type; a credential is exported once, under the      *)
(* approval of its pairing, and is what its own page called back for (export, *)
(* account_keeper_codex_oauth_export).                                       *)
ExportSound == TypeOK /\ OneExport /\ ExportApproved /\ OwnCallback

(* Sign-ins do not mix: one is open for a profile, and the one in the slot is *)
(* its pairing's (start_codex_oauth_browser_session, oauth).                 *)
SignInsApart == OnePending /\ OperationOfPairing
=============================================================================
