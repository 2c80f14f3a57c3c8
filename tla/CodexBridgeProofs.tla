------------------------- MODULE CodexBridgeProofs --------------------------
(***************************************************************************)
(* Theorems about CodexBridge, for any number of profiles, requests at once, *)
(* pairings and sign-ins, within any budgets.                                *)
(***************************************************************************)
EXTENDS CodexBridge, FiniteSetTheorems, TLAPS

Slots == [nonce : Pairings \cup {None}, approved : BOOLEAN, denied : BOOLEAN,
          operation : Ops \cup {None}, starting : BOOLEAN, old : BOOLEAN]

Operations == [key : Keys,
               status : {"none", "pending", "ready", "failed", "consumed", "forgotten"},
               credential : BOOLEAN,
               task : {"none", "waiting", "exchanging", "publishing", "failing", "ended"},
               port : Ports \cup {NoPort}, code : Ops \cup {None}, for : Pairings \cup {None}]

Handlers == [at : {"idle", "checking", "binding", "inserting", "returning", "exporting",
                   "resetting"},
             key : Keys, nonce : Pairings \cup {None}, op : Ops \cup {None},
             port : Ports \cup {NoPort}]

(* A handler that may still start a sign-in, and one whose sign-in has not   *)
(* been answered for.                                                        *)
Early == {"checking", "binding", "inserting"}
Asking == Early \cup {"returning"}

(* A pairing is known only once it has begun: the next number is fresh.      *)
Numbered ==
    /\ slot.nonce <= begun /\ \A n \in dialogs : n <= begun
    /\ \A o \in Ops : op[o].for <= begun
    /\ \A r \in Requests : request[r].nonce <= begun

(* The slot: what it says was answered was, and its operation is its own.    *)
Slotted ==
    /\ slot.approved => slot.nonce \in told.approved
    /\ slot.approved \/ slot.denied => slot.nonce \notin dialogs
    /\ slot.operation # None =>
           op[slot.operation].status # "none" /\ op[slot.operation].for = slot.nonce

(* A pairing that may start a sign-in has none, nor a handler that starts it. *)
Free ==
    slot.nonce # None /\ ~slot.starting /\ ~slot.denied /\ slot.operation = None =>
        /\ \A o \in Ops : op[o].for # slot.nonce
        /\ \A r \in Requests : request[r].at \in Asking => request[r].nonce # slot.nonce

(* The handlers: they act for approved pairings, on operations of these.     *)
Handling ==
    \A r \in Requests :
        /\ request[r].nonce # None => request[r].nonce \in told.approved
        /\ request[r].at \in Early => request[r].op = None
        /\ request[r].at = "exporting" => request[r].op # None /\ request[r].nonce # None
        /\ request[r].at \in {"returning", "exporting"} /\ request[r].op # None =>
               /\ op[request[r].op].status # "none"
               /\ op[request[r].op].for = request[r].nonce

(* A pairing has one handler that starts a sign-in, or one sign-in.          *)
Sole ==
    /\ \A r, q \in Requests :
           request[r].at \in Asking /\ request[q].at \in Asking
               /\ request[r].nonce # None /\ request[r].nonce = request[q].nonce => r = q
    /\ \A r \in Requests, o \in Ops :
           request[r].at \in Early /\ request[r].nonce # None => op[o].for # request[r].nonce
    /\ \A o, p \in Ops : op[o].for # None /\ op[o].for = op[p].for => o = p

(* The sign-ins, and what has been given away of them.                       *)
Signing ==
    \A o \in Ops :
        /\ op[o].for # None => op[o].for \in told.approved
        /\ op[o].task \in {"exchanging", "publishing"} \/ op[o].status \in {"ready", "consumed"}
               => op[o].code = o
        /\ \A p \in Ops : op[o].status = "pending" /\ op[p].status = "pending"
                              /\ op[o].key = op[p].key => o = p

Giving ==
    /\ \A o \in Ops :
           /\ told.exported[o] <= 1
           /\ told.exported[o] > 0 => op[o].status \in {"consumed", "forgotten"}
    /\ \A n \in Pairings :
           /\ told.given[n] <= 1
           /\ told.given[n] > 0 => \E o \in Ops : op[o].for = n /\ told.exported[o] > 0

BridgeInv ==
    /\ TypeOK /\ Numbered /\ Slotted /\ Free /\ Handling /\ Sole /\ Signing /\ Giving

-----------------------------------------------------------------------------
(* A set with no two elements has at most one.                               *)
LEMMA AtMostOne ==
    ASSUME NEW S, \A x, y \in S : x = y
    PROVE  Cardinality(S) <= 1
<1>1. ASSUME NEW x \in S PROVE S = {x}
    OBVIOUS
<1>2. Cardinality({}) = 0 /\ \A x : Cardinality({x}) = 1
    BY FS_EmptySet, FS_Singleton
<1>3. CASE S = {}
    BY <1>2, <1>3
<1>4. CASE S # {}
  <2>1. PICK x : x \in S
      BY <1>4
  <2>2. S = {x}
      BY <1>1, <2>1
  <2>3. Cardinality({x}) = 1
      BY <1>2
  <2> QED
      BY <2>2, <2>3
<1> QED
    BY <1>3, <1>4

(* The invariant says what ExportSound and SignInsApart say.                 *)
LEMMA InvIsSound == BridgeInv => ExportSound /\ SignInsApart
<1> SUFFICES ASSUME BridgeInv PROVE ExportSound /\ SignInsApart
    OBVIOUS
<1>1. OneExport /\ ExportApproved /\ OwnCallback /\ OperationOfPairing
    BY DEF BridgeInv, Giving, Signing, Slotted, OneExport, ExportApproved, OwnCallback,
           OperationOfPairing
<1>2. OnePending
  <2>1. ASSUME NEW key \in Keys, NEW o \in PendingOf(key), NEW p \in PendingOf(key) PROVE o = p
      BY <2>1 DEF BridgeInv, Signing, PendingOf
  <2> QED
      BY <2>1, AtMostOne DEF OnePending
<1> QED
    BY <1>1, <1>2 DEF BridgeInv, ExportSound, SignInsApart

(* It holds before anything has been asked.                                  *)
LEMMA BridgeInvInit == Init => BridgeInv
<1> SUFFICES ASSUME Init PROVE BridgeInv
    OBVIOUS
<1>1. MaxPairings \in Nat /\ MaxOps \in Nat
    BY CodexBridgeAssumption
<1>2. TypeOK
    BY <1>1 DEF Init, TypeOK, FreeSlot, Unborn, Rest, Keys, Pairings, Ops, None, NoPort, Ports
<1>3. Numbered /\ Slotted /\ Free
    BY <1>1 DEF Init, Numbered, Slotted, Free, FreeSlot, Unborn, Rest, None
<1>4. Handling /\ Sole
    BY DEF Init, Handling, Sole, Unborn, Rest, None, Early, Asking
<1>5. Signing /\ Giving
    BY DEF Init, Signing, Giving, Unborn, None
<1> QED
    BY <1>2, <1>3, <1>4, <1>5 DEF BridgeInv

(* What the type says of the three records.                                  *)
LEMMA Types ==
    ASSUME TypeOK
    PROVE  /\ slot \in Slots /\ op \in [Ops -> Operations] /\ request \in [Requests -> Handlers]
           /\ MaxPairings \in Nat /\ MaxOps \in Nat /\ begun \in Nat
           /\ Pairings = 1 .. MaxPairings /\ Ops = 1 .. MaxOps /\ None = 0
BY CodexBridgeAssumption DEF TypeOK, Slots, Operations, Handlers, Pairings, Ops, None

(* Pairings are numbers, wherever they are kept.                             *)
LEMMA Numbers ==
    ASSUME TypeOK
    PROVE  /\ slot.nonce \in Nat /\ begun \in Nat /\ \A n \in dialogs : n \in Nat
           /\ \A o \in Ops : op[o].for \in Nat
           /\ \A r \in Requests : request[r].nonce \in Nat
<1>1. Pairings \cup {None} \subseteq Nat /\ dialogs \subseteq Pairings
    BY Types DEF TypeOK
<1> QED
    BY <1>1, Types DEF Slots, Operations, Handlers

-----------------------------------------------------------------------------
(* Every step keeps the invariant.                                           *)

(* A budget that has room leaves the number of pairings within its bound.    *)
LEMMA Bounded ==
    ASSUME TypeOK, Affordable({}, 1, 0)
    PROVE  begun + 1 \in Pairings
<1>1. PICK budget \in Budgets : begun + 1 <= budget.pairings
    BY DEF Affordable
<1>2. budget.pairings \in 0 .. MaxPairings
    BY CodexBridgeAssumption DEF Spending
<1> QED
    BY <1>1, <1>2, Types

(* The pairing slot: a new pairing has a number nobody knows.                *)
LEMMA SlotSteps ==
    ASSUME BridgeInv, Begin \/ Expire \/ \E n \in dialogs, yes \in BOOLEAN : Answer(n, yes)
    PROVE  BridgeInv'
<1> USE DEF BridgeInv
<1>1. CASE Begin
  <2>1. /\ begun' = begun + 1 /\ begun' \in Pairings /\ dialogs' = dialogs \cup {begun'}
        /\ slot' = [nonce |-> begun', approved |-> FALSE, denied |-> FALSE,
                     operation |-> None, starting |-> FALSE, old |-> FALSE]
        /\ UNCHANGED <<op, request, tabs, told>>
      BY <1>1, Bounded DEF Begin, FreeSlot
  <2>2. TypeOK'
    <3>1. begun' \in 0 .. MaxPairings
        BY <2>1, Types
    <3>2. slot' \in Slots
        BY <2>1 DEF Slots
    <3> QED
        BY <2>1, <3>1, <3>2 DEF TypeOK, Slots
  <2>3. Numbered'
      BY <2>1, Numbers DEF Numbered
  <2>4. Slotted' /\ Free'
    <3>1. /\ begun' \notin dialogs /\ \A o \in Ops : op[o].for # begun'
          /\ \A r \in Requests : request[r].nonce # begun'
        BY <2>1, Numbers DEF Numbered
    <3>2. begun' \in dialogs' /\ ~slot'.approved /\ ~slot'.denied /\ slot'.operation = None
          /\ slot'.nonce = begun'
        BY <2>1
    <3> QED
        BY <2>1, <3>1, <3>2 DEF Slotted, Free
  <2>5. Handling' /\ Sole' /\ Signing' /\ Giving'
      BY <2>1 DEF Handling, Sole, Signing, Giving
  <2> QED
      BY <2>2, <2>3, <2>4, <2>5
<1>2. CASE Expire
  <2>1. slot' = [slot EXCEPT !.old = TRUE] /\ UNCHANGED <<begun, dialogs, op, request, tabs, told>>
      BY <1>2 DEF Expire
  <2>2. slot' \in Slots
      BY <2>1, Types DEF Slots
  <2>3. TypeOK'
      BY <2>1, <2>2 DEF TypeOK, Slots
  <2> QED
      BY <2>1, <2>3, Types DEF Slots, Numbered, Slotted, Free, Handling, Sole, Signing, Giving
<1>3. ASSUME NEW n \in dialogs, NEW yes \in BOOLEAN, Answer(n, yes) PROVE BridgeInv'
  <2>1. /\ dialogs' = dialogs \ {n} /\ UNCHANGED <<begun, op, request, tabs>> /\ n \in Pairings
        /\ told' = [told EXCEPT !.approved = IF yes THEN @ \cup {n} ELSE @]
        /\ slot' = IF Valid(n) THEN [slot EXCEPT !.approved = yes, !.denied = ~yes] ELSE slot
      BY <1>3 DEF Answer, TypeOK
  <2>2. /\ told'.approved = IF yes THEN told.approved \cup {n} ELSE told.approved
        /\ told'.exported = told.exported /\ told'.given = told.given
        /\ told' \in [approved : SUBSET Pairings, exported : [Ops -> Nat], given : [Pairings -> Nat]]
      BY <2>1 DEF TypeOK
  <2>3. slot' \in Slots /\ slot'.nonce = slot.nonce /\ slot'.operation = slot.operation
        /\ slot'.starting = slot.starting
      BY <2>1, Types DEF Slots
  <2>4. TypeOK'
      BY <2>1, <2>2, <2>3 DEF TypeOK, Slots
  <2>5. Numbered'
      BY <2>1, <2>3 DEF Numbered
  <2>6. Slotted' /\ Free'
    <3>1. CASE Valid(n)
      <4>1. slot'.approved = yes /\ slot'.denied = ~yes /\ slot.nonce = n
          BY <2>1, <3>1, Types DEF Valid, Slots
      <4>2. ~slot.approved /\ ~slot.denied
          BY <4>1 DEF Slotted
      <4> QED
          BY <2>1, <2>2, <2>3, <4>1, <4>2 DEF Slotted, Free
    <3>2. CASE ~Valid(n)
        BY <2>1, <2>2, <3>2 DEF Slotted, Free
    <3> QED
        BY <3>1, <3>2
  <2>7. Handling' /\ Sole' /\ Signing' /\ Giving'
      BY <2>1, <2>2 DEF Handling, Sole, Signing, Giving
  <2> QED
      BY <2>4, <2>5, <2>6, <2>7
<1> QED
    BY <1>1, <1>2, <1>3

(* The tasks of the sign-ins: no sign-in is born, none becomes pending, and   *)
(* what has been exported does not come back.                                *)
LEMMA TaskSteps ==
    ASSUME BridgeInv, NEW o \in Ops,
           \/ SignInFails(o) \/ Exchanges(o) \/ Publishes(o) \/ Forgets(o)
           \/ \E page \in tabs : CallsBack(o, page)
    PROVE  BridgeInv'
<1> USE DEF BridgeInv
<1>1. op[o] \in Operations /\ op \in [Ops -> Operations]
    BY Types
<1>2. UNCHANGED <<slot, begun, dialogs, request, told>> /\ tabs' \subseteq tabs
    BY DEF SignInFails, Exchanges, Publishes, Forgets, CallsBack
<1>3. PICK new \in Operations :
          /\ op' = [op EXCEPT ![o] = new]
          /\ new.key = op[o].key /\ new.for = op[o].for
          /\ new.status = "pending" => op[o].status = "pending"
          /\ new.status = "none" => op[o].status = "none"
          /\ op[o].status \in {"consumed", "forgotten"} => new.status \in {"consumed", "forgotten"}
          /\ new.credential => new.status = "ready" /\ new.key = External
          /\ new.task \in {"exchanging", "publishing"} \/ new.status \in {"ready", "consumed"}
                 => new.code = o
  <2>1. op[o].task \in {"exchanging", "publishing"} \/ op[o].status \in {"ready", "consumed"}
            => op[o].code = o
      BY DEF Signing
  <2>2. op[o].credential => op[o].status = "ready" /\ op[o].key = External
      BY DEF TypeOK
  <2>3. CASE SignInFails(o)
    <3> DEFINE new == [op[o] EXCEPT !.task = "failing"]
    <3>1. op' = [op EXCEPT ![o] = new] /\ new \in Operations
        BY <1>1, <2>3 DEF SignInFails, Operations
    <3> QED
        BY <1>1, <2>1, <2>2, <2>3, <3>1 DEF Operations
  <2>4. CASE Exchanges(o)
    <3> DEFINE first == op[o].key = External /\ op[o].status = "pending"
               new == [op[o] EXCEPT !.task = "publishing",
                                    !.status = IF first THEN "ready" ELSE @,
                                    !.credential = IF first THEN TRUE ELSE @]
    <3>1. op' = [op EXCEPT ![o] = new] /\ new \in Operations
        BY <1>1, <2>4 DEF Exchanges, Operations
    <3>2. op[o].code = o
        BY <2>1, <2>4 DEF Exchanges
    <3>3. /\ new.key = op[o].key /\ new.for = op[o].for /\ new.code = o /\ new.task = "publishing"
          /\ new.status = (IF first THEN "ready" ELSE op[o].status)
          /\ new.credential = (IF first THEN TRUE ELSE op[o].credential)
        BY <1>1, <3>2 DEF Operations
    <3> HIDE DEF new
    <3> QED
        BY <2>2, <3>1, <3>3
  <2>5. CASE Publishes(o)
    <3> DEFINE new == [op[o] EXCEPT !.task = "ended",
                                    !.status = IF @ = "pending" THEN Outcome(o) ELSE @]
    <3>1. op' = [op EXCEPT ![o] = new]
        BY <1>1, <2>5 DEF Publishes, Operations
    <3>2. new \in Operations
        BY <1>1 DEF Outcome, Operations
    <3>3. /\ new.key = op[o].key /\ new.for = op[o].for /\ new.code = op[o].code
          /\ new.task = "ended" /\ new.credential = op[o].credential
          /\ new.status = IF op[o].status = "pending" THEN Outcome(o) ELSE op[o].status
        BY <1>1 DEF Operations
    <3> HIDE DEF new
    <3> QED
        BY <2>1, <2>2, <3>1, <3>2, <3>3 DEF Outcome
  <2>6. CASE Forgets(o)
    <3> DEFINE new == [op[o] EXCEPT !.status = "forgotten", !.credential = FALSE]
    <3>1. op' = [op EXCEPT ![o] = new] /\ new \in Operations
        BY <1>1, <2>6 DEF Forgets, Operations
    <3> QED
        BY <1>1, <2>1, <2>2, <2>6, <3>1 DEF Operations
  <2>7. ASSUME NEW page \in tabs, CallsBack(o, page)
        PROVE  \E new \in {[op[o] EXCEPT !.task = "exchanging", !.code = o],
                           [op[o] EXCEPT !.task = "failing"]} : op' = [op EXCEPT ![o] = new]
      BY <1>1, <2>7 DEF CallsBack, Operations
  <2>8. CASE \E page \in tabs : CallsBack(o, page)
    <3>1. PICK new \in {[op[o] EXCEPT !.task = "exchanging", !.code = o],
                        [op[o] EXCEPT !.task = "failing"]} : op' = [op EXCEPT ![o] = new]
        BY <2>7, <2>8
    <3>2. new \in Operations
        BY <1>1, <3>1 DEF Operations
    <3> QED
        BY <1>1, <2>1, <2>2, <3>1, <3>2 DEF Operations
  <2> QED
      BY <2>3, <2>4, <2>5, <2>6, <2>8
<1>4. \A p \in Ops : op'[p] = IF p = o THEN new ELSE op[p]
    BY <1>1, <1>3
<1>5. op' \in [Ops -> Operations]
    BY <1>1, <1>3
<1>6. TypeOK'
    BY <1>2, <1>3, <1>4, <1>5 DEF TypeOK, Operations
<1>7. Numbered' /\ Free' /\ Sole'
    BY <1>2, <1>3, <1>4 DEF Numbered, Free, Sole
<1>8. Slotted' /\ Handling'
    BY <1>2, <1>3, <1>4, Types DEF Slotted, Handling, Slots, Handlers
<1>9. Signing' /\ Giving'
    BY <1>2, <1>3, <1>4 DEF Signing, Giving
<1> QED
    BY <1>6, <1>7, <1>8, <1>9

(* A handler whose record becomes `new`, with the rest of the system as it    *)
(* is: what `new` must be for the invariant to hold.                         *)
LEMMA HandlerMoves ==
    ASSUME BridgeInv, NEW r \in Requests, NEW new \in Handlers,
           request' = [request EXCEPT ![r] = new],
           UNCHANGED <<slot, begun, dialogs, op, tabs, told>>,
           new.nonce \in {request[r].nonce, None},
           new.at \in Asking /\ new.nonce # None => request[r].at \in Asking,
           new.at \in Early /\ new.nonce # None => request[r].at \in Early,
           new.at \in Early => new.op = None,
           new.at # "exporting", new.at = "returning" => new.op = None
    PROVE  BridgeInv'
<1> USE DEF BridgeInv
<1>1. request' \in [Requests -> Handlers]
      /\ \A q \in Requests : request'[q] = IF q = r THEN new ELSE request[q]
    BY Types
<1>2. TypeOK'
    BY <1>1 DEF TypeOK, Handlers
<1>3. Numbered' /\ Slotted' /\ Signing' /\ Giving'
  <2>1. 0 <= begun
      BY Types
  <2> QED
      BY <1>1, <2>1 DEF Numbered, Slotted, Signing, Giving, None
<1>4. Free' /\ Handling' /\ Sole'
    BY <1>1 DEF Free, Handling, Sole, Asking, Early
<1> QED
    BY <1>2, <1>3, <1>4

LEMMA MoveSteps ==
    ASSUME BridgeInv, NEW r \in Requests,
           Checks(r) \/ Binds(r) \/ Vanishes(r) \/ \E key \in Keys : ApiStarts(r, key)
    PROVE  BridgeInv'
<1> USE DEF BridgeInv
<1>1. request[r] \in Handlers
    BY Types
<1>2. request[r].at \in Early => request[r].op = None
    BY DEF Handling
<1>3. CASE Checks(r)
  <2>1. PICK at \in {"returning", "binding"} : request' = [request EXCEPT ![r].at = at]
      BY <1>3 DEF Checks, Goes
  <2> DEFINE new == [request[r] EXCEPT !.at = at]
  <2>2. request' = [request EXCEPT ![r] = new] /\ new \in Handlers
      BY <1>1, <2>1 DEF Handlers
  <2>3. new.at = at /\ new.nonce = request[r].nonce /\ new.op = None
      BY <1>1, <1>2, <1>3 DEF Handlers, Checks, Early
  <2> QED
      BY <1>3, <2>2, <2>3, HandlerMoves DEF Checks, Early, Asking
<1>4. CASE Binds(r)
  <2>1. PICK at \in {"returning", "inserting"}, p \in Ports \cup {NoPort, request[r].port} :
            request' = [request EXCEPT ![r] = [request[r] EXCEPT !.at = at, !.port = p]]
    <3>1. CASE Goes(r, "returning")
      <4>1. [request[r] EXCEPT !.at = "returning"]
                = [request[r] EXCEPT !.at = "returning", !.port = request[r].port]
          BY <1>1 DEF Handlers
      <4> QED
          BY <3>1, <4>1 DEF Goes
    <3>2. ASSUME NEW p \in Ports \ Taken,
                 request' = [request EXCEPT ![r].at = "inserting", ![r].port = p]
          PROVE  request' = [request EXCEPT ![r] = [request[r] EXCEPT !.at = "inserting", !.port = p]]
        BY <1>1, <3>2, Types DEF Handlers
    <3> QED
        BY <1>4, <3>1, <3>2 DEF Binds
  <2> DEFINE new == [request[r] EXCEPT !.at = at, !.port = p]
  <2>2. new \in Handlers
      BY <1>1 DEF Handlers
  <2>3. new.at = at /\ new.nonce = request[r].nonce /\ new.op = None
      BY <1>1, <1>2, <1>4 DEF Handlers, Binds, Early
  <2> QED
      BY <1>4, <2>1, <2>2, <2>3, HandlerMoves DEF Binds, Early, Asking
<1>5. CASE Vanishes(r)
  <2>1. Rest \in Handlers /\ Rest.nonce = None /\ Rest.at = "idle" /\ Rest.op = None
      BY DEF Rest, Handlers, Keys
  <2> QED
      BY <1>5, <2>1, HandlerMoves DEF Vanishes, Ends, Early, Asking
<1>6. ASSUME NEW key \in Keys, ApiStarts(r, key) PROVE BridgeInv'
  <2> DEFINE new == [Rest EXCEPT !.at = "checking", !.key = key]
  <2>1. new \in Handlers /\ new.nonce = None /\ new.at = "checking" /\ new.op = None
      BY DEF Rest, Handlers
  <2> QED
      BY <1>6, <2>1, HandlerMoves DEF ApiStarts, Early, Asking
<1> QED
    BY <1>3, <1>4, <1>5, <1>6

(* oauth: an approved pairing that is free gets its one handler.              *)
LEMMA OauthStep ==
    ASSUME BridgeInv, NEW r \in Requests, Oauth(r)
    PROVE  BridgeInv'
<1> USE DEF BridgeInv
<1> DEFINE new == [Rest EXCEPT !.at = "checking", !.nonce = slot.nonce]
<1>1. /\ request' = [request EXCEPT ![r] = new] /\ slot' = [slot EXCEPT !.starting = TRUE]
      /\ UNCHANGED <<begun, dialogs, op, tabs, told>>
      /\ slot.approved /\ ~slot.denied /\ slot.operation = None /\ ~slot.starting
    BY DEF Oauth, Authorized
<1>2. slot.nonce \in told.approved /\ slot.nonce # None /\ slot.nonce <= begun
    BY <1>1, Types DEF Slotted, Numbered, TypeOK
<1>3. /\ new \in Handlers
      /\ new.at = "checking" /\ new.nonce = slot.nonce /\ new.op = None
    BY Types DEF Handlers, Slots, Keys, Rest
<1> HIDE DEF new
<1>4. request' \in [Requests -> Handlers]
      /\ \A q \in Requests : request'[q] = IF q = r THEN new ELSE request[q]
    BY <1>1, <1>3, Types
<1>5. slot' \in Slots /\ slot'.starting = TRUE
      /\ slot'.nonce = slot.nonce /\ slot'.approved = slot.approved /\ slot'.denied = slot.denied
      /\ slot'.operation = slot.operation
    BY <1>1, Types DEF Slots
<1>6. TypeOK'
    BY <1>1, <1>4, <1>5 DEF TypeOK, Handlers, Slots
<1>7. Numbered' /\ Slotted' /\ Free'
    BY <1>1, <1>2, <1>3, <1>4, <1>5 DEF Numbered, Slotted, Free
<1>8. Handling' /\ Signing' /\ Giving'
    BY <1>1, <1>2, <1>3, <1>4 DEF Handling, Signing, Giving, Early
<1>9. Sole'
    BY <1>1, <1>2, <1>3, <1>4 DEF Free, Sole, Early, Asking
<1> QED
    BY <1>6, <1>7, <1>8, <1>9

(* Inserts: the sign-in that is born is the pairing's first and its profile's *)
(* only one that is open, as both were looked at under the lock.             *)
LEMMA InsertStep ==
    ASSUME BridgeInv, NEW r \in Requests, Inserts(r)
    PROVE  BridgeInv'
<1> USE DEF BridgeInv
<1>1. /\ request[r] \in Handlers /\ request[r].at = "inserting" /\ request[r].op = None
      /\ UNCHANGED <<slot, begun, dialogs, tabs, told>>
    BY Types DEF Inserts, Handling, Early
<1>2. CASE UNCHANGED op
  <2> DEFINE new == [request[r] EXCEPT !.at = "returning", !.port = NoPort]
  <2>1. CASE request' = [request EXCEPT ![r].at = "returning", ![r].port = NoPort]
    <3>1. request' = [request EXCEPT ![r] = new] /\ new \in Handlers
        BY <1>1, <2>1, Types DEF Handlers
    <3>2. new.at = "returning" /\ new.nonce = request[r].nonce /\ new.op = None
        BY <1>1 DEF Handlers
    <3> QED
        BY <1>1, <1>2, <3>1, <3>2, HandlerMoves DEF Early, Asking
  <2>2. ASSUME NEW o \in Ops, op[o] = Unborn, op' = [op EXCEPT ![o] = Born(r)] PROVE FALSE
    <3>1. Born(r).status = "pending" /\ Unborn.status = "none"
        BY DEF Born, Unborn
    <3>2. op'[o] = Born(r)
        BY <2>2, Types
    <3> QED
        BY <1>2, <2>2, <3>1, <3>2
  <2> QED
      BY <2>1, <2>2 DEF Inserts
<1>3. CASE ~UNCHANGED op
  <2>1. PendingOf(request[r].key) = {}
      BY <1>3 DEF Inserts
  <2>2. PICK o \in Ops :
            /\ op[o] = Unborn /\ op' = [op EXCEPT ![o] = Born(r)]
            /\ request' = [request EXCEPT ![r].at = "returning", ![r].op = o, ![r].port = NoPort]
      BY <1>3 DEF Inserts
  <2> DEFINE new == [request[r] EXCEPT !.at = "returning", !.op = o, !.port = NoPort]
             born == Born(r)
  <2>3. /\ born \in Operations /\ born.key = request[r].key /\ born.status = "pending"
        /\ born.for = request[r].nonce /\ born.task = "waiting" /\ ~born.credential
      BY <1>1, Types DEF Born, Unborn, Operations, Handlers
  <2>4. /\ request' = [request EXCEPT ![r] = new] /\ new \in Handlers /\ new.at = "returning"
        /\ new.nonce = request[r].nonce /\ new.op = o
      BY <1>1, <2>2, Types DEF Handlers
  <2>5. op[o].status = "none" /\ op[o].for = None
      BY <2>2 DEF Unborn
  <2> HIDE DEF new, born
  <2>6. op' \in [Ops -> Operations] /\ \A p \in Ops : op'[p] = IF p = o THEN born ELSE op[p]
      BY <2>2, <2>3, Types DEF born
  <2>7. /\ request' \in [Requests -> Handlers]
        /\ \A q \in Requests : request'[q] = IF q = r THEN new ELSE request[q]
      BY <2>4, Types
  <2>8. TypeOK'
    <3>1. \A p \in Ops : op'[p].credential => op'[p].status = "ready" /\ op'[p].key = External
        BY <2>3, <2>6 DEF TypeOK
    <3>2. op' \in [Ops -> Operations] /\ request' \in [Requests -> Handlers]
        BY <2>6, <2>7
    <3> QED
        BY <1>1, <3>1, <3>2 DEF TypeOK, Operations, Handlers
  <2>9. o # None
      BY Types
  <2>10. Numbered' /\ Slotted'
      BY <1>1, <2>3, <2>4, <2>5, <2>6, <2>7, Types DEF Numbered, Slotted, Slots
  <2>11. Free'
      BY <1>1, <2>3, <2>4, <2>6, <2>7 DEF Free, Asking, Early
  <2>12. Handling'
    <3>1. \A q \in Requests : q # r /\ request[q].op # None
              /\ request[q].at \in {"returning", "exporting"} => request[q].op \in Ops \ {o}
        BY <2>5, Types DEF Handling, Handlers
    <3> QED
        BY <1>1, <2>3, <2>4, <2>6, <2>7, <3>1 DEF Handling, Early
  <2>13. Sole'
      BY <1>1, <2>3, <2>4, <2>6, <2>7 DEF Sole, Asking, Early
  <2>14. Signing'
    <3>1. \A p \in Ops : op[p].status = "pending" => op[p].key # request[r].key
        BY <2>1 DEF PendingOf
    <3> QED
        BY <1>1, <2>3, <2>6, <3>1 DEF Signing, Handling
  <2>15. Giving'
      BY <1>1, <2>5, <2>6, Types DEF Giving
  <2> QED
      BY <2>8, <2>10, <2>11, <2>12, <2>13, <2>14, <2>15
<1> QED
    BY <1>2, <1>3

(* oauth after its await: the slot takes the sign-in, or is denied, only if   *)
(* it is still the pairing's that asked.                                     *)
LEMMA ReturnStep ==
    ASSUME BridgeInv, NEW r \in Requests, Returns(r)
    PROVE  BridgeInv'
<1> USE DEF BridgeInv
<1>1. /\ request[r] \in Handlers /\ request[r].at = "returning"
      /\ UNCHANGED <<begun, dialogs, op, told>> /\ request' = [request EXCEPT ![r] = Rest]
    BY Types DEF Returns, Ends
<1>2. /\ Rest \in Handlers /\ Rest.at = "idle" /\ Rest.nonce = None /\ Rest.op = None
    BY DEF Rest, Handlers, Keys
<1>3. /\ request' \in [Requests -> Handlers]
      /\ \A q \in Requests : request'[q] = IF q = r THEN Rest ELSE request[q]
    BY <1>1, <1>2, Types
<1>4. tabs' \subseteq Ops
    BY <1>1 DEF Returns, TypeOK, Handlers
<1>5. request[r].op # None =>
          /\ op[request[r].op].status # "none"
          /\ op[request[r].op].for = request[r].nonce
    BY <1>1 DEF Handling
<1>6. Handling' /\ Sole'
    BY <1>1, <1>2, <1>3 DEF Handling, Sole, Asking, Early
<1>7. Signing' /\ Giving'
    BY <1>1 DEF Signing, Giving
<1>8. CASE UNCHANGED slot
  <2>1. 0 <= begun
      BY Types
  <2> QED
      BY <1>1, <1>2, <1>3, <1>4, <1>6, <1>7, <1>8, <2>1
          DEF TypeOK, Handlers, Numbered, Slotted, Free, Asking, Early, None
<1>9. ASSUME NEW denied \in BOOLEAN, NEW operation \in Ops \cup {None},
             Authorized(request[r].nonce),
             slot' = [slot EXCEPT !.starting = FALSE, !.denied = denied, !.operation = operation],
             denied \/ operation # None,
             operation # None => operation \in {request[r].op, slot.operation}
      PROVE  BridgeInv'
  <2>1. /\ slot' \in Slots /\ slot'.nonce = slot.nonce /\ slot'.approved = slot.approved
        /\ slot'.denied = denied /\ slot'.operation = operation
      BY <1>9, Types DEF Slots
  <2>2. slot.nonce = request[r].nonce /\ slot.approved
      BY <1>9 DEF Authorized, Valid
  <2>3. TypeOK'
      BY <1>1, <1>3, <1>4, <2>1 DEF TypeOK, Handlers, Slots
  <2>4. Numbered'
      BY <1>1, <1>2, <1>3, <2>1, Types DEF Numbered
  <2>5. Slotted' /\ Free'
      BY <1>1, <1>5, <1>9, <2>1, <2>2 DEF Slotted, Free
  <2> QED
      BY <1>6, <1>7, <2>3, <2>4, <2>5
<1>10. CASE Answered(r)
  <2>1. CASE ~Authorized(request[r].nonce)
      BY <1>8, <1>10, <2>1 DEF Answered
  <2>2. CASE Authorized(request[r].nonce) /\ request[r].op = None
    <3>1. slot' = [slot EXCEPT !.starting = FALSE, !.denied = TRUE, !.operation = slot.operation]
        BY <1>10, <2>2, Types DEF Answered, Slots
    <3>2. slot.operation \in Ops \cup {None}
        BY Types DEF Slots
    <3> QED
        BY <1>9, <2>2, <3>1, <3>2
  <2>3. CASE Authorized(request[r].nonce) /\ request[r].op # None
    <3>1. slot' = [slot EXCEPT !.starting = FALSE, !.denied = slot.denied, !.operation = request[r].op]
        BY <1>10, <2>3, Types DEF Answered, Slots
    <3>2. slot.denied \in BOOLEAN /\ request[r].op \in Ops \cup {None}
        BY <1>1, Types DEF Slots, Handlers
    <3> QED
        BY <1>9, <2>3, <3>1, <3>2
  <2> QED
      BY <2>1, <2>2, <2>3
<1> QED
    BY <1>8, <1>10 DEF Returns

(* export: it takes the slot's operation, which is its pairing's.            *)
LEMMA ExportStep ==
    ASSUME BridgeInv, NEW r \in Requests, Export(r)
    PROVE  BridgeInv'
<1> USE DEF BridgeInv
<1> DEFINE new == [Rest EXCEPT !.at = "exporting", !.nonce = slot.nonce, !.op = slot.operation]
<1>1. /\ request' = [request EXCEPT ![r] = new] /\ slot.operation # None /\ slot.approved
      /\ UNCHANGED <<slot, begun, dialogs, op, tabs, told>>
    BY DEF Export, Authorized
<1>2. slot.nonce \in told.approved /\ slot.nonce # None /\ slot.nonce <= begun
    BY <1>1, Types DEF Slotted, Numbered, TypeOK
<1>3. /\ new \in Handlers /\ new.at = "exporting" /\ new.nonce = slot.nonce
      /\ new.op = slot.operation
    BY Types DEF Handlers, Slots, Keys, Rest
<1> HIDE DEF new
<1>4. /\ request' \in [Requests -> Handlers]
      /\ \A q \in Requests : request'[q] = IF q = r THEN new ELSE request[q]
    BY <1>1, <1>3, Types
<1>5. TypeOK'
    BY <1>1, <1>4 DEF TypeOK, Handlers
<1>6. Numbered' /\ Slotted' /\ Free'
    BY <1>1, <1>2, <1>3, <1>4 DEF Numbered, Slotted, Free, Asking, Early
<1>7. Handling' /\ Sole'
    BY <1>1, <1>2, <1>3, <1>4 DEF Handling, Sole, Slotted, Asking, Early
<1>8. Signing' /\ Giving'
    BY <1>1 DEF Signing, Giving
<1> QED
    BY <1>5, <1>6, <1>7, <1>8

(* An operation that is given away is consumed: it was ready, so it had not   *)
(* been given away, and neither had its pairing's only credential.           *)
LEMMA Consumption ==
    ASSUME BridgeInv, NEW o \in Ops, Exportable(o), op' = Consumed(o)
    PROVE  /\ op' \in [Ops -> Operations]
           /\ \A p \in Ops : op'[p].key = op[p].key /\ op'[p].for = op[p].for
                              /\ op'[p].task = op[p].task /\ op'[p].code = op[p].code
           /\ op'[o].status = "consumed" /\ op[o].status = "ready" /\ ~op'[o].credential
           /\ \A p \in Ops \ {o} : op'[p] = op[p]
           /\ told.exported[o] = 0
           /\ \A n \in Pairings : op[o].for = n => told.given[n] = 0
<1>1. op[o] \in Operations /\ op \in [Ops -> Operations] /\ op[o].status = "ready"
    BY Types DEF BridgeInv, Exportable
<1>2. told.exported[o] = 0
    BY <1>1 DEF BridgeInv, TypeOK, Giving
<1>3. ASSUME NEW n \in Pairings, op[o].for = n PROVE told.given[n] = 0
  <2>1. n # None /\ told.given[n] \in Nat
      BY Types DEF BridgeInv, TypeOK
  <2>2. \A p \in Ops : op[p].for = n => p = o
      BY <1>3, <2>1 DEF BridgeInv, Sole
  <2> QED
      BY <1>2, <2>1, <2>2 DEF BridgeInv, Giving
<1> DEFINE new == [op[o] EXCEPT !.status = "consumed", !.credential = FALSE]
<1>4. op' = [op EXCEPT ![o] = new]
    BY <1>1 DEF Consumed, Operations
<1>5. /\ new \in Operations /\ new.key = op[o].key /\ new.for = op[o].for
      /\ new.task = op[o].task /\ new.code = op[o].code
      /\ new.status = "consumed" /\ ~new.credential
    BY <1>1 DEF Operations
<1> HIDE DEF new
<1>6. /\ op' \in [Ops -> Operations]
      /\ \A p \in Ops : op'[p] = IF p = o THEN new ELSE op[p]
    BY <1>1, <1>4, <1>5
<1>7. \A p \in Ops : op'[p].key = op[p].key /\ op'[p].for = op[p].for
                       /\ op'[p].task = op[p].task /\ op'[p].code = op[p].code
    BY <1>5, <1>6
<1>8. /\ op'[o].status = "consumed" /\ ~op'[o].credential
      /\ \A p \in Ops \ {o} : op'[p] = op[p]
    BY <1>5, <1>6
<1> QED
    BY <1>1, <1>2, <1>3, <1>6, <1>7, <1>8

(* The type of what an export changes.                                       *)
LEMMA TypedBy ==
    ASSUME TypeOK, UNCHANGED <<slot, begun, dialogs, tabs>>, op' \in [Ops -> Operations],
           request' \in [Requests -> Handlers],
           told' \in [approved : SUBSET Pairings, exported : [Ops -> Nat], given : [Pairings -> Nat]],
           \A p \in Ops : op'[p].credential => op'[p].status = "ready" /\ op'[p].key = External
    PROVE  TypeOK'
<1>1. UNCHANGED <<slot, begun, dialogs, tabs>>
    OBVIOUS
<1> QED
    BY <1>1 DEF TypeOK, Operations, Handlers

LEMMA ConsumeStep ==
    ASSUME BridgeInv, NEW r \in Requests, Consumes(r)
    PROVE  BridgeInv'
<1> USE DEF BridgeInv
<1> DEFINE o == request[r].op
           n == request[r].nonce
<1>1. /\ request[r] \in Handlers /\ request[r].at = "exporting" /\ o \in Ops /\ n \in Pairings
      /\ op[o].for = n /\ UNCHANGED <<slot, begun, dialogs, tabs>>
    BY Types DEF Consumes, Handling, Handlers
<1>2. CASE ~Exportable(o)
  <2>1. Rest \in Handlers /\ Rest.nonce = None /\ Rest.at = "idle" /\ Rest.op = None
      BY DEF Rest, Handlers, Keys
  <2> QED
      BY <1>1, <1>2, <2>1, HandlerMoves DEF Consumes, Ends, Early, Asking
<1>3. CASE Exportable(o)
  <2> DEFINE new == [request[r] EXCEPT !.at = "resetting"]
  <2>1. /\ op' = Consumed(o) /\ request' = [request EXCEPT ![r] = new]
        /\ told' = [told EXCEPT !.exported[o] = @ + 1, !.given[n] = @ + 1]
    <3>1. /\ op' = Consumed(o) /\ request' = [request EXCEPT ![r].at = "resetting"]
          /\ told' = [told EXCEPT !.exported[o] = @ + 1, !.given[n] = @ + 1]
        BY <1>3 DEF Consumes, Goes
    <3> QED
        BY <1>1, <3>1, Types
  <2>2. new \in Handlers /\ new.at = "resetting" /\ new.nonce = n
      BY <1>1 DEF Handlers
  <2> HIDE DEF new
  <2>3. /\ request' \in [Requests -> Handlers]
        /\ \A q \in Requests : request'[q] = IF q = r THEN new ELSE request[q]
      BY <2>1, <2>2, Types
  <2>4. /\ told' \in [approved : SUBSET Pairings, exported : [Ops -> Nat], given : [Pairings -> Nat]]
        /\ told'.approved = told.approved
        /\ \A p \in Ops : told'.exported[p] = IF p = o THEN told.exported[p] + 1 ELSE told.exported[p]
        /\ \A m \in Pairings : told'.given[m] = IF m = n THEN told.given[m] + 1 ELSE told.given[m]
    <3> DEFINE exported == [told.exported EXCEPT ![o] = @ + 1]
               given == [told.given EXCEPT ![n] = @ + 1]
    <3>1. told \in [approved : SUBSET Pairings, exported : [Ops -> Nat], given : [Pairings -> Nat]]
        BY DEF TypeOK
    <3>2. told'.approved = told.approved /\ told'.exported = exported /\ told'.given = given
        BY <2>1, <3>1
    <3>3. told' = [approved |-> told.approved, exported |-> exported, given |-> given]
        BY <2>1, <3>1
    <3>4. exported \in [Ops -> Nat] /\ \A p \in Ops :
              exported[p] = IF p = o THEN told.exported[p] + 1 ELSE told.exported[p]
        BY <1>1, <3>1
    <3>5. given \in [Pairings -> Nat] /\ \A m \in Pairings :
              given[m] = IF m = n THEN told.given[m] + 1 ELSE told.given[m]
        BY <1>1, <3>1
    <3> HIDE DEF exported, given
    <3> QED
        BY <3>1, <3>2, <3>3, <3>4, <3>5
  <2> HIDE DEF o, n
  <2>5. /\ op' \in [Ops -> Operations]
        /\ \A p \in Ops : op'[p].key = op[p].key /\ op'[p].for = op[p].for
                           /\ op'[p].task = op[p].task /\ op'[p].code = op[p].code
        /\ op'[o].status = "consumed" /\ op[o].status = "ready" /\ ~op'[o].credential
        /\ \A p \in Ops \ {o} : op'[p] = op[p]
        /\ told.exported[o] = 0 /\ told.given[n] = 0
      BY <1>1, <1>3, <2>1, Consumption
  <2>6. TypeOK'
    <3>1. \A p \in Ops : op'[p].credential => op'[p].status = "ready" /\ op'[p].key = External
        BY <2>5 DEF TypeOK
    <3> QED
        BY <1>1, <2>3, <2>4, <2>5, <3>1, TypedBy
  <2>7. Numbered'
      BY <1>1, <2>2, <2>3, <2>5 DEF Numbered, n
  <2>8. Slotted' /\ Free'
    <3>1. slot.operation # None => slot.operation \in Ops
        BY Types DEF Slots
    <3>2. \A p \in Ops : op[p].status # "none" => op'[p].status # "none"
        BY <2>5
    <3> QED
        BY <1>1, <2>2, <2>3, <2>4, <2>5, <3>1, <3>2 DEF Slotted, Free, Asking, Early
  <2>9. Handling'
    <3>1. \A q \in Requests : request[q].op # None => request[q].op \in Ops
        BY Types DEF Handlers
    <3>2. \A p \in Ops : op[p].status # "none" => op'[p].status # "none"
        BY <2>5
    <3>3. n # None /\ n \in told.approved
        BY <1>1 DEF Handling, n
    <3> QED
        BY <1>1, <2>2, <2>3, <2>4, <2>5, <3>1, <3>2, <3>3 DEF Handling, Early
  <2>10. Sole'
      BY <1>1, <2>2, <2>3, <2>5 DEF Sole, Asking, Early
  <2>11. Signing'
      BY <1>1, <2>4, <2>5 DEF Signing
  <2>12. Giving'
      BY <1>1, <2>4, <2>5 DEF Giving
  <2> QED
      BY <2>6, <2>7, <2>8, <2>9, <2>10, <2>11, <2>12
<1> QED
    BY <1>2, <1>3

(* The API's export of what its own client has signed in.                    *)
LEMMA ApiExportStep ==
    ASSUME BridgeInv, NEW o \in Ops, ApiExports(o)
    PROVE  BridgeInv'
<1> USE DEF BridgeInv
<1>1. /\ op' = Consumed(o) /\ op[o].for = None /\ Exportable(o)
      /\ told' = [told EXCEPT !.exported[o] = @ + 1]
      /\ UNCHANGED <<slot, begun, dialogs, request, tabs>>
    BY DEF ApiExports
<1>2. /\ told' \in [approved : SUBSET Pairings, exported : [Ops -> Nat], given : [Pairings -> Nat]]
      /\ told'.approved = told.approved /\ told'.given = told.given
      /\ \A p \in Ops : told'.exported[p] = IF p = o THEN told.exported[p] + 1 ELSE told.exported[p]
    BY <1>1 DEF TypeOK
<1>3. /\ op' \in [Ops -> Operations]
      /\ \A p \in Ops : op'[p].key = op[p].key /\ op'[p].for = op[p].for
                         /\ op'[p].task = op[p].task /\ op'[p].code = op[p].code
      /\ op'[o].status = "consumed" /\ op[o].status = "ready" /\ ~op'[o].credential
      /\ \A p \in Ops \ {o} : op'[p] = op[p]
      /\ told.exported[o] = 0
    BY <1>1, Consumption
<1>4. TypeOK'
  <2>1. \A p \in Ops : op'[p].credential => op'[p].status = "ready" /\ op'[p].key = External
      BY <1>3 DEF TypeOK
  <2> QED
      BY <1>1, <1>2, <1>3, <2>1, TypedBy, Types
<1>5. Numbered' /\ Slotted' /\ Free'
  <2>1. slot.operation # None => slot.operation \in Ops
      BY Types DEF Slots
  <2>2. \A p \in Ops : op[p].status # "none" => op'[p].status # "none"
      BY <1>3
  <2>3. Numbered'
      BY <1>1, <1>3 DEF Numbered
  <2> QED
      BY <1>1, <1>2, <1>3, <2>1, <2>2, <2>3 DEF Slotted, Free
<1>6. Handling' /\ Sole'
  <2>1. \A q \in Requests : request[q].op # None => request[q].op \in Ops
      BY Types DEF Handlers
  <2>2. \A p \in Ops : op[p].status # "none" => op'[p].status # "none"
      BY <1>3
  <2>3. Handling'
      BY <1>1, <1>2, <1>3, <2>1, <2>2 DEF Handling
  <2>4. Sole'
      BY <1>1, <1>3 DEF Sole
  <2> QED
      BY <2>3, <2>4
<1>7. Signing' /\ Giving'
    BY <1>1, <1>2, <1>3 DEF Signing, Giving
<1> QED
    BY <1>4, <1>5, <1>6, <1>7

(* The slot is free again, or another pairing's already.                     *)
LEMMA ResetStep ==
    ASSUME BridgeInv, NEW r \in Requests, Resets(r)
    PROVE  BridgeInv'
<1> USE DEF BridgeInv
<1>1. /\ request' = [request EXCEPT ![r] = Rest] /\ slot' \in {slot, FreeSlot}
      /\ UNCHANGED <<begun, dialogs, op, tabs, told>>
    BY DEF Resets, Ends
<1>2. Rest \in Handlers /\ Rest.nonce = None /\ Rest.at = "idle" /\ Rest.op = None
    BY DEF Rest, Handlers, Keys
<1>3. /\ request' \in [Requests -> Handlers]
      /\ \A q \in Requests : request'[q] = IF q = r THEN Rest ELSE request[q]
    BY <1>1, <1>2, Types
<1>4. /\ FreeSlot \in Slots /\ FreeSlot.nonce = None /\ FreeSlot.operation = None
      /\ ~FreeSlot.approved /\ ~FreeSlot.denied /\ None <= begun
    BY Types DEF FreeSlot, Slots
<1>5. TypeOK'
    BY <1>1, <1>3, <1>4 DEF TypeOK, Handlers, Slots
<1>6. Numbered' /\ Slotted' /\ Free'
    BY <1>1, <1>2, <1>3, <1>4 DEF Numbered, Slotted, Free, Asking, Early
<1>7. Handling' /\ Sole'
    BY <1>1, <1>2, <1>3 DEF Handling, Sole, Asking, Early
<1>8. Signing' /\ Giving'
    BY <1>1 DEF Signing, Giving
<1> QED
    BY <1>5, <1>6, <1>7, <1>8
(* Whatever the steps, the invariant is kept.                                *)
LEMMA BridgeInvStep == BridgeInv /\ [Next]_vars => BridgeInv'
<1> SUFFICES ASSUME BridgeInv, [Next]_vars PROVE BridgeInv'
    OBVIOUS
<1>1. CASE UNCHANGED vars
    BY <1>1 DEF vars, BridgeInv, TypeOK, Numbered, Slotted, Free, Handling, Sole, Signing, Giving
<1>2. CASE Begin \/ Expire \/ \E n \in dialogs, yes \in BOOLEAN : Answer(n, yes)
    BY <1>2, SlotSteps
<1>3. ASSUME NEW r \in Requests,
             \/ Oauth(r) \/ Checks(r) \/ Binds(r) \/ Inserts(r) \/ Returns(r) \/ Vanishes(r)
             \/ Export(r) \/ Consumes(r) \/ Resets(r) \/ \E key \in Keys : ApiStarts(r, key)
      PROVE  BridgeInv'
    BY <1>3, MoveSteps, OauthStep, InsertStep, ReturnStep, ExportStep, ConsumeStep, ResetStep
<1>4. ASSUME NEW o \in Ops,
             \/ SignInFails(o) \/ Exchanges(o) \/ Publishes(o) \/ Forgets(o) \/ ApiExports(o)
             \/ \E page \in tabs : CallsBack(o, page)
      PROVE  BridgeInv'
    BY <1>4, TaskSteps, ApiExportStep
<1> QED
    BY <1>1, <1>2, <1>3, <1>4 DEF Next

(* No step brings an exported operation back.                                *)
LEMMA ConsumedStep ==
    ASSUME BridgeInv, [Next]_vars, NEW o \in Ops, op[o].status = "consumed"
    PROVE  op'[o].status \in {"consumed", "forgotten"}
<1>1. op \in [Ops -> Operations]
    BY Types DEF BridgeInv
<1>2. CASE UNCHANGED op
    BY <1>2
<1>3. ASSUME NEW p \in Ops, NEW new \in Operations, op' = [op EXCEPT ![p] = new],
             op[p].status = "consumed" => new.status \in {"consumed", "forgotten"}
      PROVE  op'[o].status \in {"consumed", "forgotten"}
    BY <1>1, <1>3
<1>4. ASSUME NEW r \in Requests, Inserts(r)
      PROVE  op'[o].status \in {"consumed", "forgotten"}
  <2>1. CASE UNCHANGED op
      BY <2>1
  <2>2. CASE ~UNCHANGED op
    <3>1. PICK p \in Ops : op[p] = Unborn /\ op' = [op EXCEPT ![p] = Born(r)]
        BY <1>4, <2>2 DEF Inserts
    <3>2. op[p].status = "none"
        BY <3>1 DEF Unborn
    <3>3. p # o
        BY <3>2
    <3> QED
        BY <1>1, <3>1, <3>3
  <2> QED
      BY <2>1, <2>2
<1>5. ASSUME NEW p \in Ops, Exportable(p), op' = Consumed(p)
      PROVE  op'[o].status \in {"consumed", "forgotten"}
    BY <1>5, Consumption
<1>6. ASSUME NEW p \in Ops,
             \/ SignInFails(p) \/ Exchanges(p) \/ Publishes(p) \/ Forgets(p)
             \/ \E page \in tabs : CallsBack(p, page)
      PROVE  op'[o].status \in {"consumed", "forgotten"}
  <2>1. CASE p # o
      BY <1>1, <1>6, <2>1 DEF SignInFails, Exchanges, Publishes, Forgets, CallsBack
  <2>2. CASE p = o
    <3>1. SignInFails(o) \/ Publishes(o) \/ Exchanges(o) => op'[o].status = "consumed"
        BY <1>1 DEF SignInFails, Exchanges, Publishes, Operations
    <3>2. Forgets(o) => op'[o].status = "forgotten"
        BY <1>1 DEF Forgets, Operations
    <3>3. ASSUME NEW page \in tabs, CallsBack(o, page) PROVE op'[o].status = "consumed"
        BY <1>1, <3>3 DEF CallsBack, Operations
    <3> QED
        BY <1>6, <2>2, <3>1, <3>2, <3>3
  <2> QED
      BY <2>1, <2>2
<1>7. ASSUME NEW r \in Requests, Consumes(r) PROVE op'[o].status \in {"consumed", "forgotten"}
  <2>1. CASE UNCHANGED op
      BY <2>1
  <2>2. CASE ~UNCHANGED op
    <3>1. request[r].at = "exporting" /\ Exportable(request[r].op) /\ op' = Consumed(request[r].op)
        BY <1>7, <2>2 DEF Consumes
    <3>2. request[r].op \in Ops
        BY <3>1, Types DEF BridgeInv, Handling, Handlers
    <3> QED
        BY <1>5, <3>1, <3>2
  <2> QED
      BY <2>1, <2>2
<1>8. ASSUME NEW p \in Ops, ApiExports(p) PROVE op'[o].status \in {"consumed", "forgotten"}
    BY <1>5, <1>8 DEF ApiExports
<1>9. ASSUME Begin \/ Expire \/ (\E n \in dialogs, yes \in BOOLEAN : Answer(n, yes))
             \/ (\E r \in Requests : \/ Oauth(r) \/ Checks(r) \/ Binds(r) \/ Returns(r)
                                      \/ Vanishes(r) \/ Export(r) \/ Resets(r)
                                      \/ \E key \in Keys : ApiStarts(r, key))
      PROVE  UNCHANGED op
    BY <1>9 DEF Begin, Expire, Answer, Oauth, Checks, Binds, Returns, Vanishes, Export, Resets,
                ApiStarts
<1> QED
    BY <1>2, <1>4, <1>6, <1>7, <1>8, <1>9 DEF Next, vars

-----------------------------------------------------------------------------
(* The invariant holds in every state the bridge reaches.                    *)
THEOREM BridgeHolds == Spec => []BridgeInv
BY BridgeInvInit, BridgeInvStep, PTL DEF Spec

(* Whatever is asked at once, a credential is given away once, a pairing     *)
(* gives one, of a sign-in it started and the user approved, and what is     *)
(* given is what the page of that sign-in called back for (export,           *)
(* account_keeper_codex_oauth_export).                                       *)
THEOREM Exports == Spec => []ExportSound
BY BridgeHolds, InvIsSound, PTL

(* One sign-in is open for a profile and the slot's is its pairing's, with    *)
(* the awaits between each check and the write it guards                     *)
(* (start_codex_oauth_browser_session, oauth).                               *)
THEOREM Apart == Spec => []SignInsApart
BY BridgeHolds, InvIsSound, PTL

(* A late outcome of a sign-in does not bring back an exported operation      *)
(* (the task of start_codex_oauth_browser_session).                          *)
THEOREM ExportedStays == Spec => ConsumedStays
<1> DEFINE Stays == \A o \in Ops :
               op[o].status = "consumed" => op'[o].status \in {"consumed", "forgotten"}
<1>1. BridgeInv /\ [Next]_vars => [Stays]_vars
    BY ConsumedStep
<1>2. Spec => [][Stays]_vars
    BY <1>1, BridgeHolds, PTL DEF Spec
<1> QED
    BY <1>2 DEF ConsumedStays
=============================================================================
