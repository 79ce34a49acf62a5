----------------------------- MODULE ExecutionPath -----------------------------
(***************************************************************************)
(* From an opportunity to an order: the preview and execute handlers of    *)
(* state-api (preview_routes, execute_routes), the expiry job               *)
(* (opportunity_lifecycle), and the venue service (exec-hl-svc) with the   *)
(* idempotency keys and the circuit breaker it keeps in Redis.             *)
(*                                                                         *)
(* There is one venue, so an opportunity has one decision.  Each handler   *)
(* runs one request, and the call it makes to the venue service goes on    *)
(* when the handler gives up or its process dies.  Orders are numbered: a  *)
(* dry run gives each a fresh id.  A key lives a day and an opportunity    *)
(* fifteen minutes, so a key is there as long as its decision can be sent. *)
(***************************************************************************)
EXTENDS Integers, FiniteSets

CONSTANTS
    Opps,       \* opportunities
    Handlers,   \* requests state-api serves at once
    Threshold,  \* errors in a row that open the circuit (5 in the code)
    MaxOrders,  \* bound: orders the venue service makes up
    MaxCalls,   \* bound: calls to the venue service
    MaxFaults   \* bound: timeouts, failed calls and crashes of state-api

ASSUME NumbersAssumption ==
    /\ Threshold \in Nat \ {0} /\ MaxOrders \in Nat /\ MaxCalls \in Nat /\ MaxFaults \in Nat
    /\ IsFiniteSet(Handlers) /\ "none" \notin Opps

VARIABLES
    opp,       \* opportunities.status
    late,      \* opportunities whose expires_at has passed
    decided,   \* opportunities with a decisions row
    rows,      \* exec_orders: the answer stored for each, one row a decision
    keys,      \* exec:idempo: the answer the venue service keeps for each
    fails,     \* exec:failcount
    open,      \* exec:disabled
    req,       \* what each handler is doing
    call,      \* what the call it made is doing
    orders,    \* history: orders the venue service kept, for each
    overlaps,  \* history: calls that began while another one was under way
    errors,    \* history: errors since an order or the end of a disabled spell
    torn,      \* history: counts at the threshold whose flag was never set
    made,      \* orders and calls made so far (bounded)
    faults     \* how many faults happened (bounded)

db    == <<opp, decided, rows>>
redis == <<keys, fails, open>>
hist  == <<orders, overlaps, errors, torn>>
vars  == <<db, late, redis, req, call, hist, made, faults>>

Statuses == {"new", "previewed", "executed", "expired"}
Answers  == [status: {"placed", "rejected", "error"}, order: 0..MaxOrders]
Error    == [status |-> "error", order |-> 0]
NoAnswer == [status |-> "none", order |-> 0]

Idle        == [at |-> "idle", o |-> "none", answer |-> NoAnswer]
At(p, o, a) == [at |-> p, o |-> o, answer |-> a]

Init ==
    /\ opp = [o \in Opps |-> "new"] /\ late = {} /\ decided = {}
    /\ rows = [o \in Opps |-> NoAnswer]
    /\ keys = [o \in Opps |-> NoAnswer] /\ fails = 0 /\ open = FALSE
    /\ req = [h \in Handlers |-> Idle] /\ call = [h \in Handlers |-> Idle]
    /\ orders = [o \in Opps |-> {}] /\ overlaps = [o \in Opps |-> 0] /\ errors = 0 /\ torn = 0
    /\ made = [orders |-> 0, calls |-> 0]
    /\ faults = 0

Fault  == faults < MaxFaults /\ faults' = faults + 1
Go(h, p, o, a) == req' = [req EXCEPT ![h] = At(p, o, a)]
End(h)         == req' = [req EXCEPT ![h] = Idle]
Free(h)        == req[h] = Idle /\ call[h] = Idle

-----------------------------------------------------------------------------
(* The opportunity's lifecycle. *)

Pass(o) ==
    /\ o \notin late
    /\ late' = late \union {o}
    /\ UNCHANGED <<db, redis, req, call, hist, made, faults>>

(* Once a minute; only what nobody previewed is marked. *)
ExpirePass ==
    /\ \E o \in late : opp[o] = "new"
    /\ opp' = [o \in Opps |-> IF opp[o] = "new" /\ o \in late THEN "expired" ELSE opp[o]]
    /\ UNCHANGED <<late, decided, rows, redis, req, call, hist, made, faults>>

(* RiskGuardian.check: of its rules the status and the expiry; any other    *)
(* may refuse as well.                                                      *)
Admits(o, statuses) == opp[o] \in statuses /\ o \notin late

-----------------------------------------------------------------------------
(* POST /actions/preview: three statements, no transaction. *)

Preview(h, o) ==
    /\ Free(h) /\ o \notin decided /\ Admits(o, {"new"})
    /\ Go(h, "insert", o, NoAnswer)
    /\ UNCHANGED <<db, late, redis, call, hist, made, faults>>

InsertDecision(h) ==
    /\ req[h].at = "insert"
    /\ decided' = decided \union {req[h].o}
    /\ Go(h, "update", req[h].o, NoAnswer)
    /\ UNCHANGED <<opp, late, rows, redis, call, hist, made, faults>>

MarkPreviewed(h) ==
    /\ req[h].at = "update"
    /\ opp' = [opp EXCEPT ![req[h].o] = IF @ = "new" THEN "previewed" ELSE @]
    /\ End(h)
    /\ UNCHANGED <<late, decided, rows, redis, call, hist, made, faults>>

-----------------------------------------------------------------------------
(* POST /actions/execute. *)

(* A decision with a stored order is answered from it, and goes no further. *)
Execute(h, o) ==
    /\ Free(h) /\ o \in decided /\ rows[o] = NoAnswer
    /\ Go(h, "read", o, NoAnswer)
    /\ UNCHANGED <<db, late, redis, call, hist, made, faults>>

(* The decision and its opportunity's status, as they are now; the verdict  *)
(* comes after another query, and a refusal is answered and not stored.     *)
ReadDecision(h) ==
    LET o == req[h].o IN
    /\ req[h].at = "read"
    /\ IF opp[o] \in {"new", "previewed"} THEN Go(h, "check", o, NoAnswer) ELSE End(h)
    /\ UNCHANGED <<db, late, redis, call, hist, made, faults>>

(* RiskGuardian.check on what was read, then the call to the venue service. *)
Check(h) ==
    LET o == req[h].o IN
    /\ req[h].at = "check"
    /\ \/ End(h) /\ UNCHANGED <<call, overlaps, made>>
       \/ /\ o \notin late /\ made.calls < MaxCalls
          /\ made' = [made EXCEPT !.calls = @ + 1]
          /\ Go(h, "wait", o, NoAnswer)
          /\ call' = [call EXCEPT ![h] = At("get", o, NoAnswer)]
          /\ overlaps' = [overlaps EXCEPT ![o] =
                            IF \E g \in Handlers : call[g].o = o THEN @ + 1 ELSE @]
    /\ UNCHANGED <<db, late, redis, orders, errors, torn, faults>>

(* The call failed, or five seconds passed: an error, which is stored. *)
GiveUp(h) ==
    /\ req[h].at = "wait" /\ Fault
    /\ Go(h, "store", req[h].o, Error)
    /\ UNCHANGED <<db, late, redis, call, hist, made>>

(* Mutant of Store: the opportunity is marked whatever the answer was. *)
StoreAny(h) ==
    LET o == req[h].o IN
    /\ req[h].at = "store"
    /\ rows' = [rows EXCEPT ![o] = IF @ = NoAnswer THEN req[h].answer ELSE @]
    /\ IF rows[o] = NoAnswer THEN Go(h, "mark", o, NoAnswer) ELSE End(h)
    /\ UNCHANGED <<opp, late, decided, redis, call, hist, made, faults>>

(* The row is inserted, or refused when another request stored one for this *)
(* decision: the handler then fails, and nothing is marked.                 *)
Store(h) ==
    LET o == req[h].o IN
    /\ req[h].at = "store"
    /\ rows' = [rows EXCEPT ![o] = IF @ = NoAnswer THEN req[h].answer ELSE @]
    /\ IF rows[o] = NoAnswer /\ req[h].answer.status = "placed"
       THEN Go(h, "mark", o, NoAnswer) ELSE End(h)
    /\ UNCHANGED <<opp, late, decided, redis, call, hist, made, faults>>

Mark(h) ==
    /\ req[h].at = "mark"
    /\ opp' = [opp EXCEPT ![req[h].o] = "executed"]
    /\ End(h)
    /\ UNCHANGED <<late, decided, rows, redis, call, hist, made, faults>>

(* state-api stops; the calls it made go on. *)
Crash ==
    /\ \E h \in Handlers : req[h] # Idle
    /\ Fault
    /\ req' = [h \in Handlers |-> Idle]
    /\ UNCHANGED <<db, late, redis, call, hist, made>>

-----------------------------------------------------------------------------
(* exec-hl-svc: POST /exec/hl/order. *)

Doing(h, p, a) == call' = [call EXCEPT ![h] = At(p, call[h].o, a)]

(* The answer reaches the handler that waits for it, if it still does. *)
Answer(h, a) ==
    /\ call' = [call EXCEPT ![h] = Idle]
    /\ IF req[h].at = "wait" THEN Go(h, "store", req[h].o, a) ELSE UNCHANGED req

GetKey(h) ==
    LET known == keys[call[h].o] IN
    /\ call[h].at = "get"
    /\ IF known # NoAnswer THEN Answer(h, known)
       ELSE Doing(h, "circuit", NoAnswer) /\ UNCHANGED req
    /\ UNCHANGED <<db, late, redis, hist, made, faults>>

(* An open circuit is answered with an error that is neither counted nor    *)
(* kept.                                                                    *)
GetCircuit(h) ==
    /\ call[h].at = "circuit"
    /\ IF open THEN Answer(h, Error) ELSE Doing(h, "preflight", NoAnswer) /\ UNCHANGED req
    /\ UNCHANGED <<db, late, redis, hist, made, faults>>

(* The preflight, the validation and the dry run's order. *)
Preflight(h) ==
    /\ call[h].at = "preflight"
    /\ \/ /\ made.orders < MaxOrders
          /\ made' = [made EXCEPT !.orders = @ + 1]
          /\ Doing(h, "count", [status |-> "placed", order |-> made.orders + 1])
       \/ /\ \E s \in {"rejected", "error"} : Doing(h, "count", [status |-> s, order |-> 0])
          /\ UNCHANGED made
    /\ UNCHANGED <<db, late, redis, req, hist, faults>>

(* Mutant of Count: the sixth error in a row opens the circuit. *)
CountPast(h) ==
    LET a == call[h].answer IN
    /\ call[h].at = "count"
    /\ fails' = CASE a.status = "error" -> fails + 1 [] a.status = "placed" -> 0 [] OTHER -> fails
    /\ errors' = CASE a.status = "error" -> errors + 1 [] a.status = "placed" -> 0 [] OTHER -> errors
    /\ Doing(h, IF a.status = "error" /\ fails' > Threshold THEN "trip" ELSE "keep", a)
    /\ UNCHANGED <<db, late, keys, open, req, orders, overlaps, torn, made, faults>>

Count(h) ==
    LET a == call[h].answer IN
    /\ call[h].at = "count"
    /\ fails' = CASE a.status = "error" -> fails + 1 [] a.status = "placed" -> 0 [] OTHER -> fails
    /\ errors' = CASE a.status = "error" -> errors + 1 [] a.status = "placed" -> 0 [] OTHER -> errors
    /\ Doing(h, IF a.status = "error" /\ fails' >= Threshold THEN "trip" ELSE "keep", a)
    /\ UNCHANGED <<db, late, keys, open, req, orders, overlaps, torn, made, faults>>

Trip(h) ==
    /\ call[h].at = "trip"
    /\ open' = TRUE
    /\ Doing(h, "keep", call[h].answer)
    /\ UNCHANGED <<db, late, keys, fails, req, hist, made, faults>>

(* Mutant of Keep: only an order is kept under its key, not an error. *)
KeepNothing(h) ==
    LET o == call[h].o
        a == call[h].answer
    IN
    /\ call[h].at = "keep"
    /\ orders' = [orders EXCEPT ![o] = @ \union ({a.order} \ {0})]
    /\ Answer(h, a)
    /\ UNCHANGED <<db, late, redis, overlaps, errors, torn, made, faults>>

Keep(h) ==
    LET o == call[h].o
        a == call[h].answer
    IN
    /\ call[h].at = "keep"
    /\ keys' = [keys EXCEPT ![o] = a]
    /\ orders' = [orders EXCEPT ![o] = @ \union ({a.order} \ {0})]
    /\ Answer(h, a)
    /\ UNCHANGED <<db, late, fails, open, overlaps, errors, torn, made, faults>>

(* Redis does not answer, or the service dies: the caller gets no answer   *)
(* it can read.                                                             *)
CallFails(h) ==
    /\ call[h] # Idle /\ Fault
    /\ Answer(h, Error)
    /\ torn' = IF call[h].at = "trip" THEN torn + 1 ELSE torn
    /\ UNCHANGED <<db, late, redis, orders, overlaps, errors, made>>

(* The flag expires after ten minutes; the count never does. *)
Reenable ==
    /\ open
    /\ open' = FALSE /\ errors' = 0
    /\ UNCHANGED <<db, late, keys, fails, req, call, orders, overlaps, torn, made, faults>>

-----------------------------------------------------------------------------

HandlerStep(h) ==
    \/ InsertDecision(h) \/ MarkPreviewed(h)
    \/ ReadDecision(h) \/ Check(h) \/ Store(h) \/ Mark(h)
    \/ GetKey(h) \/ GetCircuit(h) \/ Preflight(h) \/ Count(h) \/ Trip(h) \/ Keep(h)

Next ==
    \/ \E h \in Handlers :
          \/ \E o \in Opps : Preview(h, o) \/ Execute(h, o)
          \/ HandlerStep(h) \/ GiveUp(h) \/ CallFails(h)
    \/ \E o \in Opps : Pass(o)
    \/ ExpirePass \/ Crash \/ Reenable

Spec == Init /\ [][Next]_vars
-----------------------------------------------------------------------------
(* Properties. *)

Requests == [at: {"idle", "insert", "update", "read", "check", "wait", "store", "mark"}, o: Opps \union {"none"},
             answer: Answers \union {NoAnswer}]
Calls    == [at: {"idle", "get", "circuit", "preflight", "count", "trip", "keep"}, o: Opps \union {"none"},
             answer: Answers \union {NoAnswer}]

(* Every variable has its type, and a handler or a call that is at work is  *)
(* about a decision that exists, except while a preview makes it.           *)
TypeOK ==
    /\ opp \in [Opps -> Statuses] /\ late \subseteq Opps /\ decided \subseteq Opps
    /\ rows \in [Opps -> Answers \union {NoAnswer}]
    /\ keys \in [Opps -> Answers \union {NoAnswer}]
    /\ fails \in Nat /\ open \in BOOLEAN
    /\ req \in [Handlers -> Requests] /\ call \in [Handlers -> Calls]
    /\ \A h \in Handlers : req[h].at \notin {"idle", "insert"} => req[h].o \in decided
    /\ \A h \in Handlers : call[h].at # "idle" => call[h].o \in decided
    /\ orders \in [Opps -> SUBSET (1..MaxOrders)] /\ overlaps \in [Opps -> Nat] /\ errors \in Nat /\ torn \in Nat
    /\ made \in [orders: 0..MaxOrders, calls: 0..MaxCalls] /\ faults \in 0..MaxFaults

(* A second order for a decision takes calls that overlap: whatever is      *)
(* lost, repeated or restarted, a call that begins after another one ended  *)
(* never makes another order (the exec:idempo key, execute_hl_order).       *)
SecondOrderOverlaps == \A o \in Opps : Cardinality(orders[o]) <= 1 + overlaps[o]

(* An opportunity marked executed has a stored order, and an order that is  *)
(* stored is one the venue service kept for that decision: the record may   *)
(* miss an order, and never invents one (execute_action).                   *)
RecordIsVenues ==
    \A o \in Opps :
        /\ rows[o].status = "placed" => rows[o].order \in orders[o]
        /\ opp[o] = "executed" => rows[o].status = "placed"

(* A venue that fails is left alone after Threshold errors in a row and     *)
(* those of the calls under way: the count and the flag are set one after   *)
(* the other, and each flag lost in between allows one more (finish).       *)
FailuresBounded == errors < Threshold + Cardinality(Handlers) + torn

(* An opportunity's status never goes back, although previews, executions  *)
(* and the expiry job write it without a lock; an executed one stays so.    *)
StatusForward ==
    [][\A o \in Opps :
         opp'[o] # opp[o] => \/ opp[o] = "new"
                             \/ opp[o] \in {"previewed", "expired"} /\ opp'[o] = "executed"]_vars
===============================================================================
