------------------------------ MODULE OrderProofs ------------------------------
(***************************************************************************)
(* Proofs about the way of an order, for every set of opportunities,       *)
(* handlers and approvals and every threshold.  First ExecutionPath, from  *)
(* the decision to the venue.  Then SignerJournal: the journal never       *)
(* distrusts what it wrote itself, and unless a power cut can lose a file  *)
(* that was synced, no approval is signed against twice, whatever fails,   *)
(* stops or loses power.                                                   *)
(***************************************************************************)
EXTENDS ExecutionPath, SignerJournal, FiniteSetTheorems, TLAPS


-----------------------------------------------------------------------------
(* Types, in parts.  A preview under way is about an opportunity.           *)

TablesTyped ==
    /\ opp \in [Opps -> Statuses] /\ late \subseteq Opps /\ decided \subseteq Opps
    /\ rows \in [Opps -> Answers \union {NoAnswer}]
RedisTyped ==
    /\ keys \in [Opps -> Answers \union {NoAnswer}]
    /\ fails \in Nat /\ open \in BOOLEAN
RequestsTyped ==
    /\ req \in [Handlers -> Requests]
    /\ \A h \in Handlers : req[h].at \notin {"idle", "insert"} => req[h].o \in decided
    /\ \A h \in Handlers : req[h].at = "insert" => req[h].o \in Opps
CallsTyped ==
    /\ call \in [Handlers -> Calls]
    /\ \A h \in Handlers : call[h].at # "idle" => call[h].o \in decided
HistoryTyped ==
    /\ orders \in [Opps -> SUBSET (1..MaxOrders)] /\ overlaps \in [Opps -> Nat]
    /\ errors \in Nat /\ torn \in Nat
CountersTyped == made \in [orders: 0..MaxOrders, calls: 0..MaxCalls] /\ faults \in 0..MaxFaults

Typed == /\ TablesTyped /\ RedisTyped /\ RequestsTyped
         /\ CallsTyped /\ HistoryTyped /\ CountersTyped

LEMMA InitTyped == ASSUME NumbersAssumption, Init PROVE Typed
<1>1. Idle \in Requests /\ Idle \in Calls /\ Idle.at = "idle"
  BY DEF Idle, Requests, Calls
<1>2. TablesTyped /\ RedisTyped
  BY DEF Init, TablesTyped, RedisTyped, Statuses
<1>3. RequestsTyped /\ CallsTyped
  BY <1>1 DEF Init, RequestsTyped, CallsTyped
<1>4. HistoryTyped
  BY DEF Init, HistoryTyped
<1>5. CountersTyped
  BY DEF Init, CountersTyped, NumbersAssumption
<1> QED  BY <1>2, <1>3, <1>4, <1>5 DEF Typed

\* Where a handler and its call are, when they are anywhere.
LEMMA InTypes ==
    ASSUME Typed, NEW h \in Handlers
    PROVE  /\ req[h] \in Requests /\ call[h] \in Calls
           /\ req[h].at # "idle" => req[h].o \in Opps
           /\ call[h].at # "idle" => call[h].o \in Opps /\ call[h].o \in decided
           /\ req[h].at \notin {"idle", "insert"} => req[h].o \in decided
           /\ req[h].o \in Opps \union {"none"} /\ call[h].o \in Opps \union {"none"}
           /\ req[h].answer \in Answers \union {NoAnswer}
           /\ call[h].answer \in Answers \union {NoAnswer}
BY DEF Typed, TablesTyped, RequestsTyped, CallsTyped, Requests, Calls

\* Records put together by At, and their fields.
LEMMA AtFields ==
    ASSUME NEW p, NEW o, NEW a
    PROVE  /\ At(p, o, a).at = p /\ At(p, o, a).o = o /\ At(p, o, a).answer = a
           /\ Idle.at = "idle" /\ Idle.o = "none" /\ Idle.answer = NoAnswer
BY DEF At, Idle

LEMMA AtTyped ==
    ASSUME NumbersAssumption
    PROVE
    /\ Idle \in Requests /\ Idle \in Calls
    /\ \A o \in Opps, a \in Answers \union {NoAnswer} :
         /\ \A p \in {"insert", "update", "read", "check", "wait", "store", "mark"} : At(p, o, a) \in Requests
         /\ \A p \in {"get", "circuit", "preflight", "count", "trip", "keep"} : At(p, o, a) \in Calls
    /\ Error \in Answers
<1>1. Idle \in Requests /\ Idle \in Calls
  BY DEF Idle, Requests, Calls
<1>2. \A o \in Opps, a \in Answers \union {NoAnswer} :
        \A p \in {"insert", "update", "read", "check", "wait", "store", "mark"} : At(p, o, a) \in Requests
  BY DEF At, Requests
<1>3. \A o \in Opps, a \in Answers \union {NoAnswer} :
        \A p \in {"get", "circuit", "preflight", "count", "trip", "keep"} : At(p, o, a) \in Calls
  BY DEF At, Calls
<1>4. Error \in Answers
  BY DEF Error, Answers, NumbersAssumption
<1> QED  BY <1>1, <1>2, <1>3, <1>4

\* One handler's request is written, and the decisions do not shrink.
LEMMA RequestWritten ==
    ASSUME RequestsTyped, NEW h \in Handlers, NEW r \in Requests,
           req' = [req EXCEPT ![h] = r], decided \subseteq decided',
           r.at = "insert" => r.o \in Opps,
           r.at \notin {"idle", "insert"} => r.o \in decided'
    PROVE  RequestsTyped'
BY DEF RequestsTyped

LEMMA CallWritten ==
    ASSUME CallsTyped, NEW h \in Handlers, NEW c \in Calls,
           call' = [call EXCEPT ![h] = c], decided' = decided,
           c.at # "idle" => c.o \in decided
    PROVE  CallsTyped'
BY DEF CallsTyped

\* A handler moves on with its decision, or it ends.
LEMMA GoTyped ==
    ASSUME NumbersAssumption, Typed, NEW h \in Handlers, decided' = decided, req[h].at \notin {"idle", "insert"},
           NEW p \in {"read", "check", "wait", "store", "mark", "update"}, NEW a \in Answers \union {NoAnswer},
           Go(h, p, req[h].o, a)
    PROVE  RequestsTyped'
<1>1. req[h].o \in Opps /\ req[h].o \in decided
  BY InTypes
<1>2. At(p, req[h].o, a) \in Requests
  BY <1>1, AtTyped
<1>3. At(p, req[h].o, a).at = p /\ At(p, req[h].o, a).o = req[h].o
  BY AtFields
<1>4. req' = [req EXCEPT ![h] = At(p, req[h].o, a)]
  BY DEF Go
<1> QED  BY <1>1, <1>2, <1>3, <1>4, RequestWritten DEF Typed

LEMMA EndTyped ==
    ASSUME NumbersAssumption, Typed, NEW h \in Handlers, decided' = decided, End(h)
    PROVE  RequestsTyped'
BY AtTyped, AtFields, RequestWritten DEF End, Typed

\* A call moves on, or answers the handler that waits for it.
LEMMA DoingTyped ==
    ASSUME NumbersAssumption, Typed, NEW h \in Handlers, decided' = decided, call[h].at # "idle",
           NEW p \in {"get", "circuit", "preflight", "count", "trip", "keep"},
           NEW a \in Answers \union {NoAnswer}, Doing(h, p, a)
    PROVE  CallsTyped'
<1>1. call[h].o \in Opps /\ call[h].o \in decided
  BY InTypes
<1>2. At(p, call[h].o, a) \in Calls
  BY <1>1, AtTyped
<1>3. At(p, call[h].o, a).at = p /\ At(p, call[h].o, a).o = call[h].o
  BY AtFields
<1>4. call' = [call EXCEPT ![h] = At(p, call[h].o, a)]
  BY DEF Doing
<1> QED  BY <1>1, <1>2, <1>3, <1>4, CallWritten DEF Typed

LEMMA AnswerTyped ==
    ASSUME NumbersAssumption, Typed, NEW h \in Handlers, decided' = decided,
           NEW a \in Answers \union {NoAnswer}, Answer(h, a)
    PROVE  CallsTyped' /\ RequestsTyped'
<1>1. CallsTyped'
  BY AtTyped, AtFields, CallWritten DEF Answer, Typed
<1>2. CASE req[h].at = "wait"
  BY <1>1, <1>2, GoTyped DEF Answer
<1>3. CASE req[h].at # "wait"
  BY <1>1, <1>3 DEF Answer, Typed, RequestsTyped
<1> QED  BY <1>2, <1>3


LEMMA StepTyped ==
    ASSUME NumbersAssumption, Typed, NEW h \in Handlers, HandlerStep(h)
    PROVE  RequestsTyped' /\ CallsTyped'
<1>0. NoAnswer \in Answers \union {NoAnswer} /\ Error \in Answers \union {NoAnswer}
  BY AtTyped
<1>1. CASE InsertDecision(h)
  <2>1. req[h].o \in Opps
    BY <1>1, InTypes DEF InsertDecision
  <2>2. /\ At("update", req[h].o, NoAnswer) \in Requests
        /\ At("update", req[h].o, NoAnswer).at = "update"
        /\ At("update", req[h].o, NoAnswer).o = req[h].o
    BY <2>1, AtTyped, AtFields
  <2>3. RequestsTyped'
    BY <1>1, <2>2, RequestWritten DEF InsertDecision, Go, Typed
  <2>4. CallsTyped'
    BY <1>1 DEF InsertDecision, CallsTyped, Typed
  <2> QED  BY <2>3, <2>4
<1>2. CASE MarkPreviewed(h)
  BY <1>2, EndTyped DEF MarkPreviewed, Typed, CallsTyped
<1>3. CASE Check(h)
  <2>1. decided' = decided /\ req[h].at = "check"
    BY <1>3 DEF Check, db
  <2>2. CASE End(h) /\ call' = call
    BY <2>1, <2>2, EndTyped DEF Typed, CallsTyped
  <2>3. CASE Go(h, "wait", req[h].o, NoAnswer) /\ call' = [call EXCEPT ![h] = At("get", req[h].o, NoAnswer)]
    <3>1. req[h].o \in Opps /\ req[h].o \in decided
      BY <2>1, InTypes
    <3>2. /\ At("get", req[h].o, NoAnswer) \in Calls
          /\ At("get", req[h].o, NoAnswer).o = req[h].o
      BY <3>1, AtTyped, AtFields
    <3>3. CallsTyped'
      BY <2>1, <2>3, <3>1, <3>2, CallWritten DEF Typed
    <3>4. RequestsTyped'
      BY <1>0, <2>1, <2>3, GoTyped
    <3> QED  BY <3>3, <3>4
  <2> QED  BY <1>3, <2>2, <2>3 DEF Check
<1>4. CASE Store(h)
  <2>1. decided' = decided /\ req[h].at = "store" /\ call' = call
    BY <1>4 DEF Store
  <2>2. Go(h, "mark", req[h].o, NoAnswer) \/ End(h)
    BY <1>4 DEF Store
  <2>3. RequestsTyped'
    BY <1>0, <2>1, <2>2, GoTyped, EndTyped
  <2> QED  BY <2>1, <2>3 DEF Typed, CallsTyped
<1>5. CASE Mark(h)
  BY <1>5, EndTyped DEF Mark, Typed, CallsTyped
<1>6. CASE GetKey(h)
  <2>1. decided' = decided /\ call[h].at = "get"
    BY <1>6 DEF GetKey, db
  <2>2. CASE Answer(h, keys[call[h].o])
    <3>1. keys[call[h].o] \in Answers \union {NoAnswer}
      BY <2>1, InTypes DEF Typed, RedisTyped
    <3> QED  BY <2>1, <2>2, <3>1, AnswerTyped
  <2>3. CASE Doing(h, "circuit", NoAnswer) /\ req' = req
    BY <1>0, <2>1, <2>3, DoingTyped DEF Typed, RequestsTyped
  <2> QED  BY <1>6, <2>2, <2>3 DEF GetKey
<1>7. CASE GetCircuit(h)
  <2>1. decided' = decided /\ call[h].at = "circuit"
    BY <1>7 DEF GetCircuit, db
  <2>2. CASE Answer(h, Error)
    BY <1>0, <2>1, <2>2, AnswerTyped
  <2>3. CASE Doing(h, "preflight", NoAnswer) /\ req' = req
    BY <1>0, <2>1, <2>3, DoingTyped DEF Typed, RequestsTyped
  <2> QED  BY <1>7, <2>2, <2>3 DEF GetCircuit
<1>8. CASE Preflight(h)
  <2>1. decided' = decided /\ call[h].at = "preflight" /\ req' = req
    BY <1>8 DEF Preflight, db
  <2>2. \E a \in Answers : Doing(h, "count", a)
    <3>1. made \in [orders: 0..MaxOrders, calls: 0..MaxCalls] /\ MaxOrders \in Nat
      BY DEF Typed, CountersTyped, NumbersAssumption
    <3>2. made.orders < MaxOrders => [status |-> "placed", order |-> made.orders + 1] \in Answers
      BY <3>1 DEF Answers
    <3>3. \A st \in {"rejected", "error"} : [status |-> st, order |-> 0] \in Answers
      BY <3>1 DEF Answers
    <3> QED  BY <1>8, <3>2, <3>3 DEF Preflight
  <2> QED  BY <2>1, <2>2, DoingTyped DEF Typed, RequestsTyped
<1>9. CASE Count(h)
  <2>1. /\ decided' = decided /\ call[h].at = "count" /\ req' = req
        /\ Doing(h, "trip", call[h].answer) \/ Doing(h, "keep", call[h].answer)
    BY <1>9 DEF Count, db
  <2> QED  BY <2>1, InTypes, DoingTyped DEF Typed, RequestsTyped
<1>10. CASE Trip(h)
  <2>1. /\ decided' = decided /\ call[h].at = "trip" /\ req' = req
        /\ Doing(h, "keep", call[h].answer)
    BY <1>10 DEF Trip, db
  <2> QED  BY <2>1, InTypes, DoingTyped DEF Typed, RequestsTyped
<1>11. CASE Keep(h)
  <2>1. decided' = decided /\ Answer(h, call[h].answer)
    BY <1>11 DEF Keep, db
  <2> QED  BY <2>1, InTypes, AnswerTyped
<1>12. CASE ReadDecision(h)
  <2>1. decided' = decided /\ call' = call /\ req[h].at = "read"
    BY <1>12 DEF ReadDecision, db
  <2>2. Go(h, "check", req[h].o, NoAnswer) \/ End(h)
    BY <1>12 DEF ReadDecision
  <2> QED  BY <1>0, <2>1, <2>2, GoTyped, EndTyped DEF Typed, CallsTyped
<1> QED
  BY <1>1, <1>2, <1>3, <1>4, <1>5, <1>6, <1>7, <1>8, <1>9, <1>10, <1>11, <1>12 DEF HandlerStep

LEMMA ProcessesTyped ==
    ASSUME NumbersAssumption, Typed, [Next]_vars
    PROVE  RequestsTyped' /\ CallsTyped'
<1>0. NoAnswer \in Answers \union {NoAnswer} /\ Error \in Answers \union {NoAnswer}
  BY AtTyped
<1>1. ASSUME NEW h \in Handlers, NEW o \in Opps, Preview(h, o) PROVE RequestsTyped' /\ CallsTyped'
  <2>1. /\ At("insert", o, NoAnswer) \in Requests
        /\ At("insert", o, NoAnswer).at = "insert" /\ At("insert", o, NoAnswer).o = o
    BY AtTyped, AtFields
  <2>2. decided' = decided /\ call' = call /\ req' = [req EXCEPT ![h] = At("insert", o, NoAnswer)]
    BY <1>1 DEF Preview, Go, db
  <2>3. RequestsTyped'
    BY <2>1, <2>2, RequestWritten DEF Typed
  <2> QED  BY <2>2, <2>3 DEF Typed, CallsTyped
<1>2. ASSUME NEW h \in Handlers, NEW o \in Opps, Execute(h, o) PROVE RequestsTyped' /\ CallsTyped'
  <2>1. /\ At("read", o, NoAnswer) \in Requests
        /\ At("read", o, NoAnswer).at = "read" /\ At("read", o, NoAnswer).o = o
    BY AtTyped, AtFields
  <2>2. /\ decided' = decided /\ call' = call /\ o \in decided
        /\ req' = [req EXCEPT ![h] = At("read", o, NoAnswer)]
    BY <1>2 DEF Execute, Go, db
  <2>3. RequestsTyped'
    BY <2>1, <2>2, RequestWritten DEF Typed
  <2> QED  BY <2>2, <2>3 DEF Typed, CallsTyped
<1>3. ASSUME NEW h \in Handlers, HandlerStep(h) PROVE RequestsTyped' /\ CallsTyped'
  BY <1>3, StepTyped
<1>4. ASSUME NEW h \in Handlers, GiveUp(h) PROVE RequestsTyped' /\ CallsTyped'
  <2>1. decided' = decided /\ call' = call /\ req[h].at = "wait" /\ Go(h, "store", req[h].o, Error)
    BY <1>4 DEF GiveUp, db
  <2> QED  BY <1>0, <2>1, GoTyped DEF Typed, CallsTyped
<1>5. ASSUME NEW h \in Handlers, CallFails(h) PROVE RequestsTyped' /\ CallsTyped'
  <2>1. decided' = decided /\ Answer(h, Error)
    BY <1>5 DEF CallFails, db
  <2> QED  BY <1>0, <2>1, AnswerTyped
<1>6. CASE Crash
  <2>1. decided' = decided /\ call' = call /\ req' = [h \in Handlers |-> Idle]
    BY <1>6 DEF Crash, db
  <2>2. \A h \in Handlers : req'[h].at = "idle"
    BY <2>1, AtFields
  <2>3. RequestsTyped'
    BY <2>1, <2>2, AtTyped DEF RequestsTyped
  <2> QED  BY <2>1, <2>3 DEF Typed, CallsTyped
<1>7. CASE (\E o \in Opps : Pass(o)) \/ ExpirePass \/ Reenable \/ UNCHANGED vars
  <2>1. decided' = decided /\ call' = call /\ req' = req
    BY <1>7 DEF Pass, ExpirePass, Reenable, vars, db
  <2> QED  BY <2>1 DEF Typed, CallsTyped, RequestsTyped
<1> QED  BY <1>1, <1>2, <1>3, <1>4, <1>5, <1>6, <1>7 DEF Next

LEMMA TablesKept ==
    ASSUME NumbersAssumption, Typed, [Next]_vars PROVE TablesTyped'
<1>1. ASSUME NEW h \in Handlers, InsertDecision(h) PROVE TablesTyped'
  <2>1. req[h].o \in Opps
    BY <1>1, InTypes DEF InsertDecision
  <2> QED  BY <1>1, <2>1 DEF InsertDecision, Typed, TablesTyped
<1>2. ASSUME NEW h \in Handlers, MarkPreviewed(h) \/ Mark(h) PROVE TablesTyped'
  BY <1>2 DEF MarkPreviewed, Mark, Typed, TablesTyped, Statuses
<1>3. ASSUME NEW h \in Handlers, Store(h) PROVE TablesTyped'
  <2>1. req[h].o \in Opps /\ req[h].answer \in Answers \union {NoAnswer}
    BY <1>3, InTypes DEF Store
  <2> QED  BY <1>3, <2>1 DEF Store, Typed, TablesTyped
<1>4. CASE ExpirePass
  BY <1>4 DEF ExpirePass, Typed, TablesTyped, Statuses
<1>5. ASSUME NEW o \in Opps, Pass(o) PROVE TablesTyped'
  BY <1>5 DEF Pass, db, Typed, TablesTyped
<1>6. ASSUME opp' = opp /\ late' = late /\ decided' = decided /\ rows' = rows PROVE TablesTyped'
  BY <1>6 DEF Typed, TablesTyped
<1>7. ASSUME NEW h \in Handlers, HandlerStep(h) PROVE TablesTyped'
  BY <1>1, <1>2, <1>3, <1>6, <1>7
     DEF HandlerStep, ReadDecision, Check, GetKey, GetCircuit, Preflight, Count, Trip, Keep, db
<1> QED
  BY <1>4, <1>5, <1>6, <1>7
     DEF Next, Preview, Execute, GiveUp, CallFails, Crash, Reenable, vars, db

LEMMA RedisKept ==
    ASSUME NumbersAssumption, Typed, [Next]_vars PROVE RedisTyped'
<1>1. ASSUME NEW h \in Handlers, Count(h) PROVE RedisTyped'
  BY <1>1 DEF Count, Typed, RedisTyped
<1>2. ASSUME NEW h \in Handlers, Trip(h) PROVE RedisTyped'
  BY <1>2 DEF Trip, Typed, RedisTyped
<1>3. ASSUME NEW h \in Handlers, Keep(h) PROVE RedisTyped'
  <2>1. call[h].o \in Opps /\ call[h].answer \in Answers \union {NoAnswer}
    BY <1>3, InTypes DEF Keep
  <2>2. keys' = [keys EXCEPT ![call[h].o] = call[h].answer] /\ fails' = fails /\ open' = open
    BY <1>3 DEF Keep
  <2> QED  BY <2>1, <2>2 DEF Typed, RedisTyped
<1>4. CASE Reenable
  BY <1>4 DEF Reenable, Typed, RedisTyped
<1>5. ASSUME keys' = keys /\ fails' = fails /\ open' = open PROVE RedisTyped'
  BY <1>5 DEF Typed, RedisTyped
<1>6. ASSUME NEW h \in Handlers, HandlerStep(h) PROVE RedisTyped'
  BY <1>1, <1>2, <1>3, <1>5, <1>6
     DEF HandlerStep, InsertDecision, MarkPreviewed, ReadDecision, Check, Store, Mark, GetKey, GetCircuit,
         Preflight, redis
<1> QED
  BY <1>4, <1>5, <1>6
     DEF Next, Preview, Execute, GiveUp, CallFails, Crash, Pass, ExpirePass, vars, redis

LEMMA HistoryKept ==
    ASSUME NumbersAssumption, Typed, [Next]_vars PROVE HistoryTyped'
<1>1. ASSUME NEW h \in Handlers, Count(h) PROVE HistoryTyped'
  BY <1>1 DEF Count, Typed, HistoryTyped
<1>2. ASSUME NEW h \in Handlers, Check(h) PROVE HistoryTyped'
  <2>1. orders' = orders /\ errors' = errors /\ torn' = torn
    BY <1>2 DEF Check
  <2>2. overlaps' \in [Opps -> Nat]
    BY <1>2 DEF Check, Typed, HistoryTyped
  <2> QED  BY <2>1, <2>2 DEF Typed, HistoryTyped
<1>3. ASSUME NEW h \in Handlers, Keep(h) PROVE HistoryTyped'
  <2>1. call[h].o \in Opps /\ call[h].answer \in Answers \union {NoAnswer}
    BY <1>3, InTypes DEF Keep
  <2>2. {call[h].answer.order} \ {0} \subseteq 1..MaxOrders
    BY <2>1 DEF Answers, NoAnswer, NumbersAssumption
  <2>3. /\ orders' = [orders EXCEPT ![call[h].o] = @ \union ({call[h].answer.order} \ {0})]
        /\ overlaps' = overlaps /\ errors' = errors /\ torn' = torn
    BY <1>3 DEF Keep
  <2> QED  BY <2>1, <2>2, <2>3 DEF Typed, HistoryTyped
<1>4. CASE Reenable
  BY <1>4 DEF Reenable, Typed, HistoryTyped
<1>5. ASSUME NEW h \in Handlers, CallFails(h) PROVE HistoryTyped'
  BY <1>5 DEF CallFails, Typed, HistoryTyped
<1>6. ASSUME orders' = orders /\ overlaps' = overlaps /\ errors' = errors /\ torn' = torn
      PROVE  HistoryTyped'
  BY <1>6 DEF Typed, HistoryTyped
<1>7. ASSUME NEW h \in Handlers, HandlerStep(h) PROVE HistoryTyped'
  BY <1>1, <1>2, <1>3, <1>6, <1>7
     DEF HandlerStep, InsertDecision, MarkPreviewed, ReadDecision, Store, Mark, GetKey, GetCircuit,
         Preflight, Trip, hist
<1> QED
  BY <1>4, <1>5, <1>6, <1>7
     DEF Next, Preview, Execute, GiveUp, Crash, Pass, ExpirePass, vars, hist

LEMMA CountersKept ==
    ASSUME NumbersAssumption, Typed, [Next]_vars PROVE CountersTyped'
<1>1. ASSUME NEW h \in Handlers, Check(h) PROVE CountersTyped'
  BY <1>1 DEF Check, Typed, CountersTyped, NumbersAssumption
<1>2. ASSUME NEW h \in Handlers, Preflight(h) PROVE CountersTyped'
  BY <1>2 DEF Preflight, Typed, CountersTyped, NumbersAssumption
<1>3. ASSUME Fault, made' = made PROVE CountersTyped'
  BY <1>3 DEF Fault, Typed, CountersTyped, NumbersAssumption
<1>4. ASSUME made' = made, faults' = faults PROVE CountersTyped'
  BY <1>4 DEF Typed, CountersTyped
<1>5. ASSUME NEW h \in Handlers, HandlerStep(h) PROVE CountersTyped'
  BY <1>1, <1>2, <1>4, <1>5
     DEF HandlerStep, InsertDecision, MarkPreviewed, ReadDecision, Store, Mark, GetKey, GetCircuit,
         Count, Trip, Keep
<1> QED
  BY <1>3, <1>4, <1>5
     DEF Next, Preview, Execute, GiveUp, CallFails, Crash, Pass, ExpirePass, Reenable, vars

LEMMA TypedInvariant == Spec => []Typed
<1>1. Init => Typed
  BY InitTyped, NumbersAssumption
<1>2. Typed /\ [Next]_vars => Typed'
  BY ProcessesTyped, TablesKept, RedisKept, HistoryKept, CountersKept, NumbersAssumption DEF Typed
<1> QED  BY <1>1, <1>2, PTL DEF Spec

\* Every variable has its type, and a handler or a call at work is about a
\* decision that exists, except while a preview makes it.
THEOREM PathTyped == Spec => []TypeOK
<1>1. Typed => TypeOK
  BY DEF Typed, TablesTyped, RedisTyped, RequestsTyped, CallsTyped, HistoryTyped, CountersTyped, TypeOK
<1> QED  BY <1>1, TypedInvariant, PTL

\* An opportunity's status never goes back, and an executed one stays so.
THEOREM StatusOnlyForward == Spec => StatusForward
<1>1. Typed /\ [Next]_vars =>
        [\A o \in Opps :
           opp'[o] # opp[o] => \/ opp[o] = "new"
                               \/ opp[o] \in {"previewed", "expired"} /\ opp'[o] = "executed"]_vars
  <2> SUFFICES ASSUME Typed, [Next]_vars, NEW o \in Opps, opp'[o] # opp[o]
               PROVE  \/ opp[o] = "new"
                      \/ opp[o] \in {"previewed", "expired"} /\ opp'[o] = "executed"
    OBVIOUS
  <2>1. opp \in [Opps -> Statuses]
    BY DEF Typed, TablesTyped
  <2>2. ASSUME NEW h \in Handlers, HandlerStep(h)
        PROVE  MarkPreviewed(h) \/ Mark(h)
    BY <2>2 DEF HandlerStep, InsertDecision, ReadDecision, Check, Store, GetKey, GetCircuit, Preflight, Count,
                Trip, Keep, db
  <2>3. ExpirePass \/ \E h \in Handlers : MarkPreviewed(h) \/ Mark(h)
    BY <2>2 DEF Next, Preview, Execute, GiveUp, CallFails, Crash, Pass, Reenable, vars, db
  <2> QED  BY <2>1, <2>3 DEF ExpirePass, MarkPreviewed, Mark, Statuses
<1> QED  BY <1>1, TypedInvariant, PTL DEF Spec, StatusForward

-----------------------------------------------------------------------------
(* What an answer says.  An answer that carries an order is one the venue   *)
(* service kept for the decision, wherever the answer is; the one a call is  *)
(* still working on carries an order or does not say it does.               *)

Kept(a, o) == a.status = "placed" => a.order \in orders[o]

RecordInv ==
    /\ \A o \in Opps : Kept(rows[o], o) /\ Kept(keys[o], o)
    /\ \A o \in Opps : opp[o] = "executed" => rows[o].status = "placed"
    /\ \A h \in Handlers :
         /\ req[h].at = "store" => Kept(req[h].answer, req[h].o)
         /\ req[h].at = "mark" => rows[req[h].o].status = "placed"
         /\ req[h].at = "wait" => call[h].at # "idle" /\ call[h].o = req[h].o
         /\ call[h].at \in {"count", "trip", "keep"} =>
              (call[h].answer.status = "placed" => call[h].answer.order # 0)

\* The part about one handler.
HandlerRecord(h) ==
    /\ req[h].at = "store" => Kept(req[h].answer, req[h].o)
    /\ req[h].at = "mark" => rows[req[h].o].status = "placed"
    /\ req[h].at = "wait" => call[h].at # "idle" /\ call[h].o = req[h].o
    /\ call[h].at \in {"count", "trip", "keep"} =>
         (call[h].answer.status = "placed" => call[h].answer.order # 0)
TablesRecord ==
    /\ \A o \in Opps : Kept(rows[o], o) /\ Kept(keys[o], o)
    /\ \A o \in Opps : opp[o] = "executed" => rows[o].status = "placed"

\* A step about h leaves what is said of the others, as rows and orders only grow.
LEMMA OthersRecord ==
    ASSUME Typed, RecordInv, NEW h \in Handlers, NEW g \in Handlers, g # h,
           req'[g] = req[g], call'[g] = call[g],
           \A o \in Opps : orders[o] \subseteq orders'[o],
           \A o \in Opps : rows[o].status = "placed" => rows'[o].status = "placed"
    PROVE  HandlerRecord(g)'
<1>1. req[g].at # "idle" => req[g].o \in Opps
  BY InTypes
<1> QED  BY <1>1 DEF RecordInv, HandlerRecord, Kept

LEMMA Assemble ==
    ASSUME TablesRecord', \A h \in Handlers : HandlerRecord(h)' PROVE RecordInv'
BY DEF TablesRecord, HandlerRecord, RecordInv

\* A handler's own request and call after it moved.
LEMMA GoneTo ==
    ASSUME Typed, NEW h \in Handlers, NEW p, NEW o, NEW a, Go(h, p, o, a)
    PROVE  /\ req'[h].at = p /\ req'[h].o = o /\ req'[h].answer = a
           /\ \A g \in Handlers \ {h} : req'[g] = req[g]
BY AtFields DEF Go, Typed, RequestsTyped

LEMMA Ended ==
    ASSUME Typed, NEW h \in Handlers, End(h)
    PROVE  req'[h].at = "idle" /\ \A g \in Handlers \ {h} : req'[g] = req[g]
BY AtFields DEF End, Typed, RequestsTyped

LEMMA DidTo ==
    ASSUME Typed, NEW h \in Handlers, NEW p, NEW a, Doing(h, p, a)
    PROVE  /\ call'[h].at = p /\ call'[h].o = call[h].o /\ call'[h].answer = a
           /\ \A g \in Handlers \ {h} : call'[g] = call[g]
BY AtFields DEF Doing, Typed, CallsTyped

LEMMA Answered ==
    ASSUME Typed, NEW h \in Handlers, NEW a, Answer(h, a)
    PROVE  /\ call'[h].at = "idle"
           /\ \A g \in Handlers \ {h} : call'[g] = call[g] /\ req'[g] = req[g]
           /\ req[h].at = "wait" => /\ req'[h].at = "store" /\ req'[h].o = req[h].o
                                    /\ req'[h].answer = a
           /\ req[h].at # "wait" => req'[h] = req[h]
<1>1. call'[h].at = "idle" /\ \A g \in Handlers \ {h} : call'[g] = call[g]
  BY AtFields DEF Answer, Typed, CallsTyped
<1>2. CASE req[h].at = "wait"
  BY <1>1, <1>2, GoneTo DEF Answer
<1>3. CASE req[h].at # "wait"
  BY <1>1, <1>3 DEF Answer
<1> QED  BY <1>2, <1>3

\* An answer reaches its handler.
LEMMA AnswerRecord ==
    ASSUME Typed, RecordInv, NEW h \in Handlers, NEW a, Answer(h, a),
           rows' = rows, \A o \in Opps : orders[o] \subseteq orders'[o],
           req[h].at = "wait" => (a.status = "placed" => a.order \in orders'[call[h].o])
    PROVE  \A g \in Handlers : HandlerRecord(g)'
<1>1. \A g \in Handlers \ {h} : HandlerRecord(g)'
  BY Answered, OthersRecord
<1>2. HandlerRecord(h)'
  <2>1. CASE req[h].at = "wait"
    BY <2>1, Answered DEF RecordInv, HandlerRecord, Kept
  <2>2. CASE req[h].at # "wait"
    <3>1. req'[h] = req[h] /\ call'[h].at = "idle"
      BY <2>2, Answered
    <3>2. req[h].at # "idle" => req[h].o \in Opps
      BY InTypes
    <3> QED  BY <2>2, <3>1, <3>2 DEF RecordInv, HandlerRecord, Kept
  <2> QED  BY <2>1, <2>2
<1> QED  BY <1>1, <1>2

\* A step that writes none of the tables, keys and orders.
LEMMA TablesAlone ==
    ASSUME RecordInv, opp' = opp, rows' = rows, keys' = keys, orders' = orders
    PROVE  TablesRecord'
BY DEF RecordInv, TablesRecord, Kept

LEMMA StepRecord ==
    ASSUME NumbersAssumption, Typed, RecordInv, NEW h \in Handlers, HandlerStep(h)
    PROVE  RecordInv'
<1>0. /\ \A g \in Handlers : HandlerRecord(g) /\ TablesRecord
      /\ req[h].at # "idle" => req[h].o \in Opps
      /\ call[h].at # "idle" => call[h].o \in Opps
  BY InTypes DEF RecordInv, HandlerRecord, TablesRecord
<1>1. CASE InsertDecision(h)
  <2>1. /\ opp' = opp /\ rows' = rows /\ keys' = keys /\ orders' = orders /\ call' = call
        /\ Go(h, "update", req[h].o, NoAnswer)
    BY <1>1 DEF InsertDecision, redis, hist
  <2>2. TablesRecord'
    BY <2>1, TablesAlone
  <2>3. HandlerRecord(h)'
    BY <1>0, <2>1, GoneTo DEF HandlerRecord
  <2> QED  BY <2>1, <2>2, <2>3, GoneTo, OthersRecord, Assemble
<1>2. CASE MarkPreviewed(h)
  <2>1. /\ rows' = rows /\ keys' = keys /\ orders' = orders /\ call' = call /\ End(h)
        /\ \A o \in Opps : opp'[o] = "executed" => opp[o] = "executed"
    BY <1>2 DEF MarkPreviewed, redis, hist, Typed, TablesTyped
  <2>2. TablesRecord'
    BY <1>0, <2>1 DEF TablesRecord, Kept
  <2>3. HandlerRecord(h)'
    BY <1>0, <2>1, Ended DEF HandlerRecord
  <2> QED  BY <2>1, <2>2, <2>3, Ended, OthersRecord, Assemble
<1>3. CASE Check(h)
  <2>1. /\ opp' = opp /\ rows' = rows /\ keys' = keys /\ orders' = orders /\ req[h].at = "check"
    BY <1>3 DEF Check, redis, db
  <2>2. TablesRecord'
    BY <2>1, TablesAlone
  <2>3. CASE End(h) /\ call' = call
    <3>1. HandlerRecord(h)'
      BY <1>0, <2>3, Ended DEF HandlerRecord
    <3> QED  BY <2>1, <2>2, <2>3, <3>1, Ended, OthersRecord, Assemble
  <2>4. CASE Go(h, "wait", req[h].o, NoAnswer) /\ call' = [call EXCEPT ![h] = At("get", req[h].o, NoAnswer)]
    <3>1. /\ call'[h].at = "get" /\ call'[h].o = req[h].o
          /\ \A g \in Handlers \ {h} : call'[g] = call[g]
      BY <2>4, AtFields DEF Typed, CallsTyped
    <3>2. HandlerRecord(h)'
      BY <2>4, <3>1, GoneTo DEF HandlerRecord
    <3> QED  BY <2>1, <2>2, <2>4, <3>1, <3>2, GoneTo, OthersRecord, Assemble
  <2> QED  BY <1>3, <2>3, <2>4 DEF Check
<1>4. CASE Store(h)
  <2>1. /\ opp' = opp /\ keys' = keys /\ orders' = orders /\ call' = call /\ req[h].at = "store"
        /\ rows' = [rows EXCEPT ![req[h].o] = IF @ = NoAnswer THEN req[h].answer ELSE @]
    BY <1>4 DEF Store, redis, hist
  <2>2. NoAnswer.status = "none"
    BY DEF NoAnswer
  <2>3. rows \in [Opps -> Answers \union {NoAnswer}] /\ req[h].o \in Opps
    BY <1>0, <2>1 DEF Typed, TablesTyped
  <2>4. \A o \in Opps : rows[o].status = "placed" => rows'[o].status = "placed"
    BY <2>1, <2>2, <2>3
  <2>5. TablesRecord'
    BY <1>0, <2>1, <2>3, <2>4 DEF TablesRecord, HandlerRecord, Kept
  <2>6. CASE End(h)
    <3>1. HandlerRecord(h)'
      BY <1>0, <2>1, <2>6, Ended DEF HandlerRecord
    <3> QED  BY <2>1, <2>4, <2>5, <2>6, <3>1, Ended, OthersRecord, Assemble
  <2>7. CASE Go(h, "mark", req[h].o, NoAnswer) /\ rows[req[h].o] = NoAnswer /\ req[h].answer.status = "placed"
    <3>1. rows'[req[h].o].status = "placed"
      BY <2>1, <2>3, <2>7
    <3>2. HandlerRecord(h)'
      BY <1>0, <2>1, <2>7, <3>1, GoneTo DEF HandlerRecord
    <3> QED  BY <2>1, <2>4, <2>5, <2>7, <3>2, GoneTo, OthersRecord, Assemble
  <2> QED  BY <1>4, <2>6, <2>7 DEF Store
<1>5. CASE Mark(h)
  <2>1. /\ rows' = rows /\ keys' = keys /\ orders' = orders /\ call' = call /\ End(h)
        /\ req[h].at = "mark" /\ opp' = [opp EXCEPT ![req[h].o] = "executed"]
    BY <1>5 DEF Mark, redis, hist
  <2>2. TablesRecord'
    BY <1>0, <2>1 DEF TablesRecord, HandlerRecord, Kept, Typed, TablesTyped
  <2>3. HandlerRecord(h)'
    BY <1>0, <2>1, Ended DEF HandlerRecord
  <2> QED  BY <2>1, <2>2, <2>3, Ended, OthersRecord, Assemble
<1>6. CASE GetKey(h)
  <2>1. opp' = opp /\ rows' = rows /\ keys' = keys /\ orders' = orders /\ call[h].at = "get"
    BY <1>6 DEF GetKey, redis, db, hist
  <2>2. TablesRecord'
    BY <2>1, TablesAlone
  <2>3. CASE Answer(h, keys[call[h].o])
    <3>1. keys[call[h].o].status = "placed" => keys[call[h].o].order \in orders[call[h].o]
      BY <1>0, <2>1 DEF TablesRecord, Kept
    <3> QED  BY <2>1, <2>2, <2>3, <3>1, AnswerRecord, Assemble
  <2>4. CASE Doing(h, "circuit", NoAnswer) /\ req' = req
    <3>1. HandlerRecord(h)'
      BY <1>0, <2>1, <2>4, DidTo DEF HandlerRecord, Kept
    <3> QED  BY <2>1, <2>2, <2>4, <3>1, DidTo, OthersRecord, Assemble
  <2> QED  BY <1>6, <2>3, <2>4 DEF GetKey
<1>7. CASE GetCircuit(h)
  <2>1. opp' = opp /\ rows' = rows /\ keys' = keys /\ orders' = orders /\ call[h].at = "circuit"
    BY <1>7 DEF GetCircuit, redis, db, hist
  <2>2. TablesRecord'
    BY <2>1, TablesAlone
  <2>3. CASE Answer(h, Error)
    <3>1. Error.status = "error"
      BY DEF Error
    <3> QED  BY <2>1, <2>2, <2>3, <3>1, AnswerRecord, Assemble
  <2>4. CASE Doing(h, "preflight", NoAnswer) /\ req' = req
    <3>1. HandlerRecord(h)'
      BY <1>0, <2>1, <2>4, DidTo DEF HandlerRecord, Kept
    <3> QED  BY <2>1, <2>2, <2>4, <3>1, DidTo, OthersRecord, Assemble
  <2> QED  BY <1>7, <2>3, <2>4 DEF GetCircuit
<1>8. CASE Preflight(h)
  <2>1. /\ opp' = opp /\ rows' = rows /\ keys' = keys /\ orders' = orders /\ req' = req
        /\ call[h].at = "preflight"
    BY <1>8 DEF Preflight, redis, db, hist
  <2>2. TablesRecord'
    BY <2>1, TablesAlone
  <2>3. PICK a : Doing(h, "count", a) /\ (a.status = "placed" => a.order # 0)
    <3>1. made.orders \in Nat
      BY DEF Typed, CountersTyped
    <3>2. CASE Doing(h, "count", [status |-> "placed", order |-> made.orders + 1])
      <4>1. [status |-> "placed", order |-> made.orders + 1].order # 0
        BY <3>1
      <4> QED  BY <3>2, <4>1
    <3>3. CASE \E st \in {"rejected", "error"} : Doing(h, "count", [status |-> st, order |-> 0])
      BY <3>3
    <3> QED  BY <1>8, <3>2, <3>3 DEF Preflight
  <2>4. HandlerRecord(h)'
    BY <1>0, <2>1, <2>3, DidTo DEF HandlerRecord, Kept
  <2> QED  BY <2>1, <2>2, <2>3, <2>4, DidTo, OthersRecord, Assemble
<1>9. CASE Count(h) \/ Trip(h)
  <2>1. /\ opp' = opp /\ rows' = rows /\ keys' = keys /\ orders' = orders /\ req' = req
        /\ call[h].at \in {"count", "trip"}
        /\ Doing(h, "trip", call[h].answer) \/ Doing(h, "keep", call[h].answer)
    BY <1>9 DEF Count, Trip, db, hist
  <2>2. TablesRecord'
    BY <2>1, TablesAlone
  <2>3. HandlerRecord(h)'
    BY <1>0, <2>1, DidTo DEF HandlerRecord, Kept
  <2> QED  BY <2>1, <2>2, <2>3, DidTo, OthersRecord, Assemble
<1>10. CASE Keep(h)
  <2> DEFINE o == call[h].o
             a == call[h].answer
  <2>1. /\ opp' = opp /\ rows' = rows /\ call[h].at = "keep" /\ Answer(h, a)
        /\ keys' = [keys EXCEPT ![o] = a]
        /\ orders' = [orders EXCEPT ![o] = @ \union ({a.order} \ {0})]
    BY <1>10 DEF Keep, db
  <2>2. o \in Opps /\ keys \in [Opps -> Answers \union {NoAnswer}] /\ orders \in [Opps -> SUBSET (1..MaxOrders)]
    BY <1>0, <2>1 DEF Typed, RedisTyped, HistoryTyped
  <2>3. a.status = "placed" => a.order # 0
    BY <1>0, <2>1 DEF HandlerRecord
  <2> HIDE DEF o, a
  <2>4. \A p \in Opps : orders[p] \subseteq orders'[p]
    BY <2>1, <2>2
  <2>5. a.status = "placed" => a.order \in orders'[o]
    BY <2>1, <2>2, <2>3
  <2>6. \A p \in Opps : keys'[p] = IF p = o THEN a ELSE keys[p]
    BY <2>1, <2>2
  <2>7. TablesRecord'
    BY <1>0, <2>1, <2>4, <2>5, <2>6 DEF TablesRecord, Kept
  <2>8. \A g \in Handlers : HandlerRecord(g)'
    BY <2>1, <2>4, <2>5, AnswerRecord DEF o
  <2> QED  BY <2>7, <2>8, Assemble
<1>11. CASE ReadDecision(h)
  <2>1. /\ opp' = opp /\ rows' = rows /\ keys' = keys /\ orders' = orders /\ call' = call
        /\ req[h].at = "read"
        /\ Go(h, "check", req[h].o, NoAnswer) \/ End(h)
    BY <1>11 DEF ReadDecision, redis, hist, db
  <2>2. TablesRecord'
    BY <2>1, TablesAlone
  <2>3. CASE End(h)
    <3>1. HandlerRecord(h)'
      BY <1>0, <2>1, <2>3, Ended DEF HandlerRecord
    <3> QED  BY <2>1, <2>2, <2>3, <3>1, Ended, OthersRecord, Assemble
  <2>4. CASE Go(h, "check", req[h].o, NoAnswer)
    <3>1. HandlerRecord(h)'
      BY <1>0, <2>1, <2>4, GoneTo DEF HandlerRecord
    <3> QED  BY <2>1, <2>2, <2>4, <3>1, GoneTo, OthersRecord, Assemble
  <2> QED  BY <2>1, <2>3, <2>4
<1> QED
  BY <1>1, <1>2, <1>3, <1>4, <1>5, <1>6, <1>7, <1>8, <1>9, <1>10, <1>11 DEF HandlerStep

LEMMA RecordNext ==
    ASSUME NumbersAssumption, Typed, RecordInv, [Next]_vars PROVE RecordInv'
<1>0. \A g \in Handlers : HandlerRecord(g) /\ TablesRecord
  BY DEF RecordInv, HandlerRecord, TablesRecord
<1>1. ASSUME NEW h \in Handlers, NEW o \in Opps, Preview(h, o) \/ Execute(h, o) PROVE RecordInv'
  <2>1. /\ opp' = opp /\ rows' = rows /\ keys' = keys /\ orders' = orders /\ call' = call
        /\ Go(h, "insert", o, NoAnswer) \/ Go(h, "read", o, NoAnswer)
        /\ call[h] = Idle
    BY <1>1 DEF Preview, Execute, Free, redis, hist, db
  <2>2. TablesRecord'
    BY <2>1, TablesAlone
  <2>3. HandlerRecord(h)'
    BY <2>1, GoneTo, AtFields DEF HandlerRecord
  <2> QED  BY <2>1, <2>2, <2>3, GoneTo, OthersRecord, Assemble
<1>2. ASSUME NEW h \in Handlers, HandlerStep(h) PROVE RecordInv'
  BY <1>2, StepRecord
<1>3. ASSUME NEW h \in Handlers, GiveUp(h) PROVE RecordInv'
  <2>1. /\ opp' = opp /\ rows' = rows /\ keys' = keys /\ orders' = orders /\ call' = call
        /\ Go(h, "store", req[h].o, Error) /\ Error.status = "error"
    BY <1>3 DEF GiveUp, redis, hist, db, Error
  <2>2. TablesRecord'
    BY <2>1, TablesAlone
  <2>3. HandlerRecord(h)'
    BY <1>0, <2>1, GoneTo DEF HandlerRecord, Kept
  <2> QED  BY <2>1, <2>2, <2>3, GoneTo, OthersRecord, Assemble
<1>4. ASSUME NEW h \in Handlers, CallFails(h) PROVE RecordInv'
  <2>1. /\ opp' = opp /\ rows' = rows /\ keys' = keys /\ orders' = orders
        /\ Answer(h, Error) /\ Error.status = "error"
    BY <1>4 DEF CallFails, redis, db, Error
  <2> QED  BY <2>1, TablesAlone, AnswerRecord, Assemble
<1>5. CASE Crash
  <2>1. /\ opp' = opp /\ rows' = rows /\ keys' = keys /\ orders' = orders /\ call' = call
        /\ \A h \in Handlers : req'[h].at = "idle"
    BY <1>5, AtFields DEF Crash, redis, db, hist
  <2>2. \A h \in Handlers : HandlerRecord(h)'
    BY <1>0, <2>1 DEF HandlerRecord
  <2> QED  BY <2>1, <2>2, TablesAlone, Assemble
<1>6. CASE ExpirePass
  <2>1. /\ rows' = rows /\ keys' = keys /\ orders' = orders /\ call' = call /\ req' = req
        /\ \A o \in Opps : opp'[o] = "executed" => opp[o] = "executed"
    BY <1>6 DEF ExpirePass, redis, hist
  <2>2. TablesRecord' /\ \A h \in Handlers : HandlerRecord(h)'
    <3>1. TablesRecord'
      <4>1. CASE Handlers = {}
        BY <2>1 DEF RecordInv, TablesRecord, Kept
      <4> QED  BY <2>1, <4>1 DEF RecordInv, TablesRecord, Kept
    <3>2. \A h \in Handlers : HandlerRecord(h)'
      BY <1>0, <2>1, InTypes DEF HandlerRecord, Kept
    <3> QED  BY <3>1, <3>2
  <2> QED  BY <2>2, Assemble
<1>7. CASE (\E o \in Opps : Pass(o)) \/ Reenable \/ UNCHANGED vars
  <2>1. /\ opp' = opp /\ rows' = rows /\ keys' = keys /\ orders' = orders /\ call' = call
        /\ req' = req
    BY <1>7 DEF Pass, Reenable, vars, redis, db, hist
  <2>2. \A h \in Handlers : HandlerRecord(h)'
    BY <1>0, <2>1, InTypes DEF HandlerRecord, Kept
  <2> QED  BY <2>1, <2>2, TablesAlone, Assemble
<1> QED  BY <1>1, <1>2, <1>3, <1>4, <1>5, <1>6, <1>7 DEF Next

\* An opportunity marked executed has a stored order, and an order that is
\* stored is one the venue service kept for that decision.
THEOREM RecordIsTheVenues == Spec => []RecordIsVenues
<1>1. Init => RecordInv
  <2>1. Init => /\ \A h \in Handlers : req[h].at = "idle" /\ call[h].at = "idle"
                /\ \A o \in Opps : rows[o].status = "none" /\ keys[o].status = "none" /\ opp[o] = "new"
    BY AtFields DEF Init, NoAnswer
  <2> QED  BY <2>1 DEF RecordInv, Kept
<1>2. Typed /\ RecordInv /\ [Next]_vars => RecordInv'
  BY RecordNext, NumbersAssumption
<1>3. RecordInv => RecordIsVenues
  BY DEF RecordInv, RecordIsVenues, Kept
<1> QED  BY <1>1, <1>2, <1>3, TypedInvariant, PTL DEF Spec

-----------------------------------------------------------------------------
(* Orders of one decision.  Each order the venue service may still keep is  *)
(* that of a call past its look at the key, or before it while there is no  *)
(* key; a call is counted as overlapping when another one is under way.     *)

Live(o) == {h \in Handlers : /\ call[h].at # "idle" /\ call[h].o = o
                             /\ call[h].at = "get" => keys[o] = NoAnswer}

OrdersInv ==
    \A o \in Opps :
        /\ keys[o] = NoAnswer => orders[o] = {}
        /\ Cardinality(orders[o]) + Cardinality(Live(o)) <= overlaps[o] + 1

LEMMA Finite ==
    ASSUME NumbersAssumption, Typed, NEW o \in Opps
    PROVE  /\ IsFiniteSet(orders[o]) /\ Cardinality(orders[o]) \in Nat
           /\ IsFiniteSet(Live(o)) /\ Cardinality(Live(o)) \in Nat
           /\ overlaps[o] \in Nat
<1>1. orders[o] \subseteq 1..MaxOrders /\ overlaps[o] \in Nat
  BY DEF Typed, HistoryTyped
<1>2. IsFiniteSet(1..MaxOrders)
  BY FS_Interval DEF NumbersAssumption
<1>3. Live(o) \subseteq Handlers /\ IsFiniteSet(Handlers)
  BY DEF Live, NumbersAssumption
<1> QED  BY <1>1, <1>2, <1>3, FS_Subset, FS_CardinalityType

\* Calls that move on, end or meet a key do not add to what may be kept.
LEMMA OrdersShrink ==
    ASSUME NumbersAssumption, Typed, OrdersInv, keys' = keys, orders' = orders,
           overlaps' = overlaps,
           \A g \in Handlers :
              \/ call'[g] = call[g] \/ call'[g].at = "idle"
              \/ /\ call'[g].o = call[g].o /\ call[g].at # "idle"
                 /\ call[g].at = "get" => keys[call[g].o] = NoAnswer
    PROVE  OrdersInv'
<1> SUFFICES ASSUME NEW o \in Opps
    PROVE /\ keys'[o] = NoAnswer => orders'[o] = {}
          /\ Cardinality(orders'[o]) + Cardinality(Live(o)') <= overlaps'[o] + 1
  BY DEF OrdersInv
<1>1. Live(o)' \subseteq Live(o)
  BY DEF Live
<1>2. Cardinality(Live(o)') <= Cardinality(Live(o)) /\ Cardinality(Live(o)') \in Nat
  BY <1>1, Finite, FS_Subset, FS_CardinalityType
<1> QED  BY <1>2, Finite DEF OrdersInv

\* A new call counts as live only when there is no key; then no order is kept,
\* and the calls beside it are counted.
LEMMA OrdersCheck ==
    ASSUME NumbersAssumption, Typed, OrdersInv, NEW h \in Handlers, Check(h),
           call[h].at = "idle"
    PROVE  OrdersInv'
<1>1. keys' = keys /\ orders' = orders /\ req[h].o \in Opps
  BY InTypes DEF Check, redis
<1>2. CASE call' = call /\ overlaps' = overlaps
  BY <1>1, <1>2, OrdersShrink
<1>3. CASE /\ call' = [call EXCEPT ![h] = At("get", req[h].o, NoAnswer)]
           /\ overlaps' = [overlaps EXCEPT ![req[h].o] =
                             IF \E g \in Handlers : call[g].o = req[h].o THEN @ + 1 ELSE @]
  <2>1. /\ call'[h].at = "get" /\ call'[h].o = req[h].o
        /\ \A g \in Handlers \ {h} : call'[g] = call[g]
    BY <1>3, AtFields DEF Typed, CallsTyped
  <2> SUFFICES ASSUME NEW o \in Opps
      PROVE /\ keys'[o] = NoAnswer => orders'[o] = {}
            /\ Cardinality(orders'[o]) + Cardinality(Live(o)') <= overlaps'[o] + 1
    BY DEF OrdersInv
  <2>2. keys'[o] = NoAnswer => orders'[o] = {}
    BY <1>1 DEF OrdersInv
  <2>3. CASE o # req[h].o \/ keys[o] # NoAnswer
    <3>1. Live(o)' \subseteq Live(o)
      BY <1>1, <2>1, <2>3 DEF Live
    <3>2. Cardinality(Live(o)') <= Cardinality(Live(o)) /\ Cardinality(Live(o)') \in Nat
      BY <3>1, Finite, FS_Subset, FS_CardinalityType
    <3>3. overlaps[o] \in Nat /\ overlaps'[o] \in Nat /\ overlaps'[o] >= overlaps[o]
      BY <1>1, <1>3, Finite DEF Typed, HistoryTyped
    <3> QED  BY <1>1, <2>2, <3>2, <3>3, Finite DEF OrdersInv
  <2>4. CASE o = req[h].o /\ keys[o] = NoAnswer
    <3>1. Live(o)' = Live(o) \union {h} /\ h \notin Live(o)
      BY <1>1, <2>1, <2>4 DEF Live
    <3>2. Cardinality(Live(o)') = Cardinality(Live(o)) + 1
      BY <3>1, Finite, FS_AddElement
    <3>3. orders[o] = {} /\ Cardinality(orders[o]) = 0
      BY <2>4, FS_EmptySet DEF OrdersInv
    <3>4. CASE \E g \in Handlers : call[g].o = o
      <4>1. overlaps'[o] = overlaps[o] + 1
        BY <1>3, <2>4, <3>4 DEF Typed, HistoryTyped
      <4> QED  BY <1>1, <2>2, <3>2, <4>1, Finite DEF OrdersInv
    <3>5. CASE ~ \E g \in Handlers : call[g].o = o
      <4>1. Live(o) = {} /\ Cardinality(Live(o)) = 0
        BY <3>5, FS_EmptySet DEF Live
      <4>2. overlaps'[o] \in Nat
        BY <1>3, <2>4, <3>5, Finite DEF Typed, HistoryTyped
      <4> QED  BY <1>1, <2>2, <3>2, <3>3, <4>1, <4>2
    <3> QED  BY <3>4, <3>5
  <2> QED  BY <2>3, <2>4
<1> QED  BY <1>2, <1>3 DEF Check

\* A handler that has not called yet has no call under way, and what a call
\* counts and keeps is an answer.
CallsInv ==
    \A h \in Handlers :
        /\ req[h].at \in {"insert", "update", "read", "check"} => call[h].at = "idle"
        /\ call[h].at \in {"count", "trip", "keep"} => call[h].answer \in Answers

LEMMA CallsNext ==
    ASSUME NumbersAssumption, Typed, CallsInv, [Next]_vars PROVE CallsInv'
<1> DEFINE One(h) == /\ req[h].at \in {"insert", "update", "read", "check"} => call[h].at = "idle"
                     /\ call[h].at \in {"count", "trip", "keep"} => call[h].answer \in Answers
<1>0. \A h \in Handlers : One(h)
  BY DEF CallsInv
<1>1. ASSUME NEW h \in Handlers, One(h)', \A g \in Handlers \ {h} : req'[g] = req[g] /\ call'[g] = call[g]
      PROVE  CallsInv'
  BY <1>0, <1>1 DEF CallsInv
<1>2. ASSUME NEW h \in Handlers, NEW o \in Opps, Preview(h, o) \/ Execute(h, o) PROVE CallsInv'
  <2>1. /\ call' = call /\ call[h] = Idle
        /\ Go(h, "insert", o, NoAnswer) \/ Go(h, "read", o, NoAnswer)
    BY <1>2 DEF Preview, Execute, Free
  <2> QED  BY <1>1, <2>1, GoneTo, AtFields
<1>3. ASSUME NEW h \in Handlers, InsertDecision(h) PROVE CallsInv'
  <2>1. call' = call /\ req[h].at = "insert" /\ Go(h, "update", req[h].o, NoAnswer)
    BY <1>3 DEF InsertDecision
  <2> QED  BY <1>0, <1>1, <2>1, GoneTo
<1>4. ASSUME NEW h \in Handlers, call' = call, End(h) PROVE CallsInv'
  BY <1>0, <1>1, <1>4, Ended
<1>5. ASSUME NEW h \in Handlers, Check(h) PROVE CallsInv'
  <2>1. CASE /\ Go(h, "wait", req[h].o, NoAnswer)
             /\ call' = [call EXCEPT ![h] = At("get", req[h].o, NoAnswer)]
    <3>1. call'[h].at = "get" /\ \A g \in Handlers \ {h} : call'[g] = call[g]
      BY <2>1, AtFields DEF Typed, CallsTyped
    <3> QED  BY <1>1, <2>1, <3>1, GoneTo
  <2> QED  BY <1>4, <1>5, <2>1 DEF Check
<1>6. ASSUME NEW h \in Handlers, Store(h) \/ GiveUp(h) PROVE CallsInv'
  <2>1. CASE call' = call /\ (Go(h, "mark", req[h].o, NoAnswer) \/ Go(h, "store", req[h].o, Error))
    BY <1>0, <1>1, <2>1, GoneTo
  <2> QED  BY <1>4, <1>6, <2>1 DEF Store, GiveUp
<1>7. ASSUME NEW h \in Handlers, NEW a, Answer(h, a) PROVE CallsInv'
  <2>1. One(h)'
    BY <1>0, <1>7, Answered
  <2> QED  BY <1>1, <1>7, <2>1, Answered
<1>8. ASSUME NEW h \in Handlers, req' = req, call[h].at # "idle",
             Doing(h, "circuit", NoAnswer) \/ Doing(h, "preflight", NoAnswer)
      PROVE  CallsInv'
  <2>1. One(h)'
    BY <1>0, <1>8, DidTo
  <2> QED  BY <1>1, <1>8, <2>1, DidTo
<1>9. ASSUME NEW h \in Handlers, req' = req, call[h].at # "idle",
             NEW p \in {"count", "trip", "keep"}, NEW a \in Answers, Doing(h, p, a)
      PROVE  CallsInv'
  <2>1. One(h)'
    BY <1>0, <1>9, DidTo
  <2> QED  BY <1>1, <1>9, <2>1, DidTo
<1>10. ASSUME NEW h \in Handlers, Preflight(h) PROVE CallsInv'
  <2>1. made \in [orders: 0..MaxOrders, calls: 0..MaxCalls] /\ MaxOrders \in Nat
    BY DEF Typed, CountersTyped, NumbersAssumption
  <2>2. made.orders < MaxOrders => [status |-> "placed", order |-> made.orders + 1] \in Answers
    BY <2>1 DEF Answers
  <2>3. \A st \in {"rejected", "error"} : [status |-> st, order |-> 0] \in Answers
    BY <2>1 DEF Answers
  <2> QED  BY <1>9, <1>10, <2>2, <2>3 DEF Preflight
<1>11. ASSUME NEW h \in Handlers, Count(h) \/ Trip(h) PROVE CallsInv'
  <2>1. call[h].answer \in Answers /\ call[h].at # "idle"
    BY <1>0, <1>11 DEF Count, Trip
  <2> QED  BY <1>9, <1>11, <2>1 DEF Count, Trip
<1>12. ASSUME NEW h \in Handlers, ReadDecision(h) PROVE CallsInv'
  <2>1. CASE call' = call /\ req[h].at = "read" /\ Go(h, "check", req[h].o, NoAnswer)
    BY <1>0, <1>1, <2>1, GoneTo
  <2> QED  BY <1>4, <1>12, <2>1 DEF ReadDecision
<1>13. ASSUME NEW h \in Handlers, HandlerStep(h) PROVE CallsInv'
  BY <1>3, <1>4, <1>5, <1>6, <1>7, <1>8, <1>10, <1>11, <1>12, <1>13
     DEF HandlerStep, MarkPreviewed, Mark, GetKey, GetCircuit, Keep
<1>14. CASE Crash
  <2>1. call' = call /\ \A h \in Handlers : req'[h].at = "idle"
    BY <1>14, AtFields DEF Crash
  <2> QED  BY <1>0, <2>1 DEF CallsInv
<1>15. CASE req' = req /\ call' = call
  BY <1>15 DEF CallsInv
<1> QED
  BY <1>2, <1>6, <1>7, <1>13, <1>14, <1>15
     DEF Next, CallFails, Pass, ExpirePass, Reenable, vars

\* An order kept is one call less that may keep one, and ends the wait for a key.
LEMMA OrdersKeep ==
    ASSUME NumbersAssumption, Typed, CallsInv, OrdersInv, NEW h \in Handlers, Keep(h)
    PROVE  OrdersInv'
<1>0. PICK p, a : p = call[h].o /\ a = call[h].answer
  OBVIOUS
<1>1. /\ call[h].at = "keep" /\ Answer(h, a) /\ overlaps' = overlaps
      /\ keys' = [keys EXCEPT ![p] = a]
      /\ orders' = [orders EXCEPT ![p] = @ \union ({a.order} \ {0})]
  BY <1>0 DEF Keep
<1>2. /\ p \in Opps /\ keys \in [Opps -> Answers \union {NoAnswer}]
      /\ orders \in [Opps -> SUBSET (1..MaxOrders)]
  BY <1>0, <1>1, InTypes DEF Typed, RedisTyped, HistoryTyped
<1>3. call'[h].at = "idle" /\ \A g \in Handlers \ {h} : call'[g] = call[g]
  BY <1>1, Answered
<1>4. a # NoAnswer
  BY <1>0, <1>1 DEF CallsInv, Answers, NoAnswer
<1> SUFFICES ASSUME NEW o \in Opps
    PROVE /\ keys'[o] = NoAnswer => orders'[o] = {}
          /\ Cardinality(orders'[o]) + Cardinality(Live(o)') <= overlaps'[o] + 1
  BY DEF OrdersInv
<1>5. CASE o # p
  <2>1. keys'[o] = keys[o] /\ orders'[o] = orders[o]
    BY <1>1, <1>2, <1>5
  <2>2. Live(o)' \subseteq Live(o)
    BY <1>3, <2>1 DEF Live
  <2>3. Cardinality(Live(o)') <= Cardinality(Live(o)) /\ Cardinality(Live(o)') \in Nat
    BY <2>2, Finite, FS_Subset, FS_CardinalityType
  <2> QED  BY <1>1, <2>1, <2>3, Finite DEF OrdersInv
<1>6. CASE o = p
  <2>1. h \in Live(o)
    BY <1>0, <1>1, <1>6 DEF Live
  <2>2. keys'[o] = a /\ orders'[o] = orders[o] \union ({a.order} \ {0})
    BY <1>1, <1>2, <1>6
  <2>3. Live(o)' \subseteq Live(o) \ {h}
    BY <1>3, <1>4, <2>2 DEF Live
  <2>4. /\ Cardinality(Live(o) \ {h}) = Cardinality(Live(o)) - 1
        /\ IsFiniteSet(Live(o) \ {h})
    BY <2>1, Finite, FS_RemoveElement
  <2>5. Cardinality(Live(o)') <= Cardinality(Live(o)) - 1 /\ Cardinality(Live(o)') \in Nat
    BY <2>3, <2>4, FS_Subset, FS_CardinalityType
  <2>6. Cardinality(orders'[o]) <= Cardinality(orders[o]) + 1 /\ Cardinality(orders'[o]) \in Nat
    <3>1. CASE a.order = 0 \/ a.order \in orders[o]
      <4>1. orders'[o] = orders[o]
        BY <2>2, <3>1
      <4> QED  BY <4>1, Finite
    <3>2. CASE a.order # 0 /\ a.order \notin orders[o]
      <4>1. orders'[o] = orders[o] \union {a.order}
        BY <2>2, <3>2
      <4>2. Cardinality(orders[o] \union {a.order}) = Cardinality(orders[o]) + 1
        BY <3>2, Finite, FS_AddElement
      <4> QED  BY <4>1, <4>2, Finite
    <3> QED  BY <3>1, <3>2
  <2> QED  BY <1>1, <1>4, <2>2, <2>5, <2>6, Finite DEF OrdersInv
<1> QED  BY <1>5, <1>6

LEMMA OrdersNext ==
    ASSUME NumbersAssumption, Typed, CallsInv, OrdersInv, [Next]_vars PROVE OrdersInv'
<1>1. ASSUME NEW h \in Handlers, Check(h) PROVE OrdersInv'
  <2>1. call[h].at = "idle"
    BY <1>1 DEF CallsInv, Check
  <2> QED  BY <1>1, <2>1, OrdersCheck
<1>2. ASSUME NEW h \in Handlers, Keep(h) PROVE OrdersInv'
  BY <1>2, OrdersKeep
<1>3. CASE call' = call /\ keys' = keys /\ orders' = orders /\ overlaps' = overlaps
  BY <1>3, OrdersShrink
<1>4. ASSUME NEW h \in Handlers, NEW a, Answer(h, a),
             keys' = keys, orders' = orders, overlaps' = overlaps
      PROVE  OrdersInv'
  BY <1>4, Answered, OrdersShrink
<1>5. ASSUME NEW h \in Handlers, NEW p, NEW a, Doing(h, p, a), call[h].at # "idle",
             call[h].at = "get" => keys[call[h].o] = NoAnswer,
             keys' = keys, orders' = orders, overlaps' = overlaps
      PROVE  OrdersInv'
  <2>1. call'[h].o = call[h].o /\ \A g \in Handlers \ {h} : call'[g] = call[g]
    BY <1>5, DidTo
  <2> QED  BY <1>5, <2>1, OrdersShrink
<1>6. ASSUME NEW h \in Handlers, GetKey(h) \/ GetCircuit(h) PROVE OrdersInv'
  <2>1. keys' = keys /\ orders' = orders /\ overlaps' = overlaps
    BY <1>6 DEF GetKey, GetCircuit, redis, hist
  <2> QED  BY <1>4, <1>5, <1>6, <2>1 DEF GetKey, GetCircuit
<1>7. ASSUME NEW h \in Handlers, Preflight(h) \/ Count(h) \/ Trip(h) PROVE OrdersInv'
  <2>1. /\ keys' = keys /\ orders' = orders /\ overlaps' = overlaps
        /\ call[h].at \in {"preflight", "count", "trip"} /\ \E p, a : Doing(h, p, a)
    BY <1>7 DEF Preflight, Count, Trip, redis, hist
  <2> QED  BY <1>5, <2>1
<1>8. ASSUME NEW h \in Handlers, HandlerStep(h) PROVE OrdersInv'
  BY <1>1, <1>2, <1>3, <1>6, <1>7, <1>8
     DEF HandlerStep, InsertDecision, MarkPreviewed, ReadDecision, Store, Mark, redis, hist
<1>9. ASSUME NEW h \in Handlers, CallFails(h) PROVE OrdersInv'
  <2>1. keys' = keys /\ orders' = orders /\ overlaps' = overlaps /\ Answer(h, Error)
    BY <1>9 DEF CallFails, redis
  <2> QED  BY <1>4, <2>1
<1> QED
  BY <1>3, <1>8, <1>9
     DEF Next, Preview, Execute, GiveUp, Crash, Pass, ExpirePass, Reenable, vars, redis, hist

LEMMA CallsInvariant == Spec => []CallsInv
<1>1. Init => CallsInv
  BY AtFields DEF Init, CallsInv
<1>2. Typed /\ CallsInv /\ [Next]_vars => CallsInv'
  BY CallsNext, NumbersAssumption
<1> QED  BY <1>1, <1>2, TypedInvariant, PTL DEF Spec

\* A second order for a decision takes calls that overlap: a call that begins
\* after another one ended never makes another order.
THEOREM SecondOrdersOverlapped == Spec => []SecondOrderOverlaps
<1>1. Init => OrdersInv
  <2> SUFFICES ASSUME Init, NEW o \in Opps
      PROVE  orders[o] = {} /\ Cardinality(orders[o]) + Cardinality(Live(o)) <= overlaps[o] + 1
    BY DEF OrdersInv
  <2>1. orders[o] = {} /\ Live(o) = {} /\ overlaps[o] = 0
    BY AtFields DEF Init, Live
  <2> QED  BY <2>1, FS_EmptySet
<1>2. Typed /\ CallsInv /\ OrdersInv /\ [Next]_vars => OrdersInv'
  BY OrdersNext, NumbersAssumption
<1>3. Typed /\ OrdersInv => SecondOrderOverlaps
  BY Finite, NumbersAssumption DEF OrdersInv, SecondOrderOverlaps
<1> QED  BY <1>1, <1>2, <1>3, TypedInvariant, CallsInvariant, PTL DEF Spec

-----------------------------------------------------------------------------
(* Errors in a row.  While the circuit is closed every error past the       *)
(* threshold is a call about to open it, or one whose flag was lost; while  *)
(* it is open only the calls that found it closed can add one.             *)

Tripping(c) == {h \in Handlers : c[h].at = "trip"}
Trying(c)   == {h \in Handlers : c[h].at \in {"preflight", "count"}}

FailuresInv ==
    /\ errors <= fails
    /\ ~open => errors <= Threshold - 1 + Cardinality(Tripping(call)) + torn
    /\ open => errors + Cardinality(Trying(call)) <= Threshold - 1 + Cardinality(Handlers) + torn

LEMMA Counts ==
    ASSUME NumbersAssumption, NEW c
    PROVE  /\ IsFiniteSet(Tripping(c)) /\ Cardinality(Tripping(c)) \in Nat
           /\ IsFiniteSet(Trying(c)) /\ Cardinality(Trying(c)) \in Nat
           /\ Cardinality(Handlers) \in Nat
           /\ Cardinality(Tripping(c)) + Cardinality(Trying(c)) <= Cardinality(Handlers)
<1> DEFINE S == Tripping(c)
           T == Trying(c)
<1>1. IsFiniteSet(Handlers)
  BY DEF NumbersAssumption
<1>2. S \subseteq Handlers /\ T \subseteq Handlers /\ S \cap T = {}
  BY DEF Tripping, Trying
<1> HIDE DEF S, T
<1>3. /\ IsFiniteSet(S) /\ Cardinality(S) \in Nat
      /\ IsFiniteSet(T) /\ Cardinality(T) \in Nat /\ Cardinality(Handlers) \in Nat
  BY <1>1, <1>2, FS_Subset, FS_CardinalityType
<1>4. Cardinality(S \union T) = Cardinality(S) + Cardinality(T)
  <2>1. Cardinality(S \union T) = Cardinality(S) + Cardinality(T) - Cardinality(S \cap T)
    BY <1>3, FS_Union
  <2>2. Cardinality(S \cap T) = 0
    BY <1>2, FS_EmptySet
  <2> QED  BY <1>3, <2>1, <2>2
<1>5. Cardinality(S \union T) <= Cardinality(Handlers)
  BY <1>1, <1>2, FS_Subset
<1> QED  BY <1>3, <1>4, <1>5 DEF S, T

\* What one call's move does to the two counts.
LEMMA CountsMove ==
    ASSUME NumbersAssumption, NEW c, NEW d, NEW h \in Handlers,
           \A g \in Handlers \ {h} : d[g] = c[g]
    PROVE  /\ c[h].at # "trip" /\ d[h].at = "trip" =>
                Cardinality(Tripping(d)) = Cardinality(Tripping(c)) + 1
           /\ c[h].at = "trip" /\ d[h].at # "trip" =>
                Cardinality(Tripping(d)) = Cardinality(Tripping(c)) - 1
           /\ (c[h].at = "trip" <=> d[h].at = "trip") => Tripping(d) = Tripping(c)
           /\ c[h].at \in {"preflight", "count"} /\ d[h].at \notin {"preflight", "count"} =>
                Cardinality(Trying(d)) = Cardinality(Trying(c)) - 1
           /\ (c[h].at \in {"preflight", "count"} <=> d[h].at \in {"preflight", "count"}) =>
                Trying(d) = Trying(c)
<1>1. ASSUME c[h].at # "trip", d[h].at = "trip"
      PROVE  Cardinality(Tripping(d)) = Cardinality(Tripping(c)) + 1
  <2>1. Tripping(d) = Tripping(c) \union {h} /\ h \notin Tripping(c)
    BY <1>1 DEF Tripping
  <2> QED  BY <2>1, Counts, FS_AddElement
<1>2. ASSUME c[h].at = "trip", d[h].at # "trip"
      PROVE  Cardinality(Tripping(d)) = Cardinality(Tripping(c)) - 1
  <2>1. Tripping(d) = Tripping(c) \ {h} /\ h \in Tripping(c)
    BY <1>2 DEF Tripping
  <2>2. IsFiniteSet(Tripping(c))
    BY Counts
  <2>3. Cardinality(Tripping(c) \ {h}) = Cardinality(Tripping(c)) - 1
    BY <2>1, <2>2, FS_RemoveElement
  <2> QED  BY <2>1, <2>3
<1>3. ASSUME c[h].at \in {"preflight", "count"}, d[h].at \notin {"preflight", "count"}
      PROVE  Cardinality(Trying(d)) = Cardinality(Trying(c)) - 1
  <2>1. Trying(d) = Trying(c) \ {h} /\ h \in Trying(c)
    BY <1>3 DEF Trying
  <2>2. IsFiniteSet(Trying(c))
    BY Counts
  <2>3. Cardinality(Trying(c) \ {h}) = Cardinality(Trying(c)) - 1
    BY <2>1, <2>2, FS_RemoveElement
  <2> QED  BY <2>1, <2>3
<1>4. (c[h].at = "trip" <=> d[h].at = "trip") => Tripping(d) = Tripping(c)
  BY DEF Tripping
<1>5. (c[h].at \in {"preflight", "count"} <=> d[h].at \in {"preflight", "count"}) =>
         Trying(d) = Trying(c)
  BY DEF Trying
<1> QED  BY <1>1, <1>2, <1>3, <1>4, <1>5

\* The numbers the invariant adds up.
LEMMA Numbers ==
    ASSUME NumbersAssumption, Typed
    PROVE  /\ fails \in Nat /\ errors \in Nat /\ torn \in Nat /\ open \in BOOLEAN
           /\ Threshold \in Nat \ {0} /\ Cardinality(Handlers) \in Nat
           /\ Cardinality(Tripping(call)) \in Nat /\ Cardinality(Trying(call)) \in Nat
           /\ Cardinality(Tripping(call)) + Cardinality(Trying(call)) <= Cardinality(Handlers)
BY Counts DEF Typed, RedisTyped, HistoryTyped, NumbersAssumption

\* A call moves without being counted: it is not about to open the circuit, and
\* it comes to the preflight only by a closed one.
LEMMA FailuresMove ==
    ASSUME NumbersAssumption, Typed, FailuresInv, NEW h \in Handlers,
           \A g \in Handlers \ {h} : call'[g] = call[g],
           call[h].at # "trip", call'[h].at # "trip",
           open => (call'[h].at \in {"preflight", "count"} => call[h].at \in {"preflight", "count"}),
           fails' = fails, errors' = errors, torn' = torn, open' = open
    PROVE  FailuresInv'
<1>1. Tripping(call') = Tripping(call)
  BY CountsMove
<1>2. open => Cardinality(Trying(call')) <= Cardinality(Trying(call))
  <2>1. CASE call[h].at \in {"preflight", "count"} /\ call'[h].at \notin {"preflight", "count"}
    BY <2>1, CountsMove, Numbers
  <2>2. CASE call[h].at \in {"preflight", "count"} <=> call'[h].at \in {"preflight", "count"}
    BY <2>2, CountsMove, Numbers
  <2> QED  BY <2>1, <2>2
<1>3. Cardinality(Trying(call')) \in Nat
  BY Counts
<1> QED  BY <1>1, <1>2, <1>3, Numbers DEF FailuresInv

LEMMA FailuresCount ==
    ASSUME NumbersAssumption, Typed, FailuresInv, NEW h \in Handlers, Count(h)
    PROVE  FailuresInv'
<1>1. /\ call[h].at = "count" /\ open' = open /\ torn' = torn
      /\ call'[h].at # "preflight" /\ call'[h].at # "count"
      /\ \A g \in Handlers \ {h} : call'[g] = call[g]
  BY DidTo DEF Count
<1>2. Cardinality(Trying(call')) = Cardinality(Trying(call)) - 1
  BY <1>1, CountsMove
<1>3. Cardinality(Trying(call')) \in Nat /\ Cardinality(Tripping(call')) \in Nat
  BY Counts
<1>4. CASE call[h].answer.status = "error"
  <2>1. fails' = fails + 1 /\ errors' = errors + 1
    BY <1>4 DEF Count
  <2>2. CASE fails' >= Threshold
    <3>1. call'[h].at = "trip"
      BY <1>4, <2>2, DidTo DEF Count
    <3>2. Cardinality(Tripping(call')) = Cardinality(Tripping(call)) + 1
      BY <1>1, <3>1, CountsMove
    <3> QED  BY <1>1, <1>2, <1>3, <2>1, <3>2, Numbers DEF FailuresInv
  <2>3. CASE ~(fails' >= Threshold)
    <3>1. errors' <= Threshold - 1
      BY <2>1, <2>3, Numbers DEF FailuresInv
    <3> QED  BY <1>1, <1>2, <1>3, <2>1, <3>1, Numbers DEF FailuresInv
  <2> QED  BY <2>2, <2>3
<1>5. CASE call[h].answer.status # "error"
  <2>1. call'[h].at = "keep"
    BY <1>5, DidTo DEF Count
  <2>2. Tripping(call') = Tripping(call)
    BY <1>1, <2>1, CountsMove
  <2>3. (fails' = 0 /\ errors' = 0) \/ (fails' = fails /\ errors' = errors)
    BY <1>5 DEF Count
  <2> QED  BY <1>1, <1>2, <1>3, <2>2, <2>3, Numbers DEF FailuresInv
<1> QED  BY <1>4, <1>5

LEMMA FailuresNext ==
    ASSUME NumbersAssumption, Typed, CallsInv, FailuresInv, [Next]_vars PROVE FailuresInv'
<1>1. ASSUME call' = call, fails' = fails, errors' = errors, torn' = torn, open' = open
      PROVE  FailuresInv'
  BY <1>1 DEF FailuresInv
<1>2. ASSUME NEW h \in Handlers, Check(h) PROVE FailuresInv'
  <2>1. /\ fails' = fails /\ errors' = errors /\ torn' = torn /\ open' = open
    BY <1>2 DEF Check, redis
  <2>2. CASE call' = call
    BY <1>1, <2>1, <2>2
  <2>3. CASE call' = [call EXCEPT ![h] = At("get", req[h].o, NoAnswer)]
    <3>1. call'[h].at = "get" /\ \A g \in Handlers \ {h} : call'[g] = call[g]
      BY <2>3, AtFields DEF Typed, CallsTyped
    <3>2. call[h].at = "idle"
      BY <1>2 DEF Check, CallsInv
    <3> QED  BY <2>1, <3>1, <3>2, FailuresMove
  <2> QED  BY <1>2, <2>2, <2>3 DEF Check
<1>3. ASSUME NEW h \in Handlers, GetKey(h) \/ GetCircuit(h) \/ Preflight(h) PROVE FailuresInv'
  <2>1. /\ fails' = fails /\ errors' = errors /\ torn' = torn /\ open' = open
        /\ call[h].at \in {"get", "circuit", "preflight"}
    BY <1>3 DEF GetKey, GetCircuit, Preflight, redis, hist
  <2>2. /\ \A g \in Handlers \ {h} : call'[g] = call[g]
        /\ call'[h].at # "trip"
        /\ open => (call'[h].at \in {"preflight", "count"} => call[h].at = "preflight")
    <3>1. ASSUME NEW a, Answer(h, a) PROVE call'[h].at = "idle" /\ \A g \in Handlers \ {h} : call'[g] = call[g]
      BY <3>1, Answered
    <3>2. ASSUME NEW p, NEW a, Doing(h, p, a)
          PROVE  call'[h].at = p /\ \A g \in Handlers \ {h} : call'[g] = call[g]
      BY <3>2, DidTo
    <3> QED  BY <1>3, <3>1, <3>2 DEF GetKey, GetCircuit, Preflight
  <2> QED  BY <2>1, <2>2, FailuresMove
<1>4. ASSUME NEW h \in Handlers, Count(h) PROVE FailuresInv'
  BY <1>4, FailuresCount
<1>5. ASSUME NEW h \in Handlers, Trip(h) PROVE FailuresInv'
  <2>1. /\ call[h].at = "trip" /\ fails' = fails /\ errors' = errors /\ torn' = torn /\ open'
        /\ call'[h].at = "keep" /\ \A g \in Handlers \ {h} : call'[g] = call[g]
    BY <1>5, DidTo DEF Trip, hist
  <2>2. Trying(call') = Trying(call)
    BY <2>1, CountsMove
  <2> QED  BY <2>1, <2>2, Numbers DEF FailuresInv
<1>6. ASSUME NEW h \in Handlers, Keep(h) PROVE FailuresInv'
  <2>1. /\ call[h].at = "keep" /\ fails' = fails /\ errors' = errors /\ torn' = torn /\ open' = open
        /\ call'[h].at = "idle" /\ \A g \in Handlers \ {h} : call'[g] = call[g]
    BY <1>6, Answered DEF Keep
  <2> QED  BY <2>1, FailuresMove
<1>7. ASSUME NEW h \in Handlers, CallFails(h) PROVE FailuresInv'
  <2>1. /\ fails' = fails /\ errors' = errors /\ open' = open
        /\ torn' = IF call[h].at = "trip" THEN torn + 1 ELSE torn
        /\ call'[h].at = "idle" /\ \A g \in Handlers \ {h} : call'[g] = call[g]
    BY <1>7, Answered DEF CallFails, redis
  <2>2. CASE call[h].at = "trip"
    <3>1. /\ Cardinality(Tripping(call')) = Cardinality(Tripping(call)) - 1
          /\ Trying(call') = Trying(call)
      BY <2>1, <2>2, CountsMove
    <3> QED  BY <2>1, <2>2, <3>1, Numbers DEF FailuresInv
  <2>3. CASE call[h].at # "trip"
    BY <2>1, <2>3, FailuresMove
  <2> QED  BY <2>2, <2>3
<1>8. CASE Reenable
  <2>1. call' = call /\ fails' = fails /\ errors' = 0 /\ torn' = torn /\ ~open'
    BY <1>8 DEF Reenable
  <2> QED  BY <2>1, Numbers DEF FailuresInv
<1>9. ASSUME NEW h \in Handlers, HandlerStep(h) PROVE FailuresInv'
  BY <1>1, <1>2, <1>3, <1>4, <1>5, <1>6, <1>9
     DEF HandlerStep, InsertDecision, MarkPreviewed, ReadDecision, Store, Mark, redis, hist
<1> QED
  BY <1>1, <1>7, <1>8, <1>9
     DEF Next, Preview, Execute, GiveUp, Crash, Pass, ExpirePass, vars, redis, hist

\* A venue that fails is left alone after Threshold errors in a row, those of
\* the calls under way and those allowed by a lost flag.
THEOREM FailuresStayBounded == Spec => []FailuresBounded
<1>1. Init => FailuresInv
  <2> SUFFICES ASSUME Init, NumbersAssumption PROVE FailuresInv
    BY NumbersAssumption
  <2>1. fails = 0 /\ errors = 0 /\ torn = 0 /\ ~open
    BY DEF Init
  <2> QED  BY <2>1, Counts DEF FailuresInv, NumbersAssumption
<1>2. Typed /\ CallsInv /\ FailuresInv /\ [Next]_vars => FailuresInv'
  BY FailuresNext, NumbersAssumption
<1>3. Typed /\ FailuresInv => FailuresBounded
  BY Numbers, NumbersAssumption DEF FailuresInv, FailuresBounded
<1> QED  BY <1>1, <1>2, <1>3, TypedInvariant, CallsInvariant, PTL DEF Spec

-----------------------------------------------------------------------------
(* The signer and its journal.                                             *)


(* What `s` holds for good is at the front of `t`. *)
Extends(s, t) ==
    /\ Len(Cut(s)) <= Len(t)
    /\ \A i \in 1..Len(Cut(s)) : t[i] = s[i]

(* The journal's two copies can be read, and the synced one is the older.   *)
Sound ==
    /\ Readable(cache) /\ Readable(disk)
    /\ Extends(disk, cache)
    /\ request.pc = "write" => ~Torn(cache)
    /\ file = "absent" => disk = <<>> /\ request.pc \in {"idle", "open"}
    /\ trusted

JournalInv == SignerTypeOK /\ Sound

(* The first n lines of a sequence. *)
LEMMA Front ==
    ASSUME NEW s \in Seq(Line), NEW n \in 0..Len(s)
    PROVE  /\ SubSeq(s, 1, n) \in Seq(Line)
           /\ Len(SubSeq(s, 1, n)) = n
           /\ \A i \in 1..n : SubSeq(s, 1, n)[i] = s[i]
OBVIOUS

(* Cutting a torn tail off leaves exactly the whole lines. *)
LEMMA CutFacts ==
    ASSUME NEW s \in Seq(Line), Readable(s)
    PROVE  /\ Cut(s) \in Seq(Line)
           /\ Len(Cut(s)) <= Len(s)
           /\ \A i \in 1..Len(Cut(s)) : Cut(s)[i] = s[i] /\ s[i].whole
           /\ \A i \in 1..Len(s) : s[i].whole => i <= Len(Cut(s))
           /\ ~Torn(Cut(s)) /\ Readable(Cut(s))
<1>1. CASE Torn(s)
  <2>1. Len(s) \in Nat /\ Len(s) > 0 /\ ~s[Len(s)].whole
    BY <1>1 DEF Torn
  <2>2. Cut(s) = SubSeq(s, 1, Len(s) - 1)
    BY <1>1 DEF Cut
  <2>3. /\ Cut(s) \in Seq(Line)
        /\ Len(Cut(s)) = Len(s) - 1
        /\ \A i \in 1..(Len(s) - 1) : Cut(s)[i] = s[i]
    BY <2>1, <2>2, Len(s) - 1 \in 0..Len(s), Front
  <2>4. \A i \in 1..(Len(s) - 1) : s[i].whole
    BY DEF Readable
  <2>5. \A i \in 1..Len(Cut(s)) : Cut(s)[i] = s[i] /\ s[i].whole
    BY <2>1, <2>3, <2>4
  <2>6. \A i \in 1..Len(s) : s[i].whole => i <= Len(Cut(s))
    <3> TAKE i \in 1..Len(s)
    <3> HAVE s[i].whole
    <3>1. i # Len(s)  BY <2>1
    <3> QED  BY <3>1, <2>1, <2>3
  <2>7. ~Torn(Cut(s))
    <3>1. CASE Len(Cut(s)) > 0
      <4>1. Len(Cut(s)) \in 1..Len(Cut(s))  BY <3>1, <2>1, <2>3
      <4> QED  BY <4>1, <2>5 DEF Torn
    <3> QED  BY <3>1 DEF Torn
  <2>8. Readable(Cut(s))
    BY <2>1, <2>3, <2>5 DEF Readable
  <2> QED  BY <2>1, <2>3, <2>5, <2>6, <2>7, <2>8
<1>2. CASE ~Torn(s)
  <2>1. Cut(s) = s  BY <1>2 DEF Cut
  <2>2. \A i \in 1..Len(s) : s[i].whole
    BY <1>2 DEF Torn, Readable
  <2> QED  BY <1>2, <2>1, <2>2
<1> QED  BY <1>1, <1>2

(* What a sequence holds for good, one that extends it holds too. *)
LEMMA WholeGrows ==
    ASSUME NEW s \in Seq(Line), NEW t \in Seq(Line), Readable(s), Extends(s, t)
    PROVE  Whole(s) \subseteq Whole(t)
<1> SUFFICES ASSUME NEW i \in 1..Len(s), s[i].whole
             PROVE  s[i].approval \in Whole(t)
  BY DEF Whole
<1>1. i \in 1..Len(Cut(s))  BY CutFacts
<1>2. i \in 1..Len(t) /\ t[i] = s[i]  BY <1>1 DEF Extends
<1> QED  BY <1>2 DEF Whole

(* The approvals on whole lines are approvals. *)
LEMMA WholeType ==
    ASSUME NEW s \in Seq(Line)
    PROVE  Whole(s) \subseteq Approvals
<1> SUFFICES ASSUME NEW i \in 1..Len(s)
             PROVE  s[i].approval \in Approvals
  BY DEF Whole
<1>1. s[i] \in Line  OBVIOUS
<1> QED  BY <1>1 DEF Line

(* A readable sequence extends itself. *)
LEMMA ExtendsSelf ==
    ASSUME NEW s \in Seq(Line), Readable(s)
    PROVE  Extends(s, s)
BY CutFacts DEF Extends

(* Cutting a torn tail off loses nothing that was held for good. *)
LEMMA ExtendsCut ==
    ASSUME NEW s \in Seq(Line), NEW t \in Seq(Line), Readable(s), Readable(t), Extends(s, t)
    PROVE  Extends(s, Cut(t)) /\ Extends(Cut(t), Cut(t))
<1>2. Cut(t) \in Seq(Line) /\ Readable(Cut(t))
  BY CutFacts
<1>3. Extends(Cut(t), Cut(t))
  BY <1>2, ExtendsSelf
<1>4. \A i \in 1..Len(Cut(s)) : i \in 1..Len(t) /\ t[i] = s[i] /\ t[i].whole
  BY CutFacts DEF Extends
<1>5. \A i \in 1..Len(Cut(s)) : i <= Len(Cut(t)) /\ Cut(t)[i] = s[i]
  BY <1>4, CutFacts
<1>6. Len(Cut(s)) <= Len(Cut(t))
  <2>1. Len(Cut(s)) \in Nat /\ Len(Cut(t)) \in Nat
    BY <1>2, CutFacts
  <2>2. CASE Len(Cut(s)) = 0  BY <2>1, <2>2
  <2>3. CASE Len(Cut(s)) > 0
    <3>1. Len(Cut(s)) \in 1..Len(Cut(s))  BY <2>1, <2>3
    <3> QED  BY <3>1, <1>5
  <2> QED  BY <2>1, <2>2, <2>3
<1> QED  BY <1>3, <1>5, <1>6 DEF Extends

(* A line appended to a journal that is not torn leaves it readable. *)
LEMMA AppendFacts ==
    ASSUME NEW s \in Seq(Line), NEW t \in Seq(Line), NEW l \in Line,
           Readable(s), Readable(t), ~Torn(t), Extends(s, t)
    PROVE  /\ Append(t, l) \in Seq(Line)
           /\ Readable(Append(t, l))
           /\ Extends(s, Append(t, l))
<1>1. /\ Append(t, l) \in Seq(Line)
      /\ Len(Append(t, l)) = Len(t) + 1
      /\ \A i \in 1..Len(t) : Append(t, l)[i] = t[i]
  OBVIOUS
<1>2. \A i \in 1..Len(t) : t[i].whole
  BY DEF Torn, Readable
<1>3. Readable(Append(t, l))
  BY <1>1, <1>2 DEF Readable
<1>4. Cut(s) \in Seq(Line) /\ Len(Cut(s)) \in Nat
  BY CutFacts
<1>5. \A i \in 1..Len(Cut(s)) : Append(t, l)[i] = s[i]
  BY <1>1, <1>4 DEF Extends
<1> QED  BY <1>1, <1>3, <1>4, <1>5 DEF Extends

(* Whatever an unfinished step leaves in the file can be read, and holds    *)
(* what was synced.                                                         *)
LEMMA LeftFacts ==
    ASSUME JournalInv, NEW c \in Left
    PROVE  c \in Seq(Line) /\ Readable(c) /\ Extends(disk, c)
<1> USE DEF JournalInv, Sound
<1>1. cache \in Seq(Line) /\ disk \in Seq(Line)
  BY DEF SignerTypeOK
<1>2. CASE c = cache  BY <1>1, <1>2
<1>3. CASE request.pc = "open" /\ c = Cut(cache)
  BY <1>1, <1>3, CutFacts, ExtendsCut
<1>4. CASE request.pc = "write" /\ c = Append(cache, [approval |-> request.approval, whole |-> FALSE])
  <2>1. [approval |-> request.approval, whole |-> FALSE] \in Line
    BY <1>4 DEF SignerTypeOK, Line
  <2> QED  BY <1>1, <1>4, <2>1, AppendFacts
<1> QED  BY <1>2, <1>3, <1>4 DEF Left

(* The front of a readable journal is readable. *)
LEMMA FrontFacts ==
    ASSUME NEW s \in Seq(Line), NEW t \in Seq(Line), Readable(s), Readable(t), Extends(s, t),
           NEW n \in Len(Cut(s))..Len(t)
    PROVE  /\ SubSeq(t, 1, n) \in Seq(Line)
           /\ Len(SubSeq(t, 1, n)) = n
           /\ \A i \in 1..n : SubSeq(t, 1, n)[i] = t[i]
           /\ Readable(SubSeq(t, 1, n))
           /\ Extends(s, SubSeq(t, 1, n))
<1>1. Len(Cut(s)) \in Nat /\ n \in Nat /\ n <= Len(t)
  BY CutFacts
<1>2. /\ SubSeq(t, 1, n) \in Seq(Line)
      /\ Len(SubSeq(t, 1, n)) = n
      /\ \A i \in 1..n : SubSeq(t, 1, n)[i] = t[i]
  BY <1>1, Front
<1>3. Readable(SubSeq(t, 1, n))
  BY <1>1, <1>2 DEF Readable
<1>4. Extends(s, SubSeq(t, 1, n))
  BY <1>1, <1>2 DEF Extends
<1> QED  BY <1>2, <1>3, <1>4

(* A power cut leaves a journal that can be read and holds what was synced. *)
LEMMA PowerCutFacts ==
    ASSUME JournalInv, PowerCut
    PROVE  /\ cache' \in Seq(Line) /\ Readable(cache')
           /\ (~Loses => Extends(disk, cache'))
<1> USE DEF JournalInv, Sound
<1>1. cache \in Seq(Line) /\ disk \in Seq(Line)
  BY DEF SignerTypeOK
<1>2. CASE cache' = disk
  BY <1>1, <1>2, ExtendsSelf
<1>3. CASE \E n \in Len(Cut(disk))..Len(cache) : cache' = Survives(n)
  BY <1>1, <1>3, FrontFacts DEF Survives
<1>4. CASE \E n \in Len(Cut(disk))..(Len(cache) - 1) : cache' = SurvivesTorn(n)
  <2>1. PICK n \in Len(Cut(disk))..(Len(cache) - 1) : cache' = SurvivesTorn(n)
    BY <1>4
  <2>2. Len(Cut(disk)) \in Nat  BY <1>1, CutFacts
  <2>3. n \in Len(Cut(disk))..Len(cache) /\ n + 1 \in 1..Len(cache)
    BY <1>1, <2>1, <2>2
  <2> DEFINE f == SubSeq(cache, 1, n)
             l == [cache[n + 1] EXCEPT !.whole = FALSE]
  <2>4. f \in Seq(Line) /\ Len(f) = n /\ Readable(f) /\ Extends(disk, f) /\ \A i \in 1..n : f[i] = cache[i]
    BY <1>1, <2>3, FrontFacts
  <2>5. l \in Line
    <3>1. cache[n + 1] \in Line  BY <1>1, <2>3
    <3> QED  BY <3>1 DEF Line
  <2>6. ~Torn(f)
    <3> n \in Nat  BY <2>2, <2>1
    <3>1. CASE n = 0  BY <2>4, <3>1 DEF Torn
    <3>2. CASE n > 0
      <4>1. n \in 1..(Len(cache) - 1) /\ n \in 1..n  BY <1>1, <2>3, <3>2
      <4>2. cache[n].whole  BY <4>1 DEF Readable
      <4> QED  BY <4>1, <4>2, <2>4 DEF Torn
    <3> QED  BY <3>1, <3>2
  <2>7. cache' = Append(f, l)
    BY <2>1 DEF SurvivesTorn, Survives
  <2> HIDE DEF f, l
  <2> QED  BY <1>1, <2>4, <2>5, <2>6, <2>7, AppendFacts
<1>5. CASE (file = "absent" \/ (Loses /\ file = "unlinked")) /\ cache' = <<>>
  BY <1>5 DEF Readable, Extends, Cut, Torn
<1> QED  BY <1>2, <1>3, <1>4, <1>5 DEF PowerCut

-----------------------------------------------------------------------------
(* Types, and a journal that stays readable: one invariant. *)

LEMMA JournalInit == SignerInit => JournalInv
<1> SUFFICES ASSUME SignerInit PROVE JournalInv  OBVIOUS
<1>1. SignerTypeOK
  BY BoundsAssumption DEF SignerInit, SignerTypeOK, Rest, Request
<1>2. Sound
  BY DEF SignerInit, Sound, Readable, Extends, Cut, Torn, Rest
<1> QED  BY <1>1, <1>2 DEF JournalInv

(* A step that fails. *)
LEMMA JournalFails ==
    ASSUME JournalInv, Fails, UNCHANGED <<trusted, signed, crashes>>
    PROVE  JournalInv'
<1>1. cache' \in Seq(Line) /\ Readable(cache') /\ Extends(disk, cache')
  BY LeftFacts DEF Fails
<1>2. SignerTypeOK'
  BY <1>1, BoundsAssumption DEF JournalInv, SignerTypeOK, Fails, Made, Refused, Rest, Request
<1>3. Sound'
  BY <1>1 DEF JournalInv, Sound, Fails, Made, Refused, Rest
<1> QED  BY <1>2, <1>3 DEF JournalInv

LEMMA JournalOpen ==
    ASSUME JournalInv, Open
    PROVE  JournalInv'
<1>1. CASE Fails  BY <1>1, JournalFails DEF Open
<1>2. CASE Opened /\ cache' = Cut(cache) /\ disk' = (IF Torn(cache) THEN cache' ELSE disk)
           /\ UNCHANGED <<spent, failures>>
  <2>1. cache \in Seq(Line) /\ disk \in Seq(Line) /\ Readable(cache) /\ Readable(disk) /\ Extends(disk, cache)
    BY DEF JournalInv, SignerTypeOK, Sound
  <2>2. cache' \in Seq(Line) /\ Readable(cache') /\ ~Torn(cache')
    BY <1>2, <2>1, CutFacts
  <2>3. disk' \in Seq(Line) /\ Readable(disk') /\ Extends(disk', cache')
    BY <1>2, <2>1, <2>2, ExtendsCut
  <2>4. SignerTypeOK'
    BY <1>2, <2>2, <2>3 DEF JournalInv, SignerTypeOK, Open, Opened, Request
  <2>5. Sound'
    BY <1>2, <2>2, <2>3 DEF JournalInv, Sound, Open, Opened
  <2> QED  BY <2>4, <2>5 DEF JournalInv
<1> QED  BY <1>1, <1>2 DEF Open

LEMMA JournalWrite ==
    ASSUME JournalInv, Write
    PROVE  JournalInv'
<1>1. CASE Fails  BY <1>1, JournalFails DEF Write
<1>2. CASE /\ cache' = Append(cache, [approval |-> request.approval, whole |-> TRUE])
           /\ Step("sync") /\ UNCHANGED <<file, disk, spent, failures>>
  <2>1. [approval |-> request.approval, whole |-> TRUE] \in Line
    BY DEF JournalInv, SignerTypeOK, Write, Line
  <2>2. cache' \in Seq(Line) /\ Readable(cache') /\ Extends(disk, cache')
    BY <1>2, <2>1, AppendFacts DEF JournalInv, SignerTypeOK, Sound, Write
  <2>3. SignerTypeOK'
    BY <1>2, <2>2 DEF JournalInv, SignerTypeOK, Write, Step, Request
  <2>4. Sound'
    BY <1>2, <2>2 DEF JournalInv, SignerTypeOK, Sound, Write, Step, Request
  <2> QED  BY <2>3, <2>4 DEF JournalInv
<1> QED  BY <1>1, <1>2 DEF Write

LEMMA JournalSync ==
    ASSUME JournalInv, Sync
    PROVE  JournalInv'
<1>1. CASE Fails  BY <1>1, JournalFails DEF Sync
<1>2. CASE /\ disk' = cache
           /\ IF request.created THEN Step("link") /\ UNCHANGED spent ELSE Returned
           /\ UNCHANGED <<file, cache, failures>>
  <2>1. Extends(cache, cache)
    BY ExtendsSelf DEF JournalInv, SignerTypeOK, Sound
  <2>2. SignerTypeOK'
    BY <1>2 DEF JournalInv, SignerTypeOK, Sync, Step, Returned, Request
  <2>3. Sound'
    BY <1>2, <2>1 DEF JournalInv, SignerTypeOK, Sound, Sync, Step, Returned, Request
  <2> QED  BY <2>2, <2>3 DEF JournalInv
<1> QED  BY <1>1, <1>2 DEF Sync

LEMMA JournalLink ==
    ASSUME JournalInv, Link
    PROVE  JournalInv'
<1>1. CASE Fails  BY <1>1, JournalFails DEF Link
<1>2. CASE file' = "linked" /\ Returned /\ UNCHANGED <<cache, disk, failures>>
  <2>1. SignerTypeOK'
    BY <1>2 DEF JournalInv, SignerTypeOK, Link, Step, Returned, Request
  <2>2. Sound'
    BY <1>2 DEF JournalInv, SignerTypeOK, Sound, Link, Step, Returned, Request
  <2> QED  BY <2>1, <2>2 DEF JournalInv
<1> QED  BY <1>1, <1>2 DEF Link

LEMMA JournalRestart ==
    ASSUME JournalInv, Restart
    PROVE  JournalInv'
<1>1. cache' \in Seq(Line) /\ Readable(cache') /\ Extends(disk, cache')
  BY LeftFacts DEF Restart
<1>2. spent' \subseteq Approvals /\ trusted'
  BY <1>1, WholeType DEF Restart, Load
<1>3. SignerTypeOK'
  BY <1>1, <1>2, BoundsAssumption DEF JournalInv, SignerTypeOK, Restart, Made, Load, Rest, Request
<1>4. Sound'
  BY <1>1, <1>2 DEF JournalInv, Sound, Restart, Made, Rest
<1> QED  BY <1>3, <1>4 DEF JournalInv

LEMMA JournalPowerCut ==
    ASSUME JournalInv, PowerCut
    PROVE  JournalInv'
<1>1. cache' \in Seq(Line) /\ Readable(cache')
  BY PowerCutFacts
<1>2. spent' \subseteq Approvals /\ trusted'
  BY <1>1, WholeType DEF PowerCut, Load
<1>3. Extends(cache', cache')
  BY <1>1, ExtendsSelf
<1>4. SignerTypeOK'
  BY <1>1, <1>2, BoundsAssumption DEF JournalInv, SignerTypeOK, PowerCut, Load, Rest, Request
<1>5. Sound'
  BY <1>1, <1>2, <1>3 DEF JournalInv, Sound, PowerCut, Rest
<1> QED  BY <1>4, <1>5 DEF JournalInv

LEMMA JournalNext == JournalInv /\ [SignerNext]_signerVars => JournalInv'
<1> SUFFICES ASSUME JournalInv, [SignerNext]_signerVars PROVE JournalInv'  OBVIOUS
<1>1. ASSUME NEW a \in Approvals, Ask(a) PROVE JournalInv'
  BY <1>1 DEF JournalInv, SignerTypeOK, Sound, Ask, journal, Request, Readable, Torn, Extends, Cut
<1>2. CASE Open      BY <1>2, JournalOpen
<1>3. CASE Write     BY <1>3, JournalWrite
<1>4. CASE Sync      BY <1>4, JournalSync
<1>5. CASE Link      BY <1>5, JournalLink
<1>6. CASE Sign
  BY <1>6 DEF JournalInv, SignerTypeOK, Sound, Sign, journal, Request, Rest, Readable, Torn, Extends, Cut
<1>7. CASE Restart   BY <1>7, JournalRestart
<1>8. CASE PowerCut  BY <1>8, JournalPowerCut
<1>9. CASE UNCHANGED signerVars
  BY <1>9 DEF JournalInv, SignerTypeOK, Sound, signerVars, journal, Request, Readable, Torn, Extends, Cut
<1> QED  BY <1>1, <1>2, <1>3, <1>4, <1>5, <1>6, <1>7, <1>8, <1>9 DEF SignerNext, Appending

LEMMA JournalAlways == SignerSpec => []JournalInv
BY JournalInit, JournalNext, PTL DEF SignerSpec

(* Every reachable state is well typed, for any approvals and bounds. *)
THEOREM SignerTyped == SignerSpec => []SignerTypeOK
<1>1. JournalInv => SignerTypeOK  BY DEF JournalInv
<1> QED  BY <1>1, JournalAlways, PTL

(* The journal never distrusts what it wrote itself, however many writes    *)
(* fail and processes stop, and whether or not its file existed.            *)
THEOREM JournalTrusted == SignerSpec => []StaysReadable
<1>1. JournalInv => StaysReadable  BY DEF JournalInv, Sound, StaysReadable
<1> QED  BY <1>1, JournalAlways, PTL

-----------------------------------------------------------------------------
(* No replay, if a synced file is not lost with its directory entry. *)

(* An approval that was signed against is known to be burned and is burned  *)
(* on disk; one that is about to be was not signed against yet, and is      *)
(* burned before the signature is made.                                     *)
BurnedFirst ==
    /\ \A a \in Approvals : signed[a] >= 1 => a \in spent /\ a \in Whole(disk)
    /\ request.pc # "idle" => signed[request.approval] = 0
    /\ request.pc \in {"link", "sign"} => request.approval \in Whole(disk)
    /\ request.pc = "sign" => request.approval \in spent

OnceInv == SignedOnce /\ BurnedFirst

(* No step takes back what was burned on disk. *)
LEMMA DiskGrows ==
    ASSUME JournalInv, ~Loses, [SignerNext]_signerVars
    PROVE  Whole(disk) \subseteq Whole(disk')
<1>1. cache \in Seq(Line) /\ disk \in Seq(Line) /\ Readable(cache) /\ Readable(disk) /\ Extends(disk, cache)
  BY DEF JournalInv, SignerTypeOK, Sound
<1>2. CASE disk' = disk  BY <1>2
<1>3. CASE Open /\ disk' = Cut(cache)
  <2>1. Cut(cache) \in Seq(Line) /\ Extends(disk, Cut(cache))
    BY <1>1, CutFacts, ExtendsCut
  <2> QED  BY <1>1, <1>3, <2>1, WholeGrows
<1>4. CASE Sync /\ disk' = cache
  BY <1>1, <1>4, WholeGrows
<1>5. CASE PowerCut
  <2>1. cache' \in Seq(Line) /\ Extends(disk, cache') /\ disk' = cache'
    BY <1>5, PowerCutFacts DEF PowerCut
  <2> QED  BY <1>1, <2>1, WholeGrows
<1>6. Open => disk' = disk \/ disk' = Cut(cache)
  BY DEF Open, Fails
<1>7. Sync => disk' = disk \/ disk' = cache
  BY DEF Sync, Fails
<1>8. Write \/ Link \/ Sign \/ Restart \/ (\E a \in Approvals : Ask(a)) \/ UNCHANGED signerVars => disk' = disk
  BY DEF Write, Link, Sign, Restart, Ask, Fails, signerVars, journal
<1> QED  BY <1>2, <1>3, <1>4, <1>5, <1>6, <1>7, <1>8 DEF SignerNext, Appending

LEMMA OnceInit == SignerInit => OnceInv
BY DEF SignerInit, OnceInv, SignedOnce, BurnedFirst, Rest

(* A step that fails, or the process starting again. *)
LEMMA OnceRest ==
    ASSUME JournalInv, OnceInv, request' = Rest, UNCHANGED signed,
           Whole(disk) \subseteq Whole(disk'),
           spent \subseteq spent' \/ Whole(disk) \subseteq spent'
    PROVE  OnceInv'
<1>1. request'.pc = "idle" /\ ~request'.created
  BY DEF Rest
<1>2. \A a \in Approvals : signed'[a] >= 1 => a \in spent' /\ a \in Whole(disk')
  BY DEF OnceInv, BurnedFirst
<1> QED  BY <1>1, <1>2 DEF OnceInv, SignedOnce, BurnedFirst

LEMMA OnceRestarted ==
    ASSUME JournalInv, OnceInv, Restart
    PROVE  OnceInv'
<1>1. cache' \in Seq(Line) /\ Readable(cache') /\ Extends(disk, cache')
  BY LeftFacts DEF Restart
<1>2. spent' = Whole(cache')
  BY <1>1 DEF Restart, Load
<1>3. Whole(disk) \subseteq spent'
  BY <1>1, <1>2, WholeGrows DEF JournalInv, SignerTypeOK, Sound
<1>4. disk' = disk /\ request' = Rest /\ UNCHANGED signed
  BY DEF Restart
<1> QED  BY <1>3, <1>4, OnceRest

LEMMA OncePowerCut ==
    ASSUME JournalInv, ~Loses, OnceInv, PowerCut
    PROVE  OnceInv'
<1>1. cache' \in Seq(Line) /\ Readable(cache') /\ Extends(disk, cache')
  BY PowerCutFacts
<1>2. spent' = Whole(cache') /\ disk' = cache'
  BY <1>1 DEF PowerCut, Load
<1>3. Whole(disk) \subseteq Whole(disk') /\ Whole(disk) \subseteq spent'
  BY <1>1, <1>2, WholeGrows DEF JournalInv, SignerTypeOK, Sound
<1>4. request' = Rest /\ UNCHANGED signed
  BY DEF PowerCut
<1> QED  BY <1>3, <1>4, OnceRest

(* The line just written is whole, so syncing it burns the approval. *)
LastWritten == request.pc = "sync" => request.approval \in Whole(cache)

(* After the write, and only then, the approval's line is in the file. *)
LEMMA WrittenNext ==
    ASSUME JournalInv, LastWritten, [SignerNext]_signerVars
    PROVE  LastWritten'
<1>1. ASSUME NEW a \in Approvals, Ask(a) PROVE LastWritten'
  BY <1>1 DEF Ask, LastWritten
<1>2. CASE Write
  <2>1. CASE request'.pc = "sync"
    <3>1. cache' = Append(cache, [approval |-> request.approval, whole |-> TRUE]) /\ Step("sync")
      BY <1>2, <2>1 DEF Write, Fails, Refused, Rest
    <3> DEFINE l == [approval |-> request.approval, whole |-> TRUE]
    <3>2. l \in Line
      BY <1>2 DEF JournalInv, SignerTypeOK, Write, Line
    <3>3. cache \in Seq(Line)  BY DEF JournalInv, SignerTypeOK
    <3>4. l.whole /\ l.approval = request.approval  OBVIOUS
    <3>5. request'.approval = request.approval
      BY <3>1 DEF Step, JournalInv, SignerTypeOK, Request
    <3>6. cache' = Append(cache, l)  BY <3>1
    <3> HIDE DEF l
    <3>7. Len(cache') = Len(cache) + 1 /\ cache'[Len(cache) + 1] = l /\ Len(cache) \in Nat
      BY <3>2, <3>3, <3>6
    <3> QED  BY <3>4, <3>5, <3>7 DEF LastWritten, Whole
  <2> QED  BY <2>1 DEF LastWritten
<1>3. CASE Open \/ Sync \/ Link \/ Sign \/ Restart \/ PowerCut
  <2>1. Fails \/ Sign \/ Restart \/ PowerCut => request'.pc # "sync"
    BY DEF Fails, Refused, Sign, Restart, PowerCut, Rest
  <2>2. Opened \/ Returned \/ Step("link") => request'.pc # "sync"
    BY DEF Opened, Returned, Step, JournalInv, SignerTypeOK, Request
  <2>3. Open => Opened \/ Fails  BY DEF Open
  <2>4. Sync \/ Link => Returned \/ Step("link") \/ Fails  BY DEF Sync, Link
  <2>5. request'.pc # "sync"
    BY <1>3, <2>1, <2>2, <2>3, <2>4
  <2> QED  BY <2>5 DEF LastWritten
<1>4. CASE UNCHANGED signerVars
  BY <1>4 DEF signerVars, journal, LastWritten, Whole
<1> QED  BY <1>1, <1>2, <1>3, <1>4 DEF SignerNext, Appending

LEMMA OnceNext ==
    ASSUME JournalInv, ~Loses, LastWritten, OnceInv, [SignerNext]_signerVars
    PROVE  OnceInv'
<1>0. Whole(disk) \subseteq Whole(disk')  BY DiskGrows
<1> USE <1>0
<1>1. ASSUME NEW a \in Approvals, Ask(a) PROVE OnceInv'
  <2>1. signed[a] = 0
    BY <1>1 DEF Ask, OnceInv, BurnedFirst, JournalInv, SignerTypeOK
  <2> QED  BY <1>1, <2>1 DEF Ask, journal, OnceInv, SignedOnce, BurnedFirst
<1>2. ASSUME Fails, UNCHANGED <<trusted, signed, crashes>> PROVE OnceInv'
  BY <1>2, OnceRest DEF Fails, Refused
<1>3. CASE Open
  <2>1. CASE Opened /\ UNCHANGED <<spent, failures>>
    BY <1>3, <2>1 DEF Open, Opened, OnceInv, SignedOnce, BurnedFirst, JournalInv, SignerTypeOK, Request
  <2> QED  BY <1>2, <1>3, <2>1 DEF Open
<1>4. CASE Write
  <2>1. CASE Step("sync") /\ UNCHANGED <<file, disk, spent, failures>>
    BY <1>4, <2>1 DEF Write, Step, OnceInv, SignedOnce, BurnedFirst, JournalInv, SignerTypeOK, Request
  <2> QED  BY <1>2, <1>4, <2>1 DEF Write
<1>5. CASE Sync
  <2>1. CASE disk' = cache /\ Returned /\ UNCHANGED <<file, cache, failures>>
    <3>1. request.approval \in Whole(disk')
      BY <1>5, <2>1 DEF Sync, LastWritten
    <3> QED  BY <1>5, <2>1, <3>1 DEF Sync, Returned, Step, OnceInv, SignedOnce, BurnedFirst, JournalInv, SignerTypeOK, Request
  <2>2. CASE disk' = cache /\ Step("link") /\ UNCHANGED spent /\ UNCHANGED <<file, cache, failures>>
    <3>1. request.approval \in Whole(disk')
      BY <1>5, <2>2 DEF Sync, LastWritten
    <3> QED  BY <1>5, <2>2, <3>1 DEF Sync, Step, OnceInv, SignedOnce, BurnedFirst, JournalInv, SignerTypeOK, Request
  <2> QED  BY <1>2, <1>5, <2>1, <2>2 DEF Sync
<1>6. CASE Link
  <2>1. CASE Returned /\ UNCHANGED <<cache, disk, failures>>
    BY <1>6, <2>1 DEF Link, Returned, Step, OnceInv, SignedOnce, BurnedFirst, JournalInv, SignerTypeOK, Request
  <2> QED  BY <1>2, <1>6, <2>1 DEF Link
<1>7. CASE Sign
  BY <1>7 DEF Sign, Rest, journal, OnceInv, SignedOnce, BurnedFirst, JournalInv, SignerTypeOK, Request
<1>8. CASE Restart   BY <1>8, OnceRestarted
<1>9. CASE PowerCut  BY <1>9, OncePowerCut
<1>10. CASE UNCHANGED signerVars
  BY <1>10 DEF signerVars, journal, OnceInv, SignedOnce, BurnedFirst
<1> QED  BY <1>1, <1>3, <1>4, <1>5, <1>6, <1>7, <1>8, <1>9, <1>10 DEF SignerNext, Appending

LEMMA OnceAlways ==
    ASSUME ~Loses
    PROVE  SignerSpec => [](JournalInv /\ LastWritten /\ OnceInv)
<1>1. SignerInit => JournalInv /\ LastWritten /\ OnceInv
  BY JournalInit, OnceInit DEF SignerInit, LastWritten, Rest
<1>2. JournalInv /\ LastWritten /\ OnceInv /\ [SignerNext]_signerVars => (JournalInv /\ LastWritten /\ OnceInv)'
  BY JournalNext, WrittenNext, OnceNext
<1> QED  BY <1>1, <1>2, PTL DEF SignerSpec

(* If a power cut does not lose a synced file, no approval is ever signed   *)
(* against twice: a crash can never create a replay.                        *)
THEOREM NoReplay ==
    ASSUME ~Loses
    PROVE  SignerSpec => []SignedOnce
<1>1. OnceInv => SignedOnce  BY DEF OnceInv
<1> QED  BY <1>1, OnceAlways, PTL

(* And the signer implements its promise: burned for good before it is      *)
(* signed against, and signed against at most once.                         *)
THEOREM ImplementsSigningOnce ==
    ASSUME ~Loses
    PROVE  SignerSpec => SignsOnce
<1>1. SignerInit => Once!Init
  BY DEF SignerInit, Once!Init, Burned, Whole
<1>2. JournalInv /\ OnceInv /\ OnceInv' /\ JournalInv' /\ [SignerNext]_signerVars => [Once!Next]_<<Burned, signed>>
  <2> SUFFICES ASSUME JournalInv, OnceInv, OnceInv', JournalInv', [SignerNext]_signerVars
               PROVE  [Once!Next]_<<Burned, signed>>
    OBVIOUS
  <2>1. Burned = Whole(disk) /\ Burned' = Whole(disk')
    BY DEF Burned
  <2>2. Burned \subseteq Burned' /\ Burned' \subseteq Approvals
    BY <2>1, DiskGrows, WholeType DEF OnceInv, JournalInv, SignerTypeOK
  <2>3. CASE Sign
    <3> DEFINE a == request.approval
    <3>1. a \in Approvals /\ a \in Whole(disk) /\ signed[a] = 0
      BY <2>3 DEF Sign, OnceInv, BurnedFirst, JournalInv, SignerTypeOK
    <3>2. signed' = [signed EXCEPT ![a] = 1]
      BY <2>3, <3>1 DEF Sign, JournalInv, SignerTypeOK
    <3>3. disk' = disk  BY <2>3 DEF Sign, journal
    <3>4. a \in Burned /\ Burned' = Burned
      BY <2>1, <3>1, <3>3
    <3>5. Once!Sign(a)
      BY <3>1, <3>2, <3>4 DEF Once!Sign
    <3> QED  BY <3>1, <3>5 DEF Once!Next
  <2>4. CASE UNCHANGED signed
    BY <2>2, <2>4 DEF Once!Next, Once!Burn
  <2>5. Sign \/ UNCHANGED signed
    BY DEF SignerNext, Appending, Ask, Open, Write, Sync, Link, Restart, PowerCut, signerVars
  <2> QED  BY <2>3, <2>4, <2>5
<1> QED  BY <1>1, <1>2, OnceAlways, PTL DEF SignerSpec, SignsOnce, Once!Spec

================================================================================
