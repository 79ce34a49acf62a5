--------------------------- MODULE AlertRouterProofs ---------------------------
(***************************************************************************)
(* Proofs about AlertRouter, for any events, requests, batch and bounds:   *)
(* what an acknowledgement stands for, that no event is announced twice,   *)
(* and that the outbox agrees with the event table.                        *)
(***************************************************************************)
EXTENDS AlertRouter, TLAPS

(* A worker that is not idle has an event; the consumer's is that of an     *)
(* entry that was delivered and left its batch.                             *)
Taken ==
    /\ \A w \in Workers : task[w].pc # "idle" => task[w].event \in Events
    /\ task[Consumer].pc # "idle" =>
          /\ task[Consumer].entry \in 1..delivered
          /\ task[Consumer].entry \notin batch
          /\ stream[task[Consumer].entry] = task[Consumer].event

TakenInv == TypeOK /\ Taken

LEMMA ConsumerWorks == Consumer \in Workers
BY DEF Workers

(* The one record and the two updates that tasks go through. *)
LEMMA TaskTypes ==
    /\ Idle \in Task
    /\ \A e \in Events, i \in Entries \union {0} : Judging(e, i) \in Task
BY DEF Idle, Judging, Task, Verdicts

LEMMA TakenInit == Init => TakenInv
<1> SUFFICES ASSUME Init PROVE TakenInv  OBVIOUS
<1>1. TypeOK
  <2>1. task \in [Workers -> Task]  BY TaskTypes DEF Init
  <2>2. rows \in [Keys -> Events \union {"none"}] /\ alerts \in [Events -> Verdicts]
    BY DEF Init, Verdicts
  <2> QED  BY <2>1, <2>2, BoundsAssumption DEF Init, TypeOK
<1>2. Taken
  BY ConsumerWorks DEF Init, Taken, Idle
<1> QED  BY <1>1, <1>2 DEF TakenInv

LEMMA TakenSend ==
    ASSUME TakenInv, NEW e \in Events, Send(e)
    PROVE  TakenInv'
<1>1. stream \in Seq(Events) /\ delivered \in 0..Len(stream)
  BY DEF TakenInv, TypeOK
<1>2. /\ stream' \in Seq(Events) /\ Len(stream') = Len(stream) + 1 /\ Len(stream) \in Nat
      /\ \A i \in 1..delivered : stream'[i] = stream[i]
  BY <1>1 DEF Send
<1>3. TypeOK'
  BY <1>1, <1>2, BoundsAssumption DEF TakenInv, TypeOK, Send, tables
<1>4. Taken'
  BY <1>2 DEF TakenInv, Taken, Send
<1> QED  BY <1>3, <1>4 DEF TakenInv

LEMMA TakenPost ==
    ASSUME TakenInv, NEW e \in Events, NEW q \in Requests, Post(q, e)
    PROVE  TakenInv'
<1>1. q \in Workers /\ q # Consumer
  BY EventsAssumption DEF Workers
<1>2. task' \in [Workers -> Task]
  BY <1>1, TaskTypes DEF TakenInv, TypeOK, Post
<1>3. TypeOK'
  BY <1>2, BoundsAssumption DEF TakenInv, TypeOK, Post, redis, tables
<1>4. Taken'
  BY <1>1 DEF TakenInv, TypeOK, Taken, Post, redis, Judging
<1> QED  BY <1>3, <1>4 DEF TakenInv

LEMMA TakenRead ==
    ASSUME TakenInv, Read
    PROVE  TakenInv'
<1>1. PICK n \in 1..Batch :
          /\ delivered + n <= Len(stream)
          /\ delivered' = delivered + n
          /\ pending' = pending \union (delivered + 1 .. delivered + n)
          /\ \/ batch' = delivered + 1 .. delivered + n /\ UNCHANGED faults
             \/ Fault /\ UNCHANGED batch
  BY DEF Read
<1>2. n \in Nat /\ delivered \in Nat /\ Len(stream) \in Nat
  BY BoundsAssumption DEF TakenInv, TypeOK
<1>3. delivered' \in 0..Len(stream) /\ 1..delivered \subseteq 1..delivered' /\ (delivered + 1 .. delivered + n) \subseteq 1..delivered'
  BY <1>1, <1>2
<1>4. pending' \subseteq 1..delivered' /\ batch' \subseteq pending'
  BY <1>1, <1>3 DEF TakenInv, TypeOK, Read
<1>5. faults' \in 0..MaxFaults
  BY <1>1, BoundsAssumption DEF TakenInv, TypeOK, Fault
<1>6. TypeOK'
  BY <1>3, <1>4, <1>5 DEF TakenInv, TypeOK, Read, tables
<1>7. Taken'
  BY <1>3 DEF TakenInv, Taken, Read
<1> QED  BY <1>6, <1>7 DEF TakenInv

LEMMA TakenTake ==
    ASSUME TakenInv, Take
    PROVE  TakenInv'
<1>1. PICK i \in batch : batch' = batch \ {i} /\ task' = [task EXCEPT ![Consumer] = Judging(stream[i], i)]
  BY DEF Take
<1>2. i \in 1..delivered /\ i \in 1..Len(stream) /\ i \in Entries /\ stream[i] \in Events
  BY <1>1, BoundsAssumption DEF TakenInv, TypeOK, Entries
<1>3. task' \in [Workers -> Task]
  BY <1>1, <1>2, TaskTypes, ConsumerWorks DEF TakenInv, TypeOK
<1>4. TypeOK'
  BY <1>1, <1>3 DEF TakenInv, TypeOK, Take, redis, tables
<1>5. Taken'
  BY <1>1, <1>2, ConsumerWorks DEF TakenInv, TypeOK, Taken, Take, redis, Judging
<1> QED  BY <1>4, <1>5 DEF TakenInv

(* A handler's step: the worker goes on with its event, or is done. *)
GoesOn(w) ==
    /\ task[w].pc # "idle"
    /\ \/ task' = [task EXCEPT ![w] = Idle]
       \/ \E pc \in {"store", "publish", "refuse", "ack"}, v \in Verdicts :
             task' = [task EXCEPT ![w] = [@ EXCEPT !.pc = pc, !.verdict = v]]

LEMMA TakenGoesOn ==
    ASSUME TakenInv, NEW w \in Workers, GoesOn(w)
    PROVE  /\ task' \in [Workers -> Task]
           /\ \A u \in Workers : task'[u].pc # "idle" => task[u].pc # "idle"
                                  /\ task'[u].event = task[u].event /\ task'[u].entry = task[u].entry
           /\ \A u \in Workers \ {w} : task'[u] = task[u]
<1>1. task \in [Workers -> Task]  BY DEF TakenInv, TypeOK
<1>2. CASE task' = [task EXCEPT ![w] = Idle]
  BY <1>1, <1>2, TaskTypes DEF Idle
<1>3. ASSUME NEW pc \in {"store", "publish", "refuse", "ack"}, NEW v \in Verdicts,
             task' = [task EXCEPT ![w] = [@ EXCEPT !.pc = pc, !.verdict = v]]
      PROVE  /\ task' \in [Workers -> Task]
             /\ \A u \in Workers : task'[u].pc # "idle" => task[u].pc # "idle"
                                  /\ task'[u].event = task[u].event /\ task'[u].entry = task[u].entry
             /\ \A u \in Workers \ {w} : task'[u] = task[u]
  <2> DEFINE r == [task[w] EXCEPT !.pc = pc, !.verdict = v]
  <2>1. r \in Task /\ r.event = task[w].event /\ r.entry = task[w].entry
    BY <1>1 DEF Task
  <2>2. task' = [task EXCEPT ![w] = r]  BY <1>3
  <2> HIDE DEF r
  <2> QED  BY <1>1, <2>1, <2>2 DEF GoesOn
<1> QED  BY <1>2, <1>3 DEF GoesOn

LEMMA HandlingGoesOn ==
    ASSUME TakenInv, NEW w \in Workers, Handling(w)
    PROVE  GoesOn(w)
<1>1. task \in [Workers -> Task] /\ task[w] \in Task  BY DEF TakenInv, TypeOK
<1>2. task[w].verdict \in Verdicts /\ task[w] = [task[w] EXCEPT !.verdict = task[w].verdict]
  BY <1>1 DEF Task
<1>3. ASSUME NEW pc \in {"store", "publish", "refuse", "ack"}
      PROVE  [task EXCEPT ![w].pc = pc] = [task EXCEPT ![w] = [@ EXCEPT !.pc = pc, !.verdict = task[w].verdict]]
  BY <1>1, <1>2 DEF Task
<1>4. Verdict(task[w].event) \in Verdicts
  BY DEF Verdict, Verdicts
<1>5. CASE Judge(w)
  <2>1. CASE Refused(task[w].event)
    BY <1>1, <1>2, <1>3, <1>5, <2>1 DEF Judge, GoesOn, Task
  <2>2. CASE ~Refused(task[w].event)
    BY <1>4, <1>5, <2>2 DEF Judge, GoesOn
  <2> QED  BY <2>1, <2>2
<1>6. CASE Duplicate(w)   BY <1>2, <1>3, <1>6 DEF Duplicate, GoesOn
<1>7. CASE Record(w)      BY <1>2, <1>3, <1>7 DEF Record, GoesOn
<1>8. CASE StoreFails(w)  BY <1>8 DEF StoreFails, GoesOn
<1>9. CASE Publish(w)     BY <1>2, <1>3, <1>9 DEF Publish, GoesOn
<1>10. CASE Refuse(w)     BY <1>2, <1>3, <1>10 DEF Refuse, GoesOn
<1>11. CASE Ack(w)        BY <1>11 DEF Ack, GoesOn
<1> QED  BY <1>5, <1>6, <1>7, <1>8, <1>9, <1>10, <1>11 DEF Handling

LEMMA TakenHandling ==
    ASSUME TakenInv, NEW w \in Workers, Handling(w)
    PROVE  TakenInv'
<1>1. /\ task' \in [Workers -> Task]
      /\ \A u \in Workers : task'[u].pc # "idle" => task[u].pc # "idle"
                              /\ task'[u].event = task[u].event /\ task'[u].entry = task[u].entry
  BY TakenGoesOn, HandlingGoesOn
<1>2. task[w].pc # "idle"  BY HandlingGoesOn DEF GoesOn
<1>3. UNCHANGED <<stream, delivered, late, posts>>
  BY DEF Handling, Judge, Duplicate, Record, StoreFails, Publish, Refuse, Ack, redis, tables
<1>4. pending' \subseteq pending /\ batch' \subseteq pending' /\ batch' \subseteq batch
  <2>1. CASE Ack(w)  BY <2>1 DEF Ack, TakenInv, TypeOK, Taken
  <2>2. CASE ~Ack(w)
    BY <2>2 DEF Handling, Judge, Duplicate, Record, StoreFails, Publish, Refuse, redis, tables, TakenInv, TypeOK
  <2> QED  BY <2>1, <2>2
<1>5. dead' \subseteq 1..delivered
  <2>1. CASE Refuse(w)  BY <2>1, <1>2 DEF Refuse, TakenInv, TypeOK, Taken
  <2>2. CASE ~Refuse(w)
    BY <2>2 DEF Handling, Judge, Duplicate, Record, StoreFails, Publish, Ack, redis, tables, TakenInv, TypeOK
  <2> QED  BY <2>1, <2>2
<1>6. faults' \in 0..MaxFaults /\ connected' \in BOOLEAN
  <2>1. (faults' = faults \/ Fault) /\ (connected' = connected \/ connected' = FALSE)
    BY DEF Handling, Judge, Duplicate, Record, StoreFails, Publish, Refuse, Ack
  <2>2. Fault => faults' \in 0..MaxFaults
    BY BoundsAssumption DEF Fault, TakenInv, TypeOK
  <2> QED  BY <2>1, <2>2 DEF TakenInv, TypeOK
<1>7. routed' \in [Events -> Nat]
  <2>1. routed' = routed \/ routed' = [routed EXCEPT ![task[w].event] = @ + 1]
    BY DEF Handling, Judge, Duplicate, Record, StoreFails, Publish, Refuse, Ack
  <2>2. routed \in [Events -> Nat] /\ task[w].event \in Events
    BY <1>2 DEF TakenInv, TypeOK, Taken
  <2>3. routed[task[w].event] + 1 \in Nat  BY <2>2
  <2> QED  BY <2>1, <2>2, <2>3
<1>8. alerts' \in [Events -> Verdicts] /\ rows' \in [Keys -> Events \union {"none"}]
  <2>1. CASE Record(w)
    <3>1. task[w].verdict \in Verdicts /\ task[w].event \in Events
      BY <1>2 DEF TakenInv, TypeOK, Taken, Task
    <3> QED  BY <2>1, <3>1 DEF Record, TakenInv, TypeOK
  <2>2. CASE ~Record(w)
    BY <2>2 DEF Handling, Judge, Duplicate, StoreFails, Publish, Refuse, Ack, tables, TakenInv, TypeOK
  <2> QED  BY <2>1, <2>2
<1>9. TypeOK'
  BY <1>1, <1>3, <1>4, <1>5, <1>6, <1>7, <1>8 DEF TakenInv, TypeOK
<1>10. Taken'
  BY <1>1, <1>3, <1>4, ConsumerWorks DEF TakenInv, Taken
<1> QED  BY <1>9, <1>10 DEF TakenInv

LEMMA TakenNext == TakenInv /\ [Next]_vars => TakenInv'
<1> SUFFICES ASSUME TakenInv, [Next]_vars PROVE TakenInv'  OBVIOUS
<1>1. ASSUME NEW e \in Events, Send(e) PROVE TakenInv'
  BY <1>1, TakenSend
<1>2. ASSUME NEW e \in Events, Expire(e) PROVE TakenInv'
  BY <1>2 DEF TakenInv, TypeOK, Taken, Expire, redis, tables
<1>3. ASSUME NEW e \in Events, NEW q \in Requests, Post(q, e) PROVE TakenInv'
  BY <1>3, TakenPost
<1>4. CASE Read  BY <1>4, TakenRead
<1>5. CASE Take  BY <1>5, TakenTake
<1>6. ASSUME NEW w \in Workers, Handling(w) PROVE TakenInv'
  BY <1>6, TakenHandling
<1>7. CASE LoseConnection
  <2>1. faults' \in 0..MaxFaults /\ connected' = FALSE
    <3>1. Fault /\ connected' = FALSE  BY <1>7 DEF LoseConnection
    <3> QED  BY <3>1, BoundsAssumption DEF TakenInv, TypeOK, Fault
  <2>2. UNCHANGED <<stream, delivered, pending, dead, alerts, rows, batch, task, routed, late, posts>>
    BY <1>7 DEF LoseConnection, redis, tables
  <2>3. TypeOK'
    BY <2>1, <2>2 DEF TakenInv, TypeOK
  <2>4. Taken'
    BY <2>2 DEF TakenInv, Taken
  <2> QED  BY <2>3, <2>4 DEF TakenInv
<1>8. CASE Restart
  <2>1. task' \in [Workers -> Task] /\ task'[Consumer].pc = "idle" /\ \A w \in Workers : task'[w].pc = "idle"
    BY <1>8, TaskTypes, ConsumerWorks DEF Restart, Idle
  <2>2. TypeOK'
    BY <1>8, <2>1, BoundsAssumption DEF TakenInv, TypeOK, Restart, Fault, redis, tables
  <2> QED  BY <2>1, <2>2 DEF TakenInv, Taken
<1>9. CASE UNCHANGED vars
  BY <1>9 DEF TakenInv, TypeOK, Taken, vars, redis, tables
<1> QED  BY <1>1, <1>2, <1>3, <1>4, <1>5, <1>6, <1>7, <1>8, <1>9 DEF Next

LEMMA TakenAlways == Spec => []TakenInv
BY TakenInit, TakenNext, PTL DEF Spec

(* Every reachable state is well typed. *)
THEOREM TypeCorrect == Spec => []TypeOK
<1>1. TakenInv => TypeOK  BY DEF TakenInv
<1> QED  BY <1>1, TakenAlways, PTL

-----------------------------------------------------------------------------
(* What an acknowledgement stands for. *)

(* Before an entry is acknowledged its event is recorded, or the entry is   *)
(* on the dead-letter stream; and what is stored has a verdict.             *)
AckEarned ==
    \A w \in Workers :
        /\ task[w].pc = "store" => task[w].verdict # "none"
        /\ task[w].pc = "publish" => alerts[task[w].event] # "none"
        /\ w = Consumer /\ task[w].pc = "ack" => alerts[task[w].event] # "none" \/ task[w].entry \in dead

AckInv == AckedIsDurable /\ AckEarned

(* What is recorded or on the dead-letter stream stays there. *)
LEMMA RecordsStay ==
    ASSUME TakenInv, [Next]_vars
    PROVE  /\ \A e \in Events : alerts[e] # "none" => alerts'[e] = alerts[e]
           /\ dead \subseteq dead'
           /\ \A i \in 1..delivered : stream'[i] = stream[i]
<1>1. ASSUME NEW e \in Events, Send(e)
      PROVE  UNCHANGED <<alerts, dead>> /\ \A i \in 1..delivered : stream'[i] = stream[i]
  BY <1>1 DEF Send, tables, TakenInv, TypeOK
<1>2. ASSUME NEW w \in Workers, Handling(w)
      PROVE  /\ \A e \in Events : alerts[e] # "none" => alerts'[e] = alerts[e]
             /\ dead \subseteq dead' /\ UNCHANGED stream
  BY <1>2 DEF Handling, Judge, Duplicate, Record, StoreFails, Publish, Refuse, Ack, redis, tables, TakenInv, TypeOK
<1>3. ASSUME (\E e \in Events : Expire(e) \/ \E q \in Requests : Post(q, e)) \/ Read \/ Take
             \/ LoseConnection \/ Restart \/ UNCHANGED vars
      PROVE  UNCHANGED <<alerts, dead, stream>>
  BY <1>3 DEF Expire, Post, Read, Take, LoseConnection, Restart, vars, redis, tables
<1> QED  BY <1>1, <1>2, <1>3 DEF Next

(* An entry leaves the pending list only by an acknowledgement. *)
LEMMA OnlyAckSettles ==
    ASSUME TakenInv, [Next]_vars, NEW i \in 1..delivered', i \notin pending'
    PROVE  /\ i \in 1..delivered
           /\ i \notin pending \/ (Ack(Consumer) /\ i = task[Consumer].entry)
<1>1. CASE Read
  <2>1. PICK n \in 1..Batch : delivered' = delivered + n /\ pending' = pending \union (delivered + 1 .. delivered + n)
    BY <1>1 DEF Read
  <2>2. n \in Nat /\ delivered \in Nat
    BY BoundsAssumption DEF TakenInv, TypeOK
  <2> QED  BY <2>1, <2>2
<1>2. ASSUME NEW w \in Workers, Handling(w)
      PROVE  delivered' = delivered /\ (i \notin pending \/ (Ack(Consumer) /\ i = task[Consumer].entry))
  BY <1>2 DEF Handling, Judge, Duplicate, Record, StoreFails, Publish, Refuse, Ack, redis
<1>3. ASSUME (\E e \in Events : Send(e) \/ Expire(e) \/ \E q \in Requests : Post(q, e)) \/ Take
             \/ LoseConnection \/ Restart \/ UNCHANGED vars
      PROVE  UNCHANGED <<delivered, pending>>
  BY <1>3 DEF Send, Expire, Post, Take, LoseConnection, Restart, vars, redis
<1> QED  BY <1>1, <1>2, <1>3 DEF Next

LEMMA AckEarnedNext ==
    ASSUME TakenInv, AckEarned, [Next]_vars
    PROVE  AckEarned'
<1> SUFFICES ASSUME NEW w \in Workers
             PROVE  /\ task'[w].pc = "store" => task'[w].verdict # "none"
                    /\ task'[w].pc = "publish" => alerts'[task'[w].event] # "none"
                    /\ w = Consumer /\ task'[w].pc = "ack" =>
                          alerts'[task'[w].event] # "none" \/ task'[w].entry \in dead'
  BY DEF AckEarned
<1>0. task \in [Workers -> Task]  BY DEF TakenInv, TypeOK
<1>1. CASE task'[w] = task[w]
  <2>1. task[w].pc # "idle" => task[w].event \in Events  BY DEF TakenInv, Taken
  <2> QED  BY <1>1, <2>1, RecordsStay DEF AckEarned
<1>2. CASE task'[w].pc \notin {"store", "publish", "ack"}  BY <1>2
<1>3. CASE Handling(w)
  <2>1. task[w].pc # "idle" /\ task[w].event \in Events /\ task[w] \in Task
    BY <1>3, <1>0, HandlingGoesOn DEF GoesOn, TakenInv, Taken
  <2>2. task'[w].pc # "idle" => task'[w].event = task[w].event /\ task'[w].entry = task[w].entry
    BY <1>3, HandlingGoesOn, TakenGoesOn
  <2>3. \A r : task' = [task EXCEPT ![w] = r] => task'[w] = r
    BY <1>0
  <2>4. CASE Judge(w)
    <3>1. CASE Refused(task[w].event)
      <4>1. task'[w] = [task[w] EXCEPT !.pc = "refuse"]  BY <2>3, <2>4, <3>1 DEF Judge
      <4> QED  BY <1>2, <2>1, <4>1 DEF Task
    <3>2. CASE ~Refused(task[w].event)
      <4>1. task'[w] = [task[w] EXCEPT !.pc = "store", !.verdict = Verdict(task[w].event)]
        BY <2>3, <2>4, <3>2 DEF Judge
      <4>2. Verdict(task[w].event) # "none"  BY DEF Verdict
      <4> QED  BY <2>1, <4>1, <4>2 DEF Task
    <3> QED  BY <3>1, <3>2
  <2>5. CASE Duplicate(w)
    <3>1. task'[w] = [task[w] EXCEPT !.pc = "ack"] /\ alerts[task[w].event] # "none"
      BY <2>3, <2>5 DEF Duplicate
    <3> QED  BY <2>1, <3>1, RecordsStay DEF Task
  <2>6. CASE Publish(w)
    <3>1. task'[w] = [task[w] EXCEPT !.pc = "ack"] /\ task[w].pc = "publish"
      BY <2>3, <2>6 DEF Publish
    <3> QED  BY <2>1, <3>1, RecordsStay DEF Task, AckEarned
  <2>7. CASE Record(w)
    <3>1. alerts'[task[w].event] = task[w].verdict /\ task[w].verdict # "none"
      BY <2>1, <2>7 DEF Record, TakenInv, TypeOK, AckEarned
    <3>2. task'[w].pc = "publish" \/ task'[w].pc = "idle"
      <4>1. CASE task' = [task EXCEPT ![w].pc = "publish"]
        <5>1. task'[w] = [task[w] EXCEPT !.pc = "publish"]  BY <2>3, <4>1
        <5> QED  BY <2>1, <5>1 DEF Task
      <4>2. CASE task' = [task EXCEPT ![w] = Idle]
        BY <2>3, <4>2 DEF Idle
      <4> QED  BY <2>7, <4>1, <4>2 DEF Record
    <3> QED  BY <2>2, <3>1, <3>2
  <2>8. CASE Refuse(w)
    <3>1. CASE w = Consumer /\ dead' = dead \union {task[w].entry} /\ task' = [task EXCEPT ![w].pc = "ack"]
      <4>1. task'[w] = [task[w] EXCEPT !.pc = "ack"]  BY <2>3, <3>1
      <4> QED  BY <2>1, <3>1, <4>1 DEF Task
    <3>2. CASE task' = [task EXCEPT ![w] = Idle]
      BY <2>3, <3>2 DEF Idle
    <3> QED  BY <2>8, <3>1, <3>2 DEF Refuse
  <2>9. CASE StoreFails(w) \/ Ack(w)
    <3>1. task'[w] = Idle  BY <2>3, <2>9 DEF StoreFails, Ack
    <3> QED  BY <3>1 DEF Idle
  <2> QED  BY <1>3, <2>4, <2>5, <2>6, <2>7, <2>8, <2>9 DEF Handling
<1>4. Handling(w) \/ task'[w] = task[w] \/ task'[w].pc \notin {"store", "publish", "ack"}
  <2>1. ASSUME NEW u \in Workers, Handling(u), u # w PROVE task'[w] = task[w]
    BY <2>1, HandlingGoesOn, TakenGoesOn
  <2>2. ASSUME NEW e \in Events, NEW q \in Requests, Post(q, e)
        PROVE  task'[w] = task[w] \/ task'[w].pc = "judge"
    BY <1>0, <2>2 DEF Post, Judging, Workers
  <2>3. Take => task'[w] = task[w] \/ task'[w].pc = "judge"
    BY <1>0, ConsumerWorks DEF Take, Judging
  <2>4. Restart => task'[w].pc = "idle"
    BY DEF Restart, Idle
  <2>5. ASSUME (\E e \in Events : Send(e) \/ Expire(e)) \/ Read \/ LoseConnection \/ UNCHANGED vars
        PROVE  task' = task
    BY <2>5 DEF Send, Expire, Read, LoseConnection, vars
  <2> QED  BY <2>1, <2>2, <2>3, <2>4, <2>5 DEF Next
<1> QED  BY <1>1, <1>2, <1>3, <1>4

LEMMA AckedNext ==
    ASSUME TakenInv, AckInv, [Next]_vars
    PROVE  AckedIsDurable'
<1> SUFFICES ASSUME NEW i \in 1..delivered', i \notin pending'
             PROVE  alerts'[stream'[i]] # "none" \/ i \in dead'
  BY DEF AckedIsDurable
<1>1. i \in 1..delivered /\ (i \notin pending \/ (Ack(Consumer) /\ i = task[Consumer].entry))
  BY OnlyAckSettles
<1>2. stream'[i] = stream[i] /\ stream[i] \in Events
  BY <1>1, RecordsStay DEF TakenInv, TypeOK
<1>3. alerts[stream[i]] # "none" \/ i \in dead
  <2>1. CASE i \notin pending
    BY <1>1, <2>1 DEF AckInv, AckedIsDurable
  <2>2. CASE Ack(Consumer) /\ i = task[Consumer].entry
    BY <2>2, ConsumerWorks DEF Ack, AckInv, AckEarned, TakenInv, Taken
  <2> QED  BY <1>1, <2>1, <2>2
<1> QED  BY <1>2, <1>3, RecordsStay

LEMMA AckAlways == Spec => []AckInv
<1>1. Init => AckInv
  BY DEF Init, AckInv, AckedIsDurable, AckEarned, Idle
<1>2. TakenInv /\ AckInv /\ [Next]_vars => AckInv'
  BY AckedNext, AckEarnedNext DEF AckInv
<1> QED  BY <1>1, <1>2, TakenAlways, PTL DEF Spec

(* An entry is acknowledged only once its event is recorded or the entry is *)
(* on the dead-letter stream.                                               *)
THEOREM AcknowledgedIsDurable == Spec => []AckedIsDurable
<1>1. AckInv => AckedIsDurable  BY DEF AckInv
<1> QED  BY <1>1, AckAlways, PTL

-----------------------------------------------------------------------------
(* Announcements. *)

(* A worker about to announce an event is the only one, and the event was   *)
(* never announced; an announced event is recorded.                         *)
OneAnnouncer ==
    /\ \A w \in Workers : task[w].pc = "publish" => routed[task[w].event] = 0
    /\ \A u, w \in Workers :
          task[u].pc = "publish" /\ task[w].pc = "publish" /\ task[u].event = task[w].event => u = w
    /\ \A e \in Events : routed[e] >= 1 => alerts[e] # "none"

AnnounceInv == RoutedAtMostOnce /\ OneAnnouncer

(* A worker comes to announce an event only by recording it. *)
LEMMA OnlyRecordAnnounces ==
    ASSUME TakenInv, [Next]_vars, NEW w \in Workers, task'[w].pc = "publish"
    PROVE  (task'[w] = task[w] \/ Record(w)) /\ task'[w].event = task[w].event
<1>0. task \in [Workers -> Task]  BY DEF TakenInv, TypeOK
<1>1. CASE Handling(w)
  <2>1. task'[w].event = task[w].event
    BY <1>1, HandlingGoesOn, TakenGoesOn
  <2>2. \A r : task' = [task EXCEPT ![w] = r] => task'[w] = r
    BY <1>0
  <2>3. task[w] \in Task  BY <1>0
  <2>4. ~Judge(w)
    <3> SUFFICES ASSUME Judge(w) PROVE FALSE  OBVIOUS
    <3>1. CASE Refused(task[w].event)
      <4>1. task'[w] = [task[w] EXCEPT !.pc = "refuse"]  BY <2>2, <3>1 DEF Judge
      <4> QED  BY <2>3, <4>1 DEF Task
    <3>2. CASE ~Refused(task[w].event)
      <4>1. task'[w] = [task[w] EXCEPT !.pc = "store", !.verdict = Verdict(task[w].event)]
        BY <2>2, <3>2 DEF Judge
      <4> QED  BY <2>3, <4>1 DEF Task
    <3> QED  BY <3>1, <3>2
  <2>5. task' # [task EXCEPT ![w] = Idle]
    BY <2>2 DEF Idle
  <2>6. task' # [task EXCEPT ![w].pc = "ack"]
    <3> SUFFICES ASSUME task' = [task EXCEPT ![w].pc = "ack"] PROVE FALSE  OBVIOUS
    <3>1. task'[w] = [task[w] EXCEPT !.pc = "ack"]  BY <2>2
    <3> QED  BY <2>3, <3>1 DEF Task
  <2>7. ~Duplicate(w) /\ ~Publish(w)  BY <2>6 DEF Duplicate, Publish
  <2>8. ~StoreFails(w) /\ ~Ack(w)     BY <2>5 DEF StoreFails, Ack
  <2>9. ~Refuse(w)                    BY <2>5, <2>6 DEF Refuse
  <2> QED  BY <1>1, <2>1, <2>4, <2>7, <2>8, <2>9 DEF Handling
<1>2. ASSUME NEW u \in Workers, Handling(u), u # w PROVE task'[w] = task[w]
  BY <1>2, HandlingGoesOn, TakenGoesOn
<1>3. ASSUME NEW e \in Events, NEW q \in Requests, Post(q, e) PROVE task'[w] = task[w]
  BY <1>0, <1>3 DEF Post, Judging, Workers
<1>4. Take => task'[w] = task[w]
  BY <1>0, ConsumerWorks DEF Take, Judging
<1>5. ~Restart
  BY DEF Restart, Idle
<1>6. ASSUME (\E e \in Events : Send(e) \/ Expire(e)) \/ Read \/ LoseConnection \/ UNCHANGED vars
      PROVE  task' = task
  BY <1>6 DEF Send, Expire, Read, LoseConnection, vars
<1> QED  BY <1>1, <1>2, <1>3, <1>4, <1>5, <1>6 DEF Next

(* An event is announced by a worker that then goes on. *)
LEMMA OnlyPublishRoutes ==
    ASSUME TakenInv, [Next]_vars, NEW e \in Events, routed'[e] # routed[e]
    PROVE  \E w \in Workers : /\ Publish(w) /\ task[w].pc = "publish" /\ task[w].event = e
                              /\ routed'[e] = routed[e] + 1
<1>1. PICK w \in Workers : Handling(w)
  BY DEF Next, Send, Expire, Post, Read, Take, LoseConnection, Restart, vars
<1>2. Publish(w)
  BY <1>1 DEF Handling, Judge, Duplicate, Record, StoreFails, Refuse, Ack
<1>3. routed' = [routed EXCEPT ![task[w].event] = @ + 1] /\ task[w].pc = "publish"
  BY <1>2 DEF Publish
<1>4. routed \in [Events -> Nat]  BY DEF TakenInv, TypeOK
<1> QED  BY <1>2, <1>3, <1>4

(* Two workers do not step together. *)
LEMMA OneSteps ==
    ASSUME TakenInv, NEW u \in Workers, NEW w \in Workers, Record(u)
    PROVE  /\ ~Publish(w)
           /\ Record(w) => u = w
<1>0. task \in [Workers -> Task]  BY DEF TakenInv, TypeOK
<1>1. alerts[task[u].event] = "none" /\ task[u].pc = "store" /\ task[u].event \in Events
  BY DEF Record, TakenInv, Taken
<1>2. task'[u] # task[u]
  <2>1. Handling(u)  BY DEF Handling
  <2>2. \A r : task' = [task EXCEPT ![u] = r] => task'[u] = r  BY <1>0
  <2>3. CASE task' = [task EXCEPT ![u].pc = "publish"]
    <3>1. task'[u] = [task[u] EXCEPT !.pc = "publish"]  BY <2>2, <2>3
    <3> QED  BY <1>0, <1>1, <3>1 DEF Task
  <2>4. CASE task' = [task EXCEPT ![u] = Idle]
    <3>1. task'[u] = Idle /\ Idle.pc = "idle"  BY <2>2, <2>4 DEF Idle
    <3> QED  BY <1>1, <3>1
  <2> QED  BY <2>3, <2>4 DEF Record
<1>3. ASSUME Handling(w), u # w PROVE FALSE
  BY <1>2, <1>3, HandlingGoesOn, TakenGoesOn
<1>4. ~Publish(w)
  <2>1. CASE u = w  BY <1>1, <2>1 DEF Publish
  <2>2. CASE u # w  BY <1>3, <2>2 DEF Handling
  <2> QED  BY <2>1, <2>2
<1> QED  BY <1>3, <1>4 DEF Handling

LEMMA AnnounceNext ==
    ASSUME TakenInv, AckEarned, AnnounceInv, [Next]_vars
    PROVE  AnnounceInv'
<1>0. task \in [Workers -> Task] /\ alerts \in [Events -> Verdicts] /\ routed \in [Events -> Nat]
  BY DEF TakenInv, TypeOK
<1>1. \A e \in Events : routed[e] >= 1 => alerts[e] # "none"
  BY DEF AnnounceInv, OneAnnouncer
<1>2. ASSUME NEW e \in Events, routed'[e] # routed[e]
      PROVE  routed'[e] = 1 /\ alerts[e] # "none" /\ \A w \in Workers : task'[w].pc = "publish" => task'[w].event # e
  <2>1. PICK u \in Workers : /\ Publish(u) /\ task[u].pc = "publish" /\ task[u].event = e
                             /\ routed'[e] = routed[e] + 1
    BY <1>2, OnlyPublishRoutes
  <2>2. routed[e] = 0 /\ alerts[e] # "none"
    BY <2>1 DEF AnnounceInv, OneAnnouncer, AckEarned
  <2>3. task'[u].pc # "publish"
    <3>1. task' = [task EXCEPT ![u].pc = "ack"]  BY <2>1 DEF Publish
    <3>2. \A r : task' = [task EXCEPT ![u] = r] => task'[u] = r  BY <1>0
    <3>3. task'[u] = [task[u] EXCEPT !.pc = "ack"]  BY <3>1, <3>2
    <3> QED  BY <1>0, <3>3 DEF Task
  <2>4. ASSUME NEW w \in Workers, task'[w].pc = "publish" PROVE task'[w].event # e
    <3>1. task'[w] = task[w]
      BY <2>1, <2>4, OnlyRecordAnnounces, OneSteps
    <3>2. w # u  BY <2>3, <2>4
    <3> QED  BY <2>1, <2>4, <3>1, <3>2 DEF AnnounceInv, OneAnnouncer
  <2> QED  BY <2>1, <2>2, <2>4
<1>3. RoutedAtMostOnce'
  BY <1>2 DEF RoutedAtMostOnce, AnnounceInv
<1>4. ASSUME NEW e \in Events, routed'[e] >= 1 PROVE alerts'[e] # "none"
  BY <1>1, <1>2, <1>4, RecordsStay
<1>5. ASSUME NEW w \in Workers, task'[w].pc = "publish" PROVE routed'[task'[w].event] = 0
  <2>1. task[w].event \in Events /\ task'[w].event = task[w].event /\ (task'[w] = task[w] \/ Record(w))
    BY <1>5, OnlyRecordAnnounces DEF TakenInv, Taken, Record
  <2>2. routed'[task[w].event] = routed[task[w].event]
    BY <1>2, <1>5, <2>1
  <2>3. CASE task'[w] = task[w]
    BY <1>5, <2>2, <2>3 DEF AnnounceInv, OneAnnouncer
  <2>4. CASE Record(w)
    <3>1. alerts[task[w].event] = "none"  BY <2>4 DEF Record
    <3>2. ~(routed[task[w].event] >= 1) /\ routed[task[w].event] \in Nat
      BY <1>0, <1>1, <2>1, <3>1
    <3> QED  BY <2>1, <2>2, <3>2
  <2> QED  BY <2>1, <2>3, <2>4
<1>6. ASSUME NEW u \in Workers, NEW w \in Workers, task'[u].pc = "publish", task'[w].pc = "publish",
             task'[u].event = task'[w].event
      PROVE  u = w
  <2>1. task'[u].event = task[u].event /\ task'[w].event = task[w].event
    BY <1>6, OnlyRecordAnnounces
  <2>2. ASSUME NEW x \in Workers, NEW y \in Workers, Record(x), task[y].pc = "publish", task[x].event = task[y].event
        PROVE  FALSE
    <3>1. alerts[task[x].event] = "none"  BY <2>2 DEF Record
    <3>2. alerts[task[y].event] # "none"  BY <2>2 DEF AckEarned
    <3> QED  BY <2>2, <3>1, <3>2
  <2>3. CASE task'[u] = task[u] /\ task'[w] = task[w]
    BY <1>6, <2>3 DEF AnnounceInv, OneAnnouncer
  <2>4. CASE Record(u) /\ task'[w] = task[w]  BY <1>6, <2>1, <2>2, <2>4
  <2>5. CASE Record(w) /\ task'[u] = task[u]  BY <1>6, <2>1, <2>2, <2>5
  <2>6. CASE Record(u) /\ Record(w)           BY <2>6, OneSteps
  <2> QED  BY <1>6, OnlyRecordAnnounces, <2>3, <2>4, <2>5, <2>6
<1> QED  BY <1>3, <1>4, <1>5, <1>6 DEF AnnounceInv, OneAnnouncer

(* An event is announced on alerts:routed at most once, although it is sent *)
(* and posted several times, by any number of requests.                     *)
THEOREM AnnouncedOnce == Spec => []RoutedAtMostOnce
<1>1. Init => AnnounceInv
  BY DEF Init, AnnounceInv, RoutedAtMostOnce, OneAnnouncer, Idle
<1>2. TakenInv /\ AckInv /\ AnnounceInv /\ [Next]_vars => AnnounceInv'
  BY AnnounceNext DEF AckInv
<1>3. AnnounceInv => RoutedAtMostOnce  BY DEF AnnounceInv
<1> QED  BY <1>1, <1>2, <1>3, TakenAlways, AckAlways, PTL DEF Spec

-----------------------------------------------------------------------------
(* The outbox and the event table. *)

(* What a handler's step leaves its worker to do. *)
LEMMA Stages ==
    ASSUME TakenInv, NEW w \in Workers, Handling(w)
    PROVE  /\ task'[w].pc = "store" => /\ Judge(w) /\ ~Refused(task[w].event)
                                       /\ task'[w].verdict = Verdict(task[w].event)
           /\ task'[w].pc = "refuse" => Judge(w) /\ Refused(task[w].event)
           /\ task'[w].pc = "publish" => Record(w)
           /\ task'[w].pc = "ack" => Duplicate(w) \/ Publish(w) \/ Refuse(w)
           /\ task'[w].pc # "judge"
           /\ task'[w].pc = "idle" => task'[w] = Idle
<1>0. task \in [Workers -> Task] /\ task[w] \in Task  BY DEF TakenInv, TypeOK
<1>1. \A r : task' = [task EXCEPT ![w] = r] => task'[w] = r
  BY <1>0
<1>2. ASSUME NEW pc, task' = [task EXCEPT ![w].pc = pc] PROVE task'[w].pc = pc
  <2>1. task'[w] = [task[w] EXCEPT !.pc = pc]  BY <1>1, <1>2
  <2> QED  BY <1>0, <2>1 DEF Task
<1>3. Idle.pc = "idle"  BY DEF Idle
<1>4. CASE Judge(w)
  <2>1. CASE Refused(task[w].event)
    <3>1. task'[w] = [task[w] EXCEPT !.pc = "refuse"]  BY <1>1, <1>4, <2>1 DEF Judge
    <3>2. task'[w].pc = "refuse"  BY <1>0, <3>1 DEF Task
    <3> QED  BY <1>4, <2>1, <3>2
  <2>2. CASE ~Refused(task[w].event)
    <3>1. task'[w] = [task[w] EXCEPT !.pc = "store", !.verdict = Verdict(task[w].event)]
      BY <1>1, <1>4, <2>2 DEF Judge
    <3>2. task'[w].pc = "store" /\ task'[w].verdict = Verdict(task[w].event)
      BY <1>0, <3>1 DEF Task
    <3> QED  BY <1>4, <2>2, <3>2
  <2> QED  BY <2>1, <2>2
<1>5. CASE Duplicate(w) \/ Publish(w)
  <2>1. task'[w].pc = "ack"  BY <1>2, <1>5 DEF Duplicate, Publish
  <2> QED  BY <1>5, <2>1
<1>6. CASE Record(w)
  <2>1. task'[w].pc = "publish" \/ task'[w] = Idle  BY <1>1, <1>2, <1>6 DEF Record
  <2> QED  BY <1>3, <1>6, <2>1
<1>7. CASE Refuse(w)
  <2>1. task'[w].pc = "ack" \/ task'[w] = Idle  BY <1>1, <1>2, <1>7 DEF Refuse
  <2> QED  BY <1>3, <1>7, <2>1
<1>8. CASE StoreFails(w) \/ Ack(w)
  <2>1. task'[w] = Idle  BY <1>1, <1>8 DEF StoreFails, Ack
  <2> QED  BY <1>3, <2>1
<1> QED  BY <1>4, <1>5, <1>6, <1>7, <1>8 DEF Handling

(* A worker is moved by its own handler, or takes up a task or stops. *)
LEMMA WorkersMove ==
    ASSUME TakenInv, [Next]_vars, NEW w \in Workers
    PROVE  \/ task'[w] = task[w] \/ Handling(w) \/ task'[w].pc = "judge"
           \/ task'[w] = Idle /\ Restart
<1>0. task \in [Workers -> Task]  BY DEF TakenInv, TypeOK
<1>1. ASSUME NEW u \in Workers, Handling(u), u # w PROVE task'[w] = task[w]
  BY <1>1, HandlingGoesOn, TakenGoesOn
<1>2. ASSUME NEW e \in Events, NEW q \in Requests, Post(q, e)
      PROVE  task'[w] = task[w] \/ task'[w].pc = "judge"
  BY <1>0, <1>2 DEF Post, Judging, Workers
<1>3. Take => task'[w] = task[w] \/ task'[w].pc = "judge"
  BY <1>0, ConsumerWorks DEF Take, Judging
<1>4. Restart => task'[w] = Idle
  BY DEF Restart
<1>5. ASSUME (\E e \in Events : Send(e) \/ Expire(e)) \/ Read \/ LoseConnection \/ UNCHANGED vars
      PROVE  task' = task
  BY <1>5 DEF Send, Expire, Read, LoseConnection, vars
<1> QED  BY <1>1, <1>2, <1>3, <1>4, <1>5 DEF Next

(* The tables are written by Record alone. *)
LEMMA OnlyRecordWrites ==
    ASSUME [Next]_vars, ~UNCHANGED tables
    PROVE  \E w \in Workers : Record(w)
<1>1. ASSUME NEW w \in Workers, Handling(w) PROVE Record(w)
  BY <1>1 DEF Handling, Judge, Duplicate, StoreFails, Publish, Refuse, Ack
<1>2. ~((\E e \in Events : Send(e) \/ Expire(e) \/ \E q \in Requests : Post(q, e)) \/ Read \/ Take
        \/ LoseConnection \/ Restart \/ UNCHANGED vars)
  BY DEF Send, Expire, Post, Read, Take, LoseConnection, Restart, vars
<1> QED  BY <1>1, <1>2 DEF Next

(* Neither a restricted event nor one that passed the contract because it   *)
(* had expired reaches the transaction as one to be queued.                 *)
QueuedIsOpen ==
    \A w \in Workers :
        task[w].pc = "store" /\ task[w].verdict = "queued" => ClassOf[task[w].event] \notin {"restricted", "overfull"}

FanInv == FanoutMatches /\ QueuedIsOpen

LEMMA QueuedNext ==
    ASSUME TakenInv, QueuedIsOpen, [Next]_vars
    PROVE  QueuedIsOpen'
<1> SUFFICES ASSUME NEW w \in Workers, task'[w].pc = "store", task'[w].verdict = "queued"
             PROVE  ClassOf[task'[w].event] \notin {"restricted", "overfull"}
  BY DEF QueuedIsOpen
<1>1. CASE task'[w] = task[w]  BY <1>1 DEF QueuedIsOpen
<1>2. CASE Handling(w)
  <2>1. Verdict(task[w].event) = "queued" /\ ~Refused(task[w].event)  BY <1>2, Stages
  <2>2. task'[w].event = task[w].event     BY <1>2, HandlingGoesOn, TakenGoesOn
  <2> QED  BY <2>1, <2>2 DEF Verdict, Refused
<1>3. task'[w] # Idle  BY DEF Idle
<1> QED  BY <1>1, <1>2, <1>3, WorkersMove

(* The transaction keeps the two tables together: it writes the row with    *)
(* the event, and neither rewrites a row nor an event.                      *)
LEMMA FanoutRecord ==
    ASSUME TakenInv, AckEarned, FanInv, NEW w \in Workers, Record(w)
    PROVE  FanoutMatches'
<1> DEFINE e == task[w].event
<1>1. /\ e \in Events /\ alerts[e] = "none" /\ KeyOf[e] \in Keys
      /\ alerts \in [Events -> Verdicts] /\ rows \in [Keys -> Events \union {"none"}]
  BY DEF Record, TakenInv, TypeOK, Taken, Keys
<1>2. /\ alerts'[e] = task[w].verdict
      /\ \A d \in Events \ {e} : alerts'[d] = alerts[d]
  BY <1>1 DEF Record
<1>3. /\ rows'[KeyOf[e]] = IF rows[KeyOf[e]] = "none" /\ task[w].verdict = "queued" THEN e ELSE rows[KeyOf[e]]
      /\ \A k \in Keys \ {KeyOf[e]} : rows'[k] = rows[k]
  BY <1>1 DEF Record
<1>4. task[w].verdict = "queued" => ClassOf[e] \notin {"restricted", "overfull"}
  BY DEF Record, FanInv, QueuedIsOpen
<1>5. \A k \in Keys : rows[k] # "none" => rows[k] \in Events \ {e}
  BY <1>1 DEF FanInv, FanoutMatches
<1>6. "none" \notin Events  BY EventsAssumption
<1> HIDE DEF e
<1>7. ASSUME NEW d \in Events, alerts'[d] = "queued" PROVE rows'[KeyOf[d]] # "none"
  <2>1. KeyOf[d] \in Keys  BY DEF Keys
  <2>2. CASE d = e   BY <1>1, <1>2, <1>3, <1>6, <1>7, <2>2
  <2>3. CASE d # e
    <3>1. alerts[d] = "queued"  BY <1>2, <1>7, <2>3
    <3>2. rows[KeyOf[d]] # "none"  BY <3>1 DEF FanInv, FanoutMatches
    <3> QED  BY <1>3, <2>1, <3>2
  <2> QED  BY <2>2, <2>3
<1>8. ASSUME NEW k \in Keys, rows'[k] # "none"
      PROVE  alerts'[rows'[k]] = "queued" /\ ClassOf[rows'[k]] \notin {"restricted", "overfull"}
  <2>1. CASE rows'[k] = rows[k]
    <3>1. alerts[rows[k]] = "queued" /\ ClassOf[rows[k]] \notin {"restricted", "overfull"}
      BY <1>8, <2>1 DEF FanInv, FanoutMatches
    <3>2. rows[k] \in Events \ {e}  BY <1>5, <1>8, <2>1
    <3> QED  BY <1>2, <2>1, <3>1, <3>2
  <2>2. CASE rows'[k] # rows[k]
    <3>1. rows'[k] = e /\ task[w].verdict = "queued"  BY <1>3, <2>2
    <3> QED  BY <1>2, <1>4, <3>1
  <2> QED  BY <2>1, <2>2
<1> QED  BY <1>7, <1>8 DEF FanoutMatches

LEMMA FanNext ==
    ASSUME TakenInv, AckEarned, FanInv, [Next]_vars
    PROVE  FanInv'
<1>1. CASE UNCHANGED tables
  BY <1>1, QueuedNext DEF FanInv, FanoutMatches, tables
<1>2. CASE ~UNCHANGED tables
  BY <1>2, OnlyRecordWrites, FanoutRecord, QueuedNext DEF FanInv
<1> QED  BY <1>1, <1>2

(* The transactional outbox: an alert recorded as queued has a row for its  *)
(* dedupe key, and a row stems from an alert that was queued, never from a  *)
(* restricted one or one that passed because it had expired, whatever       *)
(* failed or was judged late.                                               *)
THEOREM OutboxMatchesEvents == Spec => []FanoutMatches
<1>1. Init => FanInv
  BY DEF Init, FanInv, FanoutMatches, QueuedIsOpen, Idle
<1>2. TakenInv /\ AckInv /\ FanInv /\ [Next]_vars => FanInv'
  BY FanNext DEF AckInv
<1>3. FanInv => FanoutMatches  BY DEF FanInv
<1> QED  BY <1>1, <1>2, <1>3, TakenAlways, AckAlways, PTL DEF Spec

-----------------------------------------------------------------------------
(* What is left pending. *)

(* An idle consumer holds no entry; and no event that the contract passes   *)
(* and the table refuses is dead-lettered or recorded, or comes to be       *)
(* acknowledged.                                                            *)
Placed ==
    /\ task[Consumer].pc = "idle" => task[Consumer].entry = 0
    /\ task[Consumer].pc = "refuse" => ClassOf[task[Consumer].event] # "unstorable"
    /\ task[Consumer].pc \in {"publish", "ack"} => ClassOf[task[Consumer].event] # "unstorable"
    /\ \A e \in Events : alerts[e] # "none" => ClassOf[e] # "unstorable"

(* While nothing has failed, the connection is up and the entry in hand is  *)
(* still pending.                                                           *)
Held ==
    faults = 0 => /\ connected
                  /\ task[Consumer].pc # "idle" => task[Consumer].entry \in pending

StrandedInv == Placed /\ Held /\ StrandedOnlyByFailure

LEMMA PlacedNext ==
    ASSUME TakenInv, Placed, [Next]_vars
    PROVE  Placed'
<1>1. \A e \in Events : alerts'[e] # "none" => ClassOf[e] # "unstorable"
  <2>1. CASE UNCHANGED tables  BY <2>1 DEF tables, Placed
  <2>2. CASE ~UNCHANGED tables
    <3>1. PICK w \in Workers : Record(w)  BY <2>2, OnlyRecordWrites
    <3>2. /\ alerts' = [alerts EXCEPT ![task[w].event] = task[w].verdict]
          /\ ClassOf[task[w].event] # "unstorable"
      BY <3>1 DEF Record
    <3> QED  BY <3>2 DEF Placed, TakenInv, TypeOK
  <2> QED  BY <2>1, <2>2
<1>2. CASE task'[Consumer] = task[Consumer]
  BY <1>1, <1>2 DEF Placed
<1>3. CASE Handling(Consumer)
  <2>1. task[Consumer].pc # "idle" /\ task[Consumer].event \in Events
    BY <1>3, ConsumerWorks, HandlingGoesOn DEF GoesOn, TakenInv, Taken
  <2>2. task'[Consumer].pc # "idle" => task'[Consumer].event = task[Consumer].event
    BY <1>3, ConsumerWorks, HandlingGoesOn, TakenGoesOn
  <2>3. task'[Consumer].pc = "idle" => task'[Consumer].entry = 0
    BY <1>3, ConsumerWorks, Stages DEF Idle
  <2>4. task'[Consumer].pc = "refuse" => ClassOf[task[Consumer].event] # "unstorable"
    BY <1>3, ConsumerWorks, Stages DEF Refused
  <2>5. ASSUME task'[Consumer].pc \in {"publish", "ack"}
        PROVE  ClassOf[task[Consumer].event] # "unstorable"
    <3>1. Record(Consumer) \/ Duplicate(Consumer) \/ Publish(Consumer) \/ Refuse(Consumer)
      BY <1>3, <2>5, ConsumerWorks, Stages
    <3> QED  BY <2>1, <3>1 DEF Record, Duplicate, Publish, Refuse, Placed
  <2> QED  BY <1>1, <2>2, <2>3, <2>4, <2>5 DEF Placed
<1>4. CASE task'[Consumer].pc = "judge"
  BY <1>1, <1>4 DEF Placed
<1>5. CASE task'[Consumer] = Idle
  BY <1>1, <1>5 DEF Placed, Idle
<1> QED  BY <1>2, <1>3, <1>4, <1>5, ConsumerWorks, WorkersMove

(* A failure is counted, and the count is never reset. *)
LEMMA FaultsCount ==
    ASSUME TakenInv, [Next]_vars, faults' = 0
    PROVE  faults = 0 /\ ~Fault
<1>1. faults \in Nat  BY BoundsAssumption DEF TakenInv, TypeOK
<1>2. ~Fault  BY <1>1 DEF Fault
<1>3. faults' = faults \/ Fault
  <2>1. ASSUME NEW w \in Workers, Handling(w) PROVE faults' = faults \/ Fault
    BY <2>1 DEF Handling, Judge, Duplicate, Record, StoreFails, Publish, Refuse, Ack
  <2>2. Read => faults' = faults \/ Fault  BY DEF Read
  <2> QED  BY <2>1, <2>2 DEF Next, Send, Expire, Post, Take, LoseConnection, Restart, vars
<1> QED  BY <1>2, <1>3

(* The consumer finishes an entry without a failure: it is acknowledged, or *)
(* the table refuses it.                                                    *)
LEMMA FinishedEntry ==
    ASSUME TakenInv, StrandedInv, Handling(Consumer), faults' = 0, ~Fault, faults = 0,
           task'[Consumer].pc = "idle"
    PROVE  \/ pending' = pending \ {task[Consumer].entry} /\ ClassOf[task[Consumer].event] # "unstorable"
           \/ UNCHANGED pending /\ ClassOf[task[Consumer].event] = "unstorable"
<1>0. task \in [Workers -> Task] /\ task[Consumer] \in Task
  BY ConsumerWorks DEF TakenInv, TypeOK
<1>1. connected  BY DEF StrandedInv, Held
<1>2. ASSUME NEW pc \in {"store", "publish", "refuse", "ack"}, task' = [task EXCEPT ![Consumer].pc = pc] PROVE FALSE
  <2>1. task'[Consumer] = [task[Consumer] EXCEPT !.pc = pc]  BY <1>0, <1>2, ConsumerWorks
  <2> QED  BY <1>0, <2>1 DEF Task
<1>3. ~Judge(Consumer)
  <2> SUFFICES ASSUME Judge(Consumer) PROVE FALSE  OBVIOUS
  <2>1. CASE Refused(task[Consumer].event)
    <3>1. task'[Consumer] = [task[Consumer] EXCEPT !.pc = "refuse"]  BY <1>0, <2>1, ConsumerWorks DEF Judge
    <3> QED  BY <1>0, <3>1 DEF Task
  <2>2. CASE ~Refused(task[Consumer].event)
    <3>1. task'[Consumer] = [task[Consumer] EXCEPT !.pc = "store", !.verdict = Verdict(task[Consumer].event)]
      BY <1>0, <2>2, ConsumerWorks DEF Judge
    <3> QED  BY <1>0, <3>1 DEF Task
  <2> QED  BY <2>1, <2>2
<1>4. ~Duplicate(Consumer) /\ ~Publish(Consumer)
  BY <1>2 DEF Duplicate, Publish
<1>5. ~Record(Consumer)  BY <1>2 DEF Record
<1>6. ~Refuse(Consumer)  BY <1>2 DEF Refuse
<1>7. CASE StoreFails(Consumer)
  BY <1>1, <1>7 DEF StoreFails, redis
<1>8. CASE Ack(Consumer)
  BY <1>8 DEF Ack, StrandedInv, Placed
<1> QED  BY <1>3, <1>4, <1>5, <1>6, <1>7, <1>8 DEF Handling

(* What a step that is not the consumer's own leaves of the stream. *)
LEMMA HeldApart ==
    ASSUME TakenInv, [Next]_vars, ~Fault, ~Handling(Consumer), ~Read, ~Take
    PROVE  UNCHANGED <<delivered, pending, batch, task[Consumer]>>
<1>0. task \in [Workers -> Task]  BY DEF TakenInv, TypeOK
<1>1. ASSUME NEW w \in Workers, Handling(w)
      PROVE  UNCHANGED <<delivered, pending, batch, task[Consumer]>>
  <2>1. w # Consumer  BY <1>1
  <2>2. task'[Consumer] = task[Consumer]
    BY <1>1, <2>1, ConsumerWorks, HandlingGoesOn, TakenGoesOn
  <2>3. UNCHANGED <<delivered, pending, batch>>
    BY <1>1, <2>1 DEF Handling, Judge, Duplicate, Record, StoreFails, Publish, Refuse, Ack, redis
  <2> QED  BY <2>2, <2>3
<1>2. ASSUME NEW e \in Events, NEW q \in Requests, Post(q, e)
      PROVE  UNCHANGED <<delivered, pending, batch, task[Consumer]>>
  <2>1. q # Consumer  BY EventsAssumption
  <2> QED  BY <1>0, <1>2, <2>1, ConsumerWorks DEF Post, redis
<1>3. ASSUME (\E e \in Events : Send(e) \/ Expire(e)) \/ LoseConnection \/ UNCHANGED vars
      PROVE  UNCHANGED <<delivered, pending, batch, task[Consumer]>>
  BY <1>3 DEF Send, Expire, LoseConnection, vars, redis
<1> QED  BY <1>1, <1>2, <1>3 DEF Next, Restart

LEMMA StrandedNext ==
    ASSUME TakenInv, StrandedInv, [Next]_vars
    PROVE  (Held /\ StrandedOnlyByFailure)'
<1> SUFFICES ASSUME faults' = 0
             PROVE  /\ connected'
                    /\ task'[Consumer].pc # "idle" => task'[Consumer].entry \in pending'
                    /\ \A i \in 1..delivered' :
                          i \notin batch' /\ task'[Consumer].entry # i =>
                              (i \in pending' <=> ClassOf[stream'[i]] = "unstorable")
  BY DEF Held, StrandedOnlyByFailure, TakenUp
<1>0. /\ faults = 0 /\ ~Fault
      /\ task \in [Workers -> Task]
      /\ pending \subseteq 1..delivered /\ batch \subseteq pending /\ delivered \in Nat
  BY FaultsCount DEF TakenInv, TypeOK
<1>1. /\ connected
      /\ task[Consumer].pc # "idle" => task[Consumer].entry \in pending
      /\ task[Consumer].pc = "idle" => task[Consumer].entry = 0
      /\ \A i \in 1..delivered : i \notin batch /\ task[Consumer].entry # i =>
             (i \in pending <=> ClassOf[stream[i]] = "unstorable")
  BY <1>0 DEF StrandedInv, Held, Placed, StrandedOnlyByFailure, TakenUp
<1>2. \A i \in 1..delivered : stream'[i] = stream[i]
  BY RecordsStay
<1>3. connected'
  <2>1. ASSUME NEW w \in Workers, Handling(w) PROVE connected'
    BY <1>0, <1>1, <2>1 DEF Handling, Judge, Duplicate, Record, StoreFails, Publish, Refuse, Ack
  <2> QED  BY <1>0, <1>1, <2>1 DEF Next, Send, Expire, Post, Read, Take, LoseConnection, Restart, vars
<1>4. CASE Read
  <2>1. PICK n \in 1..Batch :
            /\ delivered' = delivered + n
            /\ pending' = pending \union (delivered + 1 .. delivered + n)
            /\ batch' = delivered + 1 .. delivered + n
    BY <1>0, <1>4 DEF Read
  <2>2. task' = task /\ batch = {} /\ task[Consumer].pc = "idle" /\ n \in Nat
    BY <1>4, BoundsAssumption DEF Read
  <2>3. ASSUME NEW i \in 1..delivered', i \notin batch' PROVE i \in 1..delivered /\ (i \in pending' <=> i \in pending)
    BY <1>0, <2>1, <2>2, <2>3
  <2>4. \A i \in 1..delivered : task[Consumer].entry # i
    BY <1>1, <2>2
  <2> QED  BY <1>1, <1>2, <1>3, <2>2, <2>3, <2>4
<1>5. CASE Take
  <2>1. PICK i \in batch : batch' = batch \ {i} /\ task' = [task EXCEPT ![Consumer] = Judging(stream[i], i)]
    BY <1>5 DEF Take
  <2>2. task'[Consumer].entry = i /\ UNCHANGED <<delivered, pending>> /\ task[Consumer].pc = "idle"
    BY <1>0, <1>5, <2>1, ConsumerWorks DEF Take, Judging, redis
  <2>3. \A j \in 1..delivered : task[Consumer].entry # j
    BY <1>1, <2>2
  <2> QED  BY <1>0, <1>1, <1>2, <1>3, <2>1, <2>2, <2>3
<1>6. CASE Handling(Consumer)
  <2>1. UNCHANGED <<delivered>> /\ batch' = batch
    BY <1>0, <1>6 DEF Handling, Judge, Duplicate, Record, StoreFails, Publish, Refuse, Ack, redis
  <2>2. /\ task[Consumer].pc # "idle" /\ task[Consumer].entry \in 1..delivered
        /\ stream[task[Consumer].entry] = task[Consumer].event
    BY <1>6, ConsumerWorks, HandlingGoesOn DEF GoesOn, TakenInv, Taken
  <2>3. CASE task'[Consumer].pc = "idle"
    <3>1. \/ pending' = pending \ {task[Consumer].entry} /\ ClassOf[task[Consumer].event] # "unstorable"
          \/ pending' = pending /\ ClassOf[task[Consumer].event] = "unstorable"
      BY <1>0, <1>6, <2>3, FinishedEntry
    <3>2. task[Consumer].entry \in pending' <=> ClassOf[stream[task[Consumer].entry]] = "unstorable"
      BY <1>1, <2>2, <3>1
    <3>3. \A i \in 1..delivered : i # task[Consumer].entry => (i \in pending' <=> i \in pending)
      BY <3>1
    <3> QED  BY <1>1, <1>2, <1>3, <2>1, <2>3, <3>2, <3>3
  <2>4. CASE task'[Consumer].pc # "idle"
    <3>1. task'[Consumer].entry = task[Consumer].entry
      BY <1>6, <2>4, ConsumerWorks, HandlingGoesOn, TakenGoesOn
    <3>2. pending' = pending
      <4>1. ~Ack(Consumer)
        BY <1>0, <2>4, ConsumerWorks DEF Ack, Idle
      <4> QED  BY <1>6, <4>1 DEF Handling, Judge, Duplicate, Record, StoreFails, Publish, Refuse, redis
    <3> QED  BY <1>1, <1>2, <1>3, <2>1, <2>2, <3>1, <3>2
  <2> QED  BY <2>3, <2>4
<1>7. CASE ~Read /\ ~Take /\ ~Handling(Consumer)
  <2>1. /\ delivered' = delivered /\ pending' = pending /\ batch' = batch
        /\ task'[Consumer] = task[Consumer]
    BY <1>0, <1>7, HeldApart
  <2> QED  BY <1>1, <1>2, <1>3, <2>1
<1> QED  BY <1>4, <1>5, <1>6, <1>7

(* While nothing fails, an entry the consumer has taken up is acknowledged, *)
(* except one the contract passes and the table refuses: an entry is        *)
(* stranded by a failure, or by contents that no statement can store.       *)
THEOREM StrandedOnlyWhenFailed == Spec => []StrandedOnlyByFailure
<1>1. Init => StrandedInv
  BY ConsumerWorks DEF Init, StrandedInv, Placed, Held, StrandedOnlyByFailure, Idle
<1>2. TakenInv /\ StrandedInv /\ [Next]_vars => StrandedInv'
  BY PlacedNext, StrandedNext DEF StrandedInv
<1>3. StrandedInv => StrandedOnlyByFailure  BY DEF StrandedInv
<1> QED  BY <1>1, <1>2, <1>3, TakenAlways, PTL DEF Spec

================================================================================
