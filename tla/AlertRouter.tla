------------------------------ MODULE AlertRouter ------------------------------
(***************************************************************************)
(* The Rust alert router (services/alert-router-rs): one consumer task     *)
(* reads the Redis stream alerts:ingress as a consumer group, HTTP         *)
(* requests post events directly, and both hand an event to accept_event,  *)
(* which records it and fans it out in one PostgreSQL transaction and then *)
(* publishes it on alerts:routed.                                          *)
(*                                                                         *)
(* Redis and PostgreSQL are external: a stream is a sequence whose entries *)
(* are numbered from 1, the group's position is `delivered`, and `pending` *)
(* is its pending-entries list.  An event is judged (validate and          *)
(* route_decision read the clock) before it waits for the database, so the *)
(* verdict is a step of its own.  One phone stands for the enabled and     *)
(* confirmed devices.                                                      *)
(***************************************************************************)
EXTENDS Integers, Sequences, FiniteSets

CONSTANTS
    Events,      \* events by event_id
    ClassOf,     \* what becomes of an event, by its contents: see Classes
    KeyOf,       \* project and dedupe_key of each event
    Requests,    \* HTTP requests in flight
    Batch,       \* entries one read returns at most (25)
    MaxEntries,  \* bound: entries written to the stream
    MaxPosts,    \* bound: HTTP requests made
    MaxFaults    \* bound: failures of Redis, of PostgreSQL and of the process

(* Restricted events are not sent to the phone.  The contract refuses some,  *)
(* and some (overfull: too many references or attributes) unless they have  *)
(* expired.  The table refuses, for good, events that the contract passes:  *)
(* an identifier or a key longer than its column, an expiry that is not     *)
(* after the creation, a text or a time PostgreSQL cannot hold.             *)
Classes == {"plain", "restricted", "overfull", "refused", "unstorable"}

Keys     == {KeyOf[e] : e \in Events}
Consumer == "consumer"
Workers  == Requests \union {Consumer}
Entries  == 1..MaxEntries

ASSUME EventsAssumption ==
    /\ DOMAIN KeyOf = Events
    /\ ClassOf \in [Events -> Classes]
    /\ "none" \notin Events
    /\ Consumer \notin Requests
ASSUME BoundsAssumption == Batch \in Nat \ {0} /\ MaxEntries \in Nat /\ MaxPosts \in Nat /\ MaxFaults \in Nat

VARIABLES
    stream,     \* alerts:ingress: the event of each entry
    delivered,  \* the group's position: entries 1..delivered were delivered
    pending,    \* delivered and not acknowledged
    batch,      \* entries of the consumer's last read not yet taken up
    task,       \* what each worker is doing
    alerts,     \* data_event_registry and alert_events_v1: the route_status of each event
    rows,       \* mobile_alert_outbox: the event behind each dedupe key
    routed,     \* how often each event was published on alerts:routed
    dead,       \* entries on alerts:dead-letter
    late,       \* events whose expiry has passed
    connected,  \* the process's one PostgreSQL connection is alive
    posts, faults

redis  == <<stream, delivered, pending, dead>>
tables == <<alerts, rows>>
vars   == <<redis, tables, batch, task, routed, late, connected, posts, faults>>

-----------------------------------------------------------------------------
Verdicts == {"none", "queued", "suppressed", "expired"}

Task == [pc: {"idle", "judge", "store", "publish", "refuse", "ack"}, event: Events \union {"none"},
         entry: Entries \union {0}, verdict: Verdicts]
Idle == [pc |-> "idle", event |-> "none", entry |-> 0, verdict |-> "none"]
Judging(e, i) == [pc |-> "judge", event |-> e, entry |-> i, verdict |-> "none"]

Init ==
    /\ stream = <<>>
    /\ delivered = 0
    /\ pending = {}
    /\ batch = {}
    /\ task = [w \in Workers |-> Idle]
    /\ alerts = [e \in Events |-> "none"]
    /\ rows = [k \in Keys |-> "none"]
    /\ routed = [e \in Events |-> 0]
    /\ dead = {}
    /\ late = {}
    /\ connected = TRUE
    /\ posts = 0
    /\ faults = 0

Fault == faults < MaxFaults /\ faults' = faults + 1

(* A producer writes an event to the stream, a second time perhaps. *)
Send(e) ==
    /\ Len(stream) < MaxEntries
    /\ stream' = Append(stream, e)
    /\ UNCHANGED <<delivered, pending, dead, tables, batch, task, routed, late, connected, posts, faults>>

(* POST /v1/alerts. *)
Post(q, e) ==
    /\ task[q].pc = "idle"
    /\ posts < MaxPosts
    /\ posts' = posts + 1
    /\ task' = [task EXCEPT ![q] = Judging(e, 0)]
    /\ UNCHANGED <<redis, tables, batch, routed, late, connected, faults>>

(* XREADGROUP with ">": only entries never delivered to the group.  The     *)
(* reply may be lost after Redis delivered them.                            *)
Read ==
    /\ task[Consumer].pc = "idle" /\ batch = {}
    /\ \E n \in 1..Batch :
          /\ delivered + n <= Len(stream)
          /\ delivered' = delivered + n
          /\ pending' = pending \union (delivered + 1 .. delivered + n)
          /\ \/ batch' = delivered + 1 .. delivered + n /\ UNCHANGED faults
             \/ Fault /\ UNCHANGED batch
    /\ UNCHANGED <<stream, dead, tables, task, routed, late, connected, posts>>

(* The entries of a batch are taken up in order. *)
Take ==
    /\ task[Consumer].pc = "idle"
    /\ \E i \in batch :
          /\ \A j \in batch : i <= j
          /\ batch' = batch \ {i}
          /\ task' = [task EXCEPT ![Consumer] = Judging(stream[i], i)]
    /\ UNCHANGED <<redis, tables, routed, late, connected, posts, faults>>

(* Mutant of Verdict: the classification is not looked at. *)
VerdictUnclassified(e) == IF e \in late THEN "expired" ELSE "queued"

(* route_decision: expiry first, then the classification. *)
Verdict(e) ==
    IF e \in late THEN "expired" ELSE IF ClassOf[e] = "restricted" THEN "suppressed" ELSE "queued"

(* validate: anything but an expiry in the past is a refusal, and the       *)
(* expiry is looked at before references and attributes are counted.        *)
Refused(e) == ClassOf[e] = "refused" \/ (ClassOf[e] = "overfull" /\ e \notin late)

Judge(w) ==
    LET e == task[w].event IN
    /\ task[w].pc = "judge"
    /\ task' = [task EXCEPT ![w] = IF Refused(e)
                                   THEN [@ EXCEPT !.pc = "refuse"]
                                   ELSE [@ EXCEPT !.pc = "store", !.verdict = Verdict(e)]]
    /\ UNCHANGED <<redis, tables, batch, routed, late, connected, posts, faults>>

(* Mutant of Duplicate: a duplicate is published as well. *)
DuplicatePublished(w) ==
    /\ task[w].pc = "store" /\ connected
    /\ alerts[task[w].event] # "none"
    /\ task' = [task EXCEPT ![w].pc = "publish"]
    /\ UNCHANGED <<redis, tables, batch, routed, late, connected, posts, faults>>

(* Mutant of Duplicate: a duplicate is not acknowledged. *)
DuplicateUnacked(w) ==
    /\ task[w].pc = "store" /\ connected
    /\ alerts[task[w].event] # "none"
    /\ task' = [task EXCEPT ![w] = Idle]
    /\ UNCHANGED <<redis, tables, batch, routed, late, connected, posts, faults>>

(* The event is in the registry: nothing is written. *)
Duplicate(w) ==
    /\ task[w].pc = "store" /\ connected
    /\ alerts[task[w].event] # "none"
    /\ task' = [task EXCEPT ![w].pc = "ack"]
    /\ UNCHANGED <<redis, tables, batch, routed, late, connected, posts, faults>>

(* One transaction: the registry, the event, and the phone's outbox row     *)
(* unless its dedupe key has one.  The commit's answer may be lost with the *)
(* connection, and the entry is left pending although it was recorded.      *)
Record(w) ==
    LET e == task[w].event IN
    /\ task[w].pc = "store" /\ connected
    /\ alerts[e] = "none" /\ ClassOf[e] # "unstorable"
    /\ alerts' = [alerts EXCEPT ![e] = task[w].verdict]
    /\ rows' = [rows EXCEPT ![KeyOf[e]] = IF @ = "none" /\ task[w].verdict = "queued" THEN e ELSE @]
    /\ \/ task' = [task EXCEPT ![w].pc = "publish"] /\ UNCHANGED <<connected, faults>>
       \/ Fault /\ connected' = FALSE /\ task' = [task EXCEPT ![w] = Idle]
    /\ UNCHANGED <<redis, batch, routed, late, posts>>

(* Mutant of StoreFails: the entry is acknowledged all the same. *)
StoreFailsAcked(w) ==
    /\ task[w].pc = "store"
    /\ \/ ~connected /\ UNCHANGED faults
       \/ ClassOf[task[w].event] = "unstorable" /\ UNCHANGED faults
       \/ Fault
    /\ task' = [task EXCEPT ![w].pc = "ack"]
    /\ UNCHANGED <<redis, tables, batch, routed, late, connected, posts>>

(* The transaction fails: the connection is gone, the table refuses the     *)
(* event, or a statement fails this once.  The entry stays pending and the  *)
(* consumer goes on to the next.                                            *)
StoreFails(w) ==
    /\ task[w].pc = "store"
    /\ \/ ~connected /\ UNCHANGED faults
       \/ ClassOf[task[w].event] = "unstorable" /\ UNCHANGED faults
       \/ Fault
    /\ task' = [task EXCEPT ![w] = Idle]
    /\ UNCHANGED <<redis, tables, batch, routed, late, connected, posts>>

(* XADD to alerts:routed; a failure is only reported. *)
Publish(w) ==
    /\ task[w].pc = "publish"
    /\ \/ routed' = [routed EXCEPT ![task[w].event] = @ + 1] /\ UNCHANGED faults
       \/ Fault /\ UNCHANGED routed
    /\ task' = [task EXCEPT ![w].pc = "ack"]
    /\ UNCHANGED <<redis, tables, batch, late, connected, posts>>

(* A refused entry is written to alerts:dead-letter, and left pending when  *)
(* that fails; a refused request is answered.                               *)
Refuse(w) ==
    /\ task[w].pc = "refuse"
    /\ \/ /\ w = Consumer
          /\ dead' = dead \union {task[w].entry}
          /\ task' = [task EXCEPT ![w].pc = "ack"]
          /\ UNCHANGED faults
       \/ w = Consumer /\ Fault /\ task' = [task EXCEPT ![w] = Idle] /\ UNCHANGED dead
       \/ w # Consumer /\ task' = [task EXCEPT ![w] = Idle] /\ UNCHANGED <<dead, faults>>
    /\ UNCHANGED <<stream, delivered, pending, tables, batch, routed, late, connected, posts>>

(* XACK; when it fails the rest of the batch is abandoned.  A request is    *)
(* answered.                                                                *)
Ack(w) ==
    /\ task[w].pc = "ack"
    /\ task' = [task EXCEPT ![w] = Idle]
    /\ \/ w = Consumer /\ pending' = pending \ {task[w].entry} /\ UNCHANGED <<batch, faults>>
       \/ w = Consumer /\ Fault /\ batch' = {} /\ UNCHANGED pending
       \/ w # Consumer /\ UNCHANGED <<pending, batch, faults>>
    /\ UNCHANGED <<stream, delivered, dead, tables, routed, late, connected, posts>>

-----------------------------------------------------------------------------
(* The connection is opened once, when the process starts. *)
LoseConnection ==
    /\ connected /\ Fault
    /\ connected' = FALSE
    /\ UNCHANGED <<redis, tables, batch, task, routed, late, posts>>

(* A new process is a new consumer of the same group. *)
Restart ==
    /\ Fault
    /\ task' = [w \in Workers |-> Idle]
    /\ batch' = {}
    /\ connected' = TRUE
    /\ UNCHANGED <<redis, tables, routed, late, posts>>

Expire(e) ==
    /\ late' = late \union {e}
    /\ UNCHANGED <<redis, tables, batch, task, routed, connected, posts, faults>>

-----------------------------------------------------------------------------
Handling(w) == Judge(w) \/ Duplicate(w) \/ Record(w) \/ StoreFails(w) \/ Publish(w) \/ Refuse(w) \/ Ack(w)

Next ==
    \/ \E e \in Events : Send(e) \/ Expire(e) \/ \E q \in Requests : Post(q, e)
    \/ Read \/ Take
    \/ \E w \in Workers : Handling(w)
    \/ LoseConnection \/ Restart

Spec == Init /\ [][Next]_vars

-----------------------------------------------------------------------------
(* Every variable holds a value of its type. *)
TypeOK ==
    /\ stream \in Seq(Events) /\ Len(stream) <= MaxEntries
    /\ delivered \in 0..Len(stream)
    /\ pending \subseteq 1..delivered /\ batch \subseteq pending /\ dead \subseteq 1..delivered
    /\ task \in [Workers -> Task]
    /\ alerts \in [Events -> Verdicts]
    /\ rows \in [Keys -> Events \union {"none"}]
    /\ routed \in [Events -> Nat]
    /\ late \subseteq Events
    /\ connected \in BOOLEAN
    /\ posts \in 0..MaxPosts /\ faults \in 0..MaxFaults

(* consume_once: an entry is acknowledged only once its event is durably    *)
(* recorded, by whichever worker, or the entry is on the dead-letter        *)
(* stream, whatever failed or stopped in between.                           *)
AckedIsDurable ==
    \A i \in 1..delivered : i \notin pending => alerts[stream[i]] # "none" \/ i \in dead

(* An event is announced at most once, although it is sent and posted       *)
(* several times and redelivered across failures.                           *)
RoutedAtMostOnce == \A e \in Events : routed[e] <= 1

(* The outbox and the event table agree: an alert recorded as queued has a  *)
(* row for its key, and no row stems from one that is not, that is          *)
(* restricted, or that the contract passes only once expired.               *)
FanoutMatches ==
    /\ \A e \in Events : alerts[e] = "queued" => rows[KeyOf[e]] # "none"
    /\ \A k \in Keys : rows[k] # "none" => alerts[rows[k]] = "queued" /\ ClassOf[rows[k]] \notin {"restricted", "overfull"}

(* When nothing fails, an entry that was taken up is acknowledged, except   *)
(* one whose event the contract passes and the table refuses: that one is   *)
(* neither recorded nor dead-lettered, and stays pending for good           *)
(* (accept_event, consume_once).                                            *)
TakenUp(i) == i \notin batch /\ task[Consumer].entry # i
StrandedOnlyByFailure ==
    faults = 0 => \A i \in 1..delivered :
        TakenUp(i) => (i \in pending <=> ClassOf[stream[i]] = "unstorable")

=============================================================================
