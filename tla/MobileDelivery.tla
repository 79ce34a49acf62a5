---------------------------- MODULE MobileDelivery ----------------------------
(***************************************************************************)
(* The notification outbox of the state API: mobile_alerts.py (producer),  *)
(* mobile_dispatch.py and mobile_delivery.py (the worker's attempt and the *)
(* retry policy), mobile_web_push_sender.py and _store.py (browsers), and  *)
(* mobile_ack_token.py and mobile_tap_ack.py (acknowledgements).           *)
(*                                                                         *)
(* One worker loop per process wakes every Period, queues what happened,   *)
(* sweeps, claims at most one row and attempts it.  The operator, the      *)
(* phone, quiet hours and crashes interleave with its steps.  There is one *)
(* phone; phones meet only in the queue the worker serves oldest first.    *)
(*                                                                         *)
(* Time is counted in units, and a row holds what is left of each deadline *)
(* rather than the deadline: `wait` until next_attempt_at, `lease` until   *)
(* lease_until, and `age` since created_at, up to Expiry.                  *)
(***************************************************************************)
EXTENDS Integers, FiniteSets, FiniteSetsExt

CONSTANTS
    NumRows,      \* bound: outbox rows, numbered in the order they are created
    Browsers,     \* the phone's browsers that can hold a push subscription
    MaxAttempts,  \* attempts a row is given (five)
    FirstRetry,   \* the wait after the first failed attempt (15 s)
    MaxRetry,     \* the longest wait between attempts (120 s)
    Lease,        \* how long a claim holds (60 s)
    Expiry,       \* how long after its creation a row is served (600 s)
    Period,       \* the worker's sleep between ticks (10 s)
    Budget,       \* automatic messages the phone takes in a day
    MaxBurst,     \* bound: events one tick finds new
    Answers,      \* what the provider does: among accepted, transient, refused
    RouterAges,   \* how much of that window the alert router's rows have lost when queued
    MaxCrashes,   \* bound: crashes and failed statements of the worker
    MaxChanges    \* bound: changes of preference, quiet hours and enrolment

Rows     == 1..NumRows
Attempts == 0..MaxAttempts

ASSUME NumbersAssumption ==
    /\ NumRows \in Nat /\ MaxAttempts \in Nat \ {0} /\ Lease \in Nat \ {0} /\ Expiry \in Nat \ {0}
    /\ Period \in Nat \ {0} /\ Budget \in Nat /\ MaxBurst \in Nat
    /\ MaxCrashes \in Nat /\ MaxChanges \in Nat
ASSUME RetryAssumption == FirstRetry \in Nat \ {0} /\ MaxRetry \in 1..Expiry
ASSUME AnswersAssumption == Answers \subseteq {"accepted", "transient", "refused"}
ASSUME AgesAssumption == RouterAges \subseteq 0..Expiry - 1

VARIABLES
    outbox,   \* mobile_alert_outbox, by row
    made,     \* rows created so far
    device,   \* the mobile_alert_devices row: enabled, opted in; and whether quiet hours are on
    subs,     \* browsers whose subscription is not marked expired
    worker,   \* the worker loop: what it does next and the attempt in its hands
    phone,    \* history: the tokens of the notifications of each row that reached the phone
    calls,    \* history: provider calls made for each row
    taps,     \* history: tap acknowledgements accepted for each row
    crashes, changes

vars == <<outbox, made, device, subs, worker, phone, calls, taps, crashes, changes>>

-----------------------------------------------------------------------------
(* Rows. *)

Live     == {"queued", "retry", "sending"}
Statuses == Live \union {"absent", "provider_accepted", "operator_confirmed", "expired", "dead_letter"}
Reasons  == {"none", "preference", "budget", "refused", "exhausted"}

Row == [status: Statuses, kind: {"test", "attention", "routed"}, attempts: Attempts, wait: 0..Expiry, lease: 0..Lease,
        age: 0..Expiry, token: Attempts, ack: {"none", "operator", "device"}, why: Reasons]

Blank == [status |-> "absent", kind |-> "test", attempts |-> 0, wait |-> 0, lease |-> 0, age |-> 0,
          token |-> 0, ack |-> "none", why |-> "none"]
Made(kind) == [Blank EXCEPT !.status = "queued", !.kind = kind]

Drop(x, why) == [x EXCEPT !.status = "expired", !.why = why, !.lease = 0]

(* backoff_seconds: doubling from the first wait, capped. *)
Doubling[n \in 1..MaxAttempts] == IF n = 1 THEN FirstRetry ELSE 2 * Doubling[n - 1]
Backoff(n) == Min({Doubling[n], MaxRetry})

(* Mutant of Sweep: a claimed row is not expired. *)
SweepUnclaimed(x) ==
    IF x.status \in {"queued", "retry"} /\ x.age = Expiry THEN [x EXCEPT !.status = "expired", !.lease = 0]
    ELSE IF x.status \in Live /\ x.attempts >= MaxAttempts /\ (x.status = "sending" => x.lease = 0)
         THEN [x EXCEPT !.status = "dead_letter", !.lease = 0, !.why = "exhausted"] ELSE x

(* Mutant of Sweep: the dead letter is written whatever the status. *)
SweepAnyStatus(x) ==
    IF x.status \in Live /\ x.age = Expiry THEN [x EXCEPT !.status = "expired", !.lease = 0]
    ELSE IF x.attempts >= MaxAttempts /\ x.lease = 0 THEN [x EXCEPT !.status = "dead_letter", !.why = "exhausted"]
    ELSE x

(* Both sweeps of a tick: expire a row past its window, dead-letter one that *)
(* can never be claimed again; a live lease is mid-attempt and left alone.   *)
Sweep(x) ==
    IF x.status \in Live /\ x.age = Expiry THEN [x EXCEPT !.status = "expired", !.lease = 0]
    ELSE IF x.status \in Live /\ x.attempts >= MaxAttempts /\ (x.status = "sending" => x.lease = 0)
         THEN [x EXCEPT !.status = "dead_letter", !.lease = 0, !.why = IF @ = "none" THEN "exhausted" ELSE @]
         ELSE x

Claimable(x) ==
    /\ device.enabled
    /\ x.age < Expiry /\ x.attempts < MaxAttempts
    /\ \/ x.status \in {"queued", "retry"} /\ x.wait = 0
       \/ x.status = "sending" /\ x.lease = 0

(* Mutant of Claimed: taking over a lapsed lease counts no attempt. *)
ClaimedAgain(x) ==
    [x EXCEPT !.status = "sending", !.attempts = IF x.status = "sending" THEN @ ELSE @ + 1, !.lease = Lease]

Claimed(x) == [x EXCEPT !.status = "sending", !.attempts = @ + 1, !.lease = Lease]

Accepted(x) == [x EXCEPT !.status = "provider_accepted", !.lease = 0]

(* Mutant of Failed: the limit is one attempt early. *)
FailedEarly(x, answer) ==
    IF answer = "refused" \/ x.attempts + 1 >= MaxAttempts
    THEN [x EXCEPT !.status = "dead_letter", !.why = IF answer = "refused" THEN answer ELSE "exhausted", !.lease = 0]
    ELSE [x EXCEPT !.status = "retry", !.wait = Backoff(x.attempts), !.lease = 0]

(* outcome and record_failure: a refusal is final, the last attempt too. *)
Failed(x, answer) ==
    IF answer = "refused"
    THEN [x EXCEPT !.status = "dead_letter", !.why = "refused", !.lease = 0]
    ELSE IF x.attempts >= MaxAttempts
         THEN [x EXCEPT !.status = "dead_letter", !.why = "exhausted", !.lease = 0]
         ELSE [x EXCEPT !.status = "retry", !.wait = Backoff(x.attempts), !.lease = 0]

(* Automatic messages counted against the budget, the alert router's among  *)
(* them: dropped ones are not.                                              *)
Counted(o) ==
    {r \in Rows : o[r].status # "absent" /\ o[r].kind # "test" /\ o[r].why \notin {"preference", "budget"}}

-----------------------------------------------------------------------------
(* The worker. *)

Results == {"accepted", "gone", "retry", "refused"}
Rest    == [pc |-> "idle", row |-> 0, browsers |-> {}, answer |-> "none", due |-> Period]
Worker  == [pc: {"idle", "claim", "check", "issue", "send", "store", "record"}, row: 0..NumRows,
            browsers: SUBSET Browsers, answer: Answers \union {"none", "lost"}, due: 0..Period]

Init ==
    /\ outbox = [r \in Rows |-> Blank]
    /\ made = 0
    /\ device = [enabled |-> TRUE, opted |-> TRUE, quiet |-> FALSE]
    /\ subs = Browsers
    /\ worker = [Rest EXCEPT !.due = 0]
    /\ phone = [r \in Rows |-> {}]
    /\ calls = [r \in Rows |-> 0]
    /\ taps = [r \in Rows |-> 0]
    /\ crashes = 0
    /\ changes = 0

(* An event is looked for only for a phone that is enabled and opted in. *)
Listening == device.enabled /\ device.opted

(* Mutant of Produce: the budget is counted once for the whole burst. *)
ProduceOnce ==
    /\ worker.pc = "idle" /\ worker.due = 0 /\ Listening
    /\ \E n \in 0..MaxBurst :
          /\ made + n <= NumRows
          /\ made' = made + n
          /\ outbox' = [r \in Rows |->
                IF r \notin made + 1 .. made + n THEN outbox[r]
                ELSE IF Cardinality(Counted(outbox)) >= Budget THEN Drop(Made("attention"), "budget")
                ELSE Made("attention")]
    /\ worker' = [worker EXCEPT !.pc = "claim"]
    /\ UNCHANGED <<device, subs, phone, calls, taps, crashes, changes>>

(* produce_paper_events and produce_control_events: n events are new.  Each *)
(* is queued, or recorded as dropped for quiet hours or a spent budget.     *)
Produce ==
    /\ worker.pc = "idle" /\ worker.due = 0
    /\ \E n \in 0..MaxBurst :
          /\ made + n <= NumRows
          /\ n > 0 => Listening
          /\ made' = made + n
          /\ LET used == Cardinality(Counted(outbox)) IN
             outbox' = [r \in Rows |->
                IF r \notin made + 1 .. made + n THEN outbox[r]
                ELSE IF device.quiet THEN Drop(Made("attention"), "preference")
                ELSE IF used + (r - made - 1) >= Budget THEN Drop(Made("attention"), "budget")
                ELSE Made("attention")]
    /\ worker' = [worker EXCEPT !.pc = "claim"]
    /\ UNCHANGED <<device, subs, phone, calls, taps, crashes, changes>>

(* dispatch: sweep, then claim the oldest row that may be attempted. *)
Claim ==
    /\ worker.pc = "claim"
    /\ LET swept == [r \in Rows |-> Sweep(outbox[r])]
           ready == {r \in Rows : Claimable(swept[r])}
       IN  \/ ready = {} /\ outbox' = swept /\ worker' = Rest
           \/ \E r \in ready :
                 /\ \A other \in ready : r <= other
                 /\ outbox' = [swept EXCEPT ![r] = Claimed(@)]
                 /\ worker' = [worker EXCEPT !.pc = "check", !.row = r]
    /\ UNCHANGED <<made, device, subs, phone, calls, taps, crashes, changes>>

(* May it still be sent?  A phone found disabled leaves the claim to lapse; *)
(* an automatic message whose phone is then found disabled, opted out or    *)
(* quiet is dropped.  The phone is read twice, so either may be the one.    *)
Check ==
    /\ worker.pc = "check"
    /\ LET barred == /\ outbox[worker.row].kind = "attention"
                     /\ ~device.enabled \/ ~device.opted \/ device.quiet
       IN  \/ ~device.enabled /\ worker' = Rest /\ UNCHANGED outbox
           \/ barred /\ worker' = Rest /\ outbox' = [outbox EXCEPT ![worker.row] = Drop(@, "preference")]
           \/ ~barred /\ device.enabled /\ worker' = [worker EXCEPT !.pc = "issue"] /\ UNCHANGED outbox
    /\ UNCHANGED <<made, device, subs, phone, calls, taps, crashes, changes>>

(* Choose the transport; a Web Push attempt replaces the tap token's digest *)
(* and an ntfy attempt clears it, before anything is sent.                  *)
Issue ==
    /\ worker.pc = "issue"
    /\ outbox' = [outbox EXCEPT ![worker.row].token = IF subs = {} THEN 0 ELSE outbox[worker.row].attempts]
    /\ worker' = [worker EXCEPT !.pc = "send", !.browsers = subs]
    /\ UNCHANGED <<made, device, subs, phone, calls, taps, crashes, changes>>

(* What one attempt through the browsers means for the row (summary): any   *)
(* acceptance, else anything worth trying again, else a refusal, which is   *)
(* final when it is a 4xx; when every browser is gone, ntfy is next.        *)
Summary(f) ==
    LET seen == {f[b] : b \in DOMAIN f} IN
    IF "accepted" \in seen THEN {"accepted"}
    ELSE IF "retry" \in seen THEN {"transient"}
    ELSE IF "refused" \in seen THEN {"refused", "transient"} ELSE {"transient"}

(* The provider call through ntfy, whose message carries no token. *)
SendNtfy ==
    /\ worker.pc = "send" /\ worker.browsers = {}
    /\ \E answer \in Answers : worker' = [worker EXCEPT !.pc = "record", !.answer = answer]
    /\ calls' = [calls EXCEPT ![worker.row] = @ + 1]
    /\ UNCHANGED <<outbox, made, device, subs, phone, taps, crashes, changes>>

(* The provider call through every browser.  The notification may appear    *)
(* when one accepted or its answer was lost, and need not in either case.   *)
(* Afterwards worker.browsers holds the browsers that turned out gone.      *)
SendWebPush ==
    /\ worker.pc = "send" /\ worker.browsers # {}
    /\ \E f \in [worker.browsers -> Results] : \E answer \in Summary(f) \intersect Answers :
          /\ worker' = [worker EXCEPT !.pc = "store", !.answer = answer,
                                      !.browsers = {b \in worker.browsers : f[b] = "gone"}]
          /\ \E shown \in SUBSET (IF \E b \in DOMAIN f : f[b] \in {"accepted", "retry"}
                                  THEN {outbox[worker.row].token} ELSE {}) :
                phone' = [phone EXCEPT ![worker.row] = @ \union shown]
    /\ calls' = [calls EXCEPT ![worker.row] = @ + 1]
    /\ UNCHANGED <<outbox, made, device, subs, taps, crashes, changes>>

(* record_result: a browser whose subscription is gone is marked expired. *)
StoreResults ==
    /\ worker.pc = "store"
    /\ subs' = subs \ worker.browsers
    /\ worker' = [worker EXCEPT !.pc = "record", !.browsers = {}]
    /\ UNCHANGED <<outbox, made, device, phone, calls, taps, crashes, changes>>

(* The outcome is written by id alone, whatever the row says by then: also  *)
(* over an acceptance the worker believes lost.                             *)
Record ==
    /\ worker.pc = "record"
    /\ outbox' = [outbox EXCEPT ![worker.row] =
                     IF worker.answer = "accepted" THEN Accepted(@) ELSE Failed(@, worker.answer)]
    /\ worker' = Rest
    /\ UNCHANGED <<made, device, subs, phone, calls, taps, crashes, changes>>

(* A statement that fails after the call is caught with what the call       *)
(* raises: the attempt is recorded next as one that failed.  A browser's    *)
(* result may or may not be stored by then.                                 *)
StoreResultsLost ==
    /\ worker.pc = "store"
    /\ crashes < MaxCrashes
    /\ \E stored \in SUBSET worker.browsers : subs' = subs \ stored
    /\ worker' = [worker EXCEPT !.pc = "record", !.browsers = {}, !.answer = "lost"]
    /\ crashes' = crashes + 1
    /\ UNCHANGED <<outbox, made, device, phone, calls, taps, changes>>

(* So is an acceptance whose statement fails, and one that is committed     *)
(* although its reply is lost.                                              *)
AcceptanceLost ==
    /\ worker.pc = "record" /\ worker.answer = "accepted"
    /\ crashes < MaxCrashes
    /\ \/ UNCHANGED outbox
       \/ outbox' = [outbox EXCEPT ![worker.row] = Accepted(@)]
    /\ worker' = [worker EXCEPT !.answer = "lost"]
    /\ crashes' = crashes + 1
    /\ UNCHANGED <<made, device, subs, phone, calls, taps, changes>>

(* The process stops, or an error ends the attempt before its outcome is    *)
(* written: the row stays claimed until its lease lapses.                   *)
Crash ==
    /\ worker.pc # "idle"
    /\ crashes < MaxCrashes
    /\ worker' = Rest
    /\ crashes' = crashes + 1
    /\ UNCHANGED <<outbox, made, device, subs, phone, calls, taps, changes>>

-----------------------------------------------------------------------------
(* The operator and the phone. *)

SendTest ==
    /\ made < NumRows
    /\ device.enabled
    /\ made' = made + 1
    /\ outbox' = [outbox EXCEPT ![made'] = Made("test")]
    /\ UNCHANGED <<device, subs, worker, phone, calls, taps, crashes, changes>>

(* The alert router queues an alert of its own, under a key no preference   *)
(* governs, with the alert's expiry: the whole window, or part of it.       *)
Route ==
    /\ made < NumRows
    /\ device.enabled
    /\ made' = made + 1
    /\ \E age \in RouterAges : outbox' = [outbox EXCEPT ![made'] = [Made("routed") EXCEPT !.age = age]]
    /\ UNCHANGED <<device, subs, worker, phone, calls, taps, crashes, changes>>

(* The operator attests a received message; the first acknowledgement stays. *)
Confirm(r) ==
    /\ outbox[r].status = "provider_accepted"
    /\ outbox' = [outbox EXCEPT ![r].status = "operator_confirmed", ![r].ack = IF @ = "none" THEN "operator" ELSE @]
    /\ UNCHANGED <<made, device, subs, worker, phone, calls, taps, crashes, changes>>

Acknowledge(r) ==
    /\ outbox[r].ack = "none" /\ outbox[r].attempts > 0
    /\ outbox' = [outbox EXCEPT ![r].ack = "operator"]
    /\ UNCHANGED <<made, device, subs, worker, phone, calls, taps, crashes, changes>>

(* Mutant of Tap: the digest is not cleared. *)
TapAgain(r, k) ==
    /\ k \in phone[r] /\ k = outbox[r].token
    /\ taps[r] <= MaxAttempts
    /\ outbox' = [outbox EXCEPT ![r].ack = IF @ = "none" THEN "device" ELSE @]
    /\ taps' = [taps EXCEPT ![r] = @ + 1]
    /\ UNCHANGED <<made, device, subs, worker, phone, calls, crashes, changes>>

(* A tap posts the token the notification carried; a token whose digest is  *)
(* no longer stored is refused, which changes nothing.                      *)
Tap(r, k) ==
    /\ k \in phone[r] /\ k = outbox[r].token
    /\ outbox' = [outbox EXCEPT ![r].token = 0, ![r].ack = IF @ = "none" THEN "device" ELSE @]
    /\ taps' = [taps EXCEPT ![r] = @ + 1]
    /\ UNCHANGED <<made, device, subs, worker, phone, calls, crashes, changes>>

(* A token works for an hour, longer than any row here is served. *)
TokenLapses(r) ==
    /\ outbox[r].token # 0 /\ outbox[r].status \notin Live
    /\ outbox' = [outbox EXCEPT ![r].token = 0]
    /\ UNCHANGED <<made, device, subs, worker, phone, calls, taps, crashes, changes>>

Changing ==
    /\ changes < MaxChanges
    /\ changes' = changes + 1
    /\ UNCHANGED <<outbox, made, worker, phone, calls, taps, crashes>>

(* Opting in or out needs an enabled phone. *)
SetPreferences == Changing /\ device.enabled /\ device' = [device EXCEPT !.opted = ~@] /\ UNCHANGED subs

(* Quiet hours come and go, by the clock or by preference. *)
QuietHours == Changing /\ device' = [device EXCEPT !.quiet = ~@] /\ UNCHANGED subs

(* A disabled phone is never enabled again. *)
Disable == Changing /\ device' = [device EXCEPT !.enabled = FALSE] /\ UNCHANGED subs

(* A browser subscribes, or subscribes again, which revives it; or leaves. *)
Subscribe(b)   == Changing /\ device.enabled /\ subs' = subs \union {b} /\ UNCHANGED device
Unsubscribe(b) == Changing /\ subs' = subs \ {b} /\ UNCHANGED device

DeviceChanges == SetPreferences \/ QuietHours \/ Disable \/ \E b \in Browsers : Subscribe(b) \/ Unsubscribe(b)

(* What is left of a deadline after one more unit. *)
Less(n) == IF n = 0 THEN 0 ELSE n - 1

(* Finished rows, and the two finished by an acceptance. *)
Finished(x) == x.status \notin Live \union {"absent"}
Done(x)     == x.status \in {"provider_accepted", "operator_confirmed"}

(* The worker has yet to record as failed an attempt of row r. *)
Reviving(r) == worker.pc = "record" /\ worker.answer = "lost" /\ worker.row = r

(* One unit of time.  A finished row's deadlines are not read again, unless *)
(* its outcome is still to be written over.                                 *)
Pass ==
    /\ outbox' = [r \in Rows |->
          IF outbox[r].status \in Live \/ Reviving(r)
          THEN [outbox[r] EXCEPT !.age = Min({@ + 1, Expiry}), !.wait = Less(@), !.lease = Less(@)]
          ELSE outbox[r]]
    /\ worker' = [worker EXCEPT !.due = Less(@)]
    /\ UNCHANGED <<made, device, subs, phone, calls, taps, crashes, changes>>

-----------------------------------------------------------------------------
Working == Produce \/ Claim \/ Check \/ Issue \/ SendNtfy \/ SendWebPush \/ StoreResults \/ Record

Acting(r) == Confirm(r) \/ Acknowledge(r) \/ TokenLapses(r) \/ \E k \in Attempts : Tap(r, k)

Next ==
    \/ Working
    \/ StoreResultsLost \/ AcceptanceLost \/ Crash
    \/ SendTest \/ Route \/ DeviceChanges
    \/ \E r \in Rows : Acting(r)
    \/ Pass

Spec == Init /\ [][Next]_vars

(* The loop runs for ever: it catches what an attempt raises, sleeps and    *)
(* ticks again, and every provider call has a timeout; time passes.         *)
FairSpec == Spec /\ WF_vars(Working) /\ WF_vars(Pass)

-----------------------------------------------------------------------------
(* Every variable holds a value of its type. *)
TypeOK ==
    /\ outbox \in [Rows -> Row]
    /\ made \in 0..NumRows
    /\ device \in [enabled: BOOLEAN, opted: BOOLEAN, quiet: BOOLEAN]
    /\ subs \subseteq Browsers
    /\ worker \in Worker
    /\ phone \in [Rows -> SUBSET Attempts]
    /\ calls \in [Rows -> Nat] /\ taps \in [Rows -> Nat]
    /\ crashes \in 0..MaxCrashes /\ changes \in 0..MaxChanges

(* Nothing sweeps, drops or claims the row of an attempt until its outcome  *)
(* is written, by id alone: it is still claimed then, or accepted by the    *)
(* very attempt that is recorded as failed because the reply was lost.      *)
AttemptOwnsRow ==
    worker.pc \in {"check", "issue", "send", "store", "record"} =>
       \/ outbox[worker.row].status = "sending"
       \/ Reviving(worker.row) /\ Done(outbox[worker.row])

(* A row is never sent more often than the attempts counted on it, crashes, *)
(* lapsed leases and acceptances that could not be written included.        *)
CallsCounted == \A r \in Rows : calls[r] <= outbox[r].attempts

(* A finished row is not sent, and stays finished, except that an accepted  *)
(* one, confirmed or not, is queued again or given up on by the attempt     *)
(* that was accepted, when the reply to its acceptance was lost: expired    *)
(* and dead-lettered rows never come back (dispatch, record_failure).       *)
Follows(x, y) == \/ y.status = x.status
                 \/ x.status = "provider_accepted" /\ y.status = "operator_confirmed"
RevivedOnlyByLostReply ==
    [][\A r \in Rows : Finished(outbox[r]) =>
          /\ calls'[r] = calls[r]
          /\ \/ Follows(outbox[r], outbox'[r])
             \/ Done(outbox[r]) /\ Reviving(r) /\ outbox'[r].status \in {"retry", "dead_letter"}]_vars

(* A row is given up on for one of two reasons: the provider refused in a   *)
(* way that will not change, or every attempt was used, the last accepted   *)
(* perhaps without the worker knowing.                                      *)
DeadLetterEarned ==
    \A r \in Rows : outbox[r].status = "dead_letter" =>
       \/ outbox[r].why = "refused"
       \/ outbox[r].why = "exhausted" /\ outbox[r].attempts = MaxAttempts

(* Each notification shown can be acknowledged by at most one tap, however  *)
(* many taps, attempts and lost answers there are.                          *)
TapsSingleUse == \A r \in Rows : taps[r] <= Cardinality(phone[r])

(* The first acknowledgement is the one kept, by whichever path it came. *)
FirstAckKept == [][\A r \in Rows : outbox[r].ack # "none" => outbox'[r].ack = outbox[r].ack]_vars

(* The worker never queues a message past the phone's budget, whatever a    *)
(* burst, a test or the alert router added.                                 *)
BudgetHeld == Cardinality({r \in Counted(outbox) : outbox[r].kind = "attention"}) <= Budget

(* Every queued alert is settled for good, whatever crashes, opts out or    *)
(* expires, and however often a lost reply brought it back.                 *)
EveryRowSettles == \A r \in Rows : (outbox[r].status \in Live) ~> [](outbox[r].status \notin Live)

=============================================================================
