---------------------------- MODULE SignalFusion ----------------------------
(***************************************************************************)
(* From a scored symbol to a paper opportunity.  The core scorer decides   *)
(* one verdict per symbol and cycle (core-scorer/app/regime_cycle.py,      *)
(* paper_producer.py), stores it, asks PostgreSQL whether the side already *)
(* has a live opportunity and, if not, appends the signal to a Redis       *)
(* stream.  The fusion engine (fusion-engine/app/worker.py) reads the      *)
(* stream through a consumer group, inserts one opportunity per signal and *)
(* acknowledges the entry afterwards.  An exception abandons the rest of a *)
(* batch; what is left pending is claimed again only when the worker       *)
(* starts, and only if it has been idle long enough.                       *)
(*                                                                         *)
(* Time is counted in scoring cycles.  Refused verdicts are stored too but *)
(* nothing here reads them, so `signals' holds the admitted ones.          *)
(***************************************************************************)
EXTENDS Integers, Sequences, FiniteSets

CONSTANTS
  Symbols,      \* the configured symbols
  Hold,         \* DIRECTION_HOLD_CYCLES: how long an admitted side is held
  Ttl,          \* OPPORTUNITY_TTL_SECONDS: how long an opportunity lives
  Idle,         \* CLAIM_IDLE_MS: how long an entry is pending before a claim
  ReadCount,    \* STREAM_READ_COUNT: entries per read
  ClaimBatch,   \* CLAIM_BATCH: pending entries one scan looks at
  MaxTime,      \* bound: the last cycle
  MaxSignals,   \* bound: admitted verdicts
  MaxFaults     \* bound: failed calls and crashes

ASSUME ConstantsAreNat ==
  /\ {Hold, Ttl, Idle, MaxTime, MaxSignals, MaxFaults} \subseteq Nat
  /\ {ReadCount, ClaimBatch} \subseteq Nat \ {0}

Sides == {"LONG", "SHORT"}
Strengths == {"hold", "enter"}   \* past the deadband; past the entry threshold

VARIABLES
  now,      \* the clock
  signals,  \* admitted verdicts, oldest first
  stream,   \* x:signals.funding: the signal each entry carries
  read,     \* how many entries the group has delivered
  pel,      \* the group's pending entries, each with its last delivery time
  opps,     \* the opportunities table
  scorer,   \* the scoring loop
  worker,   \* the fusion worker
  faults,   \* faults so far
  cut       \* history: entries whose delivery an exception or a crash cut short

vars == <<now, signals, stream, read, pel, opps, scorer, worker, faults, cut>>

Signal == [symbol: Symbols, side: Sides, strength: Strengths, at: Nat, saw: Nat]
Scorer == [at: {"idle", "check", "publish"}, done: SUBSET Symbols, wake: Nat]
Worker == [at: {"down", "scan", "poll", "insert", "ack"},
           batch: SUBSET Nat, recovering: BOOLEAN]

Entries == DOMAIN stream
Last == Len(signals)
SignalOf(e) == stream[e]
Stored(s) == \E i \in DOMAIN opps : opps[i].signal = s
SameSide(s, t) == /\ signals[s].symbol = signals[t].symbol
                  /\ signals[s].side = signals[t].side

Init ==
  /\ now = 0 /\ read = 0 /\ faults = 0
  /\ signals = <<>> /\ stream = <<>> /\ opps = <<>>
  /\ pel = <<>> /\ cut = {}
  /\ scorer = [at |-> "idle", done |-> {}, wake |-> 0]
  /\ worker = [at |-> "down", batch |-> {}, recovering |-> FALSE]

-----------------------------------------------------------------------------
(* The scoring loop.                                                       *)

\* Mutant: The held side has no age bound.
HeldEver(symbol, side) ==
  \E s \in DOMAIN signals :
    /\ signals[s].symbol = symbol /\ signals[s].side = side
    /\ \A t \in s + 1 .. Last : signals[t].symbol # symbol

\* The side the symbol holds: that of its latest admission, while current.
Held(symbol, side) ==
  \E s \in DOMAIN signals :
    /\ signals[s].symbol = symbol /\ signals[s].side = side
    /\ signals[s].at > now - Hold
    /\ \A t \in s + 1 .. Last : signals[t].symbol # symbol

\* Holding a side needs the deadband only; taking one needs the entry score.
Admitted(symbol, side, strength) == strength = "enter" \/ Held(symbol, side)

\* The loop is done with its symbol, and with the cycle after the last one.
Finished(symbol) ==
  IF scorer.done \cup {symbol} = Symbols
  THEN [at |-> "idle", done |-> {}, wake |-> now + 1]
  ELSE [at |-> "idle", done |-> scorer.done \cup {symbol}, wake |-> scorer.wake]

Turn(symbol) == scorer.at = "idle" /\ scorer.wake <= now /\ symbol \in Symbols \ scorer.done

\* A verdict is admitted and stored.
Admit(symbol) ==
  \E side \in Sides, strength \in Strengths :
    /\ Turn(symbol) /\ Last < MaxSignals
    /\ Admitted(symbol, side, strength)
    /\ signals' = Append(signals, [symbol |-> symbol, side |-> side,
                                   strength |-> strength, at |-> now, saw |-> 0])
    /\ scorer' = [scorer EXCEPT !.at = "check"]
    /\ UNCHANGED <<now, stream, read, pel, opps, worker, faults, cut>>

\* No evidence, a refusal, or a failure before the verdict is stored.
Pass(symbol) ==
  /\ Turn(symbol)
  /\ scorer' = Finished(symbol)
  /\ UNCHANGED <<now, signals, stream, read, pel, opps, worker, faults, cut>>

\* Mutant: Only the newest opportunity is looked at.
ActiveLatest(s) ==
  /\ opps # <<>>
  /\ SameSide(opps[Len(opps)].signal, s) /\ opps[Len(opps)].expires > now

\* An unexpired opportunity holds the side of the new signal.
ActiveOpportunity(s) ==
  \E i \in DOMAIN opps : SameSide(opps[i].signal, s) /\ opps[i].expires > now

\* A side that has a live opportunity is recorded but not published again.
Check ==
  /\ scorer.at = "check"
  /\ signals' = [signals EXCEPT ![Last].saw = Len(opps)]
  /\ scorer' = IF ActiveOpportunity(Last) THEN Finished(signals[Last].symbol)
               ELSE [scorer EXCEPT !.at = "publish"]
  /\ UNCHANGED <<now, stream, read, pel, opps, worker, faults, cut>>

Publish ==
  /\ scorer.at = "publish"
  /\ stream' = Append(stream, Last)
  /\ scorer' = Finished(signals[Last].symbol)
  /\ UNCHANGED <<now, signals, read, pel, opps, worker, faults, cut>>

Fault == faults < MaxFaults /\ faults' = faults + 1

\* PostgreSQL or Redis fails: the loop logs it and goes on with the cycle.
CycleFails ==
  /\ scorer.at # "idle" /\ Fault
  /\ scorer' = Finished(signals[Last].symbol)
  /\ UNCHANGED <<now, signals, stream, read, pel, opps, worker, cut>>

\* The scorer is restarted: a new cycle begins at once.
ScorerCrashes ==
  /\ Fault
  /\ scorer' = [at |-> "idle", done |-> {}, wake |-> now]
  /\ UNCHANGED <<now, signals, stream, read, pel, opps, worker, cut>>

-----------------------------------------------------------------------------
(* The fusion worker.                                                      *)

\* Mutant: The group starts at the stream's end.
StartAtEnd ==
  /\ worker.at = "down"
  /\ read' = Len(stream)
  /\ worker' = [at |-> "scan", batch |-> {}, recovering |-> TRUE]
  /\ UNCHANGED <<now, signals, stream, pel, opps, scorer, faults, cut>>

\* The container starts, the group exists from the stream's first entry.
Start ==
  /\ worker.at = "down"
  /\ worker' = [at |-> "scan", batch |-> {}, recovering |-> TRUE]
  /\ UNCHANGED <<now, signals, stream, read, pel, opps, scorer, faults, cut>>

\* Recovery looks at the oldest ClaimBatch pending entries and claims those
\* idle long enough; with none of them it is over.
Stale ==
  {e \in DOMAIN pel : /\ pel[e] + Idle <= now
                      /\ Cardinality({f \in DOMAIN pel : f < e}) < ClaimBatch}

Scan ==
  /\ worker.at = "scan"
  /\ pel' = [e \in DOMAIN pel |-> IF e \in Stale THEN now ELSE pel[e]]
  /\ worker' = IF Stale = {} THEN [worker EXCEPT !.at = "poll", !.recovering = FALSE]
               ELSE [worker EXCEPT !.at = "insert", !.batch = Stale]
  /\ UNCHANGED <<now, signals, stream, read, opps, scorer, faults, cut>>

\* The next entries nobody was given yet, up to a full batch.
Delivered == IF read + ReadCount < Len(stream) THEN read + ReadCount ELSE Len(stream)
Fresh == read + 1 .. Delivered

Poll ==
  /\ worker.at = "poll" /\ Fresh # {}
  /\ read' = Delivered
  /\ pel' = [e \in DOMAIN pel \cup Fresh |-> IF e \in Fresh THEN now ELSE pel[e]]
  /\ worker' = [worker EXCEPT !.at = "insert", !.batch = Fresh]
  /\ UNCHANGED <<now, signals, stream, opps, scorer, faults, cut>>

\* The entry in hand: a batch is worked off in stream order.
Entry == CHOOSE e \in worker.batch : \A f \in worker.batch : e <= f

\* One opportunity per signal: a second insert of a signal does nothing.
Insert ==
  /\ worker.at = "insert"
  /\ opps' = IF Stored(SignalOf(Entry)) THEN opps
             ELSE Append(opps, [signal |-> SignalOf(Entry), at |-> now,
                                expires |-> now + Ttl])
  /\ worker' = [worker EXCEPT !.at = "ack"]
  /\ UNCHANGED <<now, signals, stream, read, pel, scorer, faults, cut>>

\* The entry is acknowledged and the next one taken; after the last, recovery
\* scans again and the main loop reads again.
Ack ==
  /\ worker.at = "ack"
  /\ pel' = [e \in DOMAIN pel \ {Entry} |-> pel[e]]
  /\ worker' = [worker EXCEPT
       !.batch = @ \ {Entry},
       !.at = IF worker.batch # {Entry} THEN "insert"
              ELSE IF worker.recovering THEN "scan" ELSE "poll"]
  /\ UNCHANGED <<now, signals, stream, read, opps, scorer, faults, cut>>

\* Mutant: Every exception is treated as a parsing error, which is acknowledged.
BatchFailsAcked ==
  /\ worker.at \in {"scan", "insert", "ack"} /\ Fault
  /\ worker' = [at |-> "poll", batch |-> {}, recovering |-> FALSE]
  /\ pel' = [e \in DOMAIN pel \ worker.batch |-> pel[e]]
  /\ cut' = cut \cup worker.batch
  /\ UNCHANGED <<now, signals, stream, read, opps, scorer>>

\* An exception from PostgreSQL or Redis ends the batch, and recovery with it.
BatchFails ==
  /\ worker.at \in {"scan", "insert", "ack"} /\ Fault
  /\ worker' = [at |-> "poll", batch |-> {}, recovering |-> FALSE]
  /\ cut' = cut \cup worker.batch
  /\ UNCHANGED <<now, signals, stream, read, pel, opps, scorer>>

WorkerCrashes ==
  /\ worker.at # "down" /\ Fault
  /\ worker' = [at |-> "down", batch |-> {}, recovering |-> FALSE]
  /\ cut' = cut \cup worker.batch
  /\ UNCHANGED <<now, signals, stream, read, pel, opps, scorer>>

Tick ==
  /\ now < MaxTime
  /\ now' = now + 1
  /\ UNCHANGED <<signals, stream, read, pel, opps, scorer, worker, faults, cut>>

-----------------------------------------------------------------------------
Work == Start \/ Scan \/ Poll \/ Insert \/ Ack

Next ==
  \/ \E symbol \in Symbols : Admit(symbol) \/ Pass(symbol)
  \/ Check \/ Publish \/ CycleFails \/ ScorerCrashes
  \/ Work \/ BatchFails \/ WorkerCrashes
  \/ Tick

Spec == Init /\ [][Next]_vars

(* The worker's loop goes on and its container restarts (restart:          *)
(* unless-stopped); nothing is assumed of the scorer or the clock.         *)
FairSpec == Spec /\ WF_vars(Work)

-----------------------------------------------------------------------------
\* Every variable has its type; the worker holds only entries still pending,
\* and the group never counts past the stream (run_worker, XREADGROUP).
TypeOK ==
  /\ now \in Nat /\ read \in 0 .. Len(stream) /\ faults \in 0 .. MaxFaults
  /\ signals \in Seq(Signal)
  /\ stream \in Seq(1 .. Len(signals))
  /\ opps \in Seq([signal: 1 .. Len(signals), at: Nat, expires: Nat])
  /\ DOMAIN pel \subseteq 1 .. read /\ \A e \in DOMAIN pel : pel[e] \in 0 .. now
  /\ scorer \in Scorer /\ (scorer.at # "idle" => Last > 0)
  /\ worker \in Worker /\ worker.batch \subseteq DOMAIN pel
  /\ (worker.at \in {"insert", "ack"} <=> worker.batch # {})
  /\ cut \subseteq 1 .. read

\* An entry the group was given is stored as an opportunity or still pending,
\* whatever fails between the read, the insert and the acknowledgement.
UnstoredStaysPending ==
  \A e \in 1 .. read : Stored(SignalOf(e)) \/ e \in DOMAIN pel

\* However often an entry is delivered, its signal makes one opportunity.
OnePerSignal ==
  \A i, j \in DOMAIN opps : opps[i].signal = opps[j].signal => i = j

\* A second opportunity opens on a side that has a live one only when the first
\* was stored after the scorer had asked on behalf of the second.
DoublesRaced ==
  \A i, k \in DOMAIN opps :
    /\ i < k /\ SameSide(opps[i].signal, opps[k].signal)
    /\ opps[k].at < opps[i].expires
    => signals[opps[k].signal].saw < i

\* A side held on a weak score goes back, admission by admission and with no
\* gap as long as Hold and no other side between, to a score that earned entry.
HeldSideWasEarned ==
  \A s \in DOMAIN signals :
    \E first \in 1 .. s :
      /\ SameSide(first, s) /\ signals[first].strength = "enter"
      /\ \A t \in first + 1 .. s : signals[t].symbol = signals[s].symbol =>
           /\ SameSide(t, s)
           /\ \E p \in first .. t - 1 : /\ SameSide(p, s)
                                      /\ signals[t].at < signals[p].at + Hold

\* A late or repeated delivery never gives a stored opportunity a new life.
NeverRevived == [][\A i \in DOMAIN opps : opps'[i] = opps[i]]_vars

\* Every published signal becomes an opportunity, unless a failure or a crash
\* ended the batch that delivered it.
PublishedIsStored ==
  \A s \in 1 .. MaxSignals :
    (\E e \in Entries : SignalOf(e) = s)
      ~> (Stored(s) \/ \E e \in cut : SignalOf(e) = s)

=============================================================================
