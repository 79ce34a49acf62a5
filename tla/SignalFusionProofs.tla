------------------------ MODULE SignalFusionProofs ------------------------
(***************************************************************************)
(* What SignalFusion promises for every set of symbols, every batch size,  *)
(* every timing constant and any number of cycles and faults.              *)
(***************************************************************************)
EXTENDS SignalFusion, TLAPS, WellFoundedInduction, SequenceTheorems

\* A batch that is not empty has an oldest entry, the entry in hand.
LEMMA OldestEntry ==
  ASSUME worker.batch \subseteq Nat, worker.batch # {}
  PROVE  Entry \in worker.batch
<1>1. PICK e \in worker.batch : \A f \in worker.batch : ~(<<f, e>> \in OpToRel(<, Nat))
  BY NatLessThanWellFounded, WFMin, Zenon
<1>2. \A f \in worker.batch : ~(f < e)
  BY <1>1, Zenon DEF OpToRel
<1>3. \E x \in worker.batch : \A f \in worker.batch : x <= f
  BY <1>2 DEF Worker
<1> QED
  BY <1>3 DEF Entry

-----------------------------------------------------------------------------
(* Types.                                                                  *)

\* The parts of TypeOK, for steps that touch some of them only.
CountsTyped == now \in Nat /\ faults \in 0 .. MaxFaults
TablesTyped ==
  /\ signals \in Seq(Signal) /\ stream \in Seq(1 .. Len(signals))
  /\ opps \in Seq([signal: 1 .. Len(signals), at: Nat, expires: Nat])
GroupTyped ==
  /\ read \in 0 .. Len(stream)
  /\ DOMAIN pel \subseteq 1 .. read /\ \A e \in DOMAIN pel : pel[e] \in 0 .. now
  /\ cut \subseteq 1 .. read
ScorerTyped == scorer \in Scorer /\ (scorer.at # "idle" => Last > 0)
WorkerTyped ==
  /\ worker \in Worker /\ worker.batch \subseteq DOMAIN pel
  /\ (worker.at \in {"insert", "ack"} <=> worker.batch # {})

LEMMA Parts ==
  ASSUME TypeOK
  PROVE  CountsTyped /\ TablesTyped /\ GroupTyped /\ ScorerTyped /\ WorkerTyped
BY DEF TypeOK, CountsTyped, TablesTyped, GroupTyped, ScorerTyped, WorkerTyped

LEMMA Assembled ==
  ASSUME CountsTyped', TablesTyped', GroupTyped', ScorerTyped', WorkerTyped'
  PROVE  TypeOK'
BY DEF TypeOK, CountsTyped, TablesTyped, GroupTyped, ScorerTyped, WorkerTyped

\* What the loop leaves behind when it is done with a symbol is a loop state.
LEMMA FinishedType ==
  ASSUME TypeOK, NEW symbol \in Symbols
  PROVE  Finished(symbol) \in Scorer /\ Finished(symbol).at = "idle"
BY DEF TypeOK, Finished, Scorer

\* TypeOK is an invariant: no entry is delivered past the stream's end, and the
\* batch in hand is always among the pending entries.
LEMMA InitTyped == ASSUME ConstantsAreNat, Init PROVE TypeOK
BY DEF Init, TypeOK, Scorer, Worker, ConstantsAreNat

LEMMA AdmitTyped ==
  ASSUME TypeOK, NEW symbol \in Symbols, Admit(symbol) PROVE TypeOK'
<1>1. PICK side \in Sides, strength \in Strengths :
        signals' = Append(signals, [symbol |-> symbol, side |-> side,
                                    strength |-> strength, at |-> now, saw |-> 0])
  BY DEF Admit
<1>2. [symbol |-> symbol, side |-> side, strength |-> strength, at |-> now, saw |-> 0] \in Signal
  BY DEF TypeOK, Signal
<1>3. signals' \in Seq(Signal) /\ Len(signals') = Len(signals) + 1
  BY <1>1, <1>2, AppendProperties DEF TypeOK
<1>n. Len(signals) \in Nat
  BY LenProperties DEF TypeOK
<1>4. 1 .. Len(signals) \subseteq 1 .. Len(signals')
  BY <1>3, <1>n
<1>5. [signal: 1 .. Len(signals), at: Nat, expires: Nat]
        \subseteq [signal: 1 .. Len(signals'), at: Nat, expires: Nat]
  BY <1>4
<1>a. stream' \in Seq(1 .. Len(signals'))
  BY <1>4, SeqMonotonic DEF TypeOK, Admit
<1>b. opps' \in Seq([signal: 1 .. Len(signals'), at: Nat, expires: Nat])
  BY <1>5, SeqMonotonic DEF TypeOK, Admit
<1>6. scorer' \in Scorer
  BY DEF Admit, TypeOK, Scorer
<1>7. Last' > 0
  BY <1>3, <1>n DEF Last
<1>8. /\ now' = now /\ faults' = faults /\ read' = read /\ stream' = stream
      /\ pel' = pel /\ cut' = cut /\ worker' = worker
  BY DEF Admit
<1>9. CountsTyped' /\ GroupTyped' /\ WorkerTyped'
  BY <1>8, Parts DEF CountsTyped, GroupTyped, WorkerTyped
<1>10. TablesTyped' /\ ScorerTyped'
  BY <1>3, <1>a, <1>b, <1>6, <1>7 DEF TablesTyped, ScorerTyped
<1> QED  BY <1>9, <1>10, Assembled

LEMMA LastSignal ==
  ASSUME TypeOK, scorer.at # "idle"
  PROVE  Last \in 1 .. Len(signals) /\ signals[Last] \in Signal /\ signals[Last].symbol \in Symbols
<1>1. Len(signals) \in Nat /\ Last > 0 /\ signals \in Seq(Signal)
  BY LenProperties DEF TypeOK
<1>2. Last \in 1 .. Len(signals)
  BY <1>1 DEF Last
<1>3. signals[Last] \in Signal
  BY <1>1, <1>2, ElementOfSeq
<1> QED  BY <1>2, <1>3 DEF Signal

LEMMA PassTyped == ASSUME TypeOK, NEW symbol \in Symbols, Pass(symbol) PROVE TypeOK'
BY FinishedType DEF Pass, TypeOK, Last

LEMMA CheckTyped == ASSUME TypeOK, Check PROVE TypeOK'
<1>1. Last \in 1 .. Len(signals) /\ signals[Last] \in Signal /\ signals[Last].symbol \in Symbols
  BY LastSignal DEF Check
<1>2. Len(opps) \in Nat
  BY LenProperties DEF TypeOK
<1>3. [signals[Last] EXCEPT !.saw = Len(opps)] \in Signal
  BY <1>1, <1>2 DEF Signal
<1>4. signals' = [signals EXCEPT ![Last] = [signals[Last] EXCEPT !.saw = Len(opps)]]
  BY DEF Check
<1>5. signals \in Seq(Signal)
  BY DEF TypeOK
<1>6. signals' \in Seq(Signal) /\ Len(signals') = Len(signals)
  BY <1>1, <1>3, <1>4, <1>5, ExceptSeq
<1>7. scorer' \in Scorer
  BY <1>1, FinishedType DEF Check, TypeOK, Scorer
<1>8. Last' > 0
  BY <1>1, <1>6 DEF Last
<1> QED  BY <1>6, <1>7, <1>8 DEF Check, TypeOK

LEMMA PublishTyped == ASSUME TypeOK, Publish PROVE TypeOK'
<1>1. Last \in 1 .. Len(signals) /\ signals[Last].symbol \in Symbols
  BY LastSignal DEF Publish
<1>2. stream' \in Seq(1 .. Len(signals)) /\ Len(stream') = Len(stream) + 1
  BY <1>1, AppendProperties DEF Publish, TypeOK
<1>3. scorer' \in Scorer /\ scorer'.at = "idle"
  BY <1>1, FinishedType DEF Publish
<1>4. Len(stream) \in Nat
  BY LenProperties DEF TypeOK
<1>5. read' \in 0 .. Len(stream')
  BY <1>2, <1>4 DEF Publish, TypeOK
<1> QED  BY <1>2, <1>3, <1>5 DEF Publish, TypeOK

LEMMA CycleFailsTyped == ASSUME ConstantsAreNat, TypeOK, CycleFails PROVE TypeOK'
<1>1. signals[Last].symbol \in Symbols
  BY LastSignal DEF CycleFails
<1>2. scorer' \in Scorer /\ scorer'.at = "idle"
  BY <1>1, FinishedType DEF CycleFails
<1>3. faults' \in 0 .. MaxFaults
  BY DEF CycleFails, Fault, TypeOK, ConstantsAreNat
<1> QED  BY <1>2, <1>3 DEF CycleFails, TypeOK

LEMMA ScorerCrashesTyped == ASSUME ConstantsAreNat, TypeOK, ScorerCrashes PROVE TypeOK'
<1>1. scorer' \in Scorer /\ scorer'.at = "idle"
  BY DEF ScorerCrashes, TypeOK, Scorer
<1>2. faults' \in 0 .. MaxFaults
  BY DEF ScorerCrashes, Fault, TypeOK, ConstantsAreNat
<1> QED  BY <1>1, <1>2 DEF ScorerCrashes, TypeOK

LEMMA StartTyped == ASSUME TypeOK, Start PROVE TypeOK'
BY DEF Start, TypeOK, Worker, Last

LEMMA ScanTyped == ASSUME TypeOK, Scan PROVE TypeOK'
<1>1. Stale \subseteq DOMAIN pel
  BY DEF Stale
<1>2. DOMAIN pel' = DOMAIN pel /\ \A e \in DOMAIN pel' : pel'[e] \in 0 .. now
  BY DEF Scan, TypeOK
<1>3. DOMAIN pel \subseteq Nat /\ worker \in Worker /\ worker.batch = {}
  BY DEF TypeOK, Scan
<1>4. worker' \in Worker
  BY <1>1, <1>3 DEF Scan, Worker
<1>7. worker'.batch = Stale
  BY <1>3 DEF Scan, Worker
<1>8. worker'.at = IF Stale = {} THEN "poll" ELSE "insert"
  BY <1>3 DEF Scan, Worker
<1>5. worker'.batch \subseteq DOMAIN pel
  BY <1>1, <1>7
<1>6. worker'.at \in {"insert", "ack"} <=> worker'.batch # {}
  BY <1>7, <1>8
<1> QED  BY <1>2, <1>4, <1>5, <1>6 DEF Scan, TypeOK, Last

LEMMA PollTyped == ASSUME ConstantsAreNat, TypeOK, Poll PROVE TypeOK'
<1>1. Len(stream) \in Nat /\ read \in 0 .. Len(stream) /\ ReadCount \in Nat
  BY LenProperties DEF TypeOK, ConstantsAreNat
<1>2. read' = Delivered /\ Delivered \in 0 .. Len(stream) /\ read <= Delivered
  BY <1>1 DEF Poll, Delivered
<1>3. Fresh \subseteq 1 .. Delivered
  BY <1>1, <1>2 DEF Fresh
<1>4. DOMAIN pel' = DOMAIN pel \cup Fresh /\ \A e \in DOMAIN pel' : pel'[e] \in 0 .. now
  BY DEF Poll, TypeOK
<1>8. 1 .. read \subseteq 1 .. Delivered
  BY <1>1, <1>2
<1>9. DOMAIN pel \subseteq 1 .. read /\ cut \subseteq 1 .. read
  BY DEF TypeOK
<1>5. DOMAIN pel \subseteq 1 .. Delivered /\ cut \subseteq 1 .. Delivered
  BY <1>8, <1>9
<1>10. Fresh \in SUBSET Nat
  BY <1>3
<1>6. worker' \in Worker /\ worker'.batch = Fresh /\ worker'.at = "insert"
  BY <1>10 DEF Poll, TypeOK, Worker
<1>7. Fresh # {}
  BY DEF Poll
<1> QED  BY <1>2, <1>3, <1>4, <1>5, <1>6, <1>7 DEF Poll, TypeOK, Last

LEMMA InsertTyped == ASSUME ConstantsAreNat, TypeOK, Insert PROVE TypeOK'
<1> USE Parts
<1>1. worker.batch \subseteq Nat /\ worker.batch # {} /\ worker.batch \subseteq 1 .. read
  <2>1. worker.at = "insert"
    BY DEF Insert
  <2>2. worker.batch \subseteq DOMAIN pel /\ DOMAIN pel \subseteq 1 .. read
    BY DEF WorkerTyped, GroupTyped
  <2> QED  BY <2>1, <2>2 DEF WorkerTyped, Worker
<1>2. Entry \in 1 .. Len(stream)
  <2>1. Entry \in 1 .. read
    BY <1>1, OldestEntry
  <2>2. Len(stream) \in Nat /\ read \in 0 .. Len(stream)
    BY LenProperties DEF TablesTyped, GroupTyped
  <2> QED  BY <2>1, <2>2
<1>3. SignalOf(Entry) \in 1 .. Len(signals)
  <2>1. stream \in Seq(1 .. Len(signals))
    BY DEF TablesTyped
  <2> QED  BY <1>2, <2>1, ElementOfSeq DEF SignalOf
<1>4. now \in Nat /\ now + Ttl \in Nat
  BY DEF CountsTyped, ConstantsAreNat
<1>5. opps' \in Seq([signal: 1 .. Len(signals), at: Nat, expires: Nat])
  <2> DEFINE Row == [signal: 1 .. Len(signals), at: Nat, expires: Nat]
             new == [signal |-> SignalOf(Entry), at |-> now, expires |-> now + Ttl]
  <2>1. new \in Row
    BY <1>3, <1>4
  <2>2. opps \in Seq(Row)
    BY DEF TablesTyped
  <2>3. opps' = opps \/ opps' = Append(opps, new)
    BY DEF Insert
  <2> HIDE DEF Row, new
  <2>4. Append(opps, new) \in Seq(Row)
    BY <2>1, <2>2, AppendProperties
  <2>5. opps' \in Seq(Row)
    BY <2>2, <2>3, <2>4
  <2> QED  BY <2>5 DEF Row
<1>6. worker' \in Worker /\ worker'.batch = worker.batch /\ worker'.at = "ack"
  <2>1. worker \in Worker /\ worker' = [worker EXCEPT !.at = "ack"]
    BY DEF Insert, WorkerTyped
  <2> QED  BY <2>1 DEF Worker
<1>7. /\ now' = now /\ faults' = faults /\ read' = read /\ signals' = signals
      /\ stream' = stream /\ pel' = pel /\ cut' = cut /\ scorer' = scorer
  BY DEF Insert
<1>8. CountsTyped' /\ GroupTyped' /\ ScorerTyped'
  BY <1>7 DEF CountsTyped, GroupTyped, ScorerTyped, Last
<1>9. TablesTyped' /\ WorkerTyped'
  BY <1>1, <1>5, <1>6, <1>7 DEF TablesTyped, WorkerTyped
<1> QED  BY <1>8, <1>9, Assembled

LEMMA AckTyped == ASSUME TypeOK, Ack PROVE TypeOK'
<1>1. worker.batch \subseteq Nat /\ worker.batch # {}
  BY DEF TypeOK, Ack, Worker
<1>2. Entry \in worker.batch
  BY <1>1, OldestEntry
<1>3. DOMAIN pel' = DOMAIN pel \ {Entry} /\ \A e \in DOMAIN pel' : pel'[e] \in 0 .. now
  BY DEF Ack, TypeOK
<1>4. worker' \in Worker /\ worker'.batch = worker.batch \ {Entry}
  BY DEF Ack, TypeOK, Worker
<1>6. worker'.at = IF worker.batch # {Entry} THEN "insert"
                   ELSE IF worker.recovering THEN "scan" ELSE "poll"
  BY DEF Ack, TypeOK, Worker
<1>7. worker.batch = {Entry} <=> worker'.batch = {}
  BY <1>2, <1>4
<1>5. worker'.at \in {"insert", "ack"} <=> worker'.batch # {}
  BY <1>6, <1>7
<1> QED  BY <1>3, <1>4, <1>5 DEF Ack, TypeOK, Last

LEMMA WorkerFailsTyped ==
  ASSUME ConstantsAreNat, TypeOK, BatchFails \/ WorkerCrashes PROVE TypeOK'
<1>1. faults' \in 0 .. MaxFaults
  <2>1. faults < MaxFaults /\ faults' = faults + 1
    BY DEF BatchFails, WorkerCrashes, Fault
  <2>2. faults \in 0 .. MaxFaults /\ MaxFaults \in Nat
    BY Parts DEF CountsTyped, ConstantsAreNat
  <2> QED  BY <2>1, <2>2
<1>6. \A a \in {"poll", "down"} : [at |-> a, batch |-> {}, recovering |-> FALSE] \in Worker
  BY DEF Worker
<1>7. \/ worker' = [at |-> "poll", batch |-> {}, recovering |-> FALSE]
      \/ worker' = [at |-> "down", batch |-> {}, recovering |-> FALSE]
  BY DEF BatchFails, WorkerCrashes
<1>8. worker' \in Worker
  BY <1>6, <1>7, Zenon
<1>9. worker'.batch = {} /\ worker'.at \in {"poll", "down"}
  BY <1>7
<1>2. worker' \in Worker /\ worker'.batch = {} /\ worker'.at \in {"poll", "down"}
  BY <1>8, <1>9
<1>4. worker.batch \subseteq 1 .. read /\ cut \subseteq 1 .. read
  BY DEF TypeOK
<1>5. cut' = cut \cup worker.batch
  BY DEF BatchFails, WorkerCrashes
<1>3. cut' \subseteq 1 .. read
  BY <1>4, <1>5, Zenon
<1>10. /\ now' = now /\ read' = read /\ signals' = signals /\ stream' = stream
       /\ opps' = opps /\ pel' = pel /\ scorer' = scorer
  BY DEF BatchFails, WorkerCrashes
<1>11. CountsTyped' /\ TablesTyped' /\ ScorerTyped'
  BY <1>1, <1>10, Parts DEF CountsTyped, TablesTyped, ScorerTyped, Last
<1>12. GroupTyped' /\ WorkerTyped'
  BY <1>2, <1>3, <1>10, Parts DEF GroupTyped, WorkerTyped
<1> QED  BY <1>11, <1>12, Assembled

LEMMA TickTyped == ASSUME TypeOK, Tick PROVE TypeOK'
<1> USE Parts
<1>1. /\ now' = now + 1 /\ faults' = faults /\ read' = read /\ signals' = signals
      /\ stream' = stream /\ opps' = opps /\ pel' = pel /\ cut' = cut
      /\ scorer' = scorer /\ worker' = worker
  BY DEF Tick
<1>2. CountsTyped' /\ TablesTyped' /\ ScorerTyped' /\ WorkerTyped'
  BY <1>1 DEF CountsTyped, TablesTyped, ScorerTyped, WorkerTyped, Last
<1>3. \A e \in DOMAIN pel : pel[e] \in 0 .. now'
  BY <1>1 DEF GroupTyped, CountsTyped
<1>4. GroupTyped'
  BY <1>1, <1>3 DEF GroupTyped
<1> QED  BY <1>2, <1>4, Assembled

LEMMA NextTyped == ASSUME ConstantsAreNat, TypeOK, [Next]_vars PROVE TypeOK'
<1>1. CASE UNCHANGED vars
  BY <1>1 DEF vars, TypeOK, Last
<1> QED
  BY <1>1, AdmitTyped, PassTyped, CheckTyped, PublishTyped, CycleFailsTyped,
     ScorerCrashesTyped, StartTyped, ScanTyped, PollTyped, InsertTyped, AckTyped,
     WorkerFailsTyped, TickTyped DEF Next, Work

\* TypeOK is an invariant: no entry is delivered past the stream's end, and the
\* batch in hand is always among the pending entries.
THEOREM FusionTyped == Spec => []TypeOK
<1>1. Init => TypeOK
  BY InitTyped, ConstantsAreNat
<1>2. TypeOK /\ [Next]_vars => TypeOK'
  BY NextTyped, ConstantsAreNat
<1> QED  BY <1>1, <1>2, PTL DEF Spec

-----------------------------------------------------------------------------
(* Nothing delivered is lost.  The invariant adds what the worker knows      *)
(* before it acknowledges: the entry in hand is stored.                      *)

PendingInv ==
  /\ UnstoredStaysPending
  /\ worker.at = "ack" => Stored(SignalOf(Entry))

\* Most steps leave the stream, the table and the pending entries alone.
LEMMA PendingFrame ==
  ASSUME PendingInv, opps' = opps, stream' = stream, read' = read,
         DOMAIN pel' = DOMAIN pel, worker'.at = "ack" => worker' = worker
  PROVE  PendingInv'
BY DEF PendingInv, UnstoredStaysPending, Stored, SignalOf, Entry

LEMMA EntryInHand ==
  ASSUME TypeOK, worker.at \in {"insert", "ack"}
  PROVE  Entry \in worker.batch /\ Entry \in 1 .. read /\ Entry \in 1 .. Len(stream)
<1>1. worker.batch # {} /\ worker.batch \subseteq 1 .. read /\ worker.batch \subseteq Nat
  BY DEF TypeOK, Worker
<1>2. Entry \in worker.batch
  BY <1>1, OldestEntry
<1>3. Len(stream) \in Nat /\ read \in 0 .. Len(stream)
  BY LenProperties DEF TypeOK
<1> QED  BY <1>1, <1>2, <1>3

LEMMA PendingPublish ==
  ASSUME TypeOK, PendingInv, Publish PROVE PendingInv'
<1>1. Last \in 1 .. Len(signals)
  BY LastSignal DEF Publish
<1>2. Len(stream) \in Nat /\ read \in 0 .. Len(stream) /\ stream \in Seq(1 .. Len(signals))
  BY LenProperties DEF TypeOK
<1>3. \A e \in 1 .. Len(stream) : stream'[e] = stream[e]
  BY <1>1, <1>2, AppendProperties DEF Publish
<1>4. worker.at = "ack" => Entry \in 1 .. Len(stream)
  BY EntryInHand
<1>5. worker' = worker /\ opps' = opps /\ read' = read /\ pel' = pel
  BY DEF Publish
<1>6. UnstoredStaysPending'
  BY <1>2, <1>3, <1>5 DEF PendingInv, UnstoredStaysPending, Stored, SignalOf
<1>7. Entry' = Entry
  BY <1>5 DEF Entry
<1>8. worker'.at = "ack" => Stored(SignalOf(Entry))'
  BY <1>3, <1>4, <1>5, <1>7 DEF PendingInv, Stored, SignalOf
<1> QED  BY <1>6, <1>8 DEF PendingInv

LEMMA PendingPoll ==
  ASSUME ConstantsAreNat, TypeOK, PendingInv, Poll PROVE PendingInv'
<1>1. Len(stream) \in Nat /\ read \in 0 .. Len(stream) /\ ReadCount \in Nat
  BY LenProperties DEF TypeOK, ConstantsAreNat
<1>2. read' = Delivered /\ Delivered \in Nat
  BY <1>1 DEF Poll, Delivered
<1>3. DOMAIN pel' = DOMAIN pel \cup Fresh
  BY DEF Poll
<1>4. \A e \in 1 .. Delivered : e \in 1 .. read \/ e \in Fresh
  BY <1>1, <1>2 DEF Fresh
<1>5. stream' = stream /\ opps' = opps
  BY DEF Poll
<1>6. worker'.at = "insert"
  BY DEF Poll, TypeOK, Worker
<1> QED  BY <1>2, <1>3, <1>4, <1>5, <1>6 DEF PendingInv, UnstoredStaysPending, Stored, SignalOf

\* What an insert does to the table: nothing when the signal is stored, one
\* more row for it otherwise.
LEMMA InsertEffect ==
  ASSUME ConstantsAreNat, TypeOK, Insert
  PROVE  /\ Len(opps) \in Nat /\ DOMAIN opps = 1 .. Len(opps)
         /\ Entry \in 1 .. Len(stream) /\ SignalOf(Entry) \in 1 .. Len(signals)
         /\ SignalOf(Entry)' = SignalOf(Entry)
         /\ \A i \in DOMAIN opps : i \in DOMAIN opps' /\ opps'[i] = opps[i]
         /\ Stored(SignalOf(Entry)) => opps' = opps
         /\ ~Stored(SignalOf(Entry)) =>
              /\ Len(opps') = Len(opps) + 1 /\ DOMAIN opps' = 1 .. Len(opps) + 1
              /\ opps'[Len(opps) + 1] =
                   [signal |-> SignalOf(Entry), at |-> now, expires |-> now + Ttl]
<1>1. Entry \in 1 .. Len(stream)
  BY EntryInHand DEF Insert
<1>2. SignalOf(Entry) \in 1 .. Len(signals)
  BY <1>1, ElementOfSeq DEF TypeOK, SignalOf
<1> DEFINE Row == [signal: 1 .. Len(signals), at: Nat, expires: Nat]
           new == [signal |-> SignalOf(Entry), at |-> now, expires |-> now + Ttl]
<1>3. new \in Row
  <2>1. now \in Nat /\ now + Ttl \in Nat
    BY Parts DEF CountsTyped, ConstantsAreNat
  <2> QED  BY <1>2, <2>1
<1>4. opps \in Seq(Row)
  BY Parts DEF TablesTyped
<1>5. opps' = IF Stored(SignalOf(Entry)) THEN opps ELSE Append(opps, new)
  BY DEF Insert
<1>6. SignalOf(Entry)' = SignalOf(Entry)
  <2>1. stream' = stream /\ worker'.batch = worker.batch
    BY DEF Insert, TypeOK, Worker
  <2> QED  BY <2>1 DEF SignalOf, Entry
<1> HIDE DEF new, Row
<1>7. Len(opps) \in Nat /\ DOMAIN opps = 1 .. Len(opps)
  BY <1>4, LenProperties
<1>8. CASE Stored(SignalOf(Entry))
  BY <1>1, <1>2, <1>5, <1>6, <1>7, <1>8
<1>9. CASE ~Stored(SignalOf(Entry))
  <2>1. opps' = Append(opps, new)
    BY <1>5, <1>9
  <2>2. /\ opps' \in Seq(Row) /\ Len(opps') = Len(opps) + 1
        /\ \A i \in 1 .. Len(opps) : opps'[i] = opps[i]
        /\ opps'[Len(opps) + 1] = new
    BY <2>1, <1>3, <1>4, AppendProperties
  <2>3. DOMAIN opps' = 1 .. Len(opps) + 1
    BY <2>2, LenProperties
  <2>4. \A i \in DOMAIN opps : i \in DOMAIN opps' /\ opps'[i] = opps[i]
    BY <2>2, <2>3, <1>7
  <2> QED  BY <1>1, <1>2, <1>6, <1>7, <1>9, <2>2, <2>3, <2>4 DEF new
<1> QED  BY <1>8, <1>9

LEMMA PendingInsert ==
  ASSUME ConstantsAreNat, TypeOK, PendingInv, Insert PROVE PendingInv'
<1>1. \A s : Stored(s) => Stored(s)'
  BY InsertEffect DEF Stored
<1>2. CASE Stored(SignalOf(Entry))
  <2>1. Stored(SignalOf(Entry))'
    BY <1>1, <1>2, InsertEffect DEF Stored
  <2> QED  BY <1>1, <2>1 DEF PendingInv, UnstoredStaysPending, SignalOf, Insert
<1>3. CASE ~Stored(SignalOf(Entry))
  <2>1. Len(opps) + 1 \in DOMAIN opps'
    BY <1>3, InsertEffect
  <2>2. opps'[Len(opps) + 1].signal = SignalOf(Entry)'
    BY <1>3, InsertEffect
  <2>3. Stored(SignalOf(Entry))'
    BY <2>1, <2>2 DEF Stored
  <2> QED  BY <1>1, <2>3 DEF PendingInv, UnstoredStaysPending, SignalOf, Insert
<1> QED  BY <1>2, <1>3

LEMMA PendingAck ==
  ASSUME TypeOK, PendingInv, Ack PROVE PendingInv'
<1>1. DOMAIN pel' = DOMAIN pel \ {Entry} /\ opps' = opps /\ stream' = stream /\ read' = read
  BY DEF Ack
<1>2. Stored(SignalOf(Entry))
  BY DEF PendingInv, Ack
<1>3. worker'.at # "ack"
  BY DEF Ack, TypeOK, Worker
<1> QED  BY <1>1, <1>2, <1>3 DEF PendingInv, UnstoredStaysPending, Stored, SignalOf

LEMMA PendingNext ==
  ASSUME ConstantsAreNat, TypeOK, PendingInv, [Next]_vars PROVE PendingInv'
<1>1. CASE \E symbol \in Symbols : Admit(symbol) \/ Pass(symbol)
  BY <1>1, PendingFrame DEF Admit, Pass
<1>2. CASE Check \/ CycleFails \/ ScorerCrashes \/ Tick
  BY <1>2, PendingFrame DEF Check, CycleFails, ScorerCrashes, Tick
<1>3. CASE Start \/ BatchFails \/ WorkerCrashes
  BY <1>3, PendingFrame DEF Start, BatchFails, WorkerCrashes
<1>4. CASE Scan
  <2>1. worker'.at # "ack"
    BY <1>4 DEF Scan, TypeOK, Worker
  <2> QED  BY <1>4, <2>1, PendingFrame DEF Scan
<1>5. CASE UNCHANGED vars
  BY <1>5, PendingFrame DEF vars
<1> QED
  BY <1>1, <1>2, <1>3, <1>4, <1>5, PendingPublish, PendingPoll, PendingInsert, PendingAck
  DEF Next, Work

\* An entry the group was given is an opportunity or still pending, whatever
\* fails between the read, the insert and the acknowledgement.
THEOREM NothingDeliveredIsLost == Spec => []UnstoredStaysPending
<1>1. Init => PendingInv
  BY DEF Init, PendingInv, UnstoredStaysPending
<1>2. TypeOK /\ PendingInv /\ [Next]_vars => PendingInv'
  BY PendingNext, ConstantsAreNat
<1>3. PendingInv => UnstoredStaysPending
  BY DEF PendingInv
<1> QED  BY <1>1, <1>2, <1>3, FusionTyped, PTL DEF Spec

-----------------------------------------------------------------------------
(* One opportunity per signal, and what is stored stays as it is.          *)

LEMMA TableOnlyInsert ==
  ASSUME [Next]_vars, ~Insert PROVE opps' = opps
BY DEF Next, Work, Admit, Pass, Check, Publish, CycleFails, ScorerCrashes, Start,
       Scan, Poll, Ack, BatchFails, WorkerCrashes, Tick, vars

\* However often an entry is delivered, its signal makes one opportunity.
THEOREM OneOpportunityPerSignal == Spec => []OnePerSignal
<1>1. Init => OnePerSignal
  BY DEF Init, OnePerSignal
<1>2. TypeOK /\ OnePerSignal /\ [Next]_vars => OnePerSignal'
  <2> SUFFICES ASSUME TypeOK, OnePerSignal, [Next]_vars, ConstantsAreNat
               PROVE  OnePerSignal'
    BY ConstantsAreNat
  <2>1. CASE ~Insert
    BY <2>1, TableOnlyInsert DEF OnePerSignal
  <2>2. CASE Insert /\ Stored(SignalOf(Entry))
    BY <2>2, InsertEffect DEF OnePerSignal
  <2>3. CASE Insert /\ ~Stored(SignalOf(Entry))
    <3>0. Insert /\ ~Stored(SignalOf(Entry))
      BY <2>3
    <3>1. \A i \in DOMAIN opps : opps[i].signal # SignalOf(Entry)
      BY <3>0 DEF Stored
    <3>a. /\ Len(opps) \in Nat /\ DOMAIN opps = 1 .. Len(opps)
          /\ DOMAIN opps' = 1 .. Len(opps) + 1
          /\ opps'[Len(opps) + 1] = [signal |-> SignalOf(Entry), at |-> now, expires |-> now + Ttl]
          /\ \A i \in DOMAIN opps : opps'[i] = opps[i]
      BY <3>0, InsertEffect
    <3>2. opps'[Len(opps) + 1].signal = SignalOf(Entry)
      BY <3>a
    <3>3. \A i \in DOMAIN opps' : i \in DOMAIN opps \/ i = Len(opps) + 1
      BY <3>a
    <3>4. \A i \in DOMAIN opps : opps'[i] = opps[i]
      BY <3>a
    <3> QED  BY <3>1, <3>2, <3>3, <3>4 DEF OnePerSignal
  <2> QED  BY <2>1, <2>2, <2>3
<1> QED  BY <1>1, <1>2, FusionTyped, PTL DEF Spec

\* A late or repeated delivery never gives a stored opportunity a new life.
THEOREM OpportunitiesKeepTheirTerm == Spec => NeverRevived
<1>1. TypeOK /\ [Next]_vars => [\A i \in DOMAIN opps : opps'[i] = opps[i]]_vars
  <2> SUFFICES ASSUME TypeOK, [Next]_vars, ConstantsAreNat
               PROVE  \A i \in DOMAIN opps : opps'[i] = opps[i]
    BY ConstantsAreNat
  <2>1. CASE ~Insert
    BY <2>1, TableOnlyInsert
  <2>2. CASE Insert
    BY <2>2, InsertEffect
  <2> QED  BY <2>1, <2>2
<1> QED  BY <1>1, FusionTyped, PTL DEF Spec, NeverRevived

-----------------------------------------------------------------------------
(* Doubled sides.  A published signal had its check: what the table held of *)
(* its side by then had expired, and the clock does not go back.           *)

Published(s) == \E e \in DOMAIN stream : stream[e] = s
Checked(s) ==
  \A i \in DOMAIN opps :
    i <= signals[s].saw /\ SameSide(opps[i].signal, s) => opps[i].expires <= now

DoublesInv ==
  /\ DoublesRaced
  /\ \A s \in DOMAIN signals : signals[s].saw <= Len(opps)
  /\ \A i \in DOMAIN opps : Published(opps[i].signal)
  /\ scorer.at # "idle" => ~Published(Last)
  /\ \A s \in DOMAIN signals : Published(s) => Checked(s)
  /\ scorer.at = "publish" => Checked(Last)

\* What is in range: the signals of the stream and the table were decided.
LEMMA Decided ==
  ASSUME TypeOK
  PROVE  /\ Len(signals) \in Nat /\ DOMAIN signals = 1 .. Len(signals)
         /\ Len(stream) \in Nat /\ DOMAIN stream = 1 .. Len(stream)
         /\ Len(opps) \in Nat /\ DOMAIN opps = 1 .. Len(opps)
         /\ \A e \in DOMAIN stream : stream[e] \in 1 .. Len(signals)
         /\ \A i \in DOMAIN opps : /\ opps[i].signal \in 1 .. Len(signals)
                                   /\ opps[i].at \in Nat /\ opps[i].expires \in Nat
         /\ \A s \in DOMAIN signals : signals[s] \in Signal
<1>1. stream \in Seq(1 .. Len(signals)) /\ signals \in Seq(Signal)
      /\ opps \in Seq([signal: 1 .. Len(signals), at: Nat, expires: Nat])
  BY DEF TypeOK
<1>2. /\ Len(signals) \in Nat /\ DOMAIN signals = 1 .. Len(signals)
      /\ Len(stream) \in Nat /\ DOMAIN stream = 1 .. Len(stream)
      /\ Len(opps) \in Nat /\ DOMAIN opps = 1 .. Len(opps)
  BY <1>1, LenProperties
<1>3. \A i \in DOMAIN opps : opps[i] \in [signal: 1 .. Len(signals), at: Nat, expires: Nat]
  BY <1>1, <1>2, ElementOfSeq
<1>4. \A e \in DOMAIN stream : stream[e] \in 1 .. Len(signals)
  BY <1>1, <1>2, ElementOfSeq
<1>5. \A s \in DOMAIN signals : signals[s] \in Signal
  BY <1>1, <1>2, ElementOfSeq
<1> QED  BY <1>2, <1>3, <1>4, <1>5

\* Steps of the worker and the clock that do not insert.
LEMMA DoublesFrame ==
  ASSUME TypeOK, TypeOK', DoublesInv, signals' = signals, stream' = stream,
         opps' = opps, now <= now', scorer'.at \in {scorer.at, "idle"}
  PROVE  DoublesInv'
<1>1. now \in Nat /\ now' \in Nat
  BY DEF TypeOK
<1>2. \A i \in DOMAIN opps : opps[i].expires \in Nat
  BY Decided
<1>3. \A s : Checked(s) => Checked(s)'
  BY <1>1, <1>2 DEF Checked, SameSide
<1>4. DoublesRaced'
  BY DEF DoublesInv, DoublesRaced, SameSide
<1>5. \A s : Published(s)' <=> Published(s)
  BY DEF Published
<1>6. Last' = Last
  BY DEF Last
<1> QED  BY <1>3, <1>4, <1>5, <1>6 DEF DoublesInv

\* An admission adds a signal and leaves the others as they are.
LEMMA AdmitEffect ==
  ASSUME TypeOK, NEW symbol \in Symbols, Admit(symbol)
  PROVE  \E side \in Sides, strength \in Strengths :
           /\ Admitted(symbol, side, strength)
           /\ Len(signals') = Len(signals) + 1 /\ DOMAIN signals' = 1 .. Len(signals) + 1
           /\ \A s \in 1 .. Len(signals) : signals'[s] = signals[s]
           /\ signals'[Len(signals) + 1] =
                [symbol |-> symbol, side |-> side, strength |-> strength, at |-> now, saw |-> 0]
<1>1. PICK side \in Sides, strength \in Strengths :
        /\ Admitted(symbol, side, strength)
        /\ signals' = Append(signals, [symbol |-> symbol, side |-> side,
                                       strength |-> strength, at |-> now, saw |-> 0])
  BY DEF Admit
<1> DEFINE new == [symbol |-> symbol, side |-> side, strength |-> strength, at |-> now, saw |-> 0]
<1>2. new \in Signal /\ signals \in Seq(Signal)
  BY DEF TypeOK, Signal
<1>3. signals' = Append(signals, new)
  BY <1>1
<1> HIDE DEF new
<1>4. /\ signals' \in Seq(Signal) /\ Len(signals') = Len(signals) + 1
      /\ \A s \in 1 .. Len(signals) : signals'[s] = signals[s]
      /\ signals'[Len(signals) + 1] = new
  BY <1>2, <1>3, AppendProperties
<1>5. DOMAIN signals' = 1 .. Len(signals) + 1
  BY <1>4, LenProperties
<1> QED  BY <1>1, <1>4, <1>5 DEF new

LEMMA DoublesAdmit ==
  ASSUME TypeOK, DoublesInv, NEW symbol \in Symbols, Admit(symbol) PROVE DoublesInv'
<1> DEFINE n == Len(signals) + 1
<1>1. /\ n \in Nat /\ Len(signals') = n /\ DOMAIN signals' = 1 .. n
      /\ \A s \in DOMAIN signals : s \in DOMAIN signals' /\ signals'[s] = signals[s]
      /\ signals'[n].saw = 0
  <2>1. Len(signals) \in Nat /\ DOMAIN signals = 1 .. Len(signals)
    BY Decided
  <2>2. PICK side \in Sides, strength \in Strengths :
          /\ Len(signals') = Len(signals) + 1 /\ DOMAIN signals' = 1 .. Len(signals) + 1
          /\ \A s \in 1 .. Len(signals) : signals'[s] = signals[s]
          /\ signals'[Len(signals) + 1] =
               [symbol |-> symbol, side |-> side, strength |-> strength, at |-> now, saw |-> 0]
    BY AdmitEffect
  <2>3. signals'[Len(signals) + 1].saw = 0
    BY <2>2
  <2> QED  BY <2>1, <2>2, <2>3
<1>2. opps' = opps /\ stream' = stream /\ now' = now
  BY DEF Admit
<1>3. scorer'.at = "check"
  BY DEF Admit, TypeOK, Scorer
<1>4. \A s, t \in DOMAIN signals : SameSide(s, t)' <=> SameSide(s, t)
  BY <1>1 DEF SameSide
<1>5. \A i \in DOMAIN opps : opps[i].signal \in DOMAIN signals
  BY Decided
<1>6. DoublesRaced'
  BY <1>1, <1>2, <1>4, <1>5 DEF DoublesInv, DoublesRaced
<1>7. \A s \in DOMAIN signals : Checked(s)' <=> Checked(s)
  BY <1>1, <1>2, <1>4, <1>5 DEF Checked
<1>8. \A s : Published(s)' <=> Published(s)
  BY <1>2 DEF Published
<1>9. ~Published(n) /\ n \notin DOMAIN signals
  BY <1>1, Decided DEF Published
<1>10. \A s \in DOMAIN signals' : s \in DOMAIN signals \/ s = n
  BY <1>1, Decided
<1>11. 0 <= Len(opps)
  BY Decided
<1>12. Last' = n
  BY <1>1 DEF Last
<1> HIDE DEF n
<1> QED
  BY <1>1, <1>2, <1>3, <1>6, <1>7, <1>8, <1>9, <1>10, <1>11, <1>12 DEF DoublesInv

LEMMA DoublesCheck ==
  ASSUME TypeOK, DoublesInv, Check PROVE DoublesInv'
<1>1. Last \in DOMAIN signals /\ signals[Last] \in Signal
  BY LastSignal, Decided DEF Check
<1>2. /\ DOMAIN signals' = DOMAIN signals /\ Last' = Last
      /\ \A s \in DOMAIN signals : s # Last => signals'[s] = signals[s]
      /\ signals'[Last] = [signals[Last] EXCEPT !.saw = Len(opps)]
  <2>1. signals' = [signals EXCEPT ![Last] = [signals[Last] EXCEPT !.saw = Len(opps)]]
    BY DEF Check
  <2>2. [signals[Last] EXCEPT !.saw = Len(opps)] \in Signal
    BY <1>1, Decided DEF Signal
  <2>3. Len(signals') = Len(signals)
    BY <1>1, <2>1, <2>2, Decided, ExceptSeq DEF TypeOK
  <2> QED  BY <1>1, <2>1, <2>3 DEF Last
<1>3. opps' = opps /\ stream' = stream /\ now' = now
  BY DEF Check
<1>4. \A s, t \in DOMAIN signals : SameSide(s, t)' <=> SameSide(s, t)
  BY <1>1, <1>2 DEF SameSide, Signal
<1>5. \A s : Published(s)' <=> Published(s)
  BY <1>3 DEF Published
<1>6. ~Published(Last)
  BY DEF DoublesInv, Check
<1>7. \A i \in DOMAIN opps : opps[i].signal \in DOMAIN signals /\ opps[i].signal # Last
  BY <1>6, Decided DEF DoublesInv
<1>8. DoublesRaced'
  BY <1>2, <1>3, <1>4, <1>7 DEF DoublesInv, DoublesRaced
<1>9. \A s \in DOMAIN signals : s # Last /\ Checked(s) => Checked(s)'
  BY <1>2, <1>3, <1>4, <1>7 DEF Checked
<1>10. \A s \in DOMAIN signals' : signals'[s].saw <= Len(opps)'
  <2>1. signals'[Last].saw = Len(opps) /\ Len(opps) \in Nat
    BY <1>1, <1>2, Decided DEF Signal
  <2>2. \A s \in DOMAIN signals : s # Last => signals'[s].saw <= Len(opps)
    BY <1>2 DEF DoublesInv
  <2>3. signals'[Last].saw <= Len(opps)
    BY <2>1
  <2>4. DOMAIN signals' = DOMAIN signals /\ Len(opps)' = Len(opps)
    BY <1>2, <1>3
  <2> QED  BY <2>2, <2>3, <2>4, Zenon
<1>11. scorer'.at = "publish" => Checked(Last)'
  <2>1. ASSUME scorer'.at = "publish" PROVE ~ActiveOpportunity(Last)
    <3>1. CASE ActiveOpportunity(Last)
      BY <2>1, <3>1, FinishedType, LastSignal DEF Check
    <3> QED  BY <3>1
  <2>2. ASSUME scorer'.at = "publish", NEW i \in DOMAIN opps, SameSide(opps[i].signal, Last)
        PROVE  opps[i].expires <= now
    <3>1. now \in Nat /\ opps[i].expires \in Nat
      BY Decided DEF TypeOK
    <3> QED  BY <2>1, <2>2, <3>1 DEF ActiveOpportunity
  <2> QED  BY <1>1, <1>2, <1>3, <1>4, <1>7, <2>2 DEF Checked
<1> QED
  BY <1>2, <1>3, <1>5, <1>6, <1>8, <1>9, <1>10, <1>11 DEF DoublesInv

LEMMA DoublesPublish ==
  ASSUME TypeOK, DoublesInv, Publish PROVE DoublesInv'
<1>1. Last \in 1 .. Len(signals) /\ signals[Last].symbol \in Symbols
  BY LastSignal DEF Publish
<1>2. signals' = signals /\ opps' = opps /\ now' = now /\ stream' = Append(stream, Last)
  BY DEF Publish
<1>3. scorer'.at = "idle"
  BY <1>1, FinishedType DEF Publish
<1>4. /\ stream' \in Seq(1 .. Len(signals)) /\ Len(stream') = Len(stream) + 1
      /\ \A e \in 1 .. Len(stream) : stream'[e] = stream[e]
      /\ stream'[Len(stream) + 1] = Last
  BY <1>1, <1>2, AppendProperties DEF TypeOK
<1>5. DOMAIN stream' = 1 .. Len(stream) + 1
  BY <1>4, LenProperties
<1>6. \A s : Published(s)' <=> Published(s) \/ s = Last
  <2>1. PICK n \in Nat : n = Len(stream) + 1 /\ DOMAIN stream = 1 .. n - 1
    BY Decided
  <2>2. \A e : e \in DOMAIN stream' <=> e \in DOMAIN stream \/ e = n
    BY <1>5, <2>1
  <2>3. stream'[n] = Last /\ \A e \in DOMAIN stream : stream'[e] = stream[e]
    BY <1>4, <2>1
  <2> QED  BY <2>2, <2>3 DEF Published
<1>7. \A s : Checked(s)' <=> Checked(s)
  BY <1>2 DEF Checked, SameSide
<1>8. DoublesRaced'
  BY <1>2 DEF DoublesInv, DoublesRaced, SameSide
<1> QED  BY <1>2, <1>3, <1>6, <1>7, <1>8 DEF DoublesInv, Publish

LEMMA DoublesInsert ==
  ASSUME ConstantsAreNat, TypeOK, DoublesInv, Insert PROVE DoublesInv'
<1> DEFINE sig == SignalOf(Entry)
           n == Len(opps) + 1
<1>1. signals' = signals /\ stream' = stream /\ now' = now /\ scorer' = scorer
  BY DEF Insert
<1>2. CASE Stored(sig)
  BY <1>1, <1>2, InsertEffect DEF DoublesInv, DoublesRaced, Checked, Published, SameSide, Last
<1>3. CASE ~Stored(sig)
  <2>1. /\ n \in Nat /\ Len(opps') = n /\ DOMAIN opps' = 1 .. n
        /\ \A i \in DOMAIN opps : opps'[i] = opps[i]
        /\ opps'[n].signal = sig /\ opps'[n].at = now
        /\ sig \in DOMAIN signals /\ Published(sig)
        /\ DOMAIN opps = 1 .. n - 1
    BY <1>3, InsertEffect, Decided DEF Published, SignalOf
  <2>2. \A s \in DOMAIN signals : signals[s].saw \in Nat /\ signals[s].saw < n
    <3>1. Len(opps) \in Nat /\ \A s \in DOMAIN signals : signals[s].saw \in Nat
      BY Decided DEF Signal
    <3>2. \A s \in DOMAIN signals : signals[s].saw <= Len(opps)
      BY DEF DoublesInv
    <3> QED  BY <3>1, <3>2
  <2>3. ASSUME NEW s \in DOMAIN signals, Checked(s) PROVE Checked(s)'
    <3>1. \A i \in DOMAIN opps' : i <= signals[s].saw => i \in DOMAIN opps
      BY <2>1, <2>2
    <3>2. \A i \in DOMAIN opps : opps'[i] = opps[i]
      BY <2>1
    <3> HIDE DEF n, sig
    <3> QED  BY <1>1, <2>3, <3>1, <3>2 DEF Checked, SameSide
  <2>4. \A s : Published(s)' <=> Published(s)
    BY <1>1 DEF Published
  <2>5. ASSUME NEW i \in DOMAIN opps, SameSide(opps[i].signal, sig), now < opps[i].expires
        PROVE  signals[sig].saw < i
    <3>0. \A s \in DOMAIN signals : Published(s) => Checked(s)
      BY DEF DoublesInv
    <3>1. Checked(sig) /\ sig \in DOMAIN signals
      BY <2>1, <3>0, Zenon
    <3>2. now \in Nat /\ opps[i].expires \in Nat /\ i \in Nat
      <4>1. now \in Nat
        BY DEF TypeOK
      <4>2. opps[i].expires \in Nat /\ i \in 1 .. Len(opps) /\ Len(opps) \in Nat
        BY Decided
      <4> QED  BY <4>1, <4>2
    <3> HIDE DEF sig
    <3>3. ~(i <= signals[sig].saw)
      BY <2>5, <3>1, <3>2 DEF Checked
    <3> QED  BY <2>2, <3>1, <3>2, <3>3
  <2> HIDE DEF sig, n
  <2>6. ASSUME NEW i \in DOMAIN opps', NEW k \in DOMAIN opps', i < k,
               SameSide(opps'[i].signal, opps'[k].signal), opps'[k].at < opps'[i].expires
        PROVE  signals[opps'[k].signal].saw < i
    <3>1. i \in DOMAIN opps
      BY <2>1, <2>6
    <3>2. CASE k = n
      BY <2>1, <2>5, <2>6, <3>1, <3>2
    <3>3. CASE k \in DOMAIN opps
      BY <2>1, <2>6, <3>1, <3>3 DEF DoublesInv, DoublesRaced
    <3> QED  BY <2>1, <3>2, <3>3
  <2>7. DoublesRaced'
    BY <1>1, <2>6 DEF DoublesRaced, SameSide
  <2>8. \A i \in DOMAIN opps' : Published(opps'[i].signal)
    BY <2>1 DEF DoublesInv
  <2>9. Last' = Last /\ (scorer.at = "publish" => Last \in DOMAIN signals)
    BY <1>1, LastSignal, Decided DEF Last
  <2> QED
    BY <1>1, <2>1, <2>2, <2>3, <2>4, <2>7, <2>8, <2>9 DEF DoublesInv
<1> QED  BY <1>2, <1>3

LEMMA DoublesNext ==
  ASSUME ConstantsAreNat, TypeOK, TypeOK', DoublesInv, [Next]_vars PROVE DoublesInv'
<1>0. now \in Nat
  BY DEF TypeOK
<1>1. ASSUME NEW symbol \in Symbols, Pass(symbol) PROVE DoublesInv'
  BY <1>0, <1>1, FinishedType, DoublesFrame DEF Pass
<1>2. CASE CycleFails
  BY <1>0, <1>2, FinishedType, LastSignal, DoublesFrame DEF CycleFails
<1>3. CASE ScorerCrashes
  BY <1>0, <1>3, DoublesFrame DEF ScorerCrashes
<1>4. CASE Start \/ Scan \/ Poll \/ Ack \/ BatchFails \/ WorkerCrashes
  BY <1>0, <1>4, DoublesFrame DEF Start, Scan, Poll, Ack, BatchFails, WorkerCrashes
<1>5. CASE Tick
  BY <1>0, <1>5, DoublesFrame DEF Tick
<1>6. CASE UNCHANGED vars
  BY <1>0, <1>6, DoublesFrame DEF vars
<1> QED
  BY <1>1, <1>2, <1>3, <1>4, <1>5, <1>6, DoublesAdmit, DoublesCheck, DoublesPublish,
     DoublesInsert DEF Next, Work

\* A second opportunity opens on a side with a live one only when the first was
\* stored after the scorer had asked on behalf of the second.
THEOREM DoubledSidesRaced == Spec => []DoublesRaced
<1>1. Init => DoublesInv
  BY DEF Init, DoublesInv, DoublesRaced, Published
<1>2. TypeOK /\ TypeOK' /\ DoublesInv /\ [Next]_vars => DoublesInv'
  BY DoublesNext, ConstantsAreNat
<1>3. DoublesInv => DoublesRaced
  BY DEF DoublesInv
<1> QED  BY <1>1, <1>2, <1>3, FusionTyped, PTL DEF Spec

-----------------------------------------------------------------------------
(* Held sides.  The induction is over the admissions: a held one extends the *)
(* chain of the admission that holds the side.                             *)

\* A check changes nothing the chains are made of.
LEMMA EarnedFrame ==
  ASSUME HeldSideWasEarned, DOMAIN signals' = DOMAIN signals,
         DOMAIN signals = 1 .. Len(signals), Len(signals) \in Nat,
         \A s \in DOMAIN signals : /\ signals'[s].symbol = signals[s].symbol
                                   /\ signals'[s].side = signals[s].side
                                   /\ signals'[s].strength = signals[s].strength
                                   /\ signals'[s].at = signals[s].at
  PROVE  HeldSideWasEarned'
<1>1. \A s, t \in DOMAIN signals : SameSide(s, t)' <=> SameSide(s, t)
  BY DEF SameSide
<1> SUFFICES ASSUME NEW s \in DOMAIN signals
    PROVE \E first \in 1 .. s :
            /\ SameSide(first, s)' /\ signals'[first].strength = "enter"
            /\ \A t \in first + 1 .. s : signals'[t].symbol = signals'[s].symbol =>
                 /\ SameSide(t, s)'
                 /\ \E p \in first .. t - 1 : /\ SameSide(p, s)'
                                            /\ signals'[t].at < signals'[p].at + Hold
  BY DEF HeldSideWasEarned
<1>2. PICK first \in 1 .. s :
        /\ SameSide(first, s) /\ signals[first].strength = "enter"
        /\ \A t \in first + 1 .. s : signals[t].symbol = signals[s].symbol =>
             /\ SameSide(t, s)
             /\ \E p \in first .. t - 1 : /\ SameSide(p, s)
                                        /\ signals[t].at < signals[p].at + Hold
  BY DEF HeldSideWasEarned
<1>3. first \in DOMAIN signals
  OBVIOUS
<1>4. ASSUME NEW t \in first + 1 .. s, signals'[t].symbol = signals'[s].symbol
      PROVE  /\ SameSide(t, s)'
             /\ \E p \in first .. t - 1 : /\ SameSide(p, s)'
                                        /\ signals'[t].at < signals'[p].at + Hold
  <2>1. t \in DOMAIN signals /\ signals[t].symbol = signals[s].symbol
    BY <1>4
  <2>2. SameSide(t, s)
    BY <1>2, <2>1
  <2>3. PICK p \in first .. t - 1 : SameSide(p, s) /\ signals[t].at < signals[p].at + Hold
    BY <1>2, <2>1
  <2>4. p \in DOMAIN signals
    OBVIOUS
  <2> QED  BY <1>1, <2>1, <2>2, <2>3, <2>4
<1> QED  BY <1>1, <1>2, <1>3, <1>4

\* The chain of admissions that earned the side of s, from the one that entered.
Chain(s, first) ==
  /\ SameSide(first, s) /\ signals[first].strength = "enter"
  /\ \A t \in first + 1 .. s : signals[t].symbol = signals[s].symbol =>
       /\ SameSide(t, s)
       /\ \E p \in first .. t - 1 : /\ SameSide(p, s)
                                  /\ signals[t].at < signals[p].at + Hold

LEMMA EarnedAdmit ==
  ASSUME ConstantsAreNat, TypeOK, HeldSideWasEarned, NEW symbol \in Symbols, Admit(symbol)
  PROVE  HeldSideWasEarned'
<1>0. PICK n \in Nat : n = Len(signals) + 1
  BY Decided
<1>1. Len(signals) \in Nat /\ DOMAIN signals = 1 .. Len(signals) /\ now \in Nat /\ Hold \in Nat
  BY Decided DEF TypeOK, ConstantsAreNat
<1>2. PICK side \in Sides, strength \in Strengths :
        /\ Admitted(symbol, side, strength)
        /\ Len(signals') = n /\ DOMAIN signals' = 1 .. n
        /\ \A s \in 1 .. Len(signals) : signals'[s] = signals[s]
        /\ signals'[n] =
             [symbol |-> symbol, side |-> side, strength |-> strength, at |-> now, saw |-> 0]
  BY <1>0, AdmitEffect
<1>3. /\ signals'[n].symbol = symbol /\ signals'[n].side = side
      /\ signals'[n].strength = strength /\ signals'[n].at = now
  BY <1>2
<1>4. n \in Nat /\ n \notin DOMAIN signals /\ \A s \in 1 .. n : s \in DOMAIN signals \/ s = n
  BY <1>0, <1>1
<1>5. \A s \in DOMAIN signals : signals'[s] = signals[s]
  BY <1>1, <1>2
<1>6. \A s, t \in DOMAIN signals : SameSide(s, t)' <=> SameSide(s, t)
  BY <1>5 DEF SameSide
<1>7. ASSUME NEW s \in DOMAIN signals PROVE \E first \in 1 .. s : Chain(s, first)
  BY DEF HeldSideWasEarned, Chain
<1>8. ASSUME NEW s \in DOMAIN signals, NEW first \in 1 .. s, Chain(s, first)
      PROVE  Chain(s, first)'
  <2>1. first \in DOMAIN signals
    BY <1>1
  <2>2. ASSUME NEW t \in first + 1 .. s, signals'[t].symbol = signals'[s].symbol
        PROVE  /\ SameSide(t, s)'
               /\ \E p \in first .. t - 1 : /\ SameSide(p, s)'
                                          /\ signals'[t].at < signals'[p].at + Hold
    <3>1. t \in DOMAIN signals /\ signals[t].symbol = signals[s].symbol
      BY <1>1, <1>5, <2>2
    <3>2. SameSide(t, s)
      BY <1>8, <3>1 DEF Chain
    <3>3. PICK p \in first .. t - 1 : SameSide(p, s) /\ signals[t].at < signals[p].at + Hold
      BY <1>8, <3>1 DEF Chain
    <3>4. p \in DOMAIN signals
      BY <1>1
    <3> QED  BY <1>5, <1>6, <3>1, <3>2, <3>3, <3>4
  <2> QED  BY <1>5, <1>6, <1>8, <2>1, <2>2 DEF Chain
<1>9. \E first \in 1 .. n : Chain(n, first)'
  <2>1. CASE strength = "enter"
    <3>1. n \in 1 .. n /\ n + 1 .. n = {}
      BY <1>0, <1>1
    <3>2. SameSide(n, n)'
      BY DEF SameSide
    <3> QED  BY <1>3, <2>1, <3>1, <3>2 DEF Chain
  <2>2. CASE Held(symbol, side)
    <3>1. PICK h \in DOMAIN signals :
            /\ signals[h].symbol = symbol /\ signals[h].side = side
            /\ signals[h].at > now - Hold
            /\ \A t \in h + 1 .. Len(signals) : signals[t].symbol # symbol
      BY <2>2 DEF Held, Last
    <3>2. PICK first \in 1 .. h : Chain(h, first)
      BY <1>7
    <3>3. h \in 1 .. n - 1 /\ first \in 1 .. h /\ first \in 1 .. n /\ signals[h].at \in Nat
      <4>1. h \in 1 .. n - 1
        BY <1>0, <1>1, <3>1
      <4>2. signals[h].at \in Nat
        BY <3>1, Decided DEF Signal
      <4>3. first \in 1 .. h
        BY <3>2
      <4>4. first \in 1 .. n
        BY <1>4, <4>1, <4>3
      <4> QED  BY <4>1, <4>2, <4>3, <4>4
    <3>4. \A q \in DOMAIN signals : SameSide(q, h) => SameSide(q, n)'
      BY <1>3, <1>5, <3>1 DEF SameSide
    <3>5. ASSUME NEW t \in first + 1 .. n, signals'[t].symbol = symbol
          PROVE  /\ SameSide(t, n)'
                 /\ \E p \in first .. t - 1 : /\ SameSide(p, n)'
                                            /\ signals'[t].at < signals'[p].at + Hold
      <4>1. CASE t = n
        <5>0. SameSide(h, h)
          BY DEF SameSide
        <5>1. SameSide(n, n)' /\ SameSide(h, n)'
          BY <3>4, <5>0 DEF SameSide
        <5>2. now < signals'[h].at + Hold
          <6>1. signals'[h] = signals[h]
            BY <1>5, <3>1
          <6>2. signals[h].at > now - Hold /\ signals[h].at \in Int
            BY <3>1, <3>3
          <6>3. now < signals[h].at + Hold
            BY <1>1, <6>2
          <6> QED  BY <6>1, <6>3
        <5>3. h \in first .. n - 1
          BY <3>3
        <5>4. SameSide(t, n)' /\ signals'[t].at = now
          BY <1>3, <4>1, <5>1
        <5>5. h \in first .. t - 1
          BY <4>1, <5>3
        <5> QED  BY <5>1, <5>2, <5>4, <5>5
      <4>2. CASE t \in DOMAIN signals
        <5>1. signals[t].symbol = symbol
          BY <1>5, <3>5, <4>2
        <5>2. t \in first + 1 .. h
          <6>1. ~(t \in h + 1 .. Len(signals))
            BY <3>1, <5>1
          <6>2. t \in 1 .. Len(signals) /\ h \in Nat /\ first \in Nat
            BY <1>1, <3>3, <4>2
          <6> QED  BY <1>1, <6>1, <6>2
        <5>3. SameSide(t, h)
          BY <3>1, <3>2, <5>1, <5>2 DEF Chain
        <5>4. PICK p \in first .. t - 1 : SameSide(p, h) /\ signals[t].at < signals[p].at + Hold
          BY <3>1, <3>2, <5>1, <5>2 DEF Chain
        <5>5. p \in DOMAIN signals
          BY <1>1, <5>2
        <5> QED  BY <1>5, <3>4, <4>2, <5>3, <5>4, <5>5
      <4> QED  BY <1>4, <3>3, <4>1, <4>2
    <3>6. SameSide(first, n)' /\ signals'[first].strength = "enter"
      <4>1. first \in DOMAIN signals
        BY <1>1, <3>3
      <4>2. SameSide(first, h) /\ signals[first].strength = "enter"
        BY <3>2 DEF Chain
      <4> QED  BY <1>5, <3>4, <4>1, <4>2
    <3>7. Chain(n, first)'
      <4>1. \A t \in first + 1 .. n : signals'[t].symbol = signals'[n].symbol =>
              /\ SameSide(t, n)'
              /\ \E p \in first .. t - 1 : /\ SameSide(p, n)'
                                         /\ signals'[t].at < signals'[p].at + Hold
        BY <1>3, <3>5
      <4> QED  BY <3>6, <4>1 DEF Chain
    <3> QED  BY <3>3, <3>7
  <2> QED  BY <1>2, <2>1, <2>2 DEF Admitted
<1>10. ASSUME NEW s \in DOMAIN signals' PROVE \E first \in 1 .. s : Chain(s, first)'
  BY <1>2, <1>4, <1>7, <1>8, <1>9
<1> QED  BY <1>10 DEF HeldSideWasEarned, Chain

\* A side held on a weak score goes back, with no gap as long as Hold and no
\* other side between, to a score that earned entry.
THEOREM HeldSidesWereEarned == Spec => []HeldSideWasEarned
<1>1. Init => HeldSideWasEarned
  BY DEF Init, HeldSideWasEarned
<1>2. TypeOK /\ HeldSideWasEarned /\ [Next]_vars => HeldSideWasEarned'
  <2> SUFFICES ASSUME ConstantsAreNat, TypeOK, HeldSideWasEarned, [Next]_vars
               PROVE  HeldSideWasEarned'
    BY ConstantsAreNat
  <2>1. CASE signals' = signals
    BY <2>1, Decided, EarnedFrame
  <2>2. CASE Check
    <3>1. Last \in DOMAIN signals /\ signals[Last] \in Signal
      BY <2>2, LastSignal, Decided DEF Check
    <3>2. signals' = [signals EXCEPT ![Last] = [signals[Last] EXCEPT !.saw = Len(opps)]]
      BY <2>2 DEF Check
    <3> QED  BY <3>1, <3>2, Decided, EarnedFrame DEF Signal
  <2>3. CASE \E symbol \in Symbols : Admit(symbol)
    BY <2>3, EarnedAdmit
  <2>4. signals' = signals \/ Check \/ \E symbol \in Symbols : Admit(symbol)
    BY DEF Next, vars, Pass, Publish, CycleFails, ScorerCrashes, Work, Start, Scan, Poll,
           Insert, Ack, BatchFails, WorkerCrashes, Tick
  <2> QED  BY <2>1, <2>2, <2>3, <2>4
<1> QED  BY <1>1, <1>2, FusionTyped, PTL DEF Spec

=============================================================================
