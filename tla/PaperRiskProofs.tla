--------------------------- MODULE PaperRiskProofs ---------------------------
(***************************************************************************)
(* Theorems about PaperRisk, for every number of opportunities, workers,   *)
(* kills and restarts.                                                     *)
(***************************************************************************)
EXTENDS PaperRisk, TLAPS, FiniteSetTheorems

(* The rules a quote can fire, or none. *)
ExitRules == NaturalRules \union {"none"}

-----------------------------------------------------------------------------
(* What the lifecycle operators return. *)

(* An owed, fired or asked-for exit is an exit record. *)
LEMMA FiredType ==
    ASSUME NEW x \in Position, NEW natural \in ExitRules, NEW manual \in BOOLEAN
    PROVE  Fired(x, natural, manual) \in Exit
BY DEF Fired, Position, Exit, ExitOf, NoExit, Rules, ExitRules

(* A fill of at most what is held leaves a position. *)
LEMMA FillExitType ==
    ASSUME NEW x \in Position, NEW f \in Exit, NEW d \in 0..x.held
    PROVE  FillExit(x, f, d) \in Position /\ FillExit(x, f, d).status \in {x.status, "closed"}
<1>1. NoExit \in Exit /\ Size \in Nat
  BY NumbersAssumption DEF NoExit, Exit
<1>2. x.held \in 0..Size
  BY DEF Position
<1>3. CASE d < x.held
  <2>1. x.held - d \in 0..Size
    BY <1>1, <1>2, <1>3
  <2>2. FillExit(x, f, d) = [x EXCEPT !.held = x.held - d, !.pending = f]
    BY <1>3 DEF FillExit
  <2> QED
    BY <2>1, <2>2 DEF Position
<1>4. CASE ~(d < x.held)
  BY <1>1, <1>4 DEF FillExit, Position
<1> QED
  BY <1>3, <1>4

LEMMA AdvanceType ==
    ASSUME NEW x \in Position, NEW natural \in ExitRules, NEW manual \in BOOLEAN, NEW d \in 0..x.held
    PROVE  Advance(x, natural, manual, d) \in Position
           /\ Advance(x, natural, manual, d).status \in {x.status, "closed"}
BY FiredType, FillExitType DEF Advance

(* A relabelled exit is an exit record. *)
LEMMA LabelledType ==
    ASSUME NEW e \in Exit, NEW k \in 0..MaxKills
    PROVE  Labelled(e, k) \in Exit
BY DEF Labelled, Exit, Rules

LEMMA KillCloseType ==
    ASSUME NEW x \in Position, NEW natural \in ExitRules, NEW d \in 0..x.held, NEW k \in 0..MaxKills
    PROVE  KillClose(x, natural, d, k) \in Position
           /\ KillClose(x, natural, d, k).status \in {x.status, "closed"}
<1> DEFINE r == Advance(x, natural, TRUE, d)
<1>1. r \in Position /\ r.status \in {x.status, "closed"}
  BY AdvanceType
<1>2. r.exit \in Exit /\ r.pending \in Exit
  BY <1>1 DEF Position
<1>3. Labelled(r.exit, k) \in Exit /\ Labelled(r.pending, k) \in Exit
  BY <1>2, LabelledType
<1> HIDE DEF r
<1>4. [r EXCEPT !.exit = Labelled(r.exit, k)] \in Position
      /\ [r EXCEPT !.exit = Labelled(r.exit, k)].status = r.status
  BY <1>1, <1>3 DEF Position
<1>5. [r EXCEPT !.pending = Labelled(r.pending, k)] \in Position
      /\ [r EXCEPT !.pending = Labelled(r.pending, k)].status = r.status
  BY <1>1, <1>3 DEF Position
<1>6. KillClose(x, natural, d, k) = IF r.status = "closed"
                                    THEN [r EXCEPT !.exit = Labelled(r.exit, k)]
                                    ELSE [r EXCEPT !.pending = Labelled(r.pending, k)]
  BY DEF KillClose, r
<1> QED
  BY <1>1, <1>4, <1>5, <1>6

(* A task whose book a newer one overtook is a task. *)
LEMMA OvertakeType ==
    ASSUME task \in [Workers -> Task], NEW p, NEW b \in 1..MaxAhead
    PROVE  Overtake(p, b) \in [Workers -> Task]
BY NumbersAssumption DEF Overtake, Task

(* An idle worker's task is a task, and so is the work left of a kill.      *)
LEMMA IdleType == Idle \in Task
BY NumbersAssumption DEF Idle, Task

LEMMA ClosingType ==
    ASSUME NEW k \in 0..MaxKills, NEW todo \in SUBSET Positions
    PROVE  Closing(k, todo) \in Task
<1>1. CASE todo = {}
  BY <1>1, IdleType DEF Closing
<1>2. CASE todo # {}
  BY <1>2, NumbersAssumption DEF Closing, Task
<1> QED
  BY <1>1, <1>2

LEMMA HoldingType ==
    ASSUME NEW p \in Positions, NEW b \in 0..MaxAhead, NEW k \in 0..MaxKills, NEW todo \in SUBSET Positions
    PROVE  Holding(p, b, k, todo) \in Task
BY DEF Holding, Task

LEMMA ArmedType ==
    ASSUME NEW k \in 0..MaxKills PROVE Armed(k) \in Task
BY NumbersAssumption DEF Armed, Task

(* What storing an advanced position does, whichever worker stores it.      *)
LEMMA StoreType ==
    ASSUME TypeOK,
           NEW w \in Workers, NEW p \in Positions, NEW b \in 1..MaxAhead, NEW x \in Position,
           NEW natural \in ExitRules, NEW filledBy \in {"observer", "kill_switch"}, NEW next \in Task,
           Store(w, p, b, x, natural, filledBy, next)
    PROVE  TypeOK'
<1>1. pos' \in [Positions -> Position]
  BY DEF TypeOK, Store
<1>2. task' \in [Workers -> Task]
  <2>1. Overtake(p, b) \in [Workers -> Task]
    BY OvertakeType DEF TypeOK
  <2> QED
    BY <2>1 DEF Store
<1>3. audits' \in [Positions -> Seq(Audit)]
  <2>1. CloseAudit(x, filledBy) \in Audit
    BY DEF CloseAudit, Audit, TypeOK, Position, Exit
  <2>2. Append(audits[p], CloseAudit(x, filledBy)) \in Seq(Audit)
    BY <2>1 DEF TypeOK
  <2> QED
    BY <2>2 DEF Store, RecordClose, TypeOK
<1>4. booked' \subseteq Positions /\ awaiting' \subseteq Positions
  BY DEF Store, TypeOK
<1>5. fired' \in [Positions -> ExitRules]
  BY DEF Store, TypeOK, ExitRules
<1>6. UNCHANGED <<kill, paused, run, entry, recon, breach, vouched, restarts>>
  BY DEF Store
<1> QED
  BY <1>1, <1>2, <1>3, <1>4, <1>5, <1>6 DEF TypeOK, ExitRules

-----------------------------------------------------------------------------
(* Type correctness. *)

LEMMA NoExitType == NoExit \in Exit /\ Absent \in Position /\ Opened \in Position
<1>1. NoExit \in Exit
  BY NumbersAssumption DEF NoExit, Exit
<1>2. Absent \in Position
  BY <1>1, NumbersAssumption DEF Absent, Position
<1> QED
  BY <1>1, <1>2, NumbersAssumption DEF Opened, Position

LEMMA TypeInit == Init => TypeOK
<1> SUFFICES ASSUME Init PROVE TypeOK
  OBVIOUS
<1>1. pos \in [Positions -> Position] /\ audits \in [Positions -> Seq(Audit)]
      /\ fired \in [Positions -> ExitRules]
  BY NoExitType DEF Init, ExitRules
<1>2. task \in [Workers -> Task]
  BY IdleType DEF Init
<1>3. /\ kill \in [active: BOOLEAN, by: 0..MaxKills]
      /\ entry \in [p: Positions \union {"nobody"}, admitted: BOOLEAN]
      /\ recon \in [pc: {"idle", "assessed"}, verdict: Verdicts, saw: SUBSET Positions]
      /\ restarts \in 0..MaxRestarts
  BY NumbersAssumption DEF Init, Free, Verdicts
<1> QED
  BY <1>1, <1>2, <1>3 DEF Init, TypeOK, ExitRules

(* The workers of each kind, and the position a fill is about. *)
LEMMA WorkerKinds ==
    /\ Observers \union Routes \subseteq Workers
    /\ Killers \subseteq Workers
    /\ Monitor \in Killers
BY DEF Workers, Killers

LEMMA TypeStep == TypeOK /\ [Next]_vars => TypeOK'
<1> SUFFICES ASSUME TypeOK, [Next]_vars PROVE TypeOK'
  OBVIOUS
<1> USE NumbersAssumption
<1>1. CASE Entries
  <2>1. entry' \in [p: Positions \union {"nobody"}, admitted: BOOLEAN]
    <3>1. CASE EntryAdmit
      <4>1. entry \in [p: Positions \union {"nobody"}, admitted: BOOLEAN]
        BY DEF TypeOK
      <4>2. entry' = [p |-> entry.p, admitted |-> TRUE]
        BY <3>1 DEF EntryAdmit
      <4>3. entry.p \in Positions \union {"nobody"}
        BY <4>1
      <4>4. [p |-> entry.p, admitted |-> TRUE] \in [p: Positions \union {"nobody"}, admitted: BOOLEAN]
        BY <4>3
      <4> QED
        BY <4>2, <4>4
    <3>2. CASE EntryCommit \/ EntryRefuse
      <4>1. entry' = Free
        BY <3>2 DEF EntryCommit, EntryRefuse
      <4> QED
        BY <4>1 DEF Free
    <3>3. ASSUME NEW p \in Positions, EntryLock(p) PROVE entry' \in [p: Positions \union {"nobody"}, admitted: BOOLEAN]
      BY <3>3 DEF EntryLock
    <3> QED
      BY <1>1, <3>1, <3>2, <3>3 DEF Entries
  <2>2. pos' \in [Positions -> Position]
    BY <1>1, NoExitType DEF Entries, EntryAdmit, EntryCommit, EntryRefuse, EntryLock, TypeOK, db
  <2>3. UNCHANGED <<kill, paused, run, booked, awaiting, audits, task, recon, env, hist>>
    BY <1>1 DEF Entries, EntryAdmit, EntryCommit, EntryRefuse, EntryLock, db
  <2> QED
    BY <2>1, <2>2, <2>3 DEF TypeOK, env, hist
<1>2. ASSUME NEW w \in Observers \union Routes, Observing(w) PROVE TypeOK'
  <2>1. ASSUME NEW p \in Positions, ObserverRead(w, p) PROVE TypeOK'
    <3>1. \A b \in 0..MaxAhead : Holding(p, b, 0, {}) \in Task
      BY HoldingType
    <3>2. 0 \in 0..MaxAhead
      OBVIOUS
    <3>3. task' \in [Workers -> Task]
      <4>1. PICK t \in Task : task' = [task EXCEPT ![w] = t]
        BY <2>1, <3>1, <3>2 DEF ObserverRead
      <4> QED
        BY <4>1 DEF TypeOK
    <3> QED
      BY <2>1, <3>3 DEF ObserverRead, TypeOK, db, env, hist
  <2>2. CASE Observe(w)
    <3> DEFINE p == task[w].p
    <3>1. p \in Positions /\ task[w].ahead \in 1..MaxAhead
      <4>1. task[w] \in Task
        BY WorkerKinds DEF TypeOK
      <4>2. task[w].pc = "book" /\ task[w].ahead > 0
        BY <2>2 DEF Observe
      <4> QED
        BY <4>1, <4>2 DEF Task
    <3>2. PICK natural \in ExitRules, d \in 0..pos[p].held :
             Store(w, p, task[w].ahead, Advance(pos[p], natural, w \in Routes, d), natural, "observer", Idle)
      BY <2>2 DEF Observe, ExitRules
    <3>3. pos[p] \in Position
      BY <3>1 DEF TypeOK
    <3>4. Advance(pos[p], natural, w \in Routes, d) \in Position
      <4>1. (w \in Routes) \in BOOLEAN
        OBVIOUS
      <4> QED
        BY <3>3, <4>1, AdvanceType
    <3> QED
      BY <3>1, <3>2, <3>4, StoreType, IdleType, WorkerKinds
  <2>3. CASE ObserverDiscard(w)
    BY <2>3, IdleType DEF ObserverDiscard, TypeOK, db, env, hist
  <2>4. CASE SettleFunding(w)
    <3>1. task[w].p \in Positions
      BY <2>4 DEF SettleFunding, TypeOK
    <3> QED
      BY <2>4, <3>1, IdleType DEF SettleFunding, TypeOK, env, hist
  <2> QED
    BY <1>2, <2>1, <2>2, <2>3, <2>4 DEF Observing
<1>3. ASSUME NEW w \in Killers, Killing(w) PROVE TypeOK'
  <2>0. w \in Workers /\ task[w] \in Task /\ task[w].by \in 0..MaxKills /\ task[w].todo \in SUBSET Positions
    BY WorkerKinds DEF TypeOK, Task
  <2>1. CASE KillList(w)
    <3>1. Closing(task[w].by, OpenPositions) \in Task
      BY <2>0, ClosingType DEF OpenPositions
    <3> QED
      BY <2>1, <3>1 DEF KillList, TypeOK, db, env, hist
  <2>2. ASSUME NEW p \in Positions, KillRead(w, p) PROVE TypeOK'
    <3>1. PICK b \in 0..MaxAhead :
             task' = [task EXCEPT ![w] = Holding(p, b, task[w].by, task[w].todo \ {p})]
      BY <2>2 DEF KillRead
    <3>2. Holding(p, b, task[w].by, task[w].todo \ {p}) \in Task
      BY <2>0, HoldingType DEF Task
    <3> QED
      BY <2>2, <3>1, <3>2 DEF KillRead, TypeOK, db, env, hist
  <2>3. CASE KillWrite(w)
    <3> DEFINE p == task[w].p
    <3>1. p \in Positions /\ task[w].ahead \in 1..MaxAhead
      <4>1. task[w].pc = "book" /\ task[w].ahead > 0
        BY <2>3 DEF KillWrite
      <4> QED
        BY <2>0, <4>1 DEF Task
    <3>2. PICK natural \in ExitRules, d \in 0..pos[p].held :
             Store(w, p, task[w].ahead, KillClose(pos[p], natural, d, task[w].by), natural, "kill_switch",
                   Closing(task[w].by, task[w].todo))
      BY <2>3 DEF KillWrite, ExitRules
    <3>3. pos[p] \in Position /\ task[w].by \in 0..MaxKills
      BY <3>1, <2>0 DEF TypeOK, Task
    <3>4. KillClose(pos[p], natural, d, task[w].by) \in Position
      BY <3>3, KillCloseType
    <3>5. Closing(task[w].by, task[w].todo) \in Task
      BY <2>0, ClosingType DEF Task
    <3> QED
      BY <3>1, <3>2, <3>4, <3>5, <2>0, StoreType
  <2>4. CASE KillSkip(w)
    <3>1. \A todo \in SUBSET Positions : Closing(task[w].by, todo) \in Task
      BY <2>0, ClosingType
    <3>2. task' \in [Workers -> Task]
      <4>1. PICK todo \in SUBSET Positions : task' = [task EXCEPT ![w] = Closing(task[w].by, todo)]
        BY <2>0, <2>4 DEF KillSkip
      <4> QED
        BY <3>1, <4>1 DEF TypeOK
    <3> QED
      BY <2>4, <3>2 DEF KillSkip, TypeOK, db, env, hist
  <2> QED
    BY <1>3, <2>1, <2>2, <2>3, <2>4 DEF Killing
<1>4. CASE Controls
  <2>1. \A k \in 0..MaxKills : Armed(k) \in Task
    BY ArmedType
  <2>2. ASSUME NEW w \in Engagers, Engage(w) PROVE TypeOK'
    <3>0. kill.by \in 0..MaxKills
      BY DEF TypeOK
    <3>1. kill' \in [active: BOOLEAN, by: 0..MaxKills] /\ paused' \in BOOLEAN
      <4>1. CASE UNCHANGED <<kill, paused>>
        BY <4>1 DEF TypeOK
      <4>2. CASE kill.by < MaxKills /\ kill' = [active |-> TRUE, by |-> kill.by + 1] /\ paused' = TRUE
        BY <3>0, <4>2
      <4> QED
        BY <2>2, <4>1, <4>2 DEF Engage
    <3>2. Armed(kill'.by) \in Task
      BY <2>1, <3>1
    <3>3. task' \in [Workers -> Task]
      BY <2>2, <3>2 DEF Engage, TypeOK
    <3> QED
      BY <2>2, <3>1, <3>3 DEF Engage, TypeOK, env, hist
  <2>3. CASE MonitorRead
    BY <2>1, <2>3 DEF MonitorRead, TypeOK, db, env, hist
  <2>4. CASE Resume
    BY <2>4 DEF Resume, TypeOK, mem, env, hist
  <2>5. CASE PauseOn \/ PauseOff \/ PauseOnBreach
    BY <2>5 DEF PauseOn, PauseOff, PauseOnBreach, TypeOK, mem, env, hist
  <2> QED
    BY <1>4, <2>2, <2>3, <2>4, <2>5 DEF Controls
<1>5. CASE ReconSnapshot
  BY <1>5 DEF ReconSnapshot, TypeOK, Verdicts, Closed, db, env, hist
<1>6. CASE ReconRecord
  BY <1>6 DEF ReconRecord, TypeOK, Verdicts, env
<1>7. CASE Environment
  <2>1. CASE EquityMoves
    BY <2>1, OutcomesAssumption DEF EquityMoves, TypeOK, db, mem, hist
  <2>2. CASE RunAges
    BY <2>2 DEF RunAges, TypeOK, mem, env, hist
  <2>3. CASE Restart
    BY <2>3, IdleType DEF Restart, TypeOK, Free, Verdicts, hist
  <2> QED
    BY <1>7, <2>1, <2>2, <2>3 DEF Environment
<1>8. CASE UNCHANGED vars
  BY <1>8 DEF vars, db, mem, env, hist, TypeOK
<1> QED
  BY <1>1, <1>2, <1>3, <1>4, <1>5, <1>6, <1>7, <1>8 DEF Next

(* Every reachable state has its type: no worker, order of commits or       *)
(* restart takes a row or a worker's memory outside it.                     *)
THEOREM TypeCorrect == Spec => []TypeOK
BY TypeInit, TypeStep, PTL DEF Spec

-----------------------------------------------------------------------------
(* What a step may do to a position. *)

(* One worker used a book for the open position p and left it as x. *)
Touch(p, x, natural) ==
    /\ p \in Positions /\ IsOpen(p)
    /\ pos' = [pos EXCEPT ![p] = x]
    /\ \E filledBy \in {"observer", "kill_switch"} : RecordClose(p, x, filledBy)
    /\ fired' = [fired EXCEPT ![p] = IF @ = "none" /\ pos[p].pending = NoExit THEN natural ELSE @]
    /\ UNCHANGED <<kill, paused, run, entry>>

Observed ==
    \E p \in Positions, natural \in ExitRules, manual \in BOOLEAN : \E d \in 0..pos[p].held :
       Touch(p, Advance(pos[p], natural, manual, d), natural)

Killed ==
    \E w \in Killers, p \in Positions, natural \in ExitRules : \E d \in 0..pos[p].held :
       /\ task[w].pc = "book"
       /\ Touch(p, KillClose(pos[p], natural, d, task[w].by), natural)

(* A step leaves positions, audits and fired rules alone, or commits an     *)
(* entry, or is one observation by the observer's or the kill's path.       *)
LEMMA StepKinds ==
    TypeOK /\ [Next]_vars =>
       UNCHANGED <<pos, audits, fired>> \/ EntryCommit \/ Observed \/ Killed
<1> SUFFICES ASSUME TypeOK, [Next]_vars
             PROVE  UNCHANGED <<pos, audits, fired>> \/ EntryCommit \/ Observed \/ Killed
  OBVIOUS
<1>1. CASE Entries
  BY <1>1 DEF Entries, EntryAdmit, EntryRefuse, EntryLock, db, hist
<1>2. ASSUME NEW w \in Observers \union Routes, Observing(w)
      PROVE  UNCHANGED <<pos, audits, fired>> \/ Observed
  <2>1. CASE Observe(w)
    <3>1. task[w] \in Task
      BY WorkerKinds DEF TypeOK
    <3>2. task[w].p \in Positions /\ IsOpen(task[w].p)
      BY <2>1, <3>1 DEF Observe, Task
    <3>3. PICK natural \in ExitRules, d \in 0..pos[task[w].p].held :
             Store(w, task[w].p, task[w].ahead, Advance(pos[task[w].p], natural, w \in Routes, d),
                   natural, "observer", Idle)
      BY <2>1 DEF Observe, ExitRules
    <3>4. Touch(task[w].p, Advance(pos[task[w].p], natural, w \in Routes, d), natural)
      BY <3>2, <3>3 DEF Store, Touch
    <3>5. (w \in Routes) \in BOOLEAN
      OBVIOUS
    <3> QED
      BY <3>2, <3>4, <3>5 DEF Observed
  <2>2. CASE \E p \in Positions : ObserverRead(w, p)
    BY <2>2 DEF ObserverRead, db, hist
  <2>3. CASE ObserverDiscard(w)
    BY <2>3 DEF ObserverDiscard, db, hist
  <2>4. CASE SettleFunding(w)
    BY <2>4 DEF SettleFunding, hist
  <2> QED
    BY <1>2, <2>1, <2>2, <2>3, <2>4 DEF Observing
<1>3. ASSUME NEW w \in Killers, Killing(w)
      PROVE  UNCHANGED <<pos, audits, fired>> \/ Killed
  <2>1. CASE KillWrite(w)
    <3>1. task[w] \in Task /\ task[w].pc = "book"
      BY <2>1, WorkerKinds DEF TypeOK, KillWrite
    <3>2. task[w].p \in Positions /\ IsOpen(task[w].p)
      BY <2>1, <3>1 DEF KillWrite, Task
    <3>3. PICK natural \in ExitRules, d \in 0..pos[task[w].p].held :
             Store(w, task[w].p, task[w].ahead, KillClose(pos[task[w].p], natural, d, task[w].by),
                   natural, "kill_switch", Closing(task[w].by, task[w].todo))
      BY <2>1 DEF KillWrite, ExitRules
    <3>4. Touch(task[w].p, KillClose(pos[task[w].p], natural, d, task[w].by), natural)
      BY <3>2, <3>3 DEF Store, Touch
    <3> QED
      BY <3>1, <3>2, <3>4 DEF Killed
  <2>2. CASE KillList(w) \/ KillSkip(w) \/ \E p \in Positions : KillRead(w, p)
    BY <2>2 DEF KillList, KillSkip, KillRead, db, hist
  <2> QED
    BY <1>3, <2>1, <2>2 DEF Killing
<1>4. CASE Controls
  BY <1>4 DEF Controls, Resume, PauseOn, PauseOff, PauseOnBreach, MonitorRead, Engage, db, hist
<1>5. CASE ReconSnapshot \/ ReconRecord
  BY <1>5 DEF ReconSnapshot, ReconRecord, db, hist
<1>6. CASE Environment
  BY <1>6 DEF Environment, EquityMoves, RunAges, Restart, db, hist
<1>7. CASE UNCHANGED vars
  BY <1>7 DEF vars, db, hist
<1> QED
  BY <1>1, <1>2, <1>3, <1>4, <1>5, <1>6, <1>7 DEF Next

(* What an observation leaves behind is a position, open or closed. *)
LEMMA TouchedType ==
    ASSUME TypeOK, NEW p \in Positions, NEW natural \in ExitRules, NEW d \in 0..pos[p].held
    PROVE  /\ \A manual \in BOOLEAN :
                 /\ Advance(pos[p], natural, manual, d) \in Position
                 /\ Advance(pos[p], natural, manual, d).status \in {pos[p].status, "closed"}
           /\ \A w \in Killers :
                 /\ KillClose(pos[p], natural, d, task[w].by) \in Position
                 /\ KillClose(pos[p], natural, d, task[w].by).status \in {pos[p].status, "closed"}
<1>1. pos[p] \in Position
  BY DEF TypeOK
<1>2. \A w \in Killers : task[w].by \in 0..MaxKills
  BY WorkerKinds DEF TypeOK, Task
<1> QED
  BY <1>1, <1>2, AdvanceType, KillCloseType

(* Only a committed entry opens a position. *)
LEMMA StatusStep ==
    ASSUME TypeOK, [Next]_vars, ~EntryCommit, NEW q \in Positions
    PROVE  pos'[q].status \in {pos[q].status, "closed"}
<1>1. CASE UNCHANGED <<pos, audits, fired>>
  BY <1>1
<1>2. ASSUME NEW p \in Positions, NEW x, NEW natural, x.status \in {pos[p].status, "closed"}, Touch(p, x, natural)
      PROVE  pos'[q].status \in {pos[q].status, "closed"}
  BY <1>2 DEF Touch, TypeOK
<1>3. CASE Observed
  <2>1. PICK p \in Positions, natural \in ExitRules, manual \in BOOLEAN :
           \E d \in 0..pos[p].held : Touch(p, Advance(pos[p], natural, manual, d), natural)
    BY <1>3 DEF Observed
  <2>2. PICK d \in 0..pos[p].held : Touch(p, Advance(pos[p], natural, manual, d), natural)
    BY <2>1
  <2> QED
    BY <1>2, <2>2, TouchedType
<1>4. CASE Killed
  <2>1. PICK w \in Killers, p \in Positions, natural \in ExitRules :
           \E d \in 0..pos[p].held : Touch(p, KillClose(pos[p], natural, d, task[w].by), natural)
    BY <1>4 DEF Killed
  <2>2. PICK d \in 0..pos[p].held : Touch(p, KillClose(pos[p], natural, d, task[w].by), natural)
    BY <2>1
  <2> QED
    BY <1>2, <2>2, TouchedType
<1> QED
  BY <1>1, <1>3, <1>4, StepKinds

-----------------------------------------------------------------------------
(* Entries and the controls. *)

(* What admission read still holds when the entry commits: the entry lock   *)
(* keeps the kill switch, the pause and a mismatch out, and every position  *)
(* that closes meanwhile only helps.                                        *)
AdmittedHolds ==
    ~LockFree /\ entry.admitted =>
       /\ ~kill.active /\ ~paused /\ run # "mismatch"
       /\ Cardinality(OpenPositions) < MaxOpen
       /\ \A q \in OpenPositions : SymbolOf[q] # SymbolOf[entry.p]

EntryInv == TypeOK /\ KilledMeansPaused /\ AdmittedHolds /\ PortfolioCap

(* A step that opens nothing leaves no more positions open than before. *)
LEMMA FewerOpen ==
    ASSUME TypeOK, [Next]_vars, ~EntryCommit
    PROVE  /\ OpenPositions' \subseteq OpenPositions
           /\ IsFiniteSet(OpenPositions)
           /\ Cardinality(OpenPositions') <= Cardinality(OpenPositions)
<1>1. OpenPositions' \subseteq OpenPositions
  BY StatusStep DEF OpenPositions, IsOpen
<1>2. IsFiniteSet(OpenPositions)
  BY PositionsAssumption, FS_Subset DEF OpenPositions
<1> QED
  BY <1>1, <1>2, FS_Subset

(* Only an entry request takes or uses the entry lock. *)
LEMMA EntryStep ==
    ASSUME TypeOK, [Next]_vars
    PROVE  entry' = entry \/ entry'.p = "nobody" \/ ~entry'.admitted \/ EntryAdmit
<1>1. CASE Entries
  BY <1>1 DEF Entries, EntryCommit, EntryRefuse, EntryLock, Free
<1>2. CASE \E w \in Observers \union Routes : Observing(w)
  BY <1>2 DEF Observing, ObserverRead, Observe, Store, ObserverDiscard, SettleFunding
<1>3. CASE \E w \in Killers : Killing(w)
  BY <1>3 DEF Killing, KillList, KillRead, KillWrite, Store, KillSkip
<1>4. CASE Controls
  BY <1>4 DEF Controls, Resume, PauseOn, PauseOff, PauseOnBreach, MonitorRead, Engage, mem
<1>5. CASE ReconSnapshot \/ ReconRecord
  BY <1>5 DEF ReconSnapshot, ReconRecord
<1>6. CASE Environment
  BY <1>6 DEF Environment, EquityMoves, RunAges, Restart, mem, Free
<1>7. CASE UNCHANGED vars
  BY <1>7 DEF vars, mem
<1> QED
  BY <1>1, <1>2, <1>3, <1>4, <1>5, <1>6, <1>7 DEF Next

(* The kill switch, the pause and a mismatch change only while no entry     *)
(* holds the lock, or with a restart that rolls the entry back.             *)
LEMMA ControlStep ==
    ASSUME TypeOK, [Next]_vars, ~LockFree
    PROVE  /\ kill' = kill
           /\ paused' = paused
           /\ run' = "mismatch" => run = "mismatch"
<1>1. CASE Entries
  BY <1>1 DEF Entries, EntryAdmit, EntryCommit, EntryRefuse, EntryLock, db
<1>2. CASE \E w \in Observers \union Routes : Observing(w)
  BY <1>2 DEF Observing, ObserverRead, Observe, Store, ObserverDiscard, SettleFunding, db
<1>3. CASE \E w \in Killers : Killing(w)
  BY <1>3 DEF Killing, KillList, KillRead, KillWrite, Store, KillSkip, db
<1>4. CASE Controls
  BY <1>4 DEF Controls, Resume, PauseOn, PauseOff, PauseOnBreach, MonitorRead, Engage, db
<1>5. CASE ReconSnapshot
  BY <1>5 DEF ReconSnapshot, db
<1>6. CASE ReconRecord
  BY <1>6 DEF ReconRecord
<1>7. CASE Environment
  BY <1>7 DEF Environment, EquityMoves, RunAges, Restart, db
<1>8. CASE UNCHANGED vars
  BY <1>8 DEF vars, db
<1> QED
  BY <1>1, <1>2, <1>3, <1>4, <1>5, <1>6, <1>7, <1>8 DEF Next

LEMMA PausedStep ==
    ASSUME TypeOK, [Next]_vars, KilledMeansPaused
    PROVE  KilledMeansPaused'
<1>1. CASE Entries
  BY <1>1 DEF Entries, EntryAdmit, EntryCommit, EntryRefuse, EntryLock, db, KilledMeansPaused
<1>2. CASE \E w \in Observers \union Routes : Observing(w)
  BY <1>2 DEF Observing, ObserverRead, Observe, Store, ObserverDiscard, SettleFunding, db, KilledMeansPaused
<1>3. ASSUME NEW w \in Killers, Killing(w) PROVE KilledMeansPaused'
  <2>1. UNCHANGED <<kill, paused>>
    BY <1>3 DEF Killing, KillList, KillRead, KillWrite, Store, KillSkip, db
  <2> QED
    BY <2>1 DEF KilledMeansPaused
<1>4. CASE \E w \in Engagers : Engage(w)
  BY <1>4 DEF Engage, KilledMeansPaused
<1>5. CASE Resume
  BY <1>5 DEF Resume, KilledMeansPaused, TypeOK
<1>6. CASE PauseOn \/ PauseOff \/ PauseOnBreach \/ MonitorRead
  BY <1>6 DEF PauseOn, PauseOff, PauseOnBreach, MonitorRead, db, KilledMeansPaused
<1>7. CASE ReconSnapshot \/ ReconRecord
  BY <1>7 DEF ReconSnapshot, ReconRecord, db, KilledMeansPaused
<1>8. CASE Environment
  BY <1>8 DEF Environment, EquityMoves, RunAges, Restart, db, KilledMeansPaused
<1>9. CASE UNCHANGED vars
  BY <1>9 DEF vars, db, KilledMeansPaused
<1> QED
  BY <1>1, <1>2, <1>3, <1>4, <1>5, <1>6, <1>7, <1>8, <1>9 DEF Next, Controls

LEMMA EntryInvStep == EntryInv /\ [Next]_vars => EntryInv'
<1> SUFFICES ASSUME EntryInv, [Next]_vars PROVE EntryInv'
  OBVIOUS
<1>0. TypeOK /\ TypeOK' /\ KilledMeansPaused'
  BY TypeStep, PausedStep DEF EntryInv
<1>1. CASE EntryCommit
  <2>1. /\ entry.p \in Positions
        /\ entry' = Free /\ pos' = [pos EXCEPT ![entry.p] = Opened]
        /\ Cardinality(OpenPositions) < MaxOpen
        /\ \A q \in OpenPositions : SymbolOf[q] # SymbolOf[entry.p]
    BY <1>0, <1>1 DEF EntryCommit, EntryInv, AdmittedHolds, TypeOK, LockFree
  <2>2. OpenPositions' = OpenPositions \union {entry.p}
    BY <1>0, <2>1 DEF OpenPositions, IsOpen, Opened, TypeOK
  <2>3. IsFiniteSet(OpenPositions)
    BY PositionsAssumption, FS_Subset DEF OpenPositions
  <2>4. Cardinality(OpenPositions') <= Cardinality(OpenPositions) + 1 /\ Cardinality(OpenPositions) \in Nat
    <3>1. Cardinality(OpenPositions) \in Nat
      BY <2>3, FS_CardinalityType
    <3>2. Cardinality(OpenPositions \union {entry.p}) =
             IF entry.p \in OpenPositions THEN Cardinality(OpenPositions) ELSE Cardinality(OpenPositions) + 1
      BY <2>3, FS_AddElement
    <3> QED
      BY <2>2, <3>1, <3>2
  <2>5. PortfolioCap'
    <3>1. Cardinality(OpenPositions') <= MaxOpen
      <4>1. Cardinality(OpenPositions') \in Nat
        BY <2>2, <2>3, FS_AddElement, FS_CardinalityType
      <4> QED
        BY <2>1, <2>4, <4>1, NumbersAssumption
    <3>2. \A p, q \in OpenPositions' : p # q => SymbolOf[p] # SymbolOf[q]
      BY <2>1, <2>2 DEF EntryInv, PortfolioCap
    <3> QED
      BY <3>1, <3>2 DEF PortfolioCap
  <2>6. AdmittedHolds'
    BY <2>1 DEF AdmittedHolds, LockFree, Free
  <2> QED
    BY <1>0, <2>5, <2>6 DEF EntryInv
<1>2. CASE ~EntryCommit
  <2>1. /\ OpenPositions' \subseteq OpenPositions
        /\ Cardinality(OpenPositions') <= Cardinality(OpenPositions)
        /\ Cardinality(OpenPositions) \in Nat /\ Cardinality(OpenPositions') \in Nat
    BY <1>0, <1>2, FewerOpen, FS_CardinalityType, FS_Subset
  <2>2. PortfolioCap'
    BY <2>1, NumbersAssumption DEF EntryInv, PortfolioCap
  <2>3. CASE EntryAdmit
    <3>1. /\ kill' = kill /\ paused' = paused /\ run' = run /\ pos' = pos
          /\ entry' = [p |-> entry.p, admitted |-> TRUE]
          /\ Admissible(entry.p)
      BY <2>3 DEF EntryAdmit, db
    <3>2. AdmittedHolds'
      BY <3>1 DEF Admissible, AdmittedHolds, OpenPositions, IsOpen
    <3> QED
      BY <1>0, <2>2, <3>2 DEF EntryInv
  <2>4. CASE entry' = entry
    <3>1. ASSUME ~LockFree, entry.admitted PROVE AdmittedHolds'
      BY <1>0, <2>1, <2>4, <3>1, ControlStep, NumbersAssumption DEF EntryInv, AdmittedHolds
    <3>2. AdmittedHolds'
      BY <2>4, <3>1 DEF AdmittedHolds, LockFree
    <3> QED
      BY <1>0, <2>2, <3>2 DEF EntryInv
  <2>5. CASE entry'.p = "nobody" \/ ~entry'.admitted
    BY <1>0, <2>2, <2>5 DEF EntryInv, AdmittedHolds, LockFree
  <2> QED
    BY <1>0, <2>3, <2>4, <2>5, EntryStep
<1> QED
  BY <1>1, <1>2

LEMMA EntryInvInit == Init => EntryInv
<1> SUFFICES ASSUME Init PROVE EntryInv
  OBVIOUS
<1>1. OpenPositions = {}
  BY DEF Init, OpenPositions, IsOpen, Absent
<1>2. PortfolioCap
  BY <1>1, FS_EmptySet, NumbersAssumption DEF PortfolioCap
<1> QED
  BY <1>2, TypeInit DEF Init, EntryInv, KilledMeansPaused, AdmittedHolds, LockFree, Free

(* The portfolio cap and one position per symbol, for any number of         *)
(* opportunities, symbols and entry requests (entry_admission).             *)
THEOREM CapHolds == Spec => []PortfolioCap
BY EntryInvInit, EntryInvStep, PTL DEF Spec, EntryInv

(* While the kill switch is engaged entries are paused (engage and the      *)
(* resume checks of the pause route).                                       *)
THEOREM KilledIsPaused == Spec => []KilledMeansPaused
BY EntryInvInit, EntryInvStep, PTL DEF Spec, EntryInv

(* An entry that races a kill, a pause or a mismatch either committed       *)
(* before it or sees it (paper_control_store.py).                           *)
THEOREM EntriesSeeControls == Spec => EntrySeesControls
<1>1. EntryInv /\ [Next]_vars =>
         [\A p \in Positions : pos[p].status = "absent" /\ pos'[p].status = "open"
             => ~kill.active /\ ~paused /\ run # "mismatch"]_vars
  <2> SUFFICES ASSUME EntryInv, [Next]_vars, NEW p \in Positions,
                      pos[p].status = "absent", pos'[p].status = "open"
               PROVE  ~kill.active /\ ~paused /\ run # "mismatch"
    OBVIOUS
  <2>1. EntryCommit
    BY StatusStep DEF EntryInv
  <2> QED
    BY <2>1 DEF EntryCommit, EntryInv, AdmittedHolds
<1> QED
  BY <1>1, EntryInvInit, EntryInvStep, PTL DEF Spec, EntrySeesControls

-----------------------------------------------------------------------------
(* Exits: what a kill switch owes, what coincided with it and how its      *)
(* closes are audited, whichever worker fills them and however their steps *)
(* interleave.                                                             *)

(* The exit a position owes or closed on. *)
Now(x) == IF x.status = "closed" THEN x.exit ELSE x.pending

(* The natural rule an exit is about. *)
Natural(e) == IF e.rule \in NaturalRules THEN e.rule ELSE e.coincided

-----------------------------------------------------------------------------
(* What one observation makes of an open position's exit. *)

LEMMA FillExitNow ==
    ASSUME NEW x \in Position, x.status = "open", NEW f \in Exit, NEW d \in 0..x.held
    PROVE  LET r == FillExit(x, f, d)
           IN  Now(r) = f /\ (r.status = "closed" => r.pending = NoExit)
<1>1. CASE d < x.held
  <2>1. FillExit(x, f, d) = [x EXCEPT !.held = x.held - d, !.pending = f]
    BY <1>1 DEF FillExit
  <2>2. FillExit(x, f, d).status = "open" /\ FillExit(x, f, d).pending = f
    BY <2>1 DEF Position
  <2> QED
    BY <2>2 DEF Now
<1>2. CASE ~(d < x.held)
  BY <1>2 DEF FillExit, Now
<1> QED
  BY <1>1, <1>2

(* Observing leaves the exit that was owed, fired or asked for. *)
LEMMA AdvanceNow ==
    ASSUME NEW x \in Position, x.status = "open", NEW natural \in ExitRules, NEW manual \in BOOLEAN,
           NEW d \in 0..x.held
    PROVE  LET r == Advance(x, natural, manual, d)
           IN  Now(r) = Fired(x, natural, manual) /\ (r.status = "closed" => r.pending = NoExit)
<1> DEFINE f == Fired(x, natural, manual)
<1>1. f \in Exit
  BY FiredType
<1>2. CASE f = NoExit
  <2>1. x.pending = NoExit
    BY <1>2 DEF Fired
  <2>2. Advance(x, natural, manual, d) = x
    BY <1>2 DEF Advance
  <2> QED
    BY <1>2, <2>1, <2>2 DEF Now
<1>3. CASE f # NoExit
  <2>1. Advance(x, natural, manual, d) = FillExit(x, f, d)
    BY <1>3 DEF Advance
  <2> QED
    BY <1>1, <2>1, FillExitNow
<1> QED
  BY <1>2, <1>3

(* The kill switch leaves the same exit, relabelled. *)
LEMMA KillCloseNow ==
    ASSUME NEW x \in Position, x.status = "open", NEW natural \in ExitRules, NEW d \in 0..x.held,
           NEW k \in 0..MaxKills
    PROVE  LET r == KillClose(x, natural, d, k)
           IN  /\ Now(r) = Labelled(Fired(x, natural, TRUE), k)
               /\ r.status = "closed" => r.pending = NoExit
<1> DEFINE a == Advance(x, natural, TRUE, d)
<1>1. a \in Position /\ Now(a) = Fired(x, natural, TRUE) /\ (a.status = "closed" => a.pending = NoExit)
  BY AdvanceType, AdvanceNow
<1>2. KillClose(x, natural, d, k) = IF a.status = "closed"
                                    THEN [a EXCEPT !.exit = Labelled(a.exit, k)]
                                    ELSE [a EXCEPT !.pending = Labelled(a.pending, k)]
  BY DEF KillClose
<1> HIDE DEF a
<1> DEFINE r == KillClose(x, natural, d, k)
<1>3. CASE a.status = "closed"
  <2>1. r.status = "closed" /\ r.exit = Labelled(a.exit, k) /\ r.pending = a.pending
    BY <1>1, <1>2, <1>3 DEF Position
  <2> QED
    BY <1>1, <1>3, <2>1 DEF Now
<1>4. CASE a.status # "closed"
  <2>1. r.status = a.status /\ r.pending = Labelled(a.pending, k)
    BY <1>1, <1>2, <1>4 DEF Position
  <2> QED
    BY <1>1, <1>4, <2>1 DEF Now
<1> QED
  BY <1>3, <1>4

-----------------------------------------------------------------------------
(* A worker that closes for the kill switch names a kill. *)
Authorised ==
    /\ kill.active => kill.by > 0
    /\ \A w \in Killers : task[w].pc # "idle" => task[w].by > 0

LEMMA AuthorisedStep == TypeOK /\ Authorised /\ [Next]_vars => Authorised'
<1> SUFFICES ASSUME TypeOK, Authorised, [Next]_vars PROVE Authorised'
  OBVIOUS
<1>0. \A w \in Workers : task[w] \in Task
  BY DEF TypeOK
<1>a. ASSUME UNCHANGED <<kill, task>> PROVE Authorised'
  BY <1>a DEF Authorised
<1>b. \A p, b, v : v \in Workers => /\ Overtake(p, b)[v].pc = task[v].pc
                                    /\ Overtake(p, b)[v].by = task[v].by
  BY <1>0 DEF Overtake, Task
<1>1. CASE Entries
  BY <1>1, <1>a DEF Entries, EntryAdmit, EntryCommit, EntryRefuse, EntryLock, db
<1>2. ASSUME NEW w \in Observers \union Routes, Observing(w) PROVE Authorised'
  <2>1. w \notin Killers
    BY WorkersAssumption
  <2>2. kill' = kill
    BY <1>2 DEF Observing, ObserverRead, Observe, Store, ObserverDiscard, SettleFunding, db
  <2>3. \A v \in Killers : task'[v].pc = task[v].pc /\ task'[v].by = task[v].by
    <3>1. CASE Observe(w)
      <4>1. PICK natural, d :
               Store(w, task[w].p, task[w].ahead, Advance(pos[task[w].p], natural, w \in Routes, d),
                     natural, "observer", Idle)
        BY <3>1 DEF Observe
      <4>2. task' = [Overtake(task[w].p, task[w].ahead) EXCEPT ![w] = Idle]
        BY <4>1 DEF Store
      <4> QED
        BY <2>1, <4>2, <1>b, WorkerKinds DEF Overtake
    <3>2. CASE (\E p \in Positions : ObserverRead(w, p)) \/ ObserverDiscard(w) \/ SettleFunding(w)
      <4>1. PICK t : task' = [task EXCEPT ![w] = t]
        BY <3>2 DEF ObserverRead, ObserverDiscard, SettleFunding
      <4> QED
        BY <2>1, <4>1 DEF TypeOK
    <3> QED
      BY <1>2, <3>1, <3>2 DEF Observing
  <2> QED
    BY <2>2, <2>3 DEF Authorised
<1>3. ASSUME NEW w \in Killers, Killing(w) PROVE Authorised'
  <2>1. kill' = kill
    BY <1>3 DEF Killing, KillList, KillRead, KillWrite, Store, KillSkip, db
  <2>2. task[w].by > 0 /\ w \in Workers
    BY <1>3, WorkerKinds DEF Killing, KillList, KillRead, KillWrite, KillSkip, Authorised
  <2>3. \A todo : Closing(task[w].by, todo).pc # "idle" => Closing(task[w].by, todo).by > 0
    BY <2>2 DEF Closing, Idle
  <2>4. \A v \in Killers : task'[v].pc # "idle" => task'[v].by > 0
    <3>1. CASE KillWrite(w)
      <4>1. PICK natural, d :
               Store(w, task[w].p, task[w].ahead, KillClose(pos[task[w].p], natural, d, task[w].by),
                     natural, "kill_switch", Closing(task[w].by, task[w].todo))
        BY <3>1 DEF KillWrite
      <4>2. task' = [Overtake(task[w].p, task[w].ahead) EXCEPT ![w] = Closing(task[w].by, task[w].todo)]
        BY <4>1 DEF Store
      <4>3. DOMAIN Overtake(task[w].p, task[w].ahead) = Workers
        BY DEF Overtake
      <4>4. task'[w] = Closing(task[w].by, task[w].todo)
        BY <2>2, <4>2, <4>3
      <4>5. \A v \in Killers \ {w} : task'[v].pc = task[v].pc /\ task'[v].by = task[v].by
        BY <4>2, <4>3, <1>b, WorkerKinds
      <4> QED
        BY <2>3, <4>4, <4>5 DEF Authorised
    <3>2. ASSUME NEW p \in Positions, KillRead(w, p)
          PROVE  \A v \in Killers : task'[v].pc # "idle" => task'[v].by > 0
      BY <2>2, <3>2 DEF KillRead, Holding, Authorised, TypeOK
    <3>3. CASE KillList(w) \/ KillSkip(w)
      <4>1. PICK todo : task' = [task EXCEPT ![w] = Closing(task[w].by, todo)]
        BY <3>3 DEF KillList, KillSkip
      <4> QED
        BY <2>3, <4>1 DEF Authorised, TypeOK
    <3> QED
      BY <1>3, <3>1, <3>2, <3>3 DEF Killing
  <2> QED
    BY <2>1, <2>4 DEF Authorised
<1>4. CASE Controls
  <2>1. ASSUME NEW w \in Engagers, Engage(w) PROVE Authorised'
    <3>1. kill'.by > 0
      <4>1. CASE kill.active /\ UNCHANGED kill
        BY <4>1 DEF Authorised
      <4>2. CASE kill' = [active |-> TRUE, by |-> kill.by + 1]
        BY <4>2 DEF TypeOK
      <4> QED
        BY <2>1, <4>1, <4>2 DEF Engage
    <3>2. task' = [task EXCEPT ![w] = Armed(kill'.by)]
      BY <2>1 DEF Engage
    <3> QED
      BY <3>1, <3>2 DEF Authorised, Armed, TypeOK
  <2>2. CASE MonitorRead
    BY <2>2 DEF MonitorRead, Authorised, Armed, TypeOK, db
  <2>3. CASE Resume
    BY <2>3 DEF Resume, Authorised, TypeOK, mem
  <2>4. CASE PauseOn \/ PauseOff \/ PauseOnBreach
    BY <2>4, <1>a DEF PauseOn, PauseOff, PauseOnBreach, mem
  <2> QED
    BY <1>4, <2>1, <2>2, <2>3, <2>4 DEF Controls
<1>5. CASE ReconSnapshot \/ ReconRecord
  BY <1>5, <1>a DEF ReconSnapshot, ReconRecord, db
<1>6. CASE Environment
  <2>1. CASE EquityMoves \/ RunAges
    BY <2>1, <1>a DEF EquityMoves, RunAges, db, mem
  <2>2. CASE Restart
    BY <2>2, WorkerKinds DEF Restart, Authorised, Idle
  <2> QED
    BY <1>6, <2>1, <2>2 DEF Environment
<1>7. CASE UNCHANGED vars
  BY <1>7, <1>a DEF vars, db, mem
<1> QED
  BY <1>1, <1>2, <1>3, <1>4, <1>5, <1>6, <1>7 DEF Next

-----------------------------------------------------------------------------
(* The exit of every position: a kill-switch exit names its kill, the first *)
(* natural rule is the exit's or coincided with it, only an open position   *)
(* owes an exit, and the audit rows are those of the close.                 *)
ExitOK(p) ==
    /\ Now(pos[p]).rule = "kill_switch" => Now(pos[p]).by > 0
    /\ fired[p] = Natural(Now(pos[p]))
    /\ pos[p].status # "open" => pos[p].pending = NoExit
    /\ KillAudited(p)

(* The opportunity an entry holds the lock for has no position yet. *)
EntryAbsent == ~LockFree => pos[entry.p] = Absent

ExitInv == TypeOK /\ Authorised /\ EntryAbsent /\ \A p \in Positions : ExitOK(p)

LEMMA AbsentNow == Now(Absent) = NoExit /\ Now(Opened) = NoExit
BY DEF Now, Absent, Opened

LEMMA EntryAbsentStep == TypeOK /\ EntryAbsent /\ [Next]_vars => EntryAbsent'
<1> SUFFICES ASSUME TypeOK, EntryAbsent, [Next]_vars, ~LockFree' PROVE pos'[entry'.p] = Absent
  BY DEF EntryAbsent
<1>1. CASE EntryCommit
  BY <1>1 DEF EntryCommit, LockFree, Free
<1>2. CASE \E p \in Positions : EntryLock(p)
  BY <1>2 DEF EntryLock, db
<1>3. CASE entry'.p = entry.p /\ ~EntryCommit
  <2>1. entry.p \in Positions /\ pos[entry.p] = Absent
    BY <1>3 DEF EntryAbsent, LockFree, TypeOK
  <2>2. ASSUME NEW p, NEW x, NEW natural, Touch(p, x, natural) PROVE pos'[entry.p] = Absent
    BY <2>1, <2>2 DEF Touch, IsOpen, Absent, TypeOK
  <2>3. pos'[entry.p] = Absent
    BY <1>3, <2>1, <2>2, StepKinds DEF Observed, Killed
  <2> QED
    BY <1>3, <2>3
<1>4. entry'.p = entry.p \/ (\E p \in Positions : EntryLock(p))
  <2>1. CASE Entries
    BY <2>1 DEF Entries, EntryAdmit, EntryCommit, EntryRefuse, Free, LockFree
  <2>2. CASE ~Entries
    <3>1. CASE \E w \in Observers \union Routes : Observing(w)
      BY <3>1 DEF Observing, ObserverRead, Observe, Store, ObserverDiscard, SettleFunding
    <3>2. CASE \E w \in Killers : Killing(w)
      <4>1. \A w \in Killers : KillWrite(w) => entry' = entry
        BY DEF KillWrite, Store
      <4>2. \A w \in Killers : Killing(w) /\ ~KillWrite(w) => entry' = entry
        BY DEF Killing, KillList, KillRead, KillSkip
      <4> QED
        BY <3>2, <4>1, <4>2
    <3>3. CASE Controls
      BY <3>3 DEF Controls, Resume, PauseOn, PauseOff, PauseOnBreach, MonitorRead, Engage, mem
    <3>4. CASE ReconSnapshot \/ ReconRecord
      BY <3>4 DEF ReconSnapshot, ReconRecord
    <3>5. CASE Environment
      BY <3>5 DEF Environment, EquityMoves, RunAges, Restart, mem, Free, LockFree
    <3>6. CASE UNCHANGED vars
      BY <3>6 DEF vars, mem
    <3> QED
      BY <2>2, <3>1, <3>2, <3>3, <3>4, <3>5, <3>6 DEF Next
  <2> QED
    BY <2>1, <2>2
<1> QED
  BY <1>1, <1>2, <1>3, <1>4

(* One observation keeps ExitOK if the exit it leaves names its kill and    *)
(* keeps the natural rule.                                                  *)
LEMMA TouchOK ==
    ASSUME TypeOK, NEW p \in Positions, NEW x \in Position, NEW natural \in ExitRules, Touch(p, x, natural),
           \A q \in Positions : ExitOK(q),
           x.status \in {"open", "closed"}, x.status = "closed" => x.pending = NoExit,
           Now(x).rule = "kill_switch" => Now(x).by > 0,
           Natural(Now(x)) = IF pos[p].pending = NoExit THEN natural ELSE Natural(pos[p].pending)
    PROVE  \A q \in Positions : ExitOK(q)'
<1> SUFFICES ASSUME NEW q \in Positions PROVE ExitOK(q)'
  OBVIOUS
<1>0. Now(x) \in Exit
  BY DEF Now, Position
<1>1. CASE q # p
  <2>1. pos'[q] = pos[q] /\ fired'[q] = fired[q] /\ audits'[q] = audits[q]
    BY <1>1 DEF Touch, RecordClose, TypeOK
  <2> QED
    BY <2>1 DEF ExitOK, KillAudited
<1>2. CASE q = p
  <2>1. pos'[p] = x /\ IsOpen(p) /\ pos[p].status = "open" /\ Now(pos[p]) = pos[p].pending
    BY DEF Touch, TypeOK, IsOpen, Now
  <2>2. fired'[p] = Natural(Now(x))
    <3>1. fired[p] = Natural(pos[p].pending)
      BY <2>1 DEF ExitOK
    <3>2. Natural(NoExit) = "none"
      BY RulesAssumption DEF Natural, NoExit
    <3>3. fired'[p] = IF fired[p] = "none" /\ pos[p].pending = NoExit THEN natural ELSE fired[p]
      BY DEF Touch, TypeOK
    <3> QED
      BY <3>1, <3>2, <3>3
  <2>3. audits[p] = <<>>
    BY <2>1 DEF ExitOK, KillAudited
  <2>4. KillAudited(p)'
    <3>1. PICK filledBy \in {"observer", "kill_switch"} : RecordClose(p, x, filledBy)
      BY DEF Touch
    <3>2. CASE x.status = "closed" /\ x.exit.rule = "kill_switch"
      <4>1. audits'[p] = <<CloseAudit(x, filledBy)>>
        BY <2>3, <3>1, <3>2 DEF RecordClose, TypeOK
      <4>2. x.exit.by > 0 /\ x.exit.by \in 0..MaxKills
        BY <3>2, <1>0 DEF Now, Exit
      <4>3. CloseAudit(x, filledBy).by = x.exit.by /\ CloseAudit(x, filledBy).coincided = x.exit.coincided
        BY <4>2, NumbersAssumption DEF CloseAudit
      <4> QED
        BY <2>1, <3>2, <4>1, <4>2, <4>3 DEF KillAudited
    <3>3. CASE ~(x.status = "closed" /\ x.exit.rule = "kill_switch")
      BY <2>1, <2>3, <3>1, <3>3 DEF RecordClose, KillAudited
    <3> QED
      BY <3>2, <3>3
  <2> QED
    BY <1>2, <2>1, <2>2, <2>4 DEF ExitOK
<1> QED
  BY <1>1, <1>2

(* What fires, and what the kill switch makes of it. *)
LEMMA FiredNow ==
    ASSUME NEW x \in Position, x.status = "open", NEW natural \in ExitRules, NEW manual \in BOOLEAN,
           x.pending.rule = "kill_switch" => x.pending.by > 0
    PROVE  LET f == Fired(x, natural, manual)
           IN  /\ f \in Exit
               /\ f.rule = "kill_switch" => f.by > 0
               /\ Natural(f) = IF x.pending = NoExit THEN natural ELSE Natural(x.pending)
<1>1. Fired(x, natural, manual) \in Exit
  BY FiredType
<1>2. CASE x.pending # NoExit
  BY <1>1, <1>2 DEF Fired
<1>3. CASE x.pending = NoExit /\ natural # "none"
  <2>1. Fired(x, natural, manual) = [rule |-> natural, coincided |-> "none", by |-> 0] /\ natural \in NaturalRules
    BY <1>3 DEF Fired, ExitOf, NoExit, ExitRules
  <2> QED
    BY <1>1, <1>3, <2>1, RulesAssumption DEF Natural
<1>4. CASE x.pending = NoExit /\ natural = "none"
  <2>1. PICK rule \in {"none", "operator_close"} :
           Fired(x, natural, manual) = [rule |-> rule, coincided |-> "none", by |-> 0]
    BY <1>4 DEF Fired, ExitOf, NoExit
  <2> QED
    BY <1>1, <1>4, <2>1, RulesAssumption DEF Natural
<1> QED
  BY <1>2, <1>3, <1>4

LEMMA LabelledNow ==
    ASSUME NEW e \in Exit, NEW k \in 1..MaxKills
    PROVE  /\ Labelled(e, k).by > 0
           /\ Natural(Labelled(e, k)) = Natural(e)
           /\ e.rule = "kill_switch" /\ e.by > 0 => Labelled(e, k) = e
<1>1. Labelled(e, k).by > 0
  BY DEF Labelled, Exit
<1>2. Natural(Labelled(e, k)) = Natural(e)
  BY RulesAssumption DEF Natural, Labelled
<1>3. ASSUME e.rule = "kill_switch", e.by > 0 PROVE Labelled(e, k) = e
  <2>1. Labelled(e, k) = [rule |-> "kill_switch", coincided |-> e.coincided, by |-> e.by]
    BY <1>3, RulesAssumption DEF Labelled, Exit
  <2> QED
    BY <1>3, <2>1 DEF Exit
<1> QED
  BY <1>1, <1>2, <1>3

(* Both paths of an observation, in terms of the exit they leave. *)
LEMMA ObservedNow ==
    ASSUME ExitInv, Observed
    PROVE  \E p \in Positions, x \in Position, natural \in ExitRules, manual \in BOOLEAN :
              /\ Touch(p, x, natural)
              /\ Now(x) = Fired(pos[p], natural, manual)
              /\ x.status \in {"open", "closed"} /\ (x.status = "closed" => x.pending = NoExit)
<1>1. PICK p \in Positions, natural \in ExitRules, manual \in BOOLEAN :
         \E d \in 0..pos[p].held : Touch(p, Advance(pos[p], natural, manual, d), natural)
  BY DEF Observed
<1>2. PICK d \in 0..pos[p].held : Touch(p, Advance(pos[p], natural, manual, d), natural)
  BY <1>1
<1>3. pos[p] \in Position /\ pos[p].status = "open"
  BY <1>2 DEF ExitInv, TypeOK, Touch, IsOpen
<1> DEFINE x == Advance(pos[p], natural, manual, d)
<1>4. x \in Position /\ x.status \in {"open", "closed"}
  BY <1>3, AdvanceType
<1>5. Now(x) = Fired(pos[p], natural, manual) /\ (x.status = "closed" => x.pending = NoExit)
  BY <1>3, AdvanceNow
<1> QED
  BY <1>2, <1>4, <1>5

LEMMA KilledNow ==
    ASSUME ExitInv, Killed
    PROVE  \E p \in Positions, x \in Position, natural \in ExitRules, k \in 1..MaxKills :
              /\ Touch(p, x, natural)
              /\ Now(x) = Labelled(Fired(pos[p], natural, TRUE), k)
              /\ x.status \in {"open", "closed"} /\ (x.status = "closed" => x.pending = NoExit)
<1>1. PICK w \in Killers, p \in Positions, natural \in ExitRules : \E d \in 0..pos[p].held :
         task[w].pc = "book" /\ Touch(p, KillClose(pos[p], natural, d, task[w].by), natural)
  BY DEF Killed
<1>2. PICK d \in 0..pos[p].held :
         task[w].pc = "book" /\ Touch(p, KillClose(pos[p], natural, d, task[w].by), natural)
  BY <1>1
<1>3. pos[p] \in Position /\ pos[p].status = "open"
  BY <1>2 DEF ExitInv, TypeOK, Touch, IsOpen
<1>4. task[w].by \in 1..MaxKills /\ task[w].by \in 0..MaxKills
  <2>1. task[w].by \in 0..MaxKills
    BY WorkerKinds DEF ExitInv, TypeOK, Task
  <2>2. task[w].by > 0
    BY <1>2 DEF ExitInv, Authorised
  <2> QED
    BY <2>1, <2>2
<1> DEFINE x == KillClose(pos[p], natural, d, task[w].by)
<1>5. x \in Position /\ x.status \in {"open", "closed"}
  BY <1>3, <1>4, KillCloseType
<1>6. /\ Now(x) = Labelled(Fired(pos[p], natural, TRUE), task[w].by)
      /\ x.status = "closed" => x.pending = NoExit
  BY <1>3, <1>4, KillCloseNow
<1> QED
  BY <1>2, <1>4, <1>5, <1>6

LEMMA ExitInvStep == ExitInv /\ [Next]_vars => ExitInv'
<1> SUFFICES ASSUME ExitInv, [Next]_vars PROVE ExitInv'
  OBVIOUS
<1>0. TypeOK' /\ Authorised' /\ EntryAbsent'
  BY TypeStep, AuthorisedStep, EntryAbsentStep DEF ExitInv
<1>1. CASE UNCHANGED <<pos, audits, fired>>
  <2>1. \A p \in Positions : ExitOK(p)'
    BY <1>1 DEF ExitInv, ExitOK, KillAudited
  <2> QED
    BY <1>0, <2>1 DEF ExitInv
<1>2. CASE EntryCommit
  <2>1. /\ entry.p \in Positions /\ pos[entry.p] = Absent
        /\ pos' = [pos EXCEPT ![entry.p] = Opened] /\ audits' = audits /\ fired' = fired
    BY <1>2 DEF EntryCommit, ExitInv, EntryAbsent, LockFree, TypeOK, hist
  <2>2. ASSUME NEW p \in Positions PROVE ExitOK(p)'
    <3>1. CASE p # entry.p
      <4>1. pos'[p] = pos[p]
        BY <2>1, <3>1 DEF ExitInv, TypeOK
      <4> QED
        BY <2>1, <4>1 DEF ExitInv, ExitOK, KillAudited
    <3>2. CASE p = entry.p
      <4>1. pos'[p] = Opened
        BY <2>1, <3>2 DEF ExitInv, TypeOK
      <4>2. fired[p] = Natural(NoExit) /\ audits[p] = <<>>
        BY <2>1, <3>2, AbsentNow DEF ExitInv, ExitOK, KillAudited, Absent
      <4>3. NoExit.rule # "kill_switch" /\ Opened.status = "open"
        BY DEF NoExit, Opened
      <4> QED
        BY <2>1, <4>1, <4>2, <4>3, AbsentNow DEF ExitOK, KillAudited
    <3> QED
      BY <3>1, <3>2
  <2> QED
    BY <1>0, <2>2 DEF ExitInv
<1>3. CASE Observed
  <2>1. PICK p \in Positions, x \in Position, natural \in ExitRules, manual \in BOOLEAN :
           /\ Touch(p, x, natural)
           /\ Now(x) = Fired(pos[p], natural, manual)
           /\ x.status \in {"open", "closed"} /\ (x.status = "closed" => x.pending = NoExit)
    BY <1>3, ObservedNow
  <2>2. pos[p] \in Position /\ pos[p].status = "open" /\ Now(pos[p]) = pos[p].pending
    BY <2>1 DEF ExitInv, TypeOK, Touch, IsOpen, Now
  <2>3. pos[p].pending.rule = "kill_switch" => pos[p].pending.by > 0
    BY <2>2 DEF ExitInv, ExitOK
  <2>4. /\ Now(x).rule = "kill_switch" => Now(x).by > 0
        /\ Natural(Now(x)) = IF pos[p].pending = NoExit THEN natural ELSE Natural(pos[p].pending)
    BY <2>1, <2>2, <2>3, FiredNow
  <2>5. \A q \in Positions : ExitOK(q)'
    BY <2>1, <2>4, TouchOK DEF ExitInv
  <2> QED
    BY <1>0, <2>5 DEF ExitInv
<1>4. CASE Killed
  <2>1. PICK p \in Positions, x \in Position, natural \in ExitRules, k \in 1..MaxKills :
           /\ Touch(p, x, natural)
           /\ Now(x) = Labelled(Fired(pos[p], natural, TRUE), k)
           /\ x.status \in {"open", "closed"} /\ (x.status = "closed" => x.pending = NoExit)
    BY <1>4, KilledNow
  <2>2. pos[p] \in Position /\ pos[p].status = "open" /\ Now(pos[p]) = pos[p].pending
    BY <2>1 DEF ExitInv, TypeOK, Touch, IsOpen, Now
  <2>3. pos[p].pending.rule = "kill_switch" => pos[p].pending.by > 0
    BY <2>2 DEF ExitInv, ExitOK
  <2>4. /\ Fired(pos[p], natural, TRUE) \in Exit
        /\ Natural(Fired(pos[p], natural, TRUE)) =
              IF pos[p].pending = NoExit THEN natural ELSE Natural(pos[p].pending)
    BY <2>2, <2>3, FiredNow
  <2>5. Now(x).by > 0 /\ Natural(Now(x)) = Natural(Fired(pos[p], natural, TRUE))
    BY <2>1, <2>4, LabelledNow
  <2>6. \A q \in Positions : ExitOK(q)'
    BY <2>1, <2>4, <2>5, TouchOK DEF ExitInv
  <2> QED
    BY <1>0, <2>6 DEF ExitInv
<1> QED
  BY <1>1, <1>2, <1>3, <1>4, StepKinds DEF ExitInv

LEMMA ExitInvInit == Init => ExitInv
<1> SUFFICES ASSUME Init PROVE ExitInv
  OBVIOUS
<1>1. Authorised
  BY WorkerKinds DEF Init, Authorised, Idle
<1>2. EntryAbsent
  BY DEF Init, EntryAbsent, LockFree, Free
<1>3. Natural(NoExit) = "none" /\ NoExit.rule # "kill_switch"
  BY RulesAssumption DEF Natural, NoExit
<1>4. ASSUME NEW p \in Positions PROVE ExitOK(p)
  <2>1. pos[p] = Absent /\ audits[p] = <<>> /\ fired[p] = "none"
    BY DEF Init
  <2>2. Absent.status = "absent" /\ Absent.pending = NoExit
    BY DEF Absent
  <2> QED
    BY <1>3, <2>1, <2>2, AbsentNow DEF ExitOK, KillAudited
<1> QED
  BY <1>1, <1>2, <1>4, TypeInit DEF ExitInv

(* A kill-switch close has exactly one audit row, naming the kill its exit  *)
(* froze, for every interleaving of the observer, the close route, the kill *)
(* requests and the monitor (paper_kill_audit.record_close).                *)
THEOREM KillClosesAuditedOnce == Spec => []KillAuditedOnce
<1>1. ExitInv => KillAuditedOnce
  BY DEF ExitInv, ExitOK, KillAuditedOnce
<1> QED
  BY <1>1, ExitInvInit, ExitInvStep, PTL DEF Spec

(* The first stop, target or expiry to fire is in the exit record, alone or *)
(* beside the kill switch (advance, _labelled).                             *)
THEOREM NaturalRulesKept == Spec => []NaturalRuleKept
<1>1. ExitInv => NaturalRuleKept
  BY DEF ExitInv, ExitOK, NaturalRuleKept, ExitNow, Now, Natural
<1> QED
  BY <1>1, ExitInvInit, ExitInvStep, PTL DEF Spec

(* What the kill switch owes does not change until it is the close          *)
(* (CARRIED_INTO_EXIT, _labelled).                                          *)
THEOREM KillExitsFrozen == Spec => KillExitFrozen
<1>1. ExitInv /\ [Next]_vars =>
         [\A p \in Positions : pos[p].pending.rule = "kill_switch"
             => pos[p].pending \in {pos'[p].pending, pos'[p].exit}]_vars
  <2> SUFFICES ASSUME ExitInv, [Next]_vars, NEW q \in Positions, pos[q].pending.rule = "kill_switch"
               PROVE  pos[q].pending \in {pos'[q].pending, pos'[q].exit}
    OBVIOUS
  <2>0. pos[q].status = "open" /\ pos[q].pending # NoExit /\ pos[q].pending.by > 0 /\ pos[q] \in Position
    BY DEF ExitInv, ExitOK, NoExit, Now, TypeOK
  <2>1. CASE UNCHANGED <<pos, audits, fired>>
    BY <2>1
  <2>2. CASE EntryCommit
    BY <2>0, <2>2 DEF EntryCommit, EntryAbsent, ExitInv, LockFree, Absent, TypeOK
  <2>3. ASSUME NEW p \in Positions, NEW x, NEW natural, Touch(p, x, natural), p = q => Now(x) = pos[q].pending
        PROVE  pos[q].pending \in {pos'[q].pending, pos'[q].exit}
    <3>1. pos'[q] = IF p = q THEN x ELSE pos[q]
      BY <2>3 DEF Touch, ExitInv, TypeOK
    <3> QED
      BY <2>3, <3>1 DEF Now
  <2>4. \A natural, manual : Fired(pos[q], natural, manual) = pos[q].pending
    BY <2>0 DEF Fired
  <2>5. CASE Observed
    <3>1. PICK p \in Positions, x \in Position, natural \in ExitRules, manual \in BOOLEAN :
             Touch(p, x, natural) /\ Now(x) = Fired(pos[p], natural, manual)
      BY <2>5, ObservedNow
    <3> QED
      BY <2>3, <2>4, <3>1
  <2>6. CASE Killed
    <3>1. PICK p \in Positions, x \in Position, natural \in ExitRules, k \in 1..MaxKills :
             Touch(p, x, natural) /\ Now(x) = Labelled(Fired(pos[p], natural, TRUE), k)
      BY <2>6, KilledNow
    <3>2. pos[q].pending \in Exit
      BY <2>0 DEF Position
    <3>3. Labelled(pos[q].pending, k) = pos[q].pending
      BY <2>0, <3>2, LabelledNow
    <3> QED
      BY <2>3, <2>4, <3>1, <3>3
  <2> QED
    BY <2>1, <2>2, <2>5, <2>6, StepKinds DEF ExitInv
<1> QED
  BY <1>1, ExitInvInit, ExitInvStep, PTL DEF Spec, KillExitFrozen

-----------------------------------------------------------------------------
(* What a clean run stands for. *)

(* A run in progress that found nothing unbooked saw only booked closes;    *)
(* they are still booked when it is recorded.                               *)
CleanInv ==
    /\ CleanRunVouches
    /\ recon.verdict = "clean" => recon.saw \subseteq booked

(* A booking is never taken back, and the runs alone write what they found. *)
LEMMA BookedStep ==
    ASSUME [Next]_vars
    PROVE  /\ booked \subseteq booked'
           /\ UNCHANGED recon \/ ReconSnapshot \/ ReconRecord \/ Restart
           /\ UNCHANGED <<run, vouched>> \/ ReconRecord \/ (run' # "clean" /\ UNCHANGED vouched)
<1>1. CASE Entries
  BY <1>1 DEF Entries, EntryAdmit, EntryCommit, EntryRefuse, EntryLock, db, hist
<1>2. ASSUME NEW w \in Observers \union Routes, Observing(w)
      PROVE  booked \subseteq booked' /\ UNCHANGED <<run, recon, vouched>>
  BY <1>2 DEF Observing, Observe, Store, ObserverDiscard, SettleFunding, ObserverRead, db, hist
<1>3. ASSUME NEW w \in Killers, Killing(w)
      PROVE  booked \subseteq booked' /\ UNCHANGED <<run, recon, vouched>>
  BY <1>3 DEF Killing, KillWrite, Store, KillList, KillSkip, KillRead, db, hist
<1>4. CASE Controls
  BY <1>4 DEF Controls, Resume, PauseOn, PauseOff, PauseOnBreach, MonitorRead, Engage, db, mem, hist
<1>5. CASE ReconSnapshot \/ ReconRecord
  BY <1>5 DEF ReconSnapshot, ReconRecord, db, hist
<1>6. CASE Environment
  BY <1>6 DEF Environment, EquityMoves, RunAges, Restart, db, mem, hist
<1>7. CASE UNCHANGED vars
  BY <1>7 DEF vars, db, mem, hist
<1> QED
  BY <1>1, <1>2, <1>3, <1>4, <1>5, <1>6, <1>7 DEF Next

LEMMA CleanStep == CleanInv /\ [Next]_vars => CleanInv'
<1> SUFFICES ASSUME CleanInv, [Next]_vars PROVE CleanInv'
  OBVIOUS
<1>1. booked \subseteq booked'
  BY BookedStep
<1>2. recon'.verdict = "clean" => recon'.saw \subseteq booked'
  <2>1. CASE UNCHANGED recon
    BY <1>1, <2>1 DEF CleanInv
  <2>2. CASE ReconSnapshot
    BY <1>1, <2>2 DEF ReconSnapshot, Unbooked
  <2>3. CASE ReconRecord \/ Restart
    BY <2>3 DEF ReconRecord, Restart
  <2> QED
    BY <2>1, <2>2, <2>3, BookedStep
<1>3. CleanRunVouches'
  <2>1. CASE UNCHANGED <<run, vouched>>
    BY <1>1, <2>1 DEF CleanInv, CleanRunVouches
  <2>2. CASE ReconRecord
    BY <1>1, <2>2 DEF ReconRecord, CleanInv, CleanRunVouches
  <2>3. CASE run' # "clean"
    BY <2>3 DEF CleanRunVouches
  <2> QED
    BY <2>1, <2>2, <2>3, BookedStep
<1> QED
  BY <1>2, <1>3 DEF CleanInv

(* A clean run never stands for a ledger that lacks a close the run could   *)
(* see, although it is recorded after its snapshot and the bookings,        *)
(* restarts and later runs that happen in between (run_once, resume_refusal).*)
THEOREM CleanRunsVouch == Spec => []CleanRunVouches
<1>1. Init => CleanInv
  BY DEF Init, CleanInv, CleanRunVouches
<1>2. CleanInv => CleanRunVouches
  BY DEF CleanInv
<1> QED
  BY <1>1, <1>2, CleanStep, PTL DEF Spec

-----------------------------------------------------------------------------
(* The risk engine keeps PositionBook. *)

(* An observation stored for an open position, and the booking with it. *)
Stored(p, x) ==
    /\ IsOpen(p) /\ x.status \in {"open", "closed"}
    /\ pos' = [pos EXCEPT ![p] = x]
    /\ IF x.status = "closed"
       THEN booked' \in {booked, booked \union {p}} /\ awaiting' \in {awaiting, awaiting \union {p}}
       ELSE UNCHANGED <<booked, awaiting>>

LEMMA BookKinds ==
    ASSUME TypeOK, [Next]_vars
    PROVE  \/ UNCHANGED <<pos, booked, awaiting>>
           \/ EntryCommit
           \/ \E w \in Observers \union Routes : SettleFunding(w)
           \/ \E p \in Positions, x \in Position : Stored(p, x)
<1>1. CASE Entries
  BY <1>1 DEF Entries, EntryAdmit, EntryRefuse, EntryLock, db
<1>2. ASSUME NEW w \in Observers \union Routes, Observe(w)
      PROVE  \E p \in Positions, x \in Position : Stored(p, x)
  <2>1. task[w].p \in Positions /\ IsOpen(task[w].p)
    BY <1>2, WorkerKinds DEF TypeOK, Observe, Task
  <2>2. PICK p \in Positions : p = task[w].p
    BY <2>1
  <2>3. PICK natural \in ExitRules, d \in 0..pos[p].held :
           Store(w, p, task[w].ahead, Advance(pos[p], natural, w \in Routes, d), natural, "observer", Idle)
    BY <1>2, <2>2 DEF Observe, ExitRules
  <2>4. (w \in Routes) \in BOOLEAN
    OBVIOUS
  <2>5. PICK x \in Position : /\ x = Advance(pos[p], natural, w \in Routes, d)
                              /\ x.status \in {pos[p].status, "closed"}
    BY <2>4, TouchedType
  <2>6. Stored(p, x)
    BY <2>1, <2>2, <2>3, <2>5 DEF Stored, Store, IsOpen
  <2> QED
    BY <2>6
<1>3. ASSUME NEW w \in Killers, KillWrite(w)
      PROVE  \E p \in Positions, x \in Position : Stored(p, x)
  <2>1. task[w].p \in Positions /\ IsOpen(task[w].p)
    BY <1>3, WorkerKinds DEF TypeOK, KillWrite, Task
  <2>2. PICK p \in Positions : p = task[w].p
    BY <2>1
  <2>3. PICK natural \in ExitRules, d \in 0..pos[p].held :
           Store(w, p, task[w].ahead, KillClose(pos[p], natural, d, task[w].by), natural, "kill_switch",
                 Closing(task[w].by, task[w].todo))
    BY <1>3, <2>2 DEF KillWrite, ExitRules
  <2>4. PICK x \in Position : /\ x = KillClose(pos[p], natural, d, task[w].by)
                              /\ x.status \in {pos[p].status, "closed"}
    BY TouchedType
  <2>5. Stored(p, x)
    BY <2>1, <2>2, <2>3, <2>4 DEF Stored, Store, IsOpen
  <2> QED
    BY <2>5
<1>4. ASSUME NEW w \in Observers \union Routes, Observing(w)
      PROVE  Observe(w) \/ SettleFunding(w) \/ UNCHANGED <<pos, booked, awaiting>>
  BY <1>4 DEF Observing, ObserverDiscard, ObserverRead, db
<1>5. ASSUME NEW w \in Killers, Killing(w)
      PROVE  KillWrite(w) \/ UNCHANGED <<pos, booked, awaiting>>
  BY <1>5 DEF Killing, KillList, KillSkip, KillRead, db
<1>6. ASSUME Controls \/ ReconSnapshot \/ ReconRecord \/ Environment \/ UNCHANGED vars
      PROVE  UNCHANGED <<pos, booked, awaiting>>
  BY <1>6 DEF Controls, Resume, PauseOn, PauseOff, PauseOnBreach, MonitorRead, Engage, ReconSnapshot, ReconRecord,
              Environment, EquityMoves, RunAges, Restart, vars, db
<1> QED
  BY <1>1, <1>2, <1>3, <1>4, <1>5, <1>6 DEF Next

(* The engine implements PositionBook: every step of its workers is one of  *)
(* its steps, of one position, or none.                                     *)
THEOREM EngineKeepsBook == Spec => KeepsBook
<1>1. Init => Promised!Init
  BY DEF Init, Promised!Init, Absent
<1>2. ExitInv /\ [Next]_vars => [Promised!Next]_<<[p \in Positions |-> pos[p].status], booked, awaiting>>
  <2> SUFFICES ASSUME ExitInv, [Next]_vars
               PROVE  [Promised!Next]_<<[p \in Positions |-> pos[p].status], booked, awaiting>>
    OBVIOUS
  <2>0. TypeOK /\ pos \in [Positions -> Position]
    BY DEF ExitInv, TypeOK
  <2>1. CASE UNCHANGED <<pos, booked, awaiting>>
    BY <2>1
  <2>2. CASE EntryCommit
    <3>1. PICK q \in Positions : q = entry.p
      BY <2>0, <2>2 DEF EntryCommit, TypeOK, LockFree
    <3>2. pos[q].status = "absent" /\ pos' = [pos EXCEPT ![q] = Opened] /\ UNCHANGED <<booked, awaiting>>
      BY <2>2, <3>1 DEF EntryCommit, ExitInv, EntryAbsent, Absent
    <3>3. [p \in Positions |-> pos'[p].status] = [[p \in Positions |-> pos[p].status] EXCEPT ![q] = "open"]
      BY <2>0, <3>2 DEF Opened
    <3>4. Promised!Enter(q)
      BY <3>2, <3>3 DEF Promised!Enter
    <3> QED
      BY <3>4 DEF Promised!Next
  <2>3. ASSUME NEW w \in Observers \union Routes, SettleFunding(w)
        PROVE  Promised!Next
    <3>1. PICK q \in Positions : q = task[w].p
      BY <2>0, <2>3 DEF SettleFunding, TypeOK
    <3>2. /\ q \in awaiting
          /\ awaiting' \in {awaiting, awaiting \ {q}}
          /\ booked' \in {booked, booked \union {q}}
          /\ pos' = pos
      BY <2>3, <3>1 DEF SettleFunding
    <3>3. Promised!Settle(q)
      BY <3>2 DEF Promised!Settle
    <3> QED
      BY <3>3 DEF Promised!Next
  <2>4. ASSUME NEW q \in Positions, NEW x \in Position, Stored(q, x)
        PROVE  [Promised!Next]_<<[p \in Positions |-> pos[p].status], booked, awaiting>>
    <3>1. [p \in Positions |-> pos'[p].status] = [[p \in Positions |-> pos[p].status] EXCEPT ![q] = x.status]
      BY <2>0, <2>4 DEF Stored
    <3>2. CASE x.status = "closed"
      <4>1. Promised!Close(q)
        BY <2>4, <3>1, <3>2 DEF Promised!Close, Stored, IsOpen
      <4> QED
        BY <4>1 DEF Promised!Next
    <3>3. CASE x.status = "open"
      <4>1. [p \in Positions |-> pos'[p].status] = [p \in Positions |-> pos[p].status]
        BY <2>4, <3>1, <3>3 DEF Stored, IsOpen
      <4> QED
        BY <2>4, <3>3, <4>1 DEF Stored
    <3> QED
      BY <2>4, <3>2, <3>3 DEF Stored
  <2> QED
    BY <2>0, <2>1, <2>2, <2>3, <2>4, BookKinds
<1> QED
  BY <1>1, <1>2, ExitInvInit, ExitInvStep, PTL DEF Spec, KeepsBook, Promised!Spec

=============================================================================
