------------------------------ MODULE PaperRisk ------------------------------
(***************************************************************************)
(* Paper positions, the kill switch, the entry pause and reconciliation of *)
(* the state API (services/state-api/app, managed_paper.py and paper_*.py, *)
(* with tradesync_core.managed_paper and tradesync_core.paper_kill).       *)
(*                                                                         *)
(* The actors are the entry requests, the observer loop, the manual close  *)
(* route, the risk monitor, the kill route, the pause and resume routes,   *)
(* the reconciliation loop and the environment (quotes, equity, restarts). *)
(* They share PostgreSQL.  A transaction is one step, except the entry     *)
(* transaction, which holds advisory lock 230914 from its first statement  *)
(* to its commit and is three steps; every other transaction that takes    *)
(* the lock is enabled only while no entry holds it.  Work done outside a  *)
(* transaction (reading a row, fetching a book) is a step of its own, so   *)
(* what a worker read may be stale when it writes.                         *)
(*                                                                         *)
(* Prices, times and quantities are abstract: a quantity is a number of    *)
(* units, and the time of a book a worker holds is its rank among the      *)
(* books later than the last one its position evaluated                    *)
(* (`evaluated_through`): 0 is a duplicate or an out-of-order book, and of *)
(* two books held for one position the later has the higher rank.          *)
(***************************************************************************)
EXTENDS Integers, Sequences, FiniteSets

CONSTANTS
    Positions,     \* opportunities; each can become one position
    SymbolOf,      \* the symbol of each opportunity
    MaxOpen,       \* the portfolio cap (three in the code)
    Size,          \* units a position opens with
    NaturalRules,  \* exit rules a quote can fire: stop, target, expiry, ...
    Observers,     \* observer loops (one in the code)
    Routes,        \* manual close requests in flight
    Engagers,      \* kill requests in flight
    MaxKills,      \* bound: how many times the kill switch is engaged
    MaxAhead,      \* bound: distinct ranks of the books held for a position
    MaxRestarts,   \* bound: restarts of the state API
    Breaches,      \* the standing breaches that occur: a subset of BOOLEAN
    Bookings,      \* the results booking a close can have, likewise
    Lateness       \* whether funding can be late at a close, likewise

Monitor == "monitor"
Killers == Engagers \union {Monitor}
Workers == Observers \union Routes \union Killers

ASSUME PositionsAssumption ==
    /\ IsFiniteSet(Positions)
    /\ "nobody" \notin Positions
    /\ DOMAIN SymbolOf = Positions
ASSUME NumbersAssumption ==
    /\ MaxOpen \in Nat \ {0} /\ Size \in Nat \ {0} /\ MaxAhead \in Nat \ {0}
    /\ MaxKills \in Nat /\ MaxRestarts \in Nat
ASSUME OutcomesAssumption ==
    Breaches \subseteq BOOLEAN /\ Bookings \subseteq BOOLEAN /\ Lateness \subseteq BOOLEAN
ASSUME RulesAssumption ==
    NaturalRules \intersect {"none", "operator_close", "kill_switch"} = {}
ASSUME WorkersAssumption ==
    /\ (Observers \union Routes) \intersect Killers = {}
    /\ Observers \intersect Routes = {}

VARIABLES
    pos,       \* managed_paper_positions.position_state, by opportunity
    kill,      \* paper_kill_switch: active, and which engagement named it
    paused,    \* managed_paper_control.entries_paused
    run,       \* the latest reconciliation run as the gate reads it
    booked,    \* positions with a realised entry in paper_account_ledger
    awaiting,  \* closed positions whose funding is "awaiting_rows"
    audits,    \* "close" rows of paper_kill_switch_events, by position
    entry,     \* the entry transaction that holds the entry lock
    task,      \* what each worker holds between its steps
    recon,     \* the reconciliation run in progress
    breach,    \* a standing daily-loss or drawdown breach
    fired,     \* history: the first natural rule that fired
    vouched,   \* history: the closed positions the latest clean run saw
    restarts   \* how often the process restarted (bounded)

db   == <<pos, kill, paused, run, booked, awaiting, audits>>
mem  == <<entry, task, recon>>
env  == <<breach, restarts>>
hist == <<fired, vouched>>
vars == <<db, mem, env, hist>>

-----------------------------------------------------------------------------
(* Exit records and positions. *)

Rules == NaturalRules \union {"operator_close", "kill_switch"}
Exit  == [rule: Rules \union {"none"}, coincided: NaturalRules \union {"none"}, by: 0..MaxKills]

NoExit    == [rule |-> "none", coincided |-> "none", by |-> 0]
ExitOf(r) == [NoExit EXCEPT !.rule = r]

Position == [status: {"absent", "open", "closed"}, held: 0..Size, pending: Exit, exit: Exit]
Absent   == [status |-> "absent", held |-> 0, pending |-> NoExit, exit |-> NoExit]
Opened   == [status |-> "open", held |-> Size, pending |-> NoExit, exit |-> NoExit]

IsOpen(p)     == pos[p].status = "open"
OpenPositions == {p \in Positions : IsOpen(p)}

(* Mutant of FillExit: the last fill forgets the rule that coincided. *)
FillExitForgetting(x, f, d) ==
    IF d < x.held
    THEN [x EXCEPT !.held = @ - d, !.pending = f]
    ELSE [status |-> "closed", held |-> 0, pending |-> NoExit, exit |-> [f EXCEPT !.coincided = "none"]]

(* One observation fills d units of an exit that fired: the rest stays     *)
(* owed, and the last unit closes the position.                            *)
FillExit(x, f, d) ==
    IF d < x.held
    THEN [x EXCEPT !.held = @ - d, !.pending = f]
    ELSE [status |-> "closed", held |-> 0, pending |-> NoExit, exit |-> f]

(* The exit an observation is about: one already owed, else what the quote *)
(* fires, else the operator's close.                                       *)
Fired(x, natural, manual) ==
    IF x.pending # NoExit THEN x.pending
    ELSE IF natural # "none" THEN ExitOf(natural)
    ELSE IF manual THEN ExitOf("operator_close") ELSE NoExit

Advance(x, natural, manual, d) ==
    LET f == Fired(x, natural, manual) IN IF f = NoExit THEN x ELSE FillExit(x, f, d)

(* Mutant of Labelled: a rule the exit already owed is not kept. *)
LabelledForgetting(e, k) ==
    [rule |-> "kill_switch", coincided |-> e.coincided, by |-> IF e.by = 0 THEN k ELSE e.by]

(* The kill switch relabels the exit it closes on: the natural rule it was  *)
(* about stays as the one that coincided, and the first kill keeps it.      *)
Labelled(e, k) ==
    [rule      |-> "kill_switch",
     coincided |-> IF e.rule \in NaturalRules THEN e.rule ELSE e.coincided,
     by        |-> IF e.by = 0 THEN k ELSE e.by]

KillClose(x, natural, d, k) ==
    LET r == Advance(x, natural, TRUE, d)
    IN  IF r.status = "closed" THEN [r EXCEPT !.exit = Labelled(@, k)]
                               ELSE [r EXCEPT !.pending = Labelled(@, k)]

-----------------------------------------------------------------------------
(* Workers. *)

Idle     == [pc |-> "idle", p |-> "nobody", ahead |-> 0, by |-> 0, todo |-> {}]
Armed(k) == [pc |-> "armed", p |-> "nobody", ahead |-> 0, by |-> k, todo |-> {}]
Holding(p, b, k, todo) == [pc |-> "book", p |-> p, ahead |-> b, by |-> k, todo |-> todo]
Closing(k, todo) ==
    IF todo = {} THEN Idle ELSE [pc |-> "closing", p |-> "nobody", ahead |-> 0, by |-> k, todo |-> todo]

Task ==
    {t \in [pc: {"idle", "armed", "closing", "book"}, p: Positions \union {"nobody"},
            ahead: 0..MaxAhead, by: 0..MaxKills, todo: SUBSET Positions] :
        t.pc = "book" => t.p \in Positions}

Verdicts == {"clean", "mismatch", "failed"}

Free    == [p |-> "nobody", admitted |-> FALSE]
LockFree == entry.p = "nobody"

Init ==
    /\ pos = [p \in Positions |-> Absent]
    /\ kill = [active |-> FALSE, by |-> 0]
    /\ paused = FALSE
    /\ run = "none"
    /\ booked = {}
    /\ awaiting = {}
    /\ audits = [p \in Positions |-> <<>>]
    /\ entry = Free
    /\ task = [w \in Workers |-> Idle]
    /\ recon = [pc |-> "idle", verdict |-> "clean", saw |-> {}]
    /\ breach = FALSE
    /\ fired = [p \in Positions |-> "none"]
    /\ vouched = {}
    /\ restarts = 0

-----------------------------------------------------------------------------
(* Entries: POST /state/paper-positions. *)

(* Take the entry lock and find no position for the opportunity.  The      *)
(* opportunity's evidence, its plan and its book are all read before this. *)
EntryLock(p) ==
    /\ LockFree
    /\ pos[p] = Absent
    /\ entry' = [p |-> p, admitted |-> FALSE]
    /\ UNCHANGED <<db, task, recon, env, hist>>

(* Mutant of Admissible: the portfolio cap is left out. *)
AdmissibleUncapped(p) ==
    ~paused /\ ~kill.active /\ run = "clean" /\ ~breach
    /\ \A q \in OpenPositions : SymbolOf[q] # SymbolOf[p]

(* entry_admission: the pause, then the kill switch, reconciliation and    *)
(* standing breaches (paper_risk_gate), then the portfolio cap.            *)
Admissible(p) ==
    /\ ~paused
    /\ ~kill.active
    /\ run = "clean"
    /\ ~breach
    /\ Cardinality(OpenPositions) < MaxOpen
    /\ \A q \in OpenPositions : SymbolOf[q] # SymbolOf[p]

EntryAdmit ==
    /\ ~LockFree /\ ~entry.admitted
    /\ Admissible(entry.p)
    /\ entry' = [p |-> entry.p, admitted |-> TRUE]
    /\ UNCHANGED <<db, task, recon, env, hist>>

EntryCommit ==
    /\ ~LockFree /\ entry.admitted
    /\ pos' = [pos EXCEPT ![entry.p] = Opened]
    /\ entry' = Free
    /\ UNCHANGED <<kill, paused, run, booked, awaiting, audits, task, recon, env, hist>>

(* A refusal, evidence older than 30 seconds or any error rolls it back.   *)
EntryRefuse ==
    /\ ~LockFree
    /\ entry' = Free
    /\ UNCHANGED <<db, task, recon, env, hist>>

-----------------------------------------------------------------------------
(* Storing an advanced state: shared by the observer and the kill switch.  *)

(* Every book another worker holds for p is now b quotes less far ahead.   *)
Overtake(p, b) ==
    [v \in Workers |-> IF task[v].pc = "book" /\ task[v].p = p
                       THEN [task[v] EXCEPT !.ahead = IF @ > b THEN @ - b ELSE 0] ELSE task[v]]

(* The close audit row: the authority frozen on the exit, or the standing  *)
(* kill's when an exit was owed without one.                               *)
CloseAudit(x, filledBy) ==
    [by        |-> IF x.exit.by # 0 THEN x.exit.by ELSE kill.by,
     coincided |-> x.exit.coincided,
     filled_by |-> filledBy]

(* Mutant of RecordClose: only the switch's own fills are audited. *)
RecordCloseBySwitch(p, x, filledBy) ==
    audits' = IF x.status = "closed" /\ x.exit.rule = "kill_switch" /\ filledBy = "kill_switch"
              THEN [audits EXCEPT ![p] = Append(@, CloseAudit(x, filledBy))] ELSE audits

RecordClose(p, x, filledBy) ==
    audits' = IF x.status = "closed" /\ x.exit.rule = "kill_switch"
              THEN [audits EXCEPT ![p] = Append(@, CloseAudit(x, filledBy))] ELSE audits

(* The transaction that stores state x for p after using a book b ahead.   *)
(* A close is booked under a savepoint, so booking may fail alone.         *)
Store(w, p, b, x, natural, filledBy, next) ==
    /\ pos' = [pos EXCEPT ![p] = x]
    /\ RecordClose(p, x, filledBy)
    /\ IF x.status = "closed"
       THEN /\ \E ok \in Bookings : booked' = IF ok THEN booked \union {p} ELSE booked
            /\ \E late \in Lateness : awaiting' = IF late THEN awaiting \union {p} ELSE awaiting
       ELSE UNCHANGED <<booked, awaiting>>
    /\ task' = [Overtake(p, b) EXCEPT ![w] = next]
    /\ fired' = [fired EXCEPT ![p] = IF @ = "none" /\ pos[p].pending = NoExit THEN natural ELSE @]
    /\ UNCHANGED <<kill, paused, run, entry, recon, breach, vouched, restarts>>

-----------------------------------------------------------------------------
(* The observer loop and the manual close route: update(). *)

(* Read the row outside a transaction; an open position gets a book, a     *)
(* closed one whose funding is outstanding gets none.                      *)
ObserverRead(w, p) ==
    /\ task[w].pc = "idle"
    /\ \/ IsOpen(p) /\ \E b \in 0..MaxAhead :
              task' = [task EXCEPT ![w] = Holding(p, b, 0, {})]
       \/ p \in awaiting /\ task' = [task EXCEPT ![w] = Holding(p, 0, 0, {})]
    /\ UNCHANGED <<db, entry, recon, env, hist>>

(* Lock the row, read it again, advance it on the book and store it. *)
Observe(w) ==
    LET p == task[w].p IN
    /\ task[w].pc = "book" /\ task[w].ahead > 0
    /\ IsOpen(p)
    /\ \E natural \in NaturalRules \union {"none"}, d \in 0..pos[p].held :
          Store(w, p, task[w].ahead, Advance(pos[p], natural, w \in Routes, d), natural, "observer", Idle)

(* A book that is not past evaluated_through: advance raises.  So does a    *)
(* failed fetch; either way nothing is stored.                              *)
ObserverDiscard(w) ==
    /\ task[w].pc = "book"
    /\ task' = [task EXCEPT ![w] = Idle]
    /\ UNCHANGED <<db, entry, recon, env, hist>>

(* The position was closed: funding rows published since are stored, and    *)
(* the ledger is brought in line again, under its savepoint.                *)
SettleFunding(w) ==
    LET p == task[w].p IN
    /\ task[w].pc = "book"
    /\ pos[p].status = "closed" /\ p \in awaiting
    /\ \E all \in BOOLEAN : awaiting' = IF all THEN awaiting \ {p} ELSE awaiting
    /\ \E ok \in Bookings : booked' = IF ok THEN booked \union {p} ELSE booked
    /\ task' = [task EXCEPT ![w] = Idle]
    /\ UNCHANGED <<pos, kill, paused, run, audits, entry, recon, env, hist>>

-----------------------------------------------------------------------------
(* The kill switch: POST /state/paper-kill and the monitor's close_for_kill. *)

(* Mutant of Engage: the entry lock is not taken. *)
EngageWithoutLock(w) ==
    /\ task[w].pc = "idle"
    /\ ~kill.active /\ kill.by < MaxKills
    /\ kill' = [active |-> TRUE, by |-> kill.by + 1]
    /\ paused' = TRUE
    /\ task' = [task EXCEPT ![w] = Armed(kill'.by)]
    /\ UNCHANGED <<pos, run, booked, awaiting, audits, entry, recon, env, hist>>

Engage(w) ==
    /\ task[w].pc = "idle"
    /\ LockFree
    /\ \/ kill.active /\ UNCHANGED <<kill, paused>>
       \/ ~kill.active /\ kill.by < MaxKills
          /\ kill' = [active |-> TRUE, by |-> kill.by + 1]
          /\ paused' = TRUE
    /\ task' = [task EXCEPT ![w] = Armed(kill'.by)]
    /\ UNCHANGED <<pos, run, booked, awaiting, audits, entry, recon, env, hist>>

(* Mutant of MonitorRead: a tick leaves alone an exit that is already owed. *)
MonitorReadUnowed ==
    /\ task[Monitor].pc = "idle"
    /\ kill.active
    /\ \A p \in OpenPositions : pos[p].pending = NoExit
    /\ task' = [task EXCEPT ![Monitor] = Armed(kill.by)]
    /\ UNCHANGED <<db, entry, recon, env, hist>>

(* close_for_kill reads the standing kill without the entry lock. *)
MonitorRead ==
    /\ task[Monitor].pc = "idle"
    /\ kill.active
    /\ task' = [task EXCEPT ![Monitor] = Armed(kill.by)]
    /\ UNCHANGED <<db, entry, recon, env, hist>>

KillList(w) ==
    /\ task[w].pc = "armed"
    /\ task' = [task EXCEPT ![w] = Closing(@.by, OpenPositions)]
    /\ UNCHANGED <<db, entry, recon, env, hist>>

(* close_one reads the row and fetches a book, both outside a transaction. *)
KillRead(w, p) ==
    /\ task[w].pc = "closing" /\ p \in task[w].todo
    /\ IsOpen(p)
    /\ \E b \in 0..MaxAhead :
          task' = [task EXCEPT ![w] = Holding(p, b, @.by, @.todo \ {p})]
    /\ UNCHANGED <<db, entry, recon, env, hist>>

KillWrite(w) ==
    LET p == task[w].p IN
    /\ task[w].pc = "book" /\ task[w].ahead > 0
    /\ IsOpen(p)
    /\ \E natural \in NaturalRules \union {"none"}, d \in 0..pos[p].held :
          Store(w, p, task[w].ahead, KillClose(pos[p], natural, d, task[w].by), natural, "kill_switch",
                Closing(task[w].by, task[w].todo))

(* Nothing to store: the position is no longer open, the book is stale, or  *)
(* market data or the database failed.  The monitor tries again next tick.  *)
KillSkip(w) ==
    /\ \/ task[w].pc = "book" /\ task' = [task EXCEPT ![w] = Closing(@.by, @.todo)]
       \/ task[w].pc = "closing" /\ \E p \in task[w].todo :
              task' = [task EXCEPT ![w] = Closing(@.by, @.todo \ {p})]
    /\ UNCHANGED <<db, entry, recon, env, hist>>

(* POST /state/paper-kill/resume. *)
Resume ==
    /\ LockFree
    /\ kill.active
    /\ OpenPositions = {}
    /\ kill' = [kill EXCEPT !.active = FALSE]
    /\ UNCHANGED <<pos, paused, run, booked, awaiting, audits, mem, env, hist>>

-----------------------------------------------------------------------------
(* The entry pause. *)

PauseOn ==
    /\ LockFree
    /\ paused' = TRUE
    /\ UNCHANGED <<pos, kill, run, booked, awaiting, audits, mem, env, hist>>

(* resume_refusal: the kill switch, reconciliation or a standing breach. *)
PauseOff ==
    /\ LockFree
    /\ ~kill.active
    /\ run = "clean"
    /\ ~breach
    /\ paused' = FALSE
    /\ UNCHANGED <<pos, kill, run, booked, awaiting, audits, mem, env, hist>>

(* The monitor's pause_on_breach, under the entry lock. *)
PauseOnBreach ==
    /\ LockFree
    /\ breach /\ ~paused
    /\ paused' = TRUE
    /\ UNCHANGED <<pos, kill, run, booked, awaiting, audits, mem, env, hist>>

-----------------------------------------------------------------------------
(* Reconciliation: run_once. *)

Closed   == {p \in Positions : pos[p].status = "closed"}
(* Mutant of Unbooked: a close that waits for funding is not expected yet. *)
UnbookedSettled == (Closed \ awaiting) \ booked

Unbooked == Closed \ booked

(* One repeatable-read snapshot; an error while reading is a failed run. *)
ReconSnapshot ==
    /\ recon.pc = "idle"
    /\ \E v \in {IF Unbooked = {} THEN "clean" ELSE "mismatch", "failed"} :
          recon' = [pc |-> "assessed", verdict |-> v, saw |-> Closed]
    /\ UNCHANGED <<db, entry, task, env, hist>>

(* Mutant of ReconRecord: the mismatch is stored, the pause is forgotten. *)
ReconRecordOnly ==
    /\ recon.pc = "assessed"
    /\ run' = recon.verdict
    /\ vouched' = IF recon.verdict = "clean" THEN recon.saw ELSE vouched
    /\ recon' = [pc |-> "idle", verdict |-> "clean", saw |-> {}]
    /\ UNCHANGED <<pos, kill, paused, booked, awaiting, audits, entry, task, env, fired>>

(* The run is stored; on a mismatch the same transaction takes the entry    *)
(* lock and switches the pause on.                                          *)
ReconRecord ==
    /\ recon.pc = "assessed"
    /\ run' = recon.verdict
    /\ IF recon.verdict = "mismatch" THEN LockFree /\ paused' = TRUE ELSE UNCHANGED paused
    /\ vouched' = IF recon.verdict = "clean" THEN recon.saw ELSE vouched
    /\ recon' = [pc |-> "idle", verdict |-> "clean", saw |-> {}]
    /\ UNCHANGED <<pos, kill, booked, awaiting, audits, entry, task, env, fired>>

-----------------------------------------------------------------------------
(* The environment. *)

(* Equity, peaks or limits move; a breach can appear and end. *)
EquityMoves ==
    /\ breach' \in Breaches
    /\ UNCHANGED <<db, mem, restarts, hist>>

(* No run finished for fifteen minutes: the gate no longer takes the last. *)
RunAges ==
    /\ run = "clean"
    /\ run' = "aged"
    /\ UNCHANGED <<pos, kill, paused, booked, awaiting, audits, mem, env, hist>>

(* The state API stops and starts again: open transactions roll back, what  *)
(* workers held is gone, and no run has started since the process did.      *)
Restart ==
    /\ restarts < MaxRestarts
    /\ restarts' = restarts + 1
    /\ entry' = Free
    /\ task' = [w \in Workers |-> Idle]
    /\ recon' = [pc |-> "idle", verdict |-> "clean", saw |-> {}]
    /\ run' = "none"
    /\ UNCHANGED <<pos, kill, paused, booked, awaiting, audits, breach, hist>>

-----------------------------------------------------------------------------
Entries == EntryAdmit \/ EntryCommit \/ EntryRefuse \/ \E p \in Positions : EntryLock(p)

Observing(w) == Observe(w) \/ ObserverDiscard(w) \/ SettleFunding(w) \/ \E p \in Positions : ObserverRead(w, p)

Killing(w) == KillList(w) \/ KillWrite(w) \/ KillSkip(w) \/ \E p \in Positions : KillRead(w, p)

Controls == Resume \/ PauseOn \/ PauseOff \/ PauseOnBreach \/ MonitorRead \/ \E w \in Engagers : Engage(w)

Environment == EquityMoves \/ RunAges \/ Restart

Next ==
    \/ Entries
    \/ \E w \in Observers \union Routes : Observing(w)
    \/ \E w \in Killers : Killing(w)
    \/ Controls
    \/ ReconSnapshot \/ ReconRecord
    \/ Environment

Spec == Init /\ [][Next]_vars

(***************************************************************************)
(* The background loops of one state API process run for ever, and each    *)
(* retries what failed (paper_risk_monitor.loop, paper_reconciliation      *)
(* _runner.loop).  Assumed of the outside, again and again: a book newer   *)
(* than the last one evaluated, with some displayed depth, that the        *)
(* observer does not overtake before the monitor uses it; a database that  *)
(* a run can read; and lock 230914 granted to a waiter (PostgreSQL queues  *)
(* the requests for an advisory lock).                                     *)
(***************************************************************************)
FreshRead(p) == KillRead(Monitor, p) /\ task'[Monitor].ahead > 0
SomeFill     == KillWrite(Monitor) /\ \E p \in Positions : pos'[p].held < pos[p].held
ReadableRun  == ReconSnapshot /\ recon'.verdict # "failed"

Fairness ==
    /\ WF_vars(MonitorRead) /\ WF_vars(Killing(Monitor)) /\ SF_vars(SomeFill)
    /\ \A p \in Positions : SF_vars(FreshRead(p))
    /\ WF_vars(ReconSnapshot) /\ SF_vars(ReadableRun) /\ SF_vars(ReconRecord)

FairSpec == Spec /\ Fairness

-----------------------------------------------------------------------------
(* Every variable holds a value of its type. *)
Audit == [by: 0..MaxKills, coincided: NaturalRules \union {"none"}, filled_by: {"observer", "kill_switch"}]

TypeOK ==
    /\ pos \in [Positions -> Position]
    /\ kill \in [active: BOOLEAN, by: 0..MaxKills]
    /\ paused \in BOOLEAN
    /\ run \in Verdicts \union {"none", "aged"}
    /\ booked \subseteq Positions /\ awaiting \subseteq Positions
    /\ audits \in [Positions -> Seq(Audit)]
    /\ entry \in [p: Positions \union {"nobody"}, admitted: BOOLEAN]
    /\ task \in [Workers -> Task]
    /\ recon \in [pc: {"idle", "assessed"}, verdict: Verdicts, saw: SUBSET Positions]
    /\ breach \in BOOLEAN
    /\ fired \in [Positions -> NaturalRules \union {"none"}]
    /\ vouched \subseteq Positions
    /\ restarts \in 0..MaxRestarts

(* The portfolio cap and one position per symbol hold of committed state,   *)
(* although an entry counts the open positions before it inserts its own    *)
(* (entry_admission).                                                       *)
PortfolioCap ==
    /\ Cardinality(OpenPositions) <= MaxOpen
    /\ \A p, q \in OpenPositions : p # q => SymbolOf[p] # SymbolOf[q]

(* While the kill switch is engaged entries are paused as well, whatever    *)
(* order kill, resume, pause and unpause requests commit in.                *)
KilledMeansPaused == kill.active => paused

(* "An entry racing a kill or a pause either committed before it or sees    *)
(* it": no position becomes open in a state where the kill switch is        *)
(* engaged, entries are paused, or the latest run found a mismatch,         *)
(* although admission read all three in an earlier statement.               *)
EntrySeesControls ==
    [][\A p \in Positions : pos[p].status = "absent" /\ pos'[p].status = "open"
          => ~kill.active /\ ~paused /\ run # "mismatch"]_vars

(* A position closed by the kill switch has exactly one close audit row,    *)
(* naming the kill its exit froze and the rule that coincided, whichever    *)
(* of the observer and the monitor filled it; no other position has one.    *)
KillAudited(p) ==
    IF pos[p].status = "closed" /\ pos[p].exit.rule = "kill_switch"
    THEN /\ Len(audits[p]) = 1
         /\ audits[p][1].by = pos[p].exit.by /\ pos[p].exit.by > 0
         /\ audits[p][1].coincided = pos[p].exit.coincided
    ELSE audits[p] = <<>>
KillAuditedOnce == \A p \in Positions : KillAudited(p)

(* An exit the kill switch owes keeps its rule, the rule that coincided and *)
(* the kill that owed it through every later observation, by either worker, *)
(* a second kill included, into the close.                                  *)
KillExitFrozen ==
    [][\A p \in Positions : pos[p].pending.rule = "kill_switch"
          => pos[p].pending \in {pos'[p].pending, pos'[p].exit}]_vars

(* The first stop, target or expiry that fires is never lost: it is the     *)
(* rule of the owed or recorded exit, or the rule that coincided with the   *)
(* kill switch; and an exit names no natural rule that did not fire.        *)
ExitNow(p) == IF pos[p].status = "closed" THEN pos[p].exit ELSE pos[p].pending
NaturalRuleKept ==
    \A p \in Positions :
       LET e == ExitNow(p) IN
       fired[p] = IF e.rule \in NaturalRules THEN e.rule ELSE e.coincided

(* A clean run never stands for a ledger that lacks a close the run could   *)
(* see: what is unbooked under it closed after the run's snapshot.          *)
CleanRunVouches == run = "clean" => vouched \subseteq booked

(* The engine and the account tell one story of a position (PositionBook):  *)
(* each opens and closes once, and a booking that failed is tried again     *)
(* only while funding is outstanding, whichever of the observer, the close  *)
(* route and the kill switch closed it and wherever the process stopped.    *)
Promised  == INSTANCE PositionBook WITH status <- [p \in Positions |-> pos[p].status]
KeepsBook == Promised!Spec

(* The kill switch closes every open position in the end, through stale     *)
(* books, part fills, the observer's competing writes and a restart.        *)
KillDrains == \A p \in Positions : (kill.active /\ IsOpen(p)) ~> pos[p].status = "closed"

(* A close the ledger could not book stops new entries: it is booked later  *)
(* or a reconciliation switches the pause on.                               *)
UnbookedStopsEntries == \A p \in Positions : (p \in Unbooked) ~> (p \in booked \/ paused)

=============================================================================
