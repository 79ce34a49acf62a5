------------------------------ MODULE PaperAccount ------------------------------
(***************************************************************************)
(* The paper account: hourly funding settled for positions while they are  *)
(* open and for a day after they close (managed_paper.update and the kill   *)
(* switch's close_one over paper_funding_store), the booking of every close *)
(* and of funding settled later (paper_account_store), the equity peak the  *)
(* risk monitor records, and what reconciliation compares.                  *)
(*                                                                         *)
(* A transaction that stores a position holds that position's row, and the *)
(* account's row while it books, so it is one action; the monitor's, which *)
(* reads the account first and the positions after, is two.  Time is the   *)
(* hour.  A position's row and its latest event are written together and   *)
(* are one record here.                                                     *)
(***************************************************************************)
EXTENDS Integers, Sequences, FiniteSets, Functions

CONSTANTS
    Positions,  \* managed paper positions, numbered in the order of their created_at
    PassLimit,  \* positions one pass of the observer visits at most (20)
    LastHour,   \* bound: the clock stops here
    Day,        \* hours for which a closed position is still visited (24 in the code)
    Marks,      \* results a position can be marked at, before funding
    Pay,        \* Pay[p][h]: what p pays at hour h, if it is held then
    Capital,    \* starting capital
    MaxFaults   \* bound: bookings, settlements, fetches and ticks that fail

None == 0

ASSUME PositionsAssumption == Positions \subseteq Nat \ {None} /\ IsFiniteSet(Positions)

ASSUME NumbersAssumption ==
    /\ LastHour \in Nat /\ Day \in Nat \ {0} /\ PassLimit \in Nat \ {0} /\ MaxFaults \in Nat
    /\ Marks \subseteq Int /\ Capital \in Nat \ {0}
    /\ Pay \in [Positions -> [1..LastHour -> Int]]

VARIABLES
    hour,       \* now
    published,  \* hours whose rate and price are recorded
    older,      \* positions a pass visits first, created before these and not modelled otherwise
    pos,        \* managed_paper_positions.position_state
    rows,       \* managed_paper_funding: hours settled for each position
    closeEvent, \* the state each closed event recorded
    account,    \* the paper_account row
    ledger,     \* paper_account_ledger
    todo,       \* positions the observer has left in this pass
    work,       \* what the observer and the kill switch are doing
    monitor,    \* what the risk monitor is doing
    behind,     \* history: positions whose latest booking failed
    lost,       \* history: positions closed without reading their rows back
    faults      \* how many faults happened (bounded)

tables == <<pos, rows, closeEvent, account, ledger>>
hist   == <<behind, lost>>
vars   == <<hour, published, older, tables, todo, work, monitor, hist, faults>>

Workers == {"observer", "kill"}
Clock   == 1..LastHour
Unopened == [status |-> "none", entry |-> 0, through |-> 0, mark |-> 0, used |-> {}]
Absent  == [exists |-> FALSE, cash |-> 0, last |-> 0, peak |-> 0]
Idle    == [at |-> "idle"]

Total(p, S) == SumFunctionOnSet(Pay[p], S)

(* settlement_hours: after the entry, at or before the exit or the last     *)
(* observation.                                                             *)
Expected(s, until) == {h \in Clock : s.entry < h /\ h <= until}
Funding(p, s) == Total(p, s.used)
Result(p, s)  == s.mark - Funding(p, s)
Missing(s)    == Expected(s, s.through) \ s.used
Closed(p)     == pos[p].status = "closed"

(* What the account would hold if its ledger were true to every position.   *)
Worth(ps) == Capital + SumFunctionOnSet([p \in Positions |-> Result(p, ps[p])], Positions)

Init ==
    /\ hour = 0 /\ published = {} /\ older = 0
    /\ pos = [p \in Positions |-> Unopened]
    /\ rows = [p \in Positions |-> {}]
    /\ closeEvent = [p \in Positions |-> Unopened]
    /\ account = Absent /\ ledger = <<>>
    /\ todo = {} /\ work = [w \in Workers |-> Idle] /\ monitor = Idle
    /\ behind = {} /\ lost = {}
    /\ faults = 0

Fault(happens) == IF happens THEN faults < MaxFaults /\ faults' = faults + 1 ELSE UNCHANGED faults

-----------------------------------------------------------------------------
(* The clock, the venue and the entries. *)

Tick ==
    /\ hour < LastHour
    /\ hour' = hour + 1
    /\ UNCHANGED <<published, older, tables, todo, work, monitor, hist, faults>>

(* An hour's rate is published after the hour, if it ever is. *)
Publish(h) ==
    /\ h <= hour /\ h \notin published
    /\ published' = published \union {h}
    /\ UNCHANGED <<hour, older, tables, todo, work, monitor, hist, faults>>

(* The positions that came before these open, close and stop waiting.       *)
Others ==
    /\ older' \in 0..PassLimit /\ older' # older
    /\ UNCHANGED <<hour, published, tables, todo, work, monitor, hist, faults>>

OpenPosition(p) ==
    /\ pos[p].status = "none"
    /\ \A q \in Positions : q < p => pos[q].status # "none"
    /\ pos' = [pos EXCEPT ![p] = [Unopened EXCEPT !.status = "open", !.entry = hour, !.through = hour]]
    /\ UNCHANGED <<hour, published, older, rows, closeEvent, account, ledger, todo, work, monitor, hist, faults>>

-----------------------------------------------------------------------------
(* The account's ledger. *)

Entry(kind, p, amount, funding, cash) ==
    [kind |-> kind, p |-> p, amount |-> amount, funding |-> funding, after |-> cash + amount]

(* ensure_account: the row, made with its capital entry if there is none.   *)
Opened(book) ==
    IF book.account.exists THEN book
    ELSE [account |-> [exists |-> TRUE, cash |-> Capital, last |-> 1, peak |-> Capital],
          ledger  |-> <<Entry("capital", None, Capital, 0, 0)>>]

(* _append: the entry and the balances that go with it. *)
Appended(book, kind, p, amount, funding) ==
    [account |-> [book.account EXCEPT !.cash = @ + amount, !.last = @ + 1],
     ledger  |-> Append(book.ledger, Entry(kind, p, amount, funding, book.account.cash))]

EntriesOf(entries, p, kind) == {i \in DOMAIN entries : entries[i].p = p /\ entries[i].kind = kind}
FundingOf(entries, p, kind) ==
    SumFunctionOnSet([i \in DOMAIN entries |-> entries[i].funding], EntriesOf(entries, p, kind))
Charged(entries, p)  == FundingOf(entries, p, "realised") + FundingOf(entries, p, "adjustment")
IsBooked(entries, p) == EntriesOf(entries, p, "realised") # {}

Realised(book, p, close) ==
    IF IsBooked(book.ledger, p) THEN book
    ELSE Appended(book, "realised", p, Result(p, close), Funding(p, close))

(* Mutant of Adjusted: the change is taken from the close, not from what    *)
(* was charged.                                                             *)
AdjustedFromClose(book, p, state) ==
    LET change == Funding(p, state) - FundingOf(book.ledger, p, "realised") IN
    IF change = 0 THEN book ELSE Appended(book, "adjustment", p, -change, change)

Adjusted(book, p, state) ==
    LET change == Funding(p, state) - Charged(book.ledger, p) IN
    IF change = 0 THEN book ELSE Appended(book, "adjustment", p, -change, change)

(* book_position: the realised entry once, from the close, then whatever    *)
(* funding the ledger has not charged yet.                                  *)
Booked(p, close, state) ==
    Adjusted(Realised(Opened([account |-> account, ledger |-> ledger]), p, close), p, state)

-----------------------------------------------------------------------------
(* The observer's pass and the kill switch: read, fetch, then store. *)

(* Mutant of Visited: a closed position is not visited again.               *)
VisitedOpen(p) == pos[p].status = "open"

(* Open positions, and closed ones that still wait for rows, for a day.     *)
Visited(p) ==
    \/ pos[p].status = "open"
    \/ Closed(p) /\ Missing(pos[p]) # {} /\ hour - pos[p].through < Day

(* Visited and created before p. *)
Ahead(p) == {q \in Positions : Visited(q) /\ q < p}

(* A pass takes the oldest, as many as its limit allows: a position that    *)
(* has so many ahead of it waits for another pass.                          *)
Crowded(p) == older + Cardinality(Ahead(p)) >= PassLimit

StartPass ==
    /\ todo = {} /\ work["observer"] = Idle
    /\ todo' = {p \in Positions : Visited(p) /\ ~Crowded(p)} /\ todo' # {}
    /\ UNCHANGED <<hour, published, older, tables, work, monitor, hist, faults>>

(* What the update reads before it fetches: the hours it has no row for.    *)
Read(w, p) ==
    work' = [work EXCEPT ![w] =
               [at |-> "fetch", p |-> p,
                need |-> Expected(pos[p], IF Closed(p) THEN pos[p].through ELSE hour) \ rows[p]]]

Observe(p) ==
    /\ work["observer"] = Idle /\ p \in todo
    /\ \A q \in todo : p <= q
    /\ todo' = todo \ {p}
    /\ Read("observer", p)
    /\ UNCHANGED <<hour, published, older, tables, monitor, hist, faults>>

Kill(p) ==
    /\ work["kill"] = Idle /\ pos[p].status = "open"
    /\ Read("kill", p)
    /\ UNCHANGED <<hour, published, older, tables, todo, monitor, hist, faults>>

(* The rates it gets, none when the fetch fails, and the book, which can be  *)
(* some seconds old: of the hour before.                                     *)
Fetch(w) ==
    /\ work[w].at = "fetch"
    /\ \E failed \in BOOLEAN, seen \in {hour - 1, hour} \intersect Nat :
          /\ Fault(failed)
          /\ work' = [work EXCEPT ![w] =
                        [at |-> "store", p |-> @.p, seen |-> seen,
                         rates |-> IF failed THEN {} ELSE @.need \intersect published]]
    /\ UNCHANGED <<hour, published, older, tables, todo, monitor, hist>>

Done(w) == work' = [work EXCEPT ![w] = Idle]

(* The book was not fetched, its quote is refused, or a statement fails:   *)
(* nothing is stored and the next pass tries again.                         *)
Abandon(w) ==
    /\ work[w].at = "store" /\ Fault(TRUE)
    /\ Done(w)
    /\ UNCHANGED <<hour, published, older, tables, todo, monitor, hist>>

(* Another worker was first: the book is older than the last observation,   *)
(* or the position is closed and the kill switch leaves it.                 *)
Outdated(w) ==
    LET p == work[w].p IN
    /\ work[w].at = "store"
    /\ IF Closed(p) THEN w = "kill" ELSE work[w].seen < pos[p].through
    /\ Done(w)
    /\ UNCHANGED <<hour, published, older, tables, todo, monitor, hist, faults>>

(* Mutant of Advanced: the stored state keeps the status it had.            *)
AdvancedUnclosed(w, s, status, mark) == [s EXCEPT !.through = work[w].seen, !.mark = mark]

(* advance: one observation of an open position, at the time of its book,   *)
(* which has to be later than the last one.                                 *)
Advanced(w, s, status, mark) ==
    [s EXCEPT !.status = status, !.through = work[w].seen, !.mark = mark]

(* settle_through: funding is stored up to what was observed, not up to now. *)
SettleThrough(s) == s.through

SettledHours(w, p, s) == (Expected(s, SettleThrough(s)) \ rows[p]) \intersect work[w].rates

(* Mutant of Unlocked: the monitor reads the account and does not lock it.  *)
UnlockedAlways == TRUE

Unlocked == monitor.at # "locked"

(* Mutant of ReadBack: the rows are read before the new ones are stored.    *)
ReadBackFirst(p, stored) == rows[p]

(* settle_rows reads every row of the position back. *)
ReadBack(p, stored) == stored

(* book_position_safely: a booking that fails is undone and the close or    *)
(* the settlement stands.  It needs the account's row.                      *)
Book(p, close, state, failed) ==
    IF failed
    THEN UNCHANGED <<account, ledger>> /\ behind' = behind \union {p}
    ELSE /\ Unlocked
         /\ \E book \in {Booked(p, close, state)} : account' = book.account /\ ledger' = book.ledger
         /\ behind' = behind \ {p}

StoreOpen(w) ==
    LET p == work[w].p IN
    /\ work[w].at = "store" /\ pos[p].status = "open" /\ pos[p].through <= work[w].seen
    /\ Done(w)
    /\ \E status \in {"open", "closed"}, mark \in Marks, unread, unbooked \in BOOLEAN :
          LET a == Advanced(w, pos[p], status, mark)
              stored == IF unread THEN rows[p] ELSE rows[p] \union SettledHours(w, p, a)
              result == [a EXCEPT !.used = IF unread THEN {} ELSE Expected(a, a.through) \intersect ReadBack(p, stored)]
          IN
          /\ Fault(unread \/ unbooked)
          /\ rows' = [rows EXCEPT ![p] = stored]
          /\ pos' = [pos EXCEPT ![p] = result]
          /\ IF status = "closed"
             THEN /\ closeEvent' = [closeEvent EXCEPT ![p] = result]
                  /\ lost' = IF unread THEN lost \union {p} ELSE lost
                  /\ Book(p, result, result, unbooked)
             ELSE ~unbooked /\ UNCHANGED <<closeEvent, lost, account, ledger, behind>>
    /\ UNCHANGED <<hour, published, older, todo, monitor>>

(* A closed position takes the hours published since; without a new one     *)
(* nothing is written.                                                      *)
StoreClosed ==
    LET p == work["observer"].p
        new == SettledHours("observer", p, pos[p])
    IN
    /\ work["observer"].at = "store" /\ Closed(p)
    /\ Done("observer")
    /\ \/ /\ new = {} /\ UNCHANGED <<tables, hist, faults>>
       \/ \* the rows cannot be stored
          /\ new # {} /\ Fault(TRUE) /\ UNCHANGED <<tables, hist>>
       \/ /\ new # {}
          /\ \E unbooked \in BOOLEAN :
                LET result == [pos[p] EXCEPT !.used = Expected(pos[p], pos[p].through) \intersect ReadBack(p, rows[p] \union new)] IN
                /\ Fault(unbooked)
                /\ rows' = [rows EXCEPT ![p] = @ \union new]
                /\ pos' = [pos EXCEPT ![p] = result]
                /\ lost' = lost \ {p}
                /\ Book(p, closeEvent[p], result, unbooked)
          /\ UNCHANGED closeEvent
    /\ UNCHANGED <<hour, published, older, todo, monitor>>

-----------------------------------------------------------------------------
(* Reconciliation and the risk monitor. *)

(* Every reconciliation makes sure of the account first. *)
EnsureAccount ==
    /\ ~account.exists /\ Unlocked
    /\ LET book == Opened([account |-> account, ledger |-> ledger]) IN
          account' = book.account /\ ledger' = book.ledger
    /\ UNCHANGED <<hour, published, older, pos, rows, closeEvent, todo, work, monitor, hist, faults>>

LockAccount ==
    /\ monitor = Idle /\ account.exists
    /\ monitor' = [at |-> "locked", cash |-> account.cash]
    /\ UNCHANGED <<hour, published, older, tables, todo, work, hist, faults>>

(* record_peak: cash as it was locked and the open positions as they are    *)
(* read after; only a new high is written.                                  *)
RecordPeak ==
    LET marks  == SumFunctionOnSet([p \in Positions |-> Result(p, pos[p])],
                                   {p \in Positions : pos[p].status = "open"})
        equity == monitor.cash + marks
    IN
    /\ monitor # Idle
    /\ account' = [account EXCEPT !.peak = IF equity > @ THEN equity ELSE @]
    /\ monitor' = Idle
    /\ UNCHANGED <<hour, published, older, pos, rows, closeEvent, ledger, todo, work, hist, faults>>

OfClose(e, p) == e.amount = Result(p, closeEvent[p]) /\ e.funding = Funding(p, closeEvent[p])

(* Mutant of Disagrees: funding settled after the close is not looked at.   *)
DisagreesOnClose(p) ==
    \/ IsBooked(ledger, p) # Closed(p)
    \/ Closed(p) /\ \E i \in EntriesOf(ledger, p, "realised") : ~OfClose(ledger[i], p)

(* compare, of one position: its entry is missing, unexpected or not the    *)
(* close's, or its adjustments are not what the events imply.               *)
Disagrees(p) ==
    \/ IsBooked(ledger, p) # Closed(p)
    \/ Closed(p) /\ \E i \in EntriesOf(ledger, p, "realised") : ~OfClose(ledger[i], p)
    \/ /\ Closed(p)
       /\ FundingOf(ledger, p, "adjustment") # Funding(p, pos[p]) - Funding(p, closeEvent[p])

-----------------------------------------------------------------------------

Next ==
    \/ Tick \/ Others \/ \E h \in Clock : Publish(h)
    \/ \E p \in Positions : OpenPosition(p) \/ Observe(p) \/ Kill(p)
    \/ StartPass \/ StoreClosed
    \/ \E w \in Workers : Fetch(w) \/ Abandon(w) \/ Outdated(w) \/ StoreOpen(w)
    \/ EnsureAccount \/ LockAccount \/ RecordPeak

Spec == Init /\ [][Next]_vars

(* The observer's loop never stops, the monitor ends what it began, and a   *)
(* transaction that waits for the account's row gets it.                    *)
FairSpec ==
    /\ Spec
    /\ WF_vars(StartPass) /\ \A p \in Positions : WF_vars(Observe(p))
    /\ WF_vars(Fetch("observer")) /\ WF_vars(Outdated("observer"))
    /\ SF_vars(StoreClosed) /\ SF_vars(StoreOpen("observer")) /\ WF_vars(RecordPeak)
-----------------------------------------------------------------------------
(* Properties. *)

States  == [status: {"none", "open", "closed"}, entry: 0..LastHour, through: 0..LastHour,
            mark: Marks \union {0}, used: SUBSET Clock]
Entries == [kind: {"capital", "realised", "adjustment"}, p: Positions \union {None},
            amount: Int, funding: Int, after: Int]
Jobs    ==
    {Idle}
    \union [at: {"fetch"}, p: Positions, need: SUBSET Clock]
    \union [at: {"store"}, p: Positions, seen: 0..LastHour, rates: SUBSET Clock]

(* Every variable has its type, and funding is stored only for hours a      *)
(* position was observed to hold: an hour after the last observation, or    *)
(* after the exit, has no row (settle_through, outstanding).                *)
TypeOK ==
    /\ hour \in 0..LastHour /\ published \subseteq 1..hour /\ older \in 0..PassLimit
    /\ pos \in [Positions -> States] /\ closeEvent \in [Positions -> States]
    /\ rows \in [Positions -> SUBSET Clock]
    /\ \A p \in Positions : rows[p] \subseteq Expected(pos[p], pos[p].through)
    /\ account \in [exists: BOOLEAN, cash: Int, last: Nat, peak: Int]
    /\ ledger \in Seq(Entries)
    /\ todo \subseteq Positions /\ work \in [Workers -> Jobs]
    /\ monitor \in {Idle} \union [at: {"locked"}, cash: Int]
    /\ behind \subseteq Positions /\ lost \subseteq Positions
    /\ faults \in 0..MaxFaults

(* A position whose latest booking did not fail has one realised entry and  *)
(* was charged its funding exactly, however late, and in however many       *)
(* parts, its hours were settled and its bookings failed before             *)
(* (book_position: adjustments telescope).                                  *)
ChargedExactly ==
    \A p \in Positions :
        IF Closed(p)
        THEN p \notin behind => /\ Cardinality(EntriesOf(ledger, p, "realised")) = 1
                                /\ Charged(ledger, p) = Funding(p, pos[p])
        ELSE EntriesOf(ledger, p, "realised") = {} /\ EntriesOf(ledger, p, "adjustment") = {}

(* When reconciliation finds nothing, cash is the capital and what the      *)
(* closed positions made after all their funding (compare).                 *)
CleanMeansTrue ==
    (account.exists /\ \A p \in Positions : ~Disagrees(p)) =>
        account.cash = Worth([p \in Positions |-> IF Closed(p) THEN pos[p] ELSE Unopened])

(* A peak is recorded only when the account was worth it, at that moment:   *)
(* a close or a correction that is stored while the monitor reads is        *)
(* counted once (record_peak locks the account before its snapshot).  Only  *)
(* a booking that failed breaks it.                                         *)
PeakWasReached ==
    [][account.exists /\ behind = {} /\ account'.peak # account.peak => account'.peak = Worth(pos)]_vars

(* A closed position leaves out an hour that has a row only if its close    *)
(* could not read the rows back (settle_rows, update).                      *)
LeftOutWasLost ==
    \A p \in Positions : Closed(p) /\ pos[p].used # rows[p] => p \in lost

(* The account and the engine tell one story of a position (PositionBook):  *)
(* each is booked at its close or with funding that came later, once, and   *)
(* stays booked; a booking that failed with all funding in is not retried.  *)
Promised == INSTANCE PositionBook WITH
    status   <- [p \in Positions |-> IF pos[p].status = "none" THEN "absent" ELSE pos[p].status],
    booked   <- {p \in Positions : IsBooked(ledger, p)},
    awaiting <- {p \in Positions : Closed(p) /\ Missing(pos[p]) # {}}
KeepsBook == Promised!Spec

(* Funding published within a day of the close reaches the position and,    *)
(* unless that booking fails, the ledger, if from then on the pass never    *)
(* has its limit of older positions to visit first (the observer's loop).   *)
LateFundingSettles ==
    \A p \in Positions :
        (Closed(p) /\ p \notin lost /\ Missing(pos[p]) \subseteq published /\ []~Crowded(p))
            ~> (Missing(pos[p]) = {} \/ hour - pos[p].through >= Day)
===============================================================================
