------------------------- MODULE RulebookActivation -------------------------
(***************************************************************************)
(* Which rulebook the paper scorer uses (state-api/app/                    *)
(* rulebook_activation.py, learning_actions.py, learning_job.py,           *)
(* learning_store.py).  The learning job proposes a rulebook built on the  *)
(* active one; an operator adopts or rejects a proposal, or reverts the    *)
(* active rulebook to its parent.  Every change is one PostgreSQL          *)
(* transaction at READ COMMITTED: each statement sees what is committed    *)
(* when it runs, SELECT ... FOR UPDATE waits for a lock and then looks at  *)
(* its row again, and a unique index allows one open activation.           *)
(*                                                                         *)
(* A rulebook is named by the proposal that carries it, 0 being the file.  *)
(***************************************************************************)
EXTENDS Integers, Sequences, FiniteSets

CONSTANTS
  Requests,      \* operator requests that can be open at once
  MaxProposals,  \* bound: proposals stored
  MaxChanges     \* bound: activation rows written

ASSUME BoundsAreNat == {MaxProposals, MaxChanges} \subseteq Nat

File == 0
None == 0       \* no activation row

VARIABLES
  proposals,    \* learning_proposals: parent and status of each
  acts,         \* regime_weight_activations: rulebook, and open or closed
  pass,         \* the learning job's pass, in memory
  tx,           \* the open transactions, one per request
  log           \* history: each committed change, oldest first

vars == <<proposals, acts, pass, tx, log>>

Statuses == {"proposed", "adopted", "rejected", "superseded"}
Books == 0 .. Len(proposals)
Rows == 0 .. Len(acts)
Proposal == [parent: Nat, status: Statuses]
Act == [book: Nat, open: BOOLEAN]
Change == [by: {"adopt", "revert"}, from: Nat, to: Nat, raced: BOOLEAN]
Tx == [kind: {"none", "adopt", "revert"}, at: {"read", "aim", "close", "open"},
       proposal: Nat, row: Nat, raced: BOOLEAN]

NoTx == [kind |-> "none", at |-> "read", proposal |-> 0, row |-> None, raced |-> FALSE]
NoPass == [on |-> FALSE, parent |-> File]

\* The open activation row, or None, and the rulebook it makes active.
OpenRows == {r \in DOMAIN acts : acts[r].open}
OpenRow == IF OpenRows = {} THEN None ELSE CHOOSE r \in OpenRows : TRUE
BookOf(r) == IF r = None THEN File ELSE acts[r].book
Active == BookOf(OpenRow)

Init ==
  /\ proposals = <<>> /\ acts = <<>> /\ log = <<>>
  /\ pass = NoPass
  /\ tx = [q \in Requests |-> NoTx]

\* Row locks: an adoption holds its proposal, and every change the activation
\* row it is closing.
ProposalLocked(p) == \E q \in Requests : tx[q].kind = "adopt" /\ tx[q].proposal = p
RowLocked(r) == \E q \in Requests : tx[q].at = "open" /\ tx[q].row = r /\ r # None

-----------------------------------------------------------------------------
(* The learning job.  One lock admits one pass at a time.                  *)

BeginPass ==
  /\ ~pass.on /\ Len(proposals) < MaxProposals
  /\ pass' = [on |-> TRUE, parent |-> Active]
  /\ UNCHANGED <<proposals, acts, tx, log>>

\* No proposal came of the walk-forward, or the pass failed or was stopped.
EndPass ==
  /\ pass.on
  /\ pass' = NoPass
  /\ UNCHANGED <<proposals, acts, tx, log>>

Superseded ==
  [p \in DOMAIN proposals |->
     IF proposals[p].status = "proposed"
     THEN [proposals[p] EXCEPT !.status = "superseded"] ELSE proposals[p]]

\* The new proposal replaces the open one, once no adoption holds that.
StoreProposal ==
  /\ pass.on
  /\ \A p \in DOMAIN proposals : proposals[p].status = "proposed" => ~ProposalLocked(p)
  /\ proposals' = Append(Superseded, [parent |-> pass.parent, status |-> "proposed"])
  /\ pass' = NoPass
  /\ UNCHANGED <<acts, tx, log>>

-----------------------------------------------------------------------------
(* The operator's requests.                                                *)

Reject(p) ==
  /\ proposals[p].status = "proposed" /\ ~ProposalLocked(p)
  /\ proposals' = [proposals EXCEPT ![p].status = "rejected"]
  /\ UNCHANGED <<acts, pass, tx, log>>

\* The proposal is locked and must still be open.
Adopt(q, p) ==
  /\ tx[q] = NoTx /\ Len(acts) < MaxChanges
  /\ proposals[p].status = "proposed" /\ ~ProposalLocked(p)
  /\ tx' = [tx EXCEPT ![q] = [NoTx EXCEPT !.kind = "adopt", !.proposal = p]]
  /\ UNCHANGED <<proposals, acts, pass, log>>

\* Mutant: the parent is not compared.
ParentUnchecked(q) ==
  /\ tx[q].kind = "adopt" /\ tx[q].at = "read"
  /\ tx' = [tx EXCEPT ![q].at = "aim"]
  /\ UNCHANGED <<proposals, acts, pass, log>>

\* A proposal whose parent is not active is refused.
CheckParent(q) ==
  /\ tx[q].kind = "adopt" /\ tx[q].at = "read"
  /\ tx' = [tx EXCEPT ![q] = IF proposals[@.proposal].parent = Active
                            THEN [@ EXCEPT !.at = "aim"] ELSE NoTx]
  /\ UNCHANGED <<proposals, acts, pass, log>>

Revert(q) ==
  /\ tx[q] = NoTx /\ Len(acts) < MaxChanges
  /\ tx' = [tx EXCEPT ![q] = [NoTx EXCEPT !.kind = "revert", !.at = "aim"]]
  /\ UNCHANGED <<proposals, acts, pass, log>>

\* SELECT the active row FOR UPDATE: the row the statement sees ...
Aim(q) ==
  /\ tx[q].kind # "none" /\ tx[q].at = "aim"
  /\ tx' = [tx EXCEPT ![q].at = "close", ![q].row = OpenRow]
  /\ UNCHANGED <<proposals, acts, pass, log>>

\* ... which it gets once no other transaction holds it, if it is still open.
\* A revert that gets none is refused.
Close(q) ==
  /\ tx[q].at = "close" /\ ~RowLocked(tx[q].row)
  /\ LET row == IF tx[q].row \in OpenRows THEN tx[q].row ELSE None
     IN tx' = [tx EXCEPT ![q] = IF @.kind = "revert" /\ row = None THEN NoTx
                               ELSE [@ EXCEPT !.at = "open", !.row = row]]
  /\ UNCHANGED <<proposals, acts, pass, log>>

\* Mutant: several activations may be open.
AnyOpen(q) == TRUE

\* The unique index: an insert fails while another row stays open, and waits
\* for a transaction that is closing it.
IndexFree(q) == OpenRows \subseteq {tx[q].row}
IndexBusy(q) == \E r \in OpenRows \ {tx[q].row} : RowLocked(r)

ClosedRow(q) ==
  IF tx[q].row = None THEN acts ELSE [acts EXCEPT ![tx[q].row].open = FALSE]

\* Other adoptions in flight may have checked their parent before this change.
Commit(q, kind, to) ==
  /\ log' = Append(log, [by |-> kind, from |-> BookOf(tx[q].row), to |-> to,
                         raced |-> tx[q].raced])
  /\ tx' = [r \in Requests |->
       IF r = q THEN NoTx
       ELSE IF tx[r].kind = "adopt" /\ tx[r].at # "read" /\ kind = "revert"
       THEN [tx[r] EXCEPT !.raced = TRUE] ELSE tx[r]]

\* The adoption opens its rulebook, marks its proposal and commits.
CommitAdopt(q) ==
  /\ tx[q].kind = "adopt" /\ tx[q].at = "open" /\ IndexFree(q)
  /\ acts' = Append(ClosedRow(q), [book |-> tx[q].proposal, open |-> TRUE])
  /\ proposals' = [proposals EXCEPT ![tx[q].proposal].status = "adopted"]
  /\ Commit(q, "adopt", tx[q].proposal)
  /\ UNCHANGED pass

\* Mutant: the activation row before the closed one is taken for its parent.
CommitRevertRow(q) ==
  LET parent == BookOf(tx[q].row - 1)
  IN /\ tx[q].kind = "revert" /\ tx[q].at = "open" /\ IndexFree(q)
     /\ acts' = IF parent = File THEN ClosedRow(q)
                ELSE Append(ClosedRow(q), [book |-> parent, open |-> TRUE])
     /\ Commit(q, "revert", parent)
     /\ UNCHANGED <<proposals, pass>>

\* The revert opens the parent of the rulebook it closed, unless that is the
\* file, and commits.
CommitRevert(q) ==
  LET parent == proposals[BookOf(tx[q].row)].parent
  IN /\ tx[q].kind = "revert" /\ tx[q].at = "open" /\ IndexFree(q)
     /\ acts' = IF parent = File THEN ClosedRow(q)
                ELSE Append(ClosedRow(q), [book |-> parent, open |-> TRUE])
     /\ Commit(q, "revert", parent)
     /\ UNCHANGED <<proposals, pass>>

\* The index refuses the row, the connection is lost, or the process stops.
Rollback(q) ==
  /\ tx[q].kind # "none"
  /\ tx' = [tx EXCEPT ![q] = NoTx]
  /\ UNCHANGED <<proposals, acts, pass, log>>

\* Mutant: a refused insert is tried again.
IndexRetries(q) ==
  /\ tx[q].at = "open" /\ ~IndexFree(q) /\ ~IndexBusy(q)
  /\ UNCHANGED vars

\* An insert the index refuses for good ends its transaction.
IndexRefuses(q) ==
  /\ tx[q].at = "open" /\ ~IndexFree(q) /\ ~IndexBusy(q)
  /\ tx' = [tx EXCEPT ![q] = NoTx]
  /\ UNCHANGED <<proposals, acts, pass, log>>

-----------------------------------------------------------------------------
Step(q) == \/ CheckParent(q) \/ Aim(q) \/ Close(q)
           \/ CommitAdopt(q) \/ CommitRevert(q) \/ IndexRefuses(q)

Next ==
  \/ BeginPass \/ EndPass \/ StoreProposal
  \/ \E p \in DOMAIN proposals : Reject(p)
  \/ \E q \in Requests :
       \/ \E p \in DOMAIN proposals : Adopt(q, p)
       \/ Revert(q) \/ Step(q) \/ Rollback(q)

Spec == Init /\ [][Next]_vars

(* PostgreSQL runs every statement, and hands a lock to its waiters in the *)
(* order they came.                                                        *)
FairSpec == Spec /\ \A q \in Requests : SF_vars(Step(q))

-----------------------------------------------------------------------------
\* Every variable has its type, and no activation row names the file: reverting
\* to it leaves no open row (revert).
TypeOK ==
  /\ proposals \in Seq(Proposal)
  /\ \A p \in DOMAIN proposals : proposals[p].parent \in 0 .. p - 1
  /\ acts \in Seq(Act) /\ \A r \in DOMAIN acts : acts[r].book \in 1 .. Len(proposals)
  /\ pass \in [on: BOOLEAN, parent: Books]
  /\ tx \in [Requests -> Tx]
  /\ \A q \in Requests : /\ tx[q].row \in Rows /\ tx[q].proposal \in Books
                         /\ (tx[q].kind = "adopt" <=> tx[q].proposal # 0)
  /\ log \in Seq(Change)

\* The recorded changes form one chain from the file to the active rulebook:
\* no two changes start from the same state, and none is lost.
ChangesChain ==
  /\ \A k \in DOMAIN log : log[k].from = IF k = 1 THEN File ELSE log[k - 1].to
  /\ Active = IF log = <<>> THEN File ELSE log[Len(log)].to
  /\ Cardinality(OpenRows) <= 1

\* A proposal is adopted over the rulebook its replay compared against, unless
\* a revert committed after the adoption had checked that.
AdoptedOverParent ==
  \A k \in DOMAIN log :
    log[k].by = "adopt" => log[k].from = proposals[log[k].to].parent \/ log[k].raced

\* A revert goes back to the rulebook that was active before the one it closes
\* was adopted, unless that adoption was overtaken by a revert.
RevertUndoesAdoption ==
  \A k \in DOMAIN log : log[k].by = "revert" =>
    \E j \in 1 .. k - 1 :
      /\ log[j].by = "adopt" /\ log[j].to = log[k].from
      /\ log[j].from = log[k].to \/ log[j].raced

\* One decision per proposal: once adopted, rejected or superseded it stays so.
DecidedOnce ==
  [][\A p \in DOMAIN proposals :
       proposals[p].status # "proposed" => proposals'[p].status = proposals[p].status]_vars

\* Whatever the order of their locks, no two requests wait on one another.
RequestsEnd == \A q \in Requests : tx[q].kind # "none" ~> tx[q].kind = "none"
=============================================================================
