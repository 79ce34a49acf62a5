---------------------------- MODULE RulebookProofs ----------------------------
(***************************************************************************)
(* Proofs about RulebookActivation for every set of operator requests and  *)
(* every number of proposals and changes.                                  *)
(***************************************************************************)
EXTENDS RulebookActivation, SequenceTheorems, FiniteSetTheorems, TLAPS

-----------------------------------------------------------------------------
(* Types, in parts, and the locks that keep them: a request about to write  *)
(* an activation holds the row it closes, and no other request holds it; an *)
(* adoption holds its proposal, which is the only open one.                *)

ProposalsTyped ==
  /\ proposals \in Seq(Proposal)
  /\ \A p \in DOMAIN proposals : proposals[p].parent \in 0 .. p - 1
ActsTyped ==
  acts \in Seq(Act) /\ \A r \in DOMAIN acts : acts[r].book \in 1 .. Len(proposals)
PassTyped == pass \in [on: BOOLEAN, parent: Books]
TxTyped ==
  /\ tx \in [Requests -> Tx]
  /\ \A q \in Requests : /\ tx[q].row \in Rows /\ tx[q].proposal \in Books
                         /\ (tx[q].kind = "adopt" <=> tx[q].proposal # 0)
LogTyped == log \in Seq(Change)

RowsHeld ==
  \A q \in Requests : tx[q].at = "open" =>
    /\ tx[q].row # None => tx[q].row \in OpenRows
    /\ tx[q].kind = "revert" => tx[q].row # None
    /\ \A r \in Requests \ {q} :
         tx[r].at = "open" /\ tx[r].row = tx[q].row => tx[q].row = None
OneOpenRow == \A r, s \in OpenRows : r = s
ProposalHeld ==
  /\ \A q \in Requests : tx[q].kind = "adopt" => proposals[tx[q].proposal].status = "proposed"
  /\ \A q, r \in Requests : tx[q].kind = "adopt" /\ tx[r].kind = "adopt" => q = r
  /\ \A p, s \in DOMAIN proposals :
       proposals[p].status = "proposed" /\ proposals[s].status = "proposed" => p = s

Typed == /\ ProposalsTyped /\ ActsTyped /\ PassTyped /\ TxTyped /\ LogTyped
         /\ RowsHeld /\ OneOpenRow /\ ProposalHeld

-----------------------------------------------------------------------------
(* Ranges of what the variables hold.                                      *)

LEMMA Ranges ==
  ASSUME Typed
  PROVE  /\ Len(proposals) \in Nat /\ DOMAIN proposals = 1 .. Len(proposals)
         /\ Len(acts) \in Nat /\ DOMAIN acts = 1 .. Len(acts)
         /\ Len(log) \in Nat /\ DOMAIN log = 1 .. Len(log)
         /\ \A p \in DOMAIN proposals : /\ proposals[p] \in Proposal
                                        /\ proposals[p].parent \in 0 .. p - 1
         /\ \A r \in DOMAIN acts : acts[r] \in Act /\ acts[r].book \in 1 .. Len(proposals)
         /\ \A k \in DOMAIN log : log[k] \in Change
<1>1. proposals \in Seq(Proposal) /\ acts \in Seq(Act) /\ log \in Seq(Change)
  BY DEF Typed, ProposalsTyped, ActsTyped, LogTyped
<1>2. /\ Len(proposals) \in Nat /\ DOMAIN proposals = 1 .. Len(proposals)
      /\ Len(acts) \in Nat /\ DOMAIN acts = 1 .. Len(acts)
      /\ Len(log) \in Nat /\ DOMAIN log = 1 .. Len(log)
  BY <1>1, LenProperties
<1>3. \A p \in DOMAIN proposals : proposals[p] \in Proposal
  BY <1>1, <1>2, ElementOfSeq
<1>4. \A r \in DOMAIN acts : acts[r] \in Act
  BY <1>1, <1>2, ElementOfSeq
<1>5. \A k \in DOMAIN log : log[k] \in Change
  BY <1>1, <1>2, ElementOfSeq
<1> QED  BY <1>2, <1>3, <1>4, <1>5 DEF Typed, ProposalsTyped, ActsTyped

\* With one open row, that row is the active one.
LEMMA ActiveIs ==
  ASSUME Typed
  PROVE  /\ \A r \in OpenRows : OpenRow = r /\ Active = acts[r].book
         /\ OpenRows = {} => OpenRow = None /\ Active = File
         /\ OpenRow \in Rows /\ Active \in Books
<1>1. \A r \in OpenRows : OpenRow = r /\ r \in 1 .. Len(acts)
  BY Ranges DEF OpenRow, OpenRows, Typed, OneOpenRow
<1>2. OpenRows = {} => OpenRow = None
  BY DEF OpenRow
<1>3. \A r \in OpenRows : Active = acts[r].book /\ acts[r].book \in Books
  BY <1>1, Ranges DEF Active, BookOf, None, OpenRows, Books
<1>4. OpenRows = {} => Active = File
  BY <1>2 DEF Active, BookOf
<1> QED  BY <1>1, <1>2, <1>3, <1>4, Ranges DEF Rows, Books, None, File

\* A status is written: the parents and the other proposals are as before.
LEMMA StatusWritten ==
  ASSUME Typed, NEW p \in DOMAIN proposals, NEW s \in Statuses,
         proposals' = [proposals EXCEPT ![p].status = s]
  PROVE  /\ proposals' \in Seq(Proposal) /\ Len(proposals') = Len(proposals)
         /\ DOMAIN proposals' = DOMAIN proposals
         /\ proposals'[p].status = s
         /\ \A o \in DOMAIN proposals : /\ proposals'[o].parent = proposals[o].parent
                                        /\ o # p => proposals'[o] = proposals[o]
<1>1. proposals \in Seq(Proposal) /\ p \in 1 .. Len(proposals) /\ proposals[p] \in Proposal
  BY Ranges DEF Typed, ProposalsTyped
<1> DEFINE new == [proposals[p] EXCEPT !.status = s]
<1>2. new \in Proposal /\ new.status = s /\ new.parent = proposals[p].parent
  BY <1>1 DEF Proposal
<1>3. proposals' = [proposals EXCEPT ![p] = new]
  OBVIOUS
<1> HIDE DEF new
<1>4. proposals' \in Seq(Proposal) /\ Len(proposals') = Len(proposals)
  BY <1>1, <1>2, <1>3, ExceptSeq
<1>5. DOMAIN proposals' = DOMAIN proposals /\ proposals'[p] = new
      /\ \A o \in DOMAIN proposals : o # p => proposals'[o] = proposals[o]
  BY <1>3
<1> QED  BY <1>2, <1>4, <1>5

\* A proposal is stored: the open one is superseded, no parent changes.
LEMMA StoreEffect ==
  ASSUME Typed, StoreProposal
  PROVE  /\ proposals' \in Seq(Proposal) /\ Len(proposals') = Len(proposals) + 1
         /\ DOMAIN proposals' = 1 .. Len(proposals) + 1
         /\ \A p \in DOMAIN proposals :
              /\ proposals'[p].parent = proposals[p].parent
              /\ proposals'[p].status # "proposed"
              /\ proposals[p].status # "proposed" => proposals'[p].status = proposals[p].status
         /\ proposals'[Len(proposals) + 1].parent = pass.parent
<1>1. Superseded \in Seq(Proposal) /\ Len(Superseded) = Len(proposals)
  <2>1. Superseded \in [1 .. Len(proposals) -> Proposal]
    BY Ranges DEF Superseded, Proposal, Statuses
  <2> QED  BY <2>1, Ranges, SeqDef, LenProperties
<1>2. \A p \in DOMAIN proposals :
        /\ Superseded[p].parent = proposals[p].parent
        /\ Superseded[p].status # "proposed"
        /\ proposals[p].status # "proposed" => Superseded[p].status = proposals[p].status
  BY Ranges DEF Superseded, Proposal
<1> DEFINE new == [parent |-> pass.parent, status |-> "proposed"]
<1>3. new \in Proposal /\ proposals' = Append(Superseded, new) /\ new.parent = pass.parent
  BY Ranges DEF StoreProposal, Typed, PassTyped, Books, Proposal, Statuses
<1> HIDE DEF new
<1>4. /\ proposals' \in Seq(Proposal) /\ Len(proposals') = Len(proposals) + 1
      /\ \A p \in 1 .. Len(proposals) : proposals'[p] = Superseded[p]
      /\ proposals'[Len(proposals) + 1] = new
  BY <1>1, <1>3, AppendProperties
<1>5. DOMAIN proposals' = 1 .. Len(proposals) + 1
  BY <1>4, LenProperties
<1> QED  BY <1>2, <1>3, <1>4, <1>5, Ranges

\* One request's transaction is written.
LEMMA TxWritten ==
  ASSUME Typed, NEW q \in Requests, NEW t, tx' = [tx EXCEPT ![q] = t]
  PROVE  tx'[q] = t /\ \A r \in Requests \ {q} : tx'[r] = tx[r]
BY DEF Typed, TxTyped

\* Steps that leave the tables and the log alone.
LEMMA TxStep ==
  ASSUME Typed, NEW q \in Requests, NEW t \in Tx, tx' = [tx EXCEPT ![q] = t],
         proposals' = proposals, acts' = acts, pass' = pass, log' = log,
         t.row \in Rows, t.proposal \in Books, t.kind = "adopt" <=> t.proposal # 0,
         t.kind = "adopt" =>
           /\ proposals[t.proposal].status = "proposed"
           /\ \A r \in Requests \ {q} : tx[r].kind # "adopt",
         t.at = "open" =>
           /\ t.row # None => t.row \in OpenRows
           /\ t.kind = "revert" => t.row # None
           /\ \A r \in Requests \ {q} : tx[r].at = "open" /\ tx[r].row = t.row => t.row = None
  PROVE  Typed'
<1>1. tx'[q] = t /\ \A r \in Requests \ {q} : tx'[r] = tx[r]
  BY TxWritten
<1>2. ProposalsTyped' /\ ActsTyped' /\ PassTyped' /\ LogTyped'
  BY DEF Typed, ProposalsTyped, ActsTyped, PassTyped, LogTyped, Books
<1>3. TxTyped'
  BY <1>1 DEF Typed, TxTyped, Rows, Books
<1>4. RowsHeld'
  BY <1>1 DEF Typed, RowsHeld, OpenRows
<1>5. OneOpenRow'
  BY DEF Typed, OneOpenRow, OpenRows
<1>6. ProposalHeld'
  BY <1>1 DEF Typed, ProposalHeld
<1> QED  BY <1>2, <1>3, <1>4, <1>5, <1>6 DEF Typed

LEMMA Nothing == NoTx \in Tx /\ NoTx.kind = "none" /\ NoTx.at = "read" /\ NoTx.row = 0
                 /\ NoTx.proposal = 0
BY DEF NoTx, Tx, None

LEMMA EndTx ==
  ASSUME Typed, NEW q \in Requests, tx' = [tx EXCEPT ![q] = NoTx],
         proposals' = proposals, acts' = acts, pass' = pass, log' = log
  PROVE  Typed'
<1>1. 0 \in Rows /\ 0 \in Books
  BY Ranges DEF Rows, Books
<1> QED  BY <1>1, Nothing, TxStep

LEMMA AdoptTyped ==
  ASSUME Typed, NEW q \in Requests, NEW p \in DOMAIN proposals, Adopt(q, p)
  PROVE  Typed'
<1> DEFINE t == [NoTx EXCEPT !.kind = "adopt", !.proposal = p]
<1>1. p \in Nat /\ p # 0 /\ p \in Books /\ 0 \in Rows
  BY Ranges DEF Books, Rows
<1>2. t \in Tx /\ t.row = 0 /\ t.proposal = p /\ t.kind = "adopt" /\ t.at = "read"
  BY <1>1 DEF NoTx, Tx, None
<1>3. /\ proposals[p].status = "proposed" /\ tx' = [tx EXCEPT ![q] = t]
      /\ proposals' = proposals /\ acts' = acts /\ pass' = pass /\ log' = log
  BY DEF Adopt
<1>4. \A r \in Requests : tx[r].kind # "adopt"
  <2>1. ASSUME NEW r \in Requests, tx[r].kind = "adopt" PROVE FALSE
    <3>1. tx[r].proposal \in DOMAIN proposals /\ proposals[tx[r].proposal].status = "proposed"
      BY <2>1, Ranges DEF Typed, TxTyped, ProposalHeld, Books
    <3>2. tx[r].proposal = p
      BY <1>3, <3>1 DEF Typed, ProposalHeld
    <3> QED  BY <2>1, <3>2 DEF Adopt, ProposalLocked
  <2> QED  BY <2>1
<1> HIDE DEF t
<1> QED  BY <1>1, <1>2, <1>3, <1>4, TxStep

LEMMA CheckParentTyped ==
  ASSUME Typed, NEW q \in Requests, CheckParent(q) PROVE Typed'
<1>1. CASE tx' = [tx EXCEPT ![q] = NoTx]
  BY <1>1, EndTx DEF CheckParent
<1>2. CASE tx' = [tx EXCEPT ![q] = [tx[q] EXCEPT !.at = "aim"]]
  <2> DEFINE t == [tx[q] EXCEPT !.at = "aim"]
  <2>1. /\ t \in Tx /\ t.row = tx[q].row /\ t.proposal = tx[q].proposal
        /\ t.kind = tx[q].kind /\ t.at = "aim"
    BY DEF Typed, TxTyped, Tx
  <2>2. /\ tx[q].row \in Rows /\ tx[q].proposal \in Books
        /\ (tx[q].kind = "adopt" <=> tx[q].proposal # 0)
        /\ tx[q].kind = "adopt" =>
             /\ proposals[tx[q].proposal].status = "proposed"
             /\ \A r \in Requests \ {q} : tx[r].kind # "adopt"
    BY DEF Typed, TxTyped, ProposalHeld
  <2>3. proposals' = proposals /\ acts' = acts /\ pass' = pass /\ log' = log
    BY DEF CheckParent
  <2>4. tx' = [tx EXCEPT ![q] = t]
    BY <1>2
  <2> HIDE DEF t
  <2> QED  BY <2>1, <2>2, <2>3, <2>4, TxStep
<1>3. \/ tx' = [tx EXCEPT ![q] = NoTx]
      \/ tx' = [tx EXCEPT ![q] = [tx[q] EXCEPT !.at = "aim"]]
  BY DEF CheckParent
<1> QED  BY <1>1, <1>2, <1>3

LEMMA RevertTyped ==
  ASSUME Typed, NEW q \in Requests, Revert(q) PROVE Typed'
<1> DEFINE t == [NoTx EXCEPT !.kind = "revert", !.at = "aim"]
<1>1. t \in Tx /\ t.row = 0 /\ t.proposal = 0 /\ t.kind = "revert" /\ t.at = "aim"
  BY DEF NoTx, Tx, None
<1>2. 0 \in Rows /\ 0 \in Books
  BY Ranges DEF Rows, Books
<1>3. /\ tx' = [tx EXCEPT ![q] = t]
      /\ proposals' = proposals /\ acts' = acts /\ pass' = pass /\ log' = log
  BY DEF Revert
<1> HIDE DEF t
<1> QED  BY <1>1, <1>2, <1>3, TxStep

LEMMA AimTyped ==
  ASSUME Typed, NEW q \in Requests, Aim(q) PROVE Typed'
<1> DEFINE t == [tx[q] EXCEPT !.at = "close", !.row = OpenRow]
<1>1. OpenRow \in Rows /\ OpenRow \in Nat
  BY ActiveIs, Ranges DEF Rows
<1>2. /\ t \in Tx /\ t.row = OpenRow /\ t.proposal = tx[q].proposal
      /\ t.kind = tx[q].kind /\ t.at = "close"
  BY <1>1 DEF Typed, TxTyped, Tx
<1>3. /\ tx[q].proposal \in Books
      /\ (tx[q].kind = "adopt" <=> tx[q].proposal # 0)
      /\ tx[q].kind = "adopt" =>
           /\ proposals[tx[q].proposal].status = "proposed"
           /\ \A r \in Requests \ {q} : tx[r].kind # "adopt"
  BY DEF Typed, TxTyped, ProposalHeld
<1>4. proposals' = proposals /\ acts' = acts /\ pass' = pass /\ log' = log
  BY DEF Aim
<1>5. tx' = [tx EXCEPT ![q] = t]
  BY DEF Aim
<1> HIDE DEF t
<1> QED  BY <1>1, <1>2, <1>3, <1>4, <1>5, TxStep

LEMMA CloseTyped ==
  ASSUME Typed, NEW q \in Requests, Close(q) PROVE Typed'
<1>0. PICK row : row = IF tx[q].row \in OpenRows THEN tx[q].row ELSE None
  OBVIOUS
<1>1. proposals' = proposals /\ acts' = acts /\ pass' = pass /\ log' = log
  BY DEF Close
<1>2. CASE tx' = [tx EXCEPT ![q] = NoTx]
  BY <1>1, <1>2, EndTx
<1>3. CASE /\ tx' = [tx EXCEPT ![q] = [tx[q] EXCEPT !.at = "open", !.row = row]]
           /\ ~(tx[q].kind = "revert" /\ row = None)
  <2> DEFINE t == [tx[q] EXCEPT !.at = "open", !.row = row]
  <2>1. row \in Rows /\ row \in Nat /\ (row # None => row \in OpenRows /\ row = tx[q].row)
    BY <1>0, Ranges DEF Rows, None, Typed, TxTyped
  <2>2. /\ t \in Tx /\ t.row = row /\ t.proposal = tx[q].proposal
        /\ t.kind = tx[q].kind /\ t.at = "open"
    BY <2>1 DEF Typed, TxTyped, Tx
  <2>3. /\ tx[q].proposal \in Books
        /\ (tx[q].kind = "adopt" <=> tx[q].proposal # 0)
        /\ tx[q].kind = "adopt" =>
             /\ proposals[tx[q].proposal].status = "proposed"
             /\ \A r \in Requests \ {q} : tx[r].kind # "adopt"
    BY DEF Typed, TxTyped, ProposalHeld
  <2>4. \A r \in Requests \ {q} : tx[r].at = "open" /\ tx[r].row = row => row = None
    BY <2>1 DEF Close, RowLocked
  <2>5. tx' = [tx EXCEPT ![q] = t]
    BY <1>3
  <2> HIDE DEF t
  <2>6. /\ t.row # None => t.row \in OpenRows
        /\ t.kind = "revert" => t.row # None
        /\ \A r \in Requests \ {q} : tx[r].at = "open" /\ tx[r].row = t.row => t.row = None
    BY <1>3, <2>1, <2>2, <2>4
  <2>7. /\ t.row \in Rows /\ t.proposal \in Books /\ (t.kind = "adopt" <=> t.proposal # 0)
        /\ t.kind = "adopt" =>
             /\ proposals[t.proposal].status = "proposed"
             /\ \A r \in Requests \ {q} : tx[r].kind # "adopt"
    BY <2>1, <2>2, <2>3
  <2> QED  BY <1>1, <2>2, <2>5, <2>6, <2>7, TxStep
<1> QED  BY <1>0, <1>2, <1>3 DEF Close

-----------------------------------------------------------------------------
(* A commit closes the row its request holds, which is the active one, and  *)
(* opens the new rulebook unless that is the file.                         *)

Opened(q, to) == IF to = File THEN ClosedRow(q)
                 ELSE Append(ClosedRow(q), [book |-> to, open |-> TRUE])

LEMMA ClosedEffect ==
  ASSUME Typed, NEW q \in Requests, tx[q].at = "open", IndexFree(q)
  PROVE  /\ ClosedRow(q) \in Seq(Act) /\ Len(ClosedRow(q)) = Len(acts)
         /\ \A r \in DOMAIN acts : /\ ClosedRow(q)[r].book = acts[r].book
                                   /\ ~ClosedRow(q)[r].open
         /\ BookOf(tx[q].row) = Active
<1>1. OpenRows \subseteq {tx[q].row} /\ (tx[q].row # None => tx[q].row \in OpenRows)
  BY DEF IndexFree, Typed, RowsHeld
<1>2. acts \in Seq(Act) /\ Len(acts) \in Nat /\ DOMAIN acts = 1 .. Len(acts)
  BY Ranges DEF Typed, ActsTyped
<1>3. CASE tx[q].row = None
  <2>1. OpenRows = {} /\ ClosedRow(q) = acts
    BY <1>1, <1>3, Ranges DEF OpenRows, None, ClosedRow
  <2>2. \A r \in DOMAIN acts : acts[r].open = FALSE
    BY <2>1, Ranges DEF OpenRows, Act
  <2>3. BookOf(tx[q].row) = Active
    BY <1>3, <2>1, ActiveIs DEF BookOf
  <2> QED  BY <1>2, <2>1, <2>2, <2>3
<1>4. CASE tx[q].row # None
  <2> DEFINE r0 == tx[q].row
             new == [acts[r0] EXCEPT !.open = FALSE]
  <2>1. r0 \in OpenRows /\ r0 \in 1 .. Len(acts) /\ acts[r0] \in Act
    BY <1>1, <1>2, <1>4, Ranges DEF OpenRows
  <2>2. new \in Act /\ new.book = acts[r0].book /\ ~new.open
    BY <2>1 DEF Act
  <2>3. ClosedRow(q) = [acts EXCEPT ![r0] = new]
    BY <1>4 DEF ClosedRow
  <2>4. Active = acts[r0].book /\ BookOf(r0) = acts[r0].book
    BY <1>4, <2>1, ActiveIs DEF BookOf
  <2>5. \A r \in DOMAIN acts : r # r0 => ~acts[r].open
    BY <1>1 DEF OpenRows
  <2> HIDE DEF new, r0
  <2>6. ClosedRow(q) \in Seq(Act) /\ Len(ClosedRow(q)) = Len(acts)
    BY <1>2, <2>1, <2>2, <2>3, ExceptSeq
  <2>7. /\ ClosedRow(q)[r0] = new
        /\ \A r \in DOMAIN acts : r # r0 => ClosedRow(q)[r] = acts[r]
    BY <1>2, <2>1, <2>3
  <2>8. \A r \in DOMAIN acts : ClosedRow(q)[r].book = acts[r].book /\ ~ClosedRow(q)[r].open
    BY <2>2, <2>5, <2>7
  <2> QED  BY <2>4, <2>6, <2>8 DEF r0
<1> QED  BY <1>3, <1>4

LEMMA OpenedEffect ==
  ASSUME Typed, NEW q \in Requests, tx[q].at = "open", IndexFree(q),
         NEW to \in Books, acts' = Opened(q, to)
  PROVE  /\ acts' \in Seq(Act) /\ Len(acts') \in Nat /\ Len(acts') >= Len(acts)
         /\ DOMAIN acts' = 1 .. Len(acts')
         /\ \A r \in DOMAIN acts : acts'[r].book = acts[r].book /\ ~acts'[r].open
         /\ to = File => DOMAIN acts' = DOMAIN acts
         /\ to # File => /\ DOMAIN acts' = 1 .. Len(acts) + 1
                         /\ acts'[Len(acts) + 1].book = to /\ acts'[Len(acts) + 1].open
         /\ Active' = to
         /\ OneOpenRow'
<1>1. /\ ClosedRow(q) \in Seq(Act) /\ Len(ClosedRow(q)) = Len(acts)
      /\ \A r \in DOMAIN acts : /\ ClosedRow(q)[r].book = acts[r].book
                                /\ ~ClosedRow(q)[r].open
  BY ClosedEffect
<1>2. Len(acts) \in Nat /\ DOMAIN acts = 1 .. Len(acts)
  BY Ranges
<1>3. CASE to = File
  <2>1. acts' = ClosedRow(q)
    BY <1>3 DEF Opened
  <2>2. DOMAIN acts' = 1 .. Len(acts)
    BY <1>1, <2>1, LenProperties
  <2>3. OpenRows' = {}
    BY <1>1, <1>2, <2>1, <2>2 DEF OpenRows
  <2>4. Active' = File /\ OneOpenRow'
    BY <2>3 DEF Active, OpenRow, BookOf, OneOpenRow
  <2> QED  BY <1>1, <1>2, <1>3, <2>1, <2>2, <2>4
<1>4. CASE to # File
  <2> DEFINE new == [book |-> to, open |-> TRUE]
             n == Len(acts) + 1
  <2>1. new \in Act /\ new.book = to /\ new.open /\ acts' = Append(ClosedRow(q), new)
    BY <1>4, Ranges DEF Act, Opened, Books
  <2> HIDE DEF new
  <2>2. /\ acts' \in Seq(Act) /\ Len(acts') = n
        /\ \A r \in 1 .. Len(acts) : acts'[r] = ClosedRow(q)[r]
        /\ acts'[n] = new
    BY <1>1, <2>1, AppendProperties
  <2>3. DOMAIN acts' = 1 .. n /\ n \in Nat /\ n # 0
    BY <1>2, <2>2, LenProperties
  <2>4. OpenRows' = {n}
    BY <1>1, <1>2, <2>1, <2>2, <2>3 DEF OpenRows
  <2>5. OpenRow' = n
    BY <2>4 DEF OpenRow
  <2>6. Active' = to /\ OneOpenRow'
    BY <2>1, <2>2, <2>3, <2>4, <2>5 DEF Active, BookOf, OneOpenRow, None
  <2> QED  BY <1>1, <1>2, <1>4, <2>1, <2>2, <2>3, <2>6
<1> QED  BY <1>3, <1>4

LEMMA CommitEffect ==
  ASSUME Typed, NEW q \in Requests, NEW kind \in {"adopt", "revert"}, NEW to \in Books,
         tx[q].at = "open", IndexFree(q), Commit(q, kind, to)
  PROVE  /\ log' \in Seq(Change) /\ Len(log') = Len(log) + 1 /\ DOMAIN log' = 1 .. Len(log) + 1
         /\ \A k \in DOMAIN log : log'[k] = log[k]
         /\ log'[Len(log) + 1].by = kind /\ log'[Len(log) + 1].from = Active
         /\ log'[Len(log) + 1].to = to /\ log'[Len(log) + 1].raced = tx[q].raced
         /\ tx' \in [Requests -> Tx] /\ tx'[q] = NoTx
         /\ \A r \in Requests \ {q} :
              /\ tx'[r].kind = tx[r].kind /\ tx'[r].at = tx[r].at /\ tx'[r].row = tx[r].row
              /\ tx'[r].proposal = tx[r].proposal
              /\ tx'[r].raced = (tx[r].raced \/ (tx[r].kind = "adopt" /\ tx[r].at # "read" /\ kind = "revert"))
<1> DEFINE new == [by |-> kind, from |-> BookOf(tx[q].row), to |-> to, raced |-> tx[q].raced]
<1>1. BookOf(tx[q].row) = Active /\ Active \in Nat /\ to \in Nat
  BY ClosedEffect, ActiveIs, Ranges DEF Books
<1>2. new \in Change /\ log' = Append(log, new) /\ log \in Seq(Change)
  BY <1>1 DEF Commit, Change, Typed, LogTyped, TxTyped, Tx
<1>3. new.by = kind /\ new.from = Active /\ new.to = to /\ new.raced = tx[q].raced
  BY <1>1
<1> HIDE DEF new
<1>4. /\ log' \in Seq(Change) /\ Len(log') = Len(log) + 1
      /\ \A k \in 1 .. Len(log) : log'[k] = log[k]
      /\ log'[Len(log) + 1] = new
  BY <1>2, AppendProperties
<1>5. DOMAIN log' = 1 .. Len(log) + 1
  BY <1>4, LenProperties
<1>6. \A r \in Requests : tx[r] \in Tx
  BY DEF Typed, TxTyped
<1>7. tx' \in [Requests -> Tx] /\ tx'[q] = NoTx
  BY <1>6, Nothing DEF Commit, Tx
<1>8. ASSUME NEW r \in Requests \ {q}
      PROVE  /\ tx'[r].kind = tx[r].kind /\ tx'[r].at = tx[r].at /\ tx'[r].row = tx[r].row
             /\ tx'[r].proposal = tx[r].proposal
             /\ tx'[r].raced = (tx[r].raced \/ (tx[r].kind = "adopt" /\ tx[r].at # "read" /\ kind = "revert"))
  <2>1. CASE tx[r].kind = "adopt" /\ tx[r].at # "read" /\ kind = "revert"
    <3>1. tx'[r] = [tx[r] EXCEPT !.raced = TRUE]
      BY <2>1 DEF Commit
    <3> QED  BY <1>6, <2>1, <3>1 DEF Tx
  <2>2. CASE ~(tx[r].kind = "adopt" /\ tx[r].at # "read" /\ kind = "revert")
    <3>1. tx'[r] = tx[r] /\ tx[r].raced \in BOOLEAN
      BY <1>6, <2>2 DEF Commit, Tx
    <3> QED  BY <2>2, <3>1
  <2> QED  BY <2>1, <2>2
<1> QED  BY <1>3, <1>4, <1>5, <1>7, <1>8, Ranges

\* A commit keeps the types and the locks of the others.
LEMMA CommitTyped ==
  ASSUME Typed, NEW q \in Requests, NEW kind \in {"adopt", "revert"}, NEW to \in Books,
         tx[q].at = "open", IndexFree(q), Commit(q, kind, to), acts' = Opened(q, to),
         pass' = pass, Len(proposals') = Len(proposals), ProposalsTyped', ProposalHeld'
  PROVE  Typed'
<1>1. /\ acts' \in Seq(Act) /\ Len(acts') \in Nat /\ Len(acts') >= Len(acts)
      /\ DOMAIN acts' = 1 .. Len(acts')
      /\ \A r \in DOMAIN acts : acts'[r].book = acts[r].book /\ ~acts'[r].open
      /\ to = File => DOMAIN acts' = DOMAIN acts
      /\ to # File => /\ DOMAIN acts' = 1 .. Len(acts) + 1
                      /\ acts'[Len(acts) + 1].book = to /\ acts'[Len(acts) + 1].open
      /\ OneOpenRow'
  BY OpenedEffect
<1>2. Books' = Books /\ Rows \subseteq Rows' /\ 0 \in Rows'
  <2>1. Len(acts) \in Nat
    BY Ranges
  <2>2. Len(acts') \in Nat /\ Len(acts') >= Len(acts)
    BY <1>1
  <2>3. Rows \subseteq Rows' /\ 0 \in Rows'
    BY <2>1, <2>2 DEF Rows
  <2> QED  BY <2>3 DEF Books
<1>3. ActsTyped'
  <2>1. \A r \in DOMAIN acts : acts'[r].book \in 1 .. Len(proposals)
    BY <1>1, Ranges
  <2>2. to # File => to \in 1 .. Len(proposals)
    BY Ranges DEF Books, File
  <2>3. \A r \in DOMAIN acts' : acts'[r].book \in 1 .. Len(proposals)
    <3>1. CASE to = File
      BY <1>1, <2>1, <3>1
    <3>2. CASE to # File
      <4>0. Len(acts) \in Nat /\ DOMAIN acts = 1 .. Len(acts) /\ DOMAIN acts' = 1 .. Len(acts) + 1
        BY <1>1, <3>2, Ranges
      <4>1. \A r \in DOMAIN acts' : r \in DOMAIN acts \/ r = Len(acts) + 1
        BY <4>0
      <4> QED  BY <1>1, <2>1, <2>2, <3>2, <4>1
    <3> QED  BY <3>1, <3>2
  <2> QED  BY <1>1, <2>3 DEF ActsTyped
<1>4. PassTyped' /\ LogTyped'
  BY <1>2, CommitEffect DEF Typed, PassTyped, LogTyped
<1>5. /\ tx' \in [Requests -> Tx] /\ tx'[q] = NoTx
      /\ \A r \in Requests \ {q} :
           /\ tx'[r].kind = tx[r].kind /\ tx'[r].at = tx[r].at /\ tx'[r].row = tx[r].row
           /\ tx'[r].proposal = tx[r].proposal
  BY CommitEffect
<1>6. TxTyped'
  <2>1. \A r \in Requests : /\ tx'[r].row \in Rows' /\ tx'[r].proposal \in Books'
                            /\ (tx'[r].kind = "adopt" <=> tx'[r].proposal # 0)
    <3>1. ASSUME NEW r \in Requests \ {q}
          PROVE  /\ tx'[r].row \in Rows' /\ tx'[r].proposal \in Books'
                 /\ (tx'[r].kind = "adopt" <=> tx'[r].proposal # 0)
      BY <1>2, <1>5 DEF Typed, TxTyped
    <3>2. 0 \in Books
      BY Ranges DEF Books
    <3> QED  BY <1>2, <1>5, <3>1, <3>2, Nothing
  <2> QED  BY <1>5, <2>1 DEF TxTyped
<1>7. RowsHeld'
  <2> SUFFICES ASSUME NEW r \in Requests, tx'[r].at = "open"
      PROVE /\ tx'[r].row # None => tx'[r].row \in OpenRows'
            /\ tx'[r].kind = "revert" => tx'[r].row # None
            /\ \A s \in Requests \ {r} :
                 tx'[s].at = "open" /\ tx'[s].row = tx'[r].row => tx'[r].row = None
    BY DEF RowsHeld
  <2>1. r # q /\ tx[r].at = "open" /\ tx'[r].row = tx[r].row /\ tx'[r].kind = tx[r].kind
    BY <1>5, Nothing
  <2>2. tx[r].row = None
    <3>1. tx[r].row # None => tx[r].row \in OpenRows
      BY <2>1 DEF Typed, RowsHeld
    <3>2. OpenRows \subseteq {tx[q].row}
      BY DEF IndexFree
    <3>3. tx[r].row = tx[q].row => tx[r].row = None
      BY <2>1 DEF Typed, RowsHeld
    <3> QED  BY <3>1, <3>2, <3>3
  <2>3. tx[r].kind # "revert"
    BY <2>1, <2>2 DEF Typed, RowsHeld
  <2> QED  BY <2>1, <2>2, <2>3
<1> QED  BY <1>1, <1>3, <1>4, <1>6, <1>7 DEF Typed

\* The commits are commits of the rulebooks they name.
LEMMA AdoptCommits ==
  ASSUME Typed, NEW q \in Requests, CommitAdopt(q)
  PROVE  /\ tx[q].proposal \in Books /\ tx[q].proposal # File
         /\ tx[q].proposal \in DOMAIN proposals
         /\ tx[q].at = "open" /\ IndexFree(q) /\ Commit(q, "adopt", tx[q].proposal)
         /\ acts' = Opened(q, tx[q].proposal) /\ pass' = pass
         /\ proposals[tx[q].proposal].status = "proposed"
         /\ proposals' = [proposals EXCEPT ![tx[q].proposal].status = "adopted"]
<1>1. tx[q].kind = "adopt" /\ tx[q].proposal \in Books /\ tx[q].proposal # 0
  BY DEF CommitAdopt, Typed, TxTyped
<1>2. tx[q].proposal \in DOMAIN proposals
  BY <1>1, Ranges DEF Books
<1>3. proposals[tx[q].proposal].status = "proposed"
  BY <1>1 DEF Typed, ProposalHeld
<1> QED  BY <1>1, <1>2, <1>3 DEF CommitAdopt, Opened, File

LEMMA RevertCommits ==
  ASSUME Typed, NEW q \in Requests, CommitRevert(q)
  PROVE  /\ Active \in DOMAIN proposals
         /\ proposals[Active].parent \in Books
         /\ tx[q].at = "open" /\ IndexFree(q) /\ Commit(q, "revert", proposals[Active].parent)
         /\ acts' = Opened(q, proposals[Active].parent) /\ pass' = pass
         /\ proposals' = proposals
<1>1. tx[q].kind = "revert" /\ tx[q].at = "open" /\ IndexFree(q)
  BY DEF CommitRevert
<1>2. BookOf(tx[q].row) = Active
  BY <1>1, ClosedEffect
<1>3. tx[q].row \in OpenRows
  BY <1>1 DEF Typed, RowsHeld
<1>4. Active \in DOMAIN proposals
  <2>1. Active = acts[tx[q].row].book /\ tx[q].row \in DOMAIN acts
    BY <1>3, ActiveIs DEF OpenRows
  <2> QED  BY <2>1, Ranges
<1>5. proposals[Active].parent \in Books
  <2>1. Active \in 1 .. Len(proposals) /\ proposals[Active].parent \in 0 .. Active - 1
    BY <1>4, Ranges
  <2>2. Len(proposals) \in Nat
    BY Ranges
  <2> QED  BY <2>1, <2>2 DEF Books
<1> QED  BY <1>1, <1>2, <1>4, <1>5 DEF CommitRevert, Opened

LEMMA CommitsTyped ==
  ASSUME Typed, NEW q \in Requests, CommitAdopt(q) \/ CommitRevert(q) PROVE Typed'
<1>1. CASE CommitAdopt(q)
  <2>1. /\ proposals' \in Seq(Proposal) /\ Len(proposals') = Len(proposals)
        /\ DOMAIN proposals' = DOMAIN proposals
        /\ proposals'[tx[q].proposal].status = "adopted"
        /\ \A o \in DOMAIN proposals : /\ proposals'[o].parent = proposals[o].parent
                                       /\ o # tx[q].proposal => proposals'[o] = proposals[o]
    <3>1. "adopted" \in Statuses
      BY DEF Statuses
    <3>2. /\ tx[q].proposal \in DOMAIN proposals
          /\ proposals' = [proposals EXCEPT ![tx[q].proposal].status = "adopted"]
      BY <1>1, AdoptCommits
    <3> QED  BY <3>1, <3>2, StatusWritten
  <2>2. ProposalsTyped'
    BY <2>1 DEF Typed, ProposalsTyped
  <2>3. /\ tx'[q].kind = "none" /\ \A r \in Requests \ {q} : tx'[r].kind = tx[r].kind
    BY <1>1, AdoptCommits, CommitEffect, Nothing
  <2>4. \A r \in Requests : tx'[r].kind # "adopt"
    BY <1>1, <2>3 DEF Typed, ProposalHeld, CommitAdopt
  <2>5. ProposalHeld'
    BY <2>1, <2>4 DEF Typed, ProposalHeld
  <2> QED  BY <1>1, <2>1, <2>2, <2>5, AdoptCommits, CommitTyped
<1>2. CASE CommitRevert(q)
  <2>1. ProposalsTyped' /\ Len(proposals') = Len(proposals)
    BY <1>2, RevertCommits DEF Typed, ProposalsTyped
  <2>2. /\ tx'[q].kind = "none"
        /\ \A r \in Requests \ {q} : tx'[r].kind = tx[r].kind /\ tx'[r].proposal = tx[r].proposal
    BY <1>2, RevertCommits, CommitEffect, Nothing
  <2>3. ProposalHeld'
    BY <1>2, <2>2, RevertCommits DEF Typed, ProposalHeld
  <2> QED  BY <1>2, <2>1, <2>3, RevertCommits, CommitTyped
<1> QED  BY <1>1, <1>2

\* The learning job and the rejections.
LEMMA StoreTyped ==
  ASSUME Typed, StoreProposal PROVE Typed'
<1>1. /\ proposals' \in Seq(Proposal) /\ Len(proposals') = Len(proposals) + 1
      /\ DOMAIN proposals' = 1 .. Len(proposals) + 1
      /\ \A p \in DOMAIN proposals :
           /\ proposals'[p].parent = proposals[p].parent
           /\ proposals'[p].status # "proposed"
      /\ proposals'[Len(proposals) + 1].parent = pass.parent
  BY StoreEffect
<1>2. acts' = acts /\ tx' = tx /\ log' = log /\ pass' = NoPass
  BY DEF StoreProposal
<1>3. /\ Len(proposals) \in Nat /\ DOMAIN proposals = 1 .. Len(proposals)
      /\ \A p \in DOMAIN proposals' : p \in DOMAIN proposals \/ p = Len(proposals) + 1
  BY <1>1, Ranges
<1>4. ProposalsTyped'
  <2>1. proposals'[Len(proposals) + 1].parent \in 0 .. Len(proposals) + 1 - 1
    BY <1>1, <1>3 DEF Typed, PassTyped, Books
  <2>2. \A p \in DOMAIN proposals : proposals'[p].parent \in 0 .. p - 1
    BY <1>1, Ranges
  <2> QED  BY <1>1, <1>3, <2>1, <2>2 DEF ProposalsTyped
<1>5. Books \subseteq Books' /\ 0 \in Books'
  BY <1>1, <1>3 DEF Books
<1>6. ActsTyped'
  BY <1>1, <1>2, <1>3 DEF Typed, ActsTyped
<1>7. PassTyped' /\ LogTyped'
  BY <1>2, <1>5 DEF PassTyped, LogTyped, NoPass, File, Typed
<1>8. TxTyped' /\ RowsHeld' /\ OneOpenRow'
  BY <1>2, <1>5 DEF Typed, TxTyped, RowsHeld, OneOpenRow, OpenRows, Rows
<1>9. ProposalHeld'
  <2>1. \A q \in Requests : tx[q].kind # "adopt"
    <3>1. ASSUME NEW q \in Requests, tx[q].kind = "adopt" PROVE FALSE
      <4>1. tx[q].proposal \in DOMAIN proposals /\ proposals[tx[q].proposal].status = "proposed"
        BY <1>3, <3>1 DEF Typed, TxTyped, ProposalHeld, Books
      <4> QED  BY <3>1, <4>1 DEF StoreProposal, ProposalLocked
    <3> QED  BY <3>1
  <2>2. \A p \in DOMAIN proposals' : proposals'[p].status = "proposed" => p = Len(proposals) + 1
    BY <1>1, <1>3
  <2> QED  BY <1>2, <2>1, <2>2 DEF ProposalHeld
<1> QED  BY <1>4, <1>6, <1>7, <1>8, <1>9 DEF Typed

LEMMA RejectTyped ==
  ASSUME Typed, NEW p \in DOMAIN proposals, Reject(p) PROVE Typed'
<1>1. /\ proposals' \in Seq(Proposal) /\ Len(proposals') = Len(proposals)
      /\ DOMAIN proposals' = DOMAIN proposals
      /\ proposals'[p].status = "rejected"
      /\ \A o \in DOMAIN proposals : /\ proposals'[o].parent = proposals[o].parent
                                     /\ o # p => proposals'[o] = proposals[o]
  <2>1. "rejected" \in Statuses
    BY DEF Statuses
  <2> QED  BY <2>1, StatusWritten DEF Reject
<1>2. acts' = acts /\ tx' = tx /\ log' = log /\ pass' = pass
  BY DEF Reject
<1>3. ProposalsTyped' /\ Books' = Books
  BY <1>1 DEF Typed, ProposalsTyped, Books
<1>4. ActsTyped'
  BY <1>1, <1>2 DEF Typed, ActsTyped
<1>5. PassTyped' /\ LogTyped' /\ TxTyped' /\ RowsHeld' /\ OneOpenRow'
  BY <1>2, <1>3 DEF Typed, PassTyped, LogTyped, TxTyped, RowsHeld, OneOpenRow, OpenRows, Rows
<1>6. ProposalHeld'
  <2>1. \A q \in Requests : tx[q].kind = "adopt" => tx[q].proposal # p
    BY DEF Reject, ProposalLocked
  <2>2. \A q \in Requests : tx[q].kind = "adopt" => tx[q].proposal \in DOMAIN proposals
    BY Ranges DEF Typed, TxTyped, Books
  <2> QED  BY <1>1, <1>2, <2>1, <2>2 DEF Typed, ProposalHeld
<1> QED  BY <1>3, <1>4, <1>5, <1>6 DEF Typed

LEMMA PassesTyped ==
  ASSUME Typed, proposals' = proposals, acts' = acts, tx' = tx, log' = log,
         pass' \in [on: BOOLEAN, parent: Books]
  PROVE  Typed'
BY DEF Typed, ProposalsTyped, ActsTyped, PassTyped, TxTyped, LogTyped, RowsHeld, OneOpenRow,
       ProposalHeld, OpenRows, Books, Rows

LEMMA NextTyped ==
  ASSUME Typed, [Next]_vars PROVE Typed'
<1>1. CASE BeginPass
  BY <1>1, ActiveIs, PassesTyped DEF BeginPass
<1>2. CASE EndPass
  <2>1. 0 \in Books
    BY Ranges DEF Books
  <2> QED  BY <1>2, <2>1, PassesTyped DEF EndPass, NoPass, File
<1>3. CASE StoreProposal
  BY <1>3, StoreTyped
<1>4. ASSUME NEW p \in DOMAIN proposals, Reject(p) PROVE Typed'
  BY <1>4, RejectTyped
<1>5. ASSUME NEW q \in Requests, NEW p \in DOMAIN proposals, Adopt(q, p) PROVE Typed'
  BY <1>5, AdoptTyped
<1>6. ASSUME NEW q \in Requests, Revert(q) PROVE Typed'
  BY <1>6, RevertTyped
<1>7. ASSUME NEW q \in Requests, Step(q) PROVE Typed'
  <2>1. CASE IndexRefuses(q)
    BY <2>1, EndTx DEF IndexRefuses
  <2> QED  BY <1>7, <2>1, CheckParentTyped, AimTyped, CloseTyped, CommitsTyped DEF Step
<1>8. ASSUME NEW q \in Requests, Rollback(q) PROVE Typed'
  BY <1>8, EndTx DEF Rollback
<1>9. CASE UNCHANGED vars
  <2>1. pass \in [on: BOOLEAN, parent: Books]
    BY DEF Typed, PassTyped
  <2> QED  BY <1>9, <2>1, PassesTyped DEF vars
<1> QED  BY <1>1, <1>2, <1>3, <1>4, <1>5, <1>6, <1>7, <1>8, <1>9 DEF Next

LEMMA TypedInvariant == Spec => []Typed
<1>1. Init => Typed
  <2> SUFFICES ASSUME Init PROVE Typed
    OBVIOUS
  <2>1. /\ proposals = <<>> /\ acts = <<>> /\ log = <<>> /\ pass = NoPass
        /\ tx = [q \in Requests |-> NoTx]
    BY DEF Init
  <2>2. /\ proposals \in Seq(Proposal) /\ acts \in Seq(Act) /\ log \in Seq(Change)
        /\ Len(proposals) = 0 /\ Len(acts) = 0 /\ DOMAIN proposals = {} /\ DOMAIN acts = {}
    BY <2>1
  <2>3. 0 \in Books /\ 0 \in Rows
    BY <2>2 DEF Books, Rows
  <2>4. ProposalsTyped /\ ActsTyped /\ LogTyped
    BY <2>2 DEF ProposalsTyped, ActsTyped, LogTyped
  <2>5. PassTyped
    BY <2>1, <2>3 DEF PassTyped, NoPass, File
  <2>6. TxTyped
    BY <2>1, <2>3, Nothing DEF TxTyped
  <2>7. RowsHeld /\ OneOpenRow /\ ProposalHeld
    BY <2>1, <2>2, Nothing DEF RowsHeld, OneOpenRow, OpenRows, ProposalHeld
  <2> QED  BY <2>4, <2>5, <2>6, <2>7 DEF Typed
<1>2. Typed /\ [Next]_vars => Typed'
  BY NextTyped
<1> QED  BY <1>1, <1>2, PTL DEF Spec

\* Every variable has its type: no activation or pass names a rulebook nobody
\* proposed, and no rulebook is its own ancestor.
THEOREM RulebooksTyped == Spec => []TypeOK
<1>1. Typed => TypeOK
  BY DEF Typed, ProposalsTyped, ActsTyped, PassTyped, TxTyped, LogTyped, TypeOK
<1> QED  BY <1>1, TypedInvariant, PTL

\* One decision per proposal: once adopted, rejected or superseded it stays so.
THEOREM ProposalsDecidedOnce == Spec => DecidedOnce
<1>1. Typed /\ [Next]_vars =>
        [\A p \in DOMAIN proposals : proposals[p].status # "proposed" =>
           proposals'[p].status = proposals[p].status]_vars
  <2> SUFFICES ASSUME Typed, [Next]_vars, NEW p \in DOMAIN proposals,
                      proposals[p].status # "proposed"
               PROVE  proposals'[p].status = proposals[p].status
    OBVIOUS
  <2>1. CASE proposals' = proposals
    BY <2>1
  <2>2. CASE StoreProposal
    BY <2>2, StoreEffect
  <2>3. ASSUME NEW o \in DOMAIN proposals, Reject(o) PROVE proposals'[p].status = proposals[p].status
    BY <2>3 DEF Reject
  <2>4. ASSUME NEW q \in Requests, CommitAdopt(q) PROVE proposals'[p].status = proposals[p].status
    <3>1. /\ tx[q].proposal # p
          /\ proposals' = [proposals EXCEPT ![tx[q].proposal].status = "adopted"]
      BY <2>4, AdoptCommits
    <3> QED  BY <3>1
  <2>5. \/ proposals' = proposals \/ StoreProposal
        \/ \E o \in DOMAIN proposals : Reject(o)
        \/ \E q \in Requests : CommitAdopt(q)
    BY DEF Next, vars, BeginPass, EndPass, Adopt, Revert, Step, Rollback, CheckParent, Aim, Close,
           CommitRevert, IndexRefuses
  <2> QED  BY <2>1, <2>2, <2>3, <2>4, <2>5
<1> QED  BY <1>1, TypedInvariant, PTL DEF Spec, DecidedOnce

-----------------------------------------------------------------------------
(* The recorded changes.  An adoption past its parent check that no revert  *)
(* overtook still has the active rulebook for its parent: it is the only    *)
(* adoption under way, so only a revert can have changed what is active.    *)

Was(b) == b = File \/ \E j \in DOMAIN log : log[j].by = "adopt" /\ log[j].to = b

ChainInv ==
  /\ \A k \in DOMAIN log : log[k].from = IF k = 1 THEN File ELSE log[k - 1].to
  /\ Active = IF log = <<>> THEN File ELSE log[Len(log)].to
AdoptInv ==
  /\ AdoptedOverParent
  /\ \A k \in DOMAIN log : log[k].by = "adopt" => log[k].to \in DOMAIN proposals
  /\ \A q \in Requests : tx[q].kind = "adopt" /\ tx[q].at # "read" /\ ~tx[q].raced =>
       proposals[tx[q].proposal].parent = Active
WasInv ==
  /\ \A r \in DOMAIN acts : Was(acts[r].book)
  /\ \A p \in DOMAIN proposals : Was(proposals[p].parent)
  /\ Was(pass.parent)
HistoryInv == ChainInv /\ AdoptInv /\ WasInv /\ RevertUndoesAdoption

\* Steps that commit nothing.
LEMMA QuietHistory ==
  ASSUME Typed, HistoryInv, acts' = acts, log' = log,
         DOMAIN proposals \subseteq DOMAIN proposals',
         \A p \in DOMAIN proposals : proposals'[p].parent = proposals[p].parent,
         \A p \in DOMAIN proposals' \ DOMAIN proposals : proposals'[p].parent = pass.parent,
         pass'.parent \in {pass.parent, Active, File},
         \A q \in Requests :
           \/ tx'[q] = tx[q]
           \/ tx'[q].kind = "adopt" /\ tx'[q].at # "read" /\ ~tx'[q].raced =>
                /\ tx'[q].proposal \in DOMAIN proposals
                /\ proposals[tx'[q].proposal].parent = Active
  PROVE  HistoryInv'
<1>1. Active' = Active
  BY DEF Active, OpenRow, OpenRows, BookOf
<1>2. ChainInv'
  BY <1>1 DEF HistoryInv, ChainInv
<1>3. \A b : Was(b) => Was(b)'
  BY DEF Was
<1>4. Was(Active) /\ Was(File)
  <2>1. CASE OpenRows = {}
    BY <2>1, ActiveIs DEF Was
  <2>2. CASE OpenRows # {}
    <3>1. PICK r : r \in OpenRows
      BY <2>2
    <3>2. r \in DOMAIN acts /\ Active = acts[r].book
      BY <3>1, ActiveIs DEF OpenRows
    <3> QED  BY <3>2 DEF HistoryInv, WasInv, Was
  <2> QED  BY <2>1, <2>2
<1>5. WasInv'
  <2>1. \A p \in DOMAIN proposals' : Was(proposals'[p].parent)
    BY DEF HistoryInv, WasInv
  <2>2. Was(pass'.parent)
    BY <1>4 DEF HistoryInv, WasInv
  <2>3. \A r \in DOMAIN acts : Was(acts[r].book)
    BY DEF HistoryInv, WasInv
  <2> QED  BY <1>3, <2>1, <2>2, <2>3 DEF WasInv
<1>6. AdoptInv'
  <2>1. AdoptedOverParent' /\ \A k \in DOMAIN log' : log'[k].by = "adopt" => log'[k].to \in DOMAIN proposals'
    BY DEF HistoryInv, AdoptInv, AdoptedOverParent
  <2>2. ASSUME NEW q \in Requests, tx'[q].kind = "adopt", tx'[q].at # "read", ~tx'[q].raced
        PROVE  proposals'[tx'[q].proposal].parent = Active
    <3>1. CASE tx'[q] = tx[q]
      <4>1. tx[q].proposal \in DOMAIN proposals
        BY <2>2, <3>1, Ranges DEF Typed, TxTyped, Books
      <4> QED  BY <2>2, <3>1, <4>1 DEF HistoryInv, AdoptInv
    <3>2. CASE tx'[q] # tx[q]
      BY <2>2, <3>2
    <3> QED  BY <3>1, <3>2
  <2> QED  BY <1>1, <2>1, <2>2 DEF AdoptInv
<1>7. RevertUndoesAdoption'
  BY DEF HistoryInv, RevertUndoesAdoption
<1> QED  BY <1>2, <1>5, <1>6, <1>7 DEF HistoryInv

\* A commit extends the chain by one link.
LEMMA ChainCommit ==
  ASSUME Typed, HistoryInv, NEW q \in Requests, NEW kind \in {"adopt", "revert"}, NEW to \in Books,
         tx[q].at = "open", IndexFree(q), Commit(q, kind, to), acts' = Opened(q, to)
  PROVE  ChainInv'
<1>1. /\ Len(log') = Len(log) + 1 /\ DOMAIN log' = 1 .. Len(log) + 1
      /\ \A k \in DOMAIN log : log'[k] = log[k]
      /\ log'[Len(log) + 1].from = Active /\ log'[Len(log) + 1].to = to
      /\ Active' = to
  BY CommitEffect, OpenedEffect
<1>2. Len(log) \in Nat /\ DOMAIN log = 1 .. Len(log)
  BY Ranges
<1>3. log' # <<>>
  BY <1>1, <1>2
<1>4. ASSUME NEW k \in DOMAIN log'
      PROVE  log'[k].from = IF k = 1 THEN File ELSE log'[k - 1].to
  <2>1. CASE k \in DOMAIN log
    <3>1. k # 1 => k - 1 \in DOMAIN log
      BY <1>2, <2>1
    <3> QED  BY <1>1, <2>1, <3>1 DEF HistoryInv, ChainInv
  <2>2. CASE k = Len(log) + 1
    <3>1. CASE k = 1
      <4>1. Len(log) = 0 /\ log = <<>>
        BY <1>2, <2>2, <3>1, EmptySeq DEF Typed, LogTyped
      <4> QED  BY <1>1, <2>2, <3>1, <4>1 DEF HistoryInv, ChainInv
    <3>2. CASE k # 1
      <4>1. Len(log) \in DOMAIN log /\ log # <<>> /\ k - 1 = Len(log)
        BY <1>2, <2>2, <3>2
      <4> QED  BY <1>1, <2>2, <3>2, <4>1 DEF HistoryInv, ChainInv
    <3> QED  BY <3>1, <3>2
  <2> QED  BY <1>1, <1>2, <2>1, <2>2
<1> QED  BY <1>1, <1>3, <1>4 DEF ChainInv

\* What was adopted stays adopted, and the rulebook a commit opens was.
LEMMA WasCommit ==
  ASSUME Typed, HistoryInv, NEW q \in Requests, NEW kind \in {"adopt", "revert"}, NEW to \in Books,
         tx[q].at = "open", IndexFree(q), Commit(q, kind, to), acts' = Opened(q, to), pass' = pass,
         DOMAIN proposals' = DOMAIN proposals,
         \A p \in DOMAIN proposals : proposals'[p].parent = proposals[p].parent,
         kind = "adopt" \/ Was(to)
  PROVE  WasInv'
<1>1. /\ DOMAIN log' = 1 .. Len(log) + 1
      /\ \A k \in DOMAIN log : k \in DOMAIN log' /\ log'[k] = log[k]
      /\ log'[Len(log) + 1].by = kind /\ log'[Len(log) + 1].to = to
      /\ Len(log) + 1 \in DOMAIN log'
  <2>1. Len(log) \in Nat /\ DOMAIN log = 1 .. Len(log)
    BY Ranges
  <2> QED  BY <2>1, CommitEffect
<1>2. \A b : Was(b) => Was(b)'
  BY <1>1 DEF Was
<1>3. Was(to)'
  BY <1>1, <1>2 DEF Was
<1>4. \A r \in DOMAIN acts' : Was(acts[r].book)'
  <2>1. /\ \A r \in DOMAIN acts : acts'[r].book = acts[r].book
        /\ to = File => DOMAIN acts' = DOMAIN acts
        /\ to # File => DOMAIN acts' = 1 .. Len(acts) + 1 /\ acts'[Len(acts) + 1].book = to
    BY OpenedEffect
  <2>2. \A r \in DOMAIN acts' : r \in DOMAIN acts \/ (r = Len(acts) + 1 /\ acts'[r].book = to)
    <3>1. Len(acts) \in Nat /\ DOMAIN acts = 1 .. Len(acts)
      BY Ranges
    <3> QED  BY <2>1, <3>1
  <2>3. \A r \in DOMAIN acts : Was(acts[r].book)
    BY DEF HistoryInv, WasInv
  <2> QED  BY <1>2, <1>3, <2>1, <2>2, <2>3
<1>5. \A p \in DOMAIN proposals : Was(proposals[p].parent)
  BY DEF HistoryInv, WasInv
<1>6. Was(pass.parent)
  BY DEF HistoryInv, WasInv
<1> QED  BY <1>2, <1>4, <1>5, <1>6 DEF WasInv

LEMMA AdoptHistory ==
  ASSUME Typed, HistoryInv, NEW q \in Requests, CommitAdopt(q)
  PROVE  HistoryInv'
<1>0. PICK to \in Books : to = tx[q].proposal
  BY AdoptCommits
<1>1. /\ tx[q].at = "open" /\ IndexFree(q) /\ Commit(q, "adopt", to) /\ acts' = Opened(q, to)
      /\ pass' = pass /\ to \in DOMAIN proposals
      /\ proposals' = [proposals EXCEPT ![to].status = "adopted"]
  BY <1>0, AdoptCommits
<1>2. /\ DOMAIN proposals' = DOMAIN proposals
      /\ \A p \in DOMAIN proposals : proposals'[p].parent = proposals[p].parent
  <2>1. "adopted" \in Statuses
    BY DEF Statuses
  <2> QED  BY <1>1, <2>1, StatusWritten
<1>3. ChainInv'
  BY <1>1, ChainCommit
<1>4. WasInv'
  BY <1>1, <1>2, WasCommit
<1>5. /\ DOMAIN log' = 1 .. Len(log) + 1
      /\ \A k \in DOMAIN log : log'[k] = log[k]
      /\ log'[Len(log) + 1].by = "adopt" /\ log'[Len(log) + 1].from = Active
      /\ log'[Len(log) + 1].to = to /\ log'[Len(log) + 1].raced = tx[q].raced
      /\ tx'[q].kind = "none"
      /\ \A r \in Requests \ {q} : tx'[r].kind = tx[r].kind
  BY <1>1, CommitEffect, Nothing
<1>6. DOMAIN log = 1 .. Len(log) /\ Len(log) \in Nat
      /\ \A k \in DOMAIN log' : k \in DOMAIN log \/ k = Len(log) + 1
  BY <1>5, Ranges
<1>7. AdoptInv'
  <2>1. tx[q].kind = "adopt"
    BY DEF CommitAdopt
  <2>2. \A r \in Requests : tx'[r].kind # "adopt"
    BY <1>5, <2>1 DEF Typed, ProposalHeld
  <2>3. proposals[to].parent = Active \/ tx[q].raced
    BY <1>0, <1>1, <2>1 DEF HistoryInv, AdoptInv
  <2>4. \A k \in DOMAIN log : log[k].by = "adopt" =>
          /\ log[k].to \in DOMAIN proposals
          /\ log[k].from = proposals[log[k].to].parent \/ log[k].raced
    BY DEF HistoryInv, AdoptInv, AdoptedOverParent
  <2>5. AdoptedOverParent'
    BY <1>1, <1>2, <1>5, <1>6, <2>3, <2>4 DEF AdoptedOverParent
  <2> QED  BY <1>1, <1>2, <1>5, <1>6, <2>2, <2>4, <2>5 DEF AdoptInv
<1>8. RevertUndoesAdoption'
  <2> SUFFICES ASSUME NEW k \in DOMAIN log', log'[k].by = "revert"
      PROVE \E j \in 1 .. k - 1 : /\ log'[j].by = "adopt" /\ log'[j].to = log'[k].from
                                  /\ log'[j].from = log'[k].to \/ log'[j].raced
    BY DEF RevertUndoesAdoption
  <2>1. k \in DOMAIN log
    BY <1>5, <1>6
  <2>2. PICK j \in 1 .. k - 1 : /\ log[j].by = "adopt" /\ log[j].to = log[k].from
                                /\ log[j].from = log[k].to \/ log[j].raced
    BY <1>5, <2>1 DEF HistoryInv, RevertUndoesAdoption
  <2>3. j \in DOMAIN log
    BY <1>6, <2>1
  <2> QED  BY <1>5, <2>1, <2>2, <2>3
<1> QED  BY <1>3, <1>4, <1>7, <1>8 DEF HistoryInv

LEMMA RevertHistory ==
  ASSUME Typed, HistoryInv, NEW q \in Requests, CommitRevert(q)
  PROVE  HistoryInv'
<1>0. PICK to \in Books : to = proposals[Active].parent
  BY RevertCommits
<1>1. /\ tx[q].at = "open" /\ IndexFree(q) /\ Commit(q, "revert", to) /\ acts' = Opened(q, to)
      /\ pass' = pass /\ Active \in DOMAIN proposals /\ proposals' = proposals
  BY <1>0, RevertCommits
<1>2. Was(to) /\ Was(Active) /\ Active # File
  <2>1. Was(to) /\ Active # File
    BY <1>0, <1>1, Ranges DEF HistoryInv, WasInv, File
  <2>2. CASE OpenRows = {}
    BY <2>1, <2>2, ActiveIs
  <2>3. CASE OpenRows # {}
    <3>1. PICK r : r \in OpenRows
      BY <2>3
    <3>2. r \in DOMAIN acts /\ Active = acts[r].book
      BY <3>1, ActiveIs DEF OpenRows
    <3> QED  BY <2>1, <3>2 DEF HistoryInv, WasInv
  <2> QED  BY <2>2, <2>3
<1>3. ChainInv'
  BY <1>1, ChainCommit
<1>4. WasInv'
  BY <1>1, <1>2, WasCommit
<1>5. /\ DOMAIN log' = 1 .. Len(log) + 1
      /\ \A k \in DOMAIN log : log'[k] = log[k]
      /\ log'[Len(log) + 1].by = "revert" /\ log'[Len(log) + 1].from = Active
      /\ log'[Len(log) + 1].to = to
      /\ tx'[q].kind = "none"
      /\ \A r \in Requests \ {q} :
           /\ tx'[r].kind = tx[r].kind /\ tx'[r].at = tx[r].at /\ tx'[r].proposal = tx[r].proposal
           /\ tx'[r].raced = (tx[r].raced \/ (tx[r].kind = "adopt" /\ tx[r].at # "read"))
  BY <1>1, CommitEffect, Nothing
<1>6. DOMAIN log = 1 .. Len(log) /\ Len(log) \in Nat
      /\ \A k \in DOMAIN log' : k \in DOMAIN log \/ k = Len(log) + 1
  BY <1>5, Ranges
<1>7. AdoptInv'
  <2>1. \A r \in Requests : ~(tx'[r].kind = "adopt" /\ tx'[r].at # "read" /\ ~tx'[r].raced)
    BY <1>5
  <2>2. AdoptedOverParent'
    BY <1>1, <1>5, <1>6 DEF HistoryInv, AdoptInv, AdoptedOverParent
  <2> QED  BY <1>1, <1>5, <1>6, <2>1, <2>2 DEF HistoryInv, AdoptInv
<1>8. RevertUndoesAdoption'
  <2> SUFFICES ASSUME NEW k \in DOMAIN log', log'[k].by = "revert"
      PROVE \E j \in 1 .. k - 1 : /\ log'[j].by = "adopt" /\ log'[j].to = log'[k].from
                                  /\ log'[j].from = log'[k].to \/ log'[j].raced
    BY DEF RevertUndoesAdoption
  <2>1. CASE k \in DOMAIN log
    <3>1. PICK j \in 1 .. k - 1 : /\ log[j].by = "adopt" /\ log[j].to = log[k].from
                                  /\ log[j].from = log[k].to \/ log[j].raced
      BY <1>5, <2>1 DEF HistoryInv, RevertUndoesAdoption
    <3>2. j \in DOMAIN log
      BY <1>6, <2>1
    <3> QED  BY <1>5, <2>1, <3>1, <3>2
  <2>2. CASE k = Len(log) + 1
    <3>1. PICK j \in DOMAIN log : log[j].by = "adopt" /\ log[j].to = Active
      BY <1>2 DEF Was
    <3>2. log[j].from = proposals[Active].parent \/ log[j].raced
      BY <3>1 DEF HistoryInv, AdoptInv, AdoptedOverParent
    <3>3. j \in 1 .. k - 1
      BY <1>6, <2>2
    <3> QED  BY <1>0, <1>5, <2>2, <3>1, <3>2, <3>3
  <2> QED  BY <1>6, <2>1, <2>2
<1> QED  BY <1>3, <1>4, <1>7, <1>8 DEF HistoryInv

\* A request's own step changes no other's and claims no more than it checked.
LEMMA RequestHistory ==
  ASSUME Typed, HistoryInv, NEW q \in Requests, NEW t, tx' = [tx EXCEPT ![q] = t],
         proposals' = proposals, acts' = acts, pass' = pass, log' = log,
         t.kind = "adopt" /\ t.at # "read" /\ ~t.raced =>
           /\ t.proposal \in DOMAIN proposals
           /\ proposals[t.proposal].parent = Active
  PROVE  HistoryInv'
<1>1. tx'[q] = t /\ \A r \in Requests \ {q} : tx'[r] = tx[r]
  BY TxWritten
<1> QED  BY <1>1, QuietHistory

LEMMA StepHistory ==
  ASSUME Typed, HistoryInv, NEW q \in Requests, Step(q) PROVE HistoryInv'
<1>0. /\ tx[q] \in Tx
      /\ tx[q].kind = "adopt" => tx[q].proposal \in DOMAIN proposals
      /\ tx[q].kind = "adopt" /\ tx[q].at # "read" /\ ~tx[q].raced =>
           proposals[tx[q].proposal].parent = Active
  BY Ranges DEF Typed, TxTyped, Books, HistoryInv, AdoptInv
<1>1. CASE CheckParent(q)
  <2>1. CASE tx' = [tx EXCEPT ![q] = NoTx]
    BY <1>1, <2>1, Nothing, RequestHistory DEF CheckParent
  <2>2. CASE /\ tx' = [tx EXCEPT ![q] = [tx[q] EXCEPT !.at = "aim"]]
             /\ proposals[tx[q].proposal].parent = Active
    <3> DEFINE t == [tx[q] EXCEPT !.at = "aim"]
    <3>1. t.proposal = tx[q].proposal /\ t.kind = tx[q].kind
      BY <1>0 DEF Tx
    <3>2. tx' = [tx EXCEPT ![q] = t]
      BY <2>2
    <3> HIDE DEF t
    <3> QED  BY <1>0, <1>1, <2>2, <3>1, <3>2, RequestHistory DEF CheckParent
  <2> QED  BY <1>1, <2>1, <2>2 DEF CheckParent
<1>2. CASE Aim(q)
  <2> DEFINE t == [tx[q] EXCEPT !.at = "close", !.row = OpenRow]
  <2>1. t.proposal = tx[q].proposal /\ t.kind = tx[q].kind /\ t.raced = tx[q].raced
    BY <1>0 DEF Tx
  <2>2. tx' = [tx EXCEPT ![q] = t] /\ tx[q].at # "read"
    BY <1>2 DEF Aim
  <2>3. proposals' = proposals /\ acts' = acts /\ pass' = pass /\ log' = log
    BY <1>2 DEF Aim
  <2> HIDE DEF t
  <2>4. t.kind = "adopt" /\ t.at # "read" /\ ~t.raced =>
          /\ t.proposal \in DOMAIN proposals
          /\ proposals[t.proposal].parent = Active
    BY <1>0, <2>1, <2>2
  <2> QED  BY <2>2, <2>3, <2>4, RequestHistory
<1>3. CASE Close(q)
  <2>1. CASE tx' = [tx EXCEPT ![q] = NoTx]
    BY <1>3, <2>1, Nothing, RequestHistory DEF Close
  <2>2. ASSUME NEW row, tx' = [tx EXCEPT ![q] = [tx[q] EXCEPT !.at = "open", !.row = row]]
        PROVE  HistoryInv'
    <3> DEFINE t == [tx[q] EXCEPT !.at = "open", !.row = row]
    <3>1. t.proposal = tx[q].proposal /\ t.kind = tx[q].kind /\ t.raced = tx[q].raced
      BY <1>0 DEF Tx
    <3>2. tx' = [tx EXCEPT ![q] = t] /\ tx[q].at # "read"
      BY <1>3, <2>2 DEF Close
    <3>3. proposals' = proposals /\ acts' = acts /\ pass' = pass /\ log' = log
      BY <1>3 DEF Close
    <3> HIDE DEF t
    <3> QED  BY <1>0, <3>1, <3>2, <3>3, RequestHistory
  <2> QED  BY <1>3, <2>1, <2>2 DEF Close
<1>4. CASE IndexRefuses(q)
  BY <1>4, Nothing, RequestHistory DEF IndexRefuses
<1> QED  BY <1>1, <1>2, <1>3, <1>4, AdoptHistory, RevertHistory DEF Step

LEMMA NextHistory ==
  ASSUME Typed, HistoryInv, [Next]_vars PROVE HistoryInv'
<1>1. CASE BeginPass \/ EndPass \/ UNCHANGED vars
  <2>1. pass'.parent \in {pass.parent, Active, File}
    BY <1>1 DEF BeginPass, EndPass, NoPass, vars
  <2>2. proposals' = proposals /\ acts' = acts /\ tx' = tx /\ log' = log
    BY <1>1 DEF BeginPass, EndPass, vars
  <2> QED  BY <2>1, <2>2, QuietHistory
<1>2. CASE StoreProposal
  <2>1. /\ DOMAIN proposals = 1 .. Len(proposals) /\ Len(proposals) \in Nat
        /\ DOMAIN proposals' = 1 .. Len(proposals) + 1
        /\ \A p \in DOMAIN proposals : proposals'[p].parent = proposals[p].parent
        /\ proposals'[Len(proposals) + 1].parent = pass.parent
    BY <1>2, StoreEffect, Ranges
  <2>2. acts' = acts /\ tx' = tx /\ log' = log /\ pass'.parent = File
    BY <1>2 DEF StoreProposal, NoPass
  <2>3. \A p \in DOMAIN proposals' \ DOMAIN proposals : proposals'[p].parent = pass.parent
    BY <2>1
  <2>4. DOMAIN proposals \subseteq DOMAIN proposals'
    BY <2>1
  <2> QED  BY <2>1, <2>2, <2>3, <2>4, QuietHistory
<1>3. ASSUME NEW p \in DOMAIN proposals, Reject(p) PROVE HistoryInv'
  <2>1. /\ DOMAIN proposals' = DOMAIN proposals
        /\ \A o \in DOMAIN proposals : proposals'[o].parent = proposals[o].parent
    <3>1. "rejected" \in Statuses
      BY DEF Statuses
    <3> QED  BY <1>3, <3>1, StatusWritten DEF Reject
  <2>2. acts' = acts /\ tx' = tx /\ log' = log /\ pass' = pass
    BY <1>3 DEF Reject
  <2> QED  BY <2>1, <2>2, QuietHistory
<1>4. ASSUME NEW q \in Requests, NEW p \in DOMAIN proposals, Adopt(q, p) PROVE HistoryInv'
  <2> DEFINE t == [NoTx EXCEPT !.kind = "adopt", !.proposal = p]
  <2>1. t.at = "read" /\ tx' = [tx EXCEPT ![q] = t]
    BY <1>4 DEF NoTx, Adopt
  <2> HIDE DEF t
  <2> QED  BY <1>4, <2>1, RequestHistory DEF Adopt
<1>5. ASSUME NEW q \in Requests, Revert(q) PROVE HistoryInv'
  <2> DEFINE t == [NoTx EXCEPT !.kind = "revert", !.at = "aim"]
  <2>1. t.kind = "revert" /\ tx' = [tx EXCEPT ![q] = t]
    BY <1>5 DEF NoTx, Revert
  <2> HIDE DEF t
  <2> QED  BY <1>5, <2>1, RequestHistory DEF Revert
<1>6. ASSUME NEW q \in Requests, Rollback(q) PROVE HistoryInv'
  BY <1>6, Nothing, RequestHistory DEF Rollback
<1> QED  BY <1>1, <1>2, <1>3, <1>4, <1>5, <1>6, StepHistory DEF Next

LEMMA HistoryInvariant == Spec => []HistoryInv
<1>1. Init => HistoryInv
  BY Nothing DEF Init, HistoryInv, ChainInv, AdoptInv, WasInv, RevertUndoesAdoption,
     AdoptedOverParent, Active, OpenRow, OpenRows, BookOf, Was, NoPass
<1>2. Typed /\ HistoryInv /\ [Next]_vars => HistoryInv'
  BY NextHistory
<1> QED  BY <1>1, <1>2, TypedInvariant, PTL DEF Spec

\* The recorded changes form one chain from the file to the active rulebook: no
\* two start from the same state and none is lost.
THEOREM ChangesFormAChain == Spec => []ChangesChain
<1>1. Typed => Cardinality(OpenRows) <= 1
  <2> SUFFICES ASSUME Typed PROVE Cardinality(OpenRows) <= 1
    OBVIOUS
  <2>1. CASE OpenRows = {}
    BY <2>1, FS_EmptySet
  <2>2. CASE OpenRows # {}
    <3>1. PICK r : r \in OpenRows
      BY <2>2
    <3>2. OpenRows = {r}
      BY <3>1 DEF Typed, OneOpenRow
    <3> QED  BY <3>2, FS_Singleton
  <2> QED  BY <2>1, <2>2
<1>2. Typed /\ HistoryInv => ChangesChain
  BY <1>1 DEF HistoryInv, ChainInv, ChangesChain
<1> QED  BY <1>2, TypedInvariant, HistoryInvariant, PTL

\* A proposal is adopted over the rulebook it was compared against, unless a
\* revert committed after the adoption had checked that.
THEOREM AdoptionsOverParent == Spec => []AdoptedOverParent
<1>1. HistoryInv => AdoptedOverParent
  BY DEF HistoryInv, AdoptInv
<1> QED  BY <1>1, HistoryInvariant, PTL

\* A revert goes back to the rulebook that was active before the one it closes
\* was adopted, unless that adoption was overtaken by a revert.
THEOREM RevertsUndoAdoptions == Spec => []RevertUndoesAdoption
<1>1. HistoryInv => RevertUndoesAdoption
  BY DEF HistoryInv
<1> QED  BY <1>1, HistoryInvariant, PTL

==============================================================================
