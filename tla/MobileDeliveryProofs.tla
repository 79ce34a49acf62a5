------------------------ MODULE MobileDeliveryProofs ------------------------
(***************************************************************************)
(* Theorems about MobileDelivery, for every number of rows and browsers,   *)
(* every retry policy and any number of crashes and changes.               *)
(***************************************************************************)
EXTENDS MobileDelivery, TLAPS, FiniteSetTheorems, WellFoundedInduction

-----------------------------------------------------------------------------
(* What the row operators return. *)

LEMMA MinOfTwo ==
    ASSUME NEW a \in Int, NEW b \in Int
    PROVE  Min({a, b}) = IF a <= b THEN a ELSE b
BY DEF Min

LEMMA LessType == ASSUME NEW n \in Nat, NEW b \in Nat, n <= b PROVE Less(n) \in 0..b
BY DEF Less

(* A set of naturals that is not empty has a least element.                 *)
LEMMA Least ==
    ASSUME NEW I \in SUBSET Nat, I # {}
    PROVE  \E n \in I : \A m \in I : n <= m
<1>1. PICK n \in I : \A m \in I : ~(<<m, n>> \in OpToRel(<, Nat))
  BY NatLessThanWellFounded, WFMin, Zenon
<1>2. \A m \in I : ~(m < n)
  BY <1>1, Zenon DEF OpToRel
<1>3. \A m \in I : n <= m
  BY <1>2
<1> QED
  BY <1>3

(* The waits up to the attempt m; their recursion has a solution. *)
Waits(g, m) == g = [n \in 1..m |-> IF n = 1 THEN FirstRetry ELSE 2 * g[n - 1]]

LEMMA WaitsExist == \A m \in Nat : \E g : Waits(g, m)
<1> DEFINE Bad == {m \in Nat : ~\E g : Waits(g, m)}
<1> SUFFICES ASSUME Bad # {} PROVE FALSE
  OBVIOUS
<1>1. PICK m \in Bad : \A k \in Bad : m <= k
  <2>1. Bad \in SUBSET Nat
    OBVIOUS
  <2> HIDE DEF Bad
  <2> QED
    BY <2>1, Least
<1>2. m \in Nat /\ ~\E g : Waits(g, m)
  BY <1>1
<1>3. CASE m = 0
  <2>1. 1..m = {}
    BY <1>3
  <2>2. Waits([n \in 1..m |-> 0], m)
    BY <2>1 DEF Waits
  <2> QED
    BY <1>2, <2>2
<1>4. CASE m # 0
  <2>1. m - 1 \in Nat /\ ~(m <= m - 1)
    BY <1>2, <1>4
  <2>2. m - 1 \notin Bad
    <3> HIDE DEF Bad
    <3> QED
      BY <1>1, <2>1
  <2>3. PICK g : Waits(g, m - 1)
    BY <2>1, <2>2
  <2> DEFINE G == [n \in 1..m |-> IF n = 1 THEN FirstRetry ELSE 2 * g[n - 1]]
  <2>4. \A n \in 1..m - 1 : G[n] = g[n]
    BY <1>2, <2>3 DEF Waits
  <2>5. \A n \in 1..m : n # 1 => n - 1 \in 1..m - 1
    BY <1>2
  <2>6. \A n \in 1..m : n # 1 => G[n - 1] = g[n - 1]
    BY <2>4, <2>5
  <2>7. Waits(G, m)
    BY <2>6 DEF Waits
  <2> QED
    BY <1>2, <2>7
<1> QED
  BY <1>3, <1>4

(* No wait is negative. *)
LEMMA DoublingType == \A n \in 1..MaxAttempts : Doubling[n] \in Nat
<1>0. MaxAttempts \in Nat /\ FirstRetry \in Nat
  BY NumbersAssumption, RetryAssumption
<1>1. Waits(Doubling, MaxAttempts)
  <2>1. PICK g : Waits(g, MaxAttempts)
    BY <1>0, WaitsExist
  <2>2. \E h : h = [n \in 1..MaxAttempts |-> IF n = 1 THEN FirstRetry ELSE 2 * h[n - 1]]
    BY <2>1 DEF Waits
  <2> QED
    BY <2>2, Zenon DEF Doubling, Waits
<1> DEFINE Bad == {n \in 1..MaxAttempts : Doubling[n] \notin Nat}
<1> SUFFICES ASSUME Bad # {} PROVE FALSE
  OBVIOUS
<1>2. PICK n \in Bad : \A k \in Bad : n <= k
  <2>1. Bad \in SUBSET Nat
    BY <1>0
  <2> HIDE DEF Bad
  <2> QED
    BY <2>1, Least
<1>3. n \in 1..MaxAttempts /\ Doubling[n] \notin Nat
  BY <1>2
<1>4. Doubling[n] = IF n = 1 THEN FirstRetry ELSE 2 * Doubling[n - 1]
  <2> DEFINE d == Doubling
  <2>1. Waits(d, MaxAttempts)
    BY <1>1
  <2> HIDE DEF d
  <2>2. d[n] = IF n = 1 THEN FirstRetry ELSE 2 * d[n - 1]
    BY <1>3, <2>1 DEF Waits
  <2> QED
    BY <2>2 DEF d
<1>5. n # 1
  BY <1>0, <1>3, <1>4
<1>6. n - 1 \in 1..MaxAttempts /\ ~(n <= n - 1)
  BY <1>0, <1>3, <1>5
<1>7. n - 1 \notin Bad
  <2> HIDE DEF Bad
  <2> QED
    BY <1>2, <1>6
<1>8. Doubling[n - 1] \in Nat
  BY <1>6, <1>7
<1> QED
  BY <1>3, <1>4, <1>5, <1>8

(* A retry waits no longer than a row is served. *)
LEMMA BackoffType == ASSUME NEW n \in 1..MaxAttempts PROVE Backoff(n) \in 0..Expiry
<1>1. Doubling[n] \in Nat
  BY DoublingType
<1>2. MaxRetry \in Int /\ MaxRetry >= 0 /\ MaxRetry <= Expiry
  BY RetryAssumption, NumbersAssumption
<1> DEFINE wait == Doubling[n]
<1>3. Min({wait, MaxRetry}) = IF wait <= MaxRetry THEN wait ELSE MaxRetry
  BY <1>1, <1>2, MinOfTwo
<1> HIDE DEF wait
<1>4. wait \in Nat
  BY <1>1 DEF wait
<1>5. Min({wait, MaxRetry}) \in 0..Expiry
  BY <1>2, <1>3, <1>4, NumbersAssumption
<1> QED
  BY <1>5 DEF Backoff, wait

(* What a row has to say of itself: a row still served or accepted has no  *)
(* reason, only an expired one was dropped, and a dead letter was earned.  *)
Sane(x) ==
    /\ x.status \in Live \union {"absent", "provider_accepted", "operator_confirmed"} => x.why = "none"
    /\ x.why \in {"preference", "budget"} => x.status = "expired"
    /\ x.status = "dead_letter" =>
          x.why = "refused" \/ (x.why = "exhausted" /\ x.attempts = MaxAttempts)

(* What no handler of a row that is there touches. *)
Same(x, y) == /\ y.kind = x.kind /\ y.attempts = x.attempts /\ y.token = x.token /\ y.ack = x.ack

(* The values the handlers give a row. *)
LEMMA RowValues ==
    /\ {"absent", "queued", "retry", "sending", "provider_accepted", "operator_confirmed", "expired", "dead_letter"}
          = Statuses
    /\ Live = {"queued", "retry", "sending"}
    /\ {"none", "preference", "budget", "refused", "exhausted"} = Reasons
    /\ 0 \in 0..Lease /\ Lease \in 0..Lease /\ 0 \in Attempts /\ 0 \in 0..Expiry
BY NumbersAssumption DEF Statuses, Live, Reasons, Attempts

LEMMA RowUpdate ==
    ASSUME NEW x \in Row, NEW s \in Statuses, NEW w \in Reasons, NEW l \in 0..Lease,
           NEW a \in Attempts, NEW d \in 0..Expiry
    PROVE  [x EXCEPT !.status = s, !.why = w, !.lease = l, !.attempts = a, !.wait = d] \in Row
BY DEF Row

LEMMA RowFields ==
    ASSUME NEW x \in Row
    PROVE  /\ x.status \in Statuses /\ x.kind \in {"test", "attention", "routed"} /\ x.attempts \in Attempts
           /\ x.wait \in 0..Expiry /\ x.lease \in 0..Lease /\ x.age \in 0..Expiry
           /\ x.token \in Attempts /\ x.ack \in {"none", "operator", "device"} /\ x.why \in Reasons
BY DEF Row

LEMMA BlankRow == Blank \in Row /\ Sane(Blank) /\ Blank.status = "absent"
BY NumbersAssumption DEF Blank, Row, Sane, Statuses, Live, Reasons, Attempts

LEMMA MadeRow ==
    ASSUME NEW kind \in {"test", "attention", "routed"}
    PROVE  /\ Made(kind) \in Row /\ Sane(Made(kind)) /\ Made(kind).status = "queued"
           /\ Made(kind).kind = kind /\ Made(kind).ack = "none"
           /\ Made(kind).attempts = 0 /\ Made(kind).token = 0 /\ Made(kind).why = "none"
<1>1. Made(kind) \in Row
  BY BlankRow, RowValues DEF Made, Row
<1>2. /\ Made(kind).status = "queued" /\ Made(kind).kind = kind /\ Made(kind).ack = "none"
      /\ Made(kind).attempts = 0 /\ Made(kind).token = 0 /\ Made(kind).why = "none"
  BY DEF Made, Blank
<1> QED
  BY <1>1, <1>2 DEF Sane

LEMMA DropRow ==
    ASSUME NEW x \in Row, NEW why \in {"preference", "budget"}
    PROVE  /\ Drop(x, why) \in Row /\ Sane(Drop(x, why)) /\ Same(x, Drop(x, why))
           /\ Drop(x, why).status = "expired" /\ Drop(x, why).why = why
<1>1. "expired" \in Statuses /\ why \in Reasons /\ 0 \in 0..Lease
  BY RowValues
<1>2. Drop(x, why) \in Row
  BY <1>1 DEF Drop, Row
<1>3. Drop(x, why).status = "expired" /\ Drop(x, why).why = why /\ Same(x, Drop(x, why))
  BY DEF Drop, Row, Same
<1> QED
  BY <1>2, <1>3 DEF Sane, Live

LEMMA SweepRow ==
    ASSUME NEW x \in Row, Sane(x)
    PROVE  /\ Sweep(x) \in Row /\ Sane(Sweep(x)) /\ Same(x, Sweep(x))
           /\ x.status \notin Live => Sweep(x) = x
           /\ x.status \in Live => Sweep(x).status # "absent"
           /\ x.why = "none" => Sweep(x).why \in {"none", "exhausted"}
<1>1. "expired" \in Statuses /\ "dead_letter" \in Statuses /\ "exhausted" \in Reasons /\ 0 \in 0..Lease
  BY RowValues
<1>2. x.attempts \in Attempts /\ x.why \in Reasons
  BY RowFields
<1>3. CASE x.status \in Live /\ x.age = Expiry
  <2>1. Sweep(x) = [x EXCEPT !.status = "expired", !.lease = 0]
    BY <1>3 DEF Sweep
  <2>2. Sweep(x) \in Row
    BY <2>1, <1>1 DEF Row
  <2>3. Sweep(x).status = "expired" /\ Sweep(x).why = x.why /\ Same(x, Sweep(x))
    BY <2>1 DEF Row, Same
  <2> QED
    BY <1>3, <2>2, <2>3 DEF Sane, Live
<1>4. CASE /\ ~(x.status \in Live /\ x.age = Expiry)
           /\ x.status \in Live /\ x.attempts >= MaxAttempts /\ (x.status = "sending" => x.lease = 0)
  <2>1. x.why = "none"
    BY <1>4 DEF Sane
  <2>2. Sweep(x) = [x EXCEPT !.status = "dead_letter", !.lease = 0, !.why = "exhausted"]
    BY <1>4, <2>1 DEF Sweep
  <2>3. Sweep(x) \in Row
    BY <2>2, <1>1 DEF Row
  <2>4. Sweep(x).status = "dead_letter" /\ Sweep(x).why = "exhausted" /\ Same(x, Sweep(x))
    BY <2>2 DEF Row, Same
  <2>5. x.attempts = MaxAttempts
    BY <1>2, <1>4, NumbersAssumption DEF Attempts
  <2> QED
    BY <1>4, <2>3, <2>4, <2>5 DEF Sane, Live, Same
<1>5. CASE Sweep(x) = x
  BY <1>5, <1>2 DEF Same, Live
<1>6. x.status \notin Live => Sweep(x) = x
  BY DEF Sweep
<1> QED
  BY <1>3, <1>4, <1>5, <1>6 DEF Sweep

LEMMA ClaimedRow ==
    ASSUME NEW x \in Row, Sane(x), Claimable(x)
    PROVE  /\ Claimed(x) \in Row /\ Sane(Claimed(x)) /\ Claimed(x).status = "sending"
           /\ Claimed(x).attempts = x.attempts + 1 /\ Claimed(x).why = x.why
           /\ Claimed(x).kind = x.kind /\ Claimed(x).token = x.token /\ Claimed(x).ack = x.ack
           /\ x.status \in Live
<1>1. x.status \in Live /\ x.attempts < MaxAttempts /\ x.attempts \in Attempts
  BY RowFields DEF Claimable, Live
<1>2. x.attempts + 1 \in Attempts
  BY <1>1, NumbersAssumption DEF Attempts
<1>3. "sending" \in Statuses /\ Lease \in 0..Lease
  BY RowValues
<1>4. Claimed(x) \in Row
  BY <1>2, <1>3 DEF Claimed, Row
<1>5. /\ Claimed(x).status = "sending" /\ Claimed(x).attempts = x.attempts + 1 /\ Claimed(x).why = x.why
      /\ Claimed(x).kind = x.kind /\ Claimed(x).token = x.token /\ Claimed(x).ack = x.ack
  BY DEF Claimed, Row
<1> QED
  BY <1>1, <1>4, <1>5 DEF Sane, Live

LEMMA AcceptedRow ==
    ASSUME NEW x \in Row, Sane(x), x.status = "sending"
    PROVE  /\ Accepted(x) \in Row /\ Sane(Accepted(x)) /\ Same(x, Accepted(x))
           /\ Accepted(x).status = "provider_accepted" /\ Accepted(x).why = "none"
<1>1. "provider_accepted" \in Statuses /\ 0 \in 0..Lease
  BY RowValues
<1>2. Accepted(x) \in Row
  BY <1>1 DEF Accepted, Row
<1>3. Accepted(x).status = "provider_accepted" /\ Accepted(x).why = x.why /\ Same(x, Accepted(x))
  BY DEF Accepted, Row, Same
<1> QED
  BY <1>2, <1>3 DEF Sane, Live

LEMMA FailedRow ==
    ASSUME NEW x \in Row, Sane(x), x.status = "sending" \/ Done(x), x.attempts > 0, NEW answer
    PROVE  /\ Failed(x, answer) \in Row /\ Sane(Failed(x, answer)) /\ Same(x, Failed(x, answer))
           /\ Failed(x, answer).status \in {"retry", "dead_letter"}
           /\ Failed(x, answer).why \in {"none", "refused", "exhausted"}
<1>0. x.attempts \in Attempts /\ x.why = "none"
  BY RowFields DEF Sane, Live, Done
<1>1. x.attempts \in 1..MaxAttempts
  BY <1>0, NumbersAssumption DEF Attempts
<1>2. /\ Backoff(x.attempts) \in 0..Expiry /\ "dead_letter" \in Statuses /\ "retry" \in Statuses
      /\ "refused" \in Reasons /\ "exhausted" \in Reasons /\ 0 \in 0..Lease
  BY <1>1, BackoffType, RowValues
<1>3. CASE answer = "refused"
  <2>1. Failed(x, answer) = [x EXCEPT !.status = "dead_letter", !.why = "refused", !.lease = 0]
    BY <1>3 DEF Failed
  <2>2. Failed(x, answer) \in Row
    BY <2>1, <1>2 DEF Row
  <2>3. Failed(x, answer).status = "dead_letter" /\ Failed(x, answer).why = "refused" /\ Same(x, Failed(x, answer))
    BY <2>1 DEF Row, Same
  <2> QED
    BY <2>2, <2>3 DEF Sane, Live
<1>4. CASE answer # "refused" /\ x.attempts >= MaxAttempts
  <2>1. Failed(x, answer) = [x EXCEPT !.status = "dead_letter", !.why = "exhausted", !.lease = 0]
    BY <1>4 DEF Failed
  <2>2. Failed(x, answer) \in Row
    BY <2>1, <1>2 DEF Row
  <2>3. Failed(x, answer).status = "dead_letter" /\ Failed(x, answer).why = "exhausted" /\ Same(x, Failed(x, answer))
    BY <2>1 DEF Row, Same
  <2>4. x.attempts = MaxAttempts
    BY <1>1, <1>4, NumbersAssumption
  <2> QED
    BY <2>2, <2>3, <2>4 DEF Sane, Live, Same
<1>5. CASE answer # "refused" /\ ~(x.attempts >= MaxAttempts)
  <2>1. Failed(x, answer) = [x EXCEPT !.status = "retry", !.wait = Backoff(x.attempts), !.lease = 0]
    BY <1>5 DEF Failed
  <2>2. Failed(x, answer) \in Row
    BY <2>1, <1>2 DEF Row
  <2>3. Failed(x, answer).status = "retry" /\ Failed(x, answer).why = "none" /\ Same(x, Failed(x, answer))
    BY <2>1, <1>0 DEF Row, Same
  <2> QED
    BY <2>2, <2>3 DEF Sane, Live
<1> QED
  BY <1>3, <1>4, <1>5

-----------------------------------------------------------------------------
(* The inductive invariant. *)

Attempting == {"check", "issue", "send", "store", "record"}

(* A row is blank until it is made; what was sent, shown and acknowledged   *)
(* of it is counted by its attempts and by the tokens it no longer stores.  *)
RowInv(r) ==
    /\ r > made => outbox[r] = Blank
    /\ r <= made => outbox[r].status # "absent"
    /\ Sane(outbox[r])
    /\ calls[r] <= outbox[r].attempts
    /\ phone[r] \subseteq 1..outbox[r].attempts
    /\ taps[r] <= Cardinality(phone[r] \ {outbox[r].token})

(* An attempt in hand is the last one counted on its row, not sent before   *)
(* it is sent, and its token is the one the row stores; the row is claimed  *)
(* by it, or was accepted by it before its failure is recorded.             *)
AttemptInv ==
    worker.pc \in Attempting =>
       /\ worker.row \in Rows /\ worker.row <= made
       /\ outbox[worker.row].status = "sending" \/ (Reviving(worker.row) /\ Done(outbox[worker.row]))
       /\ outbox[worker.row].attempts > 0
       /\ worker.pc \in {"check", "issue", "send"} =>
             /\ calls[worker.row] < outbox[worker.row].attempts
             /\ phone[worker.row] \subseteq 1..outbox[worker.row].attempts - 1
       /\ worker.pc = "send" =>
             outbox[worker.row].token = IF worker.browsers = {} THEN 0 ELSE outbox[worker.row].attempts

RowsInv == \A r \in Rows : RowInv(r)

IInv == TypeOK /\ RowsInv /\ AttemptInv /\ BudgetHeld

(* What no step may do to a row: the two action properties, row by row. *)
Keeps(r) ==
    /\ Finished(outbox[r]) =>
          /\ calls'[r] = calls[r]
          /\ \/ Follows(outbox[r], outbox'[r])
             \/ Done(outbox[r]) /\ Reviving(r) /\ outbox'[r].status \in {"retry", "dead_letter"}
    /\ outbox[r].ack # "none" => outbox'[r].ack = outbox[r].ack
KeepsAll == \A r \in Rows : Keeps(r)

LEMMA Basics ==
    /\ Rows \subseteq Nat \ {0} /\ IsFiniteSet(Rows) /\ IsFiniteSet(Attempts)
    /\ Attempts \subseteq Nat /\ NumRows \in Nat
BY FS_Interval, NumbersAssumption DEF Rows, Attempts

(* The rows counted against the budget only shrink unless one is added. *)
LEMMA BudgetKept ==
    ASSUME BudgetHeld,
           \A r \in Rows :
              outbox'[r].status # "absent" /\ outbox'[r].kind = "attention" /\ outbox'[r].why \notin {"preference", "budget"}
              => /\ outbox[r].status # "absent" /\ outbox[r].kind = "attention"
                 /\ outbox[r].why \notin {"preference", "budget"}
    PROVE  BudgetHeld'
<1> DEFINE Old == {r \in Counted(outbox) : outbox[r].kind = "attention"}
           New == {r \in Counted(outbox') : outbox'[r].kind = "attention"}
<1>1. New \subseteq Old
  BY DEF Counted
<1>2. IsFiniteSet(Old)
  BY Basics, FS_Subset DEF Counted
<1>3. Cardinality(New) <= Cardinality(Old) /\ Cardinality(New) \in Nat /\ Cardinality(Old) \in Nat
  BY <1>1, <1>2, FS_Subset, FS_CardinalityType
<1>4. Cardinality(Old) <= Budget
  BY DEF BudgetHeld
<1>5. Cardinality(New) <= Budget
  BY <1>3, <1>4, NumbersAssumption
<1> QED
  BY <1>5 DEF BudgetHeld

(* Nothing about the rows changes. *)
LEMMA RowsUnmoved ==
    ASSUME IInv, UNCHANGED <<outbox, made, phone, calls, taps>>
    PROVE  RowsInv' /\ BudgetHeld' /\ KeepsAll
<1>1. RowsInv' /\ BudgetHeld'
  BY DEF IInv, RowsInv, RowInv, Sane, BudgetHeld, Counted
<1>2. KeepsAll
  BY DEF KeepsAll, Keeps, Follows
<1> QED
  BY <1>1, <1>2

(* One row is edited: its attempts stay, and so do the taps it can have. *)
LEMMA RowEdited ==
    ASSUME IInv, NEW r \in Rows, NEW y \in Row, r <= made,
           outbox' = [outbox EXCEPT ![r] = y], UNCHANGED <<made, phone, calls>>,
           Sane(y), y.status # "absent", y.kind = outbox[r].kind, y.attempts = outbox[r].attempts,
           outbox[r].why \in {"preference", "budget"} => y.why = outbox[r].why,
           \A q \in Rows : q # r => taps'[q] = taps[q],
           taps'[r] <= Cardinality(phone[r] \ {y.token})
    PROVE  /\ outbox' \in [Rows -> Row] /\ outbox'[r] = y /\ \A q \in Rows : q # r => outbox'[q] = outbox[q]
           /\ RowsInv' /\ BudgetHeld'
<1>1. outbox \in [Rows -> Row]
  BY DEF IInv, TypeOK
<1>2. outbox' \in [Rows -> Row] /\ outbox'[r] = y /\ \A q \in Rows : q # r => outbox'[q] = outbox[q]
  BY <1>1
<1>3. made \in Nat
  BY NumbersAssumption DEF IInv, TypeOK
<1>4. ASSUME NEW q \in Rows PROVE RowInv(q)'
  <2>1. RowInv(q)
    BY DEF IInv, RowsInv
  <2>2. CASE q = r
    <3>1. ~(r > made)
      BY <1>3, Basics
    <3> QED
      BY <1>2, <2>1, <2>2, <3>1 DEF RowInv, Sane
  <2>3. CASE q # r
    BY <1>2, <2>1, <2>3 DEF RowInv, Sane
  <2> QED
    BY <2>2, <2>3
<1>5. BudgetHeld'
  <2>1. BudgetHeld /\ outbox[r].status # "absent"
    BY DEF IInv, RowsInv, RowInv
  <2>2. \A q \in Rows :
          outbox'[q].status # "absent" /\ outbox'[q].kind = "attention" /\ outbox'[q].why \notin {"preference", "budget"}
          => /\ outbox[q].status # "absent" /\ outbox[q].kind = "attention"
             /\ outbox[q].why \notin {"preference", "budget"}
    BY <1>2, <2>1
  <2> QED
    BY <2>1, <2>2, BudgetKept
<1> QED
  BY <1>2, <1>4, <1>5 DEF RowsInv

(* A row keeps the taps it can have when it forgets or replaces its token. *)
LEMMA TapsKept ==
    ASSUME IInv, NEW r \in Rows, NEW k, k \notin phone[r] \/ k = outbox[r].token
    PROVE  taps[r] <= Cardinality(phone[r] \ {k})
<1>1. RowInv(r) /\ phone[r] \subseteq Attempts /\ taps[r] \in Nat
  BY DEF IInv, RowsInv, TypeOK
<1>2. IsFiniteSet(phone[r] \ {k}) /\ phone[r] \ {outbox[r].token} \subseteq phone[r] \ {k}
  BY <1>1, Basics, FS_Subset
<1>3. /\ Cardinality(phone[r] \ {outbox[r].token}) <= Cardinality(phone[r] \ {k})
      /\ Cardinality(phone[r] \ {outbox[r].token}) \in Nat /\ Cardinality(phone[r] \ {k}) \in Nat
  BY <1>2, FS_Subset, FS_CardinalityType
<1> QED
  BY <1>1, <1>3 DEF RowInv

LEMMA ZeroNotShown ==
    ASSUME IInv, NEW r \in Rows
    PROVE  0 \notin phone[r]
<1>1. outbox[r].attempts \in Nat
  BY RowFields, Basics DEF IInv, TypeOK
<1>2. phone[r] \subseteq 1..outbox[r].attempts
  BY DEF IInv, RowsInv, RowInv
<1> QED
  BY <1>1, <1>2

(* The row of the attempt in hand. *)
LEMMA OwnRow ==
    ASSUME IInv, worker.pc \in Attempting
    PROVE  /\ worker.row \in Rows /\ worker.row <= made /\ outbox[worker.row] \in Row
           /\ Sane(outbox[worker.row]) /\ outbox[worker.row].status # "absent"
           /\ outbox[worker.row].attempts > 0 /\ outbox[worker.row].why = "none"
           /\ outbox[worker.row].status = "sending" \/ Done(outbox[worker.row])
           /\ worker.pc # "record" \/ worker.answer # "lost" => outbox[worker.row].status = "sending"
<1>1. worker.row \in Rows /\ worker.row <= made
  BY DEF IInv, AttemptInv
<1>2. /\ outbox[worker.row].status = "sending" \/ Done(outbox[worker.row])
      /\ worker.pc # "record" \/ worker.answer # "lost" => outbox[worker.row].status = "sending"
  BY DEF IInv, AttemptInv, Reviving
<1> QED
  BY <1>1, <1>2 DEF IInv, AttemptInv, RowsInv, RowInv, TypeOK, Sane, Live, Done

-----------------------------------------------------------------------------
(* Each step keeps the invariant and the rows. *)

LEMMA RestType == Rest \in Worker /\ Rest.pc = "idle"
BY NumbersAssumption DEF Rest, Worker

LEMMA CheckSteps == ASSUME IInv, Check PROVE IInv' /\ KeepsAll
<1> DEFINE r == worker.row
<1>1. worker.pc \in Attempting
  BY DEF Check, Attempting
<1>2. /\ r \in Rows /\ r <= made /\ outbox[r] \in Row /\ Sane(outbox[r]) /\ outbox[r].status = "sending"
      /\ outbox[r].why = "none"
  BY <1>1, OwnRow DEF Check
<1>3. CASE worker' = Rest /\ UNCHANGED outbox
  <2>1. RowsInv' /\ BudgetHeld' /\ KeepsAll
    BY <1>3, RowsUnmoved DEF Check
  <2>2. TypeOK'
    BY <1>3, RestType DEF Check, IInv, TypeOK
  <2> QED
    BY <1>3, <2>1, <2>2, RestType DEF IInv, AttemptInv, Attempting
<1>4. CASE worker' = [worker EXCEPT !.pc = "issue"] /\ UNCHANGED outbox
  <2>1. RowsInv' /\ BudgetHeld' /\ KeepsAll
    BY <1>4, RowsUnmoved DEF Check
  <2>2. worker \in Worker /\ worker' \in Worker /\ worker'.pc = "issue" /\ worker'.row = r /\ worker.pc = "check"
    BY <1>4 DEF IInv, TypeOK, Worker, Check
  <2>3. TypeOK'
    BY <1>4, <2>2 DEF Check, IInv, TypeOK
  <2>4. AttemptInv'
    BY <1>2, <1>4, <2>2 DEF Check, IInv, AttemptInv, Attempting
  <2> QED
    BY <2>1, <2>3, <2>4 DEF IInv
<1>5. CASE worker' = Rest /\ outbox' = [outbox EXCEPT ![r] = Drop(@, "preference")]
  <2> DEFINE y == Drop(outbox[r], "preference")
  <2>1. y \in Row /\ Sane(y) /\ Same(outbox[r], y) /\ y.status = "expired"
    BY <1>2, DropRow
  <2>2. taps[r] <= Cardinality(phone[r] \ {y.token})
    BY <1>2, <2>1, TapsKept DEF Same
  <2>3. outbox' = [outbox EXCEPT ![r] = y] /\ UNCHANGED <<made, phone, calls, taps>>
    BY <1>5 DEF Check
  <2> HIDE DEF y
  <2>4. /\ outbox' \in [Rows -> Row] /\ outbox'[r] = y /\ \A q \in Rows : q # r => outbox'[q] = outbox[q]
        /\ RowsInv' /\ BudgetHeld'
    BY <1>2, <2>1, <2>2, <2>3, RowEdited DEF Same
  <2>5. KeepsAll
    BY <1>2, <2>1, <2>3, <2>4 DEF KeepsAll, Keeps, Finished, Follows, Live, Same
  <2>6. TypeOK'
    BY <1>5, <2>4, RestType DEF Check, IInv, TypeOK
  <2> QED
    BY <1>5, <2>4, <2>5, <2>6, RestType DEF IInv, AttemptInv, Attempting
<1> QED
  BY <1>3, <1>4, <1>5 DEF Check

LEMMA IssueSteps == ASSUME IInv, Issue PROVE IInv' /\ KeepsAll
<1> DEFINE r == worker.row
           k == IF subs = {} THEN 0 ELSE outbox[r].attempts
           y == [outbox[r] EXCEPT !.token = k]
<1>1. worker.pc = "issue" /\ worker.pc \in Attempting /\ worker \in Worker
  BY DEF Issue, Attempting, IInv, TypeOK
<1>2. /\ r \in Rows /\ r <= made /\ outbox[r] \in Row /\ Sane(outbox[r]) /\ outbox[r].status = "sending"
      /\ outbox[r].attempts > 0 /\ outbox[r].why = "none"
  BY <1>1, OwnRow
<1>3. calls[r] < outbox[r].attempts /\ phone[r] \subseteq 1..outbox[r].attempts - 1
  BY <1>1 DEF IInv, AttemptInv, Attempting
<1>4. outbox[r].attempts \in Attempts /\ outbox[r].attempts \in Nat /\ k \in Attempts
  BY <1>2, RowFields, Basics, RowValues
<1>5. k \notin phone[r]
  BY <1>2, <1>3, <1>4, ZeroNotShown
<1>6. y \in Row /\ y.token = k /\ y.status = "sending" /\ y.kind = outbox[r].kind
      /\ y.attempts = outbox[r].attempts /\ y.why = "none" /\ y.ack = outbox[r].ack
  BY <1>2, <1>4 DEF Row
<1>7. Sane(y)
  BY <1>6, <1>2 DEF Sane, Live
<1>8. taps[r] <= Cardinality(phone[r] \ {y.token})
  BY <1>2, <1>5, <1>6, TapsKept
<1>9. outbox' = [outbox EXCEPT ![r] = y] /\ UNCHANGED <<made, phone, calls, taps>>
  BY <1>2 DEF Issue, IInv, TypeOK
<1>10. worker' \in Worker /\ worker'.pc = "send" /\ worker'.row = r /\ worker'.browsers = subs
  BY <1>1 DEF Issue, Worker, IInv, TypeOK
<1>11. k = IF worker'.browsers = {} THEN 0 ELSE outbox[r].attempts
  BY <1>10
<1> HIDE DEF y, k
<1>12. /\ outbox' \in [Rows -> Row] /\ outbox'[r] = y /\ \A q \in Rows : q # r => outbox'[q] = outbox[q]
       /\ RowsInv' /\ BudgetHeld'
  BY <1>2, <1>6, <1>7, <1>8, <1>9, RowEdited
<1>13. KeepsAll
  BY <1>2, <1>6, <1>9, <1>12 DEF KeepsAll, Keeps, Finished, Follows, Live
<1>14. TypeOK'
  BY <1>10, <1>12 DEF Issue, IInv, TypeOK
<1>15. AttemptInv'
  BY <1>2, <1>3, <1>6, <1>9, <1>10, <1>11, <1>12 DEF AttemptInv, Attempting
<1> QED
  BY <1>12, <1>13, <1>14, <1>15 DEF IInv

(* What the attempt leaves when its outcome is written. *)
LEMMA OutcomeWritten ==
    ASSUME IInv, worker.pc \in Attempting, NEW y \in Row, Sane(y), Same(outbox[worker.row], y), y.status # "absent",
           outbox[worker.row].status = "sending" \/ (Reviving(worker.row) /\ y.status \in {"retry", "dead_letter"}),
           outbox' = [outbox EXCEPT ![worker.row] = y], worker' = Rest, subs' \subseteq Browsers,
           crashes' \in 0..MaxCrashes, UNCHANGED <<made, device, phone, calls, taps, changes>>
    PROVE  IInv' /\ KeepsAll
<1> DEFINE r == worker.row
<1>1. /\ r \in Rows /\ r <= made /\ outbox[r] \in Row /\ Sane(outbox[r])
      /\ outbox[r].status = "sending" \/ Done(outbox[r])
      /\ outbox[r].why = "none"
  BY OwnRow
<1>2. taps[r] <= Cardinality(phone[r] \ {y.token})
  BY <1>1, TapsKept DEF Same
<1>3. /\ outbox' \in [Rows -> Row] /\ outbox'[r] = y /\ \A q \in Rows : q # r => outbox'[q] = outbox[q]
      /\ RowsInv' /\ BudgetHeld'
  BY <1>1, <1>2, RowEdited DEF Same
<1>4. KeepsAll
  <2>1. Keeps(r)
    BY <1>1, <1>3 DEF Keeps, Finished, Live, Same
  <2>2. \A q \in Rows : q # r => Keeps(q)
    BY <1>3 DEF Keeps, Follows
  <2> QED
    BY <2>1, <2>2 DEF KeepsAll
<1>5. TypeOK'
  BY <1>3, RestType DEF IInv, TypeOK
<1> QED
  BY <1>3, <1>4, <1>5, RestType DEF IInv, AttemptInv, Attempting

LEMMA RecordSteps == ASSUME IInv, Record PROVE IInv' /\ KeepsAll
<1> DEFINE x == outbox[worker.row]
           y == IF worker.answer = "accepted" THEN Accepted(x) ELSE Failed(x, worker.answer)
<1>1. worker.pc \in Attempting
  BY DEF Record, Attempting
<1>2. /\ worker.row \in Rows /\ x \in Row /\ Sane(x) /\ x.attempts > 0
      /\ x.status = "sending" \/ Done(x)
      /\ worker.answer # "lost" => x.status = "sending"
  BY <1>1, OwnRow
<1>3. /\ y \in Row /\ Sane(y) /\ Same(x, y) /\ y.status # "absent"
      /\ worker.answer # "accepted" => y.status \in {"retry", "dead_letter"}
  <2>1. CASE worker.answer = "accepted"
    <3>1. y = Accepted(x) /\ x.status = "sending"
      BY <1>2, <2>1
    <3>2. Accepted(x) \in Row /\ Sane(Accepted(x)) /\ Same(x, Accepted(x)) /\ Accepted(x).status = "provider_accepted"
      BY <1>2, <3>1, AcceptedRow
    <3> QED
      BY <2>1, <3>1, <3>2, Zenon
  <2>2. CASE worker.answer # "accepted"
    <3>1. y = Failed(x, worker.answer)
      BY <2>2
    <3>2. /\ Failed(x, worker.answer) \in Row /\ Sane(Failed(x, worker.answer)) /\ Same(x, Failed(x, worker.answer))
          /\ Failed(x, worker.answer).status \in {"retry", "dead_letter"}
      BY <1>2, FailedRow
    <3>3. y \in Row /\ Sane(y) /\ Same(x, y) /\ y.status \in {"retry", "dead_letter"}
      BY <3>1, <3>2, Zenon
    <3> HIDE DEF y
    <3> QED
      BY <3>3
  <2> QED
    BY <2>1, <2>2
<1>4. outbox' = [outbox EXCEPT ![worker.row] = y] /\ worker' = Rest /\ UNCHANGED <<made, device, subs, phone, calls, taps, crashes, changes>>
  BY DEF Record
<1>5. subs' \subseteq Browsers /\ crashes' \in 0..MaxCrashes
  BY <1>4 DEF IInv, TypeOK
<1>6. x.status = "sending" \/ (Reviving(worker.row) /\ y.status \in {"retry", "dead_letter"})
  BY <1>2, <1>3 DEF Record, Reviving
<1> HIDE DEF y
<1> QED
  BY <1>1, <1>3, <1>4, <1>5, <1>6, OutcomeWritten

LEMMA StoreResultsSteps == ASSUME IInv, StoreResults PROVE IInv' /\ KeepsAll
<1>1. RowsInv' /\ BudgetHeld' /\ KeepsAll
  BY RowsUnmoved DEF StoreResults
<1>2. worker \in Worker /\ worker' \in Worker /\ worker'.pc = "record" /\ worker'.row = worker.row
  BY DEF StoreResults, IInv, TypeOK, Worker
<1>3. TypeOK'
  BY <1>2 DEF StoreResults, IInv, TypeOK
<1>4. outbox[worker.row].status = "sending" /\ worker.pc \in Attempting
  BY OwnRow DEF StoreResults, Attempting
<1>5. AttemptInv'
  BY <1>2, <1>4 DEF StoreResults, IInv, AttemptInv, Attempting
<1> QED
  BY <1>1, <1>3, <1>5 DEF IInv

LEMMA StoreResultsLostSteps == ASSUME IInv, StoreResultsLost PROVE IInv' /\ KeepsAll
<1>1. RowsInv' /\ BudgetHeld' /\ KeepsAll
  BY RowsUnmoved DEF StoreResultsLost
<1>2. worker \in Worker /\ worker' \in Worker /\ worker'.pc = "record" /\ worker'.row = worker.row
  BY DEF StoreResultsLost, IInv, TypeOK, Worker
<1>3. TypeOK'
  BY <1>2, NumbersAssumption DEF StoreResultsLost, IInv, TypeOK
<1>4. outbox[worker.row].status = "sending" /\ worker.pc \in Attempting
  BY OwnRow DEF StoreResultsLost, Attempting
<1>5. AttemptInv'
  BY <1>2, <1>4 DEF StoreResultsLost, IInv, AttemptInv, Attempting
<1> QED
  BY <1>1, <1>3, <1>5 DEF IInv

(* The acceptance takes effect or not; its failure is still to be recorded. *)
LEMMA AcceptanceLostSteps == ASSUME IInv, AcceptanceLost PROVE IInv' /\ KeepsAll
<1> DEFINE r == worker.row
           x == outbox[r]
           y == Accepted(x)
<1>1. worker.pc = "record" /\ worker.pc \in Attempting /\ worker.answer = "accepted" /\ worker \in Worker
  BY DEF AcceptanceLost, Attempting, IInv, TypeOK
<1>2. /\ r \in Rows /\ r <= made /\ x \in Row /\ Sane(x) /\ x.status = "sending" /\ x.attempts > 0
  BY <1>1, OwnRow
<1>3. UNCHANGED <<made, device, subs, phone, calls, taps, changes>> /\ crashes' \in 0..MaxCrashes
  BY NumbersAssumption DEF AcceptanceLost, IInv, TypeOK
<1>4. worker' \in Worker /\ worker'.pc = "record" /\ worker'.row = r /\ worker'.answer = "lost"
  BY <1>1 DEF AcceptanceLost, Worker
<1>5. CASE UNCHANGED outbox
  <2>1. RowsInv' /\ BudgetHeld' /\ KeepsAll
    BY <1>3, <1>5, RowsUnmoved
  <2>2. TypeOK'
    BY <1>3, <1>4, <1>5 DEF IInv, TypeOK
  <2>3. AttemptInv'
    BY <1>2, <1>3, <1>4, <1>5 DEF AttemptInv, Attempting
  <2> QED
    BY <2>1, <2>2, <2>3 DEF IInv
<1>6. CASE outbox' = [outbox EXCEPT ![r] = Accepted(@)]
  <2>1. y \in Row /\ Sane(y) /\ Same(x, y) /\ y.status = "provider_accepted" /\ y.why = "none"
    BY <1>2, AcceptedRow
  <2>2. taps[r] <= Cardinality(phone[r] \ {y.token})
    BY <1>2, <2>1, TapsKept DEF Same
  <2>3. outbox' = [outbox EXCEPT ![r] = y] /\ x.why = "none"
    BY <1>1, <1>6, OwnRow
  <2> HIDE DEF y
  <2>4. /\ outbox' \in [Rows -> Row] /\ outbox'[r] = y /\ \A q \in Rows : q # r => outbox'[q] = outbox[q]
        /\ RowsInv' /\ BudgetHeld'
    BY <1>2, <1>3, <2>1, <2>2, <2>3, RowEdited DEF Same
  <2>5. KeepsAll
    <3>1. Keeps(r)
      BY <1>2, <2>1, <2>4 DEF Keeps, Finished, Live, Same
    <3>2. \A q \in Rows : q # r => Keeps(q)
      BY <1>3, <2>4 DEF Keeps, Follows
    <3> QED
      BY <3>1, <3>2 DEF KeepsAll
  <2>6. TypeOK'
    BY <1>3, <1>4, <2>4 DEF IInv, TypeOK
  <2>7. outbox'[r].attempts > 0 /\ Reviving(r)' /\ Done(outbox'[r])
    BY <1>2, <1>4, <2>1, <2>4 DEF Same, Reviving, Done
  <2>8. AttemptInv'
    BY <1>2, <1>3, <1>4, <2>7 DEF AttemptInv, Reviving
  <2> QED
    BY <2>4, <2>5, <2>6, <2>8 DEF IInv
<1> QED
  BY <1>5, <1>6 DEF AcceptanceLost

LEMMA CrashSteps == ASSUME IInv, Crash PROVE IInv' /\ KeepsAll
<1>1. RowsInv' /\ BudgetHeld' /\ KeepsAll
  BY RowsUnmoved DEF Crash
<1>2. TypeOK'
  BY RestType, NumbersAssumption DEF Crash, IInv, TypeOK
<1> QED
  BY <1>1, <1>2, RestType DEF Crash, IInv, AttemptInv, Attempting

LEMMA DeviceSteps == ASSUME IInv, DeviceChanges PROVE IInv' /\ KeepsAll
<1>1. UNCHANGED <<outbox, made, worker, phone, calls, taps, crashes>> /\ changes' \in 0..MaxChanges
  BY NumbersAssumption DEF DeviceChanges, SetPreferences, QuietHours, Disable, Subscribe, Unsubscribe, Changing, IInv, TypeOK
<1>2. device' \in [enabled: BOOLEAN, opted: BOOLEAN, quiet: BOOLEAN] /\ subs' \subseteq Browsers
  BY DEF DeviceChanges, SetPreferences, QuietHours, Disable, Subscribe, Unsubscribe, IInv, TypeOK
<1>3. RowsInv' /\ BudgetHeld' /\ KeepsAll
  BY <1>1, RowsUnmoved
<1>4. TypeOK'
  BY <1>1, <1>2 DEF IInv, TypeOK
<1> QED
  BY <1>1, <1>3, <1>4 DEF IInv, AttemptInv, Reviving

(* A call is counted, and what it shows carries the token the row stores. *)
LEMMA CallMade ==
    ASSUME IInv, worker.pc = "send", NEW shown \in SUBSET Attempts,
           shown \subseteq (IF worker.browsers = {} THEN {} ELSE {outbox[worker.row].token}),
           phone' = [phone EXCEPT ![worker.row] = @ \union shown],
           calls' = [calls EXCEPT ![worker.row] = @ + 1],
           worker' \in Worker, worker'.pc \in {"store", "record"}, worker'.row = worker.row,
           UNCHANGED <<outbox, made, device, subs, taps, crashes, changes>>
    PROVE  IInv' /\ KeepsAll
<1> DEFINE r == worker.row
           x == outbox[worker.row]
<1>1. worker.pc \in Attempting
  BY DEF Attempting
<1>2. /\ r \in Rows /\ r <= made /\ x \in Row /\ Sane(x) /\ x.status = "sending" /\ x.attempts > 0
  BY <1>1, OwnRow, worker.pc = "send"
<1>3. /\ calls[r] < x.attempts /\ phone[r] \subseteq 1..x.attempts - 1
      /\ x.token = IF worker.browsers = {} THEN 0 ELSE x.attempts
  BY <1>1 DEF IInv, AttemptInv, Attempting
<1>4. x.attempts \in Attempts /\ x.attempts \in Nat /\ calls[r] \in Nat /\ phone[r] \subseteq Attempts
  BY <1>2, RowFields, Basics DEF IInv, TypeOK
<1>5. shown \subseteq {x.token} /\ shown \subseteq 1..x.attempts
  BY <1>2, <1>3, <1>4
<1>6. calls'[r] = calls[r] + 1 /\ phone'[r] = phone[r] \union shown
  BY <1>2 DEF IInv, TypeOK
<1>7. \A q \in Rows : q # r => calls'[q] = calls[q] /\ phone'[q] = phone[q]
  BY <1>2 DEF IInv, TypeOK
<1>8. TypeOK'
  <2>1. calls' \in [Rows -> Nat] /\ phone' \in [Rows -> SUBSET Attempts]
    BY <1>2, <1>4 DEF IInv, TypeOK
  <2> QED
    BY <2>1 DEF IInv, TypeOK
<1>9. RowInv(r)'
  <2>1. RowInv(r)
    BY <1>2 DEF IInv, RowsInv
  <2>2. calls'[r] <= x.attempts /\ phone'[r] \subseteq 1..x.attempts
    <3>1. calls'[r] <= x.attempts
      BY <1>3, <1>4, <1>6
    <3>2. phone[r] \subseteq 1..x.attempts
      BY <1>3, <1>4
    <3> QED
      BY <1>5, <1>6, <3>1, <3>2
  <2>3. phone'[r] \ {x.token} = phone[r] \ {x.token}
    BY <1>5, <1>6
  <2> QED
    BY <2>1, <2>2, <2>3 DEF RowInv, Sane
<1>10. RowsInv'
  <2>1. ASSUME NEW q \in Rows, q # r PROVE RowInv(q)'
    BY <1>7, <2>1 DEF IInv, RowsInv, RowInv, Sane
  <2> QED
    BY <1>9, <2>1 DEF RowsInv
<1>11. BudgetHeld'
  BY DEF IInv, BudgetHeld, Counted
<1>12. KeepsAll
  BY <1>2, <1>7 DEF KeepsAll, Keeps, Finished, Follows, Live
<1>13. AttemptInv'
  BY <1>1, <1>2 DEF IInv, AttemptInv, Attempting
<1> QED
  BY <1>8, <1>10, <1>11, <1>12, <1>13 DEF IInv

LEMMA SendNtfySteps == ASSUME IInv, SendNtfy PROVE IInv' /\ KeepsAll
<1>1. worker.pc = "send" /\ worker \in Worker /\ phone \in [Rows -> SUBSET Attempts]
  BY DEF SendNtfy, IInv, TypeOK
<1>2. worker' \in Worker /\ worker'.pc \in {"store", "record"} /\ worker'.row = worker.row
  BY <1>1 DEF SendNtfy, Worker
<1>3. phone' = [phone EXCEPT ![worker.row] = @ \union {}]
  BY <1>1 DEF SendNtfy
<1> QED
  BY <1>1, <1>2, <1>3, CallMade DEF SendNtfy

LEMMA SendWebPushSteps == ASSUME IInv, SendWebPush PROVE IInv' /\ KeepsAll
<1>1. worker.pc = "send" /\ worker.browsers # {} /\ worker \in Worker /\ worker.pc \in Attempting
  BY DEF SendWebPush, IInv, TypeOK, Attempting
<1>2. outbox[worker.row].token \in Attempts
  BY <1>1, OwnRow, RowFields
<1>3a. PICK f \in [worker.browsers -> Results] : \E answer \in Summary(f) \intersect Answers :
         /\ worker' = [worker EXCEPT !.pc = "store", !.answer = answer,
                                     !.browsers = {b \in worker.browsers : f[b] = "gone"}]
         /\ \E shown \in SUBSET (IF \E b \in DOMAIN f : f[b] \in {"accepted", "retry"}
                                 THEN {outbox[worker.row].token} ELSE {}) :
               phone' = [phone EXCEPT ![worker.row] = @ \union shown]
  BY DEF SendWebPush
<1>3. PICK answer \in Summary(f) \intersect Answers :
         /\ worker' = [worker EXCEPT !.pc = "store", !.answer = answer,
                                     !.browsers = {b \in worker.browsers : f[b] = "gone"}]
         /\ \E shown \in SUBSET (IF \E b \in DOMAIN f : f[b] \in {"accepted", "retry"}
                                 THEN {outbox[worker.row].token} ELSE {}) :
               phone' = [phone EXCEPT ![worker.row] = @ \union shown]
  BY <1>3a
<1>4. PICK shown \in SUBSET {outbox[worker.row].token} : phone' = [phone EXCEPT ![worker.row] = @ \union shown]
  BY <1>3
<1>5. shown \in SUBSET Attempts /\ shown \subseteq (IF worker.browsers = {} THEN {} ELSE {outbox[worker.row].token})
  BY <1>1, <1>2
<1>6. worker' \in Worker /\ worker'.pc \in {"store", "record"} /\ worker'.row = worker.row
  <2>1. {b \in worker.browsers : f[b] = "gone"} \subseteq Browsers
    BY <1>1 DEF Worker
  <2> QED
    BY <1>1, <1>3, <2>1 DEF Worker
<1>7. /\ calls' = [calls EXCEPT ![worker.row] = @ + 1]
      /\ UNCHANGED <<outbox, made, device, subs, taps, crashes, changes>>
  BY DEF SendWebPush
<1> QED
  BY <1>1, <1>4, <1>5, <1>6, <1>7, CallMade

(* The operator and the phone act on a row that may be in the worker's hands. *)
LEMMA ActingSteps == ASSUME IInv, NEW r \in Rows, Acting(r) PROVE IInv' /\ KeepsAll
<1> DEFINE x == outbox[r]
           y == outbox'[r]
<1>0. RowInv(r)
  BY DEF IInv, RowsInv
<1>1. x \in Row /\ Sane(x) /\ RowInv(r) /\ made \in Nat
  BY <1>0, NumbersAssumption DEF IInv, RowInv, TypeOK
<1>2. x.attempts \in Attempts /\ x.token \in Attempts /\ 0 \in Attempts /\ phone[r] \subseteq Attempts
  BY <1>1, RowFields, RowValues DEF IInv, TypeOK
<1>3. UNCHANGED <<made, device, subs, worker, phone, calls, crashes, changes>>
  BY DEF Acting, Confirm, Acknowledge, TokenLapses, Tap
<1>4. r <= made
  <2>1. r > made => x.status = "absent" /\ x.attempts = 0 /\ x.token = 0
    BY <1>1 DEF RowInv, Blank
  <2>2. 0 \notin phone[r]
    BY ZeroNotShown
  <2>3. ~(r > made)
    BY <2>1, <2>2 DEF Acting, Confirm, Acknowledge, TokenLapses, Tap
  <2> QED
    BY <1>1, <2>3, Basics
<1>5. x.status # "absent"
  BY <1>1, <1>4 DEF RowInv
(* What each of the four writes. *)
<1>6. /\ outbox' = [outbox EXCEPT ![r] = y] /\ y \in Row /\ Sane(y) /\ y.status # "absent"
      /\ y.kind = x.kind /\ y.attempts = x.attempts /\ y.why = x.why /\ Follows(x, y)
      /\ x.status = "sending" => y.status = "sending"
      /\ x.ack # "none" => y.ack = x.ack
      /\ y.token = x.token \/ (y.token = 0 /\ (x.token \in phone[r] \/ x.status \notin Live))
  <2>1. CASE Confirm(r)
    <3>1. outbox' = [outbox EXCEPT ![r].status = "operator_confirmed", ![r].ack = IF @ = "none" THEN "operator" ELSE @]
      BY <2>1 DEF Confirm
    <3>2. y = [x EXCEPT !.status = "operator_confirmed", !.ack = IF @ = "none" THEN "operator" ELSE @]
      BY <3>1 DEF IInv, TypeOK
    <3>3. x.status = "provider_accepted" /\ "operator_confirmed" \in Statuses
      BY <2>1, RowValues DEF Confirm
    <3>4. y \in Row
      BY <1>1, <3>2, <3>3 DEF Row
    <3>5. /\ y.status = "operator_confirmed" /\ y.kind = x.kind /\ y.attempts = x.attempts /\ y.why = x.why
          /\ y.token = x.token /\ (x.ack # "none" => y.ack = x.ack)
      BY <1>1, <3>2 DEF Row
    <3>6. outbox' = [outbox EXCEPT ![r] = y]
      BY <3>1, <3>2 DEF IInv, TypeOK
    <3> QED
      BY <1>1, <3>3, <3>4, <3>5, <3>6 DEF Sane, Live, Follows
  <2>2. CASE Acknowledge(r)
    <3>1. outbox' = [outbox EXCEPT ![r].ack = "operator"] /\ x.ack = "none"
      BY <2>2 DEF Acknowledge
    <3>2. y = [x EXCEPT !.ack = "operator"]
      BY <3>1 DEF IInv, TypeOK
    <3>4. y \in Row
      BY <1>1, <3>2 DEF Row
    <3>5. /\ y.status = x.status /\ y.kind = x.kind /\ y.attempts = x.attempts /\ y.why = x.why
          /\ y.token = x.token
      BY <1>1, <3>2 DEF Row
    <3>6. outbox' = [outbox EXCEPT ![r] = y]
      BY <3>1, <3>2 DEF IInv, TypeOK
    <3> QED
      BY <1>1, <1>5, <3>1, <3>4, <3>5, <3>6 DEF Sane, Live, Follows
  <2>3. CASE TokenLapses(r)
    <3>1. outbox' = [outbox EXCEPT ![r].token = 0] /\ x.status \notin Live
      BY <2>3 DEF TokenLapses
    <3>2. y = [x EXCEPT !.token = 0]
      BY <3>1 DEF IInv, TypeOK
    <3>4. y \in Row
      BY <1>1, <1>2, <3>2 DEF Row
    <3>5. /\ y.status = x.status /\ y.kind = x.kind /\ y.attempts = x.attempts /\ y.why = x.why
          /\ y.token = 0 /\ y.ack = x.ack
      BY <1>1, <3>2 DEF Row
    <3>6. outbox' = [outbox EXCEPT ![r] = y]
      BY <3>1, <3>2 DEF IInv, TypeOK
    <3> QED
      BY <1>1, <1>5, <3>1, <3>4, <3>5, <3>6 DEF Sane, Live, Follows
  <2>4. CASE \E k \in Attempts : Tap(r, k)
    <3>0. x.token \in phone[r]
      BY <2>4 DEF Tap
    <3>1. outbox' = [outbox EXCEPT ![r].token = 0, ![r].ack = IF @ = "none" THEN "device" ELSE @]
      BY <2>4 DEF Tap
    <3>2. y = [x EXCEPT !.token = 0, !.ack = IF @ = "none" THEN "device" ELSE @]
      BY <3>1 DEF IInv, TypeOK
    <3>4. y \in Row
      BY <1>1, <1>2, <3>2 DEF Row
    <3>5. /\ y.status = x.status /\ y.kind = x.kind /\ y.attempts = x.attempts /\ y.why = x.why
          /\ y.token = 0 /\ (x.ack # "none" => y.ack = x.ack)
      BY <1>1, <3>2 DEF Row
    <3>6. outbox' = [outbox EXCEPT ![r] = y]
      BY <3>1, <3>2 DEF IInv, TypeOK
    <3> QED
      BY <1>1, <1>5, <3>0, <3>4, <3>5, <3>6 DEF Sane, Live, Follows
  <2> QED
    BY <2>1, <2>2, <2>3, <2>4 DEF Acting
<1>7. /\ taps' \in [Rows -> Nat] /\ \A q \in Rows : q # r => taps'[q] = taps[q]
      /\ taps'[r] <= Cardinality(phone[r] \ {y.token})
  <2>1. CASE UNCHANGED taps
    <3>1. 0 \notin phone[r]
      BY ZeroNotShown
    <3>2. taps[r] <= Cardinality(phone[r] \ {y.token})
      BY <1>6, <3>1, TapsKept
    <3> QED
      BY <2>1, <3>2 DEF IInv, TypeOK
  <2>2. CASE \E k \in Attempts : Tap(r, k)
    <3>1. taps' = [taps EXCEPT ![r] = @ + 1] /\ x.token \in phone[r]
      BY <2>2 DEF Tap
    <3>2. outbox' = [outbox EXCEPT ![r].token = 0, ![r].ack = IF @ = "none" THEN "device" ELSE @]
      BY <2>2 DEF Tap
    <3>3. y.token = 0
      BY <1>1, <3>2 DEF IInv, TypeOK, Row
    <3>4. phone[r] \ {y.token} = phone[r] /\ IsFiniteSet(phone[r])
      BY <1>2, <3>3, ZeroNotShown, Basics, FS_Subset
    <3>5. Cardinality(phone[r] \ {x.token}) = Cardinality(phone[r]) - 1
      BY <3>1, <3>4, FS_RemoveElement
    <3>6. Cardinality(phone[r]) \in Nat /\ taps[r] \in Nat /\ taps \in [Rows -> Nat]
      BY <3>4, FS_CardinalityType DEF IInv, TypeOK
    <3>7. taps'[r] = taps[r] + 1 /\ taps' \in [Rows -> Nat] /\ \A q \in Rows : q # r => taps'[q] = taps[q]
      BY <3>1, <3>6
    <3>8. taps[r] <= Cardinality(phone[r] \ {x.token})
      BY <1>1 DEF RowInv
    <3>9. taps[r] + 1 <= Cardinality(phone[r])
      BY <3>5, <3>6, <3>8
    <3> QED
      BY <3>4, <3>7, <3>9
  <2> QED
    BY <2>1, <2>2 DEF Acting, Confirm, Acknowledge, TokenLapses
<1>8. /\ outbox' \in [Rows -> Row] /\ \A q \in Rows : q # r => outbox'[q] = outbox[q]
      /\ RowsInv' /\ BudgetHeld'
  BY <1>3, <1>4, <1>6, <1>7, RowEdited
<1>9. KeepsAll
  BY <1>3, <1>6, <1>8 DEF KeepsAll, Keeps, Follows
<1>10. TypeOK'
  BY <1>3, <1>7, <1>8 DEF IInv, TypeOK
<1>11. AttemptInv'
  <2>1. SUFFICES ASSUME worker.pc \in Attempting PROVE AttemptInv'
    BY <1>3 DEF AttemptInv
  <2>2. CASE worker.row # r
    BY <1>3, <1>8, <2>1, <2>2 DEF IInv, AttemptInv, Reviving
  <2>3. CASE worker.row = r
    <3>1. /\ x.status = "sending" \/ (Reviving(r) /\ Done(x))
          /\ worker.pc = "send" => x.status = "sending" /\ x.status \in Live
          /\ Reviving(r)' <=> Reviving(r)
      BY <1>3, <2>1, <2>3 DEF IInv, AttemptInv, Live, Reviving
    <3>2. worker.pc = "send" => x.token \notin phone[r]
      <4>1. SUFFICES ASSUME worker.pc = "send" PROVE x.token \notin phone[r]
        OBVIOUS
      <4>2. phone[r] \subseteq 1..x.attempts - 1 /\ (x.token = 0 \/ x.token = x.attempts)
        BY <2>3, <4>1 DEF IInv, AttemptInv, Attempting
      <4>3. x.attempts \in Nat
        BY <1>2, Basics
      <4> QED
        BY <4>2, <4>3
    <3>3. worker.pc = "send" => y.token = x.token
      BY <1>6, <3>1, <3>2
    <3>4. y.status = "sending" \/ (Reviving(r)' /\ Done(y))
      BY <1>6, <3>1 DEF Follows, Done
    <3> QED
      BY <1>3, <1>6, <2>1, <2>3, <3>3, <3>4 DEF IInv, AttemptInv
  <2> QED
    BY <2>2, <2>3
<1> QED
  BY <1>8, <1>9, <1>10, <1>11 DEF IInv

(* A blank row is written over by a row nobody has attempted. *)
LEMMA BlankReplaced ==
    ASSUME IInv, NEW r \in Rows, outbox[r] = Blank, calls'[r] = calls[r], phone'[r] = phone[r], taps'[r] = taps[r],
           Sane(outbox'[r]), outbox'[r].status # "absent", outbox'[r].attempts = 0, outbox'[r].token = 0,
           made' \in Int, r <= made'
    PROVE  RowInv(r)'
<1>1. RowInv(r)
  BY DEF IInv, RowsInv
<1>2. Blank.attempts = 0 /\ Blank.token = 0
  BY DEF Blank
<1>3. ~(r > made')
  BY Basics
<1> QED
  BY <1>1, <1>2, <1>3 DEF RowInv, Sane

(* One row is created outside the worker. *)
LEMMA RowMade ==
    ASSUME IInv, made < NumRows, NEW y \in Row, Sane(y), y.status # "absent", y.kind # "attention",
           y.attempts = 0, y.token = 0, made' = made + 1, outbox' = [outbox EXCEPT ![made'] = y],
           UNCHANGED <<device, subs, worker, phone, calls, taps, crashes, changes>>
    PROVE  IInv' /\ KeepsAll
<1>1. made \in Nat /\ made' \in Rows /\ made' \in 0..NumRows /\ made' > made
  BY NumbersAssumption DEF IInv, TypeOK, Rows
<1>2. /\ outbox' \in [Rows -> Row] /\ outbox'[made'] = y
      /\ \A q \in Rows : q # made' => outbox'[q] = outbox[q]
  BY <1>1 DEF IInv, TypeOK
<1>3. outbox[made'] = Blank
  BY <1>1 DEF IInv, RowsInv, RowInv
<1>4. ASSUME NEW q \in Rows PROVE RowInv(q)'
  <2>1. CASE q = made'
    BY <1>1, <1>2, <1>3, <2>1, BlankReplaced
  <2>2. CASE q # made'
    <3>1. (q > made' => q > made) /\ (q <= made' => q <= made)
      BY <1>1, <2>2, Basics
    <3>2. RowInv(q)
      BY DEF IInv, RowsInv
    <3> QED
      BY <1>2, <2>2, <3>1, <3>2 DEF RowInv, Sane
  <2> QED
    BY <2>1, <2>2
<1>5. BudgetHeld'
  <2>1. BudgetHeld
    BY DEF IInv
  <2> QED
    BY <1>2, <2>1, BudgetKept
<1>6. KeepsAll
  BY <1>2, <1>3 DEF KeepsAll, Keeps, Finished, Blank, Follows
<1>7. TypeOK'
  BY <1>1, <1>2 DEF IInv, TypeOK
<1>8. AttemptInv'
  <2>1. SUFFICES ASSUME worker.pc \in Attempting PROVE AttemptInv'
    BY DEF AttemptInv
  <2>2. worker.row \in Rows /\ worker.row <= made
    BY <2>1, OwnRow
  <2>3. worker.row # made' /\ worker.row <= made'
    <3>1. worker.row \in Nat /\ made' = made + 1
      BY <2>2, Basics
    <3> QED
      BY <1>1, <2>2, <3>1
  <2> QED
    BY <1>2, <2>1, <2>2, <2>3 DEF IInv, AttemptInv, Reviving
<1> QED
  BY <1>4, <1>5, <1>6, <1>7, <1>8 DEF IInv, RowsInv

LEMMA SendTestSteps == ASSUME IInv, SendTest PROVE IInv' /\ KeepsAll
<1>1. /\ Made("test") \in Row /\ Sane(Made("test")) /\ Made("test").status = "queued"
      /\ Made("test").kind = "test" /\ Made("test").attempts = 0 /\ Made("test").token = 0
  BY MadeRow
<1> QED
  BY <1>1, RowMade DEF SendTest

LEMMA RouteSteps == ASSUME IInv, Route PROVE IInv' /\ KeepsAll
<1>1. PICK age \in RouterAges : outbox' = [outbox EXCEPT ![made'] = [Made("routed") EXCEPT !.age = age]]
  BY DEF Route
<1> DEFINE m == Made("routed")
           y == [Made("routed") EXCEPT !.age = age]
<1>2. m \in Row /\ Sane(m) /\ m.status = "queued" /\ m.kind = "routed" /\ m.attempts = 0 /\ m.token = 0 /\ m.why = "none"
  BY MadeRow
<1>3. age \in 0..Expiry
  BY AgesAssumption, NumbersAssumption
<1>4. y \in Row /\ y.status = "queued" /\ y.kind = "routed" /\ y.attempts = 0 /\ y.token = 0 /\ y.why = "none"
  <2> HIDE DEF m
  <2>1. y = [m EXCEPT !.age = age]
    BY DEF m
  <2> QED
    BY <1>2, <1>3, <2>1 DEF Row
<1>5. Sane(y)
  BY <1>4 DEF Sane
<1> HIDE DEF y
<1> QED
  BY <1>1, <1>4, <1>5, RowMade DEF Route, y

(* A burst: the messages counted before it and the new ones fit the budget. *)
LEMMA ProduceSteps == ASSUME IInv, Produce PROVE IInv' /\ KeepsAll
<1> DEFINE used == Cardinality(Counted(outbox))
<1>1. PICK n \in 0..MaxBurst :
         /\ made + n <= NumRows /\ made' = made + n
         /\ outbox' = [r \in Rows |->
                IF r \notin made + 1 .. made + n THEN outbox[r]
                ELSE IF device.quiet THEN Drop(Made("attention"), "preference")
                ELSE IF used + (r - made - 1) >= Budget THEN Drop(Made("attention"), "budget")
                ELSE Made("attention")]
  BY DEF Produce
<1>2. /\ worker' = [worker EXCEPT !.pc = "claim"] /\ UNCHANGED <<device, subs, phone, calls, taps, crashes, changes>>
  BY DEF Produce
<1>3. made \in Nat /\ n \in Nat /\ made' \in 0..NumRows /\ made' \in Nat /\ Budget \in Nat
  BY <1>1, NumbersAssumption DEF IInv, TypeOK
<1>4. used \in Nat /\ IsFiniteSet(Counted(outbox))
  BY Basics, FS_Subset, FS_CardinalityType DEF Counted
<1> HIDE DEF used
<1>5. ASSUME NEW r \in Rows, r \notin made + 1 .. made + n PROVE outbox'[r] = outbox[r]
  BY <1>1, <1>5
<1>6. ASSUME NEW r \in Rows, r \in made + 1 .. made + n
      PROVE  /\ outbox'[r] \in Row /\ Sane(outbox'[r]) /\ outbox'[r].status # "absent"
             /\ outbox'[r].attempts = 0 /\ outbox'[r].token = 0 /\ outbox[r] = Blank
             /\ outbox'[r].why \notin {"preference", "budget"} => used + (r - made - 1) < Budget
  <2> DEFINE m == Made("attention")
  <2>1. /\ m \in Row /\ Sane(m) /\ m.status = "queued" /\ m.attempts = 0 /\ m.token = 0 /\ m.why = "none"
    BY MadeRow
  <2>2. \A w \in {"preference", "budget"} :
           /\ Drop(m, w) \in Row /\ Sane(Drop(m, w)) /\ Drop(m, w).attempts = 0 /\ Drop(m, w).token = 0
           /\ Drop(m, w).status = "expired" /\ Drop(m, w).why = w
    BY <2>1, DropRow DEF Same
  <2>3. outbox'[r] = IF device.quiet THEN Drop(m, "preference")
                     ELSE IF used + (r - made - 1) >= Budget THEN Drop(m, "budget") ELSE m
    BY <1>1, <1>6
  <2>4. outbox[r] = Blank
    <3>1. r > made
      BY <1>3, <1>6
    <3> QED
      BY <3>1 DEF IInv, RowsInv, RowInv
  <2>5. used + (r - made - 1) \in Int
    BY <1>3, <1>4, Basics
  <2> HIDE DEF m
  <2> QED
    BY <1>3, <2>1, <2>2, <2>3, <2>4, <2>5
<1>7. outbox' \in [Rows -> Row]
  <2>1. outbox' = [r \in Rows |-> outbox'[r]]
    BY <1>1
  <2>2. \A r \in Rows : outbox'[r] \in Row
    BY <1>5, <1>6 DEF IInv, TypeOK
  <2> QED
    BY <2>1, <2>2
<1>8. ASSUME NEW r \in Rows PROVE RowInv(r)'
  <2>1. CASE r \in made + 1 .. made + n
    BY <1>1, <1>2, <1>3, <1>6, <2>1, BlankReplaced
  <2>2. CASE r \notin made + 1 .. made + n
    <3>1. (r > made' => r > made) /\ (r <= made' => r <= made)
      BY <1>1, <1>3, <2>2, Basics
    <3>2. RowInv(r)
      BY DEF IInv, RowsInv
    <3> QED
      BY <1>2, <1>5, <2>2, <3>1, <3>2 DEF RowInv, Sane
  <2> QED
    BY <2>1, <2>2
<1>9. BudgetHeld'
  <2> DEFINE Old == {r \in Counted(outbox) : outbox[r].kind = "attention"}
             New == {r \in Counted(outbox') : outbox'[r].kind = "attention"}
             Fresh == made + 1 .. made + (Budget - used)
  <2>1. IsFiniteSet(Old) /\ Cardinality(Old) \in Nat /\ Cardinality(Old) <= used /\ Cardinality(Old) <= Budget
    <3>1. Old \subseteq Counted(outbox)
      OBVIOUS
    <3> QED
      BY <1>4, <3>1, FS_Subset, FS_CardinalityType DEF used, IInv, BudgetHeld
  <2>2. New \subseteq Old \union Fresh
    <3>1. SUFFICES ASSUME NEW r \in New, r \notin Old PROVE r \in Fresh
      OBVIOUS
    <3>2. r \in Rows /\ outbox'[r].why \notin {"preference", "budget"}
      BY DEF Counted
    <3>3. r \in made + 1 .. made + n
      BY <1>5, <3>1, <3>2 DEF Counted
    <3>4. used + (r - made - 1) < Budget
      BY <1>6, <3>2, <3>3
    <3> QED
      BY <1>3, <1>4, <3>3, <3>4
  <2>3. CASE used >= Budget
    <3>1. Fresh = {}
      BY <1>3, <1>4, <2>3
    <3>2. Cardinality(New) <= Cardinality(Old) /\ Cardinality(New) \in Nat
      BY <2>1, <2>2, <3>1, FS_Subset, FS_CardinalityType
    <3>3. Cardinality(New) <= Budget
      BY <1>3, <2>1, <3>2
    <3> QED
      BY <3>3 DEF BudgetHeld
  <2>4. CASE used < Budget
    <3>1. IsFiniteSet(Fresh) /\ Cardinality(Fresh) = Budget - used
      <4> DEFINE last == made + (Budget - used)
      <4>1. last \in Int /\ made + 1 \in Int /\ ~(made + 1 > last) /\ last - (made + 1) + 1 = Budget - used
        BY <1>3, <1>4, <2>4
      <4>2. IsFiniteSet(made + 1 .. last) /\ Cardinality(made + 1 .. last) = last - (made + 1) + 1
        <5> HIDE DEF last
        <5> QED
          BY <4>1, FS_Interval
      <4> QED
        BY <4>1, <4>2
    <3>2. IsFiniteSet(Old \union Fresh) /\ Cardinality(Old \union Fresh) <= Cardinality(Old) + Cardinality(Fresh)
      <4>1. /\ IsFiniteSet(Old \union Fresh)
            /\ Cardinality(Old \union Fresh) = Cardinality(Old) + Cardinality(Fresh) - Cardinality(Old \intersect Fresh)
        BY <2>1, <3>1, FS_Union
      <4>2. Cardinality(Old \intersect Fresh) \in Nat
        <5>1. IsFiniteSet(Old \intersect Fresh)
          BY <2>1, FS_Subset
        <5> QED
          BY <5>1, FS_CardinalityType
      <4> HIDE DEF Old, Fresh
      <4> QED
        BY <1>3, <1>4, <2>1, <3>1, <4>1, <4>2
    <3>3. Cardinality(New) <= Cardinality(Old \union Fresh) /\ Cardinality(New) \in Nat
      BY <2>2, <3>2, FS_Subset, FS_CardinalityType
    <3>4. Cardinality(Old \union Fresh) \in Nat
      BY <3>2, FS_CardinalityType
    <3>5. Cardinality(New) <= Budget
      <4> HIDE DEF Old, Fresh, New
      <4> QED
        BY <1>3, <1>4, <2>1, <3>1, <3>2, <3>3, <3>4
    <3> QED
      BY <3>5 DEF BudgetHeld
  <2> QED
    BY <1>3, <1>4, <2>3, <2>4
<1>10. KeepsAll
  <2>1. ASSUME NEW r \in Rows PROVE Keeps(r)
    <3>1. CASE r \in made + 1 .. made + n
      BY <1>6, <3>1 DEF Keeps, Finished, Blank
    <3>2. CASE r \notin made + 1 .. made + n
      BY <1>2, <1>5, <3>2 DEF Keeps, Follows
    <3> QED
      BY <3>1, <3>2
  <2> QED
    BY <2>1 DEF KeepsAll
<1>11. worker' \in Worker /\ worker'.pc = "claim"
  BY <1>2 DEF IInv, TypeOK, Worker
<1>12. TypeOK'
  BY <1>2, <1>3, <1>7, <1>11 DEF IInv, TypeOK
<1> QED
  BY <1>8, <1>9, <1>10, <1>11, <1>12 DEF IInv, RowsInv, AttemptInv, Attempting

(* Every row is rewritten by a step that sends nothing and makes no row. *)
LEMMA RowsRewritten ==
    ASSUME IInv, outbox' \in [Rows -> Row], UNCHANGED <<made, phone, calls, taps>>,
           \A r \in Rows :
              /\ Sane(outbox'[r])
              /\ outbox[r].status = "absent" => outbox'[r] = outbox[r]
              /\ outbox[r].status # "absent" => outbox'[r].status # "absent"
              /\ outbox'[r].kind = outbox[r].kind /\ outbox'[r].token = outbox[r].token
              /\ outbox'[r].attempts >= outbox[r].attempts
              /\ outbox[r].why \in {"preference", "budget"} => outbox'[r].why = outbox[r].why
    PROVE  RowsInv' /\ BudgetHeld'
<1>1. ASSUME NEW r \in Rows PROVE RowInv(r)'
  <2>1. RowInv(r) /\ outbox[r] \in Row /\ outbox'[r] \in Row /\ calls[r] \in Nat
    BY DEF IInv, RowsInv, TypeOK
  <2>2. outbox[r].attempts \in Nat /\ outbox'[r].attempts \in Nat
    BY <2>1, RowFields, Basics
  <2>3. calls[r] <= outbox'[r].attempts /\ phone[r] \subseteq 1..outbox'[r].attempts
    BY <2>1, <2>2 DEF RowInv
  <2>4. r > made => outbox'[r] = Blank
    <3>1. Blank.status = "absent"
      BY BlankRow
    <3> QED
      BY <2>1, <3>1 DEF RowInv
  <2> QED
    BY <2>1, <2>3, <2>4 DEF RowInv
<1>2. BudgetHeld'
  <2>1. BudgetHeld /\ \A r \in Rows : Sane(outbox[r])
    BY DEF IInv, RowsInv, RowInv
  <2>2. \A r \in Rows :
          outbox'[r].status # "absent" /\ outbox'[r].kind = "attention" /\ outbox'[r].why \notin {"preference", "budget"}
          => /\ outbox[r].status # "absent" /\ outbox[r].kind = "attention"
             /\ outbox[r].why \notin {"preference", "budget"}
    OBVIOUS
  <2> QED
    BY <2>1, <2>2, BudgetKept
<1> QED
  BY <1>1, <1>2 DEF RowsInv

LEMMA ClaimSteps == ASSUME IInv, Claim PROVE IInv' /\ KeepsAll
<1> DEFINE swept == [r \in Rows |-> Sweep(outbox[r])]
<1>1. \A r \in Rows : outbox[r] \in Row /\ Sane(outbox[r])
  BY DEF IInv, TypeOK, RowsInv, RowInv
<1>2. \A r \in Rows :
         /\ swept[r] \in Row /\ Sane(swept[r]) /\ Same(outbox[r], swept[r])
         /\ outbox[r].status \notin Live => swept[r] = outbox[r]
         /\ outbox[r].status \in Live => swept[r].status # "absent"
  BY <1>1, SweepRow
<1>3. worker.pc = "claim" /\ worker \in Worker /\ UNCHANGED <<made, device, subs, phone, calls, taps, crashes, changes>>
  BY DEF Claim, IInv, TypeOK
<1>4. swept \in [Rows -> Row]
  BY <1>2
<1>5. \A r \in Rows : outbox[r].attempts \in Nat
  BY <1>1, RowFields, Basics
<1>6. CASE outbox' = swept /\ worker' = Rest
  <2>1. \A r \in Rows :
              /\ Sane(outbox'[r])
              /\ outbox[r].status = "absent" => outbox'[r] = outbox[r]
              /\ outbox[r].status # "absent" => outbox'[r].status # "absent"
              /\ outbox'[r].kind = outbox[r].kind /\ outbox'[r].token = outbox[r].token
              /\ outbox'[r].attempts >= outbox[r].attempts
              /\ outbox[r].why \in {"preference", "budget"} => outbox'[r].why = outbox[r].why
    <3> HIDE DEF swept
    <3>1. \A r \in Rows : outbox[r].why \in {"preference", "budget"} => outbox[r].status \notin Live
      BY <1>1 DEF Sane, Live
    <3>2. \A r \in Rows : outbox[r].status = "absent" => outbox[r].status \notin Live
      BY DEF Live
    <3> QED
      BY <1>2, <1>5, <1>6, <3>1, <3>2 DEF Same
  <2>2. RowsInv' /\ BudgetHeld'
    BY <1>3, <1>4, <1>6, <2>1, RowsRewritten
  <2>3. KeepsAll
    BY <1>2, <1>3, <1>6 DEF KeepsAll, Keeps, Finished, Follows, Same
  <2>4. TypeOK'
    BY <1>3, <1>4, <1>6, RestType DEF IInv, TypeOK
  <2> QED
    BY <1>6, <2>2, <2>3, <2>4, RestType DEF IInv, AttemptInv, Attempting
<1>7. ASSUME NEW r \in Rows, Claimable(swept[r]), outbox' = [swept EXCEPT ![r] = Claimed(@)],
             worker' = [worker EXCEPT !.pc = "check", !.row = r]
      PROVE  IInv' /\ KeepsAll
  <2> DEFINE x == outbox[r]
             y == Claimed(swept[r])
  <2>1. /\ y \in Row /\ Sane(y) /\ y.status = "sending" /\ y.attempts = swept[r].attempts + 1
        /\ y.why = swept[r].why /\ y.kind = swept[r].kind /\ y.token = swept[r].token /\ y.ack = swept[r].ack
        /\ swept[r].status \in Live
    BY <1>2, <1>7, ClaimedRow
  <2>2. x.status \in Live /\ x.why = "none" /\ y.why \in {"none", "exhausted"}
    <3>1. x.status \in Live
      BY <1>2, <2>1
    <3>2. x.why = "none"
      BY <1>1, <3>1 DEF Sane
    <3> QED
      BY <1>1, <2>1, <3>1, <3>2, SweepRow
  <2>3. outbox'[r] = y /\ \A q \in Rows : q # r => outbox'[q] = swept[q]
    BY <1>4, <1>7
  <2>4. outbox' \in [Rows -> Row]
    <3> HIDE DEF swept
    <3> QED
      BY <1>4, <1>7, <2>1
  <2> HIDE DEF swept, y
  <2>5. /\ y.attempts = x.attempts + 1 /\ y.kind = x.kind /\ y.token = x.token /\ y.ack = x.ack
    BY <1>2, <2>1 DEF Same
  <2>6. \A q \in Rows :
              /\ Sane(outbox'[q])
              /\ outbox[q].status = "absent" => outbox'[q] = outbox[q]
              /\ outbox[q].status # "absent" => outbox'[q].status # "absent"
              /\ outbox'[q].kind = outbox[q].kind /\ outbox'[q].token = outbox[q].token
              /\ outbox'[q].attempts >= outbox[q].attempts
              /\ outbox[q].why \in {"preference", "budget"} => outbox'[q].why = outbox[q].why
    <3>1. ASSUME NEW q \in Rows, q # r
          PROVE  /\ Sane(outbox'[q])
                 /\ outbox[q].status = "absent" => outbox'[q] = outbox[q]
                 /\ outbox[q].status # "absent" => outbox'[q].status # "absent"
                 /\ outbox'[q].kind = outbox[q].kind /\ outbox'[q].token = outbox[q].token
                 /\ outbox'[q].attempts >= outbox[q].attempts
                 /\ outbox[q].why \in {"preference", "budget"} => outbox'[q].why = outbox[q].why
      <4>1. outbox[q].why \in {"preference", "budget"} => outbox[q].status \notin Live
        BY <1>1 DEF Sane, Live
      <4>2. outbox[q].status = "absent" => outbox[q].status \notin Live
        BY DEF Live
      <4> QED
        BY <1>2, <1>5, <2>3, <3>1, <4>1, <4>2 DEF Same
    <3>2. x.status # "absent"
      BY <2>2 DEF Live
    <3> QED
      BY <1>5, <2>1, <2>2, <2>3, <2>5, <3>1, <3>2
  <2>7. RowsInv' /\ BudgetHeld'
    BY <1>3, <2>4, <2>6, RowsRewritten
  <2>8. KeepsAll
    <3>1. ASSUME NEW q \in Rows PROVE Keeps(q)
      <4>1. CASE q = r
        BY <2>2, <2>3, <2>5, <4>1 DEF Keeps, Finished
      <4>2. CASE q # r
        BY <1>2, <1>3, <2>3, <4>2 DEF Keeps, Finished, Follows, Same
      <4> QED
        BY <4>1, <4>2
    <3> QED
      BY <3>1 DEF KeepsAll
  <2>9. worker' \in Worker /\ worker'.pc = "check" /\ worker'.row = r
    <3>1. r \in 0..NumRows
      BY NumbersAssumption DEF Rows
    <3> QED
      BY <1>3, <1>7, <3>1 DEF Worker
  <2>10. TypeOK'
    BY <1>3, <2>4, <2>9 DEF IInv, TypeOK
  <2>11. AttemptInv'
    <3>1. RowInv(r) /\ x.status # "absent" /\ x.attempts \in Nat /\ calls[r] \in Nat
      BY <1>5, <2>2 DEF IInv, RowsInv, TypeOK, Live
    <3>2. r <= made
      <4>1. ~(r > made)
        BY <3>1, BlankRow DEF RowInv
      <4>2. made \in Nat
        BY NumbersAssumption DEF IInv, TypeOK
      <4> QED
        BY <4>1, <4>2, Basics
    <3>3. calls[r] < x.attempts + 1 /\ phone[r] \subseteq 1..(x.attempts + 1) - 1 /\ x.attempts + 1 > 0
      BY <3>1 DEF RowInv
    <3> QED
      BY <1>3, <2>1, <2>3, <2>5, <2>9, <3>2, <3>3 DEF AttemptInv, Attempting
  <2> QED
    BY <2>7, <2>8, <2>10, <2>11 DEF IInv
<1> QED
  BY <1>6, <1>7 DEF Claim

(* Time only shortens what is left, and lengthens the age of what is served. *)
LEMMA PassSteps == ASSUME IInv, Pass PROVE IInv' /\ KeepsAll
<1>1. \A r \in Rows : outbox[r] \in Row /\ Sane(outbox[r]) /\ outbox[r].attempts \in Nat
  BY RowFields, Basics DEF IInv, TypeOK, RowsInv, RowInv
<1>2. /\ worker \in Worker /\ worker' = [worker EXCEPT !.due = Less(@)]
      /\ UNCHANGED <<made, device, subs, phone, calls, taps, crashes, changes>>
  BY DEF Pass, IInv, TypeOK
<1>3. ASSUME NEW r \in Rows
      PROVE  /\ outbox'[r] \in Row /\ Same(outbox[r], outbox'[r])
             /\ outbox'[r].status = outbox[r].status /\ outbox'[r].why = outbox[r].why
             /\ outbox[r].status = "absent" => outbox'[r] = outbox[r]
  <2> DEFINE x == outbox[r]
  <2>0. Reviving(r) => x.status # "absent"
    BY OwnRow DEF Reviving, Attempting
  <2>1. CASE x.status \in Live \/ Reviving(r)
    <3> DEFINE a == Min({x.age + 1, Expiry})
    <3>1. x.age \in Nat /\ x.age <= Expiry /\ x.wait \in Nat /\ x.wait <= Expiry /\ x.lease \in Nat /\ x.lease <= Lease
      BY <1>1, RowFields, NumbersAssumption
    <3>2. a = IF x.age + 1 <= Expiry THEN x.age + 1 ELSE Expiry
      BY <3>1, MinOfTwo, NumbersAssumption
    <3> HIDE DEF a
    <3>3. a \in 0..Expiry
      BY <3>1, <3>2, NumbersAssumption
    <3>4. Less(x.wait) \in 0..Expiry /\ Less(x.lease) \in 0..Lease
      BY <3>1, LessType, NumbersAssumption
    <3>5. outbox'[r] = [x EXCEPT !.age = a, !.wait = Less(@), !.lease = Less(@)]
      BY <2>1 DEF Pass, a
    <3>6. outbox'[r] \in Row
      BY <1>1, <3>3, <3>4, <3>5 DEF Row
    <3>7. Same(x, outbox'[r]) /\ outbox'[r].status = x.status /\ outbox'[r].why = x.why
      BY <1>1, <3>5 DEF Row, Same
    <3>8. x.status # "absent"
      BY <2>0, <2>1 DEF Live
    <3> QED
      BY <3>6, <3>7, <3>8
  <2>2. CASE ~(x.status \in Live \/ Reviving(r))
    BY <1>1, <2>2 DEF Pass, Same
  <2> QED
    BY <2>1, <2>2
<1>4. outbox' \in [Rows -> Row]
  <2>1. outbox' = [r \in Rows |-> outbox'[r]]
    BY DEF Pass
  <2> QED
    BY <1>3, <2>1
<1>5. RowsInv' /\ BudgetHeld'
  <2>1. \A r \in Rows :
              /\ Sane(outbox'[r])
              /\ outbox[r].status = "absent" => outbox'[r] = outbox[r]
              /\ outbox[r].status # "absent" => outbox'[r].status # "absent"
              /\ outbox'[r].kind = outbox[r].kind /\ outbox'[r].token = outbox[r].token
              /\ outbox'[r].attempts >= outbox[r].attempts
              /\ outbox[r].why \in {"preference", "budget"} => outbox'[r].why = outbox[r].why
    BY <1>1, <1>3 DEF Same, Sane, Live
  <2> QED
    BY <1>2, <1>4, <2>1, RowsRewritten
<1>6. KeepsAll
  BY <1>2, <1>3 DEF KeepsAll, Keeps, Follows, Same
<1>7. /\ worker' \in Worker /\ worker'.pc = worker.pc /\ worker'.row = worker.row
      /\ worker'.browsers = worker.browsers /\ worker'.answer = worker.answer
  <2>1. worker.due \in Nat /\ worker.due <= Period
    BY <1>2, NumbersAssumption DEF Worker
  <2>2. Less(worker.due) \in 0..Period
    BY <2>1, LessType, NumbersAssumption
  <2> QED
    BY <1>2, <2>2 DEF Worker
<1>8. TypeOK'
  BY <1>2, <1>4, <1>7 DEF IInv, TypeOK
<1>9. AttemptInv'
  <2>1. SUFFICES ASSUME worker.pc \in Attempting PROVE AttemptInv'
    BY <1>7 DEF AttemptInv
  <2>2. worker.row \in Rows
    BY <2>1, OwnRow
  <2> QED
    BY <1>2, <1>3, <1>7, <2>1, <2>2 DEF IInv, AttemptInv, Same, Reviving, Done
<1> QED
  BY <1>5, <1>6, <1>8, <1>9 DEF IInv

-----------------------------------------------------------------------------
(* The invariant is inductive. *)

LEMMA InitHolds == Init => IInv
<1> SUFFICES ASSUME Init PROVE IInv
  OBVIOUS
<1>1. TypeOK
  <2>1. [Rest EXCEPT !.due = 0] \in Worker
    BY NumbersAssumption DEF Rest, Worker
  <2>2. Blank \in Row
    BY BlankRow
  <2> QED
    BY <2>1, <2>2, NumbersAssumption DEF Init, TypeOK
<1>2. ASSUME NEW r \in Rows PROVE RowInv(r)
  <2>1. outbox[r] = Blank /\ made = 0 /\ phone[r] = {} /\ calls[r] = 0 /\ taps[r] = 0
    BY DEF Init
  <2>2. Blank.attempts = 0 /\ Sane(Blank)
    BY BlankRow DEF Blank
  <2>3. phone[r] \ {outbox[r].token} = {} /\ Cardinality({}) = 0
    BY <2>1, FS_EmptySet
  <2>4. ~(r <= made)
    BY <2>1, Basics
  <2> QED
    BY <2>1, <2>2, <2>3, <2>4 DEF RowInv
<1>3. worker.pc = "idle"
  BY DEF Init, Rest
<1>4. BudgetHeld
  <2>1. Counted(outbox) = {}
    BY BlankRow DEF Init, Counted
  <2>2. {r \in Counted(outbox) : outbox[r].kind = "attention"} = {}
    BY <2>1
  <2> QED
    BY <2>2, FS_EmptySet, NumbersAssumption DEF BudgetHeld
<1> QED
  BY <1>1, <1>2, <1>3, <1>4 DEF IInv, RowsInv, AttemptInv, Attempting

LEMMA StepsKeep == IInv /\ [Next]_vars => IInv' /\ (KeepsAll \/ UNCHANGED vars)
<1> SUFFICES ASSUME IInv, [Next]_vars PROVE IInv' /\ (KeepsAll \/ UNCHANGED vars)
  OBVIOUS
<1>1. CASE Produce
  BY <1>1, ProduceSteps
<1>2. CASE Claim
  BY <1>2, ClaimSteps
<1>3. CASE Check
  BY <1>3, CheckSteps
<1>4. CASE Issue
  BY <1>4, IssueSteps
<1>5. CASE SendNtfy
  BY <1>5, SendNtfySteps
<1>6. CASE SendWebPush
  BY <1>6, SendWebPushSteps
<1>7. CASE StoreResults
  BY <1>7, StoreResultsSteps
<1>8. CASE Record
  BY <1>8, RecordSteps
<1>9. CASE StoreResultsLost
  BY <1>9, StoreResultsLostSteps
<1>9a. CASE AcceptanceLost
  BY <1>9a, AcceptanceLostSteps
<1>10. CASE Crash
  BY <1>10, CrashSteps
<1>11. CASE SendTest
  BY <1>11, SendTestSteps
<1>12. CASE Route
  BY <1>12, RouteSteps
<1>13. CASE DeviceChanges
  BY <1>13, DeviceSteps
<1>14. ASSUME NEW r \in Rows, Acting(r) PROVE IInv' /\ KeepsAll
  BY <1>14, ActingSteps
<1>15. CASE Pass
  BY <1>15, PassSteps
<1>16. CASE UNCHANGED vars
  <2>1. RowsInv' /\ BudgetHeld'
    BY <1>16, RowsUnmoved DEF vars
  <2> QED
    BY <1>16, <2>1 DEF vars, IInv, TypeOK, AttemptInv, Reviving
<1> QED
  BY <1>1, <1>2, <1>3, <1>4, <1>5, <1>6, <1>7, <1>8, <1>9, <1>9a, <1>10, <1>11, <1>12, <1>13, <1>14, <1>15, <1>16
     DEF Next, Working

THEOREM Inductive == Spec => []IInv
<1>1. Init => IInv
  BY InitHolds
<1>2. IInv /\ [Next]_vars => IInv'
  BY StepsKeep
<1> QED
  BY <1>1, <1>2, PTL DEF Spec

-----------------------------------------------------------------------------
(* Every reachable state of the outbox is well typed, for any number of     *)
(* rows, browsers, attempts, crashes and changes.                           *)
THEOREM OutboxTyped == Spec => []TypeOK
<1>1. IInv => TypeOK
  BY DEF IInv
<1> QED
  BY <1>1, Inductive, PTL

(* While an attempt is in hand nobody else takes its row: record_accepted   *)
(* and record_failure, which write by id alone, find it still sending, or   *)
(* accepted by this very attempt, whose acceptance was taken for lost.      *)
THEOREM AttemptsOwnTheirRow == Spec => []AttemptOwnsRow
<1>1. IInv => AttemptOwnsRow
  BY DEF IInv, AttemptInv, AttemptOwnsRow, Attempting
<1> QED
  BY <1>1, Inductive, PTL

(* claim_next counts an attempt before it is made: no row is sent more      *)
(* often than it has attempts, whatever crashes or cannot be written.       *)
THEOREM CallsAreCounted == Spec => []CallsCounted
<1>1. IInv => CallsCounted
  BY DEF IInv, RowsInv, RowInv, CallsCounted
<1> QED
  BY <1>1, Inductive, PTL

(* A dead letter was refused for good or used every attempt. *)
THEOREM DeadLettersEarned == Spec => []DeadLetterEarned
<1>1. IInv => DeadLetterEarned
  BY DEF IInv, RowsInv, RowInv, Sane, DeadLetterEarned
<1> QED
  BY <1>1, Inductive, PTL

(* A notification is acknowledged by at most one tap, for any number of     *)
(* attempts, browsers and lost answers.                                     *)
THEOREM TapsUsedOnce == Spec => []TapsSingleUse
<1>1. IInv => TapsSingleUse
  <2> SUFFICES ASSUME IInv, NEW r \in Rows PROVE taps[r] <= Cardinality(phone[r])
    BY DEF TapsSingleUse
  <2>1. 0 \notin phone[r] /\ phone[r] \subseteq Attempts /\ taps[r] \in Nat
    BY ZeroNotShown DEF IInv, TypeOK
  <2>2. IsFiniteSet(phone[r]) /\ phone[r] \ {0} = phone[r] /\ phone[r] \ {outbox[r].token} \subseteq phone[r]
    BY <2>1, Basics, FS_Subset
  <2>3. /\ Cardinality(phone[r] \ {outbox[r].token}) <= Cardinality(phone[r])
        /\ Cardinality(phone[r]) \in Nat /\ Cardinality(phone[r] \ {outbox[r].token}) \in Nat
    BY <2>2, FS_Subset, FS_CardinalityType
  <2>4. taps[r] <= Cardinality(phone[r] \ {outbox[r].token})
    BY DEF IInv, RowsInv, RowInv
  <2> QED
    BY <2>1, <2>3, <2>4
<1> QED
  BY <1>1, Inductive, PTL

(* The worker's messages never exceed the phone's budget, for any burst. *)
THEOREM BudgetNeverPassed == Spec => []BudgetHeld
<1>1. IInv => BudgetHeld
  BY DEF IInv
<1> QED
  BY <1>1, Inductive, PTL

(* Only the attempt that was accepted brings its row back, when the reply   *)
(* to its acceptance was lost: no sweep, other attempt or tap revives a     *)
(* finished row, and expired rows and dead letters never come back.         *)
THEOREM RevivedOnlyByLostReplies == Spec => RevivedOnlyByLostReply
<1>1. IInv /\ [Next]_vars =>
        [\A r \in Rows : Finished(outbox[r]) =>
            /\ calls'[r] = calls[r]
            /\ \/ Follows(outbox[r], outbox'[r])
               \/ Done(outbox[r]) /\ Reviving(r) /\ outbox'[r].status \in {"retry", "dead_letter"}]_vars
  BY StepsKeep DEF KeepsAll, Keeps
<1> QED
  BY <1>1, Inductive, PTL DEF Spec, RevivedOnlyByLostReply

(* The first acknowledgement of a row is the one it keeps. *)
THEOREM FirstAcknowledgementKept == Spec => FirstAckKept
<1>1. IInv /\ [Next]_vars => [\A r \in Rows : outbox[r].ack # "none" => outbox'[r].ack = outbox[r].ack]_vars
  BY StepsKeep DEF KeepsAll, Keeps
<1> QED
  BY <1>1, Inductive, PTL DEF Spec, FirstAckKept

=============================================================================
