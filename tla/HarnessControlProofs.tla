------------------------- MODULE HarnessControlProofs -------------------------
(***************************************************************************)
(* Proofs about HarnessControl, for any number of hosts, commands and       *)
(* faults: a command runs at most once, the row shows the current result,  *)
(* and an agreed stop is one a host saw.                                    *)
(***************************************************************************)
EXTENDS HarnessControl, TLAPS

(* A host that holds a command: the claim was granted to it. *)
Holds(h, c) == pc[h].at \in {"claimed", "begun", "ran"} /\ pc[h].c = c

(* Only a command that was issued has rows, and nobody is ahead of it. *)
Issued ==
    /\ \A c \in Commands : c > Current => audit[c] = {}
    /\ \A h \in Hosts : pc[h].c <= Current

(* What a record of command c may say, when n were issued and the gateway   *)
(* was seen in the state of those in R.                                     *)
RecordOK(e, c, n, R) ==
    /\ e.phase # "none" => c <= n
    /\ e.phase = "finished" => e.status \in Results
    /\ e.status = "applied" => c \in R

RecordsOK ==
    \A c \in Commands : /\ RecordOK(disk[c], c, Current, reached)
                        /\ \A h \in Hosts : RecordOK(mem[h][c], c, Current, reached)

(* A claim is granted once, and its holder alone runs the command, once. *)
ClaimsOK ==
    /\ \A h \in Hosts, c \in Commands : Holds(h, c) => "applying" \in audit[c]
    /\ \A g, h \in Hosts, c \in Commands : Holds(g, c) /\ Holds(h, c) => g = h
    /\ \A i \in DOMAIN runs : "applying" \in audit[runs[i].c]
    /\ \A h \in Hosts : pc[h].at \in {"claimed", "begun"} => \A i \in DOMAIN runs : runs[i].c # pc[h].c
    /\ RunsOnce

ResultOK ==
    /\ CurrentResultShown
    /\ result.of # 0 => result.status \in Results
    /\ result.status = "applied" => result.of \in reached

ControlInv == TypeOK /\ Issued /\ RecordsOK /\ ClaimsOK /\ ResultOK
-----------------------------------------------------------------------------
LEMMA TrimmedIs ==
    ASSUME NEW m \in [Commands -> Entry]
    PROVE  /\ Trimmed(m) \in [Commands -> Entry]
           /\ \A c \in Commands : Trimmed(m)[c] \in {m[c], NoEntry}
BY DEF Trimmed, NoEntry, Entry, Results

(* Whether the save went well or not, every record is an old one, the new   *)
(* one or none, and only this host moved.                                   *)
LEMMA Saved ==
    ASSUME TypeOK, NumbersAssumption, NEW h \in Hosts, NEW d \in Commands, NEW e \in Entry, NEW p \in Position,
           Save(h, Record(h, d, e), p)
    PROVE  /\ mem' \in [Hosts -> [Commands -> Entry]] /\ disk' \in [Commands -> Entry]
           /\ pc' \in [Hosts -> Position] /\ faults' \in 0..MaxFaults
           /\ \A g \in Hosts : g # h => pc'[g] = pc[g] /\ mem'[g] = mem[g]
           /\ pc'[h] \in {p, AtPass}
           /\ \A c \in Commands : mem'[h][c] \in {mem[h][c], NoEntry} \/ (c = d /\ mem'[h][c] = e)
           /\ \A c \in Commands : disk'[c] \in {disk[c], mem[h][c], NoEntry} \/ (c = d /\ disk'[c] = e)
<1> DEFINE m == Record(h, d, e)
<1>1. m \in [Commands -> Entry] /\ \A c \in Commands : m[c] = IF c = d THEN e ELSE mem[h][c]
  BY DEF TypeOK, Record
<1>2. /\ Trimmed(m) \in [Commands -> Entry]
      /\ \A c \in Commands : Trimmed(m)[c] \in {m[c], NoEntry}
  BY <1>1, TrimmedIs
<1>3. mem' = [mem EXCEPT ![h] = Trimmed(m)]
  BY DEF Save
<1>4. AtPass \in Position
  BY DEF Position
<1>5. \/ disk' = Trimmed(m) /\ pc' = [pc EXCEPT ![h] = p] /\ faults' = faults
      \/ disk' = disk /\ pc' = [pc EXCEPT ![h] = AtPass] /\ faults < MaxFaults /\ faults' = faults + 1
  BY DEF Save, NoFault, Fault
<1>6. faults' \in 0..MaxFaults
  BY <1>5 DEF TypeOK, NumbersAssumption
<1>7. pc' \in [Hosts -> Position] /\ (\A g \in Hosts : g # h => pc'[g] = pc[g]) /\ pc'[h] \in {p, AtPass}
  BY <1>4, <1>5 DEF TypeOK
<1>8. disk' \in [Commands -> Entry] /\ (disk' = disk \/ disk' = Trimmed(m))
  BY <1>2, <1>5 DEF TypeOK
<1>9. mem' \in [Hosts -> [Commands -> Entry]] /\ mem'[h] = Trimmed(m) /\ \A g \in Hosts : g # h => mem'[g] = mem[g]
  BY <1>2, <1>3 DEF TypeOK
<1>10. \A c \in Commands : Trimmed(m)[c] \in {mem[h][c], NoEntry} \/ (c = d /\ Trimmed(m)[c] = e)
  <2> TAKE c \in Commands
  <2> HIDE DEF m
  <2> QED  BY <1>1, <1>2
<1>11. \A c \in Commands : disk'[c] \in {disk[c], mem[h][c], NoEntry} \/ (c = d /\ disk'[c] = e)
  BY <1>8, <1>10
<1>12. \A c \in Commands : mem'[h][c] \in {mem[h][c], NoEntry} \/ (c = d /\ mem'[h][c] = e)
  BY <1>9, <1>10
<1> HIDE DEF m
<1> QED  BY <1>6, <1>7, <1>8, <1>9, <1>11, <1>12

(* What a host's step does to the records, when the new one is right. *)
LEMMA RecordsKept ==
    ASSUME TypeOK, NumbersAssumption, RecordsOK, NEW h \in Hosts, NEW d \in Commands, NEW e \in Entry, NEW p \in Position,
           Save(h, Record(h, d, e), p), want' = want, reached \subseteq reached', RecordOK(e, d, Current, reached')
    PROVE  RecordsOK'
<1>1. Current' = Current
  BY DEF Current
<1>2. \A f \in Entry, c \in Commands : RecordOK(f, c, Current, reached) => RecordOK(f, c, Current, reached')
  BY DEF RecordOK
<1>3. \A c \in Commands : RecordOK(NoEntry, c, Current, reached')
  BY DEF RecordOK, NoEntry
<1>4. ASSUME NEW c \in Commands
      PROVE  RecordOK(disk'[c], c, Current, reached') /\ \A g \in Hosts : RecordOK(mem'[g][c], c, Current, reached')
  <2>1. \A g \in Hosts : mem[g][c] \in Entry /\ RecordOK(mem[g][c], c, Current, reached')
    BY <1>2 DEF TypeOK, RecordsOK
  <2>2. RecordOK(disk[c], c, Current, reached')
    BY <1>2 DEF TypeOK, RecordsOK
  <2>3. disk'[c] \in {disk[c], mem[h][c], NoEntry} \/ (c = d /\ disk'[c] = e)
    BY Saved
  <2>4. mem'[h][c] \in {mem[h][c], NoEntry} \/ (c = d /\ mem'[h][c] = e)
    BY Saved
  <2>5. \A g \in Hosts : g # h => mem'[g] = mem[g]
    BY Saved
  <2>6. RecordOK(disk'[c], c, Current, reached')
    BY <2>1, <2>2, <2>3, <1>3
  <2>7. RecordOK(mem'[h][c], c, Current, reached')
    BY <2>1, <2>4, <1>3
  <2> QED  BY <2>1, <2>5, <2>6, <2>7
<1> QED  BY <1>1, <1>4 DEF RecordsOK

-----------------------------------------------------------------------------
(* The server's rows only grow, and only those of the command reported. *)
LEMMA ReportFacts ==
    ASSUME TypeOK, NEW c \in Commands, c <= Current, NEW s \in Results, ServerReport(c, s)
    PROVE  /\ audit' \in [Commands -> SUBSET ({"applying"} \union Results)]
           /\ \A d \in Commands : ~(Results \subseteq audit'[d])
           /\ result' \in [of: 0..Current, status: Results \union {"none"}]
           /\ answered' \in BOOLEAN /\ want' = want /\ claimed' = claimed
           /\ \A d \in Commands : audit[d] \subseteq audit'[d] /\ (d # c => audit'[d] = audit[d])
           /\ (result' = result \/ result' = [of |-> c, status |-> s])
<1>1. CASE Settled(c)
  BY <1>1 DEF ServerReport, TypeOK
<1>2. CASE ~Settled(c)
  <2>1. audit' = [audit EXCEPT ![c] = @ \union {s}]
    BY <1>2 DEF ServerReport
  <2>2. \/ result' = result /\ answered' = answered
        \/ result' = [of |-> c, status |-> s] /\ answered' = FALSE
    BY <1>2 DEF ServerReport
  <2>3. c \in 0..Current
    BY DEF Commands, TypeOK, Current
  <2>4. result' \in [of: 0..Current, status: Results \union {"none"}] /\ answered' \in BOOLEAN
    <3>1. [of |-> c, status |-> s] \in [of: 0..Current, status: Results \union {"none"}]
      BY <2>3
    <3>2. result \in [of: 0..Current, status: Results \union {"none"}] /\ answered \in BOOLEAN
      BY DEF TypeOK
    <3> QED  BY <2>2, <3>1, <3>2
  <2>5. \A d \in Commands : ~(Results \subseteq audit'[d])
    <3> TAKE d \in Commands
    <3>1. audit[c] \intersect Results = {}
      BY <1>2 DEF Settled
    <3>2. audit'[d] = IF d = c THEN audit[d] \union {s} ELSE audit[d]
      BY <2>1 DEF TypeOK
    <3> QED  BY <3>1, <3>2 DEF Results, TypeOK
  <2>6. \A d \in Commands : audit[d] \subseteq audit'[d] /\ (d # c => audit'[d] = audit[d])
    BY <2>1 DEF TypeOK
  <2>7. audit' \in [Commands -> SUBSET ({"applying"} \union Results)]
    BY <2>1 DEF TypeOK
  <2> QED
    BY <1>2, <2>2, <2>4, <2>5, <2>6, <2>7 DEF ServerReport
<1> QED  BY <1>1, <1>2

LEMMA ClaimFacts ==
    ASSUME TypeOK, NEW c \in Commands, c <= Current, ServerClaim(c)
    PROVE  /\ audit' \in [Commands -> SUBSET ({"applying"} \union Results)]
           /\ \A d \in Commands : ~(Results \subseteq audit'[d])
           /\ claimed' \in 0..Current
           /\ want' = want /\ result' = result /\ answered' = answered
           /\ \A d \in Commands : audit[d] \subseteq audit'[d] /\ (d # c => audit'[d] = audit[d])
           /\ \A d \in Commands, s \in Results : s \in audit'[d] => s \in audit[d]
           /\ ClaimVerdict(c) = "claimed" => c = Current /\ "applying" \notin audit[c] /\ "applying" \in audit'[c]
<1>1. c \in 0..Current
  BY DEF Commands, TypeOK, Current
<1>2. \/ claimed' = c /\ audit' = [audit EXCEPT ![c] = @ \union {"applying"}] /\ ClaimVerdict(c) = "claimed"
      \/ claimed' = claimed /\ audit' = audit /\ ClaimVerdict(c) # "claimed"
  BY DEF ServerClaim
<1>3. ClaimVerdict(c) = "claimed" => c = Current /\ "applying" \notin audit[c]
  BY DEF ClaimVerdict
<1>4. want' = want /\ result' = result /\ answered' = answered
  BY DEF ServerClaim
<1>5. CASE audit' = audit /\ claimed' = claimed
  BY <1>2, <1>3, <1>4, <1>5 DEF TypeOK
<1>6. CASE claimed' = c /\ audit' = [audit EXCEPT ![c] = @ \union {"applying"}]
  <2>1. \A d \in Commands : audit'[d] = IF d = c THEN audit[d] \union {"applying"} ELSE audit[d]
    BY <1>6 DEF TypeOK
  <2>2. audit' \in [Commands -> SUBSET ({"applying"} \union Results)]
    BY <1>6 DEF TypeOK
  <2>3. \A d \in Commands, s \in Results : s \in audit'[d] => s \in audit[d]
    BY <2>1 DEF Results
  <2>4. \A d \in Commands : ~(Results \subseteq audit'[d])
    BY <2>3 DEF TypeOK
  <2> QED  BY <1>1, <1>3, <1>4, <1>6, <2>1, <2>2, <2>3, <2>4
<1> QED  BY <1>2, <1>5, <1>6

-----------------------------------------------------------------------------
LEMMA EntryTypes ==
    /\ NoEntry \in Entry /\ Begun \in Entry
    /\ \A s \in Results : Finished(s) \in Entry
    /\ \A e \in Entry : [e EXCEPT !.reported = TRUE] \in Entry
    /\ AtPass \in Position /\ Stopped \in Position
    /\ \A c \in Commands, a \in {"got", "claimed", "begun", "ran"} : At(a, c) \in Position
BY DEF NoEntry, Begun, Finished, Entry, Results, AtPass, Stopped, At, Position

(* The command a host is at, and the one the server hands out, were issued. *)
LEMMA IssuedAre ==
    ASSUME TypeOK, Issued, NumbersAssumption
    PROVE  /\ Current \in 0..MaxCommands
           /\ HostStatus # "none" => Current \in Commands
           /\ \A h \in Hosts : pc[h].at \in {"got", "claimed", "begun", "ran"} => pc[h].c \in Commands /\ pc[h].c <= Current
<1>1. Current \in 0..MaxCommands
  BY DEF Current, TypeOK, NumbersAssumption
<1>2. \A h \in Hosts : pc[h] \in Position
  BY DEF TypeOK
<1> QED
  BY <1>1, <1>2 DEF HostStatus, Commands, Issued, Position, Stopped, AtPass

LEMMA TypeStep == TypeOK /\ Issued /\ RecordsOK /\ [Next]_vars => TypeOK'
<1> SUFFICES ASSUME TypeOK, Issued, RecordsOK, [Next]_vars  PROVE TypeOK'
  OBVIOUS
<1> USE NumbersAssumption
<1>1. ASSUME NEW d \in States, Request(d)  PROVE TypeOK'
  <2>1. want' \in Seq(States) /\ Len(want') = Len(want) + 1 /\ Len(want') <= MaxCommands
    BY <1>1 DEF Request, TypeOK, Current
  <2>2. 0..Current \subseteq 0..Current'
    BY <2>1 DEF Current, TypeOK
  <2> QED  BY <1>1, <2>1, <2>2 DEF Request, TypeOK, host, hist
<1>2. CASE Heartbeat
  BY <1>2 DEF Heartbeat, TypeOK, host, hist, Current
<1>3. ASSUME NEW h \in Hosts, Start(h)  PROVE TypeOK'
  BY <1>3, EntryTypes DEF Start, TypeOK, server, hist, Current
<1>4. ASSUME NEW h \in Hosts, Stop(h)  PROVE TypeOK'
  BY <1>4, EntryTypes DEF Stop, Fault, TypeOK, server, hist, Current
<1>5. ASSUME NEW h \in Hosts, Interrupt(h)  PROVE TypeOK'
  <2>1. PICK c \in Commands : Save(h, Record(h, c, Finished("failed")), AtPass)
    BY <1>5 DEF Interrupt
  <2> QED  BY <1>5, <2>1, Saved, EntryTypes DEF Interrupt, TypeOK, server, hist, Current, Results
<1>6. ASSUME NEW h \in Hosts, Deliver(h)  PROVE TypeOK'
  <2>1. PICK c \in Commands :
          /\ c \in Unreported(h) /\ ServerReport(c, mem[h][c].status)
          /\ \/ Save(h, Record(h, c, [mem[h][c] EXCEPT !.reported = TRUE]), AtPass)
             \/ Fault /\ UNCHANGED host
    BY <1>6 DEF Deliver, IsFirst
  <2>2. mem[h][c].status \in Results /\ c <= Current /\ mem[h][c] \in Entry
    BY <2>1 DEF Unreported, RecordsOK, RecordOK, TypeOK
  <2>3. /\ mem' \in [Hosts -> [Commands -> Entry]] /\ disk' \in [Commands -> Entry]
        /\ pc' \in [Hosts -> Position] /\ faults' \in 0..MaxFaults
    <3>1. CASE Save(h, Record(h, c, [mem[h][c] EXCEPT !.reported = TRUE]), AtPass)
      BY <3>1, <2>2, EntryTypes, Saved
    <3>2. CASE Fault /\ UNCHANGED host
      BY <3>2 DEF Fault, host, TypeOK
    <3> QED  BY <2>1, <3>1, <3>2
  <2> QED  BY <1>6, <2>1, <2>2, <2>3, ReportFacts DEF Deliver, TypeOK, hist, Current
<1>7. ASSUME NEW h \in Hosts, Fetch(h)  PROVE TypeOK'
  <2>1. Current \in Commands
    BY <1>7, IssuedAre DEF Fetch
  <2>2. CASE Unrun(h)
    BY <2>1, <2>2, Saved, EntryTypes DEF Unrun, TypeOK, server, hist, Current, Results
  <2>3. CASE pc' = [pc EXCEPT ![h] = At("got", Current)] /\ UNCHANGED <<server, disk, mem, hist, faults>>
    BY <2>1, <2>3, EntryTypes DEF TypeOK, server, hist, Current
  <2> QED  BY <1>7, <2>2, <2>3 DEF Fetch
<1>8. ASSUME NEW h \in Hosts, Claim(h)  PROVE TypeOK'
  <2> DEFINE c == pc[h].c
  <2>1. c \in Commands /\ c <= Current
    BY <1>8, IssuedAre DEF Claim
  <2>2. pc' \in [Hosts -> Position]
    BY <1>8, <2>1, EntryTypes DEF Claim, TypeOK
  <2>3. faults' \in 0..MaxFaults
    BY <1>8 DEF Claim, Fault, NoFault, TypeOK
  <2>4. ServerClaim(c) \/ UNCHANGED server
    BY <1>8 DEF Claim
  <2>5. /\ audit' \in [Commands -> SUBSET ({"applying"} \union Results)]
        /\ \A d \in Commands : ~(Results \subseteq audit'[d])
        /\ claimed' \in 0..Current
        /\ want' = want /\ result' = result /\ answered' = answered
    BY <2>1, <2>4, ClaimFacts DEF server, TypeOK
  <2> QED  BY <1>8, <2>2, <2>3, <2>5 DEF Claim, TypeOK, hist, Current
<1>9. ASSUME NEW h \in Hosts, Begin(h)  PROVE TypeOK'
  BY <1>9, IssuedAre, Saved, EntryTypes DEF Begin, TypeOK, server, hist, Current
<1>10. ASSUME NEW h \in Hosts, Run(h)  PROVE TypeOK'
  BY <1>10, IssuedAre, EntryTypes DEF Run, TypeOK, server, Current
<1>11. ASSUME NEW h \in Hosts, Observe(h)  PROVE TypeOK'
  <2>1. pc[h].c \in Commands
    BY <1>11, IssuedAre DEF Observe
  <2>2. PICK s \in Results :
          /\ Save(h, Record(h, pc[h].c, Finished(s)), AtPass)
          /\ reached' = IF s = "applied" THEN reached \union {pc[h].c} ELSE reached
    BY <1>11 DEF Observe
  <2> QED  BY <1>11, <2>1, <2>2, Saved, EntryTypes DEF Observe, TypeOK, server, Current
<1>12. CASE UNCHANGED vars
  BY <1>12 DEF vars, server, host, hist, TypeOK, Current
<1> QED
  BY <1>1, <1>2, <1>3, <1>4, <1>5, <1>6, <1>7, <1>8, <1>9, <1>10, <1>11, <1>12 DEF Next, HostStep

-----------------------------------------------------------------------------
(* What a step of a host or of the environment does to the server. *)
LEMMA AuditGrows ==
    ASSUME TypeOK, Issued, RecordsOK, [Next]_vars
    PROVE  /\ \A c \in Commands : audit[c] \subseteq audit'[c]
           /\ \A c \in Commands : c > Current => audit'[c] = audit[c]
           /\ Len(want') >= Len(want)
           /\ reached \subseteq reached'
<1> USE NumbersAssumption
<1>1. ASSUME NEW h \in Hosts, Deliver(h)
      PROVE  /\ \A c \in Commands : audit[c] \subseteq audit'[c] /\ (c > Current => audit'[c] = audit[c])
             /\ want' = want /\ reached' = reached
  <2>1. PICK c \in Commands : c \in Unreported(h) /\ ServerReport(c, mem[h][c].status)
    BY <1>1 DEF Deliver, IsFirst
  <2>2. mem[h][c].status \in Results /\ c <= Current
    BY <2>1 DEF Unreported, RecordsOK, RecordOK
  <2> HIDE DEF Current
  <2>3. Current \in Nat
    BY IssuedAre
  <2> QED  BY <1>1, <2>1, <2>2, <2>3, ReportFacts DEF Deliver, hist, Commands
<1>2. ASSUME NEW h \in Hosts, Claim(h)
      PROVE  /\ \A c \in Commands : audit[c] \subseteq audit'[c] /\ (c > Current => audit'[c] = audit[c])
             /\ want' = want /\ reached' = reached
  <2>1. pc[h].c \in Commands /\ pc[h].c <= Current /\ Current \in Nat
    BY <1>2, IssuedAre DEF Claim
  <2>2. ServerClaim(pc[h].c) \/ UNCHANGED server
    BY <1>2 DEF Claim
  <2> QED  BY <1>2, <2>1, <2>2, ClaimFacts DEF Claim, hist, server, Commands
<1>3. ASSUME NEW d \in States, Request(d)
      PROVE  audit' = audit /\ Len(want') >= Len(want) /\ reached' = reached
  BY <1>3 DEF Request, hist, TypeOK
<1>4. ASSUME NEW h \in Hosts, \/ Start(h) \/ Stop(h) \/ Interrupt(h) \/ Fetch(h) \/ Begin(h) \/ Run(h) \/ Observe(h)
      PROVE  audit' = audit /\ want' = want /\ reached \subseteq reached'
  BY <1>4 DEF Start, Stop, Interrupt, Fetch, Unrun, Begin, Run, Observe, server, hist
<1>5. CASE Heartbeat \/ UNCHANGED vars
  BY <1>5 DEF Heartbeat, vars, server, host, hist, TypeOK
<1>6. Len(want) \in Nat
  BY DEF TypeOK
<1> QED
  BY <1>1, <1>2, <1>3, <1>4, <1>5, <1>6 DEF Next, HostStep

(* Where a step can leave a host. *)
LEMMA Moves ==
    ASSUME TypeOK, [Next]_vars, NEW g \in Hosts
    PROVE  pc'[g] \in {pc[g], AtPass, Stopped} \/ pc'[g].c \in {pc[g].c, Current}
<1> DEFINE Moved == pc'[g] \in {pc[g], AtPass, Stopped} \/ pc'[g].c \in {pc[g].c, Current}
<1> USE DEF TypeOK
<1>1. ASSUME NEW h \in Hosts, NEW m, NEW p, Save(h, m, p)
      PROVE  pc' = [pc EXCEPT ![h] = p] \/ pc' = [pc EXCEPT ![h] = AtPass]
  BY <1>1 DEF Save
<1>2. CASE UNCHANGED pc
  BY <1>2
<1>3. ASSUME NEW h \in Hosts, Start(h) \/ Stop(h)  PROVE Moved
  BY <1>3 DEF Start, Stop
<1>4. ASSUME NEW h \in Hosts, Interrupt(h) \/ Deliver(h)  PROVE Moved
  <2>1. UNCHANGED pc \/ pc' = [pc EXCEPT ![h] = AtPass]
    BY <1>1, <1>4 DEF Interrupt, Deliver, host
  <2> QED  BY <2>1
<1>5. ASSUME NEW h \in Hosts, Fetch(h)  PROVE Moved
  <2>1. pc' = [pc EXCEPT ![h] = AtPass] \/ pc' = [pc EXCEPT ![h] = At("got", Current)]
    BY <1>1, <1>5 DEF Fetch, Unrun
  <2> QED  BY <2>1 DEF At
<1>6. ASSUME NEW h \in Hosts, Claim(h) \/ Run(h)  PROVE Moved
  BY <1>6 DEF Claim, Run, At
<1>7. ASSUME NEW h \in Hosts, Begin(h)  PROVE Moved
  <2>1. pc' = [pc EXCEPT ![h] = AtPass] \/ pc' = [pc EXCEPT ![h] = At("begun", pc[h].c)]
    BY <1>1, <1>7 DEF Begin
  <2> QED  BY <2>1 DEF At
<1>8. ASSUME NEW h \in Hosts, Observe(h)  PROVE Moved
  <2>1. pc' = [pc EXCEPT ![h] = AtPass]
    BY <1>1, <1>8 DEF Observe
  <2> QED  BY <2>1
<1>9. (\E d \in States : Request(d)) \/ Heartbeat \/ UNCHANGED vars => UNCHANGED pc
  BY DEF Request, Heartbeat, vars, host
<1> QED
  BY <1>2, <1>3, <1>4, <1>5, <1>6, <1>7, <1>8, <1>9 DEF Next, HostStep

LEMMA IssuedStep == TypeOK /\ Issued /\ RecordsOK /\ [Next]_vars => Issued'
<1> SUFFICES ASSUME TypeOK, Issued, RecordsOK, [Next]_vars  PROVE Issued'
  OBVIOUS
<1> USE NumbersAssumption
<1>1. Current \in Nat /\ Current' \in Nat /\ Current' >= Current
  BY TypeStep, AuditGrows DEF TypeOK, Current
<1>2. ASSUME NEW c \in Commands, c > Current'  PROVE audit'[c] = {}
  BY <1>1, <1>2, AuditGrows DEF Issued, Commands
<1>3. ASSUME NEW g \in Hosts  PROVE pc'[g].c <= Current'
  <2>1. pc'[g] \in {pc[g], AtPass, Stopped} \/ pc'[g].c \in {pc[g].c, Current}
    BY Moves
  <2>2. pc[g] \in Position /\ pc[g].c <= Current
    BY DEF Issued, TypeOK
  <2>3. pc[g].c \in Nat
    BY <2>2 DEF Position, Commands, Stopped, AtPass
  <2> QED  BY <1>1, <2>1, <2>2, <2>3 DEF AtPass, Stopped
<1> QED  BY <1>2, <1>3 DEF Issued

LEMMA RecordsStep == TypeOK /\ Issued /\ RecordsOK /\ [Next]_vars => RecordsOK'
<1> SUFFICES ASSUME TypeOK, Issued, RecordsOK, [Next]_vars  PROVE RecordsOK'
  OBVIOUS
<1> USE NumbersAssumption
<1>1. Current \in Nat /\ Current' \in Nat /\ Current' >= Current /\ reached \subseteq reached'
  BY TypeStep, AuditGrows DEF TypeOK, Current
<1>2. ASSUME NEW e \in Entry, NEW c \in Commands, RecordOK(e, c, Current, reached)
      PROVE  RecordOK(e, c, Current', reached')
  BY <1>1, <1>2 DEF RecordOK, Commands
<1>3. \A c \in Commands : RecordOK(NoEntry, c, Current', reached')
  BY DEF RecordOK, NoEntry
<1>4. ASSUME NEW c \in Commands
      PROVE  /\ RecordOK(disk[c], c, Current', reached')
             /\ \A h \in Hosts : RecordOK(mem[h][c], c, Current', reached')
  BY <1>2 DEF RecordsOK, TypeOK
<1>5. CASE UNCHANGED <<mem, disk>>
  BY <1>4, <1>5 DEF RecordsOK
<1>6. ASSUME NEW h \in Hosts, Start(h)  PROVE RecordsOK'
  <2>1. disk' = disk /\ \A c \in Commands, g \in Hosts : mem'[g][c] = IF g = h THEN disk[c] ELSE mem[g][c]
    BY <1>6 DEF Start, TypeOK
  <2> QED  BY <1>4, <2>1 DEF RecordsOK
<1>7. ASSUME NEW h \in Hosts, Stop(h)  PROVE RecordsOK'
  <2>1. /\ \A c \in Commands, g \in Hosts : mem'[g][c] = IF g = h THEN NoEntry ELSE mem[g][c]
        /\ disk' = disk \/ \A c \in Commands : disk'[c] = NoEntry
    BY <1>7 DEF Stop, TypeOK
  <2> QED  BY <1>3, <1>4, <2>1 DEF RecordsOK
<1>8. ASSUME NEW h \in Hosts, Interrupt(h)  PROVE RecordsOK'
  <2>1. PICK c \in Commands : c \in Interrupted(h) /\ Save(h, Record(h, c, Finished("failed")), AtPass)
    BY <1>8 DEF Interrupt, IsFirst
  <2>2. RecordOK(mem[h][c], c, Current, reached) /\ mem[h][c].phase = "running"
    BY <2>1 DEF Interrupted, RecordsOK
  <2>3. RecordOK(Finished("failed"), c, Current, reached')
    BY <2>2 DEF RecordOK, Finished, Results
  <2>4. Finished("failed") \in Entry
    BY EntryTypes DEF Results
  <2> QED  BY <1>1, <1>8, <2>1, <2>3, <2>4, EntryTypes, RecordsKept DEF Interrupt, server
<1>9. ASSUME NEW h \in Hosts, Deliver(h)  PROVE RecordsOK'
  <2>1. PICK c \in Commands :
          /\ c \in Unreported(h) /\ ServerReport(c, mem[h][c].status)
          /\ \/ Save(h, Record(h, c, [mem[h][c] EXCEPT !.reported = TRUE]), AtPass)
             \/ Fault /\ UNCHANGED host
    BY <1>9 DEF Deliver, IsFirst
  <2> DEFINE e == [mem[h][c] EXCEPT !.reported = TRUE]
  <2>2. mem[h][c] \in Entry /\ RecordOK(mem[h][c], c, Current, reached)
    BY DEF RecordsOK, TypeOK
  <2>3. e \in Entry /\ RecordOK(e, c, Current, reached')
    BY <1>1, <2>2 DEF Entry, RecordOK
  <2>4. want' = want
    BY <2>1 DEF ServerReport
  <2> HIDE DEF e
  <2>5. CASE Save(h, Record(h, c, e), AtPass)
    BY <1>1, <2>3, <2>4, <2>5, EntryTypes, RecordsKept
  <2>6. CASE UNCHANGED host
    BY <1>5, <2>6 DEF host
  <2> QED  BY <2>1, <2>5, <2>6 DEF e
<1>10. ASSUME NEW h \in Hosts, Unrun(h), HostStatus # "none"  PROVE RecordsOK'
  <2>1. Finished("failed") \in Entry /\ RecordOK(Finished("failed"), Current, Current, reached')
    BY <1>1, EntryTypes DEF RecordOK, Finished, Results
  <2>2. want' = want /\ Save(h, Record(h, Current, Finished("failed")), AtPass)
    BY <1>10 DEF Unrun, server
  <2> QED  BY <1>1, <1>10, <2>1, <2>2, IssuedAre, EntryTypes, RecordsKept
<1>11. ASSUME NEW h \in Hosts, Fetch(h)  PROVE RecordsOK'
  BY <1>5, <1>10, <1>11 DEF Fetch
<1>12. ASSUME NEW h \in Hosts, Begin(h)  PROVE RecordsOK'
  <2>1. pc[h].c \in Commands /\ pc[h].c <= Current
    BY <1>12, IssuedAre DEF Begin
  <2>2. RecordOK(Begun, pc[h].c, Current, reached')
    BY <2>1 DEF RecordOK, Begun, NoEntry
  <2>3. want' = want /\ Save(h, Record(h, pc[h].c, Begun), At("begun", pc[h].c))
    BY <1>12 DEF Begin, server
  <2>4. At("begun", pc[h].c) \in Position /\ Begun \in Entry
    BY <2>1, EntryTypes
  <2> QED  BY <1>1, <2>1, <2>2, <2>3, <2>4, RecordsKept
<1>13. ASSUME NEW h \in Hosts, Observe(h)  PROVE RecordsOK'
  <2>1. pc[h].c \in Commands /\ pc[h].c <= Current
    BY <1>13, IssuedAre DEF Observe
  <2>2. PICK s \in Results :
          /\ Save(h, Record(h, pc[h].c, Finished(s)), AtPass)
          /\ reached' = IF s = "applied" THEN reached \union {pc[h].c} ELSE reached
    BY <1>13 DEF Observe
  <2>3. RecordOK(Finished(s), pc[h].c, Current, reached') /\ Finished(s) \in Entry
    BY <2>1, <2>2, EntryTypes DEF RecordOK, Finished
  <2>4. want' = want
    BY <1>13 DEF Observe, server
  <2> QED  BY <1>1, <2>1, <2>2, <2>3, <2>4, EntryTypes, RecordsKept
<1>14. ASSUME NEW h \in Hosts, Claim(h) \/ Run(h)  PROVE RecordsOK'
  BY <1>5, <1>14 DEF Claim, Run
<1>15. (\E d \in States : Request(d)) \/ Heartbeat \/ UNCHANGED vars => UNCHANGED <<mem, disk>>
  BY DEF Request, Heartbeat, vars, host
<1> QED
  BY <1>5, <1>6, <1>7, <1>8, <1>9, <1>11, <1>12, <1>13, <1>14, <1>15 DEF Next, HostStep

LEMMA RunsIn ==
    ASSUME TypeOK
    PROVE  \A i \in DOMAIN runs : runs[i].c \in Commands
<1>1. runs \in Seq([by: Hosts, c: Commands])
  BY DEF TypeOK
<1>2. ASSUME NEW T, NEW q \in Seq(T), NEW i \in DOMAIN q  PROVE q[i] \in T
  BY <1>2
<1>3. \A i \in DOMAIN runs : runs[i] \in [by: Hosts, c: Commands]
  BY <1>1, <1>2
<1> QED  BY <1>3

(* The step gives h no claim that it did not hold. *)
NoClaim(h) ==
    /\ pc'[h].at \in {"claimed", "begun", "ran"} => pc[h].at \in {"claimed", "begun", "ran"} /\ pc[h].c = pc'[h].c
    /\ pc'[h].at \in {"claimed", "begun"} => pc[h].at \in {"claimed", "begun"}

(* A step that grants no claim and runs nothing leaves every claim to its   *)
(* holder, or nobody.                                                       *)
LEMMA ClaimsKept ==
    ASSUME TypeOK, ClaimsOK, UNCHANGED runs, \A c \in Commands : audit[c] \subseteq audit'[c], pc' \in [Hosts -> Position],
           \A g \in Hosts : NoClaim(g)
    PROVE  ClaimsOK'
<1>1. \A g \in Hosts, c \in Commands : Holds(g, c)' => Holds(g, c)
  BY DEF Holds, NoClaim
<1>2. \A i \in DOMAIN runs : runs[i].c \in Commands
  BY RunsIn
<1>3. \A g \in Hosts : pc'[g].at \in {"claimed", "begun"} => \A i \in DOMAIN runs : runs[i].c # pc'[g].c
  BY DEF ClaimsOK, NoClaim
<1>4. RunsOnce'
  BY DEF ClaimsOK, RunsOnce
<1>5. \A h \in Hosts, c \in Commands : Holds(h, c)' => "applying" \in audit'[c]
  BY <1>1 DEF ClaimsOK
<1>6. \A g, h \in Hosts, c \in Commands : Holds(g, c)' /\ Holds(h, c)' => g = h
  BY <1>1 DEF ClaimsOK
<1>7. \A i \in DOMAIN runs' : "applying" \in audit'[runs'[i].c]
  BY <1>2 DEF ClaimsOK
<1> QED  BY <1>3, <1>4, <1>5, <1>6, <1>7 DEF ClaimsOK

LEMMA ClaimsStep == TypeOK /\ Issued /\ RecordsOK /\ ClaimsOK /\ [Next]_vars => ClaimsOK'
<1> SUFFICES ASSUME TypeOK, Issued, RecordsOK, ClaimsOK, [Next]_vars  PROVE ClaimsOK'
  OBVIOUS
<1> USE NumbersAssumption
<1>1. pc' \in [Hosts -> Position] /\ \A c \in Commands : audit[c] \subseteq audit'[c]
  BY TypeStep, AuditGrows DEF TypeOK
<1> DEFINE Kept(g) == pc'[g] = pc[g] \/ pc'[g].at \in {"pass", "off", "got"}
<1>2. ASSUME UNCHANGED runs, \A g \in Hosts : Kept(g)  PROVE ClaimsOK'
  <2>1. \A g \in Hosts : NoClaim(g)
    BY <1>2 DEF NoClaim
  <2> QED  BY <1>1, <1>2, <2>1, ClaimsKept
<1>3. ASSUME NEW h \in Hosts, NEW m, Save(h, m, AtPass)  PROVE \A g \in Hosts : Kept(g)
  BY <1>3 DEF Save, AtPass, TypeOK
<1>4. ASSUME NEW h \in Hosts, Start(h) \/ Stop(h)  PROVE ClaimsOK'
  <2>1. UNCHANGED runs /\ \A g \in Hosts : Kept(g)
    BY <1>4 DEF Start, Stop, hist, AtPass, Stopped, TypeOK
  <2> QED  BY <1>2, <2>1
<1>5. ASSUME NEW h \in Hosts, Interrupt(h) \/ Deliver(h) \/ Observe(h)  PROVE ClaimsOK'
  <2>1. UNCHANGED runs /\ (UNCHANGED pc \/ \A g \in Hosts : Kept(g))
    BY <1>3, <1>5 DEF Interrupt, Deliver, Observe, hist, host
  <2> QED  BY <1>2, <2>1
<1>6. ASSUME NEW h \in Hosts, Fetch(h)  PROVE ClaimsOK'
  <2>1. UNCHANGED runs
    BY <1>6 DEF Fetch, Unrun, hist
  <2>2. \A g \in Hosts : Kept(g)
    <3>1. CASE Unrun(h)
      BY <1>3, <3>1 DEF Unrun
    <3>2. CASE pc' = [pc EXCEPT ![h] = At("got", Current)]
      BY <3>2 DEF At, TypeOK
    <3> QED  BY <1>6, <3>1, <3>2 DEF Fetch
  <2> QED  BY <1>2, <2>1, <2>2
<1>7. ASSUME NEW h \in Hosts, Begin(h)  PROVE ClaimsOK'
  <2>1. UNCHANGED runs
    BY <1>7 DEF Begin, hist
  <2>2. pc' = [pc EXCEPT ![h] = At("begun", pc[h].c)] \/ pc' = [pc EXCEPT ![h] = AtPass]
    BY <1>7 DEF Begin, Save
  <2>3. pc[h].at = "claimed"
    BY <1>7 DEF Begin
  <2>4. \A g \in Hosts : NoClaim(g)
    BY <2>2, <2>3 DEF NoClaim, At, AtPass, TypeOK
  <2> QED  BY <1>1, <2>1, <2>4, ClaimsKept
<1>8. ASSUME NEW h \in Hosts, Claim(h)  PROVE ClaimsOK'
  <2> DEFINE c == pc[h].c
  <2>1. c \in Commands /\ c <= Current /\ UNCHANGED runs
    BY <1>8, IssuedAre DEF Claim, hist
  <2>2. CASE pc' = [pc EXCEPT ![h] = AtPass]
    <3>1. \A g \in Hosts : Kept(g)
      BY <2>2 DEF AtPass, TypeOK
    <3> QED  BY <1>2, <2>1, <3>1
  <2>3. CASE pc' = [pc EXCEPT ![h] = At("claimed", c)] /\ ClaimVerdict(c) = "claimed" /\ ServerClaim(c)
    <3>1. "applying" \notin audit[c] /\ "applying" \in audit'[c]
      BY <2>1, <2>3, ClaimFacts
    <3>2. pc'[h] = At("claimed", c) /\ \A g \in Hosts : g # h => pc'[g] = pc[g]
      BY <2>3 DEF TypeOK
    <3>3. \A g \in Hosts : ~Holds(g, c)
      BY <2>1, <3>1 DEF ClaimsOK
    <3>4. \A i \in DOMAIN runs : runs[i].c # c /\ runs[i].c \in Commands
      BY <3>1, RunsIn DEF ClaimsOK
    <3>5. \A g \in Hosts, d \in Commands : Holds(g, d)' => Holds(g, d) \/ (g = h /\ d = c)
      BY <3>2 DEF Holds, At
    <3>6. \A g \in Hosts, d \in Commands : Holds(g, d)' => "applying" \in audit'[d]
      BY <1>1, <3>1, <3>5 DEF ClaimsOK
    <3>7. \A f, g \in Hosts, d \in Commands : Holds(f, d)' /\ Holds(g, d)' => f = g
      BY <3>3, <3>5 DEF ClaimsOK
    <3>8. \A g \in Hosts : pc'[g].at \in {"claimed", "begun"} => \A i \in DOMAIN runs : runs[i].c # pc'[g].c
      BY <3>2, <3>4 DEF ClaimsOK, At
    <3>9. RunsOnce' /\ \A i \in DOMAIN runs' : "applying" \in audit'[runs'[i].c]
      BY <1>1, <2>1, <3>4 DEF ClaimsOK, RunsOnce
    <3> HIDE DEF c
    <3> QED  BY <2>1, <3>6, <3>7, <3>8, <3>9 DEF ClaimsOK
  <2>4. \/ ServerClaim(c) /\ pc' = [pc EXCEPT ![h] = IF ClaimVerdict(c) = "claimed" THEN At("claimed", c) ELSE AtPass]
        \/ pc' = [pc EXCEPT ![h] = AtPass]
    BY <1>8 DEF Claim
  <2> QED  BY <2>2, <2>3, <2>4
<1>9. ASSUME NEW h \in Hosts, Run(h)  PROVE ClaimsOK'
  <2> DEFINE c == pc[h].c
  <2>1. c \in Commands /\ pc[h].at = "begun" /\ UNCHANGED audit
    BY <1>9, IssuedAre DEF Run, server
  <2>2. pc'[h] = At("ran", c) /\ \A g \in Hosts : g # h => pc'[g] = pc[g]
    BY <1>9 DEF Run, TypeOK
  <2>3. /\ DOMAIN runs' = 1..(Len(runs) + 1) /\ DOMAIN runs = 1..Len(runs) /\ Len(runs) \in Nat
        /\ \A i \in DOMAIN runs : runs'[i] = runs[i]
        /\ runs'[Len(runs) + 1].c = c
    BY <1>9 DEF Run, TypeOK
  <2>4. Holds(h, c) /\ \A g \in Hosts, d \in Commands : Holds(g, d)' => Holds(g, d)
    BY <2>1, <2>2 DEF Holds, At
  <2>5. \A i \in DOMAIN runs : runs[i].c # c
    BY <2>1 DEF ClaimsOK
  <2>6. RunsOnce'
    BY <2>3, <2>5 DEF RunsOnce, ClaimsOK
  <2>7. \A i \in DOMAIN runs' : "applying" \in audit'[runs'[i].c]
    BY <2>1, <2>3, <2>4 DEF ClaimsOK
  <2>8. ASSUME NEW g \in Hosts, pc'[g].at \in {"claimed", "begun"}, NEW i \in DOMAIN runs'
        PROVE  runs'[i].c # pc'[g].c
    <3>1. g # h /\ pc'[g] = pc[g]
      BY <2>2, <2>8 DEF At
    <3>2. ~Holds(g, c)
      BY <2>1, <2>4, <3>1 DEF ClaimsOK
    <3>3. pc[g].c # c
      BY <2>8, <3>1, <3>2 DEF Holds
    <3>4. CASE i \in DOMAIN runs
      BY <2>3, <2>8, <3>1, <3>4 DEF ClaimsOK
    <3>5. CASE i = Len(runs) + 1
      BY <2>3, <3>1, <3>3, <3>5
    <3> QED  BY <2>3, <3>4, <3>5
  <2>9. /\ \A g \in Hosts, d \in Commands : Holds(g, d)' => "applying" \in audit'[d]
        /\ \A f, g \in Hosts, d \in Commands : Holds(f, d)' /\ Holds(g, d)' => f = g
    BY <2>1, <2>4 DEF ClaimsOK
  <2> QED  BY <2>6, <2>7, <2>8, <2>9 DEF ClaimsOK
<1>10. CASE (\E d \in States : Request(d)) \/ Heartbeat \/ UNCHANGED vars
  <2>1. UNCHANGED <<pc, runs>>
    BY <1>10 DEF Request, Heartbeat, vars, host, hist
  <2> QED  BY <1>2, <2>1
<1> QED
  BY <1>4, <1>5, <1>6, <1>7, <1>8, <1>9, <1>10 DEF Next, HostStep

LEMMA ResultStep == TypeOK /\ Issued /\ RecordsOK /\ ResultOK /\ [Next]_vars => ResultOK'
<1> SUFFICES ASSUME TypeOK, Issued, RecordsOK, ResultOK, [Next]_vars  PROVE ResultOK'
  OBVIOUS
<1> USE NumbersAssumption
<1>1. Current \in Nat /\ Current <= MaxCommands
  BY DEF Current, TypeOK
<1>2. CASE UNCHANGED <<want, result, audit>> /\ reached \subseteq reached'
  BY <1>2 DEF ResultOK, CurrentResultShown, Settled, Current
<1>3. ASSUME NEW d \in States, Request(d)  PROVE ResultOK'
  <2>1. Current' = Current + 1 /\ Current' \in Commands
    BY <1>1, <1>3 DEF Request, Current, TypeOK, Commands
  <2>2. audit' = audit /\ result' = result /\ reached' = reached
    BY <1>3 DEF Request, hist
  <2>3. audit[Current'] = {}
    BY <1>1, <2>1 DEF Issued
  <2> QED  BY <2>2, <2>3 DEF ResultOK, CurrentResultShown, Settled
<1>4. ASSUME NEW h \in Hosts, Deliver(h)  PROVE ResultOK'
  <2>1. PICK c \in Commands : c \in Unreported(h) /\ ServerReport(c, mem[h][c].status)
    BY <1>4 DEF Deliver, IsFirst
  <2> DEFINE s == mem[h][c].status
  <2>2. s \in Results /\ c <= Current /\ (s = "applied" => c \in reached)
    BY <2>1 DEF Unreported, RecordsOK, RecordOK
  <2>3. reached' = reached /\ want' = want /\ Current' = Current
    BY <1>4, <2>1 DEF Deliver, ServerReport, hist, Current
  <2>4. CASE Settled(c)
    BY <1>2, <2>1, <2>3, <2>4 DEF ServerReport
  <2>5. CASE ~Settled(c) /\ KeepsCurrentResult(c)
    <3>1. c # Current /\ audit' = [audit EXCEPT ![c] = @ \union {s}] /\ result' = result
      BY <2>1, <2>5 DEF ServerReport, KeepsCurrentResult
    <3>2. Current \in Commands => audit'[Current] = audit[Current]
      BY <3>1 DEF TypeOK
    <3>3. Current # 0 => Current \in Commands
      BY <1>1 DEF Commands
    <3> QED  BY <2>3, <3>1, <3>2, <3>3 DEF ResultOK, CurrentResultShown, Settled
  <2>6. CASE ~Settled(c) /\ ~KeepsCurrentResult(c)
    <3>1. /\ result' = [of |-> c, status |-> s]
          /\ audit' = [audit EXCEPT ![c] = @ \union {s}]
      BY <2>1, <2>6 DEF ServerReport
    <3>2. CASE c = Current
      BY <2>2, <2>3, <3>1, <3>2 DEF ResultOK, CurrentResultShown, TypeOK
    <3>3. CASE c # Current
      <4>1. result.of # Current \/ Current = 0
        BY <2>6, <3>3 DEF KeepsCurrentResult
      <4>2. Current # 0 => ~Settled(Current)
        BY <4>1 DEF ResultOK, CurrentResultShown
      <4>3. Current # 0 => Current \in Commands /\ audit'[Current] = audit[Current]
        BY <1>1, <3>1, <3>3 DEF Commands, TypeOK
      <4> QED  BY <2>2, <2>3, <3>1, <4>2, <4>3 DEF ResultOK, CurrentResultShown, Settled
    <3> QED  BY <3>2, <3>3
  <2> QED  BY <2>4, <2>5, <2>6
<1>5. ASSUME NEW h \in Hosts, Claim(h)  PROVE ResultOK'
  <2>1. pc[h].c \in Commands /\ pc[h].c <= Current /\ (ServerClaim(pc[h].c) \/ UNCHANGED server) /\ reached' = reached
    BY <1>5, IssuedAre DEF Claim, hist
  <2>2. CASE UNCHANGED server
    BY <1>2, <2>1, <2>2 DEF server
  <2>3. CASE ServerClaim(pc[h].c)
    <3>1. /\ want' = want /\ result' = result
          /\ \A d \in Commands : audit[d] \subseteq audit'[d]
          /\ \A d \in Commands, s \in Results : s \in audit'[d] => s \in audit[d]
      BY <2>1, <2>3, ClaimFacts
    <3>2. Current' = Current /\ (Current # 0 => Current \in Commands)
      BY <1>1, <3>1 DEF Current, Commands
    <3> QED  BY <2>1, <3>1, <3>2 DEF ResultOK, CurrentResultShown, Settled
  <2> QED  BY <2>1, <2>2, <2>3
<1>6. ASSUME NEW h \in Hosts, \/ Start(h) \/ Stop(h) \/ Interrupt(h) \/ Fetch(h) \/ Begin(h) \/ Run(h) \/ Observe(h)
      PROVE  UNCHANGED <<want, result, audit>> /\ reached \subseteq reached'
  BY <1>6 DEF Start, Stop, Interrupt, Fetch, Unrun, Begin, Run, Observe, server, hist
<1>7. CASE Heartbeat \/ UNCHANGED vars
  BY <1>2, <1>7 DEF Heartbeat, vars, server, hist
<1> QED
  BY <1>2, <1>3, <1>4, <1>5, <1>6, <1>7 DEF Next, HostStep
-----------------------------------------------------------------------------

LEMMA ControlInit == Init => ControlInv
<1> SUFFICES ASSUME Init  PROVE ControlInv
  OBVIOUS
<1> USE NumbersAssumption DEF Init
<1>1. Current = 0
  BY DEF Current
<1>2. TypeOK
  <2>1. want \in Seq(States) /\ Len(want) <= MaxCommands /\ runs \in Seq([by: Hosts, c: Commands])
    OBVIOUS
  <2>2. /\ result \in [of: 0..Current, status: Results \union {"none"}] /\ claimed \in 0..Current
        /\ audit \in [Commands -> SUBSET ({"applying"} \union Results)]
        /\ \A c \in Commands : ~(Results \subseteq audit[c])
    BY <1>1 DEF Results
  <2>3. /\ disk \in [Commands -> Entry] /\ mem \in [Hosts -> [Commands -> Entry]]
        /\ pc \in [Hosts -> Position]
    BY EntryTypes
  <2>4. answered \in BOOLEAN /\ reached \subseteq Commands
    OBVIOUS
  <2>5. faults \in 0..MaxFaults
    BY DEF NumbersAssumption
  <2> QED  BY <2>1, <2>2, <2>3, <2>4, <2>5 DEF TypeOK
<1>3. Issued
  BY <1>1 DEF Issued, Stopped
<1>4. RecordsOK
  BY DEF RecordsOK, RecordOK, NoEntry
<1>5. ClaimsOK
  BY DEF ClaimsOK, Holds, RunsOnce, Stopped
<1>6. ResultOK
  BY <1>1 DEF ResultOK, CurrentResultShown
<1> QED  BY <1>2, <1>3, <1>4, <1>5, <1>6 DEF ControlInv

LEMMA ControlStep == ControlInv /\ [Next]_vars => ControlInv'
BY TypeStep, IssuedStep, RecordsStep, ClaimsStep, ResultStep DEF ControlInv

LEMMA ControlAlways == Spec => []ControlInv
<1>1. Init => ControlInv  BY ControlInit
<1>2. ControlInv /\ [Next]_vars => ControlInv'  BY ControlStep
<1> QED  BY <1>1, <1>2, PTL DEF Spec

(* Every variable keeps its type and no command has two results in its      *)
(* audit, for any number of hosts (harness_control_store.report).           *)
THEOREM ControlTyped == Spec => []TypeOK
<1>1. ControlInv => TypeOK  BY DEF ControlInv
<1> QED  BY <1>1, ControlAlways, PTL

(* A command runs at most once, however many hosts poll for it and whatever *)
(* replies, saves or files are lost (harness_control_store.claim_verdict).  *)
THEOREM CommandsRunOnce == Spec => []RunsOnce
<1>1. ControlInv => RunsOnce  BY DEF ControlInv, ClaimsOK
<1> QED  BY <1>1, ControlAlways, PTL

(* Once the current command has a result the row shows it, however late     *)
(* older results arrive (harness_control_store.keeps_current_result).       *)
THEOREM CurrentResultStays == Spec => []CurrentResultShown
<1>1. ControlInv => CurrentResultShown  BY DEF ControlInv, ResultOK
<1> QED  BY <1>1, ControlAlways, PTL

(* The Cockpit agrees to a stop only when a host saw the gateway stopped    *)
(* after this stop was asked for (harness_control_rules.agreement).         *)
THEOREM AgreedStopsHappened == Spec => []AgreedStop
<1>1. ControlInv => AgreedStop
  <2> SUFFICES ASSUME ControlInv, Desired = "stopped", Agreement = "agree"  PROVE Current \in reached
    BY DEF AgreedStop
  <2>1. HostStatus \notin {"pending", "applying", "failed"}
    BY DEF Agreement
  <2>2. Current # 0
    BY DEF Desired, Current, ControlInv, TypeOK
  <2>3. result.of = Current /\ HostStatus = result.status /\ result.status \in Results \union {"none"}
    BY <2>1, <2>2 DEF HostStatus, ControlInv, TypeOK
  <2>4. result.status = "applied" => Current \in reached
    BY <2>3 DEF ControlInv, ResultOK
  <2>5. result.status # "none"
    BY <2>2, <2>3 DEF ControlInv, ResultOK, Results
  <2> QED  BY <2>1, <2>3, <2>4, <2>5 DEF Results
<1> QED  BY <1>1, ControlAlways, PTL
===============================================================================
