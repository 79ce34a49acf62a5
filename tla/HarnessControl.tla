---------------------------- MODULE HarnessControl ----------------------------
(***************************************************************************)
(* The agent harness kill switch: the control row and its audit in         *)
(* state-api (harness_control_store, _rules and _routes), the tool that    *)
(* applies its commands on the operator's PC (hermes_harness_control) and   *)
(* the Hermes gateway's systemd unit (hermes_gateway_control).              *)
(*                                                                         *)
(* The n-th request issues command n, so the current command is the length *)
(* of `want`.  A request, a claim and a report take the row's lock and are *)
(* one step each; a reply may be lost after the server's transaction.  A   *)
(* host keeps its records in memory and in one file that every save        *)
(* replaces whole; a save may fail, a host may stop between any two steps  *)
(* and the file may be lost with it.  Task Scheduler keeps one host, and   *)
(* the operator may run another by hand.                                    *)
(***************************************************************************)
EXTENDS Integers, Sequences, FiniteSets

CONSTANTS
    Hosts,        \* processes that run the tool
    Scheduled,    \* the one that Task Scheduler keeps running
    Keep,         \* handled commands the state file keeps (20 in the code)
    MaxCommands,  \* bound: stops and starts the operator asks for
    MaxFaults     \* bound: lost replies, failed saves and stops of a host

ASSUME HostsAssumption == Scheduled \in Hosts

ASSUME NumbersAssumption ==
    Keep \in Nat /\ MaxCommands \in Nat /\ MaxFaults \in Nat

VARIABLES
    want,      \* the requested states, in order: desired_state is the last
    claimed,   \* claimed_command_id of the control row
    result,    \* result_command_id and result_status of the control row
    audit,     \* the claim and result rows of each command
    answered,  \* the gateway answered a heartbeat after result_at
    disk,      \* the state file: what each handled command became
    mem,       \* the same as each host holds it
    pc,        \* where each host is in its pass, and with which command
    runs,      \* history: which host ran which command, in order
    reached,   \* history: commands whose state the unit was seen in
    faults     \* how many faults happened (bounded)

server == <<want, claimed, result, audit, answered>>
host   == <<disk, mem, pc>>
hist   == <<runs, reached>>
vars   == <<server, host, hist, faults>>

Commands == 1..MaxCommands
States   == {"running", "stopped"}
Results  == {"applied", "failed"}

Current    == Len(want)
Desired    == IF want = <<>> THEN "running" ELSE want[Current]
Settled(c) == audit[c] \intersect Results # {}

Entry   == [phase: {"none", "running", "finished"}, status: Results \union {"none"}, reported: BOOLEAN]
NoEntry == [phase |-> "none", status |-> "none", reported |-> FALSE]
Begun   == [NoEntry EXCEPT !.phase = "running"]
Finished(s) == [phase |-> "finished", status |-> s, reported |-> FALSE]

AtPass    == [at |-> "pass", c |-> 0]
At(p, c)  == [at |-> p, c |-> c]
Stopped   == [at |-> "off", c |-> 0]

Init ==
    /\ want = <<>> /\ claimed = 0
    /\ result = [of |-> 0, status |-> "none"]
    /\ audit = [c \in Commands |-> {}]
    /\ answered = FALSE
    /\ disk = [c \in Commands |-> NoEntry]
    /\ mem = [h \in Hosts |-> disk]
    /\ pc = [h \in Hosts |-> Stopped]
    /\ runs = <<>> /\ reached = {}
    /\ faults = 0

NoFault == UNCHANGED faults
Fault   == faults < MaxFaults /\ faults' = faults + 1

-----------------------------------------------------------------------------
(* state-api: the control row and its audit. *)

(* POST /state/agents/harness/control, which also replaces a pending one.  *)
Request(d) ==
    /\ Current < MaxCommands
    /\ want' = Append(want, d)
    /\ UNCHANGED <<claimed, result, audit, answered, host, hist, faults>>

HostStatus ==
    IF Current = 0 THEN "none"
    ELSE IF result.of = Current THEN result.status
    ELSE IF claimed = Current THEN "applying" ELSE "pending"

ClaimVerdict(c) ==
    IF Settled(c) THEN "reported"
    ELSE IF c # Current THEN "superseded"
    ELSE IF "applying" \in audit[c] THEN "already_claimed" ELSE "claimed"

ServerClaim(c) ==
    /\ IF ClaimVerdict(c) = "claimed"
       THEN claimed' = c /\ audit' = [audit EXCEPT ![c] = @ \union {"applying"}]
       ELSE UNCHANGED <<claimed, audit>>
    /\ UNCHANGED <<want, result, answered>>

(* A late result of an older command is audited only. *)
KeepsCurrentResult(c) == c # Current /\ result.of # 0 /\ result.of = Current

ServerReport(c, s) ==
    /\ IF Settled(c)
       THEN UNCHANGED <<audit, result, answered>>
       ELSE /\ audit' = [audit EXCEPT ![c] = @ \union {s}]
            /\ IF KeepsCurrentResult(c)
               THEN UNCHANGED <<result, answered>>
               ELSE result' = [of |-> c, status |-> s] /\ answered' = FALSE
    /\ UNCHANGED <<want, claimed>>

(* The sentence the Cockpit shows, without its waiting limits: whether what *)
(* was asked for is what is happening.                                      *)
Agreement ==
    CASE HostStatus \in {"pending", "applying"} -> "pending"
      [] HostStatus = "failed" -> "disagree"
      [] HostStatus \in {"none", "applied"} /\ Desired = "stopped" ->
             IF answered THEN "disagree" ELSE "agree"
      [] OTHER -> IF answered THEN "agree" ELSE "unknown"

-----------------------------------------------------------------------------
(* The gateway's unit drains, dies, or is started by a logon or a restart   *)
(* of WSL whenever it likes, so it may be in any state when it is asked.    *)

Heartbeat ==
    /\ ~answered
    /\ answered' = TRUE
    /\ UNCHANGED <<want, claimed, result, audit, host, hist, faults>>

-----------------------------------------------------------------------------
(* A host: one pass reads, in this order, its interrupted commands, its     *)
(* undelivered results and the command state-api hands out.                 *)

Interrupted(h) == {c \in Commands : mem[h][c].phase = "running"}
Unreported(h)  == {c \in Commands : mem[h][c].phase = "finished" /\ ~mem[h][c].reported}
IsFirst(c, S)  == c \in S /\ \A d \in S : c <= d

(* Only what state-api has recorded is trimmed from the file, oldest first. *)
Trimmed(m) ==
    LET held     == {c \in Commands : m[c].phase # "none"}
        recorded == {c \in held : m[c].reported}
        dropped  == {c \in recorded :
                        Cardinality(held) - Keep > Cardinality({d \in recorded : d < c})}
    IN  [c \in Commands |-> IF c \in dropped THEN NoEntry ELSE m[c]]

(* Host h records m and goes on at p; when the file cannot be replaced the  *)
(* pass is given up, with m in memory only.                                 *)
Save(h, m, p) ==
    /\ mem' = [mem EXCEPT ![h] = Trimmed(m)]
    /\ \/ disk' = Trimmed(m) /\ pc' = [pc EXCEPT ![h] = p] /\ NoFault
       \/ Fault /\ pc' = [pc EXCEPT ![h] = AtPass] /\ UNCHANGED disk

Record(h, c, e) == [mem[h] EXCEPT ![c] = e]

Start(h) ==
    /\ pc[h] = Stopped
    /\ mem' = [mem EXCEPT ![h] = disk]
    /\ pc' = [pc EXCEPT ![h] = AtPass]
    /\ UNCHANGED <<server, disk, hist, faults>>

(* The process ends at any point; its file may be lost with it. *)
Stop(h) ==
    /\ pc[h] # Stopped
    /\ Fault
    /\ pc' = [pc EXCEPT ![h] = Stopped]
    /\ mem' = [mem EXCEPT ![h] = [c \in Commands |-> NoEntry]]
    /\ \/ UNCHANGED disk
       \/ disk' = [c \in Commands |-> NoEntry]
    /\ UNCHANGED <<server, hist>>

(* Mutant of Interrupt: what was being applied is taken as applied. *)
InterruptApplied(h) ==
    /\ pc[h] = AtPass
    /\ \E c \in Commands :
          /\ IsFirst(c, Interrupted(h))
          /\ Save(h, Record(h, c, Finished("applied")), AtPass)
    /\ UNCHANGED <<server, hist>>

(* Mutant of Interrupt: what was being applied is applied again. *)
InterruptAgain(h) ==
    /\ pc[h] = AtPass
    /\ \E c \in Commands :
          /\ IsFirst(c, Interrupted(h))
          /\ pc' = [pc EXCEPT ![h] = At("begun", c)]
    /\ UNCHANGED <<server, disk, mem, hist, faults>>

(* A command begun and never finished is not run again: it failed. *)
Interrupt(h) ==
    /\ pc[h] = AtPass
    /\ \E c \in Commands :
          /\ IsFirst(c, Interrupted(h))
          /\ Save(h, Record(h, c, Finished("failed")), AtPass)
    /\ UNCHANGED <<server, hist>>

(* deliver: report the first result not yet reported; a lost reply leaves   *)
(* it to a later pass.                                                      *)
Deliver(h) ==
    /\ pc[h] = AtPass /\ Interrupted(h) = {}
    /\ \E c \in Commands :
          /\ IsFirst(c, Unreported(h))
          /\ ServerReport(c, mem[h][c].status)
          /\ \/ Save(h, Record(h, c, [mem[h][c] EXCEPT !.reported = TRUE]), AtPass)
             \/ Fault /\ UNCHANGED host
    /\ UNCHANGED hist

(* A command being applied that this host knows nothing of is not run. *)
Unrun(h) ==
    /\ Save(h, Record(h, Current, Finished("failed")), AtPass)
    /\ UNCHANGED <<server, hist>>

(* Mutant of Fetch: a command already claimed is left alone. *)
FetchPending(h) ==
    /\ pc[h] = AtPass /\ Interrupted(h) = {} /\ Unreported(h) = {}
    /\ HostStatus = "pending" /\ mem[h][Current] = NoEntry
    /\ pc' = [pc EXCEPT ![h] = At("got", Current)]
    /\ UNCHANGED <<server, disk, mem, hist, faults>>

(* GET .../command: the current command while it has no result. *)
Fetch(h) ==
    /\ pc[h] = AtPass /\ Interrupted(h) = {} /\ Unreported(h) = {}
    /\ HostStatus \in {"pending", "applying"} /\ mem[h][Current] = NoEntry
    /\ IF HostStatus = "applying" THEN Unrun(h)
       ELSE /\ pc' = [pc EXCEPT ![h] = At("got", Current)]
            /\ UNCHANGED <<server, disk, mem, hist, faults>>

(* POST .../claim: granted, refused, or not answered. *)
Claim(h) ==
    LET c == pc[h].c
        granted == ClaimVerdict(c) = "claimed"
    IN
    /\ pc[h].at = "got"
    /\ \/ ServerClaim(c) /\ NoFault
          /\ pc' = [pc EXCEPT ![h] = IF granted THEN At("claimed", c) ELSE AtPass]
       \/ ServerClaim(c) /\ Fault /\ pc' = [pc EXCEPT ![h] = AtPass]
       \/ UNCHANGED server /\ Fault /\ pc' = [pc EXCEPT ![h] = AtPass]
    /\ UNCHANGED <<disk, mem, hist>>

(* The id is on disk before anything runs. *)
Begin(h) ==
    /\ pc[h].at = "claimed"
    /\ Save(h, Record(h, pc[h].c, Begun), At("begun", pc[h].c))
    /\ UNCHANGED <<server, hist>>

(* hermes gateway stop, or systemctl start; either may do nothing. *)
Run(h) ==
    LET c == pc[h].c IN
    /\ pc[h].at = "begun"
    /\ runs' = Append(runs, [by |-> h, c |-> c])
    /\ pc' = [pc EXCEPT ![h] = At("ran", c)]
    /\ UNCHANGED <<server, disk, mem, reached, faults>>

(* is-active decides, not the exit status: a state that cannot be asked or  *)
(* is still moving when the budget ends is a failure.                       *)
Observe(h) ==
    LET c == pc[h].c IN
    /\ \E s \in Results :
          /\ \/ pc[h].at = "ran"
             \/ pc[h].at = "begun"  \* WSL is not running: nothing is run
                /\ s = IF want[c] = "stopped" THEN "applied" ELSE "failed"
          /\ Save(h, Record(h, c, Finished(s)), AtPass)
          /\ reached' = IF s = "applied" THEN reached \union {c} ELSE reached
    /\ UNCHANGED <<server, runs>>

-----------------------------------------------------------------------------

HostStep(h) ==
    \/ Interrupt(h) \/ Deliver(h) \/ Fetch(h)
    \/ Claim(h) \/ Begin(h) \/ Run(h) \/ Observe(h)

Next ==
    \/ \E d \in States : Request(d)
    \/ Heartbeat
    \/ \E h \in Hosts : Start(h) \/ Stop(h) \/ HostStep(h)

Spec == Init /\ [][Next]_vars

(* Task Scheduler starts its host again within five minutes, and the loop  *)
(* makes a pass every ten seconds to a minute; nobody keeps the other ones *)
(* going.                                                                  *)
FairSpec == Spec /\ WF_vars(Start(Scheduled)) /\ WF_vars(HostStep(Scheduled))
-----------------------------------------------------------------------------
(* Properties. *)

Position == {Stopped, AtPass} \union [at: {"got", "claimed", "begun", "ran"}, c: Commands]

(* Every variable has its type, and no command has two results, whatever    *)
(* the verdict each report met (harness_control_store.report).              *)
TypeOK ==
    /\ want \in Seq(States) /\ Len(want) <= MaxCommands
    /\ claimed \in 0..Current
    /\ result \in [of: 0..Current, status: Results \union {"none"}]
    /\ audit \in [Commands -> SUBSET ({"applying"} \union Results)]
    /\ \A c \in Commands : ~(Results \subseteq audit[c])
    /\ answered \in BOOLEAN
    /\ disk \in [Commands -> Entry]
    /\ mem \in [Hosts -> [Commands -> Entry]]
    /\ pc \in [Hosts -> Position]
    /\ runs \in Seq([by: Hosts, c: Commands])
    /\ reached \subseteq Commands
    /\ faults \in 0..MaxFaults

(* A command runs at most once, whichever hosts poll for it and whatever    *)
(* stops them (hermes_harness_control: "A command runs at most once").      *)
RunsOnce == \A i, j \in DOMAIN runs : runs[i].c = runs[j].c => i = j

(* Once the current command has a result the control row shows that one,    *)
(* however late the results of older commands arrive (keeps_current_result).*)
CurrentResultShown ==
    Current # 0 /\ Settled(Current) => result.of = Current /\ result.status \in audit[Current]

(* The Cockpit agrees that the gateway is stopped only when a host saw the  *)
(* unit stopped after the operator asked for this stop: a stop interrupted, *)
(* not run or reported late never passes for one that was applied.          *)
AgreedStop == Desired = "stopped" /\ Agreement = "agree" => Current \in reached

(* What the operator asked for last gets its result: lost replies, failed   *)
(* saves, stopped hosts and a host that gave up half way only delay it.     *)
LastCommandSettles == []<>(Current = 0 \/ Settled(Current))
===============================================================================
