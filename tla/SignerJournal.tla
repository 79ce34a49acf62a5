----------------------------- MODULE SignerJournal -----------------------------
(***************************************************************************)
(* The isolated signer (services/signer-svc) over the append-only journal  *)
(* of tradesync_core.durable_journal.                                      *)
(*                                                                         *)
(* POST /sign handles one request without giving up the event loop, so     *)
(* requests do not interleave; what interleaves with its steps is a crash  *)
(* of the process, which keeps what the operating system holds (`cache`),  *)
(* and a power cut, which keeps what was synced (`disk`) and perhaps more. *)
(* A line is an approval's record; one that is not whole is a partial      *)
(* write.  The operating system is external.                               *)
(***************************************************************************)
EXTENDS Integers, Sequences

CONSTANTS
    Approvals,
    Loses,        \* TRUE: a power cut may lose a file whose directory was not synced
    MaxCrashes,   \* bound: crashes and power cuts
    MaxFailures   \* bound: system calls that fail

ASSUME BoundsAssumption == Loses \in BOOLEAN /\ MaxCrashes \in Nat /\ MaxFailures \in Nat
ASSUME ApprovalsAssumption == "none" \notin Approvals

VARIABLES
    file,     \* absent, unlinked (its directory entry was not synced) or linked
    cache,    \* the file's lines, as the operating system shows them
    disk,     \* the lines that were synced
    spent,    \* the approvals the process knows to be burned
    trusted,  \* the process could read the journal when it started
    request,  \* the request being handled
    signed,   \* history: signatures made against each approval
    crashes, failures

journal    == <<file, cache, disk>>
signerVars == <<journal, spent, trusted, request, signed, crashes, failures>>

Line    == [approval: Approvals, whole: BOOLEAN]
Request == [pc: {"idle", "open", "write", "sync", "link", "sign"}, approval: Approvals \union {"none"}, created: BOOLEAN]
Rest    == [pc |-> "idle", approval |-> "none", created |-> FALSE]

Whole(s) == {s[i].approval : i \in {j \in 1..Len(s) : s[j].whole}}
Torn(s)  == Len(s) > 0 /\ ~s[Len(s)].whole

SignerInit ==
    /\ file \in {"absent", "linked"}
    /\ cache = <<>>
    /\ disk = <<>>
    /\ spent = {}
    /\ trusted = TRUE
    /\ request = Rest
    /\ signed = [a \in Approvals |-> 0]
    /\ crashes = 0
    /\ failures = 0

-----------------------------------------------------------------------------
(* POST /sign. *)

Step(pc) == request' = [request EXCEPT !.pc = pc]

(* What a step that does not finish may have left in the file.             *)
Cut(s) == IF Torn(s) THEN SubSeq(s, 1, Len(s) - 1) ELSE s
Left ==
    {cache} \union IF request.pc = "open"  THEN {Cut(cache)}
                   ELSE IF request.pc = "write"
                        THEN {Append(cache, [approval |-> request.approval, whole |-> FALSE])}
                        ELSE {}

(* The file may have been created by then. *)
Made == {file} \union IF request.pc = "open" /\ file = "absent" THEN {"unlinked"} ELSE {}

Refused == request' = Rest

(* An OSError: the request is refused and nothing is remembered. *)
Fails ==
    /\ failures < MaxFailures
    /\ failures' = failures + 1
    /\ Refused
    /\ cache' \in Left /\ file' \in Made
    /\ UNCHANGED <<disk, spent>>

(* append returned: the approval is burned, and the request goes on to sign. *)
Returned == Step("sign") /\ spent' = spent \union {request.approval}

(* An approval that was already burned is refused, as is any request when   *)
(* the journal could not be read.                                           *)
Ask(a) ==
    /\ request.pc = "idle"
    /\ a \notin spent /\ trusted
    /\ request' = [pc |-> "open", approval |-> a, created |-> FALSE]
    /\ UNCHANGED <<journal, spent, trusted, signed, crashes, failures>>

Opened ==
    /\ request' = [request EXCEPT !.pc = "write", !.created = file = "absent"]
    /\ file' = IF file = "absent" THEN "unlinked" ELSE file

(* Mutant of Open: a partial last line is left where it is. *)
OpenUncut ==
    /\ request.pc = "open"
    /\ Opened
    /\ UNCHANGED <<cache, disk, spent, trusted, signed, crashes, failures>>

(* Open the file, creating it if need be, and cut a torn tail off. *)
Open ==
    /\ request.pc = "open"
    /\ \/ /\ Opened
          /\ cache' = Cut(cache)
          /\ disk' = IF Torn(cache) THEN cache' ELSE disk
          /\ UNCHANGED <<spent, failures>>
       \/ Fails
    /\ UNCHANGED <<trusted, signed, crashes>>

Write ==
    /\ request.pc = "write"
    /\ \/ /\ cache' = Append(cache, [approval |-> request.approval, whole |-> TRUE])
          /\ Step("sync")
          /\ UNCHANGED <<file, disk, spent, failures>>
       \/ Fails
    /\ UNCHANGED <<trusted, signed, crashes>>

(* Mutant of Sync: the file is not synced. *)
SyncSkipped ==
    /\ request.pc = "sync"
    /\ Returned
    /\ UNCHANGED <<journal, trusted, signed, crashes, failures>>

(* fsync the file.  When it fails the whole line stays in the file. *)
Sync ==
    /\ request.pc = "sync"
    /\ \/ /\ disk' = cache
          /\ IF request.created THEN Step("link") /\ UNCHANGED spent ELSE Returned
          /\ UNCHANGED <<file, cache, failures>>
       \/ Fails
    /\ UNCHANGED <<trusted, signed, crashes>>

(* Sync the directory of a file that this append created. *)
Link ==
    /\ request.pc = "link"
    /\ \/ file' = "linked" /\ Returned /\ UNCHANGED <<cache, disk, failures>>
       \/ Fails
    /\ UNCHANGED <<trusted, signed, crashes>>

Sign ==
    /\ request.pc = "sign"
    /\ signed' = [signed EXCEPT ![request.approval] = @ + 1]
    /\ request' = Rest
    /\ UNCHANGED <<journal, spent, trusted, crashes, failures>>

-----------------------------------------------------------------------------
(* A new process reads the journal: a torn tail is ignored, and a malformed *)
(* line before it disables signing.                                         *)
Readable(s) == \A i \in 1..Len(s) - 1 : s[i].whole
Load(s) ==
    /\ trusted' = Readable(s)
    /\ spent' = IF Readable(s) THEN Whole(s) ELSE {}

(* The process stops and starts again, in the middle of a step perhaps. *)
Restart ==
    /\ crashes < MaxCrashes
    /\ crashes' = crashes + 1
    /\ cache' \in Left /\ file' \in Made
    /\ request' = Rest
    /\ Load(cache')
    /\ UNCHANGED <<disk, signed, failures>>

(* Power is lost and comes back.  The whole lines that were synced are      *)
(* kept, and some that were not, the last in part.  A file whose directory  *)
(* entry was not synced may be gone altogether.                             *)
Survives(n)     == SubSeq(cache, 1, n)
SurvivesTorn(n) == Append(Survives(n), [cache[n + 1] EXCEPT !.whole = FALSE])
PowerCut ==
    /\ crashes < MaxCrashes
    /\ crashes' = crashes + 1
    /\ \/ /\ file # "absent"
          /\ file' = "linked"
          /\ \/ cache' = disk
             \/ \E n \in Len(Cut(disk))..Len(cache) : cache' = Survives(n)
             \/ \E n \in Len(Cut(disk))..Len(cache) - 1 : cache' = SurvivesTorn(n)
       \/ /\ file = "absent" \/ (Loses /\ file = "unlinked")
          /\ file' = "absent" /\ cache' = <<>>
    /\ disk' = cache'
    /\ request' = Rest
    /\ Load(cache')
    /\ UNCHANGED <<signed, failures>>

-----------------------------------------------------------------------------
Appending == Open \/ Write \/ Sync \/ Link

SignerNext ==
    \/ \E a \in Approvals : Ask(a)
    \/ Appending \/ Sign
    \/ Restart \/ PowerCut

SignerSpec == SignerInit /\ [][SignerNext]_signerVars

-----------------------------------------------------------------------------
(* Every variable holds a value of its type. *)
SignerTypeOK ==
    /\ file \in {"absent", "unlinked", "linked"}
    /\ cache \in Seq(Line) /\ disk \in Seq(Line)
    /\ spent \subseteq Approvals
    /\ trusted \in BOOLEAN
    /\ request \in Request /\ (request.pc # "idle" => request.approval \in Approvals)
    /\ signed \in [Approvals -> Nat]
    /\ crashes \in 0..MaxCrashes /\ failures \in 0..MaxFailures

(* main.py:198: a crash can never create a replay: no approval is signed    *)
(* against twice, across failed writes, restarts and power cuts.            *)
SignedOnce == \A a \in Approvals : signed[a] <= 1

(* The journal never comes to distrust what it wrote itself, so no crash or *)
(* failed write disables signing.                                           *)
StaysReadable == trusted

(* The signer implements the promise, an approval being burned once its     *)
(* record would survive a power cut: it is never signed against before, and *)
(* never comes back.                                                        *)
Burned == IF file = "linked" \/ ~Loses THEN Whole(disk) ELSE {}
Once   == INSTANCE SigningOnce WITH burned <- Burned
SignsOnce == Once!Spec

=============================================================================
