-------------------------- MODULE EvidenceTransfer --------------------------
(***************************************************************************)
(* After a pending order is converted its quote documents are copied onto  *)
(* the order.  The copy runs after the conversion commit, from three       *)
(* places: the conversion request itself, an operator's retry request and  *)
(* the scheduler's sweep.  A claim (a token and a time, both columns of    *)
(* the order) is meant to keep them apart; a claim older than              *)
(* ClaimTimeout may be taken over.                                         *)
(*                                                                         *)
(* Every action below is the code between two awaits at which another      *)
(* coroutine's commit can intervene.  Time advances in ticks of one        *)
(* scheduler pass (at most 60 seconds in the code).                        *)
(***************************************************************************)
EXTENDS Naturals, FiniteSets

CONSTANTS
    Orders,        \* pending orders
    Quotes,        \* names of the quote documents an order can have
    Requests,      \* HTTP requests that convert an order or retry a transfer
    Sweeper,       \* the scheduler's sweep
    NoOne,         \* the null claim token
    ClaimTimeout,  \* EVIDENCE_CLAIM_TIMEOUT, in ticks
    MaxAttempts,   \* MAX_EVIDENCE_SWEEP_ATTEMPTS
    MaxFaults,     \* bound: crashes and failed writes
    MaxDocEvents   \* bound: documents added, deleted or lost by others

ASSUME TimeoutAssumption == ClaimTimeout \in Nat \ {0}
ASSUME BoundsAssumption ==
    MaxAttempts \in Nat /\ MaxFaults \in Nat /\ MaxDocEvents \in Nat
ASSUME ProcessAssumption ==
    Sweeper \notin Requests /\ NoOne \notin Requests \cup {Sweeper}

Runners == Requests \cup {Sweeper}

Statuses == {"none", "pending", "failed", "escalated", "complete"}
Retryable == {"pending", "failed", "escalated"}
Swept == {"pending", "failed"}

\* A stored document: no row, a row whose file is on disk, a row without one.
DocStates == {"absent", "file", "lost"}

VARIABLES
    status,       \* [Orders -> Statuses], "none" before the conversion
    attempts,     \* [Orders -> Nat], sweeps that were charged to the order
    needsInvoice, \* [Orders -> BOOLEAN], only on orders of older versions
    invoice,      \* [Orders -> BOOLEAN], an invoice row with its file exists
    token,        \* [Orders -> Runners \cup {NoOne}], the claim token
    claimAge,     \* [Orders -> 0..ClaimTimeout], ticks since claimed_at
    source,       \* [Orders -> [Quotes -> DocStates]], quote documents
    copy,         \* [Orders -> [Quotes -> DocStates]], copies on the order
    pc,           \* [Runners -> step], where each runner is
    order,        \* [Runners -> Orders \cup {NoOne}], the order it works on
    todo,         \* [Runners -> SUBSET Quotes], quotes it found uncopied
    absent,       \* [Runners -> SUBSET Quotes], those that had no row at all
    heldFor,      \* [Runners -> 0..ClaimTimeout], ticks since its own claim
    queue,        \* the sweep's list of stuck orders, read once per sweep
    sweepDue,     \* the scheduler's sleep is over
    owed,         \* [Orders -> SUBSET Quotes], history: quotes never copied
    faults,       \* crashes and failed writes so far
    docEvents     \* documents added, deleted or lost so far

db == <<status, attempts, needsInvoice, token, claimAge>>
docs == <<invoice, source, copy, owed>>
local == <<pc, order, todo, absent, heldFor>>
sched == <<queue, sweepDue>>
bounds == <<faults, docEvents>>
vars == <<db, docs, local, sched, bounds>>

Snapshot == [order: Orders, attempts: Nat, needsInvoice: BOOLEAN]

Steps == {"idle", "next", "claim", "read", "write", "commit", "complete",
          "fail", "release"}

(* A runner between its claim and the release of it. *)
Working(r) == pc[r] \in {"read", "write", "commit", "complete", "fail",
                         "release"}

DbTypeOK ==
    /\ status \in [Orders -> Statuses]
    /\ attempts \in [Orders -> Nat]
    /\ needsInvoice \in [Orders -> BOOLEAN]
    /\ token \in [Orders -> Runners \cup {NoOne}]
    /\ claimAge \in [Orders -> 0..ClaimTimeout]

DocsTypeOK ==
    /\ invoice \in [Orders -> BOOLEAN]
    /\ source \in [Orders -> [Quotes -> DocStates]]
    /\ copy \in [Orders -> [Quotes -> DocStates]]
    /\ owed \in [Orders -> SUBSET Quotes]

LocalTypeOK ==
    /\ pc \in [Runners -> Steps]
    /\ order \in [Runners -> Orders \cup {NoOne}]
    /\ todo \in [Runners -> SUBSET Quotes]
    /\ absent \in [Runners -> SUBSET Quotes]
    /\ heldFor \in [Runners -> 0..ClaimTimeout]
    /\ \A r \in Runners : pc[r] \notin {"idle", "next"} => order[r] \in Orders

OtherTypeOK ==
    /\ queue \in SUBSET Snapshot
    /\ sweepDue \in BOOLEAN
    /\ faults \in 0..MaxFaults
    /\ docEvents \in 0..MaxDocEvents

TypeOK == DbTypeOK /\ DocsTypeOK /\ LocalTypeOK /\ OtherTypeOK

(* Orders are not converted yet, or come from an older version that left   *)
(* their transfer unfinished and may have left their invoice unstored.     *)
Init ==
    /\ status \in [Orders -> {"none", "failed"}]
    /\ attempts = [o \in Orders |-> 0]
    /\ needsInvoice \in [Orders -> BOOLEAN]
    /\ \A o \in Orders : needsInvoice[o] => status[o] = "failed"
    /\ invoice = [o \in Orders |-> FALSE]
    /\ token = [o \in Orders |-> NoOne]
    /\ claimAge = [o \in Orders |-> 0]
    /\ source \in [Orders -> [Quotes -> {"absent", "file"}]]
    /\ copy = [o \in Orders |-> [q \in Quotes |-> "absent"]]
    /\ pc = [r \in Runners |-> "idle"]
    /\ order = [r \in Runners |-> NoOne]
    /\ todo = [r \in Runners |-> {}]
    /\ absent = [r \in Runners |-> {}]
    /\ heldFor = [r \in Runners |-> 0]
    /\ queue = {}
    /\ sweepDue = TRUE
    /\ owed = [o \in Orders |-> {q \in Quotes : source[o][q] = "file"}]
    /\ faults = 0
    /\ docEvents = 0

Goto(r, step) == pc' = [pc EXCEPT ![r] = step]

(* A runner has finished with its order: the sweep goes on to the next one, *)
(* a request is answered.  Its local variables are gone.                   *)
Leave(r) ==
    /\ Goto(r, IF r = Sweeper THEN "next" ELSE "idle")
    /\ order' = [order EXCEPT ![r] = NoOne]
    /\ todo' = [todo EXCEPT ![r] = {}]
    /\ absent' = [absent EXCEPT ![r] = {}]
    /\ heldFor' = [heldFor EXCEPT ![r] = 0]

-----------------------------------------------------------------------------
(* Requests. *)

(* The conversion commits with the transfer pending; the same request then *)
(* runs the transfer.                                                      *)
Convert(r, o) ==
    /\ pc[r] = "idle"
    /\ status[o] = "none"
    /\ \E q \in Quotes : source[o][q] # "absent"
    /\ status' = [status EXCEPT ![o] = "pending"]
    /\ needsInvoice' = [needsInvoice EXCEPT ![o] = FALSE]
    /\ order' = [order EXCEPT ![r] = o]
    /\ Goto(r, "claim")
    /\ UNCHANGED <<attempts, token, claimAge, docs, todo, absent, heldFor,
                   sched, bounds>>

(* An operator's retry: refused unless the status is retryable and a       *)
(* required invoice is there.                                              *)
Retry(r, o) ==
    /\ pc[r] = "idle"
    /\ status[o] \in Retryable
    /\ needsInvoice[o] => invoice[o]
    /\ order' = [order EXCEPT ![r] = o]
    /\ Goto(r, "claim")
    /\ UNCHANGED <<db, docs, todo, absent, heldFor, sched, bounds>>

-----------------------------------------------------------------------------
(* The sweep. *)

(* A sweep that forgets the transfers a crash left pending. *)
BadSweepStart ==
    /\ pc[Sweeper] = "idle"
    /\ sweepDue
    /\ sweepDue' = FALSE
    /\ queue' = {[order |-> o, attempts |-> attempts[o],
                  needsInvoice |-> needsInvoice[o]] :
                    o \in {p \in Orders : status[p] = "failed"}}
    /\ Goto(Sweeper, "next")
    /\ UNCHANGED <<db, docs, order, todo, absent, heldFor, bounds>>

(* The list of stuck orders and their attempt counts is read once. *)
SweepStart ==
    /\ pc[Sweeper] = "idle"
    /\ sweepDue
    /\ sweepDue' = FALSE
    /\ queue' = {[order |-> o, attempts |-> attempts[o],
                  needsInvoice |-> needsInvoice[o]] :
                    o \in {p \in Orders : status[p] \in Swept}}
    /\ Goto(Sweeper, "next")
    /\ UNCHANGED <<db, docs, order, todo, absent, heldFor, bounds>>

(* Escalation writes the order whatever has happened to it since the list  *)
(* was read.                                                               *)
SweepEscalate(s) ==
    /\ pc[Sweeper] = "next"
    /\ s \in queue
    /\ \/ s.needsInvoice /\ ~invoice[s.order]
       \/ s.attempts + 1 > MaxAttempts
    /\ status' = [status EXCEPT ![s.order] = "escalated"]
    /\ queue' = queue \ {s}
    /\ UNCHANGED <<attempts, needsInvoice, token, claimAge, docs, local,
                   sweepDue, bounds>>

(* The attempt is charged before the transfer runs. *)
SweepCharge(s) ==
    /\ pc[Sweeper] = "next"
    /\ s \in queue
    /\ s.needsInvoice => invoice[s.order]
    /\ s.attempts + 1 <= MaxAttempts
    /\ attempts' = [attempts EXCEPT ![s.order] = s.attempts + 1]
    /\ order' = [order EXCEPT ![Sweeper] = s.order]
    /\ queue' = queue \ {s}
    /\ Goto(Sweeper, "claim")
    /\ UNCHANGED <<status, needsInvoice, token, claimAge, docs, todo, absent,
                   heldFor, sweepDue, bounds>>

SweepEnd ==
    /\ pc[Sweeper] = "next"
    /\ queue = {}
    /\ Goto(Sweeper, "idle")
    /\ UNCHANGED <<db, docs, order, todo, absent, heldFor, sched,
                   bounds>>

-----------------------------------------------------------------------------
(* The transfer, the same for every runner. *)

(* A claim that does not look at the stored one. *)
BadClaimable(o) == status[o] \in Retryable

Claimable(o) ==
    /\ status[o] \in Retryable
    /\ token[o] = NoOne \/ claimAge[o] = ClaimTimeout

(* A takeover that leaves claimed_at as it was. *)
BadClaim(r) ==
    /\ pc[r] = "claim"
    /\ Claimable(order[r])
    /\ token' = [token EXCEPT ![order[r]] = r]
    /\ heldFor' = [heldFor EXCEPT ![r] = 0]
    /\ Goto(r, "read")
    /\ UNCHANGED <<status, attempts, needsInvoice, claimAge, docs, order, todo,
                   absent, sched, bounds>>

(* One conditional UPDATE, committed. *)
Claim(r) ==
    /\ pc[r] = "claim"
    /\ Claimable(order[r])
    /\ token' = [token EXCEPT ![order[r]] = r]
    /\ claimAge' = [claimAge EXCEPT ![order[r]] = 0]
    /\ heldFor' = [heldFor EXCEPT ![r] = 0]
    /\ Goto(r, "read")
    /\ UNCHANGED <<status, attempts, needsInvoice, docs, order, todo, absent,
                   sched, bounds>>

(* A busy claim: the sweep and the conversion skip, a retry answers 409. *)
Busy(r) ==
    /\ pc[r] = "claim"
    /\ ~Claimable(order[r])
    /\ Leave(r)
    /\ UNCHANGED <<db, docs, sched, bounds>>

(* The quotes of the order and the rows of the copies it already has. *)
ReadDocuments(r) ==
    LET o == order[r]
        quotes == {q \in Quotes : source[o][q] # "absent"}
    IN /\ pc[r] = "read"
       /\ todo' = [todo EXCEPT ![r] = quotes]
       /\ absent' = [absent EXCEPT ![r] =
                        {q \in quotes : copy[o][q] = "absent"}]
       /\ Goto(r, "write")
       /\ UNCHANGED <<db, docs, order, heldFor, sched, bounds>>

(* A copy loop that skips a quote whose file is gone. *)
BadWriteFiles(r) ==
    LET o == order[r]
        uncopied == {q \in todo[r] : q \in absent[r] \/ copy[o][q] # "file"}
    IN /\ pc[r] = "write"
       /\ todo' = [todo EXCEPT ![r] = {q \in uncopied : source[o][q] = "file"}]
       /\ Goto(r, "commit")
       /\ UNCHANGED <<db, docs, order, absent, heldFor, sched,
                      bounds>>

(* Files are written for the quotes without a copy on disk; a quote whose  *)
(* own file is gone stops the transfer.                                    *)
WriteFiles(r) ==
    LET o == order[r]
        uncopied == {q \in todo[r] : q \in absent[r] \/ copy[o][q] # "file"}
    IN /\ pc[r] = "write"
       /\ todo' = [todo EXCEPT ![r] = uncopied]
       /\ Goto(r, IF \A q \in uncopied : source[o][q] = "file"
                  THEN "commit" ELSE "fail")
       /\ UNCHANGED <<db, docs, order, absent, heldFor, sched,
                      bounds>>

(* A compensation that removes the files another runner has committed. *)
BadCommitCopies(r) ==
    LET o == order[r]
        fresh == \A q \in todo[r] : (copy[o][q] = "absent") <=> (q \in absent[r])
    IN /\ pc[r] = "commit"
       /\ copy' = [copy EXCEPT ![o] =
                      [q \in Quotes |->
                          CASE q \notin todo[r] -> copy[o][q]
                            [] fresh -> "file"
                            [] ~fresh -> IF copy[o][q] = "file" THEN "lost"
                                                               ELSE copy[o][q]]]
       /\ owed' = IF fresh THEN [owed EXCEPT ![o] = owed[o] \ todo[r]] ELSE owed
       /\ Goto(r, IF fresh THEN "complete" ELSE "fail")
       /\ UNCHANGED <<db, invoice, source, order, todo, absent, heldFor,
                      sched, bounds>>

(* New rows are inserted, rows without a file get the new one.  A row that *)
(* another runner inserted meanwhile breaks the unique constraint; a row   *)
(* that was deleted meanwhile breaks the update.  Either way nothing is    *)
(* committed and the files just written are removed.                       *)
CommitCopies(r) ==
    LET o == order[r]
        fresh == \A q \in todo[r] : (copy[o][q] = "absent") <=> (q \in absent[r])
    IN /\ pc[r] = "commit"
       /\ IF fresh
            THEN /\ copy' = [copy EXCEPT ![o] =
                       [q \in Quotes |-> IF q \in todo[r] THEN "file"
                                                          ELSE copy[o][q]]]
                 /\ owed' = [owed EXCEPT ![o] = owed[o] \ todo[r]]
                 /\ Goto(r, "complete")
            ELSE /\ Goto(r, "fail")
                 /\ UNCHANGED <<copy, owed>>
       /\ UNCHANGED <<db, invoice, source, order, todo, absent, heldFor,
                      sched, bounds>>

(* The status is written without looking at the claim. *)
MarkComplete(r) ==
    LET o == order[r]
        ok == needsInvoice[o] => invoice[o]
    IN /\ pc[r] = "complete"
       /\ status' = IF ok THEN [status EXCEPT ![o] = "complete"] ELSE status
       /\ Goto(r, IF ok THEN "release" ELSE "fail")
       /\ UNCHANGED <<attempts, needsInvoice, token, claimAge, docs, order,
                      todo, absent, heldFor, sched, bounds>>

(* A status that no reader knows. *)
BadMarkFailed(r) ==
    /\ pc[r] = "fail"
    /\ status' = [status EXCEPT ![order[r]] = "error"]
    /\ Goto(r, "release")
    /\ UNCHANGED <<attempts, needsInvoice, token, claimAge, docs, order,
                   todo, absent, heldFor, sched, bounds>>

MarkFailed(r) ==
    LET o == order[r]
    IN /\ pc[r] = "fail"
       /\ status' = [status EXCEPT ![o] = "failed"]
       /\ Goto(r, "release")
       /\ UNCHANGED <<attempts, needsInvoice, token, claimAge, docs, order,
                      todo, absent, heldFor, sched, bounds>>

(* A release that clears whatever claim is stored. *)
BadRelease(r) ==
    /\ pc[r] = "release"
    /\ token' = [token EXCEPT ![order[r]] = NoOne]
    /\ claimAge' = [claimAge EXCEPT ![order[r]] = 0]
    /\ Leave(r)
    /\ UNCHANGED <<status, attempts, needsInvoice, docs, sched,
                   bounds>>

(* Only the runner whose token is stored clears it. *)
Release(r) ==
    LET o == order[r]
        mine == token[o] = r
    IN /\ pc[r] = "release"
       /\ token' = IF mine THEN [token EXCEPT ![o] = NoOne] ELSE token
       /\ claimAge' = IF mine THEN [claimAge EXCEPT ![o] = 0] ELSE claimAge
       /\ Leave(r)
       /\ UNCHANGED <<status, attempts, needsInvoice, docs, sched,
                      bounds>>

-----------------------------------------------------------------------------
(* What can go wrong. *)

Fault ==
    /\ faults < MaxFaults
    /\ faults' = faults + 1

(* A storage or database error raises out of the step being executed.  An  *)
(* error while the failure is being recorded, or while the claim is being  *)
(* released, leaves the row as it is and, in the sweep, ends the sweep.    *)
StepFails(r) ==
    /\ Fault
    /\ Working(r)
    /\ IF pc[r] = "release"
         THEN Leave(r)
         ELSE /\ Goto(r, IF pc[r] = "fail" THEN "release" ELSE "fail")
              /\ UNCHANGED <<order, todo, absent, heldFor>>
    /\ queue' = IF r = Sweeper /\ pc[r] \in {"fail", "release"} THEN {}
                                                               ELSE queue
    /\ UNCHANGED <<db, docs, sweepDue, docEvents>>

(* The process dies and restarts: every runner is gone, the database stays *)
(* and the scheduler sweeps soon after the start.                          *)
Crash ==
    /\ Fault
    /\ pc' = [r \in Runners |-> "idle"]
    /\ order' = [r \in Runners |-> NoOne]
    /\ todo' = [r \in Runners |-> {}]
    /\ absent' = [r \in Runners |-> {}]
    /\ heldFor' = [r \in Runners |-> 0]
    /\ queue' = {}
    /\ sweepDue' = TRUE
    /\ UNCHANGED <<db, docs, docEvents>>

(* One scheduler pass of time.  The scheduler sleeps between two sweeps. *)
Older(age) == IF age < ClaimTimeout THEN age + 1 ELSE age

Tick ==
    /\ claimAge' = [o \in Orders |->
                      IF token[o] = NoOne THEN 0 ELSE Older(claimAge[o])]
    /\ heldFor' = [r \in Runners |->
                      IF Working(r) THEN Older(heldFor[r]) ELSE heldFor[r]]
    /\ sweepDue' = (sweepDue \/ pc[Sweeper] = "idle")
    /\ UNCHANGED <<status, attempts, needsInvoice, token, docs, pc, order,
                   todo, absent, queue, bounds>>

(* Users add and delete quotes, copies and invoices at any time; a disk    *)
(* loses files.                                                            *)
DocEvent ==
    /\ docEvents < MaxDocEvents
    /\ docEvents' = docEvents + 1
    /\ UNCHANGED <<db, local, sched, faults>>

(* A deleted quote's name may come back: the table has no AUTOINCREMENT,   *)
(* so SQLite gives the id of a deleted last row to the next one.           *)
UploadQuote(o, q) ==
    /\ DocEvent
    /\ source[o][q] = "absent"
    /\ source' = [source EXCEPT ![o][q] = "file"]
    /\ owed' = IF status[o] = "none" THEN [owed EXCEPT ![o] = @ \cup {q}]
                                     ELSE owed
    /\ UNCHANGED <<copy, invoice>>

DeleteQuote(o, q) ==
    /\ DocEvent
    /\ source[o][q] # "absent"
    /\ source' = [source EXCEPT ![o][q] = "absent"]
    /\ owed' = [owed EXCEPT ![o] = @ \ {q}]
    /\ UNCHANGED <<copy, invoice>>

DeleteCopy(o, q) ==
    /\ DocEvent
    /\ copy[o][q] # "absent"
    /\ copy' = [copy EXCEPT ![o][q] = "absent"]
    /\ UNCHANGED <<source, invoice, owed>>

LoseFile(o, q) ==
    /\ DocEvent
    /\ \/ /\ source[o][q] = "file"
          /\ source' = [source EXCEPT ![o][q] = "lost"]
          /\ UNCHANGED copy
       \/ /\ copy[o][q] = "file"
          /\ copy' = [copy EXCEPT ![o][q] = "lost"]
          /\ UNCHANGED source
    /\ UNCHANGED <<invoice, owed>>

UploadInvoice(o) ==
    /\ DocEvent
    /\ ~invoice[o]
    /\ invoice' = [invoice EXCEPT ![o] = TRUE]
    /\ UNCHANGED <<source, copy, owed>>

-----------------------------------------------------------------------------
RunnerStep(r) ==
    \/ Claim(r) \/ Busy(r)
    \/ ReadDocuments(r) \/ WriteFiles(r) \/ CommitCopies(r)
    \/ MarkComplete(r) \/ MarkFailed(r) \/ Release(r)

SweepStep ==
    \/ SweepStart
    \/ \E s \in queue : SweepEscalate(s) \/ SweepCharge(s)
    \/ SweepEnd

DocStep ==
    \E o \in Orders :
        \/ \E q \in Quotes : \/ UploadQuote(o, q) \/ DeleteQuote(o, q)
                             \/ DeleteCopy(o, q) \/ LoseFile(o, q)
        \/ UploadInvoice(o)

Next ==
    \/ \E r \in Requests, o \in Orders : Convert(r, o) \/ Retry(r, o)
    \/ SweepStep
    \/ \E r \in Runners : RunnerStep(r) \/ StepFails(r)
    \/ Crash
    \/ Tick
    \/ DocStep

Spec == Init /\ [][Next]_vars

(* Time passes, the event loop runs every coroutine that can go on, and    *)
(* the scheduler's loop never exits: it catches every exception of a job.  *)
(* Nobody has to send a request or edit a document.                        *)
Fairness ==
    /\ WF_vars(Tick)
    /\ WF_vars(SweepStep)
    /\ \A r \in Runners : WF_vars(RunnerStep(r))

FairSpec == Spec /\ Fairness

-----------------------------------------------------------------------------
(* Two runners never work on one order while both claims are fresh: a      *)
(* conversion, a retry and the sweep can only overlap once one of them has *)
(* been running for ClaimTimeout (claim_evidence_transfer, and the token   *)
(* check of release_evidence_transfer).                                    *)
FreshClaimExclusive ==
    \A r1, r2 \in Runners :
        /\ r1 # r2
        /\ Working(r1) /\ Working(r2)
        /\ order[r1] = order[r2]
        => heldFor[r1] = ClaimTimeout \/ heldFor[r2] = ClaimTimeout

(* What makes it so: a working runner whose claim is fresh is the one the  *)
(* order's row names, and both measure the same age.                       *)
ClaimHeld ==
    \A r \in Runners :
        Working(r) /\ heldFor[r] < ClaimTimeout
            => token[order[r]] = r /\ claimAge[order[r]] = heldFor[r]

(* A completed transfer left no quote behind: every quote the order had at *)
(* its conversion, and still has, was copied at some time                  *)
(* (copy_quote_documents_to_procurement_documents raises on a missing file *)
(* and _mark_evidence_transfer_complete only follows a committed copy).    *)
CompleteHasEvidence ==
    \A o \in Orders : status[o] = "complete" => owed[o] = {}

(* A runner never takes committed evidence away: whatever fails, overlaps  *)
(* or crashes after it, a stored copy stays unless a user deletes it or    *)
(* the disk loses it (the compensation deletes only its own new files).    *)
CopiesSurvive ==
    [][\A o \in Orders, q \in Quotes :
          copy[o][q] = "file" =>
              copy'[o][q] = "file" \/ docEvents' # docEvents]_vars

(* No order stays stuck: after a crash, a failure or a lost claim it ends  *)
(* up complete or in front of a person (sweep_stale_evidence_transfers).   *)
StuckOrdersSettle ==
    \A o \in Orders :
        status[o] \in Swept ~> status[o] \in {"complete", "escalated"}

(* The claim columns implement a lease: an order's fresh claim passes from *)
(* one runner to another only by being released or by running out.         *)
FreshHolder == [o \in Orders |-> IF claimAge[o] < ClaimTimeout THEN token[o]
                                                              ELSE NoOne]

EvidenceLease == INSTANCE Lease WITH Resources <- Orders, Holders <- Runners,
                                     NoOne <- NoOne, holder <- FreshHolder

LeaseSpec == EvidenceLease!Spec

=============================================================================
