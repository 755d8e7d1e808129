------------------------- MODULE RestoreMaintenance -------------------------
(***************************************************************************)
(* The gate around the replacement of the database file.  Ordinary         *)
(* requests and the scheduler's jobs are counted while they run.  A        *)
(* restore closes the gate, waits until both counts are zero, replaces the *)
(* file and opens the gate again, or has the process restarted.  Restore   *)
(* requests themselves are not counted: one that waited for itself would   *)
(* never start.                                                            *)
(***************************************************************************)
EXTENDS Naturals, FiniteSets

CONSTANTS
    Clients,      \* ordinary requests in flight
    Jobs,         \* the scheduler, which runs one database job at a time
    Restores,     \* restore requests
    NoOwner,      \* no restore owns the gate
    RestartAfter  \* RESTART_AFTER_RESTORE

ASSUME ProcessAssumption ==
    IsFiniteSet(Clients) /\ IsFiniteSet(Jobs) /\ Clients \cap Jobs = {}
ASSUME OwnerAssumption == NoOwner \notin Restores
ASSUME RestartAssumption == RestartAfter \in BOOLEAN

VARIABLES
    maintenance,  \* the gate is closed
    owner,        \* _restore_owner; set exactly while _restore_in_progress
    requests,     \* _active_requests
    jobs,         \* _active_background_jobs
    running,      \* the clients and jobs that are past the gate
    pc            \* [Restores -> step]

vars == <<maintenance, owner, requests, jobs, running, pc>>

\* "checking": authentication and inspection, before the gate is asked.
\* "exclusive": the counts were zero; a safety archive may be written.
Steps == {"out", "checking", "waiting", "exclusive", "swapping", "closing",
          "restarting"}

TypeOK ==
    /\ maintenance \in BOOLEAN
    /\ owner \in Restores \cup {NoOwner}
    /\ requests \in Nat
    /\ jobs \in Nat
    /\ running \in SUBSET (Clients \cup Jobs)
    /\ pc \in [Restores -> Steps]

Init ==
    /\ maintenance = FALSE
    /\ owner = NoOwner
    /\ requests = 0
    /\ jobs = 0
    /\ running = {}
    /\ pc = [r \in Restores |-> "out"]

Goto(r, step) == pc' = [pc EXCEPT ![r] = step]
Less(n) == IF n > 0 THEN n - 1 ELSE 0

(* A gate that counts a request without looking at the maintenance flag. *)
BadEnterRequest(c) ==
    /\ c \notin running
    /\ running' = running \cup {c}
    /\ requests' = requests + 1
    /\ UNCHANGED <<maintenance, owner, jobs, pc>>

(* A closed gate answers 503 and changes nothing. *)
EnterRequest(c) ==
    /\ c \notin running
    /\ ~maintenance
    /\ running' = running \cup {c}
    /\ requests' = requests + 1
    /\ UNCHANGED <<maintenance, owner, jobs, pc>>

LeaveRequest(c) ==
    /\ c \in running
    /\ running' = running \ {c}
    /\ requests' = Less(requests)
    /\ UNCHANGED <<maintenance, owner, jobs, pc>>

EnterJob(j) ==
    /\ j \notin running
    /\ ~maintenance
    /\ running' = running \cup {j}
    /\ jobs' = jobs + 1
    /\ UNCHANGED <<maintenance, owner, requests, pc>>

(* A job that leaves by the requests' door. *)
BadLeaveJob(j) ==
    /\ j \in running
    /\ running' = running \ {j}
    /\ requests' = Less(requests)
    /\ UNCHANGED <<maintenance, owner, jobs, pc>>

LeaveJob(j) ==
    /\ j \in running
    /\ running' = running \ {j}
    /\ jobs' = Less(jobs)
    /\ UNCHANGED <<maintenance, owner, requests, pc>>

-----------------------------------------------------------------------------
(* A restore request passes the middleware uncounted. *)
StartRestore(r) ==
    /\ pc[r] = "out"
    /\ Goto(r, "checking")
    /\ UNCHANGED <<maintenance, owner, requests, jobs, running>>

(* Its archive is invalid, which is audited in the database, or another    *)
(* restore is in progress.                                                 *)
Refuse(r) ==
    /\ pc[r] = "checking"
    /\ Goto(r, "out")
    /\ UNCHANGED <<maintenance, owner, requests, jobs, running>>

(* A begin that does not look for a restore in progress. *)
BadBeginRestore(r) ==
    /\ pc[r] = "checking"
    /\ maintenance' = TRUE
    /\ owner' = r
    /\ Goto(r, "waiting")
    /\ UNCHANGED <<requests, jobs, running>>

BeginRestore(r) ==
    /\ pc[r] = "checking"
    /\ owner = NoOwner
    /\ maintenance' = TRUE
    /\ owner' = r
    /\ Goto(r, "waiting")
    /\ UNCHANGED <<requests, jobs, running>>

(* A wait for the requests only. *)
BadDrained(r) ==
    /\ pc[r] = "waiting"
    /\ requests = 0
    /\ Goto(r, "exclusive")
    /\ UNCHANGED <<maintenance, owner, requests, jobs, running>>

Drained(r) ==
    /\ pc[r] = "waiting"
    /\ requests = 0 /\ jobs = 0
    /\ Goto(r, "exclusive")
    /\ UNCHANGED <<maintenance, owner, requests, jobs, running>>

(* A cancelled wait that keeps the gate closed. *)
BadCancelWait(r) ==
    /\ pc[r] = "waiting"
    /\ owner' = NoOwner
    /\ Goto(r, "out")
    /\ UNCHANGED <<maintenance, requests, jobs, running>>

(* The waiting request is cancelled: the gate opens, whoever owns it. *)
CancelWait(r) ==
    /\ pc[r] = "waiting"
    /\ maintenance' = FALSE
    /\ owner' = NoOwner
    /\ Goto(r, "out")
    /\ UNCHANGED <<requests, jobs, running>>

(* The safety archive is written, or fails and ends the restore. *)
Archive(r) ==
    /\ pc[r] = "exclusive"
    /\ \E step \in {"swapping", "closing"} : Goto(r, step)
    /\ UNCHANGED <<maintenance, owner, requests, jobs, running>>

(* The file is replaced, in a thread, or stays as it was. *)
Swap(r) ==
    /\ pc[r] = "swapping"
    /\ \/ Goto(r, "closing")
       \/ RestartAfter /\ Goto(r, "restarting")
    /\ UNCHANGED <<maintenance, owner, requests, jobs, running>>

(* Only the owner's token opens the gate. *)
EndRestore(r) ==
    /\ pc[r] = "closing"
    /\ IF owner = r THEN maintenance' = FALSE /\ owner' = NoOwner
                    ELSE UNCHANGED <<maintenance, owner>>
    /\ Goto(r, "out")
    /\ UNCHANGED <<requests, jobs, running>>

(* The gate stays closed until the response is sent; then the process is   *)
(* told to terminate, and either it does and starts again or the gate is   *)
(* opened.                                                                 *)
Restart(r) ==
    /\ pc[r] = "restarting"
    /\ maintenance' = FALSE
    /\ owner' = NoOwner
    /\ requests' = 0
    /\ jobs' = 0
    /\ running' = {}
    /\ pc' = [s \in Restores |-> "out"]

RestartRefused(r) ==
    /\ pc[r] = "restarting"
    /\ Goto(r, "closing")
    /\ UNCHANGED <<maintenance, owner, requests, jobs, running>>

-----------------------------------------------------------------------------
GateStep(r) ==
    \/ Drained(r) \/ CancelWait(r) \/ Archive(r) \/ Swap(r) \/ EndRestore(r)
    \/ Restart(r) \/ RestartRefused(r)

Next ==
    \/ \E c \in Clients : EnterRequest(c) \/ LeaveRequest(c)
    \/ \E j \in Jobs : EnterJob(j) \/ LeaveJob(j)
    \/ \E r \in Restores : StartRestore(r) \/ Refuse(r) \/ BeginRestore(r)
                           \/ GateStep(r)

Spec == Init /\ [][Next]_vars

(* A request and a job end, and a restore that owns the gate goes on.      *)
(* Nobody needs to cancel the wait, and no request needs to arrive.        *)
Fairness ==
    /\ \A c \in Clients : WF_vars(LeaveRequest(c))
    /\ \A j \in Jobs : WF_vars(LeaveJob(j))
    /\ \A r \in Restores : WF_vars(Drained(r) \/ Archive(r) \/ Swap(r)
                                   \/ EndRestore(r) \/ Restart(r)
                                   \/ RestartRefused(r))

FairSpec == Spec /\ Fairness

-----------------------------------------------------------------------------
(* While the database file is being replaced no counted request and no     *)
(* scheduler job is running (begin_restore waits for both counts and       *)
(* nothing enters a closed gate).                                          *)
Quiesced == \A r \in Restores : pc[r] \in {"exclusive", "swapping"} => running = {}

(* Two restores never replace the file together, and the gate is closed    *)
(* exactly while one of them owns it (_restore_in_progress, end_restore).  *)
Owning(r) == pc[r] \in {"waiting", "exclusive", "swapping", "closing",
                        "restarting"}
OneRestoreOwnsTheGate ==
    /\ \A r \in Restores : Owning(r) => owner = r
    /\ maintenance <=> owner # NoOwner
    /\ owner # NoOwner => Owning(owner)

(* What Quiesced rests on: the counts are those of the running requests    *)
(* and jobs, although leave_request clamps them at zero.                   *)
CountsAreExact ==
    /\ requests = Cardinality(running \cap Clients)
    /\ jobs = Cardinality(running \cap Jobs)

(* A closed gate opens again, after a restore, a failure or a restart      *)
(* (the middleware's finally and _terminate_process_after_restore).        *)
GateReopens == maintenance ~> ~maintenance

(* A restore that waits gets the file or is cancelled: new requests cannot *)
(* keep the counts up (enter_request tests the flag first).                *)
WaitingEnds == \A r \in Restores : pc[r] = "waiting" ~> pc[r] # "waiting"

=============================================================================
