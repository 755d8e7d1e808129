---------------------- MODULE RestoreMaintenanceProofs ----------------------
(***************************************************************************)
(* The safety of the restore gate, for any finite number of requests and   *)
(* any number of restores.  The four invariants are inductive together:    *)
(* that nothing runs during a swap rests on the counts being exact when    *)
(* they are found zero, and on the gate being closed from then on, which   *)
(* rests on the gate having one owner.                                     *)
(***************************************************************************)
EXTENDS RestoreMaintenance, FiniteSetTheorems, TLAPS

IInv == TypeOK /\ OneRestoreOwnsTheGate /\ CountsAreExact /\ Quiesced

USE DEF Owning, Steps

(* Entering adds one to the count of the set it enters (enter_request,     *)
(* enter_background_job).                                                  *)
LEMMA EnterCounts ==
    ASSUME NEW S, IsFiniteSet(S), NEW run, NEW x \in S, x \notin run
    PROVE  /\ Cardinality((run \cup {x}) \cap S) = Cardinality(run \cap S) + 1
           /\ Cardinality(run \cap S) \in Nat
<1>1. IsFiniteSet(run \cap S)
  BY FS_Subset, run \cap S \subseteq S
<1>2. (run \cup {x}) \cap S = (run \cap S) \cup {x}
  OBVIOUS
<1>3. x \notin run \cap S
  OBVIOUS
<1> QED
  BY <1>1, <1>2, <1>3, FS_AddElement, FS_CardinalityType

(* Leaving takes one from a count that is not zero, so the clamp of        *)
(* leave_request never hides a request.                                    *)
LEMMA LeaveCounts ==
    ASSUME NEW S, IsFiniteSet(S), NEW run, NEW x \in S, x \in run
    PROVE  /\ Cardinality(run \cap S) \in Nat \ {0}
           /\ Cardinality((run \ {x}) \cap S) = Cardinality(run \cap S) - 1
<1>1. IsFiniteSet(run \cap S)
  BY FS_Subset, run \cap S \subseteq S
<1>2. (run \ {x}) \cap S = (run \cap S) \ {x}
  OBVIOUS
<1>3. x \in run \cap S
  OBVIOUS
<1>4. Cardinality(run \cap S) # 0
  BY <1>1, <1>3, FS_EmptySet
<1> QED
  BY <1>1, <1>2, <1>3, <1>4, FS_RemoveElement, FS_CardinalityType

(* Initially the gate is open and nothing runs.                            *)
LEMMA GateInit == Init => IInv
<1> SUFFICES ASSUME Init PROVE IInv
  OBVIOUS
<1>1. running \cap Clients = {} /\ running \cap Jobs = {}
  BY DEF Init
<1>2. TypeOK /\ OneRestoreOwnsTheGate /\ Quiesced
  BY OwnerAssumption DEF Init, TypeOK, OneRestoreOwnsTheGate, Quiesced
<1>3. CountsAreExact
  BY <1>1, FS_EmptySet DEF Init, CountsAreExact
<1> QED
  BY <1>2, <1>3 DEF IInv

(* A step of a restore that moves only itself leaves the counts alone.     *)
LEMMA CountsFrame ==
    ASSUME CountsAreExact, UNCHANGED <<requests, jobs, running>>
    PROVE  CountsAreExact'
BY DEF CountsAreExact

(* Every step of the gate preserves the invariant.                         *)
LEMMA GateStepPreserves == IInv /\ [Next]_vars => IInv'
<1> SUFFICES ASSUME IInv, [Next]_vars PROVE IInv'
  OBVIOUS
<1> USE ProcessAssumption, OwnerAssumption DEF IInv
<1>1. ASSUME NEW c \in Clients, EnterRequest(c) PROVE IInv'
  <2>1. c \notin Jobs
    OBVIOUS
  <2>2. running' \cap Jobs = running \cap Jobs
    BY <1>1, <2>1 DEF EnterRequest
  <2>3. CountsAreExact'
    BY <1>1, <2>2, EnterCounts DEF EnterRequest, CountsAreExact
  <2>4. TypeOK' /\ OneRestoreOwnsTheGate'
    BY <1>1 DEF EnterRequest, TypeOK, OneRestoreOwnsTheGate
  <2>5. Quiesced'
    BY <1>1 DEF EnterRequest, TypeOK, OneRestoreOwnsTheGate, Quiesced
  <2> QED BY <2>3, <2>4, <2>5
<1>2. ASSUME NEW c \in Clients, LeaveRequest(c) PROVE IInv'
  <2>1. running' \cap Jobs = running \cap Jobs
    BY <1>2 DEF LeaveRequest
  <2>2. /\ Cardinality(running \cap Clients) \in Nat \ {0}
        /\ Cardinality((running \ {c}) \cap Clients)
              = Cardinality(running \cap Clients) - 1
    BY <1>2, LeaveCounts DEF LeaveRequest
  <2>3. CountsAreExact'
    <3>1. requests' = Cardinality(running \cap Clients) - 1
      BY <1>2, <2>2 DEF LeaveRequest, CountsAreExact, Less
    <3>2. running' \cap Clients = (running \ {c}) \cap Clients
      BY <1>2 DEF LeaveRequest
    <3>3. jobs' = jobs
      BY <1>2 DEF LeaveRequest
    <3> QED BY <2>1, <2>2, <3>1, <3>2, <3>3 DEF CountsAreExact
  <2>4. TypeOK' /\ OneRestoreOwnsTheGate' /\ Quiesced'
    BY <1>2 DEF LeaveRequest, TypeOK, OneRestoreOwnsTheGate, Quiesced, Less
  <2> QED BY <2>3, <2>4
<1>3. ASSUME NEW j \in Jobs, EnterJob(j) PROVE IInv'
  <2>1. running' \cap Clients = running \cap Clients
    BY <1>3 DEF EnterJob
  <2>2. CountsAreExact'
    BY <1>3, <2>1, EnterCounts DEF EnterJob, CountsAreExact
  <2>3. TypeOK' /\ OneRestoreOwnsTheGate'
    BY <1>3 DEF EnterJob, TypeOK, OneRestoreOwnsTheGate
  <2>4. Quiesced'
    BY <1>3 DEF EnterJob, TypeOK, OneRestoreOwnsTheGate, Quiesced
  <2> QED BY <2>2, <2>3, <2>4
<1>4. ASSUME NEW j \in Jobs, LeaveJob(j) PROVE IInv'
  <2>1. running' \cap Clients = running \cap Clients
    BY <1>4 DEF LeaveJob
  <2>2. /\ Cardinality(running \cap Jobs) \in Nat \ {0}
        /\ Cardinality((running \ {j}) \cap Jobs)
              = Cardinality(running \cap Jobs) - 1
    BY <1>4, LeaveCounts DEF LeaveJob
  <2>3. CountsAreExact'
    <3>1. jobs' = Cardinality(running \cap Jobs) - 1
      BY <1>4, <2>2 DEF LeaveJob, CountsAreExact, Less
    <3>2. running' \cap Jobs = (running \ {j}) \cap Jobs
      BY <1>4 DEF LeaveJob
    <3>3. requests' = requests
      BY <1>4 DEF LeaveJob
    <3> QED BY <2>1, <2>2, <3>1, <3>2, <3>3 DEF CountsAreExact
  <2>4. TypeOK' /\ OneRestoreOwnsTheGate' /\ Quiesced'
    BY <1>4 DEF LeaveJob, TypeOK, OneRestoreOwnsTheGate, Quiesced, Less
  <2> QED BY <2>3, <2>4
<1>5. ASSUME NEW r \in Restores, StartRestore(r) \/ Refuse(r) PROVE IInv'
  <2>1. CountsAreExact'
    BY <1>5, CountsFrame DEF StartRestore, Refuse
  <2> QED
    BY <1>5, <2>1 DEF StartRestore, Refuse, Goto, TypeOK,
                      OneRestoreOwnsTheGate, Quiesced
<1>6. ASSUME NEW r \in Restores, BeginRestore(r) PROVE IInv'
  <2>1. CountsAreExact'
    BY <1>6, CountsFrame DEF BeginRestore
  <2> QED
    BY <1>6, <2>1 DEF BeginRestore, Goto, TypeOK, OneRestoreOwnsTheGate,
                      Quiesced
<1>7. ASSUME NEW r \in Restores, Drained(r) PROVE IInv'
  <2>1. CountsAreExact'
    BY <1>7, CountsFrame DEF Drained
  <2>2. IsFiniteSet(running \cap Clients) /\ IsFiniteSet(running \cap Jobs)
    BY FS_Subset, running \cap Clients \subseteq Clients,
       running \cap Jobs \subseteq Jobs
  <2>3. running \cap Clients = {} /\ running \cap Jobs = {}
    BY <1>7, <2>2, FS_EmptySet DEF Drained, CountsAreExact
  <2>4. running = {}
    BY <2>3 DEF TypeOK
  <2> QED
    BY <1>7, <2>1, <2>4 DEF Drained, Goto, TypeOK, OneRestoreOwnsTheGate,
                            Quiesced
<1>8. ASSUME NEW r \in Restores, CancelWait(r) PROVE IInv'
  <2>1. CountsAreExact'
    BY <1>8, CountsFrame DEF CancelWait
  <2> QED
    BY <1>8, <2>1 DEF CancelWait, Goto, TypeOK, OneRestoreOwnsTheGate,
                      Quiesced
<1>9. ASSUME NEW r \in Restores, Archive(r) \/ Swap(r) \/ RestartRefused(r)
      PROVE  IInv'
  <2>1. CountsAreExact'
    BY <1>9, CountsFrame DEF Archive, Swap, RestartRefused
  <2>2. CASE Archive(r)
    BY <2>1, <2>2 DEF Archive, Goto, TypeOK, OneRestoreOwnsTheGate, Quiesced
  <2>3. CASE Swap(r)
    BY <2>1, <2>3 DEF Swap, Goto, TypeOK, OneRestoreOwnsTheGate, Quiesced
  <2>4. CASE RestartRefused(r)
    BY <2>1, <2>4 DEF RestartRefused, Goto, TypeOK, OneRestoreOwnsTheGate,
                      Quiesced
  <2> QED BY <1>9, <2>2, <2>3, <2>4
<1>10. ASSUME NEW r \in Restores, EndRestore(r) PROVE IInv'
  <2>1. CountsAreExact'
    BY <1>10, CountsFrame DEF EndRestore
  <2> QED
    BY <1>10, <2>1 DEF EndRestore, Goto, TypeOK, OneRestoreOwnsTheGate,
                       Quiesced
<1>11. ASSUME NEW r \in Restores, Restart(r) PROVE IInv'
  <2>1. Init'
    BY <1>11 DEF Restart, Init
  <2>2. running' \cap Clients = {} /\ running' \cap Jobs = {}
    BY <2>1 DEF Init
  <2>3. CountsAreExact'
    BY <2>1, <2>2, FS_EmptySet DEF Init, CountsAreExact
  <2> QED
    BY <2>1, <2>3 DEF Init, TypeOK, OneRestoreOwnsTheGate, Quiesced
<1>12. CASE UNCHANGED vars
  BY <1>12 DEF vars, TypeOK, OneRestoreOwnsTheGate, CountsAreExact, Quiesced
<1> QED
  BY <1>1, <1>2, <1>3, <1>4, <1>5, <1>6, <1>7, <1>8, <1>9, <1>10, <1>11,
     <1>12 DEF Next, GateStep

(* The inductive invariant holds in every behaviour.                       *)
LEMMA GateInvariant == Spec => []IInv
BY GateInit, GateStepPreserves, PTL DEF Spec

(* The state of the gate is well-formed.                                   *)
THEOREM GateTypeCorrect == Spec => []TypeOK
BY GateInvariant, PTL DEF IInv

(* No counted request and no scheduler job runs while begin_restore's      *)
(* caller has the database to itself, for any number of them.              *)
THEOREM RestoreIsQuiesced == Spec => []Quiesced
BY GateInvariant, PTL DEF IInv

(* The gate is closed exactly while one restore owns it.                   *)
THEOREM GateHasOneOwner == Spec => []OneRestoreOwnsTheGate
BY GateInvariant, PTL DEF IInv

(* The counts that begin_restore waits for are the running requests and    *)
(* jobs.                                                                   *)
THEOREM GateCountsAreExact == Spec => []CountsAreExact
BY GateInvariant, PTL DEF IInv
=============================================================================
