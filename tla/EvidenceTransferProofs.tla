----------------------- MODULE EvidenceTransferProofs -----------------------
(***************************************************************************)
(* Type correctness of the evidence transfer and the exclusiveness of a    *)
(* fresh claim, for any number of orders, quotes, requests, crashes and    *)
(* document events, and for any claim timeout.                             *)
(***************************************************************************)
EXTENDS EvidenceTransfer, TLAPS

USE DEF db, docs, local, sched, bounds, Runners, Statuses, DocStates, Steps

(* The state starts well-formed.                                           *)
LEMMA TypeInit == Init => TypeOK
  BY TimeoutAssumption, BoundsAssumption
  DEF Init, TypeOK, DbTypeOK, DocsTypeOK, LocalTypeOK, OtherTypeOK

(* Every handler, runner step, sweep step, crash, tick and document event  *)
(* leaves the state well-formed.                                           *)
LEMMA TypeStep == TypeOK /\ [Next]_vars => TypeOK'
<1> SUFFICES ASSUME TypeOK, [Next]_vars PROVE TypeOK'
  OBVIOUS
<1> USE TimeoutAssumption, BoundsAssumption, ProcessAssumption DEF TypeOK
<1>1. ASSUME NEW r \in Requests, NEW o \in Orders, Convert(r, o)
      PROVE  TypeOK'
  <2>1. DbTypeOK'
    BY <1>1 DEF Convert, DbTypeOK
  <2>2. DocsTypeOK'
    BY <1>1 DEF Convert, DocsTypeOK
  <2>3. LocalTypeOK'
    BY <1>1 DEF Convert, LocalTypeOK, Goto
  <2>4. OtherTypeOK'
    BY <1>1 DEF Convert, OtherTypeOK
  <2>5. QED
    BY <2>1, <2>2, <2>3, <2>4
<1>2. ASSUME NEW r \in Requests, NEW o \in Orders, Retry(r, o)
      PROVE  TypeOK'
  <2>1. DbTypeOK'
    BY <1>2 DEF Retry, DbTypeOK
  <2>2. DocsTypeOK'
    BY <1>2 DEF Retry, DocsTypeOK
  <2>3. LocalTypeOK'
    BY <1>2 DEF Retry, LocalTypeOK, Goto
  <2>4. OtherTypeOK'
    BY <1>2 DEF Retry, OtherTypeOK
  <2>5. QED
    BY <2>1, <2>2, <2>3, <2>4
<1>3. CASE SweepStart
  <2>1. DbTypeOK'
    BY <1>3 DEF SweepStart, Snapshot, Swept, DbTypeOK
  <2>2. DocsTypeOK'
    BY <1>3 DEF SweepStart, Snapshot, Swept, DocsTypeOK
  <2>3. LocalTypeOK'
    BY <1>3 DEF SweepStart, Snapshot, Swept, LocalTypeOK, Goto
  <2>4. OtherTypeOK'
    <3>1. \A o \in Orders : attempts[o] \in Nat /\ needsInvoice[o] \in BOOLEAN
      BY DEF DbTypeOK
    <3>2. queue' \subseteq Snapshot
      BY <1>3, <3>1 DEF SweepStart, Snapshot
    <3>3. QED
      BY <1>3, <3>2 DEF SweepStart, OtherTypeOK
  <2>5. QED
    BY <2>1, <2>2, <2>3, <2>4
<1>4. ASSUME NEW s \in queue, SweepEscalate(s)
      PROVE  TypeOK'
  <2>1. DbTypeOK'
    BY <1>4 DEF SweepEscalate, Snapshot, DbTypeOK
  <2>2. DocsTypeOK'
    BY <1>4 DEF SweepEscalate, Snapshot, DocsTypeOK
  <2>3. LocalTypeOK'
    BY <1>4 DEF SweepEscalate, Snapshot, LocalTypeOK
  <2>4. OtherTypeOK'
    BY <1>4 DEF SweepEscalate, Snapshot, OtherTypeOK
  <2>5. QED
    BY <2>1, <2>2, <2>3, <2>4
<1>5. ASSUME NEW s \in queue, SweepCharge(s)
      PROVE  TypeOK'
  <2> s.order \in Orders /\ s.attempts \in Nat
    BY DEF OtherTypeOK, Snapshot
  <2>1. DbTypeOK'
    BY <1>5 DEF SweepCharge, DbTypeOK
  <2>2. DocsTypeOK'
    BY <1>5 DEF SweepCharge, Snapshot, DocsTypeOK
  <2>3. LocalTypeOK'
    BY <1>5 DEF SweepCharge, LocalTypeOK, Goto
  <2>4. OtherTypeOK'
    BY <1>5 DEF SweepCharge, Snapshot, OtherTypeOK
  <2>5. QED
    BY <2>1, <2>2, <2>3, <2>4
<1>6. CASE SweepEnd
  <2>1. DbTypeOK'
    BY <1>6 DEF SweepEnd, DbTypeOK
  <2>2. DocsTypeOK'
    BY <1>6 DEF SweepEnd, DocsTypeOK
  <2>3. LocalTypeOK'
    BY <1>6 DEF SweepEnd, LocalTypeOK, Goto
  <2>4. OtherTypeOK'
    BY <1>6 DEF SweepEnd, OtherTypeOK
  <2>5. QED
    BY <2>1, <2>2, <2>3, <2>4
<1>7. ASSUME NEW r \in Runners, Claim(r)
      PROVE  TypeOK'
  <2>1. DbTypeOK'
    BY <1>7 DEF Claim, DbTypeOK, LocalTypeOK
  <2>2. DocsTypeOK'
    BY <1>7 DEF Claim, DocsTypeOK
  <2>3. LocalTypeOK'
    BY <1>7 DEF Claim, LocalTypeOK, Goto
  <2>4. OtherTypeOK'
    BY <1>7 DEF Claim, OtherTypeOK
  <2>5. QED
    BY <2>1, <2>2, <2>3, <2>4
<1>8. ASSUME NEW r \in Runners, Busy(r)
      PROVE  TypeOK'
  <2>1. DbTypeOK'
    BY <1>8 DEF Busy, DbTypeOK
  <2>2. DocsTypeOK'
    BY <1>8 DEF Busy, DocsTypeOK
  <2>3. LocalTypeOK'
    BY <1>8 DEF Busy, LocalTypeOK, Goto, Leave
  <2>4. OtherTypeOK'
    BY <1>8 DEF Busy, OtherTypeOK
  <2>5. QED
    BY <2>1, <2>2, <2>3, <2>4
<1>9. ASSUME NEW r \in Runners, ReadDocuments(r)
      PROVE  TypeOK'
  <2>1. DbTypeOK'
    BY <1>9 DEF ReadDocuments, DbTypeOK
  <2>2. DocsTypeOK'
    BY <1>9 DEF ReadDocuments, DocsTypeOK
  <2>3. LocalTypeOK'
    BY <1>9 DEF ReadDocuments, LocalTypeOK, Goto
  <2>4. OtherTypeOK'
    BY <1>9 DEF ReadDocuments, OtherTypeOK
  <2>5. QED
    BY <2>1, <2>2, <2>3, <2>4
<1>10. ASSUME NEW r \in Runners, WriteFiles(r)
      PROVE  TypeOK'
  <2>1. DbTypeOK'
    BY <1>10 DEF WriteFiles, DbTypeOK
  <2>2. DocsTypeOK'
    BY <1>10 DEF WriteFiles, DocsTypeOK
  <2>3. LocalTypeOK'
    BY <1>10 DEF WriteFiles, LocalTypeOK, Goto
  <2>4. OtherTypeOK'
    BY <1>10 DEF WriteFiles, OtherTypeOK
  <2>5. QED
    BY <2>1, <2>2, <2>3, <2>4
<1>11. ASSUME NEW r \in Runners, CommitCopies(r)
      PROVE  TypeOK'
  <2>1. DbTypeOK'
    BY <1>11 DEF CommitCopies, DbTypeOK
  <2>2. DocsTypeOK'
    <3> DEFINE o == order[r]
               copied == [q \in Quotes |-> IF q \in todo[r] THEN "file"
                                                           ELSE copy[o][q]]
    <3>1. o \in Orders
      BY <1>11 DEF CommitCopies, LocalTypeOK
    <3>2. copied \in [Quotes -> DocStates]
      BY <3>1 DEF DocsTypeOK
    <3>3. CASE copy' = [copy EXCEPT ![o] = copied]
               /\ owed' = [owed EXCEPT ![o] = owed[o] \ todo[r]]
      <4>1. copy' \in [Orders -> [Quotes -> DocStates]]
        BY <3>1, <3>2, <3>3 DEF DocsTypeOK
      <4>2. owed' \in [Orders -> SUBSET Quotes]
        BY <3>1, <3>3 DEF DocsTypeOK
      <4>3. UNCHANGED <<invoice, source>>
        BY <1>11 DEF CommitCopies
      <4>4. QED
        BY <4>1, <4>2, <4>3 DEF DocsTypeOK
    <3>4. CASE UNCHANGED <<copy, owed>>
      BY <1>11, <3>4 DEF CommitCopies, DocsTypeOK
    <3>5. QED
      BY <1>11, <3>3, <3>4 DEF CommitCopies
  <2>3. LocalTypeOK'
    BY <1>11 DEF CommitCopies, LocalTypeOK, Goto
  <2>4. OtherTypeOK'
    BY <1>11 DEF CommitCopies, OtherTypeOK
  <2>5. QED
    BY <2>1, <2>2, <2>3, <2>4
<1>12. ASSUME NEW r \in Runners, MarkComplete(r)
      PROVE  TypeOK'
  <2>1. DbTypeOK'
    BY <1>12 DEF MarkComplete, DbTypeOK
  <2>2. DocsTypeOK'
    BY <1>12 DEF MarkComplete, DocsTypeOK
  <2>3. LocalTypeOK'
    BY <1>12 DEF MarkComplete, LocalTypeOK, Goto
  <2>4. OtherTypeOK'
    BY <1>12 DEF MarkComplete, OtherTypeOK
  <2>5. QED
    BY <2>1, <2>2, <2>3, <2>4
<1>13. ASSUME NEW r \in Runners, MarkFailed(r)
      PROVE  TypeOK'
  <2>1. DbTypeOK'
    BY <1>13 DEF MarkFailed, DbTypeOK
  <2>2. DocsTypeOK'
    BY <1>13 DEF MarkFailed, DocsTypeOK
  <2>3. LocalTypeOK'
    BY <1>13 DEF MarkFailed, LocalTypeOK, Goto
  <2>4. OtherTypeOK'
    BY <1>13 DEF MarkFailed, OtherTypeOK
  <2>5. QED
    BY <2>1, <2>2, <2>3, <2>4
<1>14. ASSUME NEW r \in Runners, Release(r)
      PROVE  TypeOK'
  <2>1. DbTypeOK'
    <3>1. CASE token[order[r]] = r
      <4>1. /\ token' = [token EXCEPT ![order[r]] = NoOne]
            /\ claimAge' = [claimAge EXCEPT ![order[r]] = 0]
            /\ UNCHANGED <<status, attempts, needsInvoice>>
        BY <1>14, <3>1 DEF Release
      <4>2. token' \in [Orders -> Runners \cup {NoOne}]
        BY <4>1 DEF DbTypeOK
      <4>3. claimAge' \in [Orders -> 0..ClaimTimeout]
        <5>1. 0 \in 0..ClaimTimeout
          BY TimeoutAssumption
        <5>2. QED
          BY <4>1, <5>1 DEF DbTypeOK
      <4>4. QED
        BY <4>1, <4>2, <4>3 DEF DbTypeOK
    <3>2. CASE token[order[r]] # r
      BY <1>14, <3>2 DEF Release, DbTypeOK
    <3>3. QED
      BY <3>1, <3>2
  <2>2. DocsTypeOK'
    BY <1>14 DEF Release, DocsTypeOK
  <2>3. LocalTypeOK'
    BY <1>14 DEF Release, LocalTypeOK, Goto, Leave
  <2>4. OtherTypeOK'
    BY <1>14 DEF Release, OtherTypeOK
  <2>5. QED
    BY <2>1, <2>2, <2>3, <2>4
<1>15. ASSUME NEW r \in Runners, StepFails(r)
      PROVE  TypeOK'
  <2>1. DbTypeOK'
    BY <1>15 DEF StepFails, Fault, Working, DbTypeOK
  <2>2. DocsTypeOK'
    BY <1>15 DEF StepFails, Fault, Working, DocsTypeOK
  <2>3. LocalTypeOK'
    BY <1>15 DEF StepFails, Fault, Working, LocalTypeOK, Goto, Leave
  <2>4. OtherTypeOK'
    BY <1>15 DEF StepFails, Fault, Working, OtherTypeOK
  <2>5. QED
    BY <2>1, <2>2, <2>3, <2>4
<1>16. CASE Crash
  <2>1. DbTypeOK'
    BY <1>16 DEF Crash, Fault, DbTypeOK
  <2>2. DocsTypeOK'
    BY <1>16 DEF Crash, Fault, DocsTypeOK
  <2>3. LocalTypeOK'
    BY <1>16 DEF Crash, Fault, LocalTypeOK, Goto
  <2>4. OtherTypeOK'
    BY <1>16 DEF Crash, Fault, OtherTypeOK
  <2>5. QED
    BY <2>1, <2>2, <2>3, <2>4
<1>17. CASE Tick
  <2>1. DbTypeOK'
    BY <1>17 DEF Tick, Older, DbTypeOK
  <2>2. DocsTypeOK'
    BY <1>17 DEF Tick, Older, DocsTypeOK
  <2>3. LocalTypeOK'
    BY <1>17 DEF Tick, Older, LocalTypeOK, Goto
  <2>4. OtherTypeOK'
    BY <1>17 DEF Tick, Older, OtherTypeOK
  <2>5. QED
    BY <2>1, <2>2, <2>3, <2>4
<1>18. ASSUME NEW o \in Orders, NEW q \in Quotes, UploadQuote(o, q)
      PROVE  TypeOK'
  <2>1. DbTypeOK'
    BY <1>18 DEF UploadQuote, DocEvent, DbTypeOK
  <2>2. DocsTypeOK'
    BY <1>18 DEF UploadQuote, DocEvent, DocsTypeOK
  <2>3. LocalTypeOK'
    BY <1>18 DEF UploadQuote, DocEvent, LocalTypeOK
  <2>4. OtherTypeOK'
    BY <1>18 DEF UploadQuote, DocEvent, OtherTypeOK
  <2>5. QED
    BY <2>1, <2>2, <2>3, <2>4
<1>19. ASSUME NEW o \in Orders, NEW q \in Quotes, DeleteQuote(o, q)
      PROVE  TypeOK'
  <2>1. DbTypeOK'
    BY <1>19 DEF DeleteQuote, DocEvent, DbTypeOK
  <2>2. DocsTypeOK'
    BY <1>19 DEF DeleteQuote, DocEvent, DocsTypeOK
  <2>3. LocalTypeOK'
    BY <1>19 DEF DeleteQuote, DocEvent, LocalTypeOK
  <2>4. OtherTypeOK'
    BY <1>19 DEF DeleteQuote, DocEvent, OtherTypeOK
  <2>5. QED
    BY <2>1, <2>2, <2>3, <2>4
<1>20. ASSUME NEW o \in Orders, NEW q \in Quotes, DeleteCopy(o, q)
      PROVE  TypeOK'
  <2>1. DbTypeOK'
    BY <1>20 DEF DeleteCopy, DocEvent, DbTypeOK
  <2>2. DocsTypeOK'
    BY <1>20 DEF DeleteCopy, DocEvent, DocsTypeOK
  <2>3. LocalTypeOK'
    BY <1>20 DEF DeleteCopy, DocEvent, LocalTypeOK
  <2>4. OtherTypeOK'
    BY <1>20 DEF DeleteCopy, DocEvent, OtherTypeOK
  <2>5. QED
    BY <2>1, <2>2, <2>3, <2>4
<1>21. ASSUME NEW o \in Orders, NEW q \in Quotes, LoseFile(o, q)
      PROVE  TypeOK'
  <2>1. DbTypeOK'
    BY <1>21 DEF LoseFile, DocEvent, DbTypeOK
  <2>2. DocsTypeOK'
    <3>1. CASE source' = [source EXCEPT ![o][q] = "lost"] /\ UNCHANGED copy
      <4>1. source' \in [Orders -> [Quotes -> DocStates]]
        BY <3>1 DEF DocsTypeOK
      <4>2. QED
        BY <1>21, <3>1, <4>1 DEF LoseFile, DocsTypeOK
    <3>2. CASE copy' = [copy EXCEPT ![o][q] = "lost"] /\ UNCHANGED source
      <4>1. copy' \in [Orders -> [Quotes -> DocStates]]
        BY <3>2 DEF DocsTypeOK
      <4>2. QED
        BY <1>21, <3>2, <4>1 DEF LoseFile, DocsTypeOK
    <3>3. QED
      BY <1>21, <3>1, <3>2 DEF LoseFile
  <2>3. LocalTypeOK'
    BY <1>21 DEF LoseFile, DocEvent, LocalTypeOK
  <2>4. OtherTypeOK'
    BY <1>21 DEF LoseFile, DocEvent, OtherTypeOK
  <2>5. QED
    BY <2>1, <2>2, <2>3, <2>4
<1>22. ASSUME NEW o \in Orders, UploadInvoice(o)
      PROVE  TypeOK'
  <2>1. DbTypeOK'
    BY <1>22 DEF UploadInvoice, DocEvent, DbTypeOK
  <2>2. DocsTypeOK'
    BY <1>22 DEF UploadInvoice, DocEvent, DocsTypeOK
  <2>3. LocalTypeOK'
    BY <1>22 DEF UploadInvoice, DocEvent, LocalTypeOK
  <2>4. OtherTypeOK'
    BY <1>22 DEF UploadInvoice, DocEvent, OtherTypeOK
  <2>5. QED
    BY <2>1, <2>2, <2>3, <2>4
<1>23. CASE UNCHANGED vars
  BY <1>23 DEF vars, DbTypeOK, DocsTypeOK, LocalTypeOK, OtherTypeOK
<1>24. QED
  BY <1>1, <1>2, <1>3, <1>4, <1>5, <1>6, <1>7, <1>8, <1>9, <1>10, <1>11,
     <1>12, <1>13, <1>14, <1>15, <1>16, <1>17, <1>18, <1>19, <1>20, <1>21,
     <1>22, <1>23
     DEF Next, SweepStep, RunnerStep, DocStep

(* The columns, the documents and the local state of every runner keep     *)
(* their types through every interleaving, fault and restart.              *)
THEOREM TypeCorrect == Spec => []TypeOK
<1>1. Init => TypeOK
  BY TypeInit
<1>2. TypeOK /\ [Next]_vars => TypeOK'
  BY TypeStep
<1>3. QED
  BY <1>1, <1>2, PTL DEF Spec

-----------------------------------------------------------------------------
(* ClaimHeld is inductive relative to TypeOK. *)

(* Actions that leave claims, ages and orders alone, and start no work,    *)
(* cannot disturb ClaimHeld.                                               *)
LEMMA ClaimHeldFrame ==
  ASSUME ClaimHeld, UNCHANGED <<token, claimAge, heldFor>>,
         \A r \in Runners : Working(r)' => Working(r) /\ order'[r] = order[r]
  PROVE  ClaimHeld'
  BY DEF ClaimHeld, Working

(* No step takes a claim that is not older than the timeout away from its  *)
(* runner (claim_evidence_transfer tests the age, release the token).      *)
LEMMA ClaimHeldStep == TypeOK /\ ClaimHeld /\ [Next]_vars => ClaimHeld'
<1> SUFFICES ASSUME TypeOK, ClaimHeld, [Next]_vars PROVE ClaimHeld'
  OBVIOUS
<1> USE TimeoutAssumption, ProcessAssumption DEF TypeOK, LocalTypeOK, DbTypeOK
<1>1. ASSUME NEW r \in Requests, NEW o \in Orders, Convert(r, o) \/ Retry(r, o)
      PROVE  ClaimHeld'
  BY <1>1, ClaimHeldFrame DEF Convert, Retry, Goto, Working
<1>2. CASE SweepStep
  BY <1>2, ClaimHeldFrame
  DEF SweepStep, SweepStart, SweepEscalate, SweepCharge, SweepEnd, Goto, Working
<1>3. ASSUME NEW r \in Runners, Claim(r) PROVE ClaimHeld'
  <2> SUFFICES ASSUME NEW x \in Runners, Working(x)', heldFor'[x] < ClaimTimeout
               PROVE  token'[order'[x]] = x /\ claimAge'[order'[x]] = heldFor'[x]
    BY DEF ClaimHeld
  <2>1. order[r] \in Orders
    BY <1>3 DEF Claim
  <2>2. CASE x = r
    BY <1>3, <2>1, <2>2 DEF Claim
  <2>3. CASE x # r
    <3>1. Working(x) /\ heldFor[x] < ClaimTimeout /\ order'[x] = order[x]
      BY <1>3, <2>3 DEF Claim, Goto, Working
    <3>2. token[order[x]] = x /\ claimAge[order[x]] = heldFor[x]
      BY <3>1 DEF ClaimHeld
    <3>3. order[x] # order[r]
      BY <1>3, <3>1, <3>2 DEF Claim, Claimable
    <3>4. QED
      BY <1>3, <2>3, <3>1, <3>2, <3>3 DEF Claim
  <2>4. QED
    BY <2>2, <2>3
<1>4. ASSUME NEW r \in Runners, Release(r) PROVE ClaimHeld'
  <2> SUFFICES ASSUME NEW x \in Runners, Working(x)', heldFor'[x] < ClaimTimeout
               PROVE  token'[order'[x]] = x /\ claimAge'[order'[x]] = heldFor'[x]
    BY DEF ClaimHeld
  <2>1. x # r
    BY <1>4 DEF Release, Leave, Goto, Working
  <2>2. Working(x) /\ heldFor'[x] = heldFor[x] /\ order'[x] = order[x]
    BY <1>4, <2>1 DEF Release, Leave, Goto, Working
  <2>3. token[order[x]] = x /\ claimAge[order[x]] = heldFor[x]
    BY <2>2 DEF ClaimHeld
  <2>4. CASE token[order[r]] = r
    <3>1. order[x] # order[r]
      BY <2>1, <2>3, <2>4
    <3>2. token' = [token EXCEPT ![order[r]] = NoOne]
          /\ claimAge' = [claimAge EXCEPT ![order[r]] = 0]
      BY <1>4, <2>4 DEF Release
    <3>3. token'[order[x]] = token[order[x]] /\ claimAge'[order[x]] = claimAge[order[x]]
      BY <2>2, <3>1, <3>2 DEF Working
    <3>4. QED
      BY <2>2, <2>3, <3>3
  <2>5. CASE token[order[r]] # r
    BY <1>4, <2>2, <2>3, <2>5 DEF Release
  <2>6. QED
    BY <2>4, <2>5
<1>5. ASSUME NEW r \in Runners, Busy(r) PROVE ClaimHeld'
  BY <1>5 DEF Busy, Leave, Goto, Working, ClaimHeld
<1>6. ASSUME NEW r \in Runners,
             ReadDocuments(r) \/ WriteFiles(r) \/ CommitCopies(r)
               \/ MarkComplete(r) \/ MarkFailed(r)
      PROVE  ClaimHeld'
  <2>1. UNCHANGED <<token, claimAge, heldFor, order>> /\ Working(r)
    BY <1>6 DEF ReadDocuments, WriteFiles, CommitCopies, MarkComplete,
                MarkFailed, Working
  <2>2. \A x \in Runners : x # r => pc'[x] = pc[x]
    BY <1>6 DEF ReadDocuments, WriteFiles, CommitCopies, MarkComplete,
                MarkFailed, Goto
  <2>3. QED
    BY <2>1, <2>2, ClaimHeldFrame DEF Working
<1>7. ASSUME NEW r \in Runners, StepFails(r) PROVE ClaimHeld'
  <2>1. CASE pc[r] = "release"
    BY <1>7, <2>1 DEF StepFails, Leave, Goto, Working, ClaimHeld
  <2>2. CASE pc[r] # "release"
    BY <1>7, <2>2, ClaimHeldFrame DEF StepFails, Goto, Working
  <2>3. QED
    BY <2>1, <2>2
<1>8. CASE Crash
  BY <1>8 DEF Crash, Working, ClaimHeld
<1>9. CASE Tick
  <2> SUFFICES ASSUME NEW x \in Runners, Working(x)', heldFor'[x] < ClaimTimeout
               PROVE  token'[order'[x]] = x /\ claimAge'[order'[x]] = heldFor'[x]
    BY DEF ClaimHeld
  <2>1. Working(x) /\ order'[x] = order[x] /\ order[x] \in Orders
    BY <1>9 DEF Tick, Working
  <2>2. heldFor'[x] = Older(heldFor[x]) /\ heldFor[x] < ClaimTimeout
    BY <1>9, <2>1 DEF Tick, Older
  <2>3. token[order[x]] = x /\ claimAge[order[x]] = heldFor[x]
    BY <2>1, <2>2 DEF ClaimHeld
  <2>4. claimAge'[order[x]] = Older(claimAge[order[x]]) /\ UNCHANGED token
    BY <1>9, <2>1, <2>3 DEF Tick
  <2>5. QED
    BY <2>1, <2>2, <2>3, <2>4
<1>10. CASE DocStep
  BY <1>10, ClaimHeldFrame
  DEF DocStep, UploadQuote, DeleteQuote, DeleteCopy, LoseFile, UploadInvoice,
      DocEvent, Working
<1>11. CASE UNCHANGED vars
  BY <1>11, ClaimHeldFrame DEF vars, Working
<1>12. QED
  BY <1>1, <1>2, <1>3, <1>4, <1>5, <1>6, <1>7, <1>8, <1>9, <1>10, <1>11
  DEF Next, RunnerStep

(* A working runner with a fresh claim is the one the order's row names.   *)
THEOREM ClaimIsHeld == Spec => []ClaimHeld
<1>1. Init => ClaimHeld
  BY DEF Init, ClaimHeld, Working
<1>2. QED
  BY <1>1, ClaimHeldStep, TypeCorrect, PTL DEF Spec

(* However many requests, sweeps, crashes and takeovers there are, two     *)
(* runners never work on one order under two fresh claims.                 *)
THEOREM FreshClaimIsExclusive == Spec => []FreshClaimExclusive
<1>1. TypeOK /\ ClaimHeld => FreshClaimExclusive
  BY TimeoutAssumption DEF ClaimHeld, FreshClaimExclusive, TypeOK, LocalTypeOK
<1>2. QED
  BY <1>1, TypeCorrect, ClaimIsHeld, PTL

-----------------------------------------------------------------------------
(* The claim columns refine Lease. *)

(* Every step is a step of the lease or leaves its holder alone.           *)
LEMMA LeaseStep == TypeOK /\ [Next]_vars => [EvidenceLease!Next]_FreshHolder
<1> SUFFICES ASSUME TypeOK, [Next]_vars
             PROVE  EvidenceLease!Next \/ UNCHANGED FreshHolder
  OBVIOUS
<1> USE TimeoutAssumption, ProcessAssumption DEF TypeOK, LocalTypeOK, DbTypeOK
<1>1. ASSUME UNCHANGED <<token, claimAge>> PROVE UNCHANGED FreshHolder
  BY <1>1 DEF FreshHolder
<1>2. ASSUME NEW r \in Runners, Claim(r) PROVE EvidenceLease!Next
  <2>1. order[r] \in Orders
    BY <1>2 DEF Claim
  <2>2. FreshHolder[order[r]] = NoOne
    BY <1>2, <2>1 DEF Claim, Claimable, FreshHolder
  <2>3. FreshHolder' = [FreshHolder EXCEPT ![order[r]] = r]
    <3>1. \A o \in Orders : IF o = order[r]
                              THEN claimAge'[o] = 0 /\ token'[o] = r
                              ELSE claimAge'[o] = claimAge[o] /\ token'[o] = token[o]
      BY <1>2, <2>1 DEF Claim
    <3>2. FreshHolder' = [o \in Orders |-> IF o = order[r] THEN r
                                                          ELSE FreshHolder[o]]
      BY <3>1 DEF FreshHolder
    <3>3. QED
      BY <2>1, <3>2 DEF FreshHolder
  <2>4. EvidenceLease!Acquire(order[r], r)
    BY <2>2, <2>3 DEF EvidenceLease!Acquire
  <2>5. QED
    BY <2>1, <2>4 DEF EvidenceLease!Next
<1>3. ASSUME NEW r \in Runners, Release(r) PROVE EvidenceLease!Next \/ UNCHANGED FreshHolder
  <2>1. CASE token[order[r]] = r
    <3>1. order[r] \in Orders
      BY <1>3 DEF Release
    <3>2. token' = [token EXCEPT ![order[r]] = NoOne]
          /\ claimAge' = [claimAge EXCEPT ![order[r]] = 0]
      BY <1>3, <2>1 DEF Release
    <3>3. FreshHolder' = [x \in Orders |-> IF x \in {order[r]} THEN NoOne
                                                            ELSE FreshHolder[x]]
      BY <3>1, <3>2 DEF FreshHolder
    <3>4. EvidenceLease!End({order[r]})
      BY <3>3 DEF EvidenceLease!End
    <3>5. QED
      BY <3>1, <3>4 DEF EvidenceLease!Next
  <2>2. CASE token[order[r]] # r
    BY <1>1, <1>3, <2>2 DEF Release
  <2>3. QED
    BY <2>1, <2>2
<1>4. CASE Tick
  <2> DEFINE S == {o \in Orders : claimAge'[o] = ClaimTimeout}
  <2>1. FreshHolder' = [x \in Orders |-> IF x \in S THEN NoOne ELSE FreshHolder[x]]
    BY <1>4 DEF Tick, Older, FreshHolder
  <2>2. EvidenceLease!End(S)
    BY <2>1 DEF EvidenceLease!End
  <2>3. QED
    BY <2>2 DEF EvidenceLease!Next
<1>5. ASSUME NEW r \in Runners, RunnerStep(r) PROVE EvidenceLease!Next \/ UNCHANGED FreshHolder
  BY <1>1, <1>2, <1>3, <1>5
  DEF RunnerStep, Busy, ReadDocuments, WriteFiles, CommitCopies, MarkComplete,
      MarkFailed
<1>6. ASSUME NEW r \in Runners, StepFails(r) PROVE UNCHANGED FreshHolder
  BY <1>1, <1>6 DEF StepFails
<1>7. CASE \E r \in Requests, o \in Orders : Convert(r, o) \/ Retry(r, o)
  BY <1>1, <1>7 DEF Convert, Retry
<1>8. CASE SweepStep
  BY <1>1, <1>8 DEF SweepStep, SweepStart, SweepEscalate, SweepCharge, SweepEnd
<1>9. CASE Crash \/ DocStep
  BY <1>1, <1>9 DEF Crash, DocStep, UploadQuote, DeleteQuote, DeleteCopy,
                    LoseFile, UploadInvoice, DocEvent
<1>10. CASE UNCHANGED vars
  BY <1>1, <1>10 DEF vars
<1>11. QED
  BY <1>4, <1>5, <1>6, <1>7, <1>8, <1>9, <1>10 DEF Next

(* The claim protocol implements a lease with a time limit. *)
THEOREM ClaimImplementsLease == Spec => LeaseSpec
<1>1. Init => EvidenceLease!Init
  BY DEF Init, EvidenceLease!Init, FreshHolder
<1>2. QED
  BY <1>1, LeaseStep, TypeCorrect, PTL
  DEF Spec, LeaseSpec, EvidenceLease!Spec

-----------------------------------------------------------------------------
(***************************************************************************)
(* What the transfer does to the documents, for any number of orders,      *)
(* quotes, requests, takeovers, crashes and document events: a completed   *)
(* transfer left no quote behind, and no runner takes a copy away.         *)
(*                                                                         *)
(* The claim plays no part in it.  A takeover lets two runners work on one *)
(* order, so what is proved rests on what each of them read: the quotes    *)
(* still owed are among those it is about to copy (RunnersCoverOwed), and  *)
(* nothing but a commit or a deletion takes a quote off the debt.          *)
(***************************************************************************)

USE DEF db, docs, local, sched, bounds, Runners, Statuses, DocStates, Steps

(* Only orders that were converted are worked on or waited for. *)
OnlyConvertedOrders ==
    /\ \A r \in Runners : pc[r] \notin {"idle", "next"} => status[order[r]] # "none"
    /\ \A s \in queue : status[s.order] # "none"

(* A quote that is owed has a row and no copy; before the conversion there *)
(* are no copies at all.                                                   *)
OwedIsUncopied ==
    \A o \in Orders, q \in Quotes :
        /\ status[o] = "none" => copy[o][q] = "absent"
        /\ q \in owed[o] => source[o][q] # "absent" /\ copy[o][q] = "absent"

(* What a runner is about to copy includes everything still owed; after    *)
(* its commit nothing is.                                                  *)
RunnersCoverOwed ==
    \A r \in Runners :
        /\ pc[r] \in {"write", "commit"} => owed[order[r]] \subseteq todo[r]
        /\ pc[r] = "complete" => owed[order[r]] = {}

EvidenceInv ==
    /\ TypeOK
    /\ OnlyConvertedOrders
    /\ OwedIsUncopied
    /\ RunnersCoverOwed
    /\ CompleteHasEvidence

-----------------------------------------------------------------------------
(* No order goes back to before its conversion, and from there on nothing  *)
(* is added to what it owes.                                               *)
ConvertedForGood ==
    \A o \in Orders :
        status[o] # "none" => status'[o] # "none" /\ owed'[o] \subseteq owed[o]

LEMMA OrdersStayConverted ==
    ASSUME TypeOK, [Next]_vars
    PROVE  ConvertedForGood
<1> USE DEF TypeOK, DbTypeOK, DocsTypeOK, ConvertedForGood
<1>1. ASSUME NEW r \in Requests, NEW o \in Orders, Convert(r, o) \/ Retry(r, o)
      PROVE  ConvertedForGood
  BY <1>1 DEF Convert, Retry
<1>2. CASE SweepStep
  BY <1>2 DEF SweepStep, SweepStart, SweepEscalate, SweepCharge, SweepEnd
<1>3. ASSUME NEW r \in Runners, RunnerStep(r) \/ StepFails(r)
      PROVE  ConvertedForGood
  <2>1. CASE CommitCopies(r)
    BY <2>1 DEF CommitCopies
  <2>2. CASE MarkComplete(r) \/ MarkFailed(r)
    BY <2>2 DEF MarkComplete, MarkFailed
  <2>3. CASE Claim(r) \/ Busy(r) \/ ReadDocuments(r) \/ WriteFiles(r)
               \/ Release(r) \/ StepFails(r)
    BY <2>3 DEF Claim, Busy, ReadDocuments, WriteFiles, Release, StepFails
  <2> QED
    BY <1>3, <2>1, <2>2, <2>3 DEF RunnerStep
<1>4. CASE Crash \/ Tick
  BY <1>4 DEF Crash, Tick
<1>5. ASSUME NEW o \in Orders, NEW q \in Quotes,
             \/ UploadQuote(o, q) \/ DeleteQuote(o, q)
             \/ DeleteCopy(o, q) \/ LoseFile(o, q)
      PROVE  ConvertedForGood
  BY <1>5 DEF UploadQuote, DeleteQuote, DeleteCopy, LoseFile, DocEvent
<1>6. ASSUME NEW o \in Orders, UploadInvoice(o)
      PROVE  ConvertedForGood
  BY <1>6 DEF UploadInvoice, DocEvent
<1>7. CASE UNCHANGED vars
  BY <1>7 DEF vars
<1> QED
  BY <1>1, <1>2, <1>3, <1>4, <1>5, <1>6, <1>7 DEF Next, DocStep

(* A request starts on an order it converts or finds converted; the sweep  *)
(* starts on one its list names, and the list is read from the status.     *)
LEMMA OnlyConvertedOrdersStep ==
    ASSUME TypeOK, OnlyConvertedOrders, [Next]_vars
    PROVE  OnlyConvertedOrders'
<1> USE DEF OnlyConvertedOrders, TypeOK, DbTypeOK, LocalTypeOK, OtherTypeOK
<1>0. ConvertedForGood /\ \A s \in queue : s.order \in Orders
  BY OrdersStayConverted DEF Snapshot
<1>1. ASSUME \A r \in Runners : pc'[r] \notin {"idle", "next"} =>
                 pc[r] \notin {"idle", "next"} /\ order'[r] = order[r],
             queue' \subseteq queue
      PROVE  OnlyConvertedOrders'
  BY <1>0, <1>1 DEF ConvertedForGood
<1>2. ASSUME NEW r \in Requests, NEW o \in Orders, Convert(r, o) \/ Retry(r, o)
      PROVE  OnlyConvertedOrders'
  <2>1. status'[o] # "none" /\ order'[r] = o
    BY <1>2 DEF Convert, Retry, Retryable
  <2>2. \A x \in Runners : x # r => pc'[x] = pc[x] /\ order'[x] = order[x]
    BY <1>2 DEF Convert, Retry, Goto
  <2>3. queue' = queue
    BY <1>2 DEF Convert, Retry
  <2> QED
    BY <1>0, <2>1, <2>2, <2>3 DEF ConvertedForGood
<1>3. CASE SweepStart
  <2>1. \A s \in queue' : status[s.order] # "none"
    BY <1>3 DEF SweepStart, Swept
  <2>2. \A r \in Runners : pc'[r] \notin {"idle", "next"} =>
                 pc[r] \notin {"idle", "next"} /\ order'[r] = order[r]
    BY <1>3 DEF SweepStart, Goto
  <2>3. UNCHANGED status
    BY <1>3 DEF SweepStart
  <2> QED
    BY <2>1, <2>2, <2>3
<1>4. ASSUME NEW s \in queue, SweepCharge(s)
      PROVE  OnlyConvertedOrders'
  <2>1. status'[s.order] # "none" /\ order'[Sweeper] = s.order
    BY <1>0, <1>4 DEF SweepCharge
  <2>2. \A x \in Runners : x # Sweeper => pc'[x] = pc[x] /\ order'[x] = order[x]
    BY <1>4 DEF SweepCharge, Goto
  <2>3. queue' \subseteq queue /\ UNCHANGED status
    BY <1>4 DEF SweepCharge
  <2> QED
    BY <2>1, <2>2, <2>3
<1>5. ASSUME NEW s \in queue, SweepEscalate(s)
      PROVE  OnlyConvertedOrders'
  BY <1>1, <1>5 DEF SweepEscalate
<1>6. CASE SweepEnd
  BY <1>1, <1>6 DEF SweepEnd, Goto
<1>7. ASSUME NEW r \in Runners, RunnerStep(r)
      PROVE  OnlyConvertedOrders'
  <2>1. CASE Busy(r) \/ Release(r)
    BY <1>1, <2>1 DEF Busy, Release, Leave, Goto
  <2>2. CASE Claim(r) \/ ReadDocuments(r) \/ WriteFiles(r) \/ CommitCopies(r)
               \/ MarkComplete(r) \/ MarkFailed(r)
    BY <1>1, <2>2 DEF Claim, ReadDocuments, WriteFiles, CommitCopies,
                      MarkComplete, MarkFailed, Goto
  <2> QED
    BY <1>7, <2>1, <2>2 DEF RunnerStep
<1>8. ASSUME NEW r \in Runners, StepFails(r)
      PROVE  OnlyConvertedOrders'
  <2>1. queue' \subseteq queue
    BY <1>8 DEF StepFails
  <2>2. \A x \in Runners : pc'[x] \notin {"idle", "next"} =>
          pc[x] \notin {"idle", "next"} /\ order'[x] = order[x]
    BY <1>8 DEF StepFails, Leave, Goto, Working
  <2> QED
    BY <1>1, <2>1, <2>2
<1>9. CASE Crash
  BY <1>1, <1>9 DEF Crash
<1>10. CASE Tick \/ DocStep \/ UNCHANGED vars
  BY <1>1, <1>10 DEF Tick, DocStep, UploadQuote, DeleteQuote, DeleteCopy,
                     LoseFile, UploadInvoice, DocEvent, vars
<1> QED
  BY <1>2, <1>3, <1>4, <1>5, <1>6, <1>7, <1>8, <1>9, <1>10 DEF Next, SweepStep

(* A quote leaves the debt with the commit that copies it, and is added to *)
(* it before the conversion only, when there are no copies.                *)
LEMMA OwedIsUncopiedStep ==
    ASSUME TypeOK, OnlyConvertedOrders, OwedIsUncopied, [Next]_vars
    PROVE  OwedIsUncopied'
<1> USE DEF OwedIsUncopied, TypeOK, DbTypeOK, DocsTypeOK
<1>0. ConvertedForGood
  BY OrdersStayConverted
<1>1. UNCHANGED <<copy, source, owed>> => OwedIsUncopied'
  BY <1>0 DEF ConvertedForGood
<1>2. ASSUME NEW r \in Runners, CommitCopies(r)
      PROVE  OwedIsUncopied'
  <2>1. order[r] \in Orders /\ status[order[r]] # "none"
    BY <1>2 DEF CommitCopies, LocalTypeOK, OnlyConvertedOrders
  <2>2. UNCHANGED <<status, source>>
    BY <1>2 DEF CommitCopies
  <2>3. CASE /\ copy' = [copy EXCEPT ![order[r]] =
                       [q \in Quotes |-> IF q \in todo[r] THEN "file"
                                                          ELSE copy[order[r]][q]]]
             /\ owed' = [owed EXCEPT ![order[r]] = owed[order[r]] \ todo[r]]
    <3>1. ASSUME NEW o \in Orders, NEW q \in Quotes
          PROVE  /\ status'[o] = "none" => copy'[o][q] = "absent"
                 /\ q \in owed'[o] => source'[o][q] # "absent" /\ copy'[o][q] = "absent"
      <4>1. CASE o = order[r]
        BY <2>1, <2>2, <2>3, <4>1
      <4>2. CASE o # order[r]
        BY <2>2, <2>3, <4>2
      <4> QED
        BY <4>1, <4>2
    <3> QED
      BY <3>1
  <2>4. CASE UNCHANGED <<copy, owed>>
    BY <1>1, <2>2, <2>4
  <2> QED
    BY <1>2, <2>3, <2>4 DEF CommitCopies
<1>3. ASSUME NEW o \in Orders, NEW q \in Quotes, UploadQuote(o, q)
      PROVE  OwedIsUncopied'
  BY <1>3 DEF UploadQuote, DocEvent
<1>4. ASSUME NEW o \in Orders, NEW q \in Quotes, DeleteQuote(o, q)
      PROVE  OwedIsUncopied'
  BY <1>4 DEF DeleteQuote, DocEvent
<1>5. ASSUME NEW o \in Orders, NEW q \in Quotes, DeleteCopy(o, q)
      PROVE  OwedIsUncopied'
  BY <1>5 DEF DeleteCopy, DocEvent
<1>6. ASSUME NEW o \in Orders, NEW q \in Quotes, LoseFile(o, q)
      PROVE  OwedIsUncopied'
  <2>1. UNCHANGED <<status, owed>>
    BY <1>6 DEF LoseFile, DocEvent
  <2>2. CASE /\ source[o][q] = "file"
             /\ source' = [source EXCEPT ![o][q] = "lost"]
             /\ UNCHANGED copy
    BY <2>1, <2>2
  <2>3. CASE /\ copy[o][q] = "file"
             /\ copy' = [copy EXCEPT ![o][q] = "lost"]
             /\ UNCHANGED source
    BY <2>1, <2>3
  <2> QED
    BY <1>6, <2>2, <2>3 DEF LoseFile
<1>7. CASE SweepStep \/ Crash \/ Tick \/ UNCHANGED vars
           \/ \E r \in Requests, o \in Orders : Convert(r, o) \/ Retry(r, o)
  BY <1>1, <1>7 DEF SweepStep, SweepStart, SweepEscalate, SweepCharge, SweepEnd,
                    Crash, Tick, vars, Convert, Retry
<1>8. ASSUME NEW r \in Runners, RunnerStep(r) \/ StepFails(r), ~CommitCopies(r)
      PROVE  OwedIsUncopied'
  BY <1>1, <1>8 DEF RunnerStep, Claim, Busy, ReadDocuments, WriteFiles,
                    MarkComplete, MarkFailed, Release, StepFails
<1>9. ASSUME NEW o \in Orders, UploadInvoice(o)
      PROVE  OwedIsUncopied'
  BY <1>1, <1>9 DEF UploadInvoice, DocEvent
<1> QED
  BY <1>2, <1>3, <1>4, <1>5, <1>6, <1>7, <1>8, <1>9 DEF Next, DocStep

(* The read finds every quote that has a row, the file loop only drops     *)
(* those that were copied, and a commit copies what is left.               *)
LEMMA RunnersCoverOwedStep ==
    ASSUME TypeOK, OnlyConvertedOrders, OwedIsUncopied, RunnersCoverOwed,
           [Next]_vars
    PROVE  RunnersCoverOwed'
<1> USE DEF TypeOK, LocalTypeOK
<1>0. ASSUME NEW x \in Runners, pc[x] \notin {"idle", "next"}
      PROVE  /\ order[x] \in Orders
             /\ owed'[order[x]] \subseteq owed[order[x]]
  BY <1>0, OrdersStayConverted DEF ConvertedForGood, OnlyConvertedOrders
<1>1. ASSUME NEW x \in Runners,
             \/ pc'[x] \notin {"write", "commit", "complete"}
             \/ pc'[x] = pc[x] /\ order'[x] = order[x] /\ todo'[x] = todo[x]
      PROVE  /\ pc'[x] \in {"write", "commit"} => owed'[order'[x]] \subseteq todo'[x]
             /\ pc'[x] = "complete" => owed'[order'[x]] = {}
  BY <1>0, <1>1 DEF RunnersCoverOwed
<1>2. ASSUME NEW r \in Runners, ReadDocuments(r)
      PROVE  RunnersCoverOwed'
  <2>1. owed[order[r]] \subseteq {q \in Quotes : source[order[r]][q] # "absent"}
    BY <1>2, <1>0 DEF ReadDocuments, OwedIsUncopied, DocsTypeOK
  <2>2. pc'[r] = "write" /\ owed'[order'[r]] \subseteq todo'[r]
    BY <1>2, <2>1 DEF ReadDocuments, Goto
  <2>3. \A x \in Runners : x # r =>
          pc'[x] = pc[x] /\ order'[x] = order[x] /\ todo'[x] = todo[x]
    BY <1>2 DEF ReadDocuments, Goto
  <2> QED
    BY <1>1, <2>2, <2>3 DEF RunnersCoverOwed
<1>3. ASSUME NEW r \in Runners, WriteFiles(r)
      PROVE  RunnersCoverOwed'
  <2>1. owed[order[r]] \subseteq todo[r] /\ order[r] \in Orders
    BY <1>3, <1>0 DEF WriteFiles, RunnersCoverOwed
  <2>2. owed[order[r]] \subseteq
          {q \in todo[r] : q \in absent[r] \/ copy[order[r]][q] # "file"}
    BY <2>1 DEF OwedIsUncopied, DocsTypeOK
  <2>3. pc'[r] \in {"commit", "fail"} /\ owed'[order'[r]] \subseteq todo'[r]
    BY <1>3, <2>2 DEF WriteFiles, Goto
  <2>4. \A x \in Runners : x # r =>
          pc'[x] = pc[x] /\ order'[x] = order[x] /\ todo'[x] = todo[x]
    BY <1>3 DEF WriteFiles, Goto
  <2> QED
    BY <1>1, <2>3, <2>4 DEF RunnersCoverOwed
<1>4. ASSUME NEW r \in Runners, CommitCopies(r)
      PROVE  RunnersCoverOwed'
  <2>1. owed[order[r]] \subseteq todo[r] /\ order[r] \in Orders
    BY <1>4, <1>0 DEF CommitCopies, RunnersCoverOwed
  <2>2. /\ pc'[r] \in {"complete", "fail"}
        /\ pc'[r] = "complete" => owed'[order'[r]] = {}
    BY <1>4, <2>1 DEF CommitCopies, Goto, DocsTypeOK
  <2>3. \A x \in Runners : x # r =>
          pc'[x] = pc[x] /\ order'[x] = order[x] /\ todo'[x] = todo[x]
    BY <1>4 DEF CommitCopies, Goto
  <2> QED
    BY <1>1, <2>2, <2>3 DEF RunnersCoverOwed
<1>5. ASSUME NEW r \in Runners,
             \/ Claim(r) \/ Busy(r) \/ MarkComplete(r) \/ MarkFailed(r)
             \/ Release(r) \/ StepFails(r)
      PROVE  RunnersCoverOwed'
  <2>1. pc'[r] \in {"read", "fail", "release", "idle", "next"}
    BY <1>5 DEF Claim, Busy, MarkComplete, MarkFailed, Release, StepFails,
                Leave, Goto
  <2>2. \A x \in Runners : x # r =>
          pc'[x] = pc[x] /\ order'[x] = order[x] /\ todo'[x] = todo[x]
    BY <1>5 DEF Claim, Busy, MarkComplete, MarkFailed, Release, StepFails,
                Leave, Goto
  <2> QED
    BY <1>1, <2>1, <2>2 DEF RunnersCoverOwed
<1>6. ASSUME NEW r \in Runners, pc[r] \in {"idle", "next"},
             pc'[r] \in {"idle", "next", "claim"},
             \A x \in Runners : x # r =>
                 pc'[x] = pc[x] /\ order'[x] = order[x] /\ todo'[x] = todo[x]
      PROVE  RunnersCoverOwed'
  BY <1>1, <1>6 DEF RunnersCoverOwed
<1>7. ASSUME NEW r \in Requests, NEW o \in Orders, Convert(r, o) \/ Retry(r, o)
      PROVE  RunnersCoverOwed'
  <2>1. /\ r \in Runners /\ pc[r] = "idle" /\ pc'[r] = "claim"
        /\ \A x \in Runners : x # r =>
             pc'[x] = pc[x] /\ order'[x] = order[x] /\ todo'[x] = todo[x]
    BY <1>7 DEF Convert, Retry, Goto
  <2> QED
    BY <1>6, <2>1
<1>8. CASE SweepStep
  <2>1. ASSUME NEW s \in queue, SweepEscalate(s)
        PROVE  UNCHANGED <<pc, order, todo>>
    BY <2>1 DEF SweepEscalate
  <2>2. ASSUME NEW s \in queue, SweepCharge(s)
        PROVE  /\ pc[Sweeper] = "next" /\ pc'[Sweeper] = "claim"
               /\ \A x \in Runners : x # Sweeper =>
                    pc'[x] = pc[x] /\ order'[x] = order[x] /\ todo'[x] = todo[x]
    BY <2>2 DEF SweepCharge, Goto
  <2>3. CASE SweepStart \/ SweepEnd
    <3>1. /\ pc[Sweeper] \in {"idle", "next"} /\ pc'[Sweeper] \in {"idle", "next"}
          /\ \A x \in Runners : x # Sweeper =>
               pc'[x] = pc[x] /\ order'[x] = order[x] /\ todo'[x] = todo[x]
      BY <2>3 DEF SweepStart, SweepEnd, Goto
    <3> QED
      BY <1>6, <3>1
  <2>4. UNCHANGED <<pc, order, todo>> => RunnersCoverOwed'
    BY <1>1 DEF RunnersCoverOwed
  <2> QED
    BY <1>6, <1>8, <2>1, <2>2, <2>3, <2>4 DEF SweepStep
<1>9. CASE Crash
  BY <1>9 DEF Crash, RunnersCoverOwed
<1>10. CASE Tick \/ DocStep \/ UNCHANGED vars
  <2>1. UNCHANGED <<pc, order, todo>>
    BY <1>10 DEF Tick, DocStep, UploadQuote, DeleteQuote, DeleteCopy, LoseFile,
                 UploadInvoice, DocEvent, vars
  <2> QED
    BY <1>1, <2>1 DEF RunnersCoverOwed
<1> QED
  BY <1>2, <1>3, <1>4, <1>5, <1>7, <1>8, <1>9, <1>10 DEF Next, RunnerStep

(* The status only becomes complete after a commit, when nothing is owed.  *)
LEMMA CompleteHasEvidenceStep ==
    ASSUME TypeOK, OnlyConvertedOrders, RunnersCoverOwed, CompleteHasEvidence,
           [Next]_vars
    PROVE  CompleteHasEvidence'
<1> USE DEF CompleteHasEvidence, TypeOK, DbTypeOK
<1>0. ConvertedForGood
  BY OrdersStayConverted
<1>1. ASSUME \A o \in Orders : status'[o] = "complete" => status[o] = "complete"
      PROVE  CompleteHasEvidence'
  BY <1>0, <1>1 DEF ConvertedForGood
<1>2. ASSUME NEW r \in Runners, MarkComplete(r)
      PROVE  CompleteHasEvidence'
  <2>1. order[r] \in Orders /\ owed[order[r]] = {}
    BY <1>2 DEF MarkComplete, RunnersCoverOwed, LocalTypeOK
  <2>2. \A o \in Orders : status'[o] = "complete" =>
          status[o] = "complete" \/ o = order[r]
    BY <1>2 DEF MarkComplete
  <2>3. UNCHANGED owed
    BY <1>2 DEF MarkComplete
  <2> QED
    BY <2>1, <2>2, <2>3
<1>3. ASSUME NEW r \in Runners, RunnerStep(r) \/ StepFails(r), ~MarkComplete(r)
      PROVE  CompleteHasEvidence'
  BY <1>1, <1>3 DEF RunnerStep, Claim, Busy, ReadDocuments, WriteFiles,
                    CommitCopies, MarkFailed, Release, StepFails
<1>4. CASE SweepStep \/ Crash \/ Tick \/ DocStep \/ UNCHANGED vars
  BY <1>1, <1>4 DEF SweepStep, SweepStart, SweepEscalate, SweepCharge, SweepEnd,
                    Crash, Tick, DocStep, UploadQuote, DeleteQuote, DeleteCopy,
                    LoseFile, UploadInvoice, DocEvent, vars
<1>5. CASE \E r \in Requests, o \in Orders : Convert(r, o) \/ Retry(r, o)
  BY <1>1, <1>5 DEF Convert, Retry
<1> QED
  BY <1>2, <1>3, <1>4, <1>5 DEF Next

LEMMA EvidenceInvariant == Spec => []EvidenceInv
<1>1. Init => EvidenceInv
  <2> SUFFICES ASSUME Init PROVE EvidenceInv
    OBVIOUS
  <2>1. TypeOK
    BY TypeInit
  <2>2. OnlyConvertedOrders /\ RunnersCoverOwed
    BY DEF Init, OnlyConvertedOrders, RunnersCoverOwed
  <2>3. OwedIsUncopied /\ CompleteHasEvidence
    BY DEF Init, OwedIsUncopied, CompleteHasEvidence
  <2> QED
    BY <2>1, <2>2, <2>3 DEF EvidenceInv
<1>2. EvidenceInv /\ [Next]_vars => EvidenceInv'
  BY TypeStep, OnlyConvertedOrdersStep, OwedIsUncopiedStep, RunnersCoverOwedStep,
     CompleteHasEvidenceStep
  DEF EvidenceInv
<1> QED
  BY <1>1, <1>2, PTL DEF Spec

(* However many runners overlap and whatever fails, an order is complete   *)
(* only when every quote it had at its conversion, and still has, was      *)
(* copied (_mark_evidence_transfer_complete, which does not look at the    *)
(* claim).                                                                 *)
THEOREM CompletedOrdersHaveEvidence == Spec => []CompleteHasEvidence
<1>1. EvidenceInv => CompleteHasEvidence
  BY DEF EvidenceInv
<1> QED
  BY <1>1, EvidenceInvariant, PTL

-----------------------------------------------------------------------------
(* What one step may do to a copy on disk. *)
KeepsCopies ==
    \A o \in Orders, q \in Quotes :
        copy[o][q] = "file" => copy'[o][q] = "file" \/ docEvents' # docEvents

(* No claim, commit, failure, compensation or crash removes a stored copy: *)
(* only a user's deletion or the disk does                                 *)
(* (copy_quote_documents_to_procurement_documents).                        *)
THEOREM StoredCopiesSurvive == Spec => CopiesSurvive
<1>1. TypeOK /\ [Next]_vars => [KeepsCopies]_vars
  <2> SUFFICES ASSUME TypeOK, [Next]_vars
               PROVE  KeepsCopies
    OBVIOUS
  <2> USE DEF KeepsCopies, TypeOK
  <2>1. ASSUME NEW r \in Runners, CommitCopies(r)
        PROVE  KeepsCopies
    <3>1. order[r] \in Orders
      BY <2>1 DEF CommitCopies, LocalTypeOK
    <3> QED
      BY <2>1, <3>1 DEF CommitCopies, DocsTypeOK
  <2>2. ASSUME NEW r \in Runners, RunnerStep(r) \/ StepFails(r), ~CommitCopies(r)
        PROVE  KeepsCopies
    BY <2>2 DEF RunnerStep, Claim, Busy, ReadDocuments, WriteFiles, MarkComplete,
                MarkFailed, Release, StepFails
  <2>3. CASE DocStep
    <3>1. docEvents' = docEvents + 1
      BY <2>3 DEF DocStep, UploadQuote, DeleteQuote, DeleteCopy, LoseFile,
                  UploadInvoice, DocEvent
    <3> QED
      BY <3>1, BoundsAssumption DEF OtherTypeOK
  <2>4. CASE SweepStep \/ Crash \/ Tick \/ UNCHANGED vars
             \/ \E r \in Requests, o \in Orders : Convert(r, o) \/ Retry(r, o)
    BY <2>4 DEF SweepStep, SweepStart, SweepEscalate, SweepCharge, SweepEnd,
                Crash, Tick, vars, Convert, Retry
  <2> QED
    BY <2>1, <2>2, <2>3, <2>4 DEF Next
<1>2. [KeepsCopies]_vars =>
        [\A o \in Orders, q \in Quotes :
            copy[o][q] = "file" =>
                copy'[o][q] = "file" \/ docEvents' # docEvents]_vars
  BY DEF KeepsCopies
<1> QED
  BY <1>1, <1>2, TypeCorrect, PTL DEF Spec, CopiesSurvive
=============================================================================
