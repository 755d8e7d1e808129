------------------------ MODULE RenewalLifecycleProofs ------------------------
(***************************************************************************)
(* Theorems about renewals for any set of licenses, lines and requests,    *)
(* and for any set of operations that may be overtaken between their read  *)
(* and their write.                                                        *)
(***************************************************************************)
EXTENDS RenewalsHistory, TLAPS

-----------------------------------------------------------------------------
(* Types.  A line names the license it renews, and a merge has read it;    *)
(* an unlink has read the reference the successor gets back.               *)

StateTyped ==
    /\ lifecycle \in [Licenses -> Lifecycles]
    /\ renewedTo \in [Licenses -> Licenses \cup {None}]
    /\ predecessors \in [Licenses -> SUBSET Licenses]
    /\ ref \in [Licenses -> Licenses \cup {None}]
    /\ formerRef \in [Licenses -> Licenses \cup {None}]
    /\ retirement \in [Licenses -> Retirements]
    /\ renewable \in [Licenses -> BOOLEAN]
    /\ itemStatus \in [Items -> ItemStatuses]
    /\ renews \in [Items -> Licenses \cup {None}]
    /\ coterm \in [Items -> SUBSET Licenses]
    /\ \A i \in Items : itemStatus[i] # "absent" => renews[i] # None

Sound(r) ==
    /\ r \in Requests
    /\ r.op = "merge" => r.license # None
    /\ r.op = "unlink" => r.ref # None

RequestsTyped ==
    /\ DOMAIN req = Users
    /\ req = [u \in Users |-> req[u]]
    /\ \A u \in Users : req[u] # Idle => Sound(req[u]) /\ req[u].op \in Split

Typed == StateTyped /\ RequestsTyped

LEMMA TypedImpliesTypeOK == Typed => TypeOK
<1>1. SUFFICES ASSUME Typed PROVE req \in [Users -> Requests \cup {Idle}]
  BY DEF Typed, StateTyped, TypeOK
<1>2. \A u \in Users : req[u] \in Requests \cup {Idle}
  BY <1>1 DEF Typed, RequestsTyped, Sound
<1>. QED
  BY <1>1, <1>2 DEF Typed, RequestsTyped

(* What is written keeps the state's types, whatever was read.             *)
LEMMA PerformTyped ==
    ASSUME StateTyped, NEW r, Sound(r), Perform(r)
    PROVE  StateTyped'
<1>. USE DEF StateTyped, Sound, Requests, Present, Lifecycles, Retirements,
             ItemStatuses, Withdraw, StillOrdered, Covers, OpenItems
<1>1. CASE Unlink(r)
  BY <1>1 DEF Unlink, flags, lines
<1>2. CASE CancelRenewal(r)
  BY <1>2 DEF CancelRenewal, flags
<1>3. CASE CloseLine(r)
  BY <1>3 DEF CloseLine, flags
<1>4. CASE ReturnLine(r)
  BY <1>4 DEF ReturnLine, chain, flags
<1>5. CASE MergeLines(r)
  BY <1>5 DEF MergeLines, chain, flags
<1>6. CASE DeleteLicense(r)
  BY <1>6 DEF DeleteLicense, lines
<1>7. CASE SetLegacy(r)
  BY <1>7 DEF SetLegacy, flags, lines
<1>8. CASE SetRetirement(r)
  BY <1>8 DEF SetRetirement, chain, lines
<1>9. CASE FlipRenewable(r)
  BY <1>9 DEF FlipRenewable, chain, lines
<1>. QED
  BY <1>1, <1>2, <1>3, <1>4, <1>5, <1>6, <1>7, <1>8, <1>9 DEF Perform

(* Initially there is nothing.                                             *)
LEMMA TypedInit == Init => Typed
BY DEF Init, Typed, StateTyped, RequestsTyped, Lifecycles, Retirements,
       ItemStatuses, Idle

(* A request that is read with the facts it rests on keeps the types,      *)
(* whether it writes now or later.                                         *)
LEMMA HandleTyped ==
    ASSUME Typed, NEW op \in Operations,
           NEW l \in Licenses \cup {None}, NEW other \in Licenses \cup {None},
           NEW name \in Licenses \cup {None}, NEW items \in SUBSET Items,
           op = "merge" => l # None, op = "unlink" => name # None,
           Handle(op, l, other, name, items)
    PROVE  Typed'
<1> DEFINE r == Request(op, l, other, name, items)
<1>1. Sound(r) /\ r.op = op
  BY DEF Request, Sound, Requests
<1>2. CASE Perform(r) /\ UNCHANGED req
  BY <1>1, <1>2, PerformTyped DEF Typed, RequestsTyped
<1>3. ASSUME NEW u \in Users, op \in Split, req' = [req EXCEPT ![u] = r],
             UNCHANGED <<chain, flags, lines>>
      PROVE  Typed'
  <2>1. StateTyped'
    BY <1>3 DEF Typed, StateTyped, chain, flags, lines
  <2>2. RequestsTyped'
    BY <1>1, <1>3 DEF Typed, RequestsTyped
  <2>. QED
    BY <2>1, <2>2 DEF Typed
<1>. QED
  BY <1>2, <1>3 DEF Handle

(* Every step keeps the types.                                             *)
LEMMA TypedStep == Typed /\ [Next]_vars => Typed'
<1>. SUFFICES ASSUME Typed, [Next]_vars PROVE Typed'
  OBVIOUS
<1>1. CASE OneStep
  <2>1. RequestsTyped'
    BY <1>1 DEF OneStep, CreateLicense, AddLine, InitiateRenewal, ConvertLine,
                OrderLine, LinkSuccessor, ImportSuccessor, Typed, RequestsTyped
  <2>2. StateTyped'
    <3>. USE DEF Typed, StateTyped, Lifecycles, ItemStatuses, Present, Covers,
                 Insert, chain, flags, lines
    <3>1. ASSUME NEW l \in Licenses, NEW status \in {"none", "legacy"},
                 CreateLicense(l, status)
          PROVE  StateTyped'
      BY <3>1 DEF CreateLicense
    <3>2. ASSUME NEW i \in Items, NEW l \in Licenses, AddLine(i, l)
          PROVE  StateTyped'
      BY <3>2, NoneAssumption DEF AddLine
    <3>3. ASSUME NEW i \in Items, NEW l \in Licenses, InitiateRenewal(l, i)
          PROVE  StateTyped'
      BY <3>3, NoneAssumption DEF InitiateRenewal
    <3>4. ASSUME NEW i \in Items, NEW l \in Licenses, ConvertLine(i, l)
          PROVE  StateTyped'
      BY <3>4 DEF ConvertLine
    <3>5. ASSUME NEW i \in Items, OrderLine(i)
          PROVE  StateTyped'
      BY <3>5 DEF OrderLine
    <3>6. ASSUME NEW l \in Licenses, NEW s \in Licenses, LinkSuccessor(l, s)
          PROVE  StateTyped'
      BY <3>6 DEF LinkSuccessor
    <3>7. ASSUME NEW l \in Licenses, NEW s \in Licenses,
                 NEW status \in {"none", "legacy"}, ImportSuccessor(l, s, status)
          PROVE  StateTyped'
      BY <3>7 DEF ImportSuccessor
    <3>. QED
      BY <1>1, <3>1, <3>2, <3>3, <3>4, <3>5, <3>6, <3>7 DEF OneStep
  <2>. QED
    BY <2>1, <2>2 DEF Typed
<1>2. CASE Read
  <2>. USE HandleTyped DEF Operations, Edits
  <2>a. ASSUME NEW op \in Edits \cup {"sweep"}, NEW l \in Licenses,
               Handle(op, l, None, None, {})
        PROVE  Typed'
    BY <2>a, op \in Operations, op # "merge", op # "unlink", {} \in SUBSET Items
  <2>1. ASSUME NEW l \in Licenses, ReadUnlink(l) PROVE Typed'
    BY <2>1 DEF ReadUnlink, Typed, StateTyped
  <2>2. ASSUME NEW l \in Licenses, ReadCancel(l) PROVE Typed'
    BY <2>2 DEF ReadCancel
  <2>3. ASSUME NEW l \in Licenses, ReadDelete(l) PROVE Typed'
    BY <2>3 DEF ReadDelete
  <2>4. ASSUME NEW l \in Licenses, ReadLegacy(l) PROVE Typed'
    BY <2>4, <2>a DEF ReadLegacy
  <2>5. ASSUME NEW l \in Licenses, ReadRetire(l) PROVE Typed'
    BY <2>5, <2>a DEF ReadRetire
  <2>6. ASSUME NEW l \in Licenses, ReadRenewable(l) PROVE Typed'
    BY <2>6, <2>a DEF ReadRenewable
  <2>7. ASSUME NEW l \in Licenses, ReadSweep(l) PROVE Typed'
    BY <2>7, <2>a DEF ReadSweep
  <2>8. ASSUME NEW i \in Items, ReadCloseLine(i) PROVE Typed'
    BY <2>8 DEF ReadCloseLine
  <2>9. ASSUME NEW items \in SUBSET Items, ReadCloseOrder(items) PROVE Typed'
    BY <2>9 DEF ReadCloseOrder
  <2>10. ASSUME NEW items \in SUBSET Items, ReadReturn(items) PROVE Typed'
    BY <2>10 DEF ReadReturn
  <2>11. ASSUME NEW items \in SUBSET Items, ReadMerge(items) PROVE Typed'
    <3>1. PICK i \in items : Handle("merge", renews[i], None, None, items)
      BY <2>11 DEF ReadMerge
    <3>2. renews[i] \in Licenses
      BY <2>11 DEF ReadMerge, Typed, StateTyped
    <3>. QED
      BY <3>1, <3>2, NoneAssumption
  <2>. QED
    BY <1>2, <2>1, <2>2, <2>3, <2>4, <2>5, <2>6, <2>7, <2>8, <2>9, <2>10, <2>11
       DEF Read
<1>3. ASSUME NEW u \in Users, Write(u) PROVE Typed'
  <2>1. Sound(req[u]) /\ Perform(req[u]) /\ req' = [req EXCEPT ![u] = Idle]
    BY <1>3 DEF Write, Typed, RequestsTyped
  <2>2. StateTyped'
    BY <2>1, PerformTyped DEF Typed
  <2>3. RequestsTyped'
    BY <2>1 DEF Typed, RequestsTyped
  <2>. QED
    BY <2>2, <2>3 DEF Typed
<1>4. ASSUME NEW u \in Users, Abort(u) PROVE Typed'
  <2>1. StateTyped'
    BY <1>4 DEF Abort, Typed, StateTyped, chain, flags, lines
  <2>2. RequestsTyped'
    BY <1>4 DEF Abort, Typed, RequestsTyped
  <2>. QED
    BY <2>1, <2>2 DEF Typed
<1>5. CASE UNCHANGED vars
  BY <1>5 DEF vars, chain, flags, lines, Typed, StateTyped, RequestsTyped
<1>. QED
  BY <1>1, <1>2, <1>3, <1>4, <1>5 DEF Next

-----------------------------------------------------------------------------
(* Links.  A step leaves them alone, or adds a license at the end of one   *)
(* or more chains, or joins two licenses, or undoes an adopted link at the *)
(* end of a chain, or removes a license without links.                     *)

Settled ==
    /\ UNCHANGED <<renewedTo, predecessors, ref, formerRef>>
    /\ \A l \in Licenses : lifecycle'[l] = "absent" <=> lifecycle[l] = "absent"

Grows(s, from) ==
    /\ from \subseteq Present
    /\ \A l \in from : renewedTo[l] = None
    /\ \E status \in {"none", "legacy"}, name \in {s} \cup {ref[p] : p \in from} :
          Insert(s, status, name, from)

Undone(l) ==
    /\ formerRef[l] # None /\ renewedTo[l] # None
    /\ renewedTo[renewedTo[l]] = None
    /\ Unlink(Request("unlink", l, renewedTo[l], formerRef[l], {}))

Removed(l) ==
    /\ predecessors[l] = {} /\ renewedTo[l] = None
    /\ DeleteLicense(Request("delete", l, None, None, {}))

LinkStep ==
    \/ Settled
    \/ \E s \in Licenses, from \in SUBSET Licenses : Grows(s, from)
    \/ \E l, s \in Licenses : LinkSuccessor(l, s)
    \/ \E l \in Licenses : Undone(l) \/ Removed(l)

-----------------------------------------------------------------------------
(* What a step is made of: a one-step operation, a request that writes at  *)
(* once what it checked, or one that was overtaken.                        *)

Cancelled(l) ==
    LET own == {i \in Items : itemStatus[i] = "sourcing" /\ l \in Covers(i)} IN
    /\ lifecycle[l] = "pending_renewal"
    /\ \A i \in own : Covers(i) = {l}
    /\ CancelRenewal(Request("cancel", l, None, None, own))

Toggled(l) ==
    /\ lifecycle[l] \in {"none", "legacy"}
    /\ \E op \in {"mark_legacy", "unmark_legacy"} :
          SetLegacy(Request(op, l, None, None, {}))

Dropped(l) ==
    /\ lifecycle[l] \in {"none", "legacy"}
    /\ \A i \in Items : l \notin Covers(i)
    /\ Removed(l)

Guarded == {"unlink", "delete", "cancel", "mark_legacy", "unmark_legacy"}

StepCase ==
    \/ OneStep
    \/ UNCHANGED <<chain, flags, lines>>
    \/ \E l \in Licenses : Undone(l) \/ Dropped(l) \/ Cancelled(l) \/ Toggled(l)
    \/ \E r \in Requests : /\ Sound(r)
                           /\ r.op \in overtaken' \/ r.op \notin Guarded
                           /\ Perform(r)

LEMMA HandleCases ==
    ASSUME NEW op, NEW l, NEW other, NEW name, NEW items,
           Handle(op, l, other, name, items)
    PROVE  Perform(Request(op, l, other, name, items)) \/ UNCHANGED <<chain, flags, lines>>
BY DEF Handle

LEMMA PerformCases ==
    ASSUME NEW l, NEW other, NEW name, NEW items
    PROVE  /\ Perform(Request("unlink", l, other, name, items)) =>
                 Unlink(Request("unlink", l, other, name, items))
           /\ Perform(Request("delete", l, other, name, items)) =>
                 DeleteLicense(Request("delete", l, other, name, items))
           /\ Perform(Request("cancel", l, other, name, items)) =>
                 CancelRenewal(Request("cancel", l, other, name, items))
           /\ \A op \in {"mark_legacy", "unmark_legacy"} :
                 Perform(Request(op, l, other, name, items)) =>
                 SetLegacy(Request(op, l, other, name, items))
BY DEF Perform, Request, Unlink, CancelRenewal, CloseLine, ReturnLine, MergeLines,
       DeleteLicense, SetLegacy, SetRetirement, FlipRenewable

(* A request that was not overtaken writes what it would have written at   *)
(* once.                                                                   *)
LEMMA WriteCases ==
    ASSUME StateTyped, NEW r, Sound(r), Perform(r), Remember(r)
    PROVE  StepCase
<1>1. CASE ~StillHolds(r)
  BY <1>1 DEF StepCase, Remember, Sound
<1>2. CASE StillHolds(r) /\ r.op = "unlink"
  <2>1. Unlink(r) /\ r.license \in Licenses
    BY <1>2 DEF Perform, Unlink, CancelRenewal, CloseLine, ReturnLine, MergeLines,
       DeleteLicense, SetLegacy, SetRetirement, FlipRenewable, Present
  <2>2. Undone(r.license)
    BY <1>2, <2>1, NoneAssumption
    DEF Undone, Unlink, StillHolds, Sound, Request, Present
  <2>. QED
    BY <2>1, <2>2 DEF StepCase
<1>3. CASE StillHolds(r) /\ r.op = "delete"
  <2>1. DeleteLicense(r) /\ r.license \in Licenses
    BY <1>3 DEF Perform, Unlink, CancelRenewal, CloseLine, ReturnLine, MergeLines,
       DeleteLicense, SetLegacy, SetRetirement, FlipRenewable, Present
  <2>2. Dropped(r.license)
    BY <1>3, <2>1 DEF Dropped, Removed, DeleteLicense, StillHolds, Request
  <2>. QED
    BY <2>1, <2>2 DEF StepCase
<1>4. CASE StillHolds(r) /\ r.op = "cancel"
  <2>1. CancelRenewal(r) /\ r.license \in Licenses
    BY <1>4 DEF Perform, Unlink, CancelRenewal, CloseLine, ReturnLine, MergeLines,
       DeleteLicense, SetLegacy, SetRetirement, FlipRenewable, Present
  <2>2. Cancelled(r.license)
    BY <1>4, <2>1 DEF Cancelled, CancelRenewal, StillHolds, Request
  <2>. QED
    BY <2>1, <2>2 DEF StepCase
<1>5. CASE StillHolds(r) /\ r.op \in {"mark_legacy", "unmark_legacy"}
  <2>1. SetLegacy(r) /\ r.license \in Licenses
    BY <1>5 DEF Perform, Unlink, CancelRenewal, CloseLine, ReturnLine, MergeLines,
       DeleteLicense, SetLegacy, SetRetirement, FlipRenewable, Present
  <2>2. Toggled(r.license)
    BY <1>5, <2>1 DEF Toggled, SetLegacy, StillHolds, Request
  <2>. QED
    BY <2>1, <2>2 DEF StepCase
<1>6. CASE r.op \notin Guarded
  BY <1>6 DEF StepCase, Sound
<1>. QED
  BY <1>1, <1>2, <1>3, <1>4, <1>5, <1>6 DEF Guarded

LEMMA StepCases == Typed /\ [HNext]_hvars => StepCase
<1>. SUFFICES ASSUME Typed, [HNext]_hvars PROVE StepCase
  OBVIOUS
<1>1. ASSUME NEW op \in Operations \ Guarded,
             NEW l \in Licenses \cup {None}, NEW items \in SUBSET Items,
             op = "merge" => l # None, Handle(op, l, None, None, items)
      PROVE  StepCase
  <2> DEFINE r == Request(op, l, None, None, items)
  <2>1. r \in Requests /\ Sound(r) /\ r.op = op
    BY <1>1, op # "unlink" DEF Request, Requests, Sound, Guarded
  <2>2. Perform(r) \/ UNCHANGED <<chain, flags, lines>>
    BY <1>1, HandleCases DEF r
  <2>. QED
    BY <1>1, <2>1, <2>2 DEF StepCase
<1>2. CASE Read
  <2>. USE DEF Operations, Edits, Guarded
  <2>1. ASSUME NEW l \in Licenses, ReadUnlink(l) PROVE StepCase
    <3>1. Undone(l) \/ UNCHANGED <<chain, flags, lines>>
      BY <2>1, HandleCases, PerformCases DEF ReadUnlink, Undone
    <3>. QED
      BY <3>1 DEF StepCase
  <2>2. ASSUME NEW l \in Licenses, ReadCancel(l) PROVE StepCase
    <3> DEFINE own == {i \in Items : itemStatus[i] = "sourcing" /\ l \in Covers(i)}
    <3>1. /\ lifecycle[l] = "pending_renewal" /\ \A i \in own : Covers(i) = {l}
          /\ Handle("cancel", l, None, None, own)
      BY <2>2 DEF ReadCancel
    <3>2. CancelRenewal(Request("cancel", l, None, None, own)) \/ UNCHANGED <<chain, flags, lines>>
      <4>. HIDE DEF own
      <4>. QED
        BY <3>1, HandleCases, PerformCases
    <3>3. Cancelled(l) \/ UNCHANGED <<chain, flags, lines>>
      BY <3>1, <3>2 DEF Cancelled
    <3>. QED
      BY <3>3 DEF StepCase
  <2>3. ASSUME NEW l \in Licenses, ReadDelete(l) PROVE StepCase
    <3>1. Dropped(l) \/ UNCHANGED <<chain, flags, lines>>
      BY <2>3, HandleCases, PerformCases DEF ReadDelete, Dropped, Removed
    <3>. QED
      BY <3>1 DEF StepCase
  <2>4. ASSUME NEW l \in Licenses, ReadLegacy(l) PROVE StepCase
    <3>1. Toggled(l) \/ UNCHANGED <<chain, flags, lines>>
      BY <2>4, HandleCases, PerformCases DEF ReadLegacy, Toggled
    <3>. QED
      BY <3>1 DEF StepCase
  <2>5. ASSUME NEW l \in Licenses, ReadRetire(l) PROVE StepCase
    <3>1. \E op \in {"retire", "schedule", "unretire"} : Handle(op, l, None, None, {})
      BY <2>5 DEF ReadRetire
    <3>. QED
      BY <1>1, <3>1
  <2>6. ASSUME NEW l \in Licenses, ReadRenewable(l) \/ ReadSweep(l) PROVE StepCase
    <3>1. \E op \in {"flip_renewable", "sweep"} : Handle(op, l, None, None, {})
      BY <2>6 DEF ReadRenewable, ReadSweep
    <3>. QED
      BY <1>1, <3>1
  <2>7. ASSUME NEW i \in Items, ReadCloseLine(i) PROVE StepCase
    BY <1>1, <2>7 DEF ReadCloseLine
  <2>8. ASSUME NEW items \in SUBSET Items, ReadCloseOrder(items) PROVE StepCase
    BY <1>1, <2>8 DEF ReadCloseOrder
  <2>9. ASSUME NEW items \in SUBSET Items, ReadReturn(items) PROVE StepCase
    BY <1>1, <2>9 DEF ReadReturn
  <2>10. ASSUME NEW items \in SUBSET Items, ReadMerge(items) PROVE StepCase
    <3>1. PICK i \in items : Handle("merge", renews[i], None, None, items)
      BY <2>10 DEF ReadMerge
    <3>2. renews[i] \in Licenses
      BY <2>10 DEF ReadMerge, Typed, StateTyped
    <3>. QED
      BY <1>1, <3>1, <3>2, NoneAssumption
  <2>. QED
    BY <1>2, <2>1, <2>2, <2>3, <2>4, <2>5, <2>6, <2>7, <2>8, <2>9, <2>10 DEF Read
<1>3. ASSUME NEW u \in Users, Write(u), Remember(req[u]) PROVE StepCase
  BY <1>3, WriteCases DEF Write, Typed, RequestsTyped
<1>4. ASSUME NEW u \in Users, Abort(u) PROVE StepCase
  BY <1>4 DEF Abort, StepCase
<1>5. CASE UNCHANGED hvars
  BY <1>5 DEF hvars, vars, StepCase
<1>6. CASE OneStep
  BY <1>6 DEF StepCase
<1>. QED
  BY <1>2, <1>3, <1>4, <1>5, <1>6 DEF HNext

-----------------------------------------------------------------------------
(* Only an unlink and a deletion change links when they write.             *)
LEMMA OtherWritesSettle ==
    ASSUME StateTyped, NEW r, Sound(r), r.op \notin {"unlink", "delete"}, Perform(r)
    PROVE  Settled
<1>. USE DEF StateTyped, Sound, Requests, Settled, Present
<1>1. CASE CancelRenewal(r)
  BY <1>1 DEF CancelRenewal
<1>2. CASE CloseLine(r)
  BY <1>2 DEF CloseLine
<1>3. CASE ReturnLine(r) \/ MergeLines(r)
  BY <1>3 DEF ReturnLine, MergeLines, chain
<1>4. CASE SetLegacy(r)
  BY <1>4 DEF SetLegacy
<1>5. CASE SetRetirement(r) \/ FlipRenewable(r)
  BY <1>5 DEF SetRetirement, FlipRenewable, chain
<1>. QED
  BY <1>1, <1>2, <1>3, <1>4, <1>5 DEF Perform, Unlink, DeleteLicense

(* What a step does to the links (_reserve_existing_successor_link,        *)
(* unlink_existing_successor, _assert_license_delete_allowed).             *)
LEMMA StepLinks == Typed /\ NoLinkOvertaken' /\ StepCase => LinkStep
<1>. SUFFICES ASSUME Typed, NoLinkOvertaken', StepCase PROVE LinkStep
  OBVIOUS
<1>1. CASE OneStep
  <2>1. ASSUME NEW l \in Licenses, NEW status \in {"none", "legacy"},
               CreateLicense(l, status)
        PROVE  LinkStep
    <3>1. Grows(l, {})
      BY <2>1 DEF CreateLicense, Grows
    <3>. QED
      BY <3>1 DEF LinkStep
  <2>2. ASSUME NEW i \in Items, NEW l \in Licenses,
               AddLine(i, l) \/ InitiateRenewal(l, i) \/ OrderLine(i)
        PROVE  Settled
    BY <2>2 DEF AddLine, InitiateRenewal, OrderLine, Settled, chain, Typed, StateTyped
  <2>3. ASSUME NEW i \in Items, NEW s \in Licenses, ConvertLine(i, s)
        PROVE  LinkStep
    <3>1. renews[i] \in Licenses /\ Covers(i) \in SUBSET Licenses
      BY <2>3 DEF ConvertLine, Typed, StateTyped, Covers
    <3>2. Grows(s, Covers(i))
      <4>1. renews[i] \in Covers(i)
        BY <3>1, NoneAssumption DEF Covers
      <4> QED
        BY <2>3, <3>1, <4>1 DEF ConvertLine, Grows
    <3>. QED
      BY <3>1, <3>2 DEF LinkStep
  <2>4. ASSUME NEW i \in Items, OrderLine(i)
        PROVE  Settled
    BY <2>4 DEF OrderLine, Settled, chain
  <2>5. ASSUME NEW l \in Licenses, NEW s \in Licenses,
               NEW status \in {"none", "legacy"}, ImportSuccessor(l, s, status)
        PROVE  LinkStep
    <3>1. Grows(s, {l})
      BY <2>5 DEF ImportSuccessor, Grows
    <3>. QED
      BY <3>1 DEF LinkStep
  <2>. QED
    BY <1>1, <2>1, <2>2, <2>3, <2>4, <2>5 DEF OneStep, LinkStep
<1>2. CASE UNCHANGED <<chain, flags, lines>>
  BY <1>2 DEF Settled, chain, LinkStep
<1>3. ASSUME NEW l \in Licenses, Undone(l) \/ Dropped(l)
      PROVE  LinkStep
  BY <1>3 DEF Dropped, LinkStep
<1>4. ASSUME NEW l \in Licenses, Cancelled(l) \/ Toggled(l)
      PROVE  LinkStep
  <2>1. Settled
    BY <1>4 DEF Cancelled, CancelRenewal, Toggled, SetLegacy, Settled, Request,
       Typed, StateTyped
  <2>. QED
    BY <2>1 DEF LinkStep
<1>5. ASSUME NEW r \in Requests, Sound(r),
             r.op \in overtaken' \/ r.op \notin Guarded, Perform(r)
      PROVE  LinkStep
  <2>1. r.op \notin {"unlink", "delete"}
    BY <1>5 DEF NoLinkOvertaken, Guarded
  <2>. QED
    BY <1>5, <2>1, OtherWritesSettle DEF Typed, LinkStep
<1>. QED
  BY <1>1, <1>2, <1>3, <1>4, <1>5 DEF StepCase

-----------------------------------------------------------------------------
(* Both ends of a link agree.  This is inductive with two more facts: a    *)
(* license that is not there has no links, and an adopted successor has    *)
(* one predecessor, so that an unlink may clear both ends.                 *)

AbsentAlone ==
    \A l \in Licenses :
        lifecycle[l] = "absent" => renewedTo[l] = None /\ predecessors[l] = {}

AdoptedAlone ==
    \A l \in Licenses :
        formerRef[l] # None =>
            renewedTo[l] # None /\ predecessors[renewedTo[l]] = {l}

Linked == LinksAreMutual /\ AbsentAlone /\ AdoptedAlone

LEMMA LinkedStep == Typed /\ Linked /\ LinkStep => Linked'
<1>. SUFFICES ASSUME Typed, Linked, LinkStep PROVE Linked'
  OBVIOUS
<1>. USE NoneAssumption
     DEF Linked, LinksAreMutual, AbsentAlone, AdoptedAlone, Typed, StateTyped
<1>1. CASE Settled
  BY <1>1 DEF Settled
<1>2. ASSUME NEW s \in Licenses, NEW from \in SUBSET Licenses, Grows(s, from)
      PROVE  Linked'
  <2>1. PICK status \in {"none", "legacy"}, name \in {s} \cup {ref[p] : p \in from} :
            Insert(s, status, name, from)
    BY <1>2 DEF Grows
  <2>2. s \notin from /\ predecessors[s] = {} /\ renewedTo[s] = None
    BY <1>2, <2>1 DEF Grows, Insert, Present
  <2>3. \A l \in from : renewedTo[l] = None /\ formerRef[l] = None
    BY <1>2 DEF Grows
  <2>4. LinksAreMutual'
    BY <2>1, <2>2, <2>3 DEF Insert
  <2>5. AbsentAlone'
    BY <1>2, <2>1, <2>2 DEF Insert, Grows, Present
  <2>6. AdoptedAlone'
    BY <2>1, <2>2, <2>3 DEF Insert
  <2>. QED
    BY <2>4, <2>5, <2>6
<1>3. ASSUME NEW l \in Licenses, NEW s \in Licenses, LinkSuccessor(l, s)
      PROVE  Linked'
  <2>1. LinksAreMutual'
    BY <1>3 DEF LinkSuccessor
  <2>2. AbsentAlone'
    BY <1>3 DEF LinkSuccessor
  <2>3. AdoptedAlone'
    BY <1>3 DEF LinkSuccessor
  <2>. QED
    BY <2>1, <2>2, <2>3
<1>4. ASSUME NEW l \in Licenses, Undone(l) PROVE Linked'
  <2>1. /\ renewedTo[l] \in Licenses
        /\ predecessors[renewedTo[l]] = {l}
    BY <1>4 DEF Undone
  <2>2. /\ renewedTo' = [renewedTo EXCEPT ![l] = None]
        /\ predecessors' = [predecessors EXCEPT ![renewedTo[l]] = {}]
        /\ formerRef' = [formerRef EXCEPT ![l] = None]
        /\ lifecycle' = [lifecycle EXCEPT ![l] = "none"]
    BY <1>4 DEF Undone, Unlink, Request
  <2>3. LinksAreMutual'
    BY <2>1, <2>2
  <2>4. AbsentAlone'
    BY <2>1, <2>2
  <2>5. AdoptedAlone'
    BY <2>1, <2>2
  <2>. QED
    BY <2>3, <2>4, <2>5
<1>5. ASSUME NEW l \in Licenses, Removed(l) PROVE Linked'
  <2>1. \A x \in Licenses : renewedTo[x] # l /\ l \notin predecessors[x]
    BY <1>5 DEF Removed
  <2>2. formerRef[l] = None
    BY <1>5 DEF Removed
  <2>3. /\ renewedTo' = renewedTo
        /\ predecessors' = predecessors
        /\ formerRef' = formerRef
        /\ lifecycle' = [lifecycle EXCEPT ![l] = "absent"]
    BY <1>5, <2>1, <2>2 DEF Removed, DeleteLicense, Request
  <2>. QED
    BY <1>5, <2>3 DEF Removed
<1>. QED
  BY <1>1, <1>2, <1>3, <1>4, <1>5 DEF LinkStep
-----------------------------------------------------------------------------
(* A license with a successor keeps it, unless an adopted link at the end  *)
(* of its chain is undone.                                                 *)
LinkKept(l) ==
    renewedTo[l] \notin {None, renewedTo'[l]} =>
        /\ renewedTo'[l] = None
        /\ formerRef[l] # None
        /\ renewedTo[renewedTo[l]] = None

LEMMA KeptStep ==
    Typed /\ Linked /\ LinkStep => \A l \in Licenses : LinkKept(l)
<1>. SUFFICES ASSUME Typed, Linked, LinkStep, NEW l \in Licenses PROVE LinkKept(l)
  OBVIOUS
<1>. USE DEF Typed, StateTyped, LinkKept
<1>1. CASE Settled
  BY <1>1 DEF Settled
<1>2. ASSUME NEW s \in Licenses, NEW from \in SUBSET Licenses, Grows(s, from)
      PROVE  LinkKept(l)
  BY <1>2 DEF Grows, Insert
<1>3. ASSUME NEW p \in Licenses, NEW s \in Licenses, LinkSuccessor(p, s)
      PROVE  LinkKept(l)
  BY <1>3 DEF LinkSuccessor
<1>4. ASSUME NEW p \in Licenses, Undone(p) PROVE LinkKept(l)
  BY <1>4 DEF Undone, Unlink, Request
<1>5. ASSUME NEW p \in Licenses, Removed(p) PROVE LinkKept(l)
  <2>1. renewedTo[l] # p
    BY <1>5 DEF Removed, Linked, LinksAreMutual
  <2>. QED
    BY <1>5, <2>1 DEF Removed, DeleteLicense, Request
<1>. QED
  BY <1>1, <1>2, <1>3, <1>4, <1>5 DEF LinkStep

(* A new link ends at a license that has no successor, so it closes no     *)
(* ring; no other step adds one.                                           *)
LEMMA ChainsEndStep == Typed /\ Linked /\ ChainsEnd /\ LinkStep => ChainsEnd'
<1>. SUFFICES ASSUME Typed, Linked, ChainsEnd, LinkStep,
                     NEW ring \in SUBSET Licenses,
                     \A l \in ring : renewedTo'[l] \in ring
              PROVE  ring = {}
  BY DEF ChainsEnd
<1>. USE NoneAssumption DEF Typed, StateTyped
<1>1. SUFFICES \A l \in ring : renewedTo[l] \in ring
  BY DEF ChainsEnd
<1>2. CASE Settled
  BY <1>2 DEF Settled
<1>3. ASSUME NEW s \in Licenses, NEW from \in SUBSET Licenses, Grows(s, from)
      PROVE  \A l \in ring : renewedTo[l] \in ring
  <2>1. renewedTo[s] = None /\ s \notin from
    BY <1>3 DEF Grows, Insert, Present, Linked, AbsentAlone
  <2>2. renewedTo' = [x \in Licenses |-> IF x \in from THEN s ELSE renewedTo[x]]
    BY <1>3 DEF Grows, Insert
  <2>3. s \notin ring
    BY <2>1, <2>2
  <2>. QED
    BY <2>2, <2>3
<1>4. ASSUME NEW p \in Licenses, NEW s \in Licenses, LinkSuccessor(p, s)
      PROVE  \A l \in ring : renewedTo[l] \in ring
  <2>1. p # s /\ renewedTo[s] = None /\ renewedTo' = [renewedTo EXCEPT ![p] = s]
    BY <1>4 DEF LinkSuccessor
  <2>2. s \notin ring
    BY <2>1
  <2>. QED
    BY <2>1, <2>2
<1>5. ASSUME NEW p \in Licenses, Undone(p) \/ Removed(p)
      PROVE  \A l \in ring : renewedTo[l] \in ring
  <2>1. \A l \in Licenses : renewedTo'[l] \in {None, renewedTo[l]}
    BY <1>5 DEF Undone, Unlink, Removed, DeleteLicense, Request
  <2>. QED
    BY <2>1
<1>. QED
  BY <1>2, <1>3, <1>4, <1>5 DEF LinkStep

-----------------------------------------------------------------------------
(* References.  The license a reference is named by bears it; a license    *)
(* without predecessors bears its own; an adopted successor has given its  *)
(* own up for its predecessor's.                                           *)

Bearers == \A y \in Present : ref[y] \in Present /\ ref[ref[y]] = ref[y]

Roots == \A s \in Present : predecessors[s] = {} => ref[s] = s

Adopted ==
    \A p \in Licenses :
        formerRef[p] # None =>
            /\ formerRef[p] = renewedTo[p]
            /\ ref[renewedTo[p]] = ref[p]
            /\ ref[p] # renewedTo[p]

Referenced == Bearers /\ Roots /\ Adopted /\ OneHeadPerReference

IsHead(l) == renewedTo[l] = None \/ ref[renewedTo[l]] # ref[l]

LEMMA HeadsAreUnique ==
    OneHeadPerReference <=>
        \A l, m \in Present : ref[l] = ref[m] /\ IsHead(l) /\ IsHead(m) => l = m
BY DEF OneHeadPerReference, IsHead

(* Both ends of a link are there. *)
LEMMA LinkEnds ==
    ASSUME Typed, Linked
    PROVE  \A l \in Licenses :
              renewedTo[l] # None => l \in Present /\ renewedTo[l] \in Present
<1>. SUFFICES ASSUME NEW l \in Licenses, renewedTo[l] # None
              PROVE  l \in Present /\ renewedTo[l] \in Present
  OBVIOUS
<1>1. renewedTo[l] \in Licenses
  BY DEF Typed, StateTyped
<1>2. l \in predecessors[renewedTo[l]]
  BY <1>1 DEF Linked, LinksAreMutual
<1>. QED
  BY <1>1, <1>2 DEF Linked, AbsentAlone, Present

(* At an end of a chain without predecessors a reference has one bearer:   *)
(* the others would be a ring of licenses that are not heads.              *)
LEMMA SoleBearer ==
    ASSUME Typed, Linked, ChainsEnd, OneHeadPerReference,
           NEW s \in Present, renewedTo[s] = None, predecessors[s] = {},
           NEW y \in Present, ref[y] = ref[s]
    PROVE  y = s
<1> DEFINE ring == {x \in Present : ref[x] = ref[s] /\ x # s}
<1>1. ASSUME NEW x \in ring
      PROVE  renewedTo[x] \in ring
  <2>1. renewedTo[x] # None /\ ref[renewedTo[x]] = ref[x]
    BY HeadsAreUnique DEF IsHead
  <2>2. renewedTo[x] \in Present
    BY <2>1, LinkEnds DEF Present
  <2>3. renewedTo[x] # s
    BY DEF Linked, LinksAreMutual, Present
  <2>. QED
    BY <2>1, <2>2, <2>3
<1>2. ring \in SUBSET Licenses
  BY DEF Present
<1>3. ring = {}
  <2>. HIDE DEF ring
  <2>. QED
    BY <1>1, <1>2 DEF ChainsEnd
<1>. QED
  BY <1>3

LEMMA GrowsReferenced ==
    ASSUME Typed, Linked, Referenced,
           NEW s \in Licenses, NEW from \in SUBSET Licenses, Grows(s, from)
    PROVE  Referenced'
<1>1. PICK status \in {"none", "legacy"}, name \in {s} \cup {ref[p] : p \in from} :
          Insert(s, status, name, from)
  BY DEF Grows
<1>2. /\ s \notin Present /\ s \notin from /\ from \subseteq Present
      /\ predecessors[s] = {} /\ renewedTo[s] = None
      /\ \A l \in from : renewedTo[l] = None /\ formerRef[l] = None
  BY <1>1 DEF Grows, Insert, Present, Linked, AbsentAlone, AdoptedAlone
<1>3. /\ Present' = Present \cup {s}
      /\ renewedTo' = [x \in Licenses |-> IF x \in from THEN s ELSE renewedTo[x]]
      /\ predecessors' = [predecessors EXCEPT ![s] = from]
      /\ ref' = [ref EXCEPT ![s] = name]
      /\ formerRef' = formerRef
  BY <1>1, <1>2 DEF Insert, Present, Typed, StateTyped
<1>4. /\ \A y \in Present : ref'[y] = ref[y] /\ ref[y] \in Present /\ ref[y] # s
      /\ ref'[s] = name
      /\ name = s \/ \E p \in from : name = ref[p]
      /\ Present \subseteq Licenses
  BY <1>2, <1>3 DEF Typed, StateTyped, Present, Referenced, Bearers
<1>5. \A x \in Licenses : renewedTo[x] # s /\ (renewedTo[x] # None => renewedTo[x] \in Present)
  BY <1>2, LinkEnds, NoneAssumption
<1>6. Bearers'
  BY <1>2, <1>3, <1>4 DEF Referenced, Bearers
<1>7. Roots'
  BY <1>2, <1>3, <1>4 DEF Referenced, Roots, Typed, StateTyped
<1>8. Adopted'
  <2>. SUFFICES ASSUME NEW p \in Licenses, formerRef[p] # None
                PROVE  /\ formerRef'[p] = renewedTo'[p]
                       /\ ref'[renewedTo'[p]] = ref'[p]
                       /\ ref'[p] # renewedTo'[p]
    BY <1>3 DEF Adopted
  <2>1. /\ renewedTo'[p] = renewedTo[p] /\ renewedTo[p] # None
        /\ renewedTo[p] \in Present /\ p \in Present
    BY <1>2, <1>3, LinkEnds DEF Linked, AdoptedAlone
  <2>. QED
    BY <1>3, <1>4, <2>1 DEF Referenced, Adopted
<1>9. OneHeadPerReference'
  <2>1. \A x \in Present : IsHead(x)' => IsHead(x)
    BY <1>2, <1>3, <1>4, <1>5 DEF IsHead, Present
  <2>2. \A x \in from : ref[x] = name => ~IsHead(x)'
    BY <1>2, <1>3, <1>4, NoneAssumption DEF IsHead, Present
  <2>3. \A x \in from : IsHead(x)
    BY <1>2 DEF IsHead
  <2>4. ASSUME NEW y \in Present, ref[y] = name, IsHead(y)'
        PROVE  FALSE
    <3>1. PICK p \in from : name = ref[p]
      BY <1>4, <2>4
    <3>2. y = p
      BY <1>2, <2>1, <2>3, <2>4, <3>1, HeadsAreUnique DEF Referenced
    <3>. QED
      BY <2>2, <2>4, <3>2
  <2>5. ASSUME NEW l \in Present', NEW m \in Present', ref'[l] = ref'[m],
               IsHead(l)', IsHead(m)'
        PROVE  l = m
    BY <1>3, <1>4, <2>1, <2>4, <2>5, HeadsAreUnique DEF Referenced
  <2>. QED
    BY <2>5 DEF OneHeadPerReference, IsHead
<1>. QED
  BY <1>6, <1>7, <1>8, <1>9 DEF Referenced

LEMMA LinkReferenced ==
    ASSUME Typed, Linked, ChainsEnd, Referenced,
           NEW l \in Licenses, NEW s \in Licenses, LinkSuccessor(l, s)
    PROVE  Referenced'
<1>1. /\ l # s /\ l \in Present /\ s \in Present /\ Present \subseteq Licenses
      /\ renewedTo[l] = None /\ renewedTo[s] = None /\ predecessors[s] = {}
  BY DEF LinkSuccessor, Present
<1>2. /\ Present' = Present
      /\ renewedTo' = [renewedTo EXCEPT ![l] = s]
      /\ predecessors' = [predecessors EXCEPT ![s] = {l}]
      /\ ref' = [ref EXCEPT ![s] = ref[l]]
      /\ formerRef' = [formerRef EXCEPT ![l] = ref[s]]
  BY <1>1 DEF LinkSuccessor, Present, Typed, StateTyped
<1>3. /\ ref[s] = s
      /\ \A y \in Present : ref[y] = s => y = s
  <2>1. ref[s] = s
    BY <1>1 DEF Referenced, Roots
  <2>. QED
    BY <1>1, <2>1, SoleBearer DEF Referenced
<1>4. /\ \A y \in Present : ref'[y] = IF y = s THEN ref[l] ELSE ref[y]
      /\ \A x \in Licenses : renewedTo'[x] = IF x = l THEN s ELSE renewedTo[x]
      /\ ref[l] # s
  BY <1>1, <1>2, <1>3 DEF Typed, StateTyped
<1>5. \A x \in Licenses : /\ renewedTo[x] # s
                          /\ renewedTo[x] # None => renewedTo[x] \in Present
  BY <1>1, LinkEnds, NoneAssumption DEF Linked, LinksAreMutual
<1>6. Bearers'
  BY <1>1, <1>2, <1>3, <1>4 DEF Referenced, Bearers
<1>7. Roots'
  BY <1>1, <1>2, <1>4 DEF Referenced, Roots, Typed, StateTyped
<1>8. Adopted'
  <2>. SUFFICES ASSUME NEW p \in Licenses, formerRef'[p] # None
                PROVE  /\ formerRef'[p] = renewedTo'[p]
                       /\ ref'[renewedTo'[p]] = ref'[p]
                       /\ ref'[p] # renewedTo'[p]
    BY DEF Adopted
  <2>1. CASE p = l
    BY <1>1, <1>2, <1>3, <1>4, <2>1 DEF Typed, StateTyped
  <2>2. CASE p # l
    <3>1. /\ formerRef'[p] = formerRef[p] /\ formerRef[p] # None
          /\ renewedTo'[p] = renewedTo[p] /\ renewedTo[p] # None
      BY <1>2, <2>2 DEF Typed, StateTyped, Linked, AdoptedAlone
    <3>2. p \in Present /\ renewedTo[p] \in Present /\ p # s /\ renewedTo[p] # s
      BY <1>1, <1>5, <3>1, LinkEnds
    <3>. QED
      BY <1>4, <3>1, <3>2 DEF Referenced, Adopted
  <2>. QED
    BY <2>1, <2>2
<1>9. OneHeadPerReference'
  <2>1. \A x \in Present \ {s} : IsHead(x)' => IsHead(x) /\ x # l
    BY <1>1, <1>2, <1>4, <1>5, NoneAssumption DEF IsHead
  <2>2. IsHead(l)
    BY <1>1 DEF IsHead
  <2>3. ASSUME NEW y \in Present \ {s}, ref[y] = ref[l], IsHead(y)'
        PROVE  FALSE
    BY <1>1, <2>1, <2>2, <2>3, HeadsAreUnique DEF Referenced
  <2>4. ASSUME NEW x \in Present, NEW m \in Present, ref'[x] = ref'[m],
               IsHead(x)', IsHead(m)'
        PROVE  x = m
    <3>1. CASE x = s
      BY <1>4, <2>3, <2>4, <3>1
    <3>2. CASE m = s
      BY <1>4, <2>3, <2>4, <3>2
    <3>3. CASE x # s /\ m # s
      BY <1>4, <2>1, <2>4, <3>3, HeadsAreUnique DEF Referenced
    <3>. QED
      BY <3>1, <3>2, <3>3
  <2>. QED
    BY <1>2, <2>4 DEF OneHeadPerReference, IsHead
<1>. QED
  BY <1>6, <1>7, <1>8, <1>9 DEF Referenced

LEMMA UndoneReferenced ==
    ASSUME Typed, Linked, Referenced, NEW l \in Licenses, Undone(l)
    PROVE  Referenced'
<1> DEFINE s == renewedTo[l]
<1>1. /\ s \in Present /\ l \in Present /\ Present \subseteq Licenses
      /\ renewedTo[s] = None /\ predecessors[s] = {l}
      /\ formerRef[l] = s /\ ref[s] = ref[l] /\ ref[l] # s /\ l # s
  <2>1. formerRef[l] # None /\ renewedTo[l] # None /\ renewedTo[s] = None
    BY DEF Undone
  <2>2. /\ s \in Present /\ l \in Present
    BY <2>1, LinkEnds
  <2>. QED
    BY <2>1, <2>2 DEF Present, Referenced, Adopted, Linked, AdoptedAlone
<1>2. /\ Present' = Present
      /\ renewedTo' = [renewedTo EXCEPT ![l] = None]
      /\ predecessors' = [predecessors EXCEPT ![s] = {}]
      /\ ref' = [ref EXCEPT ![s] = s]
      /\ formerRef' = [formerRef EXCEPT ![l] = None]
  <2>1. /\ lifecycle' = [lifecycle EXCEPT ![l] = "none"]
        /\ ref' = [ref EXCEPT ![s] = formerRef[l]]
        /\ renewedTo' = [renewedTo EXCEPT ![l] = None]
        /\ predecessors' = [predecessors EXCEPT ![s] = {}]
        /\ formerRef' = [formerRef EXCEPT ![l] = None]
    BY DEF Undone, Unlink, Request
  <2>2. Present' = Present
    BY <1>1, <2>1 DEF Present, Typed, StateTyped
  <2>. QED
    BY <1>1, <2>1, <2>2
<1>3. \A y \in Present : ref[y] # s
  BY <1>1 DEF Referenced, Bearers
<1>4. /\ \A y \in Present : ref'[y] = IF y = s THEN s ELSE ref[y]
      /\ \A x \in Licenses : renewedTo'[x] = IF x = l THEN None ELSE renewedTo[x]
  BY <1>1, <1>2 DEF Typed, StateTyped
<1>5. \A x \in Licenses \ {l} : /\ renewedTo[x] # s
                                /\ renewedTo[x] # None => renewedTo[x] \in Present
  BY <1>1, LinkEnds, NoneAssumption DEF Linked, LinksAreMutual, Present
<1>. HIDE DEF s
<1>6. Bearers'
  BY <1>1, <1>2, <1>3, <1>4 DEF Referenced, Bearers
<1>7. Roots'
  BY <1>1, <1>2, <1>4 DEF Referenced, Roots, Typed, StateTyped
<1>8. Adopted'
  <2>. SUFFICES ASSUME NEW p \in Licenses, formerRef'[p] # None
                PROVE  /\ formerRef'[p] = renewedTo'[p]
                       /\ ref'[renewedTo'[p]] = ref'[p]
                       /\ ref'[p] # renewedTo'[p]
    BY DEF Adopted
  <2>1. /\ p # l /\ formerRef'[p] = formerRef[p] /\ formerRef[p] # None
        /\ renewedTo'[p] = renewedTo[p] /\ renewedTo[p] # None
    BY <1>1, <1>2 DEF Typed, StateTyped, Linked, AdoptedAlone
  <2>2. p \in Present /\ renewedTo[p] \in Present /\ p # s /\ renewedTo[p] # s
    BY <1>1, <1>5, <2>1, LinkEnds
  <2>. QED
    BY <1>4, <2>1, <2>2 DEF Referenced, Adopted
<1>9. OneHeadPerReference'
  <2>1. \A x \in Present \ {l} : IsHead(x)' => IsHead(x)
    BY <1>1, <1>4, <1>5 DEF IsHead
  <2>2. IsHead(s)
    BY <1>1 DEF IsHead
  <2>3. ASSUME NEW y \in Present \ {l, s}, ref[y] = ref[l], IsHead(y)'
        PROVE  FALSE
    BY <1>1, <2>1, <2>2, <2>3, HeadsAreUnique DEF Referenced
  <2>4. ASSUME NEW x \in Present, NEW m \in Present, ref'[x] = ref'[m],
               IsHead(x)', IsHead(m)'
        PROVE  x = m
    <3>1. CASE x = s \/ m = s
      BY <1>1, <1>3, <1>4, <2>4, <3>1
    <3>2. CASE x # s /\ m # s /\ (x = l \/ m = l)
      BY <1>1, <1>4, <2>3, <2>4, <3>2
    <3>3. CASE x \notin {s, l} /\ m \notin {s, l}
      BY <1>4, <2>1, <2>4, <3>3, HeadsAreUnique DEF Referenced
    <3>. QED
      BY <3>1, <3>2, <3>3
  <2>. QED
    BY <1>2, <2>4 DEF OneHeadPerReference, IsHead
<1>. QED
  BY <1>6, <1>7, <1>8, <1>9 DEF Referenced

LEMMA RemovedReferenced ==
    ASSUME Typed, Linked, ChainsEnd, Referenced, NEW l \in Licenses, Removed(l)
    PROVE  Referenced'
<1>1. /\ l \in Present /\ predecessors[l] = {} /\ renewedTo[l] = None
      /\ \A x \in Licenses : renewedTo[x] # l /\ l \notin predecessors[x]
      /\ formerRef[l] = None /\ Present \subseteq Licenses
  <2>1. l \in Present /\ predecessors[l] = {} /\ renewedTo[l] = None /\ Present \subseteq Licenses
    BY DEF Removed, DeleteLicense, Request, Present
  <2>2. \A x \in Licenses : renewedTo[x] # l /\ l \notin predecessors[x]
    BY <2>1, NoneAssumption DEF Linked, LinksAreMutual
  <2>. QED
    BY <2>1, <2>2 DEF Linked, AdoptedAlone
<1>2. /\ Present' = Present \ {l}
      /\ UNCHANGED <<renewedTo, predecessors, formerRef>>
      /\ ref' = [ref EXCEPT ![l] = None]
  BY <1>1 DEF Removed, DeleteLicense, Request, Present, Typed, StateTyped
<1>3. \A y \in Present : ref[y] = l => y = l
  <2>1. ref[l] = l
    BY <1>1 DEF Referenced, Roots
  <2>. QED
    BY <1>1, <2>1, SoleBearer DEF Referenced
<1>4. /\ \A y \in Present \ {l} : ref'[y] = ref[y] /\ ref[y] \in Present \ {l}
      /\ \A x \in Licenses : renewedTo[x] # None => renewedTo[x] \in Present \ {l}
  BY <1>1, <1>2, <1>3, LinkEnds DEF Referenced, Bearers, Typed, StateTyped
<1>5. Bearers' /\ Roots'
  BY <1>1, <1>2, <1>4 DEF Referenced, Bearers, Roots
<1>6. Adopted'
  <2>. SUFFICES ASSUME NEW p \in Licenses, formerRef[p] # None
                PROVE  /\ formerRef[p] = renewedTo[p]
                       /\ ref'[renewedTo[p]] = ref'[p]
                       /\ ref'[p] # renewedTo[p]
    BY <1>2 DEF Adopted
  <2>1. renewedTo[p] # None /\ p # l /\ p \in Present
    BY <1>1, LinkEnds DEF Linked, AdoptedAlone
  <2>. QED
    BY <1>4, <2>1 DEF Referenced, Adopted
<1>7. OneHeadPerReference'
  <2>1. \A x \in Present \ {l} : IsHead(x)' => IsHead(x)
    BY <1>1, <1>2, <1>4 DEF IsHead
  <2>2. ASSUME NEW x \in Present', NEW m \in Present', ref'[x] = ref'[m],
               IsHead(x)', IsHead(m)'
        PROVE  x = m
    BY <1>2, <1>4, <2>1, <2>2, HeadsAreUnique DEF Referenced
  <2>. QED
    BY <2>2 DEF OneHeadPerReference, IsHead
<1>. QED
  BY <1>5, <1>6, <1>7 DEF Referenced

LEMMA ReferencedStep ==
    Typed /\ Linked /\ ChainsEnd /\ Referenced /\ LinkStep => Referenced'
<1>. SUFFICES ASSUME Typed, Linked, ChainsEnd, Referenced, LinkStep
              PROVE  Referenced'
  OBVIOUS
<1>1. CASE Settled
  <2>1. Present' = Present /\ UNCHANGED <<renewedTo, predecessors, ref, formerRef>>
    BY <1>1 DEF Settled, Present
  <2>. QED
    BY <2>1 DEF Referenced, Bearers, Roots, Adopted, OneHeadPerReference
<1>. QED
  BY <1>1, GrowsReferenced, LinkReferenced, UndoneReferenced, RemovedReferenced
  DEF LinkStep

-----------------------------------------------------------------------------
(* A license is renewed exactly while it has a successor, as long as no    *)
(* request that sets the status of a license it has read was overtaken.    *)

NoneOvertaken == overtaken = {}

LEMMA RenewedStep ==
    Typed /\ Linked /\ RenewedHasSuccessor /\ NoneOvertaken' /\ StepCase
        => RenewedHasSuccessor'
<1>. SUFFICES ASSUME Typed, Linked, RenewedHasSuccessor, NoneOvertaken', StepCase
              PROVE  RenewedHasSuccessor'
  OBVIOUS
<1>. USE NoneAssumption DEF RenewedHasSuccessor
<1>0. /\ lifecycle \in [Licenses -> Lifecycles]
      /\ renewedTo \in [Licenses -> Licenses \cup {None}]
      /\ \A l \in Licenses : lifecycle[l] = "absent" => renewedTo[l] = None
  BY DEF Typed, StateTyped, Linked, AbsentAlone
<1>1. ASSUME NEW s \in Licenses, NEW from \in SUBSET Licenses, NEW name,
             NEW status \in {"none", "legacy"}, Insert(s, status, name, from),
             from \subseteq Present, \A l \in from : renewedTo[l] = None
      PROVE  RenewedHasSuccessor'
  <2>1. s \notin from /\ renewedTo[s] = None
    BY <1>0, <1>1 DEF Insert, Present
  <2>2. \A x \in Licenses :
           /\ lifecycle'[x] = IF x = s THEN status
                             ELSE IF x \in from THEN "renewed" ELSE lifecycle[x]
           /\ renewedTo'[x] = IF x \in from THEN s ELSE renewedTo[x]
    BY <1>1 DEF Insert
  <2>. QED
    BY <1>1, <2>1, <2>2
<1>2. CASE OneStep
  <2>1. ASSUME NEW l \in Licenses, NEW status \in {"none", "legacy"},
               CreateLicense(l, status)
        PROVE  RenewedHasSuccessor'
    BY <1>1, <2>1 DEF CreateLicense
  <2>2. ASSUME NEW i \in Items, NEW l \in Licenses,
               AddLine(i, l) \/ InitiateRenewal(l, i) \/ OrderLine(i)
        PROVE  RenewedHasSuccessor'
    BY <1>0, <2>2 DEF AddLine, InitiateRenewal, OrderLine, chain
  <2>3. ASSUME NEW i \in Items, NEW s \in Licenses, ConvertLine(i, s)
        PROVE  RenewedHasSuccessor'
    <3>1. Covers(i) \in SUBSET Licenses
      BY DEF Covers, Typed, StateTyped
    <3>. QED
      BY <1>1, <2>3, <3>1 DEF ConvertLine
  <2>4. ASSUME NEW l \in Licenses, NEW s \in Licenses, LinkSuccessor(l, s)
        PROVE  RenewedHasSuccessor'
    BY <1>0, <2>4 DEF LinkSuccessor
  <2>5. ASSUME NEW l \in Licenses, NEW s \in Licenses,
               NEW status \in {"none", "legacy"}, ImportSuccessor(l, s, status)
        PROVE  RenewedHasSuccessor'
    BY <1>1, <2>5 DEF ImportSuccessor
  <2>6. ASSUME NEW i \in Items, OrderLine(i)
        PROVE  RenewedHasSuccessor'
    BY <2>6 DEF OrderLine, chain
  <2>. QED
    BY <1>2, <2>1, <2>2, <2>3, <2>4, <2>5, <2>6 DEF OneStep
<1>3. CASE UNCHANGED <<chain, flags, lines>>
  BY <1>3 DEF chain
<1>4. ASSUME NEW l \in Licenses, Undone(l)
      PROVE  RenewedHasSuccessor'
  BY <1>0, <1>4 DEF Undone, Unlink, Request
<1>5. ASSUME NEW l \in Licenses, Dropped(l)
      PROVE  RenewedHasSuccessor'
  <2>1. renewedTo[l] = None /\ \A x \in Licenses : renewedTo[x] # l
    BY <1>5 DEF Dropped, Removed, Linked, LinksAreMutual
  <2>. QED
    BY <1>0, <1>5, <2>1 DEF Dropped, Removed, DeleteLicense, Request
<1>6. ASSUME NEW l \in Licenses, Cancelled(l)
      PROVE  RenewedHasSuccessor'
  BY <1>0, <1>6 DEF Cancelled, CancelRenewal, Request
<1>7. ASSUME NEW l \in Licenses, Toggled(l)
      PROVE  RenewedHasSuccessor'
  BY <1>0, <1>7 DEF Toggled, SetLegacy, Request
<1>8. ASSUME NEW r \in Requests, r.op \notin Guarded, Perform(r)
      PROVE  RenewedHasSuccessor'
  <2>1. CASE CloseLine(r)
    BY <1>0, <2>1 DEF CloseLine
  <2>2. CASE ReturnLine(r) \/ MergeLines(r) \/ SetRetirement(r) \/ FlipRenewable(r)
    BY <2>2 DEF ReturnLine, MergeLines, SetRetirement, FlipRenewable, chain
  <2>. QED
    BY <1>8, <2>1, <2>2
    DEF Perform, Guarded, Unlink, CancelRenewal, DeleteLicense, SetLegacy
<1>. QED
  BY <1>2, <1>3, <1>4, <1>5, <1>6, <1>7, <1>8 DEF StepCase, NoneOvertaken

-----------------------------------------------------------------------------
(* A pending renewal has an open line, as long as no cancellation, unlink  *)
(* or deletion was overtaken.  A license an order renewed is never pending *)
(* again, so a converted line does not count as work that goes on.         *)

NoCancelOvertaken == overtaken \cap {"unlink", "delete", "cancel"} = {}

LicensedIsFinal ==
    \A i \in Items :
        itemStatus[i] = "licensed" =>
            \A l \in Covers(i) : renewedTo[l] # None /\ formerRef[l] = None

PendingUnlinked ==
    \A l \in Licenses : lifecycle[l] = "pending_renewal" => renewedTo[l] = None

Worked == LicensedIsFinal /\ PendingUnlinked /\ PendingHasWork

(* The lines stay, the pending licenses are none but those of before.      *)
LEMMA LinesStay ==
    ASSUME Worked, UNCHANGED lines,
           \A l \in Licenses :
              /\ lifecycle'[l] = "pending_renewal" =>
                    lifecycle[l] = "pending_renewal" /\ renewedTo'[l] = renewedTo[l]
              /\ renewedTo[l] # None /\ formerRef[l] = None =>
                    renewedTo'[l] # None /\ formerRef'[l] = None,
           StateTyped
    PROVE  Worked'
<1>1. \A i \in Items : Covers(i)' = Covers(i) /\ Covers(i) \subseteq Licenses
  BY DEF Covers, lines, StateTyped
<1>2. itemStatus' = itemStatus /\ OpenItems' = OpenItems
  BY DEF lines, OpenItems
<1>3. LicensedIsFinal'
  BY <1>1, <1>2 DEF Worked, LicensedIsFinal
<1>4. PendingUnlinked' /\ PendingHasWork'
  BY <1>1, <1>2 DEF Worked, PendingUnlinked, PendingHasWork, OpenItems
<1>. QED
  BY <1>3, <1>4 DEF Worked

(* A line is added or goes on to the next status.                          *)
LEMMA LineAdvances ==
    ASSUME Worked, StateTyped, NEW i \in Items,
           AddLine(i, renews'[i]) \/ InitiateRenewal(renews'[i], i) \/ OrderLine(i)
    PROVE  Worked'
<1>. USE DEF StateTyped
<1>1. /\ \A j \in Items \ {i} : itemStatus'[j] = itemStatus[j] /\ Covers(j)' = Covers(j)
      /\ itemStatus'[i] \in {"sourcing", "ordered"}
      /\ itemStatus[i] = "sourcing" => Covers(i)' = Covers(i)
      /\ itemStatus[i] \in {"absent", "sourcing"}
      /\ UNCHANGED <<renewedTo, formerRef>>
  BY DEF AddLine, InitiateRenewal, OrderLine, Covers, chain
<1>2. LicensedIsFinal'
  BY <1>1 DEF Worked, LicensedIsFinal
<1>3. ASSUME NEW l \in Licenses, lifecycle'[l] = "pending_renewal"
      PROVE  renewedTo[l] = None /\ \E j \in OpenItems' : l \in Covers(j)'
  <2>1. CASE lifecycle[l] = "pending_renewal"
    <3>1. PICK j \in OpenItems : l \in Covers(j)
      BY <2>1 DEF Worked, PendingHasWork
    <3>2. renewedTo[l] = None
      BY <2>1 DEF Worked, PendingUnlinked
    <3>3. j \in OpenItems' /\ l \in Covers(j)'
      BY <1>1, <3>1 DEF OpenItems
    <3>. QED
      BY <3>2, <3>3
  <2>2. CASE lifecycle[l] # "pending_renewal"
    <3>1. InitiateRenewal(l, i)
      BY <1>3, <2>2 DEF AddLine, InitiateRenewal, OrderLine, chain
    <3>2. l \in Covers(i)' /\ i \in OpenItems' /\ renewedTo[l] = None
      BY <1>1, <3>1, NoneAssumption DEF InitiateRenewal, Covers, OpenItems
    <3>. QED
      BY <3>2
  <2>. QED
    BY <2>1, <2>2
<1>4. PendingUnlinked' /\ PendingHasWork'
  BY <1>1, <1>3 DEF PendingUnlinked, PendingHasWork
<1>. QED
  BY <1>2, <1>4 DEF Worked

(* What is inserted is not pending; what it succeeds is renewed for good.  *)
LEMMA InsertWorks ==
    ASSUME Worked, Typed, Linked, NEW s \in Licenses, NEW from \in SUBSET Licenses,
           NEW status \in {"none", "legacy"}, NEW name, Insert(s, status, name, from),
           from \subseteq Present, \A l \in from : renewedTo[l] = None
    PROVE  /\ PendingUnlinked'
           /\ \A l \in Licenses : lifecycle'[l] = "pending_renewal" =>
                 lifecycle[l] = "pending_renewal" /\ l \notin from
           /\ \A l \in from : renewedTo'[l] # None /\ formerRef'[l] = None
           /\ \A l \in Licenses : renewedTo[l] # None /\ formerRef[l] = None =>
                 renewedTo'[l] # None /\ formerRef'[l] = None
<1>. USE NoneAssumption
<1>1. \A x \in Licenses :
         /\ lifecycle'[x] = IF x = s THEN status
                           ELSE IF x \in from THEN "renewed" ELSE lifecycle[x]
         /\ renewedTo'[x] = IF x \in from THEN s ELSE renewedTo[x]
         /\ formerRef'[x] = formerRef[x]
  BY DEF Insert
<1>2. \A l \in from : formerRef[l] = None
  BY DEF Linked, AdoptedAlone
<1>. QED
  BY <1>1, <1>2 DEF Worked, PendingUnlinked

LEMMA ConvertWorks ==
    ASSUME Worked, Typed, Linked, NEW i \in Items, NEW s \in Licenses, ConvertLine(i, s)
    PROVE  Worked'
<1>1. Covers(i) \in SUBSET Licenses
  BY DEF Covers, Typed, StateTyped
<1>2. /\ PendingUnlinked'
      /\ \A l \in Licenses : lifecycle'[l] = "pending_renewal" =>
            lifecycle[l] = "pending_renewal" /\ l \notin Covers(i)
      /\ \A l \in Covers(i) : renewedTo'[l] # None /\ formerRef'[l] = None
      /\ \A l \in Licenses : renewedTo[l] # None /\ formerRef[l] = None =>
            renewedTo'[l] # None /\ formerRef'[l] = None
  BY <1>1, InsertWorks DEF ConvertLine
<1>3. /\ \A j \in Items : Covers(j)' = Covers(j) /\ Covers(j) \subseteq Licenses
      /\ itemStatus' = [itemStatus EXCEPT ![i] = "licensed"]
      /\ itemStatus \in [Items -> ItemStatuses]
  BY DEF ConvertLine, Covers, Typed, StateTyped
<1>4. LicensedIsFinal'
  BY <1>2, <1>3 DEF Worked, LicensedIsFinal
<1>5. PendingHasWork'
  BY <1>2, <1>3 DEF Worked, PendingHasWork, OpenItems
<1>. QED
  BY <1>2, <1>4, <1>5 DEF Worked

(* Lines that are withdrawn were not licensed, or are gone; the others are *)
(* as before.                                                              *)
LEMMA WithdrawLeaves ==
    ASSUME StateTyped, NEW gone \in SUBSET Items, Withdraw(gone)
    PROVE  /\ \A i \in gone : itemStatus'[i] = "absent"
           /\ \A i \in Items \ gone : itemStatus'[i] = itemStatus[i] /\ Covers(i)' = Covers(i)
BY DEF Withdraw, Covers, StateTyped

LEMMA CancelWorks ==
    ASSUME Worked, StateTyped, NEW l \in Licenses, Cancelled(l)
    PROVE  Worked'
<1> DEFINE own == {i \in Items : itemStatus[i] = "sourcing" /\ l \in Covers(i)}
<1>1. /\ lifecycle[l] = "pending_renewal" /\ \A i \in own : Covers(i) = {l}
      /\ Withdraw(own)
      /\ lifecycle' = [lifecycle EXCEPT ![l] = "none"]
      /\ UNCHANGED <<renewedTo, formerRef>>
  <2>1. StillOrdered(own) = {{}}
    BY DEF StillOrdered
  <2>2. own \ {} = own
    OBVIOUS
  <2>. QED
    BY <2>1, <2>2 DEF Cancelled, CancelRenewal, Request
<1>2. /\ \A i \in own : itemStatus'[i] = "absent" /\ l \in Covers(i)
      /\ \A i \in Items \ own : itemStatus'[i] = itemStatus[i] /\ Covers(i)' = Covers(i)
  BY <1>1, WithdrawLeaves
<1>3. LicensedIsFinal'
  BY <1>1, <1>2 DEF Worked, LicensedIsFinal
<1>4. PendingUnlinked'
  BY <1>1 DEF Worked, PendingUnlinked, StateTyped
<1>5. ASSUME NEW x \in Licenses, lifecycle'[x] = "pending_renewal"
      PROVE  \E i \in OpenItems' : x \in Covers(i)'
  <2>1. x # l /\ lifecycle[x] = "pending_renewal"
    BY <1>1, <1>5 DEF StateTyped
  <2>2. PICK i \in OpenItems : x \in Covers(i)
    BY <2>1 DEF Worked, PendingHasWork
  <2>3. i \notin own
    BY <1>1, <2>1, <2>2
  <2>. QED
    BY <1>2, <2>2, <2>3 DEF OpenItems
<1>. QED
  BY <1>3, <1>4, <1>5 DEF Worked, PendingHasWork

(* Whatever a request that closes lines has read, what it writes leaves    *)
(* no license pending without a line.                                      *)
LEMMA CloseWorks ==
    ASSUME Worked, StateTyped, NEW r \in Requests, CloseLine(r)
    PROVE  Worked'
<1> DEFINE covered == UNION {Covers(i) : i \in r.items}
           worked == UNION {Covers(i) : i \in {j \in Items \ r.items :
                                                itemStatus[j] # "absent"}}
<1>1. r.items \in SUBSET Items
  BY DEF Requests
<1>2. PICK kept \in SUBSET r.items : Withdraw(r.items \ kept)
  BY DEF CloseLine, StillOrdered
<1>3. /\ \A l \in Licenses : lifecycle'[l] = "pending_renewal" =>
            lifecycle[l] = "pending_renewal" /\ l \notin covered \ worked
      /\ UNCHANGED <<renewedTo, formerRef>>
  BY DEF CloseLine
<1>4. /\ \A i \in r.items \ kept : itemStatus'[i] = "absent"
      /\ \A i \in Items \ (r.items \ kept) :
            itemStatus'[i] = itemStatus[i] /\ Covers(i)' = Covers(i)
  BY <1>1, <1>2, WithdrawLeaves
<1>5. LicensedIsFinal'
  BY <1>3, <1>4 DEF Worked, LicensedIsFinal
<1>6. PendingUnlinked'
  BY <1>3 DEF Worked, PendingUnlinked
<1>7. ASSUME NEW l \in Licenses, lifecycle'[l] = "pending_renewal"
      PROVE  \E i \in OpenItems' : l \in Covers(i)'
  <2>1. lifecycle[l] = "pending_renewal" /\ (l \notin covered \/ l \in worked)
    BY <1>3, <1>7
  <2>2. CASE l \notin covered
    <3>1. PICK i \in OpenItems : l \in Covers(i)
      BY <2>1 DEF Worked, PendingHasWork
    <3>2. i \notin r.items
      BY <2>2, <3>1
    <3>. QED
      BY <1>4, <3>1, <3>2 DEF OpenItems
  <2>3. CASE l \in worked
    <3>1. PICK i \in Items \ r.items : itemStatus[i] # "absent" /\ l \in Covers(i)
      BY <2>3
    <3>2. itemStatus[i] # "licensed"
      BY <2>1, <3>1 DEF Worked, LicensedIsFinal, PendingUnlinked
    <3>3. i \in OpenItems
      BY <3>1, <3>2 DEF OpenItems, StateTyped, ItemStatuses
    <3>. QED
      BY <1>4, <3>1, <3>3 DEF OpenItems
  <2>. QED
    BY <2>1, <2>2, <2>3
<1>. QED
  BY <1>5, <1>6, <1>7 DEF Worked, PendingHasWork

LEMMA ReturnWorks ==
    ASSUME Worked, StateTyped, NEW r \in Requests, ReturnLine(r)
    PROVE  Worked'
<1>1. /\ \A i \in Items : /\ itemStatus'[i] \in {itemStatus[i], "sourcing"}
                          /\ Covers(i)' = Covers(i)
      /\ UNCHANGED <<lifecycle, renewedTo, formerRef>>
  BY DEF ReturnLine, Covers, chain
<1>. QED
  BY <1>1 DEF Worked, LicensedIsFinal, PendingUnlinked, PendingHasWork, OpenItems

(* The line that is left covers what the merged ones did.                  *)
LEMMA MergeWorks ==
    ASSUME Worked, StateTyped, NEW r \in Requests, Sound(r), MergeLines(r)
    PROVE  Worked'
<1>1. r.items \subseteq OpenItems /\ UNCHANGED <<lifecycle, renewedTo, formerRef>>
  BY DEF MergeLines, chain
<1>2. PICK merged \in r.items :
        /\ itemStatus' = [i \in Items |-> IF i = merged THEN "sourcing"
                              ELSE IF i \in r.items THEN "absent" ELSE itemStatus[i]]
        /\ renews' = [i \in Items |-> IF i = merged THEN r.license
                          ELSE IF i \in r.items THEN None ELSE renews[i]]
        /\ coterm' = [i \in Items |-> IF i = merged THEN UNION {Covers(j) : j \in r.items}
                          ELSE IF i \in r.items THEN {} ELSE coterm[i]]
  BY DEF MergeLines
<1>3. /\ \A i \in Items \ r.items : itemStatus'[i] = itemStatus[i] /\ Covers(i)' = Covers(i)
      /\ merged \in Items /\ itemStatus'[merged] = "sourcing"
      /\ \A i \in r.items : Covers(i) \subseteq Covers(merged)'
      /\ \A i \in r.items : itemStatus'[i] # "licensed"
  BY <1>1, <1>2 DEF Covers, OpenItems
<1>4. LicensedIsFinal'
  BY <1>1, <1>3 DEF Worked, LicensedIsFinal
<1>5. PendingHasWork'
  <2>. SUFFICES ASSUME NEW l \in Licenses, lifecycle[l] = "pending_renewal"
                PROVE  \E i \in OpenItems' : l \in Covers(i)'
    BY <1>1 DEF PendingHasWork
  <2>1. PICK i \in OpenItems : l \in Covers(i)
    BY DEF Worked, PendingHasWork
  <2>. QED
    BY <1>3, <2>1 DEF OpenItems
<1>. QED
  BY <1>1, <1>4, <1>5 DEF Worked, PendingUnlinked

LEMMA WorkedStep ==
    Typed /\ Linked /\ Worked /\ NoCancelOvertaken' /\ StepCase => Worked'
<1>. SUFFICES ASSUME Typed, Linked, Worked, NoCancelOvertaken', StepCase PROVE Worked'
  OBVIOUS
<1>. USE NoneAssumption
<1>0. StateTyped
  BY DEF Typed
<1>1. CASE OneStep
  <2>1. ASSUME NEW s \in Licenses, NEW from \in SUBSET Licenses, NEW name,
               NEW status \in {"none", "legacy"}, Insert(s, status, name, from),
               from \subseteq Present, \A l \in from : renewedTo[l] = None,
               UNCHANGED lines
        PROVE  Worked'
    <3>1. PendingUnlinked'
      BY <2>1, InsertWorks
    <3>2. \A l \in Licenses : lifecycle'[l] = "pending_renewal" =>
              lifecycle[l] = "pending_renewal"
      BY <2>1, InsertWorks
    <3>3. \A l \in Licenses : renewedTo[l] # None /\ formerRef[l] = None =>
              renewedTo'[l] # None /\ formerRef'[l] = None
      BY <2>1, InsertWorks
    <3>4. \A l \in Licenses : lifecycle'[l] = "pending_renewal" => renewedTo'[l] = renewedTo[l]
      BY <3>1, <3>2 DEF PendingUnlinked, Worked
    <3>. QED
      BY <1>0, <2>1, <3>2, <3>3, <3>4, LinesStay
  <2>2. ASSUME NEW l \in Licenses, NEW status \in {"none", "legacy"},
               CreateLicense(l, status)
        PROVE  Worked'
    BY <2>1, <2>2 DEF CreateLicense
  <2>3. ASSUME NEW l \in Licenses, NEW s \in Licenses,
               NEW status \in {"none", "legacy"}, ImportSuccessor(l, s, status)
        PROVE  Worked'
    BY <2>1, <2>3 DEF ImportSuccessor
  <2>4. ASSUME NEW l \in Licenses, NEW s \in Licenses, LinkSuccessor(l, s)
        PROVE  Worked'
    <3>1. /\ UNCHANGED lines
          /\ lifecycle[l] = "none"
          /\ lifecycle' = [lifecycle EXCEPT ![l] = "renewed"]
          /\ renewedTo[l] = None
          /\ renewedTo' = [renewedTo EXCEPT ![l] = s]
          /\ formerRef' = [formerRef EXCEPT ![l] = ref[s]]
      BY <2>4 DEF LinkSuccessor
    <3>. QED
      BY <1>0, <3>1, LinesStay DEF StateTyped
  <2>5. ASSUME NEW i \in Items, NEW l \in Licenses,
               AddLine(i, l) \/ InitiateRenewal(l, i) \/ OrderLine(i)
        PROVE  Worked'
    <3>1. renews'[i] = l \/ OrderLine(i)
      BY <1>0, <2>5 DEF AddLine, InitiateRenewal, StateTyped
    <3>. QED
      BY <1>0, <2>5, <3>1, LineAdvances
  <2>6. ASSUME NEW i \in Items, OrderLine(i)
        PROVE  Worked'
    BY <1>0, <2>6, LineAdvances
  <2>7. ASSUME NEW i \in Items, NEW s \in Licenses, ConvertLine(i, s)
        PROVE  Worked'
    BY <2>7, ConvertWorks
  <2>. QED
    BY <1>1, <2>2, <2>3, <2>4, <2>5, <2>6, <2>7 DEF OneStep
<1>2. CASE UNCHANGED <<chain, flags, lines>>
  BY <1>0, <1>2, LinesStay DEF chain
<1>3. ASSUME NEW l \in Licenses, Undone(l)
      PROVE  Worked'
  <2>1. /\ UNCHANGED lines
        /\ formerRef[l] # None
        /\ lifecycle' = [lifecycle EXCEPT ![l] = "none"]
        /\ renewedTo' = [renewedTo EXCEPT ![l] = None]
        /\ formerRef' = [formerRef EXCEPT ![l] = None]
    BY <1>3 DEF Undone, Unlink, Request
  <2>. QED
    BY <1>0, <2>1, LinesStay DEF StateTyped
<1>4. ASSUME NEW l \in Licenses, Dropped(l)
      PROVE  Worked'
  <2>1. renewedTo[l] = None /\ \A x \in Licenses : renewedTo[x] # l
    BY <1>4 DEF Dropped, Removed, Linked, LinksAreMutual
  <2>2. /\ UNCHANGED lines
        /\ lifecycle' = [lifecycle EXCEPT ![l] = "absent"]
        /\ renewedTo' = renewedTo
        /\ formerRef' = [formerRef EXCEPT ![l] = None]
    BY <1>0, <1>4, <2>1 DEF Dropped, Removed, DeleteLicense, Request, StateTyped
  <2>. QED
    BY <1>0, <2>1, <2>2, LinesStay DEF StateTyped
<1>5. ASSUME NEW l \in Licenses, Cancelled(l)
      PROVE  Worked'
  BY <1>0, <1>5, CancelWorks
<1>6. ASSUME NEW r \in Requests, SetLegacy(r)
      PROVE  Worked'
  <2>1. /\ UNCHANGED <<renewedTo, formerRef, lines>>
        /\ r.license \in Licenses
        /\ \E status \in {"legacy", "none"} :
              lifecycle' = [lifecycle EXCEPT ![r.license] = status]
    BY <1>6 DEF SetLegacy, Present
  <2>. QED
    BY <1>0, <2>1, LinesStay DEF StateTyped
<1>7. ASSUME NEW l \in Licenses, Toggled(l)
      PROVE  Worked'
  <2>1. \A op \in {"mark_legacy", "unmark_legacy"} :
            Request(op, l, None, None, {}) \in Requests
    BY DEF Request, Requests, Operations, Edits
  <2>. QED
    BY <1>6, <1>7, <2>1 DEF Toggled
<1>8. ASSUME NEW r \in Requests, Sound(r),
             r.op \in overtaken' \/ r.op \notin Guarded, Perform(r)
      PROVE  Worked'
  <2>1. CASE CloseLine(r)
    BY <1>0, <1>8, <2>1, CloseWorks
  <2>2. CASE ReturnLine(r)
    BY <1>0, <1>8, <2>2, ReturnWorks
  <2>3. CASE MergeLines(r)
    BY <1>0, <1>8, <2>3, MergeWorks
  <2>4. CASE SetLegacy(r)
    BY <1>6, <1>8, <2>4
  <2>5. CASE SetRetirement(r) \/ FlipRenewable(r)
    BY <1>0, <2>5, LinesStay DEF SetRetirement, FlipRenewable, chain
  <2>6. r.op \notin {"unlink", "delete", "cancel"}
    BY <1>8 DEF NoCancelOvertaken, Guarded
  <2>. QED
    BY <1>8, <2>1, <2>2, <2>3, <2>4, <2>5, <2>6
    DEF Perform, Unlink, CancelRenewal, DeleteLicense
<1>. QED
  BY <1>1, <1>2, <1>3, <1>4, <1>5, <1>7, <1>8 DEF StepCase

-----------------------------------------------------------------------------
LEMMA LinksInit == Init => Linked /\ ChainsEnd
<1>. SUFFICES ASSUME Init PROVE Linked /\ ChainsEnd
  OBVIOUS
<1>1. Linked
  BY NoneAssumption DEF Init, Linked, LinksAreMutual, AbsentAlone, AdoptedAlone
<1>2. ChainsEnd
  BY NoneAssumption DEF Init, ChainsEnd
<1>. QED
  BY <1>1, <1>2

(* A step of the history is a step of the requests, and what was overtaken *)
(* stays so.                                                               *)
LEMMA HistorySteps ==
    [HNext]_hvars => [Next]_vars /\ overtaken \subseteq overtaken'
BY DEF HNext, hvars, Next, Remember

LEMMA NothingForgotten ==
    [HNext]_hvars => /\ NoLinkOvertaken' => NoLinkOvertaken
                     /\ NoneOvertaken' => NoneOvertaken
                     /\ NoCancelOvertaken' => NoCancelOvertaken
BY HistorySteps DEF NoLinkOvertaken, NoneOvertaken, NoCancelOvertaken

LEMMA AlwaysTyped == HSpec => []Typed
<1>1. HInit => Typed
  BY TypedInit DEF HInit
<1>2. Typed /\ [HNext]_hvars => Typed'
  BY TypedStep, HistorySteps
<1>. QED
  BY <1>1, <1>2, PTL DEF HSpec

(* Links, and the references that follow them, up to the first overtaken   *)
(* request that undoes a link or removes a license.                        *)
LinksHold == NoLinkOvertaken => Linked /\ ChainsEnd /\ Referenced

LEMMA LinksHoldAlways == HSpec => []LinksHold
<1>1. HInit => LinksHold
  <2>1. Init => Referenced
    BY DEF Init, Referenced, Bearers, Roots, Adopted, OneHeadPerReference, Present
  <2>. QED
    BY <2>1, LinksInit DEF HInit, LinksHold
<1>2. Typed /\ LinksHold /\ [HNext]_hvars => LinksHold'
  <2>. SUFFICES ASSUME Typed, LinksHold, [HNext]_hvars, NoLinkOvertaken'
                PROVE  (Linked /\ ChainsEnd /\ Referenced)'
    BY DEF LinksHold
  <2>1. Linked /\ ChainsEnd /\ Referenced
    BY NothingForgotten DEF LinksHold
  <2>2. LinkStep
    BY StepCases, StepLinks
  <2>. QED
    BY <2>1, <2>2, LinkedStep, ChainsEndStep, ReferencedStep
<1>. QED
  BY <1>1, <1>2, AlwaysTyped, PTL DEF HSpec

(* Every reachable state has the types of the model, whatever operations   *)
(* are overtaken.                                                          *)
THEOREM RenewalsTypeCorrect == Spec => []TypeOK
<1>1. Typed => TypeOK
  BY TypedImpliesTypeOK
<1>. QED
  BY <1>1, TypedInit, TypedStep, PTL DEF Spec

(* Renewal chains never fork or cycle (STATE-2) and a reference leads to   *)
(* the head of one chain (license_matcher), whatever requests overtake     *)
(* each other, up to the first overtaken unlink or deletion: both ends of  *)
(* a link agree, a link is only made to a license at the end of its chain, *)
(* a license bears its own reference until it is adopted, an adopted one   *)
(* gets its own back, and nobody bears a reference that was given up.      *)
THEOREM ChainsHold == HSpec => []LinksUnlessOvertaken
<1>1. LinksHold => LinksUnlessOvertaken
  BY DEF LinksHold, LinksUnlessOvertaken, Linked, Referenced
<1>. QED
  BY <1>1, LinksHoldAlways, PTL

(* A link stays once it is made, but for an adopted one whose successor is *)
(* not renewed (unlink_existing_successor), whatever requests overtake     *)
(* each other, up to the first overtaken unlink or deletion.               *)
THEOREM LinksAreKept == HSpec => LinksStayUnlessOvertaken
<1>1. Typed /\ LinksHold /\ [HNext]_hvars
        => [NoLinkOvertaken' => \A l \in Licenses : LinkKept(l)]_hvars
  BY NothingForgotten, StepCases, StepLinks, KeptStep DEF LinksHold
<1>2. HSpec => [][NoLinkOvertaken' => \A l \in Licenses : LinkKept(l)]_hvars
  BY <1>1, AlwaysTyped, LinksHoldAlways, PTL DEF HSpec
<1>. QED
  BY <1>2 DEF LinksStayUnlessOvertaken, LinkKept

(* A license is renewed exactly while it has a successor (STATE-6) up to   *)
(* the first overtaken request that sets or clears a status it read, and a *)
(* pending renewal has a line that can end it                              *)
(* (clear_pending_renewal_if_no_open_sourcing) up to the first overtaken   *)
(* cancellation, unlink or deletion: requests that close, return or merge  *)
(* lines settle the renewal whatever has changed since they read.          *)
THEOREM StatusesHold == HSpec => []StatusUnlessOvertaken
<1>1. HInit => /\ NoneOvertaken => RenewedHasSuccessor
               /\ NoCancelOvertaken => Worked
  BY DEF HInit, Init, RenewedHasSuccessor, Worked, LicensedIsFinal,
         PendingUnlinked, PendingHasWork
<1>2. /\ Typed /\ LinksHold
      /\ NoneOvertaken => RenewedHasSuccessor
      /\ [HNext]_hvars
      => (NoneOvertaken => RenewedHasSuccessor)'
  <2>. SUFFICES ASSUME Typed, LinksHold, NoneOvertaken => RenewedHasSuccessor,
                       [HNext]_hvars, NoneOvertaken'
                PROVE  RenewedHasSuccessor'
    OBVIOUS
  <2>1. NoneOvertaken /\ NoLinkOvertaken
    BY NothingForgotten DEF NoneOvertaken, NoLinkOvertaken
  <2>. QED
    BY <2>1, StepCases, RenewedStep DEF LinksHold
<1>3. /\ Typed /\ LinksHold
      /\ NoCancelOvertaken => Worked
      /\ [HNext]_hvars
      => (NoCancelOvertaken => Worked)'
  <2>. SUFFICES ASSUME Typed, LinksHold, NoCancelOvertaken => Worked,
                       [HNext]_hvars, NoCancelOvertaken'
                PROVE  Worked'
    OBVIOUS
  <2>1. NoCancelOvertaken /\ NoLinkOvertaken
    BY NothingForgotten DEF NoCancelOvertaken, NoLinkOvertaken
  <2>. QED
    BY <2>1, StepCases, WorkedStep DEF LinksHold
<1>4. /\ NoneOvertaken => RenewedHasSuccessor
      /\ NoCancelOvertaken => Worked
      => StatusUnlessOvertaken
  BY DEF StatusUnlessOvertaken, NoneOvertaken, NoCancelOvertaken, Worked
<1>. QED
  BY <1>1, <1>2, <1>3, <1>4, AlwaysTyped, LinksHoldAlways, PTL DEF HSpec
=============================================================================
