------------------------- MODULE PendingOrdersProofs -------------------------
(***************************************************************************)
(* What holds of pending orders for any number of orders, items and        *)
(* requests, every operation, every interleaving and every identity that   *)
(* is used again.                                                          *)
(*                                                                         *)
(* A write goes by what its request read, so no rule is inductive by       *)
(* itself.  As long as the history names no write that breaks it, an open  *)
(* order is untouched (no line of it is cancelled or has a license), and   *)
(* that is what makes every other write harmless: also a cancellation, an  *)
(* addition or a deletion of a line that comes after the order was closed. *)
(***************************************************************************)
EXTENDS OrdersHistory, TLAPS

Closed(o) == order[o] \in {"converted", "cancelled"}
Waiting == {u \in Users : req[u] # Idle}

(* A line belongs to an order that exists and is bought or cancelled; an   *)
(* item without an order made no license.                                  *)
LinesOfOrders ==
    \A i \in Items :
        /\ itemOrder[i] \in Orders =>
              /\ order[itemOrder[i]] # "absent"
              /\ itemStatus[i] \in {"converted", "cancelled"}
        /\ itemOrder[i] = NoOrder => licenses[i] = 0

(* An open order has neither a cancelled line nor a license. *)
OpenOrdersAreUntouched ==
    \A o \in Orders : Open(o) =>
        \A i \in ItemsOf(o) : itemStatus[i] = "converted" /\ licenses[i] = 0

(* A request found its order untouched: nothing of it was cancelled, and a *)
(* conversion takes all the lines it read.                                 *)
SourcingOperations == {"delete_sourcing", "cancel_sourcing"}

ReadUntouched(r) ==
    r.op \notin SourcingOperations =>
        /\ r.order \in Orders
        /\ r.cancelled = {}
        /\ r.op \in {"convert", "batch_convert"} => r.chosen = r.lines

ReadsUntouched == \A u \in Waiting : ReadUntouched(req[u])

RowsInv == LinesOfOrders /\ OpenOrdersAreUntouched /\ OneLicensePerLine

Settled == ClosedOrdersAreSettled /\ LinesHaveOrders

NothingReopened == overtaken \cap Reopening = {} /\ ~strayed

NothingMissed ==
    /\ overtaken \cap (Reopening \cup {"add_item"}) = {}
    /\ ~strayed /\ ~missed

HInv ==
    /\ TypeOK
    /\ NothingReopened => RowsInv /\ ReadsUntouched
    /\ NothingMissed => Settled

-----------------------------------------------------------------------------
(* Requests. *)

(* A write is only reached by a request that has read: an idle request     *)
(* has none of the fields a write looks at.                                *)
LEMMA WriterHasRead ==
    ASSUME TypeOK, NEW u \in Users, req[u].op \in AllOperations
    PROVE  req[u] \in Request /\ u \in Waiting
  BY DEF TypeOK, Idle, AllOperations, Request, Waiting

(* What a read keeps is a request, and it asks for something offered.      *)
LEMMA AskedIsRequest ==
    ASSUME TypeOK, NEW u \in Users, NEW op, NEW o \in Orders \cup {NoOrder},
           NEW item \in SUBSET Items, NEW chosen \in SUBSET Items,
           NEW status \in OpenStatuses, Ask(u, op, o, item, chosen, status)
    PROVE  /\ op \in Operations
           /\ req'[u] \in Request
           /\ req' = [req EXCEPT ![u] = req'[u]]
           /\ req'[u].op = op
           /\ req'[u].order = o
           /\ req'[u].item = item
           /\ req'[u].lines = ItemsOf(o)
           /\ req'[u].cancelled = {i \in ItemsOf(o) : itemStatus[i] = "cancelled"}
           /\ req'[u].chosen = chosen
           /\ UNCHANGED rows
<1> DEFINE r == [op |-> op, order |-> o, item |-> item, lines |-> ItemsOf(o),
                 cancelled |-> {i \in ItemsOf(o) : itemStatus[i] = "cancelled"},
                 chosen |-> chosen, status |-> status]
<1>1. r \in Request
  BY OperationsAssumption DEF Ask, Request, ItemsOf
<1>2. req' = [req EXCEPT ![u] = r] /\ op \in Operations /\ UNCHANGED rows
  BY DEF Ask
<1>3. req'[u] = r
  BY <1>2 DEF TypeOK
<1>4. /\ r.op = op /\ r.order = o /\ r.item = item /\ r.lines = ItemsOf(o)
      /\ r.cancelled = {i \in ItemsOf(o) : itemStatus[i] = "cancelled"}
      /\ r.chosen = chosen
  OBVIOUS
<1> HIDE DEF r
<1> QED
  BY <1>1, <1>2, <1>3, <1>4

(* A read changes no row, and keeps a request that asks for something      *)
(* offered.                                                                *)
Keeps(u) ==
    /\ UNCHANGED rows
    /\ req'[u] \in Request
    /\ req'[u].op \in Operations
    /\ req' = [req EXCEPT ![u] = req'[u]]

LEMMA AskKeepsRows ==
    ASSUME TypeOK, NEW u \in Users, NEW op, NEW o \in Orders \cup {NoOrder},
           NEW item \in SUBSET Items, NEW chosen \in SUBSET Items,
           NEW status \in OpenStatuses, Ask(u, op, o, item, chosen, status)
    PROVE  Keeps(u)
<1>1. /\ op \in Operations /\ req'[u] \in Request
      /\ req' = [req EXCEPT ![u] = req'[u]]
      /\ req'[u].op = op /\ UNCHANGED rows
  BY AskedIsRequest, Zenon
<1> QED
  BY <1>1, Zenon DEF Keeps

LEMMA ReadKeepsRows ==
    ASSUME TypeOK, NEW u \in Users, Read(u)
    PROVE  Keeps(u)
<1>1. "pending" \in OpenStatuses /\ \A o \in Orders : ItemsOf(o) \in SUBSET Items
  BY DEF OpenStatuses, ItemsOf
<1>2. ASSUME NEW o \in Orders
      PROVE  {i \in ItemsOf(o) : itemStatus[i] # "cancelled"} \ Licensed
                \in SUBSET Items
  BY DEF ItemsOf
<1> USE AskKeepsRows, <1>1, <1>2
<1>3. ASSUME NEW o \in Orders,
             \/ ReadConvert(u, o) \/ ReadBatchConvert(u, o)
             \/ ReadCancel(u, o) \/ ReadDelete(u, o)
             \/ \E i \in Items : ReadAddItem(u, o, i) \/ ReadDeleteItem(u, o, i)
             \/ \E status \in OpenStatuses : ReadSetStatus(u, o, status)
      PROVE  Keeps(u)
  <2>1. CASE ReadConvert(u, o)
    BY <2>1 DEF ReadConvert
  <2>2. CASE ReadBatchConvert(u, o)
    BY <2>2 DEF ReadBatchConvert
  <2>3. CASE ReadCancel(u, o) \/ ReadDelete(u, o)
    BY <2>3 DEF ReadCancel, ReadDelete
  <2>4. CASE \E i \in Items : ReadAddItem(u, o, i) \/ ReadDeleteItem(u, o, i)
    BY <2>4 DEF ReadAddItem, ReadDeleteItem
  <2>5. CASE \E status \in OpenStatuses : ReadSetStatus(u, o, status)
    BY <2>5 DEF ReadSetStatus
  <2> QED
    BY <1>3, <2>1, <2>2, <2>3, <2>4, <2>5
<1>4. ASSUME NEW i \in Items, NEW op \in Operations, ReadSourcing(u, op, i)
      PROVE  Keeps(u)
  BY <1>4 DEF ReadSourcing
<1> QED
  BY <1>3, <1>4 DEF Read

-----------------------------------------------------------------------------
(* Types. *)

(* A new order takes no line or one new line. *)
FirstLines == {{}} \cup {{i} : i \in Items}

LEMMA TypeStep ==
    ASSUME TypeOK, [Next]_vars
    PROVE  TypeOK'
<1> USE DEF OrderStatuses, OpenStatuses, ItemStatuses, Gone
<1>1. CASE UNCHANGED vars
  BY <1>1 DEF TypeOK, vars, rows
<1>2. ASSUME NEW u \in Users, LockFirst(u)
      PROVE  TypeOK'
  <2>1. ASSUME NEW i \in Items, CreateSourcing(i)
        PROVE  TypeOK'
    BY <2>1 DEF CreateSourcing, TypeOK
  <2>2. ASSUME NEW o \in Orders, NEW lines \in FirstLines, CreateOrder(o, lines)
        PROVE  TypeOK'
    BY <2>2 DEF CreateOrder, TypeOK
  <2>3. ASSUME NEW i \in Items, NEW o \in Orders, Attach(i, o)
        PROVE  TypeOK'
    BY <2>3 DEF Attach, TypeOK
  <2> QED
    BY <1>2, <2>1, <2>2, <2>3 DEF LockFirst, FirstLines
<1>3. ASSUME NEW u \in Users, Read(u)
      PROVE  TypeOK'
  BY <1>3, ReadKeepsRows DEF Keeps, TypeOK, rows
<1>4. ASSUME NEW u \in Users, Write(u)
      PROVE  TypeOK'
  <2>1. ASSUME Finish(u)
        PROVE  req' \in [Users -> Request \cup {Idle}]
    BY <2>1 DEF Finish, TypeOK
  <2>2. ASSUME req[u].op \in AllOperations
        PROVE  req[u] \in Request
    BY <2>2, WriterHasRead
  <2>3. CASE Convert(u)
    <3>1. /\ order' \in [Orders -> OrderStatuses]
          /\ itemStatus' \in [Items -> ItemStatuses]
          /\ itemOrder' \in [Items -> Orders \cup {NoOrder}]
          /\ req' \in [Users -> Request \cup {Idle}]
      BY <2>1, <2>3 DEF Convert, TypeOK
    <3>2. licenses' \in [Items -> 0..MaxLicenses]
      BY <2>3, BoundAssumption DEF Convert, TypeOK
    <3> QED
      BY <3>1, <3>2 DEF TypeOK
  <2>4. CASE Cancel(u)
    BY <2>1, <2>4 DEF Cancel, TypeOK
  <2>5. CASE Delete(u)
    BY <2>1, <2>5 DEF Delete, TypeOK
  <2>6. CASE AddItem(u)
    <3>1. req[u].order \in Orders \cup {NoOrder}
      BY <2>2, <2>6 DEF AddItem, AllOperations, Request
    <3> QED
      BY <2>1, <2>6, <3>1 DEF AddItem, TypeOK
  <2>7. ASSUME NEW items, Remove(items)
        PROVE  /\ itemStatus' \in [Items -> ItemStatuses]
               /\ itemOrder' \in [Items -> Orders \cup {NoOrder}]
               /\ licenses' \in [Items -> 0..MaxLicenses]
    BY <2>7, BoundAssumption DEF Remove, TypeOK
  <2>8. CASE DeleteItem(u)
    BY <2>1, <2>7, <2>8 DEF DeleteItem, TypeOK
  <2>9. CASE SetStatus(u)
    <3>1. req[u].status \in OpenStatuses
      BY <2>2, <2>9 DEF SetStatus, AllOperations, Request
    <3> QED
      BY <2>1, <2>9, <3>1 DEF SetStatus, TypeOK
  <2>10. CASE DeleteSourcing(u)
    BY <2>1, <2>7, <2>10 DEF DeleteSourcing, TypeOK
  <2>11. CASE CancelSourcing(u)
    BY <2>1, <2>11 DEF CancelSourcing, TypeOK
  <2>12. CASE Abort(u)
    BY <2>1, <2>12 DEF Abort, TypeOK, rows
  <2> QED
    BY <1>4, <2>3, <2>4, <2>5, <2>6, <2>8, <2>9, <2>10, <2>11, <2>12
       DEF Write, Commit
<1> QED
  BY <1>1, <1>2, <1>3, <1>4 DEF Next

(* Every variable keeps its type, under every interleaving of every        *)
(* operation, whatever identities are handed out again: a row only ever    *)
(* has a status the models list, and a line only the null order or one of  *)
(* the orders (models/pending_order.py, models/sourcing.py).               *)
THEOREM TypeCorrect == Spec => []TypeOK
<1>1. Init => TypeOK
  BY BoundAssumption DEF Init, TypeOK, OrderStatuses, ItemStatuses, Gone
<1>2. TypeOK /\ [Next]_vars => TypeOK'
  BY TypeStep
<1> QED
  BY <1>1, <1>2, PTL DEF Spec
-----------------------------------------------------------------------------
(* The history records and never constrains: a step with it is a step. *)
LEMMA HistoryStep ==
    ASSUME [HNext]_hvars
    PROVE  [Next]_vars
  BY DEF HNext, hvars, Next, Write

(* The history only grows: while a rule is promised now, it was before.    *)
LEMMA PromisesEnd ==
    ASSUME [HNext]_hvars
    PROVE  /\ NothingReopened' => NothingReopened
           /\ NothingMissed' => NothingMissed
           /\ NothingMissed => NothingReopened
<1>1. NothingMissed => NothingReopened
  BY DEF NothingMissed, NothingReopened
<1>2. CASE UNCHANGED history
  BY <1>1, <1>2 DEF history, NothingMissed, NothingReopened
<1>3. ASSUME NEW u \in Users, Remember(req[u])
      PROVE  /\ NothingReopened' => NothingReopened
             /\ NothingMissed' => NothingMissed
  BY <1>3 DEF Remember, NothingMissed, NothingReopened
<1> QED
  BY <1>1, <1>2, <1>3 DEF HNext, hvars

(* What a write that breaks no promise may rely on.                        *)
LEMMA WriterIsKnown ==
    ASSUME TypeOK, ReadsUntouched, NEW u \in Users, req[u].op \in AllOperations,
           Remember(req[u]), NothingReopened'
    PROVE  /\ req[u] \in Request
           /\ ReadUntouched(req[u])
           /\ req[u].op \in Reopening => StillOpen(req[u])
           /\ LinesWritten(req[u]) \subseteq ItemsOf(req[u].order)
<1>1. req[u] \in Request /\ ReadUntouched(req[u])
  BY WriterHasRead DEF ReadsUntouched
<1>2. req[u].op \in Reopening => StillOpen(req[u])
  BY DEF Remember, NothingReopened
<1>3. LinesWritten(req[u]) \subseteq ItemsOf(req[u].order)
  BY DEF Remember, NothingReopened
<1> QED
  BY <1>1, <1>2, <1>3

(* And when nothing was missed: what closes an order has read its lines.   *)
LEMMA WriterMissedNothing ==
    ASSUME NEW u \in Users, Remember(req[u]), NothingMissed'
    PROVE  /\ Closes(req[u]) => ItemsOf(req[u].order) \subseteq req[u].lines
           /\ req[u].op = "add_item" => StillOpen(req[u])
  BY DEF Remember, NothingMissed

-----------------------------------------------------------------------------
(* Reads. *)

(* A read of an open order finds it untouched.                             *)
LEMMA ReadsFindOrdersUntouched ==
    ASSUME TypeOK, OpenOrdersAreUntouched, NEW u \in Users, Read(u)
    PROVE  ReadUntouched(req'[u])
<1> USE DEF OpenStatuses
<1>1. ASSUME NEW o \in Orders
      PROVE  /\ o \in Orders \cup {NoOrder}
             /\ ItemsOf(o) \in SUBSET Items
             /\ "pending" \in OpenStatuses
             /\ Open(o) => {i \in ItemsOf(o) : itemStatus[i] = "cancelled"} = {}
             /\ Open(o) => {i \in ItemsOf(o) : itemStatus[i] # "cancelled"} \ Licensed
                             = ItemsOf(o)
             /\ order[o] = "pending" => Open(o)
  BY DEF OpenOrdersAreUntouched, ItemsOf, Licensed, Open
<1>2. ASSUME NEW o \in Orders, Open(o),
             NEW op \in {"cancel", "delete", "add_item", "delete_item",
                         "set_status", "convert", "batch_convert"},
             NEW item \in SUBSET Items, NEW chosen \in SUBSET Items,
             NEW status \in OpenStatuses, Ask(u, op, o, item, chosen, status),
             op \in {"convert", "batch_convert"} => chosen = ItemsOf(o)
      PROVE  ReadUntouched(req'[u])
  <2> DEFINE r == req'[u]
  <2>1. /\ r.op = op /\ r.order = o /\ r.lines = ItemsOf(o)
        /\ r.cancelled = {i \in ItemsOf(o) : itemStatus[i] = "cancelled"}
        /\ r.chosen = chosen
    <3>1. TypeOK /\ o \in Orders \cup {NoOrder} /\ Ask(u, op, o, item, chosen, status)
      BY <1>2
    <3> HIDE DEF OpenStatuses
    <3> QED
      BY <3>1, AskedIsRequest, Zenon
  <2> HIDE DEF r
  <2>2. r.cancelled = {}
    BY <1>1, <1>2, <2>1
  <2>3. ReadUntouched(r)
    BY <1>2, <2>1, <2>2 DEF ReadUntouched
  <2> QED
    BY <2>3 DEF r
<1>3. ASSUME NEW o \in Orders, ReadConvert(u, o) \/ ReadBatchConvert(u, o)
      PROVE  ReadUntouched(req'[u])
  <2>1. Open(o)
    BY <1>3 DEF ReadConvert, ReadBatchConvert
  <2>2. \/ Ask(u, "convert", o, {}, ItemsOf(o), "pending")
        \/ Ask(u, "batch_convert", o, {}, ItemsOf(o), "pending")
    BY <1>1, <1>3, <2>1, Zenon DEF ReadConvert, ReadBatchConvert
  <2>3. {} \in SUBSET Items
    OBVIOUS
  <2> QED
    BY <1>1, <1>2, <2>1, <2>2, <2>3
<1>4. ASSUME NEW o \in Orders,
             ReadCancel(u, o) \/ ReadDelete(u, o) \/
             \E status \in OpenStatuses : ReadSetStatus(u, o, status)
      PROVE  ReadUntouched(req'[u])
  <2>1. Open(o)
    BY <1>1, <1>4 DEF ReadCancel, ReadDelete, ReadSetStatus
  <2>2. PICK op \in {"cancel", "delete", "set_status"}, status \in OpenStatuses :
          Ask(u, op, o, {}, {}, status)
    BY <1>1, <1>4 DEF ReadCancel, ReadDelete, ReadSetStatus
  <2> QED
    BY <1>2, <2>1, <2>2
<1>5. ASSUME NEW o \in Orders, NEW i \in Items,
             ReadAddItem(u, o, i) \/ ReadDeleteItem(u, o, i)
      PROVE  ReadUntouched(req'[u])
  <2>1. Open(o)
    BY <1>5 DEF ReadAddItem, ReadDeleteItem
  <2>2. PICK op \in {"add_item", "delete_item"} : Ask(u, op, o, {i}, {}, "pending")
    BY <1>5 DEF ReadAddItem, ReadDeleteItem
  <2> QED
    BY <1>1, <1>2, <2>1, <2>2
<1>6. ASSUME NEW i \in Items, NEW op \in Operations, ReadSourcing(u, op, i)
      PROVE  ReadUntouched(req'[u])
  <2>1. Ask(u, op, NoOrder, {i}, {}, "pending") /\ op \in SourcingOperations
    BY <1>6 DEF ReadSourcing, SourcingOperations
  <2>2. req'[u].op = op
    <3>1. NoOrder \in Orders \cup {NoOrder} /\ {i} \in SUBSET Items
          /\ {} \in SUBSET Items /\ "pending" \in OpenStatuses
      OBVIOUS
    <3> QED
      BY <2>1, <3>1, AskedIsRequest, Zenon
  <2> QED
    BY <2>1, <2>2 DEF ReadUntouched
<1> QED
  BY <1>3, <1>4, <1>5, <1>6 DEF Read

-----------------------------------------------------------------------------
(* The operations that hold the write lock throughout keep the rules of    *)
(* the rows by their own guards.                                           *)
LEMMA LockFirstKeepsRows ==
    ASSUME TypeOK, RowsInv, NEW u \in Users, LockFirst(u)
    PROVE  RowsInv' /\ (Settled => Settled')
<1> USE DEF RowsInv, Settled, OpenStatuses, Open
<1>1. ASSUME NEW i \in Items, CreateSourcing(i)
      PROVE  RowsInv' /\ (Settled => Settled')
  <2>1. itemOrder[i] = NoOrder
    BY <1>1 DEF CreateSourcing, LinesOfOrders, TypeOK
  <2>2. RowsInv'
    BY <1>1 DEF CreateSourcing, TypeOK, LinesOfOrders, OpenOrdersAreUntouched,
                OneLicensePerLine, ItemsOf
  <2>3. Settled => Settled'
    BY <1>1, <2>1, NullAssumption
       DEF CreateSourcing, TypeOK, ClosedOrdersAreSettled, LinesHaveOrders, ItemsOf
  <2> QED
    BY <2>2, <2>3
<1>2. ASSUME NEW o \in Orders, NEW lines \in FirstLines, CreateOrder(o, lines)
      PROVE  RowsInv' /\ (Settled => Settled')
  <2>1. lines \subseteq Items
    BY DEF FirstLines
  <2>2. \A i \in lines : itemOrder[i] = NoOrder /\ licenses[i] = 0
    BY <1>2, <2>1 DEF CreateOrder, LinesOfOrders, TypeOK
  <2>3. \A i \in Items : itemOrder[i] # o
    BY <1>2 DEF CreateOrder, LinesOfOrders
  <2>4. LinesOfOrders'
    BY <1>2, <2>1, <2>2, NullAssumption DEF CreateOrder, LinesOfOrders, TypeOK
  <2>5. OpenOrdersAreUntouched'
    BY <1>2, <2>1, <2>2, <2>3 DEF CreateOrder, OpenOrdersAreUntouched, ItemsOf, TypeOK
  <2>6. OneLicensePerLine'
    BY <1>2 DEF CreateOrder, OneLicensePerLine
  <2>7. Settled => Settled'
    BY <1>2, <2>1, <2>2, <2>3, NullAssumption
       DEF CreateOrder, ClosedOrdersAreSettled, LinesHaveOrders, ItemsOf, TypeOK
  <2> QED
    BY <2>4, <2>5, <2>6, <2>7
<1>3. ASSUME NEW i \in Items, NEW o \in Orders, Attach(i, o)
      PROVE  RowsInv' /\ (Settled => Settled')
  <2>1. licenses[i] = 0
    BY <1>3 DEF Attach, LinesOfOrders
  <2>2. LinesOfOrders'
    BY <1>3, <2>1, NullAssumption DEF Attach, LinesOfOrders, TypeOK
  <2>3. order[o] = "absent" => \A j \in Items : itemOrder[j] # o
    BY DEF LinesOfOrders
  <2>4. OpenOrdersAreUntouched'
    BY <1>3, <2>1, <2>3 DEF Attach, OpenOrdersAreUntouched, ItemsOf, TypeOK
  <2>5. OneLicensePerLine'
    BY <1>3 DEF Attach, OneLicensePerLine
  <2>6. Settled => Settled'
    BY <1>3, <2>1, NullAssumption
       DEF Attach, ClosedOrdersAreSettled, LinesHaveOrders, ItemsOf, TypeOK
  <2> QED
    BY <2>2, <2>4, <2>5, <2>6
<1> QED
  BY <1>1, <1>2, <1>3 DEF LockFirst, FirstLines

(* A removed line takes its licenses and its place in an order with it.    *)
LEMMA RemovalKeepsRows ==
    ASSUME TypeOK, RowsInv, NEW items, Remove(items),
           \A o \in Orders : Open(o)' => Open(o),
           \A o \in Orders : order'[o] # "absent" \/ order'[o] = order[o]
    PROVE  RowsInv'
<1> USE DEF RowsInv, OpenStatuses, Open
<1>1. LinesOfOrders'
  BY NullAssumption DEF Remove, LinesOfOrders, TypeOK
<1>2. OpenOrdersAreUntouched'
  BY NullAssumption DEF Remove, OpenOrdersAreUntouched, ItemsOf, TypeOK
<1>3. OneLicensePerLine'
  BY DEF Remove, OneLicensePerLine
<1> QED
  BY <1>1, <1>2, <1>3

(* A write keeps the rules of the rows while nothing was reopened and no   *)
(* line strayed, whatever else has changed since its request read.         *)
LEMMA CommitKeepsRows ==
    ASSUME TypeOK, RowsInv, ReadsUntouched, NEW u \in Users,
           Commit(u), Remember(req[u]), NothingReopened'
    PROVE  RowsInv'
<1> USE DEF RowsInv, OpenStatuses, Open
<1> DEFINE r == req[u]
           o == req[u].order
<1>1. r.op \in AllOperations =>
        /\ r \in Request
        /\ ReadUntouched(r)
        /\ r.op \in Reopening => StillOpen(r)
        /\ LinesWritten(r) \subseteq ItemsOf(o)
  BY WriterIsKnown
<1>2. CASE Convert(u)
  <2>1. /\ o \in Orders /\ Open(o) /\ r.cancelled = {}
        /\ r.chosen \subseteq ItemsOf(o)
    BY <1>1, <1>2 DEF Convert, AllOperations, ReadUntouched, LinesWritten,
                      SourcingOperations
  <2>2. order' = [order EXCEPT ![o] = "converted"] /\ UNCHANGED itemOrder
    BY <1>2, <2>1 DEF Convert
  <2>3. itemStatus' = itemStatus
    <3>1. itemStatus' = [i \in Items |-> itemStatus[i]]
      BY <1>2, <2>1 DEF Convert
    <3> QED
      BY <3>1 DEF TypeOK
  <2>4. licenses' = [i \in Items |-> IF i \in r.chosen THEN licenses[i] + 1
                                                       ELSE licenses[i]]
    BY <1>2 DEF Convert
  <2>5. \A i \in r.chosen : i \in Items /\ itemOrder[i] = o
                            /\ licenses[i] = 0 /\ licenses'[i] = 1
    BY <2>1, <2>4 DEF OpenOrdersAreUntouched, ItemsOf
  <2>6. \A i \in Items \ r.chosen : licenses'[i] = licenses[i]
    BY <2>4
  <2> HIDE DEF o, r
  <2>7. LinesOfOrders'
    BY <2>1, <2>2, <2>3, <2>5, <2>6, NullAssumption DEF LinesOfOrders, TypeOK
  <2>8. OpenOrdersAreUntouched'
    BY <2>1, <2>2, <2>3, <2>5, <2>6 DEF OpenOrdersAreUntouched, ItemsOf, TypeOK
  <2>9. OneLicensePerLine'
    BY <2>5, <2>6 DEF OneLicensePerLine
  <2> QED
    BY <2>7, <2>8, <2>9
<1>3. CASE Cancel(u)
  <2>1. o \in Orders /\ order[o] # "absent" /\ r.lines \subseteq ItemsOf(o)
        /\ r.cancelled = {}
    BY <1>1, <1>3 DEF Cancel, AllOperations, ReadUntouched, LinesWritten,
                      SourcingOperations
  <2>2. /\ order' = [order EXCEPT ![o] = "cancelled"]
        /\ itemStatus' = [i \in Items |-> IF i \in r.lines THEN "cancelled"
                                                           ELSE itemStatus[i]]
        /\ UNCHANGED <<itemOrder, licenses>>
    BY <1>3, <2>1 DEF Cancel
  <2> HIDE DEF o, r
  <2>3. LinesOfOrders'
    BY <2>1, <2>2 DEF LinesOfOrders, ItemsOf, TypeOK
  <2>4. OpenOrdersAreUntouched'
    BY <2>1, <2>2 DEF OpenOrdersAreUntouched, ItemsOf, TypeOK
  <2>5. OneLicensePerLine'
    BY <2>2 DEF OneLicensePerLine
  <2> QED
    BY <2>3, <2>4, <2>5
<1>4. CASE Delete(u)
  <2>1. o \in Orders /\ Open(o) /\ r.lines \subseteq ItemsOf(o)
    BY <1>1, <1>4 DEF Delete, AllOperations, ReadUntouched, LinesWritten,
                      SourcingOperations, Reopening, StillOpen
  <2>2. \A i \in Items : itemOrder[i] = o => licenses[i] = 0
    BY <2>1 DEF OpenOrdersAreUntouched, ItemsOf
  <2>3. /\ order' = [order EXCEPT ![o] = "absent"]
        /\ itemStatus' = [i \in Items |-> IF i \in r.lines THEN "sourcing"
                                                           ELSE itemStatus[i]]
        /\ itemOrder' = [i \in Items |-> IF itemOrder[i] = o THEN NoOrder
                                                             ELSE itemOrder[i]]
        /\ UNCHANGED licenses
    BY <1>4 DEF Delete
  <2> HIDE DEF o, r
  <2>4. LinesOfOrders'
    BY <2>1, <2>2, <2>3, NullAssumption DEF LinesOfOrders, ItemsOf, TypeOK
  <2>5. OpenOrdersAreUntouched'
    BY <2>1, <2>3, NullAssumption DEF OpenOrdersAreUntouched, ItemsOf, TypeOK
  <2>6. OneLicensePerLine'
    BY <2>3 DEF OneLicensePerLine
  <2> QED
    BY <2>4, <2>5, <2>6
<1>5. CASE AddItem(u)
  <2>1. o \in Orders /\ order[o] # "absent" /\ r.item \subseteq Items
    BY <1>1, <1>5 DEF AddItem, AllOperations, ReadUntouched, SourcingOperations,
                      Request
  <2>2. \A i \in r.item : itemOrder[i] = NoOrder /\ licenses[i] = 0
    BY <1>5, <2>1 DEF AddItem, LinesOfOrders, TypeOK
  <2>3. /\ itemStatus' = [i \in Items |-> IF i \in r.item THEN "converted"
                                                          ELSE itemStatus[i]]
        /\ itemOrder' = [i \in Items |-> IF i \in r.item THEN o ELSE itemOrder[i]]
        /\ UNCHANGED <<order, licenses>>
    BY <1>5 DEF AddItem
  <2> HIDE DEF o, r
  <2>4. LinesOfOrders'
    BY <2>1, <2>2, <2>3, NullAssumption DEF LinesOfOrders, TypeOK
  <2>5. OpenOrdersAreUntouched'
    BY <2>1, <2>2, <2>3 DEF OpenOrdersAreUntouched, ItemsOf, TypeOK
  <2>6. OneLicensePerLine'
    BY <2>3 DEF OneLicensePerLine
  <2> QED
    BY <2>4, <2>5, <2>6
<1>6. CASE DeleteItem(u)
  <2>1. Remove(r.item)
    BY <1>6 DEF DeleteItem
  <2>2. \/ UNCHANGED order
        \/ order' = [order EXCEPT ![o] = "cancelled"]
    BY <1>6 DEF DeleteItem
  <2> HIDE DEF o, r
  <2> QED
    BY <2>1, <2>2, RemovalKeepsRows DEF TypeOK
<1>7. CASE SetStatus(u)
  <2>1. o \in Orders /\ Open(o) /\ r.status \in OpenStatuses
    BY <1>1, <1>7 DEF SetStatus, AllOperations, ReadUntouched, SourcingOperations,
                      Reopening, StillOpen, Request
  <2>2. /\ order' = [order EXCEPT ![o] = r.status]
        /\ UNCHANGED <<itemStatus, itemOrder, licenses>>
    BY <1>7 DEF SetStatus
  <2> HIDE DEF o, r
  <2>3. LinesOfOrders' /\ OpenOrdersAreUntouched' /\ OneLicensePerLine'
    BY <2>1, <2>2
       DEF LinesOfOrders, OpenOrdersAreUntouched, OneLicensePerLine, ItemsOf, TypeOK
  <2> QED
    BY <2>3
<1>8. CASE DeleteSourcing(u)
  BY <1>8, RemovalKeepsRows DEF DeleteSourcing
<1>9. CASE CancelSourcing(u)
  <2>1. \A i \in r.item : itemOrder[i] = NoOrder
    BY <1>1, <1>9 DEF CancelSourcing, AllOperations, Reopening, StillOpen
  <2>2. /\ itemStatus' = [i \in Items |-> IF i \in r.item THEN "cancelled"
                                                          ELSE itemStatus[i]]
        /\ UNCHANGED <<order, itemOrder, licenses>>
    BY <1>9 DEF CancelSourcing
  <2> HIDE DEF o, r
  <2>3. LinesOfOrders' /\ OpenOrdersAreUntouched' /\ OneLicensePerLine'
    BY <2>1, <2>2, NullAssumption
       DEF LinesOfOrders, OpenOrdersAreUntouched, OneLicensePerLine, ItemsOf, TypeOK
  <2> QED
    BY <2>3
<1> QED
  BY <1>2, <1>3, <1>4, <1>5, <1>6, <1>7, <1>8, <1>9 DEF Commit

(* And it leaves closed orders settled while nothing was missed.           *)
LEMMA CommitKeepsSettled ==
    ASSUME TypeOK, RowsInv, ReadsUntouched, Settled, NEW u \in Users,
           Commit(u), Remember(req[u]), NothingReopened', NothingMissed'
    PROVE  Settled'
<1> USE DEF Settled, OpenStatuses, Open
<1> DEFINE r == req[u]
           o == req[u].order
<1>1. r.op \in AllOperations =>
        /\ r \in Request
        /\ ReadUntouched(r)
        /\ r.op \in Reopening => StillOpen(r)
        /\ LinesWritten(r) \subseteq ItemsOf(o)
  BY WriterIsKnown
<1>2. /\ Closes(r) => ItemsOf(o) \subseteq r.lines
      /\ r.op = "add_item" => StillOpen(r)
  BY WriterMissedNothing
<1>3. CASE Convert(u)
  <2>1. o \in Orders /\ r.cancelled = {} /\ r.chosen = ItemsOf(o)
    BY <1>1, <1>2, <1>3 DEF Convert, AllOperations, ReadUntouched, LinesWritten,
                            SourcingOperations, Closes
  <2>2. order' = [order EXCEPT ![o] = "converted"] /\ UNCHANGED itemOrder
    BY <1>3, <2>1 DEF Convert
  <2>3. itemStatus' = itemStatus
    <3>1. itemStatus' = [i \in Items |-> itemStatus[i]]
      BY <1>3, <2>1 DEF Convert
    <3> QED
      BY <3>1 DEF TypeOK
  <2>4. licenses' = [i \in Items |-> IF i \in r.chosen THEN licenses[i] + 1
                                                       ELSE licenses[i]]
    BY <1>3 DEF Convert
  <2>5. \A i \in Items : itemOrder[i] = o => licenses'[i] > 0
    BY <2>1, <2>4 DEF ItemsOf, TypeOK
  <2>6. \A i \in Items : itemOrder[i] # o => licenses'[i] = licenses[i]
    BY <2>1, <2>4 DEF ItemsOf
  <2> HIDE DEF o, r
  <2> QED
    BY <2>1, <2>2, <2>3, <2>5, <2>6
       DEF ClosedOrdersAreSettled, LinesHaveOrders, ItemsOf, TypeOK
<1>4. CASE Cancel(u)
  <2>1. o \in Orders /\ r.lines = ItemsOf(o) /\ r.cancelled = {}
    BY <1>1, <1>2, <1>4 DEF Cancel, AllOperations, ReadUntouched, LinesWritten,
                            SourcingOperations, Closes
  <2>2. /\ order' = [order EXCEPT ![o] = "cancelled"]
        /\ itemStatus' = [i \in Items |-> IF i \in r.lines THEN "cancelled"
                                                           ELSE itemStatus[i]]
        /\ UNCHANGED <<itemOrder, licenses>>
    BY <1>4, <2>1 DEF Cancel
  <2> HIDE DEF o, r
  <2> QED
    BY <2>1, <2>2 DEF ClosedOrdersAreSettled, LinesHaveOrders, ItemsOf, TypeOK
<1>5. CASE Delete(u)
  <2>1. o \in Orders /\ r.lines = ItemsOf(o)
    BY <1>1, <1>2, <1>5 DEF Delete, AllOperations, ReadUntouched, LinesWritten,
                            SourcingOperations, Closes
  <2>2. /\ order' = [order EXCEPT ![o] = "absent"]
        /\ itemStatus' = [i \in Items |-> IF i \in r.lines THEN "sourcing"
                                                           ELSE itemStatus[i]]
        /\ itemOrder' = [i \in Items |-> IF itemOrder[i] = o THEN NoOrder
                                                             ELSE itemOrder[i]]
        /\ UNCHANGED licenses
    BY <1>5 DEF Delete
  <2> HIDE DEF o, r
  <2>3. ClosedOrdersAreSettled'
    BY <2>1, <2>2, NullAssumption DEF ClosedOrdersAreSettled, ItemsOf, TypeOK
  <2>4. LinesHaveOrders'
    BY <2>1, <2>2 DEF LinesHaveOrders, ItemsOf, TypeOK
  <2> QED
    BY <2>3, <2>4
<1>6. CASE AddItem(u)
  <2>1. o \in Orders /\ Open(o) /\ r.item \subseteq Items
    BY <1>1, <1>2, <1>6 DEF AddItem, AllOperations, ReadUntouched,
                            SourcingOperations, Request, StillOpen
  <2>2. /\ itemStatus' = [i \in Items |-> IF i \in r.item THEN "converted"
                                                          ELSE itemStatus[i]]
        /\ itemOrder' = [i \in Items |-> IF i \in r.item THEN o ELSE itemOrder[i]]
        /\ UNCHANGED <<order, licenses>>
    BY <1>6 DEF AddItem
  <2> HIDE DEF o, r
  <2>3. ClosedOrdersAreSettled'
    BY <2>1, <2>2 DEF ClosedOrdersAreSettled, ItemsOf, TypeOK
  <2>4. LinesHaveOrders'
    BY <2>1, <2>2, NullAssumption DEF LinesHaveOrders, TypeOK
  <2> QED
    BY <2>3, <2>4
<1>7. ASSUME NEW items, Remove(items),
             \/ UNCHANGED order
             \/ /\ order' = [order EXCEPT ![o] = "cancelled"]
                /\ ItemsOf(o) \subseteq items
      PROVE  Settled'
  <2> HIDE DEF o, r
  <2>1. ClosedOrdersAreSettled'
    BY <1>7, NullAssumption DEF Remove, ClosedOrdersAreSettled, ItemsOf, TypeOK
  <2>2. LinesHaveOrders'
    BY <1>7 DEF Remove, LinesHaveOrders, TypeOK
  <2> QED
    BY <2>1, <2>2
<1>8. CASE DeleteItem(u)
  BY <1>2, <1>7, <1>8 DEF DeleteItem, Closes
<1>9. CASE SetStatus(u)
  <2>1. r.status \in OpenStatuses
    BY <1>1, <1>9 DEF SetStatus, AllOperations, Request
  <2>2. /\ order' = [order EXCEPT ![o] = r.status]
        /\ UNCHANGED <<itemStatus, itemOrder, licenses>>
    BY <1>9 DEF SetStatus
  <2> HIDE DEF o, r
  <2> QED
    BY <2>1, <2>2 DEF ClosedOrdersAreSettled, LinesHaveOrders, ItemsOf, TypeOK
<1>10. CASE DeleteSourcing(u)
  BY <1>7, <1>10 DEF DeleteSourcing
<1>11. CASE CancelSourcing(u)
  <2>1. /\ itemStatus' = [i \in Items |-> IF i \in r.item THEN "cancelled"
                                                          ELSE itemStatus[i]]
        /\ UNCHANGED <<order, itemOrder, licenses>>
    BY <1>11 DEF CancelSourcing
  <2> HIDE DEF o, r
  <2> QED
    BY <2>1 DEF ClosedOrdersAreSettled, LinesHaveOrders, ItemsOf, TypeOK
<1> QED
  BY <1>3, <1>4, <1>5, <1>6, <1>8, <1>9, <1>10, <1>11 DEF Commit

-----------------------------------------------------------------------------
(* The invariant with the history. *)

LEMMA KeepingRows ==
    ASSUME UNCHANGED rows
    PROVE  /\ RowsInv => RowsInv'
           /\ Settled => Settled'
  BY DEF rows, RowsInv, Settled, LinesOfOrders, OpenOrdersAreUntouched, Open,
         OneLicensePerLine, ClosedOrdersAreSettled, LinesHaveOrders, ItemsOf

(* What waiting requests know of their orders does not change.             *)
LEMMA ReadsStayUntouched ==
    ASSUME TypeOK, ReadsUntouched, NEW u \in Users,
           \/ UNCHANGED req
           \/ Finish(u)
           \/ Keeps(u) /\ ReadUntouched(req'[u])
    PROVE  ReadsUntouched'
<1>1. CASE UNCHANGED req
  BY <1>1 DEF ReadsUntouched, Waiting
<1>2. CASE Finish(u)
  BY <1>2 DEF Finish, ReadsUntouched, Waiting, TypeOK
<1>3. CASE Keeps(u) /\ ReadUntouched(req'[u])
  <2>1. \A v \in Users : req'[v] = req[v] \/ (v = u /\ ReadUntouched(req'[v]))
    BY <1>3 DEF Keeps, TypeOK
  <2> QED
    BY <2>1 DEF ReadsUntouched, Waiting, ReadUntouched
<1> QED
  BY <1>1, <1>2, <1>3

LEMMA HInvStep ==
    ASSUME HInv, [HNext]_hvars
    PROVE  HInv'
<1>1. TypeOK /\ TypeOK'
  BY HistoryStep, TypeStep DEF HInv
<1>2. /\ NothingReopened' => NothingReopened
      /\ NothingMissed' => NothingMissed
      /\ NothingMissed => NothingReopened
  BY PromisesEnd
<1>3. NothingMissed' => NothingReopened'
  BY DEF NothingMissed, NothingReopened
<1> SUFFICES ASSUME NothingReopened'
             PROVE  RowsInv' /\ ReadsUntouched' /\ (NothingMissed' => Settled')
  BY <1>1, <1>3 DEF HInv
<1>4. RowsInv /\ ReadsUntouched /\ (NothingMissed' => Settled)
  BY <1>2 DEF HInv
<1>5. CASE UNCHANGED hvars
  BY <1>4, <1>5, KeepingRows DEF hvars, vars, ReadsUntouched, Waiting
<1>6. ASSUME NEW u \in Users, LockFirst(u)
      PROVE  RowsInv' /\ ReadsUntouched' /\ (NothingMissed' => Settled')
  <2>1. UNCHANGED req
    BY <1>6 DEF LockFirst, CreateSourcing, CreateOrder, Attach
  <2> QED
    BY <1>1, <1>4, <1>6, <2>1, LockFirstKeepsRows, ReadsStayUntouched
<1>7. ASSUME NEW u \in Users, Read(u)
      PROVE  RowsInv' /\ ReadsUntouched' /\ (NothingMissed' => Settled')
  <2>1. Keeps(u) /\ ReadUntouched(req'[u])
    BY <1>1, <1>4, <1>7, ReadKeepsRows, ReadsFindOrdersUntouched DEF RowsInv
  <2>2. ReadsUntouched'
    BY <1>1, <1>4, <2>1, ReadsStayUntouched
  <2> QED
    BY <1>4, <2>1, <2>2, KeepingRows DEF Keeps
<1>8. ASSUME NEW u \in Users, Commit(u), Remember(req[u])
      PROVE  RowsInv' /\ ReadsUntouched' /\ (NothingMissed' => Settled')
  <2>1. Finish(u)
    BY <1>8 DEF Commit, Convert, Cancel, Delete, AddItem, DeleteItem, SetStatus,
                DeleteSourcing, CancelSourcing
  <2>2. ReadsUntouched'
    BY <1>1, <1>4, <2>1, ReadsStayUntouched
  <2>3. RowsInv'
    BY <1>1, <1>4, <1>8, CommitKeepsRows
  <2>4. NothingMissed' => Settled'
    BY <1>1, <1>4, <1>8, CommitKeepsSettled
  <2> QED
    BY <2>2, <2>3, <2>4
<1>9. ASSUME NEW u \in Users, Abort(u)
      PROVE  RowsInv' /\ ReadsUntouched' /\ (NothingMissed' => Settled')
  BY <1>1, <1>4, <1>9, KeepingRows, ReadsStayUntouched DEF Abort
<1> QED
  BY <1>5, <1>6, <1>7, <1>8, <1>9 DEF HNext

LEMMA HInvariant == HSpec => []HInv
<1>1. HInit => HInv
  <2> SUFFICES ASSUME HInit PROVE HInv
    OBVIOUS
  <2> USE DEF HInit, Init
  <2>1. TypeOK
    BY BoundAssumption DEF TypeOK, OrderStatuses, ItemStatuses, Gone
  <2>2. RowsInv
    BY NullAssumption DEF RowsInv, LinesOfOrders, ItemsOf, Open, OpenStatuses,
       OpenOrdersAreUntouched, OneLicensePerLine
  <2>3. Settled
    BY DEF Settled, ClosedOrdersAreSettled, LinesHaveOrders
  <2>4. ReadsUntouched
    BY DEF ReadsUntouched, Waiting
  <2> QED
    BY <2>1, <2>2, <2>3, <2>4 DEF HInv
<1>2. HInv /\ [HNext]_hvars => HInv'
  BY HInvStep
<1> QED
  BY <1>1, <1>2, PTL DEF HSpec

(* However many requests overlap, whatever they do and whichever           *)
(* identities are used again, a line becomes one license                   *)
(* (lock_open_pending_order) and stays out of sourcing from then on, up to *)
(* the first overtaken edit of a status, delete or cancelled sourcing      *)
(* request: overtaken cancellations, additions and deletions of lines do   *)
(* not break it.                                                           *)
THEOREM LinesAreLicensedOnce == HSpec => []LicensedOnce
<1>1. HInv => LicensedOnce
  BY NullAssumption DEF HInv, LicensedOnce, NothingReopened, RowsInv, LinesOfOrders,
     LicensedStaysOut, TypeOK
<1> QED
  BY <1>1, HInvariant, PTL

(* However many requests overlap, a closed order keeps no line that looks  *)
(* alive and no bought line is left without an order, up to the first      *)
(* request that closes an order without having read all its lines, or      *)
(* reopens or adds to one that was closed since it read.                   *)
THEOREM ClosingSettles == HSpec => []SettledUnlessMissed
<1>1. HInv => SettledUnlessMissed
  BY DEF HInv, SettledUnlessMissed, NothingMissed, Settled
<1> QED
  BY <1>1, HInvariant, PTL

-----------------------------------------------------------------------------
(* Orders at rest. *)

(* An identity that is free belongs to no order. *)
GoneHaveNoOrder ==
    \A i \in Items : itemStatus[i] \in Gone => itemOrder[i] = NoOrder

LEMMA GoneStep ==
    ASSUME TypeOK, GoneHaveNoOrder, [Next]_vars
    PROVE  GoneHaveNoOrder'
<1> USE DEF Gone
<1>1. CASE UNCHANGED rows
  BY <1>1 DEF GoneHaveNoOrder, rows
<1>2. ASSUME NEW u \in Users, LockFirst(u)
      PROVE  GoneHaveNoOrder'
  BY <1>2 DEF LockFirst, CreateSourcing, CreateOrder, Attach, GoneHaveNoOrder, TypeOK
<1>3. ASSUME NEW u \in Users, Read(u)
      PROVE  GoneHaveNoOrder'
  BY <1>1, <1>3, ReadKeepsRows DEF Keeps
<1>4. ASSUME NEW items, Remove(items)
      PROVE  GoneHaveNoOrder'
  BY <1>4 DEF Remove, GoneHaveNoOrder, TypeOK
<1>5. ASSUME NEW u \in Users, Write(u)
      PROVE  GoneHaveNoOrder'
  <2>1. CASE Convert(u) \/ Cancel(u)
    BY <2>1 DEF Convert, Cancel, Exists, GoneHaveNoOrder, TypeOK
  <2>2. CASE Delete(u)
    BY <2>2 DEF Delete, Exists, GoneHaveNoOrder, TypeOK
  <2>3. CASE AddItem(u)
    BY <2>3 DEF AddItem, GoneHaveNoOrder, TypeOK
  <2>4. CASE DeleteItem(u) \/ DeleteSourcing(u)
    BY <1>4, <2>4 DEF DeleteItem, DeleteSourcing
  <2>5. CASE SetStatus(u) \/ CancelSourcing(u)
    BY <2>5 DEF SetStatus, CancelSourcing, Exists, GoneHaveNoOrder, TypeOK
  <2>6. CASE Abort(u)
    BY <1>1, <2>6 DEF Abort
  <2> QED
    BY <1>5, <2>1, <2>2, <2>3, <2>4, <2>5, <2>6 DEF Write, Commit
<1> QED
  BY <1>1, <1>2, <1>3, <1>5 DEF Next, vars

(* What a step leaves of an order that nobody holds. *)
Kept(o) ==
    /\ order'[o] = order[o]
    /\ ItemsOf(o)' = ItemsOf(o)
    /\ \A i \in ItemsOf(o) : itemStatus'[i] = itemStatus[i] /\ licenses'[i] = licenses[i]

LEMMA RestIsKept ==
    ASSUME TypeOK, GoneHaveNoOrder, NEW o \in Orders, AtRest(o), [Next]_vars
    PROVE  Kept(o)
<1> USE DEF OpenStatuses, Open
<1>1. Closed(o) /\ o # NoOrder
  BY NullAssumption DEF AtRest, Closed
<1>2. CASE UNCHANGED rows
  BY <1>2 DEF rows, Kept, ItemsOf
<1>3. ASSUME NEW u \in Users, LockFirst(u)
      PROVE  Kept(o)
  <2>1. ASSUME NEW i \in Items, CreateSourcing(i)
        PROVE  Kept(o)
    BY <1>1, <2>1 DEF CreateSourcing, Kept, ItemsOf, GoneHaveNoOrder, Gone, TypeOK
  <2>2. ASSUME NEW p \in Orders, NEW lines \in FirstLines, CreateOrder(p, lines)
        PROVE  Kept(o)
    <3>1. \A i \in lines : i \in Items /\ itemOrder[i] = NoOrder
      BY <2>2 DEF FirstLines, CreateOrder, GoneHaveNoOrder, Gone
    <3>2. p # o
      BY <1>1, <2>2 DEF CreateOrder, Closed
    <3> QED
      BY <1>1, <2>2, <3>1, <3>2 DEF CreateOrder, Kept, ItemsOf, TypeOK
  <2>3. ASSUME NEW i \in Items, NEW p \in Orders, Attach(i, p)
        PROVE  Kept(o)
    BY <1>1, <2>3 DEF Attach, Kept, ItemsOf, Closed, TypeOK
  <2> QED
    BY <1>3, <2>1, <2>2, <2>3 DEF LockFirst, FirstLines
<1>4. ASSUME NEW u \in Users, Read(u)
      PROVE  Kept(o)
  BY <1>2, <1>4, ReadKeepsRows DEF Keeps
<1>5. ASSUME NEW u \in Users, Write(u)
      PROVE  Kept(o)
  <2> DEFINE r == req[u]
  <2>1. r.op \in AllOperations =>
          /\ r \in Request
          /\ r.order # o
          /\ \A i \in ItemsOf(o) : i \notin r.item /\ i \notin r.lines /\ i \notin r.chosen
    BY WriterHasRead DEF AtRest, Touches, Waiting
  <2>2. ASSUME NEW items, Remove(items), items \cap ItemsOf(o) = {},
               order'[o] = order[o]
        PROVE  Kept(o)
    BY <1>1, <2>2 DEF Remove, Kept, ItemsOf, TypeOK
  <2>3. CASE Convert(u)
    <3>1. r.order # o /\ \A i \in ItemsOf(o) : i \notin r.chosen
      BY <2>1, <2>3 DEF Convert, AllOperations
    <3>2. order'[o] = order[o] /\ UNCHANGED itemOrder
      BY <2>3, <3>1 DEF Convert, TypeOK
    <3>3. \A i \in ItemsOf(o) : itemStatus'[i] = itemStatus[i] /\ licenses'[i] = licenses[i]
      BY <2>3, <3>1 DEF Convert, ItemsOf
    <3> QED
      BY <3>2, <3>3 DEF Kept, ItemsOf
  <2>4. CASE Cancel(u)
    BY <2>1, <2>4 DEF Cancel, AllOperations, Kept, ItemsOf, TypeOK
  <2>5. CASE Delete(u)
    BY <1>1, <2>1, <2>5 DEF Delete, AllOperations, Kept, ItemsOf, TypeOK
  <2>6. CASE AddItem(u)
    BY <2>1, <2>6 DEF AddItem, AllOperations, Kept, ItemsOf, TypeOK
  <2>7. CASE DeleteItem(u)
    <3>1. r.order # o /\ r.item \cap ItemsOf(o) = {}
      BY <2>1, <2>7 DEF DeleteItem, AllOperations
    <3>2. order'[o] = order[o] /\ Remove(r.item)
      BY <2>7, <3>1 DEF DeleteItem, TypeOK
    <3> QED
      BY <2>2, <3>1, <3>2
  <2>8. CASE SetStatus(u)
    BY <2>1, <2>8 DEF SetStatus, AllOperations, Kept, ItemsOf, TypeOK
  <2>9. CASE DeleteSourcing(u)
    <3>1. r.item \cap ItemsOf(o) = {} /\ Remove(r.item) /\ UNCHANGED order
      BY <2>1, <2>9 DEF DeleteSourcing, AllOperations
    <3> QED
      BY <2>2, <3>1
  <2>10. CASE CancelSourcing(u)
    BY <2>1, <2>10 DEF CancelSourcing, AllOperations, Kept, ItemsOf, TypeOK
  <2>11. CASE Abort(u)
    BY <1>2, <2>11 DEF Abort
  <2> QED
    BY <1>5, <2>3, <2>4, <2>5, <2>6, <2>7, <2>8, <2>9, <2>10, <2>11 DEF Write, Commit
<1> QED
  BY <1>2, <1>3, <1>4, <1>5 DEF Next, vars

(* What a new request may hold: an open order and its lines, an identity   *)
(* that is free, or an item in sourcing.                                   *)
LEMMA NewRequestsKeepOff ==
    ASSUME TypeOK, GoneHaveNoOrder, NEW o \in Orders, Closed(o),
           NEW u \in Users, Read(u)
    PROVE  /\ req'[u].order # o
           /\ (req'[u].item \cup req'[u].lines \cup req'[u].chosen) \cap ItemsOf(o) = {}
<1> USE DEF OpenStatuses, Open
<1> DEFINE Off == /\ req'[u].order # o
                  /\ (req'[u].item \cup req'[u].lines \cup req'[u].chosen)
                        \cap ItemsOf(o) = {}
<1>1. ASSUME NEW op, NEW p \in Orders \cup {NoOrder}, p # o,
             NEW item \in SUBSET Items, item \cap ItemsOf(o) = {},
             NEW chosen \in SUBSET Items, chosen \subseteq ItemsOf(p),
             NEW status \in OpenStatuses, Ask(u, op, p, item, chosen, status)
      PROVE  Off
  <2>1. /\ req'[u].order = p /\ req'[u].item = item /\ req'[u].lines = ItemsOf(p)
        /\ req'[u].chosen = chosen
    <3>1. TypeOK /\ Ask(u, op, p, item, chosen, status)
      BY <1>1
    <3> HIDE DEF OpenStatuses
    <3> QED
      BY <3>1, AskedIsRequest, Zenon
  <2>2. ItemsOf(p) \cap ItemsOf(o) = {}
    BY <1>1 DEF ItemsOf
  <2> QED
    BY <1>1, <2>1, <2>2
<1> HIDE DEF Off
<1>2. /\ "pending" \in OpenStatuses /\ {} \in SUBSET Items /\ {} \cap ItemsOf(o) = {}
      /\ \A p \in Orders \cup {NoOrder} : {} \subseteq ItemsOf(p) /\ ItemsOf(p) \in SUBSET Items
      /\ \A p \in Orders : p \in Orders \cup {NoOrder}
  BY DEF ItemsOf
<1>3. ASSUME NEW p \in Orders,
             \/ ReadConvert(u, p) \/ ReadBatchConvert(u, p)
             \/ ReadCancel(u, p) \/ ReadDelete(u, p)
             \/ \E i \in Items : ReadAddItem(u, p, i) \/ ReadDeleteItem(u, p, i)
             \/ \E status \in OpenStatuses : ReadSetStatus(u, p, status)
      PROVE  Off
  <2>1. p # o
    BY <1>3 DEF ReadConvert, ReadBatchConvert, ReadCancel, ReadDelete, ReadAddItem,
                ReadDeleteItem, ReadSetStatus, Closed
  <2>2. CASE ReadConvert(u, p)
    BY <1>1, <1>2, <2>1, <2>2 DEF ReadConvert
  <2>3. CASE ReadBatchConvert(u, p)
    <3> DEFINE chosen == {i \in ItemsOf(p) : itemStatus[i] # "cancelled"} \ Licensed
    <3>1. chosen \in SUBSET Items /\ chosen \subseteq ItemsOf(p)
      BY DEF ItemsOf
    <3>2. Ask(u, "batch_convert", p, {}, chosen, "pending")
      BY <2>3 DEF ReadBatchConvert
    <3> HIDE DEF chosen
    <3> QED
      BY <1>1, <1>2, <2>1, <3>1, <3>2
  <2>4. CASE ReadCancel(u, p) \/ ReadDelete(u, p)
    BY <1>1, <1>2, <2>1, <2>4 DEF ReadCancel, ReadDelete
  <2>5. CASE \E i \in Items : ReadAddItem(u, p, i) \/ ReadDeleteItem(u, p, i)
    <3>1. PICK i \in Items : ReadAddItem(u, p, i) \/ ReadDeleteItem(u, p, i)
      BY <2>5
    <3>2. {i} \in SUBSET Items /\ {i} \cap ItemsOf(o) = {}
      BY <2>1, <3>1, NullAssumption
         DEF ReadAddItem, ReadDeleteItem, ItemsOf, GoneHaveNoOrder, Gone
    <3>3. \E op \in {"add_item", "delete_item"} : Ask(u, op, p, {i}, {}, "pending")
      BY <3>1 DEF ReadAddItem, ReadDeleteItem
    <3> QED
      BY <1>1, <1>2, <2>1, <3>2, <3>3
  <2>6. CASE \E status \in OpenStatuses : ReadSetStatus(u, p, status)
    BY <1>1, <1>2, <2>1, <2>6 DEF ReadSetStatus
  <2> QED
    BY <1>3, <2>2, <2>3, <2>4, <2>5, <2>6
<1>4. ASSUME NEW i \in Items, NEW op \in Operations, ReadSourcing(u, op, i)
      PROVE  Off
  <2>1. {i} \in SUBSET Items /\ {i} \cap ItemsOf(o) = {} /\ NoOrder # o
        /\ NoOrder \in Orders \cup {NoOrder}
    BY <1>4, NullAssumption DEF ReadSourcing, ItemsOf
  <2>2. Ask(u, op, NoOrder, {i}, {}, "pending")
    BY <1>4 DEF ReadSourcing
  <2> QED
    BY <1>1, <1>2, <2>1, <2>2
<1> QED
  BY <1>3, <1>4 DEF Read, Off

LEMMA RestStays ==
    ASSUME TypeOK, GoneHaveNoOrder, NEW o \in Orders, AtRest(o), [Next]_vars
    PROVE  AtRest(o)'
<1>1. Kept(o)
  BY RestIsKept
<1> SUFFICES ASSUME NEW v \in Users, Touches(v, o)'
             PROVE  FALSE
  BY <1>1 DEF AtRest, Kept
<1>2. ItemsOf(o)' = ItemsOf(o)
  BY <1>1 DEF Kept
<1>3. req'[v] # req[v]
  BY <1>2 DEF AtRest, Touches
<1>4. ASSUME NEW u \in Users, LockFirst(u)
      PROVE  FALSE
  BY <1>3, <1>4 DEF LockFirst, CreateSourcing, CreateOrder, Attach
<1>5. ASSUME NEW u \in Users, Read(u)
      PROVE  FALSE
  <2>1. v = u
    BY <1>3, <1>5, ReadKeepsRows DEF Keeps, TypeOK
  <2>2. Closed(o)
    BY DEF AtRest, Closed
  <2> QED
    BY <1>2, <1>5, <2>1, <2>2, NewRequestsKeepOff DEF Touches
<1>6. ASSUME NEW u \in Users, Write(u)
      PROVE  FALSE
  <2>1. Finish(u)
    BY <1>6 DEF Write, Commit, Convert, Cancel, Delete, AddItem, DeleteItem, SetStatus,
                DeleteSourcing, CancelSourcing, Abort
  <2> QED
    BY <1>3, <2>1 DEF Finish, Touches, TypeOK
<1> QED
  BY <1>3, <1>4, <1>5, <1>6 DEF Next, vars

(* Once no request is left that read a closed order before it was closed,  *)
(* the order, its lines, their status and their licenses are final, for    *)
(* any number of requests, every operation and every identity used again.  *)
THEOREM ClosedOrdersStayClosed == HSpec => ClosedOrdersAreFrozen
<1> DEFINE Frozen ==
      \A o \in Orders : AtRest(o) =>
          /\ AtRest(o)'
          /\ order'[o] = order[o]
          /\ ItemsOf(o)' = ItemsOf(o)
          /\ \A i \in ItemsOf(o) : /\ itemStatus'[i] = itemStatus[i]
                                   /\ licenses'[i] = licenses[i]
<1>1. HInit => TypeOK /\ GoneHaveNoOrder
  BY BoundAssumption
     DEF HInit, Init, TypeOK, OrderStatuses, ItemStatuses, Gone, GoneHaveNoOrder
<1>2. TypeOK /\ GoneHaveNoOrder /\ [HNext]_hvars => (TypeOK /\ GoneHaveNoOrder)'
  BY HistoryStep, TypeStep, GoneStep
<1>3. TypeOK /\ GoneHaveNoOrder /\ [HNext]_hvars => [Frozen]_hvars
  <2> SUFFICES ASSUME TypeOK, GoneHaveNoOrder, [HNext]_hvars
               PROVE  Frozen
    OBVIOUS
  <2>1. [Next]_vars
    BY HistoryStep
  <2> QED
    BY <2>1, RestIsKept, RestStays DEF Kept
<1> QED
  BY <1>1, <1>2, <1>3, PTL DEF HSpec, ClosedOrdersAreFrozen

=============================================================================
