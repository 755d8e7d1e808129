---------------------------- MODULE PendingOrders ----------------------------
(***************************************************************************)
(* Pending orders and their lines under concurrent requests.               *)
(*                                                                         *)
(* A request first loads the order and its lines and checks them, and      *)
(* later writes in one SQLite transaction.  SQLite lets other requests     *)
(* commit between the two, and an UPDATE built by the ORM names the row    *)
(* only, not the status that was checked.  Attaching a sourcing line takes *)
(* the write lock first, so it is one step; converting an order locks it   *)
(* with an UPDATE that tests the status again (lock_open_pending_order);   *)
(* the other operations write what they decided when they read.            *)
(***************************************************************************)
EXTENDS Naturals, FiniteSets

CONSTANTS
    Orders,      \* identities of pending orders
    Items,       \* identities of sourcing items
    Users,       \* concurrent requests
    NoOrder,     \* the null pending_order_id
    Operations,  \* the operations requests may ask for
    Reused,      \* items whose identity a new item gets after a removal:
                 \* SQLite hands out the highest rowid again once it is free
    MaxLicenses  \* bound: licenses made from one item

AllOperations == {"convert", "batch_convert", "cancel", "delete", "add_item",
                  "delete_item", "set_status", "delete_sourcing",
                  "cancel_sourcing"}

ASSUME OperationsAssumption == Operations \subseteq AllOperations
ASSUME BoundAssumption == MaxLicenses \in Nat \ {0}
ASSUME NullAssumption == NoOrder \notin Orders
ASSUME ReusedAssumption == Reused \subseteq Items

OpenStatuses == {"pending", "invoice_received"}
OrderStatuses == OpenStatuses \cup {"absent", "converted", "cancelled"}
Gone == {"absent", "deleted"}
ItemStatuses == Gone \cup {"sourcing", "converted", "cancelled"}

VARIABLES
    order,      \* [Orders -> OrderStatuses], the row's status
    itemStatus, \* [Items -> ItemStatuses]
    itemOrder,  \* [Items -> Orders \cup {NoOrder}], pending_order_id
    licenses,   \* [Items -> 0..MaxLicenses], licenses made from the item
    req         \* [Users -> requests], what a request read before it writes

rows == <<order, itemStatus, itemOrder, licenses>>
vars == <<rows, req>>

ItemsOf(o) == {i \in Items : itemOrder[i] = o}
Licensed == {i \in Items : licenses[i] > 0}

Idle == [op |-> "idle"]

(* What a request keeps between its read and its write: the order, a line, *)
(* the order's lines, those of them it will convert, the status to set.    *)
Request ==
    [op : AllOperations, order : Orders \cup {NoOrder}, item : SUBSET Items,
     lines : SUBSET Items, cancelled : SUBSET Items, chosen : SUBSET Items,
     status : OpenStatuses]

TypeOK ==
    /\ order \in [Orders -> OrderStatuses]
    /\ itemStatus \in [Items -> ItemStatuses]
    /\ itemOrder \in [Items -> Orders \cup {NoOrder}]
    /\ licenses \in [Items -> 0..MaxLicenses]
    /\ req \in [Users -> Request \cup {Idle}]

Init ==
    /\ order = [o \in Orders |-> "absent"]
    /\ itemStatus = [i \in Items |-> "absent"]
    /\ itemOrder = [i \in Items |-> NoOrder]
    /\ licenses = [i \in Items |-> 0]
    /\ req = [u \in Users |-> Idle]

-----------------------------------------------------------------------------
(* Operations that hold the write lock from their first statement on. *)

(* A sourcing line is created. *)
CreateSourcing(i) ==
    /\ itemStatus[i] = "absent"
    /\ itemStatus' = [itemStatus EXCEPT ![i] = "sourcing"]
    /\ UNCHANGED <<order, itemOrder, licenses, req>>

(* An order is created, with or without a first line. *)
CreateOrder(o, lines) ==
    /\ order[o] = "absent"
    /\ \A i \in lines : itemStatus[i] = "absent"
    /\ order' = [order EXCEPT ![o] = "pending"]
    /\ itemStatus' = [i \in Items |-> IF i \in lines THEN "converted"
                                                     ELSE itemStatus[i]]
    /\ itemOrder' = [i \in Items |-> IF i \in lines THEN o ELSE itemOrder[i]]
    /\ UNCHANGED <<licenses, req>>

(* An attach that does not test the order's status. *)
BadAttach(i, o) ==
    /\ itemStatus[i] = "sourcing"
    /\ itemOrder[i] = NoOrder
    /\ order' = IF order[o] = "absent" THEN [order EXCEPT ![o] = "pending"]
                                       ELSE order
    /\ itemStatus' = [itemStatus EXCEPT ![i] = "converted"]
    /\ itemOrder' = [itemOrder EXCEPT ![i] = o]
    /\ UNCHANGED <<licenses, req>>

(* A sourcing line becomes a line of an open order, or of a new one.  The  *)
(* item's row is reserved and the order's row locked by updates that test  *)
(* both again, the first of which takes the write lock: one step.          *)
Attach(i, o) ==
    /\ itemStatus[i] = "sourcing"
    /\ itemOrder[i] = NoOrder
    /\ order[o] \in OpenStatuses \cup {"absent"}
    /\ order' = IF order[o] = "absent" THEN [order EXCEPT ![o] = "pending"]
                                       ELSE order
    /\ itemStatus' = [itemStatus EXCEPT ![i] = "converted"]
    /\ itemOrder' = [itemOrder EXCEPT ![i] = o]
    /\ UNCHANGED <<licenses, req>>

-----------------------------------------------------------------------------
(* The read of every other operation. *)

Ask(u, op, o, item, chosen, status) ==
    /\ op \in Operations
    /\ req[u] = Idle
    /\ req' = [req EXCEPT ![u] =
          [op |-> op, order |-> o, item |-> item, lines |-> ItemsOf(o),
           cancelled |-> {i \in ItemsOf(o) : itemStatus[i] = "cancelled"},
           chosen |-> chosen, status |-> status]]
    /\ UNCHANGED rows

Open(o) == order[o] \in OpenStatuses

(* One shared form for all lines, whatever their status and history. *)
ReadConvert(u, o) ==
    /\ Open(o)
    /\ Ask(u, "convert", o, {}, ItemsOf(o), "pending")

(* A coverage check that a set of one line passes. *)
BadReadBatchConvert(u, o) ==
    /\ Open(o)
    /\ \E i \in ItemsOf(o) : Ask(u, "batch_convert", o, {}, {i}, "pending")

(* Every line that is not cancelled and has no license yet must be in. *)
ReadBatchConvert(u, o) ==
    /\ Open(o)
    /\ Ask(u, "batch_convert", o, {},
           {i \in ItemsOf(o) : itemStatus[i] # "cancelled"} \ Licensed,
           "pending")

ReadCancel(u, o) ==
    /\ Open(o)
    /\ Ask(u, "cancel", o, {}, {}, "pending")

ReadDelete(u, o) ==
    /\ order[o] = "pending"
    /\ Ask(u, "delete", o, {}, {}, "pending")

ReadAddItem(u, o, i) ==
    /\ Open(o)
    /\ itemStatus[i] = "absent"
    /\ Ask(u, "add_item", o, {i}, {}, "pending")

ReadDeleteItem(u, o, i) ==
    /\ Open(o)
    /\ itemOrder[i] = o
    /\ Ask(u, "delete_item", o, {i}, {}, "pending")

(* An edit that is not refused for a closed order. *)
BadReadSetStatus(u, o, status) ==
    /\ order[o] \notin {"absent", status}
    /\ Ask(u, "set_status", o, {}, {}, status)

(* The edit path only offers the open statuses. *)
ReadSetStatus(u, o, status) ==
    /\ Open(o)
    /\ order[o] # status
    /\ Ask(u, "set_status", o, {}, {}, status)

(* An open sourcing line is deleted, or cancelled with its request. *)
ReadSourcing(u, op, i) ==
    /\ op \in {"delete_sourcing", "cancel_sourcing"}
    /\ itemStatus[i] = "sourcing"
    /\ itemOrder[i] = NoOrder
    /\ Ask(u, op, NoOrder, {i}, {}, "pending")

-----------------------------------------------------------------------------
(* The writes.  A write that meets a missing row is rolled back. *)

Finish(u) == req' = [req EXCEPT ![u] = Idle]
Exists(items) == \A i \in items : itemStatus[i] \notin Gone

(* A conversion that does not test the status again. *)
BadConvert(u) ==
    LET r == req[u] IN
    /\ r.op \in {"convert", "batch_convert"}
    /\ order[r.order] # "absent"
    /\ Exists(r.chosen)
    /\ \A i \in r.chosen : licenses[i] < MaxLicenses
    /\ licenses' = [i \in Items |-> IF i \in r.chosen THEN licenses[i] + 1
                                                      ELSE licenses[i]]
    /\ itemStatus' = [i \in Items |-> IF i \in r.chosen \cap r.cancelled
                                      THEN "converted" ELSE itemStatus[i]]
    /\ order' = [order EXCEPT ![r.order] =
                    IF r.cancelled \subseteq r.chosen THEN "converted"
                                                      ELSE "invoice_received"]
    /\ Finish(u)
    /\ UNCHANGED itemOrder

(* The locking UPDATE tests the status again; the lines are those that     *)
(* were read before it, and only a status that changes is written.  The    *)
(* foreign key of a license refuses a line that is gone.  The order is     *)
(* converted when all lines that were read are.                            *)
Convert(u) ==
    LET r == req[u] IN
    /\ r.op \in {"convert", "batch_convert"}
    /\ Open(r.order)
    /\ Exists(r.chosen)
    /\ \A i \in r.chosen : licenses[i] < MaxLicenses
    /\ licenses' = [i \in Items |-> IF i \in r.chosen THEN licenses[i] + 1
                                                      ELSE licenses[i]]
    /\ itemStatus' = [i \in Items |-> IF i \in r.chosen \cap r.cancelled
                                      THEN "converted" ELSE itemStatus[i]]
    /\ order' = [order EXCEPT ![r.order] =
                    IF r.cancelled \subseteq r.chosen THEN "converted"
                                                      ELSE "invoice_received"]
    /\ Finish(u)
    /\ UNCHANGED itemOrder

Cancel(u) ==
    LET r == req[u] IN
    /\ r.op = "cancel"
    /\ order[r.order] # "absent"
    /\ Exists(r.lines \ r.cancelled)
    /\ order' = [order EXCEPT ![r.order] = "cancelled"]
    /\ itemStatus' = [i \in Items |-> IF i \in r.lines \ r.cancelled
                                      THEN "cancelled" ELSE itemStatus[i]]
    /\ Finish(u)
    /\ UNCHANGED <<itemOrder, licenses>>

(* A delete that leaves the lines' status to nobody. *)
BadDelete(u) ==
    LET r == req[u] IN
    /\ r.op = "delete"
    /\ order' = [order EXCEPT ![r.order] = "absent"]
    /\ itemStatus' = [i \in Items |-> IF itemOrder[i] = r.order
                                      THEN "pending" ELSE itemStatus[i]]
    /\ itemOrder' = [i \in Items |-> IF itemOrder[i] = r.order THEN NoOrder
                                                          ELSE itemOrder[i]]
    /\ Finish(u)
    /\ UNCHANGED licenses

(* The lines that were read return to sourcing.  Every line that the order *)
(* has when its row goes loses it (the ORM loads them again in the flush), *)
(* also one that came since and keeps the status it was bought with.       *)
Delete(u) ==
    LET r == req[u] IN
    /\ r.op = "delete"
    /\ Exists(r.lines)
    /\ order' = [order EXCEPT ![r.order] = "absent"]
    /\ itemStatus' = [i \in Items |-> IF i \in r.lines
                                      THEN "sourcing" ELSE itemStatus[i]]
    /\ itemOrder' = [i \in Items |-> IF itemOrder[i] = r.order THEN NoOrder
                                                          ELSE itemOrder[i]]
    /\ Finish(u)
    /\ UNCHANGED licenses

(* The new line's foreign key needs the order's row, whatever its status. *)
AddItem(u) ==
    LET r == req[u] IN
    /\ r.op = "add_item"
    /\ order[r.order] # "absent"
    /\ \A i \in r.item : itemStatus[i] = "absent"
    /\ itemStatus' = [i \in Items |-> IF i \in r.item THEN "converted"
                                                      ELSE itemStatus[i]]
    /\ itemOrder' = [i \in Items |-> IF i \in r.item THEN r.order
                                                     ELSE itemOrder[i]]
    /\ Finish(u)
    /\ UNCHANGED <<order, licenses>>

Remove(items) ==
    /\ itemStatus' = [i \in Items |->
                        IF i \notin items THEN itemStatus[i]
                        ELSE IF i \in Reused THEN "absent" ELSE "deleted"]
    /\ itemOrder' = [i \in Items |-> IF i \in items THEN NoOrder
                                                    ELSE itemOrder[i]]
    /\ licenses' = [i \in Items |-> IF i \in items THEN 0 ELSE licenses[i]]

(* The last of the lines that were read takes the order with it. *)
DeleteItem(u) ==
    LET r == req[u]
        last == r.lines \subseteq r.item
    IN /\ r.op = "delete_item"
       /\ last => order[r.order] # "absent"
       /\ order' = IF last THEN [order EXCEPT ![r.order] = "cancelled"]
                           ELSE order
       /\ Remove(r.item)
       /\ Finish(u)

SetStatus(u) ==
    LET r == req[u] IN
    /\ r.op = "set_status"
    /\ order[r.order] # "absent"
    /\ order' = [order EXCEPT ![r.order] = r.status]
    /\ Finish(u)
    /\ UNCHANGED <<itemStatus, itemOrder, licenses>>

DeleteSourcing(u) ==
    LET r == req[u] IN
    /\ r.op = "delete_sourcing"
    /\ Remove(r.item)
    /\ Finish(u)
    /\ UNCHANGED order

CancelSourcing(u) ==
    LET r == req[u] IN
    /\ r.op = "cancel_sourcing"
    /\ Exists(r.item)
    /\ itemStatus' = [i \in Items |-> IF i \in r.item THEN "cancelled"
                                                      ELSE itemStatus[i]]
    /\ Finish(u)
    /\ UNCHANGED <<order, itemOrder, licenses>>

(* A refused lock, a broken foreign key, a row that is gone, a lost        *)
(* connection: the transaction is rolled back and the request is over.     *)
Abort(u) ==
    /\ req[u] # Idle
    /\ Finish(u)
    /\ UNCHANGED rows

-----------------------------------------------------------------------------
Read(u) ==
    \/ \E o \in Orders :
        \/ ReadConvert(u, o) \/ ReadBatchConvert(u, o)
        \/ ReadCancel(u, o) \/ ReadDelete(u, o)
        \/ \E i \in Items : ReadAddItem(u, o, i) \/ ReadDeleteItem(u, o, i)
        \/ \E status \in OpenStatuses : ReadSetStatus(u, o, status)
    \/ \E i \in Items, op \in Operations : ReadSourcing(u, op, i)

Commit(u) ==
    \/ Convert(u) \/ Cancel(u) \/ Delete(u)
    \/ AddItem(u) \/ DeleteItem(u) \/ SetStatus(u)
    \/ DeleteSourcing(u) \/ CancelSourcing(u)

Write(u) == Commit(u) \/ Abort(u)

LockFirst(u) ==
    /\ req[u] = Idle
    /\ \/ \E i \in Items : CreateSourcing(i)
       \/ \E o \in Orders, lines \in {{}} \cup {{i} : i \in Items} :
               CreateOrder(o, lines)
       \/ \E i \in Items, o \in Orders : Attach(i, o)

Next == \E u \in Users : LockFirst(u) \/ Read(u) \/ Write(u)

Spec == Init /\ [][Next]_vars

-----------------------------------------------------------------------------
(* A line becomes at most one license, however many requests convert its   *)
(* order (lock_open_pending_order).                                        *)
OneLicensePerLine == \A i \in Items : licenses[i] <= 1

(* A converted order has no line without a license: the batch conversion   *)
(* refuses a set that misses one (_validate_batch_coverage: "Every         *)
(* convertible pending-order item must be included").  A cancelled order   *)
(* leaves no line behind that still looks alive                            *)
(* (cancel_pending_order_record cancels every line).                       *)
ClosedOrdersAreSettled ==
    \A o \in Orders : \A i \in ItemsOf(o) :
        /\ order[o] = "converted" => itemStatus[i] = "cancelled" \/ licenses[i] > 0
        /\ order[o] = "cancelled" => itemStatus[i] = "cancelled"

(* invariants.md PROC-1: "Only open pending orders (pending, invoice       *)
(* received) can gain lines, be edited, cancelled or converted; closing    *)
(* wins any race."  A closed order keeps the status it was closed with.    *)
ClosingIsFinal ==
    [][\A o \in Orders :
          order[o] \in {"converted", "cancelled"} => order'[o] = order[o]]_vars

(* A line with a license never goes back to sourcing, where it would be    *)
(* bought again (delete_pending_order_record only takes pending orders).   *)
LicensedStaysOut ==
    \A i \in Items : itemStatus[i] = "sourcing" => licenses[i] = 0
=============================================================================
