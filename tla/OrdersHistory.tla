---------------------------- MODULE OrdersHistory -----------------------------
(***************************************************************************)
(* Which rules of pending orders survive overlapping requests, and which   *)
(* overlap breaks the others.                                              *)
(*                                                                         *)
(* The history variables only record what PendingOrders does: they         *)
(* constrain no step.  At each write they note what had changed since its  *)
(* request read, so that a rule can be stated for every interleaving and   *)
(* still name the one kind of overtaken write that the code lets break it. *)
(***************************************************************************)
EXTENDS PendingOrders

VARIABLES
    overtaken, \* operations that wrote although their order had been closed,
               \* or their sourcing line taken, since they read it
    strayed,   \* a write gave a status or a license to a line that was no
               \* longer one of its order
    missed     \* an order was closed or deleted by a request that had not
               \* read all of its lines

history == <<overtaken, strayed, missed>>
hvars == <<vars, history>>

StillOpen(r) ==
    IF r.op \in {"delete_sourcing", "cancel_sourcing"}
    THEN \A i \in r.item : itemStatus[i] = "sourcing" /\ itemOrder[i] = NoOrder
    ELSE Open(r.order)

LinesWritten(r) ==
    CASE r.op \in {"convert", "batch_convert"} -> r.chosen
      [] r.op \in {"cancel", "delete"} -> r.lines
      [] OTHER -> {}

Closes(r) ==
    \/ r.op \in {"convert", "batch_convert", "cancel", "delete"}
    \/ r.op = "delete_item" /\ r.lines \subseteq r.item

Remember(r) ==
    /\ overtaken' = IF StillOpen(r) THEN overtaken ELSE overtaken \cup {r.op}
    /\ strayed' = (strayed \/ ~(LinesWritten(r) \subseteq ItemsOf(r.order)))
    /\ missed' = (missed \/ (Closes(r) /\ ~(ItemsOf(r.order) \subseteq r.lines)))

HInit ==
    /\ Init
    /\ overtaken = {}
    /\ strayed = FALSE
    /\ missed = FALSE

HNext ==
    \E u \in Users :
        \/ LockFirst(u) /\ UNCHANGED history
        \/ Read(u) /\ UNCHANGED history
        \/ Commit(u) /\ Remember(req[u])
        \/ Abort(u) /\ UNCHANGED history

HSpec == HInit /\ [][HNext]_hvars

-----------------------------------------------------------------------------
(* The operations that reopen an order, return its lines or cancel one of  *)
(* them by what they read before the order was closed or the line taken.   *)
Reopening == {"set_status", "delete", "cancel_sourcing"}

(* However requests overlap, a line becomes at most one license            *)
(* (lock_open_pending_order), and a line with a license is not in sourcing *)
(* again, where it would be bought a second time, unless an edit of the    *)
(* status or a delete wrote an order that had been closed since it read,   *)
(* the cancellation of a sourcing request a line that had been taken, or   *)
(* a write met a line that had left its order.  Cancellations, additions   *)
(* and deletions of lines that are overtaken do no harm to it.             *)
LicensedOnce ==
    overtaken \cap Reopening = {} /\ ~strayed => OneLicensePerLine /\ LicensedStaysOut

(* A line that was bought is in an order.                                  *)
LinesHaveOrders ==
    \A i \in Items : itemStatus[i] = "converted" => itemOrder[i] # NoOrder

(* However requests overlap, a converted order keeps no line without a     *)
(* license, a cancelled one none that looks alive, and no line is left     *)
(* without an order (_validate_batch_coverage, cancel_pending_order_record *)
(* and delete_pending_order_record go by the lines they read), unless the  *)
(* request that closed the order missed a line that came since its read,   *)
(* or a line was added to the order, or the order reopened, by a request   *)
(* that read it before it was closed.                                      *)
SettledUnlessMissed ==
    /\ overtaken \cap (Reopening \cup {"add_item"}) = {}
    /\ ~strayed /\ ~missed
    => ClosedOrdersAreSettled /\ LinesHaveOrders

(* A request that may still write to the order or to a line of it.         *)
Touches(u, o) ==
    /\ req[u] # Idle
    /\ \/ req[u].order = o
       \/ (req[u].item \cup req[u].lines \cup req[u].chosen) \cap ItemsOf(o) # {}

AtRest(o) ==
    /\ order[o] \in {"converted", "cancelled"}
    /\ \A u \in Users : ~Touches(u, o)

(* invariants.md PROC-1: "Only open pending orders (pending, invoice       *)
(* received) can gain lines, be edited, cancelled or converted".  Once the *)
(* last request that read a closed order before it was closed is over, the *)
(* order is final, whatever happens to other orders: its status, its       *)
(* lines, their status and their licenses stay, and nobody gets hold of    *)
(* it again.                                                               *)
ClosedOrdersAreFrozen ==
    [][\A o \in Orders : AtRest(o) =>
          /\ AtRest(o)'
          /\ order'[o] = order[o]
          /\ ItemsOf(o)' = ItemsOf(o)
          /\ \A i \in ItemsOf(o) : /\ itemStatus'[i] = itemStatus[i]
                                   /\ licenses'[i] = licenses[i]]_hvars
=============================================================================
