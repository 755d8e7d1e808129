---------------------------- MODULE RenewalsHistory ---------------------------
(***************************************************************************)
(* Which rules of renewals survive requests that are overtaken, and which  *)
(* overtaken request breaks the others.                                    *)
(*                                                                         *)
(* The history variable only records what RenewalLifecycle does: at each   *)
(* write it notes whether what the request checked when it read still      *)
(* held, so that a rule can be stated for every interleaving and still     *)
(* name the overtaken requests that the code lets break it.                *)
(***************************************************************************)
EXTENDS RenewalLifecycle

VARIABLE
    overtaken  \* operations that wrote after what they had checked changed

hvars == <<vars, overtaken>>

(* What the operations that undo a link, remove a license or set a status  *)
(* checked is still so.                                                    *)
StillHolds(r) ==
    /\ r.op = "unlink" =>
          /\ formerRef[r.license] = r.ref
          /\ renewedTo[r.license] = r.other
          /\ renewedTo[r.other] = None
    /\ r.op = "delete" =>
          /\ lifecycle[r.license] \in {"none", "legacy"}
          /\ predecessors[r.license] = {} /\ renewedTo[r.license] = None
          /\ \A i \in Items : r.license \notin Covers(i)
    /\ r.op = "cancel" =>
          /\ lifecycle[r.license] = "pending_renewal"
          /\ r.items = {i \in Items : itemStatus[i] = "sourcing"
                                      /\ r.license \in Covers(i)}
          /\ \A i \in r.items : Covers(i) = {r.license}
    /\ r.op = "mark_legacy" => lifecycle[r.license] = "none"
    /\ r.op = "unmark_legacy" => lifecycle[r.license] = "legacy"

Remember(r) ==
    overtaken' = IF StillHolds(r) THEN overtaken ELSE overtaken \cup {r.op}

HInit == Init /\ overtaken = {}

HNext ==
    \/ (OneStep \/ Read) /\ UNCHANGED overtaken
    \/ \E u \in Users :
          \/ Write(u) /\ Remember(req[u])
          \/ Abort(u) /\ UNCHANGED overtaken

HSpec == HInit /\ [][HNext]_hvars

-----------------------------------------------------------------------------
NoLinkOvertaken == overtaken \cap {"unlink", "delete"} = {}

(* STATE-2, "Renewal chains never fork or cycle", and a reference leads to *)
(* one head (license_matcher), whichever requests overtake each other, up  *)
(* to the first unlink (unlink_existing_successor) or deletion of a        *)
(* license whose links changed between its check and its write.  Overtaken *)
(* cancellations, closed, returned and merged lines, retirements and       *)
(* legacy flags leave every link as it is.                                 *)
LinksUnlessOvertaken ==
    NoLinkOvertaken => LinksAreMutual /\ ChainsEnd /\ OneHeadPerReference

(* A link once made stays, except that an adopted one may be undone before *)
(* its successor is renewed (unlink_existing_successor), whichever         *)
(* requests overtake each other, up to the first overtaken unlink or       *)
(* deletion of a license.                                                  *)
LinksStayUnlessOvertaken ==
    [][NoLinkOvertaken' =>
          \A l \in Licenses :
              renewedTo[l] \notin {None, renewedTo'[l]} =>
                  /\ renewedTo'[l] = None
                  /\ formerRef[l] # None
                  /\ renewedTo[renewedTo[l]] = None]_hvars

(* STATE-6, a license is renewed exactly while it has a successor, up to   *)
(* the first overtaken request that sets or clears a status it read; and a *)
(* pending renewal has a line that can end it                              *)
(* (clear_pending_renewal_if_no_open_sourcing), up to the first overtaken  *)
(* cancellation, unlink or deletion of a license: requests that close,     *)
(* return or merge lines look at the lines again when they write.          *)
StatusUnlessOvertaken ==
    /\ overtaken = {} => RenewedHasSuccessor
    /\ overtaken \cap {"unlink", "delete", "cancel"} = {} => PendingHasWork
=============================================================================
