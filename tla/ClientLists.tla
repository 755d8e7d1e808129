------------------------------ MODULE ClientLists ------------------------------
(***************************************************************************)
(* The lists a user of the browser client keeps by hand: users, tokens,    *)
(* webhooks, plugins, custom fields, import presets and saved views.  They *)
(* are not in the query cache: each is read into the state of its own      *)
(* section and edited there, request by request.                           *)
(*                                                                         *)
(* One list is followed per behaviour; a record states its rules.  An      *)
(* entry holds the number of the request that last wrote it, 1 at first    *)
(* and 0 when there is none.                                               *)
(***************************************************************************)
EXTENDS Naturals, FiniteSets

CONSTANTS
    Items,              \* entries that exist at first, or can be created
    Order,              \* stands for the order of the entries
    None,
    MaxCalls, MaxLoads  \* bounds: requests sent for the user, reads of the list

-----------------------------------------------------------------------------
(* The rules of a list:                                                     *)
(*   ops       what a user can do to it                                     *)
(*   asks      the operations a dialog asks to confirm                      *)
(*   loads     whether it is read when its section is opened, when its page *)
(*             is, or was there from the start                              *)
(*   early     the operations shown before they are answered                *)
(*   restores  whether a refused one of those is undone: the list is shown  *)
(*             as it was when the user acted                                *)
(*   whole     whether a request carries the whole list                     *)
(*   halves    whether creating and changing take two requests              *)
(*   locks     the operations that take a lock, and keep each other out:    *)
(*   lock      on the same entry, or on any                                 *)
(*   once      the operations not started again while one is under way      *)
(*   reread    after what the list is read again: an entry was tried, or an *)
(*             operation was refused                                        *)
(*   refresh   whether there is a button to read it again                   *)
Listing == [ops |-> {"create", "change", "delete"}, asks |-> {"delete"}, loads |-> "opened",
            early |-> {}, restores |-> TRUE, whole |-> FALSE, halves |-> FALSE,
            locks |-> {}, lock |-> "entry", once |-> {}, reread |-> {}, refresh |-> FALSE]

UsersPage == [Listing EXCEPT !.loads = "shown", !.halves = TRUE, !.locks = {"change"}]
ApiTokensSection == [Listing EXCEPT !.ops = {"create", "change"}, !.asks = {"change"}]
WebhooksSection ==
    [Listing EXCEPT !.ops = @ \union {"try"}, !.locks = {"change", "try"},
                    !.once = {"create"}, !.reread = {"try"}]
ExtensionsSection == [Listing EXCEPT !.ops = {"delete"}, !.refresh = TRUE]
PluginsSection ==
    [Listing EXCEPT !.ops = @ \union {"try"}, !.asks = {}, !.locks = {"change", "delete"},
                    !.lock = "any", !.once = {"try"}, !.reread = {"try", "refused"}, !.refresh = TRUE]
CustomFieldsSection == [Listing EXCEPT !.ops = @ \union {"order"}, !.early = {"change", "order"},
                                         !.once = {"order"}]
ImportMappingsSection == [Listing EXCEPT !.ops = {"change", "delete"}]
SavedViews == [Listing EXCEPT !.asks = {}, !.loads = "never", !.early = {"create", "change", "delete"}, !.whole = TRUE]
WorkbenchColumns ==
    [Listing EXCEPT !.ops = {"change"}, !.asks = {}, !.loads = "never", !.early = {"change"},
                    !.restores = FALSE]

Lists == {UsersPage, ApiTokensSection, WebhooksSection, ExtensionsSection, PluginsSection,
          CustomFieldsSection, ImportMappingsSection, SavedViews, WorkbenchColumns}

-----------------------------------------------------------------------------
VARIABLES
    list,     \* the rules of the list followed
    shows,    \* whether its section is open
    view,     \* number of the page that shows it; another one starts anew
    reading,  \* whether the list shows that it is being read
    shown,    \* the entries as the user sees them
    server,   \* the entries as they are
    used,     \* entries that exist or existed
    asked,    \* what a dialog asks about, or None
    busy,     \* the entry whose operation is under way, or None
    calls,    \* requests under way
    sends, loads,  \* counters of the bounds
    read,     \* whether this page has read the list
    crossed,  \* history: requests met in a way that leaves the list open
    unsure    \* history: entries whose operation was not answered as it went

lvars == <<list, shows, view, reading, shown, server, used, asked, busy, calls, sends, loads, read,
           crossed, unsure>>

Entries == Items \union {Order}
Nothing == [e \in Entries |-> 0]

Init ==
    /\ list \in Lists
    /\ used = {CHOOSE i \in Items : TRUE}
    /\ server = [e \in Entries |-> IF e \in used \union {Order} THEN 1 ELSE 0]
    /\ IF list.loads = "never" THEN shown = server /\ read = TRUE ELSE shown = Nothing /\ read = FALSE
    /\ shows = (list.loads = "never") /\ view = 1
    /\ reading = FALSE /\ asked = None /\ busy = None /\ calls = {} /\ sends = 0 /\ loads = 0
    /\ crossed = FALSE /\ unsure = {}

-----------------------------------------------------------------------------
(* Requests.  Two of them meet when one is sent before the other is         *)
(* answered.                                                                *)

Call(op, e) ==
    [id |-> sends + 2, op |-> op, entry |-> e, view |-> view, state |-> "sent", half |-> 1,
     quiet |-> FALSE, got |-> Nothing, before |-> IF op \in list.early THEN shown ELSE Nothing,
     carries |-> Nothing, met |-> calls # {}]

(* A read of the list, and a request that carries all of it, meet every     *)
(* other in a way that the later answer may undo what the other did; reads  *)
(* do not disturb reads.                                                    *)
Whole(p) == p.op \in {"load", "order"} \/ list.whole
Conflicts(p, q) ==
    /\ p.entry = q.entry \/ Whole(p) \/ Whole(q)
    /\ ~(p.op = "load" /\ q.op = "load")

Meeting(p, others) ==
    /\ calls' = {[q EXCEPT !.met = TRUE] : q \in others} \union {p}
    /\ crossed' = (crossed \/ \E q \in others : Conflicts(p, q))

(* A quiet read leaves the list on screen meanwhile.                        *)
Read(others, quiet) ==
    /\ loads < MaxLoads /\ loads' = loads + 1
    /\ reading' = (reading \/ ~quiet)
    /\ Meeting([Call("load", None) EXCEPT !.id = MaxCalls + 2 + loads, !.quiet = quiet,
                                         !.met = others # {}], others)

-----------------------------------------------------------------------------
(* The user.                                                                *)

(* Opening a section reads its list, each time; a page reads it once.       *)
Open ==
    /\ ~shows /\ shows' = TRUE
    /\ IF list.loads = "opened" \/ ~read
       THEN Read(calls, FALSE) ELSE UNCHANGED <<reading, calls, loads, crossed>>
    /\ UNCHANGED <<list, view, shown, server, used, asked, busy, sends, read, unsure>>

Close ==
    /\ shows /\ list.loads = "opened" /\ asked = None /\ shows' = FALSE
    /\ UNCHANGED <<list, view, reading, shown, server, used, asked, busy, calls, sends, loads, read,
                   crossed, unsure>>

(* Leaving the page forgets its state; what was sent goes on.               *)
Leave ==
    /\ list.loads # "never" /\ view = 1 /\ shows
    /\ view' = 2 /\ shows' = FALSE /\ reading' = FALSE /\ shown' = Nothing /\ read' = FALSE
    /\ asked' = None /\ busy' = None
    /\ UNCHANGED <<list, server, used, calls, sends, loads, crossed, unsure>>

Refresh ==
    /\ list.refresh /\ shows /\ ~reading /\ asked = None
    /\ Read(calls, FALSE)
    /\ UNCHANGED <<list, shows, view, shown, server, used, asked, busy, sends, read, unsure>>

FirstOf(op) == op \in list.once => ~\E p \in calls : p.op = op /\ p.view = view /\ p.state # "again"

(* What can be done to the entry e, which the user sees.                    *)
Offered(op, e) ==
    /\ op \in list.ops /\ shows /\ ~reading /\ shown[e] # 0 /\ (e = Order <=> op = "order")
    /\ op \in list.locks => IF list.lock = "entry" THEN busy # e ELSE busy = None
    /\ FirstOf(op)

Ask(op, e) ==
    /\ op \in list.asks /\ asked = None /\ Offered(op, e)
    /\ asked' = [op |-> op, entry |-> e]
    /\ UNCHANGED <<list, shows, view, reading, shown, server, used, busy, calls, sends, loads, read,
                   crossed, unsure>>

Refuse ==
    /\ asked # None /\ asked' = None
    /\ UNCHANGED <<list, shows, view, reading, shown, server, used, busy, calls, sends, loads, read,
                   crossed, unsure>>

Send(p, after) ==
    /\ sends < MaxCalls /\ sends' = sends + 1
    /\ shown' = IF p.op \in list.early THEN after ELSE shown
    /\ Meeting([p EXCEPT !.carries = IF list.whole THEN after ELSE Nothing], calls)
    /\ UNCHANGED <<list, shows, view, reading, server, used, asked, loads, read, unsure>>

(* A dialog stays open until its operation was answered, and can be         *)
(* confirmed again.                                                         *)
Act(op, e) ==
    /\ IF op \in list.asks THEN asked = [op |-> op, entry |-> e] ELSE asked = None /\ Offered(op, e)
    /\ busy' = IF op \in list.locks THEN e ELSE busy
    /\ Send(Call(op, e), [shown EXCEPT ![e] = IF op = "delete" THEN 0 ELSE sends + 2])

(* The form for a new entry is there while the list is read.                *)
Create(e) ==
    /\ "create" \in list.ops /\ shows /\ asked = None
    /\ e \in Items \ used /\ ~\E p \in calls : p.entry = e
    /\ FirstOf("create")
    /\ busy' = busy
    /\ Send(Call("create", e), [shown EXCEPT ![e] = sends + 2])

-----------------------------------------------------------------------------
(* The server.                                                              *)

Written(p) ==
    IF p.op = "load" THEN server
    ELSE IF list.whole THEN p.carries
    ELSE [server EXCEPT ![p.entry] = IF p.op = "delete" THEN 0 ELSE p.id]

Accepts(p) == IF list.whole \/ p.op \in {"load", "create"} THEN TRUE ELSE server[p.entry] # 0

(* An operation on an entry that is gone is refused; an answer may be lost, *)
(* which looks refused.                                                     *)
Serve(p) ==
    /\ p.state = "sent"
    /\ \E result \in {"done", "refused", "lost"} :
        LET writes == result # "refused"
        IN /\ writes => Accepts(p)
           /\ p.op = "load" => result # "lost"
           /\ server' = IF writes THEN Written(p) ELSE server
           /\ used' = used \union {i \in Items : server'[i] # 0}
           /\ calls' = (calls \ {p}) \union
                {[p EXCEPT !.state = IF result = "done" THEN "done" ELSE "refused",
                           !.got = IF writes /\ p.op \in {"load", "order"} THEN server' ELSE Nothing]}
           /\ unsure' = IF result = "lost" THEN unsure \union {p.entry} ELSE unsure
    /\ UNCHANGED <<list, shows, view, reading, shown, asked, busy, sends, loads, read, crossed>>

-----------------------------------------------------------------------------
(* Answers, to a page that is still there.                                  *)

(* A read that met no other request settles what earlier ones left open.    *)
AnswerLoad(p) ==
    /\ p.op = "load" /\ p.state = "done" /\ p.view = view /\ calls' = calls \ {p}
    /\ reading' = (reading /\ p.quiet) /\ shown' = p.got /\ read' = TRUE
    /\ IF p.met THEN UNCHANGED <<crossed, unsure>> ELSE crossed' = FALSE /\ unsure' = {}
    /\ UNCHANGED <<list, shows, view, server, used, asked, busy, sends, loads>>

AnswerLoadFailed(p) ==
    /\ p.op = "load" /\ p.state = "refused" /\ p.view = view /\ calls' = calls \ {p}
    /\ reading' = (reading /\ p.quiet)
    /\ UNCHANGED <<list, shows, view, shown, server, used, asked, busy, sends, loads, read, crossed,
                   unsure>>

(* The list with what was done; an entry that is not in it is not put back  *)
(* by a change.                                                             *)
Done(p) ==
    IF p.op = "order" THEN p.got
    ELSE IF p.op = "create" THEN [shown EXCEPT ![p.entry] = p.id]
    ELSE IF p.op = "delete" THEN [shown EXCEPT ![p.entry] = 0]
    ELSE IF shown[p.entry] = 0 \/ p.op = "try" THEN shown
    ELSE [shown EXCEPT ![p.entry] = p.id]

(* Whichever entry holds it.                                                *)
Released(p) == IF p.op \in list.locks THEN None ELSE busy
Closed(p) == IF p.op \in list.asks THEN None ELSE asked

(* A changed user takes a second request for the departments, a new one     *)
(* when it has some.                                                        *)
AnswerHalf(p) ==
    /\ list.halves /\ p.op \in {"create", "change"} /\ p.state = "done" /\ p.half = 1
    /\ calls' = (calls \ {p}) \union {[p EXCEPT !.state = "departments", !.half = 2]}
    /\ UNCHANGED <<list, shows, view, reading, shown, server, used, asked, busy, sends, loads, read,
                   crossed, unsure>>

(* They are refused: the list does not get the user written before.         *)
ServeDepartments(p) ==
    /\ p.state = "departments"
    /\ \/ calls' = (calls \ {p}) \union {[p EXCEPT !.state = "done"]} /\ unsure' = unsure
       \/ calls' = (calls \ {p}) \union {[p EXCEPT !.state = "refused"]}
          /\ unsure' = unsure \union {p.entry}
    /\ UNCHANGED <<list, shows, view, reading, shown, server, used, asked, busy, sends, loads, read,
                   crossed>>

(* What is shown early stays when it is done, except that an order is taken *)
(* from the answer.  What was tried is in the list only when that is read.  *)
AnswerDone(p) ==
    /\ p.op # "load" /\ p.state = "done" /\ p.view = view
    /\ list.halves /\ p.op = "change" => p.half = 2
    /\ shown' = IF p.op \in list.early \ {"order"} THEN shown ELSE Done(p)
    /\ busy' = Released(p) /\ asked' = Closed(p)
    /\ unsure' = IF p.op = "try" THEN unsure \union {p.entry} ELSE unsure
    /\ IF p.op \in list.reread THEN Read(calls \ {p}, list.lock = "entry")
       ELSE calls' = calls \ {p} /\ UNCHANGED <<loads, crossed, reading>>
    /\ UNCHANGED <<list, shows, view, server, used, sends, read>>

(* The list as it was when the user acted also undoes what was done since.  *)
Restored(p) == IF list.restores /\ p.op \in list.early \ {"order"} THEN p.before ELSE shown

(* An order that was refused is read again.  The dialog of a user whose     *)
(* deletion was refused stays.                                              *)
AnswerRefused(p) ==
    /\ p.op # "load" /\ p.state = "refused" /\ p.view = view
    /\ shown' = Restored(p)
    /\ busy' = Released(p) /\ asked' = IF list.halves THEN asked ELSE Closed(p)
    /\ unsure' = IF p.op \in list.early /\ ~list.restores THEN unsure \union {p.entry} ELSE unsure
    /\ IF "refused" \in list.reread /\ p.op \in list.locks THEN Read(calls \ {p}, FALSE)
       ELSE /\ calls' = (calls \ {p}) \union
                 (IF p.op = "order" THEN {[p EXCEPT !.state = "again"]} ELSE {})
            /\ crossed' = (crossed \/ (p.op \in list.early /\ p.met))
            /\ UNCHANGED <<loads, reading>>
    /\ UNCHANGED <<list, shows, view, server, used, sends, read>>

ServeOrderAgain(p) ==
    /\ p.state = "again"
    /\ \/ calls' = (calls \ {p}) \union {[p EXCEPT !.state = "read again", !.got = server]}
       \/ calls' = (calls \ {p}) \union {[p EXCEPT !.state = "read again", !.got = p.before]}
    /\ UNCHANGED <<list, shows, view, reading, shown, server, used, asked, busy, sends, loads, read,
                   crossed, unsure>>

(* When that fails too the list is put back as it was.                      *)
AnswerOrderAgain(p) ==
    /\ p.state = "read again" /\ p.view = view /\ calls' = calls \ {p}
    /\ shown' = p.got
    /\ crossed' = (crossed \/ p.met)
    /\ UNCHANGED <<list, shows, view, reading, server, used, asked, busy, sends, loads, read, unsure>>

(* An answer to a page that was left changes nothing.                       *)
AnswerNobody(p) ==
    /\ p.state \in {"done", "refused", "read again"} /\ p.view # view /\ calls' = calls \ {p}
    /\ list.halves /\ p.op = "change" /\ p.state = "done" => p.half = 2
    /\ UNCHANGED <<list, shows, view, reading, shown, server, used, asked, busy, sends, loads, read,
                   crossed, unsure>>

Next ==
    \/ Open \/ Close \/ Leave \/ Refresh \/ Refuse
    \/ \E e \in Entries :
        \/ Create(e)
        \/ \E op \in {"change", "delete", "try", "order"} : Ask(op, e) \/ Act(op, e)
    \/ \E p \in calls :
        \/ Serve(p) \/ ServeDepartments(p)
        \/ AnswerLoad(p) \/ AnswerLoadFailed(p) \/ AnswerHalf(p) \/ AnswerDone(p) \/ AnswerRefused(p)
        \/ ServeOrderAgain(p) \/ AnswerOrderAgain(p) \/ AnswerNobody(p)

Spec == Init /\ [][Next]_lvars

-----------------------------------------------------------------------------
(* Properties.                                                              *)

TypeOK ==
    /\ list \in Lists /\ view \in 1..2 /\ sends \in 0..MaxCalls /\ loads \in 0..MaxLoads
    /\ shown \in [Entries -> 0..(MaxCalls + 1)] /\ server \in [Entries -> 0..(MaxCalls + 1)]
    /\ \A i \in Items : server[i] # 0 => i \in used
    /\ busy \in Entries \union {None} /\ unsure \subseteq Entries
    /\ reading => \E p \in calls : p.op = "load"

(* Once every request was answered, the user sees the list the server has,  *)
(* after any operations, refusals, closed sections and pages left.  Open    *)
(* remain: requests that met, an entry whose operation was told to have     *)
(* failed although part of it was done, and a refusal that is not undone;   *)
(* reading the list with nothing else under way settles these too.          *)
ListsFollowTheServer ==
    read /\ calls = {} /\ ~crossed => \A e \in Entries \ unsure : shown[e] = server[e]

=============================================================================
