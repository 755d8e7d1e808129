------------------------------ MODULE ClientRoutes ------------------------------
(***************************************************************************)
(* The page on screen, the selected license and the address of the browser *)
(* client (useUrlSync, useAppNavigation, useNavigationGuard, AppRouter).   *)
(*                                                                         *)
(* The client keeps its page in memory and writes the address after it;    *)
(* Back, Forward and a requested address change the page through the same  *)
(* guard as the sidebar.  `expected' is what the client still waits for    *)
(* after a change that came from the address; while it waits it writes no  *)
(* address.  A license in an address is looked up in the license list,     *)
(* which may arrive late or never.                                         *)
(*                                                                         *)
(* The browser flushes the effects of a change before it handles the next  *)
(* event, so a change and the address written for it are one step; timers  *)
(* and answers are steps of their own.                                     *)
(***************************************************************************)
EXTENDS Naturals, Sequences

CONSTANTS
    MaxHistory,   \* bound: entries of the browser's history
    MaxEvents     \* bound: things the user does

Nowhere == "none"
Nothing == [page |-> Nowhere, license |-> Nowhere, awaiting |-> FALSE]

(* A page of each kind: the one that shows a license, one without a guard,  *)
(* the settings with theirs, and one viewers may not see.                   *)
Pages == {"licenses", "reports", "settings", "sourcing"}
viewerRestricted == {"sourcing"}

(* Two licenses, and the last one this user created.                        *)
Created == "3"
Licenses == {"1", "2", Created}

(* resolveLicenseKey: a record id, a reference of the chain whose current   *)
(* term is license 1, and a key no license has.                             *)
Resolves == [k \in Licenses \union {"LT1", "gone"} |->
                CASE k = "LT1" -> "1" [] k = "gone" -> Nowhere [] OTHER -> k]
LicenseKeys == DOMAIN Resolves

Path(p, key) == [page |-> p, key |-> key]
pathForState(p, license) == Path(p, IF p = "licenses" THEN license ELSE Nowhere)

(* parseAppPath: the root and unknown addresses are the licenses page.      *)
parseAppPath(path) == IF path.page \in Pages THEN path ELSE Path("licenses", Nowhere)

Requested == {Path(p, Nowhere) : p \in {"root", "unknown", "settings", "sourcing"}}
               \union {Path("licenses", k) : k \in LicenseKeys \ {Created}}

VARIABLES
    viewer,     \* whether the user is a viewer
    page, selected,
    hist, at,   \* the browser's history, and where in it the client is
    remembered, \* the path remembered over a single sign-on
    started,    \* whether the requested address was applied
    expected, pending, loaded, \* what is waited for, the key looked up, the licenses listed
    timers,     \* pages that a check after Back still compares with
    dirty, asking, \* the settings page: unsaved edits, where leaving would lead
    dialog,     \* whether a dialog of the page is open
    adding,     \* whether the form for a new license is open
    posting,    \* whether a new license was sent
    made,       \* whether one was created
    creating,   \* whether a contract is being created
    events, overtaken \* counter; history: the user moved during a look-up, or
                      \* a new license was looked up in an old list or shown
                      \* in the moment after Back

view == <<page, selected, hist, at, expected>>
addition == <<adding, posting, made>>
rvars == <<viewer, page, selected, hist, at, remembered, started, expected, pending, loaded,
           timers, dirty, asking, dialog, adding, posting, made, creating, events, overtaken>>

Fresh ==
    /\ page = "licenses" /\ selected = Nowhere /\ started = FALSE /\ expected = Nothing
    /\ pending = Nowhere /\ loaded = {} /\ timers = {} /\ dirty = FALSE /\ asking = Nowhere
    /\ dialog = FALSE /\ adding = FALSE /\ posting = FALSE /\ made = FALSE /\ creating = FALSE /\ overtaken = FALSE

Init ==
    /\ Fresh /\ viewer \in BOOLEAN /\ at = 1 /\ events = 0
    /\ \E p \in Requested : hist = <<p>>
    /\ remembered \in {Nowhere, "LT1"}

-----------------------------------------------------------------------------
(* The address.                                                             *)

Replaced(h, i, path) == [h EXCEPT ![i] = path]
Pushed(h, i, path) == Append(SubSeq(h, 1, i), path)

CaughtUp(p, s, e) == p = e.page /\ ~e.awaiting /\ e.license \in {"any", s}

(* State -> URL, after page p and license s were rendered, with h and i the *)
(* history: nothing is written while a change that came from the address    *)
(* has not caught up.                                                       *)
Write(p, s, e, h, i) ==
    LET desired == pathForState(p, s) IN
    IF e # Nothing
    THEN /\ expected' = (IF CaughtUp(p, s, e) THEN Nothing ELSE e)
         /\ hist' = (IF CaughtUp(p, s, e) THEN Replaced(h, i, desired) ELSE h) /\ at' = i
    ELSE /\ expected' = Nothing
         /\ IF h[i] = desired THEN hist' = h /\ at' = i
            ELSE hist' = Pushed(h, i, desired) /\ at' = i + 1

(* Leaving the settings keeps their edits.                                  *)
BadSettle(p, s, e, h, i) ==
    /\ page' = p /\ selected' = s /\ dirty' = dirty
    /\ IF <<p, s>> = <<page, selected>> THEN expected' = e /\ hist' = h /\ at' = i
       ELSE Write(p, s, e, h, i)

(* The effect runs only when the page or the license changed.               *)
Settle(p, s, e, h, i) ==
    /\ page' = p /\ selected' = s /\ dirty' = (dirty /\ p = "settings")
    /\ IF <<p, s>> = <<page, selected>> THEN expected' = e /\ hist' = h /\ at' = i
       ELSE Write(p, s, e, h, i)

Show(p, s) == Settle(p, s, expected, hist, at)

(* A viewer on a restricted page is sent to the licenses, and a key is      *)
(* looked up once there is a list, before anything else happens.            *)
RedirectDue == viewer /\ page \in viewerRestricted
ResolveDue == pending # Nowhere /\ loaded # {}
Ready == started /\ ~RedirectDue /\ ~ResolveDue

Redirect ==
    /\ started /\ RedirectDue
    /\ Show("licenses", selected)
    /\ UNCHANGED <<viewer, remembered, started, pending, loaded, timers, asking, dialog, addition, creating, events,
                   overtaken>>

(* Initial load: the requested address, or at the root the remembered one.  *)
Start ==
    /\ ~started
    /\ LET target == IF hist[at].page = "root" /\ remembered # Nowhere THEN Path("licenses", remembered)
                     ELSE parseAppPath(hist[at])
           e == [page |-> target.page, license |-> "any", awaiting |-> target.key # Nowhere] IN
        /\ page' = target.page /\ pending' = target.key
        /\ Write(target.page, selected, e, Replaced(hist, at, target), at)
    /\ started' = TRUE /\ remembered' = Nowhere
    /\ UNCHANGED <<viewer, selected, loaded, timers, dirty, asking, dialog, addition, creating, events, overtaken>>

(* The list arrives, and again when it was outdated by a new license.       *)
Load ==
    /\ started /\ loaded' = (IF made THEN Licenses ELSE Licenses \ {Created}) /\ loaded' # loaded
    /\ UNCHANGED <<viewer, remembered, started, pending, timers, dirty, asking, dialog, addition, creating, events,
                   overtaken, view>>

(* A key of an address is looked up in the list there is: the license is    *)
(* selected, whatever page is on screen by then, or the address becomes     *)
(* that of the licenses.                                                    *)
Resolve ==
    /\ started /\ ResolveDue /\ ~RedirectDue /\ pending' = Nowhere
    /\ overtaken' = (overtaken \/ Resolves[pending] \notin loaded \union {Nowhere})
    /\ LET license == IF Resolves[pending] \in loaded THEN Resolves[pending] ELSE Nowhere IN
       \/ /\ license = Nowhere /\ expected' = Nothing
          /\ hist' = Replaced(hist, at, Path("licenses", Nowhere))
          /\ UNCHANGED <<at, page, selected, dirty>>
       \/ /\ license # Nowhere /\ license = selected /\ page = "licenses" /\ expected' = Nothing
          /\ UNCHANGED <<hist, at, page, selected, dirty>>
       \/ /\ license # Nowhere /\ (license # selected \/ page # "licenses")
          /\ Settle(page, license, [page |-> "licenses", license |-> license, awaiting |-> FALSE], hist, at)
    /\ UNCHANGED <<viewer, remembered, started, loaded, timers, asking, dialog, addition, creating, events>>

-----------------------------------------------------------------------------
(* The user.  Nothing beneath an open dialog can be used, and no click falls *)
(* between Back and the timer of zero it sets; answers may, and Back again. *)

User ==
    /\ Ready /\ timers = {} /\ ~dialog /\ ~adding /\ asking = Nowhere
    /\ events < MaxEvents /\ Len(hist) < MaxHistory
    /\ events' = events + 1

Moves == overtaken' = (overtaken \/ pending # Nowhere)

(* handleSetPage: a dirty settings page asks first.                         *)
Guarded == page = "settings" /\ dirty

Navigate(p, s) ==
    /\ User /\ Moves /\ p \notin (IF viewer THEN viewerRestricted ELSE {})
    /\ IF Guarded THEN asking' = p /\ Show(page, s) ELSE asking' = Nowhere /\ Show(p, s)
    /\ UNCHANGED <<viewer, remembered, started, pending, loaded, timers, dialog, addition, creating>>

(* The sidebar also clears the selection, the top bar keeps it.             *)
Sidebar(p) == Navigate(p, Nowhere)
TopBar(p) == p # "sourcing" /\ Navigate(p, selected)

(* A license is opened in the list, or closed.                              *)
SelectLicense(l) ==
    /\ User /\ Moves /\ page = "licenses" /\ loaded # {} /\ l \in (loaded \union {Nowhere}) \ {selected}
    /\ Show(page, l)
    /\ UNCHANGED <<viewer, remembered, started, pending, loaded, timers, asking, dialog, addition, creating>>

(* A link on another page opens a license, a link of a license another      *)
(* page; these pass no guard and are on no settings page.                   *)
Follow(p, l) ==
    /\ User /\ Moves /\ page # "settings" /\ page # p
    /\ (p = "licenses") = (l # selected) /\ (l = Created => made)
    /\ p \notin (IF viewer THEN viewerRestricted ELSE {})
    /\ Show(p, l)
    /\ UNCHANGED <<viewer, remembered, started, pending, loaded, timers, asking, dialog, addition, creating>>

EditSettings ==
    /\ User /\ page = "settings" /\ ~dirty /\ dirty' = TRUE
    /\ UNCHANGED <<viewer, remembered, started, pending, loaded, timers, asking, dialog, addition, creating,
                   overtaken, view>>

SaveSettings ==
    /\ User /\ page = "settings" /\ dirty /\ dirty' = FALSE
    /\ UNCHANGED <<viewer, remembered, started, pending, loaded, timers, asking, dialog, addition, creating,
                   overtaken, view>>

OpenDialog ==
    /\ User /\ dialog' = TRUE
    /\ UNCHANGED <<viewer, remembered, started, pending, loaded, timers, dirty, asking, addition, creating,
                   overtaken, view>>

CloseDialog ==
    /\ Ready /\ dialog /\ dialog' = FALSE
    /\ UNCHANGED <<viewer, remembered, started, pending, loaded, timers, dirty, asking, addition, creating, events,
                   overtaken, view>>

(* "Leave" discards the edits and goes where the user wanted to.            *)
LeaveSettings ==
    /\ Ready /\ timers = {} /\ asking # Nowhere /\ asking' = Nowhere /\ Moves
    /\ page' = asking /\ selected' = selected /\ dirty' = FALSE
    /\ IF page = asking THEN UNCHANGED <<expected, hist, at>> ELSE Write(asking, selected, expected, hist, at)
    /\ UNCHANGED <<viewer, remembered, started, pending, loaded, timers, dialog, addition, creating, events>>

StayInSettings ==
    /\ Ready /\ timers = {} /\ asking # Nowhere /\ asking' = Nowhere
    /\ UNCHANGED <<viewer, remembered, started, pending, loaded, timers, dirty, dialog, addition, creating, events,
                   overtaken, view>>

(* "Add License" of the top bar opens a form over any page.                 *)
AddLicense ==
    /\ User /\ ~viewer /\ adding' = TRUE
    /\ UNCHANGED <<viewer, remembered, started, pending, loaded, timers, dirty, asking, dialog, posting, made,
                   creating, overtaken, view>>

(* Bound: one new license is under way.  Escape and "Discard" close a form  *)
(* that was sent, too.                                                      *)
SubmitOrCancel ==
    /\ Ready /\ adding
    /\ \/ ~posting /\ posting' = TRUE /\ adding' = adding
       \/ adding' = FALSE /\ posting' = posting
    /\ UNCHANGED <<viewer, remembered, started, pending, loaded, timers, dirty, asking, dialog, made, creating,
                   events, overtaken, view>>

(* Created: whatever form is open closes and the licenses are shown, without *)
(* asking the page beneath; the new license is selected when the upload of  *)
(* its document failed.  The list is outdated.                              *)
LicenseCreated ==
    /\ Ready /\ posting /\ posting' = FALSE /\ adding' = FALSE
    /\ \E s \in {selected, Created} :
        /\ Show("licenses", s)
        /\ overtaken' = (overtaken \/ pending # Nowhere \/ (s # selected /\ timers # {}))
    /\ asking' = Nowhere /\ dialog' = (dialog /\ page = "licenses")
    /\ made' = TRUE /\ loaded' = loaded \ {Created}
    /\ UNCHANGED <<viewer, remembered, started, pending, timers, creating, events>>

(* Refused: a form that is open stays.                                      *)
LicenseRefused ==
    /\ Ready /\ posting /\ posting' = FALSE
    /\ UNCHANGED <<viewer, remembered, started, pending, loaded, timers, dirty, asking, dialog, adding, made,
                   creating, events, overtaken, view>>

(* A contract is created from a license; the answer opens the contracts,    *)
(* wherever the user is by then.                                            *)
CreateContract ==
    /\ User /\ page = "licenses" /\ ~creating /\ creating' = TRUE
    /\ UNCHANGED <<viewer, remembered, started, pending, loaded, timers, dirty, asking, dialog, addition,
                   overtaken, view>>

ContractCreated ==
    /\ Ready /\ creating /\ creating' = FALSE /\ Moves
    /\ Show("reports", selected) /\ asking' = Nowhere
    /\ dialog' = (dialog /\ page = "reports")
    /\ UNCHANGED <<viewer, remembered, started, pending, loaded, timers, addition, events>>

-----------------------------------------------------------------------------
(* Back and Forward.                                                        *)

(* An open dialog keeps the screen, and the address is put back.            *)
Kept(i) ==
    /\ dialog \/ adding \/ asking # Nowhere
    /\ expected' = Nothing
    /\ hist' = Pushed(hist, i, pathForState(page, selected)) /\ at' = i + 1
    /\ UNCHANGED <<page, selected, pending, timers, dirty, asking, overtaken>>

(* The page that is shown already needs no change.                          *)
AlreadyShown(target) ==
    /\ target.page = page /\ target.key = Nowhere
    /\ page = "licenses" => selected = Nowhere

(* Back changes the page past the guard.                                    *)
BadBlocked(target) == FALSE

Blocked(target) == Guarded /\ target.page # page

(* Otherwise the guard decides, and a timer compares its decision with the  *)
(* address; the license of the address is looked up in any case.            *)
Traversed(i) ==
    /\ ~dialog /\ ~adding /\ asking = Nowhere
    /\ LET target == parseAppPath(hist[i])
           license == IF target.page = "licenses" /\ target.key = Nowhere THEN Nowhere ELSE "any"
           e == IF AlreadyShown(target) THEN Nothing
                ELSE [page |-> target.page, license |-> license, awaiting |-> target.key # Nowhere] IN
        /\ Settle(IF Blocked(target) THEN page ELSE target.page, IF license = Nowhere THEN Nowhere ELSE selected, e, hist, i)
        /\ asking' = (IF Blocked(target) THEN target.page ELSE Nowhere)
        /\ timers' = (IF target.page # page THEN timers \union {target.page} ELSE timers)
        /\ pending' = (IF target.key # Nowhere THEN target.key ELSE pending)
        /\ overtaken' = (overtaken \/ pending # Nowhere \/ (Blocked(target) /\ target.key # Nowhere /\ loaded = {}))

PopState(i) ==
    /\ Ready /\ events < MaxEvents /\ Len(hist) < MaxHistory /\ events' = events + 1
    /\ i \in {at - 1, at + 1} \intersect (1..Len(hist))
    /\ Kept(i) \/ Traversed(i)
    /\ UNCHANGED <<viewer, remembered, started, loaded, dialog, addition, creating>>

(* The address is put back when the guard kept the page.                    *)
BadRestore(p) ==
    /\ Ready /\ p \in timers /\ timers' = timers \ {p}
    /\ UNCHANGED <<viewer, page, selected, hist, at, expected, remembered, started, pending, loaded, dirty,
                   asking, dialog, addition, creating, events, overtaken>>

Restore(p) ==
    /\ Ready /\ p \in timers /\ timers' = timers \ {p}
    /\ IF page = p THEN UNCHANGED <<expected, hist, at>>
       ELSE /\ expected' = Nothing
            /\ hist' = Pushed(hist, at, pathForState(page, selected)) /\ at' = at + 1
    /\ UNCHANGED <<viewer, page, selected, remembered, started, pending, loaded, dirty, asking, dialog, addition,
                   creating, events, overtaken>>

(* The page is loaded again, at the address it has; a license on its way is *)
(* created or not.                                                          *)
Reload ==
    /\ started /\ events < MaxEvents /\ events' = events + 1
    /\ page' = "licenses" /\ selected' = Nowhere /\ started' = FALSE /\ expected' = Nothing
    /\ pending' = Nowhere /\ loaded' = {} /\ timers' = {} /\ dirty' = FALSE /\ asking' = Nowhere
    /\ dialog' = FALSE /\ adding' = FALSE /\ posting' = FALSE /\ made' \in {made, made \/ posting}
    /\ creating' = FALSE /\ overtaken' = FALSE
    /\ UNCHANGED <<viewer, hist, at, remembered>>

Next ==
    \/ Start \/ Load \/ Resolve \/ Redirect \/ Reload
    \/ \E p \in Pages : Sidebar(p) \/ TopBar(p) \/ Restore(p)
    \/ \E l \in Licenses \union {Nowhere} : SelectLicense(l)
    \/ \E p \in Pages, l \in Licenses \union {selected} : Follow(p, l)
    \/ EditSettings \/ SaveSettings \/ OpenDialog \/ CloseDialog \/ LeaveSettings \/ StayInSettings
    \/ AddLicense \/ SubmitOrCancel \/ LicenseCreated \/ LicenseRefused \/ CreateContract \/ ContractCreated
    \/ \E i \in {at - 1, at + 1} : PopState(i)

Spec == Init /\ [][Next]_rvars

-----------------------------------------------------------------------------
(* Properties.                                                              *)

(* The client is in the history it keeps, edits belong to the settings page *)
(* and a client that waits for a license knows which.                       *)
TypeOK ==
    /\ loaded \subseteq Licenses /\ (Created \in loaded => made) /\ {adding, posting} \subseteq BOOLEAN
    /\ page \in Pages /\ selected \in Licenses \union {Nowhere}
    /\ at \in 1..Len(hist) /\ timers \subseteq Pages /\ pending \in LicenseKeys \union {Nowhere}
    /\ dirty => page = "settings"
    /\ expected # Nothing => expected.page \in Pages /\ (expected.awaiting => expected.page = "licenses")

AtRest == Ready /\ timers = {} /\ pending = Nowhere

(* An address that names what is on screen.                                 *)
Shows(path) ==
    /\ parseAppPath(path).page = page
    /\ page = "licenses" => (path.key # Nowhere /\ Resolves[path.key] = selected)
                              \/ (path.key = Nowhere /\ selected = Nowhere)

(* When nothing is under way the address names the page and the license on  *)
(* screen, and the client waits for nothing that would keep it from writing *)
(* the next one: whatever was navigated, blocked by a guard or a dialog,    *)
(* restored, redirected or reloaded in between.  Except after the user      *)
(* moved while the license of an address was still looked up, one just      *)
(* created was looked up in a list without it, or it was selected between   *)
(* Back and its timer.                                                      *)
UrlInStep == AtRest /\ ~overtaken => expected = Nothing /\ Shows(hist[at])

(* Unsaved settings are left only when the user says so: by Back and        *)
(* Forward, links, look-ups and redirects never.  The exceptions are a      *)
(* reload and the answer to what the user asked to be created, a license or *)
(* a contract.                                                              *)
AsksBeforeLeaving ==
    page = "settings" /\ dirty /\ page' # "settings" =>
        \/ asking # Nowhere \/ ~started'
        \/ posting /\ ~posting'
        \/ creating /\ ~creating'
SettingsLeftWhenAsked == [][AsksBeforeLeaving]_rvars

=================================================================================
