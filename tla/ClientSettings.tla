---------------------------- MODULE ClientSettings ----------------------------
(***************************************************************************)
(* The settings pages of the browser client.                               *)
(*                                                                         *)
(* Every section edits the same two drafts, which live in the application  *)
(* and outlive the page; the page keeps a dirty mark per section and asks  *)
(* before it is left with a mark set; each section saves its own fields    *)
(* and gets the whole settings back.  Requests reach the server, and their *)
(* answers the client, in any order.  One field stands for the fields of a *)
(* section.                                                                *)
(***************************************************************************)
EXTENDS Naturals, FiniteSets

CONSTANTS
    Usages,      \* sets of Sections one user edits
    Values,      \* values of a field
    Initial, Refused,   \* the value at the start; one the client's schemas refuse
    MaxEdits, MaxCalls, MaxMounts   \* bounds: edits, requests, page mounts

(* The groups the sections are shown in; the last are the user's own.       *)
Group == [storage |-> "general", notifications |-> "general", renewals |-> "general",
          smtp |-> "general", oidc |-> "general",
          completeness |-> "dataManagement", backup |-> "operations",
          appearance |-> "my", categories |-> "my"]

Sections == DOMAIN Group
Mine == {"appearance", "categories"}

(* The e-mail templates are global settings no section saves.               *)
Global == (Sections \ Mine) \union {"templates"}
Fields == Global \union Mine

(* Where the user is: a group of the administrator's settings, another tab  *)
(* of the administrator's page, the own settings, or any other page.        *)
Groups == {"general", "dataManagement", "operations"}
Settings == Groups \union {"my"}
Places == Settings \union {"users", "away"}

VARIABLES
    used,        \* the sections this user edits
    draft,       \* the application's settings, as edited
    stored,      \* the server's settings
    fallback,    \* what leaving without saving returns to
    place, mount,    \* where the user is; which mount of the settings page
    marks, saving,   \* sections shown as dirty, sections with a save under way
    asked,       \* the page the user is asked about leaving for
    calls,       \* requests under way
    edits, sent, \* counters of the bounds
    were,        \* history: the values each field has had on the server
    carried      \* history: sections left dirty without being asked

vars == <<used, draft, stored, fallback, place, mount, marks, saving, asked, calls, edits, sent,
          were, carried>>

page == <<used, place, mount, asked>>
history == <<were, carried>>

Shown(p) == {s \in used : Group[s] = p}

Init ==
    /\ used \in Usages
    /\ draft = [f \in Fields |-> Initial]
    /\ stored = draft /\ fallback = draft
    /\ were = [f \in Fields |-> {Initial}]
    /\ place = "away" /\ mount = 0 /\ asked = "none"
    /\ marks = {} /\ saving = {} /\ carried = {}
    /\ calls = {} /\ edits = 0 /\ sent = 0

-----------------------------------------------------------------------------
(* Typing.                                                                  *)

(* Any input of a section changes the shared draft and marks the section.   *)
Edit(s) ==
    /\ place \in Settings /\ s \in Shown(place) /\ asked = "none" /\ edits < MaxEdits
    /\ \E v \in Values \ {draft[s]} : draft' = [draft EXCEPT ![s] = v]
    /\ marks' = marks \union {s} /\ edits' = edits + 1
    /\ UNCHANGED <<stored, fallback, page, saving, calls, sent, history>>

-----------------------------------------------------------------------------
(* Requests.                                                                *)

(* A request with the fields it changes; a call without any reads.          *)
Send(by, patch) ==
    /\ sent < MaxCalls /\ sent' = sent + 1
    /\ calls' = calls \union {[id |-> sent, by |-> by, mount |-> mount, patch |-> patch,
                              state |-> "sent", answer |-> patch]}

Changed(patch) == [f \in Fields |-> IF f \in DOMAIN patch THEN patch[f] ELSE stored[f]]

(* The server stores what the request names and answers with everything; it *)
(* may refuse the request.                                                  *)
Handle(c) ==
    /\ c.state = "sent"
    /\ \/ /\ stored' = Changed(c.patch)
          /\ were' = [f \in Fields |-> were[f] \union {stored'[f]}]
          /\ calls' = (calls \ {c}) \union {[c EXCEPT !.state = "done", !.answer = stored']}
       \/ /\ calls' = (calls \ {c}) \union {[c EXCEPT !.state = "failed"]}
          /\ UNCHANGED <<stored, were>>
    /\ UNCHANGED <<draft, fallback, page, marks, saving, edits, sent, carried>>

(* The save button needs a mark and no save of this section under way.      *)
CanSave(s) ==
    /\ place \in Settings /\ s \in Shown(place) /\ asked = "none"
    /\ s \in marks /\ s \notin saving

(* A section of the administrator sends its own fields.                     *)
SaveSection(s) ==
    /\ CanSave(s)
    /\ Send(s, [f \in {s} |-> draft[f]]) /\ saving' = saving \union {s}
    /\ UNCHANGED <<draft, stored, fallback, page, marks, edits, history>>

Passes(s) == draft[s] # Refused
EditOrSave(s) == Edit(s) \/ SaveSection(s)
EditOrCheckedSave(s) == Edit(s) \/ (CanSave(s) /\ Passes(s) /\ SaveSection(s))

StorageSection == EditOrSave("storage")
CompletenessSection == EditOrSave("completeness")
NotificationsSection == EditOrCheckedSave("notifications")
RenewalsSection == EditOrCheckedSave("renewals")
OidcSection == EditOrCheckedSave("oidc")
BackupSection == EditOrCheckedSave("backup")

(* Both of the user's sections send the whole of the user's draft.          *)
SaveMine(s) ==
    /\ CanSave(s)
    /\ Send(s, [f \in Mine |-> draft[f]]) /\ saving' = saving \union {s}
    /\ UNCHANGED <<draft, stored, fallback, page, marks, edits, history>>

(* The templates are saved by a dialog of the e-mail section; its draft is  *)
(* its own until the answer is there.                                       *)
SaveTemplates ==
    /\ "smtp" \in used /\ place = Group["smtp"] /\ asked = "none" /\ "templates" \notin saving
    /\ \E v \in Values : Send("templates", [f \in {"templates"} |-> v])
    /\ saving' = saving \union {"templates"}
    /\ UNCHANGED <<draft, stored, fallback, page, marks, edits, history>>

(* Sending notifications by hand reads the settings again afterwards; it is *)
(* offered only while the section is clean.                                 *)
Trigger ==
    /\ "smtp" \in used /\ place = Group["smtp"] /\ asked = "none"
    /\ "smtp" \notin marks /\ "trigger" \notin saving
    /\ Send("trigger", [f \in {} |-> stored[f]]) /\ saving' = saving \union {"trigger"}
    /\ UNCHANGED <<draft, stored, fallback, page, marks, edits, history>>

SmtpSection == EditOrCheckedSave("smtp") \/ SaveTemplates \/ Trigger
AppearanceSection == Edit("appearance") \/ SaveMine("appearance")
VisibleCategoriesSection == Edit("categories") \/ SaveMine("categories")

-----------------------------------------------------------------------------
(* Answers.                                                                 *)

(* The draft is kept over the answer although the mark is cleared.          *)
BadTakeGlobal(answer) == draft

(* A saved answer replaces every global field of the draft, whoever edited  *)
(* it, and an edit carried over with it.                                    *)
TakeGlobal(answer) == [f \in Fields |-> IF f \in Mine THEN draft[f] ELSE answer[f]]

(* The mark is cleared in the mount that sent the request, if it still      *)
(* stands.                                                                  *)
Cleared(c) == IF c.mount = mount THEN marks \ {c.by} ELSE marks
Done(c) == IF c.mount = mount THEN saving \ {c.by} ELSE saving

AnswerGlobal(c) ==
    /\ draft' = TakeGlobal(c.answer) /\ carried' = {}
    /\ fallback' = [f \in Fields |-> IF f \in Mine THEN fallback[f] ELSE c.answer[f]]
    /\ marks' = Cleared(c)

(* The user's sections keep the draft; appearance moves its fallback in the *)
(* application, categories theirs in the mount of the page.                 *)
AnswerMine(c) ==
    /\ fallback' = IF c.by = "categories" /\ c.mount # mount THEN fallback
                   ELSE [fallback EXCEPT ![c.by] = c.patch[c.by]]
    /\ marks' = Cleared(c) /\ UNCHANGED <<draft, carried>>

(* Neither the templates nor a reload move the fallback.                    *)
AnswerReload(c) ==
    /\ draft' = TakeGlobal(c.answer) /\ carried' = {}
    /\ UNCHANGED <<fallback, marks>>

Answer(c) ==
    /\ c.state = "done" /\ calls' = calls \ {c} /\ saving' = Done(c)
    /\ \/ c.by \in used \ Mine /\ AnswerGlobal(c)
       \/ c.by \in Mine /\ AnswerMine(c)
       \/ c.by \in {"templates", "trigger"} /\ AnswerReload(c)
    /\ UNCHANGED <<stored, page, edits, sent, were>>

(* An error shows a message; the draft and the mark stay.                   *)
AnswerError(c) ==
    /\ c.state = "failed" /\ calls' = calls \ {c} /\ saving' = Done(c)
    /\ UNCHANGED <<draft, stored, fallback, page, marks, edits, sent, history>>

-----------------------------------------------------------------------------
(* Leaving.                                                                 *)

(* A new mount of the page has no marks and takes the categories it finds   *)
(* as what to fall back to.                                                 *)
Mount(p) ==
    /\ place' = p /\ mount' = mount + 1 /\ marks' = {} /\ saving' = {}
    /\ fallback' = [fallback EXCEPT !["categories"] = draft["categories"]]

Open(p) ==
    /\ place \notin Settings /\ p \in {Group[s] : s \in used} /\ mount < MaxMounts
    /\ place = "users" => p # "my"
    /\ Mount(p) /\ UNCHANGED <<used, draft, stored, asked, calls, edits, sent, history>>

(* Groups of the administrator's settings are shown one at a time: the      *)
(* sections of the others lose their save flag, the page keeps the marks.   *)
ChangeGroup(p) ==
    /\ place \in Groups /\ p \in (Groups \intersect {Group[s] : s \in used}) \ {place} /\ asked = "none"
    /\ place' = p /\ saving' = {}
    /\ UNCHANGED <<used, draft, stored, fallback, mount, marks, asked, calls, edits, sent, history>>

(* The tabs of the administrator's page do not ask.                         *)
ChangeTab ==
    /\ place \in Groups /\ asked = "none"
    /\ place' = "users" /\ marks' = {} /\ saving' = {}
    /\ carried' = carried \union marks
    /\ UNCHANGED <<used, draft, stored, fallback, mount, asked, calls, edits, sent, were>>

(* Neither does what the user had created from a form over the page, or a   *)
(* contract on its way: the answer shows another page.                      *)
LeaveUnasked ==
    /\ place # "away"
    /\ place' = "away" /\ asked' = "none" /\ marks' = {} /\ saving' = {}
    /\ carried' = carried \union marks
    /\ UNCHANGED <<used, draft, stored, fallback, mount, calls, edits, sent, were>>

(* The menu asks the page first; with a mark set the page asks the user.    *)
Navigate(p) ==
    /\ place # "away" /\ p \in {"my", "away"} \ {place} /\ asked = "none"
    /\ IF marks # {}
       THEN asked' = p /\ UNCHANGED <<place, marks, saving>>
       ELSE asked' = "none" /\ place' = "away" /\ marks' = {} /\ saving' = {}
    /\ UNCHANGED <<used, draft, stored, fallback, mount, calls, edits, sent, history>>

Stay ==
    /\ asked # "none" /\ asked' = "none"
    /\ UNCHANGED <<used, draft, stored, fallback, place, mount, marks, saving, calls, edits, sent, history>>

(* Leaving without saving: marks are cleared and every draft returns to its *)
(* fallback.                                                                *)
Leave ==
    /\ asked # "none" /\ asked' = "none" /\ place' = "away"
    /\ marks' = {} /\ saving' = {}
    /\ draft' = fallback /\ carried' = {}
    /\ UNCHANGED <<used, stored, fallback, mount, calls, edits, sent, were>>

Next ==
    \/ StorageSection \/ CompletenessSection \/ NotificationsSection \/ RenewalsSection
    \/ OidcSection \/ BackupSection \/ SmtpSection
    \/ AppearanceSection \/ VisibleCategoriesSection
    \/ ChangeTab \/ LeaveUnasked \/ Stay \/ Leave
    \/ \E c \in calls : Handle(c) \/ Answer(c) \/ AnswerError(c)
    \/ \E p \in Places : Open(p) \/ ChangeGroup(p) \/ Navigate(p)

Spec == Init /\ [][Next]_vars

-----------------------------------------------------------------------------
(* Properties.                                                              *)

(* Every field has a value, and marks are those of the page's sections.     *)
TypeOK ==
    /\ used \in Usages /\ draft \in [Fields -> Values] /\ stored \in [Fields -> Values]
    /\ fallback \in [Fields -> Values] /\ place \in Places /\ mount \in 0..MaxMounts
    /\ marks \subseteq used /\ saving \subseteq Fields \union {"trigger"}
    /\ asked \in {"none", "my", "away"} /\ edits \in 0..MaxEdits /\ sent \in 0..MaxCalls
    /\ \A c \in calls : c.by \in Fields \union {"trigger"} /\ c.state \in {"sent", "done", "failed"}
    /\ were \in [Fields -> SUBSET Values] /\ carried \subseteq used

(* An edit that was never stored is marked: a global section shown as clean *)
(* shows a value the server has had, in whatever order saves of several     *)
(* sections are handled and answered, whatever is typed meanwhile, and      *)
(* after leaving.  What escapes is an edit left without being asked: by a   *)
(* change of the administrator's tab, or for a new license or contract.     *)
UnsavedEditsAreMarked ==
    \A s \in used \ Mine : s \notin marks \union carried => draft[s] \in were[s]

(* What leaving without saving returns to is never an unsaved edit, of this *)
(* section or another: it was on the server.                                *)
FallBackWasStored == \A s \in used \ {"categories"} : fallback[s] \in were[s]

=============================================================================
