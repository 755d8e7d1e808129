----------------------------- MODULE ClientReaders -----------------------------
(***************************************************************************)
(* The parts of the browser client that show what the server holds about   *)
(* the record the user has selected: a license's documents, custom fields, *)
(* suggestions and history, a contract's files, an endpoint's deliveries.  *)
(*                                                                         *)
(* Such a reader stays on screen when another record is selected, so the   *)
(* answer to a read may arrive when it is no longer about the record       *)
(* shown, or after the answer to a later read.  What a reader does then is *)
(* a record of rules.                                                      *)
(***************************************************************************)
EXTENDS Naturals, FiniteSets

CONSTANTS
    Records, None,
    MaxReads, MaxSelects, MaxChanges  \* bounds: reads, selections, changes

ASSUME NoneAssumption == None \notin Records

(* The rules of a reader:                                                   *)
(*   takes   which answers it takes: "newest" the one to its last read,     *)
(*           "ofRecord" that one if it is about the record selected, "open" *)
(*           those its code asked for since the record was selected,        *)
(*           "cache" the one to the last read of that record, into an entry *)
(*           of its own, "any" all of them                                  *)
(*   empties whether selecting a record empties it                          *)
(*   acts    whether the user can change the record from it; when that is   *)
(*           answered it reads again the record the change was made to      *)
(*   spins   whether that read is shown as loading                          *)
(*   polls   whether it also reads again without showing that it does       *)
(*   pulls   whether it also selects that record again                      *)
Reader == [takes |-> "newest", empties |-> TRUE, acts |-> FALSE, spins |-> FALSE,
           polls |-> FALSE, pulls |-> FALSE]
OfRecord == [Reader EXCEPT !.takes = "ofRecord", !.acts = TRUE, !.spins = TRUE]
Opened == [Reader EXCEPT !.takes = "open"]
Cached == [Reader EXCEPT !.takes = "cache", !.empties = FALSE]
Unguarded == [Reader EXCEPT !.takes = "any", !.empties = FALSE]

(* The panel of a license.                                                  *)
Documents == [OfRecord EXCEPT !.spins = FALSE]
ProcessingResults == [OfRecord EXCEPT !.polls = TRUE]
PluginSuggestions == [OfRecord EXCEPT !.polls = TRUE]
MaintenanceHistory == OfRecord
CustomFields == [Reader EXCEPT !.empties = FALSE, !.acts = TRUE, !.spins = TRUE]
PluginActions == Opened
ProcurementTrail == Cached
DocumentPreview == Reader
LocalDocumentPreview == Opened

(* Contracts, settings and administration.                                  *)
ContractFiles == [Opened EXCEPT !.acts = TRUE]
MergePreview == Reader
ReferenceOptions == Cached
ContactOptions == Cached
ReferenceList == [Cached EXCEPT !.acts = TRUE]
WebhookDeliveries == [Unguarded EXCEPT !.acts = TRUE, !.spins = TRUE, !.pulls = TRUE]
PluginSettings == Unguarded
AuditEntries == Unguarded

Rule ==
    [documents |-> Documents, processingResults |-> ProcessingResults,
     pluginSuggestions |-> PluginSuggestions, maintenanceHistory |-> MaintenanceHistory,
     customFields |-> CustomFields, pluginActions |-> PluginActions,
     procurementTrail |-> ProcurementTrail, documentPreview |-> DocumentPreview,
     localPreview |-> LocalDocumentPreview, contractFiles |-> ContractFiles,
     mergePreview |-> MergePreview, referenceOptions |-> ReferenceOptions,
     contactOptions |-> ContactOptions, referenceList |-> ReferenceList,
     deliveries |-> WebhookDeliveries, pluginSettings |-> PluginSettings,
     auditEntries |-> AuditEntries]

Kinds == DOMAIN Rule

VARIABLES
    reader,    \* the reader this user works with
    selected,  \* the record selected, or None
    shown,     \* what is on screen: of which record, in which version
    loading,   \* whether it is shown as loading
    cache,     \* what the query cache holds of each record, 0 for nothing
    reads, selects, changes,  \* counters; the last read has the number reads
    lastOf,    \* the number of the last read of each record
    newest,    \* the fate of the last read: about which record, how it ended
    version,   \* the server's version of each record
    mine,      \* the version this user's last change of a record made
    requests   \* reads and changes under way

rvars == <<reader, selected, shown, loading, cache, reads, selects, changes, lastOf, newest,
           version, mine, requests>>

rule == Rule[reader]
Nothing == [of |-> None, version |-> 0]

Init ==
    /\ reader \in Kinds /\ selected = None /\ shown = Nothing /\ loading = FALSE
    /\ cache = [r \in Records |-> 0] /\ reads = 0 /\ selects = 0 /\ changes = 0
    /\ lastOf = [r \in Records |-> 0] /\ newest = [of |-> None, end |-> "dropped"]
    /\ version = [r \in Records |-> 1] /\ mine = [r \in Records |-> 0]
    /\ requests = {}

(* A read of r is sent, by the code of the given selection, and is shown as *)
(* loading or not.                                                          *)
ReadOf(r, selection, spins) ==
    [kind |-> "read", id |-> reads + 1, of |-> r, selection |-> selection, spins |-> spins,
     state |-> "sent", version |-> 0]

SendRead(r, selection, spins, others) ==
    /\ reads < MaxReads /\ reads' = reads + 1 /\ loading' = (loading \/ spins)
    /\ requests' = others \union {ReadOf(r, selection, spins)}
    /\ lastOf' = [lastOf EXCEPT ![r] = reads + 1]
    /\ newest' = [of |-> r, end |-> "open"]

-----------------------------------------------------------------------------
(* The user and the rest of the world.                                      *)

WhenSelected(r) ==
    IF rule.takes = "cache" /\ cache[r] # 0 THEN [of |-> r, version |-> cache[r]]
    ELSE IF rule.takes = "cache" \/ rule.empties THEN Nothing ELSE shown

(* The effect of a selection reads the record.                              *)
Select(r) ==
    /\ r # selected /\ selects < MaxSelects
    /\ selects' = selects + 1 /\ selected' = r /\ shown' = WhenSelected(r)
    /\ SendRead(r, selects + 1, TRUE, requests)
    /\ UNCHANGED <<reader, cache, changes, version, mine>>

(* Leaving the record: the reader goes, and a number is used up so that no  *)
(* answer is taken.                                                         *)
Deselect ==
    /\ selected # None /\ reads < MaxReads
    /\ selected' = None /\ shown' = Nothing /\ loading' = FALSE
    /\ reads' = reads + 1 /\ newest' = [of |-> None, end |-> "dropped"]
    /\ UNCHANGED <<reader, cache, selects, changes, lastOf, version, mine, requests>>

(* A refresh of the user's, a poll, an event of another part of the page;   *)
(* what an effect reads and nobody changes from here has none of these.     *)
Reload ==
    /\ selected # None
    /\ \E spins \in IF rule.polls THEN BOOLEAN ELSE {TRUE} :
          SendRead(selected, selects, spins, requests)
    /\ rule.takes = "open" => rule.acts
    /\ UNCHANGED <<reader, selected, shown, cache, selects, changes, version, mine>>

(* The user changes the record from here: an upload, a review, a save.      *)
Act ==
    /\ rule.acts /\ selected # None /\ changes < MaxChanges
    /\ changes' = changes + 1
    /\ requests' = requests \union {[kind |-> "change", id |-> changes, of |-> selected, selection |-> selects,
                                     spins |-> FALSE, state |-> "sent", version |-> 0]}
    /\ UNCHANGED <<reader, selected, shown, loading, cache, reads, selects, lastOf, newest,
                   version, mine>>

(* Somebody else changes a record.                                          *)
Change(r) ==
    /\ changes < MaxChanges /\ changes' = changes + 1
    /\ version' = [version EXCEPT ![r] = @ + 1]
    /\ UNCHANGED <<reader, selected, shown, loading, cache, reads, selects, lastOf, newest,
                   mine, requests>>

-----------------------------------------------------------------------------
(* The server handles requests in any order.                                *)

Handle(q) ==
    /\ q.state = "sent"
    /\ \/ /\ q.kind = "read" /\ version' = version
          /\ requests' = (requests \ {q}) \union
               {[q EXCEPT !.state = "done", !.version = version[q.of]]}
       \/ /\ q.kind = "change" /\ version' = [version EXCEPT ![q.of] = @ + 1]
          /\ requests' = (requests \ {q}) \union
               {[q EXCEPT !.state = "done", !.version = version[q.of] + 1]}
       \/ /\ version' = version
          /\ requests' = (requests \ {q}) \union {[q EXCEPT !.state = "failed"]}
    /\ UNCHANGED <<reader, selected, shown, loading, cache, reads, selects, changes, lastOf, newest,
                   mine>>

-----------------------------------------------------------------------------
(* Answers.                                                                 *)

(* The first answer counts as well as the last.                             *)
BadTaken(q) ==
    /\ selected # None
    /\ CASE rule.takes = "newest" -> TRUE
         [] rule.takes = "ofRecord" -> q.of = selected
         [] rule.takes = "open" -> q.selection = selects
         [] rule.takes = "cache" -> q.id = lastOf[q.of]
         [] rule.takes = "any" -> TRUE

Taken(q) ==
    /\ selected # None
    /\ CASE rule.takes = "newest" -> q.id = reads
         [] rule.takes = "ofRecord" -> q.id = reads /\ q.of = selected
         [] rule.takes = "open" -> q.selection = selects
         [] rule.takes = "cache" -> q.id = lastOf[q.of]
         [] rule.takes = "any" -> TRUE

(* A read that failed leaves what is shown.  A read that was shown as       *)
(* loading ends the loading, failed or not; one that was not leaves it as   *)
(* it is, also when it came in the way of one that was.  The cache ends it  *)
(* with any answer about the record selected.                               *)
TakeRead(q) ==
    /\ loading' = (loading /\ IF rule.takes = "cache" THEN q.of # selected ELSE ~q.spins)
    /\ IF q.state = "failed" THEN UNCHANGED <<shown, cache>>
       ELSE IF rule.takes = "cache"
       THEN /\ cache' = [cache EXCEPT ![q.of] = q.version]
            /\ shown' = IF q.of = selected THEN [of |-> q.of, version |-> q.version] ELSE shown
       ELSE shown' = [of |-> q.of, version |-> q.version] /\ cache' = cache

AnswerRead(q) ==
    /\ q.kind = "read" /\ q.state # "sent"
    /\ requests' = requests \ {q}
    /\ newest' = IF q.id = reads THEN [newest EXCEPT !.end = q.state] ELSE newest
    /\ IF Taken(q) THEN TakeRead(q) ELSE UNCHANGED <<shown, loading, cache>>
    /\ UNCHANGED <<reader, selected, reads, selects, changes, lastOf, version, mine>>

(* The change was made: the code that goes on reads the record it was made  *)
(* to, which need not be the one selected now.                              *)
AnswerChange(q) ==
    /\ q.kind = "change" /\ q.state = "done"
    /\ mine' = [mine EXCEPT ![q.of] = q.version]
    /\ IF selected = None
       THEN requests' = requests \ {q} /\ UNCHANGED <<selected, loading, reads, lastOf, newest>>
       ELSE /\ SendRead(q.of, q.selection, rule.spins, requests \ {q})
            /\ selected' = IF rule.pulls THEN q.of ELSE selected
    /\ UNCHANGED <<reader, shown, cache, selects, changes, version>>

AnswerChangeFailed(q) ==
    /\ q.kind = "change" /\ q.state = "failed" /\ requests' = requests \ {q}
    /\ UNCHANGED <<reader, selected, shown, loading, cache, reads, selects, changes, lastOf, newest,
                   version, mine>>

Next ==
    \/ Deselect \/ Reload \/ Act
    \/ \E r \in Records : Select(r) \/ Change(r)
    \/ \E q \in requests : Handle(q) \/ AnswerRead(q) \/ AnswerChange(q) \/ AnswerChangeFailed(q)

Spec == Init /\ [][Next]_rvars

-----------------------------------------------------------------------------
(* Properties.                                                              *)

(* Nothing is shown of a version the server never had, and nothing at all   *)
(* when no record is selected.                                              *)
TypeOK ==
    /\ reader \in Kinds /\ selected \in Records \union {None}
    /\ selected = None => shown = Nothing /\ ~loading
    /\ shown # Nothing => shown.of \in Records /\ shown.version \in 1..version[shown.of]
    /\ reads \in 0..MaxReads /\ selects \in 0..MaxSelects /\ changes \in 0..MaxChanges
    /\ \A r \in Records : cache[r] \in 0..version[r] /\ lastOf[r] \in 0..reads /\ mine[r] \in 0..version[r]
    /\ newest.of \in Records \union {None}
    /\ \A q \in requests : q.of \in Records /\ q.version \in 0..version[q.of]

(* The readers nothing guards, and those that do not number their reads.    *)
Careless == {"deliveries", "pluginSettings", "auditEntries"}
Unnumbered == Careless \union {"contractFiles", "pluginActions", "localPreview"}

(* However often the user changes the selection, and whatever arrives late, *)
(* a guarded reader shows the record selected or nothing; except for the    *)
(* custom fields, which are not emptied and take a refresh of any license.  *)
ShowsTheSelected ==
    reader \notin Careless \union {"customFields"} => shown.of \in {None, selected}

(* The readers that read without showing it.                                *)
Quiet == {"documents", "processingResults", "pluginSuggestions"}

(* When nothing is under way and the last read was of the record selected   *)
(* and succeeded, a reader that numbers its reads shows that record, with   *)
(* this user's last change to it, and unless it also reads quietly no       *)
(* longer as loading.                                                       *)
OwnChangesAreShown ==
    /\ reader \notin Unnumbered /\ requests = {} /\ selected # None
    /\ newest = [of |-> selected, end |-> "done"]
    => /\ shown.of = selected /\ shown.version >= mine[selected]
       /\ reader \notin Quiet => ~loading

(* "ignores stale responses after the selected license changes": the custom *)
(* fields that come to be shown are those of the license selected.          *)
StaleResponsesAreIgnored ==
    [][reader = "customFields" /\ shown' # shown => shown'.of \in {None, selected'}]_rvars

=============================================================================
