------------------------------ MODULE ClientImport ------------------------------
(***************************************************************************)
(* The import page of the browser client: a file is chosen, its columns    *)
(* are mapped when it comes from another tool, its rows are previewed and  *)
(* decided, and the file is sent again to be imported.                     *)
(*                                                                         *)
(* The server keeps nothing between a preview and an import.  That what is *)
(* imported is what was previewed rests on the page, which holds the file, *)
(* the mapping, the update option and the preview in separate places.      *)
(***************************************************************************)
EXTENDS Naturals, FiniteSets

CONSTANTS
    Files,
    MaxRequests, MaxAstray, MaxMappings  \* bounds: requests sent by a user who
                                         \* waits and by one astray, mappings made

NoOne == "none"

(* The rows of a file: a license, a maintenance row whose parent the        *)
(* preview inferred to be the license, and a maintenance row that lacks a   *)
(* parent until the user decides about it.                                  *)
FileRows == {"parent", "child", "orphan"}
InferredParent == [r \in FileRows |-> IF r = "child" THEN "parent" ELSE "none"]

VARIABLES
    step,      \* upload, mapping, preview, importing, done
    source,    \* standard or external: the way chosen on the upload step
    file,      \* the file that an import would send
    loading,   \* whether the page is shown as loading
    analyzed,  \* whether the columns of a file are known
    mapping,   \* the mapping on the page, 0 before any
    updating,  \* the update option of each way
    preview,   \* what is previewed: number, file, option, way, mapping
    skipped,   \* rows not to be imported
    decided,   \* rows the user found a parent for, or imports without one
    sends, mappings,  \* counters; a preview has the number of its request
    requests,  \* requests under way
    astray,    \* history: the user went on before an answer had arrived, or
               \* after a preview with another option had failed
    imports    \* history: what the server imported for a user not astray

ivars == <<step, source, file, loading, analyzed, mapping, updating, preview, skipped, decided,
           sends, mappings, requests, astray, imports>>

Ways == {"standard", "external"}
NoPreview == [number |-> 0, file |-> NoOne, updates |-> FALSE, way |-> "standard", mapping |-> 0]

Init ==
    /\ step = "upload" /\ source = "standard" /\ file = NoOne /\ loading = FALSE
    /\ analyzed = FALSE /\ mapping = 0 /\ updating = [w \in Ways |-> FALSE]
    /\ preview = NoPreview /\ skipped = {} /\ decided = {}
    /\ sends = 0 /\ mappings = 0 /\ requests = {} /\ astray = FALSE /\ imports = {}

(* A request carries the file, the option and the mapping; one to import    *)
(* remembers what the user was looking at.                                  *)
Send(kind, f, updates, way, m) ==
    /\ sends < (IF astray THEN MaxAstray ELSE MaxRequests) /\ sends' = sends + 1
    /\ requests' = requests \union
         {[kind |-> kind, number |-> sends + 1, file |-> f, updates |-> updates, way |-> way,
           mapping |-> m, shown |-> IF kind = "import" THEN preview ELSE NoPreview,
           astray |-> astray \/ requests # {}, state |-> "sent"]}

(* The user does something; while a request is under way that goes astray.  *)
UserActs == astray' = (astray \/ requests # {})

-----------------------------------------------------------------------------
(* The upload step.                                                         *)

ChooseSource(w) ==
    /\ step = "upload" /\ w # source /\ source' = w /\ UserActs
    /\ UNCHANGED <<step, file, loading, analyzed, mapping, updating, preview, skipped, decided,
                   sends, mappings, requests, imports>>

(* A file picked, or dropped, which is also possible while another file is  *)
(* being read.                                                              *)
ChooseFile(f) ==
    /\ step = "upload" /\ file' = f /\ loading' = TRUE /\ UserActs
    /\ IF source = "external" THEN Send("analyze", f, TRUE, "external", 0)
       ELSE Send("preview", f, TRUE, "standard", 0)
    /\ UNCHANGED <<step, source, analyzed, mapping, updating, preview, skipped, decided, mappings, imports>>

-----------------------------------------------------------------------------
(* The mapping step.                                                        *)

(* A column mapped, skipped, taken back or given a new custom field.        *)
DecideColumns ==
    /\ step = "mapping" /\ mappings < MaxMappings
    /\ mappings' = mappings + 1 /\ mapping' = mappings + 1 /\ UserActs
    /\ UNCHANGED <<step, source, file, loading, analyzed, updating, preview, skipped, decided,
                   sends, requests, imports>>

PreviewMapped ==
    /\ step = "mapping" /\ ~loading /\ file # NoOne /\ analyzed
    /\ Send("preview", file, updating["external"], "external", mapping)
    /\ loading' = TRUE /\ UserActs
    /\ UNCHANGED <<step, source, file, analyzed, mapping, updating, preview, skipped, decided,
                   mappings, imports>>

-----------------------------------------------------------------------------
(* The preview step.                                                        *)

(* The option changes at once, and a preview with it is asked for.          *)
ToggleUpdate(next) ==
    /\ step = "preview" /\ next # updating[source]
    /\ updating' = [updating EXCEPT ![source] = next] /\ UserActs
    /\ IF source = "external" /\ (file = NoOne \/ ~analyzed)
       THEN UNCHANGED <<loading, sends, requests>>
       ELSE /\ loading' = TRUE
            /\ Send("preview", file, next, source, IF source = "external" THEN mapping ELSE 0)
    /\ UNCHANGED <<step, source, file, analyzed, mapping, preview, skipped, decided, mappings, imports>>

(* Skipping a row skips the rows whose inferred parent it is.               *)
WithDependents(rows) == rows \union {r \in FileRows : InferredParent[r] \in rows}

SkipRows(rows) ==
    /\ step = "preview" /\ rows # {} /\ rows \intersect skipped = {}
    /\ skipped' = skipped \union WithDependents(rows)
    /\ decided' = decided \ WithDependents(rows) /\ UserActs
    /\ UNCHANGED <<step, source, file, loading, analyzed, mapping, updating, preview,
                   sends, mappings, requests, imports>>

RestoreRow(r) ==
    /\ step = "preview" /\ r \in skipped /\ skipped' = skipped \ {r} /\ UserActs
    /\ UNCHANGED <<step, source, file, loading, analyzed, mapping, updating, preview, decided,
                   sends, mappings, requests, imports>>

(* A decision about a row without a parent; taking it back restores the row.*)
DecideRow ==
    /\ step = "preview" /\ UserActs
    /\ \/ "orphan" \notin decided /\ decided' = decided \union {"orphan"} /\ skipped' = skipped
       \/ "orphan" \in decided /\ decided' = decided \ {"orphan"} /\ skipped' = skipped \ {"orphan"}
    /\ UNCHANGED <<step, source, file, loading, analyzed, mapping, updating, preview,
                   sends, mappings, requests, imports>>

Importable == {r \in FileRows \ skipped : r = "orphan" => r \in decided}

(* The import sends what the page holds, by the way the page is on; without *)
(* a file nothing happens.                                                  *)
Confirm ==
    /\ step = "preview" /\ Importable # {} /\ file # NoOne
    /\ step' = "importing" /\ UserActs
    /\ IF source = "external" /\ analyzed
       THEN Send("import", file, updating["external"], "external", mapping)
       ELSE Send("import", file, updating["standard"], "standard", 0)
    /\ UNCHANGED <<source, file, loading, analyzed, mapping, updating, preview, skipped, decided,
                   mappings, imports>>

(* Cancel, or another import after one that is done.                        *)
Reset ==
    /\ step \in {"mapping", "preview", "done"}
    /\ step' = "upload" /\ file' = NoOne /\ analyzed' = FALSE /\ mapping' = 0
    /\ updating' = [w \in Ways |-> FALSE] /\ preview' = NoPreview /\ skipped' = {} /\ decided' = {}
    /\ astray' = (requests # {})
    /\ UNCHANGED <<source, loading, sends, mappings, requests, imports>>

-----------------------------------------------------------------------------
(* The server.  An answer may be lost after an import was written.          *)

Handle(q) ==
    /\ q.state = "sent"
    /\ \E result \in {"done", "refused", "lost"} :
        /\ requests' = (requests \ {q}) \union
             {[q EXCEPT !.state = IF result = "done" THEN "done" ELSE "failed"]}
        /\ imports' = IF q.kind = "import" /\ ~q.astray /\ result # "refused"
                      THEN imports \union {[q EXCEPT !.state = result]} ELSE imports
    /\ UNCHANGED <<step, source, file, loading, analyzed, mapping, updating, preview, skipped, decided,
                   sends, mappings, astray>>

-----------------------------------------------------------------------------
(* Answers, in any order.                                                   *)

Arrives(kind, q) == q.kind = kind /\ q.state # "sent" /\ requests' = requests \ {q}

(* A preview replaces the one on screen and the decisions about its rows;   *)
(* one by the standard way also sets the option to the one it was asked     *)
(* with.  Files here have the column of references: for one without it the  *)
(* page takes the option off, and there is nothing that it would update.    *)
AnswerPreview(q) ==
    /\ Arrives("preview", q) /\ loading' = FALSE
    /\ astray' = (astray \/ (q.state = "failed" /\ step = "preview"))
    /\ IF q.state = "failed" THEN UNCHANGED <<step, updating, preview, skipped, decided>>
       ELSE /\ step' = "preview" /\ skipped' = {} /\ decided' = {}
            /\ preview' = [number |-> q.number, file |-> q.file, updates |-> q.updates,
                           way |-> q.way, mapping |-> q.mapping]
            /\ updating' = IF q.way = "standard" THEN [updating EXCEPT !["standard"] = q.updates]
                           ELSE updating
    /\ UNCHANGED <<source, file, analyzed, mapping, sends, mappings, imports>>

(* The analysis sets up the mapping, from a saved one if that was chosen.   *)
AnswerAnalyze(q) ==
    /\ Arrives("analyze", q) /\ loading' = FALSE
    /\ IF q.state = "failed" THEN UNCHANGED <<step, analyzed, mapping, updating>>
       ELSE step' = "mapping" /\ analyzed' = TRUE /\ mapping' = 0
            /\ updating' = [updating EXCEPT !["external"] = TRUE]
    /\ UNCHANGED <<source, file, preview, skipped, decided, sends, mappings, astray, imports>>

(* After an error the user is back at the preview, or at the mapping.       *)
AnswerImport(q) ==
    /\ Arrives("import", q)
    /\ step' = IF q.state = "done" THEN "done" ELSE IF q.way = "external" THEN "mapping" ELSE "preview"
    /\ UNCHANGED <<source, file, loading, analyzed, mapping, updating, preview, skipped, decided,
                   sends, mappings, astray, imports>>

Next ==
    \/ DecideColumns \/ PreviewMapped \/ DecideRow \/ Confirm \/ Reset
    \/ \E w \in Ways : ChooseSource(w)
    \/ \E f \in Files : ChooseFile(f)
    \/ \E b \in BOOLEAN : ToggleUpdate(b)
    \/ \E rows \in {{"parent"}, {"child", "orphan"}} : SkipRows(rows)
    \/ \E r \in FileRows : RestoreRow(r)
    \/ \E q \in requests : Handle(q) \/ AnswerPreview(q) \/ AnswerAnalyze(q) \/ AnswerImport(q)

Spec == Init /\ [][Next]_ivars

-----------------------------------------------------------------------------
(* Properties.                                                              *)

TypeOK ==
    /\ step \in {"upload", "mapping", "preview", "importing", "done"}
    /\ source \in Ways /\ file \in Files \union {NoOne}
    /\ updating \in [Ways -> BOOLEAN] /\ mapping \in 0..mappings
    /\ preview.number \in 0..sends /\ preview.file \in Files \union {NoOne}
    /\ skipped \subseteq FileRows /\ decided \subseteq {"orphan"}
    /\ Cardinality(requests) <= sends /\ sends \in 0..MaxRequests \union 0..MaxAstray

Asked(x) == [file |-> x.file, updates |-> x.updates, way |-> x.way, mapping |-> x.mapping]

(* A user who waits for each answer and stops at a preview that failed      *)
(* imports what was on the preview: that file, that mapping, that option,   *)
(* whatever files, mappings and options were tried before and whatever      *)
(* import failed; and imports a preview once, unless the answer to an       *)
(* import was lost.                                                         *)
PatientImports ==
    \A i \in imports :
        /\ Asked(i) = Asked(i.shown)
        /\ \A j \in imports : i # j /\ j.shown = i.shown => "lost" \in {i.state, j.state}

=============================================================================
