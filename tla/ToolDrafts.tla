----------------------------- MODULE ToolDrafts -----------------------------
(***************************************************************************)
(* The workflows of a project as the public tools use them: a draft is     *)
(* prepared from a template version and the user's values, perhaps edited, *)
(* run, and its run repeated; stale drafts that were never run are deleted *)
(* by a clean-up.                                                          *)
(*                                                                         *)
(* A request is one database transaction.  An update, a start and a        *)
(* clean-up decide on what they read about workflows and runs together, so *)
(* each is a Begin that reads and a second step that writes.               *)
(* Document.save refuses a workflow that was saved or deleted since,       *)
(* delete_doc does not look.  The others either only insert, from rows     *)
(* that do not change any more, or save the one row they read: one step.   *)
(***************************************************************************)
EXTENDS ToolForm

CONSTANTS
  Versions,     \* the AI Workflow Template Versions of one template
  Catalogs,     \* what they may contain: functions of Versions
  Submissions,  \* the values a user may submit, by input id or (legacy) target
  Drawings,     \* what a user may save from the canvas: a config and a status
  Workflows,    \* bound: the workflows that can be created
  Runs,         \* bound: the runs that can be started
  Limit,        \* rows of one clean-up
  Slots         \* transactions that can be in flight at once

ASSUME DraftsAssumption ==
  /\ Limit \in Nat \ {0} /\ "none" \notin Versions \cup Workflows
  /\ \A some \in Catalogs, v \in Versions :
       /\ some[v].base \in Config /\ Len(some[v].fields) \in Nat
       /\ DOMAIN some[v].fields = 1..Len(some[v].fields)
       /\ \A i \in DOMAIN some[v].fields : TypedField(some[v].fields[i])
       /\ WellFormed(some[v].fields, some[v].base)
  /\ \A values \in Submissions : \A id \in DOMAIN values : values[id] \in Raw
  /\ \A drawing \in Drawings : drawing.config \in Config /\ drawing.status \in {"DRAFT", "ACTIVE"}

VARIABLES
  catalog,    \* the template versions: immutable
  workflows,  \* the AI Workflow rows, by name
  older,      \* the pairs of rows whose first was modified before the second
  runs,       \* the AI Workflow Runs, with what their AI Workflow Version froze
  txn         \* the transaction in each slot

vars == <<catalog, workflows, older, runs, txn>>

NoWorkflow == [status |-> "none"]
Deleted == [status |-> "deleted"]
Workflow == [status : {"DRAFT", "ACTIVE"}, marked : BOOLEAN,
             source_template_version : Versions \cup {"none"}, config : Config,
             prepared : {"fresh", "stale"},  \* tool_draft_prepared_at against the cutoff
             drawn : BOOLEAN]                \* history: saved from the canvas

NoRun == [workflow |-> "none"]
Run == [workflow : Workflows, source_template_version : Versions \cup {"none"}, config : Config]

Idle == [service |-> "none"]
Txn == [service : {"update"}, workflow : Workflows,
        behind : BOOLEAN]  \* the row was saved or deleted since
  \cup [service : {"start"}, workflow : Workflows, draft : Run]
  \cup [service : {"cleanup"}, gone : SUBSET Workflows, seen : SUBSET Runs]

Exists(row) == row \notin {NoWorkflow, Deleted}
Rows == {w \in Workflows : Exists(workflows[w])}

TypeOK ==
  /\ catalog \in Catalogs
  /\ workflows \in [Workflows -> Workflow \cup {NoWorkflow, Deleted}]
  /\ older \subseteq Rows \X Rows
  /\ \A v, w \in Rows : <<v, w>> \in older <=> v # w /\ <<w, v>> \notin older
  /\ runs \in [Runs -> Run \cup {NoRun}]
  /\ txn \in [Slots -> Txn \cup {Idle}]

Init ==
  /\ catalog \in Catalogs
  /\ workflows = [w \in Workflows |-> NoWorkflow] /\ older = {}
  /\ runs = [r \in Runs |-> NoRun]
  /\ txn = [t \in Slots |-> Idle]

-----------------------------------------------------------------------------
(* Transactions. *)

Begin(t, read) ==
  /\ txn[t] = Idle
  /\ txn' = [txn EXCEPT ![t] = read]
  /\ UNCHANGED <<catalog, workflows, older, runs>>

Serving(t, service) == txn[t].service = service

(* The rows ws are saved or deleted: an update of one of them is too late. *)
Overtake(ws) ==
  [s \in Slots |-> IF Serving(s, "update") /\ txn[s].workflow \in ws
                  THEN [txn[s] EXCEPT !.behind = TRUE] ELSE txn[s]]

Commit(t, ws) == txn' = [Overtake(ws) EXCEPT ![t] = Idle]

(* A request that refuses, is refused, or dies. *)
Raise(t) ==
  /\ txn[t] # Idle
  /\ txn' = [txn EXCEPT ![t] = Idle]
  /\ UNCHANGED <<catalog, workflows, older, runs>>

Form(v) == Schema(catalog[v].fields)
HasRun(w) == \E r \in Runs : runs[r].workflow = w

(* check_if_latest *)
Latest(t) == ~txn[t].behind

(* The order of the rows when w is the one modified last. *)
Youngest(w) == {p \in older : w \notin {p[1], p[2]}} \cup ((Rows \ {w}) \X {w})

-----------------------------------------------------------------------------
(* save_workflow: insert, or save of the whole row. *)

Insert(row) ==
  \E w \in Workflows :
    /\ workflows[w] = NoWorkflow
    /\ workflows' = [workflows EXCEPT ![w] = row]
    /\ older' = Youngest(w)
    /\ UNCHANGED <<catalog, runs>>

Save(w, row) ==
  /\ workflows' = [workflows EXCEPT ![w] = row]
  /\ older' = Youngest(w)
  /\ UNCHANGED <<catalog, runs>>

Draft(v, config, marked) ==
  [status |-> "DRAFT", marked |-> marked, source_template_version |-> v, config |-> config,
   prepared |-> "fresh", drawn |-> FALSE]

(* From the canvas: any config, by whoever may edit the project.  What     *)
(* marks a tool draft and its lineage are left alone.                      *)
SaveWorkflow(drawing) ==
  \/ /\ Insert([Draft("none", drawing.config, FALSE) EXCEPT !.status = drawing.status, !.drawn = TRUE])
     /\ UNCHANGED txn
  \/ \E w \in Workflows :
       /\ Exists(workflows[w])
       /\ Save(w, [workflows[w] EXCEPT !.config = drawing.config, !.status = drawing.status,
                                      !.drawn = TRUE])
       /\ txn' = Overtake({w})

(* v is the version that was offered (see TemplateReview). *)
CreateWorkflowFromTemplate(v) == Insert(Draft(v, catalog[v].base, FALSE)) /\ UNCHANGED txn

(* The configs that the form, or without one the allow-list, makes of base. *)
Filled(base, form, values, readable) ==
  IF form # <<>>
  THEN IF Applicable(base, form, values, readable) THEN {Applied(base, form, values)} ELSE {}
  ELSE IF LegacyApplicable(base, values, readable) THEN {LegacyApplied(base, values)} ELSE {}

PrepareWorkflowFromTemplate(v, values, readable) ==
  \E config \in Filled(catalog[v].base, Form(v), values, readable) :
    Insert(Draft(v, config, TRUE)) /\ UNCHANGED txn

(* The version the run was made of, filled with what the run's workflow    *)
(* holds now.                                                              *)
PrepareRerunFromRun(r, readable) ==
  /\ runs[r] # NoRun /\ runs[r].source_template_version # "none"
  /\ Exists(workflows[runs[r].workflow])
  /\ LET v == runs[r].source_template_version
         values == Extracted(workflows[runs[r].workflow].config, Form(v))
     IN \E config \in IF Form(v) = <<>> THEN {catalog[v].base}
                      ELSE Filled(catalog[v].base, Form(v), values, readable) :
          Insert(Draft(v, config, TRUE)) /\ UNCHANGED txn

(* Mutant of Unrun: nobody looks for runs. *)
AnyWorkflow(w) == Exists(workflows[w])

Unrun(w) == Exists(workflows[w]) /\ ~HasRun(w)

(* Any draft with a lineage that has no run, whether marked or not. *)
UpdateBegin(t, w) ==
  /\ Unrun(w) /\ workflows[w].source_template_version # "none"
  /\ Begin(t, [service |-> "update", workflow |-> w, behind |-> FALSE])

UpdateRerunDraftValues(t, values, readable) ==
  /\ Serving(t, "update") /\ Latest(t)
  /\ LET row == workflows[txn[t].workflow] IN
     \E config \in Filled(row.config, Form(row.source_template_version), values, readable) :
       Save(txn[t].workflow, [row EXCEPT !.config = config])
  /\ Commit(t, {txn[t].workflow})

-----------------------------------------------------------------------------
(* start_run: version and run are frozen from the snapshot, and set_value  *)
(* writes current_version into the workflow, if there still is one.        *)

Touched(w) == {x \in {w} : Exists(workflows[x])}

StartBegin(t, w) ==
  /\ Exists(workflows[w])
  /\ Begin(t, [service |-> "start", workflow |-> w,
               draft |-> [workflow |-> w, config |-> workflows[w].config,
                          source_template_version |-> workflows[w].source_template_version]])

StartRun(t) ==
  /\ Serving(t, "start")
  /\ LET w == txn[t].workflow IN
     /\ \E r \in Runs : runs[r] = NoRun /\ runs' = [runs EXCEPT ![r] = txn[t].draft]
     /\ older' = IF Touched(w) = {} THEN older ELSE Youngest(w)
     /\ Commit(t, Touched(w))
  /\ UNCHANGED <<catalog, workflows>>

-----------------------------------------------------------------------------
(* cleanup_stale_tool_drafts. *)

Marked == {w \in Rows : workflows[w].status = "DRAFT" /\ workflows[w].marked}

(* The first rows in the order of modification. *)
Batch == {w \in Marked : Cardinality({v \in Marked : <<v, w>> \in older}) < Limit}

(* Mutant of Disposable: runs are not looked for. *)
Old(w) == workflows[w].prepared = "stale"

(* Lineage, age, runs and (made together with them) workflow versions. *)
Disposable(w) ==
  /\ workflows[w].source_template_version # "none"
  /\ workflows[w].prepared = "stale"
  /\ ~HasRun(w)

(* With dry_run nothing is deleted: as Raise. *)
CleanupBegin(t) ==
  Begin(t, [service |-> "cleanup", gone |-> {w \in Batch : Disposable(w)},
            seen |-> {r \in Runs : runs[r] # NoRun}])

CleanupStaleToolDrafts(t) ==
  /\ Serving(t, "cleanup")
  /\ workflows' = [w \in Workflows |-> IF w \in txn[t].gone THEN Deleted ELSE workflows[w]]
  /\ older' = {p \in older : p[1] \notin txn[t].gone /\ p[2] \notin txn[t].gone}
  /\ Commit(t, txn[t].gone)
  /\ UNCHANGED <<catalog, runs>>

-----------------------------------------------------------------------------
(* Hours pass; only marked rows have a tool_draft_prepared_at. *)

Age(w) ==
  /\ Exists(workflows[w]) /\ workflows[w].marked /\ workflows[w].prepared = "fresh"
  /\ workflows' = [workflows EXCEPT ![w].prepared = "stale"]
  /\ UNCHANGED <<catalog, older, runs, txn>>

Next ==
  \/ \E drawing \in Drawings : SaveWorkflow(drawing)
  \/ \E v \in Versions : CreateWorkflowFromTemplate(v)
  \/ \E readable \in SUBSET DOMAIN AssetType :
       \/ \E v \in Versions, values \in Submissions :
            PrepareWorkflowFromTemplate(v, values, readable)
       \/ \E r \in Runs : PrepareRerunFromRun(r, readable)
       \/ \E t \in Slots, values \in Submissions : UpdateRerunDraftValues(t, values, readable)
  \/ \E t \in Slots :
       \/ \E w \in Workflows : UpdateBegin(t, w) \/ StartBegin(t, w)
       \/ CleanupBegin(t) \/ StartRun(t) \/ CleanupStaleToolDrafts(t) \/ Raise(t)
  \/ \E w \in Workflows : Age(w)

Spec == Init /\ [][Next]_vars

-----------------------------------------------------------------------------
(* A tool draft nobody drew in differs from its template version only      *)
(* where the form lets it: at a declared target, with a value the field    *)
(* accepts and of the type it converts to, or at the type beside an asset; *)
(* and no required input is blank.  An update starts from the draft, a     *)
(* rerun from another one: this holds after any sequence of them.          *)
DraftFollowsForm ==
  \A w \in Workflows :
    Exists(workflows[w]) /\ workflows[w].marked /\ ~workflows[w].drawn =>
      LET v == workflows[w].source_template_version
          form == Form(v)
          config == workflows[w].config
      IN /\ \A t \in Targets : config[t] # catalog[v].base[t] =>
              \/ \E i \in DOMAIN form :
                   \/ /\ form[i].target = t
                      /\ Accepted(form[i], config[t], DOMAIN AssetType)
                      /\ Converted(form[i].type, config[t]) = config[t]
                   \/ Beside[form[i].target] = t
              \/ form = <<>> /\ LegacyKind[t] # "none" /\ t \notin Unsafe
         /\ \A i \in DOMAIN form : form[i].required => ~Blank(config[form[i].target])

(* A tool run can be repeated: as long as its draft still is what was run, *)
(* and the template's own values would pass its form, what the form reads  *)
(* out of the draft is accepted again and gives the config of the run.     *)
RunCanBeRepeated ==
  \A r \in Runs : runs[r] # NoRun =>
    LET row == workflows[runs[r].workflow]
        v == runs[r].source_template_version
    IN Exists(row) /\ row.marked /\ ~row.drawn /\ row.config = runs[r].config
       /\ OneWriter(Form(v)) /\ Form(v) # <<>> /\ Conforming(Form(v), catalog[v].base)
         => LET values == Extracted(row.config, Form(v)) IN
            /\ Applicable(catalog[v].base, Form(v), values, DOMAIN AssetType)
            /\ Applied(catalog[v].base, Form(v), values) = runs[r].config

(* The form's values of a draft change only while it has no run: an update *)
(* that read the draft before a run was started is refused when it saves,  *)
(* because the start touched the row.                                      *)
UpdatedBeforeAnyRun ==
  [][\A w \in Workflows :
       Exists(workflows[w]) /\ Exists(workflows'[w]) /\ HasRun(w)
       /\ workflows'[w].config # workflows[w].config
         => workflows'[w].drawn]_vars

(* The clean-up deletes a draft only if it is a stale tool draft that had  *)
(* no run when the clean-up began: a run that loses its workflow was       *)
(* started while the clean-up was at work.                                 *)
CleanupSparesUsedDrafts ==
  [][\A w \in Workflows :
       Exists(workflows[w]) /\ workflows'[w] = Deleted =>
         /\ workflows[w].marked /\ workflows[w].prepared = "stale"
         /\ \E t \in Slots :
              /\ Serving(t, "cleanup") /\ txn'[t] = Idle
              /\ \A r \in txn[t].seen : runs[r].workflow # w]_vars
=============================================================================
