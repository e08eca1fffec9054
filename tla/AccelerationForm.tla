--------------------------- MODULE AccelerationForm ---------------------------
(***************************************************************************)
(* The form that builds the statement for a new acceleration               *)
(* (public/components/acceleration): the selectors of the source, the      *)
(* settings, and the builder of the definition, all of which write into    *)
(* one accelerationFormData and keep what they show in states of their     *)
(* own.  Three queries fill the selectors, and their answers come late.    *)
(*                                                                         *)
(* A table has two fields, "a" and the timestamp "b".  A number is one     *)
(* that parseInt did not read ("nan"), one below the minimum ("low") or    *)
(* another ("ok").  The errors under the fields (formErrors) are left out: *)
(* copyToEditor computes them anew and nothing else reads them.  After     *)
(* copyToEditor the flyout is closed and its states are gone.              *)
(***************************************************************************)
EXTENDS Naturals, SequencesExt

CONSTANTS
  Sources,    \* the S3 connections
  Databases, SourceOf,    \* and the source each is in
  Tables, DatabaseOf,     \* and the database each is in
  Editable,   \* the settings the user touches
  MaxPicks,   \* bound on the user's picks of a source, a database or a table
  MaxEdits,   \* bound on the user's other changes
  None

ASSUME SourceAssumption ==
  /\ SourceOf \in [Databases -> Sources]
  /\ DatabaseOf \in [Tables -> Databases]
  /\ None \notin Sources \cup Databases \cup Tables
ASSUME BoundAssumption == MaxPicks \in Nat /\ MaxEdits \in Nat

VARIABLES
  form,           \* accelerationFormData
  shown,          \* the states of the selectors, the settings and the builder
  connections,    \* the list of sources is there
  databasesOf,    \* the source whose databases are offered
  tablesOf,       \* the database whose tables are offered
  databasesLoads, \* SHOW SCHEMAS in flight, by source
  tablesLoads,    \* SHOW TABLES in flight, by source and database
  describing,     \* DESC in flight, each with the form its callback closes over
  spin,           \* loadingComboBoxes.database, .dataTable, and loading
  lost,           \* some query has been lost
  query,          \* the statement copied to the editor
  picks, edits

loadVars == <<databasesOf, tablesOf, databasesLoads, tablesLoads, describing, spin>>
formVars == <<form, shown, connections, loadVars, lost, query, picks, edits>>

Fields == Tables \X {"a", "b"}
FieldsOf(t) == {<<t, "a">>, <<t, "b">>}

Numbers == {"nan", "low", "ok"}
Values == [primaryShardsCount |-> Numbers, replicaShardsCount |-> Numbers,
           refreshType |-> {"auto", "interval", "manual"},
           refreshWindow |-> Numbers, refreshInterval |-> {"second", "minute"},
           checkpointLocation |-> {"", "invalid", "valid"},
           delayWindow |-> Numbers, delayInterval |-> {"second", "minute"}]
Keys == DOMAIN Values
ASSUME EditableAssumption == Editable \subseteq Keys

DefaultSettings ==
  [primaryShardsCount |-> "ok", replicaShardsCount |-> "ok", refreshType |-> "auto",
   refreshWindow |-> "ok", refreshInterval |-> "second", checkpointLocation |-> "",
   delayWindow |-> "ok", delayInterval |-> "second"]

Settings == {s \in [Keys -> UNION {Values[k] : k \in Keys}] : \A k \in Keys : s[k] \in Values[k]}

Types == {"skipping", "covering", "materialized"}
Names == {"skipping", "", "typed"}
Rows == [field : Fields, method : {"PARTITION", "VALUE_SET"}]
Columns == Fields \cup {<<"*">>}
Tumbles == [timeField : Fields \cup {None}, window : Numbers]

Forms ==
  [dataSource : Sources, database : Databases \cup {None}, dataTable : Tables \cup {None},
   fields : Tables \cup {None}, type : Types, name : Names, rows : Seq(Rows),
   covering : SUBSET Fields, columns : Seq(Columns), tumble : Tumbles, settings : Settings]
Shown ==
  [dataSource : Sources, database : Databases \cup {None}, dataTable : Tables \cup {None},
   type : Types, settings : Settings, covering : SUBSET Fields, columns : Seq(Columns),
   tumble : Tumbles]

TypeOK ==
  /\ form \in Forms /\ shown \in Shown
  /\ connections \in BOOLEAN
  /\ databasesOf \in Sources \cup {None}
  /\ tablesOf \in Databases \cup {None}
  /\ databasesLoads \subseteq Sources
  /\ tablesLoads \subseteq Sources \X Databases
  /\ describing \in Seq(Forms)
  /\ spin \in [database : BOOLEAN, dataTable : BOOLEAN, type : BOOLEAN]
  /\ lost \in BOOLEAN
  /\ picks \in 0..MaxPicks /\ edits \in 0..MaxEdits

\* What a builder shows when it mounts.
FreshTumble == [timeField |-> None, window |-> "ok"]

\* The form and the selectors mount together; the databases of the source that
\* is selected on the page are asked for.
Init ==
  /\ \E s \in Sources :
       /\ form = [dataSource |-> s, database |-> None, dataTable |-> None, fields |-> None,
                  type |-> "skipping", name |-> "skipping", rows |-> <<>>, covering |-> {},
                  columns |-> <<>>, tumble |-> [timeField |-> None, window |-> "low"],
                  settings |-> DefaultSettings]
       /\ shown = [dataSource |-> s, database |-> None, dataTable |-> None, type |-> "skipping",
                   settings |-> DefaultSettings, covering |-> {}, columns |-> <<>>,
                   tumble |-> FreshTumble]
       /\ databasesLoads = {s}
  /\ connections = FALSE
  /\ databasesOf = None /\ tablesOf = None
  /\ tablesLoads = {}
  /\ describing = <<>>
  /\ spin = [database |-> TRUE, dataTable |-> FALSE, type |-> FALSE]
  /\ lost = FALSE
  /\ query = None
  /\ picks = 0 /\ edits = 0

-----------------------------------------------------------------------------
(* The builders *)

\* Slip: the field is taken as it is, without a method.
WithDefaults_NoMethod(f) ==
  CASE f.type = "skipping" /\ f.fields # None ->
         [f EXCEPT !.rows = <<[field |-> <<f.fields, "a">>, method |-> ""]>>]
    [] f.type = "materialized" /\ f.fields # None ->
         [f EXCEPT !.columns = <<<<f.fields, "a">>>>]
    [] OTHER -> f

\* The effects on dataTableFields, which also run when a builder mounts: the
\* definition starts over with the first field.
WithDefaults(f) ==
  CASE f.type = "skipping" ->
         [f EXCEPT !.rows = IF f.fields = None THEN <<>>
                            ELSE <<[field |-> <<f.fields, "a">>, method |-> "PARTITION"]>>]
    [] f.type = "materialized" /\ f.fields # None ->
         [f EXCEPT !.columns = <<<<f.fields, "a">>>>]
    [] OTHER -> f

\* What the builder of f shows after these effects: a builder that is mounted
\* anew (QueryVisualEditor has one per type) has forgotten what it showed.
BuilderShows(f, s) ==
  LET kept == IF f.type = form.type THEN s
              ELSE [s EXCEPT !.covering = {}, !.columns = <<>>, !.tumble = FreshTumble]
  IN  IF f.type = "materialized" /\ f.fields # None
      THEN [kept EXCEPT !.columns = <<<<f.fields, "a">>>>] ELSE kept

Edit ==
  /\ query = None
  /\ edits < MaxEdits
  /\ edits' = edits + 1
  /\ UNCHANGED <<connections, loadVars, lost, query, picks>>

\* Slip: the modal offers every field.
Offered_All == FieldsOf(form.fields)

\* The fields AddFieldsModal offers: those without a row.
Offered == FieldsOf(form.fields) \ {form.rows[i].field : i \in DOMAIN form.rows}

\* AddFieldsModal.  Several fields at once are as good as one after the other.
AddField(f) ==
  /\ Edit
  /\ form.type = "skipping" /\ form.fields # None /\ f \in Offered
  /\ form' = [form EXCEPT !.rows = Append(@, [field |-> f, method |-> "PARTITION"])]
  /\ UNCHANGED shown

\* The bin of a row, and DeleteFieldsModal, one field after the other again.
DeleteField(i) ==
  /\ Edit
  /\ form.type = "skipping" /\ i \in DOMAIN form.rows
  /\ form' = [form EXCEPT !.rows = RemoveAt(@, i)]
  /\ UNCHANGED shown

\* onChangeAccelerationMethod
ChangeAccelerationMethod(f, method) ==
  /\ Edit
  /\ form.type = "skipping"
  /\ form' = [form EXCEPT !.rows = [i \in DOMAIN @ |->
                IF @[i].field = f THEN [@[i] EXCEPT !.method = method] ELSE @[i]]]
  /\ UNCHANGED shown

\* CoveringIndexBuilder's onChange: a field is picked or removed from those shown.
ChangeCovering(f) ==
  /\ Edit
  /\ form.type = "covering"
  /\ f \in shown.covering \/ (form.fields # None /\ f \in FieldsOf(form.fields))
  /\ LET chosen == IF f \in shown.covering THEN shown.covering \ {f} ELSE shown.covering \cup {f}
     IN  /\ form' = [form EXCEPT !.covering = chosen]
         /\ shown' = [shown EXCEPT !.covering = chosen]

\* The columns AddColumnPopOver and ColumnExpression offer; the star goes with
\* count only.
ColumnChoices == {<<"*">>} \cup (IF form.fields = None THEN {} ELSE FieldsOf(form.fields))

\* onAddExpression: what is shown, with a column more, is the definition.
AddColumn(column) ==
  /\ Edit
  /\ form.type = "materialized" /\ column \in ColumnChoices
  /\ form' = [form EXCEPT !.columns = Append(shown.columns, column)]
  /\ shown' = [shown EXCEPT !.columns = Append(shown.columns, column)]

\* updateColumnExpressionValue changes what is shown and not the form.
EditColumn(i, column) ==
  /\ Edit
  /\ form.type = "materialized" /\ i \in DOMAIN shown.columns /\ column \in ColumnChoices
  /\ shown' = [shown EXCEPT !.columns[i] = column]
  /\ UNCHANGED form

\* Slip: only what is shown loses the column.
DeleteColumn_ShownOnly(i) ==
  /\ Edit
  /\ form.type = "materialized" /\ i \in DOMAIN shown.columns
  /\ shown' = [shown EXCEPT !.columns = RemoveAt(@, i)]
  /\ UNCHANGED form

\* onDeleteColumnExpression
DeleteColumn(i) ==
  /\ Edit
  /\ form.type = "materialized" /\ i \in DOMAIN shown.columns
  /\ form' = [form EXCEPT !.columns = RemoveAt(shown.columns, i)]
  /\ shown' = [shown EXCEPT !.columns = RemoveAt(shown.columns, i)]

\* updateGroupByStates: what is shown, with one change, is the new value.
ChangeTumble(tumble) ==
  /\ Edit
  /\ form.type = "materialized"
  /\ \/ tumble.timeField = shown.tumble.timeField
     \/ /\ tumble.window = shown.tumble.window
        /\ form.fields # None /\ tumble.timeField = <<form.fields, "b">>
  /\ form' = [form EXCEPT !.tumble = tumble]
  /\ shown' = [shown EXCEPT !.tumble = tumble]

-----------------------------------------------------------------------------
(* The settings *)

\* onChangeIndexType, and the builder of the type mounts.
ChangeIndexType(type) ==
  /\ Edit
  /\ LET f == [form EXCEPT !.type = type, !.name = IF type = "skipping" THEN "skipping" ELSE ""]
     IN  /\ form' = IF type = form.type THEN f ELSE WithDefaults(f)
         /\ shown' = IF type = form.type THEN [shown EXCEPT !.type = type]
                     ELSE BuilderShows(f, [shown EXCEPT !.type = type])

\* onChangeIndexName: the field is disabled for a skipping index.
ChangeIndexName(name) ==
  /\ Edit
  /\ form.type # "skipping"
  /\ form' = [form EXCEPT !.name = name]
  /\ UNCHANGED shown

\* The inputs IndexSettingOptions shows.
Visible(k) ==
  CASE k \in {"refreshWindow", "refreshInterval"} -> shown.settings.refreshType = "interval"
    [] k = "checkpointLocation" -> shown.settings.refreshType # "manual"
    [] k \in {"delayWindow", "delayInterval"} -> form.type = "materialized"
    [] OTHER -> TRUE

\* The eight onChange handlers of IndexSettingOptions.
ChangeSetting(k, v) ==
  /\ Edit
  /\ Visible(k)
  /\ form' = [form EXCEPT !.settings[k] = v]
  /\ shown' = [shown EXCEPT !.settings[k] = v]

-----------------------------------------------------------------------------
(* The source, the database and the table *)

Pick ==
  /\ query = None
  /\ picks < MaxPicks
  /\ picks' = picks + 1
  /\ UNCHANGED <<connections, databasesOf, tablesOf, lost, query, edits>>

\* SHOW SCHEMAS, SHOW TABLES and DESC are sent.
loadDatabases(f) == databasesLoads' = databasesLoads \cup {f.dataSource}
loadTables(f) == tablesLoads' = tablesLoads \cup {<<f.dataSource, f.database>>}
describe(f, left) == describing' = Append(left, f)

\* The effects on dataSource, database and dataTable when f takes the place of
\* the form; `left` are the DESC still in flight.
Ask(f, left) ==
  /\ IF f.dataSource = form.dataSource THEN UNCHANGED databasesLoads ELSE loadDatabases(f)
  /\ IF f.database \in {form.database, None} THEN UNCHANGED tablesLoads ELSE loadTables(f)
  /\ IF f.dataTable \in {form.dataTable, None} THEN describing' = left ELSE describe(f, left)

Spinning(f, type) ==
  [database |-> spin.database \/ f.dataSource # form.dataSource,
   dataTable |-> spin.dataTable \/ f.database \notin {form.database, None},
   type |-> type]

PickField(f, s) ==
  /\ Pick
  /\ form' = f
  /\ shown' = s
  /\ Ask(f, describing)
  /\ spin' = Spinning(f, spin.type \/ f.dataTable # form.dataTable)

\* The onChange of the three selectors.  None of them touches the others.
PickSource(s) ==
  /\ connections
  /\ PickField([form EXCEPT !.dataSource = s], [shown EXCEPT !.dataSource = s])

PickDatabase(d) ==
  /\ databasesOf = SourceOf[d]
  /\ PickField([form EXCEPT !.database = d], [shown EXCEPT !.database = d])

PickTable(t) ==
  /\ tablesOf = DatabaseOf[t]
  /\ PickField([form EXCEPT !.dataTable = t], [shown EXCEPT !.dataTable = t])

\* loadDataSource; when it fails there is a toast and no list.
ConnectionsListed ==
  /\ query = None /\ ~connections
  /\ connections' = TRUE
  /\ UNCHANGED <<form, shown, loadVars, lost, query, picks, edits>>

Ends ==
  /\ query = None
  /\ UNCHANGED <<form, shown, connections, query, picks, edits>>

Answer == Ends /\ UNCHANGED lost

\* The callback of loadDatabases: the last list wins, a failed or cancelled query
\* leaves the former one.
DatabasesAnswer(s, success) ==
  /\ Answer
  /\ s \in databasesLoads
  /\ databasesLoads' = databasesLoads \ {s}
  /\ databasesOf' = IF success THEN s ELSE databasesOf
  /\ spin' = [spin EXCEPT !.database = FALSE]
  /\ UNCHANGED <<tablesOf, tablesLoads, describing>>

\* Slip: a list of tables is not taken when the query has failed, nor is the
\* spinner stopped.
TablesAnswer_SpinsOn(s, d, success) ==
  /\ Answer
  /\ <<s, d>> \in tablesLoads /\ (success => SourceOf[d] = s)
  /\ tablesLoads' = tablesLoads \ {<<s, d>>}
  /\ tablesOf' = IF success THEN d ELSE tablesOf
  /\ spin' = IF success THEN [spin EXCEPT !.dataTable = FALSE] ELSE spin
  /\ UNCHANGED <<databasesOf, databasesLoads, describing>>

\* The callback of loadTables.
TablesAnswer(s, d, success) ==
  /\ Answer
  /\ <<s, d>> \in tablesLoads /\ (success => SourceOf[d] = s)
  /\ tablesLoads' = tablesLoads \ {<<s, d>>}
  /\ tablesOf' = IF success THEN d ELSE tablesOf
  /\ spin' = [spin EXCEPT !.dataTable = FALSE]
  /\ UNCHANGED <<databasesOf, databasesLoads, describing>>

Without(i) == RemoveAt(describing, i)

\* The table exists where the statement looks for it.
Exists(f) == DatabaseOf[f.dataTable] = f.database /\ SourceOf[f.database] = f.dataSource

\* The callback of DESC puts back the form as it was when the table was picked,
\* now with its fields, and every effect on what this changes runs.  Whether
\* setLoading(false) comes before or after a new setLoading(true) depends on how
\* React batches a callback.
Described(i) ==
  LET f == [describing[i] EXCEPT !.fields = describing[i].dataTable]
  IN  /\ query = None
      /\ Exists(f)
      /\ form' = WithDefaults(f)
      /\ shown' = BuilderShows(f, shown)
      /\ Ask(f, Without(i))
      /\ \E type \in {FALSE, f.dataTable # form.dataTable} : spin' = Spinning(f, type)
      /\ UNCHANGED <<connections, databasesOf, tablesOf, lost, query, picks, edits>>

\* A failed or cancelled DESC.
DescribeFails(i) ==
  /\ Answer
  /\ describing' = Without(i)
  /\ spin' = [spin EXCEPT !.type = FALSE]
  /\ UNCHANGED <<databasesOf, tablesOf, databasesLoads, tablesLoads>>

\* The POST fails, or the status is unknown: executeAsyncQuery got its error
\* callback in the place of the capabilities and tells nobody.
Lost ==
  /\ Ends
  /\ lost' = TRUE
  /\ \/ /\ \E s \in databasesLoads : databasesLoads' = databasesLoads \ {s}
        /\ UNCHANGED <<tablesLoads, describing>>
     \/ /\ \E load \in tablesLoads : tablesLoads' = tablesLoads \ {load}
        /\ UNCHANGED <<databasesLoads, describing>>
     \/ /\ \E i \in DOMAIN describing : describing' = Without(i)
        /\ UNCHANGED <<databasesLoads, tablesLoads>>
  /\ UNCHANGED <<databasesOf, tablesOf, spin>>

-----------------------------------------------------------------------------
(* The statement *)

\* The validators, by the errors of FormErrorsType.  A number that was not read
\* compares as FALSE and passes.
indexNameError == form.name = ""
countError == form.settings.primaryShardsCount = "low" \/ form.settings.replicaShardsCount = "low"
refreshIntervalError ==
  form.settings.refreshType = "interval" /\ form.settings.refreshWindow = "low"
watermarkDelayError == form.type = "materialized" /\ form.settings.delayWindow = "low"
checkpointLocationError ==
  \/ form.settings.refreshType # "manual" /\ form.settings.checkpointLocation = ""
  \/ form.settings.checkpointLocation = "invalid"
definitionError ==
  CASE form.type = "skipping" -> form.rows = <<>>
    [] form.type = "covering" -> form.covering = {}
    [] form.type = "materialized" ->
         form.columns = <<>> \/ form.tumble.timeField = None \/ form.tumble.window = "low"

\* formValidator and hasError
formValidator ==
  /\ form.database # None /\ form.dataTable # None
  /\ ~indexNameError /\ ~countError /\ ~refreshIntervalError
  /\ ~watermarkDelayError /\ ~checkpointLocationError /\ ~definitionError

\* buildIndexOptions: the options that are in the WITH clause.
buildIndexOptions ==
  LET keys == {"primaryShardsCount", "replicaShardsCount", "refreshType"}
        \cup (IF form.settings.refreshType = "interval"
              THEN {"refreshWindow", "refreshInterval"} ELSE {})
        \cup (IF form.type = "materialized" THEN {"delayWindow", "delayInterval"} ELSE {})
        \cup (IF form.settings.refreshType # "manual" THEN {"checkpointLocation"} ELSE {})
  IN  [k \in keys |-> form.settings[k]]

\* The three builders: the columns of the statement, and the name if it has one.
skippingIndexQueryBuilder == [columns |-> form.rows]
coveringIndexQueryBuilder == [columns |-> form.covering, name |-> form.name]
materializedQueryViewBuilder ==
  [columns |-> form.columns, name |-> form.name, groupBy |-> form.tumble]

accelerationQueryBuilder ==
  [on |-> <<form.dataSource, form.database, form.dataTable>>,
   definition |-> CASE form.type = "skipping" -> skippingIndexQueryBuilder
                    [] form.type = "covering" -> coveringIndexQueryBuilder
                    [] form.type = "materialized" -> materializedQueryViewBuilder,
   options |-> buildIndexOptions]

\* copyToEditor: with an error nothing is copied.
CopyToEditor ==
  /\ query = None
  /\ formValidator
  /\ query' = accelerationQueryBuilder
  /\ UNCHANGED <<form, shown, connections, loadVars, lost, picks, edits>>

-----------------------------------------------------------------------------
(* Specification *)

BuilderNext ==
  \/ \E f \in Fields : \/ AddField(f) \/ ChangeCovering(f)
                       \/ ChangeAccelerationMethod(f, "VALUE_SET")
  \/ \E i \in DOMAIN form.rows : DeleteField(i)
  \/ \E column \in Columns : \/ AddColumn(column)
                             \/ \E i \in DOMAIN shown.columns : EditColumn(i, column)
  \/ \E i \in DOMAIN shown.columns : DeleteColumn(i)
  \/ \E tumble \in Tumbles : ChangeTumble(tumble)

SettingsNext ==
  \/ \E type \in Types : ChangeIndexType(type)
  \/ \E name \in {"", "typed"} : ChangeIndexName(name)
  \/ \E k \in Editable : \E v \in Values[k] : ChangeSetting(k, v)

AnswerNext ==
  \/ ConnectionsListed
  \/ \E success \in BOOLEAN :
       \/ \E s \in Sources : DatabasesAnswer(s, success)
       \/ \E s \in Sources, d \in Databases : TablesAnswer(s, d, success)
  \/ \E i \in DOMAIN describing : Described(i) \/ DescribeFails(i)
  \/ Lost

Next ==
  \/ \E s \in Sources : PickSource(s)
  \/ \E d \in Databases : PickDatabase(d)
  \/ \E t \in Tables : PickTable(t)
  \/ BuilderNext \/ SettingsNext \/ AnswerNext
  \/ CopyToEditor

Spec == Init /\ [][Next]_formVars

\* A query ends; the user need not do anything.
FairSpec ==
  Spec /\ WF_formVars(\E i \in DOMAIN describing : Described(i) \/ DescribeFails(i))

-----------------------------------------------------------------------------
(* Properties *)

\* The statement for a skipping index names every field once and only fields of
\* the table that was described, although late answers put back an older form
\* and the builder is mounted and unmounted with the type.
RowsOfFields ==
  form.type = "skipping" =>
    /\ form.fields = None => form.rows = <<>>
    /\ \A i \in DOMAIN form.rows : form.rows[i].field \in FieldsOf(form.fields)
    /\ \A i, j \in DOMAIN form.rows : form.rows[i].field = form.rows[j].field => i = j

\* Every column the view builder shows is in the statement, and no other, once
\* the fields are there; the content of an edited column is another matter.
ColumnsCounted ==
  form.type = "materialized" /\ form.fields # None =>
    Len(form.columns) = Len(shown.columns)

\* A spinner that turns has a query in flight, whichever of several queries for
\* the same list answers first, as long as none has been lost.
SpinnersExplained ==
  ~lost => /\ spin.database => databasesLoads # {}
           /\ spin.dataTable => tablesLoads # {}
           /\ spin.type => describing # <<>>

\* When the user picks no more tables the form comes to rest: an answer does not
\* start the query over and over.  This does not hold under FairSpec, and no run
\* checks it: two DESC in flight for different tables each put their own table
\* back, which starts another DESC, for ever.
FormSettles == <>[](describing = <<>>)
=============================================================================
