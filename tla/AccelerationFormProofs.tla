----------------------- MODULE AccelerationFormProofs -----------------------
(***************************************************************************)
(* Proofs about AccelerationForm, for any number of sources, databases,    *)
(* tables, picks and edits.  The definition is sound by itself: what the   *)
(* effects on the fields give is, and an edit keeps it so.  The spinners   *)
(* need to know that DESC is only in flight for a table (Asked).           *)
(***************************************************************************)
EXTENDS AccelerationForm, SequenceTheorems, TLAPS

\* What is left of a sequence without its element i.
LEMMA RemoveAtProps ==
  ASSUME NEW S, NEW s \in Seq(S), NEW i \in DOMAIN s
  PROVE  /\ RemoveAt(s, i) \in Seq(S)
         /\ Len(RemoveAt(s, i)) = Len(s) - 1
         /\ \A j \in 1..(Len(s) - 1) : RemoveAt(s, i)[j] = IF j < i THEN s[j] ELSE s[j + 1]
<1> DEFINE a == SubSeq(s, 1, i - 1)
           b == SubSeq(s, i + 1, Len(s))
<1>1. a \in Seq(S) /\ Len(a) = i - 1 /\ \A j \in 1..(i - 1) : a[j] = s[j]
  OBVIOUS
<1>2. b \in Seq(S) /\ Len(b) = Len(s) - i /\ \A j \in 1..(Len(s) - i) : b[j] = s[i + j]
  OBVIOUS
<1>3. i \in Nat /\ i >= 1 /\ i <= Len(s) /\ Len(s) \in Nat
  OBVIOUS
<1>4. RemoveAt(s, i) = a \o b
  BY DEF RemoveAt
<1> HIDE DEF a, b
<1>5. a \o b \in Seq(S) /\ Len(a \o b) = Len(s) - 1
  BY <1>1, <1>2, <1>3
<1>6. \A j \in 1..(Len(s) - 1) : (a \o b)[j] = IF j < i THEN s[j] ELSE s[j + 1]
  <2> TAKE j \in 1..(Len(s) - 1)
  <2>1. CASE j < i
    BY <1>1, <1>2, <1>3, <2>1
  <2>2. CASE ~(j < i)
    <3>1. /\ (a \o b)[j] = b[j - (i - 1)]
          /\ j - (i - 1) \in 1..(Len(s) - i) /\ i + (j - (i - 1)) = j + 1
      BY <1>1, <1>2, <1>3, <2>2
    <3>2. QED
      BY <1>2, <2>2, <3>1
  <2>3. QED
    BY <2>1, <2>2
<1>7. QED
  BY <1>4, <1>5, <1>6

-----------------------------------------------------------------------------
(* Types *)

LEMMA FieldsTyped == \A t \in Tables : FieldsOf(t) \subseteq Fields /\ <<t, "a">> \in FieldsOf(t)
BY DEF FieldsOf, Fields

LEMMA DefaultsTyped == DefaultSettings \in Settings
<1>1. Keys = {"primaryShardsCount", "replicaShardsCount", "refreshType", "refreshWindow",
              "refreshInterval", "checkpointLocation", "delayWindow", "delayInterval"}
  BY DEF Keys, Values
<1>2. DOMAIN DefaultSettings = Keys
  BY <1>1 DEF DefaultSettings
<1>3. \A k \in Keys : DefaultSettings[k] \in Values[k]
  <2>1. /\ DefaultSettings.primaryShardsCount \in Values.primaryShardsCount
        /\ DefaultSettings.replicaShardsCount \in Values.replicaShardsCount
        /\ DefaultSettings.refreshType \in Values.refreshType
        /\ DefaultSettings.refreshWindow \in Values.refreshWindow
        /\ DefaultSettings.refreshInterval \in Values.refreshInterval
        /\ DefaultSettings.checkpointLocation \in Values.checkpointLocation
        /\ DefaultSettings.delayWindow \in Values.delayWindow
        /\ DefaultSettings.delayInterval \in Values.delayInterval
    BY DEF DefaultSettings, Values, Numbers
  <2>2. QED
    BY <1>1, <2>1
<1>4. DefaultSettings = [k \in Keys |-> DefaultSettings[k]]
  BY <1>1 DEF DefaultSettings
<1>5. QED
  BY <1>3, <1>4 DEF Settings

LEMMA SettingChanged ==
  ASSUME NEW s \in Settings, NEW k \in Keys, NEW v \in Values[k]
  PROVE  [s EXCEPT ![k] = v] \in Settings
BY DEF Settings

\* The effects on the fields give a form of the right type, and what the builder
\* shows then is of the right type too.
LEMMA EffectsTyped ==
  ASSUME NEW f \in Forms, NEW s \in Shown
  PROVE  WithDefaults(f) \in Forms /\ BuilderShows(f, s) \in Shown
<1> DEFINE first == <<f.fields, "a">>
<1>1. f.fields # None => first \in Fields
  BY FieldsTyped DEF Forms, FieldsOf
<1>2. f.fields # None => <<[field |-> first, method |-> "PARTITION"]>> \in Seq(Rows)
  BY <1>1 DEF Rows
<1>3. f.fields # None => <<first>> \in Seq(Columns)
  BY <1>1 DEF Columns
<1>4. <<>> \in Seq(Rows) /\ <<>> \in Seq(Columns)
  OBVIOUS
<1>5. FreshTumble \in Tumbles
  BY DEF FreshTumble, Tumbles, Numbers
<1>6. WithDefaults(f) \in Forms
  BY <1>2, <1>3, <1>4 DEF WithDefaults, Forms
<1>7. BuilderShows(f, s) \in Shown
  BY <1>3, <1>4, <1>5 DEF BuilderShows, Shown
<1>8. QED
  BY <1>6, <1>7

LEMMA TypeInit == Init => TypeOK
<1> SUFFICES ASSUME Init PROVE TypeOK
  OBVIOUS
<1>1. PICK s \in Sources :
        /\ form = [dataSource |-> s, database |-> None, dataTable |-> None, fields |-> None,
                   type |-> "skipping", name |-> "skipping", rows |-> <<>>, covering |-> {},
                   columns |-> <<>>, tumble |-> [timeField |-> None, window |-> "low"],
                   settings |-> DefaultSettings]
        /\ shown = [dataSource |-> s, database |-> None, dataTable |-> None, type |-> "skipping",
                    settings |-> DefaultSettings, covering |-> {}, columns |-> <<>>,
                    tumble |-> FreshTumble]
        /\ databasesLoads = {s}
  BY DEF Init
<1>2. form \in Forms /\ shown \in Shown
  <2>1. <<>> \in Seq(Rows) /\ <<>> \in Seq(Columns)
    OBVIOUS
  <2>2. [timeField |-> None, window |-> "low"] \in Tumbles /\ FreshTumble \in Tumbles
    BY DEF FreshTumble, Tumbles, Numbers
  <2>3. QED
    BY <1>1, <2>1, <2>2, DefaultsTyped DEF Forms, Shown, Types, Names
<1>3. databasesLoads \subseteq Sources
  BY <1>1
<1>4. describing \in Seq(Forms) /\ 0 \in 0..MaxPicks /\ 0 \in 0..MaxEdits
  BY BoundAssumption DEF Init
<1>5. QED
  BY <1>2, <1>3, <1>4 DEF Init, TypeOK

\* What a change by the user gives: a form, with all that is not edited as it was.
LEMMA EditTyped ==
  ASSUME TypeOK, Edit, form' \in Forms, shown' \in Shown
  PROVE  TypeOK'
BY BoundAssumption DEF TypeOK, Edit, loadVars

LEMMA RowsTyped ==
  ASSUME NEW f \in Forms, NEW rows \in Seq(Rows)
  PROVE  [f EXCEPT !.rows = rows] \in Forms
BY DEF Forms

LEMMA BuilderTyped == TypeOK /\ BuilderNext => TypeOK'
<1> SUFFICES ASSUME TypeOK, BuilderNext PROVE TypeOK'
  OBVIOUS
<1>0. form \in Forms /\ shown \in Shown
  BY DEF TypeOK
<1> DEFINE rows == form.rows
           columns == shown.columns
<1>1. rows \in Seq(Rows) /\ columns \in Seq(Columns)
  BY <1>0 DEF Forms, Shown
<1>2. ASSUME NEW f \in Fields, AddField(f) PROVE TypeOK'
  <2>1. Append(rows, [field |-> f, method |-> "PARTITION"]) \in Seq(Rows)
    BY <1>1 DEF Rows
  <2>2. QED
    BY <1>0, <1>2, <2>1, RowsTyped, EditTyped DEF AddField
<1>3. ASSUME NEW f \in Fields, ChangeCovering(f) PROVE TypeOK'
  <2>1. shown.covering \subseteq Fields
    BY <1>0 DEF Shown
  <2>2. PICK chosen \in SUBSET Fields : /\ form' = [form EXCEPT !.covering = chosen]
                                        /\ shown' = [shown EXCEPT !.covering = chosen]
    BY <1>3, <2>1 DEF ChangeCovering
  <2>3. form' \in Forms /\ shown' \in Shown
    BY <1>0, <2>2 DEF Forms, Shown
  <2>4. QED
    BY <1>3, <2>3, EditTyped DEF ChangeCovering
<1>4. ASSUME NEW f \in Fields, ChangeAccelerationMethod(f, "VALUE_SET") PROVE TypeOK'
  <2> DEFINE row(i) == IF rows[i].field = f THEN [rows[i] EXCEPT !.method = "VALUE_SET"] ELSE rows[i]
  <2>1. \A i \in DOMAIN rows : row(i) \in Rows
    <3>1. \A r \in Rows : [r EXCEPT !.method = "VALUE_SET"] \in Rows
      BY DEF Rows
    <3>2. \A i \in DOMAIN rows : rows[i] \in Rows
      BY <1>1
    <3>3. QED
      BY <3>1, <3>2
  <2>2. form' = [form EXCEPT !.rows = [i \in DOMAIN rows |-> row(i)]]
    BY <1>4 DEF ChangeAccelerationMethod
  <2>3. DOMAIN rows = 1..Len(rows) /\ Len(rows) \in Nat
    BY <1>1
  <2> HIDE DEF row, rows
  <2>4. [i \in DOMAIN rows |-> row(i)] \in Seq(Rows)
    BY <2>1, <2>3
  <2>5. QED
    BY <1>0, <1>4, <2>2, <2>4, RowsTyped, EditTyped DEF ChangeAccelerationMethod
<1>5. ASSUME NEW i \in DOMAIN rows, DeleteField(i) PROVE TypeOK'
  <2>1. RemoveAt(rows, i) \in Seq(Rows)
    BY <1>1, <1>5, RemoveAtProps
  <2>2. QED
    BY <1>0, <1>5, <2>1, RowsTyped, EditTyped DEF DeleteField
<1>6. ASSUME NEW column \in Columns, AddColumn(column) PROVE TypeOK'
  <2>1. Append(columns, column) \in Seq(Columns)
    BY <1>1
  <2>2. form' \in Forms /\ shown' \in Shown
    BY <1>0, <1>6, <2>1 DEF AddColumn, Forms, Shown
  <2>3. QED
    BY <1>6, <2>2, EditTyped DEF AddColumn
<1>7. ASSUME NEW column \in Columns, NEW i \in DOMAIN columns, EditColumn(i, column) PROVE TypeOK'
  <2>1. [columns EXCEPT ![i] = column] \in Seq(Columns)
    BY <1>1
  <2>2. shown' = [shown EXCEPT !.columns = [columns EXCEPT ![i] = column]]
    BY <1>7 DEF EditColumn
  <2>3. form' \in Forms /\ shown' \in Shown
    BY <1>0, <1>7, <2>1, <2>2 DEF EditColumn, Shown
  <2>4. QED
    BY <1>7, <2>3, EditTyped DEF EditColumn
<1>8. ASSUME NEW i \in DOMAIN columns, DeleteColumn(i) PROVE TypeOK'
  <2>1. RemoveAt(columns, i) \in Seq(Columns)
    BY <1>1, RemoveAtProps
  <2>2. form' \in Forms /\ shown' \in Shown
    BY <1>0, <1>8, <2>1 DEF DeleteColumn, Forms, Shown
  <2>3. QED
    BY <1>8, <2>2, EditTyped DEF DeleteColumn
<1>9. ASSUME NEW tumble \in Tumbles, ChangeTumble(tumble) PROVE TypeOK'
  <2>1. form' \in Forms /\ shown' \in Shown
    BY <1>0, <1>9 DEF ChangeTumble, Forms, Shown
  <2>2. QED
    BY <1>9, <2>1, EditTyped DEF ChangeTumble
<1>10. QED
  BY <1>2, <1>3, <1>4, <1>5, <1>6, <1>7, <1>8, <1>9 DEF BuilderNext

LEMMA SettingsTyped == TypeOK /\ SettingsNext => TypeOK'
<1> SUFFICES ASSUME TypeOK, SettingsNext PROVE TypeOK'
  OBVIOUS
<1>0. form \in Forms /\ shown \in Shown
  BY DEF TypeOK
<1>1. ASSUME NEW type \in Types, ChangeIndexType(type) PROVE TypeOK'
  <2> DEFINE f == [form EXCEPT !.type = type, !.name = IF type = "skipping" THEN "skipping" ELSE ""]
             s == [shown EXCEPT !.type = type]
  <2>1. f \in Forms /\ s \in Shown
    BY <1>0 DEF Forms, Shown, Names
  <2>2. form' \in {f, WithDefaults(f)} /\ shown' \in {s, BuilderShows(f, s)}
    BY <1>1 DEF ChangeIndexType
  <2> HIDE DEF f, s
  <2>3. form' \in Forms /\ shown' \in Shown
    BY <2>1, <2>2, EffectsTyped
  <2>4. QED
    BY <1>1, <2>3, EditTyped DEF ChangeIndexType
<1>2. ASSUME NEW name \in {"", "typed"}, ChangeIndexName(name) PROVE TypeOK'
  <2>1. form' \in Forms /\ shown' \in Shown
    BY <1>0, <1>2 DEF ChangeIndexName, Forms, Names
  <2>2. QED
    BY <1>2, <2>1, EditTyped DEF ChangeIndexName
<1>3. ASSUME NEW k \in Editable, NEW v \in Values[k], ChangeSetting(k, v) PROVE TypeOK'
  <2>1. form.settings \in Settings /\ shown.settings \in Settings
    BY <1>0 DEF Forms, Shown
  <2>2. [form.settings EXCEPT ![k] = v] \in Settings /\ [shown.settings EXCEPT ![k] = v] \in Settings
    BY <2>1, EditableAssumption, SettingChanged
  <2>3. /\ form' = [form EXCEPT !.settings = [form.settings EXCEPT ![k] = v]]
        /\ shown' = [shown EXCEPT !.settings = [shown.settings EXCEPT ![k] = v]]
    BY <1>3 DEF ChangeSetting
  <2>4. form' \in Forms /\ shown' \in Shown
    BY <1>0, <2>2, <2>3 DEF Forms, Shown
  <2>5. QED
    BY <1>3, <2>4, EditTyped DEF ChangeSetting
<1>4. QED
  BY <1>1, <1>2, <1>3 DEF SettingsNext

\* The queries that a form that takes the place of another one sends.
LEMMA AskTyped ==
  ASSUME TypeOK, NEW f \in Forms, NEW left \in Seq(Forms), Ask(f, left)
  PROVE  /\ databasesLoads' \subseteq Sources
         /\ tablesLoads' \subseteq Sources \X Databases
         /\ describing' \in Seq(Forms)
<1>1. f.dataSource \in Sources /\ f.database \in Databases \cup {None}
  BY DEF Forms
<1>2. databasesLoads' \subseteq Sources
  BY <1>1 DEF Ask, loadDatabases, TypeOK
<1>3. tablesLoads' \subseteq Sources \X Databases
  BY <1>1 DEF Ask, loadTables, TypeOK
<1>4. Append(left, f) \in Seq(Forms)
  OBVIOUS
<1>5. describing' \in Seq(Forms)
  BY <1>4 DEF Ask, describe
<1>6. QED
  BY <1>2, <1>3, <1>5

LEMMA SpinningTyped ==
  ASSUME TypeOK, NEW f, NEW type \in BOOLEAN
  PROVE  Spinning(f, type) \in [database : BOOLEAN, dataTable : BOOLEAN, type : BOOLEAN]
<1>1. spin.database \in BOOLEAN /\ spin.dataTable \in BOOLEAN
  BY DEF TypeOK
<1>2. QED
  BY <1>1 DEF Spinning

LEMMA PickTyped ==
  ASSUME TypeOK, NEW f \in Forms, NEW s \in Shown, PickField(f, s)
  PROVE  TypeOK'
<1>1. describing \in Seq(Forms) /\ spin.type \in BOOLEAN
  BY DEF TypeOK
<1>2. /\ databasesLoads' \subseteq Sources
      /\ tablesLoads' \subseteq Sources \X Databases
      /\ describing' \in Seq(Forms)
  BY <1>1, AskTyped DEF PickField
<1>3. (spin.type \/ f.dataTable # form.dataTable) \in BOOLEAN
  OBVIOUS
<1>4. spin' \in [database : BOOLEAN, dataTable : BOOLEAN, type : BOOLEAN]
  BY <1>3, SpinningTyped DEF PickField
<1>5. picks' \in 0..MaxPicks
  BY BoundAssumption DEF PickField, Pick, TypeOK
<1>6. form' \in Forms /\ shown' \in Shown
  BY DEF PickField
<1>7. QED
  BY <1>2, <1>4, <1>5, <1>6 DEF PickField, Pick, TypeOK

\* What the callback of DESC puts back.
Restored(i) == [describing[i] EXCEPT !.fields = describing[i].dataTable]

LEMMA RestoredTyped ==
  ASSUME TypeOK, NEW i \in DOMAIN describing
  PROVE  /\ Restored(i) \in Forms
         /\ Restored(i) = [describing[i] EXCEPT !.fields = describing[i].dataTable]
         /\ Restored(i).fields = describing[i].dataTable
         /\ Restored(i).dataTable = describing[i].dataTable
         /\ Without(i) \in Seq(Forms)
<1>1. describing[i] \in Forms /\ describing \in Seq(Forms)
  BY DEF TypeOK
<1>2. Without(i) \in Seq(Forms)
  BY <1>1, RemoveAtProps DEF Without
<1>3. QED
  BY <1>1, <1>2 DEF Restored, Forms

LEMMA DescribedTyped ==
  ASSUME TypeOK, NEW i \in DOMAIN describing, Described(i)
  PROVE  TypeOK'
<1> DEFINE f == Restored(i)
<1>1. f \in Forms /\ Without(i) \in Seq(Forms) /\ shown \in Shown
  BY RestoredTyped DEF TypeOK
<1>2. /\ form' = WithDefaults(f) /\ shown' = BuilderShows(f, shown)
      /\ Ask(f, Without(i))
      /\ \E type \in {FALSE, f.dataTable # form.dataTable} : spin' = Spinning(f, type)
      /\ UNCHANGED <<connections, databasesOf, tablesOf, lost, query, picks, edits>>
  BY Zenon DEF Described, Restored
<1> HIDE DEF f
<1>3. form' \in Forms /\ shown' \in Shown
  BY <1>1, <1>2, EffectsTyped
<1>4. /\ databasesLoads' \subseteq Sources
      /\ tablesLoads' \subseteq Sources \X Databases
      /\ describing' \in Seq(Forms)
  BY <1>1, <1>2, AskTyped
<1>5. spin' \in [database : BOOLEAN, dataTable : BOOLEAN, type : BOOLEAN]
  BY <1>2, SpinningTyped
<1>6. QED
  BY <1>2, <1>3, <1>4, <1>5 DEF TypeOK

LEMMA AnswerTyped == TypeOK /\ AnswerNext => TypeOK'
<1> SUFFICES ASSUME TypeOK, AnswerNext PROVE TypeOK'
  OBVIOUS
<1>1. CASE ConnectionsListed
  BY <1>1 DEF ConnectionsListed, loadVars, TypeOK
<1>2. ASSUME NEW success \in BOOLEAN, NEW s \in Sources, DatabasesAnswer(s, success) PROVE TypeOK'
  BY <1>2 DEF DatabasesAnswer, Answer, Ends, TypeOK
<1>3. ASSUME NEW success \in BOOLEAN, NEW s \in Sources, NEW d \in Databases,
             TablesAnswer(s, d, success)
      PROVE  TypeOK'
  BY <1>3 DEF TablesAnswer, Answer, Ends, TypeOK
<1>4. ASSUME NEW i \in DOMAIN describing, DescribeFails(i) PROVE TypeOK'
  <2>1. describing' \in Seq(Forms)
    BY <1>4, RestoredTyped DEF DescribeFails
  <2>2. QED
    BY <1>4, <2>1 DEF DescribeFails, Answer, Ends, TypeOK
<1>5. CASE Lost
  <2>1. describing' \in Seq(Forms)
    BY <1>5, RestoredTyped DEF Lost, TypeOK
  <2>2. QED
    BY <1>5, <2>1 DEF Lost, Ends, TypeOK
<1>6. QED
  BY <1>1, <1>2, <1>3, <1>4, <1>5, DescribedTyped DEF AnswerNext

LEMMA TypeStep == TypeOK /\ [Next]_formVars => TypeOK'
<1> SUFFICES ASSUME TypeOK, [Next]_formVars PROVE TypeOK'
  OBVIOUS
<1>0. form \in Forms /\ shown \in Shown
  BY DEF TypeOK
<1>1. ASSUME NEW s \in Sources, PickSource(s) PROVE TypeOK'
  <2>1. [form EXCEPT !.dataSource = s] \in Forms /\ [shown EXCEPT !.dataSource = s] \in Shown
    BY <1>0 DEF Forms, Shown
  <2>2. QED
    BY <1>1, <2>1, PickTyped DEF PickSource
<1>2. ASSUME NEW d \in Databases, PickDatabase(d) PROVE TypeOK'
  <2>1. [form EXCEPT !.database = d] \in Forms /\ [shown EXCEPT !.database = d] \in Shown
    BY <1>0 DEF Forms, Shown
  <2>2. QED
    BY <1>2, <2>1, PickTyped DEF PickDatabase
<1>3. ASSUME NEW t \in Tables, PickTable(t) PROVE TypeOK'
  <2>1. [form EXCEPT !.dataTable = t] \in Forms /\ [shown EXCEPT !.dataTable = t] \in Shown
    BY <1>0 DEF Forms, Shown
  <2>2. QED
    BY <1>3, <2>1, PickTyped DEF PickTable
<1>4. CASE CopyToEditor
  BY <1>4 DEF CopyToEditor, loadVars, TypeOK
<1>5. CASE UNCHANGED formVars
  BY <1>5 DEF formVars, loadVars, TypeOK
<1>6. QED
  BY <1>1, <1>2, <1>3, <1>4, <1>5, BuilderTyped, SettingsTyped, AnswerTyped DEF Next

-----------------------------------------------------------------------------
(* The definition *)

\* RowsOfFields, of any form.
RowsSound(f) ==
  f.type = "skipping" =>
    /\ f.fields = None => f.rows = <<>>
    /\ \A i \in DOMAIN f.rows : f.rows[i].field \in FieldsOf(f.fields)
    /\ \A i, j \in DOMAIN f.rows : f.rows[i].field = f.rows[j].field => i = j

\* ColumnsCounted, of any form and what is shown of it.
Counted(f, s) ==
  f.type = "materialized" /\ f.fields # None => Len(f.columns) = Len(s.columns)

LEMMA RowsOfFieldsSound == RowsOfFields <=> RowsSound(form)
BY DEF RowsOfFields, RowsSound

\* The effects on the fields start the definition over, whatever was there.
LEMMA EffectsSound ==
  ASSUME NEW f \in Forms, NEW s \in Shown
  PROVE  RowsSound(WithDefaults(f)) /\ Counted(WithDefaults(f), BuilderShows(f, s))
<1> DEFINE g == WithDefaults(f)
<1>1. g.type = f.type /\ g.fields = f.fields
  BY DEF WithDefaults, Forms
<1>2. ASSUME f.type = "skipping" PROVE RowsSound(g)
  <2>1. CASE f.fields = None
    <3>1. g.rows = <<>>
      BY <1>2, <2>1 DEF WithDefaults, Forms
    <3>2. QED
      BY <1>1, <2>1, <3>1 DEF RowsSound
  <2>2. CASE f.fields # None
    <3>1. g.rows = <<[field |-> <<f.fields, "a">>, method |-> "PARTITION"]>>
      BY <1>2, <2>2 DEF WithDefaults, Forms
    <3>2. /\ DOMAIN g.rows = {1}
          /\ g.rows[1].field \in FieldsOf(f.fields)
      BY <3>1 DEF FieldsOf
    <3> HIDE DEF g
    <3>3. QED
      BY <1>1, <2>2, <3>2 DEF RowsSound
  <2>3. QED
    BY <2>1, <2>2
<1>3. ASSUME f.type = "materialized", f.fields # None
      PROVE  g.columns = <<<<f.fields, "a">>>> /\ BuilderShows(f, s).columns = <<<<f.fields, "a">>>>
  BY <1>3 DEF WithDefaults, BuilderShows, Forms, Shown
<1> HIDE DEF g
<1>4. QED
  BY <1>1, <1>2, <1>3 DEF RowsSound, Counted, g

\* What the user does to the rows of a skipping index.
LEMMA RowsEdited ==
  ASSUME TypeOK, RowsOfFields, NEW f \in Fields,
         \/ AddField(f) \/ ChangeAccelerationMethod(f, "VALUE_SET")
         \/ \E i \in DOMAIN form.rows : DeleteField(i)
  PROVE  RowsOfFields'
<1> DEFINE rows == form.rows
<1>0. form \in Forms /\ rows \in Seq(Rows) /\ form.type = "skipping"
  BY DEF TypeOK, Forms, AddField, ChangeAccelerationMethod, DeleteField
<1>1. /\ form.fields = None => rows = <<>>
      /\ \A i \in DOMAIN rows : rows[i].field \in FieldsOf(form.fields)
      /\ \A i, j \in DOMAIN rows : rows[i].field = rows[j].field => i = j
  BY <1>0 DEF RowsOfFields
<1>2. ASSUME NEW left, form' = [form EXCEPT !.rows = left],
             form.fields = None => left = <<>>,
             \A i \in DOMAIN left : left[i].field \in FieldsOf(form.fields),
             \A i, j \in DOMAIN left : left[i].field = left[j].field => i = j
      PROVE  RowsOfFields'
  <2>1. form'.rows = left /\ form'.type = form.type /\ form'.fields = form.fields
    BY <1>0, <1>2 DEF Forms
  <2>2. QED
    BY <1>2, <2>1 DEF RowsOfFields
<1> HIDE DEF rows
<1>3. CASE AddField(f)
  <2> DEFINE row == [field |-> f, method |-> "PARTITION"]
             left == Append(rows, row)
  <2>1. /\ form.fields # None /\ f \in FieldsOf(form.fields)
        /\ \A i \in DOMAIN rows : rows[i].field # f
        /\ form' = [form EXCEPT !.rows = left]
    BY <1>3 DEF AddField, Offered, rows
  <2>2. row \in Rows /\ row.field = f
    BY DEF Rows
  <2> HIDE DEF row
  <2>3. /\ DOMAIN rows = 1..Len(rows) /\ DOMAIN left = 1..(Len(rows) + 1) /\ Len(rows) \in Nat
        /\ \A i \in DOMAIN rows : left[i] = rows[i]
        /\ left[Len(rows) + 1] = row
    BY <1>0, <2>2
  <2> HIDE DEF left
  <2>4. \A i \in DOMAIN left : i \in DOMAIN rows \/ i = Len(rows) + 1
    BY <2>3
  <2>5. QED
    BY <1>1, <1>2, <2>1, <2>2, <2>3, <2>4
<1>4. CASE ChangeAccelerationMethod(f, "VALUE_SET")
  <2> DEFINE row(i) == IF rows[i].field = f THEN [rows[i] EXCEPT !.method = "VALUE_SET"] ELSE rows[i]
             left == [i \in DOMAIN rows |-> row(i)]
  <2>1. form' = [form EXCEPT !.rows = left]
    BY <1>4 DEF ChangeAccelerationMethod, rows
  <2>2. \A i \in DOMAIN rows : row(i).field = rows[i].field
    <3>1. \A r \in Rows : [r EXCEPT !.method = "VALUE_SET"].field = r.field
      BY DEF Rows
    <3>2. \A i \in DOMAIN rows : rows[i] \in Rows
      BY <1>0
    <3>3. QED
      BY <3>1, <3>2
  <2> HIDE DEF row
  <2>3. DOMAIN left = DOMAIN rows /\ \A i \in DOMAIN rows : left[i] = row(i)
    OBVIOUS
  <2>4. rows = <<>> => left = <<>>
    <3>1. rows = <<>> => DOMAIN rows = {}
      OBVIOUS
    <3>2. DOMAIN rows = {} => left = <<>>
      OBVIOUS
    <3>3. QED
      BY <3>1, <3>2
  <2> HIDE DEF left
  <2>5. QED
    BY <1>1, <1>2, <2>1, <2>2, <2>3, <2>4
<1>5. ASSUME NEW i \in DOMAIN rows, DeleteField(i) PROVE RowsOfFields'
  <2> DEFINE left == RemoveAt(rows, i)
  <2>1. form' = [form EXCEPT !.rows = left]
    BY <1>5 DEF DeleteField, rows
  <2>2. /\ left \in Seq(Rows) /\ Len(left) = Len(rows) - 1
        /\ \A j \in 1..(Len(rows) - 1) : left[j] = IF j < i THEN rows[j] ELSE rows[j + 1]
    BY <1>0, <1>5, RemoveAtProps
  <2> HIDE DEF left
  <2>3. /\ DOMAIN left = 1..(Len(rows) - 1) /\ DOMAIN rows = 1..Len(rows)
        /\ Len(rows) \in Nat /\ i \in Nat
    BY <1>0, <2>2
  <2> DEFINE from(j) == IF j < i THEN j ELSE j + 1
  <2>4. \A j \in DOMAIN left : from(j) \in DOMAIN rows /\ left[j] = rows[from(j)]
    BY <2>2, <2>3
  <2>5. \A j, k \in DOMAIN left : from(j) = from(k) => j = k
    BY <2>3
  <2>6. form.fields # None
    BY <1>1, <1>5
  <2> HIDE DEF from
  <2>7. QED
    BY <1>1, <1>2, <2>1, <2>4, <2>5, <2>6
<1>6. QED
  BY <1>3, <1>4, <1>5 DEF rows

\* The other changes of the builder leave the rows alone, and those to the columns
\* of a view are made to what is shown and to the form alike.
LEMMA RestEdited ==
  ASSUME TypeOK, BuilderNext,
         ~ \E f \in Fields : AddField(f) \/ ChangeAccelerationMethod(f, "VALUE_SET"),
         ~ \E i \in DOMAIN form.rows : DeleteField(i)
  PROVE  /\ form'.type = form.type /\ form'.fields = form.fields /\ form'.rows = form.rows
         /\ \/ Len(form'.columns) = Len(shown'.columns)
            \/ Len(form'.columns) = Len(form.columns) /\ Len(shown'.columns) = Len(shown.columns)
<1>0. form \in Forms /\ shown \in Shown
  BY DEF TypeOK
<1>1. ASSUME NEW f \in Fields, ChangeCovering(f)
      PROVE  /\ form'.type = form.type /\ form'.fields = form.fields /\ form'.rows = form.rows
             /\ form'.columns = form.columns /\ shown'.columns = shown.columns
  BY <1>0, <1>1 DEF ChangeCovering, Forms, Shown
<1>2. ASSUME NEW column \in Columns, AddColumn(column)
      PROVE  /\ form'.type = form.type /\ form'.fields = form.fields /\ form'.rows = form.rows
             /\ form'.columns = shown'.columns
  BY <1>0, <1>2 DEF AddColumn, Forms, Shown
<1>3. ASSUME NEW column \in Columns, NEW i \in DOMAIN shown.columns, EditColumn(i, column)
      PROVE  form' = form /\ Len(shown'.columns) = Len(shown.columns)
  <2>1. shown'.columns = [shown.columns EXCEPT ![i] = column] /\ form' = form
    BY <1>0, <1>3 DEF EditColumn, Shown
  <2>2. shown.columns \in Seq(Columns)
    BY <1>0 DEF Shown
  <2>3. QED
    BY <2>1, <2>2
<1>4. ASSUME NEW i \in DOMAIN shown.columns, DeleteColumn(i)
      PROVE  /\ form'.type = form.type /\ form'.fields = form.fields /\ form'.rows = form.rows
             /\ form'.columns = shown'.columns
  BY <1>0, <1>4 DEF DeleteColumn, Forms, Shown
<1>5. ASSUME NEW tumble \in Tumbles, ChangeTumble(tumble)
      PROVE  /\ form'.type = form.type /\ form'.fields = form.fields /\ form'.rows = form.rows
             /\ form'.columns = form.columns /\ shown'.columns = shown.columns
  BY <1>0, <1>5 DEF ChangeTumble, Forms, Shown
<1>6. QED
  BY <1>1, <1>2, <1>3, <1>4, <1>5 DEF BuilderNext

Definition == RowsOfFields /\ ColumnsCounted

\* A form that keeps its type, its fields, its rows and the number of its columns
\* keeps them sound.
LEMMA DefinitionKept ==
  ASSUME Definition, form'.type = form.type, form'.fields = form.fields, form'.rows = form.rows,
         \/ Len(form'.columns) = Len(shown'.columns)
         \/ Len(form'.columns) = Len(form.columns) /\ Len(shown'.columns) = Len(shown.columns)
  PROVE  Definition'
BY DEF Definition, RowsOfFields, ColumnsCounted

\* One that starts over is sound.
LEMMA DefinitionAnew ==
  ASSUME NEW f \in Forms, NEW s \in Shown, form' = WithDefaults(f), shown' = BuilderShows(f, s)
  PROVE  Definition'
<1>1. RowsSound(form') /\ Counted(form', shown')
  BY EffectsSound
<1>2. QED
  BY <1>1 DEF RowsSound, Counted, Definition, RowsOfFields, ColumnsCounted

LEMMA DefinitionStep == TypeOK /\ Definition /\ [Next]_formVars => Definition'
<1> SUFFICES ASSUME TypeOK, Definition, [Next]_formVars PROVE Definition'
  OBVIOUS
<1>0. form \in Forms /\ shown \in Shown
  BY DEF TypeOK
<1>1. CASE BuilderNext
  <2>1. CASE \/ \E f \in Fields : AddField(f) \/ ChangeAccelerationMethod(f, "VALUE_SET")
             \/ \E i \in DOMAIN form.rows : DeleteField(i)
    <3>1. form.type = "skipping"
      BY <2>1 DEF AddField, ChangeAccelerationMethod, DeleteField
    <3>2. form'.type = form.type
      BY <1>0, <2>1 DEF AddField, ChangeAccelerationMethod, DeleteField, Forms
    <3>3. RowsOfFields'
      <4>1. CASE \E f \in Fields : AddField(f) \/ ChangeAccelerationMethod(f, "VALUE_SET")
        BY <4>1, RowsEdited DEF Definition
      <4>2. CASE \E i \in DOMAIN form.rows : DeleteField(i)
        <5>1. form.rows \in Seq(Rows)
          BY <1>0 DEF Forms
        <5>2. PICK i \in DOMAIN form.rows : form.rows[i] \in Rows
          BY <4>2, <5>1
        <5>3. form.rows[i].field \in Fields
          BY <5>2 DEF Rows
        <5>4. QED
          BY <4>2, <5>3, RowsEdited DEF Definition
      <4>3. QED
        BY <2>1, <4>1, <4>2
    <3>4. QED
      BY <3>1, <3>2, <3>3 DEF Definition, ColumnsCounted
  <2>2. QED
    BY <1>1, <2>1, RestEdited, DefinitionKept
<1>2. ASSUME NEW type \in Types, ChangeIndexType(type) PROVE Definition'
  <2> DEFINE f == [form EXCEPT !.type = type, !.name = IF type = "skipping" THEN "skipping" ELSE ""]
             s == [shown EXCEPT !.type = type]
  <2>1. f \in Forms /\ s \in Shown
    BY <1>0 DEF Forms, Shown, Names
  <2>2. CASE type = form.type
    <3>1. form' = f /\ shown' = s
      BY <1>2, <2>2 DEF ChangeIndexType
    <3>2. /\ form'.type = form.type /\ form'.fields = form.fields /\ form'.rows = form.rows
          /\ form'.columns = form.columns /\ shown'.columns = shown.columns
      BY <1>0, <2>2, <3>1 DEF Forms, Shown
    <3>3. QED
      BY <3>2, DefinitionKept
  <2>3. CASE type # form.type
    <3>1. form' = WithDefaults(f) /\ shown' = BuilderShows(f, s)
      BY <1>2, <2>3 DEF ChangeIndexType
    <3> HIDE DEF f, s
    <3>2. QED
      BY <2>1, <3>1, DefinitionAnew
  <2>4. QED
    BY <2>2, <2>3
<1>3. ASSUME NEW name \in {"", "typed"}, ChangeIndexName(name) PROVE Definition'
  <2>1. /\ form'.type = form.type /\ form'.fields = form.fields /\ form'.rows = form.rows
        /\ form'.columns = form.columns /\ shown'.columns = shown.columns
    BY <1>0, <1>3 DEF ChangeIndexName, Forms
  <2>2. QED
    BY <2>1, DefinitionKept
<1>4. ASSUME NEW k \in Editable, NEW v \in Values[k], ChangeSetting(k, v) PROVE Definition'
  <2>1. /\ form'.type = form.type /\ form'.fields = form.fields /\ form'.rows = form.rows
        /\ form'.columns = form.columns /\ shown'.columns = shown.columns
    BY <1>0, <1>4 DEF ChangeSetting, Forms, Shown
  <2>2. QED
    BY <2>1, DefinitionKept
<1>5. ASSUME \/ \E s \in Sources : PickSource(s)
             \/ \E d \in Databases : PickDatabase(d)
             \/ \E t \in Tables : PickTable(t)
      PROVE  Definition'
  <2>1. /\ form'.type = form.type /\ form'.fields = form.fields /\ form'.rows = form.rows
        /\ form'.columns = form.columns /\ shown'.columns = shown.columns
    BY <1>0, <1>5 DEF PickSource, PickDatabase, PickTable, PickField, Forms, Shown
  <2>2. QED
    BY <2>1, DefinitionKept
<1>6. ASSUME NEW i \in DOMAIN describing, Described(i) PROVE Definition'
  <2>1. form' = WithDefaults(Restored(i)) /\ shown' = BuilderShows(Restored(i), shown)
    BY <1>6 DEF Described, Restored
  <2>2. QED
    BY <1>0, <2>1, RestoredTyped, DefinitionAnew
<1>7. CASE UNCHANGED <<form, shown>>
  BY <1>7, DefinitionKept
<1>8. QED
  BY <1>1, <1>2, <1>3, <1>4, <1>5, <1>6, <1>7
  DEF Next, SettingsNext, AnswerNext, ConnectionsListed, DatabasesAnswer, TablesAnswer, DescribeFails,
      Lost, Answer, Ends, CopyToEditor, formVars

-----------------------------------------------------------------------------
(* The spinners *)

\* DESC is only sent for a table.
Asked == \A i \in DOMAIN describing : describing[i].dataTable # None

\* A form that takes the place of another one sets a spinner for the list it asks
\* for.  `type` is what becomes of the spinner of the type.
LEMMA AskSpins ==
  ASSUME TypeOK, SpinnersExplained, UNCHANGED lost,
         NEW f \in Forms, NEW left \in Seq(Forms), NEW type \in BOOLEAN,
         Ask(f, left), spin' = Spinning(f, type),
         ~lost /\ type => left # <<>> \/ f.dataTable \notin {form.dataTable, None}
  PROVE  SpinnersExplained'
<1> SUFFICES ASSUME ~lost PROVE /\ spin'.database => databasesLoads' # {}
                                /\ spin'.dataTable => tablesLoads' # {}
                                /\ spin'.type => describing' # <<>>
  BY DEF SpinnersExplained
<1>1. spin'.database => databasesLoads' # {}
  BY DEF Spinning, Ask, loadDatabases, SpinnersExplained
<1>2. spin'.dataTable => tablesLoads' # {}
  BY DEF Spinning, Ask, loadTables, SpinnersExplained
<1>3. spin'.type => describing' # <<>>
  <2>1. spin'.type = type
    BY DEF Spinning
  <2>2. Append(left, f) # <<>>
    OBVIOUS
  <2>3. QED
    BY <2>1, <2>2 DEF Ask, describe
<1>4. QED
  BY <1>1, <1>2, <1>3

LEMMA PickSpins ==
  ASSUME TypeOK, SpinnersExplained, NEW f \in Forms, NEW s, PickField(f, s),
         f.dataTable # form.dataTable => f.dataTable # None
  PROVE  SpinnersExplained'
<1>1. describing \in Seq(Forms) /\ spin.type \in BOOLEAN
  BY DEF TypeOK
<1>2. /\ UNCHANGED lost /\ Ask(f, describing)
      /\ spin' = Spinning(f, spin.type \/ f.dataTable # form.dataTable)
  BY DEF PickField, Pick
<1>3. ~lost /\ (spin.type \/ f.dataTable # form.dataTable)
      => describing # <<>> \/ f.dataTable \notin {form.dataTable, None}
  BY DEF SpinnersExplained
<1>4. (spin.type \/ f.dataTable # form.dataTable) \in BOOLEAN
  OBVIOUS
<1>5. QED
  BY <1>1, <1>2, <1>3, <1>4, AskSpins

LEMMA SpinnersStep ==
  ASSUME TypeOK, Asked, SpinnersExplained, [Next]_formVars
  PROVE  SpinnersExplained'
<1>0. form \in Forms /\ shown \in Shown
  BY DEF TypeOK
<1>1. ASSUME NEW s \in Sources, PickSource(s) PROVE SpinnersExplained'
  <2>1. [form EXCEPT !.dataSource = s] \in Forms /\ [form EXCEPT !.dataSource = s].dataTable = form.dataTable
    BY <1>0 DEF Forms
  <2>2. QED
    BY <1>1, <2>1, PickSpins DEF PickSource
<1>2. ASSUME NEW d \in Databases, PickDatabase(d) PROVE SpinnersExplained'
  <2>1. [form EXCEPT !.database = d] \in Forms /\ [form EXCEPT !.database = d].dataTable = form.dataTable
    BY <1>0 DEF Forms
  <2>2. QED
    BY <1>2, <2>1, PickSpins DEF PickDatabase
<1>3. ASSUME NEW t \in Tables, PickTable(t) PROVE SpinnersExplained'
  <2>1. [form EXCEPT !.dataTable = t] \in Forms /\ [form EXCEPT !.dataTable = t].dataTable = t
    BY <1>0 DEF Forms
  <2>2. t # None
    BY SourceAssumption
  <2>3. QED
    BY <1>3, <2>1, <2>2, PickSpins DEF PickTable
<1>4. ASSUME NEW success \in BOOLEAN, NEW s \in Sources, DatabasesAnswer(s, success)
      PROVE  SpinnersExplained'
  BY <1>4 DEF DatabasesAnswer, Answer, Ends, SpinnersExplained, TypeOK
<1>5. ASSUME NEW success \in BOOLEAN, NEW s \in Sources, NEW d \in Databases,
             TablesAnswer(s, d, success)
      PROVE  SpinnersExplained'
  BY <1>5 DEF TablesAnswer, Answer, Ends, SpinnersExplained, TypeOK
<1>6. ASSUME NEW i \in DOMAIN describing, DescribeFails(i) PROVE SpinnersExplained'
  BY <1>6 DEF DescribeFails, Answer, Ends, SpinnersExplained, TypeOK
<1>7. ASSUME NEW i \in DOMAIN describing, Described(i) PROVE SpinnersExplained'
  <2> DEFINE f == Restored(i)
  <2>1. f \in Forms /\ Without(i) \in Seq(Forms) /\ f.dataTable # None
    BY RestoredTyped DEF Asked
  <2>2. UNCHANGED lost /\ Ask(f, Without(i))
    BY <1>7, Zenon DEF Described, Restored
  <2>3. PICK type \in {FALSE, f.dataTable # form.dataTable} : spin' = Spinning(f, type)
    BY <1>7, Zenon DEF Described, Restored
  <2> HIDE DEF f
  <2>4. type \in BOOLEAN /\ (type => f.dataTable \notin {form.dataTable, None})
    BY <2>1, <2>3
  <2>5. QED
    BY <2>1, <2>2, <2>3, <2>4, AskSpins
<1>8. CASE Lost
  BY <1>8 DEF Lost, SpinnersExplained
<1>9. CASE UNCHANGED <<lost, spin, databasesLoads, tablesLoads, describing>>
  BY <1>9 DEF SpinnersExplained
<1>10. QED
  BY <1>1, <1>2, <1>3, <1>4, <1>5, <1>6, <1>7, <1>8, <1>9
  DEF Next, BuilderNext, SettingsNext, AnswerNext, ConnectionsListed, CopyToEditor, Edit, AddField,
      DeleteField, ChangeAccelerationMethod, ChangeCovering, AddColumn, EditColumn, DeleteColumn,
      ChangeTumble, ChangeIndexType, ChangeIndexName, ChangeSetting, loadVars, formVars

LEMMA LeftAsked ==
  ASSUME TypeOK, Asked, NEW i \in DOMAIN describing
  PROVE  \A j \in DOMAIN Without(i) : Without(i)[j].dataTable # None
<1>1. describing \in Seq(Forms)
  BY DEF TypeOK
<1>2. i \in 1..Len(describing) /\ Len(describing) \in Nat
  BY <1>1
<1>3. /\ DOMAIN Without(i) = 1..(Len(describing) - 1)
      /\ \A j \in 1..(Len(describing) - 1) :
           Without(i)[j] = IF j < i THEN describing[j] ELSE describing[j + 1]
  BY <1>1, RemoveAtProps DEF Without
<1>4. \A j \in 1..(Len(describing) - 1) : j \in DOMAIN describing /\ j + 1 \in DOMAIN describing
  BY <1>1
<1>5. QED
  BY <1>3, <1>4 DEF Asked

LEMMA AskAsks ==
  ASSUME NEW f \in Forms, NEW left \in Seq(Forms), Ask(f, left),
         \A j \in DOMAIN left : left[j].dataTable # None
  PROVE  Asked'
<1>1. CASE describing' = left
  BY <1>1 DEF Asked
<1>2. CASE f.dataTable # None /\ describing' = Append(left, f)
  <2>1. \A j \in DOMAIN describing' : \/ j \in DOMAIN left /\ describing'[j] = left[j]
                                      \/ describing'[j] = f
    BY <1>2
  <2>2. QED
    BY <1>2, <2>1 DEF Asked
<1>3. QED
  BY <1>1, <1>2 DEF Ask, describe

LEMMA AskedStep ==
  ASSUME TypeOK, Asked, [Next]_formVars
  PROVE  Asked'
<1>0. form \in Forms /\ describing \in Seq(Forms)
  BY DEF TypeOK
<1>1. ASSUME NEW s \in Sources, PickSource(s) PROVE Asked'
  <2>1. [form EXCEPT !.dataSource = s] \in Forms
    BY <1>0 DEF Forms
  <2>2. QED
    BY <1>0, <1>1, <2>1, AskAsks DEF PickSource, PickField, Asked
<1>2. ASSUME NEW d \in Databases, PickDatabase(d) PROVE Asked'
  <2>1. [form EXCEPT !.database = d] \in Forms
    BY <1>0 DEF Forms
  <2>2. QED
    BY <1>0, <1>2, <2>1, AskAsks DEF PickDatabase, PickField, Asked
<1>3. ASSUME NEW t \in Tables, PickTable(t) PROVE Asked'
  <2>1. [form EXCEPT !.dataTable = t] \in Forms
    BY <1>0 DEF Forms
  <2>2. QED
    BY <1>0, <1>3, <2>1, AskAsks DEF PickTable, PickField, Asked
<1>4. ASSUME NEW i \in DOMAIN describing, Described(i) PROVE Asked'
  <2>1. Ask(Restored(i), Without(i))
    BY <1>4, Zenon DEF Described, Restored
  <2>2. QED
    BY <2>1, RestoredTyped, LeftAsked, AskAsks
<1>5. ASSUME NEW i \in DOMAIN describing, describing' = Without(i) PROVE Asked'
  BY <1>5, LeftAsked DEF Asked
<1>6. CASE UNCHANGED describing
  BY <1>6 DEF Asked
<1>7. QED
  BY <1>1, <1>2, <1>3, <1>4, <1>5, <1>6
  DEF Next, BuilderNext, SettingsNext, AnswerNext, ConnectionsListed, DatabasesAnswer, TablesAnswer,
      DescribeFails, Lost, Answer, Ends, CopyToEditor, Edit, AddField,
      DeleteField, ChangeAccelerationMethod, ChangeCovering, AddColumn, EditColumn, DeleteColumn,
      ChangeTumble, ChangeIndexType, ChangeIndexName, ChangeSetting, loadVars, formVars

-----------------------------------------------------------------------------
\* The inductive invariant.
IInv == TypeOK /\ Definition /\ Asked /\ SpinnersExplained

LEMMA IInvInit == Init => IInv
<1> SUFFICES ASSUME Init PROVE IInv
  OBVIOUS
<1>1. form.type = "skipping" /\ form.rows = <<>> /\ databasesLoads # {}
  BY DEF Init
<1>2. DOMAIN form.rows = {}
  BY <1>1
<1>3. Definition
  BY <1>1, <1>2 DEF Definition, RowsOfFields, ColumnsCounted
<1>4. DOMAIN describing = {} /\ ~spin.dataTable /\ ~spin.type
  BY DEF Init
<1>5. QED
  BY <1>1, <1>3, <1>4, TypeInit DEF IInv, Asked, SpinnersExplained

LEMMA IInvStep == IInv /\ [Next]_formVars => IInv'
BY TypeStep, DefinitionStep, SpinnersStep, AskedStep DEF IInv

LEMMA Invariance == Spec => []IInv
BY IInvInit, IInvStep, PTL DEF Spec

\* Whatever is picked, edited and answered, and in whatever order, the form and
\* what is shown of it keep their types: no callback leaves a setting undefined.
THEOREM FormTypeCorrect == Spec => []TypeOK
<1>1. IInv => TypeOK
  BY DEF IInv
<1>2. QED
  BY <1>1, Invariance, PTL

\* The definition of a skipping index has each field once, and only fields of the
\* table that was described, for any number of tables and answers.
THEOREM RowsAreOfFields == Spec => []RowsOfFields
<1>1. IInv => RowsOfFields
  BY DEF IInv, Definition
<1>2. QED
  BY <1>1, Invariance, PTL

\* The builder of a view shows as many columns as the statement will have.
THEOREM ColumnsAreCounted == Spec => []ColumnsCounted
<1>1. IInv => ColumnsCounted
  BY DEF IInv, Definition
<1>2. QED
  BY <1>1, Invariance, PTL

\* No spinner turns without a query that will stop it, unless one was lost.
THEOREM SpinnersAreExplained == Spec => []SpinnersExplained
<1>1. IInv => SpinnersExplained
  BY DEF IInv
<1>2. QED
  BY <1>1, Invariance, PTL
=============================================================================
