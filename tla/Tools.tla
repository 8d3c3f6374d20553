--------------------------------- MODULE Tools ---------------------------------
(***************************************************************************)
(* The tools around the documents, each beside the others: the workbench   *)
(* with its searches, the macro recorder, state.json with the settings,    *)
(* and the rules of settings.json.  A behaviour uses one of them; the      *)
(* state of the others rests.                                              *)
(***************************************************************************)
EXTENDS Naturals, Sequences

CONSTANTS
  \* of Workbench
  Paths, Texts, Queries, Matches, Tables, MaxWorkers, MaxResults, MaxRevision, NoPath,
  \* of MacroRecorder
  Commands, TextLength, Names, MaxText, MaxCommands, MaxRan,
  \* of Settings
  Instances, RecentPaths, Identity, Lossy, Contents, Widths, MaxRecent, MaxBackups, MaxChanges,
  MaxWrites, MaxTime,
  \* of Associations
  Files, Matching, Languages, RuleTexts

ASSUME ToolsAssumption ==
  /\ NoPath \notin Paths
  /\ MaxWorkers \in Nat /\ MaxResults \in Nat /\ MaxRevision \in Nat
  /\ TextLength \in [Commands -> Nat] /\ MaxText \in Nat /\ MaxCommands \in Nat
  /\ MaxBackups \in Nat \ {0}
  /\ \A text \in RuleTexts :
       text[1] = "broken" \/ (text[1] = "rules" /\ text[2] \in Seq((DOMAIN Matching) \X STRING))

VARIABLES
  part,  \* the tool that is used
  docs, disk, active, panel, back, fields, search, channel, report, pending, lens,
  indexing, leaving,
  document, focus, front, store, library, browsing, ran,
  stateFile, backups, config, saving, attached, written, changes, replaced,
  rules, active_match, answer

Work == INSTANCE Workbench
Recorder == INSTANCE MacroRecorder
Stored == INSTANCE Settings WITH Paths <- RecentPaths, file <- stateFile
Rules == INSTANCE Associations WITH Texts <- RuleTexts

workVars == <<docs, disk, active, panel, back, fields, search, channel, report, pending,
              lens, indexing, leaving>>
recorderVars == <<document, focus, front, store, library, browsing, ran>>
settingVars == <<stateFile, backups, config, saving, attached, written, changes, replaced>>
ruleVars == <<rules, active_match, answer>>
toolVars == <<part, workVars, recorderVars, settingVars, ruleVars>>

ToolsInit == Work!Init /\ Recorder!Init /\ Stored!Init /\ Rules!Init

ToolsNext ==
  \/ part = "work" /\ Work!Next /\ UNCHANGED <<recorderVars, settingVars, ruleVars>>
  \/ part = "recorder" /\ Recorder!Next /\ UNCHANGED <<workVars, settingVars, ruleVars>>
  \/ part = "settings" /\ Stored!Next /\ UNCHANGED <<workVars, recorderVars, ruleVars>>
  \/ part = "rules" /\ Rules!Next /\ UNCHANGED <<workVars, recorderVars, settingVars>>

ToolsSpec == ToolsInit /\ [][ToolsNext /\ UNCHANGED part]_toolVars
-----------------------------------------------------------------------------
\* Whatever panel is open has what it works on, and a report answers the query in the fields
\* (Workbench: PanelHasItsData, ReportIsHonest).
ReportIsHonest ==
  part = "work" => Work!TypeOK /\ Work!PanelHasItsData /\ Work!ReportIsHonest

\* A saved macro is what the editor ran while it was recorded (MacroRecorder: SavedIsWhatRan).
SavedIsWhatRan == part = "recorder" => Recorder!SavedIsWhatRan

\* Settings that were damaged when a save replaced them are kept, and a file is shown in the
\* language of the rules in force (Settings: DamagedIsKept; Associations: LanguageIsRight).
SettingsAreKept ==
  /\ part = "settings" => Stored!DamagedIsKept
  /\ part = "rules" => Rules!LanguageIsRight
=============================================================================
