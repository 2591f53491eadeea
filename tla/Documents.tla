----------------------------- MODULE Documents -----------------------------
(***************************************************************************)
(* The documents of the window (src/ui/windows/MainWindow.cpp): a session  *)
(* that is stored, changed on the disk by others, opened again and         *)
(* reported, the dock its run is configured in, and the report template.   *)
(* An exception that nobody catches ends the program, which may then be    *)
(* started again.                                                          *)
(***************************************************************************)
EXTENDS ConfigurationDock, Reports, FiniteSets

CONSTANTS
  Sessions,    \* sessions the window may hold after a run
  Handled,     \* bound: those with which files are changed by others
  Templates,   \* what the template dialog may be left with
  LimitLines,  \* files a limit line may be imported from
  Tables,      \* files a correction table may be imported from
  Analyzers,   \* capabilities of the instruments
  Undamaged,   \* no place of a file
  Now,         \* the time
  MaxEdits,    \* bound: changes of the dock, the template, the session or its file
  MaxCalls     \* bound: those, saving, opening and starting together

VARIABLES
  session,      \* m_session
  dock,         \* the configuration dock
  template,     \* m_reportTemplate
  file,         \* the session file, Null if there is none
  templateFile, \* the default template, Null if there is none
  saved,        \* the session the file was written from
  damage,       \* the place of the file that was changed since
  outcome,      \* of the last operation
  edits, calls  \* so far

vars == <<session, dock, template, file, templateFile, saved, damage, outcome, edits, calls>>

Init ==
  /\ session \in Sessions
  /\ dock = ShowConfiguration(FreshDock, session.config)
  /\ template = NoTemplate /\ templateFile = Null
  /\ file = Null /\ saved = NoSession /\ damage = Undamaged
  /\ outcome = "idle" /\ edits = 0 /\ calls = 0

\* An uncaught exception has ended the program.
Running == outcome # "thrown"

Changed == edits < MaxEdits /\ edits + calls < MaxCalls /\ edits' = edits + 1

Edit ==
  /\ Running /\ Changed /\ outcome' = "idle"
  /\ UNCHANGED <<file, saved, damage, calls>>

Call == edits + calls < MaxCalls /\ calls' = calls + 1

-----------------------------------------------------------------------------
(* The dock and the template dialog.                                       *)

\* configurationChanged(): the session takes what the dock shows.
Configure(changed) ==
  /\ Edit
  /\ dock' = changed
  /\ session' = IF changed = dock THEN session
                ELSE [session EXCEPT !.config = DockConfiguration(changed)]
  /\ UNCHANGED <<template, templateFile>>

ImportLimit == \E f \in LimitLines : Configure(ImportLimitLine(dock, f, "basename"))

ImportTable == \E f \in Tables : Configure(ImportCorrectionTable(dock, f, "basename"))

RemoveTable == \E row \in DOMAIN dock.tables : Configure(RemoveSelectedCorrection(dock, row))

\* The dock's signals are blocked: the session is not told.
UseInstrument ==
  /\ Edit
  /\ \E caps \in Analyzers : dock' = ApplyCapabilities(dock, caps)
  /\ UNCHANGED <<session, template, templateFile>>

PressStart ==
  /\ Edit
  /\ session' = [session EXCEPT !.config = DockConfiguration(dock), !.results = <<>>]
  /\ UNCHANGED <<dock, template, templateFile>>

\* The template is used even if it cannot be stored as the default.
EditTemplate(makeDefault, written) ==
  /\ Edit
  /\ \E t \in Templates :
       /\ template' = [t EXCEPT !.title = IF @ = "" THEN DefaultTitle ELSE @]
       /\ templateFile' = IF makeDefault /\ written THEN TemplateToJson(template') ELSE templateFile
  /\ UNCHANGED <<session, dock>>

-----------------------------------------------------------------------------
(* Files.                                                                  *)

\* saveSession(): a file is replaced as a whole or not at all.
SaveSession(written) ==
  /\ Running /\ Call
  /\ session' = [session EXCEPT !.meta.modifiedAt = Now]
  /\ LET json == SessionToJson(session')
     IN  IF IsOk(json) /\ written
         THEN /\ file' = json.value /\ saved' = session' /\ damage' = Undamaged
              /\ outcome' = "saved"
         ELSE /\ outcome' = IF IsOk(json) THEN "refused" ELSE "thrown"
              /\ UNCHANGED <<file, saved, damage>>
  /\ UNCHANGED <<dock, template, templateFile, edits>>

\* openSessionFile(): a file that is refused leaves everything as it was.
OpenSession ==
  /\ Running /\ Call /\ file # Null
  /\ LET read == SessionFromJson(file)
     IN  IF IsOk(read)
         THEN /\ session' = read.value /\ dock' = ShowConfiguration(dock, read.value.config)
              /\ outcome' = "opened"
         ELSE outcome' = read.outcome /\ UNCHANGED <<session, dock>>
  /\ UNCHANGED <<template, file, templateFile, saved, damage, edits>>

\* The program ends, or has ended, and is started: an unreadable default template
\* is ignored, unless reading it throws.
Restart ==
  /\ Call
  /\ session' = [NoSession EXCEPT !.meta.createdAt = Now, !.meta.modifiedAt = Now]
  /\ dock' = FreshDock
  /\ template' = LoadDefault(templateFile)
  /\ outcome' = IF TemplateFromJson(templateFile).outcome = "thrown" THEN "thrown" ELSE "idle"
  /\ UNCHANGED <<file, templateFile, saved, damage, edits>>

\* The objects and the lists of a session file, each by its path; of a list of
\* objects the first stands for all.
Objects ==
  {<<>>, <<"meta">>, <<"config">>, <<"config", "peaks">>,
   <<"config", "limits", 1>>, <<"config", "limits", 1, "points", 1>>,
   <<"config", "corrections", 1>>, <<"config", "corrections", 1, "points", 1>>,
   <<"traces", 1>>, <<"traces", 1, "params">>, <<"traces", 1, "source">>,
   <<"traces", 1, "axis">>,
   <<"results", 1>>, <<"results", 1, "corrections", 1>>, <<"results", 1, "instrument">>}

Lists ==
  {<<"config", "start_commands">>, <<"config", "stop_commands">>,
   <<"config", "limits">>, <<"config", "limits", 1, "points">>,
   <<"config", "corrections">>, <<"config", "corrections", 1, "points">>,
   <<"traces">>, <<"traces", 1, "amplitudes">>, <<"traces", 1, "axis", "frequencies_hz">>,
   <<"results">>, <<"results", 1, "corrections">>}

\* What stands at a path, and a document with something else there.
Part(json, place) == FoldLeft(LAMBDA part, key : part[key], json, place)

RECURSIVE WithPart(_, _, _)
WithPart(json, place, part) ==
  IF place = <<>> THEN part
  ELSE [json EXCEPT ![Head(place)] = WithPart(@, Tail(place), part)]

Without(json, key) == Restrict(json, DOMAIN json \ {key})

Exists(place) == \A n \in DOMAIN place : place[n] \in DOMAIN Part(file, SubSeq(place, 1, n - 1))

Damaged(part, key) == {[part EXCEPT ![key] = Null], [part EXCEPT ![key] = Alien]}

\* External: a value is removed, a value or an element of a list is replaced by
\* null or by something foreign, or the file comes from another version.
ChangeFile ==
  /\ file # Null /\ damage = Undamaged /\ saved \in Handled /\ Changed
  /\ \E place \in {p \in Objects \cup Lists : Exists(p)} :
       LET part == Part(file, place)
       IN  \E key \in DOMAIN part :
             \E changed \in Damaged(part, key)
                              \cup IF place \in Lists THEN {} ELSE {Without(part, key)} :
               file' = WithPart(file, place, changed) /\ damage' = Append(place, key)
  /\ outcome' = IF Running THEN "idle" ELSE outcome
  /\ UNCHANGED <<session, dock, template, templateFile, saved, calls>>

OtherVersion ==
  /\ file # Null /\ damage = Undamaged /\ saved \in Handled /\ Changed
  /\ \E version \in {MinimumSupportedSchemaVersion - 1, CurrentSchemaVersion + 1} :
       file' = [file EXCEPT !.schema_version = version]
  /\ damage' = <<"schema_version">>
  /\ outcome' = IF Running THEN "idle" ELSE outcome
  /\ UNCHANGED <<session, dock, template, templateFile, saved, calls>>

ChangeTemplate ==
  /\ session \in Handled
  /\ templateFile # Null /\ DOMAIN templateFile = DOMAIN TemplateToJson(NoTemplate)
  /\ \A key \in DOMAIN templateFile : templateFile[key] # Alien
  /\ \E key \in DOMAIN templateFile :
       \E changed \in {Without(templateFile, key), [templateFile EXCEPT ![key] = Alien]} :
         templateFile' = changed
  /\ UNCHANGED <<session, dock, template, file, saved, damage, outcome, edits, calls>>

Next ==
  \/ ImportLimit \/ ImportTable \/ RemoveTable \/ UseInstrument \/ PressStart
  \/ \E makeDefault, written \in BOOLEAN : EditTemplate(makeDefault, written)
  \/ \E written \in BOOLEAN : SaveSession(written)
  \/ OpenSession \/ Restart \/ ChangeFile \/ OtherVersion \/ ChangeTemplate

Spec == Init /\ [][Next]_vars

-----------------------------------------------------------------------------
(* Properties.                                                             *)

\* What becomes of a session on its way through a file: times lose their
\* microseconds, a reading that is no number becomes zero.
AsStored(s) ==
  LET number(v) == IF v = NaN THEN 0 ELSE v
  IN  [s EXCEPT
        !.meta.createdAt = Millis(@), !.meta.modifiedAt = Millis(@),
        !.traces = [i \in DOMAIN @ |-> [@[i] EXCEPT !.acquiredAt = Millis(@)]],
        !.results = [i \in DOMAIN @ |-> [@[i] EXCEPT
          !.raw = number(@), !.corrected = number(@), !.measuredAt = Millis(@)]]]

\* A trace with a reading that is no number is written but cannot be read.
Lossy(s) == \E i \in DOMAIN s.traces : NaN \in ToSet(s.traces[i].amplitudes)

\* Opening the file a session was stored in restores that session: every setting,
\* line, table, trace and result, whatever it was imported from.  Only a session
\* with a trace that has a reading that is no number is refused, and none throws.
SavedSessionReturns ==
  damage = Undamaged =>
    /\ outcome = "opened" => session = AsStored(saved) /\ ~Lossy(saved)
    /\ file # Null => SessionFromJson(file).outcome = IF Lossy(saved) THEN "refused" ELSE "ok"

\* The value that is lost with the damage: a list of commands is read as one.
LostValue ==
  IF Front(damage) \in {<<"config", "start_commands">>, <<"config", "stop_commands">>}
  THEN Front(damage) ELSE damage

\* The document with the lost value left out.
Masked(json) ==
  LET place == Front(LostValue)
  IN  WithPart(json, place, (Last(LostValue) :> Null) @@ Part(json, place))

\* What is not read through get(), and throws if it is of another type.
ReadUnguarded ==
  \/ damage \in {<<"schema">>, <<"schema_version">>}
  \/ Front(damage) = <<"traces", 1, "axis", "frequencies_hz">>

\* A file in which a value was changed is refused, or opened as the session that
\* was stored but for that value, and never as a line that is not valid or a trace
\* that does not match its axis.  An exception ends the program, against NFR-REL-1,
\* for three values only: the two of the header, and a bin of a stitched trace.
DamageStaysLocal ==
  damage # Undamaged =>
    /\ SessionFromJson(file).outcome = "thrown" => ReadUnguarded
    /\ outcome = "opened" =>
         /\ Masked(SessionToJson(session).value) = Masked(SessionToJson(AsStored(saved)).value)
         /\ \A line \in ToSet(session.config.limits) : ValidLine(line)
         /\ \A table \in ToSet(session.config.corrections) : ValidTable(table)
         /\ \A i \in DOMAIN session.traces :
              AxisSize(session.traces[i].axis) = Len(session.traces[i].amplitudes)

\* exportPdfReport(): the company of the session wins over the template's.
ReportTemplate ==
  IF session.meta.company = "" THEN template
  ELSE [template EXCEPT !.companyName = session.meta.company]

Shows(boxes, what) == \E b \in ToSet(boxes) : b.what = what /\ b.whole

\* Whatever session and template the window has, the report shows every result
\* once and in order, each box on a page, below the one before it and cut only if
\* it is a text longer than a page; it shows the notice, and one verdict over all
\* results: the one the JSON export has, which no result is worse than.
ReportIsWhole ==
  LET boxes == Render(session, ReportTemplate)
      results == SelectSeq(boxes, LAMBDA b : b.what[1] = "result")
      verdict == ResultsToJson(session).overall_verdict
      worse(v) == CASE v = "fail" -> 3 [] v = "marginal" -> 2 [] v = "pass" -> 1 [] OTHER -> 0
  IN  /\ \A i \in DOMAIN boxes :
           /\ boxes[i].top >= PageTop /\ boxes[i].bottom <= PageBottom
           /\ \/ boxes[i].whole
              \/ /\ boxes[i].what[1] \in DOMAIN ParagraphHeights
                 /\ ParagraphHeights[boxes[i].what[1]] > PageBottom - PageTop
           /\ i > 1 => \/ boxes[i].page > boxes[i - 1].page
                       \/ boxes[i].page = boxes[i - 1].page /\ boxes[i].top >= boxes[i - 1].bottom
      /\ [i \in DOMAIN results |-> results[i].what[2]] = [i \in DOMAIN session.results |-> i]
      /\ Len(ResultsToCsv(session).rows) = Len(session.results)
      /\ Shows(boxes, <<"disclaimer", 0>>)
      /\ session.results # <<>> => Shows(boxes, <<verdict, 0>>)
      /\ \A i \in DOMAIN session.results : worse(session.results[i].verdict) <= worse(verdict)
=============================================================================
