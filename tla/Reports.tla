------------------------------ MODULE Reports ------------------------------
(***************************************************************************)
(* What is made of a session for others (src/reporting): the verdict over  *)
(* its results, the CSV and JSON exports, the report template and the      *)
(* pages of the PDF report.                                                *)
(*                                                                         *)
(* A report is a sequence of items, each with a kind and a height in dots  *)
(* of 1/300 inch, which a cursor places one after the other; what is drawn *)
(* is a sequence of boxes.  A text is known by its height as a paragraph.  *)
(***************************************************************************)
EXTENDS JsonDocuments

CONSTANTS
  PageTop, PageBottom, \* where the pages begin and end
  PlotHeight,          \* the spectrum, scaled to the width of the page
  ParagraphHeights     \* the height of every text, and of the compliance notice

ASSUME PageAssumption ==
  /\ PageTop \in Nat /\ PageBottom \in Nat
  /\ \A height \in {PlotHeight, ParagraphHeights.disclaimer} : PageTop + height <= PageBottom

\* toDots() of 5, 4.2, 9 and 15 millimetres, and of the gaps.
LineHeight == 59
SmallLineHeight == 50
TitleHeight == 106
LogoHeight == 177
Gap(millimetres) == <<12, 24, 35, 47>>[millimetres]

-----------------------------------------------------------------------------
(* Verdicts.                                                               *)

\* Mutant: the last result that has a verdict decides.
LastVerdict(results) ==
  LET judged == SelectSeq(results, LAMBDA p : p.verdict # "unknown")
  IN  IF judged = <<>> THEN "unknown" ELSE judged[Len(judged)].verdict

\* Session::overallVerdict(): a result without a verdict changes nothing.
OverallVerdict(results) ==
  LET verdicts == {results[i].verdict : i \in DOMAIN results}
  IN  IF "fail" \in verdicts THEN "fail"
      ELSE IF "marginal" \in verdicts THEN "marginal"
      ELSE IF "pass" \in verdicts THEN "pass" ELSE "unknown"

-----------------------------------------------------------------------------
(* Exports.  A number that is not finite is null, or an empty cell.        *)

\* Both name the instrument of the first result, whatever measured the others.
ExportedInstrument(session) ==
  IF session.results = <<>> THEN NoInstrument ELSE session.results[1].instrument

CsvRow(p) ==
  [frequency |-> p.frequency, raw |-> Written(p.raw), corrected |-> Written(p.corrected),
   unit |-> p.unit, limit |-> Written(p.limit), margin |-> Written(p.margin),
   verdict |-> p.verdict, detector |-> p.detector, rbw |-> p.rbw, vbw |-> p.vbw,
   dwell |-> p.dwell, limitName |-> p.limitName, measuredAt |-> Millis(p.measuredAt),
   corrections |-> [i \in DOMAIN p.corrections |->
                      <<p.corrections[i].name, p.corrections[i].contribution>>]]

CsvHeader(session, instrument) ==
  [meta |-> session.meta, instrument |-> instrument,
   corrections |-> [i \in DOMAIN session.config.corrections |->
     LET table == session.config.corrections[i]
     IN  <<table.name, table.kind, table.enabled, Len(table.points)>>],
   limits |-> [i \in DOMAIN session.config.limits |->
     <<session.config.limits[i].name, session.config.limits[i].standard>>]]

ResultsToCsv(session) ==
  [header |-> CsvHeader(session, ExportedInstrument(session)),
   rows |-> [i \in DOMAIN session.results |-> CsvRow(session.results[i])]]

\* FrequencyAxis::frequencyAt()
FrequencyAt(axis, i) ==
  IF axis.explicit # <<>> THEN axis.explicit[i]
  ELSE IF axis.points <= 1 THEN axis.start
  ELSE axis.start + ((i - 1) * (axis.stop - axis.start)) \div (axis.points - 1)

TraceToCsv(session, t) ==
  [header |-> CsvHeader(session, t.source), label |-> t.label, detector |-> t.detector,
   unit |-> t.unit, corrected |-> t.corrected, rbw |-> t.params.rbw, vbw |-> t.params.vbw,
   acquiredAt |-> Millis(t.acquiredAt),
   rows |-> [i \in DOMAIN t.amplitudes |-> <<FrequencyAt(t.axis, i), Written(t.amplitudes[i])>>]]

\* As in a session file, but for the instrument.
ResultToJson(p) == Restrict(PointToJson(p), DOMAIN PointToJson(p) \ {"instrument"})

ResultsToJson(session) ==
  [run_id |-> session.meta.runId, instrument |-> ExportedInstrument(session),
   configuration |-> Restrict(session.config,
     {"start", "stop", "phase1Detector", "verificationDetector", "dwellTime",
      "marginalThreshold", "passes"}),
   limits |-> [i \in DOMAIN session.config.limits |->
     Restrict(session.config.limits[i],
              {"name", "standard", "unit", "equipmentClass", "kind", "distance"})],
   overall_verdict |-> OverallVerdict(session.results),
   results |-> [i \in DOMAIN session.results |-> ResultToJson(session.results[i])]]

-----------------------------------------------------------------------------
(* The report template.                                                    *)

DefaultTitle == "EMI pre-compliance measurement report"

TemplateToJson(t) ==
  [schema |-> "peakemi.report-template", schema_version |-> 1, company_name |-> t.companyName,
   address |-> t.address, logo_path |-> t.logoPath, title |-> t.title,
   introduction |-> t.introduction, conclusion |-> t.conclusion,
   include_correction_tables |-> t.includeTables, include_trace_plot |-> t.includePlot,
   include_notes |-> t.includeNotes]

\* An empty title is replaced, so that no report is untitled.
StoredTemplate(json) ==
  LET text(key) == Got(json, key, "")
      title == text("title")
  IN  [companyName |-> text("company_name"), address |-> text("address"),
       logoPath |-> text("logo_path"), introduction |-> text("introduction"),
       conclusion |-> text("conclusion"), title |-> IF title = "" THEN DefaultTitle ELSE title,
       includeTables |-> Got(json, "include_correction_tables", TRUE),
       includePlot |-> Got(json, "include_trace_plot", TRUE),
       includeNotes |-> Got(json, "include_notes", TRUE)]

TemplateFromJson(json) ==
  IF json \in {Null, Alien} THEN Refused
  ELSE IF Throws(json, "schema") THEN Thrown
  ELSE IF Got(json, "schema", "") # "peakemi.report-template" THEN Refused
  ELSE IF Throws(json, "schema_version") THEN Thrown
  ELSE IF Got(json, "schema_version", 0) > 1 THEN Refused ELSE Ok(StoredTemplate(json))

\* ReportTemplate{}
NoTemplate == StoredTemplate(Null)

\* loadDefault(): a file that is missing or refused is ignored.
LoadDefault(json) == IF IsOk(TemplateFromJson(json)) THEN TemplateFromJson(json).value
                     ELSE NoTemplate

-----------------------------------------------------------------------------
(* The pages of the PDF report.                                            *)

Skip(height) == [kind |-> "gap", what |-> <<"gap", 0>>, height |-> height]
Line(what, height) == [kind |-> "line", what |-> what, height |-> height]
Heading(title) == Line(<<title, 0>>, LineHeight)
KeyValue(key) == Line(<<key, 0>>, LineHeight)
Paragraph(text) == [kind |-> "paragraph", what |-> <<text, 0>>, height |-> ParagraphHeights[text]]
When(condition, items) == IF condition THEN items ELSE <<>>
Each(list, Item(_)) == [i \in DOMAIN list |-> Item(i)]

TitleBlock(session, t) ==
  When(t.logoPath # "", <<[kind |-> "logo", what |-> <<"logo", 0>>, height |-> LogoHeight]>>)
  \o <<Line(<<"title", 0>>, TitleHeight)>>
  \o When(t.companyName # "", <<Heading("company")>>)
  \o When(t.address # "", <<Heading("address")>>)
  \o <<Skip(Gap(3)), KeyValue("eut"), KeyValue("serial"), KeyValue("mode"), KeyValue("setup"),
       KeyValue("operator"), KeyValue("run"), KeyValue("date"), KeyValue("application")>>
  \o When(session.results # <<>>, <<Line(<<OverallVerdict(session.results), 0>>, LineHeight)>>)
  \o <<Skip(Gap(4))>>
  \o When(t.introduction # "", <<Paragraph(t.introduction)>>)
  \o <<Skip(Gap(2)), Heading("notice"), Paragraph("disclaimer")>>

ConfigurationBlock(config) ==
  <<Skip(Gap(3)), Heading("configuration"), KeyValue("span"), KeyValue("phase 1"),
    KeyValue("phase 2"), KeyValue("dwell"), KeyValue("peak threshold"),
    KeyValue("marginal threshold")>>
  \o Each(config.limits, LAMBDA i : Line(<<"limit", i>>, LineHeight))

PlotBlock(t) ==
  When(t.includePlot, <<Skip(Gap(3)), Heading("spectrum"),
                        [kind |-> "plot", what |-> <<"plot", 0>>, height |-> PlotHeight],
                        Skip(Gap(3))>>)

ResultTable(results) ==
  <<Skip(Gap(3)), Heading("points"), Line(<<"columns", 0>>, SmallLineHeight)>>
  \o When(results = <<>>, <<Heading("none recorded")>>)
  \o Each(results, LAMBDA i : Line(<<"result", i>>, SmallLineHeight))

CorrectionBlock(config, t) ==
  LET lines == FoldLeft(LAMBDA before, table :
                          before \o <<Line(<<"table", 0>>, SmallLineHeight)>>
                            \o Each(table.points, LAMBDA i : Line(<<"value", i>>, SmallLineHeight)),
                        <<>>, config.corrections)
  IN  When(t.includeTables /\ config.corrections # <<>>,
           <<Skip(Gap(4)), Heading("corrections")>> \o lines)

Conclusion(session, t) ==
  When(t.includeNotes /\ session.meta.notes # "",
       <<Skip(Gap(4)), Heading("notes"), Paragraph(session.meta.notes)>>)
  \o When(t.conclusion # "", <<Skip(Gap(3)), Paragraph(t.conclusion)>>)

Items(session, t) ==
  TitleBlock(session, t) \o ConfigurationBlock(session.config) \o PlotBlock(t)
    \o ResultTable(session.results) \o CorrectionBlock(session.config, t) \o Conclusion(session, t)

FirstPage == [page |-> 1, y |-> PageTop, boxes |-> <<>>]
NewPage(cursor) == [cursor EXCEPT !.page = @ + 1, !.y = PageTop]

\* Mutant: the room for a line is checked without its height.
EnsureAny(cursor, height) == IF cursor.y > PageBottom THEN NewPage(cursor) ELSE cursor

Ensure(cursor, height) == IF cursor.y + height > PageBottom THEN NewPage(cursor) ELSE cursor

\* What is drawn of an item, and how far the cursor moves.
Draw(cursor, item, drawn, advance) ==
  [cursor EXCEPT !.y = @ + advance,
                 !.boxes = Append(@, [what |-> item.what, page |-> cursor.page, top |-> cursor.y,
                                      bottom |-> cursor.y + drawn, whole |-> drawn = item.height])]

\* The logo is not ensured, it is the first item.  A paragraph that is longer
\* than the rest of the page begins a new one, and is cut at its end.
Place(cursor, item) ==
  LET room == Ensure(cursor, item.height)
  IN  CASE item.kind = "gap"       -> [cursor EXCEPT !.y = @ + item.height]
        [] item.kind = "logo"      -> Draw(cursor, item, LogoHeight, 213)
        [] item.kind = "line"      -> Draw(room, item, item.height, item.height)
        [] item.kind = "plot"      -> Draw(room, item, item.height, item.height)
        [] item.kind = "paragraph" ->
             LET rest == PageBottom - cursor.y
                 start == IF item.height > rest THEN NewPage(cursor) ELSE cursor
                 shown == Min({item.height, PageBottom - start.y})
             IN  Draw(start, item, shown, item.height + Gap(2))

Render(session, t) ==
  LET items == Items(session, t)
      cursor[i \in 0..Len(items)] ==
        IF i = 0 THEN FirstPage ELSE Place(cursor[i - 1], items[i])
  IN  cursor[Len(items)].boxes
=============================================================================
