------------------------- MODULE ConfigurationDock -------------------------
(***************************************************************************)
(* The widgets a run is configured in (src/ui/docks/RunConfigDock.cpp).    *)
(*                                                                         *)
(* A dock is the settings it has a widget for, the ranges of the widgets   *)
(* an instrument limits, the lines it lists with the rows that are checked *)
(* and the correction tables, enabled as they are checked.  Numbers are    *)
(* taken to have no more decimals than their widget.                       *)
(***************************************************************************)
EXTENDS LimitFiles

Within(value, range) == IF value < range[1] THEN range[1]
                        ELSE IF value > range[2] THEN range[2] ELSE value

\* The settings a widget exists for; the others are those of RunConfiguration{}.
Shown == {"start", "stop", "phase1Points", "phase1Detector", "phase1Rbw", "refLevel", "preamp",
          "verificationDetector", "dwellTime", "verificationSpan", "passes", "marginalThreshold",
          "startCommands", "stopCommands"}
ShownOfPeaks == {"marginThreshold", "prominence", "minimumSpacing", "maximumCount"}

Detectors == {"peak", "quasi-peak", "average", "rms", "sample"}

\* The ranges the widgets are built with.
Ranges == [start |-> <<9, 2000000000>>, stop |-> <<10, 2000000000>>,
           phase1Points |-> <<101, 40001>>, refLevel |-> <<-100, 130>>,
           dwellTime |-> <<10, 60000>>, verificationSpan |-> <<0, 10000000>>,
           passes |-> <<1, 20>>, marginalThreshold |-> <<0, 30>>]
PeakRanges == [marginThreshold |-> <<0, 60>>, prominence |-> <<0, 40>>,
               minimumSpacing |-> <<0, 1000000000>>, maximumCount |-> <<1, 500>>]

\* Blank commands are dropped.
Commands(lines) == SelectSeq(lines, LAMBDA command : command # "")

\* What the widget of a setting holds after it was given a value: a number is
\* brought into its range, a detector or bandwidth that is not offered is not taken.
Displayed(dock, setting, value) ==
  IF setting \in DOMAIN dock.ranges THEN Within(value, dock.ranges[setting])
  ELSE IF setting = "phase1Rbw" THEN (IF value \in dock.bandwidths THEN value ELSE 0)
  ELSE IF setting \in {"phase1Detector", "verificationDetector"}
       THEN (IF value \in Detectors THEN value ELSE dock.settings[setting])
  ELSE value

\* populateLimitCatalogue(): nothing is checked.
FreshDock ==
  [settings |-> Restrict(NoSession.config, Shown),
   peaks |-> Restrict(NoSession.config.peaks, ShownOfPeaks),
   ranges |-> Ranges, bandwidths |-> {0},
   available |-> BuiltInLimitLines, checked |-> {}, tables |-> <<>>]

\* The checked lines in the order of their rows.
SelectedLimits(dock) ==
  LET row == SetToSortSeq(dock.checked, <)
  IN  [i \in DOMAIN row |-> dock.available[row[i]]]

\* configuration()
DockConfiguration(dock) ==
  [dock.settings EXCEPT !.startCommands = Commands(@), !.stopCommands = Commands(@)]
    @@ [maximumPointsPerSweep |-> dock.settings.phase1Points,
        peaks |-> dock.peaks @@ NoSession.config.peaks,
        limits |-> SelectedLimits(dock), corrections |-> dock.tables]
    @@ NoSession.config

\* A line joins the list and is checked, unless one of its name is listed: then
\* that one is checked, whatever its breakpoints.
Check(dock, line) ==
  LET listed == {row \in DOMAIN dock.available : dock.available[row].name = line.name}
  IN  IF listed # {} THEN [dock EXCEPT !.checked = @ \cup {CHOOSE row \in listed : \A r \in listed : row <= r}]
      ELSE [dock EXCEPT !.available = Append(@, line), !.checked = @ \cup {Len(dock.available) + 1}]

\* setConfiguration(): lines that were checked stay checked, the tables are replaced.
ShowConfiguration(dock, config) ==
  LET shown == [dock EXCEPT
        !.settings = [s \in Shown |-> Displayed(dock, s, config[s])],
        !.peaks = [s \in ShownOfPeaks |-> Within(config.peaks[s], PeakRanges[s])],
        !.tables = config.corrections]
  IN  FoldLeft(Check, shown, config.limits)

\* An imported line is a row of its own; without a name it has that of the file.
\* A file that is refused leaves the dock as it is.
ImportLimitLine(dock, file, basename) ==
  LET line == LoadLimit(file)
      named == [line.value EXCEPT !.name = IF @ = "" THEN basename ELSE @]
  IN  IF ~IsOk(line) THEN dock
      ELSE [dock EXCEPT !.available = Append(@, named),
                        !.checked = @ \cup {Len(dock.available) + 1}]

\* An imported table is checked, even one stored as disabled.
ImportCorrectionTable(dock, file, basename) ==
  LET table == LoadTable(file)
      named == [table.value EXCEPT !.name = IF @ = "" THEN basename ELSE @, !.enabled = TRUE]
  IN  IF ~IsOk(table) THEN dock ELSE [dock EXCEPT !.tables = Append(@, named)]

RemoveSelectedCorrection(dock, row) == [dock EXCEPT !.tables = RemoveAt(@, row)]

\* The ranges follow the instrument, and the values the ranges; a bandwidth it
\* does not have becomes the band default.
ApplyCapabilities(dock, caps) ==
  LET ranges == caps.ranges @@ dock.ranges
      offered == [dock EXCEPT !.ranges = ranges, !.bandwidths = caps.bandwidths \cup {0}]
  IN  [offered EXCEPT !.settings = [s \in Shown |-> Displayed(offered, s, @[s])]]
=============================================================================
