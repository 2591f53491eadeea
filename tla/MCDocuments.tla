---------------------------- MODULE MCDocuments ----------------------------
(* Every field of a session takes a value that is not its fallback; two     *)
(* results, in both orders of their verdicts; long tables and texts; a line *)
(* from every kind of file.                                                 *)
EXTENDS Documents

Id == [manufacturer |-> "Rigol", model |-> "RSA", serial |-> "42", firmware |-> "1", raw |-> "idn"]

Measured == [NoSession.meta EXCEPT !.createdAt = 1500, !.modifiedAt = Now, !.runId = "run"]
AllMeta == [eutName |-> "eut", eutSerial |-> "7", eutOperatingMode |-> "on", testSetup |-> "table",
            operatorName |-> "op", company |-> "us", notes |-> "long", applicationVersion |-> "1.0",
            runId |-> "other", createdAt |-> 7700, modifiedAt |-> Now]

Settings == Restrict(NoSession.config, DOMAIN NoSession.config \ {"peaks", "limits", "corrections"})
AllSettings ==
  [start |-> 150, stop |-> 30000, phase1Points |-> 601, phase1Detector |-> "rms",
   phase1Rbw |-> 9000, phase1Vbw |-> 3, refLevel |-> 90, attenuation |-> 20,
   automaticAttenuation |-> FALSE, preamp |-> TRUE, maximumPointsPerSweep |-> 601,
   verificationDetector |-> "average", dwellTime |-> 50, verificationSpan |-> 0,
   verificationPoints |-> 11, verificationRbw |-> 120, passes |-> 3, maxRetries |-> 0,
   operationTimeout |-> 1, marginalThreshold |-> 3, startCommands |-> <<"LISN L1">>,
   stopCommands |-> <<"LISN OFF", "*RST">>, commandTimeout |-> 9, autosave |-> FALSE,
   autosavePath |-> "/tmp"]
AllPeaks == [prominence |-> 5, marginThreshold |-> 10, minimumSpacing |-> 5, maximumCount |-> 3,
             requireLimit |-> FALSE, amplitudeFloor |-> 0]

AllLine == [name |-> "line", standard |-> "std", note |-> "note", kind |-> "conducted",
            equipmentClass |-> "A", detector |-> "average", unit |-> "dBuV", distance |-> 3,
            builtIn |-> FALSE,
            points |-> <<[frequency |-> 150, amplitude |-> 60, interpolation |-> "linear"],
                         [frequency |-> 500, amplitude |-> 66, interpolation |-> "step"],
                         [frequency |-> 500, amplitude |-> 50, interpolation |-> "log-frequency"]>>]
AllTable == [name |-> "LISN", kind |-> "lisn-factor", enabled |-> FALSE,
             points |-> <<[frequency |-> 150, value |-> 1], [frequency |-> 500, value |-> 2]>>]

AllParams == [start |-> 150, stop |-> 500, rbw |-> 9, vbw |-> 3, detector |-> "rms", points |-> 3,
              refLevel |-> 90, attenuation |-> 0, automaticAttenuation |-> FALSE, preamp |-> TRUE,
              sweepTime |-> 5]
Sweep == [label |-> "sweep", axis |-> [start |-> 150, stop |-> 500, points |-> 3, explicit |-> <<>>],
          amplitudes |-> <<40, 55, 41>>, unit |-> "dBm", detector |-> "average", corrected |-> TRUE,
          params |-> AllParams, source |-> Id, acquiredAt |-> 4321]
Stitched == [Sweep EXCEPT !.axis = [start |-> 150, stop |-> 500, points |-> 3,
                                    explicit |-> <<150, 300, 500>>]]

Result == [frequency |-> 300, raw |-> 44, corrected |-> 47, limit |-> 60, margin |-> 13,
           rawUnit |-> "dBm", unit |-> "dBuV/m", detector |-> "average", rbw |-> 9, vbw |-> 3,
           dwell |-> 50, corrections |-> <<[name |-> "LISN", kind |-> "lisn-factor", value |-> 3,
                                            contribution |-> 3]>>,
           limitName |-> "line", verdict |-> "pass", instrument |-> Id, measuredAt |-> 9999,
           pass |-> 2]
Unlimited == [Result EXCEPT !.limit = NaN, !.margin = NaN, !.limitName = "", !.verdict = "unknown"]
Unread == [Unlimited EXCEPT !.raw = NaN, !.corrected = NaN]

Base == [meta |-> Measured,
         config |-> [NoSession.config EXCEPT !.limits = <<AllLine>>, !.corrections = <<AllTable>>],
         traces |-> <<Sweep>>, results |-> <<Result, Unlimited>>]
With(verdicts) == [Base EXCEPT !.results =
                     [i \in DOMAIN verdicts |-> [Result EXCEPT !.verdict = verdicts[i]]]]

Verdicts == {"pass", "marginal", "fail", "unknown"}
MCHandled == {Base,
              [Base EXCEPT !.traces = <<Stitched>>,
                           !.config.startCommands = AllSettings.startCommands,
                           !.config.stopCommands = AllSettings.stopCommands],
              [Base EXCEPT !.results = <<Unread>>, !.traces = <<Stitched, Sweep>>]}
MCSessions ==
  MCHandled
    \cup {[Base EXCEPT !.meta[f] = AllMeta[f]] : f \in DOMAIN AllMeta}
    \cup {[Base EXCEPT !.config[f] = AllSettings[f]] : f \in DOMAIN AllSettings}
    \cup {[Base EXCEPT !.config.peaks[f] = AllPeaks[f]] : f \in DOMAIN AllPeaks}
    \cup {[Base EXCEPT !.traces = <<[Sweep EXCEPT !.amplitudes[2] = NaN]>>]}
    \cup {[Base EXCEPT !.results[1].instrument.raw = Bytes]}
    \cup {[Base EXCEPT !.meta.notes = text, !.results = [i \in 1..n |-> Result]] :
            text \in {"long", "huge"}, n \in {0, 1, 5, 6, 7, 8, 9, 18}}
    \cup {With(<<v, w>>) : v \in Verdicts, w \in Verdicts}
    \cup {[Base EXCEPT !.config.limits = <<line>>] : line \in ToSet(BuiltInLimitLines)}

MCTemplates ==
  {[NoTemplate EXCEPT !.companyName = "us", !.address = "here", !.logoPath = "logo.png",
                      !.title = "", !.introduction = "long", !.conclusion = text,
                      !.includeTables = option, !.includePlot = option, !.includeNotes = option] :
     text \in {"long", "huge"}, option \in BOOLEAN}

Csv(meta, rows) == [format |-> "csv", meta |-> meta, rows |-> rows]
Json(json) == [format |-> "json", json |-> json]
Named == [name |-> "csv", unit |-> "dBuV", kind |-> Alien, distance_m |-> 10]
Unsorted == <<<<Alien, Alien>>, <<500, 30, "linear">>, <<150, 40>>, <<500, 20, Alien>>>>

MCLimitLines ==
  {Unreadable, Csv(Named, Unsorted), Csv([note |-> Bytes], Unsorted), Csv(Named, <<<<150, 40>>>>),
   Csv(Named, Append(Unsorted, <<700>>)), Csv(Named, Append(Unsorted, <<900, NaN>>)),
   Csv(Named, Append(Unsorted, <<0, 40>>)), Json(LimitToJson(AllLine)), Json(Alien)}
MCTables ==
  {Unreadable, Csv([kind |-> "cable-loss"], Unsorted), Csv([kind |-> "cable-loss"], <<>>),
   Csv(Named, <<<<Null, 3>>>>), Json(TableToJson(AllTable)), Json([name |-> "empty"])}

MCAnalyzers == {[ranges |-> [start |-> <<9, 3000000>>, phase1Points |-> <<201, 801>>],
                 bandwidths |-> {9000, 120000}]}
MCParagraphs == [disclaimer |-> 160, long |-> 400, huge |-> 1200]
=============================================================================
