--------------------------- MODULE JsonDocuments ---------------------------
(***************************************************************************)
(* Sessions, limit lines and correction tables as JSON documents           *)
(* (src/core/session/JsonConversions.cpp, SessionSerializer.cpp).          *)
(*                                                                         *)
(* Writing and reading a record are two functions in the code, each with   *)
(* its own list of keys, and so they are here: an object is a record of    *)
(* its keys, a key that was removed is not in its domain, and null and a   *)
(* value of another type (or a word no enumeration knows) are the values   *)
(* Null and Alien.  Numbers stand for themselves, times are microseconds.  *)
(* NaN is any reading that is not finite, Bytes a text that is not UTF-8.  *)
(***************************************************************************)
EXTENDS Integers, Sequences, SequencesExt

CONSTANTS Null, Alien, NaN, Bytes

\* What reading yields: a value, a refusal with its message, or an exception
\* nobody catches.
Ok(value) == [outcome |-> "ok", value |-> value]
Refused == [outcome |-> "refused"]
Thrown == [outcome |-> "thrown"]
IsOk(result) == result.outcome = "ok"

\* The values of a list of results, or the first that is not ok.
Together(results) ==
  IF \A i \in DOMAIN results : IsOk(results[i])
  THEN Ok([i \in DOMAIN results |-> results[i].value])
  ELSE SelectSeq(results, LAMBDA r : ~IsOk(r))[1]

\* json.contains(key)
Has(json, key) == json \notin {Null, Alien} /\ key \in DOMAIN json

\* get(): a missing, null or foreign value is the fallback.
Got(json, key, otherwise) ==
  IF ~Has(json, key) THEN otherwise
  ELSE IF json[key] \in {Null, Alien} THEN otherwise ELSE json[key]

\* The elements of an array, none if the key holds no array.
Elements(json, key) == Got(json, key, <<>>)

\* An array that is read as one value: an element of another type, and none is left.
WholeList(json, key) ==
  LET stored == Elements(json, key)
  IN  IF \E i \in DOMAIN stored : stored[i] \in {Null, Alien} THEN <<>> ELSE stored

\* A number that is not finite is written as null, by dump() if not before.
Written(number) == IF number = NaN THEN Null ELSE number

\* Mutant: a missing limit is read as a limit of zero.
AmplitudeOrZero(json, key) == Got(json, key, 0)

\* A missing limit or margin is read back as NaN, not as zero.
AmplitudeFrom(json, key) == Got(json, key, NaN)

\* Times are stored in milliseconds.
Millis(time) == (time \div 1000) * 1000

-----------------------------------------------------------------------------
(* Limit lines and correction tables.                                      *)

\* stable_sort() keeps the order of breakpoints that share a frequency.
SortPoints(points) ==
  LET tagged == [i \in DOMAIN points |-> <<points[i].frequency, i>>]
      order == SortSeq(tagged, LAMBDA a, b : a[1] < b[1] \/ (a[1] = b[1] /\ a[2] < b[2]))
  IN  [i \in DOMAIN points |-> points[order[i][2]]]

\* LimitLine::validate()
ValidLine(line) ==
  /\ Len(line.points) >= 2
  /\ \A i \in DOMAIN line.points :
       /\ line.points[i].frequency > 0
       /\ line.points[i].amplitude # NaN
       /\ i > 1 => line.points[i].frequency >= line.points[i - 1].frequency

\* CorrectionTable::validate()
ValidTable(table) ==
  \A i \in DOMAIN table.points :
    table.points[i].frequency > 0 /\ table.points[i].value # NaN

LimitToJson(line) ==
  [name |-> line.name, standard |-> line.standard, note |-> line.note, kind |-> line.kind,
   class |-> line.equipmentClass, detector |-> line.detector, unit |-> line.unit,
   distance_m |-> line.distance, built_in |-> line.builtIn,
   points |-> [i \in DOMAIN line.points |->
                 [frequency_hz |-> line.points[i].frequency,
                  amplitude |-> Written(line.points[i].amplitude),
                  interpolation |-> line.points[i].interpolation]]]

StoredLine(json) ==
  LET text(key) == Got(json, key, "")
      point(p) == [frequency |-> Got(p, "frequency_hz", 0), amplitude |-> Got(p, "amplitude", 0),
                   interpolation |-> Got(p, "interpolation", "log-frequency")]
      stored == Elements(json, "points")
  IN  [name |-> text("name"), standard |-> text("standard"), note |-> text("note"),
       kind |-> Got(json, "kind", "radiated"),
       equipmentClass |-> Got(json, "class", "unspecified"),
       detector |-> Got(json, "detector", "quasi-peak"), unit |-> Got(json, "unit", "dBuV/m"),
       distance |-> Got(json, "distance_m", 0), builtIn |-> Got(json, "built_in", FALSE),
       points |-> SortPoints([i \in DOMAIN stored |-> point(stored[i])])]

\* Mutant: a line is taken as it was stored.
LimitUnchecked(json) == Ok(StoredLine(json))

\* A line without an array of points is no line; nor is one that is not valid.
LimitFromJson(json) == IF ValidLine(StoredLine(json)) THEN Ok(StoredLine(json)) ELSE Refused

TableToJson(table) ==
  [name |-> table.name, kind |-> table.kind, enabled |-> table.enabled,
   points |-> [i \in DOMAIN table.points |->
                 [frequency_hz |-> table.points[i].frequency,
                  value_db |-> Written(table.points[i].value)]]]

\* A table without points is a table: it corrects nothing.
TableFromJson(json) ==
  LET point(p) == [frequency |-> Got(p, "frequency_hz", 0), value |-> Got(p, "value_db", 0)]
      stored == Elements(json, "points")
      table == [name |-> Got(json, "name", ""), kind |-> Got(json, "kind", "other"),
                enabled |-> Got(json, "enabled", TRUE),
                points |-> SortPoints([i \in DOMAIN stored |-> point(stored[i])])]
  IN  IF json \in {Null, Alien} \/ ~ValidTable(table) THEN Refused ELSE Ok(table)

-----------------------------------------------------------------------------
(* The parts of a session.                                                 *)

IdToJson(id) == [manufacturer |-> id.manufacturer, model |-> id.model, serial |-> id.serial,
                 firmware |-> id.firmware, idn |-> id.raw]

IdFromJson(json) ==
  LET text(key) == Got(json, key, "")
  IN  [manufacturer |-> text("manufacturer"), model |-> text("model"), serial |-> text("serial"),
       firmware |-> text("firmware"), raw |-> text("idn")]

SweepToJson(p) ==
  [start_hz |-> p.start, stop_hz |-> p.stop, rbw_hz |-> p.rbw, vbw_hz |-> p.vbw,
   detector |-> p.detector, points |-> p.points, ref_level_db |-> p.refLevel,
   attenuation_db |-> p.attenuation, automatic_attenuation |-> p.automaticAttenuation,
   preamp |-> p.preamp, sweep_time_ms |-> p.sweepTime]

SweepFromJson(json) ==
  LET number(key) == Got(json, key, 0)
  IN  [start |-> number("start_hz"), stop |-> number("stop_hz"), rbw |-> number("rbw_hz"),
       vbw |-> number("vbw_hz"), detector |-> Got(json, "detector", "peak"),
       points |-> Got(json, "points", 1001), refLevel |-> number("ref_level_db"),
       attenuation |-> Got(json, "attenuation_db", 10),
       automaticAttenuation |-> Got(json, "automatic_attenuation", TRUE),
       preamp |-> Got(json, "preamp", FALSE), sweepTime |-> number("sweep_time_ms")]

PeaksToJson(s) ==
  [prominence_db |-> s.prominence, margin_threshold_db |-> s.marginThreshold,
   minimum_spacing_hz |-> s.minimumSpacing, maximum_count |-> s.maximumCount,
   require_limit |-> s.requireLimit, amplitude_floor |-> s.amplitudeFloor]

PeaksFromJson(json) ==
  [prominence |-> Got(json, "prominence_db", 3),
   marginThreshold |-> Got(json, "margin_threshold_db", 6),
   minimumSpacing |-> Got(json, "minimum_spacing_hz", 1000000),
   maximumCount |-> Got(json, "maximum_count", 20),
   requireLimit |-> Got(json, "require_limit", TRUE),
   amplitudeFloor |-> Got(json, "amplitude_floor", -200)]

\* The bins of a stitched trace are stored one by one, those of a sweep are not.
AxisToJson(axis) ==
  LET even == [start_hz |-> axis.start, stop_hz |-> axis.stop, points |-> axis.points]
  IN  IF axis.explicit = <<>> THEN even ELSE even @@ [frequencies_hz |-> axis.explicit]

\* FrequencyAxis::size()
AxisSize(axis) == IF axis.explicit = <<>> THEN axis.points ELSE Len(axis.explicit)

TraceToJson(t) ==
  [label |-> t.label, axis |-> AxisToJson(t.axis),
   amplitudes |-> [i \in DOMAIN t.amplitudes |-> Written(t.amplitudes[i])],
   unit |-> t.unit, detector |-> t.detector, corrected |-> t.corrected,
   params |-> SweepToJson(t.params), source |-> IdToJson(t.source),
   acquired_at |-> Millis(t.acquiredAt)]

\* SweepParams{} and InstrumentId{}
NoParams == SweepFromJson(Null)
NoInstrument == IdFromJson(Null)

\* One amplitude that is no number makes the whole list unreadable; a frequency
\* that is none throws, because it is not read through get().
TraceFromJson(json) ==
  LET amplitudes == WholeList(json, "amplitudes")
      axisJson == IF Has(json, "axis") THEN json.axis ELSE Null
      explicit == Elements(axisJson, "frequencies_hz")
      axis == [start |-> Got(axisJson, "start_hz", 0), stop |-> Got(axisJson, "stop_hz", 0),
               points |-> Got(axisJson, "points", Len(amplitudes)), explicit |-> explicit]
  IN  IF ~Has(json, "amplitudes") THEN Refused
      ELSE IF \E i \in DOMAIN explicit : explicit[i] \in {Null, Alien} THEN Thrown
      ELSE IF AxisSize(axis) # Len(amplitudes) THEN Refused
      ELSE Ok([label |-> Got(json, "label", ""), axis |-> axis, amplitudes |-> amplitudes,
               unit |-> Got(json, "unit", "dBuV"), detector |-> Got(json, "detector", "peak"),
               corrected |-> Got(json, "corrected", FALSE),
               params |-> IF Has(json, "params") THEN SweepFromJson(json.params) ELSE NoParams,
               source |-> IF Has(json, "source") THEN IdFromJson(json.source) ELSE NoInstrument,
               acquiredAt |-> Got(json, "acquired_at", 0)])

CorrectionToJson(c) == [name |-> c.name, kind |-> c.kind, value_db |-> Written(c.value),
                        contribution_db |-> Written(c.contribution)]

CorrectionFromJson(json) ==
  [name |-> Got(json, "name", ""), kind |-> Got(json, "kind", "other"),
   value |-> Got(json, "value_db", 0), contribution |-> Got(json, "contribution_db", 0)]

PointToJson(p) ==
  [frequency_hz |-> p.frequency, raw_amplitude |-> Written(p.raw),
   corrected_amplitude |-> Written(p.corrected), limit |-> Written(p.limit),
   margin_db |-> Written(p.margin), raw_unit |-> p.rawUnit, unit |-> p.unit,
   detector |-> p.detector, rbw_hz |-> p.rbw, vbw_hz |-> p.vbw, dwell_ms |-> p.dwell,
   corrections |-> [i \in DOMAIN p.corrections |-> CorrectionToJson(p.corrections[i])],
   limit_name |-> p.limitName, verdict |-> p.verdict, instrument |-> IdToJson(p.instrument),
   measured_at |-> Millis(p.measuredAt), pass |-> p.pass]

PointFromJson(json) ==
  LET number(key) == Got(json, key, 0)
      corrections == Elements(json, "corrections")
  IN  IF json \in {Null, Alien} THEN Refused
      ELSE Ok([frequency |-> number("frequency_hz"), raw |-> number("raw_amplitude"),
               corrected |-> number("corrected_amplitude"),
               limit |-> AmplitudeFrom(json, "limit"), margin |-> AmplitudeFrom(json, "margin_db"),
               rawUnit |-> Got(json, "raw_unit", "dBuV"), unit |-> Got(json, "unit", "dBuV"),
               detector |-> Got(json, "detector", "quasi-peak"), rbw |-> number("rbw_hz"),
               vbw |-> number("vbw_hz"), dwell |-> number("dwell_ms"),
               corrections |-> [i \in DOMAIN corrections |-> CorrectionFromJson(corrections[i])],
               limitName |-> Got(json, "limit_name", ""),
               verdict |-> Got(json, "verdict", "unknown"),
               instrument |-> IF Has(json, "instrument") THEN IdFromJson(json.instrument)
                              ELSE NoInstrument,
               measuredAt |-> number("measured_at"), pass |-> Got(json, "pass", 1)])

ConfigToJson(c) ==
  [start_hz |-> c.start, stop_hz |-> c.stop, phase1_points |-> c.phase1Points,
   phase1_detector |-> c.phase1Detector, phase1_rbw_hz |-> c.phase1Rbw,
   phase1_vbw_hz |-> c.phase1Vbw, ref_level_db |-> c.refLevel,
   attenuation_db |-> c.attenuation, automatic_attenuation |-> c.automaticAttenuation,
   preamp |-> c.preamp, maximum_points_per_sweep |-> c.maximumPointsPerSweep,
   peaks |-> PeaksToJson(c.peaks), verification_detector |-> c.verificationDetector,
   dwell_ms |-> c.dwellTime, verification_span_hz |-> c.verificationSpan,
   verification_points |-> c.verificationPoints, verification_rbw_hz |-> c.verificationRbw,
   passes |-> c.passes, max_retries |-> c.maxRetries,
   operation_timeout_ms |-> c.operationTimeout, marginal_threshold_db |-> c.marginalThreshold,
   start_commands |-> c.startCommands, stop_commands |-> c.stopCommands,
   command_timeout_ms |-> c.commandTimeout, autosave |-> c.autosave,
   autosave_path |-> c.autosavePath,
   limits |-> [i \in DOMAIN c.limits |-> LimitToJson(c.limits[i])],
   corrections |-> [i \in DOMAIN c.corrections |-> TableToJson(c.corrections[i])]]

\* Every setting but the lines and tables: those of RunConfiguration{} are the
\* fallbacks.
SettingsFromJson(json) ==
  [start |-> Got(json, "start_hz", 30000000), stop |-> Got(json, "stop_hz", 1000000000),
   phase1Points |-> Got(json, "phase1_points", 1001),
   phase1Detector |-> Got(json, "phase1_detector", "peak"),
   phase1Rbw |-> Got(json, "phase1_rbw_hz", 0), phase1Vbw |-> Got(json, "phase1_vbw_hz", 0),
   refLevel |-> Got(json, "ref_level_db", 80), attenuation |-> Got(json, "attenuation_db", 10),
   automaticAttenuation |-> Got(json, "automatic_attenuation", TRUE),
   preamp |-> Got(json, "preamp", FALSE),
   maximumPointsPerSweep |-> Got(json, "maximum_points_per_sweep", 1001),
   peaks |-> PeaksFromJson(IF Has(json, "peaks") THEN json.peaks ELSE Null),
   verificationDetector |-> Got(json, "verification_detector", "quasi-peak"),
   dwellTime |-> Got(json, "dwell_ms", 1000),
   verificationSpan |-> Got(json, "verification_span_hz", 200000),
   verificationPoints |-> Got(json, "verification_points", 101),
   verificationRbw |-> Got(json, "verification_rbw_hz", 0), passes |-> Got(json, "passes", 1),
   maxRetries |-> Got(json, "max_retries", 2),
   operationTimeout |-> Got(json, "operation_timeout_ms", 15000),
   marginalThreshold |-> Got(json, "marginal_threshold_db", 6),
   startCommands |-> WholeList(json, "start_commands"),
   stopCommands |-> WholeList(json, "stop_commands"),
   commandTimeout |-> Got(json, "command_timeout_ms", 5000),
   autosave |-> Got(json, "autosave", TRUE), autosavePath |-> Got(json, "autosave_path", "")]

\* One line or table that is refused refuses the configuration.
ConfigFromJson(json) ==
  LET read(stored, From(_)) == Together([i \in DOMAIN stored |-> From(stored[i])])
      limits == read(Elements(json, "limits"), LimitFromJson)
      corrections == read(Elements(json, "corrections"), TableFromJson)
  IN  IF json \in {Null, Alien} \/ ~IsOk(limits) \/ ~IsOk(corrections) THEN Refused
      ELSE Ok(SettingsFromJson(json) @@ [limits |-> limits.value,
                                         corrections |-> corrections.value])

MetaToJson(m) ==
  [eut_name |-> m.eutName, eut_serial |-> m.eutSerial, eut_operating_mode |-> m.eutOperatingMode,
   test_setup |-> m.testSetup, operator |-> m.operatorName, company |-> m.company,
   notes |-> m.notes, application_version |-> m.applicationVersion, run_id |-> m.runId,
   created_at |-> Millis(m.createdAt), modified_at |-> Millis(m.modifiedAt)]

MetaFromJson(json) ==
  LET text(key) == Got(json, key, "")
  IN  [eutName |-> text("eut_name"), eutSerial |-> text("eut_serial"),
       eutOperatingMode |-> text("eut_operating_mode"), testSetup |-> text("test_setup"),
       operatorName |-> text("operator"), company |-> text("company"), notes |-> text("notes"),
       applicationVersion |-> text("application_version"), runId |-> text("run_id"),
       createdAt |-> Got(json, "created_at", 0), modifiedAt |-> Got(json, "modified_at", 0)]

-----------------------------------------------------------------------------
(* Session files.                                                          *)

SchemaName == "peakemi.session"
CurrentSchemaVersion == 1
MinimumSupportedSchemaVersion == 1

\* Texts that came from an instrument or from an imported file are written as
\* they are; dump() throws on one that is not UTF-8.
Texts(session) ==
  LET ids == {session.traces[i].source : i \in DOMAIN session.traces}
               \cup {session.results[i].instrument : i \in DOMAIN session.results}
      lines == ToSet(session.config.limits)
  IN  UNION {{id.manufacturer, id.model, id.serial, id.firmware, id.raw} : id \in ids}
        \cup UNION {{line.name, line.standard, line.note} : line \in lines}
        \cup {table.name : table \in ToSet(session.config.corrections)}
        \cup {session.results[i].limitName : i \in DOMAIN session.results}

SessionToJson(session) ==
  IF Bytes \in Texts(session) THEN Thrown
  ELSE Ok([schema |-> SchemaName, schema_version |-> CurrentSchemaVersion,
           meta |-> MetaToJson(session.meta), config |-> ConfigToJson(session.config),
           traces |-> [i \in DOMAIN session.traces |-> TraceToJson(session.traces[i])],
           results |-> [i \in DOMAIN session.results |-> PointToJson(session.results[i])]])

\* Session{}
NoSession == [meta |-> MetaFromJson(Null),
              config |-> SettingsFromJson(Null) @@ [limits |-> <<>>, corrections |-> <<>>],
              traces |-> <<>>, results |-> <<>>]

\* json.value(): an absent key has the fallback, but another type throws.
Throws(json, key) == Has(json, key) /\ json[key] \in {Null, Alien}

SessionFromJson(json) ==
  LET version == Got(json, "schema_version", 0)
      config == IF Has(json, "config") THEN ConfigFromJson(json.config) ELSE Ok(NoSession.config)
      stored(key) == Elements(json, key)
      traces == Together([i \in DOMAIN stored("traces") |-> TraceFromJson(stored("traces")[i])])
      results == Together([i \in DOMAIN stored("results") |-> PointFromJson(stored("results")[i])])
  IN  IF json \in {Null, Alien} THEN Refused
      ELSE IF Throws(json, "schema") THEN Thrown
      ELSE IF Got(json, "schema", "") # SchemaName THEN Refused
      ELSE IF Throws(json, "schema_version") THEN Thrown
      ELSE IF version < MinimumSupportedSchemaVersion THEN Refused
      ELSE IF version > CurrentSchemaVersion THEN Refused
      ELSE IF ~IsOk(config) THEN Refused
      ELSE IF ~IsOk(traces) THEN traces
      ELSE IF ~IsOk(results) THEN results
      ELSE Ok([meta |-> IF Has(json, "meta") THEN MetaFromJson(json.meta) ELSE NoSession.meta,
               config |-> config.value, traces |-> traces.value, results |-> results.value])
=============================================================================
