----------------------------- MODULE LimitFiles -----------------------------
(***************************************************************************)
(* Limit lines and correction tables as files (src/core/limits/            *)
(* LimitLineIo.cpp), and the built-in lines (LimitCatalogue.cpp).          *)
(*                                                                         *)
(* A file that can be read is [format, json] or, as CSV, the values of its *)
(* comment block and its rows, a sequence of fields each.  A field is a    *)
(* number, NaN for "nan" or "inf", Null if it begins like a number but is  *)
(* none that fits, or Alien if it is a word.                               *)
(***************************************************************************)
EXTENDS JsonDocuments

CONSTANT Unreadable \* a file that cannot be opened

\* The value of a comment, if it has one of the values the key may have.
Comment(csv, key, otherwise) == Got(csv.meta, key, otherwise)

\* Rows whose first field does not look like a number are headers.
DataRows(csv) == SelectSeq(csv.rows, LAMBDA row : row[1] # Alien)

\* Mutant: the points stay in the order of the file.
AsInFile(points) == points

InOrder(points) == SortPoints(points)

\* Two fields that are numbers, the first a frequency.
Numeric(row) == Len(row) >= 2 /\ row[1] \notin {Null, NaN} /\ row[2] \notin {Null, Alien}

LimitFromCsv(csv) ==
  LET rows == DataRows(csv)
      interpolation(row) == IF Len(row) > 2 /\ row[3] # Alien THEN row[3] ELSE "log-frequency"
      text(key) == Comment(csv, key, "")
      line == [name |-> text("name"), standard |-> text("standard"), note |-> text("note"),
               kind |-> Comment(csv, "kind", "radiated"),
               equipmentClass |-> Comment(csv, "class", "unspecified"),
               detector |-> Comment(csv, "detector", "quasi-peak"),
               unit |-> Comment(csv, "unit", "dBuV/m"),
               distance |-> Comment(csv, "distance_m", 0), builtIn |-> FALSE,
               points |-> InOrder([i \in DOMAIN rows |->
                 [frequency |-> rows[i][1], amplitude |-> rows[i][2],
                  interpolation |-> interpolation(rows[i])]])]
  IN  IF rows = <<>> \/ \E i \in DOMAIN rows : ~Numeric(rows[i]) THEN Refused
      ELSE IF ValidLine(line) THEN Ok(line) ELSE Refused

TableFromCsv(csv) ==
  LET rows == DataRows(csv)
      table == [name |-> Comment(csv, "name", ""), kind |-> Comment(csv, "kind", "other"),
                enabled |-> TRUE,
                points |-> InOrder([i \in DOMAIN rows |->
                                      [frequency |-> rows[i][1], value |-> rows[i][2]]])]
  IN  IF rows = <<>> \/ \E i \in DOMAIN rows : ~Numeric(rows[i]) THEN Refused
      ELSE IF ValidTable(table) THEN Ok(table) ELSE Refused

\* limit_io::load() and correction_io::load()
LoadLimit(file) ==
  IF file = Unreadable THEN Refused
  ELSE IF file.format = "json" THEN LimitFromJson(file.json) ELSE LimitFromCsv(file)

LoadTable(file) ==
  IF file = Unreadable THEN Refused
  ELSE IF file.format = "json" THEN TableFromJson(file.json) ELSE TableFromCsv(file)

-----------------------------------------------------------------------------
(* The built-in lines: kilohertz and tenths of a decibel.                  *)

BuiltIn(name, standard, kind, class, detector, distance, points) ==
  [name |-> name, standard |-> standard, note |-> "", kind |-> kind, equipmentClass |-> class,
   detector |-> detector, unit |-> IF kind = "conducted" THEN "dBuV" ELSE "dBuV/m",
   distance |-> distance, builtIn |-> TRUE,
   points |-> [i \in DOMAIN points |->
     [frequency |-> points[i][1], amplitude |-> points[i][2],
      interpolation |-> IF Len(points[i]) = 3 THEN "log-frequency" ELSE "step"]]]

\* A third field: the limit falls towards the next breakpoint.
Falling == TRUE
ClassBMains(db) == <<<<150, db + 100, Falling>>, <<500, db>>, <<5000, db + 40>>, <<30000, db + 40>>>>
ClassAMains(db) == <<<<150, db + 60>>, <<500, db>>, <<30000, db>>>>

\* In the order of the catalogue; the notes are left out.
BuiltInLimitLines ==
  LET mains(name, standard, class, detector, points) ==
        BuiltIn(name, standard, "conducted", class, detector, 0, points)
      field(name, standard, class, distance, points) ==
        BuiltIn(name, standard, "radiated", class, "quasi-peak", distance, points)
      ten(low, high) == <<<<30000, low>>, <<230000, high>>, <<1000000, high>>>>
      bands(a, b, c, d) == <<<<30000, a>>, <<88000, b>>, <<216000, c>>, <<960000, d>>, <<1000000, d>>>>
  IN  <<mains("CISPR 32 Class B conducted (QP)", "A.3", "B", "quasi-peak", ClassBMains(560)),
        mains("CISPR 32 Class B conducted (AV)", "A.3", "B", "average", ClassBMains(460)),
        mains("CISPR 32 Class A conducted (QP)", "A.6", "A", "quasi-peak", ClassAMains(730)),
        mains("CISPR 32 Class A conducted (AV)", "A.6", "A", "average", ClassAMains(600)),
        field("CISPR 32 Class B radiated 10 m (QP)", "A.4", "B", 10, ten(300, 370)),
        field("CISPR 32 Class A radiated 10 m (QP)", "A.7", "A", 10, ten(400, 470)),
        mains("FCC Part 15B Class B conducted (QP)", "15.107(a)", "B", "quasi-peak", ClassBMains(560)),
        mains("FCC Part 15B Class A conducted (QP)", "15.107(b)", "A", "quasi-peak", ClassAMains(730)),
        field("FCC Part 15B Class B radiated 3 m (QP)", "15.109(a)", "B", 3, bands(400, 435, 460, 540)),
        field("FCC Part 15B Class A radiated 10 m (QP)", "15.109(b)", "A", 10, bands(390, 435, 464, 495))>>

NamesOf(lines) == [i \in DOMAIN lines |-> lines[i].name]

\* builtInLimitLine(): the first of that name.
BuiltInLimitLine(name) ==
  IF name \in ToSet(NamesOf(BuiltInLimitLines))
  THEN Ok(SelectSeq(BuiltInLimitLines, LAMBDA line : line.name = name)[1])
  ELSE Refused
=============================================================================
