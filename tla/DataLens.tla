-------------------------------- MODULE DataLens --------------------------------
(***************************************************************************)
(* Data views: a table, a JSON document or a log as rows of cells, where   *)
(* every cell knows the place in the source it came from.  An edit of one  *)
(* cell replaces that place and nothing else, and is refused where that    *)
(* would not give the cell its value.                                      *)
(*                                                                         *)
(* A source is a sequence of signs.  Of a table: "," (the delimiter),      *)
(* "q" (a quote), "r", "n", "x" and, in front, "B" (a byte order mark).    *)
(* Of a log: "T" (a time in brackets), "L" (a level), " ", "x", "r", "n".  *)
(* Of JSON: its tokens; "s" and "t" are strings, "1" and "2" numbers, "z"  *)
(* is null, "b" true, "c" a comment.  A place is [beg, end), from 1.       *)
(***************************************************************************)
EXTENDS Integers, Sequences

CONSTANTS MaxRows, MaxCells, MaxDepth

Breaks == {"r", "n"}
Cell(value, beg, end, kind) == [value |-> value, beg |-> beg, end |-> end, kind |-> kind]
Refused == {}
Splice(s, beg, end, new) == SubSeq(s, 1, beg - 1) \o new \o SubSeq(s, end, Len(s))

(***************************************************************************)
(* Tables.  External: the csv crate reads a record per line, skips empty   *)
(* lines, and takes quotes where they stand.                               *)
(***************************************************************************)
CsvRecords(s) ==
  LET start == [mode |-> "record", field |-> <<>>, record |-> <<>>, records |-> <<>>]
      EndField(a, mode) == [a EXCEPT !.mode = mode, !.record = Append(@, a.field), !.field = <<>>]
      EndRecord(a) == [EndField(a, "record") EXCEPT
                         !.records = Append(@, Append(a.record, a.field)), !.record = <<>>]
      Add(a, c, mode) == [a EXCEPT !.mode = mode, !.field = Append(@, c)]
      Step(a, c) ==
        CASE a.mode = "record" /\ c \in Breaks -> a
          [] a.mode = "quoted" -> IF c = "q" THEN [a EXCEPT !.mode = "quote"]
                                  ELSE Add(a, c, "quoted")
          [] a.mode = "quote" /\ c = "q" -> Add(a, c, "quoted")
          [] a.mode \in {"record", "start"} /\ c = "q" -> [a EXCEPT !.mode = "quoted"]
          [] a.mode \notin {"quoted", "record"} /\ c \in Breaks -> EndRecord(a)
          [] a.mode # "quoted" /\ c = "," -> EndField(a, "start")
          [] OTHER -> Add(a, c, "plain")
      first == IF s # <<>> /\ s[1] = "B" THEN 1 ELSE 0
      f[i \in first .. Len(s)] == IF i = first THEN start ELSE Step(f[i - 1], s[i])
      Records(last) == IF last.mode = "record" THEN last.records ELSE EndRecord(last).records
  IN Records(f[Len(s)])

\* Behind the field that starts at i, or 0 if it is malformed.
FieldEnd(s, i) ==
  LET Over(j) == j > Len(s) \/ s[j] \in Breaks \cup {","}
      close[j \in i .. Len(s) + 2] ==
        IF j > Len(s) THEN 0
        ELSE IF s[j] = "q" /\ j < Len(s) /\ s[j + 1] = "q" THEN close[j + 2]
        ELSE IF s[j] = "q" THEN j + 1 ELSE close[j + 1]
      plain[j \in i .. Len(s) + 1] ==
        IF Over(j) THEN j ELSE IF s[j] = "q" THEN 0 ELSE plain[j + 1]
      Closed(e) == IF e > 0 /\ Over(e) THEN e ELSE 0
  IN IF i <= Len(s) /\ s[i] = "q" THEN Closed(close[i + 1]) ELSE plain[i]

\* csv_spans: the places of all fields, row by row; refused if one is malformed.
CsvSpans(s) ==
  LET At(j, c) == j <= Len(s) /\ s[j] = c
      Next(e) == LET r == IF At(e, "r") THEN e + 1 ELSE e IN IF At(r, "n") THEN r + 1 ELSE r
      row[i \in 1 .. Len(s) + 1] ==
        LET Field(e) ==
              CASE e = 0 -> [next |-> 0, fields |-> <<>>]
                [] e > 0 /\ At(e, ",") -> [row[e + 1] EXCEPT !.fields = <<<<i, e>>>> \o @]
                [] OTHER -> [next |-> Next(e), fields |-> <<<<i, e>>>>]
        IN Field(FieldEnd(s, i))
      rows[i \in 1 .. Len(s) + 1] ==
        LET Below(r) == IF r.next = 0 THEN Refused ELSE {<<r.fields>> \o rest : rest \in rows[r.next]}
        IN CASE i > Len(s) -> {<<>>}
             [] i <= Len(s) /\ s[i] \in Breaks -> rows[i + 1]
             [] OTHER -> Below(row[i])
  IN rows[IF At(1, "B") THEN 2 ELSE 1]

\* parse_csv: what was read must fit what was found, cell by cell.
ParseCsv(s) ==
  LET fits(read, spans) ==
        /\ Len(spans) = Len(read) /\ Len(spans) <= MaxRows
        /\ \A i \in DOMAIN spans : /\ Len(spans[i]) = Len(read[i])
                                   /\ Len(read[i]) = Len(read[1])
                                   /\ Len(spans[i]) * i <= MaxCells
      cells(read, spans) ==
        [i \in DOMAIN read |->
           [k \in DOMAIN read[i] |-> Cell(read[i][k], spans[i][k][1], spans[i][k][2], "csv")]]
      fitted(read) == {cells(read, spans) : spans \in {p \in CsvSpans(s) : fits(read, p)}}
  IN fitted(CsvRecords(s))

\* Mutant: quotes are put around a value and not doubled in it.
EncodeCsvPlainly(value, quoted) ==
  IF quoted \/ \E i \in DOMAIN value : value[i] \in Breaks \cup {",", "q"}
  THEN <<"q">> \o value \o <<"q">> ELSE value

\* encode_csv: a lone empty field is quoted too.
EncodeCsv(value, quoted) ==
  LET f[i \in 0 .. Len(value)] ==
        IF i = 0 THEN <<>>
        ELSE f[i - 1] \o IF value[i] = "q" THEN <<"q", "q">> ELSE <<value[i]>>
      needed == value = <<>> \/ \E i \in DOMAIN value : value[i] \in Breaks \cup {",", "q"}
  IN IF quoted \/ needed THEN <<"q">> \o f[Len(value)] \o <<"q">> ELSE value

(***************************************************************************)
(* Logs.  External: what the default pattern captures in a line, and a     *)
(* pattern that asks for a level and a space.                              *)
(***************************************************************************)
Captures(pattern, line) ==
  LET Behind(j) == CHOOSE e \in j .. Len(line) + 1 :
                     /\ \A k \in j .. e - 1 : line[k] \in {" ", "r"}
                     /\ e > Len(line) \/ line[e] \notin {" ", "r"}
      At(j, set) == j <= Len(line) /\ line[j] \in set
      timed == At(1, {"T"}) /\ At(2, {" ", "r"})
      from == IF timed THEN Behind(2) ELSE 1
      levelled == At(from, {"L"}) /\ ~At(from + 1, {"L", "x"})
      rest == IF levelled THEN Behind(from + 1) ELSE from
  IN IF pattern = "default"
     THEN {<<IF timed THEN {<<1, 2>>} ELSE {}, IF levelled THEN {<<from, from + 1>>} ELSE {},
             {<<rest, Len(line) + 1>>}>>}
     ELSE IF At(1, {"L"}) /\ At(2, {" "}) THEN {<<{<<1, 2>>}, {<<3, Len(line) + 1>>}>>} ELSE {}

\* parse_log: a row for every line; a line that does not match shows in its last cell.
ParseLog(pattern, s) ==
  LET columns == IF pattern = "default" THEN 3 ELSE 2
      ends == {i \in DOMAIN s : s[i] = "n"}
      starts == {i \in DOMAIN s : i = 1 \/ i - 1 \in ends}
      End(i) == CHOOSE e \in i .. Len(s) + 1 :
                  (e > Len(s) \/ e \in ends) /\ ends \cap i .. e - 1 = {}
      Stripped(l) == IF l # <<>> /\ l[Len(l)] = "r" THEN SubSeq(l, 1, Len(l) - 1) ELSE l
      ReadOnly(value) == Cell(value, 1, 1, "readOnly")
      Captured(i, line, p) == Cell(SubSeq(line, p[1], p[2] - 1), i + p[1] - 1, i + p[2] - 1, "log")
      Matched(i, line, c) ==
        [k \in DOMAIN c |-> IF c[k] = {} THEN ReadOnly(<<>>)
                            ELSE Captured(i, line, CHOOSE p \in c[k] : TRUE)]
      Cells(i, line, captures) ==
        IF captures = {}
        THEN [k \in 1 .. columns |-> ReadOnly(IF k = columns THEN line ELSE <<>>)]
        ELSE Matched(i, line, CHOOSE c \in captures : TRUE)
      Row(i, line) == Cells(i, line, Captures(pattern, line))
      rows[i \in 0 .. Len(s)] ==
        IF i = 0 THEN <<>>
        ELSE IF i \in starts THEN Append(rows[i - 1], Row(i, Stripped(SubSeq(s, i, End(i) - 1))))
        ELSE rows[i - 1]
      Limited(all) == IF Len(all) > MaxRows \/ Len(all) * columns > MaxCells THEN Refused ELSE {all}
  IN Limited(rows[Len(s)])

(***************************************************************************)
(* JSON.                                                                   *)
(***************************************************************************)
Strings == {"s", "t"}
KindOf == [t \in Strings \cup {"1", "2", "b", "z"} |->
             CASE t \in Strings -> "string" [] t \in {"1", "2"} -> "number"
               [] t = "b" -> "boolean" [] t = "z" -> "null"]

\* check_json_depth counts brackets before anything is parsed.
TooDeep(s) ==
  LET depth[i \in 0 .. Len(s)] ==
        IF i = 0 THEN 0
        ELSE IF s[i] \in {"[", "{"} THEN depth[i - 1] + 1
        ELSE IF s[i] \in {"]", "}"} /\ depth[i - 1] > 0 THEN depth[i - 1] - 1
        ELSE depth[i - 1]
  IN \E i \in DOMAIN s : depth[i] > MaxDepth

\* The parser and collect_json_rows: a row [path, cell] for every scalar and empty container.
\* Comments and trailing commas are allowed in a source, not in a value that is typed.
ParseJson(s, lenient) ==
  LET blank == {" "} \cup IF lenient THEN {"c"} ELSE {}
      n == Len(s) + 1
      Skip(i) == CHOOSE k \in i .. n :
                   (k = n \/ s[k] \notin blank) /\ \A j \in i .. k - 1 : s[j] \in blank
      At(i, t) == i < n /\ s[i] = t
      Below(step, rows) == [r \in DOMAIN rows |-> [rows[r] EXCEPT !.path = <<step>> \o @]]
      Leaf(i, end, kind) == [path |-> <<>>, cell |-> Cell(SubSeq(s, i, end - 1), i, end, kind)]
      \* What is at i: a value, or the rest of an array or object behind `count` of its values.
      p[what \in {"value", "[", "{"}, i \in 1 .. n, count \in 0 .. n] ==
        LET k == Skip(i)
            inner == p[s[k], k + 1, 0]
            closing == IF what = "[" THEN "]" ELSE "}"
            named == what = "[" \/ (k < n /\ s[k] \in Strings /\ At(Skip(k + 1), ":"))
            step == IF what = "[" THEN count ELSE s[k]
            value == IF what = "[" THEN p["value", k, 0] ELSE p["value", Skip(k + 1) + 1, 0]
        IN IF k = n THEN {}
           ELSE IF what = "value" THEN
             IF s[k] \in DOMAIN KindOf THEN {[next |-> k + 1, rows |-> <<Leaf(k, k + 1, KindOf[s[k]])>>]}
             ELSE IF s[k] \in {"[", "{"}
             THEN {IF r.rows = <<>> THEN [r EXCEPT !.rows = <<Leaf(k, r.next, "container")>>] ELSE r :
                    r \in inner}
             ELSE {}
           ELSE IF s[k] = closing
           THEN IF count = 0 \/ lenient THEN {[next |-> k + 1, rows |-> <<>>]} ELSE {}
           ELSE IF ~named THEN {}
           ELSE UNION {
             LET e == Skip(v.next)
             IN IF At(e, closing) THEN {[next |-> e + 1, rows |-> Below(step, v.rows)]}
                ELSE IF At(e, ",")
                THEN {[r EXCEPT !.rows = Below(step, v.rows) \o @] : r \in p[what, e + 1, count + 1]}
                ELSE {} : v \in value}
      whole == {v \in p["value", 1, 0] : Skip(v.next) = n}
  IN IF TooDeep(s) THEN Refused ELSE {v.rows : v \in {w \in whole : Len(w.rows) <= MaxRows}}

(***************************************************************************)
(* DataLens::parse and prepare_edit.                                       *)
(***************************************************************************)
Parse(kind, s) ==
  CASE kind = "csv" -> ParseCsv(s)
    [] kind \in {"default", "levels"} -> ParseLog(kind, s)
    [] kind = "json" ->
         {[r \in DOMAIN rows |-> <<Cell(rows[r].path, 1, 1, "readOnly"), rows[r].cell>>] :
           rows \in ParseJson(s, TRUE)}

Trimmed(value) ==
  LET filled == {i \in DOMAIN value : value[i] # " "}
  IN IF filled = {} THEN <<>>
     ELSE SubSeq(value, CHOOSE i \in filled : \A j \in filled : i <= j,
                        CHOOSE i \in filled : \A j \in filled : j <= i)

\* The type of a value that is typed for JSON; none if it is no single value.
TypeOfValue(value) ==
  LET k == Trimmed(value)
  IN IF ParseJson(value, FALSE) = {} THEN "none"
     ELSE IF k[1] \in DOMAIN KindOf THEN KindOf[k[1]] ELSE "container"

\* What is put in the place of the cell.
Replacement(cell, s, value) ==
  CASE cell.kind = "csv" -> {EncodeCsv(value, cell.beg <= Len(s) /\ s[cell.beg] = "q")}
    [] cell.kind = "string" -> IF Len(value) = 1 /\ value[1] \in Strings THEN {value} ELSE {}
    [] cell.kind \in {"number", "boolean", "container"} ->
         IF TypeOfValue(value) = cell.kind THEN {Trimmed(value)} ELSE {}
    [] cell.kind = "null" -> IF TypeOfValue(value) # "none" THEN {Trimmed(value)} ELSE {}
    [] cell.kind = "log" ->
         IF \E i \in DOMAIN value : value[i] \in Breaks THEN {} ELSE {value}
    [] cell.kind = "readOnly" -> {}

\* The source after the edit, none if it is refused: the result must parse again, and a log
\* must give the field its value.
Edited(kind, s, row, column, value) ==
  LET Fits(cell, t) ==
        \E rows \in Parse(kind, t) :
          cell.kind # "log" \/
            /\ row \in DOMAIN rows /\ column \in DOMAIN rows[row]
            /\ rows[row][column].kind # "readOnly" /\ rows[row][column].value = value
      Results(cell) ==
        {t \in {Splice(s, cell.beg, cell.end, new) : new \in Replacement(cell, s, value)} :
           Fits(cell, t)}
  IN UNION {Results(rows[row][column]) : rows \in {r \in Parse(kind, s) :
                                        row \in DOMAIN r /\ column \in DOMAIN r[row]}}

\* column_name: A to Z, then AA and so on.
ColumnName(index) ==
  LET f[i \in 0 .. index] == (IF i < 26 THEN <<>> ELSE f[(i \div 26) - 1]) \o <<i % 26>>
  IN f[index]

-----------------------------------------------------------------------------
\* An edit that is accepted gives its cell the value that was typed and leaves every other cell
\* as it was: no row or column appears or goes, no neighbour changes, whatever signs the value
\* has.  Only a JSON null may become a container, whose rows then take its place.
ChangesOneCell(kind, s, values) ==
  \A before \in Parse(kind, s) : \A row \in DOMAIN before : \A column \in DOMAIN before[row] :
    \A value \in values : \A t \in Edited(kind, s, row, column, value) :
      IF kind = "json"
      THEN \A old \in ParseJson(s, TRUE), after \in ParseJson(t, TRUE) : \E new \in ParseJson(value, FALSE) :
             LET put == [r \in DOMAIN new |-> <<old[row].path \o new[r].path, new[r].cell.value>>]
                 Shown(rows) == [r \in DOMAIN rows |-> <<rows[r].path, rows[r].cell.value>>]
             IN Shown(after) = SubSeq(Shown(old), 1, row - 1) \o put
                                 \o SubSeq(Shown(old), row + 1, Len(old))
      ELSE \A after \in Parse(kind, t) :
             /\ Len(after) = Len(before)
             /\ \A r \in DOMAIN after : Len(after[r]) = Len(before[r])
             /\ \A r \in DOMAIN after : \A k \in DOMAIN after[r] :
                  after[r][k].value = IF r = row /\ k = column THEN value ELSE before[r][k].value

\* No two columns have one name.
ColumnsDiffer(n) == \A i, j \in 0 .. n : ColumnName(i) = ColumnName(j) => i = j
==================================================================================
