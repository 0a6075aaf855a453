------------------------------ MODULE TextTools ------------------------------
(***************************************************************************)
(* The text-tools operations that cut a text apart                         *)
(* (src/modules/text-tools/operations_text.py, operations_developer.py,    *)
(* operations_data.py).  A text is a sequence of lines, of units with a    *)
(* length or of offsets, whichever the operation looks at.                 *)
(***************************************************************************)
EXTENDS Integers, Sequences, SequencesExt

VARIABLE cut   \* the operation asked for and its arguments

vars == <<cut>>

Texts(S, n) == UNION {[1 .. k -> S] : k \in 0 .. n}
----------------------------------------------------------------------------
\* heading_lines: the headings outside fenced code.  A line is a heading of a
\* level from 1 to 3, which stands for the code's 6, or one of the others.
Text == 0
Blank == 4
Fence == 5
InFence(lines, i) == Cardinality({j \in 1 .. i - 1 : lines[j] = Fence}) % 2 = 1
Headings(lines) == SelectSeq([i \in DOMAIN lines |-> i],
                             LAMBDA i : lines[i] \in 1 .. 3 /\ ~InFence(lines, i))

\* split_sections: a preamble that is not blank, then a section for each
\* heading down to the level, without the blank lines at its end; the ancestry
\* is a stack.
RECURSIVE Popped(_, _)
Popped(stack, level) ==
  IF stack # <<>> /\ Last(stack).level >= level THEN Popped(Front(stack), level) ELSE stack
Ancestry(lines, bounds, n) ==
  FoldLeft(LAMBDA stack, i : Append(Popped(stack, lines[i]), [level |-> lines[i], line |-> i]),
           <<>>, SubSeq(bounds, 1, n))
LastWithText(lines, from, to) == Max({i \in from .. to : lines[i] # Blank})
Sections(lines, level) ==
  LET bounds == SelectSeq(Headings(lines), LAMBDA i : lines[i] <= level)
      before == IF bounds = <<>> THEN Len(lines) ELSE bounds[1] - 1
      preamble == IF \E i \in 1 .. before : lines[i] # Blank
                  THEN <<[first |-> 1, last |-> before, path |-> <<>>]>> ELSE <<>>
  IN  preamble \o
      [n \in DOMAIN bounds |->
         [first |-> bounds[n],
          last |-> LastWithText(lines, bounds[n], IF n < Len(bounds) THEN bounds[n + 1] - 1 ELSE Len(lines)),
          path |-> LET stack == Ancestry(lines, bounds, n) IN [k \in DOMAIN stack |-> stack[k].line]]]

\* heading_shift, or the empty sequence where it refuses.  A heading is its
\* level: that it is written anew, without indentation and closing marks, is
\* left out.
Shifted(lines, by) ==
  LET headings == Range(Headings(lines))
  IN  IF \E i \in headings : lines[i] + by \notin 1 .. 3 THEN <<>>
      ELSE [i \in DOMAIN lines |-> IF i \in headings THEN lines[i] + by ELSE lines[i]]
----------------------------------------------------------------------------
\* chunk at lines or sentences.  A unit is its length, blank ones are gone; a
\* separator is one character.  A chunk is its
\* length and the numbers of the pieces it holds.
Pieces(units, size) ==
  FlattenSeq([i \in DOMAIN units |->
    [k \in 1 .. Max({1, (units[i] + size - 1) \div size}) |-> Min({size, units[i] - (k - 1) * size})]])
Nothing == [len |-> 0, holds |-> <<>>]
AddPiece(state, piece, n, size, overlap) ==
  LET current == state.current
      grown == [len |-> IF current = Nothing THEN piece ELSE current.len + 1 + piece,
                holds |-> Append(current.holds, n)]
      carry == Min({overlap, current.len})
  IN  IF current # Nothing /\ grown.len > size
      THEN [chunks |-> Append(state.chunks, current),
            current |-> [len |-> IF carry = 0 THEN piece ELSE carry + 1 + piece, holds |-> <<n>>]]
      ELSE [state EXCEPT !.current = grown]
Chunks(units, size, overlap) ==
  LET pieces == Pieces(units, size)
      done == FoldLeft(LAMBDA s, n : AddPiece(s, pieces[n], n, size, overlap),
                       [chunks |-> <<>>, current |-> Nothing], [n \in DOMAIN pieces |-> n])
  IN  IF done.current = Nothing THEN done.chunks ELSE Append(done.chunks, done.current)

\* redact: the spans in order, without those that begin inside the one kept
\* before them.
SpansInOrder(spans) == SetToSortSeq(spans, LAMBDA a, b : a.from < b.from \/ (a.from = b.from /\ a.to < b.to))
Kept(spans) ==
  FoldLeft(LAMBDA kept, s : IF kept # <<>> /\ s.from < Last(kept).to THEN kept ELSE Append(kept, s),
           <<>>, SpansInOrder(spans))
----------------------------------------------------------------------------
\* deduplicate, duplicate_lines and line_filter on lines; "X" and "x" differ
\* in case alone.
Folded(line, sensitive) == IF ~sensitive /\ line = "X" THEN "x" ELSE line
Deduplicated(lines, sensitive) ==
  SelectSeq([i \in DOMAIN lines |-> i],
            LAMBDA i : \A j \in 1 .. i - 1 : Folded(lines[j], sensitive) # Folded(lines[i], sensitive))
Groups(lines, sensitive) ==
  {{j \in DOMAIN lines : Folded(lines[j], sensitive) = Folded(lines[i], sensitive)} : i \in DOMAIN lines}
DuplicateLines(lines, sensitive) ==
  MapThenSumSet(LAMBDA g : Cardinality(g) - 1, {g \in Groups(lines, sensitive) : Cardinality(g) > 1})
Filtered(lines, needle, sensitive, action) ==
  SelectSeq([i \in DOMAIN lines |-> i],
            LAMBDA i : (Folded(lines[i], sensitive) = Folded(needle, sensitive)) = (action = "include"))

\* line_slice: the tail of a text, or a range of its lines; end = 0 stands for
\* none given.  What is answered of a range that selects nothing is its start.
Slice(n, tail, start, end) ==
  LET from == IF tail > 0 THEN Max({1, n - tail + 1}) ELSE start
      to == IF tail > 0 \/ end = 0 THEN n ELSE Min({n, end})
  IN  [start |-> from, end |-> IF from <= to THEN to ELSE from, lines |-> Max({0, to - from + 1})]

\* truncate: the length of the result where no blank is near the cut.
Truncated(n, limit, suffix) == IF n <= limit THEN n ELSE Max({0, limit - suffix}) + suffix

\* csv_normalize, inline or by artifact: a row is the number of its fields, and
\* one budget holds for the rows written.
Normalized(rows, budget) ==
  LET width == IF rows = <<>> THEN 0 ELSE Max(Range(rows))
  IN  IF width * Len(rows) > budget THEN <<>> ELSE [i \in DOMAIN rows |-> rows[i] + (width - rows[i])]
\* csv_to_json: the first row is the header, whose names are taken to differ;
\* none or a blank one is refused, and so is a row with more fields.  Blank
\* rows are skipped (csv.DictReader), short ones are filled.
Converted(rows) ==
  IF rows = <<>> \/ rows[1] = 0 \/ \E i \in DOMAIN rows : rows[i] > rows[1]
  THEN [refused |-> TRUE, records |-> <<>>]
  ELSE [refused |-> FALSE,
        records |-> [k \in 1 .. Cardinality({i \in 2 .. Len(rows) : rows[i] # 0}) |->
          LET row == CHOOSE i \in 2 .. Len(rows) : rows[i] # 0 /\ Cardinality({j \in 2 .. i : rows[j] # 0}) = k
          IN  [row |-> row, fields |-> rows[1]]]]
----------------------------------------------------------------------------
Init == cut = [op |-> "none"]

Ask(r) ==
  /\ cut.op = "none"
  /\ cut' = r
AskSections ==
  \E lines \in Texts({Text, 1, 2, 3, Blank, Fence}, 4), level \in 1 .. 3 :
    Ask([op |-> "sections", lines |-> lines, level |-> level])
AskShift ==
  \E lines \in Texts({Text, 1, 2, 3, Fence}, 3), by \in -2 .. 2 :
    Ask([op |-> "shift", lines |-> lines, by |-> by])
AskChunk ==
  \E units \in Texts(1 .. 5, 3), overlap \in 0 .. 2 :
    Ask([op |-> "chunk", units |-> units, size |-> 3, overlap |-> overlap])
AskRedact ==
  LET Spans == {s \in [from : 0 .. 3, to : 1 .. 4] : s.from < s.to}
  IN  \E a, b, c \in Spans : Ask([op |-> "redact", spans |-> {a, b, c}])
AskLines ==
  \E lines \in Texts({"x", "X", "y"}, 4), sensitive \in BOOLEAN :
    Ask([op |-> "lines", lines |-> lines, sensitive |-> sensitive])
AskSlice ==
  \E n \in 0 .. 4, tail \in 0 .. 5, start \in 1 .. 5, end \in 0 .. 5 :
    start <= (IF end = 0 THEN n ELSE end) /\ Ask([op |-> "slice", n |-> n, tail |-> tail, start |-> start, end |-> end])
AskTruncate ==
  \E n \in 0 .. 5, limit \in 1 .. 4, suffix \in 0 .. 4 :
    Ask([op |-> "truncate", n |-> n, limit |-> limit, suffix |-> suffix])
AskTable ==
  \E rows \in Texts(0 .. 3, 3), budget \in {4, 9} : Ask([op |-> "table", rows |-> rows, budget |-> budget])

Next ==
  \/ AskSections \/ AskShift \/ AskChunk \/ AskRedact \/ AskLines \/ AskSlice \/ AskTruncate \/ AskTable
Spec == Init /\ [][Next]_vars
----------------------------------------------------------------------------
\* A heading's path, told without a stack: the headings above it that no
\* heading of the same or a higher rank separates from it.
Encloses(lines, bounds, a, i) ==
  /\ a < i /\ lines[a] < lines[i]
  /\ \A k \in Range(bounds) : a < k /\ k < i => lines[k] > lines[a]
PathOf(lines, bounds, i) == SelectSeq(bounds, LAMBDA a : a = i \/ Encloses(lines, bounds, a, i))

\* Every line that is not blank is in exactly one section, the sections come in
\* order and know the headings they lie under; a shift of headings is undone by
\* the opposite shift (split_sections, heading_shift, heading_lines).
SectionsCoverText ==
  /\ cut.op = "sections" =>
       LET s == Sections(cut.lines, cut.level)
           bounds == SelectSeq(Headings(cut.lines), LAMBDA i : cut.lines[i] <= cut.level)
       IN  /\ \A i \in DOMAIN cut.lines : cut.lines[i] # Blank => \E n \in DOMAIN s : i \in s[n].first .. s[n].last
           /\ \A n \in DOMAIN s : s[n].first <= s[n].last
           /\ \A n \in 1 .. Len(s) - 1 : s[n].last < s[n + 1].first
           /\ \A n \in DOMAIN s : s[n].path # <<>> => s[n].path = PathOf(cut.lines, bounds, s[n].first)
  /\ cut.op = "shift" /\ Shifted(cut.lines, cut.by) # <<>> =>
       Shifted(Shifted(cut.lines, cut.by), -cut.by) = cut.lines

\* Chunks hold every piece once and in order, within maxCharacters when they do
\* not overlap, and otherwise by no more than the overlap beyond it (TextTools.md
\* says never beyond it); redactions are disjoint and touch every span found; the
\* three tools on duplicate and matching lines agree; a slice counts the lines it
\* has; a normalised table is rectangular, a converted one has a record for each
\* row with text, and for each row at all if it was normalised before (chunk,
\* redact, deduplicate, duplicate_lines, line_filter, line_slice, csv_normalize,
\* csv_to_json).
NothingIsLost ==
  /\ cut.op = "chunk" =>
       LET chunks == Chunks(cut.units, cut.size, cut.overlap)
       IN  /\ FlattenSeq([i \in DOMAIN chunks |-> chunks[i].holds]) =
                [n \in DOMAIN Pieces(cut.units, cut.size) |-> n]
           /\ \A i \in DOMAIN chunks :
                chunks[i].len <= cut.size + (IF cut.overlap = 0 THEN 0 ELSE cut.overlap + 1)
  /\ cut.op = "redact" =>
       LET kept == Kept(cut.spans)
       IN  /\ \A i \in 1 .. Len(kept) - 1 : kept[i].to <= kept[i + 1].from
           /\ \A s \in cut.spans : \E k \in Range(kept) : k.from <= s.from /\ s.from < k.to
  /\ cut.op = "lines" =>
       /\ Len(cut.lines) - Len(Deduplicated(cut.lines, cut.sensitive)) = DuplicateLines(cut.lines, cut.sensitive)
       /\ LET included == Filtered(cut.lines, "x", cut.sensitive, "include")
              excluded == Filtered(cut.lines, "x", cut.sensitive, "exclude")
          IN  Range(included) \cap Range(excluded) = {} /\ Range(included) \cup Range(excluded) = DOMAIN cut.lines
  /\ cut.op = "slice" =>
       LET s == Slice(cut.n, cut.tail, cut.start, cut.end)
       IN  /\ s.lines = Cardinality((s.start .. s.end) \cap (1 .. cut.n))
           /\ s.lines > 0 => s.start >= 1 /\ s.end = s.start + s.lines - 1
           /\ s.lines = 0 => s.end = s.start
           /\ cut.tail > 0 => s.lines = Min({cut.tail, cut.n})
  /\ cut.op = "truncate" =>
       LET n == Truncated(cut.n, cut.limit, cut.suffix)
       IN  (n <= cut.limit \/ n = cut.suffix) /\ (cut.n <= cut.limit => n = cut.n)
  /\ cut.op = "table" =>
       LET same == Normalized(cut.rows, cut.budget)
           table == Converted(cut.rows)
           again == Converted(same)
       IN  /\ \A i, j \in DOMAIN same : same[i] = same[j]
           /\ ~table.refused =>
                /\ {r.row : r \in Range(table.records)} = {i \in 2 .. Len(cut.rows) : cut.rows[i] # 0}
                /\ \A i, j \in DOMAIN table.records : i < j => table.records[i].row < table.records[j].row
                /\ same # <<>> => ~again.refused /\ Len(again.records) = Len(cut.rows) - 1
=============================================================================
