------------------------------ MODULE FoldMarks -----------------------------
(***************************************************************************)
(* What a worker of the log does to the lines it reads (scanner.go, and    *)
(* the two line scanners of main.go): it keeps one line back and appends   *)
(* fold marks to it, which open a fold at a place in the input and close   *)
(* it before the line where another place begins.  TraceLog has the worker *)
(* as a goroutine, with any marks; this module has the marks, with the     *)
(* worker alone.  Text is a sequence of parts: "nl" is a line feed, "open" *)
(* and "close" are the two marks, whoever wrote them; the rest tells lines *)
(* apart.  An operator marked "mutant" is a way in which the next one      *)
(* could be wrong.                                                         *)
(***************************************************************************)
EXTENDS Naturals, Integers, FiniteSets, SequencesExt

CONSTANTS Lines,       \* the lines that may be read
          MaxLines,    \* how many of them, a bound of the model
          Scannings,   \* which scanners main may have put in the worker
          MayFail      \* may a write to the output fail?

\* A line is of kind "scan", with the place id, "step", with the return stack
\* id, or "other": the two patterns of main.go never match the same line.
\* The name of a place is not empty.
Parts(lines) == UNION {ToSet(l.text) : l \in lines}
ASSUME LinesAssumption ==
  /\ \A l \in Lines : l.text \in Seq(Parts(Lines)) /\ (l.kind = "scan" => l.id # "")
  /\ "nl" \notin Parts(Lines) /\ MaxLines \in Nat
ASSUME ScanningsAssumption == Scannings \subseteq SUBSET {"scan", "step"}

VARIABLES scanners,   \* the kinds of lines that some scanner looks for
          ms,         \* the markScanner and its scanners, see Init
          ended,      \* has the worker closed its output?
          read        \* history: the lines read

vars == <<scanners, ms, ended, read>>

Init ==
  /\ scanners \in Scannings
  /\ ms = [text |-> << >>, level |-> 0, opened |-> FALSE,    \* Last
           pend |-> FALSE, cur |-> << >>,                    \* the line scanned
           err |-> FALSE, out |-> << >>,
           lastLoc |-> "", lastRs |-> << >>]
  /\ ended = FALSE /\ read = << >>
----------------------------------------------------------------------------
(* markBuffer                                                              *)

OpenMark(m) == [m EXCEPT !.level = @ + 1, !.text = Append(@, "open"), !.opened = TRUE]

\* the text before its first mark
CutMarks(text) ==
  IF Contains(text, "open") THEN SubSeq(text, 1, SelectInSeq(text, LAMBDA p : p = "open") - 1)
  ELSE text

\* on a line that was just opened, closing takes the marks back
CloseMark(m) ==
  IF m.opened THEN [m EXCEPT !.text = CutMarks(@), !.opened = FALSE]
  ELSE IF m.level > 0 THEN [m EXCEPT !.level = @ - 1, !.text = Append(@, "close")]
  ELSE m

\* WriteTo ends the line, even an empty one; what a write did not take stays
Flush(m, ok) ==
  LET line == IF m.text # << >> /\ Last(m.text) = "nl" THEN m.text ELSE Append(m.text, "nl")
      sent == [m EXCEPT !.opened = FALSE]
  IN IF ok THEN [sent EXCEPT !.text = << >>, !.out = @ \o line]
     ELSE [sent EXCEPT !.text = line, !.err = TRUE]
----------------------------------------------------------------------------
(* markScanner and the scanners of lines                                   *)

\* the line scanned takes the place of the one kept back
\* mutant: it is still pending then
NextLinePending(m, ok) ==
  IF ~m.pend \/ m.err THEN m
  ELSE LET f == Flush(m, ok) IN IF ok THEN [f EXCEPT !.text = m.cur.text] ELSE f
NextLine(m, ok) ==
  IF ~m.pend \/ m.err THEN m
  ELSE LET f == Flush(m, ok) IN IF ok THEN [f EXCEPT !.text = m.cur.text, !.pend = FALSE] ELSE f

\* locScanner: one fold for a place, and one in it for each line scanned there
\* mutant: the fold of the place before is not closed
LocScanOneClose(m, ok) ==
  LET moved == m.lastLoc # m.cur.id
      n == NextLine(CloseMark(m), ok)
  IN IF n.err THEN n
     ELSE OpenMark(IF moved THEN [OpenMark(n) EXCEPT !.lastLoc = m.cur.id] ELSE n)
LocScan(m, ok) ==
  LET moved  == m.lastLoc # m.cur.id
      closed == IF moved THEN CloseMark(CloseMark(m)) ELSE CloseMark(m)
      n      == NextLine(closed, ok)
  IN IF n.err THEN n
     ELSE OpenMark(IF moved THEN [OpenMark(n) EXCEPT !.lastLoc = m.cur.id] ELSE n)

\* retScanner: a fold while the return stack is longer
RetScan(m, ok) ==
  LET rs     == m.cur.id
      common == Len(LongestCommonPrefix({m.lastRs, rs}))
      n      == NextLine(IF common < Len(m.lastRs) THEN CloseMark(m) ELSE m, ok)
  IN IF rs = m.lastRs THEN m
     ELSE [(IF common < Len(rs) THEN OpenMark(n) ELSE n) EXCEPT !.lastRs = rs]

Scanned(m, ok) ==
  CASE m.cur.kind \notin scanners -> m
    [] m.cur.kind = "scan" /\ "scan" \in scanners -> LocScan(m, ok)
    [] m.cur.kind = "step" /\ "step" \in scanners -> RetScan(m, ok)

Oks == IF MayFail THEN BOOLEAN ELSE {TRUE}

\* one turn of the worker's loop: Scan, then the scanners
ScanLine ==
  /\ ~ended /\ Len(read) < MaxLines
  /\ \E ok1, ok2 \in Oks, line \in Lines :
       /\ LET n == NextLine(ms, ok1)
          IN ~n.err /\ ms' = Scanned([n EXCEPT !.cur = line, !.pend = TRUE], ok2)
       /\ read' = Append(read, line)
  /\ UNCHANGED <<scanners, ended>>

\* Close: folds are closed on the line kept back, which is flushed; the marks
\* of an opened line are taken back first
CloseAll(m) ==
  LET c == IF m.level > 0 /\ m.opened THEN CloseMark(m) ELSE m
  IN [c EXCEPT !.text = @ \o [i \in 1 .. c.level |-> "close"], !.level = 0]

\* mutant: Close flushes only
FinishOpen ==
  /\ ~ended
  /\ \E ok1, ok2 \in Oks :
       LET n == NextLine(ms, ok1) IN ms' = Flush([n EXCEPT !.pend = n.err /\ @], ok2)
  /\ ended' = TRUE
  /\ UNCHANGED <<scanners, read>>

\* the loop ends with the lines, any time, or after a failed write
Finish ==
  /\ ~ended
  /\ \E ok1, ok2 \in Oks :
       LET n == NextLine(ms, ok1) IN ms' = Flush(CloseAll([n EXCEPT !.pend = n.err /\ @]), ok2)
  /\ ended' = TRUE
  /\ UNCHANGED <<scanners, read>>

Next == ScanLine \/ Finish

Spec == Init /\ [][Next]_vars
----------------------------------------------------------------------------
Count(text, p) == Cardinality({i \in DOMAIN text : text[i] = p})
Depth(text) == Count(text, "open") - Count(text, "close")
Marked == {"open", "close"} \intersect Parts(ToSet(read)) # {}

\* the i-th line feed of a text, and what is between it and the next one
Feed(text, i) ==
  IF i = 0 THEN 0
  ELSE CHOOSE p \in DOMAIN text : text[p] = "nl" /\ Count(SubSeq(text, 1, p), "nl") = i
LineIn(text, i) ==
  SubSeq(text, Feed(text, i) + 1,
         IF i < Count(text, "nl") THEN Feed(text, i + 1) - 1 ELSE Len(text))

\* A line with nothing but marks behind it.  Only a line with a mark of its own
\* may lose what is behind that (scanner.go: closeMark cuts at the first).
Carries(text, line) ==
  \E kept \in {line, CutMarks(line)} :
    /\ Len(kept) <= Len(text) /\ SubSeq(text, 1, Len(kept)) = kept
    /\ \A i \in Len(kept) + 1 .. Len(text) : text[i] \in {"open", "close"}

\* Of the lines that were written or are kept back each follows a line feed,
\* and marks follow it: nothing else is added, and nothing is lost, doubled or
\* joined, neither by taking marks back nor by a failed write, after which the
\* line kept back is tried again, with one more end.
Taken == Len(read) - (IF ms.pend THEN 1 ELSE 0)
TextIsKept ==
  LET text == ms.out \o ms.text
      ends == Count(text, "nl") - Taken
  IN /\ IF ms.err THEN ends \in {1, 2} ELSE ends = IF ended THEN 1 ELSE 0
     /\ \A i \in 0 .. Taken + ends :
          Carries(LineIn(text, i), IF i \in 1 .. Taken THEN read[i].text ELSE << >>)

\* No fold is left open, whatever is read, unless the output fails (scanner.go:
\* Close).  More may be closed than were opened: the mark of an opened line is
\* taken back without its level.
EveryFoldIsClosed == ended /\ ~ms.err /\ ~Marked => Depth(ms.out) <= 0

\* What the trace of a machine looks like while it steps: every scan is
\* followed by something that the token led to.
Spaced ==
  \A i \in 1 .. Len(read) - 1 : read[i].kind = "scan" => read[i + 1].kind # "scan"

\* the place that was scanned last before line i
PlaceBefore(i) ==
  LET scans == {j \in 1 .. i - 1 : read[j].kind = "scan"}
  IN IF scans = {} THEN "" ELSE read[Max(scans)].id

\* how many folds are open where line i begins, which is after the i-th line feed
DepthAt(i) ==
  LET text == ms.out \o ms.text IN Depth(SubSeq(text, 1, Feed(text, i)))

\* In such a trace the folds are the places: outside of all folds a line begins
\* only before the first scan, or with the scan of another place; a scan of the
\* same place begins in the fold of the place, all other lines two folds deep;
\* at the end no fold is open (main.go: locScanner).
FoldsFollowPlaces ==
  scanners = {"scan"} /\ Spaced /\ ~ms.err /\ ~Marked =>
    /\ \A i \in 1 .. Taken :
         DepthAt(i) = CASE PlaceBefore(i) = "" -> 0
                        [] PlaceBefore(i) # "" /\ read[i].kind # "scan" -> 2
                        [] OTHER -> IF read[i].id = PlaceBefore(i) THEN 1 ELSE 0
    /\ ended /\ read # << >> /\ Last(read).kind # "scan" => Depth(ms.out) = 0
=============================================================================
