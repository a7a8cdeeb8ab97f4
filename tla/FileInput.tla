----------------------------- MODULE FileInput -----------------------------
(***************************************************************************)
(* The input of the machine: fileinput.Input, which reads the runes of a   *)
(* queue of streams one stream after the other and keeps the line being    *)
(* read and the line before it, and its two readers, VM.scan for words and *)
(* Core.readRune for single runes.  A rune is "nul" (the value 0), "nl",   *)
(* "sp" (any other control or space), or one of the printable ones.  An     *)
(* operator marked "mutant" is a way in which the next one could be wrong:  *)
(* nothing uses it but the test that the properties would notice.          *)
(***************************************************************************)
EXTENDS Naturals, SequencesExt

CONSTANTS Queues,      \* the queues a machine may be given
          Printable    \* printable runes

Blanks == {"sp", "nl", "nul"}
Runes == Blanks \union Printable
Ends == {"EOF", "error"}    \* how a stream ends: what Read returns from then on
Streams == [name : STRING, runes : Seq(Runes), end : Ends]

ASSUME QueuesAssumption == Queues \subseteq Seq(Streams) /\ Printable \intersect Blanks = {}

VARIABLES streams,   \* the queue the machine was given
          in,        \* the Input: how many streams were opened, how many runes
                     \* of the current one were read, is there one, two lines
          doing,     \* "idle", "skip" and "word" in scan, "key" in readRune,
                     \* or what the machine halted with
          word,      \* what scan has read of a word
          heard,     \* history: the words and keys, and where they began
          logged     \* history: scan's log messages, a token and a line each

vars == <<streams, in, doing, word, heard, logged>>

NoLine == [name |-> "", line |-> 0, text |-> << >>]
----------------------------------------------------------------------------
(* Input.ReadRune.                                                         *)

\* nextLine: the line being read becomes the last one
NextLine(i) ==
  [i EXCEPT !.last = i.scan, !.scan = [i.scan EXCEPT !.text = << >>, !.line = @ + 1]]

\* nextIn: the current stream is over, the next one is opened if there is one
NextIn(i) ==
  IF i.opened = Len(streams) THEN [NextLine(i) EXCEPT !.open = FALSE]
  ELSE [NextLine(i) EXCEPT !.open = TRUE, !.opened = @ + 1, !.read = 0,
                           !.scan.name = streams[i.opened + 1].name, !.scan.line = 1]

\* the rune that the current stream yields, 0 with an error at its end
Current(i) == streams[i.opened]
\* mutant: the last rune is taken for the end
AtEndEarly(i) == i.read + 1 >= Len(Current(i).runes)
AtEnd(i) == i.read = Len(Current(i).runes)
Rune(i) == IF AtEnd(i) THEN "nul" ELSE Current(i).runes[i.read + 1]
Err(i) == IF AtEnd(i) THEN Current(i).end ELSE "none"

\* the input when that rune was taken and entered in the line being read
Taken(i) ==
  LET j == [i EXCEPT !.read = IF AtEnd(i) THEN @ ELSE @ + 1]
  IN IF Rune(i) = "nl" THEN NextLine(j)
     ELSE [j EXCEPT !.scan.text = Append(@, Rune(i))]

\* where a stream ends another one may begin, which looks like a rune 0
\* mutant: the end of any stream is the end of the input
BoundaryNever(i) == FALSE
Boundary(i) == Err(i) = "EOF"
ReadFrom(i) ==
  IF Boundary(i)
  THEN [in |-> NextIn(Taken(i)), r |-> "nul",
        err |-> IF i.opened < Len(streams) THEN "none" ELSE "EOF"]
  ELSE [in |-> Taken(i), r |-> Rune(i), err |-> Err(i)]

\* mutant: no streams at all are not an end
ReadRuneOfNothing ==
  IF in.open THEN ReadFrom(in)
  ELSE IF in.opened < Len(streams) THEN ReadFrom(NextIn(in))
  ELSE [in |-> in, r |-> "nul", err |-> "none"]
ReadRune ==
  IF in.open THEN ReadFrom(in)
  ELSE IF in.opened < Len(streams) THEN ReadFrom(NextIn(in))
  ELSE [in |-> NextIn(in), r |-> "nul", err |-> "EOF"]
----------------------------------------------------------------------------
(* scan and readRune, one action per rune they read.                       *)

\* the place of the next rune: its stream, and its index in it
Place == IF in.open THEN <<in.opened, in.read + 1>> ELSE <<in.opened + 1, 1>>
Hear(runes) == heard' = Append(heard, [at |-> Place, runes |-> runes])

Init ==
  /\ streams \in Queues
  /\ in = [opened |-> 0, read |-> 0, open |-> FALSE, scan |-> NoLine, last |-> NoLine]
  /\ doing = "idle" /\ word = << >> /\ heard = << >> /\ logged = << >>

Begin ==
  /\ doing = "idle"
  /\ doing' \in {"skip", "key"}
  /\ UNCHANGED <<streams, in, word, heard, logged>>

\* the line that is logged
\* mutant: always the line being read
ShownScan(i) == i.scan
Shown(i) == IF i.scan.text = << >> THEN i.last ELSE i.scan

\* scan's deferred log, when the trace is on, of what scan returns: nothing when
\* it halts
Log(token) == logged' = Append(logged, [token |-> token, line |-> Shown(in')])

\* both readers flush the output first, and halt when that fails
FlushFails ==
  /\ doing = "idle" /\ doing' = "write"
  /\ UNCHANGED <<streams, in, word, heard>>
  /\ Log(<< >>) \/ UNCHANGED logged

Read(what) == doing = what /\ in' = ReadRune.in
Halt == doing' = ReadRune.err /\ UNCHANGED <<word, heard>>

\* scan passes everything that is not printable, then starts the word
SkipRune ==
  /\ Read("skip")
  /\ CASE ReadRune.err # "none" -> Halt /\ Log(<< >>)
       [] ReadRune.err = "none" /\ ReadRune.r \in Blanks ->
            UNCHANGED <<doing, word, heard, logged>>
       [] OTHER -> /\ doing' = "word" /\ word' = <<ReadRune.r>>
                   /\ Hear(<<ReadRune.r>>)
                   /\ UNCHANGED logged
  /\ UNCHANGED streams

\* scan ends the word at the first rune that is not printable, or at the end
WordRune ==
  /\ Read("word")
  /\ CASE ReadRune.err = "error" -> Halt /\ Log(<< >>)
       [] ReadRune.err = "EOF" \/ (ReadRune.err = "none" /\ ReadRune.r \in Blanks) ->
            /\ doing' = "idle" /\ word' = << >> /\ Log(word)
            /\ UNCHANGED heard
       [] OTHER -> /\ word' = Append(word, ReadRune.r)
                   /\ heard' = [heard EXCEPT ![Len(heard)].runes = Append(@, ReadRune.r)]
                   /\ UNCHANGED <<doing, logged>>
  /\ UNCHANGED streams

\* readRune passes runes 0 and the ends of streams, and returns any other rune
KeyRune ==
  /\ Read("key")
  /\ CASE ReadRune.r = "nul" /\ ReadRune.err # "none" -> Halt /\ UNCHANGED logged
       [] ReadRune.r = "nul" /\ ReadRune.err = "none" ->
            UNCHANGED <<doing, word, heard, logged>>
       [] OTHER -> doing' = "idle" /\ Hear(<<ReadRune.r>>) /\ UNCHANGED <<word, logged>>
  /\ UNCHANGED streams

Next == Begin \/ FlushFails \/ SkipRune \/ WordRune \/ KeyRune

Spec == Init /\ [][Next]_vars

\* the reader is called again and again until it halts, and reads that do not
\* return are not modelled (see VMRun)
FairSpec == Spec /\ WF_vars(Next)
----------------------------------------------------------------------------
\* The text of the streams, by the places of its runes.
RuneAt(p) == streams[p[1]].runes[p[2]]
TextPlaces == UNION {{<<s, k>> : k \in DOMAIN streams[s].runes} : s \in DOMAIN streams}
WasRead(p) == p[1] < in.opened \/ (p[1] = in.opened /\ p[2] <= in.read)
HeardPlaces == UNION {{<<h.at[1], h.at[2] + k - 1>> : k \in DOMAIN h.runes} : h \in ToSet(heard)}

\* Nothing is lost, repeated or made up: a word or a key is a piece of one
\* stream, in order, a word never runs over the end of its stream into the
\* next, and what no one heard is blank.
HeardIsTheText ==
  /\ \A i \in DOMAIN heard : \A k \in DOMAIN heard[i].runes :
       LET p == <<heard[i].at[1], heard[i].at[2] + k - 1>>
       IN p \in TextPlaces /\ WasRead(p) /\ RuneAt(p) = heard[i].runes[k]
  /\ \A i, j \in DOMAIN heard : i < j =>
       \/ heard[i].at[1] < heard[j].at[1]
       \/ /\ heard[i].at[1] = heard[j].at[1]
          /\ heard[i].at[2] + Len(heard[i].runes) <= heard[j].at[2]
  /\ \A p \in TextPlaces : WasRead(p) /\ p \notin HeardPlaces => RuneAt(p) \in Blanks

\* The input only ends when every stream was read to its end: the end of one
\* stream is not the end of the program (input.go:53).
EndsAtTheEnd ==
  doing = "EOF" => in.opened = Len(streams) /\ \A p \in TextPlaces : WasRead(p)

\* the line feeds among the first n runes of stream s
NewLines(s, n) == {k \in 1 .. n : streams[s].runes[k] = "nl"}

\* the line l is the one where the first n runes of stream s end
IsLineAt(l, s, n) == l.name = streams[s].name /\ l.line = 1 + Cardinality(NewLines(s, n))

\* What scan logs shows the line the word was on, even when reading its end has
\* begun another line, another stream, or ended the input; and when scan halts
\* no word is named, and the line is the one where the read failed, or one of
\* the last stream when there is nothing left to read (first.go:657-663).
LoggedLineHoldsWord ==
  [][logged' # logged =>
       LET m == Last(logged')
           h == Last(heard)
       IN /\ doing' = "idle" =>
               /\ m.token = word /\ IsLineAt(m.line, h.at[1], h.at[2])
               /\ \E k \in 0 .. Len(m.line.text) - Len(word) :
                    SubSeq(m.line.text, k + 1, k + Len(word)) = word
          /\ doing' # "idle" => m.token = << >>
          /\ doing' = "error" => IsLineAt(m.line, in'.opened, in'.read)
          /\ doing' = "EOF" /\ streams # << >> => m.line.name = Last(streams).name]_vars

\* A program of finite streams is read to its end or to an error, unless the
\* output fails first.
InputIsConsumed == <>(doing \in Ends \union {"write"})
=============================================================================
