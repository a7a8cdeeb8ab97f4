-------------------------- MODULE FileInputProofs --------------------------
(***************************************************************************)
(* Theorems about FileInput, for every queue of streams, of any number and *)
(* any length, whatever they hold and however they end.                    *)
(***************************************************************************)
EXTENDS FileInput, SequenceTheorems, FiniteSetTheorems, TLAPS

Names == STRING \union {NoLine.name}
Lines == [name : Names, line : Nat, text : Seq(Runes)]
Inputs == [opened : Nat, read : Nat, open : BOOLEAN, scan : Lines, last : Lines]
Pieces == [at : Nat \X Nat, runes : Seq(Runes)]

\* Where an input stands: inside of the stream that is open, with the number
\* of the line being read; or before the first stream; or at the end of the last.
Stands(i) ==
  /\ i \in Inputs
  /\ i.opened <= Len(streams)
  /\ i.open => /\ i.opened >= 1
               /\ i.read <= Len(streams[i.opened].runes)
               /\ i.scan.name = streams[i.opened].name
               /\ i.scan.line = 1 + Cardinality(NewLines(i.opened, i.read))
  /\ ~i.open /\ i.opened > 0 =>
       /\ i.opened = Len(streams) /\ i.read = Len(streams[i.opened].runes)
       /\ i.scan.name = streams[i.opened].name

\* w ends the text t
Closes(w, t) ==
  /\ Len(w) <= Len(t)
  /\ \A k \in 1 .. Len(w) : t[Len(t) - Len(w) + k] = w[k]

TypeInv ==
  /\ streams \in Seq(Streams)
  /\ Stands(in)
  /\ doing \in {"idle", "skip", "word", "key", "write"} \union Ends
  /\ word \in Seq(Runes)
  /\ heard \in Seq(Pieces)

\* While scan reads a word, the word is the last thing that was heard, it ends
\* where the input stands, and the line being read ends with it.
WordInv ==
  doing = "word" =>
    /\ heard # << >> /\ in.open
    /\ heard[Len(heard)].runes = word
    /\ heard[Len(heard)].at[1] = in.opened
    /\ heard[Len(heard)].at[2] + Len(word) = in.read + 1
    /\ \A k \in DOMAIN word : word[k] \notin Blanks
    /\ Closes(word, in.scan.text)

EndInv == doing = "EOF" => ~in.open /\ in.opened = Len(streams)

\* What HeardIsTheText is about, one part at a time.
PlaceOf(h, k) == <<h.at[1], h.at[2] + k - 1>>
PlacesOf(h) == {PlaceOf(h, k) : k \in DOMAIN h.runes}
PieceWasRead(h) ==
  /\ h.runes # << >> /\ h.at[2] >= 1
  /\ \A k \in DOMAIN h.runes :
       /\ PlaceOf(h, k) \in TextPlaces /\ WasRead(PlaceOf(h, k))
       /\ RuneAt(PlaceOf(h, k)) = h.runes[k]
Before(g, h) ==
  \/ g.at[1] < h.at[1]
  \/ g.at[1] = h.at[1] /\ g.at[2] + Len(g.runes) <= h.at[2]

HeardWasRead == \A h \in ToSet(heard) : PieceWasRead(h)
HeardInOrder ==
  \A i, j \in DOMAIN heard : \A g, h :
    i < j /\ g = heard[i] /\ h = heard[j] => Before(g, h)
UnheardIsBlank ==
  \A p \in TextPlaces :
    WasRead(p) /\ (\A h \in ToSet(heard) : p \notin PlacesOf(h)) => RuneAt(p) \in Blanks

Heard == HeardWasRead /\ HeardInOrder /\ UnheardIsBlank

IInv == TypeInv /\ WordInv /\ EndInv /\ Heard
----------------------------------------------------------------------------
(* The places of the text.                                                 *)

LEMMA InText ==
  \A p : p \in TextPlaces <=>
    \E s \in DOMAIN streams : \E k \in DOMAIN streams[s].runes : p = <<s, k>>
BY DEF TextPlaces

LEMMA StreamFacts ==
  ASSUME TypeInv, NEW s \in 1 .. Len(streams)
  PROVE  /\ streams[s] \in Streams
         /\ streams[s].name \in STRING
         /\ streams[s].runes \in Seq(Runes)
         /\ streams[s].end \in Ends
         /\ Len(streams[s].runes) \in Nat
         /\ DOMAIN streams[s].runes = 1 .. Len(streams[s].runes)
<1>1. streams[s] \in Streams
  BY DEF TypeInv
<1>2. /\ streams[s].name \in STRING
      /\ streams[s].runes \in Seq(Runes)
      /\ streams[s].end \in Ends
  BY <1>1 DEF Streams
<1> QED
  BY <1>1, <1>2

\* One more rune is one more line if it is a line feed.
LEMMA NoNewLine ==
  ASSUME TypeInv, NEW s \in 1 .. Len(streams)
  PROVE  Cardinality(NewLines(s, 0)) = 0
<1>1. NewLines(s, 0) = {}
  BY DEF NewLines
<1> QED
  BY <1>1, FS_EmptySet

LEMMA MoreNewLines ==
  ASSUME TypeInv, NEW s \in 1 .. Len(streams), NEW n \in Nat,
         n < Len(streams[s].runes)
  PROVE  /\ Cardinality(NewLines(s, n)) \in Nat
         /\ streams[s].runes[n + 1] = "nl" =>
              Cardinality(NewLines(s, n + 1)) = Cardinality(NewLines(s, n)) + 1
         /\ streams[s].runes[n + 1] # "nl" =>
              NewLines(s, n + 1) = NewLines(s, n)
<1>1. IsFiniteSet(NewLines(s, n)) /\ Cardinality(NewLines(s, n)) \in Nat
  <2>1. IsFiniteSet(1 .. n)
    BY FS_Interval
  <2>2. NewLines(s, n) \in SUBSET (1 .. n)
    BY DEF NewLines
  <2> QED
    BY <2>1, <2>2, FS_Subset, FS_CardinalityType
<1>2. CASE streams[s].runes[n + 1] = "nl"
  <2>1. NewLines(s, n + 1) = NewLines(s, n) \cup {n + 1}
    BY <1>2 DEF NewLines
  <2>2. n + 1 \notin NewLines(s, n)
    BY DEF NewLines
  <2> QED
    BY <1>1, <1>2, <2>1, <2>2, FS_AddElement
<1>3. CASE streams[s].runes[n + 1] # "nl"
  <2>1. NewLines(s, n + 1) = NewLines(s, n)
    BY <1>3 DEF NewLines
  <2> QED
    BY <1>1, <1>3, <2>1
<1> QED
  BY <1>2, <1>3

\* A word has no line feed.
LEMMA SameNewLines ==
  ASSUME NEW s, NEW m \in Nat, NEW n \in Nat, m <= n,
         \A k \in m + 1 .. n : streams[s].runes[k] # "nl"
  PROVE  NewLines(s, m) = NewLines(s, n)
BY DEF NewLines
----------------------------------------------------------------------------
(* Input.ReadRune, one operator at a time.                                 *)

LEMMA LongerText ==
  ASSUME NEW t \in Seq(Runes), NEW r \in Runes PROVE Append(t, r) # << >>
<1>1. Len(Append(t, r)) = Len(t) + 1 /\ Len(t) \in Nat
  OBVIOUS
<1>2. Len(<< >>) = 0
  OBVIOUS
<1> QED
  BY <1>1, <1>2

LEMMA NextLineIs ==
  ASSUME NEW i \in Inputs
  PROVE  /\ NextLine(i) \in Inputs
         /\ NextLine(i).opened = i.opened
         /\ NextLine(i).read = i.read
         /\ NextLine(i).open = i.open
         /\ NextLine(i).last = i.scan
         /\ NextLine(i).scan.name = i.scan.name
         /\ NextLine(i).scan.line = i.scan.line + 1
         /\ NextLine(i).scan.text = << >>
<1>0. << >> \in Seq(Runes)
  OBVIOUS
<1>1. PICK none \in Seq(Runes) : none = << >>
  BY <1>0
<1>2. PICK l \in Lines : l = i.scan
  BY DEF Inputs
<1>3. PICK n \in Nat : n = l.line + 1
  BY DEF Lines
<1>4. NextLine(i) = [i EXCEPT !.last = l, !.scan = [l EXCEPT !.text = none, !.line = n]]
  BY <1>1, <1>2, <1>3 DEF NextLine
<1>5. [l EXCEPT !.text = none, !.line = n] = [name |-> l.name, line |-> n, text |-> none]
  <2>1. PICK m \in Lines : m = [l EXCEPT !.text = none]
    BY DEF Lines
  <2>2. m.name = l.name /\ m.text = none
    BY <2>1 DEF Lines
  <2>3. [m EXCEPT !.line = n] = [name |-> m.name, line |-> n, text |-> m.text]
    BY DEF Lines
  <2>4. [l EXCEPT !.text = none, !.line = n] = [m EXCEPT !.line = n]
    BY <2>1
  <2> QED
    BY <2>2, <2>3, <2>4
<1>6. PICK new \in Lines : new = [name |-> l.name, line |-> n, text |-> none]
  <2>1. [name |-> l.name, line |-> n, text |-> none] \in Lines
    BY DEF Lines
  <2> QED
    BY <2>1
<1>7. NextLine(i) = [opened |-> i.opened, read |-> i.read, open |-> i.open, last |-> l,
                     scan |-> new]
  BY <1>4, <1>5, <1>6 DEF Inputs
<1> QED
  BY <1>1, <1>2, <1>3, <1>6, <1>7 DEF Inputs

LEMMA NextInEnds ==
  ASSUME TypeInv, NEW i \in Inputs, i.opened = Len(streams)
  PROVE  /\ NextIn(i) \in Inputs
         /\ NextIn(i).opened = i.opened
         /\ NextIn(i).read = i.read
         /\ NextIn(i).open = FALSE
         /\ NextIn(i).last = i.scan
         /\ NextIn(i).scan.text = << >>
         /\ NextIn(i).scan.name = i.scan.name
<1>1. PICK j \in Inputs : j = NextLine(i)
  BY NextLineIs
<1>2. /\ j.opened = i.opened /\ j.read = i.read /\ j.last = i.scan /\ j.scan.text = << >>
      /\ j.scan.name = i.scan.name
  BY <1>1, NextLineIs
<1>3. NextIn(i) = [j EXCEPT !.open = FALSE]
  BY <1>1 DEF NextIn
<1>4. NextIn(i) = [opened |-> j.opened, read |-> j.read, open |-> FALSE, scan |-> j.scan,
                   last |-> j.last]
  BY <1>3 DEF Inputs
<1> QED
  BY <1>2, <1>4 DEF Inputs

LEMMA NextInOpens ==
  ASSUME TypeInv, NEW i \in Inputs, i.opened < Len(streams)
  PROVE  /\ NextIn(i) \in Inputs
         /\ NextIn(i).opened = i.opened + 1
         /\ NextIn(i).read = 0
         /\ NextIn(i).open = TRUE
         /\ NextIn(i).last = i.scan
         /\ NextIn(i).scan.text = << >>
         /\ NextIn(i).scan.name = streams[i.opened + 1].name
         /\ NextIn(i).scan.line = 1
<1>0. i.opened \in Nat /\ i.opened + 1 \in 1 .. Len(streams) /\ i.opened # Len(streams)
  BY DEF Inputs, TypeInv
<1>1. PICK name \in Names : name = streams[i.opened + 1].name
  BY <1>0, StreamFacts DEF Names
<1>2. PICK j \in Inputs : j = NextLine(i)
  BY NextLineIs
<1>3. /\ j.opened = i.opened /\ j.read = i.read /\ j.last = i.scan /\ j.scan.text = << >>
      /\ j.scan \in Lines
  BY <1>2, NextLineIs DEF Inputs
<1>4. PICK line \in Lines : line = [j.scan EXCEPT !.name = name, !.line = 1]
  BY <1>3 DEF Lines
<1>5. line.name = name /\ line.line = 1 /\ line.text = << >>
  BY <1>3, <1>4 DEF Lines
<1>6. NextIn(i) = [j EXCEPT !.open = TRUE, !.opened = @ + 1, !.read = 0,
                           !.scan.name = name, !.scan.line = 1]
  BY <1>0, <1>1, <1>2 DEF NextIn
<1>7. NextIn(i) = [opened |-> j.opened + 1, read |-> 0, open |-> TRUE, scan |-> line,
                   last |-> j.last]
  BY <1>3, <1>4, <1>6 DEF Inputs, Lines
<1> QED
  BY <1>0, <1>1, <1>3, <1>5, <1>7 DEF Inputs

LEMMA OpensStanding ==
  ASSUME TypeInv, NEW i \in Inputs, i.opened < Len(streams)
  PROVE  Stands(NextIn(i))
<1>0. i.opened \in Nat /\ i.opened + 1 \in 1 .. Len(streams)
  BY DEF Inputs, TypeInv
<1>1. PICK j \in Inputs : j = NextIn(i)
  BY NextInOpens
<1>2. /\ j.opened = i.opened + 1 /\ j.read = 0 /\ j.open = TRUE
      /\ j.scan.name = streams[i.opened + 1].name /\ j.scan.line = 1
  BY <1>1, NextInOpens
<1>3. Len(streams[i.opened + 1].runes) \in Nat
  BY <1>0, StreamFacts
<1>4. Cardinality(NewLines(i.opened + 1, 0)) = 0
  BY <1>0, NoNewLine
<1>5. Stands(j)
  BY <1>0, <1>2, <1>3, <1>4 DEF Stands
<1> QED
  BY <1>1, <1>5

\* the input with a stream open, when there is one
Opened(i) == IF i.open THEN i ELSE NextIn(i)
Left(i) == i.open \/ i.opened < Len(streams)

LEMMA OpenedStands ==
  ASSUME TypeInv, Left(in)
  PROVE  /\ Stands(Opened(in)) /\ Opened(in).open
         /\ Place = <<Opened(in).opened, Opened(in).read + 1>>
         /\ \A p \in TextPlaces : WasRead(p) <=>
              p[1] < Opened(in).opened
                \/ (p[1] = Opened(in).opened /\ p[2] <= Opened(in).read)
         /\ in.open => Opened(in) = in
         /\ ReadRune = ReadFrom(Opened(in))
<1>1. CASE in.open
  BY <1>1 DEF Opened, TypeInv, Place, WasRead, ReadRune
<1>2. CASE ~in.open
  <2>1. in \in Inputs /\ in.opened < Len(streams) /\ in.opened = 0 /\ Len(streams) \in Nat
    BY <1>2 DEF Left, TypeInv, Stands, Inputs
  <2>2. Opened(in) = NextIn(in)
    BY <1>2 DEF Opened
  <2>3. ReadRune = ReadFrom(Opened(in))
    BY <1>2, <2>1, <2>2 DEF ReadRune
  <2>4. Place = <<1, 1>>
    BY <1>2, <2>1 DEF Place
  <2>5. Opened(in).opened = 1 /\ Opened(in).read = 0 /\ Opened(in).open = TRUE
    <3>1. NextIn(in).opened = in.opened + 1 /\ NextIn(in).read = 0 /\ NextIn(in).open = TRUE
      BY <2>1, NextInOpens
    <3> QED
      BY <2>1, <2>2, <3>1
  <2>6. \A p \in TextPlaces : p[1] \in Nat /\ p[1] >= 1 /\ p[2] \in Nat /\ p[2] >= 1
    BY InText, StreamFacts DEF TypeInv
  <2>7. \A p \in TextPlaces : ~WasRead(p)
    BY <2>1, <2>6 DEF WasRead
  <2> QED
    BY <1>2, <2>1, <2>2, <2>3, <2>4, <2>5, <2>6, <2>7, OpensStanding
<1> QED
  BY <1>1, <1>2

\* A rune of the stream that is open.
LEMMA TakesRune ==
  ASSUME TypeInv, NEW i, Stands(i), i.open, ~AtEnd(i)
  PROVE  /\ ReadFrom(i) = [in |-> Taken(i), r |-> Rune(i), err |-> "none"]
         /\ Rune(i) = streams[i.opened].runes[i.read + 1] /\ Rune(i) \in Runes
         /\ i.opened \in DOMAIN streams /\ i.read + 1 \in DOMAIN streams[i.opened].runes
         /\ Stands(Taken(i)) /\ Taken(i).open
         /\ Taken(i).opened = i.opened /\ Taken(i).read = i.read + 1
         /\ Rune(i) # "nl" => /\ Taken(i).scan.text = Append(i.scan.text, Rune(i))
                              /\ Taken(i).scan.name = i.scan.name
                              /\ Taken(i).scan.line = i.scan.line
         /\ Rune(i) = "nl" => Taken(i).scan.text = << >> /\ Taken(i).last = i.scan
<1>1. /\ i \in Inputs /\ i.opened \in 1 .. Len(streams) /\ i.read \in Nat
      /\ i.scan \in Lines /\ i.scan.text \in Seq(Runes) /\ i.scan.line \in Nat
  BY DEF Stands, Inputs, Lines
<1>2. /\ Len(streams[i.opened].runes) \in Nat
      /\ DOMAIN streams[i.opened].runes = 1 .. Len(streams[i.opened].runes)
      /\ streams[i.opened].runes \in Seq(Runes)
  BY <1>1, StreamFacts
<1>3. i.read < Len(streams[i.opened].runes)
  BY <1>1, <1>2 DEF AtEnd, Current, Stands
<1>4. PICK r \in Runes : r = Rune(i) /\ r = streams[i.opened].runes[i.read + 1]
  BY <1>1, <1>2, <1>3 DEF Rune, Current
<1>5. Err(i) = "none" /\ ~Boundary(i)
  BY DEF Err, Boundary
<1>6. ReadFrom(i) = [in |-> Taken(i), r |-> Rune(i), err |-> "none"]
  BY <1>5 DEF ReadFrom
<1>7. PICK n \in Nat : n = i.read + 1
  BY <1>1
<1>8. PICK j \in Inputs : j = [i EXCEPT !.read = n]
  BY <1>1 DEF Inputs
<1>9. /\ j.opened = i.opened /\ j.read = n /\ j.open = i.open /\ j.scan = i.scan
  BY <1>1, <1>8 DEF Inputs
<1>10. j = [i EXCEPT !.read = IF AtEnd(i) THEN @ ELSE @ + 1]
  BY <1>7, <1>8
<1>11. i.opened <= Len(streams) /\ i.opened >= 1 /\ n <= Len(streams[i.opened].runes)
  BY <1>1, <1>2, <1>3, <1>7
<1>12. /\ i.scan.name = streams[i.opened].name
       /\ i.scan.line = 1 + Cardinality(NewLines(i.opened, i.read))
  BY DEF Stands
<1>13. i.opened \in DOMAIN streams /\ i.read + 1 \in DOMAIN streams[i.opened].runes
  BY <1>1, <1>2, <1>3 DEF TypeInv
<1>14. CASE r = "nl"
  <2>1. Taken(i) = NextLine(j)
    BY <1>4, <1>10, <1>14 DEF Taken
  <2>2. PICK t \in Inputs : t = NextLine(j)
    BY NextLineIs
  <2>3. /\ t.opened = i.opened /\ t.read = n /\ t.open = i.open /\ t.last = i.scan
        /\ t.scan.name = i.scan.name /\ t.scan.line = i.scan.line + 1
        /\ t.scan.text = << >>
    BY <2>2, <1>9, NextLineIs
  <2>4. /\ Cardinality(NewLines(i.opened, i.read)) \in Nat
        /\ Cardinality(NewLines(i.opened, n)) = Cardinality(NewLines(i.opened, i.read)) + 1
    BY <1>1, <1>3, <1>4, <1>7, <1>14, MoreNewLines
  <2>5. t.scan.line = 1 + Cardinality(NewLines(i.opened, n))
    BY <2>3, <2>4, <1>12
  <2>6. Stands(t)
    BY <2>2, <2>3, <2>5, <1>11, <1>12 DEF Stands
  <2> QED
    BY <2>1, <2>2, <2>3, <2>6, <1>4, <1>6, <1>7, <1>13, <1>14
<1>15. CASE r # "nl"
  <2>1. Taken(i) = [j EXCEPT !.scan.text = Append(@, r)]
    BY <1>4, <1>10, <1>15 DEF Taken
  <2>2. PICK l \in Lines : l = [j.scan EXCEPT !.text = Append(@, r)]
    <3>1. Append(i.scan.text, r) \in Seq(Runes)
      BY <1>1
    <3>2. [i.scan EXCEPT !.text = Append(@, r)] \in Lines
      BY <1>1, <3>1 DEF Lines
    <3> QED
      BY <3>2, <1>9
  <2>3. l.text = Append(i.scan.text, r) /\ l.name = i.scan.name /\ l.line = i.scan.line
    BY <2>2, <1>1, <1>9 DEF Lines
  <2>4. PICK t \in Inputs : t = [j EXCEPT !.scan = l]
    BY DEF Inputs
  <2>5. t = Taken(i)
    BY <2>1, <2>2, <2>4 DEF Inputs
  <2>6. /\ t.opened = i.opened /\ t.read = n /\ t.open = i.open /\ t.scan = l
    BY <2>4, <1>9 DEF Inputs
  <2>7. NewLines(i.opened, n) = NewLines(i.opened, i.read)
    BY <1>1, <1>3, <1>4, <1>7, <1>15, MoreNewLines
  <2>8. Stands(t)
    BY <2>3, <2>4, <2>6, <2>7, <1>11, <1>12 DEF Stands
  <2> QED
    BY <2>3, <2>5, <2>6, <2>8, <1>4, <1>6, <1>7, <1>13, <1>15
<1> QED
  BY <1>14, <1>15

\* The end of a stream enters a rune 0 in the line.
LEMMA TakesEnd ==
  ASSUME TypeInv, NEW i, Stands(i), i.open, AtEnd(i)
  PROVE  /\ Rune(i) = "nul" /\ Err(i) = streams[i.opened].end /\ Err(i) \in Ends
         /\ Stands(Taken(i)) /\ Taken(i).open
         /\ Taken(i).opened = i.opened /\ Taken(i).read = i.read
         /\ i.read = Len(streams[i.opened].runes)
         /\ Taken(i).scan.text = Append(i.scan.text, "nul")
         /\ Taken(i).scan.name = i.scan.name
         /\ Taken(i).scan.line = i.scan.line
<1>1. /\ i \in Inputs /\ i.opened \in 1 .. Len(streams) /\ i.read \in Nat
      /\ i.scan \in Lines /\ i.scan.text \in Seq(Runes) /\ i.scan.line \in Nat
  BY DEF Stands, Inputs, Lines
<1>2. streams[i.opened].end \in Ends
  BY <1>1, StreamFacts
<1>3. Rune(i) = "nul" /\ Err(i) = streams[i.opened].end
  BY DEF Rune, Err, Current
<1>4. i.read = Len(streams[i.opened].runes)
  BY DEF AtEnd, Current
<1>5. "nul" \in Runes
  BY DEF Runes, Blanks
<1>6. [i EXCEPT !.read = IF AtEnd(i) THEN @ ELSE @ + 1] = i
  BY <1>1 DEF Inputs
<1>7. Taken(i) = [i EXCEPT !.scan.text = Append(@, "nul")]
  BY <1>3, <1>6 DEF Taken
<1>8. PICK l \in Lines : l = [i.scan EXCEPT !.text = Append(@, "nul")]
  <2>1. Append(i.scan.text, "nul") \in Seq(Runes)
    BY <1>1, <1>5
  <2>2. [i.scan EXCEPT !.text = Append(@, "nul")] \in Lines
    BY <1>1, <2>1 DEF Lines
  <2> QED
    BY <2>2
<1>9. l.text = Append(i.scan.text, "nul") /\ l.name = i.scan.name /\ l.line = i.scan.line
  BY <1>1, <1>8 DEF Lines
<1>10. PICK t \in Inputs : t = [i EXCEPT !.scan = l]
  BY <1>1 DEF Inputs
<1>11. t = Taken(i)
  BY <1>1, <1>7, <1>8, <1>10 DEF Inputs
<1>12. /\ t.opened = i.opened /\ t.read = i.read /\ t.open = i.open /\ t.scan = l
  BY <1>1, <1>10 DEF Inputs
<1>13. Stands(t)
  BY <1>9, <1>10, <1>12 DEF Stands
<1> QED
  BY <1>2, <1>3, <1>4, <1>9, <1>11, <1>12, <1>13

\* has the input i passed the place p?
Passed(i, p) == p[1] < i.opened \/ (p[1] = i.opened /\ p[2] <= i.read)

\* A read either takes the rune at the next place of the text; or it is at the
\* end of a stream, or of all of them, and passes no rune.
LEMMA ReadsRune ==
  ASSUME TypeInv, Left(in), ~AtEnd(Opened(in))
  PROVE  /\ ReadRune.err = "none" /\ ReadRune.r \in Runes
         /\ Stands(ReadRune.in) /\ ReadRune.in.open
         /\ Place \in TextPlaces /\ ReadRune.r = RuneAt(Place)
         /\ ReadRune.in.opened = Place[1] /\ ReadRune.in.read = Place[2]
         /\ Place[1] \in Nat /\ Place[2] \in Nat /\ Place[2] >= 1
         /\ \A p \in TextPlaces : Passed(ReadRune.in, p) <=> WasRead(p) \/ p = Place
         /\ \A p \in TextPlaces : WasRead(p) =>
              p[1] < Place[1] \/ (p[1] = Place[1] /\ p[2] < Place[2])
         /\ ReadRune.r # "nl" =>
              /\ ReadRune.in.scan.text = Append(Opened(in).scan.text, ReadRune.r)
              /\ ReadRune.in.scan.name = Opened(in).scan.name
              /\ ReadRune.in.scan.line = Opened(in).scan.line
         /\ ReadRune.r = "nl" =>
              ReadRune.in.scan.text = << >> /\ ReadRune.in.last = Opened(in).scan
<1>1. PICK i : i = Opened(in)
  OBVIOUS
<1>2. /\ Stands(i) /\ i.open /\ ~AtEnd(i) /\ Place = <<i.opened, i.read + 1>>
      /\ \A p \in TextPlaces : WasRead(p) <=>
              p[1] < i.opened \/ (p[1] = i.opened /\ p[2] <= i.read)
      /\ ReadRune = ReadFrom(i)
  BY <1>1, OpenedStands
<1>3. /\ ReadFrom(i) = [in |-> Taken(i), r |-> Rune(i), err |-> "none"]
      /\ Rune(i) = streams[i.opened].runes[i.read + 1] /\ Rune(i) \in Runes
      /\ i.opened \in DOMAIN streams /\ i.read + 1 \in DOMAIN streams[i.opened].runes
      /\ Stands(Taken(i)) /\ Taken(i).open
      /\ Taken(i).opened = i.opened /\ Taken(i).read = i.read + 1
      /\ Rune(i) # "nl" => /\ Taken(i).scan.text = Append(i.scan.text, Rune(i))
                           /\ Taken(i).scan.name = i.scan.name
                           /\ Taken(i).scan.line = i.scan.line
      /\ Rune(i) = "nl" => Taken(i).scan.text = << >> /\ Taken(i).last = i.scan
  BY <1>2, TakesRune
<1>4. i.opened \in Nat /\ i.read \in Nat
  BY <1>2 DEF Stands, Inputs
<1>5. Place \in TextPlaces
  BY <1>2, <1>3, InText
<1>6. RuneAt(Place) = Rune(i)
  BY <1>2, <1>3 DEF RuneAt
<1>7. \A p \in TextPlaces : p[1] \in Nat /\ p[2] \in Nat /\ p = <<p[1], p[2]>>
  <2> SUFFICES ASSUME NEW p \in TextPlaces
               PROVE  p[1] \in Nat /\ p[2] \in Nat /\ p = <<p[1], p[2]>>
    OBVIOUS
  <2>1. PICK s \in DOMAIN streams : \E k \in DOMAIN streams[s].runes : p = <<s, k>>
    BY InText
  <2>2. s \in 1 .. Len(streams)
    BY DEF TypeInv
  <2>3. PICK k \in 1 .. Len(streams[s].runes) : p = <<s, k>>
    BY <2>1, <2>2, StreamFacts
  <2>4. s \in Nat /\ k \in Nat
    BY <2>2, <2>3, StreamFacts
  <2> QED
    BY <2>3, <2>4
<1>8. \A p \in TextPlaces : Passed(Taken(i), p) <=> WasRead(p) \/ p = Place
  <2> SUFFICES ASSUME NEW p \in TextPlaces
               PROVE  Passed(Taken(i), p) <=> WasRead(p) \/ p = Place
    OBVIOUS
  <2>1. Passed(Taken(i), p) <=> p[1] < i.opened \/ (p[1] = i.opened /\ p[2] <= i.read + 1)
    BY <1>3 DEF Passed
  <2>2. p = Place <=> p[1] = i.opened /\ p[2] = i.read + 1
    BY <1>2, <1>7
  <2>3. p[2] \in Nat /\ (p[2] <= i.read + 1 <=> p[2] <= i.read \/ p[2] = i.read + 1)
    BY <1>4, <1>7
  <2> QED
    BY <1>2, <2>1, <2>2, <2>3
<1>9. \A p \in TextPlaces : WasRead(p) =>
        p[1] < Place[1] \/ (p[1] = Place[1] /\ p[2] < Place[2])
  BY <1>2, <1>4, <1>7
<1> QED
  BY <1>1, <1>2, <1>3, <1>4, <1>5, <1>6, <1>8, <1>9

LEMMA ReadsEnd ==
  ASSUME TypeInv, ~Left(in) \/ AtEnd(Opened(in))
  PROVE  /\ ReadRune.r = "nul" /\ ReadRune.err \in {"none"} \union Ends
         /\ Stands(ReadRune.in)
         /\ ReadRune.err = "EOF" =>
              /\ ~ReadRune.in.open /\ ReadRune.in.opened = Len(streams)
              /\ ReadRune.in.scan.text = << >>
              /\ streams # << >> => ReadRune.in.last.name = streams[Len(streams)].name
         /\ ReadRune.err = "error" => ReadRune.in.open /\ ReadRune.in.scan.text # << >>
         /\ \A p \in TextPlaces : Passed(ReadRune.in, p) <=> WasRead(p)
         /\ in.open /\ ReadRune.err # "error" =>
              /\ ReadRune.in.scan.text = << >>
              /\ ReadRune.in.last.text = Append(in.scan.text, "nul")
              /\ ReadRune.in.last.name = in.scan.name
              /\ ReadRune.in.last.line = in.scan.line
<1>1. CASE ~Left(in)
  <2>1. ~in.open /\ in \in Inputs /\ Stands(in) /\ in.opened = Len(streams)
        /\ ~(in.opened < Len(streams))
    BY <1>1 DEF Left, TypeInv, Stands, Inputs
  <2>2. ReadRune = [in |-> NextIn(in), r |-> "nul", err |-> "EOF"]
    BY <2>1 DEF ReadRune
  <2>3. PICK j \in Inputs : j = NextIn(in)
    BY <2>1, NextInEnds
  <2>4. /\ j.opened = in.opened /\ j.read = in.read /\ j.open = FALSE
        /\ j.scan.name = in.scan.name /\ j.scan.text = << >> /\ j.last = in.scan
    BY <2>1, <2>3, NextInEnds
  <2>5. Stands(j)
    BY <2>1, <2>4 DEF Stands
  <2>7. streams # << >> => j.last.name = streams[Len(streams)].name
    <3>1. streams # << >> => in.opened > 0
      BY <2>1 DEF TypeInv
    <3> QED
      BY <2>1, <2>4, <3>1 DEF Stands
  <2>6. \A p : Passed(j, p) <=> WasRead(p)
    BY <2>4 DEF Passed, WasRead
  <2> QED
    BY <2>1, <2>2, <2>3, <2>4, <2>5, <2>6, <2>7 DEF Ends
<1>2. CASE Left(in) /\ AtEnd(Opened(in))
  <2>1. PICK i : i = Opened(in)
    OBVIOUS
  <2>2. /\ Stands(i) /\ i.open /\ AtEnd(i)
        /\ \A p \in TextPlaces : WasRead(p) <=>
              p[1] < i.opened \/ (p[1] = i.opened /\ p[2] <= i.read)
        /\ in.open => i = in
        /\ ReadRune = ReadFrom(i)
    BY <1>2, <2>1, OpenedStands
  <2>3. PICK t : t = Taken(i)
    OBVIOUS
  <2>4. /\ Rune(i) = "nul" /\ Err(i) = streams[i.opened].end /\ Err(i) \in Ends
        /\ Stands(t) /\ t.open /\ t.opened = i.opened /\ t.read = i.read
        /\ i.read = Len(streams[i.opened].runes)
        /\ t.scan.text = Append(i.scan.text, "nul")
        /\ t.scan.name = i.scan.name /\ t.scan.line = i.scan.line
    BY <2>2, <2>3, TakesEnd
  <2>5. /\ t \in Inputs /\ t.opened \in Nat /\ t.opened \in 1 .. Len(streams)
        /\ Len(streams) \in Nat
    BY <2>4 DEF Stands, Inputs, TypeInv
  <2>6. \A p \in TextPlaces : Passed(t, p) <=> WasRead(p)
    BY <2>2, <2>4 DEF Passed
  <2>7. CASE ~Boundary(i)
    <3>1. ReadFrom(i) = [in |-> t, r |-> "nul", err |-> Err(i)] /\ Err(i) = "error"
      BY <2>3, <2>4, <2>7 DEF ReadFrom, Boundary, Ends
    <3>2. t.scan.text # << >>
      <4>1. i.scan.text \in Seq(Runes)
        BY <2>2 DEF Stands, Inputs, Lines
      <4>2. "nul" \in Runes
        BY DEF Runes, Blanks
      <4> QED
        BY <2>4, <4>1, <4>2, LongerText
    <3> QED
      BY <2>2, <2>4, <2>6, <3>1, <3>2
  <2>8. CASE Boundary(i) /\ t.opened = Len(streams)
    <3>1. ReadFrom(i) = [in |-> NextIn(t), r |-> "nul", err |-> "EOF"]
      BY <2>3, <2>4, <2>5, <2>8 DEF ReadFrom
    <3>2. PICK j \in Inputs : j = NextIn(t)
      BY <2>5, <2>8, NextInEnds
    <3>3. j.opened = t.opened /\ j.read = t.read /\ j.open = FALSE
          /\ j.last = t.scan /\ j.scan.text = << >> /\ j.scan.name = t.scan.name
      BY <2>5, <2>8, <3>2, NextInEnds
    <3>9. t.scan.name = streams[t.opened].name
      BY <2>4 DEF Stands
    <3>4. Stands(j)
      BY <2>4, <2>5, <2>8, <3>3, <3>9 DEF Stands
    <3>5. \A p \in TextPlaces : Passed(j, p) <=> Passed(t, p)
      BY <3>3 DEF Passed
    <3>6. ReadRune.in = j /\ ReadRune.r = "nul" /\ ReadRune.err = "EOF"
      BY <2>2, <3>1, <3>2
    <3>7. \A p \in TextPlaces : Passed(j, p) <=> WasRead(p)
      BY <2>6, <3>5
    <3>8. in.open => /\ j.last.text = Append(in.scan.text, "nul")
                     /\ j.last.name = in.scan.name /\ j.last.line = in.scan.line
      BY <2>2, <2>4, <3>3
    <3> QED
      BY <2>8, <3>3, <3>4, <3>6, <3>7, <3>8, <3>9 DEF Ends
  <2>9. CASE Boundary(i) /\ t.opened < Len(streams)
    <3>1. ReadFrom(i) = [in |-> NextIn(t), r |-> "nul", err |-> "none"]
      BY <2>3, <2>4, <2>9 DEF ReadFrom
    <3>2. PICK j : j = NextIn(t)
      OBVIOUS
    <3>3. j.opened = t.opened + 1 /\ j.read = 0 /\ j.last = t.scan /\ j.scan.text = << >>
      BY <2>5, <2>9, <3>2, NextInOpens
    <3>4. Stands(j)
      BY <2>5, <2>9, <3>2, OpensStanding
    <3>5. \A p \in TextPlaces : Passed(j, p) <=> Passed(t, p)
      <4> SUFFICES ASSUME NEW p \in TextPlaces PROVE Passed(j, p) <=> Passed(t, p)
        OBVIOUS
      <4>1. PICK s \in 1 .. Len(streams) : \E k \in DOMAIN streams[s].runes : p = <<s, k>>
        BY InText DEF TypeInv
      <4>2. PICK k \in DOMAIN streams[s].runes : p = <<s, k>>
        BY <4>1
      <4>6. Len(streams[s].runes) \in Nat /\ k \in 1 .. Len(streams[s].runes)
        BY StreamFacts
      <4>3. Passed(j, p) <=> s < t.opened + 1 \/ (s = t.opened + 1 /\ k <= 0)
        BY <3>3, <4>2 DEF Passed
      <4>4. s = t.opened => k <= t.read
        BY <2>4, <4>6
      <4>5. Passed(t, p) <=> s < t.opened \/ (s = t.opened /\ k <= t.read)
        BY <4>2 DEF Passed
      <4> QED
        BY <2>5, <4>6, <4>3, <4>4, <4>5
    <3> QED
      BY <2>2, <2>4, <2>6, <3>1, <3>2, <3>3, <3>4, <3>5
  <2> QED
    BY <2>5, <2>7, <2>8, <2>9
<1> QED
  BY <1>1, <1>2
----------------------------------------------------------------------------
(* What was heard, when a read hears nothing, a new piece, or more of one. *)

\* the read passes just the place of the next rune
PassesOne ==
  /\ Place \in TextPlaces
  /\ \A p \in TextPlaces : WasRead(p)' <=> WasRead(p) \/ p = Place

\* what was passed lies before the place of the next rune
PlaceIsNext ==
  /\ Place \in TextPlaces
  /\ Place[1] \in Nat /\ Place[2] \in Nat /\ Place[2] >= 1
  /\ \A p \in TextPlaces : WasRead(p) =>
       p[1] < Place[1] \/ (p[1] = Place[1] /\ p[2] < Place[2])

LEMMA SameText ==
  ASSUME streams' = streams
  PROVE  TextPlaces' = TextPlaces /\ \A p : RuneAt(p)' = RuneAt(p)
BY DEF TextPlaces, RuneAt

LEMMA HearsNothing ==
  ASSUME Heard, streams' = streams, heard' = heard,
         \A p \in TextPlaces : WasRead(p) => WasRead(p)',
         \A p \in TextPlaces : WasRead(p)' => WasRead(p) \/ RuneAt(p) \in Blanks
  PROVE  Heard'
<1>1. ToSet(heard)' = ToSet(heard)
  BY DEF ToSet
<1>2. HeardWasRead'
  BY <1>1, SameText DEF Heard, HeardWasRead, PieceWasRead
<1>3. HeardInOrder'
  BY DEF Heard, HeardInOrder, Before
<1>4. UnheardIsBlank'
  BY <1>1, SameText DEF Heard, UnheardIsBlank
<1> QED
  BY <1>2, <1>3, <1>4 DEF Heard

\* a piece that was heard stays so
LEMMA PieceStays ==
  ASSUME streams' = streams, PassesOne, NEW h, PieceWasRead(h)
  PROVE  PieceWasRead(h)'
BY SameText DEF PieceWasRead, PassesOne

\* what was heard lies before the next rune
LEMMA PieceIsBefore ==
  ASSUME PlaceIsNext, NEW g \in Pieces, PieceWasRead(g), NEW h \in Pieces, h.at = Place
  PROVE  Before(g, h)
<1>1. g.runes \in Seq(Runes) /\ g.runes # << >>
  BY DEF PieceWasRead, Pieces
<1>2. PICK m \in Nat : m = Len(g.runes) /\ m \in DOMAIN g.runes
  BY <1>1
<1>3. PICK a \in Nat, b \in Nat : g.at[1] = a /\ g.at[2] = b
  BY DEF Pieces
<1>4. PICK c \in Nat, d \in Nat : Place[1] = c /\ Place[2] = d
  BY DEF PlaceIsNext
<1>5. PlaceOf(g, m) \in TextPlaces /\ WasRead(PlaceOf(g, m))
  BY <1>2 DEF PieceWasRead
<1>6. PlaceOf(g, m)[1] = a /\ PlaceOf(g, m)[2] = b + m - 1
  BY <1>3 DEF PlaceOf
<1>7. a < c \/ (a = c /\ b + m - 1 < d)
  BY <1>4, <1>5, <1>6 DEF PlaceIsNext
<1>8. a < c \/ (a = c /\ b + m <= d)
  BY <1>7
<1> QED
  BY <1>2, <1>3, <1>4, <1>8 DEF Before

LEMMA HearsNew ==
  ASSUME TypeInv, Heard, streams' = streams, PassesOne, PlaceIsNext,
         NEW new, new = [at |-> Place, runes |-> <<RuneAt(Place)>>],
         heard' = Append(heard, new), RuneAt(Place) \in Runes
  PROVE  Heard' /\ heard' \in Seq(Pieces) /\ new \in Pieces
         /\ heard' # << >> /\ heard'[Len(heard')] = new
<1>1. Place = <<Place[1], Place[2]>> /\ Place[1] \in Nat /\ Place[2] \in Nat /\ Place[2] >= 1
  BY InText DEF PlaceIsNext
<1>2. new \in Pieces /\ new.at = Place
  BY <1>1 DEF Pieces
<1>3. new.runes # << >> /\ DOMAIN new.runes = {1} /\ new.runes[1] = RuneAt(Place)
  OBVIOUS
<1>4. PICK n \in Nat : n = Len(heard)
  BY DEF TypeInv
<1>5. /\ heard' \in Seq(Pieces) /\ DOMAIN heard' = 1 .. n + 1 /\ heard'[n + 1] = new
      /\ heard' # << >> /\ Len(heard') = n + 1
  BY <1>2, <1>4 DEF TypeInv
<1>6. DOMAIN heard = 1 .. n /\ \A i \in 1 .. n : heard'[i] = heard[i] /\ heard[i] \in Pieces
  BY <1>2, <1>4 DEF TypeInv
<1>7. ToSet(heard)' = ToSet(heard) \union {new}
  BY <1>5, <1>6 DEF ToSet
<1>8. PlaceOf(new, 1) = Place
  BY <1>1, <1>2 DEF PlaceOf
<1>9. PlacesOf(new) = {Place}
  BY <1>3, <1>8 DEF PlacesOf
<1>10. PieceWasRead(new)'
  <2>1. PICK q \in TextPlaces : q = Place
    BY DEF PlaceIsNext
  <2>2. q \in TextPlaces' /\ WasRead(q)' /\ RuneAt(q)' = RuneAt(q)
    BY <2>1, SameText DEF PassesOne
  <2>3. PlaceOf(new, 1) = q /\ new.runes[1] = RuneAt(q)
    BY <1>3, <1>8, <2>1
  <2>4. new.runes # << >> /\ new.at[2] >= 1 /\ DOMAIN new.runes = {1}
    BY <1>1, <1>2, <1>3
  <2> QED
    BY <2>2, <2>3, <2>4 DEF PieceWasRead
<1>11. HeardWasRead'
  BY <1>7, <1>10, PieceStays DEF Heard, HeardWasRead
<1>12. HeardInOrder'
  <2>0. PICK t : t = heard' /\ DOMAIN t = 1 .. n + 1
    BY <1>5
  <2> SUFFICES ASSUME NEW i \in 1 .. n + 1, NEW j \in 1 .. n + 1, NEW g, NEW h,
                      i < j, g = t[i], h = t[j]
               PROVE  Before(g, h)
    BY <2>0 DEF HeardInOrder, Before
  <2>1. i \in 1 .. n /\ g = heard[i] /\ g \in ToSet(heard) /\ g \in Pieces
    BY <1>4, <1>6, <2>0 DEF ToSet
  <2>2. CASE j \in 1 .. n
    <3>1. h = heard[j]
      BY <1>6, <2>0, <2>2
    <3> QED
      BY <1>6, <2>1, <2>2, <3>1 DEF Heard, HeardInOrder
  <2>3. CASE j = n + 1
    <3>1. h = new
      BY <1>5, <2>0, <2>3
    <3>2. PieceWasRead(g)
      BY <2>1 DEF Heard, HeardWasRead
    <3> QED
      BY <1>2, <2>1, <3>1, <3>2, PieceIsBefore
  <2> QED
    BY <1>4, <2>2, <2>3
<1>13. UnheardIsBlank'
  BY <1>7, <1>9, SameText DEF Heard, UnheardIsBlank, PassesOne
<1> QED
  BY <1>2, <1>5, <1>11, <1>12, <1>13 DEF Heard

\* new is old with the rune at the next place
LEMMA LongerPiece ==
  ASSUME NEW old \in Pieces, NEW r \in Runes, NEW new,
         new = [old EXCEPT !.runes = Append(@, r)]
  PROVE  /\ new \in Pieces /\ new.at = old.at /\ new.runes = Append(old.runes, r)
         /\ Len(new.runes) = Len(old.runes) + 1
         /\ DOMAIN new.runes = DOMAIN old.runes \union {Len(old.runes) + 1}
         /\ new.runes[Len(old.runes) + 1] = r
         /\ \A k \in DOMAIN old.runes : new.runes[k] = old.runes[k]
<1>1. PICK runes \in Seq(Runes) : runes = old.runes
  BY DEF Pieces
<1>2. Append(runes, r) \in Seq(Runes)
  OBVIOUS
<1>3. PICK more \in Seq(Runes) : more = Append(runes, r)
  BY <1>2
<1>4. new = [old EXCEPT !.runes = more]
  BY <1>1, <1>3
<1>5. new \in Pieces /\ new.at = old.at /\ new.runes = more
  BY <1>4 DEF Pieces
<1>6. /\ Len(more) = Len(runes) + 1 /\ DOMAIN more = DOMAIN runes \union {Len(runes) + 1}
      /\ more[Len(runes) + 1] = r /\ \A k \in DOMAIN runes : more[k] = runes[k]
  BY <1>3
<1> QED
  BY <1>1, <1>3, <1>5, <1>6

\* new is old and the rune at the next place
Longer(old, new) ==
  /\ old \in Pieces /\ new \in Pieces /\ new.at = old.at
  /\ DOMAIN new.runes = DOMAIN old.runes \union {Len(old.runes) + 1}
  /\ new.runes[Len(old.runes) + 1] = RuneAt(Place)
  /\ \A k \in DOMAIN old.runes : new.runes[k] = old.runes[k]
  /\ Place = <<old.at[1], old.at[2] + Len(old.runes)>>

LEMMA LongerPlaces ==
  ASSUME NEW old, NEW new, Longer(old, new)
  PROVE  /\ \A k \in DOMAIN old.runes : PlaceOf(new, k) = PlaceOf(old, k)
         /\ PlaceOf(new, Len(old.runes) + 1) = Place
         /\ PlacesOf(new) = PlacesOf(old) \union {Place}
<1>1. \A k \in DOMAIN old.runes : PlaceOf(new, k) = PlaceOf(old, k)
  BY DEF Longer, PlaceOf
<1>2. PlaceOf(new, Len(old.runes) + 1) = Place
  <2>1. PICK a \in Nat, b \in Nat, m \in Nat :
          old.at[1] = a /\ old.at[2] = b /\ Len(old.runes) = m
    BY DEF Longer, Pieces
  <2>2. Place = <<a, b + m>> /\ new.at[1] = a /\ new.at[2] = b
    BY <2>1 DEF Longer
  <2>3. b + (m + 1) - 1 = b + m
    OBVIOUS
  <2> QED
    BY <2>1, <2>2, <2>3 DEF PlaceOf
<1>3. DOMAIN new.runes = DOMAIN old.runes \union {Len(old.runes) + 1}
  BY DEF Longer
<1> QED
  BY <1>1, <1>2, <1>3 DEF PlacesOf

LEMMA LongerWasRead ==
  ASSUME streams' = streams, PassesOne, NEW old, NEW new, Longer(old, new), PieceWasRead(old)
  PROVE  PieceWasRead(new)'
<1>1. \A p \in TextPlaces : WasRead(p) => WasRead(p)'
  BY DEF PassesOne
<1>2. PICK q \in TextPlaces : q = Place
  BY DEF PassesOne
<1>3. WasRead(q)'
  BY <1>2 DEF PassesOne
<1>4. /\ DOMAIN new.runes = DOMAIN old.runes \union {Len(old.runes) + 1}
      /\ new.runes[Len(old.runes) + 1] = RuneAt(q)
      /\ \A k \in DOMAIN old.runes : new.runes[k] = old.runes[k]
  BY <1>2 DEF Longer
<1>5. new.runes # << >> /\ new.at[2] >= 1
  BY <1>4 DEF Longer, PieceWasRead
<1>6. ASSUME NEW k \in DOMAIN new.runes
      PROVE  /\ PlaceOf(new, k) \in TextPlaces /\ WasRead(PlaceOf(new, k))'
             /\ RuneAt(PlaceOf(new, k)) = new.runes[k]
  <2>1. CASE k \in DOMAIN old.runes
    <3>1. PICK p : p = PlaceOf(old, k) /\ p = PlaceOf(new, k)
      BY <2>1, LongerPlaces
    <3>2. p \in TextPlaces /\ WasRead(p) /\ RuneAt(p) = old.runes[k]
      BY <2>1, <3>1 DEF PieceWasRead
    <3> QED
      BY <1>1, <1>4, <2>1, <3>1, <3>2
  <2>2. CASE k = Len(old.runes) + 1
    <3>1. PlaceOf(new, k) = q
      BY <1>2, <2>2, LongerPlaces
    <3> QED
      BY <1>3, <1>4, <2>2, <3>1
  <2> QED
    BY <1>4, <2>1, <2>2
<1> QED
  BY <1>5, <1>6, SameText DEF PieceWasRead

LEMMA ReplacedIn ==
  ASSUME NEW S, NEW s \in Seq(S), NEW i \in DOMAIN s, NEW x \in S, NEW t,
         t = [s EXCEPT ![i] = x]
  PROVE  /\ t \in Seq(S) /\ DOMAIN t = DOMAIN s /\ Len(t) = Len(s)
         /\ t[i] = x /\ \A j \in DOMAIN s : j # i => t[j] = s[j]
OBVIOUS

LEMMA HearsMore ==
  ASSUME TypeInv, Heard, streams' = streams, PassesOne,
         NEW n \in DOMAIN heard, n = Len(heard),
         NEW old, NEW new, old = heard[n], Longer(old, new),
         heard' = [heard EXCEPT ![n] = new]
  PROVE  Heard' /\ heard' \in Seq(Pieces) /\ heard' # << >>
         /\ Len(heard') = n /\ heard'[n] = new
<1>1. n \in Nat /\ DOMAIN heard = 1 .. n /\ heard \in Seq(Pieces)
  BY DEF TypeInv
<1>2. new \in Pieces /\ new.at = old.at
  BY DEF Longer
<1>3. PICK t : t = heard'
  OBVIOUS
<1>4. /\ t \in Seq(Pieces) /\ DOMAIN t = DOMAIN heard /\ Len(t) = Len(heard)
      /\ t[n] = new /\ \A i \in DOMAIN heard : i # n => t[i] = heard[i]
  BY <1>1, <1>2, <1>3, ReplacedIn
<1>5. \A h \in ToSet(t) : h \in ToSet(heard) \/ h = new
  BY <1>4 DEF ToSet
<1>6. \A h \in ToSet(heard) : h \in ToSet(t) \/ h = old
  BY <1>4 DEF ToSet
<1>7. new \in ToSet(t) /\ old \in ToSet(heard)
  BY <1>4 DEF ToSet
<1>8. HeardWasRead'
  <2>1. PieceWasRead(new)'
    BY <1>7, LongerWasRead DEF Heard, HeardWasRead
  <2>2. ASSUME NEW h \in ToSet(heard) PROVE PieceWasRead(h)'
    BY PieceStays DEF Heard, HeardWasRead
  <2> QED
    BY <1>3, <1>5, <2>1, <2>2 DEF HeardWasRead
<1>9. HeardInOrder'
  <2> SUFFICES ASSUME NEW i \in 1 .. n, NEW j \in 1 .. n, NEW g, NEW h,
                      i < j, g = t[i], h = t[j]
               PROVE  Before(g, h)
    BY <1>1, <1>3, <1>4 DEF HeardInOrder, Before
  <2>1. g = heard[i]
    BY <1>1, <1>4
  <2>2. PICK k : k = heard[j]
    OBVIOUS
  <2>3. Before(g, k)
    BY <1>1, <2>1, <2>2 DEF Heard, HeardInOrder
  <2>4. h.at = k.at
    BY <1>1, <1>2, <1>4, <2>2
  <2> QED
    BY <2>3, <2>4 DEF Before
<1>10. UnheardIsBlank'
  <2>1. \A p : (\A h \in ToSet(t) : p \notin PlacesOf(h)) =>
                (\A h \in ToSet(heard) : p \notin PlacesOf(h)) /\ p # Place
    BY <1>6, <1>7, LongerPlaces
  <2> QED
    BY <1>3, <2>1, SameText DEF Heard, UnheardIsBlank, PassesOne
<1>11. t # << >>
  BY <1>1, <1>4
<1> QED
  BY <1>3, <1>4, <1>8, <1>9, <1>10, <1>11 DEF Heard
----------------------------------------------------------------------------
(* The actions.                                                            *)

LEMMA StandsStill ==
  ASSUME streams' = streams
  PROVE  \A i : Stands(i) => (Stands(i))'
BY DEF Stands, NewLines, Inputs

\* A read of a rune, and a read of an end, as steps.
LEMMA RuneStep ==
  ASSUME TypeInv, streams' = streams, in' = ReadRune.in, Left(in), ~AtEnd(Opened(in))
  PROVE  /\ PassesOne /\ PlaceIsNext /\ Stands(in)'
         /\ ReadRune.r = RuneAt(Place) /\ ReadRune.r \in Runes /\ ReadRune.err = "none"
         /\ in'.open /\ in'.opened = Place[1] /\ in'.read = Place[2]
<1>1. PICK i : i = ReadRune.in
  OBVIOUS
<1>2. \A p : WasRead(p)' <=> Passed(i, p)
  BY <1>1 DEF WasRead, Passed
<1>3. /\ ReadRune.err = "none" /\ ReadRune.r \in Runes
      /\ Stands(i) /\ i.open
      /\ Place \in TextPlaces /\ ReadRune.r = RuneAt(Place)
      /\ i.opened = Place[1] /\ i.read = Place[2]
      /\ Place[1] \in Nat /\ Place[2] \in Nat /\ Place[2] >= 1
      /\ \A p \in TextPlaces : Passed(i, p) <=> WasRead(p) \/ p = Place
      /\ \A p \in TextPlaces : WasRead(p) =>
              p[1] < Place[1] \/ (p[1] = Place[1] /\ p[2] < Place[2])
  BY <1>1, ReadsRune
<1>4. PassesOne
  BY <1>2, <1>3 DEF PassesOne
<1>5. PlaceIsNext
  BY <1>3 DEF PlaceIsNext
<1>6. (Stands(i))'
  BY <1>3, StandsStill
<1>7. Stands(in)'
  BY <1>1, <1>6 DEF Stands
<1> QED
  BY <1>1, <1>3, <1>4, <1>5, <1>7

LEMMA EndStep ==
  ASSUME TypeInv, streams' = streams, in' = ReadRune.in, ~Left(in) \/ AtEnd(Opened(in))
  PROVE  /\ ReadRune.r = "nul" /\ ReadRune.err \in {"none"} \union Ends
         /\ Stands(in)' /\ (ReadRune.err = "EOF" => ~in'.open /\ in'.opened = Len(streams))
         /\ \A p \in TextPlaces : WasRead(p)' <=> WasRead(p)
<1>1. PICK i : i = ReadRune.in
  OBVIOUS
<1>2. \A p : WasRead(p)' <=> Passed(i, p)
  BY <1>1 DEF WasRead, Passed
<1>3. /\ ReadRune.r = "nul" /\ ReadRune.err \in {"none"} \union Ends
      /\ Stands(i)
      /\ ReadRune.err = "EOF" => ~i.open /\ i.opened = Len(streams)
      /\ \A p \in TextPlaces : Passed(i, p) <=> WasRead(p)
  BY <1>1, ReadsEnd
<1>4. (Stands(i))'
  BY <1>3, StandsStill
<1>5. Stands(in)'
  BY <1>1, <1>4 DEF Stands
<1> QED
  BY <1>1, <1>2, <1>3, <1>5

\* A read after which nothing new is heard: of an end, or of a blank rune.
LEMMA QuietStep ==
  ASSUME TypeInv, Heard, streams' = streams, heard' = heard, in' = ReadRune.in,
         ReadRune.err # "none" \/ ReadRune.r \in Blanks
  PROVE  /\ Heard' /\ Stands(in)'
         /\ ReadRune.err \in {"none"} \union Ends
         /\ ReadRune.err = "EOF" => ~in'.open /\ in'.opened = Len(streams)
<1>1. CASE Left(in) /\ ~AtEnd(Opened(in))
  <2>1. /\ PassesOne /\ Stands(in)' /\ ReadRune.r = RuneAt(Place) /\ ReadRune.err = "none"
    BY <1>1, RuneStep
  <2>2. Heard'
    BY <2>1, HearsNothing DEF PassesOne
  <2> QED
    BY <2>1, <2>2
<1>2. CASE ~Left(in) \/ AtEnd(Opened(in))
  <2>1. /\ Stands(in)' /\ \A p \in TextPlaces : WasRead(p)' <=> WasRead(p)
    BY <1>2, EndStep
  <2>2. Heard'
    BY <2>1, HearsNothing
  <2> QED
    BY <1>2, <2>2, EndStep
<1> QED
  BY <1>1, <1>2

\* What is not blank is a rune of the text, and the next piece begins with it.
LEMMA LoudStep ==
  ASSUME TypeInv, streams' = streams, in' = ReadRune.in,
         ReadRune.err = "none", ReadRune.r # "nul"
  PROVE  Left(in) /\ ~AtEnd(Opened(in))
BY EndStep

LEMMA ClosesMore ==
  ASSUME NEW S, NEW w \in Seq(S), NEW t \in Seq(S), NEW r \in S
  PROVE  /\ Closes(w, t) => Closes(Append(w, r), Append(t, r))
         /\ Closes(<<r>>, Append(t, r))
<1>1. PICK m \in Nat, n \in Nat : m = Len(w) /\ n = Len(t)
  OBVIOUS
<1>2. PICK v : v = Append(w, r)
  OBVIOUS
<1>3. PICK u : u = Append(t, r)
  OBVIOUS
<1>v. Len(v) = m + 1 /\ v[m + 1] = r /\ \A k \in 1 .. m : v[k] = w[k]
  BY <1>1, <1>2
<1>u. Len(u) = n + 1 /\ u[n + 1] = r /\ \A k \in 1 .. n : u[k] = t[k]
  BY <1>1, <1>3
<1>4. ASSUME Closes(w, t) PROVE Closes(v, u)
  <2>1. m <= n /\ \A k \in 1 .. m : t[n - m + k] = w[k]
    BY <1>1, <1>4 DEF Closes
  <2>2. ASSUME NEW k \in 1 .. m + 1 PROVE u[(n + 1) - (m + 1) + k] = v[k]
    <3>1. (n + 1) - (m + 1) + k = n - m + k
      OBVIOUS
    <3>2. CASE k \in 1 .. m
      <4>1. n - m + k \in 1 .. n
        BY <2>1, <3>2
      <4> QED
        BY <2>1, <3>1, <3>2, <4>1, <1>v, <1>u
    <3>3. CASE k = m + 1
      <4>1. n - m + k = n + 1
        BY <3>3
      <4> QED
        BY <3>1, <3>3, <4>1, <1>v, <1>u
    <3> QED
      BY <3>2, <3>3
  <2> QED
    <3>1. m + 1 <= n + 1
      BY <2>1
    <3> QED
      BY <3>1, <2>2, <1>v, <1>u DEF Closes
<1>5. Closes(<<r>>, u)
  <2>1. Len(<<r>>) = 1 /\ <<r>>[1] = r
    OBVIOUS
  <2>2. n + 1 - 1 + 1 = n + 1
    OBVIOUS
  <2> QED
    BY <2>1, <2>2, <1>u DEF Closes
<1> QED
  BY <1>2, <1>3, <1>4, <1>5

LEMMA InitIInv == Init => IInv
<1> SUFFICES ASSUME Init PROVE IInv
  OBVIOUS
<1>1. streams \in Seq(Streams)
  BY QueuesAssumption DEF Init
<1>2. in \in Inputs
  <2>1. << >> \in Seq(Runes)
    OBVIOUS
  <2>2. NoLine \in Lines
    <3>1. PICK none \in Seq(Runes) : none = << >>
      BY <2>1
    <3>2. PICK name \in Names : name = ""
      BY DEF Names, NoLine
    <3>3. NoLine = [name |-> name, line |-> 0, text |-> none]
      BY <3>1, <3>2 DEF NoLine
    <3> QED
      BY <3>3 DEF Lines
  <2> QED
    BY <2>2 DEF Init, Inputs
<1>3. in.opened = 0 /\ in.open = FALSE /\ in.read = 0
  BY DEF Init
<1>4. Stands(in)
  BY <1>1, <1>2, <1>3 DEF Stands
<1>5. doing = "idle" /\ word = << >> /\ heard = << >>
  BY DEF Init
<1>6. TypeInv
  BY <1>1, <1>4, <1>5 DEF TypeInv
<1>7. ToSet(heard) = {} /\ DOMAIN heard = {}
  BY <1>5 DEF ToSet
<1>8. \A p \in TextPlaces : ~WasRead(p)
  <2> SUFFICES ASSUME NEW p \in TextPlaces PROVE ~WasRead(p)
    OBVIOUS
  <2>1. PICK s \in DOMAIN streams : \E k \in DOMAIN streams[s].runes : p = <<s, k>>
    BY InText
  <2>2. p[1] = s /\ s \in Nat /\ s >= 1
    BY <1>1, <2>1
  <2> QED
    BY <1>3, <2>2 DEF WasRead
<1>9. Heard
  BY <1>7, <1>8 DEF Heard, HeardWasRead, HeardInOrder, UnheardIsBlank
<1> QED
  BY <1>5, <1>6, <1>9 DEF IInv, WordInv, EndInv

LEMMA BeginKeeps ==
  ASSUME IInv, Begin \/ FlushFails PROVE IInv'
<1>1. /\ streams' = streams /\ in' = in /\ heard' = heard /\ word' = word
      /\ doing' \in {"skip", "key", "write"}
  BY DEF Begin, FlushFails
<1>2. Stands(in)'
  <2>1. PICK i : i = in
    OBVIOUS
  <2>2. (Stands(i))'
    BY <2>1, <1>1, StandsStill DEF IInv, TypeInv
  <2> QED
    BY <1>1, <2>1, <2>2 DEF Stands
<1>3. TypeInv'
  BY <1>1, <1>2 DEF IInv, TypeInv
<1>4. \A p : WasRead(p)' <=> WasRead(p)
  BY <1>1 DEF WasRead
<1>5. Heard'
  BY <1>1, <1>4, HearsNothing DEF IInv
<1> QED
  BY <1>1, <1>3, <1>5 DEF IInv, WordInv, EndInv

\* A step that hears nothing and halts, or is not in a word afterwards.
LEMMA QuietKeeps ==
  ASSUME IInv, streams' = streams, heard' = heard, in' = ReadRune.in,
         ReadRune.err # "none" \/ ReadRune.r \in Blanks,
         doing' \in {"idle", "skip", "key"}
           \/ (ReadRune.err # "none" /\ doing' = ReadRune.err),
         word' \in Seq(Runes)
  PROVE  IInv'
<1>1. /\ Heard' /\ Stands(in)'
      /\ ReadRune.err \in {"none"} \union Ends
      /\ ReadRune.err = "EOF" => ~in'.open /\ in'.opened = Len(streams)
  BY QuietStep DEF IInv
<1>2. TypeInv'
  BY <1>1 DEF IInv, TypeInv, Ends
<1>3. doing' # "word"
  BY <1>1 DEF Ends
<1>4. doing' = "EOF" => ReadRune.err = "EOF"
  BY <1>1
<1>5. EndInv'
  BY <1>1, <1>4 DEF EndInv
<1> QED
  BY <1>1, <1>2, <1>3, <1>5 DEF IInv, WordInv

\* A step that hears a new piece of one rune.
LEMMA NewKeeps ==
  ASSUME IInv, streams' = streams, in' = ReadRune.in,
         ReadRune.err = "none", ReadRune.r # "nul", Hear(<<ReadRune.r>>),
         \/ doing' = "word" /\ word' = <<ReadRune.r>> /\ ReadRune.r \notin Blanks
         \/ doing' = "idle" /\ word' = word
  PROVE  IInv'
<1>1. Left(in) /\ ~AtEnd(Opened(in))
  BY LoudStep DEF IInv
<1>2. PICK r \in Runes : r = ReadRune.r
  BY <1>1, RuneStep DEF IInv
<1>3. /\ PassesOne /\ PlaceIsNext /\ Stands(in)' /\ r = RuneAt(Place)
      /\ in'.open /\ in'.opened = Place[1] /\ in'.read = Place[2]
  BY <1>1, <1>2, RuneStep DEF IInv
<1>4. PICK new : new = [at |-> Place, runes |-> <<r>>]
  OBVIOUS
<1>5. heard' = Append(heard, new)
  BY <1>2, <1>4 DEF Hear
<1>6. Heard' /\ heard' \in Seq(Pieces) /\ heard' # << >> /\ heard'[Len(heard')] = new
  BY <1>3, <1>4, <1>5, HearsNew DEF IInv
<1>7. <<r>> \in Seq(Runes) /\ Len(<<r>>) = 1 /\ DOMAIN <<r>> = {1} /\ <<r>>[1] = r
  OBVIOUS
<1>8. TypeInv'
  BY <1>2, <1>3, <1>6, <1>7 DEF IInv, TypeInv
<1>9. WordInv'
  <2> SUFFICES ASSUME doing' = "word" PROVE WordInv'
    BY DEF WordInv
  <2>1. word' = <<r>> /\ r \notin Blanks
    BY <1>2
  <2>2. r # "nl"
    BY <2>1 DEF Blanks
  <2>3. in'.scan.text = Append(Opened(in).scan.text, r)
    BY <1>1, <1>2, <2>2, ReadsRune DEF IInv
  <2>4. Opened(in).scan.text \in Seq(Runes)
    BY <1>1, OpenedStands DEF IInv, Stands, Inputs, Lines
  <2>5. Closes(word', in'.scan.text)
    <3>1. Closes(<<r>>, Append(Opened(in).scan.text, r))
      BY <2>4, ClosesMore
    <3> QED
      BY <2>1, <2>3, <3>1
  <2>6. new.runes = word' /\ new.at[1] = in'.opened /\ new.at[2] + Len(word') = in'.read + 1
    BY <1>3, <1>4, <1>7, <2>1 DEF PlaceIsNext
  <2>7. \A k \in DOMAIN word' : word'[k] \notin Blanks
    BY <1>7, <2>1
  <2>8. (Closes(word, in.scan.text))'
    BY <2>5 DEF Closes
  <2> QED
    BY <1>3, <1>6, <2>6, <2>7, <2>8 DEF WordInv
<1>10. EndInv'
  BY DEF EndInv
<1> QED
  BY <1>6, <1>8, <1>9, <1>10 DEF IInv

LEMMA SkipKeeps ==
  ASSUME IInv, SkipRune PROVE IInv'
<1>1. streams' = streams /\ in' = ReadRune.in /\ doing = "skip"
  BY DEF SkipRune, Read
<1>2. CASE ReadRune.err # "none"
  <2>1. doing' = ReadRune.err /\ word' = word /\ heard' = heard
    BY <1>2 DEF SkipRune, Halt
  <2> QED
    BY <1>1, <1>2, <2>1, QuietKeeps DEF IInv, TypeInv
<1>3. CASE ReadRune.err = "none" /\ ReadRune.r \in Blanks
  <2>1. doing' = doing /\ word' = word /\ heard' = heard
    BY <1>3 DEF SkipRune
  <2> QED
    BY <1>1, <1>3, <2>1, QuietKeeps DEF IInv, TypeInv
<1>4. CASE ReadRune.err = "none" /\ ReadRune.r \notin Blanks
  <2>1. doing' = "word" /\ word' = <<ReadRune.r>> /\ Hear(<<ReadRune.r>>)
    BY <1>4 DEF SkipRune
  <2>2. ReadRune.r # "nul"
    BY <1>4 DEF Blanks
  <2> QED
    BY <1>1, <1>4, <2>1, <2>2, NewKeeps
<1> QED
  BY <1>2, <1>3, <1>4

LEMMA KeyKeeps ==
  ASSUME IInv, KeyRune PROVE IInv'
<1>1. streams' = streams /\ in' = ReadRune.in /\ doing = "key"
  BY DEF KeyRune, Read
<1>2. CASE ReadRune.r = "nul" /\ ReadRune.err # "none"
  <2>1. doing' = ReadRune.err /\ word' = word /\ heard' = heard
    BY <1>2 DEF KeyRune, Halt
  <2> QED
    BY <1>1, <1>2, <2>1, QuietKeeps DEF IInv, TypeInv
<1>3. CASE ReadRune.r = "nul" /\ ReadRune.err = "none"
  <2>1. doing' = doing /\ word' = word /\ heard' = heard
    BY <1>3 DEF KeyRune
  <2>2. ReadRune.r \in Blanks
    BY <1>3 DEF Blanks
  <2> QED
    BY <1>1, <2>1, <2>2, QuietKeeps DEF IInv, TypeInv
<1>4. CASE ReadRune.r # "nul"
  <2>1. doing' = "idle" /\ word' = word /\ Hear(<<ReadRune.r>>)
    BY <1>4 DEF KeyRune
  <2>2. ReadRune.err = "none"
    <3>1. Left(in) /\ ~AtEnd(Opened(in))
      BY <1>1, <1>4, EndStep DEF IInv
    <3> QED
      BY <1>1, <3>1, RuneStep DEF IInv
  <2> QED
    BY <1>1, <1>4, <2>1, <2>2, NewKeeps
<1> QED
  BY <1>2, <1>3, <1>4

\* while a word is read, a stream is open and the word was heard up to here
LEMMA InWord ==
  ASSUME IInv, doing = "word"
  PROVE  /\ in.open /\ Left(in) /\ Opened(in) = in
         /\ Place = <<in.opened, in.read + 1>>
         /\ in.opened \in 1 .. Len(streams) /\ in.read \in Nat
         /\ in.scan.text \in Seq(Runes) /\ in.scan.line \in Nat
         /\ Len(heard) \in DOMAIN heard /\ heard[Len(heard)] \in Pieces
         /\ heard[Len(heard)] \in ToSet(heard)
         /\ heard[Len(heard)].runes = word /\ word \in Seq(Runes)
         /\ heard[Len(heard)].at[1] = in.opened
         /\ heard[Len(heard)].at[2] + Len(word) = in.read + 1
         /\ heard[Len(heard)].at[2] \in Nat
         /\ \A k \in DOMAIN word : word[k] \notin Blanks
         /\ Closes(word, in.scan.text)
         /\ in.scan.name = streams[in.opened].name
         /\ in.scan.line = 1 + Cardinality(NewLines(in.opened, in.read))
<1>1. in.open /\ Stands(in)
  BY DEF IInv, WordInv, TypeInv
<1>2. heard # << >> /\ heard \in Seq(Pieces) /\ word \in Seq(Runes)
  BY DEF IInv, WordInv, TypeInv
<1>3. Len(heard) \in DOMAIN heard /\ heard[Len(heard)] \in Pieces
  BY <1>2
<1>4. heard[Len(heard)] \in ToSet(heard)
  BY <1>3 DEF ToSet
<1>5. heard[Len(heard)].at[2] \in Nat
  BY <1>3 DEF Pieces
<1>6. /\ in.opened \in 1 .. Len(streams) /\ in.read \in Nat
      /\ in.scan.text \in Seq(Runes) /\ in.scan.line \in Nat
      /\ in.scan.name = streams[in.opened].name
      /\ in.scan.line = 1 + Cardinality(NewLines(in.opened, in.read))
  BY <1>1 DEF Stands, Inputs, Lines
<1>7. Left(in) /\ Opened(in) = in /\ Place = <<in.opened, in.read + 1>>
  BY <1>1 DEF Left, Opened, Place
<1> QED
  BY <1>1, <1>2, <1>3, <1>4, <1>5, <1>6, <1>7 DEF IInv, WordInv

\* the word and what was heard of it grow by the rune that was read
WordGrows ==
  /\ word' = Append(word, ReadRune.r)
  /\ heard' = [heard EXCEPT ![Len(heard)].runes = Append(@, ReadRune.r)]

\* A step that reads another rune of the word.
LEMMA MoreKeeps ==
  ASSUME IInv, streams' = streams, in' = ReadRune.in, doing = "word", doing' = "word",
         ReadRune.err = "none", ReadRune.r \notin Blanks, WordGrows
  PROVE  IInv'
<1>1. ReadRune.r # "nul" /\ ReadRune.r # "nl"
  BY DEF Blanks
<1>2. Left(in) /\ ~AtEnd(Opened(in))
  BY <1>1, LoudStep DEF IInv
<1>3. PICK r \in Runes : r = ReadRune.r
  BY <1>2, RuneStep DEF IInv
<1>4. /\ PassesOne /\ Stands(in)' /\ r = RuneAt(Place)
      /\ in'.open /\ in'.opened = Place[1] /\ in'.read = Place[2]
  BY <1>2, <1>3, RuneStep DEF IInv
<1>5. PICK n \in DOMAIN heard : n = Len(heard)
  BY InWord
<1>6. PICK old \in Pieces : old = heard[n]
  BY <1>5, InWord
<1>7. PICK new : new = [old EXCEPT !.runes = Append(@, r)]
  OBVIOUS
<1>8. heard' = [heard EXCEPT ![n] = new]
  BY <1>3, <1>5, <1>6, <1>7 DEF WordGrows
<1>9. /\ new \in Pieces /\ new.at = old.at /\ new.runes = Append(old.runes, r)
      /\ DOMAIN new.runes = DOMAIN old.runes \union {Len(old.runes) + 1}
      /\ new.runes[Len(old.runes) + 1] = r
      /\ \A k \in DOMAIN old.runes : new.runes[k] = old.runes[k]
  BY <1>7, LongerPiece
<1>10. PICK w \in Seq(Runes) : w = word
  BY InWord
<1>len. PICK m \in Nat : m = Len(w)
  OBVIOUS
<1>11. PICK o \in Nat, k \in Nat, b \in Nat :
         o = in.opened /\ k = in.read /\ old.at[2] = b
  BY <1>5, <1>6, InWord
<1>12. old.runes = w /\ old.at[1] = o /\ b + m = k + 1
  BY <1>5, <1>6, <1>10, <1>len, <1>11, InWord
<1>13. Place = <<o, k + 1>>
  BY <1>11, InWord
<1>14. Place = <<old.at[1], old.at[2] + Len(old.runes)>>
  BY <1>len, <1>11, <1>12, <1>13
<1>15. Longer(old, new)
  BY <1>4, <1>9, <1>14 DEF Longer
<1>16. Heard' /\ heard' \in Seq(Pieces) /\ heard' # << >>
         /\ Len(heard') = n /\ heard'[n] = new
  BY <1>4, <1>5, <1>6, <1>8, <1>15, HearsMore DEF IInv
<1>17. PICK v \in Seq(Runes) : v = Append(w, r)
  <2>1. Append(w, r) \in Seq(Runes)
    OBVIOUS
  <2> QED
    BY <2>1
<1>18. word' = v
  BY <1>3, <1>10, <1>17 DEF WordGrows
<1>19. Len(v) = m + 1 /\ \A i \in DOMAIN v : v[i] = r \/ (i \in DOMAIN w /\ v[i] = w[i])
  BY <1>len, <1>17
<1>20. TypeInv'
  BY <1>4, <1>16, <1>18 DEF IInv, TypeInv
<1>21. WordInv'
  <2>1. \A i \in DOMAIN v : v[i] \notin Blanks
    BY <1>3, <1>10, <1>19, InWord
  <2>2. in'.scan.text = Append(in.scan.text, r)
    BY <1>1, <1>2, <1>3, ReadsRune, InWord DEF IInv
  <2>3. Closes(v, in'.scan.text)
    <3>1. PICK t \in Seq(Runes) : t = in.scan.text /\ Closes(w, t)
      BY <1>10, InWord
    <3>2. Closes(Append(w, r), Append(t, r))
      BY <3>1, ClosesMore
    <3> QED
      BY <2>2, <3>1, <3>2, <1>17
  <2>4. (Closes(word, in.scan.text))'
    BY <2>3, <1>18 DEF Closes
  <2>5. new.runes = v /\ new.at[1] = in'.opened /\ new.at[2] + Len(v) = in'.read + 1
    <3>1. new.runes = v /\ new.at[1] = o /\ new.at[2] = b
      BY <1>9, <1>11, <1>12, <1>17
    <3>2. in'.opened = o /\ in'.read = k + 1
      BY <1>4, <1>13
    <3>3. b + (m + 1) = (k + 1) + 1
      BY <1>12
    <3> QED
      BY <3>1, <3>2, <3>3, <1>19
  <2> QED
    BY <1>4, <1>16, <1>18, <2>1, <2>4, <2>5 DEF WordInv
<1>22. EndInv'
  BY DEF EndInv
<1> QED
  BY <1>16, <1>20, <1>21, <1>22 DEF IInv

LEMMA WordKeeps ==
  ASSUME IInv, WordRune PROVE IInv'
<1>1. streams' = streams /\ in' = ReadRune.in /\ doing = "word"
  BY DEF WordRune, Read
<1>2. ReadRune.err \in {"none"} \union Ends
  BY <1>1, RuneStep, EndStep DEF IInv
<1>3. CASE ReadRune.err = "error"
  <2>1. doing' = ReadRune.err /\ word' = word /\ heard' = heard
    BY <1>3 DEF WordRune, Halt
  <2> QED
    BY <1>1, <1>3, <2>1, QuietKeeps DEF IInv, TypeInv
<1>4. CASE ReadRune.err = "EOF" \/ (ReadRune.err = "none" /\ ReadRune.r \in Blanks)
  <2>1. doing' = "idle" /\ word' = << >> /\ heard' = heard
    BY <1>4 DEF WordRune
  <2>2. word' \in Seq(Runes)
    BY <2>1
  <2> QED
    BY <1>1, <1>4, <2>1, <2>2, QuietKeeps
<1>5. CASE ReadRune.err = "none" /\ ReadRune.r \notin Blanks
  <2>1. /\ word' = Append(word, ReadRune.r) /\ doing' = doing
        /\ heard' = [heard EXCEPT ![Len(heard)].runes = Append(@, ReadRune.r)]
    BY <1>5 DEF WordRune
  <2> QED
    BY <1>1, <1>5, <2>1, MoreKeeps DEF WordGrows
<1> QED
  BY <1>2, <1>3, <1>4, <1>5 DEF Ends

LEMMA Invariance == Spec => []IInv
<1>1. IInv /\ [Next]_vars => IInv'
  <2> SUFFICES ASSUME IInv, [Next]_vars PROVE IInv'
    OBVIOUS
  <2>1. CASE Begin \/ FlushFails
    BY <2>1, BeginKeeps
  <2>2. CASE SkipRune
    BY <2>2, SkipKeeps
  <2>3. CASE WordRune
    BY <2>3, WordKeeps
  <2>4. CASE KeyRune
    BY <2>4, KeyKeeps
  <2>5. CASE UNCHANGED vars
    BY <2>5 DEF vars, IInv, TypeInv, WordInv, EndInv, Heard, HeardWasRead, HeardInOrder,
                UnheardIsBlank, Stands, Closes, NewLines, ToSet, PieceWasRead, TextPlaces,
                WasRead, RuneAt
  <2> QED
    BY <2>1, <2>2, <2>3, <2>4, <2>5 DEF Next
<1> QED
  BY <1>1, InitIInv, PTL DEF Spec
----------------------------------------------------------------------------
LEMMA HeardPlacesAre ==
  \A p : p \in HeardPlaces <=> \E h \in ToSet(heard) : p \in PlacesOf(h)
BY DEF HeardPlaces, PlacesOf, PlaceOf

\* Nothing that scan and readRune return is lost, repeated or made up: every
\* word and every key is a piece of one stream, in the order of the text, and
\* what no one heard is blank (Input.ReadRune, VM.scan, Core.readRune).
THEOREM NothingIsMisheard == Spec => []HeardIsTheText
<1>1. IInv => HeardIsTheText
  <2> SUFFICES ASSUME IInv PROVE HeardIsTheText
    OBVIOUS
  <2>1. ASSUME NEW i \in DOMAIN heard, NEW k \in DOMAIN heard[i].runes
        PROVE  LET p == <<heard[i].at[1], heard[i].at[2] + k - 1>>
               IN p \in TextPlaces /\ WasRead(p) /\ RuneAt(p) = heard[i].runes[k]
    <3>1. heard[i] \in ToSet(heard)
      BY DEF ToSet
    <3>2. PieceWasRead(heard[i])
      BY <3>1 DEF IInv, Heard, HeardWasRead
    <3> QED
      BY <3>2 DEF PieceWasRead, PlaceOf
  <2>2. ASSUME NEW i \in DOMAIN heard, NEW j \in DOMAIN heard, i < j
        PROVE  \/ heard[i].at[1] < heard[j].at[1]
               \/ /\ heard[i].at[1] = heard[j].at[1]
                  /\ heard[i].at[2] + Len(heard[i].runes) <= heard[j].at[2]
    BY <2>2 DEF IInv, Heard, HeardInOrder, Before
  <2>3. \A p \in TextPlaces : WasRead(p) /\ p \notin HeardPlaces => RuneAt(p) \in Blanks
    BY HeardPlacesAre DEF IInv, Heard, UnheardIsBlank
  <2> QED
    BY <2>1, <2>2, <2>3 DEF HeardIsTheText
<1> QED
  BY <1>1, Invariance, PTL

\* The machine sees the end of its input only when every stream was read to
\* its end (Input.ReadRune, which opens the next stream at the end of one).
THEOREM NothingIsLeftOver == Spec => []EndsAtTheEnd
<1>1. IInv => EndsAtTheEnd
  <2> SUFFICES ASSUME IInv, doing = "EOF"
               PROVE  in.opened = Len(streams) /\ \A p \in TextPlaces : WasRead(p)
    BY DEF EndsAtTheEnd
  <2>1. ~in.open /\ in.opened = Len(streams) /\ Stands(in)
    BY DEF IInv, EndInv, TypeInv
  <2>2. ASSUME NEW p \in TextPlaces PROVE WasRead(p)
    <3>1. PICK s \in DOMAIN streams : \E k \in DOMAIN streams[s].runes : p = <<s, k>>
      BY InText
    <3>2. s \in 1 .. Len(streams) /\ Len(streams) \in Nat
      BY DEF IInv, TypeInv
    <3>3. PICK k \in DOMAIN streams[s].runes : p = <<s, k>>
      BY <3>1
    <3>4. Len(streams[s].runes) \in Nat /\ k \in 1 .. Len(streams[s].runes)
      BY <3>2, StreamFacts DEF IInv
    <3>5. s = in.opened => k <= in.read
      BY <2>1, <3>2, <3>4 DEF Stands
    <3> QED
      BY <2>1, <3>2, <3>3, <3>5 DEF WasRead
  <2> QED
    BY <2>1, <2>2
<1> QED
  BY <1>1, Invariance, PTL
----------------------------------------------------------------------------
(* The line that is logged.                                                *)

IsPart(w, t) == \E k \in 0 .. Len(t) - Len(w) : SubSeq(t, k + 1, k + Len(w)) = w

\* a word that ends a text is part of it, and of what is appended to it
LEMMA ClosingIsPart ==
  ASSUME NEW S, NEW w \in Seq(S), NEW t \in Seq(S), NEW r \in S, Closes(w, t)
  PROVE  IsPart(w, t) /\ IsPart(w, Append(t, r))
<1>1. PICK m \in Nat : m = Len(w)
  OBVIOUS
<1>2. PICK n \in Nat : n = Len(t)
  OBVIOUS
<1>3. m <= n /\ \A i \in 1 .. m : t[n - m + i] = w[i]
  BY <1>1, <1>2 DEF Closes
<1>4. PICK k \in Nat : k = n - m
  BY <1>3
<1>5. k + m = n /\ \A i \in 1 .. m : t[k + i] = w[i]
  <2>1. k + m = n
    BY <1>4
  <2>2. ASSUME NEW i \in 1 .. m PROVE t[k + i] = w[i]
    <3>1. n - m + i = k + i
      BY <1>4
    <3>2. t[n - m + i] = w[i]
      BY <1>3
    <3> QED
      BY <3>1, <3>2
  <2> QED
    BY <2>1, <2>2
<1>6. ASSUME NEW u \in Seq(S), Len(u) >= n, \A i \in 1 .. n : u[i] = t[i]
      PROVE  \E j \in 0 .. Len(u) - m : SubSeq(u, j + 1, j + m) = w
  <2>1. PICK l \in Nat : l = Len(u) /\ l >= n
    BY <1>6
  <2>2. \A i \in 1 .. m : u[k + i] = w[i]
    BY <1>5, <1>6
  <2>3. k \in 0 .. l - m
    BY <1>5, <2>1
  <2>4. PICK v : v = SubSeq(u, k + 1, k + m)
    OBVIOUS
  <2>5. v \in Seq(S) /\ Len(v) = m /\ \A i \in 1 .. m : v[i] = u[k + i]
    <3>1. \A i \in k + 1 .. k + m : u[i] \in S
      BY <1>5, <2>1
    <3>2. k + 1 \in 1 .. l + 1 /\ k + m \in 0 .. l
      BY <1>5, <2>1
    <3> QED
      BY <2>1, <2>4, <3>1, <3>2, SubSeqProperties
  <2>6. v = w
    <3>1. \A i \in 1 .. Len(v) : v[i] = w[i]
      BY <2>2, <2>5
    <3> QED
      BY <1>1, <2>5, <3>1, SeqEqual
  <2> QED
    BY <2>1, <2>3, <2>4, <2>6
<1>7. \E j \in 0 .. Len(t) - m : SubSeq(t, j + 1, j + m) = w
  <2>1. t \in Seq(S) /\ Len(t) >= n /\ \A i \in 1 .. n : t[i] = t[i]
    BY <1>2
  <2> QED
    BY <1>6, <2>1
<1>8. Append(t, r) \in Seq(S) /\ Len(Append(t, r)) >= n
      /\ \A i \in 1 .. n : Append(t, r)[i] = t[i]
  <2>1. /\ Append(t, r) \in Seq(S) /\ Len(Append(t, r)) = Len(t) + 1
        /\ \A i \in 1 .. Len(t) : Append(t, r)[i] = t[i]
    BY AppendProperties
  <2> QED
    BY <1>2, <2>1
<1>9. \E j \in 0 .. Len(Append(t, r)) - m : SubSeq(Append(t, r), j + 1, j + m) = w
  BY <1>6, <1>8
<1> QED
  BY <1>1, <1>7, <1>9 DEF IsPart

\* the line of a word is the line where its last rune was read
LEMMA WordIsOnLine ==
  ASSUME IInv, doing = "word"
  PROVE  NewLines(in.opened, in.read)
           = NewLines(heard[Len(heard)].at[1], heard[Len(heard)].at[2])
<1>1. PICK h \in Pieces : h = heard[Len(heard)]
  BY InWord
<1>2. PICK b \in Nat, n \in Nat : b = h.at[2] /\ n = in.read
  BY <1>1, InWord
<1>3. PICK w \in Seq(Runes) : w = word /\ h.runes = w
  BY <1>1, InWord
<1>4. PICK m \in Nat : m = Len(w) /\ DOMAIN w = 1 .. m
  OBVIOUS
<1>5. b + m = n + 1 /\ h.at[1] = in.opened
  BY <1>1, <1>2, <1>3, <1>4, InWord
<1>6. PieceWasRead(h)
  BY <1>1, InWord DEF IInv, Heard, HeardWasRead
<1>7. w # << >>
  BY <1>3, <1>6 DEF PieceWasRead
<1>8. b <= n
  BY <1>4, <1>5, <1>7
<1>9. ASSUME NEW k \in b + 1 .. n PROVE streams[in.opened].runes[k] # "nl"
  <2>1. PICK i \in 1 .. m : i = k - b + 1
    BY <1>5
  <2>2. b + i - 1 = k
    BY <2>1
  <2>3. PlaceOf(h, i) = <<in.opened, k>>
    BY <1>2, <1>5, <2>2 DEF PlaceOf
  <2>4. RuneAt(PlaceOf(h, i)) = w[i]
    BY <1>3, <1>4, <1>6 DEF PieceWasRead
  <2>5. w[i] # "nl"
    BY <1>3, <1>4, InWord DEF Blanks
  <2> QED
    BY <2>3, <2>4, <2>5 DEF RuneAt
<1>10. NewLines(in.opened, b) = NewLines(in.opened, n)
  BY <1>8, <1>9, SameNewLines
<1> QED
  BY <1>1, <1>2, <1>5, <1>10

Messages == [token : Seq(Runes), line : Lines]

LEMMA LogIsMessages == Spec => [](logged \in Seq(Messages))
<1>1. Init => logged \in Seq(Messages)
  <2>1. << >> \in Seq(Messages)
    OBVIOUS
  <2> QED
    BY <2>1 DEF Init
<1>2. IInv /\ IInv' /\ logged \in Seq(Messages) /\ [Next]_vars => (logged \in Seq(Messages))'
  <2> SUFFICES ASSUME IInv, IInv', logged \in Seq(Messages), [Next]_vars
               PROVE  logged' \in Seq(Messages)
    OBVIOUS
  <2>1. \/ logged' = logged
        \/ Log(<< >>)
        \/ Log(word)
    <3>1. CASE Begin \/ FlushFails \/ UNCHANGED vars
      BY <3>1 DEF Begin, FlushFails, vars
    <3>2. CASE SkipRune
      BY <3>2 DEF SkipRune
    <3>3. CASE WordRune
      BY <3>3 DEF WordRune
    <3>4. CASE KeyRune
      BY <3>4 DEF KeyRune
    <3> QED
      BY <3>1, <3>2, <3>3, <3>4 DEF Next
  <2>2. (Shown(in))' \in Lines
    <3>1. (Shown(in) \in Lines)'
      BY DEF IInv, TypeInv, Stands, Inputs, Shown, Lines, Names
    <3> QED
      BY <3>1
  <2>3. PICK l \in Lines : l = (Shown(in))'
    BY <2>2
  <2>4. word \in Seq(Runes) /\ << >> \in Seq(Runes)
    BY DEF IInv, TypeInv
  <2>5. ASSUME NEW token \in Seq(Runes), Log(token) PROVE logged' \in Seq(Messages)
    <3>1. PICK m \in Messages : m = [token |-> token, line |-> l]
      BY DEF Messages
    <3>2. logged' = Append(logged, m)
      BY <2>3, <2>5, <3>1 DEF Log, Shown
    <3> QED
      BY <3>2
  <2> QED
    BY <2>1, <2>4, <2>5
<1> QED
  BY <1>1, <1>2, Invariance, PTL DEF Spec

\* A message that was appended is the last one.
LEMMA LogAppends ==
  ASSUME logged \in Seq(Messages), NEW token \in Seq(Runes), Log(token),
         NEW l \in Lines, l = Shown(in')
  PROVE  /\ logged' # logged
         /\ Last(logged').token = token /\ Last(logged').line = l
<1>1. PICK m \in Messages : m = [token |-> token, line |-> l]
  BY DEF Messages
<1>2. logged' = Append(logged, m)
  BY <1>1 DEF Log
<1>3. PICK n \in Nat : n = Len(logged)
  OBVIOUS
<1>4. Len(logged') = n + 1 /\ logged'[n + 1] = m
  BY <1>2, <1>3
<1>5. Last(logged') = m
  BY <1>4 DEF Last
<1> QED
  BY <1>1, <1>3, <1>4, <1>5 DEF Messages

\* What a halting read leaves: no word, and the line where the read failed, or
\* one of the last stream.
LEMMA HaltsOnLine ==
  ASSUME IInv, streams' = streams, in' = ReadRune.in, ReadRune.err # "none"
  PROVE  /\ ReadRune.err = "error" => IsLineAt(Shown(in'), in'.opened, in'.read)
         /\ ReadRune.err = "EOF" /\ streams # << >> => Shown(in').name = Last(streams).name
<1>1. ~Left(in) \/ AtEnd(Opened(in))
  BY RuneStep DEF IInv
<1>2. PICK i : i = ReadRune.in
  OBVIOUS
<1>3. /\ Stands(i)
      /\ ReadRune.err = "EOF" =>
              /\ i.scan.text = << >>
              /\ streams # << >> => i.last.name = streams[Len(streams)].name
      /\ ReadRune.err = "error" => i.open /\ i.scan.text # << >>
  BY <1>1, <1>2, ReadsEnd DEF IInv
<1>4. ReadRune.err = "error" => IsLineAt(Shown(i), i.opened, i.read)
  BY <1>3 DEF Shown, Stands, IsLineAt
<1>5. ReadRune.err = "EOF" /\ streams # << >> => Shown(i).name = Last(streams).name
  BY <1>3 DEF Shown, Last
<1> QED
  BY <1>2, <1>4, <1>5

\* A word that ends is named by the message, on its line, which holds it.
LEMMA EndsOnLine ==
  ASSUME IInv, doing = "word", in' = ReadRune.in, streams' = streams,
         ReadRune.err = "EOF" \/ (ReadRune.err = "none" /\ ReadRune.r \in Blanks)
  PROVE  /\ IsLineAt(Shown(in'), Last(heard).at[1], Last(heard).at[2])
         /\ IsPart(word, Shown(in').text)
<1>1. PICK t \in Seq(Runes) : t = in.scan.text /\ Closes(word, t)
  BY InWord
<1>2. PICK r \in Runes :
        /\ Shown(in').name = in.scan.name /\ Shown(in').line = in.scan.line
        /\ Shown(in').text = t \/ Shown(in').text = Append(t, r)
  <2>1. CASE ~AtEnd(Opened(in)) /\ ReadRune.r = "nl"
    <3>1. in'.scan.text = << >> /\ in'.last = in.scan
      BY <2>1, ReadsRune, InWord DEF IInv
    <3>2. Shown(in') = in.scan
      BY <3>1 DEF Shown
    <3>3. "nl" \in Runes
      BY DEF Runes, Blanks
    <3> QED
      BY <1>1, <3>2, <3>3
  <2>2. CASE ~AtEnd(Opened(in)) /\ ReadRune.r # "nl"
    <3>1. PICK q \in Runes : q = ReadRune.r
      BY <2>2, ReadsRune, InWord DEF IInv
    <3>2. /\ in'.scan.text = Append(t, q)
          /\ in'.scan.name = in.scan.name /\ in'.scan.line = in.scan.line
      BY <1>1, <2>2, <3>1, ReadsRune, InWord DEF IInv
    <3>3. Append(t, q) # << >>
      BY LongerText
    <3>4. Shown(in') = in'.scan
      BY <3>2, <3>3 DEF Shown
    <3> QED
      BY <3>2, <3>4
  <2>3. CASE AtEnd(Opened(in))
    <3>1. /\ in'.scan.text = << >> /\ in'.last.text = Append(t, "nul")
          /\ in'.last.name = in.scan.name /\ in'.last.line = in.scan.line
      BY <1>1, <2>3, ReadsEnd, InWord DEF IInv
    <3>2. Shown(in') = in'.last
      BY <3>1 DEF Shown
    <3>3. "nul" \in Runes
      BY DEF Runes, Blanks
    <3> QED
      BY <3>1, <3>2, <3>3
  <2> QED
    BY <2>1, <2>2, <2>3
<1>3. PICK w \in Seq(Runes) : w = word
  BY InWord
<1>4. IsPart(w, t) /\ IsPart(w, Append(t, r))
  BY <1>1, <1>3, ClosingIsPart
<1>5. IsPart(w, Shown(in').text)
  BY <1>2, <1>4
<1>6. /\ in.scan.name = streams[heard[Len(heard)].at[1]].name
      /\ in.scan.line = 1 + Cardinality(NewLines(heard[Len(heard)].at[1],
                                                 heard[Len(heard)].at[2]))
  BY InWord, WordIsOnLine
<1>7. IsLineAt(Shown(in'), heard[Len(heard)].at[1], heard[Len(heard)].at[2])
  BY <1>2, <1>6 DEF IsLineAt
<1> QED
  BY <1>3, <1>5, <1>7 DEF Last

\* The line that scan logs for a word is the line that the word is on, and
\* holds the word, whatever the reading of the word's end has begun since; when
\* scan halts it names no word, and shows the line where the read failed, or
\* one of the last stream at the end of the input (VM.scan, first.go:657-663).
THEOREM LoggedIsTheWordsLine == Spec => LoggedLineHoldsWord
<1> DEFINE Holds(m, h) ==
             /\ doing' = "idle" =>
                  /\ m.token = word /\ IsLineAt(m.line, h.at[1], h.at[2])
                  /\ \E k \in 0 .. Len(m.line.text) - Len(word) :
                       SubSeq(m.line.text, k + 1, k + Len(word)) = word
             /\ doing' # "idle" => m.token = << >>
             /\ doing' = "error" => IsLineAt(m.line, in'.opened, in'.read)
             /\ doing' = "EOF" /\ streams # << >> => m.line.name = Last(streams).name
<1>1. IInv /\ IInv' /\ logged \in Seq(Messages) /\ [Next]_vars =>
        (logged' # logged => Holds(Last(logged'), Last(heard)))
  <2> SUFFICES ASSUME IInv, IInv', logged \in Seq(Messages), Next, logged' # logged
               PROVE  Holds(Last(logged'), Last(heard))
    BY DEF vars
  <2>1. PICK l \in Lines : l = Shown(in')
    <3>1. (Shown(in) \in Lines)'
      BY DEF IInv, TypeInv, Stands, Inputs, Shown, Lines, Names
    <3> QED
      BY <3>1 DEF Shown
  <2>2. << >> \in Seq(Runes)
    OBVIOUS
  <2>3. ASSUME Log(<< >>), doing' # "idle",
               doing' = "error" => IsLineAt(l, in'.opened, in'.read),
               doing' = "EOF" /\ streams # << >> => l.name = Last(streams).name
        PROVE  Holds(Last(logged'), Last(heard))
    <3>1. Last(logged').token = << >> /\ Last(logged').line = l
      BY <2>1, <2>2, <2>3, LogAppends
    <3> QED
      BY <2>3, <3>1
  <2>4. ASSUME Log(<< >>), doing' = ReadRune.err, ReadRune.err # "none",
               streams' = streams, in' = ReadRune.in
        PROVE  Holds(Last(logged'), Last(heard))
    <3>1. /\ doing' = "error" => IsLineAt(l, in'.opened, in'.read)
          /\ doing' = "EOF" /\ streams # << >> => l.name = Last(streams).name
      BY <2>1, <2>4, HaltsOnLine
    <3>2. ReadRune.err \in Ends
      BY <2>4, RuneStep, EndStep DEF IInv
    <3>3. doing' # "idle"
      BY <2>4, <3>2 DEF Ends
    <3> QED
      BY <2>3, <2>4, <3>1, <3>3
  <2>5. CASE FlushFails
    <3>1. Log(<< >>) /\ doing' = "write"
      BY <2>5 DEF FlushFails
    <3> QED
      BY <2>3, <3>1
  <2>6. CASE SkipRune
    <3>1. ReadRune.err # "none" /\ doing' = ReadRune.err /\ Log(<< >>)
      BY <2>6 DEF SkipRune, Halt
    <3>2. streams' = streams /\ in' = ReadRune.in
      BY <2>6 DEF SkipRune, Read
    <3> QED
      BY <2>4, <3>1, <3>2
  <2>7. CASE WordRune
    <3>1. streams' = streams /\ in' = ReadRune.in /\ doing = "word"
      BY <2>7 DEF WordRune, Read
    <3>2. CASE ReadRune.err = "error"
      <4>1. doing' = ReadRune.err /\ Log(<< >>)
        BY <2>7, <3>2 DEF WordRune, Halt
      <4> QED
        BY <2>4, <3>1, <3>2, <4>1
    <3>3. CASE ReadRune.err # "error"
      <4>1. /\ ReadRune.err = "EOF" \/ (ReadRune.err = "none" /\ ReadRune.r \in Blanks)
            /\ doing' = "idle" /\ Log(word)
        BY <2>7, <3>1, <3>3 DEF WordRune
      <4>2. IsLineAt(l, Last(heard).at[1], Last(heard).at[2]) /\ IsPart(word, l.text)
        BY <2>1, <3>1, <4>1, EndsOnLine
      <4>3. word \in Seq(Runes)
        BY DEF IInv, TypeInv
      <4>4. Last(logged').token = word /\ Last(logged').line = l
        BY <2>1, <4>1, <4>3, LogAppends
      <4> QED
        BY <4>1, <4>2, <4>4 DEF IsPart
    <3> QED
      BY <3>2, <3>3
  <2>8. CASE Begin \/ KeyRune
    BY <2>8 DEF Begin, KeyRune
  <2> QED
    BY <2>5, <2>6, <2>7, <2>8 DEF Next
<1> QED
  BY <1>1, Invariance, LogIsMessages, PTL DEF Spec, LoggedLineHoldsWord
=============================================================================
