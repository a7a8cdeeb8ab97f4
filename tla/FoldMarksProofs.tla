--------------------------- MODULE FoldMarksProofs --------------------------
(***************************************************************************)
(* Theorems about FoldMarks, for every set of lines, number of lines and   *)
(* choice of scanners, with writes that may fail at any time.              *)
(***************************************************************************)
EXTENDS FoldMarks, SequenceTheorems, FunctionTheorems, FiniteSetTheorems, WellFoundedInduction,
        TLAPS
----------------------------------------------------------------------------
(* The least of some numbers.                                              *)

LEMMA LessIsWellFounded ==
  IsWellFoundedOn({p \in Nat \X Nat : p[1] < p[2]}, Nat)
BY NatLessThanWellFounded DEF OpToRel

LEMMA MinFacts ==
  ASSUME NEW I \in SUBSET Nat, I # {}
  PROVE  Min(I) \in I /\ \A i \in I : Min(I) <= i
<1> DEFINE R == {p \in Nat \X Nat : p[1] < p[2]}
<1>1. IsWellFoundedOn(R, Nat)
  BY LessIsWellFounded
<1>2. PICK k \in I : \A j \in I : <<j, k>> \notin R
  <2> HIDE DEF R
  <2> QED BY <1>1, WFMin
<1>3. \A j \in I : k <= j
  <2> SUFFICES ASSUME NEW j \in I PROVE k <= j
    OBVIOUS
  <2>1. j \in Nat /\ k \in Nat /\ <<j, k>> \notin R
    BY <1>2
  <2>2. ~(j < k)
    BY <2>1
  <2> QED BY <2>1, <2>2
<1> QED BY <1>2, <1>3 DEF Min
----------------------------------------------------------------------------
(* Counting the parts of a text.                                           *)

Places(text, p) == {i \in 1 .. Len(text) : text[i] = p}

LEMMA CountIsNat ==
  ASSUME NEW S, NEW text \in Seq(S), NEW p
  PROVE  /\ Count(text, p) = Cardinality(Places(text, p)) /\ Count(text, p) \in Nat
         /\ IsFiniteSet(Places(text, p))
         /\ Depth(text) \in Int
<1>1. DOMAIN text = 1 .. Len(text) /\ Len(text) \in Nat
  BY LenProperties
<1>2. ASSUME NEW q
      PROVE  /\ Count(text, q) = Cardinality(Places(text, q))
             /\ Count(text, q) \in Nat /\ IsFiniteSet(Places(text, q))
  <2>1. Count(text, q) = Cardinality(Places(text, q))
    BY <1>1 DEF Count, Places
  <2>2. IsFiniteSet(1 .. Len(text))
    BY <1>1, FS_Interval
  <2>3. IsFiniteSet(Places(text, q))
    <3>1. Places(text, q) \in SUBSET (1 .. Len(text))
      BY DEF Places
    <3> QED BY <3>1, <2>2, FS_Subset
  <2> QED BY <2>1, <2>3, FS_CardinalityType
<1>3. Depth(text) \in Int
  BY <1>2 DEF Depth
<1> QED BY <1>2, <1>3

LEMMA CountEmpty == \A p : Count(<< >>, p) = 0 /\ Depth(<< >>) = 0
<1>1. ASSUME NEW p PROVE Count(<< >>, p) = 0
  <2>1. {i \in DOMAIN << >> : << >>[i] = p} = {}
    OBVIOUS
  <2> QED BY <2>1, FS_EmptySet DEF Count
<1> QED BY <1>1 DEF Depth

LEMMA CountConcat ==
  ASSUME NEW S, NEW s \in Seq(S), NEW t \in Seq(S), NEW p
  PROVE  Count(s \o t, p) = Count(s, p) + Count(t, p)
<1> DEFINE A == Places(s, p)
           B == Places(t, p)
           C == {i \in (Len(s) + 1) .. (Len(s) + Len(t)) : t[i - Len(s)] = p}
           f == [i \in B |-> i + Len(s)]
<1>1. s \o t \in Seq(S) /\ Len(s \o t) = Len(s) + Len(t) /\ Len(s) \in Nat /\ Len(t) \in Nat
  BY ConcatProperties, LenProperties
<1>2. \A i \in 1 .. Len(s) + Len(t) :
        (s \o t)[i] = IF i <= Len(s) THEN s[i] ELSE t[i - Len(s)]
  BY ConcatProperties
<1>3. Places(s \o t, p) = A \union C
  BY <1>1, <1>2 DEF Places
<1>4. A \intersect C = {}
  BY <1>1 DEF Places
<1>5. IsFiniteSet(A) /\ IsFiniteSet(B)
  BY CountIsNat
<1>6. f \in Bijection(B, C)
  <2>1. f \in Surjection(B, C)
    <3>1. f \in [B -> C]
      BY <1>1 DEF Places
    <3>2. \A c \in C : \E b \in B : f[b] = c
      <4> SUFFICES ASSUME NEW c \in C PROVE \E b \in B : f[b] = c
        OBVIOUS
      <4>1. c - Len(s) \in B /\ (c - Len(s)) + Len(s) = c
        BY <1>1 DEF Places
      <4> QED BY <4>1
    <3> QED BY <3>1, <3>2, Fun_IsSurj
  <2>2. f \in Injection(B, C)
    <3>1. \A a, b \in B : f[a] = f[b] => a = b
      BY <1>1 DEF Places
    <3>2. f \in [B -> C]
      BY <1>1 DEF Places
    <3> QED BY <3>1, <3>2, Fun_IsInj
  <2> QED BY <2>1, <2>2, Fun_IsBij
<1>7. IsFiniteSet(C) /\ Cardinality(C) = Cardinality(B)
  <2>1. ExistsBijection(B, C)
    BY <1>6 DEF ExistsBijection
  <2> QED BY <2>1, <1>5, FS_Bijection
<1>8. Cardinality(A \union C) = Cardinality(A) + Cardinality(C)
  <2>1. Cardinality(A \intersect C) = 0
    BY <1>4, FS_EmptySet
  <2>2. Cardinality(A \union C) = Cardinality(A) + Cardinality(C) - Cardinality(A \intersect C)
    BY <1>5, <1>7, FS_Union
  <2>3. Cardinality(A) \in Nat /\ Cardinality(C) \in Nat
    BY <1>5, <1>7, FS_CardinalityType
  <2> HIDE DEF A, C
  <2> QED BY <2>1, <2>2, <2>3
<1>9. /\ Count(s \o t, p) = Cardinality(A \union C)
      /\ Count(s, p) = Cardinality(A) /\ Count(t, p) = Cardinality(B)
  <2>1. Count(s \o t, p) = Cardinality(Places(s \o t, p))
    BY <1>1, CountIsNat
  <2>2. Count(s, p) = Cardinality(Places(s, p)) /\ Count(t, p) = Cardinality(Places(t, p))
    BY CountIsNat
  <2> QED BY <2>1, <2>2, <1>3
<1> HIDE DEF A, B, C, f
<1> QED BY <1>7, <1>8, <1>9

LEMMA DepthConcat ==
  ASSUME NEW S, NEW s \in Seq(S), NEW t \in Seq(S)
  PROVE  Depth(s \o t) = Depth(s) + Depth(t)
<1>1. Count(s, "open") \in Nat /\ Count(t, "open") \in Nat
  BY CountIsNat
<1>2. Count(s, "close") \in Nat /\ Count(t, "close") \in Nat
  BY CountIsNat
<1>3. Count(s \o t, "open") = Count(s, "open") + Count(t, "open")
  BY CountConcat
<1>4. Count(s \o t, "close") = Count(s, "close") + Count(t, "close")
  BY CountConcat
<1> QED BY <1>1, <1>2, <1>3, <1>4 DEF Depth

LEMMA CountOne ==
  ASSUME NEW x, NEW p
  PROVE  Count(<<x>>, p) = IF x = p THEN 1 ELSE 0
<1>1. CASE x = p
  <2>1. {i \in DOMAIN <<x>> : <<x>>[i] = p} = {1}
    BY <1>1
  <2> QED BY <2>1, <1>1, FS_Singleton DEF Count
<1>2. CASE x # p
  <2>1. {i \in DOMAIN <<x>> : <<x>>[i] = p} = {}
    BY <1>2
  <2> QED BY <2>1, <1>2, FS_EmptySet DEF Count
<1> QED BY <1>1, <1>2

LEMMA AppendOne ==
  ASSUME NEW S, NEW s \in Seq(S), NEW x \in S
  PROVE  Append(s, x) = s \o <<x>> /\ <<x>> \in Seq(S) /\ Append(s, x) \in Seq(S)
OBVIOUS

LEMMA CountAppend ==
  ASSUME NEW S, NEW s \in Seq(S), NEW x \in S, NEW p
  PROVE  Count(Append(s, x), p) = Count(s, p) + IF x = p THEN 1 ELSE 0
<1>1. Append(s, x) = s \o <<x>> /\ <<x>> \in Seq(S)
  BY AppendOne
<1>2. Count(s \o <<x>>, p) = Count(s, p) + Count(<<x>>, p)
  BY <1>1, CountConcat
<1> QED BY <1>1, <1>2, CountOne

LEMMA DepthOne == Depth(<<"open">>) = 1 /\ Depth(<<"close">>) = -1 /\ Depth(<<"nl">>) = 0
<1>1. Count(<<"open">>, "open") = 1 /\ Count(<<"open">>, "close") = 0
  BY CountOne
<1>2. Count(<<"close">>, "open") = 0 /\ Count(<<"close">>, "close") = 1
  BY CountOne
<1>3. Count(<<"nl">>, "open") = 0 /\ Count(<<"nl">>, "close") = 0
  BY CountOne
<1> QED BY <1>1, <1>2, <1>3 DEF Depth

LEMMA DepthAppend ==
  ASSUME NEW S, NEW s \in Seq(S), NEW x \in S
  PROVE  /\ x = "open" => Depth(Append(s, x)) = Depth(s) + 1
         /\ x = "close" => Depth(Append(s, x)) = Depth(s) - 1
         /\ x = "nl" => Depth(Append(s, x)) = Depth(s)
<1>1. Append(s, x) = s \o <<x>> /\ <<x>> \in Seq(S)
  BY AppendOne
<1>2. Depth(s \o <<x>>) = Depth(s) + Depth(<<x>>)
  BY <1>1, DepthConcat
<1>3. Depth(s) \in Int
  BY CountIsNat
<1> QED BY <1>1, <1>2, <1>3, DepthOne

\* as many marks as Close puts at the end
LEMMA DepthOfCloses ==
  ASSUME NEW n \in Nat, NEW S, "close" \in S
  PROVE  /\ [i \in 1 .. n |-> "close"] \in Seq(S)
         /\ Depth([i \in 1 .. n |-> "close"]) = -n
<1> DEFINE c == [i \in 1 .. n |-> "close"]
<1>1. c \in Seq(S) /\ DOMAIN c = 1 .. n
  OBVIOUS
<1>2. Count(c, "close") = n
  <2>1. {i \in DOMAIN c : c[i] = "close"} = 1 .. n
    BY <1>1
  <2>2. Cardinality(1 .. n) = n
    BY FS_Interval
  <2> QED BY <2>1, <2>2 DEF Count
<1>3. Count(c, "open") = 0
  <2>1. {i \in DOMAIN c : c[i] = "open"} = {}
    BY <1>1
  <2> QED BY <2>1, FS_EmptySet DEF Count
<1> HIDE DEF c
<1>4. Depth(c) = -n
  BY <1>2, <1>3 DEF Depth
<1> QED BY <1>1, <1>4 DEF c
----------------------------------------------------------------------------
(* The methods, on a marker: what they change, and that it stays one.      *)

Part == Parts(Lines) \union {"nl", "open", "close"}
Ids == {l.id : l \in Lines} \union {"", << >>}
Currents == Lines \union {<< >>}
Marker == [text : Seq(Part), level : Nat, opened : BOOLEAN, pend : BOOLEAN,
           cur : Currents, err : BOOLEAN, out : Seq(Part),
           lastLoc : Ids, lastRs : Ids]

\* nothing but the marks on the line kept back
SameBut(n, m) ==
  /\ n.pend = m.pend /\ n.cur = m.cur /\ n.err = m.err /\ n.out = m.out
  /\ n.lastLoc = m.lastLoc /\ n.lastRs = m.lastRs

LEMMA PartFacts ==
  /\ "nl" \in Part /\ "open" \in Part /\ "close" \in Part
  /\ \A l \in Lines : l.text \in Seq(Part)
  /\ \A l \in Lines : Count(l.text, "nl") = 0
<1>1. "nl" \in Part /\ "open" \in Part /\ "close" \in Part
  BY DEF Part
<1>2. \A l \in Lines : l.text \in Seq(Part)
  <2>1. Parts(Lines) \subseteq Part
    BY DEF Part
  <2>2. \A l \in Lines : l.text \in Seq(Parts(Lines))
    BY LinesAssumption
  <2> QED BY <2>1, <2>2, SeqMonotonic
<1>3. ASSUME NEW l \in Lines PROVE Count(l.text, "nl") = 0
  <2>1. l.text \in Seq(Parts(Lines)) /\ "nl" \notin Parts(Lines)
    BY LinesAssumption
  <2>2. {i \in DOMAIN l.text : l.text[i] = "nl"} = {}
    BY <2>1, LenProperties, ElementOfSeq
  <2> QED BY <2>2, FS_EmptySet DEF Count
<1> QED BY <1>1, <1>2, <1>3

LEMMA OpenMarkFacts ==
  ASSUME NEW m \in Marker
  PROVE  /\ OpenMark(m) \in Marker /\ SameBut(OpenMark(m), m)
         /\ OpenMark(m).text = Append(m.text, "open") /\ OpenMark(m).opened = TRUE
         /\ OpenMark(m).level = m.level + 1
<1>1. m.text \in Seq(Part) /\ m.level \in Nat
  BY DEF Marker
<1>2. Append(m.text, "open") \in Seq(Part)
  BY <1>1, PartFacts
<1>3. OpenMark(m) \in Marker
  <2>1. ASSUME NEW t \in Seq(Part), NEW l \in Nat
        PROVE  [m EXCEPT !.level = l, !.text = t, !.opened = TRUE] \in Marker
    BY DEF Marker
  <2>2. OpenMark(m) = [m EXCEPT !.level = m.level + 1, !.text = Append(m.text, "open"),
                                !.opened = TRUE]
    BY DEF OpenMark
  <2>3. m.level + 1 \in Nat
    BY <1>1
  <2> QED BY <1>2, <2>1, <2>2, <2>3
<1>4. /\ OpenMark(m).text = Append(m.text, "open") /\ OpenMark(m).opened = TRUE
      /\ OpenMark(m).level = m.level + 1
  BY DEF OpenMark, Marker
<1>5. SameBut(OpenMark(m), m)
  BY DEF OpenMark, SameBut, Marker
<1> QED BY <1>3, <1>4, <1>5

\* A text that is cut begins as before, and no mark opens in it.
\* A text is cut where its first mark opens.
CutAt(text, k) ==
  /\ k \in 0 .. Len(text) /\ \A i \in 1 .. k : text[i] # "open"
  /\ k = Len(text) \/ text[k + 1] = "open"

LEMMA CutMarksAt ==
  ASSUME NEW S, NEW text \in Seq(S)
  PROVE  \E k : CutAt(text, k) /\ CutMarks(text) = SubSeq(text, 1, k)
<1>1. CASE Contains(text, "open")
  <2> DEFINE I == {i \in 1 .. Len(text) : text[i] = "open"}
             f == Min(I)
  <2>1. I # {} /\ I \subseteq Nat /\ Len(text) \in Nat
    BY <1>1, LenProperties DEF Contains
  <2>2. f \in I /\ \A i \in I : f <= i
    <3> HIDE DEF I
    <3> QED BY <2>1, MinFacts
  <2>3. SelectInSeq(text, LAMBDA p : p = "open") = f
    BY <2>1 DEF SelectInSeq
  <2>4. CutMarks(text) = SubSeq(text, 1, f - 1)
    BY <1>1, <2>3 DEF CutMarks
  <2>5. f \in 1 .. Len(text) /\ text[f] = "open"
    BY <2>2
  <2>6. ASSUME NEW i \in 1 .. f - 1 PROVE text[i] # "open"
    <3>1. i \in 1 .. Len(text) /\ ~(f <= i)
      <4> HIDE DEF f
      <4> QED BY <2>1, <2>5
    <3> QED BY <3>1, <2>2
  <2>7. f - 1 \in 0 .. Len(text) /\ (f - 1) + 1 = f
    <3> HIDE DEF f
    <3> QED BY <2>1, <2>5
  <2> QED BY <2>4, <2>5, <2>6, <2>7 DEF CutAt
<1>2. CASE ~Contains(text, "open")
  <2>1. CutMarks(text) = text /\ text = SubSeq(text, 1, Len(text))
    BY <1>2, SubSeqFull DEF CutMarks
  <2>2. Len(text) \in 0 .. Len(text) /\ \A i \in 1 .. Len(text) : text[i] # "open"
    BY <1>2, LenProperties DEF Contains
  <2> QED BY <2>1, <2>2 DEF CutAt
<1> QED BY <1>1, <1>2

LEMMA CutMarksFacts ==
  ASSUME NEW S, NEW text \in Seq(S)
  PROVE  /\ CutMarks(text) \in Seq(S)
         /\ Count(CutMarks(text), "open") = 0
         /\ \A p : Count(text, p) = 0 => Count(CutMarks(text), p) = 0
<1>1. \E k \in 0 .. Len(text) : /\ CutMarks(text) = SubSeq(text, 1, k)
                                /\ \A i \in 1 .. k : text[i] # "open"
  BY CutMarksAt DEF CutAt
<1>2. PICK k \in 0 .. Len(text) : /\ CutMarks(text) = SubSeq(text, 1, k)
                                  /\ \A i \in 1 .. k : text[i] # "open"
  BY <1>1
<1> DEFINE c == SubSeq(text, 1, k)
<1>3. /\ c \in Seq(S) /\ Len(c) = k /\ Len(text) \in Nat
      /\ \A i \in 1 .. k : c[i] = text[i]
  BY LenProperties
<1> HIDE DEF c
<1>4. Count(c, "open") = 0
  <2>1. {i \in DOMAIN c : c[i] = "open"} = {}
    BY <1>2, <1>3, LenProperties
  <2> QED BY <2>1, FS_EmptySet DEF Count
<1>5. ASSUME NEW p, Count(text, p) = 0 PROVE Count(c, p) = 0
  <2>1. Places(text, p) = {}
    <3>1. Cardinality(Places(text, p)) = 0 /\ IsFiniteSet(Places(text, p))
      BY <1>5, CountIsNat
    <3> QED BY <3>1, FS_EmptySet
  <2>2. {i \in DOMAIN c : c[i] = p} = {}
    BY <2>1, <1>3, LenProperties DEF Places
  <2> QED BY <2>2, FS_EmptySet DEF Count
<1> QED BY <1>2, <1>3, <1>4, <1>5 DEF c

LEMMA CloseMarkFacts ==
  ASSUME NEW m \in Marker
  PROVE  /\ CloseMark(m) \in Marker /\ SameBut(CloseMark(m), m) /\ CloseMark(m).opened = FALSE
         /\ m.opened => /\ CloseMark(m).level = m.level
                        /\ CloseMark(m).text = CutMarks(m.text)
         /\ ~m.opened /\ m.level > 0 => /\ CloseMark(m).level = m.level - 1
                                        /\ CloseMark(m).text = Append(m.text, "close")
         /\ ~m.opened /\ m.level = 0 => CloseMark(m) = m
<1>1. m.text \in Seq(Part) /\ m.level \in Nat /\ m.opened \in BOOLEAN
  BY DEF Marker
<1>2. CASE m.opened
  <2>1. CutMarks(m.text) \in Seq(Part)
    BY <1>1, CutMarksFacts
  <2>2. CloseMark(m) = [m EXCEPT !.text = CutMarks(m.text), !.opened = FALSE]
    BY <1>2 DEF CloseMark
  <2>3. ASSUME NEW t \in Seq(Part) PROVE [m EXCEPT !.text = t, !.opened = FALSE] \in Marker
    BY DEF Marker
  <2>4. CloseMark(m) \in Marker
    BY <2>1, <2>2, <2>3
  <2>5. SameBut(CloseMark(m), m)
    BY <2>2 DEF SameBut, Marker
  <2>6. /\ CloseMark(m).opened = FALSE /\ CloseMark(m).level = m.level
        /\ CloseMark(m).text = CutMarks(m.text)
    BY <2>2 DEF Marker
  <2> QED BY <1>2, <2>4, <2>5, <2>6
<1>3. CASE ~m.opened /\ m.level > 0
  <2>1. Append(m.text, "close") \in Seq(Part) /\ m.level - 1 \in Nat
    BY <1>1, <1>3, PartFacts
  <2>2. CloseMark(m) = [m EXCEPT !.level = m.level - 1, !.text = Append(m.text, "close")]
    BY <1>3 DEF CloseMark
  <2>3. ASSUME NEW t \in Seq(Part), NEW l \in Nat
        PROVE  [m EXCEPT !.level = l, !.text = t] \in Marker
    BY DEF Marker
  <2>4. CloseMark(m) \in Marker
    BY <2>1, <2>2, <2>3
  <2>5. SameBut(CloseMark(m), m)
    BY <2>2 DEF SameBut, Marker
  <2>6. /\ CloseMark(m).opened = m.opened /\ CloseMark(m).level = m.level - 1
        /\ CloseMark(m).text = Append(m.text, "close")
    BY <2>2 DEF Marker
  <2> QED BY <1>1, <1>3, <2>4, <2>5, <2>6
<1>4. CASE ~m.opened /\ ~(m.level > 0)
  <2>1. CloseMark(m) = m
    BY <1>4 DEF CloseMark
  <2> QED BY <1>1, <1>4, <2>1 DEF SameBut
<1> QED BY <1>2, <1>3, <1>4

\* what a flush writes
Line(text) == IF text # << >> /\ Last(text) = "nl" THEN text ELSE Append(text, "nl")

LEMMA LineFacts ==
  ASSUME NEW text \in Seq(Part)
  PROVE  /\ Line(text) \in Seq(Part) /\ Depth(Line(text)) = Depth(text)
         /\ Count(text, "nl") = 0 => Line(text) = Append(text, "nl")
<1>1. Append(text, "nl") \in Seq(Part) /\ Depth(Append(text, "nl")) = Depth(text)
  BY PartFacts, DepthAppend
<1>2. ASSUME text # << >>, Last(text) = "nl" PROVE Count(text, "nl") # 0
  <2>1. Len(text) \in 1 .. Len(text)
    BY <1>2, LenProperties
  <2>2. Len(text) \in Places(text, "nl")
    BY <1>2, <2>1 DEF Places, Last
  <2>3. IsFiniteSet(Places(text, "nl")) /\ Count(text, "nl") = Cardinality(Places(text, "nl"))
    BY CountIsNat
  <2> QED BY <2>2, <2>3, FS_EmptySet
<1> QED BY <1>1, <1>2 DEF Line

LEMMA FlushFacts ==
  ASSUME NEW m \in Marker, NEW ok \in BOOLEAN
  PROVE  LET f == Flush(m, ok)
         IN /\ f \in Marker /\ f.opened = FALSE /\ f.level = m.level
            /\ f.pend = m.pend /\ f.cur = m.cur
            /\ f.lastLoc = m.lastLoc /\ f.lastRs = m.lastRs
            /\ ok => f.text = << >> /\ f.out = m.out \o Line(m.text) /\ f.err = m.err
            /\ ~ok => f.text = Line(m.text) /\ f.out = m.out /\ f.err = TRUE
<1> DEFINE f == Flush(m, ok)
           line == Line(m.text)
<1>1. m.text \in Seq(Part) /\ m.out \in Seq(Part)
  BY DEF Marker
<1>2. line \in Seq(Part)
  BY <1>1, LineFacts
<1>3. CASE ok
  <2>1. f = [m EXCEPT !.opened = FALSE, !.text = << >>, !.out = m.out \o line]
    BY <1>3 DEF Flush, Line, Marker
  <2>2. m.out \o line \in Seq(Part) /\ << >> \in Seq(Part)
    BY <1>1, <1>2, ConcatProperties, EmptySeq
  <2>3. ASSUME NEW t \in Seq(Part), NEW o \in Seq(Part)
        PROVE  [m EXCEPT !.opened = FALSE, !.text = t, !.out = o] \in Marker
    BY DEF Marker
  <2> HIDE DEF f, line
  <2>4. f \in Marker
    BY <2>1, <2>2, <2>3
  <2>5. /\ f.opened = FALSE /\ f.level = m.level /\ f.pend = m.pend /\ f.cur = m.cur
        /\ f.lastLoc = m.lastLoc /\ f.lastRs = m.lastRs /\ f.err = m.err
    BY <2>1 DEF Marker
  <2>6. f.text = << >> /\ f.out = m.out \o line
    BY <2>1 DEF Marker
  <2> QED BY <1>3, <2>4, <2>5, <2>6 DEF f, line
<1>4. CASE ~ok
  <2>1. f = [m EXCEPT !.opened = FALSE, !.text = line, !.err = TRUE]
    BY <1>4 DEF Flush, Line, Marker
  <2>2. ASSUME NEW t \in Seq(Part)
        PROVE  [m EXCEPT !.opened = FALSE, !.text = t, !.err = TRUE] \in Marker
    BY DEF Marker
  <2> HIDE DEF f, line
  <2>3. f \in Marker
    BY <1>2, <2>1, <2>2
  <2>4. /\ f.opened = FALSE /\ f.level = m.level /\ f.pend = m.pend /\ f.cur = m.cur
        /\ f.lastLoc = m.lastLoc /\ f.lastRs = m.lastRs
    BY <2>1 DEF Marker
  <2>5. f.text = line /\ f.out = m.out /\ f.err = TRUE
    BY <2>1 DEF Marker
  <2> QED BY <1>4, <2>3, <2>4, <2>5 DEF f, line
<1> QED BY <1>3, <1>4
\* The line kept back is written, and the line scanned kept back instead.
Advanced(n, m) ==
  /\ n.level = m.level /\ n.cur = m.cur /\ n.lastLoc = m.lastLoc /\ n.lastRs = m.lastRs
  /\ n.pend => n.err /\ m.pend
  /\ m.err => n.err
  /\ ~m.pend \/ m.err => n = m
  /\ m.pend /\ ~n.err => /\ n.out = m.out \o Line(m.text) /\ n.text = m.cur.text
                         /\ n.opened = FALSE

LEMMA NextLineFacts ==
  ASSUME NEW m \in Marker, NEW ok \in BOOLEAN, m.pend => m.cur \in Lines
  PROVE  NextLine(m, ok) \in Marker /\ Advanced(NextLine(m, ok), m)
<1> DEFINE n == NextLine(m, ok)
           f == Flush(m, ok)
<1>1. CASE ~m.pend \/ m.err
  <2>1. n = m
    BY <1>1 DEF NextLine
  <2> HIDE DEF n
  <2>2. n.pend => n.err /\ m.pend
    BY <1>1, <2>1
  <2> QED BY <1>1, <2>1, <2>2 DEF n, Advanced
<1>2. CASE ~(~m.pend \/ m.err)
  <2>1. /\ f \in Marker /\ f.opened = FALSE /\ f.level = m.level /\ f.pend = m.pend
        /\ f.cur = m.cur /\ f.lastLoc = m.lastLoc /\ f.lastRs = m.lastRs
        /\ ok => f.text = << >> /\ f.out = m.out \o Line(m.text) /\ f.err = m.err
        /\ ~ok => f.text = Line(m.text) /\ f.out = m.out /\ f.err = TRUE
    BY FlushFacts
  <2>2. CASE ok
    <3>1. n = [f EXCEPT !.text = m.cur.text, !.pend = FALSE]
      BY <1>2, <2>2 DEF NextLine
    <3>2. m.cur.text \in Seq(Part)
      BY <1>2, PartFacts
    <3> HIDE DEF n, f
    <3>3. ASSUME NEW t \in Seq(Part) PROVE [f EXCEPT !.text = t, !.pend = FALSE] \in Marker
      BY <2>1 DEF Marker
    <3>4. n \in Marker
      BY <3>1, <3>2, <3>3
    <3>5. /\ n.level = f.level /\ n.cur = f.cur /\ n.lastLoc = f.lastLoc /\ n.lastRs = f.lastRs
          /\ n.pend = FALSE /\ n.err = f.err /\ n.opened = f.opened /\ n.out = f.out
          /\ n.text = m.cur.text
      BY <2>1, <3>1 DEF Marker
    <3> QED BY <1>2, <2>1, <2>2, <3>4, <3>5 DEF n, Advanced
  <2>3. CASE ~ok
    <3>1. n = f
      BY <1>2, <2>3 DEF NextLine
    <3> HIDE DEF n, f
    <3> QED BY <1>2, <2>1, <2>3, <3>1 DEF n, Advanced
  <2> QED BY <2>2, <2>3
<1> QED BY <1>1, <1>2
----------------------------------------------------------------------------
(* Every fold is closed.                                                   *)

Plain(text) == Count(text, "open") = 0 /\ Count(text, "close") = 0

\* While nothing failed no more folds are open, in what was written and the line
\* kept back, than the level says.
LevelOk(m) == Depth(m.out) + Depth(m.text) <= m.level
\* Marks are only taken back from a line in which none was closed.
OpenedOk(m) == m.opened => Count(m.text, "close") = 0

\* The line scanned is the last one read.
Pending == ms.pend => read # << >> /\ ms.cur = Last(read)
TypeInv ==
  /\ scanners \in SUBSET {"scan", "step"}
  /\ ms \in Marker /\ ended \in BOOLEAN /\ read \in Seq(Lines)
  /\ Pending /\ (ended => ~ms.pend \/ ms.err)

FoldInv ==
  ~ms.err /\ ~Marked =>
    IF ended THEN Depth(ms.out) <= 0
    ELSE LevelOk(ms) /\ Count(ms.text, "close") = 0

LEMMA PlainDepth ==
  ASSUME NEW text, Plain(text)
  PROVE  Depth(text) = 0
BY DEF Plain, Depth

\* A log without marks has only plain lines.
LEMMA PlainLines ==
  ASSUME NEW log \in Seq(Lines), {"open", "close"} \intersect Parts(ToSet(log)) = {}
  PROVE  \A i \in 1 .. Len(log) : Plain(log[i].text)
<1> SUFFICES ASSUME NEW i \in 1 .. Len(log) PROVE Plain(log[i].text)
  OBVIOUS
<1>1. log[i] \in Lines /\ log[i].text \in Seq(Part)
  BY ElementOfSeq, PartFacts
<1>2. ToSet(log[i].text) \subseteq Parts(ToSet(log))
  BY LenProperties DEF Parts, ToSet
<1>3. "open" \notin ToSet(log[i].text) /\ "close" \notin ToSet(log[i].text)
  BY <1>2
<1>4. ASSUME NEW p, p \notin ToSet(log[i].text) PROVE Count(log[i].text, p) = 0
  <2>1. {j \in DOMAIN log[i].text : log[i].text[j] = p} = {}
    BY <1>4 DEF ToSet
  <2> QED BY <2>1, FS_EmptySet DEF Count
<1> QED BY <1>3, <1>4 DEF Plain

LEMMA CloseMarkLevel ==
  ASSUME NEW m \in Marker, LevelOk(m), OpenedOk(m)
  PROVE  LevelOk(CloseMark(m)) /\ OpenedOk(CloseMark(m))
<1> DEFINE c == CloseMark(m)
<1>1. c \in Marker /\ SameBut(c, m) /\ c.opened = FALSE
  BY CloseMarkFacts
<1>2. /\ m.text \in Seq(Part) /\ m.out \in Seq(Part) /\ m.level \in Nat
      /\ m.opened \in BOOLEAN /\ c.out = m.out
  BY <1>1 DEF Marker, SameBut
<1>3. Depth(m.text) \in Int /\ Depth(m.out) \in Int
  BY <1>2, CountIsNat
<1>4. CASE m.opened
  <2>1. c.level = m.level /\ c.text = CutMarks(m.text)
    BY <1>4, CloseMarkFacts
  <2>2. Plain(c.text)
    BY <1>2, <1>4, <2>1, CutMarksFacts DEF Plain, OpenedOk
  <2>3. Depth(c.text) = 0
    BY <2>2, PlainDepth
  <2>4. Depth(m.text) >= 0
    <3>1. Count(m.text, "open") \in Nat
      BY <1>2, CountIsNat
    <3> QED BY <1>4, <3>1 DEF OpenedOk, Depth
  <2> HIDE DEF c
  <2> QED BY <1>1, <1>2, <1>3, <2>1, <2>3, <2>4 DEF LevelOk, OpenedOk, c
<1>5. CASE ~m.opened /\ m.level > 0
  <2>1. c.level = m.level - 1 /\ c.text = Append(m.text, "close")
    BY <1>5, CloseMarkFacts
  <2>2. Depth(c.text) = Depth(m.text) - 1
    BY <1>2, <2>1, PartFacts, DepthAppend
  <2> HIDE DEF c
  <2> QED BY <1>1, <1>2, <1>3, <2>1, <2>2 DEF LevelOk, OpenedOk, c
<1>6. CASE ~m.opened /\ m.level = 0
  <2>1. c = m
    BY <1>6, CloseMarkFacts
  <2> QED BY <1>6, <2>1 DEF OpenedOk
<1> QED BY <1>2, <1>4, <1>5, <1>6

LEMMA OpenMarkLevel ==
  ASSUME NEW m \in Marker, LevelOk(m), Count(m.text, "close") = 0
  PROVE  LevelOk(OpenMark(m)) /\ Count(OpenMark(m).text, "close") = 0
<1> DEFINE c == OpenMark(m)
<1>1. c.out = m.out /\ c.text = Append(m.text, "open") /\ c.level = m.level + 1
  BY OpenMarkFacts DEF SameBut
<1>2. m.text \in Seq(Part) /\ m.out \in Seq(Part) /\ m.level \in Nat
  BY DEF Marker
<1>3. Depth(m.text) \in Int /\ Depth(m.out) \in Int
  BY <1>2, CountIsNat
<1>4. Depth(c.text) = Depth(m.text) + 1
  BY <1>1, <1>2, PartFacts, DepthAppend
<1>5. Count(c.text, "close") = 0
  BY <1>1, <1>2, PartFacts, CountAppend
<1> HIDE DEF c
<1> QED BY <1>1, <1>2, <1>3, <1>4, <1>5 DEF LevelOk, c

LEMMA NextLineLevel ==
  ASSUME NEW m \in Marker, NEW ok \in BOOLEAN, LevelOk(m), ~m.err,
         m.pend, m.cur \in Lines, Plain(m.cur.text), ~NextLine(m, ok).err
  PROVE  LevelOk(NextLine(m, ok)) /\ Plain(NextLine(m, ok).text)
<1> DEFINE n == NextLine(m, ok)
<1>1. /\ n.out = m.out \o Line(m.text) /\ n.text = m.cur.text /\ n.level = m.level
  <2>1. m.pend => m.cur \in Lines
    OBVIOUS
  <2>2. Advanced(n, m)
    BY <2>1, NextLineFacts
  <2>3. ~n.err
    OBVIOUS
  <2> HIDE DEF n
  <2> QED BY <2>2, <2>3 DEF Advanced
<1>2. m.text \in Seq(Part) /\ m.out \in Seq(Part) /\ m.level \in Nat
  BY DEF Marker
<1>3. Line(m.text) \in Seq(Part) /\ Depth(Line(m.text)) = Depth(m.text)
  BY <1>2, LineFacts
<1>4. Depth(n.out) = Depth(m.out) + Depth(m.text)
  BY <1>1, <1>2, <1>3, DepthConcat
<1>5. Depth(n.text) = 0
  BY <1>1, PlainDepth
<1>6. Depth(m.text) \in Int /\ Depth(m.out) \in Int
  BY <1>2, CountIsNat
<1> HIDE DEF n
<1> QED BY <1>1, <1>2, <1>4, <1>5, <1>6 DEF LevelOk, n
----------------------------------------------------------------------------
(* The scanners of lines.                                                  *)

\* What is left of a scan: the line is the same, and its output has failed, or
\* the line took the place of the one before, with as many marks as the level
\* and the output say.
ScannedOk(n, b) ==
  /\ n.cur = b.cur /\ (b.err => n.err)
  /\ ~n.err /\ Plain(b.cur.text) /\ LevelOk(b) /\ Count(b.text, "close") = 0
       => LevelOk(n) /\ Count(n.text, "close") = 0

LEMMA SetLocFacts ==
  ASSUME NEW m \in Marker, NEW id \in Ids
  PROVE  LET n == [m EXCEPT !.lastLoc = id]
         IN /\ n \in Marker /\ n.lastLoc = id /\ n.text = m.text /\ n.level = m.level
            /\ n.opened = m.opened /\ n.pend = m.pend /\ n.cur = m.cur /\ n.err = m.err
            /\ n.out = m.out /\ n.lastRs = m.lastRs
BY DEF Marker

LEMMA LocScanFold ==
  ASSUME NEW m \in Marker, NEW ok \in BOOLEAN, m.pend, ~m.err, m.cur \in Lines
  PROVE  LocScan(m, ok) \in Marker /\ ScannedOk(LocScan(m, ok), m)
<1> DEFINE moved == m.lastLoc # m.cur.id
           closed == IF moved THEN CloseMark(CloseMark(m)) ELSE CloseMark(m)
           n == NextLine(closed, ok)
           first == [OpenMark(n) EXCEPT !.lastLoc = m.cur.id]
           inner == IF moved THEN first ELSE n
           r == LocScan(m, ok)
           Good == Plain(m.cur.text) /\ LevelOk(m) /\ Count(m.text, "close") = 0
<1>1. /\ closed \in Marker /\ closed.cur = m.cur /\ closed.pend /\ ~closed.err
      /\ Good => LevelOk(closed)
  <2>1. CloseMark(m) \in Marker /\ SameBut(CloseMark(m), m)
    BY CloseMarkFacts
  <2>2. Good => LevelOk(CloseMark(m)) /\ OpenedOk(CloseMark(m))
    BY CloseMarkLevel DEF OpenedOk
  <2>3. CloseMark(CloseMark(m)) \in Marker /\ SameBut(CloseMark(CloseMark(m)), CloseMark(m))
    BY <2>1, CloseMarkFacts
  <2>4. Good => LevelOk(CloseMark(CloseMark(m)))
    BY <2>1, <2>2, CloseMarkLevel
  <2> HIDE DEF Good
  <2> QED BY <2>1, <2>2, <2>3, <2>4 DEF SameBut
<1>2. n \in Marker /\ Advanced(n, closed)
  <2> HIDE DEF closed
  <2> QED BY <1>1, NextLineFacts
<1>3. n.cur = m.cur
  <2> HIDE DEF n, closed
  <2> QED BY <1>1, <1>2 DEF Advanced
<1>4. ~n.err /\ Good => LevelOk(n) /\ Plain(n.text)
  <2> HIDE DEF closed
  <2> QED BY <1>1, NextLineLevel
<1>5. ASSUME NEW k \in Marker, LevelOk(k), Count(k.text, "close") = 0
      PROVE  LevelOk(OpenMark(k)) /\ Count(OpenMark(k).text, "close") = 0
  BY <1>5, OpenMarkLevel
<1>6. OpenMark(n) \in Marker /\ SameBut(OpenMark(n), n)
  <2> HIDE DEF n
  <2> QED BY <1>2, OpenMarkFacts
<1>7. m.cur.id \in Ids
  BY DEF Ids
<1>8. /\ first \in Marker /\ first.cur = m.cur /\ first.err = n.err
      /\ first.text = OpenMark(n).text /\ first.level = OpenMark(n).level
      /\ first.out = OpenMark(n).out
  <2> DEFINE o == OpenMark(n)
  <2>1. o \in Marker /\ o.cur = m.cur /\ o.err = n.err
    <3> HIDE DEF n
    <3> QED BY <1>3, <1>6 DEF SameBut
  <2> HIDE DEF o
  <2>2. /\ [o EXCEPT !.lastLoc = m.cur.id] \in Marker
        /\ [o EXCEPT !.lastLoc = m.cur.id].cur = o.cur
        /\ [o EXCEPT !.lastLoc = m.cur.id].err = o.err
        /\ [o EXCEPT !.lastLoc = m.cur.id].text = o.text
        /\ [o EXCEPT !.lastLoc = m.cur.id].level = o.level
        /\ [o EXCEPT !.lastLoc = m.cur.id].out = o.out
    BY <1>7, <2>1, SetLocFacts
  <2> QED BY <2>1, <2>2 DEF o
<1>9. inner \in Marker /\ inner.cur = m.cur /\ inner.err = n.err
  <2> HIDE DEF first, n
  <2> QED BY <1>2, <1>3, <1>8
<1>10. ~n.err /\ Good => LevelOk(inner) /\ Count(inner.text, "close") = 0
  <2> SUFFICES ASSUME ~n.err, Good PROVE LevelOk(inner) /\ Count(inner.text, "close") = 0
    OBVIOUS
  <2>1. LevelOk(n) /\ Count(n.text, "close") = 0
    BY <1>4 DEF Plain
  <2>2. LevelOk(OpenMark(n)) /\ Count(OpenMark(n).text, "close") = 0
    <3> HIDE DEF n
    <3> QED BY <1>2, <1>5, <2>1
  <2>3. LevelOk(first) /\ Count(first.text, "close") = 0
    <3> HIDE DEF first, n
    <3> QED BY <1>8, <2>2 DEF LevelOk
  <2> HIDE DEF first, n
  <2> QED BY <2>1, <2>3
<1>11. r = IF n.err THEN n ELSE OpenMark(inner)
  BY DEF LocScan
<1> HIDE DEF r, inner, n, Good
<1>12. OpenMark(inner) \in Marker /\ SameBut(OpenMark(inner), inner)
  BY <1>9, OpenMarkFacts
<1>13. ~n.err /\ Good => LevelOk(OpenMark(inner)) /\ Count(OpenMark(inner).text, "close") = 0
  BY <1>5, <1>9, <1>10
<1>14. r \in Marker /\ r.cur = m.cur
  BY <1>2, <1>3, <1>9, <1>11, <1>12 DEF SameBut
<1>15. ~r.err => ~n.err
  BY <1>11
<1>16. ~r.err /\ Good => LevelOk(r) /\ Count(r.text, "close") = 0
  BY <1>11, <1>13, <1>15
<1> QED BY <1>14, <1>16 DEF ScannedOk, r, Good

LEMMA RetScanFold ==
  ASSUME NEW m \in Marker, NEW ok \in BOOLEAN, m.pend, ~m.err, m.cur \in Lines
  PROVE  RetScan(m, ok) \in Marker /\ ScannedOk(RetScan(m, ok), m)
<1> DEFINE rs == m.cur.id
           common == Len(LongestCommonPrefix({m.lastRs, rs}))
           shorter == common < Len(m.lastRs)
           longer == common < Len(rs)
           closed == IF shorter THEN CloseMark(m) ELSE m
           n == NextLine(closed, ok)
           inner == IF longer THEN OpenMark(n) ELSE n
           r == RetScan(m, ok)
           Good == Plain(m.cur.text) /\ LevelOk(m) /\ Count(m.text, "close") = 0
<1>1. r = IF rs = m.lastRs THEN m ELSE [inner EXCEPT !.lastRs = rs]
  BY DEF RetScan
<1> HIDE DEF common
<1>2. /\ closed \in Marker /\ closed.cur = m.cur /\ closed.pend /\ ~closed.err
      /\ Good => LevelOk(closed)
  <2> HIDE DEF shorter
  <2>1. CloseMark(m) \in Marker /\ SameBut(CloseMark(m), m)
    BY CloseMarkFacts
  <2>2. Good => LevelOk(CloseMark(m))
    BY CloseMarkLevel DEF OpenedOk
  <2> QED BY <2>1, <2>2 DEF SameBut
<1> HIDE DEF shorter, longer
<1>3. n \in Marker /\ Advanced(n, closed)
  <2> HIDE DEF closed
  <2> QED BY <1>2, NextLineFacts
<1>4. n.cur = m.cur
  <2> HIDE DEF n, closed
  <2> QED BY <1>2, <1>3 DEF Advanced
<1>5. ~n.err /\ Good => LevelOk(n) /\ Plain(n.text)
  <2> HIDE DEF closed
  <2> QED BY <1>2, NextLineLevel
<1> HIDE DEF n
<1>6. OpenMark(n) \in Marker /\ SameBut(OpenMark(n), n)
  BY <1>3, OpenMarkFacts
<1>7. ~n.err /\ Good => LevelOk(OpenMark(n)) /\ Count(OpenMark(n).text, "close") = 0
  BY <1>3, <1>5, OpenMarkLevel DEF Plain
<1>8. /\ inner \in Marker /\ inner.cur = m.cur /\ inner.err = n.err
      /\ ~n.err /\ Good => LevelOk(inner) /\ Count(inner.text, "close") = 0
  <2> HIDE DEF Good
  <2> QED BY <1>3, <1>4, <1>5, <1>6, <1>7 DEF SameBut, Plain
<1> HIDE DEF inner
<1>9. rs \in Ids
  BY DEF Ids
<1> DEFINE s == [inner EXCEPT !.lastRs = rs]
<1>10. /\ s \in Marker /\ s.text = inner.text /\ s.level = inner.level /\ s.cur = inner.cur
       /\ s.err = inner.err /\ s.out = inner.out
  <2> HIDE DEF rs
  <2> QED BY <1>8, <1>9 DEF Marker
<1> HIDE DEF s, Good
<1>11. ~s.err /\ Good => LevelOk(s) /\ Count(s.text, "close") = 0
  BY <1>8, <1>10 DEF LevelOk
<1>12. CASE rs = m.lastRs
  <2>1. r = m
    BY <1>1, <1>12
  <2>2. ScannedOk(m, m)
    BY DEF ScannedOk
  <2> QED BY <2>1, <2>2 DEF r
<1>13. CASE rs # m.lastRs
  <2>1. r = s
    BY <1>1, <1>13 DEF s
  <2>2. ScannedOk(s, m)
    BY <1>8, <1>10, <1>11 DEF ScannedOk, Good
  <2> QED BY <1>10, <2>1, <2>2 DEF r
<1> QED BY <1>12, <1>13

LEMMA ScannedFold ==
  ASSUME NEW m \in Marker, NEW ok \in BOOLEAN, m.pend, ~m.err, m.cur \in Lines,
         scanners \in SUBSET {"scan", "step"}
  PROVE  Scanned(m, ok) \in Marker /\ ScannedOk(Scanned(m, ok), m)
<1>1. CASE m.cur.kind \notin scanners
  <2>1. Scanned(m, ok) = m
    BY <1>1 DEF Scanned
  <2> QED BY <2>1 DEF ScannedOk
<1>2. CASE m.cur.kind = "scan" /\ "scan" \in scanners
  <2>1. Scanned(m, ok) = LocScan(m, ok)
    BY <1>2 DEF Scanned
  <2> QED BY <2>1, LocScanFold
<1>3. CASE m.cur.kind = "step" /\ "step" \in scanners
  <2>1. Scanned(m, ok) = RetScan(m, ok)
    BY <1>3 DEF Scanned
  <2> QED BY <2>1, RetScanFold
<1> QED BY <1>1, <1>2, <1>3
----------------------------------------------------------------------------
(* The worker.                                                             *)

LEMMA NextFold ==
  ASSUME TypeInv, FoldInv, ~ended, NEW ok \in BOOLEAN
  PROVE  LET n == NextLine(ms, ok)
         IN /\ n \in Marker /\ Advanced(n, ms) /\ n.cur = ms.cur
            /\ ~n.err => ~ms.err /\ ~n.pend
            /\ ~n.err /\ ~Marked => LevelOk(n) /\ Count(n.text, "close") = 0
<1> DEFINE n == NextLine(ms, ok)
<1>1. ms \in Marker /\ read \in Seq(Lines) /\ Pending
  BY DEF TypeInv
<1>2. ms.pend => read # << >> /\ ms.cur = Last(read) /\ Len(read) \in 1 .. Len(read)
  BY <1>1, LenProperties, EmptySeq DEF Pending
<1>3. ms.pend => ms.cur \in Lines
  BY <1>1, <1>2, ElementOfSeq DEF Last
<1>4. n \in Marker /\ Advanced(n, ms)
  BY <1>1, <1>3, NextLineFacts
<1>5. ~n.err => ~ms.err /\ ~n.pend
  <2> HIDE DEF n
  <2> QED BY <1>4 DEF Advanced
<1>6. ASSUME ~n.err, ~Marked PROVE LevelOk(n) /\ Count(n.text, "close") = 0
  <2>1. LevelOk(ms) /\ Count(ms.text, "close") = 0
    BY <1>5, <1>6 DEF FoldInv
  <2>2. CASE ms.pend
    <3>1. Plain(ms.cur.text)
      <4>1. \A i \in 1 .. Len(read) : Plain(read[i].text)
        BY <1>1, <1>6, PlainLines DEF Marked
      <4> QED BY <1>2, <2>2, <4>1 DEF Last
    <3>2. LevelOk(n) /\ Plain(n.text)
      <4>1. ~ms.err /\ ms.cur \in Lines
        BY <1>3, <1>5, <1>6, <2>2
      <4> QED BY <1>1, <1>6, <2>1, <2>2, <3>1, <4>1, NextLineLevel
    <3> QED BY <3>2 DEF Plain
  <2>3. CASE ~ms.pend
    <3>1. n = ms
      <4> HIDE DEF n
      <4> QED BY <1>4, <2>3 DEF Advanced
    <3> QED BY <2>1, <3>1
  <2> QED BY <2>2, <2>3
<1>7. n.cur = ms.cur
  <2> HIDE DEF n
  <2> QED BY <1>4 DEF Advanced
<1> QED BY <1>4, <1>5, <1>6, <1>7

\* A longer log has its own marks as well.
LEMMA MarkedStays ==
  ASSUME read \in Seq(Lines), NEW line \in Lines, read' = Append(read, line)
  PROVE  Marked => Marked'
<1>1. ToSet(read) \subseteq ToSet(read')
  <2>1. \A i \in 1 .. Len(read) : i \in 1 .. Len(read') /\ read'[i] = read[i]
    BY LenProperties
  <2>2. DOMAIN read = 1 .. Len(read) /\ DOMAIN read' = 1 .. Len(read')
    BY LenProperties
  <2> QED BY <2>1, <2>2 DEF ToSet
<1>2. Parts(ToSet(read)) \subseteq Parts(ToSet(read'))
  BY <1>1 DEF Parts
<1> QED BY <1>2 DEF Marked

LEMMA ScanLineFold ==
  ASSUME TypeInv, FoldInv, ScanLine
  PROVE  TypeInv' /\ FoldInv'
<1>1. ~ended /\ ended' = ended /\ scanners' = scanners
  BY DEF ScanLine
<1>2. PICK ok1 \in Oks, ok2 \in Oks, line \in Lines :
        /\ ~NextLine(ms, ok1).err
        /\ ms' = Scanned([NextLine(ms, ok1) EXCEPT !.cur = line, !.pend = TRUE], ok2)
        /\ read' = Append(read, line)
  BY DEF ScanLine
<1>3. ok1 \in BOOLEAN /\ ok2 \in BOOLEAN
  BY DEF Oks
<1>4. PICK n : n = NextLine(ms, ok1)
  OBVIOUS
<1>5. /\ n \in Marker /\ ~n.err
      /\ ~Marked => LevelOk(n) /\ Count(n.text, "close") = 0
  BY <1>1, <1>2, <1>3, <1>4, NextFold
<1>6. PICK b : b = [n EXCEPT !.cur = line, !.pend = TRUE]
  OBVIOUS
<1>7. /\ b \in Marker /\ b.cur = line /\ b.pend /\ ~b.err
      /\ b.text = n.text /\ b.out = n.out /\ b.level = n.level
  <2>1. line \in Currents
    BY DEF Currents
  <2> QED BY <1>5, <1>6, <2>1 DEF Marker
<1>8. ms' = Scanned(b, ok2)
  BY <1>2, <1>4, <1>6
<1>9. scanners \in SUBSET {"scan", "step"} /\ read \in Seq(Lines) /\ ended \in BOOLEAN
  BY DEF TypeInv
<1>10. ms' \in Marker /\ ScannedOk(ms', b)
  BY <1>3, <1>7, <1>8, <1>9, ScannedFold
<1>11. TypeInv'
  <2>1. read' \in Seq(Lines) /\ read' # << >> /\ Last(read') = line
    BY <1>2, <1>9 DEF Last
  <2>2. ms'.cur = line
    BY <1>7, <1>10 DEF ScannedOk
  <2>3. Pending'
    BY <2>1, <2>2 DEF Pending
  <2> QED BY <1>1, <1>9, <1>10, <2>1, <2>3 DEF TypeInv
<1>12. FoldInv'
  <2> SUFFICES ASSUME ~ms'.err, ~Marked' PROVE LevelOk(ms') /\ Count(ms'.text, "close") = 0
    BY <1>1 DEF FoldInv
  <2>1. ~Marked
    BY <1>2, <1>9, MarkedStays
  <2>2. LevelOk(b) /\ Count(b.text, "close") = 0
    BY <1>5, <1>7, <2>1 DEF LevelOk
  <2>3. Plain(b.cur.text)
    <3>1. read' \in Seq(Lines) /\ Len(read') \in 1 .. Len(read') /\ read'[Len(read')] = line
      BY <1>2, <1>9
    <3>2. \A i \in 1 .. Len(read') : Plain(read'[i].text)
      BY <3>1, PlainLines DEF Marked
    <3> QED BY <1>7, <3>1, <3>2
  <2> QED BY <1>10, <2>2, <2>3 DEF ScannedOk
<1> QED BY <1>11, <1>12

\* Close ends every fold that the level has.
LEMMA CloseAllFacts ==
  ASSUME NEW m \in Marker
  PROVE  /\ CloseAll(m) \in Marker /\ CloseAll(m).out = m.out /\ CloseAll(m).err = m.err
         /\ CloseAll(m).pend = m.pend /\ CloseAll(m).cur = m.cur
         /\ LevelOk(m) /\ OpenedOk(m) => LevelOk(CloseAll(m)) /\ CloseAll(m).level = 0
<1> DEFINE c == IF m.level > 0 /\ m.opened THEN CloseMark(m) ELSE m
           marks == [i \in 1 .. c.level |-> "close"]
           r == CloseAll(m)
<1>1. r = [c EXCEPT !.text = c.text \o marks, !.level = 0]
  BY DEF CloseAll
<1>2. c \in Marker /\ SameBut(c, m)
  BY CloseMarkFacts DEF SameBut
<1>3. LevelOk(m) /\ OpenedOk(m) => LevelOk(c)
  BY CloseMarkLevel
<1> HIDE DEF c
<1>4. c.level \in Nat /\ c.text \in Seq(Part) /\ c.out \in Seq(Part)
  BY <1>2 DEF Marker
<1>5. marks \in Seq(Part) /\ Depth(marks) = -c.level
  BY <1>4, PartFacts, DepthOfCloses
<1> HIDE DEF marks
<1>6. c.text \o marks \in Seq(Part) /\ Depth(c.text \o marks) = Depth(c.text) - c.level
  <2>1. Depth(c.text) \in Int
    BY <1>4, CountIsNat
  <2> QED BY <1>4, <1>5, <2>1, ConcatProperties, DepthConcat
<1>7. /\ r \in Marker /\ r.text = c.text \o marks /\ r.level = 0 /\ r.out = c.out
      /\ r.err = c.err /\ r.pend = c.pend /\ r.cur = c.cur
  <2> HIDE DEF r
  <2>1. ASSUME NEW t \in Seq(Part)
        PROVE  /\ [c EXCEPT !.text = t, !.level = 0] \in Marker
               /\ [c EXCEPT !.text = t, !.level = 0].text = t
               /\ [c EXCEPT !.text = t, !.level = 0].level = 0
               /\ [c EXCEPT !.text = t, !.level = 0].out = c.out
               /\ [c EXCEPT !.text = t, !.level = 0].err = c.err
               /\ [c EXCEPT !.text = t, !.level = 0].pend = c.pend
               /\ [c EXCEPT !.text = t, !.level = 0].cur = c.cur
    BY <1>2 DEF Marker
  <2> QED BY <1>1, <1>6, <2>1
<1> HIDE DEF r
<1>8. LevelOk(c) => LevelOk(r)
  <2>1. Depth(c.text) \in Int /\ Depth(c.out) \in Int
    BY <1>4, CountIsNat
  <2> QED BY <1>4, <1>6, <1>7, <2>1 DEF LevelOk
<1> QED BY <1>2, <1>3, <1>7, <1>8 DEF SameBut, r

LEMMA FinishFold ==
  ASSUME TypeInv, FoldInv, Finish
  PROVE  TypeInv' /\ FoldInv'
<1>1. ~ended /\ ended' = TRUE /\ scanners' = scanners /\ read' = read
  BY DEF Finish
<1>2. PICK ok1 \in Oks, ok2 \in Oks :
        ms' = Flush(CloseAll([NextLine(ms, ok1) EXCEPT !.pend = NextLine(ms, ok1).err /\ @]), ok2)
  BY DEF Finish
<1>3. ok1 \in BOOLEAN /\ ok2 \in BOOLEAN
  BY DEF Oks
<1>4. PICK n : n = NextLine(ms, ok1)
  OBVIOUS
<1>5. /\ n \in Marker /\ n.cur = ms.cur /\ Advanced(n, ms)
      /\ ~n.err /\ ~Marked => LevelOk(n) /\ Count(n.text, "close") = 0
  BY <1>1, <1>3, <1>4, NextFold
<1>6. PICK p : p = [n EXCEPT !.pend = n.err /\ n.pend]
  OBVIOUS
<1>7. /\ p \in Marker /\ p.err = n.err /\ p.cur = n.cur /\ p.pend = (n.err /\ n.pend)
      /\ p.text = n.text /\ p.out = n.out /\ p.level = n.level /\ p.opened = n.opened
  <2>1. n.err \in BOOLEAN /\ n.pend \in BOOLEAN
    BY <1>5 DEF Marker
  <2>2. PICK q \in BOOLEAN : q = (n.err /\ n.pend)
    BY <2>1
  <2>3. p = [n EXCEPT !.pend = q]
    BY <1>6, <2>2
  <2> HIDE <1>6
  <2> QED BY <1>5, <2>2, <2>3 DEF Marker
<1>8. ms' = Flush(CloseAll(p), ok2)
  BY <1>2, <1>4, <1>6
<1>9. PICK c : c = CloseAll(p)
  OBVIOUS
<1>10. /\ c \in Marker /\ c.out = p.out /\ c.err = p.err /\ c.pend = p.pend /\ c.cur = p.cur
       /\ LevelOk(p) /\ OpenedOk(p) => LevelOk(c) /\ c.level = 0
  BY <1>7, <1>9, CloseAllFacts
<1>11. /\ ms' \in Marker /\ ms'.pend = c.pend /\ ms'.cur = c.cur
       /\ ok2 => ms'.err = c.err /\ ms'.out = c.out \o Line(c.text)
       /\ ~ok2 => ms'.err
  BY <1>3, <1>8, <1>9, <1>10, FlushFacts
<1>12. ms'.pend => ms'.err /\ ms.pend
  <2>1. ms'.pend => n.err /\ n.pend
    BY <1>7, <1>10, <1>11
  <2>2. n.pend => ms.pend
    BY <1>5 DEF Advanced
  <2> QED BY <1>3, <1>7, <1>10, <1>11, <2>1, <2>2
<1>13. TypeInv'
  <2>1. Pending'
    BY <1>1, <1>5, <1>7, <1>10, <1>11, <1>12 DEF TypeInv, Pending
  <2> QED BY <1>1, <1>11, <1>12, <2>1 DEF TypeInv
<1>14. FoldInv'
  <2> SUFFICES ASSUME ~ms'.err, ~Marked' PROVE Depth(ms'.out) <= 0
    BY <1>1 DEF FoldInv
  <2>1. ok2 /\ ~n.err /\ ms'.out = c.out \o Line(c.text)
    BY <1>3, <1>7, <1>10, <1>11
  <2>2. ~Marked
    BY <1>1 DEF Marked
  <2>3. LevelOk(p) /\ OpenedOk(p)
    BY <1>5, <1>7, <2>1, <2>2 DEF LevelOk, OpenedOk
  <2>4. Depth(c.out) + Depth(c.text) <= 0
    BY <1>10, <2>3 DEF LevelOk
  <2>5. c.out \in Seq(Part) /\ c.text \in Seq(Part)
    BY <1>10 DEF Marker
  <2>6. Depth(c.out \o Line(c.text)) = Depth(c.out) + Depth(c.text)
    BY <2>5, LineFacts, DepthConcat
  <2> QED BY <2>1, <2>4, <2>6
<1> QED BY <1>13, <1>14

LEMMA InitFold == Init => TypeInv /\ FoldInv
<1> SUFFICES ASSUME Init PROVE TypeInv /\ FoldInv
  OBVIOUS
<1>1. scanners \in SUBSET {"scan", "step"}
  BY ScanningsAssumption DEF Init
<1>2. ms \in Marker
  <2>1. << >> \in Seq(Part) /\ << >> \in Currents /\ << >> \in Ids
    BY EmptySeq DEF Currents, Ids
  <2>2. PICK e : e = ""
    OBVIOUS
  <2>3. e \in Ids
    BY <2>2 DEF Ids
  <2>4. ms = [text |-> << >>, level |-> 0, opened |-> FALSE, pend |-> FALSE, cur |-> << >>,
              err |-> FALSE, out |-> << >>, lastLoc |-> e, lastRs |-> << >>]
    BY <2>2, Zenon DEF Init
  <2> HIDE <2>2
  <2> QED BY <2>1, <2>3, <2>4 DEF Marker
<1>3. ms.pend = FALSE /\ ms.text = << >> /\ ms.out = << >> /\ ms.level = 0
  BY DEF Init
<1>4. ended = FALSE /\ read = << >>
  BY DEF Init
<1>5. Depth(<< >>) = 0 /\ Count(<< >>, "close") = 0
  BY CountEmpty
<1>6. TypeInv
  <2>1. read \in Seq(Lines) /\ ended \in BOOLEAN
    BY <1>4, EmptySeq
  <2> QED BY <1>1, <1>2, <1>3, <1>4, <2>1 DEF TypeInv, Pending
<1>7. FoldInv
  BY <1>3, <1>4, <1>5 DEF FoldInv, LevelOk
<1> QED BY <1>6, <1>7

LEMMA NextKeepsFold == TypeInv /\ FoldInv /\ [Next]_vars => TypeInv' /\ FoldInv'
<1> SUFFICES ASSUME TypeInv, FoldInv, [Next]_vars PROVE TypeInv' /\ FoldInv'
  OBVIOUS
<1>1. CASE ScanLine
  BY <1>1, ScanLineFold
<1>2. CASE Finish
  BY <1>2, FinishFold
<1>3. CASE UNCHANGED vars
  BY <1>3 DEF vars, TypeInv, FoldInv, Pending, Marked
<1> QED BY <1>1, <1>2, <1>3 DEF Next

LEMMA FoldInvHolds == Spec => [](TypeInv /\ FoldInv)
BY InitFold, NextKeepsFold, PTL DEF Spec
----------------------------------------------------------------------------
(* The parts of two texts put together.                                    *)

LEMMA SubSeqConcat ==
  ASSUME NEW S, NEW s \in Seq(S), NEW t \in Seq(S)
  PROVE  /\ \A a \in 1 .. Len(s) + 1, b \in 0 .. Len(s) : SubSeq(s \o t, a, b) = SubSeq(s, a, b)
         /\ SubSeq(s \o t, Len(s) + 1, Len(s) + Len(t)) = t
<1> DEFINE u == s \o t
<1>1. /\ Len(s) \in Nat /\ Len(t) \in Nat /\ u \in Seq(S) /\ Len(u) = Len(s) + Len(t)
      /\ \A i \in 1 .. Len(s) + Len(t) : u[i] = IF i <= Len(s) THEN s[i] ELSE t[i - Len(s)]
  BY ConcatProperties, LenProperties
<1> HIDE DEF u
<1>2. ASSUME NEW a \in 1 .. Len(s) + 1, NEW b \in 0 .. Len(s)
      PROVE  SubSeq(u, a, b) = SubSeq(s, a, b)
  <2>1. CASE b < a
    <3>1. SubSeq(u, a, b) = << >> /\ SubSeq(s, a, b) = << >>
      BY <1>1, <2>1
    <3> QED BY <3>1
  <2>2. CASE a <= b
    <3>1. \A i \in a .. b : i \in 1 .. Len(s) /\ i \in 1 .. Len(u) /\ u[i] = s[i]
      BY <1>1
    <3>2. \A i \in a .. b : u[i] \in S /\ s[i] \in S
      BY <1>1, <3>1, ElementOfSeq
    <3>3. a \in Int /\ b \in Int
      BY <1>1
    <3>4. /\ SubSeq(u, a, b) \in Seq(S) /\ Len(SubSeq(u, a, b)) = b - a + 1
          /\ \A i \in 1 .. b - a + 1 : SubSeq(u, a, b)[i] = u[a + i - 1]
      BY <2>2, <3>2, <3>3, SubSeqProperties
    <3>5. /\ SubSeq(s, a, b) \in Seq(S) /\ Len(SubSeq(s, a, b)) = b - a + 1
          /\ \A i \in 1 .. b - a + 1 : SubSeq(s, a, b)[i] = s[a + i - 1]
      BY <2>2, <3>2, <3>3, SubSeqProperties
    <3>6. \A i \in 1 .. b - a + 1 : u[a + i - 1] = s[a + i - 1]
      <4>1. \A i \in 1 .. b - a + 1 : a + i - 1 \in a .. b
        BY <1>1
      <4> QED BY <3>1, <4>1
    <3> QED BY <3>4, <3>5, <3>6, SeqEqual
  <2>3. a \in Int /\ b \in Int
    BY <1>1
  <2> QED BY <2>1, <2>2, <2>3
<1>3. SubSeq(u, Len(s) + 1, Len(s) + Len(t)) = t
  <2>1. CASE Len(t) = 0
    <3>1. t = << >>
      BY <2>1, EmptySeq, LenProperties
    <3>2. SubSeq(u, Len(s) + 1, Len(s) + Len(t)) = << >>
      BY <1>1, <2>1
    <3> QED BY <3>1, <3>2
  <2>2. CASE Len(t) # 0
    <3> DEFINE a == Len(s) + 1
               b == Len(s) + Len(t)
    <3>1. a \in Int /\ b \in Int /\ a <= b /\ b - a + 1 = Len(t)
      BY <1>1, <2>2
    <3>2. \A i \in a .. b : i \in 1 .. Len(u)
      BY <1>1
    <3>3. \A i \in a .. b : u[i] \in S
      BY <1>1, <3>2, ElementOfSeq
    <3>4. \A i \in 1 .. Len(t) : u[a + i - 1] = t[i]
      <4> SUFFICES ASSUME NEW i \in 1 .. Len(t) PROVE u[a + i - 1] = t[i]
        OBVIOUS
      <4>1. PICK k : k = a + i - 1
        OBVIOUS
      <4>2. k \in 1 .. Len(s) + Len(t) /\ ~(k <= Len(s)) /\ k - Len(s) = i
        BY <1>1, <4>1
      <4>3. u[k] = t[k - Len(s)]
        BY <1>1, <4>2
      <4> QED BY <4>1, <4>2, <4>3
    <3> HIDE DEF a, b
    <3>5. /\ SubSeq(u, a, b) \in Seq(S) /\ Len(SubSeq(u, a, b)) = b - a + 1
          /\ \A i \in 1 .. b - a + 1 : SubSeq(u, a, b)[i] = u[a + i - 1]
      BY <3>1, <3>3, SubSeqProperties
    <3>6. SubSeq(u, a, b) = t
      BY <3>1, <3>4, <3>5, SeqEqual
    <3> QED BY <3>6 DEF a, b
  <2> QED BY <2>1, <2>2
<1> QED BY <1>1, <1>2, <1>3 DEF u
----------------------------------------------------------------------------
(* Where lines begin in a text: after its i-th line feed, d folds deep.    *)

Starts(text, i, d) ==
  \E p \in 1 .. Len(text) : /\ text[p] = "nl" /\ Count(SubSeq(text, 1, p), "nl") = i
                            /\ Depth(SubSeq(text, 1, p)) = d

LEMMA StartsConcat ==
  ASSUME NEW S, NEW s \in Seq(S), NEW t \in Seq(S), NEW i, NEW d, Starts(s, i, d)
  PROVE  Starts(s \o t, i, d)
<1>1. PICK p \in 1 .. Len(s) : /\ s[p] = "nl" /\ Count(SubSeq(s, 1, p), "nl") = i
                               /\ Depth(SubSeq(s, 1, p)) = d
  BY DEF Starts
<1>2. /\ Len(s) \in Nat /\ Len(t) \in Nat /\ Len(s \o t) = Len(s) + Len(t)
      /\ s \o t \in Seq(S)
      /\ \A j \in 1 .. Len(s) : (s \o t)[j] = s[j]
  BY ConcatProperties, LenProperties
<1>3. SubSeq(s \o t, 1, p) = SubSeq(s, 1, p)
  <2>1. 1 \in 1 .. Len(s) + 1 /\ p \in 0 .. Len(s)
    BY <1>2
  <2> QED BY <2>1, SubSeqConcat
<1>4. p \in 1 .. Len(s \o t)
  BY <1>2
<1> QED BY <1>1, <1>2, <1>3, <1>4 DEF Starts

LEMMA StartsNew ==
  ASSUME NEW S, NEW s \in Seq(S), NEW t \in Seq(S), "nl" \in S, Count(t, "nl") = 0
  PROVE  /\ Starts(s \o Append(t, "nl"), Count(s, "nl") + 1, Depth(s) + Depth(t))
         /\ Count(s \o Append(t, "nl"), "nl") = Count(s, "nl") + 1
<1> DEFINE l == Append(t, "nl")
           u == s \o l
<1>1. /\ l \in Seq(S) /\ Len(l) = Len(t) + 1 /\ Len(t) \in Nat /\ Len(s) \in Nat
      /\ l[Len(t) + 1] = "nl"
  BY LenProperties
<1>2. Count(l, "nl") = 1 /\ Depth(l) = Depth(t)
  BY CountAppend, DepthAppend
<1> HIDE DEF l
<1>3. u \in Seq(S) /\ Len(u) = Len(s) + Len(t) + 1 /\ u[Len(s) + Len(t) + 1] = "nl"
  <2>1. /\ u \in Seq(S) /\ Len(u) = Len(s) + Len(l)
        /\ \A i \in 1 .. Len(s) + Len(l) : u[i] = IF i <= Len(s) THEN s[i] ELSE l[i - Len(s)]
    BY <1>1, ConcatProperties
  <2>2. PICK k : k = Len(s) + Len(t) + 1
    OBVIOUS
  <2>3. /\ k \in 1 .. Len(s) + Len(l) /\ ~(k <= Len(s)) /\ k - Len(s) = Len(t) + 1
        /\ Len(s) + Len(l) = k
    BY <1>1, <2>2
  <2>4. u[k] = l[k - Len(s)]
    BY <2>1, <2>3
  <2> HIDE DEF u
  <2> QED BY <1>1, <2>1, <2>2, <2>3, <2>4
<1>4. Count(u, "nl") = Count(s, "nl") + 1 /\ Depth(u) = Depth(s) + Depth(t)
  BY <1>1, <1>2, CountConcat, DepthConcat
<1> HIDE DEF u
<1>5. SubSeq(u, 1, Len(u)) = u /\ Len(u) \in 1 .. Len(u)
  BY <1>1, <1>3, SubSeqFull
<1>6. Starts(u, Count(s, "nl") + 1, Depth(s) + Depth(t))
  BY <1>3, <1>4, <1>5 DEF Starts
<1> QED BY <1>4, <1>6 DEF u, l

\* After different line feeds different numbers of lines have begun.
LEMMA MoreLines ==
  ASSUME NEW S, NEW text \in Seq(S), NEW p \in 1 .. Len(text), NEW q \in 1 .. Len(text),
         p < q, text[q] = "nl"
  PROVE  Count(SubSeq(text, 1, p), "nl") < Count(SubSeq(text, 1, q), "nl")
<1> DEFINE a == SubSeq(text, 1, p)
           b == SubSeq(text, p + 1, q)
           c == SubSeq(text, 1, q)
<1>1. /\ Len(text) \in Nat /\ a \in Seq(S) /\ b \in Seq(S) /\ c \in Seq(S)
      /\ Len(a) = p /\ Len(b) = q - p /\ Len(c) = q
      /\ \A i \in 1 .. p : a[i] = text[i]
      /\ \A i \in 1 .. q - p : b[i] = text[p + i]
      /\ \A i \in 1 .. q : c[i] = text[i]
  <2>1. Len(text) \in Nat
    BY LenProperties
  <2>2. a \in Seq(S) /\ Len(a) = p /\ \A i \in 1 .. p : a[i] = text[i]
    BY <2>1
  <2>3. c \in Seq(S) /\ Len(c) = q /\ \A i \in 1 .. q : c[i] = text[i]
    BY <2>1
  <2>4. b \in Seq(S) /\ Len(b) = q - p /\ \A i \in 1 .. q - p : b[i] = text[p + i]
    <3>1. \A i \in p + 1 .. q : text[i] \in S
      BY <2>1, ElementOfSeq
    <3>2. p + 1 \in Int /\ q \in Int /\ p + 1 <= q
      BY <2>1
    <3>3. /\ b \in Seq(S) /\ Len(b) = q - (p + 1) + 1
          /\ \A i \in 1 .. q - (p + 1) + 1 : b[i] = text[p + 1 + i - 1]
      BY <3>1, <3>2, SubSeqProperties
    <3> QED BY <2>1, <3>2, <3>3
  <2> QED BY <2>1, <2>2, <2>3, <2>4
<1> HIDE DEF a, b, c
<1>2. c = a \o b
  <2>1. /\ a \o b \in Seq(S) /\ Len(a \o b) = q
        /\ \A i \in 1 .. q : (a \o b)[i] = IF i <= p THEN a[i] ELSE b[i - p]
    <3>1. /\ a \o b \in Seq(S) /\ Len(a \o b) = Len(a) + Len(b)
          /\ \A i \in 1 .. Len(a) + Len(b) : (a \o b)[i] = IF i <= Len(a) THEN a[i] ELSE b[i - Len(a)]
      BY <1>1, ConcatProperties
    <3>2. Len(a) = p /\ Len(a) + Len(b) = q
      BY <1>1
    <3> QED BY <3>1, <3>2
  <2>2. \A i \in 1 .. q : c[i] = (a \o b)[i]
    <3> SUFFICES ASSUME NEW i \in 1 .. q PROVE c[i] = (a \o b)[i]
      OBVIOUS
    <3>1. CASE i <= p
      <4>1. i \in 1 .. p /\ (a \o b)[i] = a[i]
        BY <1>1, <2>1, <3>1
      <4> QED BY <1>1, <4>1
    <3>2. CASE ~(i <= p)
      <4>1. i - p \in 1 .. q - p /\ p + (i - p) = i
        BY <1>1, <3>2
      <4> QED BY <1>1, <2>1, <3>2, <4>1
    <3> QED BY <3>1, <3>2
  <2> QED BY <1>1, <2>1, <2>2, SeqEqual
<1>3. Count(c, "nl") = Count(a, "nl") + Count(b, "nl")
  BY <1>1, <1>2, CountConcat
<1>4. Count(a, "nl") \in Nat /\ Count(b, "nl") \in Nat
  BY <1>1, CountIsNat
<1>5. Count(b, "nl") # 0
  <2>1. q - p \in 1 .. Len(b) /\ b[q - p] = "nl"
    BY <1>1
  <2>2. Places(b, "nl") # {}
    BY <2>1 DEF Places
  <2>3. IsFiniteSet(Places(b, "nl")) /\ Count(b, "nl") = Cardinality(Places(b, "nl"))
    BY <1>1, CountIsNat
  <2> QED BY <2>2, <2>3, FS_EmptySet
<1> QED BY <1>3, <1>4, <1>5 DEF a, c

\* how deep the line begins that FoldMarks!DepthAt chooses
LEMMA StartsOnce ==
  ASSUME NEW S, NEW text \in Seq(S), NEW i, NEW d, Starts(text, i, d)
  PROVE  Depth(SubSeq(text, 1, CHOOSE p \in DOMAIN text :
                                 text[p] = "nl" /\ Count(SubSeq(text, 1, p), "nl") = i)) = d
<1> DEFINE Begin(p) == text[p] = "nl" /\ Count(SubSeq(text, 1, p), "nl") = i
           c == CHOOSE p \in DOMAIN text : Begin(p)
<1>1. DOMAIN text = 1 .. Len(text) /\ Len(text) \in Nat
  BY LenProperties
<1>2. PICK q \in 1 .. Len(text) : Begin(q) /\ Depth(SubSeq(text, 1, q)) = d
  BY DEF Starts
<1>3. c \in 1 .. Len(text) /\ Begin(c)
  BY <1>1, <1>2
<1>4. \A p \in 1 .. Len(text) : Begin(p) => p = q
  <2> SUFFICES ASSUME NEW p \in 1 .. Len(text), Begin(p), p # q PROVE FALSE
    OBVIOUS
  <2>1. /\ SubSeq(text, 1, p) \in Seq(S) /\ SubSeq(text, 1, q) \in Seq(S)
    BY <1>1
  <2>2. i \in Nat
    BY <2>1, CountIsNat
  <2>3. p < q \/ q < p
    BY <1>1
  <2>4. CASE p < q
    BY <1>2, <2>2, <2>4, MoreLines
  <2>5. CASE q < p
    BY <1>2, <2>2, <2>5, MoreLines
  <2> QED BY <2>3, <2>4, <2>5
<1>5. c = q
  <2> HIDE DEF c, Begin
  <2> QED BY <1>3, <1>4
<1> QED BY <1>2, <1>5
----------------------------------------------------------------------------
(* The place before a line of a log.                                       *)

NoPlace == ""
ScansIn(log, n) == {j \in 1 .. n : log[j].kind = "scan"}
PlaceIn(log, i) ==
  IF ScansIn(log, i - 1) = {} THEN NoPlace ELSE log[Max(ScansIn(log, i - 1))].id

LEMMA MaxFacts ==
  ASSUME NEW n \in Nat, NEW I \in SUBSET (1 .. n), I # {}
  PROVE  Max(I) \in I /\ \A i \in I : i <= Max(I)
<1> DEFINE J == {n - i : i \in I}
<1>1. J \in SUBSET Nat /\ J # {}
  <2>1. \A i \in I : n - i \in Nat
    OBVIOUS
  <2>2. PICK i \in I : TRUE
    OBVIOUS
  <2>3. n - i \in J
    BY <2>2
  <2> QED BY <2>1, <2>3
<1>2. Min(J) \in J /\ \A j \in J : Min(J) <= j
  <2> HIDE DEF J
  <2> QED BY <1>1, MinFacts
<1>3. PICK k \in I : Min(J) = n - k
  BY <1>2
<1>4. \A i \in I : i <= k
  <2> SUFFICES ASSUME NEW i \in I PROVE i <= k
    OBVIOUS
  <2>1. n - k <= n - i
    BY <1>2, <1>3
  <2> QED BY <2>1
<1>5. \E m \in I : \A i \in I : m >= i
  BY <1>4
<1>6. Max(I) \in I /\ \A i \in I : Max(I) >= i
  BY <1>5 DEF Max
<1>7. PICK m \in I : m = Max(I) /\ \A i \in I : m >= i
  BY <1>6, Zenon
<1>8. m \in Nat /\ \A i \in I : i \in Nat
  OBVIOUS
<1>9. \A i \in I : i <= m
  BY <1>7, <1>8
<1> QED BY <1>6, <1>7, <1>9

LEMMA PlaceKept ==
  ASSUME NEW log \in Seq(Lines), NEW line \in Lines, NEW i \in 1 .. Len(log) + 1
  PROVE  PlaceIn(Append(log, line), i) = PlaceIn(log, i)
<1> DEFINE more == Append(log, line)
<1>1. Len(log) \in Nat /\ \A j \in 1 .. Len(log) : more[j] = log[j]
  BY LenProperties
<1> HIDE DEF more
<1>2. i - 1 \in Nat /\ \A j \in 1 .. i - 1 : j \in 1 .. Len(log)
  BY <1>1
<1>3. ScansIn(more, i - 1) = ScansIn(log, i - 1)
  BY <1>1, <1>2 DEF ScansIn
<1>4. ASSUME ScansIn(log, i - 1) # {}
      PROVE  more[Max(ScansIn(log, i - 1))] = log[Max(ScansIn(log, i - 1))]
  <2>1. ScansIn(log, i - 1) \in SUBSET (1 .. i - 1)
    BY DEF ScansIn
  <2>2. Max(ScansIn(log, i - 1)) \in 1 .. i - 1
    BY <1>2, <1>4, <2>1, MaxFacts
  <2> QED BY <1>1, <1>2, <2>2
<1>5. PlaceIn(more, i) = PlaceIn(log, i)
  BY <1>3, <1>4 DEF PlaceIn
<1> QED BY <1>5 DEF more

\* after a scan it is the place scanned, and after another line the same as before
LEMMA PlaceAfter ==
  ASSUME NEW log \in Seq(Lines), log # << >>
  PROVE  PlaceIn(log, Len(log) + 1) =
           IF Last(log).kind = "scan" THEN Last(log).id ELSE PlaceIn(log, Len(log))
<1> DEFINE n == Len(log)
           A == ScansIn(log, n)
           B == ScansIn(log, n - 1)
<1>1. n \in Nat /\ n >= 1 /\ Last(log) = log[n] /\ (n + 1) - 1 = n
  BY LenProperties, EmptySeq DEF Last
<1> HIDE DEF n
<1>2. PlaceIn(log, n + 1) = IF A = {} THEN NoPlace ELSE log[Max(A)].id
  BY <1>1 DEF PlaceIn
<1>3. PlaceIn(log, n) = IF B = {} THEN NoPlace ELSE log[Max(B)].id
  BY DEF PlaceIn
<1>4. CASE log[n].kind = "scan"
  <2>1. n \in A /\ A \in SUBSET (1 .. n)
    BY <1>1, <1>4 DEF ScansIn
  <2> HIDE DEF A
  <2>2. Max(A) \in A /\ n <= Max(A)
    BY <1>1, <2>1, MaxFacts
  <2>3. Max(A) = n
    <3>1. PICK m : m = Max(A)
      OBVIOUS
    <3>2. m \in 1 .. n /\ n <= m
      BY <2>1, <2>2, <3>1
    <3> QED BY <1>1, <3>1, <3>2
  <2>4. A # {} /\ log[Max(A)].id = log[n].id
    BY <2>1, <2>3
  <2> QED BY <1>1, <1>2, <1>4, <2>4 DEF n
<1>5. CASE log[n].kind # "scan"
  <2>1. \A j \in 1 .. n : j \in 1 .. n - 1 \/ j = n
    BY <1>1
  <2>2. \A j \in 1 .. n - 1 : j \in 1 .. n
    BY <1>1
  <2>3. A = B
    BY <1>5, <2>1, <2>2 DEF ScansIn
  <2> HIDE DEF A, B
  <2> QED BY <1>1, <1>2, <1>3, <1>5, <2>3 DEF n
<1> QED BY <1>4, <1>5
----------------------------------------------------------------------------
(* Marks that balance.                                                     *)

Balanced(m) == Depth(m.out) + Depth(m.text) = m.level /\ Count(m.text, "nl") = 0

LEMMA OpenMarkBalance ==
  ASSUME NEW m \in Marker, Balanced(m)
  PROVE  Balanced(OpenMark(m))
<1> DEFINE c == OpenMark(m)
<1>1. c.out = m.out /\ c.text = Append(m.text, "open") /\ c.level = m.level + 1
  BY OpenMarkFacts DEF SameBut
<1>2. m.text \in Seq(Part) /\ m.out \in Seq(Part) /\ m.level \in Nat
  BY DEF Marker
<1>3. Depth(m.text) \in Int /\ Depth(m.out) \in Int
  BY <1>2, CountIsNat
<1>4. Depth(c.text) = Depth(m.text) + 1
  BY <1>1, <1>2, PartFacts, DepthAppend
<1>5. Count(c.text, "nl") = Count(m.text, "nl")
  <2>1. Count(Append(m.text, "open"), "nl") = Count(m.text, "nl") + 0
    BY <1>2, PartFacts, CountAppend
  <2>2. Count(m.text, "nl") \in Nat
    BY <1>2, CountIsNat
  <2> QED BY <1>1, <2>1, <2>2
<1> HIDE DEF c
<1> QED BY <1>1, <1>2, <1>3, <1>4, <1>5 DEF Balanced, c

LEMMA CloseMarkBalance ==
  ASSUME NEW m \in Marker, Balanced(m), ~m.opened
  PROVE  /\ Balanced(CloseMark(m)) /\ ~CloseMark(m).opened
         /\ CloseMark(m).level = IF m.level > 0 THEN m.level - 1 ELSE 0
<1> DEFINE c == CloseMark(m)
<1>1. c.out = m.out /\ ~c.opened
  BY CloseMarkFacts DEF SameBut
<1>2. m.text \in Seq(Part) /\ m.out \in Seq(Part) /\ m.level \in Nat
  BY DEF Marker
<1>3. Depth(m.text) \in Int /\ Depth(m.out) \in Int
  BY <1>2, CountIsNat
<1>4. CASE m.level > 0
  <2>1. c.level = m.level - 1 /\ c.text = Append(m.text, "close")
    BY <1>4, CloseMarkFacts
  <2>2. Depth(c.text) = Depth(m.text) - 1
    BY <1>2, <2>1, PartFacts, DepthAppend
  <2>3. Count(c.text, "nl") = Count(m.text, "nl")
    <3>1. Count(Append(m.text, "close"), "nl") = Count(m.text, "nl") + 0
      BY <1>2, PartFacts, CountAppend
    <3>2. Count(m.text, "nl") \in Nat
      BY <1>2, CountIsNat
    <3> QED BY <2>1, <3>1, <3>2
  <2> HIDE DEF c
  <2> QED BY <1>1, <1>2, <1>3, <1>4, <2>1, <2>2, <2>3 DEF Balanced, c
<1>5. CASE m.level = 0
  <2>1. c = m
    BY <1>5, CloseMarkFacts
  <2> QED BY <1>1, <1>5, <2>1
<1> QED BY <1>2, <1>4, <1>5

\* The line kept back is written where it began, as deep as the level says.
LEMMA NextLineBalance ==
  ASSUME NEW m \in Marker, NEW ok \in BOOLEAN, Balanced(m), ~m.err,
         m.pend, m.cur \in Lines, Plain(m.cur.text), ~NextLine(m, ok).err
  PROVE  LET n == NextLine(m, ok)
         IN /\ Balanced(n) /\ ~n.opened /\ n.out = m.out \o Append(m.text, "nl")
            /\ Starts(n.out, Count(m.out, "nl") + 1, m.level)
            /\ Count(n.out, "nl") = Count(m.out, "nl") + 1
            /\ Depth(n.out) = m.level
<1> DEFINE n == NextLine(m, ok)
<1>1. n.out = m.out \o Line(m.text) /\ n.text = m.cur.text /\ n.level = m.level /\ ~n.opened
  <2>1. m.pend => m.cur \in Lines
    OBVIOUS
  <2>2. Advanced(n, m)
    BY <2>1, NextLineFacts
  <2>3. ~n.err
    OBVIOUS
  <2> HIDE DEF n
  <2> QED BY <2>2, <2>3 DEF Advanced
<1>2. m.text \in Seq(Part) /\ m.out \in Seq(Part) /\ m.level \in Nat
  BY DEF Marker
<1>3. Line(m.text) = Append(m.text, "nl")
  BY <1>2, LineFacts DEF Balanced
<1>4. Depth(n.text) = 0 /\ Count(n.text, "nl") = 0
  BY <1>1, PlainDepth, PartFacts
<1>5. Depth(m.out) + Depth(m.text) = m.level /\ Count(m.text, "nl") = 0
  BY DEF Balanced
<1>6. n.out = m.out \o Append(m.text, "nl")
  BY <1>1, <1>3
<1>7. /\ Starts(n.out, Count(m.out, "nl") + 1, m.level)
      /\ Count(n.out, "nl") = Count(m.out, "nl") + 1
  <2>1. /\ Starts(m.out \o Append(m.text, "nl"), Count(m.out, "nl") + 1, Depth(m.out) + Depth(m.text))
        /\ Count(m.out \o Append(m.text, "nl"), "nl") = Count(m.out, "nl") + 1
    BY <1>2, <1>5, PartFacts, StartsNew
  <2> HIDE DEF n
  <2> QED BY <1>5, <1>6, <2>1
<1>8. Depth(n.out) = m.level
  <2>1. Append(m.text, "nl") \in Seq(Part) /\ Depth(Append(m.text, "nl")) = Depth(m.text)
    BY <1>2, PartFacts, DepthAppend
  <2>2. Depth(m.out \o Append(m.text, "nl")) = Depth(m.out) + Depth(Append(m.text, "nl"))
    BY <1>2, <2>1, DepthConcat
  <2> HIDE DEF n
  <2> QED BY <1>5, <1>6, <2>1, <2>2
<1> HIDE DEF n
<1>9. Balanced(n)
  BY <1>1, <1>2, <1>4, <1>8 DEF Balanced
<1> QED BY <1>1, <1>6, <1>7, <1>8, <1>9 DEF n
----------------------------------------------------------------------------
(* The folds follow the places.                                            *)

TwoDeep(m) == m.level = IF m.lastLoc = NoPlace THEN 0 ELSE 2

LEMMA ScanIds == \A l \in Lines : l.kind = "scan" => l.id # NoPlace
BY LinesAssumption, Zenon DEF NoPlace

\* A scan begins in the fold of its place, or outside of all.
LEMMA LocScanPlaces ==
  ASSUME NEW m \in Marker, NEW ok \in BOOLEAN, m.pend, ~m.err, m.cur \in Lines, ~m.opened,
         Plain(m.cur.text), Balanced(m), TwoDeep(m), m.cur.id # NoPlace, ~LocScan(m, ok).err
  PROVE  LET r == LocScan(m, ok)
         IN /\ Balanced(r) /\ TwoDeep(r) /\ r.lastLoc = m.cur.id /\ ~r.pend
            /\ Starts(r.out, Count(m.out, "nl") + 1, IF m.lastLoc = m.cur.id THEN 1 ELSE 0)
            /\ Count(r.out, "nl") = Count(m.out, "nl") + 1
            /\ \E t \in Seq(Part) : r.out = m.out \o t
<1> DEFINE moved == m.lastLoc # m.cur.id
           one == CloseMark(m)
           closed == IF moved THEN CloseMark(one) ELSE one
           n == NextLine(closed, ok)
           first == [OpenMark(n) EXCEPT !.lastLoc = m.cur.id]
           inner == IF moved THEN first ELSE n
           r == LocScan(m, ok)
<1>1. /\ one \in Marker /\ SameBut(one, m) /\ Balanced(one) /\ ~one.opened
      /\ one.level = IF m.level > 0 THEN m.level - 1 ELSE 0
  BY CloseMarkFacts, CloseMarkBalance
<1> HIDE DEF one
<1>2. /\ CloseMark(one) \in Marker /\ SameBut(CloseMark(one), one)
      /\ Balanced(CloseMark(one)) /\ ~CloseMark(one).opened
      /\ CloseMark(one).level = IF one.level > 0 THEN one.level - 1 ELSE 0
  BY <1>1, CloseMarkFacts, CloseMarkBalance
<1>3. /\ closed \in Marker /\ SameBut(closed, m) /\ Balanced(closed) /\ ~closed.opened
      /\ closed.level = IF moved THEN 0 ELSE 1
  <2>1. m.level \in {0, 2} /\ (~moved => m.level = 2)
    BY DEF TwoDeep
  <2>2. one.level = IF m.level = 2 THEN 1 ELSE 0
    BY <1>1, <2>1
  <2>3. CloseMark(one).level = 0
    BY <1>2, <2>1, <2>2
  <2> QED BY <1>1, <1>2, <2>1, <2>2, <2>3 DEF SameBut
<1> HIDE DEF closed
<1>4. closed.pend /\ ~closed.err /\ closed.cur = m.cur /\ closed.out = m.out
      /\ closed.lastLoc = m.lastLoc
  BY <1>3 DEF SameBut
<1>5. n \in Marker /\ Advanced(n, closed)
  BY <1>3, <1>4, NextLineFacts
<1>6. r = IF n.err THEN n ELSE OpenMark(inner)
  BY DEF LocScan, closed, one
<1>7. ~n.err
  <2> HIDE DEF n, inner
  <2> QED BY <1>6
<1>8. /\ Balanced(n) /\ ~n.opened /\ n.out = closed.out \o Append(closed.text, "nl")
      /\ Starts(n.out, Count(closed.out, "nl") + 1, closed.level)
      /\ Count(n.out, "nl") = Count(closed.out, "nl") + 1
  <2>1. Plain(closed.cur.text) /\ closed.cur \in Lines
    BY <1>4
  <2> QED BY <1>3, <1>4, <1>7, <2>1, NextLineBalance
<1> HIDE DEF n
<1>9. /\ n.level = closed.level /\ n.lastLoc = m.lastLoc /\ ~n.pend
  BY <1>4, <1>5, <1>7 DEF Advanced
<1>10. OpenMark(n) \in Marker /\ SameBut(OpenMark(n), n) /\ OpenMark(n).level = n.level + 1
       /\ Balanced(OpenMark(n))
  BY <1>5, <1>8, OpenMarkFacts, OpenMarkBalance
<1>11. /\ first \in Marker /\ Balanced(first) /\ first.level = n.level + 1 /\ first.out = n.out
       /\ first.lastLoc = m.cur.id /\ ~first.pend
  <2> DEFINE o == OpenMark(n)
  <2>1. o \in Marker /\ o.out = n.out /\ o.pend = n.pend
    BY <1>10 DEF SameBut
  <2>2. m.cur.id \in Ids
    BY DEF Ids
  <2> HIDE DEF o
  <2>3. /\ [o EXCEPT !.lastLoc = m.cur.id] \in Marker
        /\ [o EXCEPT !.lastLoc = m.cur.id].lastLoc = m.cur.id
        /\ [o EXCEPT !.lastLoc = m.cur.id].text = o.text
        /\ [o EXCEPT !.lastLoc = m.cur.id].level = o.level
        /\ [o EXCEPT !.lastLoc = m.cur.id].out = o.out
        /\ [o EXCEPT !.lastLoc = m.cur.id].pend = o.pend
    BY <2>1, <2>2, SetLocFacts
  <2> QED BY <1>9, <1>10, <2>1, <2>3 DEF Balanced, o
<1> HIDE DEF first
<1>12. /\ inner \in Marker /\ Balanced(inner) /\ inner.level = 1 /\ inner.out = n.out
       /\ inner.lastLoc = m.cur.id /\ ~inner.pend
  <2>1. n.level = IF moved THEN 0 ELSE 1
    BY <1>3, <1>9
  <2>2. CASE moved
    BY <1>11, <2>1, <2>2
  <2>3. CASE ~moved
    BY <1>5, <1>8, <1>9, <2>1, <2>3
  <2> QED BY <2>2, <2>3
<1> HIDE DEF inner
<1>13. /\ Balanced(OpenMark(inner)) /\ OpenMark(inner).level = 2
       /\ OpenMark(inner).out = n.out /\ OpenMark(inner).lastLoc = m.cur.id
       /\ ~OpenMark(inner).pend
  <2>1. /\ SameBut(OpenMark(inner), inner) /\ OpenMark(inner).level = inner.level + 1
        /\ Balanced(OpenMark(inner))
    BY <1>12, OpenMarkFacts, OpenMarkBalance
  <2> QED BY <1>12, <2>1 DEF SameBut
<1>14. r = OpenMark(inner)
  BY <1>6, <1>7
<1> HIDE DEF r
<1>15. \E t \in Seq(Part) : r.out = m.out \o t
  <2>1. Append(closed.text, "nl") \in Seq(Part)
    BY <1>3, PartFacts DEF Marker
  <2> QED BY <1>4, <1>8, <1>13, <1>14, <2>1
<1>16. /\ Starts(r.out, Count(m.out, "nl") + 1, IF m.lastLoc = m.cur.id THEN 1 ELSE 0)
       /\ Count(r.out, "nl") = Count(m.out, "nl") + 1
  <2>1. closed.level = IF m.lastLoc = m.cur.id THEN 1 ELSE 0
    BY <1>3
  <2> QED BY <1>4, <1>8, <1>13, <1>14, <2>1
<1>17. Balanced(r) /\ TwoDeep(r) /\ r.lastLoc = m.cur.id /\ ~r.pend
  BY <1>13, <1>14 DEF TwoDeep
<1> QED BY <1>15, <1>16, <1>17 DEF r

\* how deep line i of a log begins
Target(log, i) ==
  IF PlaceIn(log, i) = NoPlace THEN 0
  ELSE IF log[i].kind # "scan" THEN 2
  ELSE IF log[i].id = PlaceIn(log, i) THEN 1 ELSE 0
PlacesOk(log, out, n) == \A i \in 1 .. n : Starts(out, i, Target(log, i))

Calm == scanners = {"scan"} /\ Spaced /\ ~ms.err /\ ~Marked
PlaceInv ==
  Calm =>
    /\ PlacesOk(read, ms.out, Taken)
    /\ ~ended => /\ Balanced(ms) /\ TwoDeep(ms)
                 /\ ms.lastLoc = PlaceIn(read, Len(read) + 1)
                 /\ Count(ms.out, "nl") = Taken
                 /\ read = << >> => ~ms.pend /\ ~ms.opened
                 /\ read # << >> => (ms.pend <=> Last(read).kind # "scan")
    /\ ended /\ read # << >> /\ Last(read).kind # "scan" => Depth(ms.out) = 0

LEMMA TargetKept ==
  ASSUME NEW log \in Seq(Lines), NEW line \in Lines, NEW i \in 1 .. Len(log)
  PROVE  Target(Append(log, line), i) = Target(log, i)
<1>1. Append(log, line)[i] = log[i]
  BY LenProperties
<1>2. i \in 1 .. Len(log) + 1
  BY LenProperties
<1>3. PlaceIn(Append(log, line), i) = PlaceIn(log, i)
  BY <1>2, PlaceKept
<1> QED BY <1>1, <1>3 DEF Target

LEMMA PlacesConcat ==
  ASSUME NEW log, NEW s \in Seq(Part), NEW t \in Seq(Part), NEW n, PlacesOk(log, s, n)
  PROVE  PlacesOk(log, s \o t, n)
BY StartsConcat DEF PlacesOk

\* the first thing that both actions do
LEMMA NextPlaces ==
  ASSUME TypeInv, PlaceInv, ~ended, scanners = {"scan"}, Spaced, ~Marked,
         NEW ok \in BOOLEAN, ~NextLine(ms, ok).err
  PROVE  LET n == NextLine(ms, ok)
         IN /\ Balanced(n) /\ TwoDeep(n) /\ n.lastLoc = PlaceIn(read, Len(read) + 1)
            /\ PlacesOk(read, n.out, Len(read)) /\ Count(n.out, "nl") = Len(read)
            /\ read = << >> \/ Last(read).kind # "scan" => ~n.opened
<1> DEFINE n == NextLine(ms, ok)
           N == Len(read)
<1>1. ms \in Marker /\ read \in Seq(Lines) /\ Pending /\ N \in Nat
  BY LenProperties DEF TypeInv
<1>2. ms.pend => read # << >> /\ ms.cur = Last(read) /\ N \in 1 .. N /\ Last(read) = read[N]
  BY <1>1, EmptySeq DEF Pending, Last
<1>3. ms.pend => ms.cur \in Lines
  BY <1>1, <1>2, ElementOfSeq
<1>4. n \in Marker /\ Advanced(n, ms)
  BY <1>1, <1>3, NextLineFacts
<1>5. ~ms.err /\ Calm
  <2>1. ~n.err
    OBVIOUS
  <2> HIDE DEF n
  <2> QED BY <1>4, <2>1 DEF Advanced, Calm
<1>6. /\ PlacesOk(read, ms.out, Taken) /\ Balanced(ms) /\ TwoDeep(ms)
      /\ ms.lastLoc = PlaceIn(read, N + 1) /\ Count(ms.out, "nl") = Taken
      /\ read = << >> => ~ms.pend /\ ~ms.opened
      /\ read # << >> => (ms.pend <=> Last(read).kind # "scan")
  BY <1>5 DEF PlaceInv
<1>7. CASE ms.pend
  <2>1. Taken = N - 1
    BY <1>7 DEF Taken
  <2>2. Plain(ms.cur.text)
    <3>1. \A i \in 1 .. N : Plain(read[i].text)
      BY <1>1, PlainLines DEF Marked
    <3> QED BY <1>2, <1>7, <3>1
  <2>3. /\ Balanced(n) /\ ~n.opened /\ n.out = ms.out \o Append(ms.text, "nl")
        /\ Starts(n.out, Count(ms.out, "nl") + 1, ms.level)
        /\ Count(n.out, "nl") = Count(ms.out, "nl") + 1
    BY <1>1, <1>3, <1>5, <1>6, <1>7, <2>2, NextLineBalance
  <2> HIDE DEF n, N
  <2>4. n.level = ms.level /\ n.lastLoc = ms.lastLoc
    BY <1>4 DEF Advanced
  <2>5. TwoDeep(n)
    BY <1>6, <2>4 DEF TwoDeep
  <2>6. Count(n.out, "nl") = N /\ Starts(n.out, N, ms.level)
    BY <1>1, <1>6, <2>1, <2>3
  <2>7. Target(read, N) = ms.level
    <3>1. Last(read).kind # "scan" /\ read[N].kind # "scan"
      BY <1>2, <1>6, <1>7
    <3>2. PlaceIn(read, N + 1) = PlaceIn(read, N)
      BY <1>1, <1>2, <1>7, <3>1, PlaceAfter DEF N
    <3> QED BY <1>6, <3>1, <3>2 DEF Target, TwoDeep
  <2>8. PlacesOk(read, n.out, N - 1)
    <3>1. ms.out \in Seq(Part) /\ Append(ms.text, "nl") \in Seq(Part)
      BY <1>1, PartFacts DEF Marker
    <3> QED BY <1>6, <2>1, <2>3, <3>1, PlacesConcat
  <2>9. PlacesOk(read, n.out, N)
    <3> SUFFICES ASSUME NEW i \in 1 .. N PROVE Starts(n.out, i, Target(read, i))
      BY DEF PlacesOk
    <3>1. i \in 1 .. N - 1 \/ i = N
      BY <1>1
    <3> QED BY <2>6, <2>7, <2>8, <3>1 DEF PlacesOk
  <2> QED BY <1>6, <2>3, <2>4, <2>5, <2>6, <2>9 DEF n, N
<1>8. CASE ~ms.pend
  <2>1. n = ms
    <3> HIDE DEF n
    <3> QED BY <1>4, <1>8 DEF Advanced
  <2>2. Taken = N
    BY <1>1, <1>8 DEF Taken
  <2>3. read = << >> \/ Last(read).kind # "scan" => ~ms.opened
    BY <1>6, <1>8
  <2> QED BY <1>6, <2>1, <2>2, <2>3
<1> QED BY <1>7, <1>8
LEMMA ScanLinePlaces ==

  ASSUME TypeInv, PlaceInv, ScanLine
  PROVE  PlaceInv'
<1> SUFFICES ASSUME Calm' PROVE PlaceInv'
  BY DEF PlaceInv
<1> DEFINE N == Len(read)
<1>1. ~ended /\ ~ended' /\ scanners' = scanners
  BY DEF ScanLine
<1>2. PICK ok1 \in Oks, ok2 \in Oks, line \in Lines :
        /\ ~NextLine(ms, ok1).err
        /\ ms' = Scanned([NextLine(ms, ok1) EXCEPT !.cur = line, !.pend = TRUE], ok2)
        /\ read' = Append(read, line)
  BY DEF ScanLine
<1>3. ok1 \in BOOLEAN /\ ok2 \in BOOLEAN
  BY DEF Oks
<1>4. ms \in Marker /\ read \in Seq(Lines) /\ N \in Nat /\ Pending
  BY LenProperties DEF TypeInv
<1>5. /\ read' \in Seq(Lines) /\ Len(read') = N + 1 /\ Last(read') = line /\ read' # << >>
      /\ read'[N + 1] = line /\ \A i \in 1 .. N : read'[i] = read[i]
  BY <1>2, <1>4 DEF Last
<1>6. /\ scanners = {"scan"} /\ Spaced /\ ~Marked /\ ~ms'.err /\ ~Marked'
      /\ read # << >> /\ Last(read).kind = "scan" => line.kind # "scan"
  <2>1. ~Marked
    BY <1>2, <1>4, MarkedStays DEF Calm
  <2>2. ASSUME NEW i \in 1 .. N - 1 PROVE read[i].kind = "scan" => read[i + 1].kind # "scan"
    <3>1. i \in 1 .. Len(read') - 1 /\ i \in 1 .. N /\ i + 1 \in 1 .. N
      BY <1>4, <1>5
    <3>2. read'[i].kind = "scan" => read'[i + 1].kind # "scan"
      BY <3>1 DEF Calm, Spaced
    <3> QED BY <1>5, <3>1, <3>2
  <2>3. ASSUME read # << >>, Last(read).kind = "scan" PROVE line.kind # "scan"
    <3>1. N \in 1 .. Len(read') - 1 /\ N \in 1 .. N
      BY <1>4, <1>5, <2>3, EmptySeq
    <3>2. read'[N].kind = "scan" => read'[N + 1].kind # "scan"
      BY <3>1 DEF Calm, Spaced
    <3>3. read'[N] = Last(read)
      BY <1>5, <3>1 DEF Last
    <3> QED BY <1>5, <2>3, <3>2, <3>3
  <2> QED BY <1>1, <2>1, <2>2, <2>3 DEF Calm, Spaced
<1>7. PICK n : n = NextLine(ms, ok1)
  OBVIOUS
<1>8. /\ Balanced(n) /\ TwoDeep(n) /\ n.lastLoc = PlaceIn(read, N + 1)
      /\ PlacesOk(read, n.out, N) /\ Count(n.out, "nl") = N
      /\ read = << >> \/ Last(read).kind # "scan" => ~n.opened
  BY <1>1, <1>2, <1>3, <1>6, <1>7, NextPlaces
<1>9. n \in Marker /\ ~n.err
  <2>1. ms.pend => ms.cur \in Lines
    <3>1. ms.pend => read # << >> /\ ms.cur = Last(read) /\ N \in 1 .. N
      BY <1>4, EmptySeq DEF Pending
    <3> QED BY <1>4, <3>1, ElementOfSeq DEF Last
  <2> QED BY <1>2, <1>3, <1>4, <1>7, <2>1, NextLineFacts
<1>10. PICK b : b = [n EXCEPT !.cur = line, !.pend = TRUE]
  OBVIOUS
<1>11. /\ b \in Marker /\ b.cur = line /\ b.pend /\ ~b.err /\ b.text = n.text /\ b.out = n.out
       /\ b.level = n.level /\ b.opened = n.opened /\ b.lastLoc = n.lastLoc
  <2>1. line \in Currents
    BY DEF Currents
  <2> QED BY <1>9, <1>10, <2>1 DEF Marker
<1>12. ms' = Scanned(b, ok2)
  BY <1>2, <1>7, <1>10
<1>13. Balanced(b) /\ TwoDeep(b)
  BY <1>8, <1>11 DEF Balanced, TwoDeep
<1>14. \A i \in 1 .. N : Target(read', i) = Target(read, i)
  BY <1>2, <1>4, TargetKept
<1>15. PlaceIn(read', N + 1) = b.lastLoc
  <2>1. N + 1 \in 1 .. N + 1
    BY <1>4
  <2> QED BY <1>2, <1>4, <1>8, <1>11, <2>1, PlaceKept
<1>16. PlaceIn(read', Len(read') + 1) = IF line.kind = "scan" THEN line.id ELSE b.lastLoc
  BY <1>5, <1>15, PlaceAfter
<1> HIDE DEF N
<1>17. CASE line.kind = "scan"
  <2>1. ms' = LocScan(b, ok2)
    BY <1>6, <1>11, <1>12, <1>17 DEF Scanned
  <2>2. ~b.opened
    BY <1>6, <1>8, <1>11, <1>17
  <2>3. Plain(b.cur.text) /\ b.cur.id # NoPlace
    <3>1. \A i \in 1 .. Len(read') : Plain(read'[i].text)
      BY <1>5, <1>6, PlainLines DEF Marked
    <3>2. N + 1 \in 1 .. Len(read')
      BY <1>4, <1>5
    <3>3. Plain(line.text)
      BY <1>5, <3>1, <3>2
    <3> QED BY <1>11, <1>17, <3>3, ScanIds
  <2>4. /\ Balanced(ms') /\ TwoDeep(ms') /\ ms'.lastLoc = line.id /\ ~ms'.pend
        /\ Starts(ms'.out, Count(b.out, "nl") + 1, IF b.lastLoc = line.id THEN 1 ELSE 0)
        /\ Count(ms'.out, "nl") = Count(b.out, "nl") + 1
        /\ \E t \in Seq(Part) : ms'.out = b.out \o t
    <3>1. ~LocScan(b, ok2).err
      BY <1>6, <2>1
    <3>2. LET r == LocScan(b, ok2)
          IN /\ Balanced(r) /\ TwoDeep(r) /\ r.lastLoc = b.cur.id /\ ~r.pend
             /\ Starts(r.out, Count(b.out, "nl") + 1, IF b.lastLoc = b.cur.id THEN 1 ELSE 0)
             /\ Count(r.out, "nl") = Count(b.out, "nl") + 1
             /\ \E t \in Seq(Part) : r.out = b.out \o t
      BY <1>3, <1>11, <1>13, <2>2, <2>3, <3>1, LocScanPlaces
    <3> QED BY <1>11, <2>1, <3>2
  <2>5. Taken' = N + 1
    BY <1>4, <1>5, <2>4 DEF Taken
  <2>6. Count(ms'.out, "nl") = N + 1
    BY <1>8, <1>11, <2>4
  <2>7. Target(read', N + 1) = IF b.lastLoc = line.id THEN 1 ELSE 0
    <3>1. line.id # NoPlace
      BY <1>11, <2>3
    <3> QED BY <1>5, <1>15, <1>17, <3>1 DEF Target
  <2>8. PlacesOk(read', ms'.out, N + 1)
    <3> SUFFICES ASSUME NEW i \in 1 .. N + 1 PROVE Starts(ms'.out, i, Target(read', i))
      BY DEF PlacesOk
    <3>1. CASE i = N + 1
      BY <1>8, <1>11, <2>4, <2>7, <3>1
    <3>2. CASE i # N + 1
      <4>1. i \in 1 .. N
        BY <1>4, <3>2
      <4>2. PICK t \in Seq(Part) : ms'.out = b.out \o t
        BY <2>4
      <4>3. Starts(b.out, i, Target(read', i)) /\ b.out \in Seq(Part)
        BY <1>8, <1>11, <1>14, <4>1 DEF PlacesOk, Marker
      <4> QED BY <4>2, <4>3, StartsConcat
    <3> QED BY <3>1, <3>2
  <2>9. ms'.lastLoc = PlaceIn(read', Len(read') + 1)
    BY <1>16, <1>17, <2>4
  <2>10. ms'.pend <=> Last(read').kind # "scan"
    BY <1>5, <1>17, <2>4
  <2> QED BY <1>1, <1>5, <2>4, <2>5, <2>6, <2>8, <2>9, <2>10 DEF PlaceInv
<1>18. CASE line.kind # "scan"
  <2>1. ms' = b
    BY <1>6, <1>11, <1>12, <1>18 DEF Scanned
  <2>2. Taken' = N
    BY <1>4, <1>5, <1>11, <2>1 DEF Taken
  <2>3. PlacesOk(read', ms'.out, N)
    BY <1>8, <1>11, <1>14, <2>1 DEF PlacesOk
  <2>4. ms'.lastLoc = PlaceIn(read', Len(read') + 1)
    BY <1>16, <1>18, <2>1
  <2>5. ms'.pend <=> Last(read').kind # "scan"
    BY <1>5, <1>11, <1>18, <2>1
  <2>6. Balanced(ms') /\ TwoDeep(ms') /\ Count(ms'.out, "nl") = N
    BY <1>8, <1>11, <1>13, <2>1
  <2> QED BY <1>1, <1>5, <2>2, <2>3, <2>4, <2>5, <2>6 DEF PlaceInv
<1> QED BY <1>17, <1>18

\* Close puts a mark for each fold that the level has, if none was just opened.
LEMMA CloseAllBalance ==
  ASSUME NEW m \in Marker, Balanced(m), ~m.opened
  PROVE  Depth(CloseAll(m).out) + Depth(CloseAll(m).text) = 0
<1> DEFINE marks == [i \in 1 .. m.level |-> "close"]
           r == CloseAll(m)
<1>1. r = [m EXCEPT !.text = m.text \o marks, !.level = 0]
  BY DEF CloseAll
<1>2. m.level \in Nat /\ m.text \in Seq(Part) /\ m.out \in Seq(Part)
  BY DEF Marker
<1>3. marks \in Seq(Part) /\ Depth(marks) = -m.level
  BY <1>2, PartFacts, DepthOfCloses
<1> HIDE DEF marks
<1>4. r.text = m.text \o marks /\ r.out = m.out
  <2> HIDE DEF r
  <2> QED BY <1>1 DEF Marker
<1>5. Depth(m.text \o marks) = Depth(m.text) + Depth(marks)
  BY <1>2, <1>3, DepthConcat
<1>6. Depth(m.text) \in Int /\ Depth(m.out) \in Int
  BY <1>2, CountIsNat
<1> HIDE DEF r
<1> QED BY <1>2, <1>3, <1>4, <1>5, <1>6 DEF Balanced, r

LEMMA FinishPlaces ==
  ASSUME TypeInv, PlaceInv, Finish
  PROVE  PlaceInv'
<1> SUFFICES ASSUME Calm' PROVE PlaceInv'
  BY DEF PlaceInv
<1>1. ~ended /\ ended' = TRUE /\ scanners' = scanners /\ read' = read
  BY DEF Finish
<1>2. PICK ok1 \in Oks, ok2 \in Oks :
        ms' = Flush(CloseAll([NextLine(ms, ok1) EXCEPT !.pend = NextLine(ms, ok1).err /\ @]), ok2)
  BY DEF Finish
<1>3. ok1 \in BOOLEAN /\ ok2 \in BOOLEAN
  BY DEF Oks
<1>4. PICK n : n = NextLine(ms, ok1)
  OBVIOUS
<1>5. n \in Marker /\ Advanced(n, ms)
  <2>1. ms \in Marker /\ read \in Seq(Lines) /\ Pending
    BY DEF TypeInv
  <2>2. ms.pend => ms.cur \in Lines
    <3>1. ms.pend => read # << >> /\ ms.cur = Last(read) /\ Len(read) \in 1 .. Len(read)
      BY <2>1, EmptySeq, LenProperties DEF Pending
    <3> QED BY <2>1, <3>1, ElementOfSeq DEF Last
  <2> QED BY <1>3, <1>4, <2>1, <2>2, NextLineFacts
<1>6. PICK p : p = [n EXCEPT !.pend = n.err /\ n.pend]
  OBVIOUS
<1>7. /\ p \in Marker /\ p.err = n.err /\ p.pend = (n.err /\ n.pend)
      /\ p.text = n.text /\ p.out = n.out /\ p.level = n.level /\ p.opened = n.opened
  <2>1. n.err \in BOOLEAN /\ n.pend \in BOOLEAN
    BY <1>5 DEF Marker
  <2>2. PICK q \in BOOLEAN : q = (n.err /\ n.pend)
    BY <2>1
  <2>3. p = [n EXCEPT !.pend = q]
    BY <1>6, <2>2
  <2> HIDE <1>6
  <2> QED BY <1>5, <2>2, <2>3 DEF Marker
<1>8. ms' = Flush(CloseAll(p), ok2)
  BY <1>2, <1>4, <1>6
<1>9. PICK c : c = CloseAll(p)
  OBVIOUS
<1>10. c \in Marker /\ c.out = p.out /\ c.err = p.err /\ c.pend = p.pend
  BY <1>7, <1>9, CloseAllFacts
<1>11. /\ ms'.pend = c.pend
       /\ ok2 => ms'.err = c.err /\ ms'.out = c.out \o Line(c.text)
       /\ ~ok2 => ms'.err
  BY <1>3, <1>8, <1>9, <1>10, FlushFacts
<1>12. ~n.err /\ ms'.out = c.out \o Line(c.text) /\ ~ms'.pend
  BY <1>3, <1>7, <1>10, <1>11 DEF Calm
<1>13. scanners = {"scan"} /\ Spaced /\ ~Marked
  BY <1>1 DEF Calm, Spaced, Marked
<1>14. /\ Balanced(n) /\ PlacesOk(read, n.out, Len(read))
       /\ read = << >> \/ Last(read).kind # "scan" => ~n.opened
  BY <1>1, <1>3, <1>4, <1>12, <1>13, NextPlaces
<1>15. Len(read) \in Nat /\ Taken' = Len(read)
  BY <1>1, <1>12, LenProperties DEF Taken, TypeInv
<1>16. c.out \in Seq(Part) /\ c.text \in Seq(Part)
  BY <1>10 DEF Marker
<1>17. Line(c.text) \in Seq(Part) /\ Depth(Line(c.text)) = Depth(c.text)
  BY <1>16, LineFacts
<1>18. PlacesOk(read', ms'.out, Taken')
  <2>1. PlacesOk(read, c.out, Len(read))
    BY <1>7, <1>10, <1>14
  <2>2. PlacesOk(read, c.out \o Line(c.text), Len(read))
    BY <1>16, <1>17, <2>1, PlacesConcat
  <2> QED BY <1>1, <1>12, <1>15, <2>2
<1>19. ASSUME read # << >>, Last(read).kind # "scan" PROVE Depth(ms'.out) = 0
  <2>1. Balanced(p) /\ ~p.opened
    BY <1>7, <1>14, <1>19 DEF Balanced
  <2>2. Depth(c.out) + Depth(c.text) = 0
    BY <1>7, <1>9, <2>1, CloseAllBalance
  <2>3. Depth(c.out \o Line(c.text)) = Depth(c.out) + Depth(c.text)
    BY <1>16, <1>17, DepthConcat
  <2> QED BY <1>12, <2>2, <2>3
<1> QED BY <1>1, <1>18, <1>19 DEF PlaceInv

LEMMA InitPlaces == Init => PlaceInv
<1> SUFFICES ASSUME Init PROVE PlaceInv
  OBVIOUS
<1>1. /\ ms.pend = FALSE /\ ms.text = << >> /\ ms.out = << >> /\ ms.level = 0
      /\ ms.opened = FALSE
  BY DEF Init
<1>2. ms.lastLoc = NoPlace
  BY Zenon DEF Init, NoPlace
<1>3. ended = FALSE /\ read = << >> /\ Len(read) = 0
  BY DEF Init
<1>4. Depth(<< >>) = 0 /\ Count(<< >>, "nl") = 0
  BY CountEmpty
<1>5. Taken = 0
  BY <1>1, <1>3 DEF Taken
<1>6. PlaceIn(read, Len(read) + 1) = NoPlace
  <2>1. ScansIn(read, (Len(read) + 1) - 1) = {}
    BY <1>3 DEF ScansIn
  <2> QED BY <2>1 DEF PlaceIn
<1>7. PlacesOk(read, ms.out, 0)
  BY DEF PlacesOk
<1>8. Balanced(ms) /\ TwoDeep(ms)
  BY <1>1, <1>2, <1>4 DEF Balanced, TwoDeep
<1> QED BY <1>1, <1>2, <1>3, <1>4, <1>5, <1>6, <1>7, <1>8 DEF PlaceInv

LEMMA NextKeepsPlaces == TypeInv /\ PlaceInv /\ [Next]_vars => PlaceInv'
<1> SUFFICES ASSUME TypeInv, PlaceInv, [Next]_vars PROVE PlaceInv'
  OBVIOUS
<1>1. CASE ScanLine
  BY <1>1, ScanLinePlaces
<1>2. CASE Finish
  BY <1>2, FinishPlaces
<1>3. CASE UNCHANGED vars
  <2>1. Calm' = Calm /\ Taken' = Taken
    BY <1>3 DEF vars, Calm, Spaced, Marked, Taken
  <2> QED BY <1>3, <2>1 DEF vars, PlaceInv
<1> QED BY <1>1, <1>2, <1>3 DEF Next

LEMMA PlaceInvHolds == Spec => []PlaceInv
BY InitPlaces, NextKeepsPlaces, FoldInvHolds, PTL DEF Spec
----------------------------------------------------------------------------
(* The text is kept: the lines of a text, and what they carry.             *)

\* The i-th line feed of a text is at p; no line feed, before the text, is the first.
FeedAt(text, i, p) ==
  IF i = 0 THEN p = 0
  ELSE p \in 1 .. Len(text) /\ text[p] = "nl" /\ Count(SubSeq(text, 1, p), "nl") = i

LEMMA FeedIs ==
  ASSUME NEW S, NEW text \in Seq(S), NEW i \in Nat, NEW p, FeedAt(text, i, p)
  PROVE  Feed(text, i) = p /\ p \in 0 .. Len(text)
<1>1. DOMAIN text = 1 .. Len(text) /\ Len(text) \in Nat
  BY LenProperties
<1>2. CASE i = 0
  BY <1>1, <1>2 DEF FeedAt, Feed
<1>3. CASE i # 0
  <2> DEFINE Begin(q) == text[q] = "nl" /\ Count(SubSeq(text, 1, q), "nl") = i
             c == CHOOSE q \in DOMAIN text : Begin(q)
  <2>1. p \in 1 .. Len(text) /\ Begin(p) /\ Feed(text, i) = c
    BY <1>3 DEF FeedAt, Feed
  <2>2. c \in 1 .. Len(text) /\ Begin(c)
    BY <1>1, <2>1
  <2>3. c < p \/ p < c \/ p = c
    <3> HIDE DEF c
    <3> QED BY <1>1, <2>1, <2>2
  <2>4. CASE c < p
    BY <2>1, <2>2, <2>4, MoreLines
  <2>5. CASE p < c
    BY <2>1, <2>2, <2>5, MoreLines
  <2> QED BY <1>1, <2>1, <2>3, <2>4, <2>5
<1> QED BY <1>2, <1>3

LEMMA FeedAtConcat ==
  ASSUME NEW S, NEW s \in Seq(S), NEW t \in Seq(S), NEW i, NEW p, FeedAt(s, i, p)
  PROVE  FeedAt(s \o t, i, p)
<1>1. CASE i = 0
  BY <1>1 DEF FeedAt
<1>2. CASE i # 0
  <2>1. p \in 1 .. Len(s) /\ s[p] = "nl" /\ Count(SubSeq(s, 1, p), "nl") = i
    BY <1>2 DEF FeedAt
  <2>2. /\ Len(s) \in Nat /\ Len(t) \in Nat /\ Len(s \o t) = Len(s) + Len(t)
        /\ \A j \in 1 .. Len(s) : (s \o t)[j] = s[j]
    BY ConcatProperties, LenProperties
  <2>3. SubSeq(s \o t, 1, p) = SubSeq(s, 1, p)
    <3>1. 1 \in 1 .. Len(s) + 1 /\ p \in 0 .. Len(s)
      BY <2>1, <2>2
    <3> QED BY <3>1, SubSeqConcat
  <2>4. p \in 1 .. Len(s \o t)
    BY <2>1, <2>2
  <2> QED BY <1>2, <2>1, <2>2, <2>3, <2>4 DEF FeedAt
<1> QED BY <1>1, <1>2

\* A text that ends with its n-th line feed.
LEMMA CountOfFeed ==
  ASSUME NEW S, NEW s \in Seq(S), NEW n \in Nat, FeedAt(s, n, Len(s))
  PROVE  Count(s, "nl") = n
<1>1. CASE n = 0
  <2>1. s = << >>
    BY <1>1, EmptySeq, LenProperties DEF FeedAt
  <2> QED BY <1>1, <2>1, CountEmpty
<1>2. CASE n # 0
  <2>1. SubSeq(s, 1, Len(s)) = s
    BY SubSeqFull
  <2> QED BY <1>2, <2>1 DEF FeedAt
<1> QED BY <1>1, <1>2

LEMMA FeedAtEnd ==
  ASSUME NEW S, NEW s \in Seq(S), NEW t \in Seq(S), "nl" \in S, NEW n \in Nat,
         FeedAt(s, n, Len(s)), Count(t, "nl") = 0
  PROVE  LET u == s \o Append(t, "nl") IN FeedAt(u, n + 1, Len(u)) /\ Len(u) = Len(s) + Len(t) + 1
<1> DEFINE l == Append(t, "nl")
           u == s \o l
<1>1. /\ l \in Seq(S) /\ Len(l) = Len(t) + 1 /\ Len(t) \in Nat /\ Len(s) \in Nat
      /\ l[Len(t) + 1] = "nl"
  BY LenProperties
<1>2. Count(u, "nl") = n + 1
  BY StartsNew, CountOfFeed
<1> HIDE DEF l
<1>3. u \in Seq(S) /\ Len(u) = Len(s) + Len(t) + 1 /\ u[Len(u)] = "nl"
  <2>1. /\ u \in Seq(S) /\ Len(u) = Len(s) + Len(l)
        /\ \A i \in 1 .. Len(s) + Len(l) : u[i] = IF i <= Len(s) THEN s[i] ELSE l[i - Len(s)]
    BY <1>1, ConcatProperties
  <2> HIDE DEF u
  <2>2. PICK k : k = Len(u)
    OBVIOUS
  <2>3. /\ k \in 1 .. Len(s) + Len(l) /\ ~(k <= Len(s)) /\ k - Len(s) = Len(t) + 1
        /\ Len(s) + Len(l) = k /\ k = Len(s) + Len(t) + 1
    BY <1>1, <2>1, <2>2
  <2>4. u[k] = l[k - Len(s)]
    BY <2>1, <2>3
  <2> QED BY <1>1, <2>1, <2>2, <2>3, <2>4
<1> HIDE DEF u
<1>4. SubSeq(u, 1, Len(u)) = u /\ Len(u) \in 1 .. Len(u)
  BY <1>1, <1>3, SubSeqFull
<1>5. FeedAt(u, n + 1, Len(u))
  <2>1. n + 1 # 0
    OBVIOUS
  <2> QED BY <1>2, <1>3, <1>4, <2>1 DEF FeedAt
<1> QED BY <1>3, <1>5 DEF u, l

Marks == {"open", "close"}

LEMMA CutAtOnce ==
  ASSUME NEW S, NEW s \in Seq(S), NEW T, NEW t \in Seq(T), NEW k, NEW j, CutAt(s, k), CutAt(t, j),
         Len(t) <= Len(s), \A i \in 1 .. Len(t) : s[i] = t[i], k < Len(t)
  PROVE  j = k
<1>1. Len(s) \in Nat /\ Len(t) \in Nat /\ k \in Nat /\ j \in Nat
  BY LenProperties DEF CutAt
<1>2. ~(j < k)
  <2> SUFFICES ASSUME j < k PROVE FALSE
    OBVIOUS
  <2>1. j + 1 \in 1 .. k /\ j + 1 \in 1 .. Len(t) /\ j # Len(t)
    BY <1>1
  <2>2. t[j + 1] = "open" /\ s[j + 1] # "open"
    BY <2>1 DEF CutAt
  <2> QED BY <2>1, <2>2
<1>3. ~(k < j)
  <2> SUFFICES ASSUME k < j PROVE FALSE
    OBVIOUS
  <2>1. k + 1 \in 1 .. j /\ k + 1 \in 1 .. Len(t) /\ k # Len(s)
    BY <1>1
  <2>2. s[k + 1] = "open" /\ t[k + 1] # "open"
    BY <2>1 DEF CutAt
  <2> QED BY <2>1, <2>2
<1> QED BY <1>1, <1>2, <1>3

LEMMA CutIs ==
  ASSUME NEW S, NEW text \in Seq(S), NEW k, CutAt(text, k)
  PROVE  CutMarks(text) = SubSeq(text, 1, k)
<1>1. PICK j : CutAt(text, j) /\ CutMarks(text) = SubSeq(text, 1, j)
  BY CutMarksAt
<1>2. Len(text) \in Nat /\ k \in 0 .. Len(text) /\ j \in 0 .. Len(text)
  BY <1>1, LenProperties DEF CutAt
<1>3. CASE k < Len(text)
  BY <1>1, <1>2, <1>3, CutAtOnce
<1>4. CASE j < Len(text)
  BY <1>1, <1>2, <1>4, CutAtOnce
<1>5. CASE k = Len(text) /\ j = Len(text)
  BY <1>1, <1>5
<1> QED BY <1>2, <1>3, <1>4, <1>5

LEMMA CutConcat ==
  ASSUME NEW S, NEW s \in Seq(S), NEW t \in Seq(S)
  PROVE  CutMarks(s \o t) = CutMarks(s) \/ CutMarks(s \o t) = s \o CutMarks(t)
<1>1. PICK k : CutAt(s, k) /\ CutMarks(s) = SubSeq(s, 1, k)
  BY CutMarksAt
<1>2. PICK j : CutAt(t, j) /\ CutMarks(t) = SubSeq(t, 1, j)
  BY CutMarksAt
<1> DEFINE u == s \o t
<1>3. /\ Len(s) \in Nat /\ Len(t) \in Nat /\ u \in Seq(S) /\ Len(u) = Len(s) + Len(t)
      /\ \A i \in 1 .. Len(s) + Len(t) : u[i] = IF i <= Len(s) THEN s[i] ELSE t[i - Len(s)]
  BY ConcatProperties, LenProperties
<1>4. k \in 0 .. Len(s) /\ j \in 0 .. Len(t)
  BY <1>1, <1>2 DEF CutAt
<1>5. CASE k < Len(s)
  <2>1. SubSeq(u, 1, k) = SubSeq(s, 1, k)
    <3>1. 1 \in 1 .. Len(s) + 1
      BY <1>3
    <3> QED BY <1>4, <3>1, SubSeqConcat
  <2> HIDE DEF u
  <2>2. \A i \in 1 .. k + 1 : u[i] = s[i]
    BY <1>3, <1>4, <1>5
  <2>3. \A i \in 1 .. k : u[i] # "open"
    <3>1. \A i \in 1 .. k : i \in 1 .. k + 1
      BY <1>3, <1>4
    <3> QED BY <1>1, <2>2, <3>1 DEF CutAt
  <2>4. u[k + 1] = "open"
    <3>1. k + 1 \in 1 .. k + 1 /\ k # Len(s)
      BY <1>3, <1>4, <1>5
    <3> QED BY <1>1, <2>2, <3>1 DEF CutAt
  <2>5. k \in 0 .. Len(u)
    BY <1>3, <1>4
  <2>6. CutMarks(u) = SubSeq(u, 1, k)
    BY <1>3, <2>3, <2>4, <2>5, CutIs DEF CutAt
  <2> QED BY <1>1, <2>1, <2>6 DEF u
<1>6. CASE k = Len(s)
  <2> DEFINE c == CutMarks(t)
             v == s \o c
             n == Len(s) + j
  <2>1. c \in Seq(S) /\ Len(c) = j /\ \A i \in 1 .. j : c[i] = t[i]
    BY <1>2, <1>3, <1>4
  <2> HIDE DEF c
  <2>2. /\ v \in Seq(S) /\ Len(v) = n
        /\ \A i \in 1 .. n : v[i] = IF i <= Len(s) THEN s[i] ELSE c[i - Len(s)]
    BY <2>1, ConcatProperties
  <2> HIDE DEF u, v
  <2>3. n \in 0 .. Len(u) /\ n \in Nat
    BY <1>3, <1>4
  <2>4. ASSUME NEW i \in 1 .. n PROVE u[i] = v[i] /\ u[i] # "open"
    <3>1. i \in 1 .. Len(s) + Len(t)
      BY <1>3, <1>4
    <3>2. CASE i <= Len(s)
      <4>1. u[i] = s[i] /\ v[i] = s[i] /\ i \in 1 .. k
        BY <1>3, <1>6, <2>2, <3>1, <3>2
      <4> QED BY <1>1, <4>1 DEF CutAt
    <3>3. CASE ~(i <= Len(s))
      <4>1. u[i] = t[i - Len(s)] /\ v[i] = c[i - Len(s)]
        BY <1>3, <2>2, <3>1, <3>3
      <4>2. i - Len(s) \in 1 .. j
        BY <1>3, <1>4, <3>3
      <4> QED BY <1>2, <2>1, <4>1, <4>2 DEF CutAt
    <3> QED BY <3>2, <3>3
  <2>5. n = Len(u) \/ u[n + 1] = "open"
    <3>1. CASE j = Len(t)
      BY <1>3, <3>1
    <3>2. CASE j # Len(t)
      <4>1. PICK q : q = n + 1
        OBVIOUS
      <4>2. q \in 1 .. Len(s) + Len(t) /\ ~(q <= Len(s)) /\ q - Len(s) = j + 1
        BY <1>3, <1>4, <3>2, <4>1
      <4>3. u[q] = t[q - Len(s)] /\ t[j + 1] = "open"
        BY <1>2, <1>3, <3>2, <4>2 DEF CutAt
      <4> QED BY <4>1, <4>2, <4>3
    <3> QED BY <3>1, <3>2
  <2>6. CutMarks(u) = SubSeq(u, 1, n)
    <3> HIDE DEF n
    <3> QED BY <1>3, <2>3, <2>4, <2>5, CutIs DEF CutAt
  <2>7. SubSeq(u, 1, n) = v
    <3> HIDE DEF n
    <3>1. SubSeq(u, 1, n) \in Seq(S) /\ Len(SubSeq(u, 1, n)) = n
          /\ \A i \in 1 .. n : SubSeq(u, 1, n)[i] = u[i]
      BY <1>3, <2>3
    <3> QED BY <2>2, <2>4, <3>1, SeqEqual
  <2> QED BY <2>6, <2>7 DEF u, v, c
<1> QED BY <1>3, <1>4, <1>5, <1>6

\* What carries a line carries it with marks behind it, and when marks are
\* taken back.
LEMMA CarriesMore ==
  ASSUME NEW S, NEW text \in Seq(S), NEW line \in Seq(S), NEW marks \in Seq(Marks), Marks \subseteq S,
         Carries(text, line)
  PROVE  Carries(text \o marks, line)
<1>1. PICK kept \in {line, CutMarks(line)} :
        /\ Len(kept) <= Len(text) /\ SubSeq(text, 1, Len(kept)) = kept
        /\ \A i \in Len(kept) + 1 .. Len(text) : text[i] \in {"open", "close"}
  BY DEF Carries
<1>2. kept \in Seq(S)
  BY CutMarksFacts
<1> DEFINE u == text \o marks
<1>3. marks \in Seq(S)
  BY SeqMonotonic
<1>4. /\ Len(text) \in Nat /\ Len(marks) \in Nat /\ Len(kept) \in Nat
      /\ u \in Seq(S) /\ Len(u) = Len(text) + Len(marks)
      /\ \A i \in 1 .. Len(text) + Len(marks) :
           u[i] = IF i <= Len(text) THEN text[i] ELSE marks[i - Len(text)]
  BY <1>2, <1>3, ConcatProperties, LenProperties
<1>5. SubSeq(u, 1, Len(kept)) = kept
  <2>1. 1 \in 1 .. Len(text) + 1 /\ Len(kept) \in 0 .. Len(text)
    BY <1>1, <1>4
  <2> QED BY <1>1, <1>3, <2>1, SubSeqConcat
<1> HIDE DEF u
<1>6. ASSUME NEW i \in Len(kept) + 1 .. Len(u) PROVE u[i] \in {"open", "close"}
  <2>1. i \in 1 .. Len(text) + Len(marks)
    BY <1>4
  <2>2. CASE i <= Len(text)
    <3>1. u[i] = text[i] /\ i \in Len(kept) + 1 .. Len(text)
      BY <1>4, <2>1, <2>2
    <3> QED BY <1>1, <3>1
  <2>3. CASE ~(i <= Len(text))
    <3>1. u[i] = marks[i - Len(text)] /\ i - Len(text) \in 1 .. Len(marks)
      BY <1>4, <2>1, <2>3
    <3> QED BY <3>1, ElementOfSeq DEF Marks
  <2> QED BY <2>2, <2>3
<1>7. Len(kept) <= Len(u)
  BY <1>1, <1>4
<1> QED BY <1>5, <1>6, <1>7 DEF Carries, u

LEMMA CarriesItself ==
  ASSUME NEW S, NEW line \in Seq(S)
  PROVE  Carries(line, line)
<1>1. Len(line) \in Nat /\ SubSeq(line, 1, Len(line)) = line
  BY LenProperties, SubSeqFull
<1> QED BY <1>1 DEF Carries

LEMMA CarriesCut ==
  ASSUME NEW S, NEW text \in Seq(S), NEW line \in Seq(S), Carries(text, line)
  PROVE  Carries(CutMarks(text), line)
<1>1. PICK kept \in {line, CutMarks(line)} :
        /\ Len(kept) <= Len(text) /\ SubSeq(text, 1, Len(kept)) = kept
        /\ \A i \in Len(kept) + 1 .. Len(text) : text[i] \in {"open", "close"}
  BY DEF Carries
<1>2. kept \in Seq(S)
  BY CutMarksFacts
<1>3. PICK k : CutAt(text, k) /\ CutMarks(text) = SubSeq(text, 1, k)
  BY CutMarksAt
<1> DEFINE c == CutMarks(text)
<1>4. Len(text) \in Nat /\ Len(kept) \in Nat /\ k \in 0 .. Len(text)
  BY <1>2, <1>3, LenProperties DEF CutAt
<1>5. c \in Seq(S) /\ Len(c) = k /\ \A i \in 1 .. k : c[i] = text[i]
  BY <1>3, <1>4
<1>6. \A i \in 1 .. Len(kept) : kept[i] = text[i]
  <2>1. Len(kept) \in 0 .. Len(text)
    BY <1>1, <1>4
  <2>2. \A i \in 1 .. Len(kept) : SubSeq(text, 1, Len(kept))[i] = text[i]
    BY <1>4, <2>1
  <2> QED BY <1>1, <2>2
<1> HIDE DEF c
<1>7. CASE Len(kept) <= k
  <2>1. Len(kept) \in 0 .. Len(c)
    BY <1>4, <1>5, <1>7
  <2>2. /\ SubSeq(c, 1, Len(kept)) \in Seq(S) /\ Len(SubSeq(c, 1, Len(kept))) = Len(kept)
        /\ \A i \in 1 .. Len(kept) : SubSeq(c, 1, Len(kept))[i] = c[i]
    BY <1>5, <2>1
  <2>3. \A i \in 1 .. Len(kept) : i \in 1 .. k
    BY <1>4, <1>7
  <2>4. SubSeq(c, 1, Len(kept)) = kept
    BY <1>2, <1>5, <1>6, <2>2, <2>3, SeqEqual
  <2>5. \A i \in Len(kept) + 1 .. Len(c) : c[i] \in {"open", "close"}
    <3>1. \A i \in Len(kept) + 1 .. Len(c) : i \in 1 .. k /\ i \in Len(kept) + 1 .. Len(text)
      BY <1>4, <1>5
    <3> QED BY <1>1, <1>5, <3>1
  <2> QED BY <1>5, <1>7, <2>4, <2>5 DEF Carries, c
<1>8. CASE k < Len(kept)
  <2>1. PICK j : CutAt(kept, j) /\ CutMarks(kept) = SubSeq(kept, 1, j)
    BY <1>2, CutMarksAt
  <2>2. j = k
    <3>1. \A i \in 1 .. Len(kept) : text[i] = kept[i]
      BY <1>6
    <3> QED BY <1>1, <1>2, <1>3, <1>8, <2>1, <3>1, CutAtOnce
  <2>3. kept = line
    <3> SUFFICES ASSUME kept = CutMarks(line) PROVE FALSE
      OBVIOUS
    <3>1. kept[k + 1] = "open"
      BY <1>8, <2>1, <2>2, <1>4 DEF CutAt
    <3>2. PICK l : CutAt(line, l) /\ CutMarks(line) = SubSeq(line, 1, l)
      BY CutMarksAt
    <3>3. l \in 0 .. Len(line) /\ Len(line) \in Nat
      BY <3>2, LenProperties DEF CutAt
    <3>4. Len(kept) = l /\ \A i \in 1 .. l : kept[i] = line[i]
      BY <3>2, <3>3
    <3>5. k + 1 \in 1 .. l
      BY <1>4, <1>8, <3>3, <3>4
    <3> QED BY <3>1, <3>2, <3>4, <3>5 DEF CutAt
  <2>4. CutMarks(line) = c
    <3>1. SubSeq(kept, 1, k) \in Seq(S) /\ Len(SubSeq(kept, 1, k)) = k
          /\ \A i \in 1 .. k : SubSeq(kept, 1, k)[i] = kept[i]
      BY <1>2, <1>4, <1>8
    <3>2. \A i \in 1 .. k : i \in 1 .. Len(kept)
      BY <1>4, <1>8
    <3>3. SubSeq(kept, 1, k) = c
      BY <1>5, <1>6, <3>1, <3>2, SeqEqual
    <3> QED BY <2>1, <2>2, <2>3, <3>3
  <2>5. SubSeq(c, 1, Len(c)) = c
    BY <1>5, SubSeqFull
  <2>6. \A i \in Len(c) + 1 .. Len(c) : c[i] \in {"open", "close"}
    <3>1. Len(c) + 1 .. Len(c) = {}
      BY <1>4, <1>5
    <3> QED BY <3>1
  <2>7. Len(c) <= Len(c)
    BY <1>4, <1>5
  <2>8. Carries(c, line)
    BY <2>4, <2>5, <2>6, <2>7 DEF Carries
  <2> QED BY <2>8 DEF c
<1> QED BY <1>4, <1>7, <1>8

\* The text is n whole lines, which carry the first n that f has.
Whole(text, n, f) ==
  /\ FeedAt(text, n, Len(text))
  /\ \A i \in 0 .. n - 1 : \E p, q : /\ FeedAt(text, i, p) /\ FeedAt(text, i + 1, q)
                                     /\ Carries(SubSeq(text, p + 1, q - 1), f[i])

LEMMA WholeEmpty == ASSUME NEW f PROVE Whole(<< >>, 0, f)
<1>1. FeedAt(<< >>, 0, Len(<< >>))
  BY DEF FeedAt
<1>2. 0 .. 0 - 1 = {}
  OBVIOUS
<1> QED BY <1>1, <1>2 DEF Whole

LEMMA WholeSame ==
  ASSUME NEW text, NEW n \in Nat, NEW f, NEW g, Whole(text, n, f), \A i \in 0 .. n - 1 : g[i] = f[i]
  PROVE  Whole(text, n, g)
BY DEF Whole

\* Another line is ended.
LEMMA WholeMore ==
  ASSUME NEW S, NEW s \in Seq(S), NEW t \in Seq(S), "nl" \in S, NEW n \in Nat, NEW f,
         Whole(s, n, f), Count(t, "nl") = 0, Carries(t, f[n])
  PROVE  Whole(s \o Append(t, "nl"), n + 1, f)
<1> DEFINE l == Append(t, "nl")
           u == s \o l
<1>1. /\ l \in Seq(S) /\ Len(l) = Len(t) + 1 /\ Len(t) \in Nat /\ Len(s) \in Nat
      /\ l = t \o <<"nl">> /\ <<"nl">> \in Seq(S)
  BY LenProperties, AppendOne
<1>2. FeedAt(u, n + 1, Len(u)) /\ Len(u) = Len(s) + Len(t) + 1
  BY FeedAtEnd DEF Whole
<1>3. u = (s \o t) \o <<"nl">>
  BY <1>1, ConcatAssociative
<1>4. s \o t \in Seq(S) /\ Len(s \o t) = Len(s) + Len(t)
  BY ConcatProperties
<1> HIDE DEF l
<1>5. ASSUME NEW i \in 0 .. n - 1
      PROVE  \E p, q : /\ FeedAt(u, i, p) /\ FeedAt(u, i + 1, q)
                       /\ Carries(SubSeq(u, p + 1, q - 1), f[i])
  <2>1. PICK p, q : /\ FeedAt(s, i, p) /\ FeedAt(s, i + 1, q)
                    /\ Carries(SubSeq(s, p + 1, q - 1), f[i])
    BY DEF Whole
  <2>2. FeedAt(u, i, p) /\ FeedAt(u, i + 1, q)
    BY <1>1, <2>1, FeedAtConcat
  <2>3. i \in Nat /\ i + 1 \in Nat /\ i + 1 # 0
    OBVIOUS
  <2>4. p \in 0 .. Len(s) /\ q \in 0 .. Len(s)
    BY <2>1, <2>3, FeedIs
  <2>5. q # 0
    BY <2>1, <2>3 DEF FeedAt
  <2>6. p + 1 \in 1 .. Len(s) + 1 /\ q - 1 \in 0 .. Len(s)
    BY <1>1, <2>4, <2>5
  <2>7. SubSeq(u, p + 1, q - 1) = SubSeq(s, p + 1, q - 1)
    BY <1>1, <2>6, SubSeqConcat
  <2> QED BY <2>1, <2>2, <2>7
<1>6. /\ FeedAt(u, n, Len(s)) /\ FeedAt(u, n + 1, Len(u))
      /\ Carries(SubSeq(u, Len(s) + 1, Len(u) - 1), f[n])
  <2>1. FeedAt(u, n, Len(s))
    BY <1>1, FeedAtConcat DEF Whole
  <2>2. SubSeq(s \o t, Len(s) + 1, Len(s) + Len(t)) = t
    BY SubSeqConcat
  <2>3. SubSeq(u, Len(s) + 1, Len(u) - 1) = t
    <3> DEFINE v == s \o t
    <3>1. /\ Len(u) - 1 = Len(v) /\ Len(s) + 1 \in 1 .. Len(v) + 1 /\ Len(v) \in 0 .. Len(v)
          /\ Len(v) = Len(s) + Len(t)
      BY <1>1, <1>2, <1>4
    <3>2. SubSeq(v \o <<"nl">>, Len(s) + 1, Len(v)) = SubSeq(v, Len(s) + 1, Len(v))
      <4>1. v \in Seq(S)
        BY <1>4
      <4> HIDE DEF v
      <4> QED BY <1>1, <3>1, <4>1, SubSeqConcat
    <3> HIDE DEF u
    <3> QED BY <1>3, <2>2, <3>1, <3>2 DEF v
  <2> QED BY <1>2, <2>1, <2>3
<1> HIDE DEF u
<1>7. ASSUME NEW i \in 0 .. (n + 1) - 1
      PROVE  \E p, q : /\ FeedAt(u, i, p) /\ FeedAt(u, i + 1, q)
                       /\ Carries(SubSeq(u, p + 1, q - 1), f[i])
  <2>1. i \in 0 .. n - 1 \/ i = n
    OBVIOUS
  <2>2. CASE i \in 0 .. n - 1
    BY <1>5, <2>2
  <2>3. CASE i = n
    <3>1. PICK p, q : p = Len(s) /\ q = Len(u)
      OBVIOUS
    <3> QED BY <1>6, <2>3, <3>1
  <2> QED BY <2>1, <2>2, <2>3
<1>8. Whole(u, n + 1, f)
  BY <1>2, <1>7 DEF Whole
<1> QED BY <1>8 DEF u, l

\* What FoldMarks!TextIsKept says of a text that is whole lines and a last one.
LEMMA WholeLines ==
  ASSUME NEW S, NEW s \in Seq(S), NEW t \in Seq(S), NEW n \in Nat, NEW f,
         Whole(s, n, f), Count(t, "nl") = 0, Carries(t, f[n])
  PROVE  /\ Count(s \o t, "nl") = n
         /\ \A i \in 0 .. n : Carries(LineIn(s \o t, i), f[i])
<1> DEFINE u == s \o t
<1>1. u \in Seq(S) /\ Len(u) = Len(s) + Len(t) /\ Len(s) \in Nat /\ Len(t) \in Nat
  BY ConcatProperties, LenProperties
<1>2. Count(u, "nl") = n
  <2>1. Count(s, "nl") = n
    BY CountOfFeed DEF Whole
  <2> QED BY <2>1, CountConcat
<1>3. ASSUME NEW i \in 0 .. n - 1 PROVE Carries(LineIn(u, i), f[i])
  <2>1. PICK p, q : /\ FeedAt(s, i, p) /\ FeedAt(s, i + 1, q)
                    /\ Carries(SubSeq(s, p + 1, q - 1), f[i])
    BY DEF Whole
  <2>2. FeedAt(u, i, p) /\ FeedAt(u, i + 1, q)
    BY <2>1, FeedAtConcat
  <2>3. i \in Nat /\ i + 1 \in Nat /\ i + 1 # 0 /\ i < n
    OBVIOUS
  <2>4. p \in 0 .. Len(s) /\ q \in 0 .. Len(s)
    BY <2>1, <2>3, FeedIs
  <2>5. q # 0
    BY <2>1, <2>3 DEF FeedAt
  <2>6. p + 1 \in 1 .. Len(s) + 1 /\ q - 1 \in 0 .. Len(s)
    BY <1>1, <2>4, <2>5
  <2>7. SubSeq(u, p + 1, q - 1) = SubSeq(s, p + 1, q - 1)
    BY <2>6, SubSeqConcat
  <2> HIDE DEF u
  <2>8. Feed(u, i) = p /\ Feed(u, i + 1) = q
    BY <1>1, <2>2, <2>3, FeedIs
  <2> QED BY <1>2, <2>1, <2>3, <2>7, <2>8 DEF LineIn
<1>4. Carries(LineIn(u, n), f[n])
  <2>1. FeedAt(u, n, Len(s))
    BY FeedAtConcat DEF Whole
  <2>2. SubSeq(u, Len(s) + 1, Len(s) + Len(t)) = t
    BY SubSeqConcat
  <2> HIDE DEF u
  <2>3. Feed(u, n) = Len(s)
    BY <1>1, <2>1, FeedIs
  <2>4. LineIn(u, n) = SubSeq(u, Len(s) + 1, Len(u))
    BY <1>2, <2>3 DEF LineIn
  <2> QED BY <1>1, <2>2, <2>4
<1> HIDE DEF u
<1>5. \A i \in 0 .. n : Carries(LineIn(u, i), f[i])
  <2>1. \A i \in 0 .. n : i \in 0 .. n - 1 \/ i = n
    OBVIOUS
  <2> QED BY <1>3, <1>4, <2>1
<1> QED BY <1>2, <1>5 DEF u

\* Of a marker n lines are written, and the next one is kept back: as it was
\* read, or with an end that the output did not take.
Back(m, n, f) == Whole(m.out, n, f) /\ Count(m.text, "nl") = 0 /\ Carries(m.text, f[n])
Torn(m, n, f) ==
  /\ Whole(m.out, n, f)
  /\ \E u \in Seq(Part), v \in Seq(Marks) :
       m.text = Append(u, "nl") \o v /\ Count(u, "nl") = 0 /\ Carries(u, f[n])
Stands(m, n, f) == IF m.err THEN Torn(m, n, f) ELSE Back(m, n, f)

LEMMA MarksFacts ==
  /\ Marks \subseteq Part
  /\ \A v \in Seq(Marks) : /\ v \in Seq(Part) /\ Count(v, "nl") = 0 /\ Carries(v, << >>)
                           /\ v # << >> => Last(v) # "nl"
<1>1. Marks \subseteq Part
  BY PartFacts DEF Marks
<1>2. SUFFICES ASSUME NEW v \in Seq(Marks)
               PROVE  /\ v \in Seq(Part) /\ Count(v, "nl") = 0 /\ Carries(v, << >>)
                      /\ v # << >> => Last(v) # "nl"
  BY <1>1
<1>3. v \in Seq(Part)
  BY <1>1, SeqMonotonic
<1>4. \A i \in 1 .. Len(v) : v[i] # "nl"
  BY ElementOfSeq DEF Marks
<1>5. Count(v, "nl") = 0
  <2>1. {i \in DOMAIN v : v[i] = "nl"} = {}
    BY <1>4, LenProperties
  <2> QED BY <2>1, FS_EmptySet DEF Count
<1>6. Carries(v, << >>)
  <2>1. << >> \in Seq(Part) /\ Carries(<< >>, << >>)
    BY EmptySeq, CarriesItself
  <2>2. Carries(<< >> \o v, << >>)
    BY <1>1, <2>1, CarriesMore
  <2> QED BY <2>2, ConcatEmptySeq
<1>7. v # << >> => Last(v) # "nl"
  <2>1. v # << >> => Len(v) \in 1 .. Len(v)
    BY EmptySeq, LenProperties
  <2> QED BY <1>4, <2>1 DEF Last
<1> QED BY <1>3, <1>5, <1>6, <1>7

\* Marks are put behind the text.
LEMMA MarksStand ==
  ASSUME NEW m \in Marker, NEW r \in Marker, NEW marks \in Seq(Marks), NEW n, NEW f,
         f[n] \in Seq(Part), r.out = m.out, r.text = m.text \o marks
  PROVE  (Back(m, n, f) => Back(r, n, f)) /\ (Torn(m, n, f) => Torn(r, n, f))
<1>1. m.text \in Seq(Part) /\ marks \in Seq(Part) /\ Count(marks, "nl") = 0
  BY MarksFacts DEF Marker
<1>2. ASSUME Back(m, n, f) PROVE Back(r, n, f)
  <2>1. Count(m.text \o marks, "nl") = Count(m.text, "nl") + Count(marks, "nl")
    BY <1>1, CountConcat
  <2>2. Carries(m.text \o marks, f[n])
    BY <1>1, <1>2, MarksFacts, CarriesMore DEF Back
  <2> QED BY <1>1, <1>2, <2>1, <2>2 DEF Back
<1>3. ASSUME Torn(m, n, f) PROVE Torn(r, n, f)
  <2>1. PICK u \in Seq(Part), v \in Seq(Marks) :
          m.text = Append(u, "nl") \o v /\ Count(u, "nl") = 0 /\ Carries(u, f[n])
    BY <1>3 DEF Torn
  <2>2. v \o marks \in Seq(Marks)
    BY ConcatProperties
  <2>3. (Append(u, "nl") \o v) \o marks = Append(u, "nl") \o (v \o marks)
    <3>1. "nl" \in Part
      BY PartFacts
    <3>2. PICK l : l = Append(u, "nl")
      OBVIOUS
    <3>3. l \in Seq(Part)
      BY <3>1, <3>2
    <3>4. v \in Seq(Part)
      BY MarksFacts
    <3>5. (l \o v) \o marks = l \o (v \o marks)
      BY <1>1, <3>3, <3>4, ConcatAssociative
    <3> QED BY <3>2, <3>5
  <2> QED BY <1>3, <2>1, <2>2, <2>3 DEF Torn
<1> QED BY <1>2, <1>3

LEMMA OneMark ==
  ASSUME NEW text \in Seq(Part), NEW x \in Marks
  PROVE  Append(text, x) = text \o <<x>> /\ <<x>> \in Seq(Marks)
BY MarksFacts, AppendOne

LEMMA OpenMarkStands ==
  ASSUME NEW m \in Marker, NEW n, NEW f, f[n] \in Seq(Part), Stands(m, n, f)
  PROVE  Stands(OpenMark(m), n, f)
<1>1. /\ OpenMark(m) \in Marker /\ SameBut(OpenMark(m), m)
      /\ OpenMark(m).text = Append(m.text, "open")
  BY OpenMarkFacts
<1>2. Append(m.text, "open") = m.text \o <<"open">> /\ <<"open">> \in Seq(Marks)
  BY OneMark DEF Marks, Marker
<1> QED BY <1>1, <1>2, MarksStand DEF SameBut, Stands

\* Closing may take back the end as well, with the marks behind it.
LEMMA CloseMarkStands ==
  ASSUME NEW m \in Marker, NEW n, NEW f, f[n] \in Seq(Part)
  PROVE  /\ Back(m, n, f) => Back(CloseMark(m), n, f)
         /\ Torn(m, n, f) => Torn(CloseMark(m), n, f) \/ Back(CloseMark(m), n, f)
<1> DEFINE c == CloseMark(m)
<1>1. /\ c \in Marker /\ SameBut(c, m)
      /\ m.opened => c.text = CutMarks(m.text)
      /\ ~m.opened /\ m.level > 0 => c.text = Append(m.text, "close")
      /\ ~m.opened /\ m.level = 0 => c = m
  BY CloseMarkFacts
<1>2. m.level \in Nat /\ m.text \in Seq(Part)
  BY DEF Marker
<1> HIDE DEF c
<1>3. c.out = m.out
  BY <1>1 DEF SameBut
<1>4. CASE m.opened
  <2>1. c.text = CutMarks(m.text)
    BY <1>1, <1>4
  <2>2. ASSUME Back(m, n, f) PROVE Back(c, n, f)
    <3>1. Count(CutMarks(m.text), "nl") = 0
      BY <1>2, <2>2, CutMarksFacts DEF Back
    <3>2. Carries(CutMarks(m.text), f[n])
      BY <1>2, <2>2, CarriesCut DEF Back
    <3> QED BY <1>3, <2>1, <2>2, <3>1, <3>2 DEF Back
  <2>3. ASSUME Torn(m, n, f) PROVE Torn(c, n, f) \/ Back(c, n, f)
    <3>1. PICK u \in Seq(Part), v \in Seq(Marks) :
            m.text = Append(u, "nl") \o v /\ Count(u, "nl") = 0 /\ Carries(u, f[n])
      BY <2>3 DEF Torn
    <3> DEFINE l == Append(u, "nl")
    <3>2. l = u \o <<"nl">> /\ l \in Seq(Part) /\ <<"nl">> \in Seq(Part) /\ v \in Seq(Part)
      BY PartFacts, MarksFacts, AppendOne
    <3>3. Whole(c.out, n, f)
      BY <1>3, <2>3 DEF Torn
    <3>4. CutMarks(<<"nl">>) = <<"nl">>
      <4>1. CutAt(<<"nl">>, 1)
        BY DEF CutAt
      <4>2. CutMarks(<<"nl">>) = SubSeq(<<"nl">>, 1, 1)
        BY <3>2, <4>1, CutIs
      <4> QED BY <4>2
    <3>5. CutMarks(l) = CutMarks(u) \/ CutMarks(l) = l
      <4>1. PICK w : w = <<"nl">>
        OBVIOUS
      <4> HIDE DEF l
      <4>2. CutMarks(u \o w) = CutMarks(u) \/ CutMarks(u \o w) = u \o CutMarks(w)
        BY <3>2, <4>1, CutConcat
      <4> QED BY <3>2, <3>4, <4>1, <4>2
    <3>6. CutMarks(l \o v) = CutMarks(l) \/ CutMarks(l \o v) = l \o CutMarks(v)
      BY <3>2, CutConcat
    <3>7. CASE c.text = CutMarks(u)
      <4>1. Count(CutMarks(u), "nl") = 0 /\ Carries(CutMarks(u), f[n])
        BY <3>1, CutMarksFacts, CarriesCut
      <4> QED BY <3>3, <3>7, <4>1 DEF Back
    <3>8. CASE c.text = l
      <4>1. l = l \o << >> /\ << >> \in Seq(Marks)
        BY <3>2, EmptySeq, ConcatEmptySeq
      <4> QED BY <3>1, <3>3, <3>8, <4>1 DEF Torn
    <3>9. CASE c.text = l \o CutMarks(v)
      <4>1. CutMarks(v) \in Seq(Marks)
        BY CutMarksFacts
      <4> QED BY <3>1, <3>3, <3>9, <4>1 DEF Torn
    <3>10. c.text = CutMarks(l \o v)
      BY <2>1, <3>1
    <3> HIDE DEF l
    <3> QED BY <3>5, <3>6, <3>7, <3>8, <3>9, <3>10
  <2> QED BY <2>2, <2>3 DEF c
<1>5. CASE ~m.opened /\ m.level > 0
  <2>1. Append(m.text, "close") = m.text \o <<"close">> /\ <<"close">> \in Seq(Marks)
    BY <1>2, OneMark DEF Marks
  <2>2. c.text = m.text \o <<"close">>
    BY <1>1, <1>5, <2>1
  <2>3. (Back(m, n, f) => Back(c, n, f)) /\ (Torn(m, n, f) => Torn(c, n, f))
    BY <1>1, <1>3, <2>1, <2>2, MarksStand
  <2> QED BY <2>3 DEF c
<1>6. CASE ~m.opened /\ m.level = 0
  <2>1. c = m
    BY <1>1, <1>6
  <2> QED BY <2>1 DEF c
<1> QED BY <1>2, <1>4, <1>5, <1>6

\* Of a line that was scanned: it is still to be kept back, or it is, with n
\* lines before it.
Moved(m, n, f) == IF m.pend THEN Stands(m, n, f) ELSE ~m.err /\ Back(m, n + 1, f)

LEMMA NextLineMoves ==
  ASSUME NEW m \in Marker, NEW ok \in BOOLEAN, m.pend, ~m.err, m.cur \in Lines,
         NEW n \in Nat, NEW f, f[n] \in Seq(Part), f[n + 1] = m.cur.text, Back(m, n, f)
  PROVE  Moved(NextLine(m, ok), n, f)
<1> DEFINE r == Flush(m, ok)
           t == NextLine(m, ok)
<1>1. /\ r \in Marker /\ r.pend = m.pend
      /\ ok => r.text = << >> /\ r.out = m.out \o Line(m.text) /\ r.err = m.err
      /\ ~ok => r.text = Line(m.text) /\ r.out = m.out /\ r.err = TRUE
  BY FlushFacts
<1>2. m.text \in Seq(Part) /\ m.out \in Seq(Part)
  BY DEF Marker
<1>3. Line(m.text) = Append(m.text, "nl")
  BY <1>2, LineFacts DEF Back
<1>4. CASE ok
  <2>1. t = [r EXCEPT !.text = m.cur.text, !.pend = FALSE]
    BY <1>4 DEF NextLine
  <2> HIDE DEF r, t
  <2>2. t.text = m.cur.text /\ t.out = r.out /\ t.err = r.err /\ t.pend = FALSE
    BY <1>1, <2>1 DEF Marker
  <2>3. Whole(m.out \o Append(m.text, "nl"), n + 1, f)
    BY <1>2, PartFacts, WholeMore DEF Back
  <2>4. m.cur.text \in Seq(Part) /\ Count(m.cur.text, "nl") = 0
    BY PartFacts
  <2>5. Carries(m.cur.text, f[n + 1])
    BY <2>4, CarriesItself
  <2>6. Back(t, n + 1, f)
    BY <1>1, <1>3, <1>4, <2>2, <2>3, <2>4, <2>5 DEF Back
  <2>7. ~t.err /\ ~t.pend
    BY <1>1, <1>4, <2>2
  <2> QED BY <2>6, <2>7 DEF Moved, t
<1>5. CASE ~ok
  <2>1. t = r
    BY <1>5 DEF NextLine
  <2> HIDE DEF r, t
  <2>2. t.text = Append(m.text, "nl") \o << >> /\ << >> \in Seq(Marks)
    <3>1. Append(m.text, "nl") \in Seq(Part)
      BY <1>2, PartFacts, AppendOne
    <3> QED BY <1>1, <1>3, <1>5, <2>1, <3>1, EmptySeq, ConcatEmptySeq
  <2>3. Torn(t, n, f)
    BY <1>1, <1>2, <1>5, <2>1, <2>2 DEF Torn, Back
  <2> QED BY <1>1, <1>5, <2>1, <2>3 DEF Moved, Stands, t
<1> QED BY <1>4, <1>5

LEMMA MovedOpens ==
  ASSUME NEW m \in Marker, NEW n, NEW f, f[n] \in Seq(Part), f[n + 1] \in Seq(Part), Moved(m, n, f)
  PROVE  Moved(OpenMark(m), n, f)
<1>1. SameBut(OpenMark(m), m)
  BY OpenMarkFacts
<1>2. CASE m.pend
  BY <1>1, <1>2, OpenMarkStands DEF Moved, SameBut
<1>3. CASE ~m.pend
  <2>1. Stands(m, n + 1, f) /\ ~m.err
    BY <1>3 DEF Moved, Stands
  <2>2. Stands(OpenMark(m), n + 1, f)
    BY <2>1, OpenMarkStands
  <2> QED BY <1>1, <1>3, <2>1, <2>2 DEF Moved, Stands, SameBut
<1> QED BY <1>2, <1>3

LEMMA MovedSame ==
  ASSUME NEW m, NEW r, NEW n, NEW f, Moved(m, n, f),
         r.pend = m.pend, r.err = m.err, r.out = m.out, r.text = m.text
  PROVE  Moved(r, n, f)
BY DEF Moved, Stands, Back, Torn

LEMMA LocScanMoves ==
  ASSUME NEW m \in Marker, NEW ok \in BOOLEAN, m.pend, ~m.err, m.cur \in Lines,
         NEW n \in Nat, NEW f, f[n] \in Seq(Part), f[n + 1] = m.cur.text, Back(m, n, f)
  PROVE  Moved(LocScan(m, ok), n, f)
<1> DEFINE moved == m.lastLoc # m.cur.id
           closed == IF moved THEN CloseMark(CloseMark(m)) ELSE CloseMark(m)
           t == NextLine(closed, ok)
           o == OpenMark(t)
           first == [o EXCEPT !.lastLoc = m.cur.id]
           inner == IF moved THEN first ELSE t
           r == LocScan(m, ok)
<1>1. /\ closed \in Marker /\ closed.cur = m.cur /\ closed.pend /\ ~closed.err
      /\ Back(closed, n, f)
  <2> HIDE DEF moved
  <2>1. ASSUME NEW k \in Marker, k.cur = m.cur, k.pend, ~k.err, Back(k, n, f)
        PROVE  /\ CloseMark(k) \in Marker /\ CloseMark(k).cur = m.cur /\ CloseMark(k).pend
               /\ ~CloseMark(k).err /\ Back(CloseMark(k), n, f)
    <3>1. CloseMark(k) \in Marker /\ SameBut(CloseMark(k), k)
      BY CloseMarkFacts
    <3>2. Back(CloseMark(k), n, f)
      BY <2>1, CloseMarkStands
    <3> QED BY <2>1, <3>1, <3>2 DEF SameBut
  <2>2. /\ CloseMark(m) \in Marker /\ CloseMark(m).cur = m.cur /\ CloseMark(m).pend
        /\ ~CloseMark(m).err /\ Back(CloseMark(m), n, f)
    BY <2>1
  <2>3. PICK c : c = CloseMark(m)
    OBVIOUS
  <2>4. /\ CloseMark(c) \in Marker /\ CloseMark(c).cur = m.cur /\ CloseMark(c).pend
        /\ ~CloseMark(c).err /\ Back(CloseMark(c), n, f)
    BY <2>1, <2>2, <2>3
  <2> QED BY <2>2, <2>3, <2>4
<1> HIDE DEF closed
<1>2. f[n + 1] \in Seq(Part)
  BY PartFacts
<1>3. t \in Marker /\ Moved(t, n, f)
  <2>1. t \in Marker
    BY <1>1, NextLineFacts
  <2>2. Moved(t, n, f)
    BY <1>1, NextLineMoves
  <2> QED BY <2>1, <2>2
<1> HIDE DEF t
<1>4. o \in Marker /\ Moved(o, n, f)
  BY <1>2, <1>3, OpenMarkFacts, MovedOpens
<1> HIDE DEF o
<1>5. first \in Marker /\ Moved(first, n, f)
  <2>1. m.cur.id \in Ids
    BY DEF Ids
  <2>2. /\ first \in Marker /\ first.text = o.text /\ first.pend = o.pend /\ first.err = o.err
        /\ first.out = o.out
    BY <1>4, <2>1, SetLocFacts
  <2> HIDE DEF first
  <2> QED BY <1>4, <2>2, MovedSame
<1> HIDE DEF first, moved
<1>6. inner \in Marker /\ Moved(inner, n, f)
  BY <1>3, <1>5
<1>7. r = IF t.err THEN t ELSE OpenMark(inner)
  BY DEF LocScan, t, o, first, moved, closed
<1> HIDE DEF inner, r
<1>8. Moved(OpenMark(inner), n, f)
  BY <1>2, <1>6, MovedOpens
<1>9. Moved(r, n, f)
  BY <1>3, <1>7, <1>8
<1> QED BY <1>9 DEF r

LEMMA RetScanMoves ==
  ASSUME NEW m \in Marker, NEW ok \in BOOLEAN, m.pend, ~m.err, m.cur \in Lines,
         NEW n \in Nat, NEW f, f[n] \in Seq(Part), f[n + 1] = m.cur.text, Back(m, n, f)
  PROVE  Moved(RetScan(m, ok), n, f)
<1> DEFINE rs == m.cur.id
           common == Len(LongestCommonPrefix({m.lastRs, rs}))
           shorter == common < Len(m.lastRs)
           longer == common < Len(rs)
           closed == IF shorter THEN CloseMark(m) ELSE m
           t == NextLine(closed, ok)
           inner == IF longer THEN OpenMark(t) ELSE t
           s == [inner EXCEPT !.lastRs = rs]
           r == RetScan(m, ok)
<1>1. r = IF rs = m.lastRs THEN m ELSE s
  BY DEF RetScan
<1> HIDE DEF common
<1>2. /\ closed \in Marker /\ closed.cur = m.cur /\ closed.pend /\ ~closed.err
      /\ Back(closed, n, f)
  <2> HIDE DEF shorter
  <2>1. CloseMark(m) \in Marker /\ SameBut(CloseMark(m), m)
    BY CloseMarkFacts
  <2>2. Back(CloseMark(m), n, f)
    BY CloseMarkStands
  <2> QED BY <2>1, <2>2 DEF SameBut
<1> HIDE DEF shorter, longer, closed
<1>3. f[n + 1] \in Seq(Part)
  BY PartFacts
<1>4. t \in Marker /\ Moved(t, n, f)
  <2>1. t \in Marker
    BY <1>2, NextLineFacts
  <2>2. Moved(t, n, f)
    BY <1>2, NextLineMoves
  <2> QED BY <2>1, <2>2
<1> HIDE DEF t
<1>5. inner \in Marker /\ Moved(inner, n, f)
  <2>1. OpenMark(t) \in Marker /\ Moved(OpenMark(t), n, f)
    BY <1>3, <1>4, OpenMarkFacts, MovedOpens
  <2> QED BY <1>4, <2>1
<1> HIDE DEF inner
<1>6. Moved(s, n, f)
  <2>1. s.pend = inner.pend /\ s.err = inner.err /\ s.out = inner.out /\ s.text = inner.text
    <3> HIDE DEF rs
    <3> QED BY <1>5 DEF Marker
  <2> HIDE DEF s
  <2> QED BY <1>5, <2>1, MovedSame
<1>7. Moved(m, n, f)
  BY DEF Moved, Stands
<1> HIDE DEF s, r, rs
<1>8. Moved(r, n, f)
  BY <1>1, <1>6, <1>7
<1> QED BY <1>8 DEF r

LEMMA ScannedMoves ==
  ASSUME NEW m \in Marker, NEW ok \in BOOLEAN, m.pend, ~m.err, m.cur \in Lines,
         scanners \in SUBSET {"scan", "step"},
         NEW n \in Nat, NEW f, f[n] \in Seq(Part), f[n + 1] = m.cur.text, Back(m, n, f)
  PROVE  Moved(Scanned(m, ok), n, f)
<1>1. CASE m.cur.kind \notin scanners
  <2>1. Scanned(m, ok) = m
    BY <1>1 DEF Scanned
  <2> QED BY <2>1 DEF Moved, Stands
<1>2. CASE m.cur.kind = "scan" /\ "scan" \in scanners
  <2>1. Scanned(m, ok) = LocScan(m, ok)
    BY <1>2 DEF Scanned
  <2> QED BY <2>1, LocScanMoves
<1>3. CASE m.cur.kind = "step" /\ "step" \in scanners
  <2>1. Scanned(m, ok) = RetScan(m, ok)
    BY <1>3 DEF Scanned
  <2> QED BY <2>1, RetScanMoves
<1> QED BY <1>1, <1>2, <1>3
----------------------------------------------------------------------------
(* The text is kept: the lines of the log, and the worker.                 *)

\* the first n lines of a log, with nothing before and after them
Texts(log, n) == [i \in Nat |-> IF i \in 1 .. n THEN log[i].text ELSE << >>]

LEMMA TextsFacts ==
  ASSUME NEW log \in Seq(Lines), NEW n \in 0 .. Len(log)
  PROVE  \A i \in Nat : /\ Texts(log, n)[i] \in Seq(Part)
                        /\ Texts(log, n)[i] = IF i \in 1 .. n THEN log[i].text ELSE << >>
<1> SUFFICES ASSUME NEW i \in Nat
             PROVE  /\ Texts(log, n)[i] \in Seq(Part)
                    /\ Texts(log, n)[i] = IF i \in 1 .. n THEN log[i].text ELSE << >>
  OBVIOUS
<1>1. Texts(log, n)[i] = IF i \in 1 .. n THEN log[i].text ELSE << >>
  BY DEF Texts
<1>2. CASE i \in 1 .. n
  <2>1. i \in 1 .. Len(log)
    BY <1>2, LenProperties
  <2>2. log[i] \in Lines
    BY <2>1, ElementOfSeq
  <2> QED BY <1>1, <1>2, <2>2, PartFacts
<1>3. CASE i \notin 1 .. n
  BY <1>1, <1>3, EmptySeq
<1> QED BY <1>1, <1>2, <1>3

\* What n lines and the next one are depends on no others.
LEMMA StandsSame ==
  ASSUME NEW m, NEW n \in Nat, NEW f, NEW g, \A i \in 0 .. n : g[i] = f[i]
  PROVE  /\ Back(m, n, f) => Back(m, n, g)
         /\ Torn(m, n, f) => Torn(m, n, g)
         /\ Stands(m, n, f) => Stands(m, n, g)
<1>1. (\A i \in 0 .. n - 1 : g[i] = f[i]) /\ g[n] = f[n]
  OBVIOUS
<1>2. Whole(m.out, n, f) => Whole(m.out, n, g)
  BY <1>1, WholeSame
<1> QED BY <1>1, <1>2 DEF Back, Torn, Stands

\* Before the output is closed the lines taken are written, but for the last.
TextInv ==
  IF ended THEN TextIsKept ELSE Stands(ms, Taken, Texts(read, Len(read)))

LEMMA NextText ==
  ASSUME TypeInv, TextInv, ~ended, NEW ok \in BOOLEAN
  PROVE  LET n == NextLine(ms, ok)
             k == Len(read) - (IF n.pend THEN 1 ELSE 0)
         IN /\ k \in 0 .. Len(read) /\ (n.pend => n.err)
            /\ Stands(n, k, Texts(read, Len(read)))
<1> DEFINE n == NextLine(ms, ok)
           k == Len(read) - (IF n.pend THEN 1 ELSE 0)
           f == Texts(read, Len(read))
<1>1. ms \in Marker /\ read \in Seq(Lines) /\ Pending /\ Len(read) \in Nat
  BY LenProperties DEF TypeInv
<1>2. ms.pend => Len(read) \in 1 .. Len(read) /\ ms.cur = read[Len(read)]
  BY <1>1, LenProperties, EmptySeq DEF Pending, Last
<1>3. ms.pend => ms.cur \in Lines
  BY <1>1, <1>2, ElementOfSeq
<1>4. n \in Marker /\ Advanced(n, ms)
  BY <1>1, <1>3, NextLineFacts
<1>5. Stands(ms, Taken, f)
  BY DEF TextInv
<1>6. Len(read) \in 0 .. Len(read)
  BY <1>1
<1>7. \A i \in Nat : f[i] \in Seq(Part) /\ f[i] = IF i \in 1 .. Len(read) THEN read[i].text ELSE << >>
  BY <1>1, <1>6, TextsFacts
<1> HIDE DEF f
<1>8. CASE ~ms.pend \/ ms.err
  <2>1. n = ms
    BY <1>8 DEF NextLine
  <2> HIDE DEF n
  <2>2. k = Taken
    BY <2>1 DEF Taken
  <2>3. k \in 0 .. Len(read)
    BY <1>1, <1>2, <2>1
  <2>4. n.pend => n.err
    BY <1>8, <2>1
  <2> HIDE DEF k
  <2> QED BY <1>5, <2>1, <2>2, <2>3, <2>4 DEF n, k, f
<1>9. CASE ~(~ms.pend \/ ms.err)
  <2>1. PICK t : t = Len(read) - 1
    OBVIOUS
  <2>2. Taken = t /\ t \in Nat /\ t + 1 = Len(read)
    BY <1>1, <1>2, <1>9, <2>1 DEF Taken
  <2>3. Back(ms, t, f) /\ f[t] \in Seq(Part) /\ f[t + 1] = ms.cur.text
    BY <1>2, <1>5, <1>7, <1>9, <2>2 DEF Stands
  <2>4. ms.cur \in Lines /\ ms.pend /\ ~ms.err
    BY <1>3, <1>9
  <2>5. Moved(n, t, f)
    BY <1>1, <2>2, <2>3, <2>4, NextLineMoves
  <2> HIDE DEF n
  <2>6. CASE n.pend
    <3>1. Stands(n, t, f) /\ n.err
      BY <1>4, <2>5, <2>6 DEF Moved, Advanced
    <3>2. k = t /\ k \in 0 .. Len(read)
      BY <1>1, <2>1, <2>2, <2>6
    <3> HIDE DEF k
    <3> QED BY <2>6, <3>1, <3>2 DEF n, k, f
  <2>7. CASE ~n.pend
    <3>1. Stands(n, t + 1, f)
      BY <2>5, <2>7 DEF Moved, Stands
    <3>2. k = t + 1 /\ k \in 0 .. Len(read)
      BY <1>1, <2>1, <2>2, <2>7
    <3> HIDE DEF k
    <3> QED BY <2>7, <3>1, <3>2 DEF n, k, f
  <2> QED BY <2>6, <2>7
<1> QED BY <1>8, <1>9

LEMMA ScanLineText ==
  ASSUME TypeInv, TextInv, ScanLine
  PROVE  TextInv'
<1>1. ~ended /\ ended' = ended
  BY DEF ScanLine
<1>2. PICK ok1 \in Oks, ok2 \in Oks, line \in Lines :
        /\ ~NextLine(ms, ok1).err
        /\ ms' = Scanned([NextLine(ms, ok1) EXCEPT !.cur = line, !.pend = TRUE], ok2)
        /\ read' = Append(read, line)
  BY DEF ScanLine
<1>3. ok1 \in BOOLEAN /\ ok2 \in BOOLEAN
  BY DEF Oks
<1>4. /\ ms \in Marker /\ read \in Seq(Lines) /\ Pending
      /\ scanners \in SUBSET {"scan", "step"}
  BY DEF TypeInv
<1>5. PICK n : n = NextLine(ms, ok1)
  OBVIOUS
<1>6. PICK k : k = Len(read)
  OBVIOUS
<1>7. k \in Nat
  BY <1>4, <1>6, LenProperties
<1>8. n \in Marker /\ ~n.err
  <2>1. ms.pend => ms.cur \in Lines
    <3>1. ms.pend => read # << >> /\ ms.cur = Last(read) /\ Len(read) \in 1 .. Len(read)
      BY <1>4, LenProperties, EmptySeq DEF Pending
    <3> QED BY <1>4, <3>1, ElementOfSeq DEF Last
  <2> QED BY <1>2, <1>3, <1>4, <1>5, <2>1, NextLineFacts
<1>9. Back(n, k, Texts(read, k))
  <2>1. /\ n.pend => n.err
        /\ Stands(n, Len(read) - (IF n.pend THEN 1 ELSE 0), Texts(read, Len(read)))
    BY <1>1, <1>3, <1>5, NextText
  <2>2. Len(read) - (IF n.pend THEN 1 ELSE 0) = k
    BY <1>6, <1>7, <1>8, <2>1
  <2> QED BY <1>6, <1>8, <2>1, <2>2 DEF Stands
<1>10. PICK b : b = [n EXCEPT !.cur = line, !.pend = TRUE]
  OBVIOUS
<1>11. /\ b \in Marker /\ b.cur = line /\ b.pend /\ ~b.err /\ b.text = n.text /\ b.out = n.out
  <2>1. line \in Currents
    BY DEF Currents
  <2> QED BY <1>8, <1>10, <2>1 DEF Marker
<1>12. ms' = Scanned(b, ok2)
  BY <1>2, <1>5, <1>10
<1>13. PICK g : g = Texts(read', Len(read'))
  OBVIOUS
<1>14. /\ Len(read') = k + 1 /\ g[k] \in Seq(Part) /\ g[k + 1] = line.text
       /\ \A i \in 0 .. k : g[i] = Texts(read, k)[i]
  <2>1. /\ read' \in Seq(Lines) /\ Len(read') = k + 1 /\ read'[k + 1] = line
        /\ \A i \in 1 .. k : read'[i] = read[i]
    BY <1>2, <1>4, <1>6, <1>7
  <2>2. Len(read') \in 0 .. Len(read') /\ k \in 0 .. Len(read)
    BY <1>6, <1>7, <2>1
  <2>3. \A i \in Nat : /\ g[i] \in Seq(Part)
                       /\ g[i] = IF i \in 1 .. k + 1 THEN read'[i].text ELSE << >>
    BY <1>13, <2>1, <2>2, TextsFacts
  <2>4. \A i \in Nat : Texts(read, k)[i] = IF i \in 1 .. k THEN read[i].text ELSE << >>
    BY <1>4, <2>2, TextsFacts
  <2>5. k + 1 \in 1 .. k + 1 /\ k + 1 \in Nat
    BY <1>7
  <2>6. ASSUME NEW i \in 0 .. k PROVE g[i] = Texts(read, k)[i]
    <3>1. i \in Nat /\ (i \in 1 .. k + 1 <=> i \in 1 .. k)
      BY <1>7
    <3> QED BY <2>1, <2>3, <2>4, <3>1
  <2> QED BY <1>7, <2>1, <2>3, <2>5, <2>6
<1>15. Back(b, k, g)
  <2>1. Back(n, k, g)
    BY <1>7, <1>9, <1>14, StandsSame
  <2> QED BY <1>11, <2>1 DEF Back
<1>16. Moved(ms', k, g)
  <2>1. b.cur \in Lines /\ g[k + 1] = b.cur.text
    BY <1>11, <1>14
  <2> QED BY <1>3, <1>4, <1>7, <1>11, <1>12, <1>14, <1>15, <2>1, ScannedMoves
<1>17. Stands(ms', Taken', g)
  <2>1. CASE ms'.pend
    <3>1. Taken' = k
      BY <1>7, <1>14, <2>1 DEF Taken
    <3> QED BY <1>16, <2>1, <3>1 DEF Moved
  <2>2. CASE ~ms'.pend
    <3>1. Taken' = k + 1
      BY <1>7, <1>14, <2>2 DEF Taken
    <3> QED BY <1>16, <2>2, <3>1 DEF Moved, Stands
  <2> QED BY <2>1, <2>2
<1> QED BY <1>1, <1>13, <1>17 DEF TextInv

LEMMA CloseAllText ==
  ASSUME NEW m \in Marker, NEW n, NEW f, f[n] \in Seq(Part)
  PROVE  /\ Back(m, n, f) => Back(CloseAll(m), n, f)
         /\ Torn(m, n, f) => Torn(CloseAll(m), n, f) \/ Back(CloseAll(m), n, f)
<1> DEFINE c == IF m.level > 0 /\ m.opened THEN CloseMark(m) ELSE m
           marks == [i \in 1 .. c.level |-> "close"]
           r == CloseAll(m)
<1>1. r = [c EXCEPT !.text = c.text \o marks, !.level = 0]
  BY DEF CloseAll
<1>2. /\ c \in Marker
      /\ Back(m, n, f) => Back(c, n, f)
      /\ Torn(m, n, f) => Torn(c, n, f) \/ Back(c, n, f)
  BY CloseMarkFacts, CloseMarkStands
<1> HIDE DEF c
<1>3. marks \in Seq(Marks)
  <2>1. c.level \in Nat
    BY <1>2 DEF Marker
  <2> QED BY <2>1 DEF Marks
<1>4. r \in Marker
  BY CloseAllFacts
<1>5. r.out = c.out /\ r.text = c.text \o marks
  <2> HIDE DEF r, marks
  <2> QED BY <1>1, <1>2 DEF Marker
<1> HIDE DEF r, marks
<1>6. (Back(c, n, f) => Back(r, n, f)) /\ (Torn(c, n, f) => Torn(r, n, f))
  BY <1>2, <1>3, <1>4, <1>5, MarksStand
<1> QED BY <1>2, <1>6 DEF r

\* What FoldMarks!TextIsKept asks of a text.
Keeps(text, n, ends, g) ==
  /\ Count(text, "nl") = n + ends
  /\ \A i \in 0 .. n + ends : Carries(LineIn(text, i), g[i])

LEMMA KeepsWhole ==
  ASSUME NEW s \in Seq(Part), NEW t \in Seq(Part), NEW n \in Nat, NEW e \in Nat, NEW g,
         Whole(s, n + e, g), Count(t, "nl") = 0, Carries(t, g[n + e])
  PROVE  Keeps(s \o t, n, e, g)
<1>1. n + e \in Nat
  OBVIOUS
<1> QED BY <1>1, WholeLines DEF Keeps

\* A marker whose lines have all been taken, and behind them nothing.
LEMMA TornKeeps ==
  ASSUME NEW m \in Marker, NEW n \in Nat, NEW g, Torn(m, n, g), g[n + 1] = << >>
  PROVE  Keeps(m.out \o m.text, n, 1, g)
<1>1. PICK u \in Seq(Part), v \in Seq(Marks) :
        m.text = Append(u, "nl") \o v /\ Count(u, "nl") = 0 /\ Carries(u, g[n])
  BY DEF Torn
<1>2. m.out \in Seq(Part) /\ Append(u, "nl") \in Seq(Part) /\ v \in Seq(Part)
  BY PartFacts, MarksFacts, AppendOne DEF Marker
<1> DEFINE s == m.out \o Append(u, "nl")
<1>3. Whole(s, n + 1, g)
  BY <1>1, <1>2, PartFacts, WholeMore DEF Torn
<1>4. s \in Seq(Part) /\ m.out \o m.text = s \o v
  <2>1. PICK l : l = Append(u, "nl")
    OBVIOUS
  <2>2. PICK o : o = m.out
    OBVIOUS
  <2>3. o \in Seq(Part) /\ l \in Seq(Part) /\ v \in Seq(Part)
    BY <1>2, <2>1, <2>2
  <2>4. (o \o l) \o v = o \o (l \o v)
    BY <2>3, ConcatAssociative
  <2>5. o \o l \in Seq(Part)
    BY <2>3, ConcatProperties
  <2> QED BY <1>1, <2>1, <2>2, <2>4, <2>5
<1> HIDE DEF s
<1>5. Count(v, "nl") = 0 /\ Carries(v, g[n + 1])
  BY MarksFacts
<1> QED BY <1>2, <1>3, <1>4, <1>5, KeepsWhole

LEMMA FlushKeeps ==
  ASSUME NEW m \in Marker, NEW n \in Nat, NEW g, Torn(m, n, g) \/ Back(m, n, g),
         g[n + 1] = << >>, g[n + 2] = << >>
  PROVE  LET text == m.out \o Line(m.text)
         IN /\ Keeps(text, n, 1, g) \/ Keeps(text, n, 2, g)
            /\ Back(m, n, g) => Keeps(text, n, 1, g)
<1>1. m.out \in Seq(Part) /\ m.text \in Seq(Part)
  BY DEF Marker
<1>2. << >> \in Seq(Part) /\ Count(<< >>, "nl") = 0 /\ Carries(<< >>, << >>)
  <2>1. << >> \in Seq(Part)
    BY EmptySeq
  <2> QED BY <2>1, CountEmpty, CarriesItself
<1>3. ASSUME Back(m, n, g) PROVE Keeps(m.out \o Line(m.text), n, 1, g)
  <2> DEFINE s == m.out \o Append(m.text, "nl")
  <2>1. Line(m.text) = Append(m.text, "nl")
    BY <1>1, <1>3, LineFacts DEF Back
  <2>2. Whole(s, n + 1, g)
    BY <1>1, <1>3, PartFacts, WholeMore DEF Back
  <2>3. s \in Seq(Part) /\ s = s \o << >>
    <3>1. Append(m.text, "nl") \in Seq(Part)
      BY <1>1, PartFacts, AppendOne
    <3>2. s \in Seq(Part)
      BY <1>1, <3>1, ConcatProperties
    <3> HIDE DEF s
    <3> QED BY <3>2, ConcatEmptySeq
  <2> HIDE DEF s
  <2>4. Keeps(s \o << >>, n, 1, g)
    BY <1>2, <2>2, <2>3, KeepsWhole
  <2>5. Keeps(s, n, 1, g)
    BY <2>3, <2>4
  <2> QED BY <2>1, <2>5 DEF s
<1>4. ASSUME Torn(m, n, g)
      PROVE  Keeps(m.out \o Line(m.text), n, 1, g) \/ Keeps(m.out \o Line(m.text), n, 2, g)
  <2>1. PICK u \in Seq(Part), v \in Seq(Marks) :
          m.text = Append(u, "nl") \o v /\ Count(u, "nl") = 0 /\ Carries(u, g[n])
    BY <1>4 DEF Torn
  <2> DEFINE l == Append(u, "nl")
             s == m.out \o l
  <2>2. l \in Seq(Part) /\ v \in Seq(Part) /\ Len(l) \in Nat /\ Len(l) # 0
    BY PartFacts, MarksFacts, AppendOne, LenProperties
  <2>3. CASE v = << >>
    <3>1. m.text = l
      BY <2>1, <2>2, <2>3, ConcatEmptySeq
    <3>2. Line(m.text) = m.text
      <4>1. l # << >> /\ Last(l) = "nl"
        BY DEF Last
      <4> HIDE DEF l
      <4> QED BY <3>1, <4>1 DEF Line
    <3> QED BY <1>4, <3>2, TornKeeps
  <2>4. CASE v # << >>
    <3>1. Last(m.text) = Last(v)
      <4> HIDE DEF l
      <4>1. /\ l \o v \in Seq(Part) /\ Len(l \o v) = Len(l) + Len(v)
            /\ \A i \in 1 .. Len(l) + Len(v) : (l \o v)[i] = IF i <= Len(l) THEN l[i] ELSE v[i - Len(l)]
        BY <2>2, ConcatProperties
      <4>2. Len(v) \in 1 .. Len(v)
        BY <2>2, <2>4, LenProperties, EmptySeq
      <4>3. PICK k : k = Len(l) + Len(v)
        OBVIOUS
      <4>4. k \in 1 .. Len(l) + Len(v) /\ ~(k <= Len(l)) /\ k - Len(l) = Len(v)
        BY <2>2, <4>2, <4>3
      <4>5. (l \o v)[k] = v[k - Len(l)]
        BY <4>1, <4>4
      <4>6. m.text = l \o v
        BY <2>1 DEF l
      <4> QED BY <4>1, <4>3, <4>4, <4>5, <4>6 DEF Last
    <3>2. Line(m.text) = Append(m.text, "nl")
      BY <2>4, <3>1, MarksFacts DEF Line
    <3>3. Line(m.text) = l \o Append(v, "nl") /\ Append(v, "nl") \in Seq(Part)
      <4>1. Append(m.text, "nl") = m.text \o <<"nl">> /\ <<"nl">> \in Seq(Part)
        BY <1>1, PartFacts, AppendOne
      <4>2. Append(v, "nl") = v \o <<"nl">> /\ Append(v, "nl") \in Seq(Part)
        BY <2>2, PartFacts, AppendOne
      <4>3. m.text = l \o v
        BY <2>1
      <4> HIDE DEF l
      <4>4. (l \o v) \o <<"nl">> = l \o (v \o <<"nl">>)
        BY <2>2, <4>1, ConcatAssociative
      <4> QED BY <3>2, <4>1, <4>2, <4>3, <4>4
    <3>4. Whole(s, n + 1, g)
      BY <1>1, <1>4, <2>1, PartFacts, WholeMore DEF Torn
    <3>5. s \in Seq(Part) /\ m.out \o Line(m.text) = s \o Append(v, "nl")
      <4> HIDE DEF l
      <4>1. PICK w : w = Append(v, "nl")
        OBVIOUS
      <4>2. PICK o : o = m.out
        OBVIOUS
      <4>3. o \in Seq(Part) /\ l \in Seq(Part) /\ w \in Seq(Part)
        BY <1>1, <2>2, <3>3, <4>1, <4>2
      <4>4. (o \o l) \o w = o \o (l \o w)
        BY <4>3, ConcatAssociative
      <4>5. o \o l \in Seq(Part)
        BY <4>3, ConcatProperties
      <4> QED BY <3>3, <4>1, <4>2, <4>4, <4>5
    <3>6. Count(v, "nl") = 0 /\ Carries(v, g[n + 1])
      BY MarksFacts
    <3> HIDE DEF s
    <3>7. Whole(s \o Append(v, "nl"), (n + 1) + 1, g)
      <4>1. n + 1 \in Nat
        OBVIOUS
      <4> QED BY <2>2, <3>4, <3>5, <3>6, <4>1, PartFacts, WholeMore
    <3> DEFINE w == s \o Append(v, "nl")
    <3>8. w \in Seq(Part) /\ w = w \o << >>
      <4>1. w \in Seq(Part)
        BY <3>3, <3>5, ConcatProperties
      <4> HIDE DEF w
      <4> QED BY <4>1, ConcatEmptySeq
    <3> HIDE DEF w
    <3>9. (n + 1) + 1 = n + 2
      OBVIOUS
    <3>10. Keeps(w \o << >>, n, 2, g)
      <4>1. Whole(w, n + 2, g)
        BY <3>7, <3>9 DEF w
      <4> QED BY <1>2, <3>8, <4>1, KeepsWhole
    <3> QED BY <3>5, <3>8, <3>10 DEF w
  <2> QED BY <2>3, <2>4
<1> QED BY <1>3, <1>4

\* Lines that follow each other in this way are what the property asks for.
LEMMA KeepsMeans ==
  ASSUME NEW text, NEW log \in Seq(Lines), NEW t \in 0 .. Len(log), NEW e \in Nat,
         Keeps(text, t, e, Texts(log, t))
  PROVE  /\ Count(text, "nl") - t = e
         /\ \A i \in 0 .. t + (Count(text, "nl") - t) :
              Carries(LineIn(text, i), IF i \in 1 .. t THEN log[i].text ELSE << >>)
<1>1. t \in Nat
  BY LenProperties
<1>2. Count(text, "nl") - t = e /\ t + (Count(text, "nl") - t) = t + e
  BY <1>1 DEF Keeps
<1>3. ASSUME NEW i \in 0 .. t + e
      PROVE  Carries(LineIn(text, i), IF i \in 1 .. t THEN log[i].text ELSE << >>)
  <2>1. i \in Nat
    BY <1>1
  <2>2. Texts(log, t)[i] = IF i \in 1 .. t THEN log[i].text ELSE << >>
    BY <2>1, TextsFacts
  <2> QED BY <2>2 DEF Keeps
<1> QED BY <1>2, <1>3

LEMMA TakenFacts ==
  ASSUME read \in Seq(Lines), ms \in Marker, Pending
  PROVE  Taken \in 0 .. Len(read) /\ Taken \in Nat
<1>1. Len(read) \in Nat /\ (ms.pend => Len(read) # 0)
  BY LenProperties, EmptySeq DEF Pending
<1> QED BY <1>1 DEF Taken

LEMMA TextsShorter ==
  ASSUME NEW log \in Seq(Lines), NEW n \in 0 .. Len(log)
  PROVE  /\ \A i \in 0 .. n : Texts(log, n)[i] = Texts(log, Len(log))[i]
         /\ Texts(log, n)[n + 1] = << >> /\ Texts(log, n)[n + 2] = << >>
<1>1. Len(log) \in Nat /\ Len(log) \in 0 .. Len(log) /\ n \in Nat
  BY LenProperties
<1>2. \A i \in Nat : Texts(log, n)[i] = IF i \in 1 .. n THEN log[i].text ELSE << >>
  BY TextsFacts
<1>3. \A i \in Nat : Texts(log, Len(log))[i] = IF i \in 1 .. Len(log) THEN log[i].text ELSE << >>
  BY <1>1, TextsFacts
<1>4. ASSUME NEW i \in 0 .. n PROVE Texts(log, n)[i] = Texts(log, Len(log))[i]
  <2>1. i \in Nat /\ (i \in 1 .. n <=> i \in 1 .. Len(log))
    BY <1>1
  <2> QED BY <1>2, <1>3, <2>1
<1>5. n + 1 \in Nat /\ n + 1 \notin 1 .. n /\ n + 2 \in Nat /\ n + 2 \notin 1 .. n
  BY <1>1
<1> QED BY <1>2, <1>4, <1>5

LEMMA InvKeepsText ==
  ASSUME TypeInv, TextInv
  PROVE  TextIsKept
<1>1. read \in Seq(Lines) /\ ms \in Marker /\ Pending
  BY DEF TypeInv
<1>2. Taken \in 0 .. Len(read) /\ Taken \in Nat
  BY <1>1, TakenFacts
<1>3. CASE ended
  BY <1>3 DEF TextInv
<1>4. CASE ~ended
  <2>1. PICK g : g = Texts(read, Taken)
    OBVIOUS
  <2>2. (\A i \in 0 .. Taken : g[i] = Texts(read, Len(read))[i]) /\ g[Taken + 1] = << >>
    BY <1>1, <1>2, <2>1, TextsShorter
  <2>3. Stands(ms, Taken, g)
    <3>1. Stands(ms, Taken, Texts(read, Len(read)))
      BY <1>4 DEF TextInv
    <3> QED BY <1>2, <2>2, <3>1, StandsSame
  <2>4. CASE ms.err
    <3>1. Keeps(ms.out \o ms.text, Taken, 1, g)
      BY <1>1, <1>2, <2>2, <2>3, <2>4, TornKeeps DEF Stands
    <3> QED BY <1>1, <1>2, <2>1, <2>4, <3>1, KeepsMeans DEF TextIsKept
  <2>5. CASE ~ms.err
    <3>1. Taken + 0 = Taken
      BY <1>2
    <3>2. Keeps(ms.out \o ms.text, Taken, 0, g)
      BY <1>1, <1>2, <2>3, <2>5, <3>1, KeepsWhole DEF Stands, Back, Marker
    <3> QED BY <1>1, <1>2, <1>4, <2>1, <2>5, <3>2, KeepsMeans DEF TextIsKept
  <2> QED BY <2>4, <2>5
<1> QED BY <1>3, <1>4

LEMMA FinishText ==
  ASSUME TypeInv, TextInv, Finish, TypeInv'
  PROVE  TextInv'
<1>1. ~ended /\ ended' = TRUE /\ read' = read
  BY DEF Finish
<1>2. PICK ok1 \in Oks, ok2 \in Oks :
        ms' = Flush(CloseAll([NextLine(ms, ok1) EXCEPT !.pend = NextLine(ms, ok1).err /\ @]), ok2)
  BY DEF Finish
<1>3. ok1 \in BOOLEAN /\ ok2 \in BOOLEAN
  BY DEF Oks
<1>4. ms \in Marker /\ read \in Seq(Lines) /\ Pending /\ Len(read) \in Nat
  BY LenProperties DEF TypeInv
<1>5. PICK n : n = NextLine(ms, ok1)
  OBVIOUS
<1>6. PICK k : k = Len(read) - (IF n.pend THEN 1 ELSE 0)
  OBVIOUS
<1>7. /\ k \in 0 .. Len(read) /\ (n.pend => n.err)
      /\ Stands(n, k, Texts(read, Len(read)))
  BY <1>1, <1>3, <1>5, <1>6, NextText
<1>8. n \in Marker
  <2>1. ms.pend => ms.cur \in Lines
    <3>1. ms.pend => read # << >> /\ ms.cur = Last(read) /\ Len(read) \in 1 .. Len(read)
      BY <1>4, LenProperties, EmptySeq DEF Pending
    <3> QED BY <1>4, <3>1, ElementOfSeq DEF Last
  <2> QED BY <1>3, <1>4, <1>5, <2>1, NextLineFacts
<1>9. PICK p : p = [n EXCEPT !.pend = n.err /\ n.pend]
  OBVIOUS
<1>10. /\ p \in Marker /\ p.err = n.err /\ p.pend = n.pend /\ p.text = n.text /\ p.out = n.out
  <2>1. n.err \in BOOLEAN /\ n.pend \in BOOLEAN
    BY <1>8 DEF Marker
  <2>2. n.pend = (n.err /\ n.pend)
    BY <1>7, <2>1
  <2>3. p = [n EXCEPT !.pend = n.pend]
    BY <1>9, <2>2
  <2> HIDE <1>9
  <2> QED BY <1>8, <2>1, <2>3 DEF Marker
<1>11. ms' = Flush(CloseAll(p), ok2)
  BY <1>2, <1>5, <1>9
<1>12. PICK c : c = CloseAll(p)
  OBVIOUS
<1>13. c \in Marker /\ c.err = p.err /\ c.pend = p.pend
  BY <1>10, <1>12, CloseAllFacts
<1>14. /\ ms'.pend = c.pend /\ ms'.err = (c.err \/ ~ok2)
       /\ ms'.out \o ms'.text = c.out \o Line(c.text)
  <2>1. /\ ms'.pend = c.pend
        /\ ok2 => ms'.text = << >> /\ ms'.out = c.out \o Line(c.text) /\ ms'.err = c.err
        /\ ~ok2 => ms'.text = Line(c.text) /\ ms'.out = c.out /\ ms'.err = TRUE
    BY <1>3, <1>11, <1>12, <1>13, FlushFacts
  <2>2. c.err \in BOOLEAN
    BY <1>13 DEF Marker
  <2>3. CASE ok2
    <3>1. c.out \o Line(c.text) \in Seq(Part)
      <4>1. c.out \in Seq(Part) /\ c.text \in Seq(Part)
        BY <1>13 DEF Marker
      <4> QED BY <4>1, LineFacts, ConcatProperties
    <3>2. (c.out \o Line(c.text)) \o << >> = c.out \o Line(c.text)
      BY <3>1, ConcatEmptySeq
    <3>3. ms'.err = (c.err \/ ~ok2)
      BY <2>1, <2>2, <2>3
    <3> QED BY <2>1, <2>3, <3>2, <3>3
  <2>4. CASE ~ok2
    <3>1. ms'.err = (c.err \/ ~ok2)
      BY <2>1, <2>2, <2>4
    <3> QED BY <2>1, <2>4, <3>1
  <2> QED BY <1>3, <2>3, <2>4
<1>15. Taken' = k
  BY <1>1, <1>6, <1>10, <1>13, <1>14 DEF Taken
<1>16. PICK g : g = Texts(read, k)
  OBVIOUS
<1>17. /\ k \in Nat /\ \A i \in 0 .. k : g[i] = Texts(read, Len(read))[i]
       /\ g[k + 1] = << >> /\ g[k + 2] = << >> /\ g[k] \in Seq(Part)
  <2>1. k \in Nat
    BY <1>4, <1>7
  <2>2. g[k] \in Seq(Part)
    BY <1>4, <1>7, <1>16, <2>1, TextsFacts
  <2> QED BY <1>4, <1>7, <1>16, <2>1, <2>2, TextsShorter
<1>18. Stands(p, k, g)
  <2>1. Stands(n, k, g)
    BY <1>7, <1>17, StandsSame
  <2> QED BY <1>10, <2>1 DEF Stands, Torn, Back
<1>19. /\ ~c.err => Back(c, k, g)
       /\ Torn(c, k, g) \/ Back(c, k, g)
  BY <1>10, <1>12, <1>13, <1>17, <1>18, CloseAllText DEF Stands
<1> DEFINE text == c.out \o Line(c.text)
<1>20. /\ Keeps(text, k, 1, g) \/ Keeps(text, k, 2, g)
       /\ Back(c, k, g) => Keeps(text, k, 1, g)
  BY <1>13, <1>17, <1>19, FlushKeeps
<1> HIDE DEF text
<1>21. ms'.out \o ms'.text = text
  BY <1>14 DEF text
<1>22. \E e \in {1, 2} : Keeps(ms'.out \o ms'.text, Taken', e, g) /\ (~ms'.err => e = 1)
  <2>1. CASE ~ms'.err
    <3>1. ~c.err
      BY <1>14, <2>1
    <3> QED BY <1>15, <1>19, <1>20, <1>21, <3>1
  <2>2. CASE ms'.err
    BY <1>15, <1>20, <1>21, <2>2
  <2> QED BY <2>1, <2>2
<1>23. PICK e \in {1, 2} : Keeps(ms'.out \o ms'.text, Taken', e, g) /\ (~ms'.err => e = 1)
  BY <1>22
<1>24. TextIsKept'
  <2>1. read' \in Seq(Lines) /\ Taken' \in 0 .. Len(read') /\ e \in Nat
    BY <1>1, <1>4, <1>7, <1>15
  <2>2. Keeps(ms'.out \o ms'.text, Taken', e, Texts(read', Taken'))
    BY <1>1, <1>15, <1>16, <1>23
  <2>3. PICK t : t = Taken'
    OBVIOUS
  <2>4. PICK full : full = ms'.out \o ms'.text
    OBVIOUS
  <2>5. /\ Count(full, "nl") - t = e
        /\ \A i \in 0 .. t + (Count(full, "nl") - t) :
             Carries(LineIn(full, i), IF i \in 1 .. t THEN read'[i].text ELSE << >>)
    BY <2>1, <2>2, <2>3, <2>4, KeepsMeans
  <2>6. IF ms'.err THEN e \in {1, 2} ELSE e = IF ended' THEN 1 ELSE 0
    BY <1>1, <1>23
  <2> QED BY <2>3, <2>4, <2>5, <2>6 DEF TextIsKept
<1> QED BY <1>1, <1>24 DEF TextInv

LEMMA InitText == Init => TextInv
<1> SUFFICES ASSUME Init PROVE TextInv
  OBVIOUS
<1>1. ms.pend = FALSE /\ ms.text = << >> /\ ms.out = << >> /\ ms.err = FALSE
  BY DEF Init
<1>2. ended = FALSE /\ read = << >> /\ Len(read) = 0
  BY DEF Init
<1>3. Taken = 0
  BY <1>1, <1>2 DEF Taken
<1>4. PICK f : f = Texts(read, Len(read))
  OBVIOUS
<1>5. f[0] = << >>
  BY <1>2, <1>4 DEF Texts
<1>6. << >> \in Seq(Part) /\ Count(<< >>, "nl") = 0 /\ Whole(<< >>, 0, f)
  BY EmptySeq, CountEmpty, WholeEmpty
<1>7. Carries(<< >>, << >>)
  BY <1>6, CarriesItself
<1>8. Stands(ms, 0, f)
  BY <1>1, <1>5, <1>6, <1>7 DEF Stands, Back
<1> QED BY <1>2, <1>3, <1>4, <1>8 DEF TextInv

LEMMA NextKeepsText == TypeInv /\ TextInv /\ [Next]_vars /\ TypeInv' => TextInv'
<1> SUFFICES ASSUME TypeInv, TextInv, [Next]_vars, TypeInv' PROVE TextInv'
  OBVIOUS
<1>1. CASE ScanLine
  BY <1>1, ScanLineText
<1>2. CASE Finish
  BY <1>2, FinishText
<1>3. CASE UNCHANGED vars
  BY <1>3 DEF vars, TextInv, TextIsKept, Taken
<1> QED BY <1>1, <1>2, <1>3 DEF Next
----------------------------------------------------------------------------
(* The theorems.                                                           *)

\* No fold is left open when the worker has closed its output, whatever it has
\* read and by whichever scanners, unless a write failed or the log had marks
\* of its own (scanner.go: markScanner.Close, closeMark).
THEOREM FoldsAreClosed == Spec => []EveryFoldIsClosed
<1>1. TypeInv /\ FoldInv => EveryFoldIsClosed
  BY DEF TypeInv, FoldInv, EveryFoldIsClosed
<1> QED BY <1>1, FoldInvHolds, PTL

\* In the trace of a machine that steps the folds are the places: a line begins
\* outside of all folds, in that of its place or two deep, as the scans before it
\* say, and at the end none is open (main.go: locScanner; scanner.go: markBuffer).
THEOREM PlacesAreFollowed == Spec => []FoldsFollowPlaces
<1>1. TypeInv /\ PlaceInv => FoldsFollowPlaces
  <2> SUFFICES ASSUME TypeInv, PlaceInv, Calm
               PROVE  /\ \A i \in 1 .. Taken :
                           DepthAt(i) = CASE PlaceBefore(i) = "" -> 0
                                          [] PlaceBefore(i) # "" /\ read[i].kind # "scan" -> 2
                                          [] OTHER -> IF read[i].id = PlaceBefore(i) THEN 1 ELSE 0
                      /\ ended /\ read # << >> /\ Last(read).kind # "scan" => Depth(ms.out) = 0
    BY DEF FoldsFollowPlaces, Calm
  <2>1. PlacesOk(read, ms.out, Taken)
    BY DEF PlaceInv
  <2>2. ms.out \in Seq(Part) /\ ms.text \in Seq(Part)
    BY DEF TypeInv, Marker
  <2>3. ASSUME NEW i \in 1 .. Taken PROVE DepthAt(i) = Target(read, i)
    <3> DEFINE text == ms.out \o ms.text
    <3>1. Starts(ms.out, i, Target(read, i))
      BY <2>1 DEF PlacesOk
    <3>2. text \in Seq(Part) /\ Starts(text, i, Target(read, i))
      BY <2>2, <3>1, StartsConcat, ConcatProperties
    <3>3. i # 0
      BY LenProperties DEF TypeInv, Taken
    <3>4. DepthAt(i) = Depth(SubSeq(text, 1, CHOOSE p \in DOMAIN text :
                              text[p] = "nl" /\ Count(SubSeq(text, 1, p), "nl") = i))
      BY <3>3 DEF DepthAt, Feed
    <3> HIDE DEF text
    <3> QED BY <3>2, <3>4, StartsOnce
  <2>4. ASSUME NEW i \in 1 .. Taken
        PROVE  Target(read, i) = CASE PlaceBefore(i) = "" -> 0
                                   [] PlaceBefore(i) # "" /\ read[i].kind # "scan" -> 2
                                   [] OTHER -> IF read[i].id = PlaceBefore(i) THEN 1 ELSE 0
    <3>1. PlaceBefore(i) = PlaceIn(read, i)
      BY DEF PlaceBefore, PlaceIn, ScansIn, NoPlace
    <3>2. PICK e : e = ""
      OBVIOUS
    <3>3. e = NoPlace
      BY <3>2, Zenon DEF NoPlace
    <3>4. Target(read, i) = CASE PlaceBefore(i) = e -> 0
                              [] PlaceBefore(i) # e /\ read[i].kind # "scan" -> 2
                              [] OTHER -> IF read[i].id = PlaceBefore(i) THEN 1 ELSE 0
      <4> HIDE <3>2
      <4> QED BY <3>1, <3>3 DEF Target
    <3> QED BY <3>2, <3>4, Zenon
  <2> QED BY <2>3, <2>4 DEF PlaceInv
<1> QED BY <1>1, FoldInvHolds, PlaceInvHolds, PTL

\* In the text that a worker has written and keeps back every line that it took
\* follows a line feed, with nothing but marks behind it, and nothing else is
\* added: whatever the lines are, whichever scanners run, and when a write fails
\* (scanner.go: markScanner.Next, markBuffer.closeMark, lineBuffer.WriteTo).
THEOREM TextStays == Spec => []TextIsKept
<1>1. TypeInv /\ TextInv => TextIsKept
  BY InvKeepsText
<1>2. Init => TextInv
  BY InitText
<1>3. TypeInv /\ TextInv /\ [Next]_vars /\ TypeInv' => TextInv'
  BY NextKeepsText
<1> QED BY <1>1, <1>2, <1>3, FoldInvHolds, PTL DEF Spec
=============================================================================
