------------------------ MODULE TraceLogLinesProofs ------------------------
(***************************************************************************)
(* Theorems about TraceLog: what becomes of the lines, for any goroutines  *)
(* and calls, any number of workers, and whatever fails.                   *)
(***************************************************************************)
EXTENDS TraceLogProofs

\* What the workers and the pipes hold when a worker starts, and what cannot
\* be in them: pend is NoLine where there is no line, and nothing else is.
NewInv ==
  \A k \in DOMAIN Workers : Is(k, "new") =>
    /\ unread[Workers[k]] = << >> /\ pend[Workers[k]] = NoLine /\ held[Workers[k]] = Blank
    /\ ~werr[Workers[k]] /\ pipe[Workers[k]].data = << >>
    /\ ~pipe[Workers[k]].rclosed /\ ~pipe[Workers[k]].wclosed
Plain(l) == Position(l) = 0 => l = Blank
AllPlain(s) == \A l \in ToSet(s) : Plain(l)
PlainInv ==
  /\ AllPlain(shown) /\ AllPlain(buf)
  /\ \A k \in DOMAIN Workers :
       /\ AllPlain(unread[Workers[k]]) /\ AllPlain(pipe[Workers[k]].data)
       /\ Plain(held[Workers[k]])
       /\ pend[Workers[k]] # NoLine => Plain(pend[Workers[k]])
       /\ Is(k, "read") => pend[Workers[k]] = NoLine
       /\ Is(k, "flush, read") \/ Is(k, "flush, scan") => pend[Workers[k]] # NoLine
CopyInv ==
  /\ \A c \in Clients : putting[c] => pipe[out].data \in {buf, << >>}
  /\ \A k \in DOMAIN Workers : putting[Workers[k]] =>
       pipe[target[Workers[k]]].data \in {<<held[Workers[k]]>>, << >>}
Contents == NewInv /\ PlainInv /\ CopyInv

\* Where lines are on their way, from the output to the buffer: in each worker
\* the line kept back until it has gone, the one scanned, and those read.
Working == {"scan", "read"} \union Flushes
IsWorking(k) == \E s \in Working : Is(k, s)
HasPut(p, d) == putting[p] /\ pipe[d].data = << >>
Real(S) == {l \in S : Position(l) > 0}
HeldAt(k) ==
  IF IsWorking(k) /\ ~HasPut(Workers[k], target[Workers[k]]) THEN {held[Workers[k]]} ELSE {}
PendAt(k) == IF IsWorking(k) THEN {pend[Workers[k]]} ELSE {}
ReadAt(k) == IF IsWorking(k) THEN ToSet(unread[Workers[k]]) ELSE {}
In(k) == HeldAt(k) \union PendAt(k) \union ReadAt(k)
BufAt == IF \E c \in Clients : HasPut(c, out) THEN {} ELSE ToSet(buf)

Precede(S, T) == \A x \in Real(S), y \in Real(T) : Position(x) < Position(y)
Sorted(s) ==
  \A i, j \in DOMAIN s :
    i < j /\ Position(s[i]) > 0 /\ Position(s[j]) > 0 => Position(s[i]) < Position(s[j])
Known(S) == Real(S) \subseteq ToSet(logged)

\* The places in order: the output, the workers, the buffer.
Buffer == Len(Workers) + 1
Spots == 0 .. Buffer
Place(m) == IF m = 0 THEN ToSet(shown) ELSE IF m \in DOMAIN Workers THEN In(m) ELSE BufAt

\* The lines come from the calls, and the places on their way are in order.
KnownInv ==
  /\ \A i \in DOMAIN logged : Position(logged[i]) = i
  /\ \A m \in Spots : Known(Place(m))
AcrossInv == \A i, j \in Spots : i < j => Precede(Place(i), Place(j))
Inner(k) ==
  /\ Precede(HeldAt(k), PendAt(k)) /\ Precede(HeldAt(k), ReadAt(k))
  /\ Precede(PendAt(k), ReadAt(k))
  /\ Sorted(unread[Workers[k]])
InnerInv == Sorted(shown) /\ Sorted(buf) /\ \A k \in DOMAIN Workers : Inner(k)
Flow == KnownInv /\ AcrossInv /\ InnerInv

\* Nothing is dropped: a worker that ends without an error has passed on all that
\* there was, its pipe having been closed, and writes go to open pipes.
NoFailure == ~broken /\ \A k \in DOMAIN Workers : ~werr[Workers[k]]
EndingInv ==
  \A k \in DOMAIN Workers : (\E s \in Ending : Is(k, s)) =>
    \/ werr[Workers[k]]
    \/ /\ pipe[Workers[k]].wclosed /\ pipe[Workers[k]].data = << >>
       /\ Is(k, "flush, close") => unread[Workers[k]] = << >> /\ pend[Workers[k]] = NoLine
ClosedInv ==
  \A k \in DOMAIN Workers :
    /\ pipe[Workers[k]].wclosed =>
         \/ Top(k) /\ fallback = None
         \/ Is(k, "gone")
         \/ k < Len(Workers) /\ Is(k + 1, "close")
    /\ pipe[Workers[k]].rclosed => Is(k, "send") \/ Is(k, "gone")
OnTheWay == UNION {Place(m) : m \in Spots}
KeptInv ==
  NoFailure =>
    /\ ToSet(logged) \subseteq OnTheWay
    /\ buf # << >> => \E c \in Clients : \E what \in Printfs : Doing(c, what)

\* The error that is being reported is the last line of the log, then of the output.
EndsInError(s) == s # << >> /\ Last(s)[1] = "ERROR" /\ Last(s) = Last(logged)
LastInv ==
  \A c \in Clients :
    /\ Doing(c, "errorf") => EndsInError(buf)
    /\ Doing(c, "code 1") \/ Doing(c, "code 2") => broken \/ EndsInError(shown)
----------------------------------------------------------------------------
(* Sequences of lines.                                                     *)

LEMMA SetOfAppend ==
  ASSUME NEW S, NEW s \in Seq(S), NEW x \in S
  PROVE  ToSet(Append(s, x)) = ToSet(s) \union {x}
<1>1. PICK n \in Nat : n = Len(s)  OBVIOUS
<1>2. PICK t \in Seq(S) : t = Append(s, x)  BY AppendProperties
<1>3. Len(t) = n + 1 /\ t[n + 1] = x /\ \A i \in 1 .. n : t[i] = s[i]
  BY <1>1, <1>2, AppendProperties
<1>4. DOMAIN s = 1 .. n /\ DOMAIN t = 1 .. n + 1  BY <1>1, <1>3
<1>5. \A i \in 1 .. n + 1 : i \in 1 .. n \/ i = n + 1  BY <1>1
<1>6. \A i \in 1 .. n : i \in 1 .. n + 1  BY <1>1
<1>7. n + 1 \in 1 .. n + 1  BY <1>1
<1>8. ToSet(t) = ToSet(s) \union {x}  BY <1>3, <1>4, <1>5, <1>6, <1>7 DEF ToSet
<1> QED  BY <1>2, <1>8

LEMMA SetOfConcat ==
  ASSUME NEW S, NEW s \in Seq(S), NEW t \in Seq(S)
  PROVE  ToSet(s \o t) = ToSet(s) \union ToSet(t)
<1>1. PICK n \in Nat, m \in Nat : n = Len(s) /\ m = Len(t)  OBVIOUS
<1>2. PICK u \in Seq(S) : u = s \o t  BY ConcatProperties
<1>3. /\ Len(u) = n + m /\ \A i \in 1 .. n : u[i] = s[i]
      /\ \A i \in 1 .. m : u[n + i] = t[i]
  BY <1>1, <1>2, ConcatProperties
<1>4. DOMAIN s = 1 .. n /\ DOMAIN t = 1 .. m /\ DOMAIN u = 1 .. n + m  BY <1>1, <1>3
<1>5. \A i \in 1 .. n + m : i \in 1 .. n \/ \E j \in 1 .. m : i = n + j
  <2>1. \A i \in 1 .. n + m : i \in 1 .. n \/ (i - n \in 1 .. m /\ i = n + (i - n))
    BY <1>1
  <2> QED  BY <2>1
<1>6. \A i \in 1 .. n : i \in 1 .. n + m  BY <1>1
<1>7. \A i \in 1 .. m : n + i \in 1 .. n + m  BY <1>1
<1>8. ToSet(u) \subseteq ToSet(s) \union ToSet(t)
  <2>1. ASSUME NEW i \in 1 .. n + m PROVE u[i] \in ToSet(s) \union ToSet(t)
    <3>1. CASE i \in 1 .. n  BY <1>3, <1>4, <3>1 DEF ToSet
    <3>2. CASE \E j \in 1 .. m : i = n + j  BY <1>3, <1>4, <3>2 DEF ToSet
    <3> QED  BY <1>5, <3>1, <3>2
  <2> QED  BY <1>4, <2>1 DEF ToSet
<1>9. ToSet(s) \subseteq ToSet(u)  BY <1>3, <1>4, <1>6 DEF ToSet
<1>10. ToSet(t) \subseteq ToSet(u)  BY <1>3, <1>4, <1>7 DEF ToSet
<1> QED  BY <1>2, <1>8, <1>9, <1>10

LEMMA SetOfFew ==
  /\ ToSet(<< >>) = {}
  /\ \A x : ToSet(<<x>>) = {x}
<1>1. DOMAIN << >> = {}  OBVIOUS
<1>2. ToSet(<< >>) = {}  BY <1>1 DEF ToSet
<1>3. ASSUME NEW x PROVE ToSet(<<x>>) = {x}
  <2>1. DOMAIN <<x>> = {1} /\ <<x>>[1] = x  OBVIOUS
  <2> QED  BY <2>1 DEF ToSet
<1> QED  BY <1>2, <1>3

LEMMA SetOfOneMore ==
  ASSUME NEW S, NEW s \in Seq(S), NEW x \in S
  PROVE  ToSet(s \o <<x>>) = ToSet(s) \union {x}
<1>1. PICK t \in Seq(S) : t = <<x>>  BY Tuples
<1>2. ToSet(t) = {x}  BY <1>1, SetOfFew
<1>3. ToSet(s \o t) = ToSet(s) \union ToSet(t)  BY SetOfConcat
<1> QED  BY <1>1, <1>2, <1>3

LEMMA SetOfRest ==
  ASSUME NEW S, NEW s \in Seq(S), s # << >>
  PROVE  ToSet(s) = {Head(s)} \union ToSet(Tail(s))
<1>1. PICK n \in Nat : n = Len(s) /\ n >= 1  OBVIOUS
<1>2. PICK t \in Seq(S) : t = Tail(s)  BY HeadTailProperties
<1>3. Head(s) = s[1] /\ Len(t) = n - 1 /\ \A i \in 1 .. n - 1 : t[i] = s[i + 1]
  BY <1>1, <1>2, HeadTailProperties
<1>4. DOMAIN s = 1 .. n /\ DOMAIN t = 1 .. n - 1  BY <1>1, <1>3
<1>5. \A i \in 1 .. n : i = 1 \/ \E j \in 1 .. n - 1 : i = j + 1
  <2>1. \A i \in 1 .. n : i = 1 \/ (i - 1 \in 1 .. n - 1 /\ i = (i - 1) + 1)  BY <1>1
  <2> QED  BY <2>1
<1>6. 1 \in 1 .. n /\ \A i \in 1 .. n - 1 : i + 1 \in 1 .. n  BY <1>1
<1>7. ToSet(s) \subseteq {Head(s)} \union ToSet(t)
  <2>1. ASSUME NEW i \in 1 .. n PROVE s[i] \in {Head(s)} \union ToSet(t)
    <3>1. CASE i = 1  BY <1>3, <3>1
    <3>2. CASE \E j \in 1 .. n - 1 : i = j + 1  BY <1>3, <1>4, <3>2 DEF ToSet
    <3> QED  BY <1>5, <3>1, <3>2
  <2> QED  BY <1>4, <2>1 DEF ToSet
<1>8. ToSet(t) \subseteq ToSet(s) /\ Head(s) \in ToSet(s)
  <2>1. ASSUME NEW i \in 1 .. n - 1 PROVE t[i] \in ToSet(s)
    BY <1>3, <1>4, <1>6, <2>1 DEF ToSet
  <2>2. Head(s) \in ToSet(s)  BY <1>3, <1>4, <1>6 DEF ToSet
  <2> QED  BY <1>4, <2>1, <2>2 DEF ToSet
<1> QED  BY <1>2, <1>7, <1>8

LEMMA Positions == \A l \in Lines : Position(l) \in Nat
BY DEF Lines, Position

LEMMA NoPositions ==
  /\ Position(NoLine) = 0 /\ Position(Blank) = 0 /\ NoLine # Blank
  /\ NoLine \in Lines /\ Blank \in Lines
BY DEF NoLine, Blank, Position, Lines

LEMMA SortedAppend ==
  ASSUME NEW s \in Seq(Lines), NEW x \in Lines, Sorted(s), Precede(ToSet(s), {x})
  PROVE  Sorted(Append(s, x))
<1>1. PICK n \in Nat : n = Len(s)  OBVIOUS
<1>2. PICK t \in Seq(Lines) : t = Append(s, x)  BY AppendProperties
<1>3. Len(t) = n + 1 /\ t[n + 1] = x /\ \A i \in 1 .. n : t[i] = s[i]
  BY <1>1, <1>2, AppendProperties
<1>4. DOMAIN s = 1 .. n /\ DOMAIN t = 1 .. n + 1  BY <1>1, <1>3
<1>5. ASSUME NEW i \in 1 .. n + 1, NEW j \in 1 .. n + 1, i < j,
             Position(t[i]) > 0, Position(t[j]) > 0
      PROVE  Position(t[i]) < Position(t[j])
  <2>1. i \in 1 .. n /\ t[i] = s[i]  BY <1>1, <1>3, <1>5
  <2>2. CASE j = n + 1
    <3>1. s[i] \in Real(ToSet(s)) /\ x \in Real({x})
      BY <1>3, <1>4, <1>5, <2>1, <2>2 DEF Real, ToSet
    <3> QED  BY <1>3, <2>1, <2>2, <3>1 DEF Precede
  <2>3. CASE j # n + 1
    <3>1. j \in 1 .. n /\ t[j] = s[j]  BY <1>1, <1>3, <1>5, <2>3
    <3> QED  BY <1>4, <1>5, <2>1, <3>1 DEF Sorted
  <2> QED  BY <2>2, <2>3
<1>6. Sorted(t)  BY <1>4, <1>5 DEF Sorted
<1> QED  BY <1>2, <1>6

LEMMA SortedConcat ==
  ASSUME NEW s \in Seq(Lines), NEW t \in Seq(Lines), Sorted(s), Sorted(t),
         Precede(ToSet(s), ToSet(t))
  PROVE  Sorted(s \o t)
<1>1. PICK n \in Nat, m \in Nat : n = Len(s) /\ m = Len(t)  OBVIOUS
<1>2. PICK u \in Seq(Lines) : u = s \o t  BY ConcatProperties
<1>3. /\ Len(u) = n + m /\ \A i \in 1 .. n : u[i] = s[i]
      /\ \A i \in 1 .. m : u[n + i] = t[i]
  BY <1>1, <1>2, ConcatProperties
<1>4. DOMAIN s = 1 .. n /\ DOMAIN t = 1 .. m /\ DOMAIN u = 1 .. n + m  BY <1>1, <1>3
<1>5. \A i \in 1 .. n + m : i \in 1 .. n \/ \E j \in 1 .. m : i = n + j
  <2>1. \A i \in 1 .. n + m : i \in 1 .. n \/ (i - n \in 1 .. m /\ i = n + (i - n))
    BY <1>1
  <2> QED  BY <2>1
<1>6. ASSUME NEW i \in 1 .. n + m, NEW j \in 1 .. n + m, i < j,
             Position(u[i]) > 0, Position(u[j]) > 0
      PROVE  Position(u[i]) < Position(u[j])
  <2>1. CASE i \in 1 .. n /\ j \in 1 .. n  BY <1>3, <1>4, <1>6, <2>1 DEF Sorted
  <2>2. CASE i \in 1 .. n /\ j \notin 1 .. n
    <3>1. PICK h \in 1 .. m : j = n + h  BY <1>5, <2>2
    <3>2. u[j] = t[h] /\ u[i] = s[i]  BY <1>3, <2>2, <3>1
    <3>3. s[i] \in Real(ToSet(s)) /\ t[h] \in Real(ToSet(t))
      BY <1>4, <1>6, <2>2, <3>1, <3>2 DEF Real, ToSet
    <3> QED  BY <3>2, <3>3 DEF Precede
  <2>3. CASE i \notin 1 .. n /\ j \in 1 .. n  BY <1>1, <1>6, <2>3
  <2>4. CASE i \notin 1 .. n /\ j \notin 1 .. n
    <3>1. PICK g \in 1 .. m : i = n + g  BY <1>5, <2>4
    <3>2. PICK h \in 1 .. m : j = n + h  BY <1>5, <2>4
    <3>3. g < h  BY <1>1, <1>6, <3>1, <3>2
    <3>4. u[i] = t[g] /\ u[j] = t[h]  BY <1>3, <3>1, <3>2
    <3> QED  BY <1>4, <1>6, <3>3, <3>4 DEF Sorted
  <2> QED  BY <2>1, <2>2, <2>3, <2>4
<1>7. Sorted(u)  BY <1>4, <1>6 DEF Sorted
<1> QED  BY <1>2, <1>7

LEMMA SortedRest ==
  ASSUME NEW s \in Seq(Lines), s # << >>, Sorted(s)
  PROVE  Sorted(Tail(s)) /\ Precede({Head(s)}, ToSet(Tail(s)))
<1>1. PICK n \in Nat : n = Len(s) /\ n >= 1  OBVIOUS
<1>2. PICK t \in Seq(Lines) : t = Tail(s)  BY HeadTailProperties
<1>3. Head(s) = s[1] /\ Len(t) = n - 1 /\ \A i \in 1 .. n - 1 : t[i] = s[i + 1]
  BY <1>1, <1>2, HeadTailProperties
<1>4. DOMAIN s = 1 .. n /\ DOMAIN t = 1 .. n - 1  BY <1>1, <1>3
<1>5. \A i \in 1 .. n - 1 : i + 1 \in 1 .. n /\ 1 < i + 1  BY <1>1
<1>6. Sorted(t)
  <2>1. ASSUME NEW i \in 1 .. n - 1, NEW j \in 1 .. n - 1, i < j,
               Position(t[i]) > 0, Position(t[j]) > 0
        PROVE  Position(t[i]) < Position(t[j])
    <3>1. i + 1 < j + 1 /\ t[i] = s[i + 1] /\ t[j] = s[j + 1]  BY <1>1, <1>3, <2>1
    <3> QED  BY <1>4, <1>5, <2>1, <3>1 DEF Sorted
  <2> QED  BY <1>4, <2>1 DEF Sorted
<1>7. Precede({Head(s)}, ToSet(t))
  <2> SUFFICES ASSUME NEW i \in 1 .. n - 1, Position(Head(s)) > 0, Position(t[i]) > 0
               PROVE  Position(Head(s)) < Position(t[i])
    BY <1>4 DEF Precede, Real, ToSet
  <2>1. 1 \in 1 .. n  BY <1>1
  <2> QED  BY <1>3, <1>4, <1>5, <2>1 DEF Sorted
<1> QED  BY <1>2, <1>6, <1>7

LEMMA SortedOne == \A x : Sorted(<<x>>)
<1> SUFFICES ASSUME NEW x PROVE Sorted(<<x>>)  OBVIOUS
<1>1. DOMAIN <<x>> = {1}  OBVIOUS
<1> QED  BY <1>1 DEF Sorted
----------------------------------------------------------------------------
(* The steps that leave the lines where they are.                          *)

Quiet ==
  /\ UNCHANGED <<shown, buf, logged, putting, unread, pend, held>>
  /\ (\E c \in Clients : putting[c]) => UNCHANGED out
  /\ \A k \in DOMAIN Workers :
       /\ pipe'[Workers[k]].data = pipe[Workers[k]].data
       /\ putting[Workers[k]] => target'[Workers[k]] = target[Workers[k]]
       /\ IsWorking(k)' <=> IsWorking(k)
       /\ Is(k, "new")' =>
            /\ Is(k, "new") /\ werr'[Workers[k]] = werr[Workers[k]]
            /\ pipe'[Workers[k]].rclosed = pipe[Workers[k]].rclosed
            /\ pipe'[Workers[k]].wclosed = pipe[Workers[k]].wclosed
       /\ Is(k, "read")' => Is(k, "read") \/ pend[Workers[k]] = NoLine
       /\ Is(k, "flush, read")' => Is(k, "flush, read") \/ pend[Workers[k]] # NoLine
       /\ Is(k, "flush, scan")' => Is(k, "flush, scan") \/ pend[Workers[k]] # NoLine

\* where they write to while they are in a write
LEMMA WritesTo ==
  ASSUME Types, Chain, Blocked
  PROVE  /\ \A c \in Clients : putting[c] => \E k \in DOMAIN Workers : Top(k) /\ out = Workers[k]
         /\ \A k \in DOMAIN Workers : putting[Workers[k]] =>
              /\ k > 1 /\ k - 1 \in DOMAIN Workers /\ target[Workers[k]] = Workers[k - 1]
              /\ Live(k) /\ Live(k - 1) /\ \E f \in Flushes : Is(k, f)
<1>1. ASSUME NEW c \in Clients, putting[c]
      PROVE  \E k \in DOMAIN Workers : Top(k) /\ out = Workers[k]
  <2>1. out # Base  BY <1>1 DEF Blocked, PutInv
  <2>2. fallback # None  BY <2>1 DEF Types, Shapes
  <2> QED  BY <2>2 DEF Chain, OutInv
<1>2. ASSUME NEW k \in DOMAIN Workers, putting[Workers[k]]
      PROVE  /\ k > 1 /\ k - 1 \in DOMAIN Workers /\ target[Workers[k]] = Workers[k - 1]
             /\ Live(k) /\ Live(k - 1) /\ \E f \in Flushes : Is(k, f)
  <2>1. PICK f \in Flushes : Is(k, f)  BY <1>2 DEF Blocked, PutInv
  <2>2. target[Workers[k]] # Base  BY <1>2 DEF Blocked, PutInv
  <2>3. Live(k)  BY <2>1, OneState DEF Live, Flushes
  <2> QED  BY <2>1, <2>2, <2>3, FlushesTo
<1> QED  BY <1>1, <1>2

LEMMA WorkingStates ==
  \A k : /\ Is(k, "new") \/ Is(k, "close") \/ Is(k, "send") \/ Is(k, "gone") => ~IsWorking(k)
         /\ \A s \in Working : Is(k, s) => IsWorking(k)
         /\ IsWorking(k) => Live(k) /\ ~Is(k, "new")
<1> SUFFICES ASSUME NEW k
             PROVE  /\ Is(k, "new") \/ Is(k, "close") \/ Is(k, "send") \/ Is(k, "gone")
                         => ~IsWorking(k)
                    /\ \A s \in Working : Is(k, s) => IsWorking(k)
                    /\ IsWorking(k) => Live(k) /\ ~Is(k, "new")
  OBVIOUS
<1>1. /\ "new" \notin Working /\ "close" \notin Working
      /\ "send" \notin Working /\ "gone" \notin Working
  BY DEF Working, Flushes
<1> QED  BY <1>1, OneState DEF IsWorking, Live

LEMMA WorkingIsLive == ASSUME NEW k, IsWorking(k) PROVE Live(k) /\ ~Is(k, "new")
BY OneState DEF IsWorking, Live, Working, Flushes

LEMMA FlushingIsWorking == ASSUME NEW k, NEW f \in Flushes, Is(k, f) PROVE IsWorking(k)
BY DEF IsWorking, Working

LEMMA OneWayOn ==
  ASSUME NEW k, NEW x, NEW y, NEW u, NEW v, GoesOn(k, x, y), GoesOn(k, u, v)
  PROVE  x = u /\ y = v
<1>1. \A a, b : <<a>> = <<b>> => a = b  OBVIOUS
<1>2. Is(k, x) /\ Is(k, u) /\ todo'[Workers[k]] = <<y>> /\ todo'[Workers[k]] = <<v>>
  BY DEF GoesOn, OnlyTodo
<1> QED  BY <1>1, <1>2 DEF Is

\* a worker whose state stays is as quiet as what it holds
LEMMA SameState ==
  ASSUME NEW k, todo'[Workers[k]] = todo[Workers[k]]
  PROVE  /\ \A x : Is(k, x)' <=> Is(k, x)
         /\ IsWorking(k)' <=> IsWorking(k)
BY DEF Is, IsWorking

LEMMA ClientsAreQuiet ==
  ASSUME Types, Chain, Blocked, NEW c \in Clients,
         \/ Lock(c) \/ Unlock(c) \/ StartUnwrap(c) \/ StartReport(c) \/ HangUp(c)
         \/ CloseDone(c) \/ SetCode(c) \/ Answer(c)
  PROVE  Quiet
<1>0. ClosingInv  BY DEF Chain
<1>1. /\ mutex \in {c, None} /\ \A what \in Printfs : ~Doing(c, what)
      /\ UNCHANGED <<shown, buf, logged, putting, unread, pend, held, werr, target>>
  <2>1. CASE Lock(c)  BY <2>1, Names DEF Lock, Doing, logger, worker
  <2>2. CASE Unlock(c)  BY <2>2 DEF Unlock, Doing, logger, worker
  <2>3. CASE StartUnwrap(c)  BY <2>3 DEF StartUnwrap, Doing, Printfs, worker
  <2>4. CASE StartReport(c)  BY <2>4 DEF StartReport, Doing, Printfs, worker
  <2>5. CASE HangUp(c)
    <3>1. UNCHANGED <<putting, shown>>  BY <1>0, <2>5, HangUpTypes
    <3> QED  BY <2>5, <3>1 DEF HangUp, Doing, Printfs, Closes, logger, worker
  <2>6. CASE CloseDone(c)  BY <2>6 DEF CloseDone, Doing, Printfs, Closes, logger, worker
  <2>7. CASE SetCode(c)  BY <2>7 DEF SetCode, Doing, Printfs, worker
  <2>8. CASE Answer(c)  BY <2>8 DEF Answer, Doing, Printfs, logger, worker
  <2> QED  BY <2>1, <2>2, <2>3, <2>4, <2>5, <2>6, <2>7, <2>8
<1>2. \A d \in Clients : ~putting[d]  BY <1>1, OthersDoNotPut
<1>3. CASE UNCHANGED pipe /\ \A k \in DOMAIN Workers : todo'[Workers[k]] = todo[Workers[k]]
  BY <1>1, <1>2, <1>3, SameState DEF Quiet
<1>4. CASE Lock(c) \/ Unlock(c) \/ StartUnwrap(c) \/ StartReport(c) \/ SetCode(c) \/ Answer(c)
  <2>1. UNCHANGED pipe
    BY <1>4 DEF Lock, Unlock, StartUnwrap, StartReport, SetCode, Answer
  <2>2. UNCHANGED todo \/ \E s : OnlyTodo(c, s)
    BY <1>4, LockTypes, StartUnwrapTypes, StartReportTypes, SetCodeTypes, AnswerTypes DEF Unlock
  <2>3. \A k \in DOMAIN Workers : todo'[Workers[k]] = todo[Workers[k]]
    BY <2>2, Names DEF OnlyTodo
  <2> QED  BY <1>3, <2>1, <2>3
<1>5. CASE HangUp(c)
  <2>1. PICK k \in DOMAIN Workers :
          /\ Top(k)
          /\ \A w \in ToSet(Workers) : /\ w # Workers[k] => pipe'[w] = pipe[w]
                                       /\ pipe'[w].data = pipe[w].data
                                       /\ pipe'[w].rclosed = pipe[w].rclosed
    BY <1>0, <1>5, HangUpTypes
  <2>2. UNCHANGED todo  BY <1>0, <1>5, HangUpTypes
  <2>3. \A j \in DOMAIN Workers : Is(j, "new") => pipe'[Workers[j]] = pipe[Workers[j]]
    BY <2>1, Names DEF Top, Live
  <2>4. \A j \in DOMAIN Workers : pipe'[Workers[j]].data = pipe[Workers[j]].data
    BY <2>1, Names
  <2> QED  BY <1>1, <1>2, <2>2, <2>3, <2>4, SameState DEF Quiet
<1>6. CASE CloseDone(c)
  <2>1. UNCHANGED pipe  BY <1>6 DEF CloseDone
  <2>2. PICK k \in DOMAIN Workers :
          /\ Is(k, "send") \/ Is(k, "gone")
          /\ \E s : TwoTodos(c, s, Workers[k], <<"gone">>)
    BY <1>0, <1>6, CloseDoneTypes
  <2>3. /\ todo'[Workers[k]] = <<"gone">>
        /\ \A j \in DOMAIN Workers : j # k => todo'[Workers[j]] = todo[Workers[j]]
    BY <2>2, Names DEF TwoTodos
  <2>4. ~IsWorking(k)  BY <2>2, WorkingStates
  <2>5. \A y : Is(k, y)' <=> y = "gone"  BY <2>3, OneChanged
  <2>6. ~IsWorking(k)'  BY <2>5 DEF IsWorking, Working, Flushes
  <2>7. ~Is(k, "new")' /\ ~Is(k, "read")' /\ ~Is(k, "flush, read")' /\ ~Is(k, "flush, scan")'
    BY <2>5
  <2> QED  BY <1>1, <1>2, <2>1, <2>3, <2>4, <2>6, <2>7, SameState DEF Quiet
<1> QED  BY <1>4, <1>5, <1>6

LEMMA WorkersAreQuiet ==
  ASSUME Types, Chain, Blocked, NEW k \in DOMAIN Workers,
         \/ StartScan(Workers[k]) \/ PipeEnds(Workers[k]) \/ ScanFails(Workers[k])
         \/ WorkerHangsUp(Workers[k]) \/ WorkerCloses(Workers[k])
  PROVE  Quiet
<1> DEFINE w == Workers[k]
<1>0. TargetInv  BY DEF Chain
<1>1. UNCHANGED <<shown, buf, logged, putting, unread, pend, held, target, out>>
  <2>1. CASE WorkerHangsUp(w)
    <3>1. UNCHANGED <<putting, shown>>  BY <2>1, WorkerHangsUpTypes
    <3> QED  BY <2>1, <3>1 DEF WorkerHangsUp, WorkerOnly, logger, worker
  <2>2. CASE StartScan(w) \/ PipeEnds(w) \/ ScanFails(w) \/ WorkerCloses(w)
    BY <2>2 DEF StartScan, PipeEnds, ScanFails, WorkerCloses, WorkerOnly, logger, worker
  <2> QED  BY <2>1, <2>2
\* the steps by which it goes on alone
<1>2. ASSUME NEW x, NEW y, GoesOn(k, x, y), UNCHANGED pipe, x \in Working, y \in Working,
             ErrorsStay(k), y = "read" => pend[w] = NoLine,
             y \in {"flush, read", "flush, scan"} => pend[w] # NoLine
      PROVE  Quiet
  <2>1. todo'[w] = <<y>> /\ \A j \in DOMAIN Workers : j # k => todo'[Workers[j]] = todo[Workers[j]]
    BY <1>2, Names DEF GoesOn, OnlyTodo
  <2>2. \A z : Is(k, z)' <=> z = y  BY <2>1, OneChanged
  <2>3. IsWorking(k)' /\ IsWorking(k)  BY <1>2, <2>2 DEF GoesOn, IsWorking
  <2>4. ~Is(k, "new")'  BY <1>2, <2>2 DEF Working, Flushes
  <2>5. /\ Is(k, "read")' => pend[w] = NoLine
        /\ Is(k, "flush, read")' \/ Is(k, "flush, scan")' => pend[w] # NoLine
    BY <1>2, <2>2
  <2> QED  BY <1>1, <1>2, <2>1, <2>3, <2>4, <2>5, SameState DEF Quiet, ErrorsStay
<1>3. CASE StartScan(w)
  <2> DEFINE y == IF pend[w] # NoLine THEN "flush, read" ELSE "read"
  <2>1. GoesOn(k, "scan", y)  BY <1>3, StartScanTypes
  <2>2. UNCHANGED pipe /\ ErrorsStay(k)  BY <1>3 DEF StartScan, worker, ErrorsStay
  <2>3. "scan" \in Working /\ y \in Working  BY DEF Working, Flushes
  <2>4. /\ y = "read" => pend[w] = NoLine
        /\ y \in {"flush, read", "flush, scan"} => pend[w] # NoLine
    OBVIOUS
  <2> HIDE DEF y
  <2> QED  BY <1>2, <2>1, <2>2, <2>3, <2>4
<1>4. CASE PipeEnds(w) \/ ScanFails(w)
  <2>1. GoesOn(k, "read", "flush, close")  BY <1>4, PipeEndsTypes, ScanFailsTypes
  <2>2. UNCHANGED pipe  BY <1>4 DEF PipeEnds, ScanFails
  <2>3. ErrorsStay(k)
    <3>1. PipeEnds(w) => UNCHANGED werr  BY DEF PipeEnds, worker
    <3> QED  BY <1>4, <3>1, ScanFailsTypes DEF ErrorsStay
  <2>4. "read" \in Working /\ "flush, close" \in Working  BY DEF Working, Flushes
  <2> QED  BY <1>2, <2>1, <2>2, <2>3, <2>4
<1>5. CASE WorkerHangsUp(w)
  <2>1. UNCHANGED todo /\ UNCHANGED werr  BY <1>5, WorkerHangsUpTypes DEF WorkerHangsUp, worker
  <2>2. /\ Is(k, "close") /\ target[w] \in ToSet(Workers)
        /\ \A v \in ToSet(Workers) : /\ v # target[w] => pipe'[v] = pipe[v]
                                     /\ pipe'[v].data = pipe[v].data
                                     /\ pipe'[v].rclosed = pipe[v].rclosed
    BY <1>5, WorkerHangsUpTypes
  <2>3. PICK i \in DOMAIN Workers : i = k - 1 /\ i < k /\ target[w] = Workers[i] /\ ~Is(i, "new")
    <3>1. Live(k) /\ ~Is(k, "new") /\ ~Is(k, "send")  BY <2>2, OneState DEF Live
    <3>2. ~Bottom(k) /\ target[w] = Workers[k - 1]
      BY <1>0, <2>2, <3>1, Names DEF TargetInv
    <3>3. k - 1 \in DOMAIN Workers /\ k - 1 < k  BY <3>2, Names DEF Bottom
    <3> QED  BY <3>1, <3>2, <3>3 DEF Chain, OrderOfWorkers
  <2>4. \A j \in DOMAIN Workers : Is(j, "new") => pipe'[Workers[j]] = pipe[Workers[j]]
    BY <2>2, <2>3, Names
  <2>5. \A j \in DOMAIN Workers : pipe'[Workers[j]].data = pipe[Workers[j]].data
    BY <2>2, Names
  <2> QED  BY <1>1, <2>1, <2>4, <2>5, SameState DEF Quiet
<1>6. CASE WorkerCloses(w)
  <2>1. /\ Is(k, "close") /\ ErrorsStay(k)
        /\ \A v \in ToSet(Workers) : /\ v # w => pipe'[v] = pipe[v]
                                     /\ pipe'[v].data = pipe[v].data
    BY <1>0, <1>6, WorkerClosesTypes
  <2>2. todo'[w] = <<"send">>
        /\ \A j \in DOMAIN Workers : j # k =>
             \/ todo'[Workers[j]] = todo[Workers[j]]
             \/ todo'[Workers[j]] = <<"gone">> /\ (Is(j, "send") \/ Is(j, "gone"))
    <3>1. CASE GoesOn(k, "close", "send")  BY <3>1, Names DEF GoesOn, OnlyTodo
    <3>2. CASE /\ k > 1 /\ (Is(k - 1, "send") \/ Is(k - 1, "gone"))
               /\ TwoTodos(w, <<"send">>, Workers[k - 1], <<"gone">>)
      <4>1. PICK i \in DOMAIN Workers : i = k - 1  BY <3>2, Names
      <4>2. TwoTodos(w, <<"send">>, Workers[i], <<"gone">>) /\ (Is(i, "send") \/ Is(i, "gone"))
        BY <3>2, <4>1
      <4>3. \A j \in DOMAIN Workers : /\ j # i => Workers[j] # Workers[i]
                                      /\ j # k => Workers[j] # w /\ Workers[j] \in Procs
        BY Names
      <4> QED  BY <4>2, <4>3 DEF TwoTodos
    <3> QED  BY <1>0, <1>6, <3>1, <3>2, WorkerClosesTypes
  <2>3. \A j \in DOMAIN Workers :
          \/ todo'[Workers[j]] = todo[Workers[j]] /\ j # k
          \/ /\ todo'[Workers[j]] \in {<<"gone">>, <<"send">>}
             /\ Is(j, "send") \/ Is(j, "gone") \/ Is(j, "close")
    BY <2>1, <2>2
  <2>4. \A j \in DOMAIN Workers : todo'[Workers[j]] \in {<<"gone">>, <<"send">>} =>
          /\ ~IsWorking(j)' /\ ~Is(j, "new")' /\ ~Is(j, "read")'
          /\ ~Is(j, "flush, read")' /\ ~Is(j, "flush, scan")'
    <3> SUFFICES ASSUME NEW j \in DOMAIN Workers,
                        todo'[Workers[j]] = <<"gone">> \/ todo'[Workers[j]] = <<"send">>
                 PROVE  /\ ~IsWorking(j)' /\ ~Is(j, "new")' /\ ~Is(j, "read")'
                        /\ ~Is(j, "flush, read")' /\ ~Is(j, "flush, scan")'
      OBVIOUS
    <3>1. \A x, y : <<x>> = <<y>> => x = y  OBVIOUS
    <3>2. \A y : Is(j, y)' => y \in {"gone", "send"}  BY <3>1 DEF Is
    <3>3. \A s \in Working : s \notin {"gone", "send"}  BY DEF Working, Flushes
    <3>4. ~IsWorking(j)'  BY <3>2, <3>3 DEF IsWorking
    <3>5. /\ "new" \notin {"gone", "send"} /\ "read" \notin {"gone", "send"}
          /\ "flush, read" \notin {"gone", "send"} /\ "flush, scan" \notin {"gone", "send"}
      OBVIOUS
    <3> QED  BY <3>2, <3>4, <3>5
  <2>5. \A j \in DOMAIN Workers :
          Is(j, "send") \/ Is(j, "gone") \/ Is(j, "close") => ~IsWorking(j)
    BY WorkingStates
  <2>6. \A j \in DOMAIN Workers : pipe'[Workers[j]].data = pipe[Workers[j]].data
    BY <2>1, Names
  <2>7. \A j \in DOMAIN Workers : j # k =>
          pipe'[Workers[j]] = pipe[Workers[j]] /\ werr'[Workers[j]] = werr[Workers[j]]
    BY <2>1, Names DEF ErrorsStay
  <2> QED  BY <1>1, <2>3, <2>4, <2>5, <2>6, <2>7, SameState DEF Quiet
<1> QED  BY <1>3, <1>4, <1>5, <1>6
----------------------------------------------------------------------------
(* How lines move from one place to the next.                              *)

LEMMA Places ==
  /\ 0 \in Spots /\ Buffer \in Spots /\ 0 < Buffer /\ 0 # Buffer
  /\ 0 \notin DOMAIN Workers /\ Buffer \notin DOMAIN Workers
  /\ \A k \in DOMAIN Workers : k \in Spots /\ 0 < k /\ k < Buffer
  /\ \A m \in Spots : m \in Nat /\ (m = 0 \/ m \in DOMAIN Workers \/ m = Buffer)
  /\ Place(0) = ToSet(shown) /\ Place(0)' = ToSet(shown')
  /\ Place(Buffer) = BufAt /\ Place(Buffer)' = BufAt'
  /\ \A k \in DOMAIN Workers : Place(k) = In(k) /\ Place(k)' = In(k)'
<1>1. PICK n \in Nat : n = Len(Workers)  BY Names
<1>2. DOMAIN Workers = 1 .. n /\ Buffer = n + 1 /\ Spots = 0 .. n + 1
  BY <1>1, Names DEF Buffer, Spots
<1>3. /\ 0 \in Spots /\ Buffer \in Spots /\ 0 < Buffer /\ 0 # Buffer
      /\ 0 \notin DOMAIN Workers /\ Buffer \notin DOMAIN Workers
      /\ \A k \in DOMAIN Workers : k \in Spots /\ 0 < k /\ k < Buffer
      /\ \A m \in Spots : m \in Nat /\ (m = 0 \/ m \in DOMAIN Workers \/ m = Buffer)
  BY <1>2
<1>4. Place(0) = ToSet(shown) /\ Place(0)' = ToSet(shown')  BY DEF Place
<1>5. Place(Buffer) = BufAt /\ Place(Buffer)' = BufAt'  BY <1>3 DEF Place
<1>6. \A k \in DOMAIN Workers : Place(k) = In(k) /\ Place(k)' = In(k)'  BY <1>3 DEF Place
<1> QED  BY <1>3, <1>4, <1>5, <1>6

Moves(i, j, S) ==
  /\ S \subseteq Place(j)
  /\ \A m \in Spots : i < m /\ m <= j => Precede(S, Place(m)')
  /\ \A m \in Spots : m # i => Real(Place(m)') \subseteq Real(Place(m))
  /\ Real(Place(i)') \subseteq Real(Place(i)) \union S

LEMMA MovedLines ==
  ASSUME KnownInv, AcrossInv, UNCHANGED logged,
         NEW i \in Spots, NEW j \in Spots, i < j, NEW S, Moves(i, j, S)
  PROVE  KnownInv' /\ AcrossInv'
<1> DEFINE P(m) == Place(m)
<1>1. KnownInv'
  <2>1. \A k \in DOMAIN logged' : Position(logged'[k]) = k  BY DEF KnownInv
  <2>2. ASSUME NEW m \in Spots PROVE Known(Place(m))'
    <3>1. Real(Place(m)') \subseteq Real(Place(m)) \union Real(Place(j))
      <4>1. CASE m = i
        <5>1. \A l \in Real(Place(i)') : l \in Real(Place(i)) \/ (l \in S /\ Position(l) > 0)
          BY DEF Moves, Real
        <5>2. \A l \in S : Position(l) > 0 => l \in Real(Place(j))  BY DEF Moves, Real
        <5> QED  BY <4>1, <5>1, <5>2
      <4>2. CASE m # i  BY <4>2 DEF Moves
      <4> QED  BY <4>1, <4>2
    <3>2. Real(Place(m)) \subseteq ToSet(logged) /\ Real(Place(j)) \subseteq ToSet(logged)
      BY DEF KnownInv, Known
    <3>3. Real(Place(m)') \subseteq ToSet(logged')  BY <3>1, <3>2
    <3> QED  BY <3>3 DEF Known, Real
  <2> QED  BY <2>1, <2>2 DEF KnownInv
<1>2. ASSUME NEW a \in Spots, NEW b \in Spots, a < b,
             NEW x \in Real(Place(a)'), NEW y \in Real(Place(b)')
      PROVE  Position(x) < Position(y)
  <2>1. a # i => x \in Real(Place(a))  BY DEF Moves
  <2>2. b # i => y \in Real(Place(b))  BY DEF Moves
  <2>3. a = i => x \in Real(Place(a)) \/ (x \in S /\ x \in Real(Place(j)))
    BY DEF Moves, Real
  <2>4. b = i => y \in Real(Place(b)) \/ (y \in S /\ y \in Real(Place(j)))
    BY DEF Moves, Real
  <2>5. CASE x \in Real(Place(a)) /\ y \in Real(Place(b))
    BY <1>2, <2>5 DEF AcrossInv, Precede
  <2>6. CASE b = i /\ y \in Real(Place(j))
    <3>1. a < j /\ a # i  BY <1>2, <2>6, Places
    <3> QED  BY <2>1, <2>6, <3>1 DEF AcrossInv, Precede
  <2>7. CASE a = i /\ x \in S /\ x \in Real(Place(j)) /\ b # i
    <3>1. CASE b <= j
      <4>1. x \in Real(S)  BY <2>7 DEF Real
      <4>2. Precede(S, Place(b)')  BY <1>2, <2>7, <3>1 DEF Moves
      <4> QED  BY <1>2, <4>1, <4>2 DEF Precede
    <3>2. CASE j < b  BY <2>2, <2>7, <3>2 DEF AcrossInv, Precede
    <3> QED  BY <3>1, <3>2, Places
  <2>8. a # b  BY <1>2, Places
  <2> QED  BY <2>1, <2>2, <2>3, <2>4, <2>5, <2>6, <2>7, <2>8
<1>3. AcrossInv'
  <2> SUFFICES ASSUME NEW a \in Spots, NEW b \in Spots, a < b
               PROVE  Precede(Place(a), Place(b))'
    BY DEF AcrossInv, Spots, Buffer
  <2> QED  BY <1>2 DEF Precede, Real
<1> QED  BY <1>1, <1>3

\* the worker and the log keep what they have
Stays(k) ==
  /\ HeldAt(k)' = HeldAt(k) /\ PendAt(k)' = PendAt(k) /\ ReadAt(k)' = ReadAt(k)
  /\ unread'[Workers[k]] = unread[Workers[k]]
LogStays == UNCHANGED <<shown, buf, logged>> /\ BufAt' = BufAt

LEMMA StaysIn ==
  ASSUME NEW k, Stays(k) PROVE In(k)' = In(k) /\ (Inner(k) => Inner(k)')
BY DEF Stays, In, Inner, Precede, Sorted

LEMMA StillLines ==
  ASSUME Flow, LogStays, \A k \in DOMAIN Workers : Stays(k)
  PROVE  Flow' /\ \A m \in Spots : Place(m)' = Place(m)
<1>1. \A m \in Spots : Place(m)' = Place(m)
  BY StaysIn, Places DEF LogStays
<1>2. KnownInv'
  <2>1. \A m \in Spots : Known(Place(m))'  BY <1>1 DEF Flow, KnownInv, Known, Real, LogStays
  <2>2. \A i \in DOMAIN logged' : Position(logged'[i]) = i
    BY DEF Flow, KnownInv, LogStays
  <2> QED  BY <2>1, <2>2 DEF KnownInv, Spots, Buffer
<1>3. AcrossInv'
  <2>1. \A i, j \in Spots : i < j => Precede(Place(i), Place(j))'
    BY <1>1 DEF Flow, AcrossInv, Precede, Real
  <2> QED  BY <2>1 DEF AcrossInv, Spots, Buffer
<1>4. InnerInv'  BY StaysIn DEF Flow, InnerInv, LogStays, Sorted
<1> QED  BY <1>1, <1>2, <1>3, <1>4 DEF Flow

\* a worker whose state and lines stay has what it had
LEMMA WorkerStays ==
  ASSUME NEW k \in DOMAIN Workers, IsWorking(k)' <=> IsWorking(k),
         held'[Workers[k]] = held[Workers[k]], pend'[Workers[k]] = pend[Workers[k]],
         unread'[Workers[k]] = unread[Workers[k]],
         putting'[Workers[k]] <=> putting[Workers[k]],
         putting[Workers[k]] =>
           /\ target'[Workers[k]] = target[Workers[k]]
           /\ pipe'[target[Workers[k]]].data = pipe[target[Workers[k]]].data
  PROVE  Stays(k)
<1>1. HasPut(Workers[k], target[Workers[k]])' <=> HasPut(Workers[k], target[Workers[k]])
  BY DEF HasPut
<1>2. HeldAt(k)' = HeldAt(k)  BY <1>1 DEF HeldAt
<1>3. PendAt(k)' = PendAt(k) /\ ReadAt(k)' = ReadAt(k)  BY DEF PendAt, ReadAt
<1> QED  BY <1>2, <1>3 DEF Stays

\* writers never share a pipe
LEMMA OwnPipes ==
  ASSUME Types, Chain, Blocked
  PROVE  \A k \in DOMAIN Workers : (\E f \in Flushes : Is(k, f)) =>
           /\ target[Workers[k]] # Base =>
                /\ target[Workers[k]] # out
                /\ k - 1 \in DOMAIN Workers /\ target[Workers[k]] = Workers[k - 1]
                /\ ~Is(k - 1, "new")
           /\ \A j \in DOMAIN Workers : j # k /\ putting[Workers[j]] =>
                target[Workers[j]] # target[Workers[k]]
<1> SUFFICES ASSUME NEW k \in DOMAIN Workers, NEW f \in Flushes, Is(k, f)
             PROVE  /\ target[Workers[k]] # Base =>
                         /\ target[Workers[k]] # out
                         /\ k - 1 \in DOMAIN Workers /\ target[Workers[k]] = Workers[k - 1]
                         /\ ~Is(k - 1, "new")
                    /\ \A j \in DOMAIN Workers : j # k /\ putting[Workers[j]] =>
                         target[Workers[j]] # target[Workers[k]]
  OBVIOUS
<1>1. Live(k) /\ ~Is(k, "new")  BY OneState DEF Live, Flushes
<1>2. ASSUME target[Workers[k]] # Base
      PROVE  /\ k - 1 \in DOMAIN Workers /\ target[Workers[k]] = Workers[k - 1]
             /\ ~Is(k - 1, "new") /\ k - 1 < k
  <2>1. k - 1 \in DOMAIN Workers /\ target[Workers[k]] = Workers[k - 1]
    BY <1>2, FlushesTo
  <2>2. k - 1 < k  BY Names
  <2> QED  BY <1>1, <2>1, <2>2 DEF Chain, OrderOfWorkers
<1>3. ASSUME target[Workers[k]] # Base PROVE target[Workers[k]] # out
  <2>1. CASE fallback = None  BY <1>3, <2>1 DEF Types, Shapes
  <2>2. CASE fallback # None
    <3>1. PICK t \in DOMAIN Workers : Top(t) /\ out = Workers[t]
      BY <2>2 DEF Chain, OutInv
    <3>2. ASSUME target[Workers[k]] = out PROVE FALSE
      <4>1. t = k - 1  BY <1>2, <1>3, <3>1, <3>2, Names
      <4>2. t < Len(Workers) /\ k = t + 1  BY <4>1, Names
      <4> QED  BY <1>1, <3>1, <4>2 DEF Top
    <3> QED  BY <3>2
  <2> QED  BY <2>1, <2>2
<1>4. ASSUME NEW j \in DOMAIN Workers, j # k, putting[Workers[j]]
      PROVE  target[Workers[j]] # target[Workers[k]]
  <2>1. j - 1 \in DOMAIN Workers /\ target[Workers[j]] = Workers[j - 1]  BY <1>4, WritesTo
  <2>2. CASE target[Workers[k]] = Base  BY <2>1, <2>2, Names
  <2>3. CASE target[Workers[k]] # Base
    <3>1. k - 1 \in DOMAIN Workers /\ target[Workers[k]] = Workers[k - 1]  BY <1>2, <2>3
    <3>2. j - 1 # k - 1  BY <1>4, Names
    <3> QED  BY <2>1, <3>1, <3>2, Names
  <2> QED  BY <2>2, <2>3
<1> QED  BY <1>2, <1>3, <1>4

LEMMA QuietStays ==
  ASSUME Types, Chain, Blocked, Quiet
  PROVE  LogStays /\ \A k \in DOMAIN Workers : Stays(k)
<1>1. ASSUME NEW k \in DOMAIN Workers PROVE Stays(k)
  <2>1. putting[Workers[k]] => \E j \in DOMAIN Workers : target[Workers[k]] = Workers[j]
    BY WritesTo
  <2>2. putting[Workers[k]] => pipe'[target[Workers[k]]].data = pipe[target[Workers[k]]].data
    BY <2>1 DEF Quiet
  <2> QED  BY <2>2, WorkerStays DEF Quiet
<1>2. BufAt' = BufAt
  <2>1. \A c \in Clients : HasPut(c, out)' <=> HasPut(c, out)
    <3> SUFFICES ASSUME NEW c \in Clients PROVE HasPut(c, out)' <=> HasPut(c, out)  OBVIOUS
    <3>1. putting[c] => /\ out' = out
                        /\ \E j \in DOMAIN Workers : out = Workers[j]
      BY WritesTo DEF Quiet
    <3>2. putting[c] => pipe'[out].data = pipe[out].data  BY <3>1 DEF Quiet
    <3>3. putting'[c] <=> putting[c]  BY DEF Quiet
    <3> QED  BY <3>1, <3>2, <3>3 DEF HasPut
  <2>2. buf' = buf  BY DEF Quiet
  <2> QED  BY <2>1, <2>2 DEF BufAt
<1> QED  BY <1>1, <1>2 DEF LogStays, Quiet

LEMMA QuietContents ==
  ASSUME Types, Chain, Blocked, Contents, Quiet
  PROVE  Contents'
<1>1. NewInv'  BY DEF Contents, NewInv, Quiet
<1>2. PlainInv'
  <2>1. AllPlain(shown)' /\ AllPlain(buf)'  BY DEF Contents, PlainInv, Quiet, AllPlain, Plain
  <2>2. ASSUME NEW k \in DOMAIN Workers
        PROVE  /\ AllPlain(unread[Workers[k]])' /\ AllPlain(pipe[Workers[k]].data)'
               /\ Plain(held[Workers[k]])'
               /\ pend'[Workers[k]] # NoLine => Plain(pend[Workers[k]])'
    BY DEF Contents, PlainInv, Quiet, AllPlain, Plain
  <2>3. ASSUME NEW k \in DOMAIN Workers
        PROVE  /\ Is(k, "read")' => pend'[Workers[k]] = NoLine
               /\ Is(k, "flush, read")' \/ Is(k, "flush, scan")' => pend'[Workers[k]] # NoLine
    BY DEF Contents, PlainInv, Quiet
  <2> QED  BY <2>1, <2>2, <2>3 DEF PlainInv
<1>3. CopyInv'
  <2>1. ASSUME NEW c \in Clients, putting'[c] PROVE pipe'[out'].data \in {buf', << >>}
    <3>1. putting[c]  BY <2>1 DEF Quiet
    <3>2. /\ out' = out /\ \E j \in DOMAIN Workers : out = Workers[j]
      BY <3>1, WritesTo DEF Quiet
    <3>3. pipe'[out].data = pipe[out].data  BY <3>2 DEF Quiet
    <3> QED  BY <3>1, <3>2, <3>3 DEF Contents, CopyInv, Quiet
  <2>2. ASSUME NEW k \in DOMAIN Workers, putting'[Workers[k]]
        PROVE  pipe'[target'[Workers[k]]].data \in {<<held'[Workers[k]]>>, << >>}
    <3>1. putting[Workers[k]]  BY <2>2 DEF Quiet
    <3>2. /\ target'[Workers[k]] = target[Workers[k]]
          /\ \E j \in DOMAIN Workers : target[Workers[k]] = Workers[j]
      BY <3>1, WritesTo DEF Quiet
    <3>3. pipe'[target[Workers[k]]].data = pipe[target[Workers[k]]].data  BY <3>2 DEF Quiet
    <3>4. held' = held  BY DEF Quiet
    <3> QED  BY <3>1, <3>2, <3>3, <3>4 DEF Contents, CopyInv
  <2> QED  BY <2>1, <2>2 DEF CopyInv
<1> QED  BY <1>1, <1>2, <1>3 DEF Contents
----------------------------------------------------------------------------
(* What the calls do to the lines.                                         *)

LEMMA Nothing ==
  /\ Real({}) = {}
  /\ \A S, T : Real(S) = {} \/ Real(T) = {} => Precede(S, T)
BY DEF Real, Precede

LEMMA KnownPositions ==
  ASSUME Types, KnownInv, NEW m \in Spots, NEW x \in Real(Place(m))
  PROVE  Position(x) \in Nat /\ Position(x) <= Len(logged)
<1>1. PICK n \in Nat : n = Len(logged) /\ DOMAIN logged = 1 .. n  BY DEF Types, Shapes
<1>2. x \in ToSet(logged)  BY DEF KnownInv, Known
<1>3. PICK i \in DOMAIN logged : x = logged[i]  BY <1>2 DEF ToSet
<1> QED  BY <1>1, <1>3 DEF KnownInv

\* a client writes to its own pipe only, and to none that is new
DataOfOut == UNCHANGED pipe \/ (out \in ToSet(Workers) /\ \E x : OnlyData(out, x) /\ AllPlain(x))
WorkersStand ==
  /\ UNCHANGED worker /\ DataOfOut
  /\ \A k \in DOMAIN Workers : /\ todo'[Workers[k]] = todo[Workers[k]]
                               /\ putting'[Workers[k]] <=> putting[Workers[k]]

LEMMA OutData ==
  ASSUME Types, Chain, Blocked, DataOfOut, NEW k \in DOMAIN Workers
  PROVE  /\ Is(k, "new") => pipe'[Workers[k]].data = pipe[Workers[k]].data
         /\ putting[Workers[k]] =>
              pipe'[target[Workers[k]]].data = pipe[target[Workers[k]]].data
         /\ pipe'[Workers[k]].rclosed = pipe[Workers[k]].rclosed
         /\ pipe'[Workers[k]].wclosed = pipe[Workers[k]].wclosed
         /\ AllPlain(pipe[Workers[k]].data) => AllPlain(pipe[Workers[k]].data)'
<1>1. CASE UNCHANGED pipe  BY <1>1 DEF AllPlain, Plain
<1>2. CASE out \in ToSet(Workers) /\ \E x : OnlyData(out, x) /\ AllPlain(x)
  <2>1. fallback # None  BY <1>2, Names DEF Types, Shapes
  <2>2. PICK t \in DOMAIN Workers : Top(t) /\ out = Workers[t]  BY <2>1 DEF Chain, OutInv
  <2>3. PICK x : OnlyData(out, x) /\ AllPlain(x)  BY <1>2
  <2>4. \A w \in ToSet(Workers) : /\ w # out => pipe'[w].data = pipe[w].data
                                  /\ pipe'[w].rclosed = pipe[w].rclosed
                                  /\ pipe'[w].wclosed = pipe[w].wclosed
    BY <2>3 DEF OnlyData
  <2>5. Is(k, "new") => Workers[k] # out  BY <2>2, Names DEF Top, Live
  <2>6. putting[Workers[k]] => target[Workers[k]] # out /\ target[Workers[k]] \in ToSet(Workers)
    <3>1. putting[Workers[k]] => /\ \E f \in Flushes : Is(k, f)
                                 /\ target[Workers[k]] # Base
      BY DEF Blocked, PutInv
    <3>2. putting[Workers[k]] => k - 1 \in DOMAIN Workers /\ target[Workers[k]] = Workers[k - 1]
      BY WritesTo
    <3> QED  BY <3>1, <3>2, OwnPipes, Names
  <2>7. AllPlain(pipe[Workers[k]].data) => AllPlain(pipe[Workers[k]].data)'
    <3>1. CASE Workers[k] = out  BY <2>3, <3>1 DEF OnlyData, AllPlain, Plain
    <3>2. CASE Workers[k] # out  BY <2>4, <3>2, Names DEF AllPlain, Plain
    <3> QED  BY <3>1, <3>2
  <2> QED  BY <2>4, <2>5, <2>6, <2>7, Names
<1> QED  BY <1>1, <1>2 DEF DataOfOut

LEMMA WorkersStay ==
  ASSUME Types, Chain, Blocked, WorkersStand, NEW k \in DOMAIN Workers
  PROVE  Stays(k)
BY OutData, WorkerStays, SameState DEF WorkersStand, worker

LEMMA WorkersContents ==
  ASSUME Types, Chain, Blocked, Contents, WorkersStand, AllPlain(shown)', AllPlain(buf)',
         \A c \in Clients : putting'[c] => pipe'[out'].data \in {buf', << >>}
  PROVE  Contents'
<1>1. NewInv'
  <2> SUFFICES ASSUME NEW k \in DOMAIN Workers, Is(k, "new")'
               PROVE  /\ unread'[Workers[k]] = << >> /\ pend'[Workers[k]] = NoLine
                      /\ held'[Workers[k]] = Blank
                      /\ ~werr'[Workers[k]] /\ pipe'[Workers[k]].data = << >>
                      /\ ~pipe'[Workers[k]].rclosed /\ ~pipe'[Workers[k]].wclosed
    BY DEF NewInv
  <2>1. Is(k, "new")  BY SameState DEF WorkersStand
  <2>2. UNCHANGED <<unread, pend, held, werr>>  BY DEF WorkersStand, worker
  <2>3. WorkersStand /\ DataOfOut  BY DEF WorkersStand
  <2> QED  BY <2>1, <2>2, <2>3, OutData DEF Contents, NewInv
<1>2. PlainInv'
  <2> SUFFICES ASSUME NEW k \in DOMAIN Workers
               PROVE  /\ AllPlain(unread[Workers[k]])' /\ AllPlain(pipe[Workers[k]].data)'
                      /\ Plain(held[Workers[k]])'
                      /\ pend'[Workers[k]] # NoLine => Plain(pend[Workers[k]])'
                      /\ Is(k, "read")' => pend'[Workers[k]] = NoLine
                      /\ Is(k, "flush, read")' \/ Is(k, "flush, scan")'
                           => pend'[Workers[k]] # NoLine
    BY DEF PlainInv
  <2>1. UNCHANGED <<unread, pend, held>> /\ DataOfOut  BY DEF WorkersStand, worker
  <2>2. \A x : Is(k, x)' <=> Is(k, x)  BY SameState DEF WorkersStand
  <2>3. AllPlain(pipe[Workers[k]].data)'  BY <2>1, OutData DEF Contents, PlainInv
  <2>4. AllPlain(unread[Workers[k]])' /\ Plain(held[Workers[k]])'
    BY <2>1 DEF Contents, PlainInv, AllPlain, Plain
  <2>5. pend'[Workers[k]] # NoLine => Plain(pend[Workers[k]])'
    BY <2>1 DEF Contents, PlainInv, Plain
  <2> QED  BY <2>1, <2>2, <2>3, <2>4, <2>5 DEF Contents, PlainInv
<1>3. CopyInv'
  <2>1. ASSUME NEW k \in DOMAIN Workers, putting'[Workers[k]]
        PROVE  pipe'[target'[Workers[k]]].data \in {<<held'[Workers[k]]>>, << >>}
    <3>1. putting[Workers[k]] /\ UNCHANGED <<held, target>> /\ DataOfOut
      BY <2>1 DEF WorkersStand, worker
    <3>2. pipe'[target[Workers[k]]].data = pipe[target[Workers[k]]].data  BY <3>1, OutData
    <3> QED  BY <3>1, <3>2 DEF Contents, CopyInv
  <2> QED  BY <2>1 DEF CopyInv
<1> QED  BY <1>1, <1>2, <1>3 DEF Contents

LEMMA NobodyPuts ==
  ASSUME \A c \in Clients : ~putting[c] PROVE BufAt = ToSet(buf)
BY DEF BufAt, HasPut

LEMMA LogLineLines ==
  ASSUME Types, Chain, Blocked, Contents, Flow, NEW c \in Clients, LogLine(c)
  PROVE  Contents' /\ Flow'
<1>1. PICK line \in Lines : /\ buf' = Append(buf, line) /\ logged' = Append(logged, line)
                            /\ Position(line) = Len(logged) + 1
  BY LogLineDoes DEF Types
<1>2. PICK n \in Nat : n = Len(logged) /\ DOMAIN logged = 1 .. n  BY DEF Types, Shapes
<1>3. buf \in Seq(Lines) /\ logged \in Seq(Lines)  BY DEF Types, Shapes
<1>4. mutex = c /\ UNCHANGED <<putting, pipe, shown, worker, out>>
      /\ \A what \in Printfs : ~Doing(c, what)
  BY DEF LogLine, Doing, Printfs
<1>5. \A d \in Clients : ~putting[d] /\ ~putting'[d]  BY <1>4, OthersDoNotPut
<1>6. WorkersStand
  <2>1. OnlyTodo(c, Tail(todo[c]))  BY LogLineTypes
  <2> QED  BY <1>4, <2>1, OnlyOneGoesOn DEF WorkersStand, DataOfOut
<1>7. /\ ToSet(buf') = ToSet(buf) \union {line} /\ ToSet(logged') = ToSet(logged) \union {line}
  BY <1>1, <1>3, SetOfAppend
<1>8. BufAt = ToSet(buf) /\ BufAt' = BufAt \union {line}
  <2>1. BufAt = ToSet(buf)  BY <1>5, NobodyPuts
  <2>2. BufAt' = ToSet(buf')  BY <1>5 DEF BufAt, HasPut
  <2> QED  BY <1>7, <2>1, <2>2
<1>9. Contents'
  <2>1. Plain(line)  BY <1>1, <1>2 DEF Plain
  <2>2. AllPlain(buf)' /\ AllPlain(shown)'
    BY <1>4, <1>7, <2>1 DEF Contents, PlainInv, AllPlain, Plain
  <2> QED  BY <1>5, <1>6, <2>2, WorkersContents
<1>10. /\ \A m \in Spots : m # Buffer => Place(m)' = Place(m)
       /\ Place(Buffer)' = Place(Buffer) \union {line}
  <2>1. \A k \in DOMAIN Workers : Place(k)' = Place(k)  BY <1>6, WorkersStay, StaysIn, Places
  <2>2. Place(0)' = Place(0)  BY <1>4, Places
  <2> QED  BY <1>8, <2>1, <2>2, Places
<1>11. KnownInv'
  <2>1. ASSUME NEW i \in DOMAIN logged' PROVE Position(logged'[i]) = i
    <3>1. /\ DOMAIN logged' = 1 .. n + 1 /\ logged'[n + 1] = line
          /\ \A j \in 1 .. n : logged'[j] = logged[j]
      BY <1>1, <1>2, <1>3, AppendProperties
    <3>2. i \in 1 .. n \/ i = n + 1  BY <1>2, <2>1, <3>1
    <3> QED  BY <1>1, <1>2, <3>1, <3>2 DEF Flow, KnownInv
  <2>2. ASSUME NEW m \in Spots PROVE Known(Place(m))'
    <3>1. \A l \in Real(Place(m)') : l \in Real(Place(m)) \/ l = line
      BY <1>10 DEF Real
    <3>2. \A l \in Real(Place(m)') : l \in ToSet(logged')
      BY <1>7, <3>1 DEF Flow, KnownInv, Known
    <3> QED  BY <3>2 DEF Known, Real
  <2> QED  BY <2>1, <2>2 DEF KnownInv, Spots, Buffer
<1>12. AcrossInv'
  <2>1. ASSUME NEW a \in Spots, NEW b \in Spots, a < b,
               NEW x \in Real(Place(a)'), NEW y \in Real(Place(b)')
        PROVE  Position(x) < Position(y)
    <3>1. a # Buffer  BY <2>1, Places DEF Spots, Buffer
    <3>2. x \in Real(Place(a))  BY <1>10, <3>1
    <3>3. y \in Real(Place(b)) \/ y = line  BY <1>10 DEF Real
    <3>4. CASE y \in Real(Place(b))  BY <2>1, <3>2, <3>4 DEF Flow, AcrossInv, Precede
    <3>5. CASE y = line
      <4>1. Position(x) \in Nat /\ Position(x) <= n
        BY <1>2, <3>2, KnownPositions DEF Flow
      <4> QED  BY <1>1, <1>2, <3>5, <4>1
    <3> QED  BY <3>3, <3>4, <3>5
  <2>2. \A a, b \in Spots : a < b => Precede(Place(a), Place(b))'
    BY <2>1 DEF Precede, Real
  <2> QED  BY <2>2 DEF AcrossInv, Spots, Buffer
<1>13. InnerInv'
  <2>1. \A k \in DOMAIN Workers : Inner(k)'  BY <1>6, WorkersStay, StaysIn DEF Flow, InnerInv
  <2>2. Sorted(shown)'  BY <1>4 DEF Flow, InnerInv, Sorted
  <2>3. Precede(ToSet(buf), {line})
    <3>1. \A x \in Real(ToSet(buf)) : Position(x) \in Nat /\ Position(x) <= n
      BY <1>2, <1>8, KnownPositions, Places DEF Flow
    <3> QED  BY <1>1, <1>2, <3>1 DEF Precede, Real
  <2>4. Sorted(buf')  BY <1>1, <1>3, <2>3, SortedAppend DEF Flow, InnerInv
  <2>5. Sorted(buf)'  BY <2>4 DEF Sorted
  <2> QED  BY <2>1, <2>2, <2>5 DEF InnerInv
<1> QED  BY <1>9, <1>11, <1>12, <1>13 DEF Flow

LEMMA PrintfTo ==
  ASSUME Types, Chain, Blocked, NEW c \in Clients, NEW what \in Printfs, Doing(c, what)
  PROVE  /\ mutex = c /\ out \in Outputs /\ buf \in Seq(Lines) /\ c \in Procs
         /\ \A d \in Clients : d # c => ~putting[d]
         /\ out = Base => /\ ~putting[c]
                          /\ \A k \in DOMAIN Workers : In(k) = {}
<1>1. mutex = c /\ out \in Outputs /\ buf \in Seq(Lines) /\ c \in Procs
  BY Names DEF Doing, Types, Shapes
<1>2. /\ \A d \in Clients : d # c => ~putting[d] /\ ~IsClosing(d)
      /\ out = Base => ~putting[c]
  BY <1>1, OthersDoNotPut, OthersIdle
<1>3. ~IsClosing(c)  BY DEF IsClosing, Doing, Closes, Printfs
<1>4. ASSUME out = Base, NEW k \in DOMAIN Workers PROVE In(k) = {}
  <2>1. fallback = None  BY <1>4, Names DEF Chain, OutInv
  <2>2. ~Live(k)  BY <1>2, <1>3, <2>1 DEF Chain, LiveInv
  <2>3. IsWorking(k) => Live(k)  BY WorkingIsLive
  <2>4. ~IsWorking(k)  BY <2>2, <2>3
  <2> QED  BY <2>4 DEF In, HeldAt, PendAt, ReadAt
<1> QED  BY <1>1, <1>2, <1>4

LEMMA PrintfPutsLines ==
  ASSUME Types, Chain, Blocked, Contents, Flow, NEW c \in Clients, PrintfPuts(c)
  PROVE  Contents' /\ Flow' /\ LogStays /\ \A k \in DOMAIN Workers : Stays(k)
<1>1. PICK what \in Printfs : Doing(c, what)  BY DEF PrintfPuts
<1>2. Puts(c, out, buf) /\ UNCHANGED <<buf, logged, out, worker, todo>>
  BY DEF PrintfPuts, logger
<1>3. /\ out \in ToSet(Workers) /\ ~putting[c] /\ UNCHANGED shown
      /\ OnlyPutting(c, TRUE) /\ OnlyData(out, buf)
  BY <1>1, <1>2, PrintfTo, PutsDoes DEF Types
<1>4. \A k \in DOMAIN Workers : putting'[Workers[k]] <=> putting[Workers[k]]
  BY <1>3, Names DEF OnlyPutting
<1>5. WorkersStand
  <2>1. AllPlain(buf)  BY DEF Contents, PlainInv
  <2> QED  BY <1>2, <1>3, <1>4, <2>1 DEF WorkersStand, DataOfOut
<1>6. \A d \in Clients : ~putting[d]  BY <1>1, <1>3, PrintfTo
<1>7. \A d \in Clients : d # c => ~putting'[d]  BY <1>3, <1>6, Names DEF OnlyPutting
<1>8. Contents'
  <2>1. AllPlain(shown)' /\ AllPlain(buf)'
    BY <1>2, <1>3 DEF Contents, PlainInv, AllPlain, Plain
  <2>2. \A d \in Clients : putting'[d] => pipe'[out'].data \in {buf', << >>}
    BY <1>2, <1>3, <1>7 DEF OnlyData
  <2> QED  BY <1>5, <2>1, <2>2, WorkersContents
<1>9. BufAt' = BufAt
  <2>1. BufAt = ToSet(buf)  BY <1>6, NobodyPuts
  <2>2. CASE buf = << >>
    <3>1. ToSet(buf) = {} /\ buf' = buf  BY <1>2, <2>2, SetOfFew
    <3> QED  BY <2>1, <3>1 DEF BufAt
  <2>3. CASE buf # << >>
    <3>1. \A d \in Clients : ~HasPut(d, out)'
      BY <1>2, <1>3, <1>7, <2>3 DEF HasPut, OnlyData
    <3> QED  BY <1>2, <2>1, <3>1 DEF BufAt
  <2> QED  BY <2>2, <2>3
<1>10. LogStays  BY <1>2, <1>3, <1>9 DEF LogStays
<1>11. \A k \in DOMAIN Workers : Stays(k)  BY <1>5, WorkersStay
<1>12. Flow'  BY <1>10, <1>11, StillLines
<1> QED  BY <1>8, <1>10, <1>11, <1>12

LEMMA PrintfFailsLines ==
  ASSUME Types, Chain, Blocked, Contents, Flow, NEW c \in Clients, PrintfFails(c)
  PROVE  Contents' /\ Flow'
<1>1. PICK what \in Printfs : Doing(c, what)  BY DEF PrintfFails
<1>2. WriteFails(c, out) /\ UNCHANGED <<buf, logged, out, worker>>
  BY DEF PrintfFails, logger
<1>3. /\ UNCHANGED shown
      /\ \/ out = Base /\ broken /\ UNCHANGED <<pipe, putting>>
         \/ out \in ToSet(Workers) /\ ~putting[c] /\ UNCHANGED <<pipe, putting>>
         \/ /\ out \in ToSet(Workers) /\ putting[c] /\ pipe[out].data # << >>
            /\ OnlyPutting(c, FALSE) /\ OnlyData(out, << >>)
  BY <1>1, <1>2, PrintfTo, WriteFailsDoes DEF Types
<1>4. \A d \in Clients : ~putting'[d]
  <2>1. \A d \in Clients : d # c => ~putting[d]  BY <1>1, PrintfTo
  <2>2. out = Base => ~putting[c]  BY <1>1, PrintfTo
  <2> QED  BY <1>3, <2>1, <2>2, Names DEF OnlyPutting
<1>5. \A d \in Clients : ~HasPut(d, out)
  <2>1. \A d \in Clients : d # c => ~putting[d]  BY <1>1, PrintfTo
  <2>2. out = Base => ~putting[c]  BY <1>1, PrintfTo
  <2> QED  BY <1>3, <2>1, <2>2 DEF HasPut
<1>6. WorkersStand
  <2>1. DataOfOut
    <3>1. AllPlain(<< >>)  BY SetOfFew DEF AllPlain
    <3> QED  BY <1>3, <3>1 DEF DataOfOut
  <2>2. \A k \in DOMAIN Workers : putting'[Workers[k]] <=> putting[Workers[k]]
    BY <1>3, Names DEF OnlyPutting
  <2>3. \A k \in DOMAIN Workers : todo'[Workers[k]] = todo[Workers[k]]
    <3>1. \E s : OnlyTodo(c, s)  BY PrintfFailsTypes
    <3> QED  BY <3>1, OnlyOneGoesOn
  <2> QED  BY <1>2, <2>1, <2>2, <2>3 DEF WorkersStand
<1>7. Contents'
  <2>1. AllPlain(shown)' /\ AllPlain(buf)'
    BY <1>2, <1>3 DEF Contents, PlainInv, AllPlain, Plain
  <2> QED  BY <1>4, <1>6, <2>1, WorkersContents
<1>8. BufAt' = BufAt
  <2>1. BufAt = ToSet(buf)  BY <1>5 DEF BufAt
  <2>2. BufAt' = ToSet(buf')  BY <1>4 DEF BufAt, HasPut
  <2> QED  BY <1>2, <2>1, <2>2
<1>9. LogStays  BY <1>2, <1>3, <1>8 DEF LogStays
<1>10. Flow'  BY <1>6, <1>9, WorkersStay, StillLines
<1> QED  BY <1>7, <1>10

LEMMA PrintfOkLines ==
  ASSUME Types, Chain, Blocked, Contents, Flow, NEW c \in Clients, PrintfOk(c)
  PROVE  /\ Contents' /\ Flow'
         /\ \/ out = Base /\ shown' = shown \o buf /\ BufAt = ToSet(buf) /\ ~broken
            \/ out # Base /\ UNCHANGED shown /\ BufAt = {}
         /\ \A k \in DOMAIN Workers : Stays(k)
<1>1. PICK what \in Printfs : Doing(c, what)  BY DEF PrintfOk
<1>2. /\ WriteOk(c, out, buf) /\ buf' = << >> /\ UNCHANGED <<logged, out, worker>>
  BY DEF PrintfOk
<1>3. /\ UNCHANGED pipe /\ shown' \in Seq(Lines)
      /\ \/ out = Base /\ ~broken /\ shown' = shown \o buf /\ UNCHANGED putting
         \/ /\ out \in ToSet(Workers) /\ putting[c] /\ pipe[out].data = << >>
            /\ OnlyPutting(c, FALSE) /\ UNCHANGED shown
  BY <1>1, <1>2, PrintfTo, WriteOkDoes DEF Types
<1>4. \A d \in Clients : ~putting'[d]
  <2>1. \A d \in Clients : d # c => ~putting[d]  BY <1>1, PrintfTo
  <2>2. out = Base => ~putting[c]  BY <1>1, PrintfTo
  <2> QED  BY <1>3, <2>1, <2>2, Names DEF OnlyPutting
<1>5. \A k \in DOMAIN Workers : putting'[Workers[k]] <=> putting[Workers[k]]
  BY <1>3, Names DEF OnlyPutting
<1>6. WorkersStand
  <2>1. OnlyTodo(c, Tail(todo[c]))  BY PrintfOkTypes
  <2> QED  BY <1>2, <1>3, <1>5, <2>1, OnlyOneGoesOn DEF WorkersStand, DataOfOut
<1>7. /\ shown \in Seq(Lines) /\ buf \in Seq(Lines) /\ ToSet(<< >>) = {}
  BY SetOfFew DEF Types, Shapes
<1>8. BufAt' = {}  BY <1>2, <1>7 DEF BufAt
<1>9. \/ /\ out = Base /\ shown' = shown \o buf /\ BufAt = ToSet(buf) /\ ~broken
         /\ ToSet(shown') = ToSet(shown) \union ToSet(buf)
      \/ out # Base /\ UNCHANGED shown /\ BufAt = {}
  <2>1. CASE out = Base /\ ~broken /\ shown' = shown \o buf
    <3>1. \A d \in Clients : ~putting[d]  BY <1>1, <2>1, PrintfTo
    <3>2. ToSet(shown \o buf) = ToSet(shown) \union ToSet(buf)  BY <1>7, SetOfConcat
    <3> QED  BY <2>1, <3>1, <3>2, NobodyPuts
  <2>2. CASE out \in ToSet(Workers) /\ putting[c] /\ pipe[out].data = << >> /\ UNCHANGED shown
    <3>1. HasPut(c, out) /\ out # Base  BY <2>2, Names DEF HasPut
    <3> QED  BY <2>2, <3>1 DEF BufAt
  <2> QED  BY <1>3, <2>1, <2>2
<1>10. Contents'
  <2>1. AllPlain(shown)'  BY <1>9 DEF Contents, PlainInv, AllPlain, Plain
  <2>2. AllPlain(buf)'  BY <1>2, <1>7 DEF AllPlain
  <2> QED  BY <1>4, <1>6, <2>1, <2>2, WorkersContents
<1>11. \A k \in DOMAIN Workers : Stays(k)  BY <1>6, WorkersStay
<1>12. Moves(0, Buffer, BufAt)
  <2>1. \A k \in DOMAIN Workers : Place(k)' = Place(k)  BY <1>11, StaysIn, Places
  <2>2. \A m \in Spots : m # 0 => Real(Place(m)') \subseteq Real(Place(m))
    BY <1>8, <2>1, Places DEF Real
  <2>3. Real(Place(0)') \subseteq Real(Place(0)) \union BufAt
    BY <1>9, Places DEF Real
  <2>4. ASSUME NEW m \in Spots, 0 < m PROVE Precede(BufAt, Place(m)')
    <3>1. CASE m = Buffer  BY <1>8, <3>1, Places, Nothing
    <3>2. CASE m \in DOMAIN Workers
      <4>1. CASE out = Base
        <5>1. In(m) = {}  BY <1>1, <3>2, <4>1, PrintfTo
        <5>2. Place(m)' = {}  BY <2>1, <3>2, <5>1, Places
        <5> QED  BY <5>2, Nothing
      <4>2. CASE BufAt = {}  BY <4>2, Nothing
      <4> QED  BY <1>9, <4>1, <4>2
    <3> QED  BY <2>4, <3>1, <3>2, Places
  <2> QED  BY <2>2, <2>3, <2>4, Places DEF Moves
<1>13. KnownInv' /\ AcrossInv'
  <2> DEFINE S == BufAt
  <2>1. Moves(0, Buffer, S)  BY <1>12
  <2> HIDE DEF S
  <2> QED  BY <1>2, <2>1, MovedLines, Places DEF Flow
<1>14. InnerInv'
  <2>1. \A k \in DOMAIN Workers : Inner(k)'  BY <1>11, StaysIn DEF Flow, InnerInv
  <2>2. Sorted(shown')
    <3>1. CASE out = Base /\ shown' = shown \o buf /\ BufAt = ToSet(buf)
      <4>1. Precede(ToSet(shown), ToSet(buf))
        BY <3>1, Places DEF Flow, AcrossInv
      <4> QED  BY <1>7, <3>1, <4>1, SortedConcat DEF Flow, InnerInv
    <3>2. CASE UNCHANGED shown  BY <3>2 DEF Flow, InnerInv
    <3> QED  BY <1>9, <3>1, <3>2
  <2>3. Sorted(buf')
    <3>1. DOMAIN << >> = {}  OBVIOUS
    <3> QED  BY <1>2, <3>1 DEF Sorted
  <2> QED  BY <2>1, <2>2, <2>3 DEF InnerInv, Sorted
<1> QED  BY <1>9, <1>10, <1>11, <1>13, <1>14 DEF Flow

LEMMA WrapLines ==
  ASSUME Types, Chain, Blocked, Contents, Flow, NEW c \in Clients, Wrap(c)
  PROVE  /\ Contents' /\ Flow' /\ LogStays
         /\ \A k \in DOMAIN Workers : Stays(k) \/ In(k) = {}
<1>1. PICK k \in DOMAIN Workers :
        /\ Is(k, "new") /\ out' = Workers[k]
        /\ target' = [target EXCEPT ![Workers[k]] = out]
        /\ TwoTodos(c, Tail(todo[c]), Workers[k], <<"scan">>)
  BY WrapTypes
<1>2. /\ mutex = c /\ \A what \in Printfs : ~Doing(c, what)
      /\ UNCHANGED <<buf, logged, unread, pend, held, werr, putting, pipe, shown>>
  BY DEF Wrap, Doing, Printfs
<1>3. \A d \in Clients : ~putting[d]  BY <1>2, OthersDoNotPut
<1>4. /\ todo'[Workers[k]] = <<"scan">>
      /\ \A j \in DOMAIN Workers : j # k => todo'[Workers[j]] = todo[Workers[j]]
  BY <1>1, Names DEF TwoTodos
<1>5. /\ \A y : Is(k, y)' <=> y = "scan"
      /\ \A j \in DOMAIN Workers : j # k => \A y : Is(j, y)' <=> Is(j, y)
  BY <1>4, OneChanged
<1>6. \A j \in DOMAIN Workers : j # k => target'[Workers[j]] = target[Workers[j]]
  BY <1>1, Names DEF Types, Shapes
<1>7. ~putting[Workers[k]]
  <2>1. putting[Workers[k]] => \E f \in Flushes : Is(k, f)  BY DEF Blocked, PutInv
  <2>2. \A f \in Flushes : ~Is(k, f)  BY <1>1, OneState DEF Flushes
  <2> QED  BY <2>1, <2>2
<1>8. LogStays
  <2>1. BufAt = ToSet(buf) /\ BufAt' = ToSet(buf')  BY <1>2, <1>3 DEF BufAt, HasPut
  <2> QED  BY <1>2, <2>1 DEF LogStays
<1>9. \A j \in DOMAIN Workers : j # k => Stays(j)
  <2> SUFFICES ASSUME NEW j \in DOMAIN Workers, j # k PROVE Stays(j)  OBVIOUS
  <2>1. IsWorking(j)' <=> IsWorking(j)  BY <1>4, SameState
  <2> QED  BY <1>2, <1>6, <2>1, WorkerStays
<1>10. In(k) = {}
  <2>1. ~IsWorking(k)  BY <1>1, WorkingStates
  <2> QED  BY <2>1 DEF In, HeldAt, PendAt, ReadAt
<1>11. /\ unread[Workers[k]] = << >> /\ pend[Workers[k]] = NoLine /\ held[Workers[k]] = Blank
       /\ pipe[Workers[k]].data = << >>
  BY <1>1 DEF Contents, NewInv
<1>12. Real(HeldAt(k)') = {} /\ Real(PendAt(k)') = {} /\ ReadAt(k)' = {}
  <2>1. HeldAt(k)' \subseteq {Blank} /\ PendAt(k)' \subseteq {NoLine}
    BY <1>2, <1>11 DEF HeldAt, PendAt
  <2>2. ReadAt(k)' = {}  BY <1>2, <1>11, SetOfFew DEF ReadAt
  <2>3. Real({Blank}) = {} /\ Real({NoLine}) = {}  BY NoPositions DEF Real
  <2> QED  BY <2>1, <2>2, <2>3 DEF Real
<1>13. Real(In(k)') = {}  BY <1>12 DEF In, Real
<1>14. Contents'
  <2>1. NewInv'  BY <1>2, <1>5 DEF Contents, NewInv
  <2>2. PlainInv'
    <3>1. AllPlain(shown)' /\ AllPlain(buf)'
      BY <1>2 DEF Contents, PlainInv, AllPlain, Plain
    <3>2. \A j \in DOMAIN Workers :
            /\ AllPlain(unread[Workers[j]])' /\ AllPlain(pipe[Workers[j]].data)'
            /\ Plain(held[Workers[j]])'
            /\ pend'[Workers[j]] # NoLine => Plain(pend[Workers[j]])'
      BY <1>2 DEF Contents, PlainInv, AllPlain, Plain
    <3>3. \A j \in DOMAIN Workers :
            /\ Is(j, "read")' => pend'[Workers[j]] = NoLine
            /\ Is(j, "flush, read")' \/ Is(j, "flush, scan")' => pend'[Workers[j]] # NoLine
      BY <1>2, <1>5 DEF Contents, PlainInv
    <3> QED  BY <3>1, <3>2, <3>3 DEF PlainInv
  <2>3. CopyInv'
    <3>1. \A d \in Clients : ~putting'[d]  BY <1>2, <1>3
    <3>2. \A j \in DOMAIN Workers : putting'[Workers[j]] =>
            pipe'[target'[Workers[j]]].data \in {<<held'[Workers[j]]>>, << >>}
      BY <1>2, <1>6, <1>7 DEF Contents, CopyInv
    <3> QED  BY <3>1, <3>2 DEF CopyInv
  <2> QED  BY <2>1, <2>2, <2>3 DEF Contents
<1>15. Moves(0, Buffer, {})
  <2>1. \A j \in DOMAIN Workers : Real(Place(j)') \subseteq Real(Place(j))
    <3>1. \A j \in DOMAIN Workers : j # k => Place(j)' = Place(j)  BY <1>9, StaysIn, Places
    <3>2. Real(Place(k)') = {}  BY <1>13, Places
    <3> QED  BY <3>1, <3>2 DEF Real
  <2>2. Place(0)' = Place(0) /\ Place(Buffer)' = Place(Buffer)  BY <1>8, Places DEF LogStays
  <2>3. \A m \in Spots : Real(Place(m)') \subseteq Real(Place(m))
    BY <2>1, <2>2, Places DEF Real
  <2> QED  BY <2>3, Nothing, Places DEF Moves
<1>16. KnownInv' /\ AcrossInv'  BY <1>2, <1>15, MovedLines, Places DEF Flow
<1>17. InnerInv'
  <2>1. \A j \in DOMAIN Workers : j # k => Inner(j)'  BY <1>9, StaysIn DEF Flow, InnerInv
  <2>2. Inner(k)'
    <3>1. DOMAIN << >> = {}  OBVIOUS
    <3>2. Sorted(unread[Workers[k]])'  BY <1>2, <1>11, <3>1 DEF Sorted
    <3>3. Precede(HeldAt(k), PendAt(k))' /\ Precede(HeldAt(k), ReadAt(k))'
          /\ Precede(PendAt(k), ReadAt(k))'
      BY <1>12 DEF Precede, Real
    <3> QED  BY <3>2, <3>3 DEF Inner
  <2>3. Sorted(shown)' /\ Sorted(buf)'  BY <1>2 DEF Flow, InnerInv, Sorted
  <2> QED  BY <2>1, <2>2, <2>3 DEF InnerInv
<1> QED  BY <1>8, <1>9, <1>10, <1>14, <1>16, <1>17 DEF Flow
----------------------------------------------------------------------------
(* What the workers do to the lines.                                       *)

\* only worker k does something
OthersStand(k) ==
  /\ WorkerOnly /\ UNCHANGED target
  /\ \A c \in Clients : putting'[c] <=> putting[c]
  /\ \A j \in DOMAIN Workers : j # k =>
       /\ todo'[Workers[j]] = todo[Workers[j]]
       /\ unread'[Workers[j]] = unread[Workers[j]] /\ pend'[Workers[j]] = pend[Workers[j]]
       /\ held'[Workers[j]] = held[Workers[j]] /\ werr'[Workers[j]] = werr[Workers[j]]
       /\ putting'[Workers[j]] <=> putting[Workers[j]]
DataOfTarget(k) ==
  \/ UNCHANGED pipe
  \/ /\ target[Workers[k]] \in ToSet(Workers) /\ \E f \in Flushes : Is(k, f)
     /\ \E x : OnlyData(target[Workers[k]], x) /\ AllPlain(x)

LEMMA TargetData ==
  ASSUME Types, Chain, Blocked, NEW k \in DOMAIN Workers, DataOfTarget(k)
  PROVE  /\ \A j \in DOMAIN Workers :
              /\ Is(j, "new") => pipe'[Workers[j]].data = pipe[Workers[j]].data
              /\ j # k /\ putting[Workers[j]] =>
                   pipe'[target[Workers[j]]].data = pipe[target[Workers[j]]].data
              /\ pipe'[Workers[j]].rclosed = pipe[Workers[j]].rclosed
              /\ pipe'[Workers[j]].wclosed = pipe[Workers[j]].wclosed
              /\ AllPlain(pipe[Workers[j]].data) => AllPlain(pipe[Workers[j]].data)'
         /\ \A c \in Clients : putting[c] => pipe'[out].data = pipe[out].data
<1>1. CASE UNCHANGED pipe  BY <1>1 DEF AllPlain, Plain
<1>2. CASE /\ target[Workers[k]] \in ToSet(Workers) /\ \E f \in Flushes : Is(k, f)
           /\ \E x : OnlyData(target[Workers[k]], x) /\ AllPlain(x)
  <2>1. PICK x : OnlyData(target[Workers[k]], x) /\ AllPlain(x)  BY <1>2
  <2>2. /\ target[Workers[k]] # out
        /\ k - 1 \in DOMAIN Workers /\ target[Workers[k]] = Workers[k - 1] /\ ~Is(k - 1, "new")
        /\ \A j \in DOMAIN Workers : j # k /\ putting[Workers[j]] =>
             target[Workers[j]] # target[Workers[k]]
    BY <1>2, OwnPipes, Names
  <2>3. \A w \in ToSet(Workers) : /\ w # target[Workers[k]] => pipe'[w].data = pipe[w].data
                                  /\ pipe'[w].rclosed = pipe[w].rclosed
                                  /\ pipe'[w].wclosed = pipe[w].wclosed
    BY <2>1 DEF OnlyData
  <2>4. ASSUME NEW j \in DOMAIN Workers, Is(j, "new")
        PROVE  pipe'[Workers[j]].data = pipe[Workers[j]].data
    <3>1. j # k - 1  BY <2>2, <2>4
    <3>2. Workers[j] # target[Workers[k]]  BY <2>2, <3>1, Names
    <3> QED  BY <2>3, <3>2, Names
  <2>5. ASSUME NEW j \in DOMAIN Workers, j # k, putting[Workers[j]]
        PROVE  pipe'[target[Workers[j]]].data = pipe[target[Workers[j]]].data
    <3>1. target[Workers[j]] \in ToSet(Workers)  BY <2>5, WritesTo, Names
    <3> QED  BY <2>2, <2>3, <2>5, <3>1
  <2>6. ASSUME NEW j \in DOMAIN Workers, AllPlain(pipe[Workers[j]].data)
        PROVE  AllPlain(pipe[Workers[j]].data)'
    <3>1. CASE Workers[j] = target[Workers[k]]
      BY <2>1, <3>1 DEF OnlyData, AllPlain, Plain
    <3>2. CASE Workers[j] # target[Workers[k]]  BY <2>3, <2>6, <3>2, Names DEF AllPlain, Plain
    <3> QED  BY <3>1, <3>2
  <2>7. ASSUME NEW c \in Clients, putting[c] PROVE pipe'[out].data = pipe[out].data
    <3>1. out \in ToSet(Workers)  BY <2>7, WritesTo, Names
    <3> QED  BY <2>2, <2>3, <3>1
  <2> QED  BY <2>3, <2>4, <2>5, <2>6, <2>7, Names
<1> QED  BY <1>1, <1>2 DEF DataOfTarget

LEMMA OthersStay ==
  ASSUME Types, Chain, Blocked, NEW k \in DOMAIN Workers, OthersStand(k), DataOfTarget(k)
  PROVE  /\ \A j \in DOMAIN Workers : j # k => Stays(j)
         /\ UNCHANGED <<buf, logged, out>> /\ BufAt' = BufAt
<1>1. ASSUME NEW j \in DOMAIN Workers, j # k PROVE Stays(j)
  <2>1. IsWorking(j)' <=> IsWorking(j)  BY <1>1, SameState DEF OthersStand
  <2> QED  BY <1>1, <2>1, TargetData, WorkerStays DEF OthersStand
<1>2. UNCHANGED <<buf, logged, out>>  BY DEF OthersStand, WorkerOnly, logger
<1>3. \A c \in Clients : HasPut(c, out)' <=> HasPut(c, out)
  BY <1>2, TargetData DEF HasPut, OthersStand
<1> QED  BY <1>1, <1>2, <1>3 DEF BufAt

LEMMA OthersContents ==
  ASSUME Types, Chain, Blocked, Contents, NEW k \in DOMAIN Workers, OthersStand(k),
         DataOfTarget(k), ~Is(k, "new")', AllPlain(shown)',
         AllPlain(unread[Workers[k]])', Plain(held[Workers[k]])',
         pend'[Workers[k]] # NoLine => Plain(pend[Workers[k]])',
         Is(k, "read")' => pend'[Workers[k]] = NoLine,
         Is(k, "flush, read")' \/ Is(k, "flush, scan")' => pend'[Workers[k]] # NoLine,
         putting'[Workers[k]] =>
           pipe'[target[Workers[k]]].data \in {<<held'[Workers[k]]>>, << >>}
  PROVE  Contents'
<1>1. NewInv'
  <2> SUFFICES ASSUME NEW j \in DOMAIN Workers, Is(j, "new")'
               PROVE  /\ unread'[Workers[j]] = << >> /\ pend'[Workers[j]] = NoLine
                      /\ held'[Workers[j]] = Blank
                      /\ ~werr'[Workers[j]] /\ pipe'[Workers[j]].data = << >>
                      /\ ~pipe'[Workers[j]].rclosed /\ ~pipe'[Workers[j]].wclosed
    BY DEF NewInv
  <2>1. j # k  OBVIOUS
  <2>2. Is(j, "new")  BY <2>1, SameState DEF OthersStand
  <2> QED  BY <2>1, <2>2, TargetData DEF Contents, NewInv, OthersStand
<1>2. PlainInv'
  <2>1. AllPlain(buf)'
    BY DEF OthersStand, WorkerOnly, logger, Contents, PlainInv, AllPlain, Plain
  <2>2. ASSUME NEW j \in DOMAIN Workers
        PROVE  /\ AllPlain(unread[Workers[j]])' /\ AllPlain(pipe[Workers[j]].data)'
               /\ Plain(held[Workers[j]])'
               /\ pend'[Workers[j]] # NoLine => Plain(pend[Workers[j]])'
               /\ Is(j, "read")' => pend'[Workers[j]] = NoLine
               /\ Is(j, "flush, read")' \/ Is(j, "flush, scan")' => pend'[Workers[j]] # NoLine
    <3>1. AllPlain(pipe[Workers[j]].data)'  BY TargetData DEF Contents, PlainInv
    <3>2. CASE j = k  BY <3>1, <3>2
    <3>3. CASE j # k
      <4>1. \A x : Is(j, x)' <=> Is(j, x)  BY <3>3, SameState DEF OthersStand
      <4>2. /\ unread'[Workers[j]] = unread[Workers[j]] /\ pend'[Workers[j]] = pend[Workers[j]]
            /\ held'[Workers[j]] = held[Workers[j]]
        BY <3>3 DEF OthersStand
      <4>3. /\ AllPlain(unread[Workers[j]])' /\ Plain(held[Workers[j]])'
            /\ pend'[Workers[j]] # NoLine => Plain(pend[Workers[j]])'
        BY <4>2 DEF Contents, PlainInv, AllPlain, Plain
      <4>4. /\ Is(j, "read")' => pend'[Workers[j]] = NoLine
            /\ Is(j, "flush, read")' \/ Is(j, "flush, scan")' => pend'[Workers[j]] # NoLine
        BY <4>1, <4>2 DEF Contents, PlainInv
      <4> QED  BY <3>1, <4>3, <4>4
    <3> QED  BY <3>2, <3>3
  <2> QED  BY <2>1, <2>2 DEF PlainInv
<1>3. CopyInv'
  <2>1. ASSUME NEW c \in Clients, putting'[c] PROVE pipe'[out'].data \in {buf', << >>}
    <3>1. putting[c] /\ UNCHANGED <<out, buf>>
      BY <2>1 DEF OthersStand, WorkerOnly, logger
    <3>2. pipe'[out].data = pipe[out].data  BY <3>1, TargetData
    <3> QED  BY <3>1, <3>2 DEF Contents, CopyInv
  <2>2. ASSUME NEW j \in DOMAIN Workers, putting'[Workers[j]]
        PROVE  pipe'[target'[Workers[j]]].data \in {<<held'[Workers[j]]>>, << >>}
    <3>1. UNCHANGED target  BY DEF OthersStand
    <3>2. CASE j = k  BY <2>2, <3>1, <3>2
    <3>3. CASE j # k
      <4>1. putting[Workers[j]] /\ held'[Workers[j]] = held[Workers[j]]
        BY <2>2, <3>3 DEF OthersStand
      <4>2. pipe'[target[Workers[j]]].data = pipe[target[Workers[j]]].data
        BY <3>3, <4>1, TargetData
      <4> QED  BY <3>1, <4>1, <4>2 DEF Contents, CopyInv
    <3> QED  BY <3>2, <3>3
  <2> QED  BY <2>1, <2>2 DEF CopyInv
<1> QED  BY <1>1, <1>2, <1>3 DEF Contents

\* the flow of lines when one worker passes some of its own on, or drops them
LEMMA WorkerMoves ==
  ASSUME Types, Chain, Blocked, Flow, NEW k \in DOMAIN Workers,
         OthersStand(k), DataOfTarget(k), NEW S,
         \/ S = {} /\ UNCHANGED shown
         \/ /\ S \subseteq In(k) /\ Precede(S, In(k)')
            /\ \A j \in DOMAIN Workers : j < k => In(j) = {}
            /\ ToSet(shown') = ToSet(shown) \union S,
         Sorted(shown)', Real(In(k)') \subseteq Real(In(k)), Inner(k)'
  PROVE  Flow'
<1>0. /\ \A j \in DOMAIN Workers : j # k => Stays(j)
      /\ UNCHANGED <<buf, logged, out>> /\ BufAt' = BufAt
  BY OthersStay
<1>1. \A j \in DOMAIN Workers : j # k => Place(j)' = Place(j)  BY <1>0, StaysIn, Places
<1>2. \A m \in Spots : m # 0 => Real(Place(m)') \subseteq Real(Place(m))
  <2>1. Real(Place(k)') \subseteq Real(Place(k))  BY Places
  <2>2. Place(Buffer)' = Place(Buffer)  BY <1>0, Places
  <2> QED  BY <1>1, <2>1, <2>2, Places DEF Real
<1>3. Real(Place(0)') \subseteq Real(Place(0)) \union S  BY Places DEF Real
<1>4. ASSUME NEW m \in Spots, 0 < m, m <= k PROVE Precede(S, Place(m)')
  <2>1. CASE S = {}  BY <2>1, Nothing
  <2>2. CASE S # {}
    <3>1. Precede(S, In(k)') /\ \A j \in DOMAIN Workers : j < k => In(j) = {}
      BY <2>2
    <3>2. CASE m = k  BY <3>1, <3>2, Places
    <3>3. CASE m # k
      <4>1. m \in DOMAIN Workers /\ m < k  BY <1>4, <3>3, Places
      <4>2. Place(m)' = {}  BY <1>1, <3>1, <3>3, <4>1, Places
      <4> QED  BY <4>2, Nothing
    <3> QED  BY <3>2, <3>3
  <2> QED  BY <2>1, <2>2
<1>5. Moves(0, k, S)
  <2>1. S \subseteq Place(k)  BY Places
  <2> QED  BY <1>2, <1>3, <1>4, <2>1 DEF Moves
<1>6. KnownInv' /\ AcrossInv'  BY <1>0, <1>5, MovedLines, Places DEF Flow
<1>7. InnerInv'
  <2>1. \A j \in DOMAIN Workers : j # k => Inner(j)'  BY <1>0, StaysIn DEF Flow, InnerInv
  <2>2. Sorted(buf)'  BY <1>0 DEF Flow, InnerInv, Sorted
  <2> QED  BY <2>1, <2>2 DEF InnerInv
<1> QED  BY <1>6, <1>7 DEF Flow

LEMMA FlushPutsLines ==
  ASSUME Types, Chain, Blocked, Contents, Flow, NEW k \in DOMAIN Workers, FlushPuts(Workers[k])
  PROVE  Contents' /\ Flow' /\ LogStays /\ \A j \in DOMAIN Workers : Stays(j)
<1> DEFINE w == Workers[k]
           d == target[Workers[k]]
<1>1. /\ UNCHANGED <<todo, shown>> /\ d \in ToSet(Workers) /\ ~putting[w]
      /\ OnlyPutting(w, TRUE) /\ OnlyData(d, <<held[w]>>)
  BY FlushPutsTypes
<1>2. PICK f \in Flushes : Is(k, f)  BY FlushPutsTypes
<1>3. UNCHANGED worker /\ WorkerOnly  BY DEF FlushPuts
<1>4. OthersStand(k)
  <2>1. \A c \in Clients : putting'[c] <=> putting[c]  BY <1>1, Names DEF OnlyPutting
  <2>2. \A j \in DOMAIN Workers : j # k => (putting'[Workers[j]] <=> putting[Workers[j]])
    BY <1>1, Names DEF OnlyPutting
  <2> QED  BY <1>1, <1>3, <2>1, <2>2 DEF OthersStand, worker
<1>5. Plain(held[w])  BY DEF Contents, PlainInv
<1>6. DataOfTarget(k)
  <2>1. AllPlain(<<held[w]>>)  BY <1>5, SetOfFew DEF AllPlain
  <2> QED  BY <1>1, <1>2, <2>1 DEF DataOfTarget
<1>7. UNCHANGED <<unread, pend, held, target>>  BY <1>3 DEF worker
<1>8. \A x : Is(k, x)' <=> Is(k, x)  BY <1>1, SameState
<1>9. Contents'
  <2>1. ~Is(k, "new")'  BY <1>2, <1>8, OneState DEF Flushes
  <2>2. AllPlain(shown)' /\ AllPlain(unread[w])'
    BY <1>1, <1>7 DEF Contents, PlainInv, AllPlain, Plain
  <2>3. Plain(held[w])' /\ (pend'[w] # NoLine => Plain(pend[w])')
    BY <1>7 DEF Contents, PlainInv, Plain
  <2>4. /\ Is(k, "read")' => pend'[w] = NoLine
        /\ Is(k, "flush, read")' \/ Is(k, "flush, scan")' => pend'[w] # NoLine
    BY <1>7, <1>8 DEF Contents, PlainInv
  <2>5. pipe'[d].data = <<held'[w]>>  BY <1>1, <1>7 DEF OnlyData
  <2> HIDE DEF w, d
  <2> QED  BY <1>4, <1>6, <2>1, <2>2, <2>3, <2>4, <2>5, OthersContents DEF w, d
<1>10. Stays(k)
  <2>1. IsWorking(k)' <=> IsWorking(k)  BY <1>1, SameState
  <2>2. ~HasPut(w, d)  BY <1>1 DEF HasPut
  <2>3. ~HasPut(w, d)'
    <3>1. <<held[w]>> # << >>  OBVIOUS
    <3> QED  BY <1>1, <1>7, <3>1 DEF HasPut, OnlyData
  <2>4. HeldAt(k)' = HeldAt(k)  BY <1>7, <2>1, <2>2, <2>3 DEF HeldAt
  <2> QED  BY <1>7, <2>1, <2>4 DEF Stays, PendAt, ReadAt
<1>11. LogStays /\ \A j \in DOMAIN Workers : Stays(j)
  BY <1>1, <1>4, <1>6, <1>10, OthersStay DEF LogStays
<1>12. Flow'  BY <1>11, StillLines
<1> QED  BY <1>9, <1>11, <1>12

LEMMA FlushFailsLines ==
  ASSUME Types, Chain, Blocked, Contents, Flow, NEW k \in DOMAIN Workers, FlushFails(Workers[k])
  PROVE  Contents' /\ Flow'
<1> DEFINE w == Workers[k]
           d == target[Workers[k]]
<1>1. /\ WriteFails(w, d)
      /\ \E f \in Flushes : /\ Is(k, f)
                            /\ \E y \in {"close", "flush, close"} : GoesOn(k, f, y)
      /\ ErrorsStay(k)
  BY FlushFailsTypes DEF Flushes, GoesOn
<1>2. PICK f \in Flushes, y \in {"close", "flush, close"} : Is(k, f) /\ GoesOn(k, f, y)
  BY <1>1
<1>3. d \in Outputs /\ w \in Procs  BY Names DEF Types, Shapes
<1>4. /\ UNCHANGED shown
      /\ \/ d = Base /\ broken /\ UNCHANGED <<pipe, putting>>
         \/ d \in ToSet(Workers) /\ ~putting[w] /\ UNCHANGED <<pipe, putting>>
         \/ /\ d \in ToSet(Workers) /\ putting[w] /\ pipe[d].data # << >>
            /\ OnlyPutting(w, FALSE) /\ OnlyData(d, << >>)
  BY <1>1, <1>3, WriteFailsDoes DEF Types
<1>5. UNCHANGED <<target, unread, pend, held>> /\ WorkerOnly  BY DEF FlushFails
<1>6. ~putting'[w] /\ ~HasPut(w, d)
  <2>1. d = Base => ~putting[w]  BY DEF Blocked, PutInv
  <2> QED  BY <1>4, <2>1 DEF HasPut, OnlyPutting
<1>7. /\ todo'[w] = <<y>> /\ \A j \in DOMAIN Workers : j # k => todo'[Workers[j]] = todo[Workers[j]]
  BY <1>2, Names DEF GoesOn, OnlyTodo
<1>8. \A x : Is(k, x)' <=> x = y  BY <1>7, OneChanged
<1>9. OthersStand(k)
  <2>1. UNCHANGED putting \/ OnlyPutting(w, FALSE)  BY <1>4
  <2>2. \A p \in Procs : p # w => (putting'[p] <=> putting[p])
    BY <2>1 DEF OnlyPutting
  <2>3. \A c \in Clients : putting'[c] <=> putting[c]  BY <2>2, Names
  <2>4. \A j \in DOMAIN Workers : j # k => (putting'[Workers[j]] <=> putting[Workers[j]])
    BY <2>2, Names
  <2> QED  BY <1>1, <1>5, <1>7, <2>3, <2>4 DEF OthersStand, ErrorsStay
<1>10. DataOfTarget(k)
  <2>1. AllPlain(<< >>)  BY SetOfFew DEF AllPlain
  <2> QED  BY <1>2, <1>4, <2>1 DEF DataOfTarget
<1>11. Contents'
  <2>1. ~Is(k, "new")' /\ ~Is(k, "read")' /\ ~Is(k, "flush, read")' /\ ~Is(k, "flush, scan")'
    BY <1>8
  <2>2. AllPlain(shown)' /\ AllPlain(unread[w])'
    BY <1>4, <1>5 DEF Contents, PlainInv, AllPlain, Plain
  <2>3. Plain(held[w])' /\ (pend'[w] # NoLine => Plain(pend[w])')
    BY <1>5 DEF Contents, PlainInv, Plain
  <2> HIDE DEF w, d
  <2> QED  BY <1>6, <1>9, <1>10, <2>1, <2>2, <2>3, OthersContents DEF w, d
<1>12. IsWorking(k)  BY <1>2, FlushingIsWorking
<1>13. /\ HeldAt(k) = {held[w]} /\ PendAt(k) = {pend[w]} /\ ReadAt(k) = ToSet(unread[w])
       /\ HeldAt(k)' \subseteq {held[w]} /\ PendAt(k)' \subseteq {pend[w]}
       /\ ReadAt(k)' \subseteq ToSet(unread[w])
  BY <1>5, <1>6, <1>12 DEF HeldAt, PendAt, ReadAt
<1>14. Real(In(k)') \subseteq Real(In(k))  BY <1>13 DEF In, Real
<1>15. Inner(k)'
  <2>1. Inner(k)  BY DEF Flow, InnerInv
  <2>2. Sorted(unread[w])'  BY <1>5, <2>1 DEF Inner, Sorted
  <2>3. Precede(HeldAt(k), PendAt(k))' /\ Precede(HeldAt(k), ReadAt(k))'
        /\ Precede(PendAt(k), ReadAt(k))'
    BY <1>13, <2>1 DEF Inner, Precede, Real
  <2> QED  BY <2>2, <2>3 DEF Inner
<1>16. Flow'
  <2>1. Sorted(shown)'  BY <1>4 DEF Flow, InnerInv, Sorted
  <2> QED  BY <1>4, <1>9, <1>10, <1>14, <1>15, <2>1, WorkerMoves
<1> QED  BY <1>11, <1>16

LEMMA FlushOkLines ==
  ASSUME Types, Chain, Blocked, Contents, Flow, NEW k \in DOMAIN Workers, FlushOk(Workers[k])
  PROVE  /\ Contents' /\ Flow' /\ OthersStand(k) /\ UNCHANGED pipe
         /\ \/ ToSet(shown') = ToSet(shown) \union {held[Workers[k]]}
            \/ UNCHANGED shown /\ HeldAt(k) = {}
         /\ \/ GoesOn(k, "flush, close", "close")
            \/ HeldAt(k)' = PendAt(k) /\ ReadAt(k)' = ReadAt(k)
<1> DEFINE w == Workers[k]
           d == target[Workers[k]]
<1>1. /\ WriteOk(w, d, <<held[w]>>)
      /\ \/ /\ GoesOn(k, "flush, close", "close") /\ UNCHANGED <<held, pend>>
         \/ /\ GoesOn(k, "flush, read", "read") \/ GoesOn(k, "flush, scan", "scan")
            /\ held'[w] = pend[w] /\ pend'[w] = NoLine
            /\ \A j \in DOMAIN Workers : j # k => /\ held'[Workers[j]] = held[Workers[j]]
                                                  /\ pend'[Workers[j]] = pend[Workers[j]]
  BY FlushOkTypes
<1>2. UNCHANGED <<target, unread, werr>> /\ WorkerOnly  BY DEF FlushOk
<1>3. /\ d \in Outputs /\ w \in Procs
      /\ held[w] \in Lines /\ <<held[w]>> \in Seq(Lines) /\ shown \in Seq(Lines)
  <2>1. held[w] \in Lines  BY Names DEF Types, Shapes
  <2>2. <<held[w]>> \in Seq(Lines)  BY <2>1, Tuples
  <2> QED  BY <2>1, <2>2, Names DEF Types, Shapes
<1>4. /\ UNCHANGED pipe
      /\ \/ d = Base /\ ~broken /\ shown' = shown \o <<held[w]>> /\ UNCHANGED putting
         \/ /\ d \in ToSet(Workers) /\ putting[w] /\ pipe[d].data = << >>
            /\ OnlyPutting(w, FALSE) /\ UNCHANGED shown
  BY <1>1, <1>3, WriteOkDoes DEF Types
<1>5. /\ ~putting'[w]
      /\ d = Base => ~HasPut(w, d)
      /\ d # Base => HasPut(w, d)
  <2>1. d = Base => ~putting[w]  BY DEF Blocked, PutInv
  <2> QED  BY <1>4, <2>1, Names DEF HasPut, OnlyPutting
<1>6. PICK f \in Flushes, y \in {"close", "read", "scan"} :
        Is(k, f) /\ GoesOn(k, f, y) /\ (y = "close" <=> f = "flush, close")
  <2>1. "flush, close" \in Flushes /\ "flush, read" \in Flushes /\ "flush, scan" \in Flushes
    BY DEF Flushes
  <2> QED  BY <1>1, <2>1 DEF GoesOn
<1>7. /\ todo'[w] = <<y>> /\ \A j \in DOMAIN Workers : j # k => todo'[Workers[j]] = todo[Workers[j]]
  BY <1>6, Names DEF GoesOn, OnlyTodo
<1>8. \A x : Is(k, x)' <=> x = y  BY <1>7, OneChanged
<1>9. OthersStand(k)
  <2>1. \A c \in Clients : putting'[c] <=> putting[c]  BY <1>4, Names DEF OnlyPutting
  <2>2. \A j \in DOMAIN Workers : j # k => (putting'[Workers[j]] <=> putting[Workers[j]])
    BY <1>4, Names DEF OnlyPutting
  <2> QED  BY <1>1, <1>2, <1>7, <2>1, <2>2 DEF OthersStand
<1>10. DataOfTarget(k)  BY <1>4 DEF DataOfTarget
<1>11. y # "close" => held'[w] = pend[w] /\ pend'[w] = NoLine
  <2>1. GoesOn(k, "flush, close", "close") => y = "close"  BY <1>6, OneWayOn
  <2> QED  BY <1>1, <2>1
<1>12. y = "close" => held'[w] = held[w] /\ pend'[w] = pend[w]
  <2>1. GoesOn(k, "flush, read", "read") => y = "read"  BY <1>6, OneWayOn
  <2>2. GoesOn(k, "flush, scan", "scan") => y = "scan"  BY <1>6, OneWayOn
  <2> QED  BY <1>1, <2>1, <2>2
<1>13. IsWorking(k)  BY <1>6, FlushingIsWorking
<1>14. /\ PendAt(k) = {pend[w]} /\ ReadAt(k) = ToSet(unread[w])
       /\ d = Base => HeldAt(k) = {held[w]}
       /\ d # Base => HeldAt(k) = {}
  BY <1>5, <1>13 DEF HeldAt, PendAt, ReadAt
<1>15. y # "close" =>
         HeldAt(k)' = {pend[w]} /\ PendAt(k)' = {NoLine} /\ ReadAt(k)' = ToSet(unread[w])
  <2>1. y # "close" => IsWorking(k)'
    <3>1. y # "close" => y \in Working  BY <1>6 DEF Working
    <3> QED  BY <1>8, <3>1 DEF IsWorking
  <2>2. ~HasPut(w, d)'  BY <1>5 DEF HasPut
  <2> QED  BY <1>2, <1>11, <2>1, <2>2 DEF HeldAt, PendAt, ReadAt
<1>16. y = "close" => HeldAt(k)' = {} /\ PendAt(k)' = {} /\ ReadAt(k)' = {}
  <2>1. "close" \notin Working  BY DEF Working, Flushes
  <2>2. y = "close" => ~IsWorking(k)'  BY <1>8, <2>1 DEF IsWorking
  <2> QED  BY <2>2 DEF HeldAt, PendAt, ReadAt
<1>17. Contents'
  <2>1. /\ ~Is(k, "new")' /\ ~Is(k, "flush, read")' /\ ~Is(k, "flush, scan")'
        /\ Is(k, "read")' => pend'[w] = NoLine
    BY <1>8, <1>11
  <2>2. AllPlain(unread[w])'  BY <1>2 DEF Contents, PlainInv, AllPlain, Plain
  <2>3. /\ Plain(held[w]) /\ (pend[w] # NoLine => Plain(pend[w]))
        /\ f # "flush, close" => pend[w] # NoLine
    BY <1>6 DEF Contents, PlainInv, Flushes
  <2>4. Plain(held'[w]) /\ (pend'[w] # NoLine => Plain(pend'[w]))
    BY <1>6, <1>11, <1>12, <2>3
  <2>5. Plain(held[w])' /\ (pend'[w] # NoLine => Plain(pend[w])')  BY <2>4 DEF Plain
  <2>6. AllPlain(shown)'
    <3>1. CASE shown' = shown \o <<held[w]>>
      <4>1. ToSet(shown') = ToSet(shown) \union {held[w]}
        BY <1>3, <3>1, SetOfOneMore
      <4> QED  BY <2>3, <4>1 DEF Contents, PlainInv, AllPlain, Plain
    <3>2. CASE UNCHANGED shown  BY <3>2 DEF Contents, PlainInv, AllPlain, Plain
    <3> QED  BY <1>4, <3>1, <3>2
  <2> HIDE DEF w, d
  <2> QED  BY <1>5, <1>9, <1>10, <2>1, <2>2, <2>5, <2>6, OthersContents DEF w, d
<1>18. Inner(k)
  BY DEF Flow, InnerInv
<1>19. Real({NoLine}) = {}  BY NoPositions DEF Real
<1>20. Real(In(k)') \subseteq Real(In(k))
  <2>1. CASE y = "close"  BY <1>16, <2>1 DEF In, Real
  <2>2. CASE y # "close"  BY <1>14, <1>15, <1>19, <2>2 DEF In, Real
  <2> QED  BY <2>1, <2>2
<1>21. Inner(k)'
  <2>1. Sorted(unread[w])'  BY <1>2, <1>18 DEF Inner, Sorted
  <2>2. CASE y = "close"
    <3>1. Precede(HeldAt(k), PendAt(k))' /\ Precede(HeldAt(k), ReadAt(k))'
          /\ Precede(PendAt(k), ReadAt(k))'
      BY <1>16, <2>2 DEF Precede, Real
    <3> QED  BY <2>1, <3>1 DEF Inner
  <2>3. CASE y # "close"
    <3>1. Precede({pend[w]}, ToSet(unread[w]))  BY <1>14, <1>18 DEF Inner
    <3>2. Precede(HeldAt(k), PendAt(k))' /\ Precede(HeldAt(k), ReadAt(k))'
          /\ Precede(PendAt(k), ReadAt(k))'
      BY <1>15, <1>19, <2>3, <3>1 DEF Precede, Real
    <3> QED  BY <2>1, <3>2 DEF Inner
  <2> QED  BY <2>2, <2>3
<1>22. CASE d # Base
  <2>1. UNCHANGED shown /\ HeldAt(k) = {}  BY <1>4, <1>14, <1>22
  <2>2. Flow'
    <3>1. Sorted(shown)'  BY <2>1 DEF Flow, InnerInv, Sorted
    <3> QED  BY <1>9, <1>10, <1>20, <1>21, <2>1, <3>1, WorkerMoves
  <2> QED  BY <1>4, <1>6, <1>9, <1>14, <1>15, <1>17, <2>1, <2>2
<1>23. CASE d = Base
  <2>1. shown' = shown \o <<held[w]>> /\ ToSet(shown') = ToSet(shown) \union {held[w]}
    <3>1. shown' = shown \o <<held[w]>>  BY <1>4, <1>23, Names
    <3> QED  BY <1>3, <3>1, SetOfOneMore
  <2>2. \A j \in DOMAIN Workers : j < k => In(j) = {}
    <3>1. Live(k) /\ ~Is(k, "send")  BY <1>6, OneState DEF Live, Flushes
    <3>2. Bottom(k)
      <4>1. ASSUME ~Bottom(k) PROVE FALSE
        <5>1. target[w] = Workers[k - 1]  BY <3>1, <4>1 DEF Chain, TargetInv
        <5>2. k - 1 \in DOMAIN Workers  BY <4>1, Names DEF Bottom
        <5> QED  BY <1>23, <5>1, <5>2, Names
      <4> QED  BY <4>1
    <3> SUFFICES ASSUME NEW j \in DOMAIN Workers, j < k PROVE In(j) = {}  OBVIOUS
    <3>3. k > 1 /\ k - 1 \in DOMAIN Workers /\ (j = k - 1 \/ j < k - 1)  BY Names
    <3>4. Is(k - 1, "gone")  BY <3>2, <3>3 DEF Bottom
    <3>5. Is(j, "gone")  BY <3>3, <3>4 DEF Chain, OrderOfWorkers
    <3>6. ~IsWorking(j)  BY <3>5, WorkingStates
    <3> QED  BY <3>6 DEF In, HeldAt, PendAt, ReadAt
  <2>3. Precede({held[w]}, In(k)')
    <3>1. CASE y = "close"  BY <1>16, <3>1 DEF In, Precede, Real
    <3>2. CASE y # "close"
      <4>1. Precede({held[w]}, {pend[w]}) /\ Precede({held[w]}, ToSet(unread[w]))
        BY <1>14, <1>18, <1>23 DEF Inner
      <4> QED  BY <1>15, <1>19, <3>2, <4>1 DEF In, Precede, Real
    <3> QED  BY <3>1, <3>2
  <2>4. Sorted(shown')
    <3>1. Precede(Place(0), Place(k))  BY Places DEF Flow, AcrossInv
    <3>2. Precede(ToSet(shown), {held[w]})
      BY <1>14, <1>23, <3>1, Places DEF In, Precede, Real
    <3>3. Sorted(shown) /\ Sorted(<<held[w]>>)  BY SortedOne DEF Flow, InnerInv
    <3> QED  BY <1>3, <2>1, <3>2, <3>3, SetOfFew, SortedConcat
  <2>5. Flow'
    <3>1. Sorted(shown)'  BY <2>4 DEF Sorted
    <3>2. {held[w]} \subseteq In(k)  BY <1>14, <1>23 DEF In
    <3> QED  BY <1>9, <1>10, <1>20, <1>21, <2>1, <2>2, <2>3, <3>1, <3>2, WorkerMoves
  <2> QED  BY <1>4, <1>6, <1>9, <1>14, <1>15, <1>17, <2>1, <2>5
<1> QED  BY <1>22, <1>23

LEMMA ScanLineLines ==
  ASSUME Types, Chain, Blocked, Contents, Flow, NEW k \in DOMAIN Workers, ScanLine(Workers[k])
  PROVE  /\ Contents' /\ Flow' /\ OthersStand(k) /\ UNCHANGED <<pipe, shown>>
         /\ HeldAt(k)' = HeldAt(k) /\ PendAt(k)' \union ReadAt(k)' = ReadAt(k)
<1> DEFINE w == Workers[k]
           u == unread[Workers[k]]
<1>1. /\ u # << >> /\ pend'[w] = Head(u) /\ unread'[w] = Tail(u)
      /\ \A j \in DOMAIN Workers : j # k => /\ unread'[Workers[j]] = unread[Workers[j]]
                                            /\ pend'[Workers[j]] = pend[Workers[j]]
  BY ScanLineTypes
<1>2. PICK y \in {"flush, scan", "scan"} : GoesOn(k, "read", y)  BY ScanLineTypes
<1>3. UNCHANGED <<target, held, werr, putting, pipe, shown>> /\ WorkerOnly  BY DEF ScanLine
<1>4. /\ todo'[w] = <<y>> /\ \A j \in DOMAIN Workers : j # k => todo'[Workers[j]] = todo[Workers[j]]
  BY <1>2, Names DEF GoesOn, OnlyTodo
<1>5. \A x : Is(k, x)' <=> x = y  BY <1>4, OneChanged
<1>6. Is(k, "read") /\ pend[w] = NoLine  BY <1>2 DEF GoesOn, Contents, PlainInv
<1>7. IsWorking(k) /\ IsWorking(k)'
  <2>1. "read" \in Working /\ y \in Working  BY DEF Working, Flushes
  <2> QED  BY <1>5, <1>6, <2>1 DEF IsWorking
<1>8. u \in Seq(Lines)  BY Names DEF Types, Shapes
<1>9. ToSet(u) = {Head(u)} \union ToSet(Tail(u))  BY <1>1, <1>8, SetOfRest
<1>10. \A l \in ToSet(u) : Plain(l)  BY DEF Contents, PlainInv, AllPlain
<1>11. Plain(Head(u)) /\ Head(u) # NoLine
  <2>1. Plain(Head(u))  BY <1>9, <1>10
  <2> QED  BY <2>1, NoPositions DEF Plain
<1>12. OthersStand(k)  BY <1>1, <1>3, <1>4 DEF OthersStand
<1>13. DataOfTarget(k)  BY <1>3 DEF DataOfTarget
<1>14. ~putting[w]
  <2>1. putting[w] => \E f \in Flushes : Is(k, f)  BY DEF Blocked, PutInv
  <2>2. \A f \in Flushes : ~Is(k, f)  BY <1>6, OneState DEF Flushes
  <2> QED  BY <2>1, <2>2
<1>15. Contents'
  <2>1. ~Is(k, "new")' /\ ~Is(k, "read")'  BY <1>5
  <2>2. AllPlain(shown)' /\ Plain(held[w])'
    BY <1>3 DEF Contents, PlainInv, AllPlain, Plain
  <2>3. AllPlain(unread[w])'  BY <1>1, <1>9, <1>10 DEF AllPlain, Plain
  <2>4. pend'[w] # NoLine /\ Plain(pend[w])'  BY <1>1, <1>11 DEF Plain
  <2>5. ~putting'[w]  BY <1>3, <1>14
  <2> HIDE DEF w, u
  <2> QED  BY <1>12, <1>13, <2>1, <2>2, <2>3, <2>4, <2>5, OthersContents DEF w, u
<1>16. /\ HeldAt(k)' = HeldAt(k) /\ PendAt(k) = {NoLine} /\ ReadAt(k) = ToSet(u)
       /\ PendAt(k)' = {Head(u)} /\ ReadAt(k)' = ToSet(Tail(u))
  <2>1. HasPut(w, target[w])' <=> HasPut(w, target[w])  BY <1>3 DEF HasPut
  <2> QED  BY <1>1, <1>3, <1>6, <1>7, <2>1 DEF HeldAt, PendAt, ReadAt
<1>17. PendAt(k)' \union ReadAt(k)' = ReadAt(k)  BY <1>9, <1>16
<1>18. Real(In(k)') \subseteq Real(In(k))  BY <1>16, <1>17 DEF In, Real
<1>19. Inner(k)'
  <2>1. Inner(k)  BY DEF Flow, InnerInv
  <2>2. Sorted(u)  BY <2>1 DEF Inner
  <2>3. Sorted(Tail(u)) /\ Precede({Head(u)}, ToSet(Tail(u)))  BY <1>1, <1>8, <2>2, SortedRest
  <2>4. Precede(HeldAt(k), ToSet(u))  BY <1>16, <2>1 DEF Inner
  <2>5. Precede(HeldAt(k), {Head(u)}) /\ Precede(HeldAt(k), ToSet(Tail(u)))
    BY <1>9, <2>4 DEF Precede, Real
  <2>6. Sorted(unread[w])'  BY <1>1, <2>3 DEF Sorted
  <2>7. Precede(HeldAt(k), PendAt(k))' /\ Precede(HeldAt(k), ReadAt(k))'
        /\ Precede(PendAt(k), ReadAt(k))'
    BY <1>16, <2>3, <2>5 DEF Precede, Real
  <2> QED  BY <2>6, <2>7 DEF Inner
<1>20. Flow'
  <2>1. Sorted(shown)'  BY <1>3 DEF Flow, InnerInv, Sorted
  <2>2. UNCHANGED shown  BY <1>3
  <2> QED  BY <1>12, <1>13, <1>18, <1>19, <2>1, <2>2, WorkerMoves
<1> QED  BY <1>3, <1>12, <1>15, <1>16, <1>17, <1>20

\* what a worker reads, it takes from the log or from the worker after it
LEMMA ReadPipeDoes ==
  ASSUME Types, Chain, Blocked, Contents, Flow, NEW k \in DOMAIN Workers, ReadPipe(Workers[k])
  PROVE  /\ Contents' /\ WorkerOnly
         /\ UNCHANGED <<target, pend, held, werr, todo, putting, shown, buf, logged, out>>
         /\ OnlyData(Workers[k], << >>)
         /\ unread'[Workers[k]] = pipe[Workers[k]].data /\ pipe[Workers[k]].data # << >>
         /\ \A j \in DOMAIN Workers : j # k => unread'[Workers[j]] = unread[Workers[j]]
         /\ \A j \in DOMAIN Workers : /\ IsWorking(j)' <=> IsWorking(j)
                                      /\ PendAt(j)' = PendAt(j)
                                      /\ j # k => ReadAt(j)' = ReadAt(j)
         /\ HeldAt(k)' = HeldAt(k) /\ PendAt(k) = {NoLine} /\ ReadAt(k) = {}
         /\ ReadAt(k)' = ToSet(pipe[Workers[k]].data)
<1> DEFINE w == Workers[k]
<1>1. /\ UNCHANGED todo /\ OnlyData(w, << >>) /\ unread'[w] = pipe[w].data
      /\ \A j \in DOMAIN Workers : j # k => unread'[Workers[j]] = unread[Workers[j]]
  BY ReadPipeTypes
<1>2. /\ UNCHANGED <<target, pend, held, werr, putting, shown>> /\ WorkerOnly
      /\ Is(k, "read") /\ unread[w] = << >> /\ pipe[w].data # << >>
  BY DEF ReadPipe, At, Is
<1>3. UNCHANGED <<buf, logged, out>>  BY <1>2 DEF WorkerOnly, logger
<1>4. pend[w] = NoLine  BY <1>2 DEF Contents, PlainInv
<1>5. \A j : (IsWorking(j)' <=> IsWorking(j)) /\ \A x : Is(j, x)' <=> Is(j, x)
  BY <1>1, SameState
<1>6. IsWorking(k)
  <2>1. "read" \in Working  BY DEF Working
  <2> QED  BY <1>2, <2>1 DEF IsWorking
<1>7. ~putting[w]
  <2>1. putting[w] => \E f \in Flushes : Is(k, f)  BY DEF Blocked, PutInv
  <2>2. \A f \in Flushes : ~Is(k, f)  BY <1>2, OneState DEF Flushes
  <2> QED  BY <2>1, <2>2
<1>8. \A v \in ToSet(Workers) : /\ pipe'[v].data = pipe[v].data \/ pipe'[v].data = << >>
                                /\ v # w => pipe'[v].data = pipe[v].data
                                /\ pipe'[v].rclosed = pipe[v].rclosed
                                /\ pipe'[v].wclosed = pipe[v].wclosed
  BY <1>1 DEF OnlyData
<1>9. NewInv'
  <2> SUFFICES ASSUME NEW j \in DOMAIN Workers, Is(j, "new")'
               PROVE  /\ unread'[Workers[j]] = << >> /\ pend'[Workers[j]] = NoLine
                      /\ held'[Workers[j]] = Blank
                      /\ ~werr'[Workers[j]] /\ pipe'[Workers[j]].data = << >>
                      /\ ~pipe'[Workers[j]].rclosed /\ ~pipe'[Workers[j]].wclosed
    BY DEF NewInv
  <2>1. Is(j, "new") /\ j # k  BY <1>2, <1>5, OneState
  <2>2. Workers[j] \in ToSet(Workers) /\ Workers[j] # w  BY <2>1, Names
  <2> QED  BY <1>1, <1>2, <1>8, <2>1, <2>2 DEF Contents, NewInv
<1>10. PlainInv'
  <2>1. AllPlain(shown)' /\ AllPlain(buf)'
    BY <1>2, <1>3 DEF Contents, PlainInv, AllPlain, Plain
  <2>2. ASSUME NEW j \in DOMAIN Workers
        PROVE  /\ AllPlain(unread[Workers[j]])' /\ AllPlain(pipe[Workers[j]].data)'
               /\ Plain(held[Workers[j]])'
               /\ pend'[Workers[j]] # NoLine => Plain(pend[Workers[j]])'
               /\ Is(j, "read")' => pend'[Workers[j]] = NoLine
               /\ Is(j, "flush, read")' \/ Is(j, "flush, scan")' => pend'[Workers[j]] # NoLine
    <3>1. AllPlain(pipe[Workers[j]].data)'
      <4>1. AllPlain(pipe[Workers[j]].data) /\ Workers[j] \in ToSet(Workers)
        BY Names DEF Contents, PlainInv
      <4>2. ToSet(<< >>) = {}  BY SetOfFew
      <4> QED  BY <1>8, <4>1, <4>2 DEF AllPlain, Plain
    <3>2. AllPlain(unread[Workers[j]])'
      <4>1. AllPlain(pipe[w].data) /\ AllPlain(unread[Workers[j]])  BY DEF Contents, PlainInv
      <4>2. CASE j = k  BY <1>1, <4>1, <4>2 DEF AllPlain, Plain
      <4>3. CASE j # k  BY <1>1, <4>1, <4>3 DEF AllPlain, Plain
      <4> QED  BY <4>2, <4>3
    <3>3. /\ Plain(held[Workers[j]])'
          /\ pend'[Workers[j]] # NoLine => Plain(pend[Workers[j]])'
          /\ Is(j, "read")' => pend'[Workers[j]] = NoLine
          /\ Is(j, "flush, read")' \/ Is(j, "flush, scan")' => pend'[Workers[j]] # NoLine
      BY <1>2, <1>5 DEF Contents, PlainInv, Plain
    <3> QED  BY <3>1, <3>2, <3>3
  <2> QED  BY <2>1, <2>2 DEF PlainInv
<1>11. CopyInv'
  <2>1. ASSUME NEW c \in Clients, putting'[c] PROVE pipe'[out'].data \in {buf', << >>}
    <3>1. putting[c]  BY <1>2, <2>1
    <3>2. out \in ToSet(Workers)  BY <3>1, WritesTo, Names
    <3> QED  BY <1>3, <1>8, <3>1, <3>2 DEF Contents, CopyInv
  <2>2. ASSUME NEW j \in DOMAIN Workers, putting'[Workers[j]]
        PROVE  pipe'[target'[Workers[j]]].data \in {<<held'[Workers[j]]>>, << >>}
    <3>1. putting[Workers[j]]  BY <1>2, <2>2
    <3>2. target[Workers[j]] \in ToSet(Workers)  BY <3>1, WritesTo, Names
    <3>3. UNCHANGED <<target, held>>  BY <1>2
    <3> QED  BY <1>8, <3>1, <3>2, <3>3 DEF Contents, CopyInv
  <2> QED  BY <2>1, <2>2 DEF CopyInv
<1>12. \A j \in DOMAIN Workers : /\ IsWorking(j)' <=> IsWorking(j)
                                 /\ PendAt(j)' = PendAt(j)
                                 /\ j # k => ReadAt(j)' = ReadAt(j)
  BY <1>1, <1>2, <1>5 DEF PendAt, ReadAt
<1>13. HeldAt(k)' = HeldAt(k) /\ PendAt(k) = {NoLine} /\ ReadAt(k) = {}
       /\ ReadAt(k)' = ToSet(pipe[w].data)
  <2>1. ~HasPut(w, target[w])' /\ ~HasPut(w, target[w])  BY <1>2, <1>7 DEF HasPut
  <2> QED  BY <1>1, <1>2, <1>4, <1>5, <1>6, <2>1, SetOfFew DEF HeldAt, PendAt, ReadAt
<1> QED  BY <1>1, <1>2, <1>3, <1>9, <1>10, <1>11, <1>12, <1>13 DEF Contents

LEMMA ReadFromLog ==
  ASSUME Types, Chain, Blocked, Contents, Flow, NEW k \in DOMAIN Workers, ReadPipe(Workers[k]),
         NEW c \in Clients, putting[c], out = Workers[k]
  PROVE  /\ Flow'
         /\ \A j \in DOMAIN Workers : j # k => Stays(j)
         /\ In(k)' = In(k) \union ToSet(buf) /\ BufAt = ToSet(buf)
<1> DEFINE w == Workers[k]
<1>1. /\ UNCHANGED <<target, pend, held, werr, todo, putting, shown, buf, logged, out>>
      /\ OnlyData(w, << >>) /\ unread'[w] = pipe[w].data /\ pipe[w].data # << >>
      /\ \A j \in DOMAIN Workers : j # k => unread'[Workers[j]] = unread[Workers[j]]
      /\ \A j \in DOMAIN Workers : IsWorking(j)' <=> IsWorking(j)
      /\ PendAt(k)' = PendAt(k)
      /\ HeldAt(k)' = HeldAt(k) /\ PendAt(k) = {NoLine} /\ ReadAt(k) = {}
      /\ ReadAt(k)' = ToSet(pipe[w].data)
  BY ReadPipeDoes
<1>2. Top(k)
  <2>1. PICK t \in DOMAIN Workers : Top(t) /\ out = Workers[t]  BY WritesTo
  <2>2. t = k  BY <2>1, Names
  <2> QED  BY <2>1, <2>2
<1>3. pipe[w].data = buf /\ w \in ToSet(Workers)  BY <1>1, Names DEF Contents, CopyInv
<1>4. BufAt = ToSet(buf) /\ BufAt' = {}
  <2>1. \A d \in Clients : ~HasPut(d, out)  BY <1>1 DEF HasPut
  <2>2. HasPut(c, out)'  BY <1>1, <1>3 DEF HasPut, OnlyData
  <2> QED  BY <2>1, <2>2 DEF BufAt
<1>5. ASSUME NEW j \in DOMAIN Workers, j # k PROVE Stays(j)
  <2>1. putting[Workers[j]] => pipe'[target[Workers[j]]].data = pipe[target[Workers[j]]].data
    <3>1. ASSUME putting[Workers[j]]
          PROVE  target[Workers[j]] \in ToSet(Workers) /\ target[Workers[j]] # w
      <4>1. /\ \E f \in Flushes : Is(j, f)
            /\ target[Workers[j]] # Base /\ target[Workers[j]] \in ToSet(Workers)
        BY <3>1, WritesTo, Names
      <4> QED  BY <4>1, OwnPipes
    <3> QED  BY <1>1, <3>1 DEF OnlyData
  <2> QED  BY <1>1, <1>5, <2>1, WorkerStays
<1>6. In(k)' = In(k) \union ToSet(buf)  BY <1>1, <1>3 DEF In
<1>7. ASSUME NEW m \in Spots, k < m, m <= Buffer PROVE Precede(ToSet(buf), Place(m)')
  <2>1. CASE m = Buffer  BY <1>4, <2>1, Places, Nothing
  <2>2. CASE m # Buffer
    <3>1. m \in DOMAIN Workers /\ m # k  BY <1>7, <2>2, Places, Names
    <3>2. Is(m, "new")
      <4>1. k < Len(Workers) /\ k + 1 \in DOMAIN Workers /\ (m = k + 1 \/ k + 1 < m)
        BY <1>7, <3>1, Names
      <4>2. Is(k + 1, "new")  BY <1>2, <4>1 DEF Top
      <4> QED  BY <3>1, <4>1, <4>2 DEF Chain, OrderOfWorkers
    <3>3. ~IsWorking(m)  BY <3>2, WorkingStates
    <3>4. In(m)' = {}
      <4>1. In(m) = {}  BY <3>3 DEF In, HeldAt, PendAt, ReadAt
      <4> QED  BY <1>5, <3>1, <4>1, StaysIn
    <3> QED  BY <3>1, <3>4, Places, Nothing
  <2> QED  BY <2>1, <2>2
<1>8. Moves(k, Buffer, ToSet(buf))
  <2>1. \A m \in Spots : m # k => Real(Place(m)') \subseteq Real(Place(m))
    <3>1. \A j \in DOMAIN Workers : j # k => Place(j)' = Place(j)  BY <1>5, StaysIn, Places
    <3>2. Place(0)' = Place(0) /\ Real(Place(Buffer)') = {}  BY <1>1, <1>4, Places, Nothing
    <3> QED  BY <3>1, <3>2, Places DEF Real
  <2>2. Real(Place(k)') \subseteq Real(Place(k)) \union ToSet(buf)  BY <1>6, Places DEF Real
  <2>3. ToSet(buf) \subseteq Place(Buffer)  BY <1>4, Places
  <2> QED  BY <1>7, <2>1, <2>2, <2>3 DEF Moves
<1>9. KnownInv' /\ AcrossInv'
  <2>1. UNCHANGED logged  BY <1>1
  <2> QED  BY <1>8, <2>1, MovedLines, Places DEF Flow
<1>10. Inner(k)'
  <2>1. Precede(Place(k), Place(Buffer))  BY Places DEF Flow, AcrossInv
  <2>2. Precede(HeldAt(k), ToSet(buf))  BY <1>4, <2>1, Places DEF In, Precede, Real
  <2>3. Real({NoLine}) = {}  BY NoPositions DEF Real
  <2>4. Precede(HeldAt(k), PendAt(k))' /\ Precede(HeldAt(k), ReadAt(k))'
        /\ Precede(PendAt(k), ReadAt(k))'
    BY <1>1, <1>3, <2>2, <2>3 DEF Precede, Real
  <2>5. Sorted(unread[w])'  BY <1>1, <1>3 DEF Flow, InnerInv, Sorted
  <2> QED  BY <2>4, <2>5 DEF Inner
<1>11. InnerInv'
  <2>1. \A j \in DOMAIN Workers : j # k => Inner(j)'  BY <1>5, StaysIn DEF Flow, InnerInv
  <2>2. Sorted(shown)' /\ Sorted(buf)'  BY <1>1 DEF Flow, InnerInv, Sorted
  <2> QED  BY <1>10, <2>1, <2>2 DEF InnerInv
<1> QED  BY <1>4, <1>5, <1>6, <1>9, <1>11 DEF Flow

LEMMA ReadFromWorker ==
  ASSUME Types, Chain, Blocked, Contents, Flow, NEW k \in DOMAIN Workers, ReadPipe(Workers[k]),
         NEW j \in DOMAIN Workers, j = k + 1, putting[Workers[j]], target[Workers[j]] = Workers[k]
  PROVE  /\ Flow' /\ LogStays
         /\ \A i \in DOMAIN Workers : i # j /\ i # k => Stays(i)
         /\ In(k)' = In(k) \union {held[Workers[j]]}
         /\ In(j) = In(j)' \union {held[Workers[j]]}
<1> DEFINE w == Workers[k]
           l == held[Workers[j]]
<1>1. /\ UNCHANGED <<target, pend, held, werr, todo, putting, shown, buf, logged, out>>
      /\ OnlyData(w, << >>) /\ unread'[w] = pipe[w].data /\ pipe[w].data # << >>
      /\ \A i \in DOMAIN Workers : i # k => unread'[Workers[i]] = unread[Workers[i]]
      /\ \A i \in DOMAIN Workers : IsWorking(i)' <=> IsWorking(i)
      /\ PendAt(k)' = PendAt(k) /\ PendAt(j)' = PendAt(j)
      /\ HeldAt(k)' = HeldAt(k) /\ PendAt(k) = {NoLine} /\ ReadAt(k) = {}
      /\ ReadAt(k)' = ToSet(pipe[w].data)
  BY ReadPipeDoes
<1>2. j # k /\ k < j /\ w \in ToSet(Workers) /\ w # Base  BY Names
<1>3. pipe[w].data = <<l>>  BY <1>1 DEF Contents, CopyInv
<1>4. PICK f \in Flushes : Is(j, f)  BY WritesTo
<1>5. /\ w # out
      /\ \A i \in DOMAIN Workers : i # j /\ putting[Workers[i]] => target[Workers[i]] # w
  BY <1>2, <1>4, OwnPipes
<1>6. ReadAt(j)' = ReadAt(j)  BY <1>1, <1>2 DEF ReadAt
<1>7. HeldAt(j) = {l} /\ HeldAt(j)' = {}
  <2>1. IsWorking(j)  BY <1>4, FlushingIsWorking
  <2>2. ~HasPut(Workers[j], target[Workers[j]])  BY <1>1 DEF HasPut
  <2>3. HasPut(Workers[j], target[Workers[j]])'  BY <1>1 DEF HasPut, OnlyData
  <2> QED  BY <2>1, <2>2, <2>3 DEF HeldAt
<1>8. ASSUME NEW i \in DOMAIN Workers, i # j, i # k PROVE Stays(i)
  <2>1. putting[Workers[i]] => pipe'[target[Workers[i]]].data = pipe[target[Workers[i]]].data
    <3>1. putting[Workers[i]] => target[Workers[i]] \in ToSet(Workers)  BY WritesTo, Names
    <3> QED  BY <1>1, <1>5, <1>8, <3>1 DEF OnlyData
  <2> QED  BY <1>1, <1>8, <2>1, WorkerStays
<1>9. LogStays
  <2>1. \A c \in Clients : putting[c] => out \in ToSet(Workers)  BY WritesTo, Names
  <2>2. \A c \in Clients : putting[c] => pipe'[out].data = pipe[out].data
    BY <1>1, <1>5, <2>1 DEF OnlyData
  <2>3. \A c \in Clients : HasPut(c, out)' <=> HasPut(c, out)  BY <1>1, <2>2 DEF HasPut
  <2> QED  BY <1>1, <2>3 DEF LogStays, BufAt
<1>10. ReadAt(k)' = {l}  BY <1>1, <1>3, SetOfFew
<1>11. In(k)' = In(k) \union {l} /\ In(j) = In(j)' \union {l}
       /\ In(j)' = PendAt(j) \union ReadAt(j)
  BY <1>1, <1>6, <1>7, <1>10 DEF In
<1>12. Inner(j) /\ Inner(k)  BY DEF Flow, InnerInv
<1>13. Moves(k, j, {l})
  <2>1. {l} \subseteq Place(j)  BY <1>11, Places
  <2>2. \A m \in Spots : k < m /\ m <= j => m = j  BY Names, Places
  <2>3. Precede({l}, In(j)')
    BY <1>7, <1>11, <1>12 DEF Inner, Precede, Real
  <2>4. \A m \in Spots : k < m /\ m <= j => Precede({l}, Place(m)')  BY <2>2, <2>3, Places
  <2>5. \A m \in Spots : m # k => Real(Place(m)') \subseteq Real(Place(m))
    <3>1. \A i \in DOMAIN Workers : i # j /\ i # k => Place(i)' = Place(i)
      BY <1>8, StaysIn, Places
    <3>2. Place(0)' = Place(0) /\ Place(Buffer)' = Place(Buffer)  BY <1>9, Places DEF LogStays
    <3>3. Real(Place(j)') \subseteq Real(Place(j))  BY <1>11, Places DEF Real
    <3> QED  BY <3>1, <3>2, <3>3, Places DEF Real
  <2>6. Real(Place(k)') \subseteq Real(Place(k)) \union {l}  BY <1>11, Places DEF Real
  <2> QED  BY <2>1, <2>4, <2>5, <2>6 DEF Moves
<1>14. KnownInv' /\ AcrossInv'
  <2>1. UNCHANGED logged  BY <1>1
  <2> QED  BY <1>2, <1>13, <2>1, MovedLines, Places DEF Flow
<1>15. Inner(k)'
  <2>1. Precede(Place(k), Place(j))  BY <1>2, Places DEF Flow, AcrossInv
  <2>2. Precede(HeldAt(k), {l})  BY <1>7, <2>1, Places DEF In, Precede, Real
  <2>3. Real({NoLine}) = {}  BY NoPositions DEF Real
  <2>4. Precede(HeldAt(k), PendAt(k))' /\ Precede(HeldAt(k), ReadAt(k))'
        /\ Precede(PendAt(k), ReadAt(k))'
    BY <1>1, <1>10, <2>2, <2>3 DEF Precede, Real
  <2>5. Sorted(unread'[w])  BY <1>1, <1>3, SortedOne
  <2>6. Sorted(unread[w])'  BY <2>5 DEF Sorted
  <2> QED  BY <2>4, <2>6 DEF Inner
<1>16. Inner(j)'
  <2>1. Precede(HeldAt(j), PendAt(j))' /\ Precede(HeldAt(j), ReadAt(j))'
    BY <1>7 DEF Precede, Real
  <2>2. Precede(PendAt(j), ReadAt(j))'
    BY <1>1, <1>6, <1>12 DEF Inner, Precede, Real
  <2>3. Sorted(unread[Workers[j]])'  BY <1>1, <1>2, <1>12 DEF Inner, Sorted
  <2> QED  BY <2>1, <2>2, <2>3 DEF Inner
<1>17. InnerInv'
  <2>1. \A i \in DOMAIN Workers : i # j /\ i # k => Inner(i)'
    BY <1>8, StaysIn DEF Flow, InnerInv
  <2>2. Sorted(shown)' /\ Sorted(buf)'  BY <1>1 DEF Flow, InnerInv, Sorted
  <2> QED  BY <1>15, <1>16, <2>1, <2>2 DEF InnerInv
<1> QED  BY <1>8, <1>9, <1>11, <1>14, <1>17 DEF Flow

LEMMA OneMorePlace == \A m \in Spots : Place(m)' \subseteq OnTheWay'
BY DEF OnTheWay, Spots, Buffer

LEMMA ReadPipeLines ==
  ASSUME Types, Chain, Blocked, Contents, Flow, NEW k \in DOMAIN Workers, ReadPipe(Workers[k])
  PROVE  /\ Contents' /\ Flow'
         /\ \A m \in Spots : Place(m) \subseteq OnTheWay'
<1>0. Contents' /\ UNCHANGED shown /\ pipe[Workers[k]].data # << >>  BY ReadPipeDoes
<1>1. Place(0) \subseteq OnTheWay'
  <2>1. Place(0) = Place(0)'  BY <1>0, Places
  <2> QED  BY <2>1, OneMorePlace, Places
<1>2. CASE \E c \in Clients : putting[c] /\ out = Workers[k]
  <2>1. /\ Flow' /\ \A j \in DOMAIN Workers : j # k => Stays(j)
        /\ In(k)' = In(k) \union ToSet(buf) /\ BufAt = ToSet(buf)
    BY <1>2, ReadFromLog
  <2>2. \A j \in DOMAIN Workers : j # k => In(j)' = In(j)  BY <2>1, StaysIn
  <2>3. \A j \in DOMAIN Workers : In(j)' \subseteq OnTheWay'  BY OneMorePlace, Places
  <2>4. \A j \in DOMAIN Workers : In(j) \subseteq OnTheWay'  BY <2>1, <2>2, <2>3
  <2>5. BufAt \subseteq OnTheWay'  BY <2>1, <2>3
  <2> QED  BY <1>0, <1>1, <2>1, <2>4, <2>5, Places
<1>3. CASE \E j \in DOMAIN Workers :
             j = k + 1 /\ putting[Workers[j]] /\ target[Workers[j]] = Workers[k]
  <2>1. PICK j \in DOMAIN Workers :
          j = k + 1 /\ putting[Workers[j]] /\ target[Workers[j]] = Workers[k]
    BY <1>3
  <2>2. /\ Flow' /\ LogStays /\ \A i \in DOMAIN Workers : i # j /\ i # k => Stays(i)
        /\ In(k)' = In(k) \union {held[Workers[j]]}
        /\ In(j) = In(j)' \union {held[Workers[j]]}
    BY <2>1, ReadFromWorker
  <2>3. \A i \in DOMAIN Workers : i # j /\ i # k => In(i)' = In(i)  BY <2>2, StaysIn
  <2>4. \A i \in DOMAIN Workers : In(i)' \subseteq OnTheWay'  BY OneMorePlace, Places
  <2>5. \A i \in DOMAIN Workers : In(i) \subseteq OnTheWay'  BY <2>2, <2>3, <2>4
  <2>6. Place(Buffer)' = BufAt /\ Place(Buffer)' \subseteq OnTheWay'
    BY <2>2, OneMorePlace, Places DEF LogStays
  <2> QED  BY <1>0, <1>1, <2>2, <2>5, <2>6, Places
<1>4. \/ \E c \in Clients : putting[c] /\ out = Workers[k]
      \/ \E j \in DOMAIN Workers :
           j = k + 1 /\ putting[Workers[j]] /\ target[Workers[j]] = Workers[k]
  <2>1. k < Len(Workers) => k + 1 \in DOMAIN Workers  BY Names
  <2> QED  BY <1>0, <2>1 DEF Blocked, DataInv
<1> QED  BY <1>2, <1>3, <1>4
----------------------------------------------------------------------------
(* Every step keeps the lines in order.                                    *)

LEMMA IdleIsQuiet == ASSUME Break \/ UNCHANGED vars PROVE Quiet
<1>1. UNCHANGED <<shown, buf, logged, putting, unread, pend, held, werr, target, out, pipe, todo>>
  BY DEF Break, vars, logger, client, worker
<1> QED  BY <1>1, SameState DEF Quiet

LEMMA QuietFlow ==
  ASSUME Types, Chain, Blocked, Contents, Flow, Quiet PROVE Contents' /\ Flow'
BY QuietStays, QuietContents, StillLines

LEMMA StepKeepsFlow ==
  ASSUME Types, Chain, Blocked, Contents, Flow, [Next]_vars PROVE Contents' /\ Flow'
<1>1. ASSUME NEW c \in Clients, Client(c) PROVE Contents' /\ Flow'
  <2>1. CASE \/ Lock(c) \/ Unlock(c) \/ StartUnwrap(c) \/ StartReport(c) \/ HangUp(c)
             \/ CloseDone(c) \/ SetCode(c) \/ Answer(c)
    BY <2>1, ClientsAreQuiet, QuietFlow
  <2>2. CASE LogLine(c)  BY <2>2, LogLineLines
  <2>3. CASE PrintfPuts(c)  BY <2>3, PrintfPutsLines
  <2>4. CASE PrintfOk(c)  BY <2>4, PrintfOkLines
  <2>5. CASE PrintfFails(c)  BY <2>5, PrintfFailsLines
  <2>6. CASE Wrap(c)  BY <2>6, WrapLines
  <2> QED  BY <1>1, <2>1, <2>2, <2>3, <2>4, <2>5, <2>6 DEF Client
<1>2. ASSUME NEW k \in DOMAIN Workers, Worker(Workers[k]) PROVE Contents' /\ Flow'
  <2>1. CASE \/ StartScan(Workers[k]) \/ PipeEnds(Workers[k]) \/ ScanFails(Workers[k])
             \/ WorkerHangsUp(Workers[k]) \/ WorkerCloses(Workers[k])
    BY <2>1, WorkersAreQuiet, QuietFlow
  <2>2. CASE ReadPipe(Workers[k])  BY <2>2, ReadPipeLines
  <2>3. CASE ScanLine(Workers[k])  BY <2>3, ScanLineLines
  <2>4. CASE FlushPuts(Workers[k])  BY <2>4, FlushPutsLines
  <2>5. CASE FlushOk(Workers[k])  BY <2>5, FlushOkLines
  <2>6. CASE FlushFails(Workers[k])  BY <2>6, FlushFailsLines
  <2> QED  BY <1>2, <2>1, <2>2, <2>3, <2>4, <2>5, <2>6 DEF Worker
<1>3. CASE Break \/ UNCHANGED vars  BY <1>3, IdleIsQuiet, QuietFlow
<1> QED  BY <1>1, <1>2, <1>3, Names DEF Next

LEMMA InitFlow == ASSUME Init PROVE Contents /\ Flow
<1> USE DEF Init
<1>1. /\ shown = << >> /\ buf = << >> /\ logged = << >> /\ Blank # NoLine
      /\ \A p \in Procs : ~putting[p]
  BY NoPositions DEF Procs
<1>2. \A k \in DOMAIN Workers :
        /\ Is(k, "new") /\ unread[Workers[k]] = << >> /\ pend[Workers[k]] = NoLine
        /\ held[Workers[k]] = Blank /\ ~werr[Workers[k]] /\ pipe[Workers[k]].data = << >>
        /\ ~pipe[Workers[k]].rclosed /\ ~pipe[Workers[k]].wclosed
  BY Names DEF Is
<1> USE DEF AllPlain
<1>3. NewInv  BY <1>2 DEF NewInv
<1>4. PlainInv
  <2>1. \A k \in DOMAIN Workers : ~Is(k, "read") /\ ~Is(k, "flush, read") /\ ~Is(k, "flush, scan")
    BY <1>2, OneState
  <2>2. Plain(Blank) /\ ToSet(<< >>) = {}  BY SetOfFew DEF Plain
  <2> QED  BY <1>1, <1>2, <2>1, <2>2 DEF PlainInv
<1>5. CopyInv  BY <1>1, Names DEF CopyInv
<1>6. \A k \in DOMAIN Workers : HeldAt(k) = {} /\ PendAt(k) = {} /\ ReadAt(k) = {} /\ In(k) = {}
  <2>1. \A k \in DOMAIN Workers : ~IsWorking(k)  BY <1>2, WorkingStates
  <2> QED  BY <2>1 DEF HeldAt, PendAt, ReadAt, In
<1>7. BufAt = {} /\ ToSet(shown) = {}  BY <1>1, SetOfFew DEF BufAt
<1>8. \A m \in Spots : Place(m) = {}  BY <1>6, <1>7 DEF Place
<1>9. KnownInv
  <2>1. DOMAIN << >> = {}  OBVIOUS
  <2>2. \A m \in Spots : Known(Place(m))  BY <1>8, Nothing DEF Known
  <2> QED  BY <1>1, <2>1, <2>2 DEF KnownInv
<1>10. AcrossInv  BY <1>8, Nothing DEF AcrossInv
<1>11. InnerInv
  <2>1. DOMAIN << >> = {}  OBVIOUS
  <2>2. Sorted(<< >>)  BY <2>1 DEF Sorted
  <2> QED  BY <1>1, <1>2, <1>6, <2>2, Nothing DEF InnerInv, Inner
<1> QED  BY <1>3, <1>4, <1>5, <1>9, <1>10, <1>11 DEF Contents, Flow

LEMMA FlowMeansOrder == ASSUME Types, Contents, Flow PROVE LinesInOrder
<1>1. \A i \in DOMAIN shown : shown[i] \in Lines /\ shown[i] \in ToSet(shown)
  BY DEF Types, Shapes, ToSet
<1>2. \A i \in DOMAIN shown : shown[i] # Blank => Position(shown[i]) > 0
  <2>1. \A i \in DOMAIN shown : Position(shown[i]) \in Nat  BY <1>1, Positions
  <2>2. \A i \in DOMAIN shown : Plain(shown[i])  BY <1>1 DEF Contents, PlainInv, AllPlain
  <2> QED  BY <2>1, <2>2 DEF Plain
<1>3. \A i \in DOMAIN shown : shown[i] # Blank => shown[i] \in ToSet(logged)
  <2>1. Known(ToSet(shown))  BY Places DEF Flow, KnownInv
  <2> QED  BY <1>1, <1>2, <2>1 DEF Known, Real
<1>4. Sorted(shown)  BY DEF Flow, InnerInv
<1> QED  BY <1>2, <1>3, <1>4 DEF LinesInOrder, Sorted

\* Whatever fails, the output shows the lines that were logged in the order in
\* which they were logged, none twice and nothing else but empty lines, though
\* each of any number of workers keeps lines back and a line that could not be
\* written is written again with the next one.
THEOREM LinesStayInOrder == Spec => []LinesInOrder
<1> DEFINE All == Types /\ Chain /\ Blocked /\ Contents /\ Flow
<1>1. Init => All  BY InitTypes, InitBlocked, InitFlow
<1>2. All /\ [Next]_vars => All'  BY StepKeepsTypes, StepKeepsBlocked, StepKeepsFlow
<1>3. All => LinesInOrder  BY FlowMeansOrder
<1> HIDE DEF All
<1> QED  BY <1>1, <1>2, <1>3, PTL DEF Spec
----------------------------------------------------------------------------
(* A worker that ends without an error has passed on all that there was.   *)

\* what a step does to the ends of the pipes and to the workers that end
DataSteady ==
  \A w \in ToSet(Workers) :
    /\ pipe'[w].rclosed = pipe[w].rclosed /\ pipe'[w].wclosed = pipe[w].wclosed
    /\ pipe[w].wclosed => pipe'[w].data \in {pipe[w].data, << >>}
EndsSteady(k) ==
  /\ pipe[Workers[k]].wclosed =>
       pipe'[Workers[k]].wclosed /\ pipe'[Workers[k]].data \in {pipe[Workers[k]].data, << >>}
  /\ werr[Workers[k]] => werr'[Workers[k]]
  /\ \A s \in Ending : Is(k, s)' =>
       \/ \E r \in Ending : /\ Is(k, r)
                            /\ s = "flush, close" =>
                                 /\ r = s /\ unread'[Workers[k]] = unread[Workers[k]]
                                 /\ pend'[Workers[k]] = pend[Workers[k]]
       \/ werr'[Workers[k]]
       \/ /\ pipe'[Workers[k]].wclosed /\ pipe'[Workers[k]].data = << >>
          /\ unread'[Workers[k]] = << >> /\ pend'[Workers[k]] = NoLine
ClosedSteady ==
  /\ fallback = None => fallback' = None
  /\ \A k \in DOMAIN Workers :
       /\ pipe'[Workers[k]].rclosed = pipe[Workers[k]].rclosed
       /\ pipe'[Workers[k]].wclosed = pipe[Workers[k]].wclosed
       /\ Is(k, "new")' <=> Is(k, "new")
       /\ Is(k, "gone")' <=> Is(k, "gone")
       /\ Is(k, "send") => Is(k, "send")'
       /\ Is(k, "close") => Is(k, "close")'

LEMMA PipesAreSteady ==
  /\ UNCHANGED pipe => DataSteady
  /\ \A d \in ToSet(Workers) : \A x :
       OnlyData(d, x) /\ (x = << >> \/ ~pipe[d].wclosed) => DataSteady
BY DEF DataSteady, OnlyData

LEMMA EndingKept ==
  ASSUME EndingInv, \A k \in DOMAIN Workers : EndsSteady(k)
  PROVE  EndingInv'
<1> SUFFICES ASSUME NEW k \in DOMAIN Workers, NEW s \in Ending, Is(k, s)'
             PROVE  \/ werr'[Workers[k]]
                    \/ /\ pipe'[Workers[k]].wclosed /\ pipe'[Workers[k]].data = << >>
                       /\ Is(k, "flush, close")' =>
                            unread'[Workers[k]] = << >> /\ pend'[Workers[k]] = NoLine
  BY DEF EndingInv
<1>1. Is(k, "flush, close")' => s = "flush, close"
  <2>1. \A x, y : <<x>> = <<y>> => x = y  OBVIOUS
  <2> QED  BY <2>1 DEF Is
<1>2. CASE \E r \in Ending : /\ Is(k, r)
                             /\ s = "flush, close" =>
                                  /\ r = s /\ unread'[Workers[k]] = unread[Workers[k]]
                                  /\ pend'[Workers[k]] = pend[Workers[k]]
  BY <1>1, <1>2 DEF EndingInv, EndsSteady
<1>3. CASE \/ werr'[Workers[k]]
           \/ /\ pipe'[Workers[k]].wclosed /\ pipe'[Workers[k]].data = << >>
              /\ unread'[Workers[k]] = << >> /\ pend'[Workers[k]] = NoLine
  BY <1>3
<1> QED  BY <1>2, <1>3 DEF EndsSteady

LEMMA ClosedKept ==
  ASSUME ClosedInv, ClosedSteady
  PROVE  ClosedInv'
<1>1. \A k \in DOMAIN Workers : k < Len(Workers) => k + 1 \in DOMAIN Workers  BY Names
<1>2. \A k \in DOMAIN Workers : Top(k) => Top(k)'  BY <1>1 DEF ClosedSteady, Top, Live
<1> QED  BY <1>1, <1>2 DEF ClosedInv, ClosedSteady

\* the steps of a client that neither start nor end a worker
LEMMA ClientsKeepEnds ==
  ASSUME Types, Chain, Blocked, EndingInv, ClosedInv, NEW c \in Clients,
         \/ Lock(c) \/ Unlock(c) \/ LogLine(c) \/ PrintfPuts(c) \/ PrintfOk(c)
         \/ PrintfFails(c) \/ StartUnwrap(c) \/ StartReport(c) \/ SetCode(c) \/ Answer(c)
  PROVE  EndingInv' /\ ClosedInv'
<1>1. UNCHANGED worker
  BY DEF Lock, Unlock, LogLine, PrintfPuts, PrintfOk, PrintfFails, StartUnwrap, StartReport,
         SetCode, Answer
<1>2. fallback = None => fallback' = None
  <2>1. CASE StartUnwrap(c)  BY <2>1, StartUnwrapTypes DEF TakesAway
  <2>2. CASE StartReport(c)  BY <2>2, StartReportTypes DEF TakesAway
  <2>3. CASE \/ Lock(c) \/ Unlock(c) \/ LogLine(c) \/ PrintfPuts(c) \/ PrintfOk(c)
             \/ PrintfFails(c) \/ SetCode(c) \/ Answer(c)
    BY <2>3 DEF Lock, Unlock, LogLine, PrintfPuts, PrintfOk, PrintfFails, SetCode, Answer, logger
  <2> QED  BY <2>1, <2>2, <2>3
<1>3. \A k \in DOMAIN Workers : todo'[Workers[k]] = todo[Workers[k]]
  <2>1. UNCHANGED todo \/ \E s : OnlyTodo(c, s)
    BY LockTypes, LogLineTypes, PrintfPutsTypes, PrintfOkTypes, PrintfFailsTypes,
       StartUnwrapTypes, StartReportTypes, SetCodeTypes, AnswerTypes DEF Unlock
  <2> QED  BY <2>1, OnlyOneGoesOn
<1>4. DataSteady
  <2>1. CASE PrintfPuts(c)
    <3>1. Puts(c, out, buf) /\ \E what \in Printfs : Doing(c, what)
      BY <2>1 DEF PrintfPuts
    <3>2. out \in ToSet(Workers) /\ CanPut(out) /\ OnlyData(out, buf)
      BY <3>1, PrintfTo, PutsDoes DEF Types
    <3> QED  BY <3>2, PipesAreSteady DEF CanPut
  <2>2. CASE PrintfFails(c)
    <3>1. WriteFails(c, out) /\ \E what \in Printfs : Doing(c, what)
      BY <2>2 DEF PrintfFails
    <3>2. UNCHANGED pipe \/ (out \in ToSet(Workers) /\ OnlyData(out, << >>))
      BY <3>1, PrintfTo, WriteFailsDoes DEF Types
    <3> QED  BY <3>2, PipesAreSteady
  <2>3. CASE PrintfOk(c)
    <3>1. UNCHANGED pipe  BY <2>3 DEF PrintfOk, WriteOk
    <3> QED  BY <3>1, PipesAreSteady
  <2>4. CASE \/ Lock(c) \/ Unlock(c) \/ LogLine(c) \/ StartUnwrap(c) \/ StartReport(c)
             \/ SetCode(c) \/ Answer(c)
    <3>1. UNCHANGED pipe
      BY <2>4 DEF Lock, Unlock, LogLine, StartUnwrap, StartReport, SetCode, Answer
    <3> QED  BY <3>1, PipesAreSteady
  <2> QED  BY <2>1, <2>2, <2>3, <2>4
<1>5. \A k \in DOMAIN Workers : \A x : Is(k, x)' <=> Is(k, x)  BY <1>3, SameState
<1>6. \A k \in DOMAIN Workers : EndsSteady(k)
  BY <1>1, <1>4, <1>5, Names DEF EndsSteady, DataSteady, worker
<1>7. ClosedSteady  BY <1>2, <1>4, <1>5, Names DEF ClosedSteady, DataSteady
<1> QED  BY <1>6, <1>7, EndingKept, ClosedKept

\* a step of a worker that neither closes nor ends
LEMMA WorkerKeepsEnds ==
  ASSUME EndingInv, ClosedInv, WorkerOnly, DataSteady, NEW k \in DOMAIN Workers,
         \A j \in DOMAIN Workers : j # k =>
           /\ todo'[Workers[j]] = todo[Workers[j]] /\ unread'[Workers[j]] = unread[Workers[j]]
           /\ pend'[Workers[j]] = pend[Workers[j]] /\ werr'[Workers[j]] = werr[Workers[j]],
         werr[Workers[k]] => werr'[Workers[k]],
         NEW x \in Working, NEW y \in Working \union {"close"}, Is(k, x), Is(k, y)',
         y \in Ending =>
           \/ /\ x = "flush, close"
              /\ y = x => /\ unread'[Workers[k]] = unread[Workers[k]]
                          /\ pend'[Workers[k]] = pend[Workers[k]]
           \/ werr'[Workers[k]]
           \/ /\ pipe'[Workers[k]].wclosed /\ pipe'[Workers[k]].data = << >>
              /\ unread'[Workers[k]] = << >> /\ pend'[Workers[k]] = NoLine
  PROVE  EndingInv' /\ ClosedInv'
<1>1. \A z : Is(k, z)' => z = y
  <2>1. \A u, v : <<u>> = <<v>> => u = v  OBVIOUS
  <2> QED  BY <2>1 DEF Is
<1>2. \A z : Is(k, z) => z = x  BY OneState
<1>3. \A j \in DOMAIN Workers : j # k => \A z : Is(j, z)' <=> Is(j, z)  BY SameState
<1>4. /\ x \notin {"new", "gone", "send", "close"} /\ y \notin {"new", "gone"}
      /\ "flush, close" \in Ending
  BY DEF Working, Flushes, Ending
<1>5. \A j \in DOMAIN Workers : EndsSteady(j)
  <2>1. ASSUME NEW j \in DOMAIN Workers, j # k PROVE EndsSteady(j)
    BY <1>3, <2>1, Names DEF EndsSteady, DataSteady
  <2>2. EndsSteady(k)
    <3>1. \A s \in Ending : Is(k, s)' => s = y /\ y \in Ending  BY <1>1
    <3>2. \A s \in Ending : Is(k, s)' =>
            \/ \E r \in Ending : /\ Is(k, r)
                                 /\ s = "flush, close" =>
                                      /\ r = s /\ unread'[Workers[k]] = unread[Workers[k]]
                                      /\ pend'[Workers[k]] = pend[Workers[k]]
            \/ werr'[Workers[k]]
            \/ /\ pipe'[Workers[k]].wclosed /\ pipe'[Workers[k]].data = << >>
               /\ unread'[Workers[k]] = << >> /\ pend'[Workers[k]] = NoLine
      BY <1>4, <3>1
    <3>3. pipe[Workers[k]].wclosed => /\ pipe'[Workers[k]].wclosed
                                      /\ pipe'[Workers[k]].data \in {pipe[Workers[k]].data, << >>}
      BY Names DEF DataSteady
    <3> QED  BY <3>2, <3>3 DEF EndsSteady
  <2> QED  BY <2>1, <2>2
<1>6. ClosedSteady
  <2>1. fallback' = fallback  BY DEF WorkerOnly, logger
  <2>2. \A j \in DOMAIN Workers : /\ pipe'[Workers[j]].rclosed = pipe[Workers[j]].rclosed
                                  /\ pipe'[Workers[j]].wclosed = pipe[Workers[j]].wclosed
    BY Names DEF DataSteady
  <2>3. \A z \in {"new", "gone", "send", "close"} : ~Is(k, z)  BY <1>2, <1>4
  <2>4. ~Is(k, "new")' /\ ~Is(k, "gone")'  BY <1>1, <1>4
  <2>5. \A j \in DOMAIN Workers : /\ Is(j, "new")' <=> Is(j, "new")
                                  /\ Is(j, "gone")' <=> Is(j, "gone")
                                  /\ Is(j, "send") => Is(j, "send")'
                                  /\ Is(j, "close") => Is(j, "close")'
    BY <1>3, <2>3, <2>4
  <2> QED  BY <2>1, <2>2, <2>5 DEF ClosedSteady
<1> QED  BY <1>5, <1>6, EndingKept, ClosedKept

LEMMA WorkersKeepEnds ==
  ASSUME Types, Chain, Blocked, Contents, EndingInv, ClosedInv, NEW k \in DOMAIN Workers,
         \/ StartScan(Workers[k]) \/ ReadPipe(Workers[k]) \/ PipeEnds(Workers[k])
         \/ ScanLine(Workers[k]) \/ ScanFails(Workers[k])
         \/ FlushPuts(Workers[k]) \/ FlushOk(Workers[k]) \/ FlushFails(Workers[k])
  PROVE  EndingInv' /\ ClosedInv'
<1> DEFINE w == Workers[k]
           Others == \A j \in DOMAIN Workers : j # k =>
                       /\ unread'[Workers[j]] = unread[Workers[j]]
                       /\ pend'[Workers[j]] = pend[Workers[j]]
                       /\ werr'[Workers[j]] = werr[Workers[j]]
           Settled(x, y) ==
             y \in Ending =>
               \/ /\ x = "flush, close"
                  /\ y = x => unread'[w] = unread[w] /\ pend'[w] = pend[w]
               \/ werr'[w]
               \/ /\ pipe'[w].wclosed /\ pipe'[w].data = << >>
                  /\ unread'[w] = << >> /\ pend'[w] = NoLine
<1>1. WorkerOnly
  BY DEF StartScan, ReadPipe, PipeEnds, ScanLine, ScanFails, FlushPuts, FlushOk, FlushFails
\* a step that goes from one state to the next, and one that stays in it
<1>2. ASSUME NEW x \in Working, NEW y \in Working \union {"close"}, GoesOn(k, x, y),
             Others, DataSteady, werr[w] => werr'[w], Settled(x, y)
      PROVE  EndingInv' /\ ClosedInv'
  <2>1. /\ todo'[w] = <<y>> /\ Is(k, x)
        /\ \A j \in DOMAIN Workers : j # k => todo'[Workers[j]] = todo[Workers[j]]
    BY <1>2, Names DEF GoesOn, OnlyTodo
  <2>2. Is(k, y)'  BY <2>1 DEF Is
  <2> QED  BY <1>1, <1>2, <2>1, <2>2, WorkerKeepsEnds
<1>3. ASSUME NEW x \in Working, Is(k, x), UNCHANGED todo,
             Others, DataSteady, werr[w] => werr'[w], Settled(x, x)
      PROVE  EndingInv' /\ ClosedInv'
  <2>1. Is(k, x)'  BY <1>3, SameState
  <2> QED  BY <1>1, <1>3, <2>1, WorkerKeepsEnds
<1> USE DEF Working, Flushes
<1> HIDE DEF w
<1>4. CASE StartScan(w)
  <2>1. PICK y \in {"flush, read", "read"} : GoesOn(k, "scan", y)
    BY <1>4, StartScanTypes DEF w
  <2>2. Others /\ UNCHANGED <<werr, pipe>>  BY <1>4 DEF StartScan, worker
  <2>3. y \notin Ending  BY DEF Ending
  <2> QED  BY <1>2, <2>1, <2>2, <2>3, PipesAreSteady
<1>5. CASE ReadPipe(w)
  <2>1. /\ UNCHANGED todo /\ OnlyData(w, << >>)
        /\ \A j \in DOMAIN Workers : j # k => unread'[Workers[j]] = unread[Workers[j]]
    BY <1>5, ReadPipeTypes DEF w
  <2>2. Is(k, "read") /\ UNCHANGED <<pend, werr>>  BY <1>5 DEF ReadPipe, At, Is, w
  <2>3. "read" \notin Ending /\ w \in ToSet(Workers)  BY Names DEF Ending, w
  <2> QED  BY <1>3, <2>1, <2>2, <2>3, PipesAreSteady
<1>6. CASE PipeEnds(w)
  <2>1. GoesOn(k, "read", "flush, close")  BY <1>6, PipeEndsTypes DEF w
  <2>2. /\ UNCHANGED <<pipe, unread, pend, werr>>
        /\ unread[w] = << >> /\ pipe[w].data = << >> /\ pipe[w].wclosed
    BY <1>6 DEF PipeEnds, worker
  <2>3. pend[w] = NoLine  BY <2>1 DEF GoesOn, Contents, PlainInv, w
  <2> QED  BY <1>2, <2>1, <2>2, <2>3, PipesAreSteady
<1>7. CASE ScanLine(w)
  <2>1. /\ \E y \in {"flush, scan", "scan"} : GoesOn(k, "read", y)
        /\ \A j \in DOMAIN Workers : j # k => /\ unread'[Workers[j]] = unread[Workers[j]]
                                              /\ pend'[Workers[j]] = pend[Workers[j]]
    BY <1>7, ScanLineTypes DEF w
  <2>2. UNCHANGED <<pipe, werr>>  BY <1>7 DEF ScanLine
  <2>3. PICK y \in {"flush, scan", "scan"} : GoesOn(k, "read", y)  BY <2>1
  <2>4. y \notin Ending  BY DEF Ending
  <2> QED  BY <1>2, <2>1, <2>2, <2>3, <2>4, PipesAreSteady
<1>8. CASE ScanFails(w)
  <2>1. GoesOn(k, "read", "flush, close") /\ werr'[w] /\ ErrorsStay(k)
    BY <1>8, ScanFailsTypes DEF w
  <2>2. UNCHANGED <<pipe, unread, pend>>  BY <1>8 DEF ScanFails
  <2>3. Others  BY <2>1, <2>2 DEF ErrorsStay
  <2> QED  BY <1>2, <2>1, <2>2, <2>3, PipesAreSteady
<1>9. CASE FlushPuts(w)
  <2>1. /\ UNCHANGED todo /\ target[w] \in ToSet(Workers) /\ ~pipe[target[w]].wclosed
        /\ OnlyData(target[w], <<held[w]>>)
    BY <1>9, FlushPutsTypes DEF w, CanPut
  <2>2. PICK f \in Flushes : Is(k, f)  BY <1>9, FlushPutsTypes DEF w
  <2>3. UNCHANGED <<unread, pend, werr>>  BY <1>9 DEF FlushPuts, worker
  <2>4. f \in Ending => f = "flush, close"  BY DEF Ending
  <2> QED  BY <1>3, <2>1, <2>2, <2>3, <2>4, PipesAreSteady
<1>10. CASE FlushOk(w)
  <2>1. /\ GoesOn(k, "flush, close", "close") \/ GoesOn(k, "flush, read", "read")
           \/ GoesOn(k, "flush, scan", "scan")
        /\ \A j \in DOMAIN Workers : j # k => pend'[Workers[j]] = pend[Workers[j]]
    BY <1>10, FlushOkTypes DEF w
  <2>2. UNCHANGED <<unread, werr>> /\ UNCHANGED pipe  BY <1>10 DEF FlushOk, WriteOk
  <2>3. DataSteady /\ "read" \notin Ending /\ "scan" \notin Ending
    BY <2>2, PipesAreSteady DEF Ending
  <2>4. CASE GoesOn(k, "flush, close", "close")  BY <1>2, <2>1, <2>2, <2>3, <2>4
  <2>5. CASE GoesOn(k, "flush, read", "read")  BY <1>2, <2>1, <2>2, <2>3, <2>5
  <2>6. CASE GoesOn(k, "flush, scan", "scan")  BY <1>2, <2>1, <2>2, <2>3, <2>6
  <2> QED  BY <2>1, <2>4, <2>5, <2>6
<1>11. CASE FlushFails(w)
  <2>1. /\ WriteFails(w, target[w]) /\ werr'[w] /\ ErrorsStay(k)
        /\ \E x \in Flushes : \E y \in {"close", "flush, close"} : GoesOn(k, x, y)
    BY <1>11, FlushFailsTypes DEF w
  <2>2. UNCHANGED <<unread, pend>>  BY <1>11 DEF FlushFails
  <2>3. DataSteady
    <3>1. target[w] \in Outputs /\ w \in Procs  BY Names DEF Types, Shapes, w
    <3>2. UNCHANGED pipe \/ (target[w] \in ToSet(Workers) /\ OnlyData(target[w], << >>))
      BY <2>1, <3>1, WriteFailsDoes DEF Types
    <3> QED  BY <3>2, PipesAreSteady
  <2>4. Others  BY <2>1, <2>2 DEF ErrorsStay
  <2>5. PICK x \in Flushes, y \in {"close", "flush, close"} : GoesOn(k, x, y)  BY <2>1
  <2> QED  BY <1>2, <2>1, <2>3, <2>4, <2>5
<1> QED  BY <1>4, <1>5, <1>6, <1>7, <1>8, <1>9, <1>10, <1>11 DEF w

LEMMA HangUpKeepsEnds ==
  ASSUME Types, Chain, EndingInv, ClosedInv, NEW c \in Clients, HangUp(c)
  PROVE  EndingInv' /\ ClosedInv'
<1>0. ClosingInv  BY DEF Chain
<1>1. UNCHANGED todo /\ IsClosing(c)  BY <1>0, HangUpTypes
<1>2. PICK k \in DOMAIN Workers :
        /\ Top(k)
        /\ \A w \in ToSet(Workers) : /\ w # Workers[k] => pipe'[w] = pipe[w]
                                     /\ pipe'[w].data = pipe[w].data
                                     /\ pipe'[w].rclosed = pipe[w].rclosed
        /\ pipe'[Workers[k]].wclosed
  BY <1>0, HangUpTypes
<1>3. UNCHANGED worker /\ UNCHANGED fallback  BY DEF HangUp, logger
<1>4. fallback = None
  <2>1. Early(c)  BY <1>1 DEF Early, IsClosing
  <2> QED  BY <2>1 DEF Chain, EarlyInv
<1>5. \A j \in DOMAIN Workers :
        /\ j # k => pipe'[Workers[j]] = pipe[Workers[j]]
        /\ pipe'[Workers[j]].data = pipe[Workers[j]].data
        /\ pipe'[Workers[j]].rclosed = pipe[Workers[j]].rclosed
  BY <1>2, Names
<1>6. \A j : \A x : Is(j, x)' <=> Is(j, x)  BY <1>1, SameState
<1>7. \A j \in DOMAIN Workers : EndsSteady(j)
  BY <1>2, <1>3, <1>5, <1>6 DEF EndsSteady, worker
<1>8. ClosedInv'
  <2>1. \A j : Top(j)' <=> Top(j)  BY <1>6 DEF Top, Live
  <2>2. ASSUME NEW j \in DOMAIN Workers, pipe'[Workers[j]].wclosed
        PROVE  \/ Top(j) /\ fallback = None
               \/ Is(j, "gone")
               \/ j < Len(Workers) /\ Is(j + 1, "close")
    BY <1>2, <1>4, <1>5, <2>2 DEF ClosedInv
  <2> QED  BY <1>3, <1>5, <1>6, <2>1, <2>2 DEF ClosedInv
<1> QED  BY <1>7, <1>8, EndingKept

LEMMA CloseDoneKeepsEnds ==
  ASSUME Types, Chain, EndingInv, ClosedInv, NEW c \in Clients, CloseDone(c)
  PROVE  EndingInv' /\ ClosedInv'
<1>0. ClosingInv  BY DEF Chain
<1>1. PICK k \in DOMAIN Workers :
        /\ Top(k) /\ (Is(k, "send") \/ Is(k, "gone"))
        /\ \E s : TwoTodos(c, s, Workers[k], <<"gone">>)
  BY <1>0, CloseDoneTypes
<1>2. UNCHANGED <<worker, pipe, fallback>>  BY DEF CloseDone, logger
<1>3. /\ todo'[Workers[k]] = <<"gone">>
      /\ \A j \in DOMAIN Workers : j # k => todo'[Workers[j]] = todo[Workers[j]]
  BY <1>1, Names DEF TwoTodos
<1>4. /\ \A j \in DOMAIN Workers : j # k => \A x : Is(j, x)' <=> Is(j, x)
      /\ \A x : Is(k, x)' <=> x = "gone"
  BY <1>3, OneChanged
<1>5. \A j \in DOMAIN Workers : EndsSteady(j)
  <2>1. "send" \in Ending /\ "gone" \in Ending /\ "gone" # "flush, close"  BY DEF Ending
  <2> QED  BY <1>1, <1>2, <1>4, <2>1 DEF EndsSteady, worker
<1>6. ClosedInv'
  <2>1. ~Is(k, "close")  BY <1>1, OneState
  <2>2. ASSUME NEW j \in DOMAIN Workers, j # k, Top(j) PROVE FALSE
    <3>1. Live(j) /\ Live(k) /\ (j < Len(Workers) => Is(j + 1, "new"))
          /\ (k < Len(Workers) => Is(k + 1, "new"))
      BY <1>1, <2>2 DEF Top
    <3>2. CASE j < k
      <4>1. j < Len(Workers) /\ j + 1 \in DOMAIN Workers /\ (j + 1 = k \/ j + 1 < k)
        BY <3>2, Names
      <4> QED  BY <3>1, <4>1 DEF Chain, OrderOfWorkers, Live
    <3>3. CASE k < j
      <4>1. k < Len(Workers) /\ k + 1 \in DOMAIN Workers /\ (k + 1 = j \/ k + 1 < j)
        BY <3>3, Names
      <4> QED  BY <3>1, <4>1 DEF Chain, OrderOfWorkers, Live
    <3> QED  BY <2>2, <3>2, <3>3, Names
  <2>3. ASSUME NEW j \in DOMAIN Workers
        PROVE  /\ pipe[Workers[j]].wclosed =>
                    \/ Top(j)' /\ fallback = None
                    \/ Is(j, "gone")'
                    \/ j < Len(Workers) /\ Is(j + 1, "close")'
               /\ pipe[Workers[j]].rclosed => Is(j, "send")' \/ Is(j, "gone")'
    <3>1. CASE j = k  BY <1>4, <3>1
    <3>2. CASE j # k
      <4>1. /\ pipe[Workers[j]].wclosed =>
                 Is(j, "gone") \/ (j < Len(Workers) /\ Is(j + 1, "close"))
            /\ pipe[Workers[j]].rclosed => Is(j, "send") \/ Is(j, "gone")
        BY <2>2, <3>2 DEF ClosedInv
      <4>2. ASSUME j < Len(Workers), Is(j + 1, "close") PROVE Is(j + 1, "close")'
        <5>1. j + 1 \in DOMAIN Workers /\ j + 1 # k  BY <2>1, <4>2, Names
        <5> QED  BY <1>4, <4>2, <5>1
      <4> QED  BY <1>4, <3>2, <4>1, <4>2
    <3> QED  BY <3>1, <3>2
  <2> QED  BY <1>2, <2>3 DEF ClosedInv
<1> QED  BY <1>5, <1>6, EndingKept

LEMMA WrapKeepsEnds ==
  ASSUME Types, Chain, Contents, EndingInv, ClosedInv, NEW c \in Clients, Wrap(c)
  PROVE  EndingInv' /\ ClosedInv'
<1>1. PICK k \in DOMAIN Workers :
        /\ Is(k, "new") /\ TwoTodos(c, Tail(todo[c]), Workers[k], <<"scan">>)
  BY WrapTypes
<1>2. UNCHANGED <<unread, pend, werr, pipe>>  BY DEF Wrap
<1>3. /\ todo'[Workers[k]] = <<"scan">>
      /\ \A j \in DOMAIN Workers : j # k => todo'[Workers[j]] = todo[Workers[j]]
  BY <1>1, Names DEF TwoTodos
<1>4. /\ \A j \in DOMAIN Workers : j # k => \A x : Is(j, x)' <=> Is(j, x)
      /\ \A x : Is(k, x)' <=> x = "scan"
  BY <1>3, OneChanged
<1>5. \A j \in DOMAIN Workers : EndsSteady(j)
  <2>1. "scan" \notin Ending  BY DEF Ending
  <2> QED  BY <1>2, <1>4, <2>1 DEF EndsSteady
<1>6. ClosedInv'
  <2>1. \A j \in DOMAIN Workers : ~(Top(j) /\ fallback = None)
    <3>1. mutex = c /\ ~IsClosing(c)  BY DEF Wrap, Doing, IsClosing, Closes
    <3>2. \A d \in Clients : ~IsClosing(d)  BY <3>1, OthersIdle
    <3> QED  BY <3>2 DEF Chain, LiveInv, Top
  <2>2. ~pipe[Workers[k]].wclosed /\ ~pipe[Workers[k]].rclosed
    BY <1>1 DEF Contents, NewInv
  <2>3. ~Is(k, "close")  BY <1>1, OneState
  <2>4. ASSUME NEW j \in DOMAIN Workers, j # k
        PROVE  /\ pipe[Workers[j]].wclosed =>
                    \/ Is(j, "gone")'
                    \/ j < Len(Workers) /\ Is(j + 1, "close")'
               /\ pipe[Workers[j]].rclosed => Is(j, "send")' \/ Is(j, "gone")'
    <3>1. /\ pipe[Workers[j]].wclosed =>
               Is(j, "gone") \/ (j < Len(Workers) /\ Is(j + 1, "close"))
          /\ pipe[Workers[j]].rclosed => Is(j, "send") \/ Is(j, "gone")
      BY <2>1 DEF ClosedInv
    <3>2. ASSUME j < Len(Workers), Is(j + 1, "close") PROVE Is(j + 1, "close")'
      <4>1. j + 1 \in DOMAIN Workers /\ j + 1 # k  BY <2>3, <3>2, Names
      <4> QED  BY <1>4, <3>2, <4>1
    <3> QED  BY <1>4, <2>4, <3>1, <3>2
  <2> QED  BY <1>2, <2>2, <2>4 DEF ClosedInv
<1> QED  BY <1>5, <1>6, EndingKept

LEMMA WorkerHangsUpKeepsEnds ==
  ASSUME Types, Chain, EndingInv, ClosedInv, NEW k \in DOMAIN Workers, WorkerHangsUp(Workers[k])
  PROVE  EndingInv' /\ ClosedInv'
<1>1. /\ UNCHANGED todo /\ Is(k, "close") /\ target[Workers[k]] \in ToSet(Workers)
      /\ \A w \in ToSet(Workers) : /\ w # target[Workers[k]] => pipe'[w] = pipe[w]
                                   /\ pipe'[w].data = pipe[w].data
                                   /\ pipe'[w].rclosed = pipe[w].rclosed
      /\ pipe'[target[Workers[k]]].wclosed
  BY WorkerHangsUpTypes
<1>2. UNCHANGED <<worker, fallback>>  BY DEF WorkerHangsUp, WorkerOnly, logger
<1>3. PICK i \in DOMAIN Workers : i < Len(Workers) /\ i + 1 = k /\ target[Workers[k]] = Workers[i]
  <2>1. Live(k) /\ ~Is(k, "send")  BY <1>1, OneState DEF Live
  <2>2. ~Bottom(k) /\ target[Workers[k]] = Workers[k - 1]
    BY <1>1, <2>1, Names DEF Chain, TargetInv
  <2>3. k - 1 \in DOMAIN Workers /\ k - 1 < Len(Workers) /\ (k - 1) + 1 = k
    BY <2>2, Names DEF Bottom
  <2> QED  BY <2>2, <2>3
<1>4. \A j \in DOMAIN Workers :
        /\ j # i => pipe'[Workers[j]] = pipe[Workers[j]]
        /\ pipe'[Workers[j]].data = pipe[Workers[j]].data
        /\ pipe'[Workers[j]].rclosed = pipe[Workers[j]].rclosed
  BY <1>1, <1>3, Names
<1>5. \A j : \A x : Is(j, x)' <=> Is(j, x)  BY <1>1, SameState
<1>6. \A j \in DOMAIN Workers : EndsSteady(j)
  BY <1>1, <1>2, <1>3, <1>4, <1>5 DEF EndsSteady, worker
<1>7. ClosedInv'
  <2>1. \A j : Top(j)' <=> Top(j)  BY <1>5 DEF Top, Live
  <2>2. ASSUME NEW j \in DOMAIN Workers, pipe'[Workers[j]].wclosed
        PROVE  \/ Top(j) /\ fallback = None
               \/ Is(j, "gone")
               \/ j < Len(Workers) /\ Is(j + 1, "close")
    <3>1. CASE j = i  BY <1>1, <1>3, <3>1
    <3>2. CASE j # i  BY <1>4, <2>2, <3>2 DEF ClosedInv
    <3> QED  BY <3>1, <3>2
  <2> QED  BY <1>2, <1>4, <1>5, <2>1, <2>2 DEF ClosedInv
<1> QED  BY <1>6, <1>7, EndingKept

LEMMA WorkerClosesKeepsEnds ==
  ASSUME Types, Chain, EndingInv, ClosedInv, NEW k \in DOMAIN Workers, WorkerCloses(Workers[k])
  PROVE  EndingInv' /\ ClosedInv'
<1>0. TargetInv  BY DEF Chain
<1>1. /\ Is(k, "close") /\ ErrorsStay(k) /\ (werr[Workers[k]] => werr'[Workers[k]])
      /\ \A w \in ToSet(Workers) : /\ w # Workers[k] => pipe'[w] = pipe[w]
                                   /\ pipe'[w].data = pipe[w].data
                                   /\ pipe'[w].wclosed = pipe[w].wclosed
  BY <1>0, WorkerClosesTypes
<1>2. UNCHANGED <<unread, pend, fallback>>  BY DEF WorkerCloses, WorkerOnly, logger
\* the worker before it is gone then
<1>3. /\ todo'[Workers[k]] = <<"send">>
      /\ \A j \in DOMAIN Workers : j # k =>
           IF j = k - 1 THEN todo'[Workers[j]] = <<"gone">> /\ (Is(j, "send") \/ Is(j, "gone"))
           ELSE todo'[Workers[j]] = todo[Workers[j]]
  <2>1. CASE Bottom(k) /\ GoesOn(k, "close", "send")
    <3>1. /\ todo'[Workers[k]] = <<"send">>
          /\ \A j \in DOMAIN Workers : j # k => todo'[Workers[j]] = todo[Workers[j]]
      BY <2>1, Names DEF GoesOn, OnlyTodo
    <3>2. ASSUME NEW j \in DOMAIN Workers, j = k - 1
          PROVE  todo'[Workers[j]] = <<"gone">> /\ Is(j, "gone")
      <4>1. k > 1 /\ j # k  BY <3>2, Names
      <4>2. Is(j, "gone")  BY <2>1, <3>2, <4>1 DEF Bottom
      <4> QED  BY <3>1, <4>1, <4>2 DEF Is
    <3> QED  BY <3>1, <3>2
  <2>2. CASE /\ k > 1 /\ (Is(k - 1, "send") \/ Is(k - 1, "gone"))
             /\ TwoTodos(Workers[k], <<"send">>, Workers[k - 1], <<"gone">>)
    <3>1. PICK i \in DOMAIN Workers : i = k - 1  BY <2>2, Names
    <3>2. TwoTodos(Workers[k], <<"send">>, Workers[i], <<"gone">>)
          /\ (Is(i, "send") \/ Is(i, "gone"))
      BY <2>2, <3>1
    <3>3. \A j \in DOMAIN Workers : /\ j # i => Workers[j] # Workers[i]
                                    /\ j # k => Workers[j] # Workers[k] /\ Workers[j] \in Procs
      BY Names
    <3> QED  BY <3>1, <3>2, <3>3 DEF TwoTodos
  <2> QED  BY <1>0, <2>1, <2>2, WorkerClosesTypes
<1>4. \A x, y : <<x>> = <<y>> => x = y  OBVIOUS
<1>5. /\ \A x : Is(k, x)' <=> x = "send"
      /\ \A j \in DOMAIN Workers : j # k /\ j = k - 1 =>
           (Is(j, "send") \/ Is(j, "gone")) /\ \A x : Is(j, x)' <=> x = "gone"
      /\ \A j \in DOMAIN Workers : j # k /\ j # k - 1 => \A x : Is(j, x)' <=> Is(j, x)
  BY <1>3, <1>4 DEF Is
<1>6. \A j \in DOMAIN Workers :
        /\ j # k => pipe'[Workers[j]] = pipe[Workers[j]]
        /\ pipe'[Workers[j]].data = pipe[Workers[j]].data
        /\ pipe'[Workers[j]].wclosed = pipe[Workers[j]].wclosed
  BY <1>1, Names
<1>7. \A j \in DOMAIN Workers : EndsSteady(j)
  <2>1. /\ "send" \in Ending /\ "gone" \in Ending /\ "close" \in Ending
        /\ "gone" # "flush, close" /\ "send" # "flush, close"
    BY DEF Ending
  <2>2. EndsSteady(k)  BY <1>1, <1>5, <1>6, <2>1 DEF EndsSteady
  <2>3. ASSUME NEW j \in DOMAIN Workers, j # k, j = k - 1 PROVE EndsSteady(j)
    BY <1>1, <1>5, <1>6, <2>1, <2>3 DEF EndsSteady, ErrorsStay
  <2>4. ASSUME NEW j \in DOMAIN Workers, j # k, j # k - 1 PROVE EndsSteady(j)
    BY <1>1, <1>2, <1>5, <1>6, <2>4 DEF EndsSteady, ErrorsStay
  <2> QED  BY <2>2, <2>3, <2>4
<1>8. ClosedInv'
  <2>1. \A j \in DOMAIN Workers : Top(j) => Top(j)' \/ Is(j, "gone")'
    <3> SUFFICES ASSUME NEW j \in DOMAIN Workers, Top(j) PROVE Top(j)' \/ Is(j, "gone")'
      OBVIOUS
    <3>1. CASE j = k - 1  BY <1>5, <3>1, Names
    <3>2. CASE j # k - 1
      <4>1. Live(j)'  BY <1>5, <3>2 DEF Top, Live
      <4>2. ASSUME j < Len(Workers) PROVE Is(j + 1, "new")'
        <5>1. j + 1 \in DOMAIN Workers /\ j + 1 # k  BY <3>2, <4>2, Names
        <5>2. Is(j + 1, "new")  BY <4>2 DEF Top
        <5>3. j + 1 # k - 1
          <6>1. j + 1 = k - 1 => j + 1 # k  BY Names
          <6> QED  BY <1>5, <5>1, <5>2, <6>1, OneState
        <5> QED  BY <1>5, <5>1, <5>2, <5>3
      <4> QED  BY <4>1, <4>2 DEF Top
    <3> QED  BY <3>1, <3>2
  <2>2. ASSUME NEW j \in DOMAIN Workers, pipe[Workers[j]].wclosed
        PROVE  \/ Top(j)' /\ fallback = None
               \/ Is(j, "gone")'
               \/ j < Len(Workers) /\ Is(j + 1, "close")'
    <3>1. CASE Top(j) /\ fallback = None  BY <2>1, <3>1
    <3>2. CASE Is(j, "gone")
      <4>1. j # k  BY <1>1, <3>2, OneState
      <4> QED  BY <1>5, <3>2, <4>1
    <3>3. CASE j < Len(Workers) /\ Is(j + 1, "close")
      <4>1. j + 1 \in DOMAIN Workers /\ (j + 1 = k => j = k - 1 /\ j # k)  BY <3>3, Names
      <4>2. CASE j + 1 = k  BY <1>5, <4>1, <4>2
      <4>3. CASE j + 1 # k
        <5>1. j + 1 # k - 1  BY <1>5, <3>3, <4>1, <4>3, OneState
        <5> QED  BY <1>5, <3>3, <4>1, <4>3, <5>1
      <4> QED  BY <4>2, <4>3
    <3> QED  BY <2>2, <3>1, <3>2, <3>3 DEF ClosedInv
  <2>3. ASSUME NEW j \in DOMAIN Workers, pipe'[Workers[j]].rclosed
        PROVE  Is(j, "send")' \/ Is(j, "gone")'
    <3>1. CASE j = k  BY <1>5, <3>1
    <3>2. CASE j # k
      <4>1. Is(j, "send") \/ Is(j, "gone")  BY <1>6, <2>3, <3>2 DEF ClosedInv
      <4> QED  BY <1>5, <3>2, <4>1
    <3> QED  BY <3>1, <3>2
  <2> QED  BY <1>2, <1>6, <2>2, <2>3 DEF ClosedInv
<1> QED  BY <1>7, <1>8, EndingKept

LEMMA StepKeepsEnds ==
  ASSUME Types, Chain, Blocked, Contents, EndingInv, ClosedInv, [Next]_vars
  PROVE  EndingInv' /\ ClosedInv'
<1>1. ASSUME NEW c \in Clients, Client(c) PROVE EndingInv' /\ ClosedInv'
  BY <1>1, ClientsKeepEnds, HangUpKeepsEnds, CloseDoneKeepsEnds, WrapKeepsEnds DEF Client
<1>2. ASSUME NEW k \in DOMAIN Workers, Worker(Workers[k]) PROVE EndingInv' /\ ClosedInv'
  BY <1>2, WorkersKeepEnds, WorkerHangsUpKeepsEnds, WorkerClosesKeepsEnds DEF Worker
<1>3. CASE Break \/ UNCHANGED vars
  <2>1. UNCHANGED <<todo, fallback, pipe, werr, unread, pend>>
    BY <1>3 DEF Break, vars, logger, worker
  <2>2. \A k \in DOMAIN Workers : \A x : Is(k, x)' <=> Is(k, x)  BY <2>1, SameState
  <2>3. \A k \in DOMAIN Workers : EndsSteady(k)  BY <2>1, <2>2 DEF EndsSteady
  <2>4. ClosedSteady  BY <2>1, <2>2 DEF ClosedSteady
  <2> QED  BY <2>3, <2>4, EndingKept, ClosedKept
<1> QED  BY <1>1, <1>2, <1>3, Names DEF Next

LEMMA InitEnds == ASSUME Init PROVE EndingInv /\ ClosedInv
<1>1. \A k \in DOMAIN Workers : /\ Is(k, "new")
                                /\ ~pipe[Workers[k]].rclosed /\ ~pipe[Workers[k]].wclosed
  BY Names DEF Init, Is
<1>2. "new" \notin Ending  BY DEF Ending
<1>3. EndingInv  BY <1>1, <1>2, OneState DEF EndingInv
<1> QED  BY <1>1, <1>3 DEF ClosedInv
----------------------------------------------------------------------------
(* Nothing is lost as long as nothing fails.                               *)

Printing == \E c \in Clients : \E what \in Printfs : Doing(c, what)
NotLost == \A m \in Spots : Real(Place(m)) \subseteq OnTheWay'

LEMMA FailuresStay ==
  ASSUME Types, Chain, [Next]_vars PROVE NoFailure' => NoFailure
<1>1. ASSUME NEW c \in Clients, Client(c) PROVE NoFailure' => NoFailure
  <2>1. UNCHANGED <<werr, broken>>
    BY <1>1 DEF Client, Lock, Unlock, LogLine, PrintfPuts, PrintfOk, PrintfFails, StartUnwrap,
       StartReport, HangUp, CloseDone, SetCode, Answer, Wrap, worker
  <2> QED  BY <2>1 DEF NoFailure
<1>2. ASSUME NEW k \in DOMAIN Workers, Worker(Workers[k]) PROVE NoFailure' => NoFailure
  <2>1. UNCHANGED broken
    BY <1>2 DEF Worker, StartScan, ReadPipe, PipeEnds, ScanLine, ScanFails, FlushPuts, FlushOk,
       FlushFails, WorkerHangsUp, WorkerCloses, WorkerOnly
  <2>2. \A j \in DOMAIN Workers : werr[Workers[j]] => werr'[Workers[j]]
    <3>1. CASE ScanFails(Workers[k])  BY <3>1, ScanFailsTypes DEF ErrorsStay
    <3>2. CASE FlushFails(Workers[k])  BY <3>2, FlushFailsTypes DEF ErrorsStay
    <3>3. CASE WorkerCloses(Workers[k])  BY <3>3, WorkerClosesTypes DEF ErrorsStay, Chain
    <3>4. CASE \/ StartScan(Workers[k]) \/ ReadPipe(Workers[k]) \/ PipeEnds(Workers[k])
               \/ ScanLine(Workers[k]) \/ FlushPuts(Workers[k]) \/ FlushOk(Workers[k])
               \/ WorkerHangsUp(Workers[k])
      <4>1. UNCHANGED werr
        BY <3>4 DEF StartScan, ReadPipe, PipeEnds, ScanLine, FlushPuts, FlushOk, WorkerHangsUp,
           worker
      <4> QED  BY <4>1
    <3> QED  BY <1>2, <3>1, <3>2, <3>3, <3>4 DEF Worker
  <2> QED  BY <2>1, <2>2 DEF NoFailure
<1>3. CASE Break \/ UNCHANGED vars
  <2>1. UNCHANGED werr /\ (broken => broken')  BY <1>3 DEF Break, vars, worker
  <2> QED  BY <2>1 DEF NoFailure
<1> QED  BY <1>1, <1>2, <1>3, Names DEF Next

LEMMA KeptIf ==
  ASSUME Types, KnownInv, KeptInv, NoFailure' => NoFailure,
         NoFailure' => NotLost /\ UNCHANGED logged /\ (buf' # << >> => Printing')
  PROVE  KeptInv'
<1> SUFFICES ASSUME NoFailure' PROVE ToSet(logged') \subseteq OnTheWay'
  BY DEF KeptInv, Printing
<1> SUFFICES ASSUME NEW i \in DOMAIN logged PROVE logged[i] \in OnTheWay'
  BY DEF ToSet
<1>1. Position(logged[i]) = i /\ i > 0  BY DEF KnownInv, Types, Shapes
<1>2. logged[i] \in OnTheWay  BY DEF KeptInv, ToSet
<1>3. PICK m \in Spots : logged[i] \in Place(m)  BY <1>2 DEF OnTheWay
<1> QED  BY <1>1, <1>3 DEF NotLost, Real

LEMMA StillNotLost ==
  ASSUME \A m \in Spots : Place(m)' = Place(m) PROVE NotLost
<1>1. \A m \in Spots : Place(m) \subseteq OnTheWay'  BY OneMorePlace
<1> QED  BY <1>1 DEF NotLost, Real

LEMMA NobodyPrints ==
  ASSUME NEW c \in Clients, mutex \in {c, None}, \A what \in Printfs : ~Doing(c, what)
  PROVE  ~Printing
BY Names DEF Printing, Doing

\* a client that does not print finds the buffer empty and leaves it so
LEMMA KeptByOthers ==
  ASSUME Types, Chain, Blocked, Contents, Flow, KeptInv, NEW c \in Clients, [Next]_vars,
         \/ Lock(c) \/ Unlock(c) \/ StartUnwrap(c) \/ StartReport(c) \/ HangUp(c)
         \/ CloseDone(c) \/ SetCode(c) \/ Answer(c) \/ Wrap(c)
  PROVE  KeptInv'
<1>1. mutex \in {c, None} /\ \A what \in Printfs : ~Doing(c, what)
  <2>1. CASE Lock(c)  BY <2>1, Names DEF Lock, Doing
  <2>2. CASE Unlock(c)  BY <2>2 DEF Unlock, Doing
  <2>3. CASE StartUnwrap(c)  BY <2>3 DEF StartUnwrap, Doing, Printfs
  <2>4. CASE StartReport(c)  BY <2>4 DEF StartReport, Doing, Printfs
  <2>5. CASE HangUp(c)  BY <2>5 DEF HangUp, Doing, Printfs, Closes
  <2>6. CASE CloseDone(c)  BY <2>6 DEF CloseDone, Doing, Printfs, Closes
  <2>7. CASE SetCode(c)  BY <2>7 DEF SetCode, Doing, Printfs
  <2>8. CASE Answer(c)  BY <2>8 DEF Answer, Doing, Printfs
  <2>9. CASE Wrap(c)  BY <2>9 DEF Wrap, Doing, Printfs
  <2> QED  BY <2>1, <2>2, <2>3, <2>4, <2>5, <2>6, <2>7, <2>8, <2>9
<1>2. NoFailure => buf = << >>  BY <1>1, NobodyPrints DEF KeptInv, Printing
<1>3. LogStays /\ \A k \in DOMAIN Workers : Stays(k) \/ In(k) = {}
  <2>1. CASE Wrap(c)  BY <2>1, WrapLines
  <2>2. CASE ~Wrap(c)  BY <2>2, ClientsAreQuiet, QuietStays
  <2> QED  BY <2>1, <2>2
<1>4. NotLost
  <2>1. \A m \in Spots : Place(m) \subseteq Place(m)'
    BY <1>3, StaysIn, Places DEF LogStays
  <2> QED  BY <2>1, OneMorePlace DEF NotLost, Real
<1>5. NoFailure' => NoFailure  BY FailuresStay
<1> QED  BY <1>2, <1>3, <1>4, <1>5, KeptIf DEF Flow, LogStays

LEMMA KeptByLogLine ==
  ASSUME Types, Chain, Blocked, Contents, Flow, KeptInv, NEW c \in Clients, [Next]_vars,
         LogLine(c)
  PROVE  KeptInv'
<1>1. PICK line \in Lines : buf' = Append(buf, line) /\ logged' = Append(logged, line)
  BY LogLineDoes DEF Types
<1>2. buf \in Seq(Lines) /\ logged \in Seq(Lines)  BY DEF Types, Shapes
<1>3. mutex = c /\ UNCHANGED <<mutex, putting, pipe, shown, worker, out>>
      /\ \A what \in Printfs : ~Doing(c, what)
  BY DEF LogLine, Doing, Printfs, client
<1>4. \A d \in Clients : ~putting[d]  BY <1>3, OthersDoNotPut
<1>5. \A k \in DOMAIN Workers : Stays(k)
  <2>1. OnlyTodo(c, Tail(todo[c]))  BY LogLineTypes
  <2>2. WorkersStand  BY <1>3, <2>1, OnlyOneGoesOn DEF WorkersStand, DataOfOut
  <2> QED  BY <2>2, WorkersStay
<1>6. BufAt = ToSet(buf) /\ BufAt' = ToSet(buf) \union {line}
  <2>1. BufAt = ToSet(buf)  BY <1>4, NobodyPuts
  <2>2. BufAt' = ToSet(buf')  BY <1>3, <1>4 DEF BufAt, HasPut
  <2> QED  BY <1>1, <1>2, <2>1, <2>2, SetOfAppend
<1>7. ToSet(logged') = ToSet(logged) \union {line}  BY <1>1, <1>2, SetOfAppend
<1>8. OnTheWay \union {line} \subseteq OnTheWay'
  <2>1. \A m \in Spots : Place(m) \subseteq Place(m)'
    BY <1>3, <1>5, <1>6, StaysIn, Places
  <2>2. \A m \in Spots : Place(m)' \subseteq OnTheWay'  BY OneMorePlace
  <2>3. line \in Place(Buffer)'  BY <1>6, Places
  <2> QED  BY <2>1, <2>2, <2>3, Places DEF OnTheWay
<1>9. Printing'
  <2>1. PICK what \in {"log", "log error"} : Doing(c, what)  BY DEF LogLine
  <2>2. WellFormed(todo[c]) /\ todo[c] # << >> /\ Head(todo[c]) = what
    BY <2>1 DEF Doing, Types, CallsAndStates, CallInv
  <2>3. Tail(todo[c]) # << >>  BY <2>1, <2>2, NextStep DEF Unended
  <2>4. MayFollow(what, Head(Tail(todo[c])))  BY <2>2, <2>3, NextStep
  <2>5. Head(Tail(todo[c])) \in Printfs  BY <2>1, <2>4 DEF MayFollow, Printfs
  <2>6. todo'[c] = Tail(todo[c])  BY LogLineTypes DEF OnlyTodo
  <2> QED  BY <1>3, <2>3, <2>5, <2>6 DEF Printing, Doing, Printfs
<1>10. NoFailure' => NoFailure  BY FailuresStay
<1> QED  BY <1>7, <1>8, <1>9, <1>10 DEF KeptInv, Printing

\* without failures the pipe of the wrapper is open
LEMMA OutIsOpen ==
  ASSUME Types, Chain, EndingInv, ClosedInv, NoFailure, out # Base PROVE CanPut(out)
<1>1. fallback # None  BY DEF Types, Shapes
<1>2. PICK t \in DOMAIN Workers : Top(t) /\ out = Workers[t]  BY <1>1 DEF Chain, OutInv
<1>3. ~Is(t, "gone") /\ (t < Len(Workers) => ~Is(t + 1, "close"))
  BY <1>2, OneState DEF Top, Live
<1>4. ~pipe[out].wclosed  BY <1>1, <1>2, <1>3 DEF ClosedInv
<1>5. ~Is(t, "send")
  <2>1. "send" \in Ending  BY DEF Ending
  <2> QED  BY <1>2, <1>4, <2>1 DEF EndingInv, NoFailure
<1>6. ~pipe[out].rclosed  BY <1>2, <1>3, <1>5 DEF ClosedInv
<1> QED  BY <1>4, <1>6 DEF CanPut

LEMMA KeptByPrintf ==
  ASSUME Types, Chain, Blocked, Contents, Flow, EndingInv, ClosedInv, KeptInv,
         NEW c \in Clients, [Next]_vars, PrintfPuts(c) \/ PrintfOk(c) \/ PrintfFails(c)
  PROVE  KeptInv'
<1>1. NoFailure' => NoFailure  BY FailuresStay
<1>2. CASE PrintfPuts(c)
  <2>1. LogStays /\ \A k \in DOMAIN Workers : Stays(k)  BY <1>2, PrintfPutsLines
  <2>2. NotLost  BY <2>1, StillLines, StillNotLost
  <2>3. UNCHANGED <<todo, mutex>>  BY <1>2 DEF PrintfPuts, client
  <2>4. Printing'
    <3>1. Printing  BY <1>2 DEF PrintfPuts, Printing
    <3> QED  BY <2>3, <3>1 DEF Printing, Doing
  <2> QED  BY <1>1, <2>1, <2>2, <2>4, KeptIf DEF LogStays, Flow
<1>3. CASE PrintfOk(c)
  <2>1. /\ \/ out = Base /\ shown' = shown \o buf /\ BufAt = ToSet(buf)
           \/ out # Base /\ UNCHANGED shown /\ BufAt = {}
        /\ \A k \in DOMAIN Workers : Stays(k)
    BY <1>3, PrintfOkLines
  <2>2. UNCHANGED logged /\ buf' = << >>  BY <1>3 DEF PrintfOk
  <2>3. shown \in Seq(Lines) /\ buf \in Seq(Lines)  BY DEF Types, Shapes
  <2>4. ToSet(shown) \union BufAt \subseteq ToSet(shown')
    <3>1. ToSet(shown \o buf) = ToSet(shown) \union ToSet(buf)  BY <2>3, SetOfConcat
    <3>2. CASE shown' = shown \o buf /\ BufAt = ToSet(buf)  BY <3>1, <3>2
    <3>3. CASE UNCHANGED shown /\ BufAt = {}  BY <3>3
    <3> QED  BY <2>1, <3>2, <3>3
  <2>5. NotLost
    <3>1. Place(0)' \subseteq OnTheWay' /\ \A k \in DOMAIN Workers : Place(k)' \subseteq OnTheWay'
      BY OneMorePlace, Places
    <3>2. Place(0) \union Place(Buffer) \subseteq Place(0)'  BY <2>4, Places
    <3>3. \A k \in DOMAIN Workers : Place(k) = Place(k)'  BY <2>1, StaysIn, Places
    <3>4. \A m \in Spots : Place(m) \subseteq OnTheWay'  BY <3>1, <3>2, <3>3, Places
    <3> QED  BY <3>4 DEF NotLost, Real
  <2> QED  BY <1>1, <2>2, <2>5, KeptIf DEF Flow
<1>4. CASE PrintfFails(c)
  <2>1. UNCHANGED broken /\ WriteFails(c, out) /\ \E what \in Printfs : Doing(c, what)
    BY <1>4 DEF PrintfFails
  <2>2. ASSUME NoFailure PROVE FALSE
    <3>1. out # Base /\ ~CanPut(out)  BY <2>1, <2>2 DEF WriteFails, NoFailure
    <3> QED  BY <2>2, <3>1, OutIsOpen
  <2> QED  BY <1>1, <2>2, KeptIf DEF Flow
<1> QED  BY <1>2, <1>3, <1>4

\* what a worker does to the clients: nothing
LEMMA WorkersDo ==
  ASSUME Types, Chain, NEW k \in DOMAIN Workers, Worker(Workers[k])
  PROVE  WorkerOnly /\ Live(k) /\ \A c \in Clients : todo'[c] = todo[c]
<1>1. WorkerOnly
  BY DEF Worker, StartScan, ReadPipe, PipeEnds, ScanLine, ScanFails, FlushPuts, FlushOk,
     FlushFails, WorkerHangsUp, WorkerCloses
<1>2. \E s \in Working \union {"close"} : Is(k, s)
  <2>1. StartScan(Workers[k]) => Is(k, "scan")  BY DEF StartScan, At, Is
  <2>2. ReadPipe(Workers[k]) \/ PipeEnds(Workers[k]) \/ ScanLine(Workers[k])
        \/ ScanFails(Workers[k]) => Is(k, "read")
    BY DEF ReadPipe, PipeEnds, ScanLine, ScanFails, At, Is
  <2>3. FlushPuts(Workers[k]) \/ FlushFails(Workers[k]) => \E f \in Flushes : Is(k, f)
    BY DEF FlushPuts, FlushFails, At, Is
  <2>4. FlushOk(Workers[k]) => \E f \in Flushes : Is(k, f)
    BY DEF FlushOk, Flushes, At, Is
  <2>5. WorkerHangsUp(Workers[k]) \/ WorkerCloses(Workers[k]) => Is(k, "close")
    BY DEF WorkerHangsUp, WorkerCloses, At, Is
  <2> QED  BY <2>1, <2>2, <2>3, <2>4, <2>5 DEF Worker, Working
<1>3. Live(k)  BY <1>2, OneState DEF Live, Working, Flushes
<1>4. UNCHANGED todo \/ (\E x, y : GoesOn(k, x, y))
      \/ (k > 1 /\ TwoTodos(Workers[k], <<"send">>, Workers[k - 1], <<"gone">>))
  <2>1. StartScan(Workers[k]) \/ PipeEnds(Workers[k]) \/ ScanFails(Workers[k])
          => \E x, y : GoesOn(k, x, y)
    BY StartScanTypes, PipeEndsTypes, ScanFailsTypes
  <2>2. ScanLine(Workers[k]) \/ FlushOk(Workers[k]) \/ FlushFails(Workers[k])
          => \E x, y : GoesOn(k, x, y)
    BY ScanLineTypes, FlushOkTypes, FlushFailsTypes
  <2>3. ReadPipe(Workers[k]) \/ FlushPuts(Workers[k]) \/ WorkerHangsUp(Workers[k])
          => UNCHANGED todo
    BY ReadPipeTypes, FlushPutsTypes, WorkerHangsUpTypes
  <2>4. WorkerCloses(Workers[k]) =>
          \/ \E x, y : GoesOn(k, x, y)
          \/ k > 1 /\ TwoTodos(Workers[k], <<"send">>, Workers[k - 1], <<"gone">>)
    BY WorkerClosesTypes DEF Chain
  <2> QED  BY <2>1, <2>2, <2>3, <2>4 DEF Worker
<1>5. \A c \in Clients : todo'[c] = todo[c]
  <2>1. CASE \E x, y : GoesOn(k, x, y)  BY <2>1, Names DEF GoesOn, OnlyTodo
  <2>2. CASE k > 1 /\ TwoTodos(Workers[k], <<"send">>, Workers[k - 1], <<"gone">>)
    <3>1. k - 1 \in DOMAIN Workers  BY <2>2, Names
    <3> QED  BY <2>2, <3>1, Names DEF TwoTodos
  <2> QED  BY <1>4, <2>1, <2>2
<1> QED  BY <1>1, <1>3, <1>5

LEMMA WorkerNotLost ==
  ASSUME Types, Chain, Blocked, NEW k \in DOMAIN Workers, OthersStand(k), DataOfTarget(k),
         ToSet(shown) \subseteq ToSet(shown'), Real(In(k)) \subseteq OnTheWay'
  PROVE  NotLost
<1>1. \A m \in Spots : Place(m)' \subseteq OnTheWay'  BY OneMorePlace
<1>2. \A j \in DOMAIN Workers : j # k => Place(j) = Place(j)'  BY OthersStay, StaysIn, Places
<1>3. Place(Buffer) = Place(Buffer)' /\ Place(0) \subseteq Place(0)'  BY OthersStay, Places
<1>4. \A m \in Spots : m # k => Place(m) \subseteq OnTheWay'  BY <1>1, <1>2, <1>3, Places
<1> QED  BY <1>4, Places DEF NotLost, Real

LEMMA KeptByWorkers ==
  ASSUME Types, Chain, Blocked, Contents, Flow, EndingInv, KeptInv,
         NEW k \in DOMAIN Workers, [Next]_vars, Worker(Workers[k])
  PROVE  KeptInv'
<1>1. NoFailure' => NoFailure  BY FailuresStay
<1>2. WorkerOnly /\ \A c \in Clients : todo'[c] = todo[c]  BY WorkersDo
<1>3. UNCHANGED <<buf, logged, mutex>>  BY <1>2 DEF WorkerOnly, logger, client
<1>4. Printing => Printing'  BY <1>2, <1>3 DEF Printing, Doing
<1>5. NoFailure => (buf' # << >> => Printing')  BY <1>3, <1>4 DEF KeptInv, Printing
<1>6. SUFFICES ASSUME NoFailure, NoFailure' PROVE NotLost
  BY <1>1, <1>3, <1>5, KeptIf DEF Flow
<1>7. CASE \/ StartScan(Workers[k]) \/ PipeEnds(Workers[k]) \/ ScanFails(Workers[k])
           \/ WorkerHangsUp(Workers[k]) \/ WorkerCloses(Workers[k])
  BY <1>7, WorkersAreQuiet, QuietStays, StillLines, StillNotLost
<1>8. CASE FlushPuts(Workers[k])  BY <1>8, FlushPutsLines, StillLines, StillNotLost
<1>9. CASE ReadPipe(Workers[k])
  <2>1. \A m \in Spots : Place(m) \subseteq OnTheWay'  BY <1>9, ReadPipeLines
  <2> QED  BY <2>1 DEF NotLost, Real
<1>10. CASE FlushFails(Workers[k])
  <2>1. werr'[Workers[k]]  BY <1>10, FlushFailsTypes
  <2> QED  BY <1>6, <2>1 DEF NoFailure
<1>11. In(k)' \subseteq OnTheWay' /\ ToSet(shown') \subseteq OnTheWay'
  BY OneMorePlace, Places
<1>12. CASE ScanLine(Workers[k])
  <2>1. /\ OthersStand(k) /\ UNCHANGED <<pipe, shown>> /\ HeldAt(k)' = HeldAt(k)
        /\ PendAt(k)' \union ReadAt(k)' = ReadAt(k)
    BY <1>12, ScanLineLines
  <2>2. Real(PendAt(k)) = {}
    <3>1. Is(k, "read")  BY <1>12 DEF ScanLine, At, Is
    <3>2. pend[Workers[k]] = NoLine  BY <3>1 DEF Contents, PlainInv
    <3> QED  BY <3>2, NoPositions DEF PendAt, Real
  <2>3. Real(In(k)) \subseteq In(k)'  BY <2>1, <2>2 DEF In, Real
  <2>4. DataOfTarget(k)  BY <2>1 DEF DataOfTarget
  <2> QED  BY <1>11, <2>1, <2>3, <2>4, WorkerNotLost
<1>13. CASE FlushOk(Workers[k])
  <2>1. /\ OthersStand(k) /\ UNCHANGED pipe
        /\ \/ ToSet(shown') = ToSet(shown) \union {held[Workers[k]]}
           \/ UNCHANGED shown /\ HeldAt(k) = {}
        /\ \/ GoesOn(k, "flush, close", "close")
           \/ HeldAt(k)' = PendAt(k) /\ ReadAt(k)' = ReadAt(k)
    BY <1>13, FlushOkLines
  <2>2. ToSet(shown) \subseteq ToSet(shown') /\ HeldAt(k) \subseteq ToSet(shown')
    BY <2>1 DEF HeldAt
  <2>3. Real(PendAt(k) \union ReadAt(k)) \subseteq In(k)'
    <3>1. CASE GoesOn(k, "flush, close", "close")
      <4>1. Is(k, "flush, close") /\ "flush, close" \in Ending  BY <3>1 DEF GoesOn, Ending
      <4>2. unread[Workers[k]] = << >> /\ pend[Workers[k]] = NoLine
        BY <1>6, <4>1 DEF EndingInv, NoFailure
      <4>3. PendAt(k) \subseteq {NoLine} /\ ReadAt(k) = {}
        BY <4>2, SetOfFew DEF PendAt, ReadAt
      <4> QED  BY <4>3, NoPositions DEF Real
    <3>2. CASE HeldAt(k)' = PendAt(k) /\ ReadAt(k)' = ReadAt(k)  BY <3>2 DEF In, Real
    <3> QED  BY <2>1, <3>1, <3>2
  <2>4. Real(In(k)) \subseteq OnTheWay'  BY <1>11, <2>2, <2>3 DEF In, Real
  <2>5. DataOfTarget(k)  BY <2>1 DEF DataOfTarget
  <2> QED  BY <2>1, <2>2, <2>4, <2>5, WorkerNotLost
<1> QED  BY <1>7, <1>8, <1>9, <1>10, <1>12, <1>13 DEF Worker

LEMMA StepKeepsLines ==
  ASSUME Types, Chain, Blocked, Contents, Flow, EndingInv, ClosedInv, KeptInv, [Next]_vars
  PROVE  KeptInv'
<1>1. ASSUME NEW c \in Clients, Client(c) PROVE KeptInv'
  BY <1>1, KeptByOthers, KeptByLogLine, KeptByPrintf DEF Client
<1>2. ASSUME NEW k \in DOMAIN Workers, Worker(Workers[k]) PROVE KeptInv'
  BY <1>2, KeptByWorkers
<1>3. CASE Break \/ UNCHANGED vars
  <2>1. NotLost  BY <1>3, IdleIsQuiet, QuietStays, StillLines, StillNotLost
  <2>2. UNCHANGED <<logged, buf, todo, mutex>>  BY <1>3 DEF Break, vars, logger, client
  <2>3. Printing => Printing'  BY <2>2 DEF Printing, Doing
  <2>4. NoFailure' => NoFailure  BY FailuresStay
  <2> QED  BY <2>1, <2>2, <2>3, <2>4, KeptIf DEF Flow, KeptInv, Printing
<1> QED  BY <1>1, <1>2, <1>3, Names DEF Next

LEMMA InitKept == ASSUME Init PROVE KeptInv
<1>1. logged = << >> /\ buf = << >>  BY DEF Init
<1>2. ToSet(logged) = {}  BY <1>1, SetOfFew
<1> QED  BY <1>1, <1>2 DEF KeptInv

\* nobody has a line any more when the log is not wrapped
LEMMA KeptMeansShown ==
  ASSUME Types, Chain, KeptInv PROVE NothingKeptBack
<1> SUFFICES ASSUME fallback = None, mutex = None, ~broken, \A w \in DOMAIN werr : ~werr[w]
             PROVE  ToSet(logged) \subseteq ToSet(shown)
  BY DEF NothingKeptBack
<1>1. NoFailure  BY Names DEF NoFailure, Types, Shapes
<1>2. ~Printing /\ \A c \in Clients : ~IsClosing(c)
  BY Names DEF Printing, IsClosing, Doing
<1>3. buf = << >>  BY <1>1, <1>2 DEF KeptInv, Printing
<1>4. BufAt = {}  BY <1>3, SetOfFew DEF BufAt
<1>5. \A k \in DOMAIN Workers : In(k) = {}
  <2> SUFFICES ASSUME NEW k \in DOMAIN Workers PROVE In(k) = {}  OBVIOUS
  <2>1. ~Live(k)  BY <1>2 DEF Chain, LiveInv
  <2>2. ~IsWorking(k)  BY <2>1, WorkingIsLive
  <2> QED  BY <2>2 DEF In, HeldAt, PendAt, ReadAt
<1>6. \A m \in Spots : Place(m) \subseteq ToSet(shown)  BY <1>4, <1>5, Places
<1> QED  BY <1>1, <1>6 DEF KeptInv, OnTheWay

\* When the log is not wrapped and nobody is in the middle of a call, and neither
\* the output nor a worker has failed, every line that was logged is in the output:
\* no worker ends with a line it keeps back, has read or could still read.
THEOREM NothingIsKeptBack == Spec => []NothingKeptBack
<1> DEFINE All == /\ Types /\ Chain /\ Blocked /\ Contents /\ Flow
                  /\ EndingInv /\ ClosedInv /\ KeptInv
<1>1. Init => All  BY InitTypes, InitBlocked, InitFlow, InitEnds, InitKept
<1>2. All /\ [Next]_vars => All'
  BY StepKeepsTypes, StepKeepsBlocked, StepKeepsFlow, StepKeepsEnds, StepKeepsLines
<1>3. All => NothingKeptBack  BY KeptMeansShown
<1> HIDE DEF All
<1> QED  BY <1>1, <1>2, <1>3, PTL DEF Spec
----------------------------------------------------------------------------
(* An error that is reported is shown.                                     *)

Lasts == {"errorf", "code 1", "code 2"}

LEMMA LastIf ==
  ASSUME Types, NEW c \in Clients, mutex \in {c, None},
         \A d \in Clients : d # c => todo'[d] = todo[d],
         Doing(c, "errorf")' => EndsInError(buf)',
         Doing(c, "code 1")' \/ Doing(c, "code 2")' => broken' \/ EndsInError(shown)'
  PROVE  LastInv'
<1>1. \A d \in Clients : d # c => todo'[d] = << >>  BY OthersIdle
<1>2. \A d \in Clients : d # c => ~Doing(d, "errorf")' /\ ~Doing(d, "code 1")'
                                  /\ ~Doing(d, "code 2")'
  BY <1>1 DEF Doing
<1> QED  BY <1>2 DEF LastInv

\* a client that has something else to do next
LEMMA NotLast ==
  ASSUME Types, NEW c \in Clients, mutex \in {c, None},
         \A d \in Clients : d # c => todo'[d] = todo[d],
         todo'[c] # << >> => Head(todo'[c]) \notin Lasts
  PROVE  LastInv'
<1>1. ~Doing(c, "errorf")' /\ ~Doing(c, "code 1")' /\ ~Doing(c, "code 2")'
  BY DEF Doing, Lasts
<1> QED  BY <1>1, LastIf

\* what the call goes on with when a step is done
LEMMA NextOfLast ==
  ASSUME Types, NEW c \in Clients, todo[c] # << >>, todo'[c] = Tail(todo[c])
  PROVE  /\ Doing(c, "errorf")' => Head(todo[c]) = "log error"
         /\ Doing(c, "code 1")' \/ Doing(c, "code 2")' => Head(todo[c]) = "errorf"
         /\ Head(todo[c]) \notin {"log error", "errorf"} =>
              (todo'[c] # << >> => Head(todo'[c]) \notin Lasts)
<1>1. todo'[c] # << >> => MayFollow(Head(todo[c]), Head(todo'[c]))
  BY NextStep DEF Types, CallsAndStates, CallInv
<1>2. \A x : /\ MayFollow(x, "errorf") => x = "log error"
             /\ MayFollow(x, "code 1") \/ MayFollow(x, "code 2") => x = "errorf"
  BY DEF MayFollow
<1> QED  BY <1>1, <1>2 DEF Doing, Lasts

LEMMA LastOfAppend ==
  ASSUME NEW S, NEW s \in Seq(S), NEW x \in S
  PROVE  Append(s, x) # << >> /\ Last(Append(s, x)) = x
<1>1. PICK n \in Nat : n = Len(s)  OBVIOUS
<1>2. PICK t \in Seq(S) : t = Append(s, x)  BY AppendProperties
<1>3. Len(t) = n + 1 /\ t[n + 1] = x  BY <1>1, <1>2, AppendProperties
<1>4. t # << >> /\ Last(t) = x  BY <1>3 DEF Last
<1> QED  BY <1>2, <1>4

LEMMA LastOfConcat ==
  ASSUME NEW S, NEW s \in Seq(S), NEW t \in Seq(S), t # << >>
  PROVE  s \o t # << >> /\ Last(s \o t) = Last(t)
<1>1. PICK n \in Nat, m \in Nat : n = Len(s) /\ m = Len(t)  OBVIOUS
<1>2. PICK u \in Seq(S) : u = s \o t  BY ConcatProperties
<1>3. m >= 1  BY <1>1
<1>4. Len(u) = n + m /\ \A i \in 1 .. m : u[n + i] = t[i]  BY <1>1, <1>2, ConcatProperties
<1>5. m \in 1 .. m /\ n + m >= 1  BY <1>3
<1>6. u # << >> /\ Last(u) = Last(t)  BY <1>1, <1>4, <1>5 DEF Last
<1> QED  BY <1>2, <1>6

LEMMA LogLineShows ==
  ASSUME Types, NEW c \in Clients, LogLine(c)
  PROVE  LastInv'
<1>1. mutex = c /\ todo[c] # << >> /\ Head(todo[c]) \in {"log", "log error"}
  BY DEF LogLine, Doing
<1>2. OnlyTodo(c, Tail(todo[c]))  BY LogLineTypes
<1>3. todo'[c] = Tail(todo[c]) /\ \A d \in Clients : d # c => todo'[d] = todo[d]
  BY <1>2, Names DEF OnlyTodo
<1>4. PICK line \in Lines :
        /\ buf' = Append(buf, line) /\ logged' = Append(logged, line)
        /\ Doing(c, "log error") => line[1] = "ERROR"
  BY LogLineDoes DEF Types
<1>5. buf \in Seq(Lines) /\ logged \in Seq(Lines)  BY DEF Types, Shapes
<1>6. buf' # << >> /\ Last(buf') = line /\ Last(logged') = line
  BY <1>4, <1>5, LastOfAppend
<1>7. Doing(c, "errorf")' => EndsInError(buf)'
  BY <1>1, <1>3, <1>4, <1>6, NextOfLast DEF Doing, EndsInError
<1>8. ~Doing(c, "code 1")' /\ ~Doing(c, "code 2")'  BY <1>1, <1>3, NextOfLast
<1> QED  BY <1>1, <1>3, <1>7, <1>8, LastIf

\* an error is written to the output itself
LEMMA ErrorsGoOut ==
  ASSUME Types, Chain, NEW c \in Clients, Doing(c, "errorf") PROVE out = Base
<1>1. Early(c)  BY DEF Early
<1> QED  BY <1>1 DEF Chain, EarlyInv, Types, Shapes

LEMMA PrintfShows ==
  ASSUME Types, Chain, LastInv, NEW c \in Clients,
         PrintfPuts(c) \/ PrintfOk(c) \/ PrintfFails(c)
  PROVE  LastInv'
<1>1. mutex = c /\ todo[c] # << >> /\ Head(todo[c]) \in Printfs
  BY DEF PrintfPuts, PrintfOk, PrintfFails, Doing
<1>2. CASE PrintfPuts(c)
  <2>1. out # Base  BY <1>2 DEF PrintfPuts, Puts
  <2>2. ~Doing(c, "errorf")  BY <2>1, ErrorsGoOut
  <2>3. Head(todo[c]) = "printf"  BY <1>1, <2>2 DEF Doing, Printfs
  <2>4. UNCHANGED todo  BY <1>2 DEF PrintfPuts
  <2> QED  BY <1>1, <2>3, <2>4, NotLast DEF Lasts
<1>3. CASE PrintfOk(c)
  <2>1. OnlyTodo(c, Tail(todo[c]))  BY <1>3, PrintfOkTypes
  <2>2. todo'[c] = Tail(todo[c]) /\ \A d \in Clients : d # c => todo'[d] = todo[d]
    BY <2>1, Names DEF OnlyTodo
  <2>3. CASE Head(todo[c]) = "errorf"
    <3>1. Doing(c, "errorf")  BY <1>1, <2>3 DEF Doing
    <3>2. out = Base  BY <3>1, ErrorsGoOut
    <3>3. shown' = shown \o buf /\ UNCHANGED logged
      BY <1>3, <3>2 DEF PrintfOk, WriteOk
    <3>4. EndsInError(buf)  BY <3>1 DEF LastInv
    <3>5. shown \in Seq(Lines) /\ buf \in Seq(Lines) /\ buf # << >>
      BY <3>4 DEF Types, Shapes, EndsInError
    <3>6. shown' # << >> /\ Last(shown') = Last(buf)  BY <3>3, <3>5, LastOfConcat
    <3>7. EndsInError(shown)'  BY <3>3, <3>4, <3>6 DEF EndsInError
    <3>8. ~Doing(c, "errorf")'  BY <1>1, <2>2, <2>3, NextOfLast
    <3> QED  BY <1>1, <2>2, <3>7, <3>8, LastIf
  <2>4. CASE Head(todo[c]) # "errorf"
    <3>1. Head(todo[c]) \notin {"log error", "errorf"}  BY <1>1, <2>4 DEF Printfs
    <3> QED  BY <1>1, <2>2, <3>1, NextOfLast, NotLast
  <2> QED  BY <2>3, <2>4
<1>4. CASE PrintfFails(c)
  <2>1. CASE Doing(c, "printf") /\ OnlyTodo(c, <<"report">> \o Tail(todo[c]))
    <3>1. <<"report">> \in Seq(Steps) /\ <<"report">>[1] = "report" /\ <<"report">> # << >>
      BY DEF Steps
    <3>2. todo'[c] = <<"report">> \o Tail(todo[c])
          /\ \A d \in Clients : d # c => todo'[d] = todo[d]
      BY <2>1, Names DEF OnlyTodo
    <3>3. Head(todo'[c]) = "report"  BY <1>1, <3>1, <3>2, NewHead
    <3> QED  BY <1>1, <3>2, <3>3, NotLast DEF Lasts
  <2>2. CASE Doing(c, "errorf") /\ OnlyTodo(c, Tail(todo[c]))
    <3>1. out = Base  BY <2>2, ErrorsGoOut
    <3>2. broken /\ UNCHANGED broken  BY <1>4, <3>1 DEF PrintfFails, WriteFails
    <3>3. todo'[c] = Tail(todo[c]) /\ \A d \in Clients : d # c => todo'[d] = todo[d]
      BY <2>2, Names DEF OnlyTodo
    <3>4. Head(todo[c]) = "errorf"  BY <2>2 DEF Doing
    <3>5. ~Doing(c, "errorf")'  BY <1>1, <3>3, <3>4, NextOfLast
    <3> QED  BY <1>1, <3>2, <3>3, <3>5, LastIf
  <2> QED  BY <1>4, <2>1, <2>2, PrintfFailsTypes
<1> QED  BY <1>2, <1>3, <1>4

\* the other steps are not followed by one that ends the report
LEMMA OthersShow ==
  ASSUME Types, Chain, NEW c \in Clients,
         \/ Lock(c) \/ Unlock(c) \/ StartUnwrap(c) \/ StartReport(c) \/ HangUp(c)
         \/ CloseDone(c) \/ SetCode(c) \/ Answer(c) \/ Wrap(c)
  PROVE  LastInv'
<1>1. CASE Lock(c)
  <2>1. calls[c] \in Seq(Calls) /\ calls[c] # << >>  BY <1>1 DEF Types, Shapes, Lock
  <2>2. Head(calls[c]) \in Calls  BY <2>1
  <2>3. Head(Body(Head(calls[c]))) \in {"log", "report", "unwrap", "wrap", "exit"}
    BY <2>2 DEF Body, Calls
  <2>4. OnlyTodo(c, Body(Head(calls[c])))  BY <1>1, LockTypes
  <2>5. mutex = None  BY <1>1 DEF Lock
  <2> QED  BY <2>3, <2>4, <2>5, Names, NotLast DEF OnlyTodo, Lasts
<1>2. CASE Unlock(c)
  <2>1. mutex = c /\ todo[c] = << >> /\ UNCHANGED todo  BY <1>2 DEF Unlock
  <2> QED  BY <2>1, NotLast
\* a step is done
<1>3. ASSUME mutex = c, todo[c] # << >>, todo'[c] = Tail(todo[c]),
             \A d \in Clients : d # c => todo'[d] = todo[d],
             Head(todo[c]) \notin {"log error", "errorf"}
      PROVE  LastInv'
  BY <1>3, NextOfLast, NotLast
\* steps are put before the rest
<1>4. ASSUME mutex = c, todo[c] # << >>, NEW p \in Seq(Steps), p # << >>, p[1] \notin Lasts,
             todo'[c] = p \o Tail(todo[c]), \A d \in Clients : d # c => todo'[d] = todo[d]
      PROVE  LastInv'
  <2>1. Head(todo'[c]) = p[1]  BY <1>4, NewHead
  <2> QED  BY <1>4, <2>1, NotLast
<1>5. /\ <<"close">> \in Seq(Steps) /\ <<"close">> # << >> /\ <<"close">>[1] \notin Lasts
      /\ <<"report">> \in Seq(Steps) /\ <<"report">> # << >> /\ <<"report">>[1] \notin Lasts
      /\ Report \in Seq(Steps) /\ Report # << >> /\ Report[1] \notin Lasts
      /\ LET p == <<"close quietly">> \o Report
         IN p \in Seq(Steps) /\ p # << >> /\ p[1] \notin Lasts
  <2>1. <<"close quietly">> \o Report = <<"close quietly", "log error", "errorf", "code 2">>
    BY SomeSteps DEF Report
  <2>2. "close" \in Steps /\ "report" \in Steps /\ "close quietly" \in Steps
        /\ "log error" \in Steps /\ "errorf" \in Steps /\ "code 2" \in Steps
    BY DEF Steps
  <2>3. <<"close">> \in Seq(Steps) /\ <<"close">> # << >> /\ <<"close">>[1] \notin Lasts
    BY <2>2, Tuples DEF Lasts
  <2>4. <<"report">> \in Seq(Steps) /\ <<"report">> # << >> /\ <<"report">>[1] \notin Lasts
    BY <2>2, Tuples DEF Lasts
  <2>5. Report \in Seq(Steps) /\ Report # << >> /\ Report[1] \notin Lasts
    BY <2>2, Tuples DEF Report, Lasts
  <2>6. PICK p : p = <<"close quietly", "log error", "errorf", "code 2">>  OBVIOUS
  <2>7. p \in Seq(Steps) /\ p # << >> /\ p[1] \notin Lasts
    BY <2>2, <2>6, Tuples DEF Lasts
  <2> QED  BY <2>1, <2>3, <2>4, <2>5, <2>6, <2>7
<1>6. CASE StartUnwrap(c)
  <2>1. mutex = c /\ todo[c] # << >> /\ Head(todo[c]) = "unwrap"  BY <1>6 DEF StartUnwrap, Doing
  <2>2. OnlyTodo(c, Tail(todo[c])) \/ OnlyTodo(c, <<"close">> \o Tail(todo[c]))
    BY <1>6, StartUnwrapTypes
  <2> QED  BY <1>3, <1>4, <1>5, <2>1, <2>2, Names DEF OnlyTodo
<1>7. CASE StartReport(c)
  <2>1. mutex = c /\ todo[c] # << >>  BY <1>7 DEF StartReport, Doing
  <2>2. \/ OnlyTodo(c, Report \o Tail(todo[c]))
        \/ OnlyTodo(c, (<<"close quietly">> \o Report) \o Tail(todo[c]))
    BY <1>7, StartReportTypes
  <2> QED  BY <1>4, <1>5, <2>1, <2>2, Names DEF OnlyTodo
<1>8. CASE HangUp(c)
  <2>1. IsClosing(c) /\ UNCHANGED todo  BY <1>8, HangUpTypes DEF Chain
  <2> QED  BY <2>1, NotLast DEF IsClosing, Doing, Closes, Lasts
<1>9. CASE CloseDone(c)
  <2>1. mutex = c /\ todo[c] # << >> /\ Head(todo[c]) \in Closes  BY <1>9 DEF CloseDone, Doing
  <2>2. Head(todo[c]) \notin {"log error", "errorf"}  BY <2>1 DEF Closes
  <2>3. PICK k \in DOMAIN Workers :
          \/ TwoTodos(c, <<"report">> \o Tail(todo[c]), Workers[k], <<"gone">>)
          \/ TwoTodos(c, Tail(todo[c]), Workers[k], <<"gone">>)
    BY <1>9, CloseDoneTypes DEF Chain
  <2>4. /\ todo'[c] = <<"report">> \o Tail(todo[c]) \/ todo'[c] = Tail(todo[c])
        /\ \A d \in Clients : d # c => todo'[d] = todo[d]
    BY <2>3, Names DEF TwoTodos
  <2> QED  BY <1>3, <1>4, <1>5, <2>1, <2>2, <2>4
<1>10. CASE SetCode(c)
  <2>1. mutex = c /\ todo[c] # << >> /\ Head(todo[c]) \notin {"log error", "errorf"}
    <3>1. Doing(c, "code 1") \/ Doing(c, "code 2")  BY <1>10 DEF SetCode
    <3> QED  BY <3>1 DEF Doing
  <2>2. OnlyTodo(c, Tail(todo[c]))  BY <1>10, SetCodeTypes
  <2> QED  BY <1>3, <2>1, <2>2, Names DEF OnlyTodo
<1>11. CASE Answer(c)
  <2>1. mutex = c /\ todo[c] # << >> /\ Head(todo[c]) \in {"answer", "exit"}
    BY <1>11 DEF Answer, Doing
  <2>2. OnlyTodo(c, Tail(todo[c]))  BY <1>11, AnswerTypes
  <2> QED  BY <1>3, <2>1, <2>2, Names DEF OnlyTodo
<1>12. CASE Wrap(c)
  <2>1. mutex = c /\ todo[c] # << >> /\ Head(todo[c]) = "wrap"  BY <1>12 DEF Wrap, Doing
  <2>2. PICK k \in DOMAIN Workers : TwoTodos(c, Tail(todo[c]), Workers[k], <<"scan">>)
    BY <1>12, WrapTypes
  <2>3. todo'[c] = Tail(todo[c]) /\ \A d \in Clients : d # c => todo'[d] = todo[d]
    BY <2>2, Names DEF TwoTodos
  <2> QED  BY <1>3, <2>1, <2>3
<1> QED  BY <1>1, <1>2, <1>6, <1>7, <1>8, <1>9, <1>10, <1>11, <1>12

\* a worker runs while the log is wrapped or while it is closed, not in between
LEMMA WorkersShow ==
  ASSUME Types, Chain, NEW k \in DOMAIN Workers, Worker(Workers[k])
  PROVE  LastInv'
<1>1. WorkerOnly /\ Live(k) /\ \A c \in Clients : todo'[c] = todo[c]  BY WorkersDo
<1>2. UNCHANGED mutex  BY <1>1 DEF WorkerOnly, client
<1>3. fallback # None \/ \E c \in Clients : IsClosing(c)  BY <1>1 DEF Chain, LiveInv
<1>4. ASSUME NEW c \in Clients, NEW what \in Lasts, Doing(c, what) PROVE FALSE
  <2>1. Early(c) /\ mutex = c  BY <1>4 DEF Early, Lasts, Doing
  <2>2. fallback = None  BY <2>1 DEF Chain, EarlyInv
  <2>3. PICK d \in Clients : IsClosing(d)  BY <1>3, <2>2
  <2>4. d = c  BY <2>1, <2>3 DEF IsClosing, Doing
  <2> QED  BY <1>4, <2>3, <2>4 DEF IsClosing, Doing, Closes, Lasts
<1>5. \A c \in Clients : \A what \in Lasts : ~Doing(c, what)'
  BY <1>1, <1>2, <1>4 DEF Doing
<1> QED  BY <1>5 DEF LastInv, Lasts

LEMMA StepShows ==
  ASSUME Types, Chain, LastInv, [Next]_vars PROVE LastInv'
<1>1. ASSUME NEW c \in Clients, Client(c) PROVE LastInv'
  BY <1>1, LogLineShows, PrintfShows, OthersShow DEF Client
<1>2. ASSUME NEW k \in DOMAIN Workers, Worker(Workers[k]) PROVE LastInv'
  BY <1>2, WorkersShow
<1>3. CASE Break \/ UNCHANGED vars
  <2>1. UNCHANGED <<todo, mutex, buf, shown, logged>> /\ (broken => broken')
    BY <1>3 DEF Break, vars, logger, client
  <2> QED  BY <2>1 DEF LastInv, Doing, EndsInError
<1> QED  BY <1>1, <1>2, <1>3, Names DEF Next

\* The last line of the output is the error that is being reported, as soon as its
\* call sets the exit code, unless the output is broken: no worker writes after it,
\* even one that has failed.
THEOREM ErrorsComeOut == Spec => []ErrorsAreShown
<1> DEFINE All == Types /\ Chain /\ LastInv
<1>1. Init => All
  <2>1. ASSUME Init PROVE LastInv
    <3>1. \A c \in Clients : todo[c] = << >>  BY <2>1, InitTypes, Names DEF Init, Procs
    <3> QED  BY <3>1 DEF LastInv, Doing
  <2> QED  BY <2>1, InitTypes
<1>2. All /\ [Next]_vars => All'  BY StepKeepsTypes, StepShows
<1>3. All => ErrorsAreShown  BY DEF LastInv, ErrorsAreShown, EndsInError
<1> HIDE DEF All
<1> QED  BY <1>1, <1>2, <1>3, PTL DEF Spec
=============================================================================
