------------------------ MODULE WellBracketedProofs -------------------------
(***************************************************************************)
(* What init compiles, and the theorems about well bracketed programs:     *)
(* their dictionary, their code and their return stack, and that a trace   *)
(* tells the truth about them and changes nothing.                         *)
(***************************************************************************)
EXTENDS FirstVMProofs, TracedVM, WellFoundedInduction
----------------------------------------------------------------------------
(* While init compiles the entry and the builtins.                         *)

RestOf(s, j) == SubSeq(s, j, Len(s))

EntryJobs(w) ==
  <<DoCompile(0), DoCompile(0), DoCompile(OpCompile), DoCompile(OpRun), Do("setLast", w),
    DoImmediate, Do("entry", 0)>>
LoopJobs(e) == <<DoCompile(OpRead), DoCompile(e), DoCompile(OpExit), Do("builtin", OpExit)>>
BuiltinJobs(l, nm, w, op) ==
  <<DoCompile(l), DoCompile(nm), DoCompile(OpCompile), DoCompile(OpRun), Do("setLast", w)>>
  \o Builtin(op)

\* Room for the cells up to x, and for two with each token that may still come.
Reserved(x) == \/ x + 1 + 2 * (Len(Input) - pos) < Top
               \/ Limit # 0 /\ H <= Limit /\ Limit + 1 < Top

\* Nothing has been called, and the dictionary is what has been defined.
Compiling ==
  /\ Base /\ calls = << >> /\ form = "top"
  /\ Dict(mem, defs, strings, MemBase)
  /\ defs = << >> => last = 0
  /\ defs # << >> => last = defs[Len(defs)].word /\ 14 <= defs[1].word

\* The entry and the first n - 1 builtins are complete, and end at e.
Made(n, e) ==
  /\ n <= Len(defs) /\ MainLoop(mem, defs) /\ prog = Entry(defs)
  /\ \A i \in 1 .. n : defs[i].word + Span(i) <= e
  /\ \A i \in 2 .. n : BuiltinHead(mem, i, defs[i].word)

\* The cells of a header before the j-th.
HeaderCells(w, l, nm, j) ==
  /\ H + 1 = w + j
  /\ j > 1 => mem[H] = 0
  /\ j > 1 => mem[w] = l
  /\ j > 2 => mem[w + 1] = nm
  /\ j > 3 => mem[w + 2] = OpCompile
  /\ j > 4 => mem[w + 3] = OpRun

\* compileEntry
EntryHead(w, j) ==
  /\ todo = RestOf(EntryJobs(w), j) /\ defs = << >> /\ NameOk(1, token) /\ 14 <= w /\ MemBase <= w
  /\ HeaderCells(w, 0, 0, j)
EntryEnd(w, j) ==
  /\ todo = RestOf(EntryJobs(w), j) /\ Len(defs) = 1 /\ defs[1].word = w
  /\ \/ j = 6 /\ H = w + 4 /\ mem[H] = 0
     \/ j = 7 /\ H = w + 3
LoopCells(w, j) ==
  /\ todo = RestOf(LoopJobs(w + 3), j) /\ Len(defs) = 1 /\ defs[1].word = w /\ prog = w + 3
  /\ H = w + 2 + j
  /\ j > 1 => mem[w + 3] = OpRead
  /\ j > 2 => mem[w + 4] = w + 3
Entering ==
  /\ pos = 0
  /\ \E w \in Word, x \in Nat :
       /\ w + 45 <= x /\ Reserved(x)
       /\ \/ \E j \in 1 .. 5 : EntryHead(w, j)
          \/ \E j \in 6 .. 7 : EntryEnd(w, j)
          \/ \E j \in 1 .. 3 : LoopCells(w, j)

\* compileBuiltins, before the builtin op, or after the last, and in the middle of it
Between(op) ==
  /\ \/ op < 13 /\ todo = <<Do("builtin", op)>>
     \/ op = 13 /\ todo = << >>
  /\ pos = op /\ Len(defs) = op + 1 /\ mem[H] = 0
  /\ Made(op + 1, H) /\ \E x \in Nat : H + 39 <= x + 3 * op /\ Reserved(x)

MakingHead(op, w, nm, j) ==
  /\ todo = RestOf(BuiltinJobs(last, nm, w, op), j) /\ Len(defs) = op + 1
  /\ HeaderCells(w, last, nm, j)
BodyCells(op, w, j) ==
  \/ j = 6 /\ H = w + 4 /\ mem[H] = 0 /\ mem[w + 3] = OpRun
  \/ j = 7 /\ H = w + 4 /\ mem[H] = 0 /\ mem[w + 2] = OpCompIt /\ mem[w + 3] = OpRun
  \/ op = 0 /\ j = 8 /\ H = w + 5 /\ mem[H] = 0 /\ mem[w + 2] = OpCompIt /\ mem[w + 4] = OpExit
  \/ op \in 1 .. 2 /\ \/ j = 8 /\ H = w + 3
                      \/ j = 9 /\ H = w + 4 /\ mem[H] = 0 /\ mem[w + 3] = op
                      \/ j = 10 /\ H = w + 3 /\ mem[w + 2] = op
  \/ op > 2 /\ \/ j = 8 /\ H = w + 5 /\ mem[H] = 0 /\ mem[w + 2] = OpCompIt /\ mem[w + 4] = op
               \/ j = 9 /\ H = w + 4 /\ mem[w + 2] = OpCompIt /\ mem[w + 3] = op
MakingBody(op, w, nm, j) ==
  /\ todo = RestOf(BuiltinJobs(defs[op + 1].word, nm, w, op), j)
  /\ Len(defs) = op + 2 /\ defs[op + 2].word = w
  /\ BodyCells(op, w, j)
MakingAt(op, w, nm, x) ==
  /\ pos = op + 1 /\ token \in Input[op + 1]
  /\ nm \in 1 .. Len(strings) /\ strings[nm] = token
  /\ MemBase <= w /\ Made(op + 1, w)
  /\ w + 41 <= x + 3 * op /\ Reserved(x)
Making(op) ==
  \E w \in Word, nm \in Word, x \in Nat :
    /\ MakingAt(op, w, nm, x)
    /\ \/ \E j \in 1 .. 5 : MakingHead(op, w, nm, j)
       \/ \E j \in 6 .. 10 : MakingBody(op, w, nm, j)

Booting ==
  /\ Compiling
  /\ Entering \/ (\E op \in 0 .. 13 : Between(op)) \/ \E op \in 0 .. 12 : Making(op)
----------------------------------------------------------------------------
(* What is left to do.                                                     *)

LEMMA RestFacts ==
  ASSUME NEW s \in TodoType, NEW j \in 1 .. Len(s), todo = RestOf(s, j)
  PROVE  /\ todo # << >> /\ Head(todo) = s[j]
         /\ Tail(todo) = RestOf(s, j + 1)
         /\ j = Len(s) => Tail(todo) = << >>
         /\ j + 1 = Len(s) => Tail(todo) = <<s[j + 1]>>
<1> DEFINE Job == [do : Jobs, arg : Word]
           r == RestOf(s, j)
           t == RestOf(s, j + 1)
           n == Len(s) - j
<1>1. s \in Seq(Job) /\ Len(s) \in Nat /\ n \in Nat /\ \A i \in 1 .. Len(s) : s[i] \in Job
  <2>1. s \in Seq(Job)
    BY DEF TodoType
  <2> HIDE DEF Job
  <2>2. Len(s) \in Nat /\ \A i \in 1 .. Len(s) : s[i] \in Job
    BY <2>1, LenProperties, ElementOfSeq
  <2> QED BY <2>1, <2>2
<1>2. /\ r \in Seq(Job) /\ Len(r) = n + 1 /\ \A i \in 1 .. n + 1 : r[i] = s[j + i - 1]
  <2>1. \A i \in j .. Len(s) : s[i] \in Job
    BY <1>1
  <2> QED BY <1>1, <2>1, SubSeqProperties DEF RestOf
<1>3. /\ t \in Seq(Job) /\ Len(t) = n /\ \A i \in 1 .. n : t[i] = s[j + i]
  <2>1. \A i \in j + 1 .. Len(s) : s[i] \in Job
    BY <1>1
  <2> QED BY <1>1, <2>1, SubSeqProperties DEF RestOf
<1> HIDE DEF r, t, n, Job
<1>4. r # << >>
  BY <1>1, <1>2, EmptySeq
<1>5. Head(r) = s[j]
  BY <1>1, <1>2
<1>6. Tail(r) = t
  <2>1. /\ Tail(r) \in Seq(Job) /\ Len(Tail(r)) = n
        /\ \A i \in 1 .. n : Tail(r)[i] = r[i + 1]
    BY <1>1, <1>2, <1>4, HeadTailProperties
  <2>2. \A i \in 1 .. n : Tail(r)[i] = t[i]
    BY <1>1, <1>2, <1>3, <2>1
  <2> QED BY <1>3, <2>1, <2>2, SeqEqual
<1>7. ASSUME n = 0 PROVE t = << >>
  <2>1. << >> \in Seq(Job) /\ Len(<< >>) = 0
    BY EmptySeq
  <2> QED BY <1>3, <1>7, <2>1, SeqEqual
<1>8. ASSUME n = 1 PROVE t = <<s[j + 1]>>
  <2>1. t[1] = s[j + 1] /\ t[1] \in Job
    <3>1. j + 1 \in 1 .. Len(s)
      BY <1>1, <1>8 DEF n
    <3> QED BY <1>1, <1>3, <1>8, <3>1
  <2>2. <<s[j + 1]>> \in Seq(Job) /\ Len(<<s[j + 1]>>) = 1 /\ <<s[j + 1]>>[1] = s[j + 1]
    BY <2>1
  <2>3. \A i \in 1 .. 1 : t[i] = <<s[j + 1]>>[i]
    BY <2>1, <2>2
  <2> QED BY <1>3, <1>8, <2>2, <2>3, SeqEqual
<1>9. (j = Len(s) => n = 0) /\ (j + 1 = Len(s) => n = 1)
  BY <1>1 DEF n
<1>10. todo = r
  BY DEF r
<1> QED BY <1>4, <1>5, <1>6, <1>7, <1>8, <1>9, <1>10 DEF t

\* What compileBuiltins does for each code.
LEMMA BuiltinItems ==
  ASSUME NEW op \in 0 .. 12
  PROVE  /\ Builtin(op) \in TodoType /\ Builtin(op)[1] = Do("inline", 0)
         /\ op = 0 =>
              /\ Len(Builtin(op)) = 4 /\ Builtin(op)[2] = DoCompile(op)
              /\ Builtin(op)[3] = DoImmediate /\ Builtin(op)[4] = Do("builtin", op + 1)
         /\ op \in 1 .. 2 =>
              /\ Len(Builtin(op)) = 6 /\ Builtin(op)[2] = DoImmediate
              /\ Builtin(op)[3] = DoCompile(op) /\ Builtin(op)[4] = DoImmediate
              /\ Builtin(op)[5] = DoCompile(OpExit) /\ Builtin(op)[6] = Do("builtin", op + 1)
         /\ op > 2 =>
              /\ Builtin(op)[2] = DoCompile(op) /\ Builtin(op)[3] = DoImmediate
              /\ Builtin(op)[4] = DoCompile(OpExit)
              /\ op < 12 => Len(Builtin(op)) = 5 /\ Builtin(op)[5] = Do("builtin", op + 1)
              /\ op = 12 => Len(Builtin(op)) = 4
<1> DEFINE Job == [do : Jobs, arg : Word]
<1>1. op \in Word /\ op + 1 \in Word /\ OpExit \in Word /\ 0 \in Word
  BY WordFacts, CodesAreNumbers DEF Word
<1>2. /\ Do("inline", 0) \in Job /\ DoImmediate \in Job /\ DoCompile(op) \in Job
      /\ DoCompile(OpExit) \in Job /\ Do("builtin", op + 1) \in Job
  BY <1>1 DEF Do, DoImmediate, DoCompile, Jobs
<1> DEFINE A == <<Do("inline", 0)>>
           D == <<DoCompile(op), DoImmediate, DoCompile(OpExit)>>
           E == <<DoCompile(op), DoImmediate>>
           F == <<DoImmediate>>
           G == <<Do("builtin", op + 1)>>
           K == IF op <= OpImmediate THEN F ELSE << >>
           B == IF op = OpExit THEN E ELSE K \o D
           C == IF op < OpLastBuiltin THEN G ELSE << >>
<1>3. /\ A \in Seq(Job) /\ Len(A) = 1 /\ A[1] = Do("inline", 0)
      /\ D \in Seq(Job) /\ Len(D) = 3
      /\ D[1] = DoCompile(op) /\ D[2] = DoImmediate /\ D[3] = DoCompile(OpExit)
      /\ E \in Seq(Job) /\ Len(E) = 2 /\ E[1] = DoCompile(op) /\ E[2] = DoImmediate
      /\ F \in Seq(Job) /\ Len(F) = 1 /\ F[1] = DoImmediate
      /\ G \in Seq(Job) /\ Len(G) = 1 /\ G[1] = Do("builtin", op + 1)
  BY <1>2
<1>4. Builtin(op) = A \o B \o C
  BY DEF Builtin
<1>5. OpExit = 0 /\ OpImmediate = 2 /\ OpLastBuiltin = 12
  BY CodesAreNumbers
<1> HIDE DEF A, D, E, F, G, Job
<1>6. << >> \in Seq(Job) /\ Len(<< >>) = 0
  BY EmptySeq
<1>7. /\ C \in Seq(Job)
      /\ op < 12 => C = G
      /\ op = 12 => C = << >>
  BY <1>3, <1>5, <1>6
<1>8. /\ op = 0 => B = E
      /\ op \in 1 .. 2 => B = F \o D
      /\ op > 2 => B = D
  <2>1. << >> \o D = D
    BY <1>3, ConcatEmptySeq
  <2>2. /\ op \in 1 .. 2 => K = F
        /\ op > 2 => K = << >>
    BY <1>5
  <2> HIDE DEF K
  <2>3. (op = 0 => B = E) /\ (op # 0 => B = K \o D)
    BY <1>5
  <2>4. op \in 1 .. 2 \/ op > 2 => op # 0
    OBVIOUS
  <2> HIDE DEF B
  <2> QED BY <2>1, <2>2, <2>3, <2>4
<1> HIDE DEF K
<1>9. /\ F \o D \in Seq(Job) /\ Len(F \o D) = 1 + 3
      /\ \A i \in 1 .. 1 + 3 : (F \o D)[i] = IF i <= 1 THEN F[i] ELSE D[i - 1]
  <2>1. /\ F \o D \in Seq(Job) /\ Len(F \o D) = Len(F) + Len(D)
        /\ \A i \in 1 .. Len(F) + Len(D) : (F \o D)[i] = IF i <= Len(F) THEN F[i] ELSE D[i - Len(F)]
    BY <1>3, ConcatProperties
  <2> QED BY <1>3, <2>1
<1>10. /\ B \in Seq(Job) /\ Len(B) \in 2 .. 4
       /\ op = 0 => Len(B) = 2 /\ B[1] = DoCompile(op) /\ B[2] = DoImmediate
       /\ op \in 1 .. 2 => /\ Len(B) = 4 /\ B[1] = DoImmediate /\ B[2] = DoCompile(op)
                           /\ B[3] = DoImmediate /\ B[4] = DoCompile(OpExit)
       /\ op > 2 => /\ Len(B) = 3 /\ B[1] = DoCompile(op) /\ B[2] = DoImmediate
                    /\ B[3] = DoCompile(OpExit)
  <2> HIDE DEF B
  <2>1. op = 0 \/ op \in 1 .. 2 \/ op > 2
    OBVIOUS
  <2>2. /\ (F \o D)[1] = DoImmediate /\ (F \o D)[2] = DoCompile(op)
        /\ (F \o D)[3] = DoImmediate /\ (F \o D)[4] = DoCompile(OpExit)
    BY <1>3, <1>9
  <2>3. CASE op = 0
    <3>1. B = E /\ ~(op \in 1 .. 2) /\ ~(op > 2)
      BY <1>8, <2>3
    <3>2. /\ B \in Seq(Job) /\ Len(B) = 2 /\ B[1] = DoCompile(op) /\ B[2] = DoImmediate
          /\ 2 \in 2 .. 4
      BY <1>3, <3>1
    <3>3. Len(B) \in 2 .. 4
      BY <3>2
    <3> HIDE DEF Job
    <3> QED BY <3>1, <3>2, <3>3
  <2>4. CASE op \in 1 .. 2
    <3>1. B = F \o D /\ op # 0 /\ ~(op > 2)
      BY <1>8, <2>4
    <3>2. Len(B) = 4 /\ Len(B) \in 2 .. 4 /\ B \in Seq(Job)
      BY <1>9, <3>1
    <3>3. /\ B[1] = DoImmediate /\ B[2] = DoCompile(op)
          /\ B[3] = DoImmediate /\ B[4] = DoCompile(OpExit)
      BY <2>2, <3>1
    <3> QED BY <3>1, <3>2, <3>3
  <2>5. CASE op > 2
    BY <1>3, <1>8, <2>5
  <2> QED BY <2>1, <2>3, <2>4, <2>5
<1> HIDE DEF B, C
<1>11. /\ A \o B \in Seq(Job) /\ Len(A \o B) = 1 + Len(B)
       /\ \A i \in 1 .. 1 + Len(B) : (A \o B)[i] = IF i <= 1 THEN A[i] ELSE B[i - 1]
  <2>1. /\ A \o B \in Seq(Job) /\ Len(A \o B) = Len(A) + Len(B)
        /\ \A i \in 1 .. Len(A) + Len(B) : (A \o B)[i] = IF i <= Len(A) THEN A[i] ELSE B[i - Len(A)]
    BY <1>3, <1>10, ConcatProperties
  <2> QED BY <1>3, <2>1
<1>12. PICK m \in 2 .. 4 : m = Len(B)
  BY <1>10
<1>13. PICK ab \in Seq(Job) : ab = A \o B
  BY <1>11
<1>14. /\ Len(ab) = 1 + m /\ ab[1] = Do("inline", 0)
       /\ \A i \in 2 .. 1 + m : ab[i] = B[i - 1]
  BY <1>3, <1>11, <1>12, <1>13
<1>15. PICK s : s = Builtin(op)
  OBVIOUS
<1>16. /\ s \in Seq(Job) /\ Len(s) = 1 + m + Len(C)
       /\ \A i \in 1 .. 1 + m + Len(C) : s[i] = IF i <= 1 + m THEN ab[i] ELSE C[i - (1 + m)]
  <2>1. s = ab \o C
    BY <1>4, <1>13, <1>15
  <2>2. /\ ab \o C \in Seq(Job) /\ Len(ab \o C) = Len(ab) + Len(C)
        /\ \A i \in 1 .. Len(ab) + Len(C) : (ab \o C)[i] = IF i <= Len(ab) THEN ab[i] ELSE C[i - Len(ab)]
    BY <1>7, ConcatProperties
  <2> QED BY <1>14, <2>1, <2>2
<1>17. s \in TodoType
  BY <1>16 DEF Job, TodoType
<1>18. /\ s[1] = Do("inline", 0)
       /\ \A i \in 2 .. 1 + m : s[i] = B[i - 1]
       /\ op < 12 => Len(s) = 2 + m /\ s[2 + m] = Do("builtin", op + 1)
       /\ op = 12 => Len(s) = 1 + m
  <2>1. CASE op < 12
    <3>1. Len(C) = 1 /\ C[1] = Do("builtin", op + 1)
      BY <1>3, <1>7, <2>1
    <3> QED BY <1>14, <1>16, <2>1, <3>1
  <2>2. CASE op = 12
    <3>1. Len(C) = 0
      BY <1>6, <1>7, <2>2
    <3> QED BY <1>14, <1>16, <2>2, <3>1
  <2> QED BY <2>1, <2>2
<1>19. CASE op = 0
  <2>1. m = 2 /\ B[1] = DoCompile(op) /\ B[2] = DoImmediate
    BY <1>10, <1>12, <1>19
  <2>2. s[2] = B[1] /\ s[3] = B[2]
    BY <1>18, <2>1
  <2>3. Len(s) = 4 /\ s[4] = Do("builtin", op + 1)
    BY <1>18, <1>19, <2>1
  <2> QED BY <1>15, <1>17, <1>18, <1>19, <2>1, <2>2, <2>3
<1>20. CASE op \in 1 .. 2
  <2>1. /\ m = 4 /\ B[1] = DoImmediate /\ B[2] = DoCompile(op)
        /\ B[3] = DoImmediate /\ B[4] = DoCompile(OpExit)
    BY <1>10, <1>12, <1>20
  <2>2. s[2] = B[1] /\ s[3] = B[2] /\ s[4] = B[3] /\ s[5] = B[4]
    BY <1>18, <2>1
  <2>3. Len(s) = 6 /\ s[6] = Do("builtin", op + 1)
    BY <1>18, <1>20, <2>1
  <2> QED BY <1>15, <1>17, <1>18, <1>20, <2>1, <2>2, <2>3
<1>21. CASE op > 2
  <2>1. /\ m = 3 /\ B[1] = DoCompile(op) /\ B[2] = DoImmediate /\ B[3] = DoCompile(OpExit)
    BY <1>10, <1>12, <1>21
  <2>2. s[2] = B[1] /\ s[3] = B[2] /\ s[4] = B[3]
    BY <1>18, <2>1
  <2>3. /\ op < 12 => Len(s) = 5 /\ s[5] = Do("builtin", op + 1)
        /\ op = 12 => Len(s) = 4
    BY <1>18, <2>1
  <2> QED BY <1>15, <1>17, <1>18, <1>21, <2>1, <2>2, <2>3
<1> QED BY <1>19, <1>20, <1>21

LEMMA BuiltinJobsItems ==
  ASSUME NEW op \in 0 .. 12, NEW l \in Word, NEW nm \in Word, NEW w \in Word, NEW s,
         s = BuiltinJobs(l, nm, w, op)
  PROVE  /\ s \in TodoType
         /\ s[1] = DoCompile(l) /\ s[2] = DoCompile(nm) /\ s[3] = DoCompile(OpCompile)
         /\ s[4] = DoCompile(OpRun) /\ s[5] = Do("setLast", w) /\ s[6] = Do("inline", 0)
         /\ op = 0 =>
              /\ Len(s) = 9 /\ s[7] = DoCompile(op)
              /\ s[8] = DoImmediate /\ s[9] = Do("builtin", op + 1)
         /\ op \in 1 .. 2 =>
              /\ Len(s) = 11 /\ s[7] = DoImmediate
              /\ s[8] = DoCompile(op) /\ s[9] = DoImmediate
              /\ s[10] = DoCompile(OpExit) /\ s[11] = Do("builtin", op + 1)
         /\ op > 2 =>
              /\ s[7] = DoCompile(op) /\ s[8] = DoImmediate
              /\ s[9] = DoCompile(OpExit)
              /\ op < 12 => Len(s) = 10 /\ s[10] = Do("builtin", op + 1)
              /\ op = 12 => Len(s) = 9
<1> DEFINE Job == [do : Jobs, arg : Word]
           A == <<DoCompile(l), DoCompile(nm), DoCompile(OpCompile), DoCompile(OpRun), Do("setLast", w)>>
<1>1. OpCompile \in Word /\ OpRun \in Word
  BY WordFacts, CodesAreNumbers DEF Word
<1>2. /\ DoCompile(l) \in Job /\ DoCompile(nm) \in Job /\ DoCompile(OpCompile) \in Job
      /\ DoCompile(OpRun) \in Job /\ Do("setLast", w) \in Job
  BY <1>1 DEF Do, DoCompile, Jobs
<1>3. /\ A \in Seq(Job) /\ Len(A) = 5
      /\ A[1] = DoCompile(l) /\ A[2] = DoCompile(nm) /\ A[3] = DoCompile(OpCompile)
      /\ A[4] = DoCompile(OpRun) /\ A[5] = Do("setLast", w)
  BY <1>2
<1>4. PICK b \in TodoType : b = Builtin(op)
  BY BuiltinItems
<1>5. s = A \o b
  BY <1>4 DEF BuiltinJobs
<1> HIDE DEF A
<1>6. b \in Seq(Job) /\ Len(b) \in Nat
  BY LenProperties DEF TodoType
<1>7. /\ s \in Seq(Job) /\ Len(s) = 5 + Len(b)
      /\ \A i \in 1 .. 5 + Len(b) : s[i] = IF i <= 5 THEN A[i] ELSE b[i - 5]
  <2> HIDE DEF Job
  <2>1. /\ A \o b \in Seq(Job) /\ Len(A \o b) = Len(A) + Len(b)
        /\ \A i \in 1 .. Len(A) + Len(b) : (A \o b)[i] = IF i <= Len(A) THEN A[i] ELSE b[i - Len(A)]
    BY <1>3, <1>6, ConcatProperties
  <2> QED BY <1>3, <1>5, <2>1
<1>8. s \in TodoType
  BY <1>7 DEF TodoType
<1>9. b[1] = Do("inline", 0) /\ Len(b) \in 4 .. 6
  BY <1>4, BuiltinItems
<1>10. /\ s[1] = DoCompile(l) /\ s[2] = DoCompile(nm) /\ s[3] = DoCompile(OpCompile)
       /\ s[4] = DoCompile(OpRun) /\ s[5] = Do("setLast", w) /\ s[6] = Do("inline", 0)
  BY <1>3, <1>7, <1>9
<1>11. CASE op = 0
  <2>1. /\ Len(b) = 4 /\ b[2] = DoCompile(op) /\ b[3] = DoImmediate /\ b[4] = Do("builtin", op + 1)
    BY <1>4, <1>11, BuiltinItems
  <2> QED BY <1>7, <1>8, <1>10, <1>11, <2>1
<1>12. CASE op \in 1 .. 2
  <2>1. /\ Len(b) = 6 /\ b[2] = DoImmediate /\ b[3] = DoCompile(op) /\ b[4] = DoImmediate
        /\ b[5] = DoCompile(OpExit) /\ b[6] = Do("builtin", op + 1)
    BY <1>4, <1>12, BuiltinItems
  <2> QED BY <1>7, <1>8, <1>10, <1>12, <2>1
<1>13. CASE op > 2
  <2>1. /\ b[2] = DoCompile(op) /\ b[3] = DoImmediate /\ b[4] = DoCompile(OpExit)
        /\ op < 12 => Len(b) = 5 /\ b[5] = Do("builtin", op + 1)
        /\ op = 12 => Len(b) = 4
    BY <1>4, <1>13, BuiltinItems
  <2>2. op < 12 \/ op = 12
    OBVIOUS
  <2> QED BY <1>7, <1>8, <1>9, <1>10, <1>13, <2>1, <2>2
<1> QED BY <1>11, <1>12, <1>13
----------------------------------------------------------------------------
(* What the methods that compile keep.                                     *)

LEMMA BuiltinJobsLength ==
  ASSUME NEW op \in 0 .. 12, NEW l \in Word, NEW nm \in Word, NEW w \in Word, NEW s,
         s = BuiltinJobs(l, nm, w, op)
  PROVE  s \in TodoType /\ Len(s) \in 9 .. 11
<1>1. /\ s \in TodoType
      /\ op = 0 => Len(s) = 9
      /\ op \in 1 .. 2 => Len(s) = 11
      /\ op > 2 => (op < 12 => Len(s) = 10) /\ (op = 12 => Len(s) = 9)
  BY BuiltinJobsItems
<1> QED BY <1>1

LEMMA ReservedRoom ==
  ASSUME IInv, NEW x \in Nat, Reserved(x), NEW n \in Nat, H + n <= x
  PROVE  Roomy(n)
<1>1. H \in 0 .. Top - 1 /\ Top \in Nat /\ pos \in Nat /\ pos <= Len(Input) /\ Len(Input) \in Nat
  BY MachineTypes, WordFacts, InputAssumption, LenProperties DEF IInv, Word
<1> QED BY <1>1 DEF Roomy, Reserved

LEMMA ReservedIsKept ==
  ASSUME NEW x, Reserved(x), H' = H \/ H' = H - 1, pos' = pos, H \in Nat
  PROVE  Reserved(x)'
<1>1. Limit \in Nat
  BY LimitAssumption, WordFacts DEF Word
<1> QED BY <1>1 DEF Reserved

\* All the words that are defined start at least two cells before e.
Under(e) == \A i \in 1 .. Len(defs) : defs[i].word + 2 <= e

LEMMA CompilesOn ==
  ASSUME IInv, IInv', Compiling, Next, Running, status' = "running", todo # << >>,
         NEW v, Head(todo) = DoCompile(v), NEW x \in Nat, Reserved(x), H < x, Under(H)
  PROVE  /\ Compiling' /\ CompilesCell(v) /\ mem'[H + 1] = 0 /\ Reserved(x)'
         /\ MemBase' = MemBase /\ SameCode(mem, mem', MemBase, H)
         /\ todo' = Tail(todo) /\ UNCHANGED <<prog, token>>
<1>1. /\ TypeOK /\ TypeOK' /\ H \in 0 .. Top - 1 /\ 14 <= H /\ Top \in Nat /\ MemBase \in Nat
      /\ pos \in Nat /\ Len(Input) \in Nat /\ Len(strings) \in Nat /\ Limit \in Nat
  <2>1. TypeOK /\ TypeOK' /\ H \in Word /\ MemBase \in Word /\ pos \in Nat
    BY MachineTypes DEF IInv
  <2>2. Top \in Nat /\ Limit \in Word
    BY WordFacts, LimitAssumption
  <2>3. Len(strings) \in Nat
    BY LenProperties DEF IInv, TypeOK
  <2>4. Len(Input) \in Nat /\ 14 <= H
    BY InputAssumption, LenProperties DEF Compiling, Base
  <2> QED BY <2>1, <2>2, <2>3, <2>4 DEF Word
<1>2. v \in Word
  <2>1. Arg0 = v
    BY JobFields DEF Arg0
  <2> QED BY <1>1, <2>1, Arg0Type
<1>3. PICK n \in Nat : n = x - H
  <2>1. x - H \in Nat
    BY <1>1
  <2> QED BY <2>1
<1>4. 0 < n /\ H + n <= x
  BY <1>1, <1>3
<1>5. Roomy(n)
  BY <1>4, ReservedRoom
<1>6. /\ CompilesCell(v) /\ H + 1 < Top /\ \A k \in Nat : k < n => Roomy(k)'
      /\ todo' = Tail(todo) /\ UNCHANGED <<prog, token, form>>
  <2>1. 0 < H
    BY <1>1
  <2> QED BY <1>2, <1>4, <1>5, <2>1, CompileJob
<1>7. H' = H + 1 /\ UNCHANGED <<last, defs, strings, calls, pos>>
  BY <1>6 DEF CompilesCell
<1>8. Reserved(x)'
  <2>1. PICK k \in Nat : k = n - 1
    <3>1. n - 1 \in Nat
      BY <1>4
    <3> QED BY <3>1
  <2>2. Roomy(k)'
    BY <1>4, <1>6, <2>1
  <2>3. H + 1 + k = x
    BY <1>1, <1>3, <2>1
  <2> QED BY <1>1, <1>7, <2>1, <2>2, <2>3 DEF Roomy, Reserved
<1>9. Base' /\ MemBase' = MemBase /\ SameCode(mem, mem', MemBase, H) /\ mem'[H + 1] = 0
  BY <1>6, CompileKeepsWords DEF Compiling
<1>10. Dict(mem', defs', strings', MemBase')
  <2>1. Longer(strings, strings') /\ H \in 0 .. Top
    BY <1>1, <1>7 DEF Longer
  <2>2. Dict(mem', defs', strings', MemBase)
    BY <1>1, <1>7, <1>9, <2>1, DictIsKept DEF Under, Compiling
  <2> QED BY <1>9, <2>2
<1>11. Compiling'
  BY <1>6, <1>7, <1>9, <1>10 DEF Compiling
<1> QED BY <1>6, <1>8, <1>9, <1>11

LEMMA ImmediateOn ==
  ASSUME IInv, IInv', Compiling, Next, Running, status' = "running", todo # << >>,
         Head(todo) = DoImmediate, NEW x \in Nat, Reserved(x),
         NEW e \in Nat, H = e + 2, MemBase <= e, 14 <= e, mem[H] = 0, Under(e)
  PROVE  /\ Compiling' /\ H' = e + 1 /\ Reserved(x)'
         /\ mem'[e] = mem[e + 1] /\ \A a \in Word : a # 0 /\ a # e => mem'[a] = mem[a]
         /\ MemBase' = MemBase /\ SameCode(mem, mem', MemBase, e)
         /\ todo' = Tail(todo) /\ UNCHANGED <<prog, token, last, strings, pos, defs>>
<1>1. /\ TypeOK /\ TypeOK' /\ H \in 0 .. Top - 1 /\ Top \in Nat /\ MemBase \in 0 .. Top - 1
      /\ Len(strings) \in Nat /\ Len(calls) \in Nat /\ RetBase \in 0 .. Top - 1
  BY MachineTypes, WordFacts, LenProperties DEF IInv, TypeOK, Word
<1>2. ImmediateMore
  <2>1. Head(todo).do = "immediate"
    BY JobFields
  <2> QED BY <2>1, NextJob
<1>3. /\ Immediate /\ todo' = Tail(todo)
      /\ UNCHANGED <<prog, token, last, strings, pos, form, calls, defs>>
  BY <1>2 DEF ImmediateMore, history
<1>4. /\ H' = e + 1 /\ mem'[e] = mem[e + 1]
      /\ \A a \in Word : a # 0 /\ a # e => mem'[a] = mem[a]
  <2>1. 2 < H /\ H - 1 = e + 1 /\ H - 2 = e
    BY <1>1
  <2>2. /\ mem'[0] = H - 1 /\ mem'[H - 2] = mem[H - 1]
        /\ \A a \in Word : a # 0 /\ a # H - 2 => mem'[a] = mem[a]
    BY <1>1, <1>3, <2>1, ImmediateCells
  <2> QED BY <2>1, <2>2 DEF H
<1>5. 12 <= RetBase /\ RetBase + Len(calls) <= MemBase /\ \A a \in Word : a > H => mem[a] = 0
  BY DEF Compiling, Base, StackOk
<1>6. /\ StackOk' /\ RetBase' = RetBase /\ MemBase' = MemBase
  <2>1. \A a \in Word : a # 0 /\ a < MemBase => mem'[a] = mem[a]
    BY <1>1, <1>4 DEF Word
  <2> QED BY <1>1, <1>3, <2>1, StackIsKept DEF Compiling
<1>7. \A a \in Word : a > e + 1 => mem'[a] = 0
  <2> TAKE a \in Word
  <2>1. CASE a > H
    BY <1>1, <1>4, <1>5, <2>1 DEF Word
  <2>2. CASE a = H
    BY <1>1, <1>4, <2>2
  <2> QED BY <1>1, <2>1, <2>2 DEF Word
<1>8. Base'
  <2>1. MemBase <= e + 1 /\ 14 <= e + 1
    BY <1>1
  <2> QED BY <1>4, <1>5, <1>6, <1>7, <2>1 DEF Base
<1>9. SameCode(mem, mem', MemBase, e)
  <2>1. \A a \in Word : MemBase <= a /\ a < e => a # 0 /\ a # e
    BY <1>1, <1>5 DEF Word
  <2> QED BY <1>4, <2>1 DEF SameCode
<1>10. Dict(mem', defs', strings', MemBase')
  <2>1. Longer(strings, strings') /\ e \in 0 .. Top /\ MemBase \in Nat
    BY <1>1, <1>3 DEF Longer
  <2>2. Dict(mem', defs', strings', MemBase)
    BY <1>1, <1>3, <1>9, <2>1, DictIsKept DEF Under, Compiling
  <2> QED BY <1>6, <2>2
<1>11. Compiling'
  BY <1>3, <1>8, <1>10 DEF Compiling
<1>12. Reserved(x)'
  <2>1. H' = H - 1 /\ H \in Nat
    BY <1>1, <1>4
  <2> QED BY <1>3, <2>1, ReservedIsKept
<1> QED BY <1>3, <1>4, <1>6, <1>9, <1>11, <1>12

LEMMA InlineOn ==
  ASSUME IInv, IInv', Compiling, Next, Running, status' = "running", todo # << >>,
         Head(todo) = Do("inline", 0), NEW x \in Nat, Reserved(x),
         NEW e \in Nat, last + 2 = e, e < H, MemBase <= e, 14 <= e, Under(e)
  PROVE  /\ Compiling' /\ H' = H /\ Reserved(x)'
         /\ mem'[e] = OpCompIt /\ \A a \in Word : a # e => mem'[a] = mem[a]
         /\ MemBase' = MemBase /\ SameCode(mem, mem', MemBase, e)
         /\ todo' = Tail(todo) /\ UNCHANGED <<prog, token, last, strings, pos, defs>>
<1>1. /\ TypeOK /\ TypeOK' /\ H \in 0 .. Top - 1 /\ Top \in Nat /\ MemBase \in 0 .. Top - 1
      /\ Len(strings) \in Nat /\ last \in 0 .. Top - 1 /\ mem \in [Word -> Word]
  BY MachineTypes, WordFacts, LenProperties DEF IInv, TypeOK, Word
<1>2. InlineMore
  <2>1. Head(todo).do = "inline"
    BY DEF Do
  <2> QED BY <2>1, NextJob
<1>3. /\ mem' = Stored(mem, Plus1(Plus1(last)), OpCompIt) /\ todo' = Tail(todo)
      /\ UNCHANGED <<prog, token, last, strings, pos, form, calls, defs>>
  BY <1>2 DEF InlineMore, history
<1>4. Plus1(Plus1(last)) = e /\ Plus1(e) # 0 /\ e \in Word
  BY <1>1 DEF Plus1, Word
<1>5. mem' = [mem EXCEPT ![e] = OpCompIt]
  BY <1>3, <1>4 DEF Stored
<1>6. mem'[e] = OpCompIt /\ \A a \in Word : a # e => mem'[a] = mem[a]
  BY <1>1, <1>4, <1>5
<1>7. H' = H /\ MemBase' = MemBase /\ RetBase' = RetBase /\ R' = R
  <2>1. 0 # e /\ 1 # e /\ 10 # e /\ 11 # e /\ {0, 1, 10, 11} \subseteq Word
    BY <1>1, WordFacts DEF Word
  <2> QED BY <1>6, <2>1 DEF H, MemBase, RetBase, R
<1>8. StackOk'
  <2>1. /\ R = RetBase - 1 + Len(calls) /\ RetBase + Len(calls) <= MemBase /\ 12 <= RetBase
        /\ \A i \in 1 .. Len(calls) : mem[RetBase - 1 + i] = calls[i]
        /\ Len(calls) \in Nat /\ RetBase \in 0 .. Top - 1
    BY <1>1, MachineTypes DEF Compiling, Base, StackOk, Word
  <2>2. \A i \in 1 .. Len(calls) : RetBase - 1 + i \in Word /\ RetBase - 1 + i # e
    BY <1>1, <2>1 DEF Word
  <2> QED BY <1>3, <1>6, <1>7, <2>1, <2>2 DEF StackOk
<1>9. Base'
  <2>1. \A a \in Word : a > H => a # e
    BY <1>1
  <2>2. \A a \in Word : a > H => mem'[a] = 0
    BY <1>6, <2>1 DEF Compiling, Base
  <2> QED BY <1>7, <1>8, <2>2 DEF Compiling, Base
<1>10. SameCode(mem, mem', MemBase, e)
  BY <1>1, <1>6 DEF SameCode, Word
<1>11. Dict(mem', defs', strings', MemBase')
  <2>1. Longer(strings, strings') /\ e \in 0 .. Top /\ MemBase \in Nat
    BY <1>1, <1>3 DEF Longer
  <2>2. Dict(mem', defs', strings', MemBase)
    BY <1>1, <1>3, <1>10, <2>1, DictIsKept DEF Under, Compiling
  <2> QED BY <1>7, <2>2
<1>12. Compiling'
  BY <1>3, <1>9, <1>11 DEF Compiling
<1>13. Reserved(x)'
  <2>1. H \in Nat
    BY <1>1
  <2> QED BY <1>3, <1>7, <2>1, ReservedIsKept
<1> QED BY <1>3, <1>6, <1>7, <1>10, <1>12, <1>13

\* What is complete stays as it is.
LEMMA MadeIsKept ==
  ASSUME TypeOK, TypeOK', Dict(mem, defs, strings, MemBase), NEW n \in 1 .. 14, NEW e \in 0 .. Top,
         Made(n, e), SameCode(mem, mem', MemBase, e), Longer(defs, defs'), prog' = prog
  PROVE  Made(n, e)'
<1>1. /\ Top \in Nat /\ MemBase \in Nat /\ n <= Len(defs) /\ Len(defs) \in Nat /\ Len(defs') \in Nat
      /\ Len(defs) <= Len(defs')
      /\ \A i \in 1 .. n : /\ defs'[i] = defs[i] /\ defs[i].word \in Word /\ MemBase <= defs[i].word
                           /\ defs[i].word + Span(i) <= e
      /\ MainLoop(mem, defs) /\ prog = Entry(defs)
      /\ \A i \in 2 .. n : BuiltinHead(mem, i, defs[i].word)
  <2>1. /\ Top \in Nat /\ MemBase \in Word /\ Len(defs) \in Nat /\ Len(defs') \in Nat
        /\ \A i \in 1 .. Len(defs) : defs[i].word \in Word
    BY MachineTypes, WordFacts, LenProperties DEF TypeOK
  <2>2. MemBase \in Nat
    BY <2>1 DEF Word
  <2> QED BY <2>1, <2>2 DEF Made, Dict, Longer
<1>2. Entry(defs') = Entry(defs)
  BY <1>1 DEF Entry
<1>3. MainLoop(mem', defs')
  <2>1. PICK w \in Word : w = defs[1].word
    BY <1>1
  <2>2. Span(1) = 6 /\ w + 6 <= e /\ MemBase <= w
    BY <1>1, <2>1 DEF Span
  <2>3. /\ w + 3 \in Word /\ w + 4 \in Word /\ w + 5 \in Word
        /\ w + 3 < e /\ w + 4 < e /\ w + 5 < e
        /\ MemBase <= w + 3 /\ MemBase <= w + 4 /\ MemBase <= w + 5
    BY <1>1, <2>2 DEF Word
  <2>4. mem'[w + 3] = mem[w + 3] /\ mem'[w + 4] = mem[w + 4] /\ mem'[w + 5] = mem[w + 5]
    BY <2>3 DEF SameCode
  <2>5. w + 3 + 1 = w + 4 /\ w + 3 + 2 = w + 5
    BY <1>1 DEF Word
  <2> QED BY <1>1, <1>2, <2>1, <2>4, <2>5 DEF MainLoop, Entry
<1>4. ASSUME NEW i \in 2 .. n PROVE BuiltinHead(mem', i, defs'[i].word)
  <2>1. /\ i \in 2 .. 14 /\ defs'[i] = defs[i] /\ defs[i].word \in Word /\ MemBase <= defs[i].word
        /\ defs[i].word + Span(i) <= e /\ BuiltinHead(mem, i, defs[i].word)
    BY <1>1
  <2>2. MemBase \in Nat
    BY <1>1
  <2>3. BuiltinHead(mem', i, defs[i].word)
    BY <2>1, <2>2, BuiltinIsKept
  <2> QED BY <2>1, <2>3
<1>5. \A i \in 1 .. n : defs'[i].word + Span(i) <= e
  BY <1>1
<1> QED BY <1>1, <1>2, <1>3, <1>4, <1>5 DEF Made

\* A definition comes in at the end of the dictionary.
LEMMA DictGrows ==
  ASSUME TypeOK, TypeOK', Dict(mem, defs, strings, MemBase), UNCHANGED <<mem, strings>>,
         NEW w \in Word, NEW n \in Nat, n = Len(defs),
         defs' = Append(defs, [name |-> token, word |-> w]),
         NEW k, k = n + 1, NameOk(k, token), SymbolOk(mem, strings, k, [name |-> token, word |-> w]),
         MemBase <= w, \A i \in 1 .. n : defs[i].word + Span(i) <= w,
         mem[w] = IF n = 0 THEN 0 ELSE defs[n].word
  PROVE  /\ Dict(mem', defs', strings', MemBase') /\ Longer(defs, defs')
         /\ Len(defs') = n + 1 /\ \A i \in 1 .. n : defs'[i] = defs[i]
         /\ defs'[n + 1].name = token /\ defs'[n + 1].word = w
<1>1. PICK S : S = [name : Tokens \union {""}, word : Word]
  OBVIOUS
<1>2. defs \in Seq(S) /\ [name |-> token, word |-> w] \in S
  BY <1>1 DEF TypeOK
<1>3. PICK d \in S : d = [name |-> token, word |-> w]
  BY <1>2
<1>4. d.name = token /\ d.word = w
  BY <1>3
<1>5. /\ Len(defs') = n + 1 /\ defs'[n + 1] = d /\ \A i \in 1 .. n : defs'[i] = defs[i]
  <2>1. /\ Len(Append(defs, d)) = Len(defs) + 1 /\ Append(defs, d)[Len(defs) + 1] = d
        /\ \A i \in 1 .. Len(defs) : Append(defs, d)[i] = defs[i]
    BY <1>2, <1>3, AppendProperties
  <2> QED BY <1>3, <2>1
<1>6. SymbolOk(mem, strings, k, d)
  BY <1>3
<1>7. Dict(mem, defs', strings, MemBase)
  <2> SUFFICES ASSUME NEW i \in 1 .. n + 1
               PROVE  /\ NameOk(i, defs'[i].name) /\ SymbolOk(mem, strings, i, defs'[i])
                      /\ MemBase <= defs'[i].word
                      /\ \A j \in i + 1 .. n + 1 : defs'[i].word + Span(i) <= defs'[j].word
                      /\ mem[defs'[i].word] = IF i = 1 THEN 0 ELSE defs'[i - 1].word
    BY <1>5 DEF Dict
  <2>1. CASE i \in 1 .. n
    <3>1. /\ NameOk(i, defs[i].name) /\ SymbolOk(mem, strings, i, defs[i])
          /\ MemBase <= defs[i].word
          /\ \A j \in i + 1 .. n : defs[i].word + Span(i) <= defs[j].word
          /\ mem[defs[i].word] = IF i = 1 THEN 0 ELSE defs[i - 1].word
      BY <2>1 DEF Dict
    <3>2. \A j \in i + 1 .. n + 1 : defs'[i].word + Span(i) <= defs'[j].word
      <4> TAKE j \in i + 1 .. n + 1
      <4>1. CASE j = n + 1
        BY <1>4, <1>5, <2>1, <4>1
      <4>2. CASE j \in i + 1 .. n
        BY <1>5, <2>1, <3>1, <4>2
      <4> QED BY <4>1, <4>2
    <3>3. i > 1 => defs'[i - 1] = defs[i - 1]
      BY <1>5, <2>1
    <3> QED BY <1>5, <2>1, <3>1, <3>2, <3>3
  <2>2. CASE i = n + 1
    <3>1. NameOk(i, defs'[i].name) /\ SymbolOk(mem, strings, i, defs'[i])
      BY <1>4, <1>5, <1>6, <2>2
    <3>2. mem[w] = IF i = 1 THEN 0 ELSE defs'[i - 1].word
      BY <1>5, <2>2
    <3> QED BY <1>4, <1>5, <2>2, <3>1, <3>2
  <2> QED BY <2>1, <2>2
<1>8. MemBase' = MemBase
  BY DEF MemBase
<1> QED BY <1>4, <1>5, <1>7, <1>8 DEF Longer

LEMMA HeaderCompiles ==
  ASSUME IInv, IInv', Compiling, Next, Running, status' = "running", todo # << >>,
         NEW w \in Word, NEW l \in Word, NEW nm \in Word, NEW j \in 1 .. 4, HeaderCells(w, l, nm, j),
         MemBase <= w, 14 <= w, Under(w), NEW x \in Nat, Reserved(x), w + 4 <= x,
         NEW v, Head(todo) = DoCompile(v), NEW k, k = j + 1,
         j = 1 => v = l, j = 2 => v = nm, j = 3 => v = OpCompile, j = 4 => v = OpRun
  PROVE  /\ Compiling' /\ Reserved(x)' /\ MemBase' = MemBase /\ SameCode(mem, mem', MemBase, w)
         /\ HeaderCells(w, l, nm, k)'
         /\ todo' = Tail(todo) /\ UNCHANGED <<prog, token, last, strings, pos, defs>>
<1>1. w \in Nat /\ w < Top /\ Top \in Nat /\ H \in Nat /\ H + 1 = w + j /\ MemBase \in Nat
  <2>1. w \in Word /\ Top \in Nat /\ H \in Word /\ H + 1 = w + j /\ MemBase \in Word
    BY MachineTypes, WordFacts DEF IInv, HeaderCells
  <2> QED BY <2>1 DEF Word
<1>2. /\ Compiling' /\ CompilesCell(v) /\ mem'[H + 1] = 0 /\ Reserved(x)'
      /\ MemBase' = MemBase /\ SameCode(mem, mem', MemBase, H)
      /\ todo' = Tail(todo) /\ UNCHANGED <<prog, token>>
  <2>1. H < x
    BY <1>1
  <2>2. Under(H)
    <3>1. \A i \in 1 .. Len(defs) : defs[i].word \in Nat
      <4>1. \A i \in 1 .. Len(defs) : defs[i].word \in Word
        BY MachineTypes DEF IInv
      <4> QED BY <4>1, <1>1 DEF Word
    <3> QED BY <1>1, <3>1 DEF Under
  <2> QED BY <2>1, <2>2, CompilesOn
<1>3. /\ H' = w + j /\ mem'[H] = v /\ mem'[w + j] = 0
      /\ \A a \in Word : a # 0 /\ a # H => mem'[a] = mem[a]
      /\ UNCHANGED <<last, defs, strings, calls, pos>>
  BY <1>1, <1>2 DEF CompilesCell
<1>4. SameCode(mem, mem', MemBase, w)
  BY <1>1, <1>2 DEF SameCode, Word
<1>5. \A i \in 0 .. 2 : i + 1 < j => mem'[w + i] = mem[w + i]
  <2> TAKE i \in 0 .. 2
  <2>1. CASE i + 1 < j
    <3>1. w + i \in Nat /\ w + i < H /\ w + i # 0 /\ w + i # H
      BY <1>1, <2>1
    <3>2. H \in Word
      BY MachineTypes DEF IInv
    <3>3. w + i \in Word
      BY <1>1, <3>1, <3>2 DEF Word
    <3> QED BY <1>3, <3>1, <3>3
  <2> QED BY <2>1
<1>6. /\ mem'[H'] = 0
      /\ k > 1 => mem'[w] = l
      /\ k > 2 => mem'[w + 1] = nm
      /\ k > 3 => mem'[w + 2] = OpCompile
      /\ k > 4 => mem'[w + 3] = OpRun
  <2>1. w + 0 = w
    BY <1>1
  <2>2. j \in {1, 2, 3, 4}
    OBVIOUS
  <2>3. CASE j = 1
    BY <1>1, <1>3, <2>1, <2>3
  <2>4. CASE j = 2
    <3>1. mem'[w] = l
      BY <1>5, <2>1, <2>4 DEF HeaderCells
    <3> QED BY <1>1, <1>3, <2>4, <3>1
  <2>5. CASE j = 3
    <3>1. mem'[w] = l
      BY <1>5, <2>1, <2>5 DEF HeaderCells
    <3>2. mem'[w + 1] = nm
      BY <1>5, <2>5 DEF HeaderCells
    <3> QED BY <1>1, <1>3, <2>5, <3>1, <3>2
  <2>6. CASE j = 4
    <3>1. mem'[w] = l
      BY <1>5, <2>1, <2>6 DEF HeaderCells
    <3>2. mem'[w + 1] = nm
      BY <1>5, <2>6 DEF HeaderCells
    <3>3. mem'[w + 2] = OpCompile
      BY <1>5, <2>6 DEF HeaderCells
    <3> QED BY <1>1, <1>3, <2>6, <3>1, <3>2, <3>3
  <2> QED BY <2>2, <2>3, <2>4, <2>5, <2>6
<1>7. HeaderCells(w, l, nm, k)'
  BY <1>1, <1>3, <1>6 DEF HeaderCells
<1> QED BY <1>2, <1>3, <1>4, <1>7

LEMMA BaseStays ==
  ASSUME UNCHANGED <<mem, calls>>
  PROVE  /\ Base => Base'
         /\ H' = H /\ MemBase' = MemBase
BY DEF Base, StackOk, H, R, RetBase, MemBase

\* The header becomes a word.
LEMMA SetLastOn ==
  ASSUME IInv, IInv', Compiling, Next, Running, status' = "running", todo # << >>,
         NEW w \in Word, NEW l \in Word, NEW nm \in Word, HeaderCells(w, l, nm, 5), l = last,
         Head(todo) = Do("setLast", w), MemBase <= w, 14 <= w,
         NEW n \in Nat, n = Len(defs), NEW k, k = n + 1, NameOk(k, token),
         n = 0 => nm = 0, n > 0 => nm \in 1 .. Len(strings) /\ strings[nm] = token,
         \A i \in 1 .. n : defs[i].word + Span(i) <= w
  PROVE  /\ Compiling' /\ UNCHANGED <<mem, prog, strings, token, pos>> /\ todo' = Tail(todo)
         /\ Len(defs') = n + 1 /\ Longer(defs, defs') /\ \A i \in 1 .. n : defs'[i] = defs[i]
         /\ last' = w /\ defs'[n + 1].word = w /\ defs'[n + 1].name = token
<1>1. SetLastMore
  <2>1. Head(todo).do = "setLast"
    BY DEF Do
  <2> QED BY <2>1, NextJob
<1>2. Arg0 = w
  BY DEF Arg0, Do
<1>3. /\ last' = w /\ defs' = Append(defs, [name |-> token, word |-> w]) /\ todo' = Tail(todo)
      /\ UNCHANGED <<mem, prog, strings, token, pos, form, calls>>
  BY <1>1, <1>2 DEF SetLastMore
<1>4. TypeOK /\ TypeOK' /\ w \in Nat
  <2>1. Top \in Nat
    BY WordFacts
  <2> QED BY <2>1 DEF IInv, Word
<1>5. mem[w] = l /\ mem[w + 1] = nm
  BY DEF HeaderCells
<1>6. mem[w] = IF n = 0 THEN 0 ELSE defs[n].word
  <2>1. n = 0 => defs = << >>
    BY <1>4, EmptySeq, LenProperties DEF TypeOK
  <2>2. n # 0 => defs # << >>
    BY EmptySeq
  <2> QED BY <1>5, <2>1, <2>2 DEF Compiling
<1>7. SymbolOk(mem, strings, k, [name |-> token, word |-> w])
  BY <1>5 DEF SymbolOk
<1>8. /\ Dict(mem', defs', strings', MemBase') /\ Longer(defs, defs')
      /\ Len(defs') = n + 1 /\ \A i \in 1 .. n : defs'[i] = defs[i]
      /\ defs'[n + 1].name = token /\ defs'[n + 1].word = w
  <2>1. Dict(mem, defs, strings, MemBase) /\ UNCHANGED <<mem, strings>>
    BY <1>3 DEF Compiling
  <2> QED BY <1>3, <1>4, <1>6, <1>7, <2>1, DictGrows
<1>9. Compiling'
  <2>1. Base' /\ calls' = << >> /\ form' = "top"
    BY <1>3, BaseStays DEF Compiling
  <2>2. defs' # << >>
    BY <1>8, EmptySeq
  <2>3. 14 <= defs'[1].word
    <3>1. CASE n = 0
      BY <1>8, <3>1
    <3>2. CASE n # 0
      <4>1. defs # << >>
        BY <3>2, EmptySeq
      <4> QED BY <1>8, <3>2, <4>1 DEF Compiling
    <3> QED BY <3>1, <3>2
  <2>4. last' = defs'[Len(defs')].word
    BY <1>3, <1>8
  <2> QED BY <1>8, <2>1, <2>2, <2>3, <2>4 DEF Compiling
<1> QED BY <1>3, <1>8, <1>9
----------------------------------------------------------------------------
(* compileEntry goes on.                                                   *)

LEMMA EntryItems ==
  ASSUME NEW w \in Word, NEW s, s = EntryJobs(w)
  PROVE  /\ s \in TodoType /\ Len(s) = 7
         /\ s[1] = DoCompile(0) /\ s[2] = DoCompile(0) /\ s[3] = DoCompile(OpCompile)
         /\ s[4] = DoCompile(OpRun) /\ s[5] = Do("setLast", w)
         /\ s[6] = DoImmediate /\ s[7] = Do("entry", 0)
<1> DEFINE Job == [do : Jobs, arg : Word]
<1>1. 0 \in Word /\ OpCompile \in Word /\ OpRun \in Word
  BY WordFacts, CodesAreNumbers DEF Word
<1>2. /\ DoCompile(0) \in Job /\ DoCompile(OpCompile) \in Job /\ DoCompile(OpRun) \in Job
      /\ Do("setLast", w) \in Job /\ DoImmediate \in Job /\ Do("entry", 0) \in Job
  BY <1>1 DEF Do, DoCompile, DoImmediate, Jobs
<1> QED BY <1>2 DEF EntryJobs, TodoType

LEMMA LoopItems ==
  ASSUME NEW e \in Word, NEW s, s = LoopJobs(e)
  PROVE  /\ s \in TodoType /\ Len(s) = 4
         /\ s[1] = DoCompile(OpRead) /\ s[2] = DoCompile(e) /\ s[3] = DoCompile(OpExit)
         /\ s[4] = Do("builtin", 0)
<1> DEFINE Job == [do : Jobs, arg : Word]
<1>1. 0 \in Word /\ OpRead \in Word /\ OpExit = 0
  BY WordFacts, CodesAreNumbers DEF Word
<1>2. /\ DoCompile(OpRead) \in Job /\ DoCompile(e) \in Job /\ DoCompile(OpExit) \in Job
      /\ Do("builtin", 0) \in Job
  BY <1>1 DEF Do, DoCompile, Jobs
<1> QED BY <1>1, <1>2 DEF LoopJobs, TodoType

LEMMA RestOfAll ==
  ASSUME NEW s \in TodoType
  PROVE  RestOf(s, 1) = s
<1> DEFINE Job == [do : Jobs, arg : Word]
<1>1. s \in Seq(Job)
  BY DEF TodoType
<1> HIDE DEF Job
<1>2. Len(s) \in Nat /\ \A i \in 1 .. Len(s) : s[i] \in Job
  BY <1>1, LenProperties, ElementOfSeq
<1>3. PICK r : r = RestOf(s, 1)
  OBVIOUS
<1>4. r \in Seq(Job) /\ Len(r) = Len(s) /\ \A i \in 1 .. Len(s) : r[i] = s[i]
  BY <1>1, <1>2, <1>3, SubSeqProperties DEF RestOf
<1> QED BY <1>1, <1>3, <1>4, SeqEqual

LEMMA CompilingStays ==
  ASSUME Compiling, UNCHANGED <<mem, calls, form, defs, strings, last>>
  PROVE  Compiling'
<1>1. Base' /\ MemBase' = MemBase
  BY BaseStays DEF Compiling
<1> QED BY <1>1 DEF Compiling

LEMMA EntryHeadGoesOn ==
  ASSUME IInv, IInv', Compiling, Next, Running, status' = "running", pos = 0,
         NEW w \in Word, NEW x \in Nat, w + 45 <= x, Reserved(x),
         NEW j \in 1 .. 5, EntryHead(w, j)
  PROVE  Booting'
<1>1. PICK s \in TodoType : s = EntryJobs(w)
  BY EntryItems
<1>2. /\ Len(s) = 7 /\ s[1] = DoCompile(0) /\ s[2] = DoCompile(0) /\ s[3] = DoCompile(OpCompile)
      /\ s[4] = DoCompile(OpRun) /\ s[5] = Do("setLast", w)
  BY <1>1, EntryItems
<1>3. todo # << >> /\ Head(todo) = s[j] /\ Tail(todo) = RestOf(s, j + 1)
  <2>1. todo = RestOf(s, j) /\ j \in 1 .. Len(s)
    BY <1>1, <1>2 DEF EntryHead
  <2> QED BY <1>1, <2>1, RestFacts
<1>4. /\ defs = << >> /\ Len(defs) = 0 /\ NameOk(1, token) /\ 14 <= w /\ MemBase <= w /\ w \in Nat
      /\ HeaderCells(w, 0, 0, j) /\ 0 \in Word /\ w + 4 <= x
  <2>1. Top \in Nat /\ 0 \in Word
    BY WordFacts
  <2>2. w \in Nat
    BY <2>1 DEF Word
  <2>3. defs = << >> /\ NameOk(1, token) /\ 14 <= w /\ MemBase <= w /\ HeaderCells(w, 0, 0, j)
    BY DEF EntryHead
  <2>4. Len(defs) = 0
    BY <2>3, EmptySeq
  <2> QED BY <2>1, <2>2, <2>3, <2>4
<1>5. CASE j \in 1 .. 4
  <2>1. PICK k \in 1 .. 5 : k = j + 1
    BY <1>5
  <2>2. PICK v : /\ s[j] = DoCompile(v)
                 /\ j = 1 => v = 0
                 /\ j = 2 => v = 0
                 /\ j = 3 => v = OpCompile
                 /\ j = 4 => v = OpRun
    BY <1>2, <1>5
  <2>3. Under(w)
    BY <1>4 DEF Under
  <2>4. /\ Compiling' /\ Reserved(x)' /\ MemBase' = MemBase
        /\ HeaderCells(w, 0, 0, k)'
        /\ todo' = Tail(todo) /\ UNCHANGED <<prog, token, last, strings, pos, defs>>
    BY <1>3, <1>4, <2>1, <2>2, <2>3, HeaderCompiles
  <2>5. todo' = RestOf(EntryJobs(w), k)
    BY <1>1, <1>3, <2>1, <2>4
  <2>6. EntryHead(w, k)'
    BY <1>4, <2>4, <2>5 DEF EntryHead
  <2> QED BY <2>1, <2>4, <2>6 DEF Booting, Entering
<1>6. CASE j = 5
  <2>1. HeaderCells(w, 0, 0, 5)
    BY <1>4, <1>6
  <2>2. last = 0 /\ NameOk(1, token)
    BY <1>4 DEF Compiling
  <2>3. Head(todo) = Do("setLast", w)
    BY <1>2, <1>3, <1>6
  <2>4. /\ Compiling' /\ UNCHANGED <<mem, pos>> /\ todo' = Tail(todo)
        /\ Len(defs') = 1 /\ defs'[1].word = w
    <3>1. PICK n \in Nat, k \in Nat, l \in Word, nm \in Word : n = 0 /\ k = 1 /\ l = 0 /\ nm = 0
      BY <1>4
    <3>2. k = n + 1 /\ n = Len(defs) /\ l = last /\ HeaderCells(w, l, nm, 5) /\ NameOk(k, token)
      BY <1>4, <2>1, <2>2, <3>1
    <3>3. \A i \in 1 .. n : defs[i].word + Span(i) <= w
      BY <3>1
    <3>4. (n > 0 => nm \in 1 .. Len(strings) /\ strings[nm] = token) /\ (n = 0 => nm = 0)
      BY <3>1
    <3>5. /\ w \in Word /\ l \in Word /\ nm \in Word /\ n \in Nat
          /\ HeaderCells(w, l, nm, 5) /\ l = last /\ n = Len(defs) /\ k = n + 1
          /\ Head(todo) = Do("setLast", w) /\ todo # << >>
          /\ MemBase <= w /\ 14 <= w /\ NameOk(k, token)
      BY <1>3, <1>4, <2>3, <3>1, <3>2, <3>3
    <3>6. /\ Compiling' /\ UNCHANGED <<mem, pos>> /\ todo' = Tail(todo)
          /\ Len(defs') = n + 1 /\ defs'[n + 1].word = w
      BY <3>3, <3>4, <3>5, SetLastOn
    <3> QED BY <3>1, <3>2, <3>6
  <2>5. H' = H /\ H = w + 4 /\ mem[H] = 0 /\ H \in Nat
    <3>1. H \in Word /\ Top \in Nat
      BY MachineTypes, WordFacts DEF IInv
    <3>2. H \in Nat
      BY <3>1 DEF Word
    <3>3. H' = H
      BY <2>4 DEF H
    <3> QED BY <1>4, <2>1, <3>2, <3>3 DEF HeaderCells
  <2>6. Reserved(x)'
    BY <2>4, <2>5, ReservedIsKept
  <2>7. EntryEnd(w, 6)'
    <3>1. todo' = RestOf(EntryJobs(w), 6)
      <4>1. j + 1 = 6
        BY <1>6
      <4> QED BY <1>1, <1>3, <2>4, <4>1
    <3>2. H' = w + 4 /\ mem'[H'] = 0
      BY <2>4, <2>5
    <3>3. Len(defs') = 1 /\ defs'[1].word = w
      BY <2>4
    <3> QED BY <3>1, <3>2, <3>3 DEF EntryEnd
  <2> QED BY <2>4, <2>6, <2>7 DEF Booting, Entering
<1> QED BY <1>5, <1>6

LEMMA EntryEndGoesOn ==
  ASSUME IInv, IInv', Compiling, Next, Running, status' = "running", pos = 0,
         NEW w \in Word, NEW x \in Nat, w + 45 <= x, Reserved(x),
         NEW j \in 6 .. 7, EntryEnd(w, j)
  PROVE  Booting'
<1>1. PICK s \in TodoType : s = EntryJobs(w)
  BY EntryItems
<1>2. Len(s) = 7 /\ s[6] = DoImmediate /\ s[7] = Do("entry", 0)
  BY <1>1, EntryItems
<1>3. todo # << >> /\ Head(todo) = s[j] /\ Tail(todo) = RestOf(s, j + 1)
  <2>1. todo = RestOf(s, j) /\ j \in 1 .. Len(s)
    BY <1>1, <1>2 DEF EntryEnd
  <2> QED BY <1>1, <2>1, RestFacts
<1>4. /\ Len(defs) = 1 /\ defs[1].word = w /\ 14 <= w /\ MemBase <= w /\ w \in Nat /\ MemBase \in Nat
  <2>1. Top \in Nat /\ MemBase \in Word
    BY WordFacts, MachineTypes DEF IInv
  <2>2. Len(defs) = 1 /\ defs[1].word = w /\ w \in Nat /\ MemBase \in Nat
    BY <2>1 DEF EntryEnd, Word
  <2>3. defs # << >>
    BY <2>2, EmptySeq
  <2> QED BY <2>1, <2>2, <2>3 DEF Compiling, Dict
<1>5. CASE j = 6
  <2>1. PICK e \in Nat : e = w + 2
    BY <1>4
  <2>2. H = e + 2 /\ mem[H] = 0 /\ Head(todo) = DoImmediate
    BY <1>2, <1>3, <1>4, <1>5, <2>1 DEF EntryEnd
  <2>3. MemBase <= e /\ 14 <= e /\ Under(e)
    BY <1>4, <2>1 DEF Under
  <2>4. /\ Compiling' /\ H' = e + 1 /\ Reserved(x)'
        /\ todo' = Tail(todo) /\ UNCHANGED <<pos, defs>>
    BY <1>3, <2>2, <2>3, ImmediateOn
  <2>5. EntryEnd(w, 7)'
    <3>1. todo' = RestOf(EntryJobs(w), 7)
      <4>1. j + 1 = 7
        BY <1>5
      <4> QED BY <1>1, <1>3, <2>4, <4>1
    <3>2. H' = w + 3
      BY <1>4, <2>1, <2>4
    <3> QED BY <1>4, <2>4, <3>1, <3>2 DEF EntryEnd
  <2> QED BY <2>4, <2>5 DEF Booting, Entering
<1>6. CASE j = 7
  <2>1. EntryMore
    <3>1. Head(todo).do = "entry"
      BY <1>2, <1>3, <1>6 DEF Do
    <3> QED BY <1>3, <3>1, NextJob
  <2>2. H = w + 3
    BY <1>6 DEF EntryEnd
  <2>3. /\ prog' = w + 3 /\ todo' = LoopJobs(w + 3)
        /\ UNCHANGED <<mem, last, strings, pos, form, calls, defs>>
    BY <2>1, <2>2 DEF EntryMore, LoopJobs, history
  <2>4. w + 3 \in Word
    BY <2>2, MachineTypes DEF IInv
  <2>5. todo' = RestOf(LoopJobs(w + 3), 1)
    <3>1. LoopJobs(w + 3) \in TodoType
      BY <2>4, LoopItems
    <3> QED BY <2>3, <3>1, RestOfAll
  <2>6. Compiling'
    BY <2>3, CompilingStays
  <2>7. H' = w + 3 /\ H' = H /\ H \in Nat
    BY <1>4, <2>2, <2>3 DEF H
  <2>8. Reserved(x)'
    BY <2>3, <2>7, ReservedIsKept
  <2>9. LoopCells(w, 1)'
    BY <1>4, <2>3, <2>5, <2>7 DEF LoopCells
  <2> QED BY <2>3, <2>6, <2>8, <2>9 DEF Booting, Entering
<1> QED BY <1>5, <1>6

LEMMA LoopGoesOn ==
  ASSUME IInv, IInv', Compiling, Next, Running, status' = "running", pos = 0,
         NEW w \in Word, NEW x \in Nat, w + 45 <= x, Reserved(x),
         NEW j \in 1 .. 3, LoopCells(w, j)
  PROVE  Booting'
<1>1. /\ Len(defs) = 1 /\ defs[1].word = w /\ prog = w + 3 /\ H = w + 2 + j /\ w \in Nat
      /\ j > 1 => mem[w + 3] = OpRead
      /\ j > 2 => mem[w + 4] = w + 3
  <2>1. Top \in Nat
    BY WordFacts
  <2>2. w \in Nat
    BY <2>1 DEF Word
  <2> QED BY <2>2 DEF LoopCells
<1>2. PICK e \in Word : e = w + 3
  <2>1. prog \in Word
    BY MachineTypes DEF IInv
  <2> QED BY <1>1, <2>1
<1>3. PICK s \in TodoType : s = LoopJobs(e)
  BY <1>2, LoopItems
<1>4. /\ Len(s) = 4 /\ s[1] = DoCompile(OpRead) /\ s[2] = DoCompile(e) /\ s[3] = DoCompile(OpExit)
      /\ s[4] = Do("builtin", 0)
  BY <1>2, <1>3, LoopItems
<1>5. /\ todo # << >> /\ Head(todo) = s[j] /\ Tail(todo) = RestOf(s, j + 1)
      /\ j = 3 => Tail(todo) = <<Do("builtin", 0)>>
  <2>1. todo = RestOf(s, j)
    BY <1>2, <1>3 DEF LoopCells
  <2>2. j \in 1 .. Len(s) /\ (j = 3 => j + 1 = Len(s) /\ s[j + 1] = Do("builtin", 0))
    BY <1>4
  <2> QED BY <1>3, <2>1, <2>2, RestFacts
<1>6. PICK v : /\ s[j] = DoCompile(v)
               /\ j = 1 => v = OpRead
               /\ j = 2 => v = e
               /\ j = 3 => v = OpExit
  BY <1>4
<1>7. /\ Compiling' /\ Reserved(x)' /\ todo' = Tail(todo) /\ UNCHANGED <<prog, pos, defs>>
      /\ H' = w + 3 + j /\ mem'[w + 2 + j] = v /\ mem'[w + 3 + j] = 0
      /\ \A a \in Word : a # 0 /\ a # w + 2 + j => mem'[a] = mem[a]
  <2>1. H < x /\ Under(H) /\ H + 1 = w + 3 + j
    BY <1>1 DEF Under
  <2>2. Head(todo) = DoCompile(v)
    BY <1>5, <1>6
  <2>3. /\ Compiling' /\ CompilesCell(v) /\ mem'[H + 1] = 0 /\ Reserved(x)'
        /\ todo' = Tail(todo) /\ UNCHANGED prog
    BY <1>5, <2>1, <2>2, CompilesOn
  <2> QED BY <1>1, <2>1, <2>3 DEF CompilesCell
<1>8. /\ j > 1 => mem'[w + 3] = OpRead
      /\ j > 2 => mem'[w + 4] = w + 3
  <2>1. j > 2 => w + 4 \in Word
    <3>1. H \in Word /\ Top \in Nat
      BY MachineTypes, WordFacts DEF IInv
    <3> QED BY <1>1, <3>1 DEF Word
  <2>2. w + 3 \in Word
    BY <1>2
  <2>3. (j > 1 => w + 3 # w + 2 + j) /\ (j > 2 => w + 4 # w + 2 + j) /\ w + 3 # 0 /\ w + 4 # 0
    BY <1>1
  <2> QED BY <1>1, <1>7, <2>1, <2>2, <2>3
<1>9. CASE j \in 1 .. 2
  <2>1. PICK k \in 1 .. 3 : k = j + 1
    BY <1>9
  <2>2. todo' = RestOf(LoopJobs(w + 3), k)
    BY <1>2, <1>3, <1>5, <1>7, <2>1
  <2>3. H' = w + 2 + k /\ prog' = w + 3
    BY <1>1, <1>7, <2>1
  <2>4. /\ k > 1 => mem'[w + 3] = OpRead
        /\ k > 2 => mem'[w + 4] = w + 3
    <3>1. mem'[w + 2 + j] = v
      BY <1>7
    <3>2. CASE j = 1
      <4>1. w + 2 + j = w + 3 /\ ~(k > 2) /\ v = OpRead
        BY <1>1, <1>6, <2>1, <3>2
      <4> QED BY <3>1, <4>1
    <3>3. CASE j = 2
      <4>1. w + 2 + j = w + 4 /\ v = w + 3 /\ j > 1
        BY <1>1, <1>2, <1>6, <3>3
      <4> QED BY <1>8, <3>1, <4>1
    <3> QED BY <1>9, <3>2, <3>3
  <2>5. LoopCells(w, k)'
    BY <1>1, <1>7, <2>2, <2>3, <2>4 DEF LoopCells
  <2> QED BY <1>7, <2>5 DEF Booting, Entering
<1>10. CASE j = 3
  <2>1. H' = w + 6 /\ mem'[H'] = 0 /\ mem'[w + 5] = OpExit /\ mem'[w + 3] = OpRead /\ mem'[w + 4] = w + 3
    <3>1. w + 2 + j = w + 5 /\ w + 3 + j = w + 6 /\ v = OpExit /\ j > 1 /\ j > 2
      BY <1>1, <1>6, <1>10
    <3>2. H' = w + 6 /\ mem'[w + 6] = 0 /\ mem'[w + 5] = OpExit
      BY <1>7, <3>1
    <3> QED BY <1>8, <3>1, <3>2
  <2>2. MainLoop(mem', defs') /\ prog' = Entry(defs')
    <3>1. Entry(defs') = w + 3 /\ w + 3 + 1 = w + 4 /\ w + 3 + 2 = w + 5
      BY <1>1, <1>7 DEF Entry
    <3> QED BY <1>1, <1>7, <2>1, <3>1 DEF MainLoop
  <2>3. Made(0 + 1, H)'
    <3>1. PICK h \in Nat : h = H' /\ Span(1) = 6 /\ w + 6 <= h
      BY <1>1, <2>1 DEF Span
    <3>2. ASSUME NEW i \in 1 .. 0 + 1 PROVE defs'[i].word + Span(i) <= H'
      <4>1. i = 1
        OBVIOUS
      <4>2. defs'[1].word = w
        BY <1>1, <1>7
      <4>3. defs'[i].word + Span(i) = w + 6
        BY <3>1, <4>1, <4>2
      <4> QED BY <3>1, <4>3
    <3>3. 0 + 1 <= Len(defs')
      <4>1. Len(defs') = 1
        BY <1>1, <1>7
      <4> QED BY <4>1
    <3> QED BY <2>2, <3>2, <3>3 DEF Made
  <2>4. H' + 39 <= x + 3 * 0
    BY <1>1, <2>1
  <2>5. Between(0)'
    <3>1. todo' = <<Do("builtin", 0)>> /\ pos' = 0 /\ Len(defs') = 0 + 1 /\ mem'[H'] = 0
      BY <1>1, <1>5, <1>7, <1>10, <2>1
    <3>2. \E y \in Nat : H' + 39 <= y + 3 * 0 /\ Reserved(y)'
      BY <1>7, <2>4
    <3>3. 0 < 13
      OBVIOUS
    <3> QED BY <2>3, <3>1, <3>2, <3>3 DEF Between
  <2> QED BY <1>7, <2>5 DEF Booting
<1> QED BY <1>9, <1>10
----------------------------------------------------------------------------
(* compileBuiltins goes on.                                                *)

LEMMA BetweenGoesOn ==
  ASSUME IInv, IInv', Compiling, Next, Running, status' = "running",
         NEW op \in 0 .. 12, Between(op)
  PROVE  Booting'
<1>1. /\ todo = <<Do("builtin", op)>> /\ pos = op /\ Len(defs) = op + 1
      /\ Made(op + 1, H)
  BY DEF Between
<1>2. PICK x \in Nat : H + 39 <= x + 3 * op /\ Reserved(x)
  BY DEF Between
<1>3. BuiltinMore /\ Arg0 = op
  <2>1. Head(todo) = Do("builtin", op) /\ todo # << >>
    BY <1>1, JobLists
  <2>2. Head(todo).do = "builtin" /\ Head(todo).arg = op
    BY <2>1 DEF Do
  <2>3. ~EndOfInput
    BY DEF EndOfInput
  <2> QED BY <2>1, <2>2, <2>3, NextJob DEF Arg0
<1>4. PICK t \in Offered : token' = t /\ Symbolicate(t) /\ todo' = Header(SymbolOf(t)) \o Builtin(op)
  BY <1>3 DEF BuiltinMore
<1>5. pos' = pos + 1 /\ UNCHANGED <<mem, prog, last, form, calls, defs>>
  BY <1>3 DEF BuiltinMore, history
<1>6. t \in Tokens /\ pos < Len(Input) /\ t \in Input[op + 1]
  <2>1. t \in Tokens /\ pos < Len(Input)
    BY OfferedType
  <2> QED BY <1>1, <2>1 DEF Offered
<1>7. PICK w \in Word, l \in Word, nm \in Word : w = H /\ l = last /\ nm = SymbolOf(t)
  <2>1. H \in Word /\ last \in Word
    BY MachineTypes DEF IInv
  <2>2. SymbolOf(t) \in Word
    BY <1>4, <1>5, <1>6, SymbolicateKeepsNames
  <2> QED BY <2>1, <2>2
<1>8. nm \in Word
  BY <1>7
<1>9. /\ nm \in 1 .. Len(strings') /\ strings'[nm] = t /\ Longer(strings, strings')
  <2>1. Len(strings) \in Nat /\ strings \in Seq(Tokens)
    BY LenProperties DEF IInv, TypeOK
  <2>2. CASE t \in ToSet(strings)
    BY <1>4, <1>7, <2>1, <2>2, SymbolFacts DEF Symbolicate, SymbolOf, Longer, IInv
  <2>3. CASE t \notin ToSet(strings)
    <3>1. strings' = Append(strings, t) /\ nm = Len(strings) + 1
      BY <1>4, <1>7, <2>3 DEF Symbolicate, SymbolOf
    <3>2. /\ Len(Append(strings, t)) = Len(strings) + 1 /\ Append(strings, t)[Len(strings) + 1] = t
          /\ \A i \in 1 .. Len(strings) : Append(strings, t)[i] = strings[i]
      BY <1>6, <2>1, AppendProperties
    <3> QED BY <2>1, <3>1, <3>2 DEF Longer
  <2> QED BY <2>2, <2>3
<1>10. Base' /\ H' = H /\ MemBase' = MemBase
  BY <1>5, BaseStays DEF Compiling
<1>11. /\ TypeOK /\ TypeOK' /\ w \in 0 .. Top /\ Top \in Nat /\ H \in Nat /\ MemBase \in Nat
  <2>1. Top \in Nat /\ w \in Word /\ MemBase \in Word
    BY <1>7, WordFacts, MachineTypes DEF IInv
  <2> QED BY <1>7, <2>1 DEF Word, IInv
<1>12. SameCode(mem, mem', MemBase, w)
  BY <1>5 DEF SameCode
<1>13. Dict(mem', defs', strings', MemBase')
  <2>1. \A i \in 1 .. Len(defs) : defs[i].word + 2 <= w
    <3> TAKE i \in 1 .. Len(defs)
    <3>1. defs[i].word + Span(i) <= w
      BY <1>1, <1>7 DEF Made
    <3>2. defs[i].word \in Nat
      <4>1. defs[i].word \in Word
        BY <1>11, MachineTypes
      <4> QED BY <1>11, <4>1 DEF Word
    <3>3. Span(i) \in Nat /\ 2 <= Span(i)
      BY DEF Span
    <3> QED BY <1>11, <3>1, <3>2, <3>3
  <2>2. Dict(mem', defs', strings', MemBase)
    BY <1>5, <1>9, <1>11, <1>12, <2>1, DictIsKept DEF Compiling
  <2> QED BY <1>10, <2>2
<1>14. Compiling'
  BY <1>5, <1>10, <1>13 DEF Compiling
<1>15. Made(op + 1, w)'
  <2>1. Longer(defs, defs')
    BY <1>1, <1>5 DEF Longer
  <2>2. PICK n \in 1 .. 14 : n = op + 1
    OBVIOUS
  <2>3. Made(n, w) /\ Dict(mem, defs, strings, MemBase)
    BY <1>1, <1>7, <2>2 DEF Compiling
  <2>4. Made(n, w)'
    BY <1>5, <1>11, <1>12, <2>1, <2>3, MadeIsKept
  <2> QED BY <2>2, <2>4
<1>16. PICK y \in Nat : y = x + 2
  OBVIOUS
<1>17. w + 41 <= y + 3 * op /\ Reserved(y)'
  <2>1. w + 41 <= y + 3 * op
    BY <1>2, <1>7, <1>11, <1>16
  <2>2. Len(Input) \in Nat /\ pos \in Nat
    BY InputAssumption, LenProperties DEF IInv, TypeOK
  <2>3. H' = H /\ pos' = pos + 1
    BY <1>5, <1>10
  <2>4. CASE x + 1 + 2 * (Len(Input) - pos) < Top
    <3>1. y + 1 + 2 * (Len(Input) - pos') < Top
      BY <1>2, <1>11, <1>16, <2>2, <2>3, <2>4
    <3> QED BY <2>1, <3>1 DEF Reserved
  <2>5. CASE Limit # 0 /\ H <= Limit /\ Limit + 1 < Top
    BY <2>1, <2>3, <2>5 DEF Reserved
  <2> QED BY <1>2, <2>1, <2>4, <2>5 DEF Reserved
<1>18. MakingHead(op, w, nm, 1)'
  <2>1. todo' = BuiltinJobs(l, nm, w, op)
    BY <1>4, <1>7 DEF Header, BuiltinJobs
  <2>2. BuiltinJobs(l, nm, w, op) \in TodoType
    BY <1>7, <1>8, BuiltinJobsItems
  <2>3. todo' = RestOf(BuiltinJobs(last', nm, w, op), 1)
    BY <1>5, <1>7, <2>1, <2>2, RestOfAll
  <2>4. HeaderCells(w, l, nm, 1)'
    BY <1>7, <1>10 DEF HeaderCells
  <2>5. l = last' /\ Len(defs') = op + 1
    BY <1>1, <1>5, <1>7
  <2> QED BY <2>3, <2>4, <2>5 DEF MakingHead
<1>19. Making(op)'
  <2>1. MemBase' <= w /\ pos' = op + 1 /\ token' \in Input[op + 1] /\ strings'[nm] = token'
    BY <1>1, <1>4, <1>5, <1>6, <1>7, <1>9, <1>10 DEF Compiling, Base
  <2>2. MakingAt(op, w, nm, y)'
    BY <1>9, <1>15, <1>17, <2>1 DEF MakingAt
  <2> QED BY <1>7, <1>8, <1>16, <1>18, <2>2 DEF Making
<1> QED BY <1>14, <1>19 DEF Booting

LEMMA MakingFacts ==
  ASSUME IInv, Compiling, NEW op \in 0 .. 12, NEW w \in Word, NEW nm, NEW x \in Nat,
         MakingAt(op, w, nm, x), op + 1 <= Len(defs)
  PROVE  /\ w \in Nat /\ 14 <= w /\ MemBase \in Nat /\ MemBase <= w /\ w + 5 <= x /\ H \in Nat
         /\ w < Top /\ Top \in Nat /\ defs # << >>
         /\ \A i \in 1 .. op + 1 : defs[i].word \in Nat /\ defs[i].word + 4 <= w
<1>1. /\ Top \in Nat /\ w \in Nat /\ w < Top /\ MemBase \in Nat /\ H \in Nat
      /\ Len(defs) \in Nat
      /\ \A i \in 1 .. Len(defs) : defs[i].word \in Nat
  <2>1. /\ Top \in Nat /\ MemBase \in Word /\ H \in Word /\ Len(defs) \in Nat
        /\ \A i \in 1 .. Len(defs) : defs[i].word \in Word
    BY WordFacts, MachineTypes DEF IInv
  <2> QED BY <2>1 DEF Word
<1>2. MemBase <= w /\ Made(op + 1, w) /\ w + 41 <= x + 3 * op
  BY DEF MakingAt
<1>3. w + 5 <= x
  <2>1. w \in Nat
    BY <1>1
  <2> QED BY <1>2, <2>1
<1>4. \A i \in 1 .. op + 1 : defs[i].word \in Nat /\ defs[i].word + 4 <= w
  <2> TAKE i \in 1 .. op + 1
  <2>1. defs[i].word + Span(i) <= w
    BY <1>2 DEF Made
  <2>2. defs[i].word \in Nat
    BY <1>1
  <2>3. Span(i) \in Nat /\ 4 <= Span(i)
    BY DEF Span
  <2> QED BY <1>1, <2>1, <2>2, <2>3
<1>5. defs # << >>
  BY <1>1, EmptySeq
<1>6. 14 <= w
  <2>1. 14 <= defs[1].word /\ defs[1].word + 4 <= w /\ defs[1].word \in Nat
    BY <1>4, <1>5 DEF Compiling
  <2> QED BY <1>1, <2>1
<1> QED BY <1>1, <1>2, <1>3, <1>4, <1>5, <1>6

\* What is not compiled now stays.
LEMMA MakingStays ==
  ASSUME IInv, IInv', Compiling, NEW op \in 0 .. 12, NEW w \in Word, NEW nm, NEW x \in Nat,
         MakingAt(op, w, nm, x), SameCode(mem, mem', MemBase, w), MemBase' = MemBase,
         UNCHANGED <<prog, token, strings, pos>>, Longer(defs, defs'), Reserved(x)'
  PROVE  MakingAt(op, w, nm, x)'
<1>1. PICK n \in 1 .. 14 : n = op + 1
  OBVIOUS
<1>2. Made(n, w) /\ Dict(mem, defs, strings, MemBase) /\ TypeOK /\ TypeOK'
  BY <1>1 DEF MakingAt, Compiling, IInv
<1>3. w \in 0 .. Top
  BY WordFacts DEF Word
<1>4. Made(n, w)'
  BY <1>2, <1>3, MadeIsKept
<1>5. Made(op + 1, w)'
  BY <1>1, <1>4
<1>6. nm \in 1 .. Len(strings') /\ strings'[nm] = token' /\ token' \in Input[op + 1] /\ pos' = op + 1
  BY DEF MakingAt
<1> QED BY <1>5, <1>6 DEF MakingAt

LEMMA NameOfBuiltin ==
  ASSUME NEW i \in 2 .. 14, NEW t, t \in Input[i - 1]
  PROVE  NameOk(i, t)
BY DEF NameOk

LEMMA MakingHeadGoesOn ==
  ASSUME IInv, IInv', Compiling, Next, Running, status' = "running",
         NEW op \in 0 .. 12, NEW w \in Word, NEW nm \in Word, NEW x \in Nat,
         MakingAt(op, w, nm, x), NEW j \in 1 .. 5, MakingHead(op, w, nm, j)
  PROVE  Booting'
<1>1. PICK l \in Word : l = last
  BY MachineTypes DEF IInv
<1>2. /\ Len(defs) = op + 1 /\ HeaderCells(w, l, nm, j)
      /\ todo = RestOf(BuiltinJobs(l, nm, w, op), j)
  BY <1>1 DEF MakingHead
<1>3. PICK s \in TodoType : s = BuiltinJobs(l, nm, w, op)
  BY BuiltinJobsLength
<1>4. /\ s[1] = DoCompile(l) /\ s[2] = DoCompile(nm) /\ s[3] = DoCompile(OpCompile)
      /\ s[4] = DoCompile(OpRun) /\ s[5] = Do("setLast", w)
  BY <1>3, BuiltinJobsItems
<1>5. j \in 1 .. Len(s)
  <2>1. PICK n \in 9 .. 11 : n = Len(s)
    BY <1>3, BuiltinJobsLength
  <2>2. j \in 1 .. n
    BY <2>1
  <2> QED BY <2>1, <2>2
<1>6. todo # << >> /\ Head(todo) = s[j] /\ Tail(todo) = RestOf(s, j + 1)
  BY <1>2, <1>3, <1>5, RestFacts
<1>7. /\ w \in Nat /\ 14 <= w /\ MemBase <= w /\ w + 4 <= x /\ H \in Nat
      /\ \A i \in 1 .. op + 1 : defs[i].word \in Nat /\ defs[i].word + 4 <= w
  <2>1. op + 1 <= Len(defs)
    BY <1>2
  <2>2. /\ w \in Nat /\ 14 <= w /\ MemBase <= w /\ w + 5 <= x /\ H \in Nat
        /\ \A i \in 1 .. op + 1 : defs[i].word \in Nat /\ defs[i].word + 4 <= w
    BY <2>1, MakingFacts
  <2> QED BY <2>2
<1>8. Reserved(x) /\ Made(op + 1, w) /\ token \in Input[op + 1]
  BY DEF MakingAt
<1>9. CASE j \in 1 .. 4
  <2>1. PICK k \in 1 .. 5 : k = j + 1
    BY <1>9
  <2>2. PICK v : /\ s[j] = DoCompile(v)
                 /\ j = 1 => v = l
                 /\ j = 2 => v = nm
                 /\ j = 3 => v = OpCompile
                 /\ j = 4 => v = OpRun
    BY <1>4, <1>9
  <2>3. Under(w)
    BY <1>2, <1>7 DEF Under
  <2>4. /\ Compiling' /\ Reserved(x)' /\ MemBase' = MemBase /\ SameCode(mem, mem', MemBase, w)
        /\ HeaderCells(w, l, nm, k)'
        /\ todo' = Tail(todo) /\ UNCHANGED <<prog, token, last, strings, pos, defs>>
    <3>1. /\ todo # << >> /\ Head(todo) = DoCompile(v) /\ j \in 1 .. 4 /\ k = j + 1
          /\ HeaderCells(w, l, nm, j) /\ MemBase <= w /\ 14 <= w /\ w + 4 <= x /\ Reserved(x)
      BY <1>2, <1>6, <1>7, <1>8, <1>9, <2>1, <2>2
    <3> QED BY <1>1, <2>2, <2>3, <3>1, HeaderCompiles
  <2>5. MakingAt(op, w, nm, x)'
    <3>1. Longer(defs, defs')
      BY <1>2, <2>4 DEF Longer
    <3> QED BY <2>4, <3>1, MakingStays
  <2>6. MakingHead(op, w, nm, k)'
    <3>1. todo' = RestOf(BuiltinJobs(last', nm, w, op), k)
      BY <1>1, <1>3, <1>6, <2>1, <2>4
    <3>2. HeaderCells(w, last, nm, k)' /\ Len(defs') = op + 1
      BY <1>1, <1>2, <2>4
    <3> QED BY <3>1, <3>2 DEF MakingHead
  <2> QED BY <2>1, <2>4, <2>5, <2>6 DEF Booting, Making
<1>10. CASE j = 5
  <2>1. PICK n \in Nat, k \in 2 .. 14 : n = op + 1 /\ k = n + 1
    <3>1. op + 1 \in Nat /\ op + 1 + 1 \in 2 .. 14
      OBVIOUS
    <3> QED BY <3>1
  <2>2. NameOk(k, token)
    <3>1. k - 1 = op + 1
      BY <2>1
    <3> QED BY <1>8, <3>1, NameOfBuiltin
  <2>3. /\ n = Len(defs) /\ l = last /\ HeaderCells(w, l, nm, 5) /\ Head(todo) = Do("setLast", w)
    BY <1>1, <1>2, <1>4, <1>6, <1>10, <2>1
  <2>4. (n = 0 => nm = 0) /\ (n > 0 => nm \in 1 .. Len(strings) /\ strings[nm] = token)
    BY <2>1 DEF MakingAt
  <2>5. \A i \in 1 .. n : defs[i].word + Span(i) <= w
    BY <1>8, <2>1 DEF Made
  <2>6. /\ Compiling' /\ UNCHANGED <<mem, prog, strings, token, pos>> /\ todo' = Tail(todo)
        /\ Len(defs') = n + 1 /\ Longer(defs, defs') /\ \A i \in 1 .. n : defs'[i] = defs[i]
        /\ last' = w /\ defs'[n + 1].word = w
    <3>1. todo # << >> /\ 14 <= w /\ MemBase <= w /\ n \in Nat /\ k = n + 1 /\ l \in Word
      BY <1>1, <1>6, <1>7, <2>1
    <3> QED BY <2>2, <2>3, <2>4, <2>5, <3>1, SetLastOn
  <2>7. H' = H /\ MemBase' = MemBase /\ SameCode(mem, mem', MemBase, w)
    BY <2>6 DEF H, MemBase, SameCode
  <2>8. MakingAt(op, w, nm, x)'
    <3>1. Reserved(x)'
      BY <1>7, <1>8, <2>6, <2>7, ReservedIsKept
    <3> QED BY <2>6, <2>7, <3>1, MakingStays
  <2>9. MakingBody(op, w, nm, 6)'
    <3>1. H = w + 4 /\ mem[H] = 0 /\ mem[w + 3] = OpRun
      BY <1>7, <2>3 DEF HeaderCells
    <3>2. BodyCells(op, w, 6)'
      BY <2>6, <2>7, <3>1 DEF BodyCells
    <3>3. l = defs'[op + 1].word
      <4>1. defs # << >> /\ l = defs[Len(defs)].word
        <5>1. defs # << >>
          BY <1>2, EmptySeq
        <5> QED BY <2>3, <5>1 DEF Compiling
      <4> QED BY <2>1, <2>3, <2>6, <4>1
    <3>4. todo' = RestOf(BuiltinJobs(defs'[op + 1].word, nm, w, op), 6)
      <4>1. todo' = RestOf(BuiltinJobs(l, nm, w, op), 6)
        BY <1>3, <1>6, <1>10, <2>6
      <4> QED BY <3>3, <4>1
    <3>5. Len(defs') = op + 2 /\ defs'[op + 2].word = w
      <4>1. n + 1 = op + 2
        BY <2>1
      <4> QED BY <2>6, <4>1
    <3> QED BY <3>2, <3>4, <3>5 DEF MakingBody
  <2> QED BY <2>6, <2>8, <2>9 DEF Booting, Making
<1> QED BY <1>9, <1>10

\* The job that comes next in the body of a builtin.
LEMMA BodyFacts ==
  ASSUME IInv, Compiling, NEW op \in 0 .. 12, NEW w \in Word, NEW nm \in Word, NEW x \in Nat,
         MakingAt(op, w, nm, x), NEW j \in 6 .. 10, MakingBody(op, w, nm, j)
  PROVE  /\ Len(defs) = op + 2 /\ defs[op + 2].word = w /\ last = w /\ BodyCells(op, w, j)
         /\ Reserved(x) /\ w \in Nat /\ 14 <= w /\ MemBase <= w /\ w + 5 <= x /\ H \in Nat
         /\ w < Top /\ Top \in Nat /\ MemBase \in Nat
         /\ \A i \in 1 .. Len(defs) : defs[i].word \in Nat /\ defs[i].word <= w
         /\ todo # << >> /\ Tail(todo) = RestOf(BuiltinJobs(defs[op + 1].word, nm, w, op), j + 1)
         /\ j = 6 => Head(todo) = Do("inline", 0)
         /\ op = 0 => /\ j = 7 => Head(todo) = DoCompile(op)
                      /\ j = 8 => Head(todo) = DoImmediate /\ Tail(todo) = <<Do("builtin", op + 1)>>
         /\ op \in 1 .. 2 =>
              /\ j = 7 => Head(todo) = DoImmediate
              /\ j = 8 => Head(todo) = DoCompile(op)
              /\ j = 9 => Head(todo) = DoImmediate
              /\ j = 10 => Head(todo) = DoCompile(OpExit) /\ Tail(todo) = <<Do("builtin", op + 1)>>
         /\ op > 2 =>
              /\ j = 7 => Head(todo) = DoCompile(op)
              /\ j = 8 => Head(todo) = DoImmediate
              /\ j = 9 => /\ Head(todo) = DoCompile(OpExit)
                          /\ op < 12 => Tail(todo) = <<Do("builtin", op + 1)>>
                          /\ op = 12 => Tail(todo) = << >>
<1>1. Len(defs) = op + 2 /\ defs[op + 2].word = w /\ BodyCells(op, w, j)
  BY DEF MakingBody
<1>2. /\ w \in Nat /\ 14 <= w /\ MemBase \in Nat /\ MemBase <= w /\ w + 5 <= x /\ H \in Nat
      /\ w < Top /\ Top \in Nat /\ defs # << >> /\ op + 1 <= Len(defs)
      /\ \A i \in 1 .. op + 1 : defs[i].word \in Nat /\ defs[i].word + 4 <= w
  <2>1. op + 1 <= Len(defs)
    BY <1>1
  <2> QED BY <2>1, MakingFacts
<1>3. last = w
  BY <1>1, <1>2 DEF Compiling
<1>4. \A i \in 1 .. Len(defs) : defs[i].word \in Nat /\ defs[i].word <= w
  <2> TAKE i \in 1 .. Len(defs)
  <2>1. CASE i \in 1 .. op + 1
    BY <1>2, <2>1
  <2>2. CASE i = op + 2
    BY <1>1, <1>2, <2>2
  <2> QED BY <1>1, <2>1, <2>2
<1>5. PICK l \in Word : l = defs[op + 1].word
  <2>1. op + 1 \in 1 .. Len(defs)
    BY <1>1
  <2> QED BY <2>1, MachineTypes DEF IInv
<1>6. PICK s \in TodoType : s = BuiltinJobs(l, nm, w, op)
  BY <1>5, BuiltinJobsLength
<1>7. /\ s[6] = Do("inline", 0)
      /\ op = 0 =>
           /\ Len(s) = 9 /\ s[7] = DoCompile(op)
           /\ s[8] = DoImmediate /\ s[9] = Do("builtin", op + 1)
      /\ op \in 1 .. 2 =>
           /\ Len(s) = 11 /\ s[7] = DoImmediate
           /\ s[8] = DoCompile(op) /\ s[9] = DoImmediate
           /\ s[10] = DoCompile(OpExit) /\ s[11] = Do("builtin", op + 1)
      /\ op > 2 =>
           /\ s[7] = DoCompile(op) /\ s[8] = DoImmediate
           /\ s[9] = DoCompile(OpExit)
           /\ op < 12 => Len(s) = 10 /\ s[10] = Do("builtin", op + 1)
           /\ op = 12 => Len(s) = 9
  BY <1>6, BuiltinJobsItems
<1>8. /\ op = 0 => j \in 6 .. 8
      /\ op > 2 => j \in 6 .. 9
  <2>1. \/ j = 6
        \/ j = 7
        \/ op = 0 /\ j = 8
        \/ op \in 1 .. 2
        \/ op > 2 /\ (j = 8 \/ j = 9)
    BY <1>1 DEF BodyCells
  <2> QED BY <2>1
<1>9. PICK n \in 9 .. 11 : /\ n = Len(s)
                           /\ op = 0 => n = 9
                           /\ op \in 1 .. 2 => n = 11
                           /\ op > 2 /\ op < 12 => n = 10
                           /\ op = 12 => n = 9
  <2>1. op = 0 \/ op \in 1 .. 2 \/ (op > 2 /\ op < 12) \/ op = 12
    OBVIOUS
  <2>2. Len(s) = 9 \/ Len(s) = 10 \/ Len(s) = 11
    BY <1>7, <2>1
  <2>3. PICK n \in 9 .. 11 : n = Len(s)
    BY <2>2
  <2> QED BY <1>7, <2>1, <2>3
<1>10. j \in 1 .. n
  <2>1. op = 0 \/ op \in 1 .. 2 \/ (op > 2 /\ op < 12) \/ op = 12
    OBVIOUS
  <2> QED BY <1>8, <1>9, <2>1
<1>11. todo = RestOf(s, j)
  BY <1>5, <1>6 DEF MakingBody
<1>12. /\ todo # << >> /\ Head(todo) = s[j] /\ Tail(todo) = RestOf(s, j + 1)
       /\ j = n => Tail(todo) = << >>
       /\ j + 1 = n => Tail(todo) = <<s[j + 1]>>
  BY <1>6, <1>9, <1>10, <1>11, RestFacts
<1>13. Tail(todo) = RestOf(BuiltinJobs(defs[op + 1].word, nm, w, op), j + 1)
  BY <1>5, <1>6, <1>12
<1>14. j = 6 => Head(todo) = Do("inline", 0)
  BY <1>7, <1>12
<1>15. ASSUME op = 0
       PROVE  /\ j = 7 => Head(todo) = DoCompile(op)
              /\ j = 8 => Head(todo) = DoImmediate /\ Tail(todo) = <<Do("builtin", op + 1)>>
  <2>1. j = 8 => j + 1 = n /\ j + 1 = 9
    BY <1>9, <1>15
  <2> QED BY <1>7, <1>12, <1>15, <2>1
<1>16. ASSUME op \in 1 .. 2
       PROVE  /\ j = 7 => Head(todo) = DoImmediate
              /\ j = 8 => Head(todo) = DoCompile(op)
              /\ j = 9 => Head(todo) = DoImmediate
              /\ j = 10 => Head(todo) = DoCompile(OpExit) /\ Tail(todo) = <<Do("builtin", op + 1)>>
  <2>1. j = 10 => j + 1 = n /\ j + 1 = 11
    BY <1>9, <1>16
  <2> QED BY <1>7, <1>12, <1>16, <2>1
<1>17. ASSUME op > 2
       PROVE  /\ j = 7 => Head(todo) = DoCompile(op)
              /\ j = 8 => Head(todo) = DoImmediate
              /\ j = 9 => /\ Head(todo) = DoCompile(OpExit)
                          /\ op < 12 => Tail(todo) = <<Do("builtin", op + 1)>>
                          /\ op = 12 => Tail(todo) = << >>
  <2>1. (op < 12 => n = 10) /\ (op = 12 => n = 9)
    BY <1>9, <1>17
  <2>2. j = 9 => (op < 12 => j + 1 = n /\ j + 1 = 10) /\ (op = 12 => j = n)
    BY <2>1
  <2> QED BY <1>7, <1>12, <1>17, <2>2
<1>18. Reserved(x)
  BY DEF MakingAt
<1> QED BY <1>1, <1>2, <1>3, <1>4, <1>12, <1>13, <1>14, <1>15, <1>16, <1>17, <1>18

LEMMA BodyStays ==
  ASSUME Compiling', NEW op \in 0 .. 12, NEW w \in Word, NEW nm \in Word, NEW x \in Nat,
         MakingAt(op, w, nm, x)', NEW j \in 6 .. 9, NEW k, k = j + 1,
         Len(defs) = op + 2, defs[op + 2].word = w, UNCHANGED defs, BodyCells(op, w, k)',
         todo' = RestOf(BuiltinJobs(defs[op + 1].word, nm, w, op), k)
  PROVE  Booting'
<1>1. MakingBody(op, w, nm, k)'
  BY DEF MakingBody
<1>2. k \in 6 .. 10
  OBVIOUS
<1> QED BY <1>1, <1>2 DEF Booting, Making

\* A builtin is complete.
LEMMA BuiltinDone ==
  ASSUME IInv', Compiling', NEW op \in 0 .. 12, NEW w \in Word, NEW nm \in Word, NEW x \in Nat,
         MakingAt(op, w, nm, x)', Len(defs') = op + 2, defs'[op + 2].word = w,
         NEW i \in 2 .. 14, i = op + 2, BuiltinHead(mem', i, w), H' = w + Span(i), mem'[H'] = 0,
         op < 12 => todo' = <<Do("builtin", op + 1)>>, op = 12 => todo' = << >>
  PROVE  Booting'
<1>1. /\ pos' = op + 1 /\ Made(op + 1, w)' /\ w + 41 <= x + 3 * op /\ Reserved(x)'
  BY DEF MakingAt
<1>2. /\ MainLoop(mem', defs') /\ prog' = Entry(defs')
      /\ \A k \in 1 .. op + 1 : defs'[k].word + Span(k) <= w
      /\ \A k \in 2 .. op + 1 : BuiltinHead(mem', k, defs'[k].word)
  BY <1>1 DEF Made
<1>3. w \in Nat /\ \A k \in 1 .. op + 1 : defs'[k].word \in Nat
  <2>1. \A k \in 1 .. Len(defs') : defs'[k].word \in Word
    <3>1. defs' \in Seq([name : Tokens \union {""}, word : Word])
      BY DEF IInv, TypeOK
    <3>2. \A k \in 1 .. Len(defs') : defs'[k] \in [name : Tokens \union {""}, word : Word]
      BY <3>1, ElementOfSeq
    <3> QED BY <3>2
  <2>2. \A k \in 1 .. op + 1 : k \in 1 .. Len(defs')
    OBVIOUS
  <2>3. Top \in Nat
    BY WordFacts
  <2> QED BY <2>1, <2>2, <2>3 DEF Word
<1>4. \A k \in Nat : Span(k) \in Nat /\ 4 <= Span(k) /\ (k < 5 => Span(k) <= 6) /\ (2 <= k => Span(k) <= 5)
                     /\ (k \in 2 .. 4 => Span(k) = 4)
  BY DEF Span
<1>5. Span(i) \in Nat /\ Span(i) <= 5 /\ H' \in Nat /\ w <= H'
  <2>1. i \in Nat /\ 2 <= i
    OBVIOUS
  <2>2. Span(i) \in Nat /\ Span(i) <= 5
    BY <1>4, <2>1
  <2> QED BY <1>3, <2>2
<1>6. Made(i, H)'
  <2>1. \A k \in 1 .. i : defs'[k].word + Span(k) <= H'
    <3> TAKE k \in 1 .. i
    <3>1. CASE k \in 1 .. op + 1
      <4>1. k \in Nat
        OBVIOUS
      <4>2. PICK d \in Nat, n \in Nat : d = defs'[k].word /\ n = Span(k)
        BY <1>3, <1>4, <3>1, <4>1
      <4>3. d + n <= w
        BY <1>2, <3>1, <4>2
      <4>4. d + n <= H'
        BY <1>3, <1>5, <4>2, <4>3
      <4> QED BY <4>2, <4>4
    <3>2. CASE k = i
      <4>1. defs'[k].word = w /\ w + Span(k) = H' /\ H' \in Nat
        BY <1>5, <3>2
      <4> QED BY <4>1
    <3> QED BY <3>1, <3>2
  <2>2. \A k \in 2 .. i : BuiltinHead(mem', k, defs'[k].word)
    <3> TAKE k \in 2 .. i
    <3>1. CASE k \in 2 .. op + 1
      BY <1>2, <3>1
    <3>2. CASE k = i
      BY <3>2
    <3> QED BY <3>1, <3>2
  <2>3. i <= Len(defs')
    OBVIOUS
  <2> QED BY <1>2, <2>1, <2>2, <2>3 DEF Made
<1>7. PICK k \in 1 .. 13 : k = op + 1 /\ i = k + 1
  OBVIOUS
<1>8. \E y \in Nat : H' + 39 <= y + 3 * k /\ Reserved(y)'
  <2>1. H' + 39 <= x + 3 * k
    <3>1. H' + 39 <= w + 44 /\ 3 * k = 3 * op + 3
      <4>1. op \in Nat /\ k \in Nat /\ k = op + 1
        BY <1>7
      <4>2. 3 * k = 3 * op + 3
        BY <4>1
      <4>3. PICK n \in Nat : n = Span(i) /\ n <= 5
        BY <1>5
      <4>4. H' = w + n
        BY <4>3
      <4> QED BY <1>3, <4>2, <4>3, <4>4
    <3>2. k \in Nat /\ op \in Nat /\ w + 41 <= x + 3 * op
      BY <1>1, <1>7
    <3> QED BY <1>3, <1>5, <3>1, <3>2
  <2> QED BY <1>1, <2>1
<1>9. Between(k)'
  <2>1. /\ k < 13 => todo' = <<Do("builtin", k)>>
        /\ k = 13 => todo' = << >>
    BY <1>7
  <2>2. k < 13 \/ k = 13
    BY <1>7
  <2>3. pos' = k /\ Len(defs') = k + 1 /\ mem'[H'] = 0
    BY <1>1, <1>7
  <2>4. Made(k + 1, H)'
    BY <1>6, <1>7
  <2> QED BY <1>8, <2>1, <2>2, <2>3, <2>4 DEF Between
<1> QED BY <1>7, <1>9 DEF Booting

LEMMA BodyInlines ==
  ASSUME IInv, IInv', Compiling, Next, Running, status' = "running",
         NEW op \in 0 .. 12, NEW w \in Word, NEW nm \in Word, NEW x \in Nat,
         MakingAt(op, w, nm, x), MakingBody(op, w, nm, 6)
  PROVE  Booting'
<1>1. /\ Len(defs) = op + 2 /\ defs[op + 2].word = w /\ last = w /\ BodyCells(op, w, 6)
      /\ Reserved(x) /\ w \in Nat /\ 14 <= w /\ MemBase <= w /\ H \in Nat /\ w < Top /\ Top \in Nat
      /\ \A i \in 1 .. Len(defs) : defs[i].word \in Nat /\ defs[i].word <= w
      /\ MemBase \in Nat
  <2>1. 6 \in 6 .. 10
    OBVIOUS
  <2> QED BY <2>1, BodyFacts
<1>2. /\ todo # << >> /\ Tail(todo) = RestOf(BuiltinJobs(defs[op + 1].word, nm, w, op), 7)
      /\ Head(todo) = Do("inline", 0)
  <2>1. 6 + 1 = 7 /\ 6 \in 6 .. 10
    OBVIOUS
  <2>2. /\ todo # << >> /\ Tail(todo) = RestOf(BuiltinJobs(defs[op + 1].word, nm, w, op), 6 + 1)
        /\ Head(todo) = Do("inline", 0)
    BY <2>1, BodyFacts
  <2> QED BY <2>1, <2>2
<1>3. H = w + 4 /\ mem[H] = 0 /\ mem[w + 3] = OpRun
  BY <1>1 DEF BodyCells
<1>4. PICK e \in Nat : e = w + 2
  BY <1>1
<1>5. /\ Compiling' /\ H' = H /\ Reserved(x)'
      /\ mem'[e] = OpCompIt /\ \A a \in Word : a # e => mem'[a] = mem[a]
      /\ MemBase' = MemBase /\ SameCode(mem, mem', MemBase, e)
      /\ todo' = Tail(todo) /\ UNCHANGED <<prog, token, last, strings, pos, defs>>
  <2>1. last + 2 = e /\ e < H /\ MemBase <= e /\ 14 <= e
    BY <1>1, <1>3, <1>4
  <2>2. Under(e)
    BY <1>1, <1>4 DEF Under
  <2> QED BY <1>1, <1>2, <1>4, <2>1, <2>2, InlineOn
<1>6. MakingAt(op, w, nm, x)'
  <2>1. Longer(defs, defs')
    BY <1>1, <1>5 DEF Longer
  <2>2. SameCode(mem, mem', MemBase, w)
    BY <1>1, <1>4, <1>5 DEF SameCode, Word
  <2> QED BY <1>5, <2>1, <2>2, MakingStays
<1>7. BodyCells(op, w, 7)'
  <2>1. H \in Word
    BY MachineTypes DEF IInv
  <2>2. w + 3 \in Word /\ w + 3 # e /\ H # e
    BY <1>1, <1>3, <1>4, <2>1 DEF Word
  <2>3. /\ H' = w + 4 /\ mem'[H'] = 0 /\ mem'[w + 3] = OpRun /\ mem'[w + 2] = OpCompIt
    BY <1>3, <1>4, <1>5, <2>1, <2>2
  <2> QED BY <2>3 DEF BodyCells
<1>8. 7 = 6 + 1 /\ 6 \in 6 .. 9
  OBVIOUS
<1>9. todo' = RestOf(BuiltinJobs(defs[op + 1].word, nm, w, op), 7)
  BY <1>2, <1>5
<1> QED BY <1>1, <1>5, <1>6, <1>7, <1>8, <1>9, BodyStays

LEMMA BodyCompiles ==
  ASSUME IInv, IInv', Compiling, Next, Running, status' = "running",
         NEW op \in 0 .. 12, NEW w \in Word, NEW nm \in Word, NEW x \in Nat,
         MakingAt(op, w, nm, x), NEW j \in 7 .. 10, MakingBody(op, w, nm, j),
         NEW v \in Word, Head(todo) = DoCompile(v), w + 3 <= H, H <= w + 4
  PROVE  /\ Compiling' /\ MakingAt(op, w, nm, x)' /\ UNCHANGED defs /\ todo' = Tail(todo)
         /\ H' = H + 1 /\ mem'[H] = v /\ mem'[H + 1] = 0
         /\ \A a \in Word : w <= a /\ a # H => mem'[a] = mem[a]
<1>1. /\ Len(defs) = op + 2 /\ Reserved(x) /\ w \in Nat /\ 14 <= w /\ MemBase \in Nat
      /\ w + 5 <= x /\ \A i \in 1 .. Len(defs) : defs[i].word \in Nat /\ defs[i].word <= w
      /\ todo # << >> /\ H \in Nat
  <2>1. j \in 6 .. 10
    OBVIOUS
  <2> QED BY <2>1, BodyFacts
<1>2. H < x /\ w <= H /\ w + 2 <= H
  BY <1>1
<1>3. Under(H)
  BY <1>1, <1>2 DEF Under
<1>4. /\ Compiling' /\ CompilesCell(v) /\ mem'[H + 1] = 0 /\ Reserved(x)'
      /\ MemBase' = MemBase /\ SameCode(mem, mem', MemBase, H)
      /\ todo' = Tail(todo) /\ UNCHANGED <<prog, token>>
  BY <1>1, <1>2, <1>3, CompilesOn
<1>5. /\ H' = H + 1 /\ mem'[H] = v /\ \A a \in Word : a # 0 /\ a # H => mem'[a] = mem[a]
      /\ UNCHANGED <<last, defs, strings, calls, pos>>
  BY <1>4 DEF CompilesCell
<1>6. MakingAt(op, w, nm, x)'
  <2>1. Longer(defs, defs')
    BY <1>1, <1>5 DEF Longer
  <2>2. SameCode(mem, mem', MemBase, w)
    <3>1. \A a \in Word : a < w => a < H
      <4>1. Top \in Nat
        BY WordFacts
      <4> QED BY <1>1, <1>2, <4>1 DEF Word
    <3> QED BY <1>4, <3>1 DEF SameCode
  <2> QED BY <1>4, <1>5, <2>1, <2>2, MakingStays
<1>7. \A a \in Word : w <= a /\ a # H => mem'[a] = mem[a]
  <2>1. \A a \in Word : w <= a => a # 0
    BY <1>1
  <2> QED BY <1>5, <2>1
<1> QED BY <1>2, <1>4, <1>5, <1>6, <1>7

LEMMA BodyShrinks ==
  ASSUME IInv, IInv', Compiling, Next, Running, status' = "running",
         NEW op \in 0 .. 12, NEW w \in Word, NEW nm \in Word, NEW x \in Nat,
         MakingAt(op, w, nm, x), NEW j \in 7 .. 10, MakingBody(op, w, nm, j),
         Head(todo) = DoImmediate, NEW k \in 2 .. 3, H = w + k + 2, mem[w + k + 2] = 0
  PROVE  /\ Compiling' /\ MakingAt(op, w, nm, x)' /\ UNCHANGED defs /\ todo' = Tail(todo)
         /\ H' = w + k + 1 /\ mem'[w + k] = mem[w + k + 1]
         /\ \A a \in Word : w <= a /\ a # w + k => mem'[a] = mem[a]
<1>1. /\ Len(defs) = op + 2 /\ Reserved(x) /\ w \in Nat /\ 14 <= w /\ MemBase \in Nat /\ MemBase <= w
      /\ \A i \in 1 .. Len(defs) : defs[i].word \in Nat /\ defs[i].word <= w
      /\ todo # << >>
  <2>1. j \in 6 .. 10
    OBVIOUS
  <2> QED BY <2>1, BodyFacts
<1>2. PICK e \in Nat : e = w + k
  BY <1>1
<1>3. /\ H = e + 2 /\ MemBase <= e /\ 14 <= e /\ mem[H] = 0 /\ Under(e) /\ w <= e
  BY <1>1, <1>2 DEF Under
<1>4. /\ Compiling' /\ H' = e + 1 /\ Reserved(x)'
      /\ mem'[e] = mem[e + 1] /\ \A a \in Word : a # 0 /\ a # e => mem'[a] = mem[a]
      /\ MemBase' = MemBase /\ SameCode(mem, mem', MemBase, e)
      /\ todo' = Tail(todo) /\ UNCHANGED <<prog, token, last, strings, pos, defs>>
  BY <1>1, <1>2, <1>3, ImmediateOn
<1>5. MakingAt(op, w, nm, x)'
  <2>1. Longer(defs, defs')
    BY <1>1, <1>4 DEF Longer
  <2>2. SameCode(mem, mem', MemBase, w)
    <3>1. \A a \in Word : a < w => a < e
      <4>1. Top \in Nat
        BY WordFacts
      <4> QED BY <1>1, <1>2, <1>3, <4>1 DEF Word
    <3> QED BY <1>4, <3>1 DEF SameCode
  <2> QED BY <1>4, <2>1, <2>2, MakingStays
<1>6. \A a \in Word : w <= a /\ a # w + k => mem'[a] = mem[a]
  <2>1. \A a \in Word : w <= a => a # 0
    BY <1>1
  <2> QED BY <1>2, <1>4, <2>1
<1> QED BY <1>2, <1>4, <1>5, <1>6

LEMMA CellsOfWord ==
  ASSUME IInv, NEW w \in Word, NEW k \in 0 .. 5, H = w + k
  PROVE  \A i \in 0 .. k : w + i \in Word
<1>1. H \in Word /\ Top \in Nat
  BY MachineTypes, WordFacts DEF IInv
<1> QED BY <1>1 DEF Word

LEMMA CodeIsWord ==
  \A op \in 0 .. 12 : op \in Word
BY WordFacts DEF Word

\* The body of exit: what follows the call of compileit is the code 0.
LEMMA ExitBodyGoesOn ==
  ASSUME IInv, IInv', Compiling, Next, Running, status' = "running",
         NEW op \in 0 .. 12, NEW w \in Word, NEW nm \in Word, NEW x \in Nat,
         MakingAt(op, w, nm, x), NEW j \in 7 .. 10, MakingBody(op, w, nm, j), op = 0
  PROVE  Booting'
<1>1. /\ Len(defs) = op + 2 /\ defs[op + 2].word = w /\ BodyCells(op, w, j) /\ w \in Nat
      /\ Tail(todo) = RestOf(BuiltinJobs(defs[op + 1].word, nm, w, op), j + 1)
      /\ j = 7 => Head(todo) = DoCompile(op)
      /\ j = 8 => Head(todo) = DoImmediate /\ Tail(todo) = <<Do("builtin", op + 1)>>
  <2>1. j \in 6 .. 10
    OBVIOUS
  <2> QED BY <2>1, BodyFacts
<1>2. OpExit = 0
  BY CodesAreNumbers
<1>3. CASE j = 7
  <2>1. H = w + 4 /\ mem[w + 2] = OpCompIt
    BY <1>1, <1>3 DEF BodyCells
  <2>2. Head(todo) = DoCompile(op) /\ op \in Word
    BY CodeIsWord, <1>1, <1>3
  <2>3. /\ Compiling' /\ MakingAt(op, w, nm, x)' /\ UNCHANGED defs /\ todo' = Tail(todo)
        /\ H' = w + 4 + 1 /\ mem'[w + 4] = op /\ mem'[w + 4 + 1] = 0
        /\ \A a \in Word : w <= a /\ a # w + 4 => mem'[a] = mem[a]
    <3>1. PICK v \in Word : v = op
      BY <2>2
    <3>2. Head(todo) = DoCompile(v) /\ w + 3 <= H /\ H <= w + 4
      BY <1>1, <2>1, <2>2, <3>1
    <3>3. /\ Compiling' /\ MakingAt(op, w, nm, x)' /\ UNCHANGED defs /\ todo' = Tail(todo)
          /\ H' = H + 1 /\ mem'[H] = v /\ mem'[H + 1] = 0
          /\ \A a \in Word : w <= a /\ a # H => mem'[a] = mem[a]
      BY <3>2, BodyCompiles
    <3> QED BY <2>1, <3>1, <3>3
  <2>4. w + 2 \in Word /\ w <= w + 2 /\ w + 2 # w + 4 /\ w + 4 + 1 = w + 5
    <3>1. 4 \in 0 .. 5 /\ 2 \in 0 .. 4
      OBVIOUS
    <3> QED BY <1>1, <2>1, <3>1, CellsOfWord
  <2>5. H' = w + 5 /\ mem'[H'] = 0 /\ mem'[w + 2] = OpCompIt /\ mem'[w + 4] = OpExit
    BY <1>2, <2>1, <2>3, <2>4
  <2>6. BodyCells(op, w, 8)'
    BY <2>5 DEF BodyCells
  <2>7. 8 = j + 1 /\ j \in 6 .. 9 /\ todo' = RestOf(BuiltinJobs(defs[op + 1].word, nm, w, op), 8)
    <3>1. j + 1 = 8
      BY <1>3
    <3> QED BY <1>1, <1>3, <2>3, <3>1
  <2> QED BY <1>1, <2>3, <2>6, <2>7, BodyStays
<1>4. CASE j = 8
  <2>1. H = w + 5 /\ mem[w + 5] = 0 /\ mem[w + 2] = OpCompIt /\ mem[w + 4] = OpExit
    BY <1>1, <1>4 DEF BodyCells
  <2>2. /\ 3 \in 2 .. 3 /\ H = w + 3 + 2 /\ mem[w + 3 + 2] = 0 /\ Head(todo) = DoImmediate
    <3>1. w + 3 + 2 = w + 5
      BY <1>1
    <3> QED BY <1>1, <1>4, <2>1, <3>1
  <2>3. /\ Compiling' /\ MakingAt(op, w, nm, x)' /\ UNCHANGED defs /\ todo' = Tail(todo)
        /\ H' = w + 3 + 1 /\ mem'[w + 3] = mem[w + 3 + 1]
        /\ \A a \in Word : w <= a /\ a # w + 3 => mem'[a] = mem[a]
    BY <2>2, BodyShrinks
  <2>4. /\ w + 2 \in Word /\ w <= w + 2 /\ w + 2 # w + 3 /\ w + 3 + 1 = w + 4
        /\ w + 4 \in Word /\ w <= w + 4 /\ w + 4 # w + 3
    <3>1. 5 \in 0 .. 5 /\ 2 \in 0 .. 5 /\ 4 \in 0 .. 5
      OBVIOUS
    <3> QED BY <1>1, <2>1, <3>1, CellsOfWord
  <2>5. H' = w + 4 /\ mem'[H'] = 0 /\ mem'[w + 2] = OpCompIt /\ mem'[w + 3] = OpExit
    BY <1>2, <2>1, <2>3, <2>4
  <2>6. PICK i \in 2 .. 14 : i = 2
    OBVIOUS
  <2>7. BuiltinHead(mem', i, w) /\ i = op + 2 /\ H' = w + Span(i) /\ op < 12 /\ op # 12
    BY <2>5, <2>6 DEF BuiltinHead, Span
  <2>8. Len(defs') = op + 2 /\ defs'[op + 2].word = w /\ todo' = <<Do("builtin", op + 1)>>
    BY <1>1, <1>4, <2>3
  <2> QED BY <2>3, <2>5, <2>6, <2>7, <2>8, BuiltinDone
<1>5. j = 7 \/ j = 8
  BY <1>1 DEF BodyCells
<1> QED BY <1>3, <1>4, <1>5

\* The body of : and of immediate: the code itself, run when it is read.
LEMMA ImmediateBodyGoesOn ==
  ASSUME IInv, IInv', Compiling, Next, Running, status' = "running",
         NEW op \in 0 .. 12, NEW w \in Word, NEW nm \in Word, NEW x \in Nat,
         MakingAt(op, w, nm, x), NEW j \in 7 .. 10, MakingBody(op, w, nm, j), op \in 1 .. 2
  PROVE  Booting'
<1>1. /\ Len(defs) = op + 2 /\ defs[op + 2].word = w /\ BodyCells(op, w, j) /\ w \in Nat
      /\ Tail(todo) = RestOf(BuiltinJobs(defs[op + 1].word, nm, w, op), j + 1)
      /\ j = 7 => Head(todo) = DoImmediate
      /\ j = 8 => Head(todo) = DoCompile(op)
      /\ j = 9 => Head(todo) = DoImmediate
      /\ j = 10 => Head(todo) = DoCompile(OpExit) /\ Tail(todo) = <<Do("builtin", op + 1)>>
  <2>1. j \in 6 .. 10
    OBVIOUS
  <2>2. /\ Len(defs) = op + 2 /\ defs[op + 2].word = w /\ BodyCells(op, w, j) /\ w \in Nat
        /\ Tail(todo) = RestOf(BuiltinJobs(defs[op + 1].word, nm, w, op), j + 1)
    BY <2>1, BodyFacts
  <2>3. (j = 7 => Head(todo) = DoImmediate) /\ (j = 9 => Head(todo) = DoImmediate)
    BY <2>1, BodyFacts
  <2>4. j = 8 => Head(todo) = DoCompile(op)
    BY <2>1, BodyFacts
  <2>5. j = 10 => Head(todo) = DoCompile(OpExit) /\ Tail(todo) = <<Do("builtin", op + 1)>>
    BY <2>1, BodyFacts
  <2> QED BY <2>2, <2>3, <2>4, <2>5
<1>2. CASE j \in {7, 9}
  <2>1. H = w + 4 /\ mem[w + 4] = 0 /\ (j = 9 => mem[w + 3] = op)
    BY <1>1, <1>2 DEF BodyCells
  <2>2. /\ 2 \in 2 .. 3 /\ H = w + 2 + 2 /\ mem[w + 2 + 2] = 0 /\ Head(todo) = DoImmediate
    <3>1. w + 2 + 2 = w + 4
      BY <1>1
    <3> QED BY <1>1, <1>2, <2>1, <3>1
  <2>3. /\ Compiling' /\ MakingAt(op, w, nm, x)' /\ UNCHANGED defs /\ todo' = Tail(todo)
        /\ H' = w + 2 + 1 /\ mem'[w + 2] = mem[w + 2 + 1]
    BY <2>2, BodyShrinks, ZenonT(30)
  <2>4. w + 2 + 1 = w + 3
    BY <1>1
  <2>5. H' = w + 3 /\ (j = 9 => mem'[w + 2] = op)
    BY <2>1, <2>3, <2>4
  <2>6. PICK k \in 7 .. 10 : k = j + 1
    BY <1>2
  <2>7. BodyCells(op, w, k)'
    BY <1>2, <2>5, <2>6 DEF BodyCells
  <2>8. j \in 6 .. 9 /\ todo' = RestOf(BuiltinJobs(defs[op + 1].word, nm, w, op), k)
    BY <1>1, <1>2, <2>3, <2>6
  <2> QED BY <1>1, <2>3, <2>6, <2>7, <2>8, BodyStays
<1>3. CASE j = 8
  <2>1. H = w + 3
    BY <1>1, <1>3 DEF BodyCells
  <2>2. Head(todo) = DoCompile(op) /\ op \in Word
    BY CodeIsWord, <1>1, <1>3
  <2>3. /\ Compiling' /\ MakingAt(op, w, nm, x)' /\ UNCHANGED defs /\ todo' = Tail(todo)
        /\ H' = w + 3 + 1 /\ mem'[w + 3] = op /\ mem'[w + 3 + 1] = 0
    <3>1. PICK v \in Word : v = op
      BY <2>2
    <3>2. Head(todo) = DoCompile(v) /\ w + 3 <= H /\ H <= w + 4
      BY <1>1, <2>1, <2>2, <3>1
    <3>3. /\ Compiling' /\ MakingAt(op, w, nm, x)' /\ UNCHANGED defs /\ todo' = Tail(todo)
          /\ H' = H + 1 /\ mem'[H] = v /\ mem'[H + 1] = 0
          /\ \A a \in Word : w <= a /\ a # H => mem'[a] = mem[a]
      BY <3>2, BodyCompiles
    <3> QED BY <2>1, <3>1, <3>3
  <2>4. w + 3 + 1 = w + 4
    BY <1>1
  <2>5. BodyCells(op, w, 9)'
    BY <2>3, <2>4 DEF BodyCells
  <2>6. 9 = j + 1 /\ j \in 6 .. 9 /\ todo' = RestOf(BuiltinJobs(defs[op + 1].word, nm, w, op), 9)
    <3>1. j + 1 = 9
      BY <1>3
    <3> QED BY <1>1, <1>3, <2>3, <3>1
  <2> QED BY <1>1, <2>3, <2>5, <2>6, BodyStays
<1>4. CASE j = 10
  <2>1. H = w + 3 /\ mem[w + 2] = op
    BY <1>1, <1>4 DEF BodyCells
  <2>2. Head(todo) = DoCompile(OpExit) /\ OpExit \in Word
    BY CodeIsWord, CodesAreNumbers, <1>1, <1>4
  <2>3. /\ Compiling' /\ MakingAt(op, w, nm, x)' /\ UNCHANGED defs /\ todo' = Tail(todo)
        /\ H' = w + 3 + 1 /\ mem'[w + 3] = OpExit /\ mem'[w + 3 + 1] = 0
        /\ \A a \in Word : w <= a /\ a # w + 3 => mem'[a] = mem[a]
    <3>1. PICK v \in Word : v = OpExit
      BY <2>2
    <3>2. Head(todo) = DoCompile(v) /\ w + 3 <= H /\ H <= w + 4
      BY <1>1, <2>1, <2>2, <3>1
    <3>3. /\ Compiling' /\ MakingAt(op, w, nm, x)' /\ UNCHANGED defs /\ todo' = Tail(todo)
          /\ H' = H + 1 /\ mem'[H] = v /\ mem'[H + 1] = 0
          /\ \A a \in Word : w <= a /\ a # H => mem'[a] = mem[a]
      BY <3>2, BodyCompiles
    <3> QED BY <2>1, <3>1, <3>3
  <2>4. w + 2 \in Word /\ w <= w + 2 /\ w + 2 # w + 3 /\ w + 3 + 1 = w + 4
    <3>1. 3 \in 0 .. 5 /\ 2 \in 0 .. 3
      OBVIOUS
    <3> QED BY <1>1, <2>1, <3>1, CellsOfWord
  <2>5. H' = w + 4 /\ mem'[H'] = 0 /\ mem'[w + 2] = op /\ mem'[w + 3] = OpExit
    BY <2>1, <2>3, <2>4
  <2>6. PICK i \in 3 .. 4 : i = op + 2
    OBVIOUS
  <2>7. /\ BuiltinHead(mem', i, w) /\ H' = w + Span(i) /\ op < 12 /\ op # 12 /\ i \in 2 .. 14
    <3>1. op = i - 2 /\ i \in {3, 4} /\ ~(i = 1) /\ ~(i \in 5 .. 14)
      BY <2>6
    <3> QED BY <2>5, <2>6, <3>1 DEF BuiltinHead, Span
  <2>8. Len(defs') = op + 2 /\ defs'[op + 2].word = w /\ todo' = <<Do("builtin", op + 1)>>
    BY <1>1, <1>4, <2>3
  <2> QED BY <2>3, <2>5, <2>6, <2>7, <2>8, BuiltinDone
<1>5. j \in {7, 9} \/ j = 8 \/ j = 10
  OBVIOUS
<1> QED BY <1>2, <1>3, <1>4, <1>5

\* The body of the other builtins: the code, which compileit copies.
LEMMA CodeBodyGoesOn ==
  ASSUME IInv, IInv', Compiling, Next, Running, status' = "running",
         NEW op \in 0 .. 12, NEW w \in Word, NEW nm \in Word, NEW x \in Nat,
         MakingAt(op, w, nm, x), NEW j \in 7 .. 10, MakingBody(op, w, nm, j), op > 2
  PROVE  Booting'
<1>1. /\ Len(defs) = op + 2 /\ defs[op + 2].word = w /\ BodyCells(op, w, j) /\ w \in Nat
      /\ Tail(todo) = RestOf(BuiltinJobs(defs[op + 1].word, nm, w, op), j + 1)
      /\ j = 7 => Head(todo) = DoCompile(op)
      /\ j = 8 => Head(todo) = DoImmediate
      /\ j = 9 => /\ Head(todo) = DoCompile(OpExit)
                  /\ op < 12 => Tail(todo) = <<Do("builtin", op + 1)>>
                  /\ op = 12 => Tail(todo) = << >>
  <2>1. j \in 6 .. 10
    OBVIOUS
  <2> QED BY <2>1, BodyFacts, ZenonT(30)
<1>2. CASE j = 7
  <2>1. H = w + 4 /\ mem[w + 2] = OpCompIt
    BY <1>1, <1>2 DEF BodyCells
  <2>2. Head(todo) = DoCompile(op) /\ op \in Word
    BY CodeIsWord, <1>1, <1>2
  <2>3. /\ Compiling' /\ MakingAt(op, w, nm, x)' /\ UNCHANGED defs /\ todo' = Tail(todo)
        /\ H' = w + 4 + 1 /\ mem'[w + 4] = op /\ mem'[w + 4 + 1] = 0
        /\ \A a \in Word : w <= a /\ a # w + 4 => mem'[a] = mem[a]
    <3>1. PICK v \in Word : v = op
      BY <2>2
    <3>2. Head(todo) = DoCompile(v) /\ w + 3 <= H /\ H <= w + 4
      BY <1>1, <2>1, <2>2, <3>1
    <3>3. /\ Compiling' /\ MakingAt(op, w, nm, x)' /\ UNCHANGED defs /\ todo' = Tail(todo)
          /\ H' = H + 1 /\ mem'[H] = v /\ mem'[H + 1] = 0
          /\ \A a \in Word : w <= a /\ a # H => mem'[a] = mem[a]
      BY <3>2, BodyCompiles
    <3> QED BY <2>1, <3>1, <3>3
  <2>4. w + 2 \in Word /\ w <= w + 2 /\ w + 2 # w + 4 /\ w + 4 + 1 = w + 5
    <3>1. 4 \in 0 .. 5 /\ 2 \in 0 .. 4
      OBVIOUS
    <3> QED BY <1>1, <2>1, <3>1, CellsOfWord
  <2>5. H' = w + 5 /\ mem'[H'] = 0 /\ mem'[w + 2] = OpCompIt /\ mem'[w + 4] = op
    BY <2>1, <2>3, <2>4
  <2>6. BodyCells(op, w, 8)'
    BY <2>5 DEF BodyCells
  <2>7. 8 = j + 1 /\ j \in 6 .. 9 /\ todo' = RestOf(BuiltinJobs(defs[op + 1].word, nm, w, op), 8)
    <3>1. j + 1 = 8
      BY <1>2
    <3> QED BY <1>1, <1>2, <2>3, <3>1
  <2> QED BY <1>1, <2>3, <2>6, <2>7, BodyStays
<1>3. CASE j = 8
  <2>1. H = w + 5 /\ mem[w + 5] = 0 /\ mem[w + 2] = OpCompIt /\ mem[w + 4] = op
    BY <1>1, <1>3 DEF BodyCells
  <2>2. /\ 3 \in 2 .. 3 /\ H = w + 3 + 2 /\ mem[w + 3 + 2] = 0 /\ Head(todo) = DoImmediate
    <3>1. w + 3 + 2 = w + 5
      BY <1>1
    <3> QED BY <1>1, <1>3, <2>1, <3>1
  <2>3. /\ Compiling' /\ MakingAt(op, w, nm, x)' /\ UNCHANGED defs /\ todo' = Tail(todo)
        /\ H' = w + 3 + 1 /\ mem'[w + 3] = mem[w + 3 + 1]
        /\ \A a \in Word : w <= a /\ a # w + 3 => mem'[a] = mem[a]
    BY <2>2, BodyShrinks
  <2>4. w + 2 \in Word /\ w <= w + 2 /\ w + 2 # w + 3 /\ w + 3 + 1 = w + 4
    <3>1. 5 \in 0 .. 5 /\ 2 \in 0 .. 5
      OBVIOUS
    <3> QED BY <1>1, <2>1, <3>1, CellsOfWord
  <2>5. H' = w + 4 /\ mem'[w + 2] = OpCompIt /\ mem'[w + 3] = op
    BY <2>1, <2>3, <2>4
  <2>6. BodyCells(op, w, 9)'
    BY <2>5 DEF BodyCells
  <2>7. 9 = j + 1 /\ j \in 6 .. 9 /\ todo' = RestOf(BuiltinJobs(defs[op + 1].word, nm, w, op), 9)
    <3>1. j + 1 = 9
      BY <1>3
    <3> QED BY <1>1, <1>3, <2>3, <3>1
  <2> QED BY <1>1, <2>3, <2>6, <2>7, BodyStays
<1>4. CASE j = 9
  <2>1. H = w + 4 /\ mem[w + 2] = OpCompIt /\ mem[w + 3] = op
    BY <1>1, <1>4 DEF BodyCells
  <2>2. Head(todo) = DoCompile(OpExit) /\ OpExit \in Word
    BY CodeIsWord, CodesAreNumbers, <1>1, <1>4
  <2>3. /\ Compiling' /\ MakingAt(op, w, nm, x)' /\ UNCHANGED defs /\ todo' = Tail(todo)
        /\ H' = w + 4 + 1 /\ mem'[w + 4] = OpExit /\ mem'[w + 4 + 1] = 0
        /\ \A a \in Word : w <= a /\ a # w + 4 => mem'[a] = mem[a]
    <3>1. PICK v \in Word : v = OpExit
      BY <2>2
    <3>2. Head(todo) = DoCompile(v) /\ w + 3 <= H /\ H <= w + 4
      BY <1>1, <2>1, <2>2, <3>1
    <3>3. /\ Compiling' /\ MakingAt(op, w, nm, x)' /\ UNCHANGED defs /\ todo' = Tail(todo)
          /\ H' = H + 1 /\ mem'[H] = v /\ mem'[H + 1] = 0
          /\ \A a \in Word : w <= a /\ a # H => mem'[a] = mem[a]
      BY <3>2, BodyCompiles
    <3> QED BY <2>1, <3>1, <3>3
  <2>4. /\ w + 2 \in Word /\ w <= w + 2 /\ w + 2 # w + 4 /\ w + 4 + 1 = w + 5
        /\ w + 3 \in Word /\ w <= w + 3 /\ w + 3 # w + 4
    <3>1. 4 \in 0 .. 5 /\ 2 \in 0 .. 4 /\ 3 \in 0 .. 4
      OBVIOUS
    <3>2. w + 2 \in Word /\ w + 3 \in Word
      BY <2>1, <3>1, CellsOfWord
    <3> QED BY <1>1, <3>2
  <2>5. /\ H' = w + 5 /\ mem'[H'] = 0 /\ mem'[w + 2] = OpCompIt /\ mem'[w + 3] = op
        /\ mem'[w + 4] = OpExit
    BY <2>1, <2>3, <2>4
  <2>6. PICK i \in 5 .. 14 : i = op + 2
    OBVIOUS
  <2>7. /\ BuiltinHead(mem', i, w) /\ H' = w + Span(i) /\ i \in 2 .. 14
    <3>1. op = i - 2 /\ i > 4 /\ ~(i = 1) /\ i \in 5 .. 14
      BY <2>6
    <3> QED BY <2>5, <2>6, <3>1 DEF BuiltinHead, Span
  <2>8. /\ Len(defs') = op + 2 /\ defs'[op + 2].word = w
        /\ op < 12 => todo' = <<Do("builtin", op + 1)>>
        /\ op = 12 => todo' = << >>
    BY <1>1, <1>4, <2>3
  <2> QED BY <2>3, <2>5, <2>6, <2>7, <2>8, BuiltinDone
<1>5. j = 7 \/ j = 8 \/ j = 9
  BY <1>1 DEF BodyCells
<1> QED BY <1>2, <1>3, <1>4, <1>5

\* What init compiles, code after code, up to the last builtin.
LEMMA BootGoesOn ==
  ASSUME IInv, IInv', Booting, Next, Running, status' = "running", ~Between(13)
  PROVE  Booting'
<1>1. Compiling
  BY DEF Booting
<1>2. CASE Entering
  <2>1. pos = 0
    BY <1>2 DEF Entering
  <2>2. PICK w \in Word : \E x \in Nat :
          /\ w + 45 <= x /\ Reserved(x)
          /\ \/ \E j \in 1 .. 5 : EntryHead(w, j)
             \/ \E j \in 6 .. 7 : EntryEnd(w, j)
             \/ \E j \in 1 .. 3 : LoopCells(w, j)
    BY <1>2 DEF Entering
  <2>3. PICK x \in Nat :
          /\ w + 45 <= x /\ Reserved(x)
          /\ \/ \E j \in 1 .. 5 : EntryHead(w, j)
             \/ \E j \in 6 .. 7 : EntryEnd(w, j)
             \/ \E j \in 1 .. 3 : LoopCells(w, j)
    BY <2>2
  <2>4. CASE \E j \in 1 .. 5 : EntryHead(w, j)
    <3>1. PICK j \in 1 .. 5 : EntryHead(w, j)
      BY <2>4
    <3> QED BY <1>1, <2>1, <2>3, <3>1, EntryHeadGoesOn
  <2>5. CASE \E j \in 6 .. 7 : EntryEnd(w, j)
    <3>1. PICK j \in 6 .. 7 : EntryEnd(w, j)
      BY <2>5
    <3> QED BY <1>1, <2>1, <2>3, <3>1, EntryEndGoesOn
  <2>6. CASE \E j \in 1 .. 3 : LoopCells(w, j)
    <3>1. PICK j \in 1 .. 3 : LoopCells(w, j)
      BY <2>6
    <3> QED BY <1>1, <2>1, <2>3, <3>1, LoopGoesOn
  <2> QED BY <2>3, <2>4, <2>5, <2>6
<1>3. CASE \E op \in 0 .. 13 : Between(op)
  <2>1. PICK op \in 0 .. 13 : Between(op)
    BY <1>3
  <2>2. op \in 0 .. 12
    <3>1. op # 13
      BY <2>1
    <3> QED BY <3>1
  <2> QED BY <1>1, <2>1, <2>2, BetweenGoesOn
<1>4. CASE \E op \in 0 .. 12 : Making(op)
  <2>1. PICK op \in 0 .. 12 : Making(op)
    BY <1>4
  <2>2. PICK w \in Word : \E nm \in Word, x \in Nat :
          /\ MakingAt(op, w, nm, x)
          /\ \/ \E j \in 1 .. 5 : MakingHead(op, w, nm, j)
             \/ \E j \in 6 .. 10 : MakingBody(op, w, nm, j)
    BY <2>1 DEF Making
  <2>3. PICK nm \in Word : \E x \in Nat :
          /\ MakingAt(op, w, nm, x)
          /\ \/ \E j \in 1 .. 5 : MakingHead(op, w, nm, j)
             \/ \E j \in 6 .. 10 : MakingBody(op, w, nm, j)
    BY <2>2
  <2>4. PICK x \in Nat :
          /\ MakingAt(op, w, nm, x)
          /\ \/ \E j \in 1 .. 5 : MakingHead(op, w, nm, j)
             \/ \E j \in 6 .. 10 : MakingBody(op, w, nm, j)
    BY <2>3
  <2>5. CASE \E j \in 1 .. 5 : MakingHead(op, w, nm, j)
    <3>1. PICK j \in 1 .. 5 : MakingHead(op, w, nm, j)
      BY <2>5
    <3> QED BY <1>1, <2>4, <3>1, MakingHeadGoesOn
  <2>6. CASE \E j \in 6 .. 10 : MakingBody(op, w, nm, j)
    <3>1. PICK j \in 6 .. 10 : MakingBody(op, w, nm, j)
      BY <2>6
    <3>2. CASE j = 6
      <4>1. MakingBody(op, w, nm, 6)
        BY <3>1, <3>2
      <4> QED BY <1>1, <2>4, <4>1, BodyInlines
    <3>3. CASE j \in 7 .. 10
      <4>1. op = 0 \/ op \in 1 .. 2 \/ op > 2
        OBVIOUS
      <4>2. CASE op = 0
        BY <1>1, <2>4, <3>1, <3>3, <4>2, ExitBodyGoesOn
      <4>3. CASE op \in 1 .. 2
        BY <1>1, <2>4, <3>1, <3>3, <4>3, ImmediateBodyGoesOn
      <4>4. CASE op > 2
        BY <1>1, <2>4, <3>1, <3>3, <4>4, CodeBodyGoesOn
      <4> QED BY <4>1, <4>2, <4>3, <4>4
    <3>4. j = 6 \/ j \in 7 .. 10
      OBVIOUS
    <3> QED BY <3>2, <3>3, <3>4
  <2> QED BY <2>4, <2>5, <2>6
<1> QED BY <1>2, <1>3, <1>4 DEF Booting
----------------------------------------------------------------------------
(* When the builtins are complete the machine works.                       *)

\* The code that a program finds: of : and immediate.
LEMMA BootedWorks ==
  ASSUME IInv, Compiling, Between(13)
  PROVE  Working
<1>1. /\ Base /\ calls = << >> /\ form = "top" /\ Dict(mem, defs, strings, MemBase)
      /\ defs # << >> => last = defs[Len(defs)].word /\ 14 <= defs[1].word
  BY DEF Compiling
<1>2. /\ todo = << >> /\ pos = 13 /\ Len(defs) = 14 /\ mem[H] = 0
      /\ Made(14, H) /\ \E x \in Nat : H + 39 <= x + 3 * 13 /\ Reserved(x)
  BY DEF Between
<1>3. /\ MainLoop(mem, defs) /\ prog = Entry(defs)
      /\ \A i \in 1 .. 14 : defs[i].word + Span(i) <= H
      /\ \A i \in 2 .. 14 : BuiltinHead(mem, i, defs[i].word)
  BY <1>2 DEF Made
<1>4. /\ Top \in Nat /\ H \in Nat /\ H < Top /\ MemBase \in Nat
      /\ \A i \in 1 .. 14 : defs[i].word \in Nat /\ defs[i].word < Top
  <2>1. /\ TypeOK /\ Top \in Nat /\ H \in 0 .. Top - 1
    BY MachineTypes, WordFacts DEF IInv, Word
  <2>2. MemBase \in Word
    BY MachineTypes, <2>1
  <2>3. \A i \in 1 .. 14 : defs[i].word \in Word
    BY <1>2, <2>1, MachineTypes
  <2> QED BY <2>1, <2>2, <2>3 DEF Word
<1>5. defs # << >>
  BY <1>2, EmptySeq
<1>6. Words
  BY <1>1, <1>2, <1>3, <1>5 DEF Words
<1> DEFINE C == {defs[3].word + 3, defs[4].word + 3}
<1>7. Roomy(0)
  <2>1. PICK x \in Nat : H + 39 <= x + 3 * 13 /\ Reserved(x)
    BY <1>2
  <2>2. H + 0 <= x
    BY <1>4, <2>1
  <2> QED BY <2>1, <2>2, ReservedRoom
<1>8. /\ defs[3].word + 4 <= H /\ defs[4].word + 4 <= H /\ last + 4 <= H
      /\ MemBase <= defs[3].word /\ MemBase <= defs[4].word
      /\ mem[defs[3].word + 3] = OpExit /\ mem[defs[4].word + 3] = OpExit
  <2>1. PICK i \in 2 .. 14 : i = 3
    OBVIOUS
  <2>2. PICK k \in 2 .. 14 : k = 4
    OBVIOUS
  <2>3. /\ defs[i].word + Span(i) <= H /\ BuiltinHead(mem, i, defs[i].word)
        /\ defs[k].word + Span(k) <= H /\ BuiltinHead(mem, k, defs[k].word)
    BY <1>3
  <2>4. Span(i) = 4 /\ Span(k) = 4 /\ Span(14) = 5
    BY <2>1, <2>2 DEF Span
  <2>5. mem[defs[i].word + 3] = OpExit /\ mem[defs[k].word + 3] = OpExit
    BY <2>1, <2>2, <2>3 DEF BuiltinHead
  <2>6. last = defs[14].word /\ defs[14].word + Span(14) <= H
    BY <1>1, <1>2, <1>3, <1>5
  <2>7. \A n \in 1 .. 14 : MemBase <= defs[n].word
    BY <1>1, <1>2 DEF Dict
  <2> QED BY <1>4, <2>1, <2>2, <2>3, <2>4, <2>5, <2>6, <2>7
<1>9. C \in SUBSET Word /\ \A a \in C : a < H /\ MemBase <= a /\ mem[a] = OpExit
  BY <1>4, <1>8 DEF Word
<1>10. Free(C)
  BY <1>2, <1>8 DEF Free
<1>11. CodeOk(mem, defs, MemBase, H, 14, C, C)
  <2>1. HeadsOk(mem, defs, 14, C)
    BY <1>3 DEF HeadsOk
  <2>2. \A i \in 2 .. 14 : defs[i].word + (IF i <= 14 THEN Span(i) ELSE 3) <= H
    BY <1>3
  <2>3. \A a \in C : a < H /\ CellOk(mem, defs, a, C)
    BY <1>9 DEF CellOk
  <2>4. C \subseteq C /\ \A a \in C : MemBase <= a /\ a <= H
    BY <1>4, <1>9 DEF Word
  <2>5. defs[3].word + 3 \in C /\ defs[4].word + 3 \in C
    OBVIOUS
  <2> HIDE DEF C
  <2> QED BY <2>1, <2>2, <2>3, <2>4, <2>5 DEF CodeOk
<1>12. Built(C, C, 14)
  BY <1>2, <1>10, <1>11 DEF Built
<1>13. InMain(0) /\ 0 \in 0 .. Len(calls)
  <2>1. Len(calls) = 0
    BY <1>1, EmptySeq
  <2> QED BY <2>1 DEF InMain
<1>14. Reached(C, InBody) = C
  BY <1>1 DEF Reached, InBody
<1>15. (IF form = "named" THEN Len(defs) - 1 ELSE Len(defs)) = 14
  BY <1>1, <1>2
<1> HIDE DEF C
<1>16. Idle(C)
  BY <1>2, <1>3, <1>7, <1>12, <1>13, <1>14, <1>15 DEF Idle
<1> QED BY <1>1, <1>6, <1>9, <1>16 DEF Working, Phase
----------------------------------------------------------------------------
(* The first step: init lays memory out and starts to compile the entry.   *)

LEMMA FirstJobs ==
  ASSUME NEW g \in Word, NEW h \in Word, NEW t,
         t = [<<DoCompile(0), DoCompile(0), DoCompile(OpCompile), DoCompile(OpRun), Do("setLast", g)>>
                EXCEPT ![5] = Do("setLast", h)] \o <<DoImmediate, Do("entry", 0)>>
  PROVE  t = EntryJobs(h)
<1> DEFINE Job == [do : Jobs, arg : Word]
           A == <<DoCompile(0), DoCompile(0), DoCompile(OpCompile), DoCompile(OpRun), Do("setLast", g)>>
           D == <<DoImmediate, Do("entry", 0)>>
<1>1. 0 \in Word /\ OpCompile \in Word /\ OpRun \in Word
  BY WordFacts, CodesAreNumbers DEF Word
<1>2. /\ DoCompile(0) \in Job /\ DoCompile(OpCompile) \in Job /\ DoCompile(OpRun) \in Job
      /\ Do("setLast", h) \in Job /\ Do("setLast", g) \in Job
      /\ DoImmediate \in Job /\ Do("entry", 0) \in Job
  BY <1>1 DEF Do, DoCompile, DoImmediate, Jobs
<1>3. /\ A \in Seq(Job) /\ Len(A) = 5 /\ A[1] = DoCompile(0) /\ A[2] = DoCompile(0)
      /\ A[3] = DoCompile(OpCompile) /\ A[4] = DoCompile(OpRun)
      /\ D \in Seq(Job) /\ Len(D) = 2 /\ D[1] = DoImmediate /\ D[2] = Do("entry", 0)
  BY <1>2
<1>4. PICK e : e = Do("setLast", h)
  OBVIOUS
<1>5. PICK a : a = A
  OBVIOUS
<1>6. PICK b : b = [a EXCEPT ![5] = e]
  OBVIOUS
<1>7. t = b \o D
  BY <1>4, <1>5, <1>6
<1> HIDE DEF A, D, Job
<1>8. /\ b \in Seq(Job) /\ Len(b) = 5
      /\ \A j \in 1 .. 5 : b[j] = IF j = 5 THEN e ELSE A[j]
  <2>1. e \in Job /\ a \in Seq(Job) /\ Len(a) = 5 /\ 5 \in 1 .. Len(a)
    <3>1. e \in Job
      BY <1>2, <1>4
    <3>2. a \in Seq(Job)
      BY <1>3, <1>5
    <3>3. Len(a) = 5
      BY <1>3, <1>5
    <3> QED BY <3>1, <3>2, <3>3
  <2>2. /\ [a EXCEPT ![5] = e] \in Seq(Job) /\ Len([a EXCEPT ![5] = e]) = Len(a)
        /\ \A j \in 1 .. Len(a) : [a EXCEPT ![5] = e][j] = IF j = 5 THEN e ELSE a[j]
    <3>1. PICK S : S = Job
      OBVIOUS
    <3>2. PICK i \in 1 .. Len(a) : i = 5
      BY <2>1
    <3>3. a \in Seq(S) /\ e \in S
      BY <2>1, <3>1
    <3> HIDE DEF Job
    <3>4. /\ [a EXCEPT ![i] = e] \in Seq(S) /\ Len([a EXCEPT ![i] = e]) = Len(a)
          /\ \A j \in 1 .. Len(a) : [a EXCEPT ![i] = e][j] = IF j = i THEN e ELSE a[j]
      BY <3>2, <3>3, ExceptSeq
    <3> QED BY <3>1, <3>2, <3>4
  <2> QED BY <1>5, <1>6, <2>1, <2>2
<1>9. /\ t \in Seq(Job) /\ Len(t) = 5 + 2
      /\ \A i \in 1 .. 5 + 2 : t[i] = IF i <= 5 THEN b[i] ELSE D[i - 5]
  <2>1. /\ b \o D \in Seq(Job) /\ Len(b \o D) = Len(b) + Len(D)
        /\ \A i \in 1 .. Len(b) + Len(D) : (b \o D)[i] = IF i <= Len(b) THEN b[i] ELSE D[i - Len(b)]
    BY <1>3, <1>8, ConcatProperties
  <2> QED BY <1>3, <1>7, <1>8, <2>1
<1>10. PICK s \in TodoType : s = EntryJobs(h)
  BY EntryItems
<1>11. /\ Len(s) = 7 /\ s[1] = DoCompile(0) /\ s[2] = DoCompile(0) /\ s[3] = DoCompile(OpCompile)
       /\ s[4] = DoCompile(OpRun) /\ s[5] = e /\ s[6] = DoImmediate /\ s[7] = Do("entry", 0)
  BY <1>4, <1>10, EntryItems
<1>12. s \in Seq(Job) /\ Len(t) = 7
  BY <1>9 DEF Job, TodoType
<1>13. /\ t[1] = A[1] /\ t[2] = A[2] /\ t[3] = A[3] /\ t[4] = A[4] /\ t[5] = e
       /\ t[6] = D[1] /\ t[7] = D[2]
  BY <1>8, <1>9
<1>14. \A i \in 1 .. Len(t) : t[i] = s[i]
  BY <1>3, <1>11, <1>12, <1>13
<1> QED BY <1>9, <1>10, <1>11, <1>12, <1>14, SeqEqual

LEMMA StartBoots ==
  ASSUME WellBracketed, IInv, Init, Start
  PROVE  /\ status' = "running" /\ Booting'
         /\ todo' # << >> /\ Head(todo').do = "compile"
         /\ \E cells \in Presets : RetBase' = StartRet(cells) /\ MemBase' = StartMem(cells)
<1>1. PICK cells \in Presets :
        mem = [a \in Word |-> CASE a = 0 -> cells.h [] a = 1 -> cells.r
                                [] a = 10 -> cells.retBase [] a = 11 -> cells.memBase
                                [] OTHER -> 0]
  BY DEF Init
<1>2. /\ cells.h \in Word /\ cells.r \in Word /\ cells.retBase \in Word /\ cells.memBase \in Word
      /\ LayoutFits(cells)
  <2>1. cells \in [h : Word, r : Word, retBase : Word, memBase : Word]
    BY PresetsAssumption
  <2> QED BY <2>1 DEF WellBracketed
<1>3. H = cells.h /\ R = 0 /\ RetBase = cells.retBase /\ MemBase = cells.memBase
  BY <1>1, <1>2, WordFacts DEF H, R, RetBase, MemBase, LayoutFits
<1>4. PICK rb : rb = StartRet(cells)
  OBVIOUS
<1>5. PICK mb : mb = StartMem(cells)
  OBVIOUS
<1>6. PICK h : h = StartH(cells)
  OBVIOUS
<1>7. /\ 12 <= rb /\ rb <= mb /\ 14 <= h /\ mb <= h
      /\ \/ h + 46 + 2 * Len(Input) < Top
         \/ Limit # 0 /\ h <= Limit /\ Limit + 1 < Top
  BY <1>2, <1>4, <1>5, <1>6 DEF LayoutFits
<1>8. rb \in Word /\ mb \in Word /\ h \in Word /\ Minus1(rb) \in Word
  <2>1. Page \in Word
    BY PageSizeAssumption DEF Page
  <2>2. W(4 * Page) \in Word
    <3>1. 4 * Page \in Int
      BY <2>1, WordFacts DEF Word
    <3> QED BY <3>1, WIsWord
  <2>3. rb \in Word
    BY <1>2, <1>4, <2>1 DEF StartRet
  <2>4. mb \in Word
    BY <1>2, <1>5, <2>2 DEF StartMem
  <2>5. h \in Word
    BY <1>2, <1>5, <1>6, <2>4 DEF StartH
  <2> QED BY <2>3, <2>4, <2>5, StepFacts
<1>9. /\ mem' = [mem EXCEPT ![10] = rb, ![11] = mb, ![0] = h, ![1] = Minus1(rb)]
      /\ status' = "running"
      /\ todo' = [Header(0) EXCEPT ![5] = Do("setLast", h)] \o <<DoImmediate, Do("entry", 0)>>
      /\ UNCHANGED <<prog, last, stack, strings, token, pos, history>>
  <2>1. /\ rb = IF RetBase = 0 THEN Page ELSE RetBase
        /\ mb = IF MemBase = 0 THEN W(4 * Page) ELSE MemBase
        /\ h = IF H = 0 THEN mb ELSE H
    BY <1>3, <1>4, <1>5, <1>6 DEF StartRet, StartMem, StartH
  <2> QED BY <1>3, <2>1 DEF Start
<1>10. /\ prog = 0 /\ last = 0 /\ strings = << >> /\ token = "" /\ pos = 0
       /\ form = "top" /\ calls = << >> /\ defs = << >>
  BY DEF Init
<1>11. mem \in Memory
  BY Layout DEF IInv
<1>12. /\ H' = h /\ R' = Minus1(rb) /\ RetBase' = rb /\ MemBase' = mb
       /\ \A a \in Word : a > h => mem'[a] = 0
  <2>1. Top \in Nat
    BY WordFacts
  <2>2. \A a \in Word : a > h => a \notin {0, 1, 10, 11}
    BY <1>7, <1>8, <2>1 DEF Word
  <2>3. \A a \in Word : a \notin {0, 1, 10, 11} => mem'[a] = 0
    BY <1>1, <1>9, <1>11 DEF Memory
  <2>4. mem'[0] = h /\ mem'[1] = Minus1(rb) /\ mem'[10] = rb /\ mem'[11] = mb
    BY <1>8, <1>9, <1>11, WordFacts DEF Memory
  <2> QED BY <2>2, <2>3, <2>4 DEF H, R, RetBase, MemBase
<1>13. Len(calls') = 0 /\ Len(defs') = 0
  BY <1>9, <1>10, EmptySeq DEF history
<1>14. Compiling'
  <2>1. Minus1(rb) = rb - 1 /\ rb \in Nat /\ mb \in Nat /\ h \in Nat
    BY <1>7, <1>8, WordFacts DEF Minus1, Word
  <2>2. StackOk'
    BY <1>7, <1>12, <1>13, <2>1 DEF StackOk
  <2>3. Base'
    BY <1>7, <1>12, <2>2 DEF Base
  <2>4. Dict(mem', defs', strings', MemBase')
    BY <1>13 DEF Dict
  <2>5. calls' = << >> /\ form' = "top" /\ defs' = << >> /\ last' = 0
    BY <1>9, <1>10 DEF history
  <2> QED BY <2>3, <2>4, <2>5 DEF Compiling
<1>15. todo' = RestOf(EntryJobs(h), 1) /\ todo' = EntryJobs(h)
  <2>1. PICK g \in Word : g = H
    BY <1>2, <1>3
  <2>2. Header(0) = <<DoCompile(0), DoCompile(0), DoCompile(OpCompile), DoCompile(OpRun), Do("setLast", g)>>
    BY <1>10, <2>1 DEF Header
  <2>3. todo' = EntryJobs(h)
    BY <1>8, <1>9, <2>1, <2>2, FirstJobs
  <2>4. EntryJobs(h) \in TodoType
    BY <1>8, EntryItems
  <2>5. EntryJobs(h) = RestOf(EntryJobs(h), 1)
    BY <2>4, RestOfAll
  <2> QED BY <2>3, <2>5
<1>16. PICK x \in Nat : x = h + 45
  <2>1. h \in Nat
    BY <1>8, WordFacts DEF Word
  <2> QED BY <2>1
<1>17. Reserved(x)'
  <2>1. h \in Nat /\ Len(Input) \in Nat /\ Top \in Nat
    BY <1>8, WordFacts, InputAssumption DEF Word
  <2>2. pos' = 0
    BY <1>9, <1>10
  <2> QED BY <1>7, <1>12, <1>16, <2>1, <2>2 DEF Reserved
<1>18. EntryHead(h, 1)'
  <2>1. defs' = << >> /\ token' = ""
    BY <1>9, <1>10 DEF history
  <2>2. NameOk(1, token')
    BY <2>1 DEF NameOk
  <2>3. HeaderCells(h, 0, 0, 1)'
    BY <1>12 DEF HeaderCells
  <2> QED BY <1>7, <1>12, <1>15, <2>1, <2>2, <2>3 DEF EntryHead
<1>19. Entering'
  <2>1. pos' = 0 /\ h + 45 <= x /\ 1 \in 1 .. 5
    <3>1. h \in Nat
      BY <1>8, WordFacts DEF Word
    <3>2. h + 45 <= x
      BY <1>16, <3>1
    <3>3. pos' = 0
      BY <1>9, <1>10
    <3> QED BY <3>2, <3>3
  <2> QED BY <1>8, <1>17, <1>18, <2>1 DEF Entering
<1>20. todo' # << >> /\ Head(todo').do = "compile"
  <2>1. EntryJobs(h) # << >> /\ Head(EntryJobs(h)) = DoCompile(0)
    BY DEF EntryJobs
  <2> QED BY <1>15, <2>1, JobFields
<1>21. RetBase' = StartRet(cells) /\ MemBase' = StartMem(cells)
  BY <1>4, <1>5, <1>12
<1> QED BY <1>9, <1>14, <1>19, <1>20, <1>21 DEF Booting
----------------------------------------------------------------------------
(* What a machine that works is about to run, and to return to.            *)

\* The code of primitives other than !, and calls of words.
Code == (Ops \ {OpSet}) \union CodeFields

LEMMA CodeCells ==
  ASSUME WellBracketed, IInv, Base, Words, NEW C \in SUBSET Word, NEW X \in SUBSET Word,
         NEW n \in Nat, Built(C, X, n), X \subseteq C \union {H}
  PROVE  \A a \in X : /\ MemBase <= a /\ a <= H /\ mem[a] \in Code
                      /\ mem[a] = OpDiv => OpDiv \in UsedOps
                      /\ mem[a] # OpImmediate
                      /\ mem[a] = OpPushint => a + 2 <= H
<1>1. /\ TypeOK /\ Codes(defs) = CodeFields
      /\ \A v \in Codes(defs) : 17 <= v /\ v \in Nat
  BY CodesAreWords DEF IInv
<1>2. /\ \A a \in C : CellOk(mem, defs, a, X)
      /\ \A a \in X : MemBase <= a /\ a <= H
      /\ mem[H] \in {OpExit, OpRun}
  BY CodesAreNumbers DEF Built, CodeOk, Free
<1>3. ASSUME NEW a \in X
      PROVE  /\ mem[a] \in Code /\ (mem[a] = OpDiv => OpDiv \in UsedOps)
             /\ mem[a] # OpImmediate
  <2>1. CASE mem[a] \in UsedOps
    <3>1. mem[a] \in Ops /\ mem[a] # OpSet
      BY <2>1, UsedOpsAreNumbers DEF WellBracketed
    <3>2. mem[a] # OpImmediate
      BY <2>1, UsedOpsAreNumbers, CodesAreNumbers
    <3> QED BY <2>1, <3>1, <3>2 DEF Code
  <2>2. CASE mem[a] \in Codes(defs)
    <3>1. mem[a] # OpDiv /\ mem[a] # OpImmediate
      BY <1>1, <2>2, CodesAreNumbers
    <3> QED BY <1>1, <2>2, <3>1 DEF Code
  <2>3. CASE mem[a] \in {OpExit, OpPushint, OpRun}
    <3>1. mem[a] \in 0 .. 16 /\ mem[a] # OpSet /\ mem[a] # OpDiv /\ mem[a] # OpImmediate
      BY <2>3, CodesAreNumbers
    <3> QED BY <3>1, CodesAreNumbers DEF Code
  <2>4. a \in C \/ a = H
    BY <1>3
  <2> QED BY <1>2, <2>1, <2>2, <2>3, <2>4 DEF CellOk
<1>4. ASSUME NEW a \in X, mem[a] = OpPushint PROVE a + 2 <= H
  <2>1. mem[a] = 15 /\ mem[H] # 15
    BY <1>2, <1>4, CodesAreNumbers
  <2>2. a \in C
    BY <2>1
  <2>3. mem[a] \notin UsedOps /\ mem[a] \notin Codes(defs)
    BY <1>1, <2>1, UsedOpsAreNumbers
  <2>4. a + 2 \in X
    BY <1>2, <1>4, <2>1, <2>2, <2>3, CodesAreNumbers DEF CellOk
  <2> QED BY <1>2, <2>4
<1> QED BY <1>2, <1>3, <1>4

LEMMA MainCells ==
  ASSUME TypeOK, Words
  PROVE  /\ mem[Entry(defs)] = OpRead /\ mem[Entry(defs) + 1] = Entry(defs)
         /\ mem[Entry(defs) + 2] = OpExit
         /\ Entry(defs) \in CodeFields /\ Entry(defs) \in Nat /\ 17 <= Entry(defs)
         /\ OpRead \in Code /\ OpExit \in Code /\ Entry(defs) \in Code
<1>1. Codes(defs) = CodeFields /\ Entry(defs) \in Nat /\ 17 <= Entry(defs) /\ 1 \in 1 .. Len(defs)
  BY CodesAreWords, WordNumbers
<1>2. Entry(defs) \in CodeFields
  BY <1>1 DEF Codes, Entry
<1>3. OpRead \in Ops \ {OpSet} /\ OpExit \in Ops \ {OpSet}
  BY CodesAreNumbers
<1> QED BY <1>1, <1>2, <1>3 DEF Words, MainLoop, Code

LEMMA ReturnCells ==
  ASSUME TypeOK, Words, NEW X, \A a \in X : mem[a] \in Code,
         NEW k \in 0 .. Len(calls), InCode(k, X) \/ InMain(k)
  PROVE  /\ \A i \in 1 .. Len(calls) : mem[calls[i]] \in Code
         /\ InCode(k, X) => 0 < Len(calls)
<1>1. Len(calls) \in Nat
  BY MachineTypes
<1>2. CASE InMain(k)
  BY <1>1, <1>2, MainCells DEF InMain, InCode
<1>3. CASE InCode(k, X)
  <2>1. k < Len(calls)
    BY <1>3 DEF InCode
  <2>2. ASSUME NEW i \in 1 .. Len(calls) PROVE mem[calls[i]] \in Code
    <3>1. CASE i \in 1 .. k
      <4>1. calls[i] = Entry(defs) + 2
        BY <1>3, <3>1 DEF InCode
      <4> QED BY <4>1, MainCells
    <3>2. CASE i = k + 1
      <4>1. calls[i] = Entry(defs) + 1
        BY <1>3, <3>2 DEF InCode
      <4> QED BY <4>1, MainCells
    <3>3. CASE i \in k + 2 .. Len(calls)
      BY <1>3, <3>3 DEF InCode
    <3> QED BY <1>1, <2>1, <3>1, <3>2, <3>3
  <2> QED BY <1>1, <2>1, <2>2
<1> QED BY <1>2, <1>3

\* The code that comes next, when nothing is left to do of another method; an
\* immediate comes right after the header of the last word.
Sound ==
  /\ MemBase <= prog /\ prog <= H + 1 /\ mem[prog] \in Code
  /\ mem[prog] = OpDiv => OpDiv \in UsedOps
  /\ mem[prog] = OpExit => 0 < Len(calls)
  /\ mem[prog] = OpPushint => prog + 2 <= H
  /\ mem[prog] = OpImmediate => H = last + 4
  /\ \A i \in 1 .. Len(calls) : mem[calls[i]] \in Code

LEMMA IdleIsSound ==
  ASSUME WellBracketed, IInv, Base, Words, NEW C \in SUBSET Word, Idle(C)
  PROVE  Sound
<1>1. /\ TypeOK /\ H \in 0 .. Top - 1 /\ Top \in Nat /\ MemBase \in Nat /\ MemBase <= H
      /\ last \in 0 .. Top - 1 /\ Entry(defs) + 3 <= last /\ MemBase <= Entry(defs)
      /\ Entry(defs) \in Nat
  BY WordNumbers DEF IInv, Base
<1>2. PICK X \in SUBSET Word, n \in Nat :
        /\ X = Reached(C, InBody) /\ n = IF form = "named" THEN Len(defs) - 1 ELSE Len(defs)
  <2>1. Reached(C, InBody) \in SUBSET Word
    BY <1>1 DEF Reached, Word
  <2>2. (IF form = "named" THEN Len(defs) - 1 ELSE Len(defs)) \in Nat
    BY <1>1, WordNumbers
  <2> QED BY <2>1, <2>2
<1>3. Built(C, X, n) /\ Roomy(0) /\ X \subseteq C \union {H}
  BY <1>2 DEF Idle, Reached
<1>4. \A a \in X : /\ MemBase <= a /\ a <= H /\ mem[a] \in Code
                   /\ mem[a] = OpDiv => OpDiv \in UsedOps
                   /\ mem[a] # OpImmediate
                   /\ mem[a] = OpPushint => a + 2 <= H
  BY <1>3, CodeCells
<1>5. PICK k \in 0 .. Len(calls) :
        \/ prog \in {Entry(defs), Entry(defs) + 1} /\ InMain(k)
        \/ prog \in X /\ InCode(k, X)
        \/ prog = H + 1 /\ mem[H] = OpRun /\ InBody /\ InCode(k, X)
  BY <1>2 DEF Idle
<1>6. /\ \A i \in 1 .. Len(calls) : mem[calls[i]] \in Code
      /\ InCode(k, X) => 0 < Len(calls)
  BY <1>1, <1>4, <1>5, ReturnCells
<1>7. CASE prog \in {Entry(defs), Entry(defs) + 1}
  <2>1. mem[prog] \in {OpRead, Entry(defs)} /\ mem[prog] \in Code
    BY <1>1, <1>7, MainCells
  <2>2. /\ mem[prog] # OpDiv /\ mem[prog] # OpExit /\ mem[prog] # OpPushint
        /\ mem[prog] # OpImmediate
    BY <1>1, <2>1, MainCells, CodesAreNumbers
  <2>3. last + 3 <= H
    BY <1>1, <1>3 DEF Built, Free
  <2>4. MemBase <= prog /\ prog <= H + 1
    BY <1>1, <1>7, <2>3
  <2> QED BY <1>6, <2>1, <2>2, <2>4 DEF Sound
<1>8. CASE prog \in X /\ InCode(k, X)
  <2>1. prog <= H + 1
    <3>1. prog \in Word
      BY <1>8
    <3> QED BY <1>1, <1>4, <1>8, <3>1 DEF Word
  <2> QED BY <1>4, <1>6, <1>8, <2>1 DEF Sound
<1>9. CASE prog = H + 1 /\ InCode(k, X)
  <2>1. H + 1 < Top /\ 0 \in Nat
    BY <1>3, RoomIsLeft
  <2>2. prog \in Word /\ prog > H
    BY <1>1, <1>9, <2>1 DEF Word
  <2>3. /\ mem[prog] = OpExit /\ OpExit # OpDiv /\ OpExit # OpPushint
        /\ OpExit # OpImmediate
    BY <2>2, CodesAreNumbers DEF Base
  <2>4. MemBase <= prog
    BY <1>1, <1>9
  <2> QED BY <1>1, <1>6, <1>9, <2>3, <2>4, MainCells DEF Sound
<1> QED BY <1>5, <1>7, <1>8, <1>9

LEMMA AtHeadIsSound ==
  ASSUME WellBracketed, IInv, Base, Words, NEW C \in SUBSET Word, AtHead(C)
  PROVE  Sound
<1>1. /\ TypeOK /\ H \in 0 .. Top - 1 /\ Top \in Nat /\ MemBase \in Nat /\ Len(defs) \in Nat
      /\ 14 <= Len(defs) /\ H \in Word
  BY WordNumbers DEF IInv, Word
<1>2. PICK X \in SUBSET Word, w \in 0 .. Top - 1, i \in 2 .. Len(defs) :
        /\ w = defs[i].word /\ prog = w + 2 /\ Inside(X) /\ MemBase <= w
        /\ \/ /\ token = "immediate" /\ i = 4 /\ InBody /\ X = C
              /\ Built(C, X, Len(defs) - 1) /\ w + 4 <= H /\ BuiltinHead(mem, i, w)
           \/ /\ token = "exit" /\ i = 2 /\ form = "top" /\ X = C \union {H}
              /\ Built(C, X, Len(defs)) /\ w + 4 <= H /\ BuiltinHead(mem, i, w)
           \/ /\ token = ":" /\ i = 3 /\ form = "top" /\ X = C
              /\ Built(C, X, Len(defs)) /\ w + 4 <= H /\ BuiltinHead(mem, i, w)
           \/ /\ token # "exit" /\ i \in 5 .. 14 /\ i - 2 \in UsedOps /\ X = Reached(C, InBody)
              /\ Built(C, X, Len(defs)) /\ w + 5 <= H /\ BuiltinHead(mem, i, w)
           \/ /\ i > 14 /\ X = Reached(C, InBody) /\ Built(C, X, Len(defs))
              /\ w + 3 <= H /\ UserHead(mem, w, X)
  BY HeadFacts DEF HeadIs
<1>3. /\ X \subseteq C \union {H} /\ w + 3 <= H
      /\ Built(C, X, Len(defs)) \/ Built(C, X, Len(defs) - 1)
      /\ BuiltinHead(mem, i, w) \/ UserHead(mem, w, X)
  BY <1>1, <1>2 DEF Reached
<1>4. \A a \in X : mem[a] \in Code
  <2>1. Len(defs) - 1 \in Nat
    BY <1>1
  <2> QED BY <1>1, <1>3, <2>1, CodeCells
<1>5. PICK k \in 0 .. Len(calls) : InCode(k, X)
  BY <1>2 DEF Inside
<1>6. (\A a \in 1 .. Len(calls) : mem[calls[a]] \in Code) /\ 0 < Len(calls)
  BY <1>1, <1>4, <1>5, ReturnCells
<1>7. mem[w + 2] \in {OpCompIt, OpDefine, OpImmediate, OpRun, OpCompile}
  BY <1>3, CodesAreNumbers DEF BuiltinHead, UserHead
<1>8. mem[prog] \in Code /\ mem[prog] # OpDiv /\ mem[prog] # OpPushint
  <2>1. /\ mem[prog] \in 0 .. 16 /\ mem[prog] # OpDiv /\ mem[prog] # OpPushint
        /\ mem[prog] # OpSet
    BY <1>2, <1>7, CodesAreNumbers
  <2> QED BY <2>1, CodesAreNumbers DEF Code
<1>9. MemBase <= prog /\ prog <= H + 1
  BY <1>1, <1>2, <1>3
<1>10. mem[prog] = OpImmediate => H = last + 4
  <2>1. mem[w + 2] = OpImmediate => i = 4 \/ ~BuiltinHead(mem, i, w)
    BY <1>1, CodesAreNumbers DEF BuiltinHead
  <2>2. UserHead(mem, w, X) => mem[w + 2] # OpImmediate
    BY CodesAreNumbers DEF UserHead
  <2>3. mem[prog] = OpImmediate => Built(C, X, Len(defs) - 1)
    BY <1>2, <2>1, <2>2
  <2>4. Len(defs) - 1 # Len(defs)
    BY <1>1
  <2> QED BY <2>3, <2>4 DEF Built, Sealed
<1> QED BY <1>6, <1>8, <1>9, <1>10 DEF Sound

LEMMA WorkIsSound ==
  ASSUME WellBracketed, IInv, Working, todo = << >>
  PROVE  Sound
<1>1. PICK C \in SUBSET Word : Phase(C)
  BY DEF Working
<1>2. Base /\ Words
  BY DEF Working
<1>3. ~LookingUp(C) /\ ~Literal1(C) /\ ~Literal2(C)
  BY JobLists DEF LookingUp, Literal1, Literal2
<1>4. ~Calling(C) /\ ~Copying(C) /\ ~Returning(C)
  BY JobLists DEF Calling, Copying, Returning
<1>5. ~Defining(C)
  BY JobLists DEF Defining
<1> QED BY <1>1, <1>2, <1>3, <1>4, <1>5, IdleIsSound, AtHeadIsSound DEF Phase
----------------------------------------------------------------------------
(* The last word has a header, and what is left to do.                     *)

LEMMA WorkHasHeaders ==
  ASSUME IInv, Working
  PROVE  last + 3 <= H
<1>1. PICK C \in SUBSET Word : Phase(C)
  BY DEF Working
<1>2. /\ H \in 0 .. Top - 1 /\ last \in 0 .. Top - 1 /\ Top \in Nat
  BY WordNumbers DEF IInv, Working
<1>3. CASE \E X, n : Built(C, X, n)
  BY <1>2, <1>3 DEF Built, Free
<1>4. CASE Literal2(C)
  BY <1>2, <1>4 DEF Literal2
<1>5. CASE Defining(C)
  <2>1. PICK w \in Word : last + 4 <= w /\ \E nm, j : j \in 0 .. 4 /\ HeaderAt(w, nm, j)
    BY <1>5 DEF Defining
  <2>2. w <= H
    BY <1>2, <2>1 DEF HeaderAt, Word
  <2> QED BY <1>2, <2>1, <2>2 DEF Word
<1>6. Idle(C) \/ LookingUp(C) \/ AtHead(C) => \E X, n : Built(C, X, n)
  BY DEF Idle, LookingUp, AtHead, Token
<1>7. Literal1(C) \/ Calling(C) \/ Copying(C) \/ Returning(C) => \E X, n : Built(C, X, n)
  BY DEF Literal1, Calling, Copying, Returning
<1> QED BY <1>1, <1>3, <1>4, <1>5, <1>6, <1>7 DEF Phase

LEMMA BootHasHeaders ==
  ASSUME IInv, Booting, defs # << >>
  PROVE  last + 3 <= H
<1>1. /\ Compiling /\ last = defs[Len(defs)].word /\ Len(defs) \in Nat /\ Len(defs) # 0
  <2>1. TypeOK
    BY DEF IInv
  <2>2. Len(defs) \in Nat /\ Len(defs) # 0
    BY <2>1, EmptySeq, MachineTypes DEF TypeOK
  <2> QED BY <2>2 DEF Booting, Compiling
<1>2. /\ H \in 0 .. Top - 1 /\ last \in 0 .. Top - 1 /\ Top \in Nat
  BY MachineTypes, WordFacts DEF IInv, Word
<1>3. CASE Entering
  <2>1. PICK w \in Word : \/ \E j \in 6 .. 7 : EntryEnd(w, j)
                          \/ \E j \in 1 .. 3 : LoopCells(w, j)
    BY <1>3 DEF Entering, EntryHead
  <2>2. Len(defs) = 1 /\ defs[1].word = w /\ w \in Nat /\ w + 3 <= H
    BY <1>2, <2>1 DEF EntryEnd, LoopCells, Word
  <2> QED BY <1>1, <2>2
<1>4. CASE \E op \in 0 .. 13 : Between(op)
  <2>1. PICK op \in 0 .. 13 : Between(op)
    BY <1>4
  <2>2. PICK i \in 1 .. 14 : i = op + 1
    OBVIOUS
  <2>3. Len(defs) = i /\ defs[i].word + Span(i) <= H /\ Span(i) >= 4 /\ Span(i) \in Nat
    BY <2>1, <2>2 DEF Between, Made, Span
  <2> QED BY <1>1, <1>2, <2>3
<1>5. CASE \E op \in 0 .. 12 : Making(op)
  <2>1. PICK op \in 0 .. 12 : Making(op)
    BY <1>5
  <2>2. PICK w \in Word : \E nm \in Word, x \in Nat :
          /\ MakingAt(op, w, nm, x)
          /\ \/ \E j \in 1 .. 5 : MakingHead(op, w, nm, j)
             \/ \E j \in 6 .. 10 : MakingBody(op, w, nm, j)
    BY <2>1 DEF Making
  <2>3. PICK nm \in Word : \E x \in Nat :
          /\ MakingAt(op, w, nm, x)
          /\ \/ \E j \in 1 .. 5 : MakingHead(op, w, nm, j)
             \/ \E j \in 6 .. 10 : MakingBody(op, w, nm, j)
    BY <2>2
  <2>4. PICK x \in Nat :
          /\ MakingAt(op, w, nm, x)
          /\ \/ \E j \in 1 .. 5 : MakingHead(op, w, nm, j)
             \/ \E j \in 6 .. 10 : MakingBody(op, w, nm, j)
    BY <2>3
  <2>5. CASE \E j \in 1 .. 5 : MakingHead(op, w, nm, j)
    <3>1. PICK j \in 1 .. 5 : MakingHead(op, w, nm, j)
      BY <2>5
    <3>2. PICK i \in 1 .. 13 : i = op + 1
      OBVIOUS
    <3>3. Len(defs) = i /\ w <= H /\ w \in Nat
      BY <1>2, <3>1, <3>2 DEF MakingHead, HeaderCells, Word
    <3>4. defs[i].word + Span(i) <= w /\ Span(i) >= 4 /\ Span(i) \in Nat
      BY <2>4, <3>2 DEF MakingAt, Made, Span
    <3> QED BY <1>1, <1>2, <3>3, <3>4
  <2>6. CASE \E j \in 6 .. 10 : MakingBody(op, w, nm, j)
    <3>1. PICK j \in 6 .. 10 : MakingBody(op, w, nm, j)
      BY <2>6
    <3>2. last = w /\ BodyCells(op, w, j)
      BY <1>1, <3>1 DEF MakingBody
    <3> QED BY <1>2, <3>2 DEF BodyCells
  <2> QED BY <2>4, <2>5, <2>6
<1> QED BY <1>3, <1>4, <1>5 DEF Booting

\* The jobs that init leaves to do.
BootJobs == {"compile", "setLast", "immediate", "inline", "entry", "builtin"}

LEMMA BootHasJobs ==
  ASSUME IInv, Booting, ~Between(13)
  PROVE  todo # << >> /\ Head(todo).do \in BootJobs
<1>1. Compiling
  BY DEF Booting
<1>2. \A v : /\ DoCompile(v).do \in BootJobs /\ Do("setLast", v).do \in BootJobs
             /\ Do("inline", v).do \in BootJobs /\ Do("entry", v).do \in BootJobs
             /\ Do("builtin", v).do \in BootJobs /\ DoImmediate.do \in BootJobs
  BY DEF BootJobs, DoCompile, DoImmediate, Do
<1>3. CASE Entering
  <2>1. PICK w \in Word : \/ \E j \in 1 .. 7 : todo = RestOf(EntryJobs(w), j)
                          \/ \E j \in 1 .. 3 : todo = RestOf(LoopJobs(w + 3), j) /\ H = w + 2 + j
    BY <1>3 DEF Entering, EntryHead, EntryEnd, LoopCells
  <2>2. CASE \E j \in 1 .. 7 : todo = RestOf(EntryJobs(w), j)
    <3>1. PICK j \in 1 .. 7 : todo = RestOf(EntryJobs(w), j)
      BY <2>2
    <3>2. PICK s \in TodoType : s = EntryJobs(w)
      BY EntryItems
    <3>3. /\ Len(s) = 7 /\ s[1] = DoCompile(0) /\ s[2] = DoCompile(0) /\ s[3] = DoCompile(OpCompile)
          /\ s[4] = DoCompile(OpRun) /\ s[5] = Do("setLast", w)
          /\ s[6] = DoImmediate /\ s[7] = Do("entry", 0)
      BY <3>2, EntryItems
    <3>4. j \in 1 .. Len(s) /\ todo = RestOf(s, j)
      BY <3>1, <3>2, <3>3
    <3>5. todo # << >> /\ Head(todo) = s[j]
      BY <3>4, RestFacts
    <3>6. j = 1 \/ j = 2 \/ j = 3 \/ j = 4 \/ j = 5 \/ j = 6 \/ j = 7
      OBVIOUS
    <3> QED BY <1>2, <3>3, <3>5, <3>6
  <2>3. CASE \E j \in 1 .. 3 : todo = RestOf(LoopJobs(w + 3), j) /\ H = w + 2 + j
    <3>1. PICK j \in 1 .. 3 : todo = RestOf(LoopJobs(w + 3), j) /\ H = w + 2 + j
      BY <2>3
    <3>2. w + 3 \in Word
      <4>1. H \in Word /\ Top \in Nat
        BY MachineTypes, WordFacts DEF IInv
      <4> QED BY <3>1, <4>1 DEF Word
    <3>3. PICK e \in Word : e = w + 3
      BY <3>2
    <3>4. PICK s \in TodoType : s = LoopJobs(e)
      BY LoopItems
    <3>5. /\ Len(s) = 4 /\ s[1] = DoCompile(OpRead) /\ s[2] = DoCompile(e) /\ s[3] = DoCompile(OpExit)
      BY <3>4, LoopItems
    <3>6. j \in 1 .. Len(s) /\ todo = RestOf(s, j)
      BY <3>1, <3>3, <3>4, <3>5
    <3>7. todo # << >> /\ Head(todo) = s[j]
      BY <3>6, RestFacts
    <3>8. j = 1 \/ j = 2 \/ j = 3
      OBVIOUS
    <3> QED BY <1>2, <3>5, <3>7, <3>8
  <2> QED BY <2>1, <2>2, <2>3
<1>4. CASE \E op \in 0 .. 13 : Between(op)
  <2>1. PICK op \in 0 .. 13 : Between(op)
    BY <1>4
  <2>2. op # 13
    BY <2>1
  <2>3. todo = <<Do("builtin", op)>>
    BY <2>1, <2>2 DEF Between
  <2>4. todo # << >> /\ Head(todo) = Do("builtin", op)
    BY <2>3, JobLists
  <2> QED BY <1>2, <2>4
<1>5. CASE \E op \in 0 .. 12 : Making(op)
  <2>1. PICK op \in 0 .. 12 : Making(op)
    BY <1>5
  <2>2. PICK w \in Word : \E nm \in Word :
          \/ \E j \in 1 .. 5 : MakingHead(op, w, nm, j)
          \/ \E j \in 6 .. 10 : MakingBody(op, w, nm, j)
    BY <2>1 DEF Making
  <2>3. PICK nm \in Word : \/ \E j \in 1 .. 5 : MakingHead(op, w, nm, j)
                           \/ \E j \in 6 .. 10 : MakingBody(op, w, nm, j)
    BY <2>2
  <2>4. PICK l \in Word, j \in 1 .. 10 :
          /\ todo = RestOf(BuiltinJobs(l, nm, w, op), j)
          /\ j > 5 => BodyCells(op, w, j)
    <3>1. last \in Word /\ (Len(defs) = op + 2 => defs[op + 1].word \in Word)
      <4>1. last \in Word /\ \A i \in 1 .. Len(defs) : defs[i].word \in Word
        BY MachineTypes DEF IInv
      <4>2. Len(defs) = op + 2 => op + 1 \in 1 .. Len(defs)
        OBVIOUS
      <4> QED BY <4>1, <4>2
    <3>2. CASE \E j \in 1 .. 5 : MakingHead(op, w, nm, j)
      <4>1. PICK j \in 1 .. 5 : MakingHead(op, w, nm, j)
        BY <3>2
      <4>2. j \in 1 .. 10 /\ ~(j > 5)
        OBVIOUS
      <4> QED BY <3>1, <4>1, <4>2 DEF MakingHead
    <3>3. CASE \E j \in 6 .. 10 : MakingBody(op, w, nm, j)
      <4>1. PICK j \in 6 .. 10 : MakingBody(op, w, nm, j)
        BY <3>3
      <4>2. j \in 1 .. 10
        OBVIOUS
      <4> QED BY <3>1, <4>1, <4>2 DEF MakingBody
    <3> QED BY <2>3, <3>2, <3>3
  <2>5. PICK s \in TodoType : s = BuiltinJobs(l, nm, w, op)
    BY BuiltinJobsItems
  <2>6. /\ s[1] = DoCompile(l) /\ s[2] = DoCompile(nm) /\ s[3] = DoCompile(OpCompile)
        /\ s[4] = DoCompile(OpRun) /\ s[5] = Do("setLast", w) /\ s[6] = Do("inline", 0)
        /\ op = 0 => Len(s) = 9 /\ s[7] = DoCompile(op) /\ s[8] = DoImmediate
        /\ op \in 1 .. 2 => /\ Len(s) = 11 /\ s[7] = DoImmediate /\ s[8] = DoCompile(op)
                            /\ s[9] = DoImmediate /\ s[10] = DoCompile(OpExit)
        /\ op > 2 => /\ Len(s) \in 9 .. 10 /\ s[7] = DoCompile(op) /\ s[8] = DoImmediate
                     /\ s[9] = DoCompile(OpExit)
    <3>1. op > 2 => op < 12 \/ op = 12
      OBVIOUS
    <3> QED BY <2>5, <3>1, BuiltinJobsItems
  <2>7. /\ op = 0 => j <= 8
        /\ op > 2 => j <= 9
    BY <2>4 DEF BodyCells
  <2>8. PICK n \in 9 .. 11 : n = Len(s)
    BY <2>6
  <2>9. j \in 1 .. Len(s)
    BY <2>6, <2>7, <2>8
  <2>10. todo # << >> /\ Head(todo) = s[j]
    BY <2>4, <2>5, <2>9, RestFacts
  <2>11. /\ s[1].do \in BootJobs /\ s[2].do \in BootJobs /\ s[3].do \in BootJobs
         /\ s[4].do \in BootJobs /\ s[5].do \in BootJobs /\ s[6].do \in BootJobs
         /\ s[7].do \in BootJobs /\ s[8].do \in BootJobs
         /\ op # 0 => s[9].do \in BootJobs
         /\ op \in 1 .. 2 => s[10].do \in BootJobs
    BY <1>2, <2>6
  <2>12. /\ j \in {1, 2, 3, 4, 5, 6, 7, 8} \/ (j = 9 /\ op # 0) \/ (j = 10 /\ op \in 1 .. 2)
    BY <2>7
  <2> QED BY <2>10, <2>11, <2>12
<1> QED BY <1>3, <1>4, <1>5 DEF Booting

\* init only takes back the cell after a code field.
LEMMA BootShrinks ==
  ASSUME IInv, Booting, todo # << >>, Head(todo).do = "immediate"
  PROVE  H = last + 4 \/ H = last + 5
<1>1. Compiling
  BY DEF Booting
<1>2. \A v : /\ DoCompile(v).do # "immediate" /\ Do("setLast", v).do # "immediate"
             /\ Do("inline", v).do # "immediate" /\ Do("entry", v).do # "immediate"
             /\ Do("builtin", v).do # "immediate"
  BY DEF DoCompile, Do
<1>3. CASE Entering
  <2>1. PICK w \in Word : \/ \E j \in 1 .. 5 : EntryHead(w, j)
                          \/ \E j \in 6 .. 7 : EntryEnd(w, j)
                          \/ \E j \in 1 .. 3 : LoopCells(w, j)
    BY <1>3 DEF Entering
  <2>2. CASE \E j \in 1 .. 7 : todo = RestOf(EntryJobs(w), j) /\ (j = 6 => EntryEnd(w, 6))
    <3>1. PICK j \in 1 .. 7 : todo = RestOf(EntryJobs(w), j) /\ (j = 6 => EntryEnd(w, 6))
      BY <2>2
    <3>2. PICK s \in TodoType : s = EntryJobs(w)
      BY EntryItems
    <3>3. /\ Len(s) = 7 /\ s[1] = DoCompile(0) /\ s[2] = DoCompile(0) /\ s[3] = DoCompile(OpCompile)
          /\ s[4] = DoCompile(OpRun) /\ s[5] = Do("setLast", w) /\ s[7] = Do("entry", 0)
      BY <3>2, EntryItems
    <3>4. j \in 1 .. Len(s) /\ todo = RestOf(s, j)
      BY <3>1, <3>2, <3>3
    <3>5. Head(todo) = s[j]
      BY <3>4, RestFacts
    <3>6. j = 1 \/ j = 2 \/ j = 3 \/ j = 4 \/ j = 5 \/ j = 6 \/ j = 7
      OBVIOUS
    <3>7. j = 6
      BY <1>2, <3>3, <3>5, <3>6
    <3>8. Len(defs) = 1 /\ defs[1].word = w /\ H = w + 4
      BY <3>1, <3>7 DEF EntryEnd
    <3>9. defs # << >>
      BY <3>8, EmptySeq
    <3> QED BY <1>1, <3>8, <3>9 DEF Compiling
  <2>3. CASE \E j \in 1 .. 3 : LoopCells(w, j)
    <3>1. PICK j \in 1 .. 3 : todo = RestOf(LoopJobs(w + 3), j) /\ H = w + 2 + j
      BY <2>3 DEF LoopCells
    <3>2. w + 3 \in Word
      <4>1. H \in Word /\ Top \in Nat
        BY MachineTypes, WordFacts DEF IInv
      <4> QED BY <3>1, <4>1 DEF Word
    <3>3. PICK e \in Word : e = w + 3
      BY <3>2
    <3>4. PICK s \in TodoType : s = LoopJobs(e)
      BY LoopItems
    <3>5. /\ Len(s) = 4 /\ s[1] = DoCompile(OpRead) /\ s[2] = DoCompile(e) /\ s[3] = DoCompile(OpExit)
      BY <3>4, LoopItems
    <3>6. j \in 1 .. Len(s) /\ todo = RestOf(s, j)
      BY <3>1, <3>3, <3>4, <3>5
    <3>7. Head(todo) = s[j]
      BY <3>6, RestFacts
    <3>8. j = 1 \/ j = 2 \/ j = 3
      OBVIOUS
    <3> QED BY <1>2, <3>5, <3>7, <3>8
  <2>4. CASE \E j \in 1 .. 5 : EntryHead(w, j)
    <3>1. PICK j \in 1 .. 5 : EntryHead(w, j)
      BY <2>4
    <3>2. j \in 1 .. 7 /\ j # 6
      OBVIOUS
    <3> QED BY <2>2, <3>1, <3>2 DEF EntryHead
  <2>5. CASE \E j \in 6 .. 7 : EntryEnd(w, j)
    <3>1. PICK j \in 6 .. 7 : EntryEnd(w, j)
      BY <2>5
    <3>2. j \in 1 .. 7
      OBVIOUS
    <3>3. todo = RestOf(EntryJobs(w), j)
      BY <3>1 DEF EntryEnd
    <3> QED BY <2>2, <3>1, <3>2, <3>3
  <2> QED BY <2>1, <2>3, <2>4, <2>5
<1>4. CASE \E op \in 0 .. 13 : Between(op)
  <2>1. PICK op \in 0 .. 13 : Between(op)
    BY <1>4
  <2>2. todo = <<Do("builtin", op)>>
    BY <2>1 DEF Between
  <2>3. Head(todo) = Do("builtin", op)
    BY <2>2, JobLists
  <2> QED BY <1>2, <2>3
<1>5. CASE \E op \in 0 .. 12 : Making(op)
  <2>1. PICK op \in 0 .. 12 : Making(op)
    BY <1>5
  <2>2. PICK w \in Word : \E nm \in Word, x \in Nat :
          /\ MakingAt(op, w, nm, x)
          /\ \/ \E j \in 1 .. 5 : MakingHead(op, w, nm, j)
             \/ \E j \in 6 .. 10 : MakingBody(op, w, nm, j)
    BY <2>1 DEF Making
  <2>3. PICK nm \in Word : \E x \in Nat :
          /\ MakingAt(op, w, nm, x)
          /\ \/ \E j \in 1 .. 5 : MakingHead(op, w, nm, j)
             \/ \E j \in 6 .. 10 : MakingBody(op, w, nm, j)
    BY <2>2
  <2>4. PICK x \in Nat :
          /\ MakingAt(op, w, nm, x)
          /\ \/ \E j \in 1 .. 5 : MakingHead(op, w, nm, j)
             \/ \E j \in 6 .. 10 : MakingBody(op, w, nm, j)
    BY <2>3
  <2>5. CASE \E j \in 1 .. 5 : MakingHead(op, w, nm, j)
    <3>1. PICK j \in 1 .. 5 : todo = RestOf(BuiltinJobs(last, nm, w, op), j)
      BY <2>5 DEF MakingHead
    <3>2. PICK l \in Word : l = last
      BY MachineTypes DEF IInv
    <3>3. PICK s \in TodoType : s = BuiltinJobs(l, nm, w, op)
      BY BuiltinJobsItems
    <3>4. /\ s[1] = DoCompile(l) /\ s[2] = DoCompile(nm) /\ s[3] = DoCompile(OpCompile)
          /\ s[4] = DoCompile(OpRun) /\ s[5] = Do("setLast", w)
      BY <3>3, BuiltinJobsItems
    <3>5. PICK n \in 9 .. 11 : n = Len(s)
      <4>1. op = 0 \/ op \in 1 .. 2 \/ (op > 2 /\ op < 12) \/ op = 12
        OBVIOUS
      <4>2. Len(s) = 9 \/ Len(s) = 10 \/ Len(s) = 11
        BY <3>3, <4>1, BuiltinJobsItems
      <4> QED BY <4>2
    <3>6. j \in 1 .. Len(s)
      BY <3>5
    <3>7. Head(todo) = s[j]
      BY <3>1, <3>2, <3>3, <3>6, RestFacts
    <3>8. j = 1 \/ j = 2 \/ j = 3 \/ j = 4 \/ j = 5
      OBVIOUS
    <3> QED BY <1>2, <3>4, <3>7, <3>8
  <2>6. CASE \E j \in 6 .. 10 : MakingBody(op, w, nm, j)
    <3>1. PICK j \in 6 .. 10 : MakingBody(op, w, nm, j)
      BY <2>6
    <3>2. /\ last = w /\ BodyCells(op, w, j)
          /\ j = 6 => Head(todo) = Do("inline", 0)
          /\ op = 0 => (j = 7 => Head(todo) = DoCompile(op))
          /\ op \in 1 .. 2 => /\ j = 8 => Head(todo) = DoCompile(op)
                              /\ j = 10 => Head(todo) = DoCompile(OpExit)
          /\ op > 2 => /\ j = 7 => Head(todo) = DoCompile(op)
                       /\ j = 9 => Head(todo) = DoCompile(OpExit)
      BY <1>1, <2>4, <3>1, BodyFacts
    <3>3. j # 6 /\ (op = 0 => j # 7) /\ (op \in 1 .. 2 => j # 8 /\ j # 10) /\ (op > 2 => j # 7 /\ j # 9)
      BY <1>2, <3>2
    <3> QED BY <3>2, <3>3 DEF BodyCells
  <2> QED BY <2>4, <2>5, <2>6
<1> QED BY <1>3, <1>4, <1>5 DEF Booting

LEMMA WorkJobs ==
  ASSUME Working, todo # << >>
  PROVE  \/ Head(todo).do = "lookup" /\ \E C \in SUBSET Word : LookingUp(C)
         \/ Head(todo).do \in {"compile", "setLast", "compileit"}
         \/ Head(todo).do = "exit" /\ 0 < Len(calls)
<1>1. PICK C \in SUBSET Word : Phase(C)
  BY DEF Working
<1>2. ~Idle(C) /\ ~AtHead(C)
  BY DEF Idle, AtHead
<1>3. CASE LookingUp(C)
  <2>1. PICK a : todo = <<Do("lookup", a)>>
    BY <1>3 DEF LookingUp
  <2>2. Head(todo) = Do("lookup", a)
    BY <2>1
  <2> QED BY <1>3, <2>2 DEF Do
<1>4. CASE Literal1(C) \/ Literal2(C) \/ Calling(C)
  <2>1. PICK v : Head(todo) = DoCompile(v)
    BY <1>4, JobLists DEF Literal1, Literal2, Calling
  <2> QED BY <2>1, JobFields
<1>5. CASE Copying(C)
  <2>1. PICK v : todo = <<Do("compileit", v)>>
    BY <1>5 DEF Copying
  <2>2. Head(todo) = Do("compileit", v)
    BY <2>1
  <2> QED BY <2>2 DEF Do
<1>6. CASE Returning(C)
  <2>1. PICK k \in 0 .. Len(calls) : k < Len(calls)
    BY <1>6 DEF Returning, Inside, InCode
  <2>2. Head(todo) = DoExit
    BY <1>6, JobLists DEF Returning
  <2>3. 0 < Len(calls)
    BY <2>1
  <2> QED BY <2>2, <2>3, JobFields
<1>7. CASE Defining(C)
  <2>1. PICK w \in Word, nm \in 1 .. Len(strings) :
          \/ todo = <<DoCompile(last), DoCompile(nm), DoCompile(OpCompile), DoCompile(OpRun),
                      Do("setLast", w)>>
          \/ todo = <<DoCompile(nm), DoCompile(OpCompile), DoCompile(OpRun), Do("setLast", w)>>
          \/ todo = <<DoCompile(OpCompile), DoCompile(OpRun), Do("setLast", w)>>
          \/ todo = <<DoCompile(OpRun), Do("setLast", w)>>
          \/ todo = <<Do("setLast", w)>>
    BY <1>7 DEF Defining
  <2>2. Head(todo) \in {DoCompile(last), DoCompile(nm), DoCompile(OpCompile), DoCompile(OpRun),
                       Do("setLast", w)}
    BY <2>1
  <2> QED BY <2>2 DEF DoCompile, Do
<1> QED BY <1>1, <1>2, <1>3, <1>4, <1>5, <1>6, <1>7 DEF Phase
----------------------------------------------------------------------------
(* How a machine halts.                                                    *)

\* As long as it runs, and when it runs out of memory.
GoodEnds == {"running", "retOver", "stackUnderflow", "literal", "limit", "EOF"}

LEMMA StackTop ==
  ASSUME IInv, Base
  PROVE  /\ Minus1(RetBase) = RetBase - 1 /\ RetBase \in Nat /\ R \in Nat /\ Len(calls) \in Nat
         /\ R = RetBase - 1 + Len(calls)
<1>1. /\ RetBase \in 0 .. Top - 1 /\ R \in 0 .. Top - 1 /\ Top \in Nat /\ Len(calls) \in Nat
  BY MachineTypes, WordFacts DEF IInv, Word
<1> QED BY <1>1 DEF Base, StackOk, Minus1

LEMMA CallEnds ==
  ASSUME IInv, Base, Running, NEW ret, NEW target, Call(ret, target)
  PROVE  status' \in GoodEnds
<1>1. ~(R < Minus1(RetBase))
  BY StackTop
<1>2. PushrFault(ret) \in {"retOver", "limit", "none"}
  BY <1>1 DEF PushrFault
<1>3. PushrFault(ret) # "none" => status' = PushrFault(ret)
  BY DEF Call, Halts
<1>4. PushrFault(ret) = "none" => status' = status
  BY DEF Call
<1> QED BY <1>2, <1>3, <1>4 DEF GoodEnds, Running

LEMMA ExitEnds ==
  ASSUME IInv, Base, Running, NEW ret, Exit(ret), 0 < Len(calls)
  PROVE  status' \in GoodEnds
<1>1. ~(R < Minus1(RetBase)) /\ R # Minus1(RetBase)
  BY StackTop
<1>2. PoprFault \in {"retOver", "limit", "none"}
  BY <1>1 DEF PoprFault
<1>3. PoprFault # "none" => status' = PoprFault
  BY DEF Exit, Halts
<1>4. PoprFault = "none" => status' = status
  BY DEF Exit
<1> QED BY <1>2, <1>3, <1>4 DEF GoodEnds, Running

LEMMA JobEnds ==
  ASSUME IInv, Base, Running, Next, todo # << >>, Head(todo).do = "exit" => 0 < Len(calls)
  PROVE  status' \in GoodEnds
<1>1. CASE CompileMore \/ SetLastMore \/ ImmediateMore \/ InlineMore \/ EntryMore \/ BuiltinMore
           \/ EndOfInput \/ CompItMore \/ LookupMore \/ LookupLiteral
  <2>1. status' \in {status, "limit", "EOF", "literal"}
    BY <1>1 DEF CompileMore, Compile, SetLastMore, ImmediateMore, Immediate, InlineMore, EntryMore,
       BuiltinMore, EndOfInput, CompItMore, LookupMore, LookupLiteral
  <2> QED BY <2>1 DEF GoodEnds, Running
<1>2. CASE ExitMore /\ Head(todo).do = "exit"
  <2>1. Exit(prog)
    BY <1>2 DEF ExitMore
  <2> QED BY <1>2, <2>1, ExitEnds
<1>3. CASE LookupCall
  <2>1. Call(prog, Plus1(Plus1(Arg0)))
    BY <1>3 DEF LookupCall
  <2> QED BY <2>1, CallEnds
<1> QED BY <1>1, <1>2, <1>3, NextJob

LEMMA CodeEnds ==
  ASSUME IInv, Base, Running, Next, todo = << >>, Sound
  PROVE  status' \in GoodEnds \/ (status' = "panic" /\ OpDiv \in UsedOps)
<1>1. ~Start /\ ~More
  BY DEF Start, Running, More, EntryMore, BuiltinMore, InlineMore, CompileMore, SetLastMore,
     ImmediateMore, ExitMore, CompItMore, LookupCall, LookupFound, LookupMore, LookupLiteral, Pending
<1>2. CASE EndOfInput \/ FetchPastLimit \/ DefineStep \/ ImmediateStep \/ ReadStep \/ CompileStep
           \/ RunStep \/ PushintStep \/ CompItStep \/ KeyStep \/ StackUnderflow
  <2>1. status' \in {status, "limit", "EOF", "stackUnderflow"}
    BY <1>2 DEF EndOfInput, FetchPastLimit, DefineStep, ImmediateStep, Immediate, ReadStep,
       CompileStep, RunStep, PushintStep, CompItStep, KeyStep, StackUnderflow, Underflow
  <2> QED BY <2>1 DEF GoodEnds, Running
<1>3. CASE SubStep \/ MulStep \/ LessStep \/ EchoStep \/ GetStep \/ SetStep \/ PickStep
  <2>1. status' \in {status, "limit"}
    BY <1>3 DEF SubStep, MulStep, LessStep, EchoStep, GetStep, SetStep, PickStep, Pushes, Fails
  <2> QED BY <2>1 DEF GoodEnds, Running
<1>4. CASE DivStep
  <2>1. mem[prog] = OpDiv /\ status' \in {status, "panic"}
    BY <1>4 DEF DivStep, Pops, Exec, Pushes, Fails
  <2> QED BY <2>1 DEF GoodEnds, Running, Sound
<1>5. CASE CallStep
  <2>1. Call(After, mem[prog])
    BY <1>5 DEF CallStep
  <2> QED BY <2>1, CallEnds
<1>6. CASE ExitStep
  <2>1. Exit(After) /\ mem[prog] = OpExit
    BY <1>6 DEF ExitStep, Exec
  <2> QED BY <2>1, ExitEnds DEF Sound
<1> QED BY <1>1, <1>2, <1>3, <1>4, <1>5, <1>6 DEF Next, Step
----------------------------------------------------------------------------
(* What holds of a well bracketed program from the start.                  *)

Behaves ==
  \/ status = "new" /\ Init
  \/ Running /\ (Booting \/ Working)
  \/ status \in GoodEnds \ {"running"}
  \/ status = "panic" /\ OpDiv \in UsedOps

LEMMA BootEnds ==
  ASSUME IInv, Booting, ~Between(13), Running, Next
  PROVE  status' \in GoodEnds
<1>1. todo # << >> /\ Head(todo).do \in BootJobs
  BY BootHasJobs
<1>2. Base
  BY DEF Booting, Compiling
<1> QED BY <1>1, <1>2, JobEnds DEF BootJobs

LEMMA WorkEnds ==
  ASSUME WellBracketed, IInv, Working, Running, Next
  PROVE  status' \in GoodEnds \/ (status' = "panic" /\ OpDiv \in UsedOps)
<1>1. Base
  BY DEF Working
<1>2. CASE todo = << >>
  BY <1>1, <1>2, WorkIsSound, CodeEnds
<1>3. CASE todo # << >>
  BY <1>1, <1>3, WorkJobs, JobEnds
<1> QED BY <1>2, <1>3

LEMMA StutterBehaves ==
  ASSUME UNCHANGED vars, Behaves
  PROVE  Behaves'
<1>1. UNCHANGED <<mem, prog, last, stack, strings, status, todo, token, pos, form, calls, defs>>
  BY DEF vars, fields, history
<1>2. UNCHANGED <<H, R, RetBase, MemBase>>
  BY <1>1 DEF H, R, RetBase, MemBase
<1>3. Init => Init'
  BY <1>1 DEF Init
<1>4. Compiling => Compiling'
  BY <1>1, CompilingStays
<1>5. \A x : Reserved(x) => Reserved(x)'
  BY <1>1, <1>2 DEF Reserved
<1>6. \A n, e : Made(n, e) => Made(n, e)'
  BY <1>1 DEF Made
<1>7. \A w, l, nm, j : HeaderCells(w, l, nm, j) => HeaderCells(w, l, nm, j)'
  BY <1>1, <1>2 DEF HeaderCells
<1>8. Entering => Entering'
  BY <1>1, <1>2, <1>5, <1>7 DEF Entering, EntryHead, EntryEnd, LoopCells
<1>9. \A op : Between(op) => Between(op)'
  BY <1>1, <1>2, <1>5, <1>6 DEF Between
<1>10. \A op, w, nm, x : MakingAt(op, w, nm, x) => MakingAt(op, w, nm, x)'
  BY <1>1, <1>2, <1>5, <1>6 DEF MakingAt
<1>11. /\ \A op, w, nm, j : MakingHead(op, w, nm, j) => MakingHead(op, w, nm, j)'
       /\ \A op, w, nm, j : MakingBody(op, w, nm, j) => MakingBody(op, w, nm, j)'
  BY <1>1, <1>2, <1>7 DEF MakingHead, MakingBody, BodyCells
<1>12. \A op : Making(op) => Making(op)'
  BY <1>10, <1>11 DEF Making
<1>13. Booting => Booting'
  BY <1>4, <1>8, <1>9, <1>12 DEF Booting
<1>14. Base => Base'
  BY <1>1, BaseStays
<1>15. Words => Words'
  BY <1>1, <1>2 DEF Words
<1>16. /\ \A C, X, n : Built(C, X, n) => Built(C, X, n)'
       /\ \A n : Roomy(n) => Roomy(n)'
       /\ \A C, b : Reached(C, b)' = Reached(C, b)
       /\ InBody' = InBody /\ Growing' = Growing
  BY <1>1, <1>2 DEF Built, Free, Sealed, Roomy, Reached, InBody, Growing
<1>17. /\ \A k : InMain(k) => InMain(k)'
       /\ \A k, X : InCode(k, X) => InCode(k, X)'
       /\ \A X : Inside(X) => Inside(X)'
       /\ \A X : ReadFrom(X) => ReadFrom(X)'
  BY <1>1 DEF InMain, InCode, Inside, ReadFrom
<1>18. \A C : Idle(C) => Idle(C)'
  BY <1>1, <1>2, <1>16, <1>17 DEF Idle
<1>19. \A C : Token(C) => Token(C)'
  BY <1>1, <1>16 DEF Token
<1>20. \A C : LookingUp(C) => LookingUp(C)'
  BY <1>1, <1>16, <1>17, <1>19 DEF LookingUp, NoneAfter
<1>21. \A C : AtHead(C) => AtHead(C)'
  BY <1>1, <1>16, <1>17, <1>19 DEF AtHead
<1>22. \A C : Literal1(C) => Literal1(C)'
  BY <1>1, <1>16, <1>17 DEF Literal1
<1>23. \A C : Literal2(C) => Literal2(C)'
  BY <1>1, <1>2, <1>16, <1>17 DEF Literal2
<1>24. \A C : Calling(C) => Calling(C)'
  BY <1>1, <1>16, <1>17 DEF Calling
<1>25. \A C : Copying(C) => Copying(C)'
  BY <1>1, <1>2, <1>16, <1>17 DEF Copying
<1>26. \A C : Returning(C) => Returning(C)'
  BY <1>1, <1>16, <1>17 DEF Returning
<1>27. \A C : Defining(C) => Defining(C)'
  BY <1>1, <1>2, <1>16, <1>17 DEF Defining, HeaderAt
<1>28. Working => Working'
  BY <1>14, <1>15, <1>18, <1>20, <1>21, <1>22, <1>23, <1>24, <1>25, <1>26, <1>27 DEF Working, Phase
<1> QED BY <1>1, <1>3, <1>13, <1>28 DEF Behaves, Running

LEMMA NewStarts ==
  ASSUME Next, ~Running
  PROVE  status = "new" /\ Start
<1>1. ~Stepping /\ \A op : ~Exec(op)
  BY DEF Exec, Stepping
<1>2. \A what : ~Pending(what)
  BY DEF Pending
<1>3. ~More
  <2>1. ~EntryMore
    BY <1>2 DEF EntryMore
  <2>2. ~BuiltinMore
    BY <1>2 DEF BuiltinMore
  <2>3. ~InlineMore
    BY <1>2 DEF InlineMore
  <2>4. ~CompileMore
    BY <1>2 DEF CompileMore
  <2>5. ~SetLastMore
    BY <1>2 DEF SetLastMore
  <2>6. ~ImmediateMore
    BY <1>2 DEF ImmediateMore
  <2>7. ~ExitMore
    BY <1>2 DEF ExitMore
  <2>8. ~CompItMore
    BY <1>2 DEF CompItMore
  <2>9. ~LookupCall
    BY <1>2 DEF LookupCall, LookupFound
  <2>10. ~LookupMore
    BY <1>2 DEF LookupMore
  <2>11. ~LookupLiteral
    BY <1>2 DEF LookupLiteral
  <2> QED
    BY <2>1, <2>2, <2>3, <2>4, <2>5, <2>6, <2>7, <2>8, <2>9, <2>10, <2>11 DEF More
<1>4. ~FetchPastLimit /\ ~CallStep /\ ~StackUnderflow
  BY <1>1 DEF FetchPastLimit, CallStep, StackUnderflow, Underflow
<1>5. /\ ~ExitStep /\ ~DefineStep /\ ~ImmediateStep /\ ~ReadStep /\ ~CompileStep
      /\ ~RunStep /\ ~PushintStep /\ ~CompItStep
  <2>1. ~ExitStep
    BY <1>1 DEF ExitStep
  <2>2. ~DefineStep
    BY <1>1 DEF DefineStep
  <2>3. ~ImmediateStep
    BY <1>1 DEF ImmediateStep
  <2>4. ~ReadStep
    BY <1>1 DEF ReadStep
  <2>5. ~CompileStep
    BY <1>1 DEF CompileStep
  <2>6. ~RunStep
    BY <1>1 DEF RunStep
  <2>7. ~PushintStep
    BY <1>1 DEF PushintStep
  <2>8. ~CompItStep
    BY <1>1 DEF CompItStep
  <2> QED BY <2>1, <2>2, <2>3, <2>4, <2>5, <2>6, <2>7, <2>8
<1>6. /\ ~SubStep /\ ~MulStep /\ ~LessStep /\ ~EchoStep /\ ~DivStep /\ ~GetStep /\ ~SetStep
      /\ ~PickStep /\ ~KeyStep
  <2>1. ~SubStep
    BY <1>1 DEF SubStep, Pops
  <2>2. ~MulStep
    BY <1>1 DEF MulStep, Pops
  <2>3. ~LessStep
    BY <1>1 DEF LessStep, Pops
  <2>4. ~EchoStep
    BY <1>1 DEF EchoStep, Pops
  <2>5. ~DivStep
    BY <1>1 DEF DivStep, Pops
  <2>6. ~GetStep
    BY <1>1 DEF GetStep, Pops
  <2>7. ~SetStep
    BY <1>1 DEF SetStep, Pops
  <2>8. ~PickStep
    BY <1>1 DEF PickStep, Pops
  <2>9. ~KeyStep
    BY <1>1 DEF KeyStep
  <2> QED BY <2>1, <2>2, <2>3, <2>4, <2>5, <2>6, <2>7, <2>8, <2>9
<1>7. ~EndOfInput
  BY <1>1, <1>2 DEF EndOfInput
<1>8. Start
  BY <1>3, <1>4, <1>5, <1>6, <1>7 DEF Next, Step
<1> QED BY <1>8 DEF Start

LEMMA BehavesOn ==
  ASSUME WellBracketed, IInv, IInv', Behaves, [Next]_vars
  PROVE  Behaves'
<1>1. CASE UNCHANGED vars
  BY <1>1, StutterBehaves
<1>2. CASE Next /\ status = "new"
  <2>1. Start
    BY <1>2, NewStarts DEF Running
  <2>2. Init
    BY <1>2 DEF Behaves, Running, GoodEnds
  <2> QED BY <2>1, <2>2, StartBoots DEF Behaves, Running
<1>3. CASE Next /\ status # "new"
  <2>1. Running
    <3>1. ~Running => status = "new"
      BY <1>3, NewStarts
    <3> QED BY <1>3, <3>1
  <2>2. Booting \/ Working
    BY <2>1 DEF Behaves, Running, GoodEnds
  <2>3. CASE Booting /\ ~Between(13)
    <3>1. status' \in GoodEnds
      BY <1>3, <2>1, <2>3, BootEnds
    <3>2. status' = "running" => Booting'
      BY <1>3, <2>1, <2>3, BootGoesOn
    <3> QED BY <3>1, <3>2 DEF Behaves, Running
  <2>4. CASE Working
    <3>1. status' \in GoodEnds \/ (status' = "panic" /\ OpDiv \in UsedOps)
      BY <1>3, <2>1, <2>4, WorkEnds
    <3>2. status' = "running" => Working'
      BY <1>3, <2>1, <2>4, WorkGoesOn
    <3> QED BY <3>1, <3>2 DEF Behaves, Running
  <2>5. Booting /\ Between(13) => Working
    BY BootedWorks DEF Booting
  <2> QED BY <2>2, <2>3, <2>4, <2>5
<1> QED BY <1>1, <1>2, <1>3

LEMMA BehavesHolds ==
  ASSUME WellBracketed
  PROVE  Spec => [](IInv /\ Behaves)
<1>1. Init => Behaves
  BY DEF Init, Behaves
<1>2. IInv /\ IInv' /\ Behaves /\ [Next]_vars => Behaves'
  BY BehavesOn
<1> QED BY <1>1, <1>2, IInvHolds, PTL DEF Spec

\* While it runs, the machine is where init or a program can be.
LEMMA RunningFacts ==
  ASSUME IInv, Behaves, Running
  PROVE  /\ Booting \/ Working
         /\ Base /\ Dict(mem, defs, strings, MemBase)
         /\ last = IF defs = << >> THEN 0 ELSE defs[Len(defs)].word
         /\ defs # << >> => last + 3 <= H
         /\ Len(defs) \in Nat /\ DOMAIN defs = 1 .. Len(defs)
         /\ MemBase \in Nat /\ H \in Nat /\ last \in Nat /\ Top \in Nat /\ H < Top
         /\ \A i \in 1 .. Len(defs) : /\ defs[i].word \in Nat /\ defs[i].word <= last
                                      /\ defs[i].word \in Word
<1>1. Booting \/ Working
  BY DEF Behaves, Running, GoodEnds
<1>2. TypeOK
  BY DEF IInv
<1>3. /\ Len(defs) \in Nat /\ DOMAIN defs = 1 .. Len(defs)
      /\ defs = << >> <=> Len(defs) = 0
  BY <1>2, LenProperties, EmptySeq DEF TypeOK
<1>4. /\ MemBase \in Nat /\ H \in Nat /\ last \in Nat /\ Top \in Nat /\ H < Top
      /\ \A i \in 1 .. Len(defs) : defs[i].word \in Nat /\ defs[i].word \in Word
  <2>1. MemBase \in Word /\ H \in Word /\ last \in Word /\ Top \in Nat
        /\ \A i \in 1 .. Len(defs) : defs[i].word \in Word
    BY <1>2, MachineTypes, WordFacts
  <2> QED BY <2>1 DEF Word
<1>5. /\ Base /\ Dict(mem, defs, strings, MemBase)
      /\ last = IF defs = << >> THEN 0 ELSE defs[Len(defs)].word
  <2>1. CASE Booting
    BY <2>1 DEF Booting, Compiling
  <2>2. CASE Working
    <3>1. defs # << >>
      BY <1>3, <2>2 DEF Working, Words
    <3> QED BY <2>2, <3>1 DEF Working, Words
  <2> QED BY <1>1, <2>1, <2>2
<1>6. defs # << >> => last + 3 <= H
  BY <1>1, WorkHasHeaders, BootHasHeaders
<1>7. \A i \in 1 .. Len(defs) : defs[i].word <= last
  <2>1. \A i \in 1 .. Len(defs) : defs[i].word <= defs[Len(defs)].word
    BY <1>2, <1>4, <1>5, DictFacts
  <2>2. \A i \in 1 .. Len(defs) : defs # << >>
    BY <1>3
  <2> QED BY <1>5, <2>1, <2>2
<1> QED BY <1>1, <1>3, <1>4, <1>5, <1>6, <1>7

\* Between two steps of a program it works, and what it runs is never !.
LEMMA SteppingWorks ==
  ASSUME WellBracketed, IInv, Behaves, Stepping
  PROVE  Working /\ Sound
<1>1. todo = << >> /\ Running
  BY DEF Stepping
<1>2. Booting => Between(13)
  BY <1>1, BootHasJobs
<1>3. Booting /\ Between(13) => Working
  BY BootedWorks DEF Booting
<1>4. Working
  BY <1>1, <1>2, <1>3, RunningFacts
<1> QED BY <1>1, <1>4, WorkIsSound

LEMMA NeverSets ==
  ASSUME WellBracketed, IInv, Behaves
  PROVE  ~Exec(OpSet)
<1> SUFFICES ASSUME Exec(OpSet) PROVE FALSE
  OBVIOUS
<1>1. Stepping /\ mem[prog] = OpSet
  BY DEF Exec
<1>2. Working /\ OpSet \in Code
  BY <1>1, SteppingWorks DEF Sound
<1>3. OpSet \notin CodeFields
  <2>1. Codes(defs) = CodeFields /\ \A v \in Codes(defs) : 17 <= v /\ v \in Nat
    BY <1>2, CodesAreWords DEF Working, IInv
  <2> QED BY <2>1, CodesAreNumbers
<1> QED BY <1>2, <1>3 DEF Code
----------------------------------------------------------------------------
(* The theorems.                                                           *)

\* The return stack in memory is exactly the calls that have not returned:
\* pushr and popr, and whatever a program compiles or defines, keep it
\* (first.go: pushr, popr, compile).
THEOREM ReturnsAreKept == WellBracketed => (Spec => []ReturnStackIntact)
<1> SUFFICES ASSUME WellBracketed PROVE Spec => []ReturnStackIntact
  OBVIOUS
<1>1. IInv /\ Behaves => ReturnStackIntact
  <2> SUFFICES ASSUME IInv, Behaves, Running
               PROVE  /\ R = RetBase - 1 + Len(calls) /\ RetBase + Len(calls) <= MemBase
                      /\ \A i \in DOMAIN calls : mem[RetBase + i - 1] = calls[i]
    BY DEF ReturnStackIntact
  <2>1. StackOk
    BY RunningFacts DEF Base
  <2>2. DOMAIN calls = 1 .. Len(calls) /\ RetBase \in Int /\ Len(calls) \in Nat
    <3>1. TypeOK /\ RetBase \in Word /\ Top \in Nat
      BY MachineTypes, WordFacts DEF IInv
    <3>2. DOMAIN calls = 1 .. Len(calls) /\ Len(calls) \in Nat
      BY <3>1, LenProperties DEF TypeOK
    <3> QED BY <3>1, <3>2 DEF Word
  <2>3. ASSUME NEW i \in 1 .. Len(calls) PROVE mem[RetBase + i - 1] = calls[i]
    <3>1. RetBase + i - 1 = RetBase - 1 + i
      BY <2>2
    <3>2. mem[RetBase - 1 + i] = calls[i]
      BY <2>1, <2>3 DEF StackOk
    <3> QED BY <3>1, <3>2
  <2> QED BY <2>1, <2>2, <2>3 DEF StackOk
<1> QED BY <1>1, BehavesHolds, PTL

\* The dictionary is the list of the definitions, latest first, at lower and
\* lower addresses, so that every search in it ends (first.go: compileHeader,
\* define, lookup; core.go: symbolicate).
THEOREM DictionaryKept == WellBracketed => (Spec => []DictionaryIsDefinitions)
<1> SUFFICES ASSUME WellBracketed PROVE Spec => []DictionaryIsDefinitions
  OBVIOUS
<1>1. IInv /\ Behaves => DictionaryIsDefinitions
  <2> SUFFICES ASSUME IInv, Behaves, Running PROVE DictionaryIsDefinitions
    BY DEF DictionaryIsDefinitions
  <2>1. /\ TypeOK /\ NamesAreUnique /\ Len(defs) \in Nat /\ DOMAIN defs = 1 .. Len(defs)
        /\ MemBase \in Nat /\ H \in Nat /\ last \in Nat
        /\ Base /\ Dict(mem, defs, strings, MemBase)
        /\ last = IF defs = << >> THEN 0 ELSE defs[Len(defs)].word
        /\ defs # << >> => last + 3 <= H
        /\ \A i \in 1 .. Len(defs) : defs[i].word \in Nat /\ defs[i].word <= last
    BY RunningFacts DEF IInv
  <2>2. last = IF defs = << >> THEN 0 ELSE Last(defs).word
    BY <2>1 DEF Last
  <2>3. Symbol("") = 0
    <3>1. "" \notin ToSet(strings)
      <4>1. \A i \in DOMAIN strings : strings[i] \in Tokens
        BY <2>1, ElementOfSeq, LenProperties DEF TypeOK
      <4>2. "" \notin Tokens
        BY Zenon DEF WellBracketed
      <4>3. PICK e : e = ""
        OBVIOUS
      <4>4. e \notin Tokens
        BY <4>2, <4>3
      <4>5. e \notin ToSet(strings)
        BY <4>1, <4>4 DEF ToSet
      <4> QED BY <4>3, <4>5
    <3> QED BY <3>1 DEF Symbol
  <2>4. ASSUME NEW i \in 1 .. Len(defs)
        PROVE  LET w == defs[i].word
               IN /\ mem[w] = (IF i = 1 THEN 0 ELSE defs[i - 1].word) /\ mem[w] < w
                  /\ mem[w + 1] = Symbol(defs[i].name)
                  /\ MemBase <= w /\ w + 3 <= H
    <3>1. PICK w \in Nat : w = defs[i].word
      BY <2>1
    <3>2. /\ NameOk(i, defs[i].name) /\ SymbolOk(mem, strings, i, defs[i]) /\ MemBase <= w
          /\ mem[w] = IF i = 1 THEN 0 ELSE defs[i - 1].word
      BY <2>1, <2>4, <3>1 DEF Dict
    <3>3. w + 3 <= H
      <4>1. defs # << >>
        BY <2>1, <2>4, EmptySeq
      <4> QED BY <2>1, <2>4, <3>1, <4>1
    <3>4. mem[w] < w
      <4>1. CASE i = 1
        <5>1. 12 <= MemBase
          <6>1. /\ RetBase \in Nat /\ Len(calls) \in Nat
            BY <2>1, StackTop
          <6> QED BY <2>1, <6>1 DEF Base, StackOk
        <5> QED BY <2>1, <3>1, <3>2, <4>1, <5>1
      <4>2. CASE i > 1
        <5>1. PICK h \in 1 .. Len(defs) : h = i - 1
          BY <2>4, <4>2
        <5>2. i \in h + 1 .. Len(defs) /\ i # 1
          BY <2>1, <2>4, <4>2, <5>1
        <5>3. defs[h].word + Span(h) <= defs[i].word /\ Span(h) >= 4 /\ Span(h) \in Nat
          <6>1. defs[h].word + Span(h) <= defs[i].word
            BY <2>1, <5>2 DEF Dict
          <6> QED BY <6>1 DEF Span
        <5>4. mem[w] = defs[h].word /\ defs[h].word \in Nat
          BY <2>1, <3>2, <5>1, <5>2
        <5> QED BY <3>1, <5>3, <5>4
      <4> QED BY <2>4, <4>1, <4>2
    <3>5. mem[w + 1] = Symbol(defs[i].name)
      <4>1. CASE i = 1
        <5>1. mem[w + 1] = 0
          BY <3>1, <3>2, <4>1 DEF SymbolOk
        <5>2. defs[i].name = ""
          <6>1. i \notin 2 .. 14 /\ ~(i > 14)
            BY <4>1
          <6> QED BY <3>2, <6>1 DEF NameOk
        <5> QED BY <2>3, <5>1, <5>2
      <4>2. CASE i > 1
        <5>1. mem[w + 1] \in 1 .. Len(strings) /\ strings[mem[w + 1]] = defs[i].name
          BY <3>1, <3>2, <4>2 DEF SymbolOk
        <5> QED BY <2>1, <5>1, SymbolFacts
      <4> QED BY <2>4, <4>1, <4>2
    <3> QED BY <3>1, <3>2, <3>3, <3>4, <3>5
  <2> QED BY <2>1, <2>2, <2>4 DEF DictionaryIsDefinitions
<1> QED BY <1>1, BehavesHolds, PTL

\* A search that ends at a word has found the latest definition of the token
\* (first.go: lookup, which goes from last to the word before).
THEOREM LatestIsFound == WellBracketed => (Spec => []LookupFindsLatest)
<1> SUFFICES ASSUME WellBracketed PROVE Spec => []LookupFindsLatest
  OBVIOUS
<1>1. IInv /\ Behaves => LookupFindsLatest
  <2> SUFFICES ASSUME IInv, Behaves, LookupFound
               PROVE  /\ \E i \in DOMAIN defs : defs[i] = [name |-> token, word |-> Arg0]
                      /\ \A i \in DOMAIN defs : defs[i].name = token => defs[i].word <= Arg0
    BY DEF LookupFindsLatest
  <2>1. /\ Running /\ todo # << >> /\ Head(todo).do = "lookup" /\ Arg0 # 0
        /\ mem[Plus1(Arg0)] = Symbol(token)
    BY DEF LookupFound, Pending
  <2>2. /\ TypeOK /\ NamesAreUnique /\ Len(defs) \in Nat /\ DOMAIN defs = 1 .. Len(defs)
        /\ MemBase \in Nat /\ H \in Nat /\ last \in Nat /\ Top \in Nat /\ H < Top
        /\ Dict(mem, defs, strings, MemBase)
        /\ defs # << >> => last + 3 <= H
        /\ \A i \in 1 .. Len(defs) : defs[i].word \in Nat /\ defs[i].word <= last
    BY <2>1, RunningFacts DEF IInv
  <2>3. Working
    <3>1. Booting => Between(13)
      BY <2>1, BootHasJobs DEF BootJobs
    <3>2. Between(13) => todo = << >>
      BY DEF Between
    <3> QED BY <2>1, <3>1, <3>2, RunningFacts
  <2>4. PICK C \in SUBSET Word : LookingUp(C)
    BY <2>1, <2>3, WorkJobs
  <2>5. PICK i \in 1 .. Len(defs) : Arg0 = defs[i].word /\ NoneAfter(i) /\ token \in ToSet(strings)
    <3>1. PICK a : todo = <<Do("lookup", a)>>
                   /\ \/ a = 0
                      \/ \E i \in 1 .. Len(defs) : a = defs[i].word /\ NoneAfter(i)
                                                   /\ token \in ToSet(strings)
      BY <2>4 DEF LookingUp
    <3>2. Head(todo) = Do("lookup", a)
      BY <3>1
    <3>3. Arg0 = a
      BY <3>2 DEF Do, Arg0
    <3> QED BY <2>1, <3>1, <3>3
  <2>6. PICK w \in Nat : w = defs[i].word /\ w <= last
    BY <2>2
  <2>7. Plus1(w) = w + 1
    <3>1. defs # << >>
      BY <2>2, EmptySeq
    <3> QED BY <2>2, <2>6, <3>1 DEF Plus1
  <2>8. mem[w + 1] = Symbol(token) /\ Symbol(token) \in 1 .. Len(strings)
        /\ strings[Symbol(token)] = token
    BY <2>1, <2>2, <2>5, <2>6, <2>7, SymbolFacts
  <2>9. defs[i].name = token
    <3>1. SymbolOk(mem, strings, i, defs[i])
      BY <2>2 DEF Dict
    <3> QED BY <2>6, <2>8, <3>1 DEF SymbolOk
  <2>10. defs[i] = [name |-> token, word |-> Arg0]
    <3>1. defs \in Seq([name : Tokens \union {""}, word : Word])
      BY <2>2 DEF TypeOK
    <3>2. defs[i] \in [name : Tokens \union {""}, word : Word]
      BY <3>1, ElementOfSeq
    <3>3. \A S, T : \A r \in [name : S, word : T] : r = [name |-> r.name, word |-> r.word]
      OBVIOUS
    <3>4. defs[i] = [name |-> defs[i].name, word |-> defs[i].word]
      BY <3>2, <3>3
    <3> QED BY <2>5, <2>9, <3>4
  <2>11. ASSUME NEW j \in 1 .. Len(defs), defs[j].name = token PROVE defs[j].word <= Arg0
    <3>1. j <= i
      BY <2>5, <2>11 DEF NoneAfter
    <3>2. CASE j = i
      BY <2>2, <2>5, <3>2
    <3>3. CASE j < i
      <4>1. defs[j].word + Span(j) <= defs[i].word
        BY <2>2, <3>3, DictFacts
      <4>2. Span(j) \in Nat /\ defs[j].word \in Nat
        BY <2>2 DEF Span
      <4> QED BY <2>2, <2>5, <4>1, <4>2
    <3> QED BY <2>2, <3>1, <3>2, <3>3
  <2> QED BY <2>2, <2>10, <2>11
<1> QED BY <1>1, BehavesHolds, PTL

\* The machine never runs data: what it runs, and what it will return to, is a
\* primitive or a call of a word (first.go: step, which takes for a call
\* whatever is no primitive).
THEOREM CodeIsRun == WellBracketed => (Spec => []RunsOnlyCode)
<1> SUFFICES ASSUME WellBracketed PROVE Spec => []RunsOnlyCode
  OBVIOUS
<1>1. IInv /\ Behaves => RunsOnlyCode
  <2> SUFFICES ASSUME IInv, Behaves, Stepping
               PROVE  /\ prog \in MemBase .. H + 1
                      /\ \A a \in {prog} \union ToSet(calls) : mem[a] \in Ops \union CodeFields
    BY DEF RunsOnlyCode
  <2>1. Running /\ todo = << >>
    BY DEF Stepping
  <2>2. Working /\ Sound
    BY SteppingWorks
  <2>4. /\ TypeOK /\ prog \in Nat /\ MemBase \in Nat /\ H \in Nat
    <3>1. TypeOK /\ prog \in Word /\ Top \in Nat
      BY MachineTypes, WordFacts DEF IInv
    <3>2. prog \in Nat
      BY <3>1 DEF Word
    <3> QED BY <2>1, <3>1, <3>2, RunningFacts
  <2>5. DOMAIN calls = 1 .. Len(calls)
    BY <2>4, LenProperties DEF TypeOK
  <2>6. \A a \in {prog} \union ToSet(calls) : mem[a] \in Code
    BY <2>2, <2>5 DEF Sound, ToSet
  <2> QED BY <2>2, <2>4, <2>6 DEF Sound, Code
<1> QED BY <1>1, BehavesHolds, PTL

\* The main loop is never left, and no primitive panics, in a program that does
\* not divide: it ends with its input, or with an error of its own (first.go:
\* popr, whose halt at the bottom of the return stack is a nil error).
THEOREM LoopIsNeverLeft ==
  WellBracketed /\ OpDiv \notin UsedOps => (Spec => []NeverReturnsTooFar)
<1> SUFFICES ASSUME WellBracketed, OpDiv \notin UsedOps PROVE Spec => []NeverReturnsTooFar
  OBVIOUS
<1>1. IInv /\ Behaves => NeverReturnsTooFar
  BY DEF Behaves, Init, Running, GoodEnds, NeverReturnsTooFar
<1> QED BY <1>1, BehavesHolds, PTL

\* What an immediate stores to is not finished yet.
LEMMA ShrinksUnfinished ==
  ASSUME WellBracketed, IInv, Behaves, Running, Exec(OpImmediate) \/ Pending("immediate")
  PROVE  H - 2 \in Unfinished
<1>1. H \in Nat /\ last \in Nat
  BY RunningFacts
<1>2. CASE Exec(OpImmediate)
  <2>1. H = last + 4
    BY <1>2, SteppingWorks DEF Exec, Sound
  <2> QED BY <1>1, <1>2, <2>1 DEF Unfinished
<1>3. CASE Pending("immediate")
  <2>1. todo # << >> /\ Head(todo).do = "immediate"
    BY <1>3 DEF Pending
  <2>2. Booting
    BY <2>1, RunningFacts, WorkJobs
  <2>3. H = last + 4 \/ H = last + 5
    BY <2>1, <2>2, BootShrinks
  <2>4. ~Exec(OpImmediate)
    BY <2>1 DEF Exec, Stepping
  <2>5. Unfinished = {last + 2, last + 3}
    BY <1>3, <2>4 DEF Unfinished
  <2> QED BY <1>1, <2>3, <2>5
<1> QED BY <1>2, <1>3

LEMMA FinishedStay ==
  ASSUME WellBracketed, IInv, Behaves, Running, Next,
         NEW a \in (MemBase .. H - 1) \ Unfinished
  PROVE  mem'[a] = mem[a]
<1>1. /\ Base /\ MemBase \in Nat /\ H \in Nat /\ last \in Nat /\ Top \in Nat /\ H < Top
      /\ last = IF defs = << >> THEN 0 ELSE defs[Len(defs)].word
      /\ defs # << >> => last + 3 <= H
  BY RunningFacts
<1>2. a \in Nat /\ a < H /\ MemBase <= a /\ a \in Word
  BY <1>1 DEF Word
<1>3. 12 <= MemBase /\ 14 <= H
  <2>1. /\ RetBase \in Nat /\ Len(calls) \in Nat
    BY <1>1, StackTop
  <2> QED BY <1>1, <2>1 DEF Base, StackOk
<1>4. ~Exec(OpSet)
  BY NeverSets
<1>5. Minus1(Minus1(H)) = H - 2 /\ (Plus1(H) = 0 \/ Plus1(H) = H + 1)
  BY <1>1, <1>3 DEF Plus1, Minus1
<1>6. Pending("inline") => a # Plus1(Plus1(last))
  <2> SUFFICES ASSUME Pending("inline") PROVE a # Plus1(Plus1(last))
    OBVIOUS
  <2>1. Unfinished = {last + 2, last + 3}
    BY DEF Unfinished, Exec, Stepping, Pending
  <2>2. last + 3 <= H
    BY <1>1, <1>3
  <2>3. Plus1(Plus1(last)) = last + 2
    BY <1>1, <2>2 DEF Plus1
  <2> QED BY <2>1, <2>3
<1>7. Exec(OpImmediate) \/ Pending("immediate") => a # H - 2
  BY ShrinksUnfinished
<1>8. a \notin Footprint
  <2>1. a # 0 /\ a # 1 /\ ~(a < MemBase) /\ MemBase # 0 /\ a # H /\ a # H + 1 /\ a # Plus1(H)
    BY <1>1, <1>2, <1>3, <1>5
  <2> QED BY <1>4, <1>5, <1>6, <1>7, <2>1 DEF Footprint
<1> QED BY <1>2, <1>8, NextFootprint

\* What has been compiled is never changed by what is defined, compiled or run
\* later: an immediate meets only the code field of the latest word (first.go:
\* immediate, compileit and init's inline store below the end of the dictionary).
THEOREM FinishedWordsStay == WellBracketed => (Spec => FinishedWordsKept)
<1> SUFFICES ASSUME WellBracketed PROVE Spec => FinishedWordsKept
  OBVIOUS
<1>1. IInv /\ Behaves /\ [Next]_vars
        => [Running => \A a \in (MemBase .. H - 1) \ Unfinished : mem'[a] = mem[a]]_vars
  <2> SUFFICES ASSUME IInv, Behaves, Next, Running, NEW a \in (MemBase .. H - 1) \ Unfinished
               PROVE  mem'[a] = mem[a]
    OBVIOUS
  <2> QED BY FinishedStay
<1> QED BY <1>1, BehavesHolds, PTL DEF Spec, FinishedWordsKept
----------------------------------------------------------------------------
(* The search of wordOf, which is a recursive function of a word and of    *)
(* the turns that it has made: what it is is found out turn by turn.       *)

LEMMA LessIsWellFounded ==
  IsWellFoundedOn({p \in Nat \X Nat : p[1] < p[2]}, Nat)
BY NatLessThanWellFounded DEF OpToRel

\* What holds of 0, and of the next number, holds of all.
LEMMA AllNumbers ==
  ASSUME NEW S, 0 \in S, \A n \in Nat : n \in S => n + 1 \in S
  PROVE  Nat \subseteq S
<1> DEFINE Less == {p \in Nat \X Nat : p[1] < p[2]}
           T == Nat \ S
<1> SUFFICES ASSUME T # {} PROVE FALSE
  OBVIOUS
<1>1. IsWellFoundedOn(Less, Nat) /\ T \subseteq Nat
  BY LessIsWellFounded
<1>2. PICK n \in T : \A m \in T : <<m, n>> \notin Less
  <2> HIDE DEF Less, T
  <2> QED BY <1>1, WFMin
<1>3. n # 0 /\ n \in Nat
  OBVIOUS
<1>4. n - 1 \in Nat /\ n - 1 < n /\ (n - 1) + 1 = n
  BY <1>3
<1>5. n - 1 \in S
  <2>1. <<n - 1, n>> \in Less
    BY <1>3, <1>4
  <2> QED BY <1>2, <1>4, <2>1
<1> QED BY <1>3, <1>4, <1>5

\* A turn of the search that has come to prev, and what the next one finds.
Turn(addr, prev, turns, next) ==
  IF prev = 0 THEN Found(0)
  ELSE IF prev < addr
    THEN IF Plus1(prev) \notin Cells THEN Lost("limit")
         ELSE Found(IF Nameless(prev) THEN 0 ELSE prev)
    ELSE IF prev \notin Cells THEN Lost("limit")
    ELSE IF turns = Top THEN Lost("circle") ELSE next
SearchIs(f, addr) ==
  f = [at \in Word \X (0 .. Top) |-> Turn(addr, at[1], at[2], f[<<mem[at[1]], at[2] + 1>>])]

\* There is such a function: it is found for one more turn at a time, from the last.
LEMMA SearchExists ==
  ASSUME TypeOK, NEW addr
  PROVE  \E f : SearchIs(f, addr)
<1>1. Top \in Nat /\ \A a \in Word : mem[a] \in Word
  BY MachineTypes, WordFacts
<1> DEFINE Late(f, n) ==
             f = [at \in Word \X (n .. Top) |-> Turn(addr, at[1], at[2], f[<<mem[at[1]], at[2] + 1>>])]
           S == {k \in Nat : k <= Top => \E f : Late(f, Top - k)}
<1>2. 0 \in S
  <2> DEFINE f == [at \in Word \X (Top .. Top) |-> Turn(addr, at[1], at[2], 0)]
  <2>1. ASSUME NEW at \in Word \X (Top .. Top)
        PROVE  Turn(addr, at[1], at[2], 0) = Turn(addr, at[1], at[2], f[<<mem[at[1]], at[2] + 1>>])
    <3>1. at[2] = Top
      BY <1>1
    <3> HIDE DEF f
    <3> QED BY <3>1 DEF Turn
  <2>2. Late(f, Top)
    BY <2>1
  <2> HIDE DEF f, Late
  <2>3. Top - 0 = Top
    BY <1>1
  <2> QED BY <2>2, <2>3
<1>3. ASSUME NEW k \in Nat, k \in S PROVE k + 1 \in S
  <2> SUFFICES ASSUME k + 1 <= Top PROVE \E f : Late(f, Top - (k + 1))
    OBVIOUS
  <2>1. PICK n \in 0 .. Top : n = Top - (k + 1) /\ n + 1 = Top - k /\ n < Top
    BY <1>1
  <2>2. PICK f : Late(f, n + 1)
    <3> HIDE DEF Late
    <3>1. k <= Top
      BY <1>1
    <3> QED BY <1>3, <2>1, <3>1
  <2> DEFINE g == [at \in Word \X (n .. Top) |->
                     Turn(addr, at[1], at[2], f[<<mem[at[1]], at[2] + 1>>])]
  <2>3. ASSUME NEW at \in Word \X (n + 1 .. Top) PROVE g[at] = f[at]
    <3>1. at \in Word \X (n .. Top)
      BY <1>1, <2>1
    <3>2. g[at] = Turn(addr, at[1], at[2], f[<<mem[at[1]], at[2] + 1>>])
      BY <3>1
    <3>3. f[at] = Turn(addr, at[1], at[2], f[<<mem[at[1]], at[2] + 1>>])
      BY <2>2
    <3> QED BY <3>2, <3>3
  <2>4. ASSUME NEW at \in Word \X (n .. Top)
        PROVE  g[at] = Turn(addr, at[1], at[2], g[<<mem[at[1]], at[2] + 1>>])
    <3>1. g[at] = Turn(addr, at[1], at[2], f[<<mem[at[1]], at[2] + 1>>])
      OBVIOUS
    <3> HIDE DEF g
    <3>2. at[1] \in Word /\ at[2] \in n .. Top
      OBVIOUS
    <3>3. CASE at[2] = Top
      BY <3>1, <3>3 DEF Turn
    <3>4. CASE at[2] # Top
      <4>1. <<mem[at[1]], at[2] + 1>> \in Word \X (n + 1 .. Top)
        BY <1>1, <2>1, <3>2, <3>4
      <4>2. g[<<mem[at[1]], at[2] + 1>>] = f[<<mem[at[1]], at[2] + 1>>]
        BY <2>3, <4>1
      <4> QED BY <3>1, <4>2
    <3> QED BY <3>3, <3>4
  <2>5. g = [at \in Word \X (n .. Top) |-> g[at]]
    OBVIOUS
  <2>6. Late(g, n)
    <3> HIDE DEF g
    <3> QED BY <2>4, <2>5
  <2> HIDE DEF g, Late
  <2> QED BY <2>1, <2>6
<1>4. Top \in S
  <2> HIDE DEF S
  <2> QED BY <1>1, <1>2, <1>3, AllNumbers
<1>5. PICK f : Late(f, 0)
  <2> HIDE DEF Late
  <2>1. \E f : Late(f, Top - Top)
    BY <1>1, <1>4
  <2>2. Top - Top = 0
    BY <1>1
  <2> QED BY <2>1, <2>2
<1> QED BY <1>5 DEF SearchIs

LEMMA WordOfSearches ==
  ASSUME TypeOK, NEW addr
  PROVE  \E f : /\ WordOf(addr) = f[<<last, 0>>]
                /\ \A prev \in Word, turns \in 0 .. Top :
                     f[<<prev, turns>>] = Turn(addr, prev, turns, f[<<mem[prev], turns + 1>>])
<1> DEFINE f == CHOOSE g : SearchIs(g, addr)
<1>1. SearchIs(f, addr)
  BY SearchExists
<1>2. WordOf(addr) = f[<<last, 0>>]
  BY DEF WordOf, SearchIs, Turn
<1> HIDE DEF f
<1>3. ASSUME NEW prev \in Word, NEW turns \in 0 .. Top
      PROVE  f[<<prev, turns>>] = Turn(addr, prev, turns, f[<<mem[prev], turns + 1>>])
  <2>1. PICK at \in Word \X (0 .. Top) : at = <<prev, turns>>
    OBVIOUS
  <2>2. f[at] = Turn(addr, at[1], at[2], f[<<mem[at[1]], at[2] + 1>>])
    BY <1>1 DEF SearchIs
  <2>3. at[1] = prev /\ at[2] = turns
    BY <2>1
  <2> QED BY <2>1, <2>2, <2>3
<1> QED BY <1>2, <1>3

----------------------------------------------------------------------------
(* The words of the dictionary, and the last below an address.             *)

\* The word with the number j, and 0 below the first.
WordAt(j) == IF j = 0 THEN 0 ELSE defs[j].word

\* The last word below addr.
LastBelow(addr, i) ==
  /\ i \in 0 .. Len(defs) /\ (i > 0 => defs[i].word < addr)
  /\ \A j \in i + 1 .. Len(defs) : ~(defs[j].word < addr)

LEMMA WordsAreHigh ==
  ASSUME TypeOK, Words
  PROVE  \A i \in 1 .. Len(defs) : i <= defs[i].word
<1> DEFINE S == {i \in Nat : i \in 1 .. Len(defs) => i <= defs[i].word}
<1>1. /\ Len(defs) \in Nat /\ MemBase \in Nat
      /\ \A i \in 1 .. Len(defs) : defs[i].word \in Nat /\ 14 <= defs[i].word
  BY WordNumbers
<1>2. \A i \in 1 .. Len(defs), j \in 1 .. Len(defs) :
        i < j => defs[i].word + Span(i) <= defs[j].word
  BY <1>1, DictFacts DEF Words
<1>3. 0 \in S
  OBVIOUS
<1>4. ASSUME NEW i \in Nat, i \in S PROVE i + 1 \in S
  <2> SUFFICES ASSUME i + 1 \in 1 .. Len(defs) PROVE i + 1 <= defs[i + 1].word
    OBVIOUS
  <2>1. CASE i = 0
    BY <1>1, <2>1
  <2>2. CASE i # 0
    <3>1. PICK j \in 1 .. Len(defs) : j = i + 1
      OBVIOUS
    <3>2. i \in 1 .. Len(defs) /\ i < j
      BY <1>1, <2>2, <3>1
    <3>3. i <= defs[i].word
      BY <1>4, <3>2
    <3>4. defs[i].word + Span(i) <= defs[j].word
      BY <1>2, <3>2
    <3>5. Span(i) >= 4 /\ Span(i) \in Nat
      BY DEF Span
    <3>6. defs[i].word \in Nat /\ defs[j].word \in Nat
      BY <1>1, <3>2
    <3> QED BY <3>1, <3>3, <3>4, <3>5, <3>6
  <2> QED BY <2>1, <2>2
<1>5. Nat \subseteq S
  <2> HIDE DEF S
  <2> QED BY <1>3, <1>4, AllNumbers
<1> QED BY <1>5

LEMMA SomeIsLast ==
  ASSUME TypeOK, NEW addr
  PROVE  \E i : LastBelow(addr, i)
<1> DEFINE S == {k \in Nat : \E i \in 0 .. k : /\ i > 0 => defs[i].word < addr
                                               /\ \A j \in i + 1 .. k : ~(defs[j].word < addr)}
<1>1. Len(defs) \in Nat
  BY MachineTypes
<1>2. 0 \in S
  OBVIOUS
<1>3. ASSUME NEW k \in Nat, k \in S PROVE k + 1 \in S
  <2>1. PICK i \in 0 .. k : /\ i > 0 => defs[i].word < addr
                            /\ \A j \in i + 1 .. k : ~(defs[j].word < addr)
    BY <1>3
  <2>2. CASE defs[k + 1].word < addr
    <3>1. k + 1 \in 0 .. k + 1 /\ \A j \in (k + 1) + 1 .. k + 1 : FALSE
      OBVIOUS
    <3> QED BY <2>2, <3>1
  <2>3. CASE ~(defs[k + 1].word < addr)
    <3>1. i \in 0 .. k + 1
      OBVIOUS
    <3>2. ASSUME NEW j \in i + 1 .. k + 1 PROVE ~(defs[j].word < addr)
      <4>1. j = k + 1 \/ j \in i + 1 .. k
        OBVIOUS
      <4> QED BY <2>1, <2>3, <4>1
    <3> QED BY <2>1, <3>1, <3>2
  <2> QED BY <2>2, <2>3
<1>4. Len(defs) \in S
  <2> HIDE DEF S
  <2> QED BY <1>1, <1>2, <1>3, AllNumbers
<1> QED BY <1>4 DEF LastBelow

LEMMA LatestIsLast ==
  ASSUME TypeOK, Words, NEW addr, NEW i, LastBelow(addr, i)
  PROVE  Latest(addr) = WordAt(i)
<1> DEFINE B == {d.word : d \in {e \in ToSet(defs) : e.word < addr}}
<1>1. /\ Len(defs) \in Nat /\ MemBase \in Nat /\ DOMAIN defs = 1 .. Len(defs)
      /\ \A j \in 1 .. Len(defs) : defs[j].word \in Nat
  <2>1. DOMAIN defs = 1 .. Len(defs)
    BY LenProperties DEF TypeOK
  <2> QED BY <2>1, WordNumbers
<1>2. \A w : w \in B <=> \E j \in 1 .. Len(defs) : w = defs[j].word /\ defs[j].word < addr
  BY <1>1 DEF ToSet
<1>3. i \in 0 .. Len(defs)
  BY DEF LastBelow
<1>4. \A j \in 1 .. Len(defs) : defs[j].word < addr => j <= i
  BY <1>1, <1>3 DEF LastBelow
<1>5. Latest(addr) = IF B = {} THEN 0 ELSE CHOOSE x \in B : \A y \in B : x >= y
  BY DEF Latest, Max
<1> HIDE DEF B
<1>6. CASE i = 0
  <2>1. B = {}
    BY <1>1, <1>2, <1>4, <1>6
  <2> QED BY <1>5, <1>6, <2>1 DEF WordAt
<1>7. CASE i # 0
  <2>1. PICK w \in Nat : w = defs[i].word /\ i \in 1 .. Len(defs)
    BY <1>1, <1>3, <1>7
  <2>2. w \in B
    BY <1>2, <1>7, <2>1 DEF LastBelow
  <2>3. ASSUME NEW y \in B PROVE y \in Nat /\ y <= w
    <3>1. PICK j \in 1 .. Len(defs) : y = defs[j].word /\ defs[j].word < addr
      BY <1>2
    <3>2. y \in Nat /\ j <= i
      BY <1>1, <1>4, <3>1
    <3>3. CASE j = i
      BY <2>1, <3>1, <3>2, <3>3
    <3>4. CASE j < i
      <4>1. defs[j].word + Span(j) <= defs[i].word
        BY <1>1, <2>1, <3>4, DictFacts DEF Words
      <4>2. Span(j) \in Nat
        BY DEF Span
      <4> QED BY <2>1, <3>1, <3>2, <4>1, <4>2
    <3> QED BY <1>1, <1>3, <3>2, <3>3, <3>4
  <2>4. \A x \in B : (\A y \in B : x >= y) => x = w
    BY <2>1, <2>2, <2>3
  <2>5. w \in B /\ \A y \in B : w >= y
    BY <2>1, <2>2, <2>3
  <2>6. (CHOOSE x \in B : \A y \in B : x >= y) = w
    BY <2>4, <2>5
  <2> QED BY <1>5, <1>7, <2>1, <2>2, <2>6 DEF WordAt
<1> QED BY <1>6, <1>7

----------------------------------------------------------------------------
(* The search ends at the last word below the address.                     *)

\* Every word has a name, or is the entry, which has none.
LEMMA NoneIsNameless ==
  ASSUME WellBracketed, TypeOK, Words, H \in Cells, last + 3 <= H, NEW i \in 1 .. Len(defs)
  PROVE  /\ defs[i].word \in Cells /\ Plus1(defs[i].word) \in Cells
         /\ ~Nameless(defs[i].word)
<1>1. PICK w \in Nat : w = defs[i].word /\ w <= last
  BY WordNumbers
<1>2. /\ last \in 0 .. Top - 1 /\ H \in 0 .. Top - 1 /\ Top \in Nat /\ w + 1 <= H
  BY <1>1, WordNumbers
<1>3. Plus1(w) = w + 1
  BY <1>1, <1>2 DEF Plus1
<1>4. w \in Cells /\ w + 1 \in Cells
  <2>1. PICK n : n = IF Limit = 0 THEN Top - 1 ELSE Limit
    OBVIOUS
  <2>2. Cells = 0 .. n
    BY <2>1 DEF Cells
  <2>3. n \in Nat
    BY <1>2, <2>1, LimitAssumption DEF Word
  <2>4. H \in 0 .. n
    BY <2>2
  <2>5. w \in 0 .. n /\ w + 1 \in 0 .. n
    BY <1>1, <1>2, <2>3, <2>4
  <2> QED BY <2>2, <2>5
<1>5. SymbolOk(mem, strings, i, defs[i])
  BY DEF Words, Dict
<1>6. CASE mem[w + 1] = 0
  BY <1>1, <1>3, <1>4, <1>6 DEF Nameless
<1>7. CASE mem[w + 1] # 0
  <2>1. mem[w + 1] \in 1 .. Len(strings)
    BY <1>1, <1>5, <1>7 DEF SymbolOk
  <2>2. PICK s : s = strings[mem[w + 1]]
    OBVIOUS
  <2>3. DOMAIN strings = 1 .. Len(strings) /\ s \in Tokens
    BY <2>1, <2>2, LenProperties, ElementOfSeq DEF TypeOK
  <2>4. PICK e : e = ""
    OBVIOUS
  <2>5. e \notin Tokens
    BY <2>4, Zenon DEF WellBracketed
  <2>6. String(mem[w + 1]) = s
    BY <2>1, <2>2, <2>3 DEF String
  <2>7. s # e
    BY <2>3, <2>5
  <2>8. ~Nameless(w)
    BY <1>3, <2>4, <2>6, <2>7, Zenon DEF Nameless
  <2> QED BY <1>1, <1>3, <1>4, <2>8
<1> QED BY <1>6, <1>7

LEMMA WordOfIsLatest ==
  ASSUME WellBracketed, TypeOK, Words, H \in Cells, last + 3 <= H, NEW addr
  PROVE  WordOf(addr) = Found(Latest(addr))
<1>1. PICK f : /\ WordOf(addr) = f[<<last, 0>>]
               /\ \A prev \in Word, turns \in 0 .. Top :
                    f[<<prev, turns>>] = Turn(addr, prev, turns, f[<<mem[prev], turns + 1>>])
  BY WordOfSearches
<1>2. PICK i : LastBelow(addr, i)
  BY SomeIsLast
<1>3. Latest(addr) = WordAt(i)
  BY <1>2, LatestIsLast
<1>4. /\ Len(defs) \in Nat /\ Top \in Nat /\ last = defs[Len(defs)].word /\ 14 <= Len(defs)
      /\ last \in 0 .. Top - 1
      /\ \A j \in 1 .. Len(defs) : defs[j].word \in Word /\ defs[j].word # 0
  <2>1. \A j \in 1 .. Len(defs) : defs[j].word \in 0 .. Top - 1 /\ 14 <= defs[j].word
    BY WordNumbers
  <2> QED BY <2>1, WordNumbers DEF Word
<1>5. i \in 0 .. Len(defs)
  BY <1>2 DEF LastBelow
<1>6. Len(defs) < Top
  <2>1. Len(defs) <= last
    <3>1. Len(defs) \in 1 .. Len(defs)
      BY <1>4
    <3> QED BY <1>4, <3>1, WordsAreHigh
  <2> QED BY <1>4, <2>1
<1> DEFINE n == Len(defs)
           S == {k \in Nat : k <= n - i => f[<<last, 0>>] = f[<<WordAt(n - k), k>>]}
<1>7. 0 \in S
  <2>1. n - 0 = n /\ n # 0
    BY <1>4
  <2>2. WordAt(n - 0) = last
    BY <1>4, <2>1 DEF WordAt
  <2> QED BY <2>2
<1>8. ASSUME NEW k \in Nat, k \in S PROVE k + 1 \in S
  <2> SUFFICES ASSUME k + 1 <= n - i PROVE f[<<last, 0>>] = f[<<WordAt(n - (k + 1)), k + 1>>]
    OBVIOUS
  <2>1. PICK j \in 1 .. Len(defs) : j = n - k /\ j - 1 = n - (k + 1) /\ j \in i + 1 .. Len(defs)
    <3> HIDE DEF S
    <3>1. n - k \in 1 .. n /\ n - k \in i + 1 .. n /\ (n - k) - 1 = n - (k + 1)
      <4>1. n \in Nat /\ i \in Nat /\ k + 1 <= n - i
        BY <1>4, <1>5
      <4> HIDE DEF n
      <4> QED BY <4>1
    <3> QED BY <3>1
  <2>2. k \in 0 .. Top /\ k # Top /\ k <= n - i
    BY <1>4, <1>5, <1>6
  <2>3. PICK w \in Word : w = defs[j].word /\ w # 0 /\ ~(w < addr) /\ w \in Cells
    <3>1. defs[j].word \in Cells
      BY NoneIsNameless
    <3> QED BY <1>2, <1>4, <2>1, <3>1 DEF LastBelow
  <2>4. f[<<last, 0>>] = f[<<w, k>>]
    <3>1. WordAt(n - k) = w
      BY <2>1, <2>3 DEF WordAt
    <3> QED BY <1>8, <2>2, <3>1
  <2>5. f[<<w, k>>] = f[<<mem[w], k + 1>>]
    <3>1. f[<<w, k>>] = Turn(addr, w, k, f[<<mem[w], k + 1>>])
      BY <1>1, <2>2
    <3> QED BY <2>2, <2>3, <3>1 DEF Turn
  <2>6. mem[w] = WordAt(j - 1)
    <3>1. mem[w] = IF j = 1 THEN 0 ELSE defs[j - 1].word
      BY <2>3 DEF Words, Dict
    <3> QED BY <3>1 DEF WordAt
  <2> QED BY <2>1, <2>4, <2>5, <2>6
<1>9. PICK k \in Nat : k = n - i /\ i = n - k /\ k \in 0 .. Top
  BY <1>4, <1>5, <1>6
<1>10. f[<<last, 0>>] = f[<<WordAt(i), k>>]
  <2>1. Nat \subseteq S
    <3> HIDE DEF S
    <3> QED BY <1>7, <1>8, AllNumbers
  <2>2. k <= n - i
    BY <1>4, <1>5, <1>9
  <2> QED BY <1>9, <2>1, <2>2
<1>11. CASE i = 0
  <2>1. WordAt(i) = 0 /\ 0 \in Word
    BY <1>11, WordFacts DEF WordAt
  <2>2. f[<<0, k>>] = Turn(addr, 0, k, f[<<mem[0], k + 1>>])
    BY <1>1, <1>9, <2>1
  <2> QED BY <1>1, <1>3, <1>10, <2>1, <2>2 DEF Turn
<1>12. CASE i # 0
  <2>1. PICK w \in Word : w = defs[i].word /\ w # 0 /\ w < addr /\ i \in 1 .. Len(defs)
    BY <1>2, <1>4, <1>5, <1>12 DEF LastBelow
  <2>2. Plus1(w) \in Cells /\ ~Nameless(w)
    BY <2>1, NoneIsNameless
  <2>3. f[<<w, k>>] = Turn(addr, w, k, f[<<mem[w], k + 1>>])
    BY <1>1, <1>9, <2>1
  <2>4. WordAt(i) = w
    BY <1>12, <2>1 DEF WordAt
  <2> QED BY <1>1, <1>3, <1>10, <2>1, <2>2, <2>3, <2>4 DEF Turn
<1> QED BY <1>11, <1>12

----------------------------------------------------------------------------
(* What a trace needs to know of the layout.                               *)

\* The dictionary ends inside of memory, but before it is compiled to.
InMemory == Running /\ Limit # 0 => H <= Limit \/ (todo # << >> /\ Head(todo).do = "compile")

\* The layout is one that the options gave, or its default.
LayoutInv == Running => \E cells \in Presets : RetBase = StartRet(cells) /\ MemBase = StartMem(cells)

LEMMA LayoutCells ==
  ASSUME WellBracketed, IInv, Behaves, Running, Next
  PROVE  RetBase' = RetBase /\ MemBase' = MemBase
<1>1. /\ Base /\ MemBase \in Nat /\ H \in Nat /\ last \in Nat /\ Top \in Nat /\ H < Top /\ 32 < Top
      /\ last = IF defs = << >> THEN 0 ELSE defs[Len(defs)].word
      /\ defs # << >> => last + 3 <= H
      /\ Len(defs) \in Nat /\ Dict(mem, defs, strings, MemBase)
  BY RunningFacts, WordFacts
<1>2. 12 <= MemBase /\ 12 <= RetBase /\ 14 <= H /\ RetBase \in Nat
  <2>1. /\ RetBase \in Nat /\ Len(calls) \in Nat
    BY <1>1, StackTop
  <2> QED BY <1>1, <2>1 DEF Base, StackOk
<1>3. /\ R = RetBase - 1 + Len(calls) /\ Len(calls) \in Nat /\ RetBase + Len(calls) <= MemBase
      /\ MemBase <= H
  BY <1>1, StackTop DEF Base, StackOk
<1>4. Plus1(R) # 10 /\ Plus1(R) # 11
  BY <1>1, <1>2, <1>3 DEF Plus1
<1>5. last = 0 \/ (12 <= last /\ last + 2 < Top)
  <2>1. CASE defs # << >>
    <3>1. Len(defs) \in 1 .. Len(defs)
      <4>1. TypeOK
        BY DEF IInv
      <4>2. Len(defs) # 0
        BY <2>1, <4>1, EmptySeq DEF TypeOK
      <4> QED BY <1>1, <4>2
    <3>2. MemBase <= defs[Len(defs)].word
      BY <1>1, <3>1 DEF Dict
    <3> QED BY <1>1, <1>2, <2>1, <3>2
  <2> QED BY <1>1, <2>1
<1>6. Plus1(Plus1(last)) # 10 /\ Plus1(Plus1(last)) # 11
  BY <1>1, <1>5 DEF Plus1
<1>7. /\ Minus1(Minus1(H)) # 10 /\ Minus1(Minus1(H)) # 11
      /\ Plus1(H) # 10 /\ Plus1(H) # 11
  BY <1>1, <1>2 DEF Plus1, Minus1
<1>8. ~Exec(OpSet)
  BY NeverSets
<1>9. ASSUME NEW a \in {10, 11} PROVE mem'[a] = mem[a]
  <2>1. a \in Word /\ a # 0 /\ a # 1 /\ a # H
    BY <1>2, <1>9, WordFacts
  <2>2. a \notin Footprint
    BY <1>4, <1>6, <1>7, <1>8, <1>9, <2>1 DEF Footprint
  <2> QED BY <2>1, <2>2, NextFootprint
<1> QED BY <1>9 DEF RetBase, MemBase

\* How the end of the dictionary moves.
LEMMA EndMoves ==
  ASSUME WellBracketed, IInv, Behaves, Running, Next, status' = "running"
  PROVE  /\ H' \in {H, H - 1} \/ (CanStor(H) /\ H' = Plus1(H))
         /\ todo # << >> /\ Head(todo).do = "compile" => CanStor(H) /\ H' = Plus1(H)
<1>1. /\ TypeOK /\ Base /\ H \in Nat /\ H < Top /\ 14 <= H /\ mem \in Memory /\ Top \in Nat
      /\ Booting \/ Working
  BY RunningFacts, MachineTypes DEF IInv, Base
<1>2. ASSUME NEW v \in Word, Compile(v) PROVE CanStor(H) /\ H' = Plus1(H)
  <2>1. CanStor(H) /\ mem' = Compiled(v)
    BY <1>2 DEF Compile
  <2>2. PICK m \in Memory : m = [mem EXCEPT ![0] = Plus1(H)] /\ m[0] = Plus1(H)
    <3>1. H \in Word
      BY <1>1, MachineTypes
    <3>2. PICK h \in Word : h = Plus1(H)
      BY <3>1, StepFacts
    <3>3. [mem EXCEPT ![0] = h] \in Memory /\ [mem EXCEPT ![0] = h][0] = h
      BY <1>1, <3>2, WordFacts DEF Memory
    <3> QED BY <3>2, <3>3
  <2>3. Stored(m, H, v)[0] = m[0]
    <3>1. H \in Word
      BY <1>1, MachineTypes
    <3>2. 0 \in Word /\ 0 # H
      BY <1>1, WordFacts
    <3> QED BY <1>2, <3>1, <3>2, StoredElsewhere
  <2> QED BY <2>1, <2>2, <2>3 DEF Compiled, H
<1>3. ASSUME NEW ret \in Word, NEW target \in Word, Call(ret, target) PROVE H' = H
  <2>1. SameCells
    BY <1>1, <1>3, CallCells
  <2> QED BY <2>1, WordFacts DEF SameCells, H
<1>4. ASSUME NEW ret, Exit(ret) PROVE H' = H
  BY <1>1, <1>4, WordFacts DEF Exit, Halts, H, Memory
<1>5. ASSUME Immediate PROVE H' = H - 1
  <2>1. mem'[0] = H - 1
    BY <1>1, <1>5, ImmediateCells
  <2> QED BY <2>1 DEF H
<1>6. ASSUME todo # << >>
      PROVE  H' \in {H, H - 1} \/ (CanStor(H) /\ H' = Plus1(H))
  <2>1. Arg0 \in Word /\ prog \in Word
    BY <1>1, <1>6, Arg0Type DEF TypeOK
  <2>2. CASE CompileMore
    BY <1>2, <2>1, <2>2 DEF CompileMore
  <2>3. CASE CompItMore
    <3>1. Compile(Arg0)
      BY <2>3 DEF CompItMore, Compile
    <3> QED BY <1>2, <2>1, <3>1
  <2>4. CASE ImmediateMore
    BY <1>5, <2>4 DEF ImmediateMore
  <2>5. CASE ExitMore
    BY <1>4, <2>5 DEF ExitMore
  <2>6. CASE LookupCall
    <3>1. Plus1(Plus1(Arg0)) \in Word
      BY <2>1, StepFacts
    <3> QED BY <1>3, <2>1, <2>6, <3>1 DEF LookupCall
  <2>7. CASE InlineMore
    <3>1. mem' = Stored(mem, Plus1(Plus1(last)), OpCompIt)
      BY <2>7 DEF InlineMore
    <3>2. Plus1(Plus1(last)) \in Word /\ Plus1(Plus1(last)) # 0 /\ OpCompIt \in Word
      <4>1. /\ last = IF defs = << >> THEN 0 ELSE defs[Len(defs)].word
            /\ last \in Nat /\ (defs # << >> => last + 3 <= H)
        BY RunningFacts
      <4>2. PICK l \in Nat : l = last /\ l + 2 < Top
        <5>1. last + 2 < Top
          BY <1>1, <4>1, WordFacts
        <5> QED BY <4>1, <5>1
      <4>3. Plus1(l) = l + 1 /\ Plus1(l + 1) = l + 2
        BY <1>1, <4>2 DEF Plus1
      <4>4. l + 2 \in Word /\ l + 2 # 0 /\ OpCompIt \in Word
        BY <1>1, <4>2, WordFacts DEF Word
      <4> QED BY <4>2, <4>3, <4>4
    <3>3. mem'[0] = mem[0]
      BY <1>1, <3>1, <3>2, WordFacts, StoredElsewhere
    <3> QED BY <3>3 DEF H
  <2>8. CASE SetLastMore \/ EntryMore \/ BuiltinMore \/ EndOfInput \/ LookupMore \/ LookupLiteral
    BY <2>8 DEF SetLastMore, EntryMore, BuiltinMore, EndOfInput, LookupMore, LookupLiteral,
       fields, H
  <2> QED BY <1>6, <2>2, <2>3, <2>4, <2>5, <2>6, <2>7, <2>8, NextJob
<1>7. ASSUME todo = << >>
      PROVE  H' \in {H, H - 1} \/ (CanStor(H) /\ H' = Plus1(H))
  <2>1. /\ mem[prog] \in Word /\ After \in Word
    BY <1>1, MachineTypes, StepFacts DEF After
  <2>2. mem[prog] # OpSet
    <3>1. prog \in Cells /\ Stepping
      BY <1>7, NextCode DEF Stepping
    <3> QED BY <3>1, NeverSets DEF Exec
  <2>3. CASE CallStep
    BY <1>3, <2>1, <2>3 DEF CallStep
  <2>4. CASE ExitStep
    BY <1>4, <2>4 DEF ExitStep
  <2>5. CASE ImmediateStep
    BY <1>5, <2>5 DEF ImmediateStep
  <2>6. CASE DefineStep \/ ReadStep \/ CompileStep \/ RunStep \/ PushintStep \/ CompItStep \/ Computes
    BY <2>6 DEF DefineStep, ReadStep, CompileStep, RunStep, PushintStep, CompItStep, Computes, H
  <2> QED BY <1>7, <2>2, <2>3, <2>4, <2>5, <2>6, NextCode
<1>8. ASSUME todo # << >>, Head(todo).do = "compile" PROVE CanStor(H) /\ H' = Plus1(H)
  <2>1. CompileMore
    BY <1>8, NextJob
  <2>2. Arg0 \in Word
    BY <1>1, <1>8, Arg0Type
  <2> QED BY <1>2, <2>1, <2>2 DEF CompileMore
<1> QED BY <1>6, <1>7, <1>8

LEMMA LayoutOn ==
  ASSUME WellBracketed, IInv, Behaves, LayoutInv, [Next]_vars
  PROVE  LayoutInv'
<1>1. CASE UNCHANGED vars
  BY <1>1 DEF vars, fields, LayoutInv, Running, RetBase, MemBase
<1>2. CASE Next /\ ~Running
  <2>1. Start /\ Init
    BY <1>2, NewStarts DEF Behaves, GoodEnds
  <2> QED BY <2>1, StartBoots DEF LayoutInv
<1>3. CASE Next /\ Running
  BY <1>3, LayoutCells DEF LayoutInv
<1> QED BY <1>1, <1>2, <1>3

LEMMA InMemoryOn ==
  ASSUME WellBracketed, IInv, Behaves, InMemory, [Next]_vars
  PROVE  InMemory'
<1>1. CASE UNCHANGED vars
  BY <1>1 DEF vars, fields, InMemory, Running, H
<1>2. CASE Next /\ ~Running
  <2>1. Start /\ Init
    BY <1>2, NewStarts DEF Behaves, GoodEnds
  <2> QED BY <2>1, StartBoots DEF InMemory
<1>3. CASE Next /\ Running
  <2> SUFFICES ASSUME Running', Limit # 0 PROVE H' <= Limit
    BY DEF InMemory
  <2>1. Limit \in Nat
    BY LimitAssumption, WordFacts DEF Word
  <2>2. H \in Nat
    BY <1>3, RunningFacts
  <2>3. /\ H' \in {H, H - 1} \/ (CanStor(H) /\ H' = Plus1(H))
        /\ todo # << >> /\ Head(todo).do = "compile" => CanStor(H) /\ H' = Plus1(H)
    BY <1>3, EndMoves DEF Running
  <2>4. CASE CanStor(H) /\ H' = Plus1(H)
    BY <2>4 DEF CanStor
  <2>5. CASE H <= Limit /\ H' \in {H, H - 1}
    BY <2>1, <2>2, <2>5
  <2> QED BY <1>3, <2>3, <2>4, <2>5 DEF InMemory
<1> QED BY <1>1, <1>2, <1>3

----------------------------------------------------------------------------
(* What a trace reads, and the theorems about it.                          *)

LEMMA EndIsCell ==
  ASSUME IInv, Behaves, InMemory, Stepping
  PROVE  /\ H \in Cells
         /\ \A a \in Word : a <= H => a \in Cells
         /\ Limit = 0 \/ H <= Limit
<1>1. /\ H \in Nat /\ H < Top /\ Top \in Nat
  BY RunningFacts DEF Stepping
<1>2. Limit \in Nat
  BY LimitAssumption, WordFacts DEF Word
<1>3. Limit = 0 \/ H <= Limit
  BY DEF InMemory, Stepping
<1>4. PICK n \in Nat : n = (IF Limit = 0 THEN Top - 1 ELSE Limit) /\ H <= n
  <2>1. CASE Limit = 0
    BY <1>1, <2>1
  <2>2. CASE Limit # 0
    BY <1>2, <1>3, <2>2
  <2> QED BY <2>1, <2>2
<1>5. Cells = 0 .. n
  BY <1>4 DEF Cells
<1>6. \A a \in Word : a <= H => a \in 0 .. n
  BY <1>1, <1>4 DEF Word
<1>7. H \in 0 .. n
  BY <1>1, <1>4
<1> QED BY <1>3, <1>5, <1>6, <1>7

LEMMA StackIsCopied ==
  ASSUME WellBracketed, RStackFits, IInv, Behaves, InMemory, LayoutInv, Stepping
  PROVE  RStackFault = "none"
<1>1. /\ Base /\ MemBase \in Nat /\ H \in Nat /\ H < Top /\ Top \in Nat
  BY RunningFacts DEF Stepping
<1>2. /\ Minus1(RetBase) = RetBase - 1 /\ RetBase \in Nat /\ R \in Nat /\ Len(calls) \in Nat
      /\ R = RetBase - 1 + Len(calls)
  BY <1>1, StackTop
<1>3. RetBase + Len(calls) <= MemBase /\ MemBase <= H
  BY <1>1 DEF Base, StackOk
<1>4. MemBase - RetBase <= MostCells /\ MostCells \in Nat
  <2>1. PICK cells \in Presets : RetBase = StartRet(cells) /\ MemBase = StartMem(cells)
    BY DEF LayoutInv, Stepping
  <2>2. StartMem(cells) - StartRet(cells) <= MostCells
    BY DEF RStackFits
  <2> QED BY <2>1, <2>2, MostCellsAssumption
<1>5. ~(R < Minus1(RetBase)) /\ R >= Minus1(RetBase)
  BY <1>2
<1>6. CASE R < RetBase
  <2>1. ~(R >= RetBase)
    BY <1>2, <1>6
  <2> QED BY <1>5, <1>6, <2>1 DEF RStackFault
<1>7. CASE ~(R < RetBase)
  <2>1. R >= RetBase /\ ~(R - RetBase >= MostCells) /\ R + 1 <= H
    BY <1>2, <1>3, <1>4, <1>7, <1>1
  <2>2. Plus1(R) = R + 1
    BY <1>1, <1>2, <2>1 DEF Plus1
  <2>3. Limit = 0 \/ H <= Limit
    BY EndIsCell
  <2>4. Limit = 0 \/ Plus1(R) <= Limit
    <3>1. Limit \in Nat
      BY LimitAssumption, WordFacts DEF Word
    <3> QED BY <1>1, <1>2, <2>1, <2>2, <2>3, <3>1
  <2> QED BY <1>5, <1>7, <2>1, <2>4 DEF RStackFault
<1> QED BY <1>6, <1>7

\* What the trace reads from a machine between two steps.
LEMMA TraceReads ==
  ASSUME WellBracketed, RStackFits, IInv, Behaves, InMemory, LayoutInv, Stepping
  PROVE  /\ WordOf(prog) = Found(Latest(prog))
         /\ mem[prog] \notin Ops => CodeName = Found(Latest(mem[prog]))
         /\ prog \in Cells => CodeName.fault = "none"
         /\ prog \notin Cells => CodeName = Lost("limit")
<1>1. Working /\ Sound /\ TypeOK /\ Base /\ Words
  BY SteppingWorks DEF Working, IInv
<1>2. /\ H \in Cells /\ last + 3 <= H /\ prog \in Word /\ H \in Nat /\ H < Top
      /\ \A a \in Word : a <= H => a \in Cells
  BY <1>1, EndIsCell, WorkHasHeaders, MachineTypes, RunningFacts DEF Stepping
<1>3. \A addr : WordOf(addr) = Found(Latest(addr))
  BY <1>1, <1>2, WordOfIsLatest
<1>4. \A w : Found(w).fault = "none"
  BY DEF Found
<1>5. CASE prog \notin Cells
  <2>1. prog > H
    BY <1>2, <1>5 DEF Word
  <2>2. mem[prog] \in Ops
    BY <1>1, <1>2, <2>1, CodesAreNumbers DEF Base
  <2> QED BY <1>3, <1>5, <2>2 DEF CodeName
<1>6. CASE prog \in Cells /\ mem[prog] \notin Ops
  <2>1. CodeName = WordOf(mem[prog])
    BY <1>6, CodesAreNumbers DEF CodeName
  <2>2. WordOf(mem[prog]) = Found(Latest(mem[prog]))
    BY <1>3
  <2> QED BY <1>3, <1>4, <1>6, <2>1, <2>2
<1>7. CASE prog \in Cells /\ mem[prog] \in Ops
  <2>1. mem[prog] = OpPushint => After \in Cells
    <3> SUFFICES ASSUME mem[prog] = OpPushint PROVE After \in Cells
      OBVIOUS
    <3>1. prog + 2 <= H
      BY <1>1 DEF Sound
    <3>2. PICK p \in Nat : p = prog /\ p + 2 <= H
      <4>1. prog \in Nat
        BY <1>2, WordFacts DEF Word
      <4> QED BY <3>1, <4>1
    <3>3. Plus1(p) = p + 1 /\ p + 1 <= H
      BY <1>2, <3>2, WordFacts DEF Plus1
    <3>4. p + 1 \in Word
      BY <1>2, <3>2, <3>3, WordFacts DEF Word
    <3> QED BY <1>2, <3>2, <3>3, <3>4 DEF After
  <2>2. CodeName = Found(0)
    BY <1>7, <2>1 DEF CodeName
  <2> QED BY <1>3, <1>4, <1>7, <2>2
<1> QED BY <1>5, <1>6, <1>7

\* A step that is traced is a step, and a trace that halts the machine halts it
\* as the step would have.
LEMMA TracedIsNext ==
  ASSUME WellBracketed, RStackFits, IInv, Behaves, InMemory, LayoutInv,
         [TracedNext]_tracedVars
  PROVE  [Next]_vars
<1>1. CASE TraceHalts
  <2>1. Stepping /\ TraceFault # "none"
    BY <1>1 DEF TraceHalts
  <2>2. /\ \A w : Found(w).fault = "none"
        /\ Lost("limit").fault = "limit"
    BY DEF Found, Lost
  <2>3. WordOf(prog).fault = "none" /\ RStackFault = "none"
    BY <2>1, <2>2, TraceReads, StackIsCopied
  <2>4. prog \notin Cells /\ CodeName.fault = "limit"
    BY <2>1, <2>2, <2>3, TraceReads DEF TraceFault
  <2>5. TraceFault = "limit"
    BY <2>3, <2>4 DEF TraceFault
  <2>6. FetchPastLimit
    BY <1>1, <2>1, <2>4, <2>5 DEF TraceHalts, FetchPastLimit
  <2> QED BY <2>6 DEF Next, Step
<1>2. CASE TracedStep
  BY <1>2 DEF TracedStep
<1>3. CASE UNCHANGED tracedVars
  BY <1>3 DEF tracedVars
<1> QED BY <1>1, <1>2, <1>3 DEF TracedNext

TracedInv == IInv /\ Behaves /\ InMemory /\ LayoutInv

LEMMA TracedInvHolds ==
  ASSUME WellBracketed, RStackFits
  PROVE  TracedSpec => [](TracedInv /\ [][Next]_vars)
<1>1. TracedInit => TracedInv
  <2>1. Init => IInv
    BY InitIInv
  <2> QED BY <2>1 DEF TracedInit, Init, TracedInv, Behaves, InMemory, LayoutInv, Running
<1>2. TracedInv /\ [TracedNext]_tracedVars => [Next]_vars
  BY TracedIsNext DEF TracedInv
<1>3. TracedInv /\ [Next]_vars => TracedInv'
  <2> SUFFICES ASSUME TracedInv, [Next]_vars PROVE TracedInv'
    OBVIOUS
  <2>1. IInv /\ Behaves /\ InMemory /\ LayoutInv
    BY DEF TracedInv
  <2>2. IInv'
    BY <2>1, NextKeepsIInv, StutterKeepsIInv
  <2>3. Behaves'
    BY <2>1, <2>2, BehavesOn
  <2>4. InMemory' /\ LayoutInv'
    BY <2>1, InMemoryOn, LayoutOn
  <2> QED BY <2>2, <2>3, <2>4 DEF TracedInv
<1> QED BY <1>1, <1>2, <1>3, PTL DEF TracedSpec

\* The trace tells the truth: the word that it names for the machine's place,
\* and for what is called there, is the latest one defined below it; it reads
\* no cell past the limit, and its search goes round in no circle (first.go:
\* wordOf, codeName, rstack).
THEOREM TraceIsTold == WellBracketed /\ RStackFits => (TracedSpec => []TraceTellsTheWord)
<1> SUFFICES ASSUME WellBracketed, RStackFits PROVE TracedSpec => []TraceTellsTheWord
  OBVIOUS
<1>1. TracedInv => TraceTellsTheWord
  <2> SUFFICES ASSUME TracedInv, Stepping
               PROVE  /\ WordOf(prog) = Found(Latest(prog))
                      /\ mem[prog] \notin Ops => CodeName = Found(Latest(mem[prog]))
                      /\ RStackFault = "none"
    BY DEF TraceTellsTheWord
  <2> QED BY TraceReads, StackIsCopied DEF TracedInv
<1> QED BY <1>1, TracedInvHolds, PTL

\* A machine that is traced does what it would have done without, for all that
\* the trace reads: what holds of well bracketed programs holds of it, and where
\* the trace halts it, the step would have, with the same error (first.go: step).
THEOREM TraceChangesNothing == WellBracketed /\ RStackFits => (TracedSpec => Spec)
<1> SUFFICES ASSUME WellBracketed, RStackFits PROVE TracedSpec => Spec
  OBVIOUS
<1>1. TracedInit => Init
  BY DEF TracedInit
<1> QED BY <1>1, TracedInvHolds, PTL DEF TracedSpec, Spec
=============================================================================
