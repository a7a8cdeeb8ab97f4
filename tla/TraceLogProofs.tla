--------------------------- MODULE TraceLogProofs --------------------------
(***************************************************************************)
(* Theorems about TraceLog, for any goroutines, whatever calls they make,  *)
(* any number of workers, one inside of another, and whatever fails.       *)
(***************************************************************************)
EXTENDS TraceLog, SequenceTheorems, TLAPS

Lines == {"no line", "blank", "line", "ERROR"} \X Nat
Procs == Clients \union ToSet(Workers)
Steps == {"log", "printf", "unwrap", "close", "close quietly", "report", "log error", "errorf",
          "code 1", "code 2", "wrap", "answer", "exit"}
Ending == {"flush, close", "close", "send", "gone"}
States == {"new", "scan", "read", "flush, read", "flush, scan"} \union Ending

Shapes ==
  /\ mutex \in Clients \union {None}
  /\ out \in Outputs /\ fallback \in {Base, None} /\ (fallback = None => out = Base)
  /\ buf \in Seq(Lines) /\ logged \in Seq(Lines) /\ shown \in Seq(Lines)
  /\ exitCode \in 0 .. 2 /\ code \in [answer : 0 .. 2, exited : BOOLEAN] /\ broken \in BOOLEAN
  /\ calls \in [Clients -> Seq(Calls)]
  /\ todo \in [Procs -> Seq(Steps \union States)]
  /\ closing \in [Clients -> Outputs \union {None}]
  /\ putting \in [Procs -> BOOLEAN]
  /\ pipe \in [ToSet(Workers) -> [data : Seq(Lines), rclosed : BOOLEAN, wclosed : BOOLEAN]]
  /\ target \in [ToSet(Workers) -> Outputs]
  /\ unread \in [ToSet(Workers) -> Seq(Lines)]
  /\ pend \in [ToSet(Workers) -> Lines] /\ held \in [ToSet(Workers) -> Lines]
  /\ werr \in [ToSet(Workers) -> BOOLEAN]

\* What may stand after a step in what is left of a call, and what never ends it.
MayFollow(x, y) ==
  \/ x = "log" /\ y = "printf"
  \/ x \in {"unwrap", "close", "report", "code 2"} /\ y \in {"log error", "answer"}
  \/ x = "close quietly" /\ y = "log error"
  \/ x = "log error" /\ y = "errorf"
  \/ x = "errorf" /\ y \in {"code 1", "code 2"}
Unended == {"log", "log error", "errorf", "close quietly"}
WellFormed(s) ==
  /\ s \in Seq(Steps)
  /\ \A i \in 1 .. Len(s) - 1 : MayFollow(s[i], s[i + 1])
  /\ s # << >> => s[Len(s)] \notin Unended

CallInv == \A c \in Clients : WellFormed(todo[c]) /\ (todo[c] # << >> => mutex = c)

\* The workers by their number in the order of their start.
Is(k, s) == todo[Workers[k]] = <<s>>
Live(k) == ~Is(k, "new") /\ ~Is(k, "gone")
\* the last worker that was started
Top(k) == Live(k) /\ (k < Len(Workers) => Is(k + 1, "new"))
\* the first one whose output is not the log's own
Bottom(k) == k > 1 => Is(k - 1, "gone")
\* is client c closing the wrapper?
IsClosing(c) == \E what \in Closes : Doing(c, what)
Early(c) ==
  \E what \in Closes \union {"log error", "errorf", "code 1", "code 2"} : Doing(c, what)

StateInv == \A k \in DOMAIN Workers : \E s \in States : Is(k, s)
OrderOfWorkers ==
  \A j, k \in DOMAIN Workers : j < k =>
    (Is(j, "new") => Is(k, "new")) /\ (Is(k, "gone") => Is(j, "gone"))
TargetInv ==
  \A k \in DOMAIN Workers : Live(k) =>
    IF Bottom(k) THEN target[Workers[k]] = Base \/ Is(k, "send")
    ELSE target[Workers[k]] = Workers[k - 1] /\ ~Is(k, "send")
LiveInv ==
  \A k \in DOMAIN Workers : Live(k) => fallback # None \/ \E c \in Clients : IsClosing(c)
OutInv == fallback # None => \E k \in DOMAIN Workers : Top(k) /\ out = Workers[k]
ClosingInv ==
  \A c \in Clients : IsClosing(c) => \E k \in DOMAIN Workers : Top(k) /\ closing[c] = Workers[k]
EarlyInv == \A c \in Clients : Early(c) => fallback = None

\* Who is blocked in a write, and to which pipe.
PutInv ==
  /\ \A c \in Clients : putting[c] => out # Base /\ \E what \in Printfs : Doing(c, what)
  /\ \A k \in DOMAIN Workers : putting[Workers[k]] =>
       target[Workers[k]] # Base /\ \E f \in Flushes : Is(k, f)
DataInv ==
  \A k \in DOMAIN Workers : pipe[Workers[k]].data # << >> =>
    \/ \E c \in Clients : putting[c] /\ out = Workers[k]
    \/ k < Len(Workers) /\ putting[Workers[k + 1]] /\ target[Workers[k + 1]] = Workers[k]
Chain == OrderOfWorkers /\ TargetInv /\ LiveInv /\ OutInv /\ ClosingInv /\ EarlyInv

\* An error of a worker is told: it is in the exit code, or a worker that runs
\* has it, or the call that is being made will set the code.
WillTell(s) == \E i \in 1 .. Len(s) : s[i] \in {"report", "code 1", "code 2"}
ErrorInv ==
  (\E k \in DOMAIN Workers : werr[Workers[k]]) =>
    \/ exitCode # 0
    \/ \E c \in Clients : WillTell(todo[c])
    \/ \E k \in DOMAIN Workers : Live(k) /\ werr[Workers[k]]
----------------------------------------------------------------------------
(* Facts about the constants and about functions and sequences.            *)

Pipes == [data : Seq(Lines), rclosed : BOOLEAN, wclosed : BOOLEAN]

LEMMA Names ==
  /\ DOMAIN Workers = 1 .. Len(Workers) /\ Len(Workers) \in Nat
  /\ \A k \in DOMAIN Workers :
       /\ Workers[k] \in ToSet(Workers) /\ Workers[k] \notin Clients
       /\ Workers[k] # Base /\ Workers[k] # None /\ Workers[k] \in Procs
  /\ \A j, k \in DOMAIN Workers : Workers[j] = Workers[k] => j = k
  /\ \A w \in ToSet(Workers) : \E k \in DOMAIN Workers : w = Workers[k]
  /\ \A c \in Clients : c # Base /\ c # None /\ c \in Procs
<1>1. Workers \in Seq(ToSet(Workers))  BY WorkersAssumption
<1>2. DOMAIN Workers = 1 .. Len(Workers) /\ Len(Workers) \in Nat  BY <1>1
<1>3. ToSet(Workers) = {Workers[k] : k \in DOMAIN Workers}  BY DEF ToSet
<1>4. \A j, k \in DOMAIN Workers : Workers[j] = Workers[k] => j = k
  BY WorkersAssumption DEF IsInjective
<1> QED  BY <1>2, <1>3, <1>4, NamesAssumption DEF Procs

LEMMA DataSet ==
  ASSUME NEW S, NEW f \in [S -> Pipes], NEW d \in S, NEW x \in Seq(Lines)
  PROVE  LET g == [f EXCEPT ![d].data = x]
         IN /\ g \in [S -> Pipes] /\ \A e \in S : e # d => g[e] = f[e]
            /\ g[d].data = x /\ g[d].rclosed = f[d].rclosed /\ g[d].wclosed = f[d].wclosed
<1> f[d] \in Pipes  OBVIOUS
<1> QED  BY DEF Pipes

LEMMA WClosedSet ==
  ASSUME NEW S, NEW f \in [S -> Pipes], NEW d \in S
  PROVE  LET g == [f EXCEPT ![d].wclosed = TRUE]
         IN /\ g \in [S -> Pipes] /\ \A e \in S : e # d => g[e] = f[e]
            /\ g[d].data = f[d].data /\ g[d].rclosed = f[d].rclosed /\ g[d].wclosed
<1> f[d] \in Pipes  OBVIOUS
<1> QED  BY DEF Pipes

LEMMA RClosedSet ==
  ASSUME NEW S, NEW f \in [S -> Pipes], NEW d \in S
  PROVE  LET g == [f EXCEPT ![d].rclosed = TRUE]
         IN /\ g \in [S -> Pipes] /\ \A e \in S : e # d => g[e] = f[e]
            /\ g[d].data = f[d].data /\ g[d].rclosed /\ g[d].wclosed = f[d].wclosed
<1> f[d] \in Pipes  OBVIOUS
<1> QED  BY DEF Pipes

LEMMA NoneIsASequence == \A S : << >> \in Seq(S)
OBVIOUS

LEMMA PrefixTail ==
  ASSUME NEW S, NEW s \in Seq(S), s # << >>, NEW p \in Seq(S)
  PROVE  LET t == p \o Tail(s)
         IN /\ t \in Seq(S) /\ Len(t) = Len(p) + Len(s) - 1
            /\ \A i \in 1 .. Len(p) : t[i] = p[i]
            /\ \A i \in Len(p) + 1 .. Len(t) : t[i] = s[i - Len(p) + 1]
            /\ Head(s) = s[1] /\ Len(s) >= 1
OBVIOUS
----------------------------------------------------------------------------
(* What the operators that write and close do to the pipes.                *)

\* only p is blocked or freed
OnlyPutting(p, b) ==
  /\ putting' \in [Procs -> BOOLEAN] /\ putting'[p] = b
  /\ \A q \in Procs : q # p => putting'[q] = putting[q]
\* the ends of the pipes stay, and the data of all but d
OnlyData(d, x) ==
  /\ pipe' \in [ToSet(Workers) -> Pipes] /\ pipe'[d].data = x
  /\ \A w \in ToSet(Workers) : /\ w # d => pipe'[w].data = pipe[w].data
                               /\ pipe'[w].rclosed = pipe[w].rclosed
                               /\ pipe'[w].wclosed = pipe[w].wclosed

LEMMA PutsDoes ==
  ASSUME Shapes, NEW p \in Procs, NEW d \in Outputs, NEW data \in Seq(Lines), Puts(p, d, data)
  PROVE  /\ d \in ToSet(Workers) /\ CanPut(d) /\ ~putting[p] /\ UNCHANGED shown
         /\ OnlyPutting(p, TRUE) /\ OnlyData(d, data)
<1>1. d \in ToSet(Workers) /\ CanPut(d) /\ ~putting[p] /\ UNCHANGED shown
  BY DEF Puts, Outputs
<1>2. putting \in [Procs -> BOOLEAN] /\ pipe \in [ToSet(Workers) -> Pipes]
  BY DEF Shapes, Pipes
<1>3. OnlyPutting(p, TRUE)  BY <1>2 DEF Puts, OnlyPutting
<1>4. OnlyData(d, data)  BY <1>1, <1>2, DataSet DEF Puts, OnlyData
<1> QED  BY <1>1, <1>3, <1>4

LEMMA WriteOkDoes ==
  ASSUME Shapes, NEW p \in Procs, NEW d \in Outputs, NEW data \in Seq(Lines), WriteOk(p, d, data)
  PROVE  /\ UNCHANGED pipe /\ shown' \in Seq(Lines) /\ putting' \in [Procs -> BOOLEAN]
         /\ \/ d = Base /\ ~broken /\ shown' = shown \o data /\ UNCHANGED putting
            \/ /\ d \in ToSet(Workers) /\ putting[p] /\ pipe[d].data = << >>
               /\ OnlyPutting(p, FALSE) /\ UNCHANGED shown
<1>1. putting \in [Procs -> BOOLEAN] /\ shown \in Seq(Lines)  BY DEF Shapes
<1>4. shown \o data \in Seq(Lines)  BY <1>1
<1>2. CASE d = Base
  <2>1. UNCHANGED <<pipe, putting>> /\ ~broken /\ shown' = shown \o data  BY <1>2 DEF WriteOk
  <2> QED  BY <1>1, <1>2, <1>4, <2>1
<1>3. CASE d # Base  BY <1>1, <1>3 DEF WriteOk, Outputs, OnlyPutting
<1> QED  BY <1>2, <1>3

LEMMA WriteFailsDoes ==
  ASSUME Shapes, NEW p \in Procs, NEW d \in Outputs, WriteFails(p, d)
  PROVE  /\ UNCHANGED shown
         /\ putting' \in [Procs -> BOOLEAN] /\ pipe' \in [ToSet(Workers) -> Pipes]
         /\ \/ d = Base /\ broken /\ UNCHANGED <<pipe, putting>>
            \/ d \in ToSet(Workers) /\ ~putting[p] /\ ~CanPut(d) /\ UNCHANGED <<pipe, putting>>
            \/ /\ d \in ToSet(Workers) /\ putting[p] /\ pipe[d].data # << >> /\ ~CanPut(d)
               /\ OnlyPutting(p, FALSE) /\ OnlyData(d, << >>)
<1>1. putting \in [Procs -> BOOLEAN] /\ pipe \in [ToSet(Workers) -> Pipes]
  BY DEF Shapes, Pipes
<1>2. CASE d = Base  BY <1>1, <1>2 DEF WriteFails
<1>3. CASE d # Base /\ putting[p]
  <2>1. d \in ToSet(Workers)  BY <1>3 DEF Outputs
  <2>2. /\ pipe[d].data # << >> /\ ~CanPut(d) /\ putting' = [putting EXCEPT ![p] = FALSE]
        /\ pipe' = [pipe EXCEPT ![d].data = << >>] /\ UNCHANGED shown
    BY <1>3 DEF WriteFails
  <2>3. OnlyPutting(p, FALSE)  BY <1>1, <2>2 DEF OnlyPutting
  <2>4. PICK none \in Seq(Lines) : none = << >>  BY NoneIsASequence
  <2>5. pipe' = [pipe EXCEPT ![d].data = none]  BY <2>2, <2>4
  <2>6. OnlyData(d, none)  BY <1>1, <2>1, <2>5, DataSet DEF OnlyData
  <2> QED  BY <1>3, <2>1, <2>2, <2>3, <2>4, <2>6 DEF OnlyData, OnlyPutting
<1>4. CASE d # Base /\ ~putting[p]  BY <1>1, <1>4 DEF WriteFails, Outputs
<1> QED  BY <1>2, <1>3, <1>4

LEMMA HangsUpDoes ==
  ASSUME Shapes, NEW d \in Outputs \union {None}, HangsUp(d), d # None
  PROVE  /\ d \in ToSet(Workers) /\ UNCHANGED <<todo, putting, shown>>
         /\ pipe' \in [ToSet(Workers) -> Pipes]
         /\ ~pipe[d].wclosed /\ pipe'[d].wclosed
         /\ \A w \in ToSet(Workers) : /\ w # d => pipe'[w] = pipe[w]
                                      /\ pipe'[w].data = pipe[w].data
                                      /\ pipe'[w].rclosed = pipe[w].rclosed
<1>1. d \in ToSet(Workers)  BY DEF Outputs, HangsUp, Hangs
<1>2. pipe \in [ToSet(Workers) -> Pipes]  BY DEF Shapes, Pipes
<1> QED  BY <1>1, <1>2, WClosedSet DEF HangsUp, Hangs
----------------------------------------------------------------------------
(* What the steps do to what the clients and the workers have to do.       *)

Todos == Seq(Steps \union States)
\* only p goes on, to s
OnlyTodo(p, s) ==
  /\ todo' \in [Procs -> Todos] /\ todo'[p] = s
  /\ \A q \in Procs : q # p => todo'[q] = todo[q]
CallsAndStates == CallInv /\ StateInv

LEMMA WellFormedIsTodo == ASSUME NEW s, WellFormed(s) PROVE s \in Todos
<1>1. s \in Seq(Steps)  BY DEF WellFormed
<1> QED  BY <1>1 DEF Todos

LEMMA TailIsWellFormed ==
  ASSUME NEW s, WellFormed(s), s # << >>
  PROVE  WellFormed(<< >> \o Tail(s)) /\ WellFormed(Tail(s)) /\ << >> \o Tail(s) = Tail(s)
<1>1. s \in Seq(Steps) /\ Len(s) >= 1  BY DEF WellFormed
<1>2. Tail(s) \in Seq(Steps) /\ Len(Tail(s)) = Len(s) - 1
      /\ \A i \in 1 .. Len(s) - 1 : Tail(s)[i] = s[i + 1]
  BY <1>1
<1>3. << >> \o Tail(s) = Tail(s)  BY <1>2
<1>4. ASSUME NEW i \in 1 .. Len(Tail(s)) - 1 PROVE MayFollow(Tail(s)[i], Tail(s)[i + 1])
  <2>1. MayFollow(s[i + 1], s[i + 2])  BY <1>1, <1>2, <1>4 DEF WellFormed
  <2> QED  BY <1>1, <1>2, <1>4, <2>1
<1>5. Tail(s) # << >> => Tail(s)[Len(Tail(s))] \notin Unended
  BY <1>1, <1>2 DEF WellFormed
<1> QED  BY <1>2, <1>3, <1>4, <1>5 DEF WellFormed

\* what follows y may follow x
MayReplace(x, y) == \A z : MayFollow(y, z) => MayFollow(x, z)

LEMMA PrefixIsWellFormed ==
  ASSUME NEW s, WellFormed(s), s # << >>, NEW p, WellFormed(p), p # << >>,
         MayReplace(p[Len(p)], Head(s))
  PROVE  WellFormed(p \o Tail(s))
<1>0. s \in Seq(Steps) /\ p \in Seq(Steps)  BY DEF WellFormed
<1>1. /\ s \in Seq(Steps) /\ p \in Seq(Steps)
      /\ Len(s) \in Nat /\ Len(p) \in Nat /\ Len(s) >= 1 /\ Len(p) >= 1
  BY <1>0
<1> DEFINE t == p \o Tail(s)
<1>2. /\ t \in Seq(Steps) /\ Len(t) = Len(p) + Len(s) - 1
      /\ \A i \in 1 .. Len(p) : t[i] = p[i]
      /\ \A i \in Len(p) + 1 .. Len(t) : t[i] = s[i - Len(p) + 1]
      /\ Head(s) = s[1]
  BY <1>1, PrefixTail
<1> HIDE DEF t
<1>3. ASSUME NEW i \in 1 .. Len(t) - 1 PROVE MayFollow(t[i], t[i + 1])
  <2>1. CASE i < Len(p)
    <3>1. MayFollow(p[i], p[i + 1])  BY <1>1, <1>3, <2>1 DEF WellFormed
    <3> QED  BY <1>1, <1>2, <1>3, <2>1, <3>1
  <2>2. CASE i = Len(p)
    <3>1. MayFollow(s[1], s[2])  BY <1>1, <1>2, <1>3, <2>2 DEF WellFormed
    <3>2. t[i + 1] = s[2] /\ t[i] = p[i]  BY <1>1, <1>2, <1>3, <2>2
    <3> QED  BY <1>2, <2>2, <3>1, <3>2 DEF MayReplace
  <2>3. CASE i > Len(p)
    <3>1. PICK n \in Nat, m \in Nat, j \in Nat : n = Len(s) /\ m = Len(p) /\ j = i
      BY <1>1, <1>3
    <3>2. Len(t) = m + n - 1 /\ j >= 1 /\ j + 1 <= m + n - 1 /\ m + 1 <= j
      BY <1>2, <1>3, <2>3, <3>1
    <3>3. j - m + 1 \in 1 .. n - 1 /\ j \in m + 1 .. m + n - 1 /\ j + 1 \in m + 1 .. m + n - 1
      BY <3>1, <3>2
    <3>4. t[j] = s[j - m + 1]  BY <1>2, <3>1, <3>2, <3>3
    <3>5. t[j + 1] = s[(j + 1) - m + 1]  BY <1>2, <3>1, <3>2, <3>3
    <3>6. (j + 1) - m + 1 = (j - m + 1) + 1  BY <3>1
    <3>7. MayFollow(s[j - m + 1], s[(j - m + 1) + 1])  BY <3>1, <3>3 DEF WellFormed
    <3>8. MayFollow(t[j], t[j + 1])  BY <3>4, <3>5, <3>6, <3>7
    <3> QED  BY <3>1, <3>8
  <2> QED  BY <1>1, <1>3, <2>1, <2>2, <2>3
<1>4. t[Len(t)] \notin Unended
  <2>1. t[Len(t)] = IF Len(s) = 1 THEN p[Len(p)] ELSE s[Len(s)]
    <3>1. PICK n \in Nat, m \in Nat : n = Len(s) /\ m = Len(p) /\ n >= 1 /\ m >= 1  BY <1>1
    <3>2. Len(t) = m + n - 1  BY <1>2, <3>1
    <3>3. n = 1 => t[m] = p[m]  BY <1>2, <3>1
    <3>4. n > 1 => t[m + n - 1] = s[n]  BY <1>2, <3>1
    <3> QED  BY <3>1, <3>2, <3>3, <3>4
  <2> QED  BY <2>1 DEF WellFormed
<1> QED  BY <1>2, <1>3, <1>4 DEF WellFormed, t

LEMMA TodoKept ==
  ASSUME CallsAndStates, todo' \in [Procs -> Todos],
         \A c \in Clients : todo'[c] = todo[c] \/ WellFormed(todo'[c]),
         \A c \in Clients : todo'[c] # << >> => mutex' = c,
         \A k \in DOMAIN Workers :
           todo'[Workers[k]] = todo[Workers[k]] \/ \E s \in States : todo'[Workers[k]] = <<s>>
  PROVE  CallsAndStates'
BY DEF CallsAndStates, CallInv, StateInv, Is

LEMMA ClientTodo ==
  ASSUME Shapes, CallsAndStates, NEW c \in Clients, mutex' = c, mutex \in {c, None},
         NEW s, WellFormed(s), todo' = [todo EXCEPT ![c] = s]
  PROVE  OnlyTodo(c, s) /\ CallsAndStates'
<1>1. s \in Todos /\ todo \in [Procs -> Todos] /\ c \in Procs
  BY WellFormedIsTodo DEF Shapes, Todos, Procs
<1>2. OnlyTodo(c, s)  BY <1>1 DEF OnlyTodo
<1>3. \A d \in Clients : d # c => todo[d] = << >>  BY Names DEF CallsAndStates, CallInv
<1>4. \A d \in Clients : todo'[d] # << >> => mutex' = d
  BY <1>2, <1>3, Names DEF OnlyTodo
<1>5. \A k \in DOMAIN Workers : todo'[Workers[k]] = todo[Workers[k]]
  BY <1>2, Names DEF OnlyTodo
<1>6. \A d \in Clients : todo'[d] = todo[d] \/ WellFormed(todo'[d])
  BY <1>2, Names DEF OnlyTodo
<1>7. todo' \in [Procs -> Todos]  BY <1>2 DEF OnlyTodo
<1> QED  BY <1>2, <1>4, <1>5, <1>6, <1>7, TodoKept

LEMMA WorkerTodo ==
  ASSUME Shapes, CallsAndStates, UNCHANGED mutex, NEW k \in DOMAIN Workers, NEW s \in States,
         Goes(Workers[k], s)
  PROVE  OnlyTodo(Workers[k], <<s>>) /\ CallsAndStates'
<1>1. todo \in [Procs -> Todos] /\ <<s>> \in Todos  BY DEF Shapes, Todos
<1>2. OnlyTodo(Workers[k], <<s>>)  BY <1>1, Names DEF OnlyTodo, Goes
<1>3. \A d \in Clients : todo'[d] = todo[d]  BY <1>2, Names DEF OnlyTodo
<1>4. \A d \in Clients : todo'[d] # << >> => mutex' = d
  BY <1>3 DEF CallsAndStates, CallInv
<1>5. \A j \in DOMAIN Workers :
        todo'[Workers[j]] = todo[Workers[j]] \/ \E t \in States : todo'[Workers[j]] = <<t>>
  BY <1>2, Names DEF OnlyTodo
<1>6. todo' \in [Procs -> Todos]  BY <1>2 DEF OnlyTodo
<1> QED  BY <1>2, <1>3, <1>4, <1>5, <1>6, TodoKept
----------------------------------------------------------------------------
(* Types: every step keeps the shapes of the state.                        *)

Types == Shapes /\ CallsAndStates

LEMMA OneStep == \A x \in Steps \ Unended : WellFormed(<<x>>) /\ <<x>>[Len(<<x>>)] = x
<1> SUFFICES ASSUME NEW x \in Steps \ Unended PROVE WellFormed(<<x>>) /\ <<x>>[Len(<<x>>)] = x
  OBVIOUS
<1>1. <<x>> \in Seq(Steps) /\ Len(<<x>>) = 1 /\ <<x>>[1] = x  OBVIOUS
<1> QED  BY <1>1 DEF WellFormed

LEMMA Tuples ==
  ASSUME NEW S, NEW a \in S, NEW b \in S, NEW c \in S, NEW d \in S
  PROVE  /\ <<a>> \in Seq(S) /\ <<a, b>> \in Seq(S)
         /\ <<a, b, c>> \in Seq(S) /\ <<a, b, c, d>> \in Seq(S)
<1>1. <<a>> \in Seq(S) /\ <<a, b>> \in Seq(S)  OBVIOUS
<1>2. <<a, b, c>> \in Seq(S)  OBVIOUS
<1>3. <<a, b, c, d>> \in Seq(S)  OBVIOUS
<1> QED  BY <1>1, <1>2, <1>3

LEMMA OneAndThree ==
  ASSUME NEW S, NEW a \in S, NEW b \in S, NEW c \in S, NEW d \in S
  PROVE  <<a>> \o <<b, c, d>> = <<a, b, c, d>>
<1>1. PICK q \in Seq(S) : q = <<a>>  BY Tuples
<1>2. PICK r \in Seq(S) : r = <<b, c, d>>  BY Tuples
<1>3. PICK s \in Seq(S) : s = <<a, b, c, d>>  BY Tuples
<1>4. Len(q) = 1 /\ q[1] = a  BY <1>1
<1>5. Len(r) = 3 /\ r[1] = b /\ r[2] = c /\ r[3] = d  BY <1>2
<1>6. Len(s) = 4 /\ s[1] = a /\ s[2] = b /\ s[3] = c /\ s[4] = d  BY <1>3
<1>7. PICK t \in Seq(S) : t = q \o r  BY ConcatProperties
<1>8. Len(t) = 4 /\ \A i \in 1 .. 4 : t[i] = IF i <= 1 THEN q[i] ELSE r[i - 1]
  <2>1. /\ Len(q \o r) = Len(q) + Len(r)
        /\ \A i \in 1 .. Len(q) + Len(r) :
             (q \o r)[i] = IF i <= Len(q) THEN q[i] ELSE r[i - Len(q)]
    BY ConcatProperties
  <2>2. /\ Len(t) = 1 + 3
        /\ \A i \in 1 .. 1 + 3 : t[i] = IF i <= 1 THEN q[i] ELSE r[i - 1]
    BY <1>4, <1>5, <1>7, <2>1
  <2> QED  BY <2>2
<1>9. \A i \in 1 .. 4 : s[i] = t[i]
  <2>1. \A i \in 1 .. 4 : i = 1 \/ i = 2 \/ i = 3 \/ i = 4  OBVIOUS
  <2>2. t[1] = q[1] /\ t[2] = r[1] /\ t[3] = r[2] /\ t[4] = r[3]  BY <1>8
  <2> QED  BY <1>4, <1>5, <1>6, <2>1, <2>2
<1>10. s = t  BY <1>6, <1>8, <1>9, SeqEqual
<1> QED  BY <1>1, <1>2, <1>3, <1>7, <1>10

LEMMA TwoSteps ==
  ASSUME NEW c \in Steps, NEW d \in Steps, MayFollow(c, d), d \notin Unended
  PROVE  WellFormed(<<c, d>>)
<1>1. PICK s \in Seq(Steps) : s = <<c, d>>  BY Tuples
<1>2. Len(s) = 2 /\ s[1] = c /\ s[2] = d  BY <1>1
<1>3. \A i \in 1 .. Len(s) - 1 : MayFollow(s[i], s[i + 1])  BY <1>2
<1> QED  BY <1>1, <1>2, <1>3 DEF WellFormed

LEMMA SeveralSteps ==
  ASSUME NEW a \in Steps, NEW b \in Steps, NEW c \in Steps, NEW d \in Steps,
         MayFollow(a, b), MayFollow(b, c), MayFollow(c, d), d \notin Unended
  PROVE  WellFormed(<<b, c, d>>) /\ WellFormed(<<a, b, c, d>>)
<1>2. WellFormed(<<b, c, d>>)
  <2>1. PICK s \in Seq(Steps) : s = <<b, c, d>>  BY Tuples
  <2>2. Len(s) = 3 /\ s[1] = b /\ s[2] = c /\ s[3] = d  BY <2>1
  <2>3. \A i \in 1 .. Len(s) - 1 : MayFollow(s[i], s[i + 1])  BY <2>2
  <2> QED  BY <2>1, <2>2, <2>3 DEF WellFormed
<1>3. WellFormed(<<a, b, c, d>>)
  <2>1. PICK s \in Seq(Steps) : s = <<a, b, c, d>>  BY Tuples
  <2>2. Len(s) = 4 /\ s[1] = a /\ s[2] = b /\ s[3] = c /\ s[4] = d  BY <2>1
  <2>3. \A i \in 1 .. Len(s) - 1 : MayFollow(s[i], s[i + 1])  BY <2>2
  <2> QED  BY <2>1, <2>2, <2>3 DEF WellFormed
<1> QED  BY <1>2, <1>3

LEMMA Following ==
  /\ MayFollow("log", "printf") /\ MayFollow("unwrap", "answer")
  /\ MayFollow("unwrap", "log error") /\ MayFollow("close quietly", "log error")
  /\ MayFollow("log error", "errorf") /\ MayFollow("errorf", "code 1")
  /\ MayFollow("errorf", "code 2")
  /\ "printf" \notin Unended /\ "answer" \notin Unended /\ "code 1" \notin Unended
  /\ "code 2" \notin Unended
  /\ MayReplace("close", "unwrap") /\ MayReplace("report", "close")
  /\ MayReplace("report", "printf") /\ MayReplace("code 2", "report")
BY DEF MayFollow, Unended, MayReplace

LEMMA SomeSteps ==
  /\ WellFormed(<<"log", "printf">>) /\ WellFormed(<<"unwrap", "answer">>)
  /\ WellFormed(<<"unwrap", "log error", "errorf", "code 1">>)
  /\ WellFormed(<<"log error", "errorf", "code 2">>)
  /\ WellFormed(<<"close quietly">> \o <<"log error", "errorf", "code 2">>)
  /\ <<"close quietly">> \o <<"log error", "errorf", "code 2">>
       = <<"close quietly", "log error", "errorf", "code 2">>
<1>1. /\ "log" \in Steps /\ "printf" \in Steps /\ "unwrap" \in Steps /\ "answer" \in Steps
      /\ "log error" \in Steps /\ "errorf" \in Steps /\ "code 1" \in Steps
      /\ "code 2" \in Steps /\ "close quietly" \in Steps
  BY DEF Steps
<1>2. WellFormed(<<"log", "printf">>) /\ WellFormed(<<"unwrap", "answer">>)
  BY <1>1, TwoSteps, Following
<1>3. WellFormed(<<"unwrap", "log error", "errorf", "code 1">>)
  BY <1>1, SeveralSteps, Following
<1>4. /\ WellFormed(<<"log error", "errorf", "code 2">>)
      /\ WellFormed(<<"close quietly", "log error", "errorf", "code 2">>)
  BY <1>1, SeveralSteps, Following
<1>5. <<"close quietly">> \o <<"log error", "errorf", "code 2">>
        = <<"close quietly", "log error", "errorf", "code 2">>
  <2>1. /\ "close quietly" \in Steps /\ "log error" \in Steps /\ "errorf" \in Steps
        /\ "code 2" \in Steps
    BY DEF Steps
  <2> QED  BY <2>1, OneAndThree
<1> QED  BY <1>2, <1>3, <1>4, <1>5

LEMMA BodyIsWellFormed == \A call \in Calls : WellFormed(Body(call))
<1> SUFFICES ASSUME NEW call \in Calls PROVE WellFormed(Body(call))  OBVIOUS
<1>1. CASE call = "Printf"  BY <1>1, SomeSteps DEF Body
<1>2. CASE call = "ErrorIf"  BY <1>2, OneStep DEF Body, Steps, Unended
<1>3. CASE call = "Errorf"  BY <1>3, SomeSteps DEF Body
<1>4. CASE call = "Wrap"  BY <1>4, OneStep DEF Body, Steps, Unended
<1>5. CASE call = "Unwrap"  BY <1>5, OneStep DEF Body, Steps, Unended
<1>6. CASE call = "ExitCode"  BY <1>6, SomeSteps DEF Body
<1>7. CASE call = "Exit"  BY <1>7, OneStep DEF Body, Steps, Unended
<1> QED  BY <1>1, <1>2, <1>3, <1>4, <1>5, <1>6, <1>7 DEF Calls

\* what is left of a call after its first step, and what takes the place of it
LEMMA StepDone ==
  ASSUME Types, NEW c \in Clients, mutex = c, UNCHANGED mutex, todo[c] # << >>, Then(c, << >>)
  PROVE  OnlyTodo(c, Tail(todo[c])) /\ CallsAndStates'
<1>1. WellFormed(todo[c])  BY DEF Types, CallsAndStates, CallInv
<1>2. WellFormed(Tail(todo[c])) /\ << >> \o Tail(todo[c]) = Tail(todo[c])
  BY <1>1, TailIsWellFormed
<1>3. todo' = [todo EXCEPT ![c] = << >> \o Tail(todo[c])]  BY DEF Then
<1>4. todo' = [todo EXCEPT ![c] = Tail(todo[c])]  BY <1>2, <1>3
<1> QED  BY <1>2, <1>4, ClientTodo DEF Types

LEMMA StepReplaced ==
  ASSUME Types, NEW c \in Clients, mutex = c, UNCHANGED mutex, todo[c] # << >>,
         NEW p, WellFormed(p), p # << >>, MayReplace(p[Len(p)], Head(todo[c])), Then(c, p)
  PROVE  OnlyTodo(c, p \o Tail(todo[c])) /\ CallsAndStates'
<1>1. WellFormed(todo[c])  BY DEF Types, CallsAndStates, CallInv
<1>2. WellFormed(p \o Tail(todo[c]))  BY <1>1, PrefixIsWellFormed
<1>3. todo' = [todo EXCEPT ![c] = p \o Tail(todo[c])]  BY DEF Then
<1> QED  BY <1>2, <1>3, ClientTodo DEF Types

LEMMA LockTypes ==
  ASSUME Types, NEW c \in Clients, Lock(c)
  PROVE  Types' /\ OnlyTodo(c, Body(Head(calls[c])))
<1>1. calls[c] \in Seq(Calls) /\ calls[c] # << >>  BY DEF Types, Shapes, Lock
<1>2. WellFormed(Body(Head(calls[c])))  BY <1>1, BodyIsWellFormed
<1>3. OnlyTodo(c, Body(Head(calls[c]))) /\ CallsAndStates'
  BY <1>2, ClientTodo DEF Lock, Types
<1>4. calls' \in [Clients -> Seq(Calls)]  BY <1>1 DEF Types, Shapes, Lock
<1>5. Shapes'
  BY <1>3, <1>4 DEF Types, Shapes, Lock, OnlyTodo, Todos, logger, worker
<1> QED  BY <1>3, <1>5 DEF Types

LEMMA UnlockTypes ==
  ASSUME Types, NEW c \in Clients, Unlock(c) PROVE Types'
<1>1. Shapes'  BY DEF Types, Shapes, Unlock, logger, worker
<1>2. \A d \in Clients : todo[d] = << >>  BY Names DEF Types, CallsAndStates, CallInv, Unlock
<1>3. CallsAndStates'
  <2>1. UNCHANGED todo  BY DEF Unlock
  <2>2. todo' \in [Procs -> Todos]  BY <1>1 DEF Shapes, Todos
  <2> QED  BY <1>2, <2>1, <2>2, TodoKept DEF Types
<1> QED  BY <1>1, <1>3 DEF Types

LEMMA LogLineDoes ==
  ASSUME Shapes, NEW c, LogLine(c)
  PROVE  \E line \in Lines :
           /\ buf' = Append(buf, line) /\ logged' = Append(logged, line)
           /\ Position(line) = Len(logged) + 1
           /\ Doing(c, "log error") => line[1] = "ERROR"
<1>1. PICK n \in Nat : n = Len(logged) + 1
  <2>1. logged \in Seq(Lines)  BY DEF Shapes
  <2>2. Len(logged) + 1 \in Nat  BY <2>1
  <2> QED  BY <2>2
<1>2. ASSUME NEW kind \in {"line", "ERROR"}
      PROVE  <<kind, n>> \in Lines /\ <<kind, n>>[1] = kind /\ Position(<<kind, n>>) = n
  BY DEF Lines, Position
<1>3. CASE Doing(c, "log error")
  <2>1. buf' = Append(buf, <<"ERROR", n>>) /\ logged' = Append(logged, <<"ERROR", n>>)
    BY <1>1, <1>3 DEF LogLine, Doing, Line
  <2> QED  BY <1>1, <1>2, <2>1
<1>4. CASE Doing(c, "log")
  <2>1. buf' = Append(buf, <<"line", n>>) /\ logged' = Append(logged, <<"line", n>>)
    BY <1>1, <1>4 DEF LogLine, Doing, Line
  <2> QED  BY <1>1, <1>2, <1>4, <2>1 DEF Doing
<1> QED  BY <1>3, <1>4 DEF LogLine

LEMMA LogLineTypes ==
  ASSUME Types, NEW c \in Clients, LogLine(c)
  PROVE  Types' /\ OnlyTodo(c, Tail(todo[c]))
<1>1. mutex = c /\ UNCHANGED mutex /\ todo[c] # << >> /\ Then(c, << >>)
  BY DEF LogLine, Doing, client
<1>2. OnlyTodo(c, Tail(todo[c])) /\ CallsAndStates'  BY <1>1, StepDone
<1>3. buf' \in Seq(Lines) /\ logged' \in Seq(Lines)
  <2>1. PICK line \in Lines : buf' = Append(buf, line) /\ logged' = Append(logged, line)
    BY LogLineDoes DEF Types
  <2>2. buf \in Seq(Lines) /\ logged \in Seq(Lines)  BY DEF Types, Shapes
  <2> QED  BY <2>1, <2>2, AppendProperties
<1>4. Shapes'
  BY <1>2, <1>3 DEF Types, Shapes, LogLine, OnlyTodo, Todos, client, worker
<1> QED  BY <1>2, <1>4 DEF Types

LEMMA PrintfPutsTypes ==
  ASSUME Types, NEW c \in Clients, PrintfPuts(c)
  PROVE  Types' /\ UNCHANGED todo
<1>1. c \in Procs /\ out \in Outputs /\ buf \in Seq(Lines) /\ Puts(c, out, buf) /\ UNCHANGED todo
  BY Names DEF Types, Shapes, PrintfPuts
<1>2. /\ putting' \in [Procs -> BOOLEAN] /\ pipe' \in [ToSet(Workers) -> Pipes]
      /\ UNCHANGED shown
  BY <1>1, PutsDoes DEF Types, OnlyPutting, OnlyData
<1>3. Shapes'
  BY <1>1, <1>2 DEF Types, Shapes, PrintfPuts, Pipes, logger, client, worker
<1>4. CallsAndStates'
  BY <1>1 DEF Types, CallsAndStates, CallInv, StateInv, Is, PrintfPuts, client
<1> QED  BY <1>1, <1>3, <1>4 DEF Types

LEMMA PrintfOkTypes ==
  ASSUME Types, NEW c \in Clients, PrintfOk(c)
  PROVE  Types' /\ OnlyTodo(c, Tail(todo[c]))
<1>1. mutex = c /\ UNCHANGED mutex /\ todo[c] # << >> /\ Then(c, << >>)
  BY DEF PrintfOk, Doing, client
<1>2. OnlyTodo(c, Tail(todo[c])) /\ CallsAndStates'  BY <1>1, StepDone
<1>3. c \in Procs /\ out \in Outputs /\ buf \in Seq(Lines) /\ WriteOk(c, out, buf)
  BY Names DEF Types, Shapes, PrintfOk
<1>4. shown' \in Seq(Lines) /\ putting' \in [Procs -> BOOLEAN] /\ UNCHANGED pipe
  BY <1>3, WriteOkDoes DEF Types
<1>5. buf' \in Seq(Lines)  BY DEF PrintfOk
<1>6. Shapes'
  BY <1>2, <1>4, <1>5 DEF Types, Shapes, PrintfOk, OnlyTodo, Todos, client, worker
<1> QED  BY <1>2, <1>6 DEF Types

LEMMA PrintfFailsTypes ==
  ASSUME Types, NEW c \in Clients, PrintfFails(c)
  PROVE  /\ Types'
         /\ \/ Doing(c, "printf") /\ OnlyTodo(c, <<"report">> \o Tail(todo[c]))
            \/ Doing(c, "errorf") /\ OnlyTodo(c, Tail(todo[c]))
<1>1. mutex = c /\ UNCHANGED mutex /\ todo[c] # << >>
  BY DEF PrintfFails, Doing, client
<1>2. /\ CallsAndStates'
      /\ \/ Doing(c, "printf") /\ OnlyTodo(c, <<"report">> \o Tail(todo[c]))
         \/ Doing(c, "errorf") /\ OnlyTodo(c, Tail(todo[c]))
  <2>1. CASE Doing(c, "printf") /\ Then(c, <<"report">>)
    <3>1. WellFormed(<<"report">>) /\ <<"report">>[Len(<<"report">>)] = "report"
      BY OneStep DEF Steps, Unended
    <3>2. MayReplace("report", Head(todo[c]))  BY <2>1, Following DEF Doing
    <3> QED  BY <1>1, <2>1, <3>1, <3>2, StepReplaced
  <2>2. CASE Doing(c, "errorf") /\ Then(c, << >>)  BY <1>1, <2>2, StepDone
  <2> QED  BY <2>1, <2>2 DEF PrintfFails, Printfs
<1>3. c \in Procs /\ out \in Outputs /\ WriteFails(c, out)
  BY Names DEF Types, Shapes, PrintfFails
<1>4. UNCHANGED shown /\ putting' \in [Procs -> BOOLEAN] /\ pipe' \in [ToSet(Workers) -> Pipes]
  BY <1>3, WriteFailsDoes DEF Types
<1>5. todo' \in [Procs -> Todos]  BY <1>2 DEF OnlyTodo
<1>6. Shapes'
  BY <1>4, <1>5 DEF Types, Shapes, PrintfFails, Todos, Pipes, logger, client, worker
<1> QED  BY <1>2, <1>6 DEF Types

LEMMA StartUnwrapTypes ==
  ASSUME Types, NEW c \in Clients, StartUnwrap(c)
  PROVE  /\ Types'
         /\ \/ fallback = None /\ OnlyTodo(c, Tail(todo[c])) /\ UNCHANGED <<out, fallback, closing>>
            \/ /\ fallback # None /\ OnlyTodo(c, <<"close">> \o Tail(todo[c]))
               /\ TakesAway(c) /\ closing' \in [Clients -> Outputs \union {None}]
<1>1. mutex = c /\ UNCHANGED mutex /\ todo[c] # << >> /\ Head(todo[c]) = "unwrap"
  BY DEF StartUnwrap, Doing
<1>2. CASE fallback = None
  <2>1. Then(c, << >>) /\ UNCHANGED <<out, fallback, closing>>  BY <1>2 DEF StartUnwrap
  <2>2. OnlyTodo(c, Tail(todo[c])) /\ CallsAndStates'  BY <1>1, <2>1, StepDone
  <2>3. Shapes'
    BY <2>1, <2>2 DEF Types, Shapes, StartUnwrap, OnlyTodo, Todos, worker
  <2> QED  BY <1>2, <2>1, <2>2, <2>3 DEF Types
<1>3. CASE fallback # None
  <2>1. Then(c, <<"close">>) /\ TakesAway(c)  BY <1>3 DEF StartUnwrap
  <2>2. WellFormed(<<"close">>) /\ <<"close">>[Len(<<"close">>)] = "close"
    BY OneStep DEF Steps, Unended
  <2>3. OnlyTodo(c, <<"close">> \o Tail(todo[c])) /\ CallsAndStates'
    BY <1>1, <2>1, <2>2, StepReplaced, Following
  <2>4. closing' \in [Clients -> Outputs \union {None}]  BY <2>1 DEF Types, Shapes, TakesAway
  <2>5. fallback = Base  BY <1>3 DEF Types, Shapes
  <2>6. out' = Base /\ fallback' = None  BY <2>1, <2>5 DEF TakesAway
  <2>7. Shapes'
    BY <2>3, <2>4, <2>6 DEF Types, Shapes, StartUnwrap, OnlyTodo, Todos, worker, Outputs
  <2> QED  BY <1>3, <2>1, <2>3, <2>4, <2>7 DEF Types
<1> QED  BY <1>2, <1>3

Report == <<"log error", "errorf", "code 2">>
LEMMA StartReportTypes ==
  ASSUME Types, NEW c \in Clients, StartReport(c)
  PROVE  /\ Types'
         /\ \/ /\ fallback = None /\ OnlyTodo(c, Report \o Tail(todo[c]))
               /\ UNCHANGED <<out, fallback, closing>>
            \/ /\ fallback # None
               /\ OnlyTodo(c, (<<"close quietly">> \o Report) \o Tail(todo[c]))
               /\ TakesAway(c) /\ closing' \in [Clients -> Outputs \union {None}]
<1>1. mutex = c /\ UNCHANGED mutex /\ todo[c] # << >> /\ Head(todo[c]) = "report"
  BY DEF StartReport, Doing
<1>2. CASE fallback = None
  <2>1. Then(c, Report) /\ UNCHANGED <<out, fallback, closing>>
    BY <1>2 DEF StartReport, Report
  <2>2. WellFormed(Report) /\ Report # << >> /\ Report[Len(Report)] = "code 2"
    BY SomeSteps DEF Report
  <2>3. OnlyTodo(c, Report \o Tail(todo[c])) /\ CallsAndStates'
    BY <1>1, <2>1, <2>2, StepReplaced, Following
  <2>4. Shapes'
    BY <2>1, <2>3 DEF Types, Shapes, StartReport, OnlyTodo, Todos, worker
  <2> QED  BY <1>2, <2>1, <2>3, <2>4 DEF Types
<1>3. CASE fallback # None
  <2> DEFINE s == <<"close quietly">> \o Report
  <2>1. Then(c, s) /\ TakesAway(c)  BY <1>3 DEF StartReport, Report
  <2>2. WellFormed(s) /\ s # << >> /\ s[Len(s)] = "code 2"
    <3>1. s = <<"close quietly", "log error", "errorf", "code 2">>  BY SomeSteps DEF Report
    <3>2. WellFormed(s)  BY SomeSteps DEF Report
    <3> HIDE DEF s
    <3>3. s # << >> /\ s[Len(s)] = "code 2"  BY <3>1
    <3> QED  BY <3>2, <3>3
  <2> HIDE DEF s
  <2>3. OnlyTodo(c, s \o Tail(todo[c])) /\ CallsAndStates'
    BY <1>1, <2>1, <2>2, StepReplaced, Following
  <2>4. closing' \in [Clients -> Outputs \union {None}]  BY <2>1 DEF Types, Shapes, TakesAway
  <2>5. fallback = Base  BY <1>3 DEF Types, Shapes
  <2>6. out' = Base /\ fallback' = None  BY <2>1, <2>5 DEF TakesAway
  <2>7. Shapes'
    BY <2>3, <2>4, <2>6 DEF Types, Shapes, StartReport, OnlyTodo, Todos, worker, Outputs
  <2> QED  BY <1>3, <2>1, <2>3, <2>4, <2>7 DEF Types, s
<1> QED  BY <1>2, <1>3

LEMMA SetCodeTypes ==
  ASSUME Types, NEW c \in Clients, SetCode(c)
  PROVE  Types' /\ OnlyTodo(c, Tail(todo[c])) /\ exitCode' # 0
<1>1. mutex = c /\ todo[c] # << >> /\ exitCode' \in {1, 2}  BY DEF SetCode, Doing
<1>2. UNCHANGED mutex /\ Then(c, << >>)  BY DEF SetCode, client
<1>3. OnlyTodo(c, Tail(todo[c])) /\ CallsAndStates'  BY <1>1, <1>2, StepDone
<1>4. exitCode' \in 0 .. 2 /\ exitCode' # 0  BY <1>1
<1>5. Shapes'
  BY <1>3, <1>4 DEF Types, Shapes, SetCode, OnlyTodo, Todos, client, worker
<1> QED  BY <1>3, <1>4, <1>5 DEF Types

LEMMA AnswerTypes ==
  ASSUME Types, NEW c \in Clients, Answer(c)
  PROVE  Types' /\ OnlyTodo(c, Tail(todo[c]))
<1>1. mutex = c /\ UNCHANGED mutex /\ todo[c] # << >> /\ Then(c, << >>)
  BY DEF Answer, Doing
<1>2. OnlyTodo(c, Tail(todo[c])) /\ CallsAndStates'  BY <1>1, StepDone
<1>3. code' \in [answer : 0 .. 2, exited : BOOLEAN]
  BY DEF Types, Shapes, Answer
<1>4. Shapes'
  BY <1>2, <1>3 DEF Types, Shapes, Answer, OnlyTodo, Todos, logger, worker
<1> QED  BY <1>2, <1>4 DEF Types

LEMMA HangUpTypes ==
  ASSUME Types, ClosingInv, NEW c \in Clients, HangUp(c)
  PROVE  /\ Types' /\ UNCHANGED <<todo, putting, shown>> /\ IsClosing(c)
         /\ \E k \in DOMAIN Workers :
              /\ closing[c] = Workers[k] /\ Top(k)
              /\ pipe'[Workers[k]].wclosed
              /\ \A w \in ToSet(Workers) : /\ w # Workers[k] => pipe'[w] = pipe[w]
                                           /\ pipe'[w].data = pipe[w].data
                                           /\ pipe'[w].rclosed = pipe[w].rclosed
<1>1. IsClosing(c)  BY DEF HangUp, IsClosing
<1>2. PICK k \in DOMAIN Workers : Top(k) /\ closing[c] = Workers[k]  BY <1>1 DEF ClosingInv
<1>3. HangsUp(Workers[k]) /\ Workers[k] \in Outputs \union {None} /\ Workers[k] # None
  BY <1>2, Names DEF HangUp, Outputs
<1>4. /\ UNCHANGED <<todo, putting, shown>>
      /\ pipe' \in [ToSet(Workers) -> Pipes]
      /\ pipe'[Workers[k]].wclosed
      /\ \A w \in ToSet(Workers) : /\ w # Workers[k] => pipe'[w] = pipe[w]
                                   /\ pipe'[w].data = pipe[w].data
                                   /\ pipe'[w].rclosed = pipe[w].rclosed
  BY <1>3, HangsUpDoes DEF Types
<1>5. Shapes'
  BY <1>4 DEF Types, Shapes, HangUp, Pipes, logger, client, worker
<1>6. CallsAndStates'
  BY <1>4 DEF Types, CallsAndStates, CallInv, StateInv, Is, HangUp, client
<1> QED  BY <1>1, <1>2, <1>4, <1>5, <1>6 DEF Types

\* p goes on to s, and q to t
TwoTodos(p, s, q, t) ==
  /\ todo' \in [Procs -> Todos] /\ todo'[p] = s /\ todo'[q] = t
  /\ \A r \in Procs : r # p /\ r # q => todo'[r] = todo[r]

LEMMA TwoGoOn ==
  ASSUME Types, UNCHANGED mutex, NEW c \in Clients, mutex = c, NEW s, WellFormed(s),
         NEW k \in DOMAIN Workers, NEW x \in States,
         todo' = [[todo EXCEPT ![Workers[k]] = <<x>>] EXCEPT ![c] = s]
  PROVE  TwoTodos(c, s, Workers[k], <<x>>) /\ CallsAndStates'
<1>1. s \in Todos /\ <<x>> \in Todos  BY WellFormedIsTodo DEF Todos
<1>2. todo \in [Procs -> Todos]  BY DEF Types, Shapes, Todos
<1>3. c \in Procs /\ Workers[k] \in Procs /\ c # Workers[k]  BY Names
<1>4. TwoTodos(c, s, Workers[k], <<x>>)  BY <1>1, <1>2, <1>3 DEF TwoTodos
<1>5. \A d \in Clients : d # c => todo'[d] = todo[d] /\ todo[d] = << >>
  BY <1>4, Names DEF TwoTodos, Types, CallsAndStates, CallInv
<1>6. \A j \in DOMAIN Workers :
        todo'[Workers[j]] = todo[Workers[j]] \/ \E t \in States : todo'[Workers[j]] = <<t>>
  BY <1>4, Names DEF TwoTodos
<1>7. \A d \in Clients : todo'[d] = todo[d] \/ WellFormed(todo'[d])  BY <1>4, <1>5 DEF TwoTodos
<1>8. \A d \in Clients : todo'[d] # << >> => mutex' = d  BY <1>5
<1>9. todo' \in [Procs -> Todos]  BY <1>4 DEF TwoTodos
<1> QED  BY <1>4, <1>6, <1>7, <1>8, <1>9, TodoKept DEF Types

LEMMA CloseDoneTypes ==
  ASSUME Types, ClosingInv, NEW c \in Clients, CloseDone(c)
  PROVE  /\ Types' /\ IsClosing(c)
         /\ \E k \in DOMAIN Workers :
              /\ closing[c] = Workers[k] /\ Top(k) /\ pipe[Workers[k]].wclosed
              /\ Is(k, "send") \/ Is(k, "gone")
              /\ \/ /\ Doing(c, "close") /\ werr[Workers[k]]
                    /\ TwoTodos(c, <<"report">> \o Tail(todo[c]), Workers[k], <<"gone">>)
                 \/ /\ Doing(c, "close quietly") \/ ~werr[Workers[k]]
                    /\ TwoTodos(c, Tail(todo[c]), Workers[k], <<"gone">>)
<1>1. IsClosing(c) /\ mutex = c /\ todo[c] # << >>
  BY DEF CloseDone, IsClosing, Doing
<1>2. PICK k \in DOMAIN Workers : Top(k) /\ closing[c] = Workers[k]  BY <1>1 DEF ClosingInv
<1> DEFINE w == Workers[k]
<1>3. w # Base  BY Names
<1>4. PICK what \in Closes :
        /\ Doing(c, what) /\ Closed(w)
        /\ todo' = [[todo EXCEPT ![w] = <<"gone">>] EXCEPT
                      ![c] = (IF what = "close" /\ CloseErr(w) THEN <<"report">> ELSE << >>)
                             \o Tail(@)]
  BY <1>2, <1>3 DEF CloseDone, Released
<1>5. pipe[w].wclosed /\ (Is(k, "send") \/ Is(k, "gone"))  BY <1>3, <1>4 DEF Closed, Is
<1>6. Is(k, "send")  BY <1>2, <1>5 DEF Top, Live
<1>7. CloseErr(w) <=> werr[w]  BY <1>3, <1>6 DEF CloseErr, Is
<1>8. [todo EXCEPT ![w] = <<"gone">>][c] = todo[c]
  <2>1. todo \in [Procs -> Todos] /\ c \in Procs /\ w # c
    BY Names DEF Types, Shapes, Todos
  <2> QED  BY <2>1
<1>9. UNCHANGED mutex /\ "gone" \in States  BY DEF CloseDone, client, States, Ending
<1>10. WellFormed(todo[c])  BY DEF Types, CallsAndStates, CallInv
<1>11. ASSUME what = "close", werr[w]
       PROVE  /\ CallsAndStates' /\ Doing(c, "close")
              /\ TwoTodos(c, <<"report">> \o Tail(todo[c]), w, <<"gone">>)
  <2>1. todo' = [[todo EXCEPT ![w] = <<"gone">>] EXCEPT ![c] = <<"report">> \o Tail(todo[c])]
    BY <1>4, <1>7, <1>8, <1>11
  <2>2. WellFormed(<<"report">>) /\ <<"report">>[Len(<<"report">>)] = "report"
    BY OneStep DEF Steps, Unended
  <2>3. MayReplace("report", Head(todo[c]))  BY <1>4, <1>11, Following DEF Doing
  <2>4. WellFormed(<<"report">> \o Tail(todo[c]))
    BY <1>1, <1>10, <2>2, <2>3, PrefixIsWellFormed
  <2>5. CallsAndStates' /\ TwoTodos(c, <<"report">> \o Tail(todo[c]), w, <<"gone">>)
    BY <1>1, <1>9, <2>1, <2>4, TwoGoOn
  <2> QED  BY <1>4, <1>11, <2>5
<1>12. ASSUME what # "close" \/ ~werr[w]
       PROVE  /\ CallsAndStates' /\ (Doing(c, "close quietly") \/ ~werr[w])
              /\ TwoTodos(c, Tail(todo[c]), w, <<"gone">>)
  <2>1. << >> \o Tail(todo[c]) = Tail(todo[c]) /\ WellFormed(Tail(todo[c]))
    BY <1>1, <1>10, TailIsWellFormed
  <2>2. todo' = [[todo EXCEPT ![w] = <<"gone">>] EXCEPT ![c] = Tail(todo[c])]
    BY <1>4, <1>7, <1>8, <1>12, <2>1
  <2>3. CallsAndStates' /\ TwoTodos(c, Tail(todo[c]), w, <<"gone">>)
    BY <1>1, <1>9, <2>1, <2>2, TwoGoOn
  <2> QED  BY <1>4, <1>12, <2>3 DEF Closes
<1>13. todo' \in [Procs -> Todos] /\ CallsAndStates'  BY <1>11, <1>12 DEF TwoTodos
<1>14. Shapes'
  BY <1>13 DEF Types, Shapes, CloseDone, Todos, logger, client, worker
<1> QED  BY <1>1, <1>2, <1>5, <1>11, <1>12, <1>13, <1>14 DEF Types

LEMMA WrapTypes ==
  ASSUME Types, NEW c \in Clients, Wrap(c)
  PROVE  /\ Types' /\ Doing(c, "wrap")
         /\ \E k \in DOMAIN Workers :
              /\ Is(k, "new") /\ (\A j \in 1 .. k - 1 : ~Is(j, "new"))
              /\ out' = Workers[k] /\ target' = [target EXCEPT ![Workers[k]] = out]
              /\ TwoTodos(c, Tail(todo[c]), Workers[k], <<"scan">>)
<1>1. /\ Doing(c, "wrap") /\ mutex = c /\ todo[c] # << >> /\ UNCHANGED mutex
      /\ "scan" \in States
  BY DEF Wrap, Doing, client, States
<1>2. PICK w \in ToSet(Workers) :
        /\ Unstarted(w)
        /\ out' = w
        /\ target' = [target EXCEPT ![w] = out]
        /\ todo' = [todo EXCEPT ![c] = Tail(@), ![w] = <<"scan">>]
  BY DEF Wrap
<1>3. PICK k \in DOMAIN Workers : /\ w = Workers[k] /\ todo[w] = <<"new">>
                                  /\ \A j \in 1 .. k - 1 : todo[Workers[j]] # <<"new">>
  BY <1>2 DEF Unstarted
<1>4. Is(k, "new") /\ \A j \in 1 .. k - 1 : ~Is(j, "new")  BY <1>3 DEF Is
<1>5. WellFormed(Tail(todo[c]))
  BY <1>1, TailIsWellFormed DEF Types, CallsAndStates, CallInv
<1>6. todo' = [[todo EXCEPT ![w] = <<"scan">>] EXCEPT ![c] = Tail(todo[c])]
  <2>1. todo \in [Procs -> Todos] /\ c \in Procs /\ w # c /\ w \in Procs
    BY <1>3, Names DEF Types, Shapes, Todos
  <2> QED  BY <1>2, <2>1
<1>7. TwoTodos(c, Tail(todo[c]), Workers[k], <<"scan">>) /\ CallsAndStates'
  BY <1>1, <1>3, <1>5, <1>6, TwoGoOn
<1>8. todo' \in [Procs -> Todos]  BY <1>7 DEF TwoTodos
<1>9. fallback' \in {Base, None} /\ fallback' # None /\ out' \in Outputs
  <2>1. fallback' = IF fallback = None THEN out ELSE fallback  BY DEF Wrap
  <2>2. fallback \in {Base, None} /\ (fallback = None => out = Base)  BY DEF Types, Shapes
  <2> QED  BY <1>2, <2>1, <2>2 DEF Outputs, Base, None
<1>10. target' \in [ToSet(Workers) -> Outputs]  BY <1>2 DEF Types, Shapes
<1>11. Shapes'
  BY <1>8, <1>9, <1>10 DEF Types, Shapes, Wrap, Todos, client
<1> QED  BY <1>1, <1>2, <1>3, <1>4, <1>7, <1>11 DEF Types

\* worker k goes on from x to y
GoesOn(k, x, y) == Is(k, x) /\ OnlyTodo(Workers[k], <<y>>)

LEMMA WorkerGoes ==
  ASSUME Types, NEW k \in DOMAIN Workers, WorkerOnly, NEW x, Is(k, x), NEW y \in States,
         Goes(Workers[k], y)
  PROVE  GoesOn(k, x, y) /\ CallsAndStates' /\ todo' \in [Procs -> Todos]
<1>1. UNCHANGED mutex  BY DEF WorkerOnly, client
<1>2. OnlyTodo(Workers[k], <<y>>) /\ CallsAndStates'  BY <1>1, WorkerTodo DEF Types
<1> QED  BY <1>2 DEF OnlyTodo, GoesOn

LEMMA StatesStay ==
  ASSUME Types, WorkerOnly, UNCHANGED todo
  PROVE  CallsAndStates' /\ todo' \in [Procs -> Todos]
BY DEF Types, Shapes, Todos, CallsAndStates, CallInv, StateInv, Is, WorkerOnly, client

LEMMA StartScanTypes ==
  ASSUME Types, NEW k \in DOMAIN Workers, StartScan(Workers[k])
  PROVE  /\ Types'
         /\ GoesOn(k, "scan", IF pend[Workers[k]] # NoLine THEN "flush, read" ELSE "read")
<1> DEFINE y == IF pend[Workers[k]] # NoLine THEN "flush, read" ELSE "read"
<1>1. WorkerOnly /\ Is(k, "scan") /\ Goes(Workers[k], y) /\ y \in States
  BY DEF StartScan, At, Is, States
<1> HIDE DEF y
<1>2. GoesOn(k, "scan", y) /\ CallsAndStates' /\ todo' \in [Procs -> Todos]
  BY <1>1, WorkerGoes
<1>3. Shapes'
  BY <1>2 DEF Types, Shapes, Todos, StartScan, WorkerOnly, logger, client, worker
<1> QED  BY <1>2, <1>3 DEF Types, y

LEMMA ReadPipeTypes ==
  ASSUME Types, NEW k \in DOMAIN Workers, ReadPipe(Workers[k])
  PROVE  /\ Types' /\ UNCHANGED todo /\ OnlyData(Workers[k], << >>)
         /\ unread'[Workers[k]] = pipe[Workers[k]].data
         /\ \A j \in DOMAIN Workers : j # k => unread'[Workers[j]] = unread[Workers[j]]
<1> DEFINE w == Workers[k]
<1>1. w \in ToSet(Workers)  BY Names
<1>2. WorkerOnly /\ UNCHANGED todo  BY DEF ReadPipe
<1>3. pipe \in [ToSet(Workers) -> Pipes] /\ unread \in [ToSet(Workers) -> Seq(Lines)]
  BY DEF Types, Shapes, Pipes
<1>4. OnlyData(w, << >>)
  <2>1. PICK none \in Seq(Lines) : none = << >>  BY NoneIsASequence
  <2>2. pipe' = [pipe EXCEPT ![w].data = none]  BY <2>1 DEF ReadPipe
  <2>3. OnlyData(w, none)  BY <1>1, <1>3, <2>2, DataSet DEF OnlyData
  <2> QED  BY <2>1, <2>3
<1>5. pipe[w].data \in Seq(Lines)  BY <1>1, <1>3 DEF Pipes
<1>6. /\ unread' \in [ToSet(Workers) -> Seq(Lines)] /\ unread'[w] = pipe[w].data
      /\ \A j \in DOMAIN Workers : j # k => unread'[Workers[j]] = unread[Workers[j]]
  BY <1>1, <1>3, <1>5, Names DEF ReadPipe
<1>7. CallsAndStates' /\ todo' \in [Procs -> Todos]  BY <1>2, StatesStay
<1>8. pipe' \in [ToSet(Workers) -> Pipes]  BY <1>4 DEF OnlyData
<1>9. Shapes'
  BY <1>6, <1>7, <1>8 DEF Types, Shapes, Todos, Pipes, ReadPipe, WorkerOnly, logger, client
<1> QED  BY <1>2, <1>4, <1>6, <1>7, <1>9 DEF Types

LEMMA PipeEndsTypes ==
  ASSUME Types, NEW k \in DOMAIN Workers, PipeEnds(Workers[k])
  PROVE  Types' /\ GoesOn(k, "read", "flush, close")
<1>1. WorkerOnly /\ Is(k, "read") /\ Goes(Workers[k], "flush, close") /\ "flush, close" \in States
  BY DEF PipeEnds, At, Is, States, Ending
<1>2. GoesOn(k, "read", "flush, close") /\ CallsAndStates' /\ todo' \in [Procs -> Todos]
  BY <1>1, WorkerGoes
<1>3. Shapes'
  BY <1>2 DEF Types, Shapes, Todos, PipeEnds, WorkerOnly, logger, client, worker
<1> QED  BY <1>2, <1>3 DEF Types

LEMMA ScanLineTypes ==
  ASSUME Types, NEW k \in DOMAIN Workers, ScanLine(Workers[k])
  PROVE  /\ Types' /\ \E y \in {"flush, scan", "scan"} : GoesOn(k, "read", y)
         /\ unread[Workers[k]] # << >>
         /\ pend'[Workers[k]] = Head(unread[Workers[k]])
         /\ unread'[Workers[k]] = Tail(unread[Workers[k]])
         /\ \A j \in DOMAIN Workers : j # k => /\ unread'[Workers[j]] = unread[Workers[j]]
                                               /\ pend'[Workers[j]] = pend[Workers[j]]
<1> DEFINE w == Workers[k]
<1>1. w \in ToSet(Workers)  BY Names
<1>2. /\ WorkerOnly /\ Is(k, "read") /\ unread[w] # << >>
      /\ \E y \in {"flush, scan", "scan"} : Goes(w, y)
  BY DEF ScanLine, At, Is
<1>3. PICK y \in {"flush, scan", "scan"} : Goes(w, y)  BY <1>2
<1>4. y \in States  BY DEF States
<1>5. GoesOn(k, "read", y) /\ CallsAndStates' /\ todo' \in [Procs -> Todos]
  BY <1>2, <1>3, <1>4, WorkerGoes
<1>6. unread \in [ToSet(Workers) -> Seq(Lines)] /\ pend \in [ToSet(Workers) -> Lines]
  BY DEF Types, Shapes
<1>7. unread[w] \in Seq(Lines) /\ Head(unread[w]) \in Lines /\ Tail(unread[w]) \in Seq(Lines)
  <2>1. unread[w] \in Seq(Lines)  BY <1>1, <1>6
  <2> QED  BY <1>2, <2>1, HeadTailProperties
<1>8. /\ pend' = [pend EXCEPT ![w] = Head(unread[w])]
      /\ unread' = [unread EXCEPT ![w] = Tail(unread[w])]
  BY DEF ScanLine
<1>9. pend' \in [ToSet(Workers) -> Lines] /\ unread' \in [ToSet(Workers) -> Seq(Lines)]
  BY <1>6, <1>7, <1>8
<1>10. Shapes'
  BY <1>5, <1>9 DEF Types, Shapes, Todos, ScanLine, WorkerOnly, logger, client
<1>11. \A j \in DOMAIN Workers : j # k => /\ unread'[Workers[j]] = unread[Workers[j]]
                                          /\ pend'[Workers[j]] = pend[Workers[j]]
  BY <1>6, <1>8, Names
<1>12. pend'[w] = Head(unread[w]) /\ unread'[w] = Tail(unread[w])  BY <1>1, <1>6, <1>8
<1> QED  BY <1>2, <1>5, <1>10, <1>11, <1>12 DEF Types

\* the workers other than k keep their error
ErrorsStay(k) == \A j \in DOMAIN Workers : j # k => werr'[Workers[j]] = werr[Workers[j]]

LEMMA ScanFailsTypes ==
  ASSUME Types, NEW k \in DOMAIN Workers, ScanFails(Workers[k])
  PROVE  /\ Types' /\ GoesOn(k, "read", "flush, close")
         /\ werr'[Workers[k]] /\ ErrorsStay(k)
<1>1. WorkerOnly /\ Is(k, "read") /\ Goes(Workers[k], "flush, close") /\ "flush, close" \in States
  BY DEF ScanFails, At, Is, States, Ending
<1>2. GoesOn(k, "read", "flush, close") /\ CallsAndStates' /\ todo' \in [Procs -> Todos]
  BY <1>1, WorkerGoes
<1>3. werr \in [ToSet(Workers) -> BOOLEAN] /\ werr' = [werr EXCEPT ![Workers[k]] = TRUE]
  BY DEF Types, Shapes, ScanFails
<1>4. /\ werr' \in [ToSet(Workers) -> BOOLEAN] /\ werr'[Workers[k]]
      /\ ErrorsStay(k)
  BY <1>3, Names DEF ErrorsStay
<1>5. Shapes'
  BY <1>2, <1>4 DEF Types, Shapes, Todos, ScanFails, WorkerOnly, logger, client
<1> QED  BY <1>2, <1>4, <1>5 DEF Types

LEMMA FlushPutsTypes ==
  ASSUME Types, NEW k \in DOMAIN Workers, FlushPuts(Workers[k])
  PROVE  /\ Types' /\ UNCHANGED <<todo, shown>> /\ \E f \in Flushes : Is(k, f)
         /\ target[Workers[k]] \in ToSet(Workers)
         /\ CanPut(target[Workers[k]]) /\ ~putting[Workers[k]]
         /\ OnlyPutting(Workers[k], TRUE)
         /\ OnlyData(target[Workers[k]], <<held[Workers[k]]>>)
<1> DEFINE w == Workers[k]
<1>1. w \in ToSet(Workers) /\ w \in Procs  BY Names
<1>2. WorkerOnly /\ UNCHANGED todo /\ \E f \in Flushes : Is(k, f)
  BY DEF FlushPuts, At, Is
<1>3. target[w] \in Outputs /\ held[w] \in Lines  BY <1>1 DEF Types, Shapes
<1>4. <<held[w]>> \in Seq(Lines)  BY <1>3
<1>5. Puts(w, target[w], <<held[w]>>)  BY DEF FlushPuts
<1>6. /\ target[w] \in ToSet(Workers) /\ CanPut(target[w]) /\ ~putting[w] /\ UNCHANGED shown
      /\ OnlyPutting(w, TRUE) /\ OnlyData(target[w], <<held[w]>>)
  BY <1>1, <1>3, <1>4, <1>5, PutsDoes DEF Types
<1>7. CallsAndStates' /\ todo' \in [Procs -> Todos]  BY <1>2, StatesStay
<1>8. pipe' \in [ToSet(Workers) -> Pipes] /\ putting' \in [Procs -> BOOLEAN]
  BY <1>6 DEF OnlyPutting, OnlyData
<1>9. Shapes'
  BY <1>6, <1>7, <1>8 DEF Types, Shapes, Todos, Pipes, FlushPuts, WorkerOnly, logger, client, worker
<1> QED  BY <1>2, <1>6, <1>7, <1>9 DEF Types

LEMMA FlushOkTypes ==
  ASSUME Types, NEW k \in DOMAIN Workers, FlushOk(Workers[k])
  PROVE  /\ Types' /\ WriteOk(Workers[k], target[Workers[k]], <<held[Workers[k]]>>)
         /\ \/ /\ GoesOn(k, "flush, close", "close") /\ UNCHANGED <<held, pend>>
            \/ /\ GoesOn(k, "flush, read", "read") \/ GoesOn(k, "flush, scan", "scan")
               /\ held'[Workers[k]] = pend[Workers[k]] /\ pend'[Workers[k]] = NoLine
               /\ \A j \in DOMAIN Workers : j # k => /\ held'[Workers[j]] = held[Workers[j]]
                                                     /\ pend'[Workers[j]] = pend[Workers[j]]
<1> DEFINE w == Workers[k]
<1>1. w \in ToSet(Workers) /\ w \in Procs  BY Names
<1>2. /\ target \in [ToSet(Workers) -> Outputs] /\ held \in [ToSet(Workers) -> Lines]
      /\ pend \in [ToSet(Workers) -> Lines]
  BY DEF Types, Shapes
<1>3. WriteOk(w, target[w], <<held[w]>>) /\ WorkerOnly  BY DEF FlushOk
<1>4. <<held[w]>> \in Seq(Lines) /\ target[w] \in Outputs  BY <1>1, <1>2
<1>5. /\ UNCHANGED pipe /\ shown' \in Seq(Lines) /\ putting' \in [Procs -> BOOLEAN]
  BY <1>1, <1>3, <1>4, WriteOkDoes DEF Types
<1>6. /\ "read" \in States /\ "scan" \in States /\ "close" \in States  BY DEF States, Ending
<1>7. NoLine \in Lines  BY DEF NoLine, Lines
<1>8. /\ CallsAndStates' /\ todo' \in [Procs -> Todos]
      /\ held' \in [ToSet(Workers) -> Lines] /\ pend' \in [ToSet(Workers) -> Lines]
      /\ \/ /\ GoesOn(k, "flush, close", "close") /\ UNCHANGED <<held, pend>>
         \/ /\ GoesOn(k, "flush, read", "read") \/ GoesOn(k, "flush, scan", "scan")
            /\ held'[w] = pend[w] /\ pend'[w] = NoLine
            /\ \A j \in DOMAIN Workers : j # k => /\ held'[Workers[j]] = held[Workers[j]]
                                                  /\ pend'[Workers[j]] = pend[Workers[j]]
  <2>1. CASE At(w, "flush, close") /\ Goes(w, "close") /\ UNCHANGED <<held, pend>>
    <3>1. GoesOn(k, "flush, close", "close") /\ CallsAndStates' /\ todo' \in [Procs -> Todos]
      BY <1>3, <1>6, <2>1, WorkerGoes DEF At, Is
    <3> QED  BY <1>2, <2>1, <3>1
  <2>2. CASE \E f \in Flushes \ {"flush, close"} :
               /\ At(w, f) /\ Goes(w, IF f = "flush, read" THEN "read" ELSE "scan")
               /\ held' = [held EXCEPT ![w] = pend[w]] /\ pend' = [pend EXCEPT ![w] = NoLine]
    <3>1. \/ At(w, "flush, read") /\ Goes(w, "read")
          \/ At(w, "flush, scan") /\ Goes(w, "scan")
      BY <2>2 DEF Flushes
    <3>2. /\ CallsAndStates' /\ todo' \in [Procs -> Todos]
          /\ GoesOn(k, "flush, read", "read") \/ GoesOn(k, "flush, scan", "scan")
      BY <1>3, <1>6, <3>1, WorkerGoes DEF At, Is
    <3>3. held' = [held EXCEPT ![w] = pend[w]] /\ pend' = [pend EXCEPT ![w] = NoLine]
      BY <2>2
    <3>4. /\ held' \in [ToSet(Workers) -> Lines] /\ pend' \in [ToSet(Workers) -> Lines]
          /\ held'[w] = pend[w] /\ pend'[w] = NoLine
      BY <1>1, <1>2, <1>7, <3>3
    <3>5. \A j \in DOMAIN Workers : j # k => /\ held'[Workers[j]] = held[Workers[j]]
                                             /\ pend'[Workers[j]] = pend[Workers[j]]
      BY <1>2, <3>3, Names
    <3> QED  BY <3>2, <3>4, <3>5
  <2> QED  BY <2>1, <2>2 DEF FlushOk
<1>9. Shapes'
  BY <1>5, <1>8 DEF Types, Shapes, Todos, FlushOk, WorkerOnly, logger, client
<1> QED  BY <1>3, <1>8, <1>9 DEF Types

LEMMA FlushFailsTypes ==
  ASSUME Types, NEW k \in DOMAIN Workers, FlushFails(Workers[k])
  PROVE  /\ Types' /\ WriteFails(Workers[k], target[Workers[k]])
         /\ \/ GoesOn(k, "flush, close", "close")
            \/ GoesOn(k, "flush, read", "flush, close")
            \/ GoesOn(k, "flush, scan", "flush, close")
         /\ werr'[Workers[k]] /\ ErrorsStay(k)
<1> DEFINE w == Workers[k]
<1>1. w \in ToSet(Workers) /\ w \in Procs  BY Names
<1>2. WriteFails(w, target[w]) /\ WorkerOnly  BY DEF FlushFails
<1>3. target[w] \in Outputs  BY <1>1 DEF Types, Shapes
<1>4. /\ UNCHANGED shown /\ putting' \in [Procs -> BOOLEAN]
      /\ pipe' \in [ToSet(Workers) -> Pipes]
  BY <1>1, <1>2, <1>3, WriteFailsDoes DEF Types
<1>5. "flush, close" \in States /\ "close" \in States  BY DEF States, Ending
<1>6. \/ At(w, "flush, close") /\ Goes(w, "close")
      \/ At(w, "flush, read") /\ Goes(w, "flush, close")
      \/ At(w, "flush, scan") /\ Goes(w, "flush, close")
  BY DEF FlushFails, Flushes
<1>7. /\ CallsAndStates' /\ todo' \in [Procs -> Todos]
      /\ \/ GoesOn(k, "flush, close", "close")
         \/ GoesOn(k, "flush, read", "flush, close")
         \/ GoesOn(k, "flush, scan", "flush, close")
  BY <1>2, <1>5, <1>6, WorkerGoes DEF At, Is
<1>8. werr' \in [ToSet(Workers) -> BOOLEAN] /\ werr'[w] /\ ErrorsStay(k)
  <2>1. werr \in [ToSet(Workers) -> BOOLEAN] /\ werr' = [werr EXCEPT ![w] = TRUE]
    BY DEF Types, Shapes, FlushFails
  <2> QED  BY <2>1, Names DEF ErrorsStay
<1>9. Shapes'
  BY <1>4, <1>7, <1>8 DEF Types, Shapes, Todos, Pipes, FlushFails, WorkerOnly, logger, client
<1> QED  BY <1>2, <1>7, <1>8, <1>9 DEF Types

LEMMA WorkerHangsUpTypes ==
  ASSUME Types, NEW k \in DOMAIN Workers, WorkerHangsUp(Workers[k])
  PROVE  /\ Types' /\ UNCHANGED <<todo, putting, shown>> /\ Is(k, "close")
         /\ target[Workers[k]] \in ToSet(Workers)
         /\ pipe'[target[Workers[k]]].wclosed
         /\ \A w \in ToSet(Workers) : /\ w # target[Workers[k]] => pipe'[w] = pipe[w]
                                      /\ pipe'[w].data = pipe[w].data
                                      /\ pipe'[w].rclosed = pipe[w].rclosed
<1> DEFINE d == target[Workers[k]]
<1>1. d \in Outputs \union {None} /\ d # None
  BY Names, NamesAssumption DEF Types, Shapes, Outputs, Base, None
<1>2. HangsUp(d) /\ WorkerOnly /\ Is(k, "close")  BY DEF WorkerHangsUp, Outer, At, Is
<1>3. /\ d \in ToSet(Workers) /\ UNCHANGED <<todo, putting, shown>>
      /\ pipe' \in [ToSet(Workers) -> Pipes]
      /\ pipe'[d].wclosed
      /\ \A w \in ToSet(Workers) : /\ w # d => pipe'[w] = pipe[w]
                                   /\ pipe'[w].data = pipe[w].data
                                   /\ pipe'[w].rclosed = pipe[w].rclosed
  BY <1>1, <1>2, HangsUpDoes DEF Types
<1>4. CallsAndStates' /\ todo' \in [Procs -> Todos]  BY <1>2, <1>3, StatesStay
<1>5. Shapes'
  BY <1>3, <1>4 DEF Types, Shapes, Todos, Pipes, WorkerHangsUp, WorkerOnly, logger, client, worker
<1> QED  BY <1>2, <1>3, <1>4, <1>5 DEF Types

LEMMA WorkerClosesTypes ==
  ASSUME Types, TargetInv, NEW k \in DOMAIN Workers, WorkerCloses(Workers[k])
  PROVE  /\ Types' /\ Is(k, "close") /\ UNCHANGED <<putting, shown>>
         /\ pipe'[Workers[k]].rclosed
         /\ \A w \in ToSet(Workers) : /\ w # Workers[k] => pipe'[w] = pipe[w]
                                      /\ pipe'[w].data = pipe[w].data
                                      /\ pipe'[w].wclosed = pipe[w].wclosed
         /\ ErrorsStay(k) /\ (werr[Workers[k]] => werr'[Workers[k]])
         /\ \/ /\ Bottom(k) /\ target[Workers[k]] = Base /\ GoesOn(k, "close", "send")
               /\ werr'[Workers[k]] <=> werr[Workers[k]]
            \/ /\ ~Bottom(k) /\ k > 1 /\ target[Workers[k]] = Workers[k - 1]
               /\ pipe[Workers[k - 1]].wclosed /\ (Is(k - 1, "send") \/ Is(k - 1, "gone"))
               /\ TwoTodos(Workers[k], <<"send">>, Workers[k - 1], <<"gone">>)
               /\ werr'[Workers[k]] <=>
                    werr[Workers[k]] \/ (Is(k - 1, "send") /\ werr[Workers[k - 1]])
<1> DEFINE w == Workers[k]
           d == target[w]
<1>1. w \in ToSet(Workers) /\ w \in Procs /\ w # Base  BY Names
<1>2. /\ WorkerOnly /\ Is(k, "close") /\ Closed(d) /\ UNCHANGED <<putting, shown>>
      /\ werr' = [werr EXCEPT ![w] = @ \/ CloseErr(d)]
      /\ todo' = [Released(d) EXCEPT ![w] = <<"send">>]
      /\ pipe' = [pipe EXCEPT ![w].rclosed = TRUE]
  BY DEF WorkerCloses, Outer, At, Is
<1>3. Live(k) /\ ~Is(k, "send")  BY <1>2 DEF Live, Is
<1>4. werr \in [ToSet(Workers) -> BOOLEAN] /\ pipe \in [ToSet(Workers) -> Pipes]
      /\ todo \in [Procs -> Todos]
  BY DEF Types, Shapes, Pipes, Todos
<1>5. /\ pipe' \in [ToSet(Workers) -> Pipes] /\ pipe'[w].rclosed
      /\ \A v \in ToSet(Workers) : /\ v # w => pipe'[v] = pipe[v]
                                   /\ pipe'[v].data = pipe[v].data
                                   /\ pipe'[v].wclosed = pipe[v].wclosed
  BY <1>1, <1>2, <1>4, RClosedSet
<1>6. CloseErr(d) \in BOOLEAN  BY DEF CloseErr
<1>7. /\ werr' \in [ToSet(Workers) -> BOOLEAN] /\ ErrorsStay(k)
      /\ werr'[w] <=> werr[w] \/ CloseErr(d)
  <2>1. werr[w] \in BOOLEAN  BY <1>1, <1>4
  <2>2. PICK b \in BOOLEAN : b = (werr[w] \/ CloseErr(d))  BY <1>6, <2>1
  <2>3. werr' = [werr EXCEPT ![w] = b]  BY <1>2, <2>2
  <2> QED  BY <1>1, <1>4, <2>2, <2>3, Names DEF ErrorsStay
<1>8. "send" \in States /\ "gone" \in States  BY DEF States, Ending
<1>9. CASE Bottom(k)
  <2>1. d = Base  BY <1>3, <1>9 DEF TargetInv
  <2>2. Goes(w, "send")  BY <1>2, <2>1 DEF Released, Goes
  <2>3. GoesOn(k, "close", "send") /\ CallsAndStates' /\ todo' \in [Procs -> Todos]
    BY <1>2, <1>8, <2>2, WorkerGoes
  <2>4. werr'[w] <=> werr[w]  BY <1>1, <1>4, <1>7, <2>1 DEF CloseErr
  <2>5. Shapes'
    BY <1>5, <1>7, <2>3 DEF Types, Shapes, Todos, Pipes, WorkerCloses, WorkerOnly, logger, client
  <2> QED  BY <1>2, <1>5, <1>7, <1>9, <2>1, <2>3, <2>4, <2>5 DEF Types
<1>10. CASE ~Bottom(k)
  <2>1. d = Workers[k - 1] /\ k > 1 /\ k - 1 \in DOMAIN Workers /\ k - 1 # k
    <3>1. k \in 1 .. Len(Workers) /\ k > 1  BY <1>10, Names DEF Bottom
    <3>2. d = Workers[k - 1]  BY <1>3, <1>10 DEF TargetInv
    <3> QED  BY <3>1, <3>2, Names
  <2>2. d # Base /\ d # w /\ d \in Procs  BY <2>1, Names
  <2>3. todo' = [[todo EXCEPT ![d] = <<"gone">>] EXCEPT ![w] = <<"send">>]
    BY <1>2, <2>2 DEF Released
  <2>4. pipe[d].wclosed /\ (Is(k - 1, "send") \/ Is(k - 1, "gone"))
    BY <1>2, <2>1, <2>2 DEF Closed, Is
  <2>5. TwoTodos(w, <<"send">>, d, <<"gone">>)
    <3>1. <<"send">> \in Todos /\ <<"gone">> \in Todos  BY <1>8 DEF Todos
    <3> QED  BY <1>1, <1>4, <2>2, <2>3, <3>1 DEF TwoTodos
  <2>6. CallsAndStates'
    <3>1. todo' \in [Procs -> Todos]  BY <2>5 DEF TwoTodos
    <3>2. \A c \in Clients : todo'[c] = todo[c]  BY <2>1, <2>5, Names DEF TwoTodos
    <3>3. UNCHANGED mutex  BY <1>2 DEF WorkerOnly, client
    <3>4. \A c \in Clients : todo'[c] # << >> => mutex' = c
      BY <3>2, <3>3 DEF Types, CallsAndStates, CallInv
    <3>5. \A j \in DOMAIN Workers :
            todo'[Workers[j]] = todo[Workers[j]] \/ \E s \in States : todo'[Workers[j]] = <<s>>
      BY <1>8, <2>5, Names DEF TwoTodos
    <3> QED  BY <3>1, <3>2, <3>4, <3>5, TodoKept DEF Types
  <2>7. todo' \in [Procs -> Todos]  BY <2>5 DEF TwoTodos
  <2>8. CloseErr(d) <=> Is(k - 1, "send") /\ werr[Workers[k - 1]]
    BY <2>1, <2>2 DEF CloseErr, Is
  <2>9. Shapes'
    BY <1>5, <1>7, <2>7 DEF Types, Shapes, Todos, Pipes, WorkerCloses, WorkerOnly, logger, client
  <2>10. /\ Types' /\ Is(k, "close") /\ UNCHANGED <<putting, shown>>
         /\ ErrorsStay(k) /\ (werr[w] => werr'[w])
         /\ werr'[w] <=> werr[w] \/ (Is(k - 1, "send") /\ werr[Workers[k - 1]])
    <3>1. werr'[w] <=> werr[w] \/ CloseErr(d)  BY <1>7
    <3> QED  BY <1>2, <1>7, <2>6, <2>8, <2>9, <3>1, Zenon DEF Types
  <2> QED  BY <1>5, <1>10, <2>1, <2>4, <2>5, <2>10
<1> QED  BY <1>9, <1>10
----------------------------------------------------------------------------
(* The chain of workers.                                                   *)

Bounds == {"new", "gone", "send"}
SameBounds == \A k \in DOMAIN Workers : \A s \in Bounds : Is(k, s)' <=> Is(k, s)

LEMMA BoundsKept ==
  ASSUME Types, Chain, SameBounds, UNCHANGED target
  PROVE  /\ \A k \in DOMAIN Workers : (Live(k)' <=> Live(k)) /\ (Top(k)' <=> Top(k))
         /\ OrderOfWorkers' /\ TargetInv'
<1>1. \A k \in DOMAIN Workers : (Live(k)' <=> Live(k)) /\ (Bottom(k)' <=> Bottom(k))
  BY Names DEF SameBounds, Bounds, Live, Bottom
<1>2. \A k \in DOMAIN Workers : Top(k)' <=> Top(k)
  <2> SUFFICES ASSUME NEW k \in DOMAIN Workers PROVE Top(k)' <=> Top(k)  OBVIOUS
  <2>1. k < Len(Workers) => k + 1 \in DOMAIN Workers  BY Names
  <2> QED  BY <1>1, <2>1 DEF Top, SameBounds, Bounds
<1>3. OrderOfWorkers'  BY DEF Chain, OrderOfWorkers, SameBounds, Bounds
<1>4. TargetInv'  BY <1>1 DEF Chain, TargetInv, SameBounds, Bounds
<1> QED  BY <1>1, <1>2, <1>3, <1>4

LEMMA ChainKept ==
  ASSUME Types, Chain, SameBounds, UNCHANGED <<target, out, fallback>>,
         \A c \in Clients : IsClosing(c)' <=> IsClosing(c),
         \A c \in Clients : IsClosing(c) => closing'[c] = closing[c],
         \A c \in Clients : Early(c)' => fallback = None
  PROVE  Chain'
<1>1. /\ \A k \in DOMAIN Workers : (Live(k)' <=> Live(k)) /\ (Top(k)' <=> Top(k))
      /\ OrderOfWorkers' /\ TargetInv'
  BY BoundsKept
<1>2. LiveInv'  BY <1>1 DEF Chain, LiveInv
<1>3. OutInv'  BY <1>1 DEF Chain, OutInv
<1>4. ClosingInv'  BY <1>1 DEF Chain, ClosingInv
<1>5. EarlyInv'  BY DEF Chain, EarlyInv
<1> QED  BY <1>1, <1>2, <1>3, <1>4, <1>5 DEF Chain

Earlies == {"log error", "errorf", "code 1", "code 2"}

\* only the holder of the mutex is doing something
LEMMA OthersIdle ==
  ASSUME Types, NEW c \in Clients, mutex \in {c, None}
  PROVE  \A d \in Clients : d # c => todo[d] = << >> /\ ~IsClosing(d) /\ ~Early(d)
BY Names DEF Types, CallsAndStates, CallInv, IsClosing, Early, Doing

LEMMA ClientKeepsChain ==
  ASSUME Types, Chain, NEW c \in Clients, mutex \in {c, None}, mutex' = c,
         NEW s, OnlyTodo(c, s), UNCHANGED <<target, out, fallback, closing>>,
         ~IsClosing(c), s = << >> \/ Head(s) \notin Closes,
         s # << >> /\ Head(s) \in Earlies => fallback = None
  PROVE  Chain'
<1>1. SameBounds  BY Names DEF OnlyTodo, SameBounds, Is
<1>2. \A d \in Clients : d # c => todo'[d] = << >>  BY OthersIdle, Names DEF OnlyTodo
<1>3. \A d \in Clients : ~IsClosing(d)' /\ ~IsClosing(d)
  BY <1>2, OthersIdle DEF OnlyTodo, IsClosing, Doing
<1>4. \A d \in Clients : Early(d)' => fallback = None
  BY <1>2 DEF OnlyTodo, Early, Doing, Earlies
<1> QED  BY <1>1, <1>3, <1>4, ChainKept

LEMMA WorkersKeepChain ==
  ASSUME Types, Chain, WorkerOnly, UNCHANGED target, NEW k \in DOMAIN Workers, SameBounds,
         \A c \in Clients : todo'[c] = todo[c]
  PROVE  Chain'
<1>1. UNCHANGED <<out, fallback, closing, mutex>>  BY DEF WorkerOnly, logger, client
<1>2. \A c \in Clients : (IsClosing(c)' <=> IsClosing(c)) /\ (Early(c)' <=> Early(c))
  BY <1>1 DEF IsClosing, Early, Doing
<1>3. \A c \in Clients : Early(c)' => fallback = None  BY <1>2 DEF Chain, EarlyInv
<1> QED  BY <1>1, <1>2, <1>3, ChainKept

\* a worker that goes on, none of the steps being the start or the end
LEMMA WorkerKeepsChain ==
  ASSUME Types, Chain, WorkerOnly, UNCHANGED target, NEW k \in DOMAIN Workers,
         NEW x, NEW y, GoesOn(k, x, y), x \notin Bounds, y \notin Bounds
  PROVE  Chain'
<1>1. SameBounds
  <2> SUFFICES ASSUME NEW j \in DOMAIN Workers, NEW s \in Bounds PROVE Is(j, s)' <=> Is(j, s)
    BY DEF SameBounds
  <2>1. CASE j = k
    <3>1. <<x>> # <<s>> /\ <<y>> # <<s>>  OBVIOUS
    <3> QED  BY <2>1, <3>1 DEF GoesOn, OnlyTodo, Is
  <2>2. CASE j # k  BY <2>2, Names DEF GoesOn, OnlyTodo, Is
  <2> QED  BY <2>1, <2>2
<1>2. \A c \in Clients : todo'[c] = todo[c]  BY Names DEF GoesOn, OnlyTodo
<1> QED  BY <1>1, <1>2, WorkersKeepChain

LEMMA StillKeepsChain ==
  ASSUME Types, Chain, UNCHANGED <<todo, mutex, target, out, fallback, closing>>
  PROVE  Chain'
<1>1. SameBounds  BY DEF SameBounds, Is
<1>2. \A c \in Clients : (IsClosing(c)' <=> IsClosing(c)) /\ (Early(c)' <=> Early(c))
  BY DEF IsClosing, Early, Doing
<1>3. \A c \in Clients : Early(c)' => fallback = None  BY <1>2 DEF Chain, EarlyInv
<1> QED  BY <1>1, <1>2, <1>3, ChainKept

LEMMA PrefixHead ==
  ASSUME NEW S, NEW s \in Seq(S), s # << >>, NEW p \in Seq(S), p # << >>
  PROVE  p \o Tail(s) # << >> /\ Head(p \o Tail(s)) = p[1]
<1>1. PICK t : t = p \o Tail(s)  OBVIOUS
<1>2. Len(p) \in Nat /\ Len(s) \in Nat /\ Len(p) >= 1 /\ Len(s) >= 1  OBVIOUS
<1>3. t \in Seq(S) /\ Len(t) = Len(p) + Len(s) - 1 /\ t[1] = p[1]
  BY <1>1, <1>2, PrefixTail
<1> QED  BY <1>1, <1>2, <1>3

\* what comes after the step that is being made
LEMMA NextStep ==
  ASSUME NEW s, WellFormed(s), s # << >>
  PROVE  /\ Tail(s) # << >> => MayFollow(Head(s), Head(Tail(s)))
         /\ Tail(s) = << >> => Head(s) \notin Unended
         /\ Tail(s) \in Seq(Steps) /\ Head(s) \in Steps
<1>1. s \in Seq(Steps)  BY DEF WellFormed
<1>2. PICK n \in Nat : n = Len(s) /\ n >= 1  BY <1>1
<1>3. /\ Tail(s) \in Seq(Steps) /\ Head(s) \in Steps /\ Head(s) = s[1] /\ Len(Tail(s)) = n - 1
      /\ \A i \in 1 .. n - 1 : Tail(s)[i] = s[i + 1]
  BY <1>1, <1>2, HeadTailProperties
<1>4. ASSUME Tail(s) # << >> PROVE MayFollow(Head(s), Head(Tail(s)))
  <2>1. n > 1  BY <1>2, <1>3, <1>4
  <2>2. Head(Tail(s)) = s[2]  BY <1>3, <2>1
  <2>3. 1 \in 1 .. Len(s) - 1 /\ s[1 + 1] = s[2]  BY <1>2, <2>1
  <2>4. MayFollow(s[1], s[2])  BY <2>3 DEF WellFormed
  <2> QED  BY <1>3, <2>2, <2>4
<1>5. ASSUME Tail(s) = << >> PROVE Head(s) \notin Unended
  <2>1. PICK t \in Seq(Steps) : t = Tail(s) /\ Len(t) = n - 1  BY <1>3
  <2>2. Len(t) = n - 1 /\ t = << >>  BY <1>5, <2>1
  <2>3. n = 1
    <3>1. Len(t) = 0  BY <2>2
    <3>2. Len(t) = n - 1 /\ n \in Nat  BY <1>2, <2>2
    <3> QED  BY <3>1, <3>2
  <2> QED  BY <1>2, <1>3, <2>3 DEF WellFormed
<1> QED  BY <1>3, <1>4, <1>5

Starts == {"unwrap", "close", "report"}
LEMMA TailKeepsChain ==
  ASSUME Types, Chain, NEW c \in Clients, mutex = c, mutex' = c, todo[c] # << >>,
         OnlyTodo(c, Tail(todo[c])), UNCHANGED <<target, out, fallback, closing>>,
         Head(todo[c]) \notin Closes, Head(todo[c]) \in Starts => fallback = None
  PROVE  Chain'
<1>1. WellFormed(todo[c])  BY DEF Types, CallsAndStates, CallInv
<1> DEFINE s == Tail(todo[c])
<1>2. s # << >> => MayFollow(Head(todo[c]), Head(s))  BY <1>1, NextStep
<1>3. s # << >> => Head(s) \notin Closes  BY <1>2 DEF MayFollow, Closes
<1>4. ~IsClosing(c)  BY DEF IsClosing, Doing
<1>5. ASSUME s # << >>, Head(s) \in Earlies PROVE fallback = None
  <2>1. CASE Head(todo[c]) \in {"log error", "errorf", "code 2"}
    <3>1. Early(c)  BY <2>1 DEF Early, Doing
    <3> QED  BY <3>1 DEF Chain, EarlyInv
  <2>2. CASE Head(todo[c]) \notin {"log error", "errorf", "code 2"}
    <3>1. Head(todo[c]) \in Starts \union Closes
      BY <1>2, <1>5, <2>2 DEF MayFollow, Earlies, Starts, Closes
    <3> QED  BY <3>1
  <2> QED  BY <2>1, <2>2
<1> HIDE DEF s
<1>6. OnlyTodo(c, s)  BY DEF s
<1> QED  BY <1>3, <1>4, <1>5, <1>6, ClientKeepsChain

LEMMA SimpleStepsKeepChain ==
  ASSUME Types, Chain, NEW c \in Clients,
         LogLine(c) \/ PrintfOk(c) \/ SetCode(c) \/ Answer(c)
  PROVE  Chain'
<1>1. OnlyTodo(c, Tail(todo[c]))
  BY LogLineTypes, PrintfOkTypes, SetCodeTypes, AnswerTypes
<1>2. UNCHANGED <<target, out, fallback, closing, mutex>>
  BY DEF LogLine, PrintfOk, SetCode, Answer, client, worker, logger
<1>3. /\ mutex = c /\ todo[c] # << >>
      /\ Head(todo[c]) \in {"log", "log error", "printf", "errorf", "code 1", "code 2",
                            "answer", "exit"}
  <2>1. CASE LogLine(c)  BY <2>1 DEF LogLine, Doing
  <2>2. CASE PrintfOk(c)  BY <2>2 DEF PrintfOk, Doing, Printfs
  <2>3. CASE SetCode(c)
    <3>1. Doing(c, "code 1") \/ Doing(c, "code 2")  BY <2>3 DEF SetCode
    <3> QED  BY <3>1 DEF Doing
  <2>4. CASE Answer(c)  BY <2>4 DEF Answer, Doing
  <2> QED  BY <2>1, <2>2, <2>3, <2>4
<1>4. Head(todo[c]) \notin Closes /\ Head(todo[c]) \notin Starts  BY <1>3 DEF Closes, Starts
<1> QED  BY <1>1, <1>2, <1>3, <1>4, TailKeepsChain

LEMMA LockKeepsChain ==
  ASSUME Types, Chain, NEW c \in Clients, Lock(c) PROVE Chain'
<1> DEFINE call == Head(calls[c])
<1>1. call \in Calls
  <2>1. calls[c] \in Seq(Calls) /\ calls[c] # << >>  BY DEF Types, Shapes, Lock
  <2> QED  BY <2>1
<1>2. OnlyTodo(c, Body(call))  BY LockTypes
<1>3. mutex = None /\ mutex' = c /\ UNCHANGED <<target, out, fallback, closing>>
  BY DEF Lock, worker, logger
<1>4. Head(Body(call)) \in {"log", "report", "unwrap", "wrap", "exit"}
  BY <1>1 DEF Body, Calls
<1>5. Head(Body(call)) \notin Closes /\ Head(Body(call)) \notin Earlies
  BY <1>4 DEF Closes, Earlies
<1>6. ~IsClosing(c)  BY <1>3, Names DEF IsClosing, Doing
<1> QED  BY <1>2, <1>3, <1>5, <1>6, ClientKeepsChain

LEMMA UnlockKeepsChain ==
  ASSUME Types, Chain, NEW c \in Clients, Unlock(c) PROVE Chain'
<1>1. mutex = c /\ todo[c] = << >> /\ UNCHANGED <<todo, target, out, fallback, closing>>
  BY DEF Unlock, worker, logger
<1>2. \A d \in Clients : todo[d] = << >>  BY <1>1, OthersIdle
<1>3. \A d \in Clients : ~IsClosing(d) /\ ~IsClosing(d)' /\ ~Early(d)'
  BY <1>1, <1>2 DEF IsClosing, Early, Doing
<1>4. SameBounds  BY <1>1 DEF SameBounds, Is
<1> QED  BY <1>1, <1>3, <1>4, ChainKept

LEMMA TakenKeepsChain ==
  ASSUME Types, Chain, NEW c \in Clients, mutex = c, mutex' = c, UNCHANGED target,
         fallback # None, TakesAway(c), NEW s, OnlyTodo(c, s), s # << >>, Head(s) \in Closes
  PROVE  Chain'
<1>1. SameBounds  BY Names DEF OnlyTodo, SameBounds, Is
<1>2. /\ \A k \in DOMAIN Workers : (Live(k)' <=> Live(k)) /\ (Top(k)' <=> Top(k))
      /\ OrderOfWorkers' /\ TargetInv'
  BY <1>1, BoundsKept
<1>3. PICK k \in DOMAIN Workers : Top(k) /\ out = Workers[k]  BY DEF Chain, OutInv
<1>4. fallback' = None /\ closing'[c] = Workers[k]
  BY <1>3 DEF TakesAway, Types, Shapes
<1>5. IsClosing(c)'  BY DEF IsClosing, Doing, OnlyTodo
<1>6. \A d \in Clients : d # c => ~IsClosing(d)'
  <2>1. \A d \in Clients : d # c => todo'[d] = << >>  BY OthersIdle, Names DEF OnlyTodo
  <2> QED  BY <2>1 DEF IsClosing, Doing
<1>7. LiveInv'  BY <1>5 DEF LiveInv
<1>8. OutInv' /\ EarlyInv'  BY <1>4 DEF OutInv, EarlyInv
<1>9. ClosingInv'  BY <1>2, <1>3, <1>4, <1>6 DEF ClosingInv
<1> QED  BY <1>2, <1>7, <1>8, <1>9 DEF Chain

\* what a client has to do next if steps are put before the rest of its call
LEMMA NewHead ==
  ASSUME Types, NEW c \in Clients, todo[c] # << >>, NEW p \in Seq(Steps), p # << >>,
         NEW s, s = p \o Tail(todo[c])
  PROVE  s # << >> /\ Head(s) = p[1]
<1>1. todo[c] \in Seq(Steps)  BY DEF Types, CallsAndStates, CallInv, WellFormed
<1> QED  BY <1>1, PrefixHead

LEMMA StartUnwrapKeepsChain ==
  ASSUME Types, Chain, NEW c \in Clients, StartUnwrap(c) PROVE Chain'
<1>1. mutex = c /\ mutex' = c /\ todo[c] # << >> /\ Head(todo[c]) = "unwrap" /\ UNCHANGED target
  BY DEF StartUnwrap, Doing, worker
<1>2. CASE fallback = None
  <2>1. OnlyTodo(c, Tail(todo[c])) /\ UNCHANGED <<out, fallback, closing>>
    BY <1>2, StartUnwrapTypes
  <2>2. Head(todo[c]) \notin Closes  BY <1>1 DEF Closes
  <2> QED  BY <1>1, <1>2, <2>1, <2>2, TailKeepsChain
<1>3. CASE fallback # None
  <2>1. OnlyTodo(c, <<"close">> \o Tail(todo[c])) /\ TakesAway(c)
    BY <1>3, StartUnwrapTypes
  <2>2. <<"close">> \in Seq(Steps) /\ <<"close">>[1] = "close" /\ <<"close">> # << >>
    BY DEF Steps
  <2>3. PICK s : s = <<"close">> \o Tail(todo[c])  OBVIOUS
  <2>4. s # << >> /\ Head(s) = "close"  BY <1>1, <2>2, <2>3, NewHead
  <2>5. OnlyTodo(c, s)  BY <2>1, <2>3
  <2>6. Head(s) \in Closes  BY <2>4 DEF Closes
  <2> QED  BY <1>1, <1>3, <2>1, <2>4, <2>5, <2>6, TakenKeepsChain
<1> QED  BY <1>2, <1>3

LEMMA StartReportKeepsChain ==
  ASSUME Types, Chain, NEW c \in Clients, StartReport(c) PROVE Chain'
<1>1. mutex = c /\ mutex' = c /\ todo[c] # << >> /\ Head(todo[c]) = "report" /\ UNCHANGED target
  BY DEF StartReport, Doing, worker
<1>2. CASE fallback = None
  <2>1. OnlyTodo(c, Report \o Tail(todo[c])) /\ UNCHANGED <<out, fallback, closing>>
    BY <1>2, StartReportTypes
  <2>2. Report \in Seq(Steps) /\ Report[1] = "log error" /\ Report # << >>
    BY Tuples DEF Report, Steps
  <2>3. PICK s : s = Report \o Tail(todo[c])  OBVIOUS
  <2>4. s # << >> /\ Head(s) = "log error"  BY <1>1, <2>2, <2>3, NewHead
  <2>5. OnlyTodo(c, s)  BY <2>1, <2>3
  <2>6. ~IsClosing(c) /\ Head(s) \notin Closes  BY <1>1, <2>4 DEF Closes, IsClosing, Doing
  <2> QED  BY <1>1, <1>2, <2>1, <2>5, <2>6, ClientKeepsChain
<1>3. CASE fallback # None
  <2>1. OnlyTodo(c, (<<"close quietly">> \o Report) \o Tail(todo[c])) /\ TakesAway(c)
    BY <1>3, StartReportTypes
  <2>2. PICK p \in Seq(Steps) : /\ p = <<"close quietly">> \o Report
                                /\ p[1] = "close quietly" /\ p # << >>
    <3>1. <<"close quietly">> \o Report = <<"close quietly", "log error", "errorf", "code 2">>
      BY SomeSteps DEF Report
    <3>2. <<"close quietly", "log error", "errorf", "code 2">> \in Seq(Steps)
      BY Tuples DEF Steps
    <3>3. PICK p \in Seq(Steps) : p = <<"close quietly", "log error", "errorf", "code 2">>
      BY <3>2
    <3>4. p[1] = "close quietly" /\ p # << >>  BY <3>3
    <3> QED  BY <3>1, <3>3, <3>4
  <2>3. PICK s : s = p \o Tail(todo[c])  OBVIOUS
  <2>4. s # << >> /\ Head(s) = "close quietly"  BY <1>1, <2>2, <2>3, NewHead
  <2>5. OnlyTodo(c, s)  BY <2>1, <2>2, <2>3
  <2>6. Head(s) \in Closes  BY <2>4 DEF Closes
  <2> QED  BY <1>1, <1>3, <2>1, <2>4, <2>5, <2>6, TakenKeepsChain
<1> QED  BY <1>2, <1>3

LEMMA PrintfFailsKeepsChain ==
  ASSUME Types, Chain, NEW c \in Clients, PrintfFails(c) PROVE Chain'
<1>1. mutex = c /\ mutex' = c /\ todo[c] # << >> /\ UNCHANGED <<target, out, fallback, closing>>
  BY DEF PrintfFails, Doing, client, logger, worker
<1>2. CASE Doing(c, "printf") /\ OnlyTodo(c, <<"report">> \o Tail(todo[c]))
  <2>1. <<"report">> \in Seq(Steps) /\ <<"report">>[1] = "report" /\ <<"report">> # << >>
    BY DEF Steps
  <2>2. PICK s : s = <<"report">> \o Tail(todo[c])  OBVIOUS
  <2>3. s # << >> /\ Head(s) = "report"  BY <1>1, <2>1, <2>2, NewHead
  <2>4. OnlyTodo(c, s)  BY <1>2, <2>2
  <2>5. ~IsClosing(c) /\ Head(s) \notin Closes /\ Head(s) \notin Earlies
    BY <1>2, <2>3 DEF Closes, Earlies, IsClosing, Doing
  <2> QED  BY <1>1, <2>4, <2>5, ClientKeepsChain
<1>3. CASE Doing(c, "errorf") /\ OnlyTodo(c, Tail(todo[c]))
  <2>1. Head(todo[c]) \notin Closes /\ Head(todo[c]) \notin Starts
    BY <1>3 DEF Doing, Closes, Starts
  <2> QED  BY <1>1, <1>3, <2>1, TailKeepsChain
<1> QED  BY <1>2, <1>3, PrintfFailsTypes

\* what is known of the workers when one of them has gone on to x
LEMMA OneChanged ==
  ASSUME NEW k \in DOMAIN Workers, NEW x, todo'[Workers[k]] = <<x>>,
         \A j \in DOMAIN Workers : j # k => todo'[Workers[j]] = todo[Workers[j]]
  PROVE  /\ \A j \in DOMAIN Workers : j # k => \A y : Is(j, y)' <=> Is(j, y)
         /\ \A y : Is(k, y)' <=> y = x
<1>1. \A y : <<x>> = <<y>> <=> y = x  OBVIOUS
<1> QED  BY <1>1 DEF Is

\* a worker that has told its error is the only one left, and closing is early
LEMMA ClosedIsLast ==
  ASSUME Types, Chain, NEW c \in Clients, IsClosing(c),
         NEW k \in DOMAIN Workers, Top(k), Is(k, "send")
  PROVE  /\ fallback = None
         /\ \A j \in DOMAIN Workers : (j < k => Is(j, "gone")) /\ (j > k => Is(j, "new"))
<1>1. fallback = None  BY DEF Chain, EarlyInv, Early, IsClosing
<1>2. Bottom(k)  BY DEF Top, Chain, TargetInv
<1>3. ASSUME NEW j \in DOMAIN Workers, j < k PROVE Is(j, "gone")
  <2>1. k - 1 \in DOMAIN Workers /\ k > 1 /\ (j = k - 1 \/ j < k - 1)  BY <1>3, Names
  <2>2. Is(k - 1, "gone")  BY <1>2, <2>1 DEF Bottom
  <2> QED  BY <1>3, <2>1, <2>2 DEF Chain, OrderOfWorkers
<1>4. ASSUME NEW j \in DOMAIN Workers, j > k PROVE Is(j, "new")
  <2>1. k + 1 \in DOMAIN Workers /\ k < Len(Workers) /\ (j = k + 1 \/ j > k + 1)
    BY <1>4, Names
  <2>2. Is(k + 1, "new")  BY <2>1 DEF Top
  <2> QED  BY <1>4, <2>1, <2>2 DEF Chain, OrderOfWorkers
<1> QED  BY <1>1, <1>3, <1>4

LEMMA CloseDoneKeepsChain ==
  ASSUME Types, Chain, NEW c \in Clients, CloseDone(c) PROVE Chain'
<1>0. ClosingInv  BY DEF Chain
<1>1. PICK k \in DOMAIN Workers :
        /\ Top(k) /\ Is(k, "send")
        /\ \/ TwoTodos(c, <<"report">> \o Tail(todo[c]), Workers[k], <<"gone">>)
           \/ TwoTodos(c, Tail(todo[c]), Workers[k], <<"gone">>)
  BY <1>0, CloseDoneTypes DEF Top, Live
<1>2. IsClosing(c) /\ mutex = c /\ mutex' = c /\ todo[c] # << >> /\ Head(todo[c]) \in Closes
      /\ UNCHANGED <<target, out, fallback, closing>>
  BY DEF CloseDone, IsClosing, Doing, client, logger, worker
<1>3. /\ fallback = None
      /\ \A j \in DOMAIN Workers : (j < k => Is(j, "gone")) /\ (j > k => Is(j, "new"))
  BY <1>1, <1>2, ClosedIsLast
<1>4. PICK s : /\ TwoTodos(c, s, Workers[k], <<"gone">>)
               /\ s = << >> \/ Head(s) \notin Closes
  <2>1. CASE TwoTodos(c, <<"report">> \o Tail(todo[c]), Workers[k], <<"gone">>)
    <3>1. <<"report">> \in Seq(Steps) /\ <<"report">>[1] = "report" /\ <<"report">> # << >>
      BY DEF Steps
    <3>2. PICK s : s = <<"report">> \o Tail(todo[c])  OBVIOUS
    <3>3. Head(s) = "report"  BY <1>2, <3>1, <3>2, NewHead
    <3> QED  BY <2>1, <3>2, <3>3 DEF Closes
  <2>2. CASE TwoTodos(c, Tail(todo[c]), Workers[k], <<"gone">>)
    <3>1. WellFormed(todo[c])  BY DEF Types, CallsAndStates, CallInv
    <3>2. Tail(todo[c]) # << >> => MayFollow(Head(todo[c]), Head(Tail(todo[c])))
      BY <1>2, <3>1, NextStep
    <3>3. Tail(todo[c]) # << >> => Head(Tail(todo[c])) \notin Closes
      BY <3>2 DEF MayFollow, Closes
    <3> QED  BY <2>2, <3>3
  <2> QED  BY <1>1, <2>1, <2>2
<1>5. \A d \in Clients : ~IsClosing(d)'
  <2>1. \A d \in Clients : d # c => todo'[d] = << >>
    BY <1>2, <1>4, OthersIdle, Names DEF TwoTodos
  <2> QED  BY <1>4, <2>1 DEF IsClosing, Doing, TwoTodos
<1>6. /\ \A j \in DOMAIN Workers : j # k => \A y : Is(j, y)' <=> Is(j, y)
      /\ \A y : Is(k, y)' <=> y = "gone"
  <2>1. todo'[Workers[k]] = <<"gone">>  BY <1>4 DEF TwoTodos
  <2>2. \A j \in DOMAIN Workers : j # k => todo'[Workers[j]] = todo[Workers[j]]
    BY <1>4, Names DEF TwoTodos
  <2> QED  BY <2>1, <2>2, OneChanged
<1>7. \A j \in DOMAIN Workers : IF j > k THEN Is(j, "new")' ELSE Is(j, "gone")'
  <2>1. \A j \in DOMAIN Workers : j < k \/ j = k \/ j > k  BY Names
  <2> QED  BY <1>3, <1>6, <2>1, Names
<1>8. \A j \in DOMAIN Workers : ~Live(j)' /\ (j > k => ~Is(j, "gone")')
                               /\ (~(j > k) => ~Is(j, "new")')
  <2>1. \A j \in DOMAIN Workers : ~(Is(j, "new")' /\ Is(j, "gone")')  BY DEF Is
  <2> QED  BY <1>7, <2>1 DEF Live
<1>9. OrderOfWorkers'
  <2> SUFFICES ASSUME NEW i \in DOMAIN Workers, NEW j \in DOMAIN Workers, i < j
               PROVE  (Is(i, "new")' => Is(j, "new")') /\ (Is(j, "gone")' => Is(i, "gone")')
    BY DEF OrderOfWorkers
  <2>1. (i > k => j > k) /\ (~(j > k) => ~(i > k))  BY Names
  <2> QED  BY <1>7, <1>8, <2>1
<1>10. TargetInv' /\ LiveInv'  BY <1>8 DEF TargetInv, LiveInv
<1>11. OutInv' /\ EarlyInv' /\ ClosingInv'
  BY <1>2, <1>3, <1>5 DEF OutInv, EarlyInv, ClosingInv
<1> QED  BY <1>9, <1>10, <1>11 DEF Chain

LEMMA WrapKeepsChain ==
  ASSUME Types, Chain, NEW c \in Clients, Wrap(c) PROVE Chain'
<1>1. PICK k \in DOMAIN Workers :
        /\ Is(k, "new") /\ (\A j \in 1 .. k - 1 : ~Is(j, "new"))
        /\ out' = Workers[k] /\ target' = [target EXCEPT ![Workers[k]] = out]
        /\ TwoTodos(c, Tail(todo[c]), Workers[k], <<"scan">>)
  BY WrapTypes
<1>2. /\ mutex = c /\ todo[c] # << >> /\ Head(todo[c]) = "wrap"
      /\ fallback' = IF fallback = None THEN out ELSE fallback
  BY DEF Wrap, Doing
<1>3. \A d \in Clients : ~IsClosing(d) /\ ~IsClosing(d)' /\ ~Early(d)'
  <2>1. todo'[c] = << >>
    <3>1. WellFormed(todo[c])  BY DEF Types, CallsAndStates, CallInv
    <3>2. Tail(todo[c]) # << >> => MayFollow("wrap", Head(Tail(todo[c])))
      BY <1>2, <3>1, NextStep
    <3>3. Tail(todo[c]) = << >>  BY <3>2 DEF MayFollow
    <3> QED  BY <1>1, <3>3 DEF TwoTodos
  <2>2. \A d \in Clients : d # c => todo'[d] = << >> /\ ~IsClosing(d)
    BY <1>1, <1>2, OthersIdle, Names DEF TwoTodos
  <2>3. ~IsClosing(c)  BY <1>2 DEF IsClosing, Doing, Closes
  <2> QED  BY <2>1, <2>2, <2>3 DEF IsClosing, Early, Doing
<1>4. /\ \A j \in DOMAIN Workers : j # k => \A y : Is(j, y)' <=> Is(j, y)
      /\ \A y : Is(k, y)' <=> y = "scan"
  <2>1. todo'[Workers[k]] = <<"scan">>  BY <1>1 DEF TwoTodos
  <2>2. \A j \in DOMAIN Workers : j # k => todo'[Workers[j]] = todo[Workers[j]]
    BY <1>1, Names DEF TwoTodos
  <2> QED  BY <2>1, <2>2, OneChanged
<1>5. ~Is(k, "gone") /\ ~Live(k) /\ Live(k)' /\ ~Is(k, "gone")'
  BY <1>1, <1>4 DEF Is, Live
<1>6. \A j \in DOMAIN Workers : /\ Is(j, "gone")' <=> Is(j, "gone")
                                /\ j # k => (Live(j)' <=> Live(j))
                                /\ Bottom(j)' <=> Bottom(j)
  <2>1. \A j \in DOMAIN Workers : Is(j, "gone")' <=> Is(j, "gone")  BY <1>4, <1>5
  <2>2. \A j \in DOMAIN Workers : j > 1 => j - 1 \in DOMAIN Workers  BY Names
  <2>3. \A j \in DOMAIN Workers : j # k => (Live(j)' <=> Live(j))  BY <1>4 DEF Live
  <2> QED  BY <2>1, <2>2, <2>3 DEF Bottom
<1>7. OrderOfWorkers'
  <2> SUFFICES ASSUME NEW i \in DOMAIN Workers, NEW j \in DOMAIN Workers, i < j
               PROVE  (Is(i, "new")' => Is(j, "new")') /\ (Is(j, "gone")' => Is(i, "gone")')
    BY DEF OrderOfWorkers
  <2>1. Is(j, "gone")' => Is(i, "gone")'  BY <1>6 DEF Chain, OrderOfWorkers
  <2>2. ASSUME Is(i, "new")' PROVE Is(j, "new")'
    <3>1. i # k /\ Is(i, "new")  BY <1>4, <2>2
    <3>2. i > k
      <4>1. i \notin 1 .. k - 1  BY <1>1, <3>1
      <4> QED  BY <3>1, <4>1, Names
    <3>3. Is(j, "new") /\ j # k  BY <3>1, <3>2, Names DEF Chain, OrderOfWorkers
    <3> QED  BY <1>4, <3>3
  <2> QED  BY <2>1, <2>2
<1>8. Top(k)'
  <2>1. k < Len(Workers) => k + 1 \in DOMAIN Workers /\ k + 1 # k /\ k < k + 1  BY Names
  <2>2. k < Len(Workers) => Is(k + 1, "new")
    BY <1>1, <2>1 DEF Chain, OrderOfWorkers
  <2> QED  BY <1>4, <1>5, <2>1, <2>2 DEF Top
<1>9. OutInv' /\ ClosingInv' /\ EarlyInv'
  BY <1>1, <1>3, <1>8 DEF OutInv, ClosingInv, EarlyInv
<1>10. fallback' # None  BY <1>2 DEF Types, Shapes, Base, None
<1>11. LiveInv'  BY <1>10 DEF LiveInv
<1>12. target'[Workers[k]] = out /\ \A j \in DOMAIN Workers : j # k => target'[Workers[j]] = target[Workers[j]]
  BY <1>1, Names DEF Types, Shapes
<1>13. IF Bottom(k) THEN out = Base ELSE out = Workers[k - 1]
  <2>1. CASE fallback = None
    <3>1. out = Base /\ \A j \in DOMAIN Workers : ~Live(j)
      BY <1>3, <2>1 DEF Types, Shapes, Chain, LiveInv
    <3>2. k > 1 => k - 1 \in DOMAIN Workers /\ k - 1 \in 1 .. k - 1  BY Names
    <3>3. Bottom(k)  BY <1>1, <3>1, <3>2 DEF Bottom, Live
    <3> QED  BY <3>1, <3>3
  <2>2. CASE fallback # None
    <3>1. PICK t \in DOMAIN Workers : Top(t) /\ out = Workers[t]
      BY <2>2 DEF Chain, OutInv
    <3>2. Live(t) /\ t # k  BY <1>5, <3>1 DEF Top
    <3>3. ~(k < t)  BY <1>1, <3>2 DEF Live, Chain, OrderOfWorkers
    <3>4. t < k  BY <3>2, <3>3, Names
    <3>5. t + 1 \in DOMAIN Workers /\ t < Len(Workers) /\ (t + 1 < k => t + 1 \in 1 .. k - 1)
      BY <3>4, Names
    <3>6. Is(t + 1, "new")  BY <3>1, <3>5 DEF Top
    <3>7. ~(t + 1 < k)  BY <1>1, <3>5, <3>6
    <3>8. t = k - 1 /\ k > 1  BY <3>4, <3>7, Names
    <3>9. ~Bottom(k)  BY <3>2, <3>8 DEF Bottom, Live
    <3> QED  BY <3>1, <3>8, <3>9
  <2> QED  BY <2>1, <2>2
<1>14. TargetInv'
  <2> SUFFICES ASSUME NEW j \in DOMAIN Workers, Live(j)'
               PROVE  IF Bottom(j)' THEN target'[Workers[j]] = Base \/ Is(j, "send")'
                      ELSE target'[Workers[j]] = Workers[j - 1] /\ ~Is(j, "send")'
    BY DEF TargetInv
  <2>1. CASE j = k  BY <1>4, <1>6, <1>12, <1>13, <2>1
  <2>2. CASE j # k  BY <1>4, <1>6, <1>12, <2>2 DEF Chain, TargetInv
  <2> QED  BY <2>1, <2>2
<1> QED  BY <1>7, <1>9, <1>11, <1>14 DEF Chain

\* what clients do is no different
LEMMA ClientsStay ==
  ASSUME WorkerOnly, \A c \in Clients : todo'[c] = todo[c]
  PROVE  /\ UNCHANGED <<out, fallback, closing, mutex>>
         /\ \A c \in Clients : \A what : Doing(c, what)' <=> Doing(c, what)
         /\ \A c \in Clients : (IsClosing(c)' <=> IsClosing(c)) /\ (Early(c)' <=> Early(c))
<1>1. UNCHANGED <<out, fallback, closing, mutex>>  BY DEF WorkerOnly, logger, client
<1>2. \A c \in Clients : \A what : Doing(c, what)' <=> Doing(c, what)  BY <1>1 DEF Doing
<1> QED  BY <1>1, <1>2 DEF IsClosing, Early

LEMMA WorkerClosesKeepsChain ==
  ASSUME Types, Chain, NEW k \in DOMAIN Workers, WorkerCloses(Workers[k]) PROVE Chain'
<1>0. TargetInv /\ WorkerOnly /\ UNCHANGED target /\ Is(k, "close")
  BY DEF Chain, WorkerCloses, At, Is
<1>1. \A c \in Clients : todo'[c] = todo[c]
  BY <1>0, WorkerClosesTypes, Names DEF GoesOn, OnlyTodo, TwoTodos
<1>2. /\ UNCHANGED <<out, fallback, closing, mutex>>
      /\ \A c \in Clients : (IsClosing(c)' <=> IsClosing(c)) /\ (Early(c)' <=> Early(c))
  BY <1>0, <1>1, ClientsStay
<1>3. EarlyInv'  BY <1>2 DEF Chain, EarlyInv
<1>4. Live(k) /\ ~Is(k, "new") /\ ~Is(k, "gone") /\ ~Is(k, "send")
  BY <1>0 DEF Live, Is
<1>5. CASE Bottom(k) /\ GoesOn(k, "close", "send")
  <2>1. /\ \A j \in DOMAIN Workers : j # k => \A y : Is(j, y)' <=> Is(j, y)
        /\ \A y : Is(k, y)' <=> y = "send"
    <3>1. todo'[Workers[k]] = <<"send">>  BY <1>5 DEF GoesOn, OnlyTodo
    <3>2. \A j \in DOMAIN Workers : j # k => todo'[Workers[j]] = todo[Workers[j]]
      BY <1>5, Names DEF GoesOn, OnlyTodo
    <3> QED  BY <3>1, <3>2, OneChanged
  <2>2. \A j \in DOMAIN Workers : (Is(j, "new")' <=> Is(j, "new")) /\ (Is(j, "gone")' <=> Is(j, "gone"))
    BY <1>4, <2>1
  <2>3. \A j \in DOMAIN Workers : (j > 1 => j - 1 \in DOMAIN Workers)
                                 /\ (j < Len(Workers) => j + 1 \in DOMAIN Workers)
    BY Names
  <2>4. \A j \in DOMAIN Workers : (Live(j)' <=> Live(j)) /\ (Bottom(j)' <=> Bottom(j)) /\ (Top(j)' <=> Top(j))
    BY <2>2, <2>3 DEF Live, Bottom, Top
  <2>5. OrderOfWorkers'  BY <2>2 DEF Chain, OrderOfWorkers
  <2>6. TargetInv'
    <3> SUFFICES ASSUME NEW j \in DOMAIN Workers, Live(j)'
                 PROVE  IF Bottom(j)' THEN target'[Workers[j]] = Base \/ Is(j, "send")'
                        ELSE target'[Workers[j]] = Workers[j - 1] /\ ~Is(j, "send")'
      BY DEF TargetInv
    <3>1. CASE j = k  BY <1>5, <2>1, <2>4, <3>1
    <3>2. CASE j # k  BY <1>0, <2>1, <2>4, <3>2 DEF TargetInv
    <3> QED  BY <3>1, <3>2
  <2>7. LiveInv' /\ OutInv' /\ ClosingInv'
    BY <1>2, <2>4 DEF Chain, LiveInv, OutInv, ClosingInv
  <2> QED  BY <1>3, <2>5, <2>6, <2>7 DEF Chain
<1>6. CASE ~Bottom(k) /\ k > 1 /\ TwoTodos(Workers[k], <<"send">>, Workers[k - 1], <<"gone">>)
  <2>1. PICK i \in DOMAIN Workers : i = k - 1 /\ i # k /\ i < k /\ i < Len(Workers) /\ i + 1 = k
    BY <1>6, Names
  <2>2. Is(i, "send")
    <3>1. ~Is(i, "gone")  BY <1>6, <2>1 DEF Bottom
    <3>2. Is(k - 1, "send") \/ Is(k - 1, "gone")  BY <1>0, <1>6, WorkerClosesTypes
    <3> QED  BY <2>1, <3>1, <3>2
  <2>3. Live(i) /\ Bottom(i)  BY <1>0, <2>1, <2>2 DEF Live, Is, TargetInv
  <2>4. /\ \A j \in DOMAIN Workers : j # k /\ j # i => \A y : Is(j, y)' <=> Is(j, y)
        /\ \A y : Is(k, y)' <=> y = "send"
        /\ \A y : Is(i, y)' <=> y = "gone"
    <3>1. todo'[Workers[k]] = <<"send">> /\ todo'[Workers[i]] = <<"gone">>
      BY <1>6, <2>1 DEF TwoTodos
    <3>2. \A j \in DOMAIN Workers : j # k /\ j # i => todo'[Workers[j]] = todo[Workers[j]]
      BY <1>6, <2>1, Names DEF TwoTodos
    <3>3. \A x, y : <<x>> = <<y>> <=> x = y  OBVIOUS
    <3> QED  BY <3>1, <3>2, <3>3 DEF Is
  <2>5. ~Is(i, "new") /\ ~Is(i, "gone")  BY <2>2 DEF Is
  <2>6. \A j \in DOMAIN Workers : /\ Is(j, "new")' <=> Is(j, "new")
                                  /\ j # i => (Is(j, "gone")' <=> Is(j, "gone"))
                                  /\ j < i => Is(j, "gone")
    <3>1. ASSUME NEW j \in DOMAIN Workers, j < i PROVE Is(j, "gone")
      <4>1. i - 1 \in DOMAIN Workers /\ i > 1 /\ (j = i - 1 \/ j < i - 1)
        BY <2>1, <3>1, Names
      <4>2. Is(i - 1, "gone")  BY <2>3, <4>1 DEF Bottom
      <4> QED  BY <4>1, <4>2 DEF Chain, OrderOfWorkers
    <3> QED  BY <1>4, <2>4, <2>5, <3>1
  <2>7. \A j \in DOMAIN Workers : /\ Live(j)' <=> Live(j) /\ j # i
                                  /\ j # k => (Bottom(j)' <=> Bottom(j))
                                  /\ j # i => (Top(j)' <=> Top(j))
    <3>1. \A j \in DOMAIN Workers : /\ j > 1 => j - 1 \in DOMAIN Workers
                                    /\ j < Len(Workers) => j + 1 \in DOMAIN Workers
                                    /\ j - 1 = i => j = k
      BY <2>1, Names
    <3>2. \A j \in DOMAIN Workers : Live(j)' <=> Live(j) /\ j # i
      BY <2>4, <2>6 DEF Live
    <3>3. \A j \in DOMAIN Workers : j # k => (Bottom(j)' <=> Bottom(j))
      BY <2>6, <3>1 DEF Bottom
    <3>4. \A j \in DOMAIN Workers : j # i => (Top(j)' <=> Top(j))
      BY <2>6, <3>1, <3>2 DEF Top
    <3> QED  BY <3>2, <3>3, <3>4
  <2>8. ~Top(i)  BY <1>4, <2>1 DEF Top
  <2>9. OrderOfWorkers'
    <3> SUFFICES ASSUME NEW g \in DOMAIN Workers, NEW j \in DOMAIN Workers, g < j
                 PROVE  (Is(g, "new")' => Is(j, "new")') /\ (Is(j, "gone")' => Is(g, "gone")')
      BY DEF OrderOfWorkers
    <3>1. Is(g, "new")' => Is(j, "new")'  BY <2>6 DEF Chain, OrderOfWorkers
    <3>2. CASE j = i
      <4>1. g # i /\ Is(g, "gone")  BY <2>6, <3>2, Names
      <4> QED  BY <2>6, <3>1, <4>1
    <3>3. CASE j # i
      <4>1. Is(j, "gone") => Is(g, "gone")  BY DEF Chain, OrderOfWorkers
      <4>2. Is(g, "gone") => Is(g, "gone")'  BY <2>5, <2>6
      <4> QED  BY <2>6, <3>1, <3>3, <4>1, <4>2
    <3> QED  BY <3>1, <3>2, <3>3
  <2>10. TargetInv'
    <3> SUFFICES ASSUME NEW j \in DOMAIN Workers, Live(j)'
                 PROVE  IF Bottom(j)' THEN target'[Workers[j]] = Base \/ Is(j, "send")'
                        ELSE target'[Workers[j]] = Workers[j - 1] /\ ~Is(j, "send")'
      BY DEF TargetInv
    <3>1. CASE j = k
      <4>1. Bottom(k)'  BY <2>1, <2>4 DEF Bottom
      <4> QED  BY <2>4, <3>1, <4>1
    <3>2. CASE j # k
      <4>1. Live(j) /\ j # i /\ (Bottom(j)' <=> Bottom(j)) /\ (Is(j, "send")' <=> Is(j, "send"))
        BY <2>4, <2>7, <3>2
      <4> QED  BY <1>0, <4>1 DEF TargetInv
    <3> QED  BY <3>1, <3>2
  <2>11. LiveInv'  BY <1>2, <2>7 DEF Chain, LiveInv
  <2>12. OutInv' /\ ClosingInv'
    BY <1>2, <2>7, <2>8 DEF Chain, OutInv, ClosingInv
  <2> QED  BY <1>3, <2>9, <2>10, <2>11, <2>12 DEF Chain
<1> QED  BY <1>0, <1>5, <1>6, WorkerClosesTypes

LEMMA BreakTypes ==
  ASSUME Types, Break PROVE Types' /\ UNCHANGED todo
<1>1. Shapes'  BY DEF Types, Shapes, Break, logger, client, worker
<1>2. CallsAndStates'  BY DEF Types, CallsAndStates, CallInv, StateInv, Is, Break, client
<1> QED  BY <1>1, <1>2 DEF Types, Break

LEMMA StutterTypes ==
  ASSUME Types, UNCHANGED vars PROVE Types' /\ UNCHANGED todo
<1>1. Shapes'  BY DEF Types, Shapes, vars, logger, client, worker
<1>2. CallsAndStates'  BY DEF Types, CallsAndStates, CallInv, StateInv, Is, vars, client
<1> QED  BY <1>1, <1>2 DEF Types, vars

LEMMA ClientKeepsTypes ==
  ASSUME Types, Chain, NEW c \in Clients, Client(c) PROVE Types' /\ Chain'
<1>0. ClosingInv  BY DEF Chain
<1>1. CASE Lock(c)  BY <1>1, LockTypes, LockKeepsChain
<1>2. CASE Unlock(c)  BY <1>2, UnlockTypes, UnlockKeepsChain
<1>3. CASE LogLine(c)  BY <1>3, LogLineTypes, SimpleStepsKeepChain
<1>4. CASE PrintfPuts(c)
  <2>1. Types' /\ UNCHANGED todo  BY <1>4, PrintfPutsTypes
  <2>2. UNCHANGED <<mutex, target, out, fallback, closing>>
    BY <1>4 DEF PrintfPuts, client, worker, logger
  <2> QED  BY <2>1, <2>2, StillKeepsChain
<1>5. CASE PrintfOk(c)  BY <1>5, PrintfOkTypes, SimpleStepsKeepChain
<1>6. CASE PrintfFails(c)  BY <1>6, PrintfFailsTypes, PrintfFailsKeepsChain
<1>7. CASE StartUnwrap(c)  BY <1>7, StartUnwrapTypes, StartUnwrapKeepsChain
<1>8. CASE StartReport(c)  BY <1>8, StartReportTypes, StartReportKeepsChain
<1>9. CASE HangUp(c)
  <2>1. Types' /\ UNCHANGED todo  BY <1>0, <1>9, HangUpTypes
  <2>2. UNCHANGED <<mutex, target, out, fallback, closing>>
    BY <1>9 DEF HangUp, client, worker, logger
  <2> QED  BY <2>1, <2>2, StillKeepsChain
<1>10. CASE CloseDone(c)  BY <1>0, <1>10, CloseDoneTypes, CloseDoneKeepsChain
<1>11. CASE SetCode(c)  BY <1>11, SetCodeTypes, SimpleStepsKeepChain
<1>12. CASE Answer(c)  BY <1>12, AnswerTypes, SimpleStepsKeepChain
<1>13. CASE Wrap(c)  BY <1>13, WrapTypes, WrapKeepsChain
<1> QED
  BY <1>1, <1>2, <1>3, <1>4, <1>5, <1>6, <1>7, <1>8, <1>9, <1>10, <1>11, <1>12, <1>13
  DEF Client

LEMMA WorkerKeepsTypes ==
  ASSUME Types, Chain, NEW k \in DOMAIN Workers, Worker(Workers[k]) PROVE Types' /\ Chain'
<1>0. TargetInv  BY DEF Chain
<1>1. CASE StartScan(Workers[k])
  <2>1. WorkerOnly /\ UNCHANGED target  BY <1>1 DEF StartScan, worker
  <2>2. Types' /\ (GoesOn(k, "scan", "flush, read") \/ GoesOn(k, "scan", "read"))
    BY <1>1, StartScanTypes
  <2> QED  BY <2>1, <2>2, WorkerKeepsChain DEF Bounds
<1>2. CASE ReadPipe(Workers[k])
  <2>1. UNCHANGED <<mutex, target, out, fallback, closing>>
    BY <1>2 DEF ReadPipe, WorkerOnly, client, logger
  <2> QED  BY <1>2, <2>1, ReadPipeTypes, StillKeepsChain
<1>3. CASE PipeEnds(Workers[k])
  <2>1. WorkerOnly /\ UNCHANGED target  BY <1>3 DEF PipeEnds, worker
  <2> QED  BY <1>3, <2>1, PipeEndsTypes, WorkerKeepsChain DEF Bounds
<1>4. CASE ScanLine(Workers[k])
  <2>1. WorkerOnly /\ UNCHANGED target  BY <1>4 DEF ScanLine
  <2>2. Types' /\ (GoesOn(k, "read", "flush, scan") \/ GoesOn(k, "read", "scan"))
    BY <1>4, ScanLineTypes
  <2> QED  BY <2>1, <2>2, WorkerKeepsChain DEF Bounds
<1>5. CASE ScanFails(Workers[k])
  <2>1. WorkerOnly /\ UNCHANGED target  BY <1>5 DEF ScanFails
  <2> QED  BY <1>5, <2>1, ScanFailsTypes, WorkerKeepsChain DEF Bounds
<1>6. CASE FlushPuts(Workers[k])
  <2>1. UNCHANGED <<mutex, target, out, fallback, closing>>
    BY <1>6 DEF FlushPuts, WorkerOnly, client, logger, worker
  <2> QED  BY <1>6, <2>1, FlushPutsTypes, StillKeepsChain
<1>7. CASE FlushOk(Workers[k])
  <2>1. WorkerOnly /\ UNCHANGED target  BY <1>7 DEF FlushOk
  <2>2. /\ Types'
        /\ \/ GoesOn(k, "flush, close", "close") \/ GoesOn(k, "flush, read", "read")
           \/ GoesOn(k, "flush, scan", "scan")
    BY <1>7, FlushOkTypes
  <2> QED  BY <2>1, <2>2, WorkerKeepsChain DEF Bounds
<1>8. CASE FlushFails(Workers[k])
  <2>1. WorkerOnly /\ UNCHANGED target  BY <1>8 DEF FlushFails
  <2> QED  BY <1>8, <2>1, FlushFailsTypes, WorkerKeepsChain DEF Bounds
<1>9. CASE WorkerHangsUp(Workers[k])
  <2>1. UNCHANGED <<mutex, target, out, fallback, closing>>
    BY <1>9 DEF WorkerHangsUp, WorkerOnly, client, logger, worker
  <2> QED  BY <1>9, <2>1, WorkerHangsUpTypes, StillKeepsChain
<1>10. CASE WorkerCloses(Workers[k])
  BY <1>0, <1>10, WorkerClosesTypes, WorkerClosesKeepsChain
<1> QED
  BY <1>1, <1>2, <1>3, <1>4, <1>5, <1>6, <1>7, <1>8, <1>9, <1>10 DEF Worker

LEMMA StepKeepsTypes ==
  ASSUME Types, Chain, [Next]_vars PROVE Types' /\ Chain'
<1>1. CASE \E c \in Clients : Client(c)  BY <1>1, ClientKeepsTypes
<1>2. CASE \E w \in ToSet(Workers) : Worker(w)
  <2>1. PICK k \in DOMAIN Workers : Worker(Workers[k])  BY <1>2, Names
  <2> QED  BY <2>1, WorkerKeepsTypes
<1>3. CASE Break
  <2>1. UNCHANGED <<mutex, target, out, fallback, closing>>
    BY <1>3 DEF Break, client, logger, worker
  <2> QED  BY <1>3, <2>1, BreakTypes, StillKeepsChain
<1>4. CASE UNCHANGED vars
  <2>1. UNCHANGED <<mutex, target, out, fallback, closing>>
    BY <1>4 DEF vars, client, logger, worker
  <2> QED  BY <1>4, <2>1, StutterTypes, StillKeepsChain
<1> QED  BY <1>1, <1>2, <1>3, <1>4 DEF Next

LEMMA InitTypes == Init => Types /\ Chain
<1> SUFFICES ASSUME Init PROVE Types /\ Chain  OBVIOUS
<1>1. \A c \in Clients : todo[c] = << >>  BY Names DEF Init, Procs
<1>2. \A k \in DOMAIN Workers : Is(k, "new")  BY Names DEF Init, Procs, Is
<1>3. CallsAndStates
  <2>1. WellFormed(<< >>)  BY DEF WellFormed
  <2> QED  BY <1>1, <1>2, <2>1 DEF CallsAndStates, CallInv, StateInv, States
<1>4. Shapes
  <2>1. /\ mutex \in Clients \union {None}
        /\ out \in Outputs /\ fallback \in {Base, None} /\ (fallback = None => out = Base)
        /\ exitCode \in 0 .. 2 /\ code \in [answer : 0 .. 2, exited : BOOLEAN]
        /\ broken \in BOOLEAN
    <3>1. mutex = None /\ out = Base /\ fallback = None  BY DEF Init
    <3>3. exitCode \in 0 .. 2 /\ broken \in BOOLEAN
      <4>1. exitCode = 0 /\ broken = FALSE  BY DEF Init
      <4>2. exitCode \in 0 .. 2  BY <4>1
      <4> QED  BY <4>1, <4>2, Zenon
    <3>2. code \in [answer : 0 .. 2, exited : BOOLEAN]
      <4>1. code = [answer |-> 0, exited |-> FALSE]  BY DEF Init
      <4> QED  BY <4>1
    <3> QED  BY <3>1, <3>2, <3>3, Zenon DEF Outputs
  <2>2. buf \in Seq(Lines) /\ logged \in Seq(Lines) /\ shown \in Seq(Lines)
    BY DEF Init
  <2>3. calls \in [Clients -> Seq(Calls)]  BY ScriptAssumption DEF Init
  <2>4. closing \in [Clients -> Outputs \union {None}] /\ putting \in [Procs -> BOOLEAN]
        /\ target \in [ToSet(Workers) -> Outputs] /\ werr \in [ToSet(Workers) -> BOOLEAN]
    BY DEF Init, Procs, Outputs
  <2>5. NoLine \in Lines /\ Blank \in Lines  BY DEF NoLine, Blank, Lines
  <2>6. pend \in [ToSet(Workers) -> Lines] /\ held \in [ToSet(Workers) -> Lines]
    BY <2>5 DEF Init
  <2>7. PICK nothing \in Seq(Lines) : nothing = << >>  BY NoneIsASequence
  <2>8. unread \in [ToSet(Workers) -> Seq(Lines)]  BY <2>7 DEF Init
  <2>9. pipe \in [ToSet(Workers) -> [data : Seq(Lines), rclosed : BOOLEAN, wclosed : BOOLEAN]]
    <3>1. pipe = [w \in ToSet(Workers) |-> [data |-> nothing, rclosed |-> FALSE, wclosed |-> FALSE]]
      BY <2>7 DEF Init
    <3> QED  BY <3>1
  <2>10. todo \in [Procs -> Seq(Steps \union States)]
    <3>0. "new" \in Steps \union States  BY DEF States
    <3>1. PICK new \in Seq(Steps \union States) : new = <<"new">>  BY <3>0, Tuples
    <3>2. PICK none \in Seq(Steps \union States) : none = << >>  BY NoneIsASequence
    <3>3. todo = [p \in Procs |-> IF p \in Clients THEN none ELSE new]
      BY <3>1, <3>2 DEF Init, Procs
    <3> QED  BY <3>3
  <2> QED  BY <2>1, <2>2, <2>3, <2>4, <2>6, <2>8, <2>9, <2>10 DEF Shapes
<1>5. Chain
  <2>1. \A k \in DOMAIN Workers : ~Live(k) /\ ~Is(k, "gone")  BY <1>2 DEF Live, Is
  <2>2. \A c \in Clients : ~IsClosing(c) /\ ~Early(c)
    BY <1>1 DEF IsClosing, Early, Doing
  <2>3. fallback = None  BY DEF Init
  <2>4. OrderOfWorkers /\ TargetInv /\ LiveInv  BY <1>2, <2>1 DEF OrderOfWorkers, TargetInv, LiveInv
  <2>5. OutInv /\ ClosingInv /\ EarlyInv  BY <2>2, <2>3 DEF OutInv, ClosingInv, EarlyInv
  <2> QED  BY <2>4, <2>5 DEF Chain
<1> QED  BY <1>3, <1>4, <1>5 DEF Types

\* No worker is left behind when the log is unwrapped (unwrap and reportError of
\* logger.go), whatever the clients call, however many workers are one inside
\* of another, and whatever fails.
THEOREM NobodyIsLeftBehind == Spec => []WorkersEnd
<1>1. Types /\ Chain => WorkersEnd
  <2> SUFFICES ASSUME Types, Chain, fallback = None, mutex = None, NEW w \in ToSet(Workers)
               PROVE  At(w, "new") \/ At(w, "gone")
    BY DEF WorkersEnd
  <2>1. PICK k \in DOMAIN Workers : w = Workers[k]  BY Names
  <2>2. \A c \in Clients : ~IsClosing(c)  BY Names DEF IsClosing, Doing
  <2>3. ~Live(k)  BY <2>2 DEF Chain, LiveInv
  <2> QED  BY <2>1, <2>3 DEF Live, Is, At
<1> QED  BY <1>1, InitTypes, StepKeepsTypes, PTL DEF Spec
----------------------------------------------------------------------------
(* Who is blocked in a write, and whose data is in a pipe.                 *)

Blocked == PutInv /\ DataInv

LEMMA OneState == \A k, x, y : Is(k, x) /\ Is(k, y) => x = y
<1>1. \A x, y : <<x>> = <<y>> => x = y  OBVIOUS
<1> QED  BY <1>1 DEF Is

LEMMA BlockedKept ==
  ASSUME Types, Blocked,
         \A c \in Clients : putting'[c] =>
           putting[c] /\ out' = out /\ todo'[c] = todo[c] /\ mutex' = mutex,
         \A k \in DOMAIN Workers : putting'[Workers[k]] =>
           /\ putting[Workers[k]] /\ target'[Workers[k]] = target[Workers[k]]
           /\ todo'[Workers[k]] = todo[Workers[k]],
         \A k \in DOMAIN Workers :
           pipe'[Workers[k]].data # << >> => pipe'[Workers[k]].data = pipe[Workers[k]].data,
         \A c \in Clients : putting[c] /\ ~putting'[c] => pipe'[out].data = << >>,
         \A k \in DOMAIN Workers :
           putting[Workers[k]] /\ ~putting'[Workers[k]] => pipe'[target[Workers[k]]].data = << >>
  PROVE  Blocked'
<1>1. PutInv'
  <2>1. ASSUME NEW c \in Clients, putting'[c]
        PROVE  out' # Base /\ \E what \in Printfs : Doing(c, what)'
    BY <2>1 DEF Blocked, PutInv, Doing
  <2>2. ASSUME NEW k \in DOMAIN Workers, putting'[Workers[k]]
        PROVE  target'[Workers[k]] # Base /\ \E f \in Flushes : Is(k, f)'
    BY <2>2 DEF Blocked, PutInv, Is
  <2> QED  BY <2>1, <2>2 DEF PutInv
<1>2. DataInv'
  <2> SUFFICES ASSUME NEW k \in DOMAIN Workers, pipe'[Workers[k]].data # << >>
               PROVE  \/ \E c \in Clients : putting'[c] /\ out' = Workers[k]
                      \/ /\ k < Len(Workers) /\ putting'[Workers[k + 1]]
                         /\ target'[Workers[k + 1]] = Workers[k]
    BY DEF DataInv
  <2>1. pipe[Workers[k]].data # << >>  OBVIOUS
  <2>2. CASE \E c \in Clients : putting[c] /\ out = Workers[k]  BY <2>2
  <2>3. CASE k < Len(Workers) /\ putting[Workers[k + 1]] /\ target[Workers[k + 1]] = Workers[k]
    <3>1. k + 1 \in DOMAIN Workers  BY <2>3, Names
    <3> QED  BY <2>3, <3>1
  <2> QED  BY <2>1, <2>2, <2>3 DEF Blocked, DataInv
<1> QED  BY <1>1, <1>2 DEF Blocked

\* nobody but the holder of the mutex is blocked in a write of the log
LEMMA OthersDoNotPut ==
  ASSUME Types, Blocked, NEW c \in Clients, mutex \in {c, None}
  PROVE  /\ \A d \in Clients : d # c => ~putting[d]
         /\ (\A what \in Printfs : ~Doing(c, what)) => ~putting[c]
         /\ out = Base => ~putting[c]
BY Names DEF Types, Shapes, Procs, Blocked, PutInv, Doing

\* steps that write nothing to a pipe
LEMMA StillBlocked ==
  ASSUME Types, Blocked, \A d \in Clients : ~putting[d], UNCHANGED putting,
         \A k \in DOMAIN Workers : pipe'[Workers[k]].data = pipe[Workers[k]].data,
         \A k \in DOMAIN Workers : putting[Workers[k]] =>
           /\ target'[Workers[k]] = target[Workers[k]]
           /\ todo'[Workers[k]] = todo[Workers[k]]
  PROVE  Blocked'
BY BlockedKept

LEMMA ClientsKeepBlocked ==
  ASSUME Types, Chain, Blocked, NEW c \in Clients,
         \/ Lock(c) \/ Unlock(c) \/ LogLine(c) \/ StartUnwrap(c) \/ StartReport(c)
         \/ HangUp(c) \/ CloseDone(c) \/ SetCode(c) \/ Answer(c) \/ Wrap(c)
  PROVE  Blocked'
<1>0. ClosingInv  BY DEF Chain
<1>1. mutex \in {c, None} /\ \A what \in Printfs : ~Doing(c, what)
  <2>1. CASE Lock(c)  BY <2>1, Names DEF Lock, Doing
  <2>2. CASE Unlock(c)  BY <2>2 DEF Unlock, Doing
  <2>3. CASE LogLine(c)  BY <2>3 DEF LogLine, Doing, Printfs
  <2>4. CASE StartUnwrap(c)  BY <2>4 DEF StartUnwrap, Doing, Printfs
  <2>5. CASE StartReport(c)  BY <2>5 DEF StartReport, Doing, Printfs
  <2>6. CASE HangUp(c)  BY <2>6 DEF HangUp, Doing, Printfs, Closes
  <2>7. CASE CloseDone(c)  BY <2>7 DEF CloseDone, Doing, Printfs, Closes
  <2>8. CASE SetCode(c)  BY <2>8 DEF SetCode, Doing, Printfs
  <2>9. CASE Answer(c)  BY <2>9 DEF Answer, Doing, Printfs
  <2>10. CASE Wrap(c)  BY <2>10 DEF Wrap, Doing, Printfs
  <2> QED  BY <2>1, <2>2, <2>3, <2>4, <2>5, <2>6, <2>7, <2>8, <2>9, <2>10
<1>2. \A d \in Clients : ~putting[d]  BY <1>1, OthersDoNotPut
<1>3. \A k \in DOMAIN Workers : putting[Workers[k]] => \E f \in Flushes : Is(k, f)
  BY DEF Blocked, PutInv
<1>4. CASE Lock(c)
  <2>1. UNCHANGED <<putting, pipe, target>>  BY <1>4 DEF Lock, worker
  <2>2. \A k \in DOMAIN Workers : todo'[Workers[k]] = todo[Workers[k]]
    BY <1>4, LockTypes, Names DEF OnlyTodo
  <2> QED  BY <1>2, <2>1, <2>2, StillBlocked
<1>5. CASE Unlock(c)
  <2>1. UNCHANGED <<putting, pipe, target, todo>>  BY <1>5 DEF Unlock, worker
  <2> QED  BY <1>2, <2>1, StillBlocked
<1>6. CASE LogLine(c) \/ SetCode(c) \/ Answer(c)
  <2>1. UNCHANGED <<putting, pipe, target>>  BY <1>6 DEF LogLine, SetCode, Answer, worker
  <2>2. OnlyTodo(c, Tail(todo[c]))  BY <1>6, LogLineTypes, SetCodeTypes, AnswerTypes
  <2>3. \A k \in DOMAIN Workers : todo'[Workers[k]] = todo[Workers[k]]
    BY <2>2, Names DEF OnlyTodo
  <2> QED  BY <1>2, <2>1, <2>3, StillBlocked
<1>7. CASE StartUnwrap(c) \/ StartReport(c)
  <2>1. UNCHANGED <<putting, pipe, target>>  BY <1>7 DEF StartUnwrap, StartReport, worker
  <2>2. \A k \in DOMAIN Workers : todo'[Workers[k]] = todo[Workers[k]]
    <3>1. \E s : OnlyTodo(c, s)  BY <1>7, StartUnwrapTypes, StartReportTypes
    <3> QED  BY <3>1, Names DEF OnlyTodo
  <2> QED  BY <1>2, <2>1, <2>2, StillBlocked
<1>8. CASE HangUp(c)
  <2>1. UNCHANGED target  BY <1>8 DEF HangUp, worker
  <2>2. UNCHANGED <<todo, putting>>
        /\ \A k \in DOMAIN Workers : pipe'[Workers[k]].data = pipe[Workers[k]].data
    BY <1>0, <1>8, HangUpTypes, Names
  <2> QED  BY <1>2, <2>1, <2>2, StillBlocked
<1>9. CASE CloseDone(c)
  <2>1. UNCHANGED <<putting, pipe, target>>  BY <1>9 DEF CloseDone, worker
  <2>2. PICK k \in DOMAIN Workers :
          /\ Is(k, "send") \/ Is(k, "gone")
          /\ \A j \in DOMAIN Workers : j # k => todo'[Workers[j]] = todo[Workers[j]]
    <3>1. PICK k \in DOMAIN Workers :
            /\ Is(k, "send") \/ Is(k, "gone")
            /\ \E s : TwoTodos(c, s, Workers[k], <<"gone">>)
      BY <1>0, <1>9, CloseDoneTypes
    <3>2. \A j \in DOMAIN Workers : j # k => todo'[Workers[j]] = todo[Workers[j]]
      BY <3>1, Names DEF TwoTodos
    <3> QED  BY <3>1, <3>2
  <2>3. ~putting[Workers[k]]  BY <1>3, <2>2, OneState DEF Flushes
  <2> QED  BY <1>2, <2>1, <2>2, <2>3, StillBlocked
<1>10. CASE Wrap(c)
  <2>1. UNCHANGED <<putting, pipe>>  BY <1>10 DEF Wrap
  <2>2. PICK k \in DOMAIN Workers :
          /\ Is(k, "new") /\ target' = [target EXCEPT ![Workers[k]] = out]
          /\ \A j \in DOMAIN Workers : j # k => todo'[Workers[j]] = todo[Workers[j]]
    BY <1>10, WrapTypes, Names DEF TwoTodos
  <2>3. ~putting[Workers[k]]  BY <1>3, <2>2, OneState DEF Flushes
  <2>4. \A j \in DOMAIN Workers : j # k => target'[Workers[j]] = target[Workers[j]]
    BY <2>2, Names DEF Types, Shapes
  <2> QED  BY <1>2, <2>1, <2>2, <2>3, <2>4, StillBlocked
<1> QED  BY <1>4, <1>5, <1>6, <1>7, <1>8, <1>9, <1>10

LEMMA PrintfKeepsBlocked ==
  ASSUME Types, Chain, Blocked, NEW c \in Clients,
         PrintfPuts(c) \/ PrintfOk(c) \/ PrintfFails(c)
  PROVE  Blocked'
<1>1. /\ mutex = c /\ mutex' = c /\ UNCHANGED <<out, target>> /\ c \in Procs
      /\ \E what \in Printfs : Doing(c, what)
  BY Names DEF PrintfPuts, PrintfOk, PrintfFails, Doing, client, logger, worker
<1>2. /\ \A d \in Clients : d # c => ~putting[d]
      /\ out = Base => ~putting[c]
  BY <1>1, OthersDoNotPut
<1>3. out \in Outputs /\ buf \in Seq(Lines)  BY DEF Types, Shapes
<1>4. \A k \in DOMAIN Workers :
        /\ Workers[k] \in Procs /\ Workers[k] # c /\ Workers[k] \in ToSet(Workers)
        /\ todo'[Workers[k]] = todo[Workers[k]]
  <2>1. CASE PrintfPuts(c)  BY <2>1, PrintfPutsTypes, Names
  <2>2. CASE PrintfOk(c)  BY <2>2, PrintfOkTypes, Names DEF OnlyTodo
  <2>3. CASE PrintfFails(c)  BY <2>3, PrintfFailsTypes, Names DEF OnlyTodo
  <2> QED  BY <2>1, <2>2, <2>3
<1>5. CASE PrintfPuts(c)
  <2>1. Puts(c, out, buf) /\ UNCHANGED todo  BY <1>5 DEF PrintfPuts
  <2>2. out \in ToSet(Workers) /\ OnlyPutting(c, TRUE) /\ OnlyData(out, buf)
    BY <1>1, <1>3, <2>1, PutsDoes DEF Types
  <2>3. PutInv'
    <3>1. ASSUME NEW d \in Clients, putting'[d]
          PROVE  out' # Base /\ \E what \in Printfs : Doing(d, what)'
      <4>1. d = c  BY <1>2, <2>2, <3>1, Names DEF OnlyPutting
      <4>2. out # Base  BY <2>2, Names
      <4> QED  BY <1>1, <2>1, <4>1, <4>2 DEF Doing
    <3>2. ASSUME NEW k \in DOMAIN Workers, putting'[Workers[k]]
          PROVE  target'[Workers[k]] # Base /\ \E f \in Flushes : Is(k, f)'
      <4>1. putting[Workers[k]]  BY <1>4, <2>2, <3>2 DEF OnlyPutting
      <4> QED  BY <1>1, <2>1, <4>1 DEF Blocked, PutInv, Is
    <3> QED  BY <3>1, <3>2 DEF PutInv
  <2>4. DataInv'
    <3> SUFFICES ASSUME NEW k \in DOMAIN Workers, pipe'[Workers[k]].data # << >>
                 PROVE  \/ \E d \in Clients : putting'[d] /\ out' = Workers[k]
                        \/ /\ k < Len(Workers) /\ putting'[Workers[k + 1]]
                           /\ target'[Workers[k + 1]] = Workers[k]
      BY DEF DataInv
    <3>1. CASE Workers[k] = out  BY <1>1, <2>2, <3>1 DEF OnlyPutting
    <3>2. CASE Workers[k] # out
      <4>1. pipe[Workers[k]].data # << >>  BY <1>4, <2>2, <3>2 DEF OnlyData
      <4>2. /\ k < Len(Workers) /\ putting[Workers[k + 1]] /\ target[Workers[k + 1]] = Workers[k]
        BY <3>2, <4>1 DEF Blocked, DataInv
      <4>3. k + 1 \in DOMAIN Workers  BY <4>2, Names
      <4> QED  BY <1>1, <1>4, <2>2, <4>2, <4>3 DEF OnlyPutting
    <3> QED  BY <3>1, <3>2
  <2> QED  BY <2>3, <2>4 DEF Blocked
<1>6. CASE PrintfOk(c) \/ PrintfFails(c)
  <2>1. WriteOk(c, out, buf) \/ WriteFails(c, out)  BY <1>6 DEF PrintfOk, PrintfFails
  <2>2. CASE UNCHANGED <<putting, pipe>> /\ ~putting[c]
    <3>1. \A d \in Clients : ~putting[d]  BY <1>2, <2>2
    <3> QED  BY <1>1, <1>4, <2>2, <3>1, StillBlocked
  <2>3. CASE /\ out \in ToSet(Workers) /\ putting[c] /\ OnlyPutting(c, FALSE)
             /\ pipe'[out].data = << >>
             /\ \A k \in DOMAIN Workers : Workers[k] # out =>
                  pipe'[Workers[k]].data = pipe[Workers[k]].data
    <3>1. \A d \in Clients : ~putting'[d]  BY <1>2, <2>3, Names DEF OnlyPutting
    <3>2. \A k \in DOMAIN Workers : putting'[Workers[k]] <=> putting[Workers[k]]
      BY <1>4, <2>3 DEF OnlyPutting
    <3>3. \A k \in DOMAIN Workers :
           pipe'[Workers[k]].data # << >> => pipe'[Workers[k]].data = pipe[Workers[k]].data
      BY <2>3
    <3> QED  BY <1>1, <1>4, <2>3, <3>1, <3>2, <3>3, BlockedKept
  <2>4. \/ UNCHANGED <<putting, pipe>> /\ ~putting[c]
        \/ /\ out \in ToSet(Workers) /\ putting[c] /\ OnlyPutting(c, FALSE)
           /\ pipe'[out].data = << >>
           /\ \A k \in DOMAIN Workers : Workers[k] # out =>
                pipe'[Workers[k]].data = pipe[Workers[k]].data
    <3>1. CASE WriteOk(c, out, buf)
      <4>1. /\ UNCHANGED pipe
            /\ \/ out = Base /\ UNCHANGED putting
               \/ /\ out \in ToSet(Workers) /\ putting[c] /\ pipe[out].data = << >>
                  /\ OnlyPutting(c, FALSE)
        BY <1>1, <1>3, <3>1, WriteOkDoes DEF Types
      <4> QED  BY <1>2, <4>1
    <3>2. CASE WriteFails(c, out)
      <4>1. \/ out = Base /\ UNCHANGED <<putting, pipe>>
            \/ ~putting[c] /\ UNCHANGED <<putting, pipe>>
            \/ /\ out \in ToSet(Workers) /\ putting[c] /\ OnlyPutting(c, FALSE)
               /\ OnlyData(out, << >>)
        BY <1>1, <1>3, <3>2, WriteFailsDoes DEF Types
      <4> QED  BY <1>2, <1>4, <4>1 DEF OnlyData
    <3> QED  BY <2>1, <3>1, <3>2
  <2> QED  BY <2>2, <2>3, <2>4
<1> QED  BY <1>5, <1>6

\* a worker that writes
LEMMA FlushesTo ==
  ASSUME Types, Chain, NEW k \in DOMAIN Workers, NEW f \in Flushes, Is(k, f),
         target[Workers[k]] # Base
  PROVE  ~Bottom(k) /\ k > 1 /\ k - 1 \in DOMAIN Workers /\ target[Workers[k]] = Workers[k - 1]
         /\ Live(k - 1)
<1>1. Live(k) /\ ~Is(k, "send") /\ ~Is(k, "new") /\ ~Is(k, "gone")
  BY OneState DEF Live, Flushes
<1>2. ~Bottom(k) /\ target[Workers[k]] = Workers[k - 1]  BY <1>1 DEF Chain, TargetInv
<1>3. k > 1 /\ k - 1 \in DOMAIN Workers /\ k - 1 < k  BY <1>2, Names DEF Bottom
<1>4. Live(k - 1)  BY <1>1, <1>2, <1>3 DEF Live, Bottom, Chain, OrderOfWorkers
<1> QED  BY <1>2, <1>3, <1>4

LEMMA FlushKeepsBlocked ==
  ASSUME Types, Chain, Blocked, NEW k \in DOMAIN Workers,
         FlushPuts(Workers[k]) \/ FlushOk(Workers[k]) \/ FlushFails(Workers[k])
  PROVE  Blocked'
<1> DEFINE w == Workers[k]
           d == target[w]
<1>0. /\ w \in Procs /\ w \in ToSet(Workers)
      /\ \A c \in Clients : c # w /\ c \in Procs
      /\ \A j \in DOMAIN Workers : /\ Workers[j] \in Procs /\ Workers[j] \in ToSet(Workers)
                                   /\ j # k => Workers[j] # w
  BY Names
<1>1. /\ WorkerOnly /\ UNCHANGED target
      /\ \E f \in Flushes : Is(k, f)
  BY DEF FlushPuts, FlushOk, FlushFails, At, Is, worker, Flushes
<1>2. /\ d \in Outputs /\ held[w] \in Lines  BY <1>0 DEF Types, Shapes
<1>3. <<held[w]>> \in Seq(Lines)  BY <1>2
<1>4. d = Base => ~putting[w]  BY DEF Blocked, PutInv
<1>5. /\ \A c \in Clients : todo'[c] = todo[c]
      /\ \A j \in DOMAIN Workers : j # k => todo'[Workers[j]] = todo[Workers[j]]
  <2>1. CASE FlushPuts(w)  BY <2>1, FlushPutsTypes
  <2>2. CASE FlushOk(w)  BY <1>0, <2>2, FlushOkTypes DEF GoesOn, OnlyTodo
  <2>3. CASE FlushFails(w)  BY <1>0, <2>3, FlushFailsTypes DEF GoesOn, OnlyTodo
  <2> QED  BY <2>1, <2>2, <2>3
<1>6. UNCHANGED <<out, mutex>>  BY <1>1 DEF WorkerOnly, client, logger
<1>7. CASE FlushPuts(w)
  <2>1. d \in ToSet(Workers) /\ OnlyPutting(w, TRUE) /\ OnlyData(d, <<held[w]>>) /\ UNCHANGED todo
    BY <1>7, FlushPutsTypes
  <2>2. k > 1 /\ k - 1 \in DOMAIN Workers /\ d = Workers[k - 1]
    BY <1>1, <2>1, FlushesTo, Names
  <2>3. PutInv'
    <3>1. ASSUME NEW c \in Clients, putting'[c]
          PROVE  out' # Base /\ \E what \in Printfs : Doing(c, what)'
      <4>1. putting[c]  BY <1>0, <2>1, <3>1 DEF OnlyPutting
      <4> QED  BY <1>6, <2>1, <4>1 DEF Blocked, PutInv, Doing
    <3>2. ASSUME NEW j \in DOMAIN Workers, putting'[Workers[j]]
          PROVE  target'[Workers[j]] # Base /\ \E f \in Flushes : Is(j, f)'
      <4>1. CASE j = k  BY <1>1, <2>1, <4>1, Names DEF Is
      <4>2. CASE j # k
        <5>1. putting[Workers[j]]  BY <1>0, <2>1, <3>2, <4>2 DEF OnlyPutting
        <5> QED  BY <1>1, <2>1, <5>1 DEF Blocked, PutInv, Is
      <4> QED  BY <4>1, <4>2
    <3> QED  BY <3>1, <3>2 DEF PutInv
  <2>4. DataInv'
    <3> SUFFICES ASSUME NEW j \in DOMAIN Workers, pipe'[Workers[j]].data # << >>
                 PROVE  \/ \E c \in Clients : putting'[c] /\ out' = Workers[j]
                        \/ /\ j < Len(Workers) /\ putting'[Workers[j + 1]]
                           /\ target'[Workers[j + 1]] = Workers[j]
      BY DEF DataInv
    <3>1. CASE j = k - 1
      <4>1. j + 1 = k /\ j < Len(Workers)  BY <2>2, <3>1, Names
      <4> QED  BY <1>1, <2>1, <2>2, <3>1, <4>1 DEF OnlyPutting
    <3>2. CASE j # k - 1
      <4>1. Workers[j] # d  BY <2>2, <3>2, Names
      <4>2. pipe[Workers[j]].data # << >>  BY <1>0, <2>1, <4>1 DEF OnlyData
      <4>3. CASE \E c \in Clients : putting[c] /\ out = Workers[j]
        BY <1>0, <1>6, <2>1, <4>3 DEF OnlyPutting
      <4>4. CASE /\ j < Len(Workers) /\ putting[Workers[j + 1]]
                 /\ target[Workers[j + 1]] = Workers[j]
        <5>1. j + 1 \in DOMAIN Workers  BY <4>4, Names
        <5>2. putting'[Workers[j + 1]]  BY <1>0, <2>1, <4>4, <5>1 DEF OnlyPutting
        <5> QED  BY <1>1, <4>4, <5>2
      <4> QED  BY <4>2, <4>3, <4>4 DEF Blocked, DataInv
    <3> QED  BY <3>1, <3>2
  <2> QED  BY <2>3, <2>4 DEF Blocked
<1>8. CASE FlushOk(w) \/ FlushFails(w)
  <2>1. WriteOk(w, d, <<held[w]>>) \/ WriteFails(w, d)  BY <1>8 DEF FlushOk, FlushFails
  <2>2. /\ ~putting'[w] /\ \A p \in Procs : p # w => (putting'[p] <=> putting[p])
        /\ putting[w] => pipe'[d].data = << >>
        /\ \A j \in DOMAIN Workers :
             pipe'[Workers[j]].data # << >> => pipe'[Workers[j]].data = pipe[Workers[j]].data
    <3>1. CASE WriteOk(w, d, <<held[w]>>)
      <4>1. /\ UNCHANGED pipe
            /\ \/ d = Base /\ UNCHANGED putting
               \/ /\ d \in ToSet(Workers) /\ putting[w] /\ pipe[d].data = << >>
                  /\ OnlyPutting(w, FALSE)
        BY <1>0, <1>2, <1>3, <3>1, WriteOkDoes DEF Types
      <4> QED  BY <1>4, <4>1 DEF OnlyPutting
    <3>2. CASE WriteFails(w, d)
      <4>1. \/ d = Base /\ UNCHANGED <<putting, pipe>>
            \/ ~putting[w] /\ UNCHANGED <<putting, pipe>>
            \/ /\ d \in ToSet(Workers) /\ putting[w] /\ OnlyPutting(w, FALSE)
               /\ OnlyData(d, << >>)
        BY <1>0, <1>2, <3>2, WriteFailsDoes DEF Types
      <4> QED  BY <1>0, <1>4, <4>1 DEF OnlyData, OnlyPutting
    <3> QED  BY <2>1, <3>1, <3>2
  <2>3. \A c \in Clients : putting'[c] <=> putting[c]  BY <1>0, <2>2
  <2>4. \A j \in DOMAIN Workers : j # k => (putting'[Workers[j]] <=> putting[Workers[j]])
    BY <1>0, <2>2
  <2> QED  BY <1>1, <1>5, <1>6, <2>2, <2>3, <2>4, BlockedKept
<1> QED  BY <1>7, <1>8

LEMMA WorkerKeepsBlocked ==
  ASSUME Types, Chain, Blocked, NEW k \in DOMAIN Workers, Worker(Workers[k])
  PROVE  Blocked'
<1> DEFINE w == Workers[k]
<1>0. /\ TargetInv
      /\ \A c \in Clients : c # w /\ c \in Procs
      /\ \A j \in DOMAIN Workers : /\ Workers[j] \in Procs /\ Workers[j] \in ToSet(Workers)
                                   /\ j # k => Workers[j] # w
  BY Names DEF Chain
<1>1. WorkerOnly /\ UNCHANGED <<target, out, mutex>>
  BY DEF Worker, StartScan, ReadPipe, PipeEnds, ScanLine, ScanFails, FlushPuts, FlushOk,
         FlushFails, WorkerHangsUp, WorkerCloses, WorkerOnly, worker, client, logger
<1>2. CASE FlushPuts(w) \/ FlushOk(w) \/ FlushFails(w)  BY <1>2, FlushKeepsBlocked
\* the steps of a worker that is not in a write
<1>3. CASE StartScan(w) \/ PipeEnds(w) \/ ScanLine(w) \/ ScanFails(w)
  <2>1. UNCHANGED <<putting, pipe>>
    BY <1>3 DEF StartScan, PipeEnds, ScanLine, ScanFails
  <2>2. PICK x, y : GoesOn(k, x, y) /\ x \in {"scan", "read"}
    BY <1>3, StartScanTypes, PipeEndsTypes, ScanLineTypes, ScanFailsTypes
  <2>3. ~putting[w]
    <3>1. \A f \in Flushes : ~Is(k, f)  BY <2>2, OneState DEF GoesOn, Flushes
    <3> QED  BY <3>1 DEF Blocked, PutInv
  <2>4. /\ \A c \in Clients : todo'[c] = todo[c]
        /\ \A j \in DOMAIN Workers : j # k => todo'[Workers[j]] = todo[Workers[j]]
    BY <1>0, <2>2 DEF GoesOn, OnlyTodo
  <2> QED  BY <1>1, <2>1, <2>3, <2>4, BlockedKept
<1>4. CASE ReadPipe(w)
  <2>1. UNCHANGED <<putting, todo>> /\ OnlyData(w, << >>)  BY <1>4, ReadPipeTypes DEF ReadPipe
  <2>2. \A j \in DOMAIN Workers :
          pipe'[Workers[j]].data # << >> => pipe'[Workers[j]].data = pipe[Workers[j]].data
    BY <1>0, <2>1 DEF OnlyData
  <2> QED  BY <1>1, <2>1, <2>2, BlockedKept
<1>5. CASE WorkerHangsUp(w)
  <2>1. /\ UNCHANGED <<putting, todo>>
        /\ \A j \in DOMAIN Workers : pipe'[Workers[j]].data = pipe[Workers[j]].data
    BY <1>0, <1>5, WorkerHangsUpTypes
  <2> QED  BY <1>1, <2>1, BlockedKept
<1>6. CASE WorkerCloses(w)
  <2>1. UNCHANGED putting /\ Is(k, "close")  BY <1>0, <1>6, WorkerClosesTypes
  <2>2. \A j \in DOMAIN Workers : pipe'[Workers[j]].data = pipe[Workers[j]].data
    <3>1. /\ pipe' = [pipe EXCEPT ![w].rclosed = TRUE] /\ pipe \in [ToSet(Workers) -> Pipes]
      BY <1>6 DEF WorkerCloses, Types, Shapes, Pipes
    <3> QED  BY <1>0, <3>1, RClosedSet
  <2>3. /\ \A c \in Clients : todo'[c] = todo[c]
        /\ \A j \in DOMAIN Workers :
             putting[Workers[j]] => todo'[Workers[j]] = todo[Workers[j]]
    <3>1. \A j \in DOMAIN Workers : putting[Workers[j]] => ~Is(j, "close") /\ ~Is(j, "send") /\ ~Is(j, "gone")
      BY OneState DEF Blocked, PutInv, Flushes
    <3>2. CASE GoesOn(k, "close", "send")
      BY <1>0, <2>1, <3>1, <3>2 DEF GoesOn, OnlyTodo
    <3>3. CASE /\ k > 1 /\ (Is(k - 1, "send") \/ Is(k - 1, "gone"))
               /\ TwoTodos(w, <<"send">>, Workers[k - 1], <<"gone">>)
      <4>1. PICK i \in DOMAIN Workers : i = k - 1  BY <3>3, Names
      <4>2. /\ ~putting[w] /\ ~putting[Workers[i]]  BY <2>1, <3>1, <3>3, <4>1
      <4>3. TwoTodos(w, <<"send">>, Workers[i], <<"gone">>)  BY <3>3, <4>1
      <4>4. \A c \in Clients : c # Workers[i]  BY Names
      <4>5. \A j \in DOMAIN Workers : j # i => Workers[j] # Workers[i]  BY Names
      <4> QED  BY <1>0, <4>2, <4>3, <4>4, <4>5 DEF TwoTodos
    <3> QED  BY <1>0, <1>6, <3>2, <3>3, WorkerClosesTypes
  <2> QED  BY <1>1, <2>1, <2>2, <2>3, BlockedKept
<1> QED  BY <1>2, <1>3, <1>4, <1>5, <1>6 DEF Worker

LEMMA StepKeepsBlocked ==
  ASSUME Types, Chain, Blocked, [Next]_vars PROVE Blocked'
<1>1. CASE \E c \in Clients : Client(c)
  BY <1>1, ClientsKeepBlocked, PrintfKeepsBlocked DEF Client
<1>2. CASE \E w \in ToSet(Workers) : Worker(w)
  <2>1. PICK k \in DOMAIN Workers : Worker(Workers[k])  BY <1>2, Names
  <2> QED  BY <2>1, WorkerKeepsBlocked
<1>3. CASE Break \/ UNCHANGED vars
  <2>1. UNCHANGED <<putting, pipe, target, todo, out, mutex>>
    BY <1>3 DEF Break, vars, worker, client, logger
  <2> QED  BY <2>1, BlockedKept
<1> QED  BY <1>1, <1>2, <1>3 DEF Next

LEMMA InitBlocked == Init => Blocked
<1> SUFFICES ASSUME Init PROVE Blocked  OBVIOUS
<1>1. \A p \in Procs : ~putting[p]  BY DEF Init, Procs
<1>2. \A k \in DOMAIN Workers : pipe[Workers[k]].data = << >>  BY Names DEF Init
<1> QED  BY <1>1, <1>2, Names DEF Blocked, PutInv, DataInv

\* The log is used by one client at a time, it has a wrapper only while there is
\* something to go back to, and nothing is in a pipe whose writer has gone away:
\* Write of an io.Pipe returns when its data was read, or takes it back.
THEOREM TypesHold == Spec => []TypeOK
<1>1. Types /\ Blocked => TypeOK
  <2> SUFFICES ASSUME Types, Blocked PROVE TypeOK  OBVIOUS
  <2>1. /\ mutex \in Clients \union {None}
        /\ out \in Outputs /\ fallback \in {Base, None} /\ (fallback = None => out = Base)
        /\ exitCode \in 0 .. 2 /\ code.answer \in 0 .. 2
    BY DEF Types, Shapes
  <2>2. \A c \in Clients : todo[c] # << >> => mutex = c
    BY DEF Types, CallsAndStates, CallInv
  <2>3. ASSUME NEW w \in ToSet(Workers), pipe[w].data # << >>
        PROVE  \E p \in DOMAIN putting : putting[p]
    <3>1. DOMAIN putting = Procs  BY DEF Types, Shapes
    <3>2. PICK k \in DOMAIN Workers : w = Workers[k]  BY Names
    <3>3. CASE \E c \in Clients : putting[c]  BY <3>1, <3>3, Names
    <3>4. CASE k < Len(Workers) /\ putting[Workers[k + 1]]
      <4>1. k + 1 \in DOMAIN Workers  BY <3>4, Names
      <4> QED  BY <3>1, <3>4, <4>1, Names
    <3> QED  BY <2>3, <3>2, <3>3, <3>4 DEF Blocked, DataInv
  <2> QED  BY <2>1, <2>2, <2>3 DEF TypeOK
<1> QED  BY <1>1, InitTypes, InitBlocked, StepKeepsTypes, StepKeepsBlocked, PTL DEF Spec
----------------------------------------------------------------------------
(* An error of a worker is told.                                           *)

Telling == {"report", "code 1", "code 2"}

LEMMA Tells ==
  ASSUME NEW s, NEW n \in Nat, Len(s) = n, NEW i \in 1 .. n, s[i] \in Telling PROVE WillTell(s)
BY DEF WillTell, Telling

LEMMA TellsTail ==
  ASSUME NEW s, WellFormed(s), s # << >>
  PROVE  WillTell(s) /\ Head(s) \notin Telling => WillTell(Tail(s))
<1>1. s \in Seq(Steps)  BY DEF WellFormed
<1>2. PICK n \in Nat : n = Len(s) /\ n >= 1  BY <1>1
<1>3. Head(s) = s[1] /\ Tail(s) \in Seq(Steps)  BY <1>1, HeadTailProperties
<1>4. PICK t \in Seq(Steps) : t = Tail(s)  BY <1>3
<1>5. Len(t) = n - 1 /\ \A i \in 1 .. n - 1 : t[i] = s[i + 1]
  BY <1>1, <1>2, <1>4, HeadTailProperties
<1>6. ASSUME WillTell(s), Head(s) \notin Telling PROVE WillTell(Tail(s))
  <2>1. PICK i \in 1 .. n : s[i] \in Telling  BY <1>2, <1>6 DEF WillTell, Telling
  <2>2. i # 1  BY <1>3, <1>6, <2>1
  <2>3. i - 1 \in 1 .. n - 1 /\ (i - 1) + 1 = i  BY <1>2, <2>1, <2>2
  <2>4. t[i - 1] \in Telling  BY <1>5, <2>1, <2>3
  <2>5. WillTell(t)  BY <1>5, <2>3, <2>4 DEF WillTell, Telling
  <2> QED  BY <1>4, <2>5
<1> QED  BY <1>6

LEMMA TellsPrefix ==
  ASSUME NEW s \in Seq(Steps), s # << >>, NEW p \in Seq(Steps)
  PROVE  WillTell(p) \/ WillTell(Tail(s)) => WillTell(p \o Tail(s))
<1>1. PICK t \in Seq(Steps) : t = Tail(s)  BY HeadTailProperties
<1>2. PICK u \in Seq(Steps) : u = p \o t  BY ConcatProperties
<1>3. PICK n \in Nat, m \in Nat : n = Len(p) /\ m = Len(t)  OBVIOUS
<1>4. /\ Len(u) = n + m /\ \A i \in 1 .. n : u[i] = p[i]
      /\ \A i \in 1 .. m : u[n + i] = t[i]
  BY <1>1, <1>2, <1>3, ConcatProperties
<1>5. CASE WillTell(p)
  <2>1. PICK i \in 1 .. n : p[i] \in Telling  BY <1>3, <1>5 DEF WillTell, Telling
  <2>2. u[i] \in Telling /\ i \in 1 .. n + m  BY <1>3, <1>4, <2>1
  <2>3. WillTell(u)  BY <1>4, <2>2 DEF WillTell, Telling
  <2> QED  BY <1>1, <1>2, <2>3
<1>6. CASE WillTell(Tail(s))
  <2>1. WillTell(t)  BY <1>1, <1>6
  <2>2. PICK i \in 1 .. m : t[i] \in Telling  BY <1>3, <2>1 DEF WillTell, Telling
  <2>3. u[n + i] \in Telling  BY <1>4, <2>2
  <2>4. n + i \in 1 .. n + m /\ n + m \in Nat  BY <1>3, <2>2
  <2>5. WillTell(u)  BY <1>4, <2>3, <2>4, Tells
  <2> QED  BY <1>1, <1>2, <2>5
<1> QED  BY <1>5, <1>6

\* what reportError closes, it closes before it logs the error
LEMMA QuietTells ==
  ASSUME NEW s, WellFormed(s), s # << >>
  PROVE  Head(s) = "close quietly" => WillTell(Tail(s))
<1>1. s \in Seq(Steps)  BY DEF WellFormed
<1>2. PICK n \in Nat : n = Len(s) /\ n >= 1  BY <1>1
<1>3. Head(s) = s[1] /\ Tail(s) \in Seq(Steps)  BY <1>1, HeadTailProperties
<1>4. /\ \A i \in 1 .. n - 1 : MayFollow(s[i], s[i + 1])
      /\ s[n] \notin Unended
  BY <1>2 DEF WellFormed
<1>5. \A i \in 1 .. n : s[i] \in Unended => i + 1 \in 1 .. n /\ MayFollow(s[i], s[i + 1])
  BY <1>2, <1>4
<1>6. ASSUME Head(s) = "close quietly" PROVE WillTell(Tail(s))
  <2>1. 2 \in 1 .. n /\ s[2] = "log error"
    <3>1. 1 \in 1 .. n /\ 1 + 1 = 2  BY <1>2
    <3>2. s[1] = "close quietly"  BY <1>3, <1>6
    <3> QED  BY <1>5, <3>1, <3>2 DEF Unended, MayFollow
  <2>2. 3 \in 1 .. n /\ s[3] = "errorf"
    <3>1. 2 + 1 = 3  OBVIOUS
    <3> QED  BY <1>5, <2>1, <3>1 DEF Unended, MayFollow
  <2>3. 4 \in 1 .. n /\ s[4] \in Telling
    <3>1. 3 + 1 = 4  OBVIOUS
    <3> QED  BY <1>5, <2>2, <3>1 DEF Unended, MayFollow, Telling
  <2>4. PICK t \in Seq(Steps) : t = Tail(s)  BY <1>3
  <2>5. Len(t) = n - 1 /\ \A i \in 1 .. n - 1 : t[i] = s[i + 1]
    BY <1>1, <1>2, <2>4, HeadTailProperties
  <2>6. 3 \in 1 .. n - 1 /\ 3 + 1 = 4  BY <1>2, <2>3
  <2>7. t[3] \in Telling  BY <2>3, <2>5, <2>6
  <2>8. WillTell(t)  BY <2>5, <2>6, <2>7 DEF WillTell, Telling
  <2> QED  BY <2>4, <2>8
<1> QED  BY <1>6

LEMMA SomeTell ==
  /\ WillTell(<<"report">>) /\ WillTell(Report) /\ WillTell(<<"close quietly">> \o Report)
  /\ ~WillTell(<< >>)
  /\ <<"report">> \in Seq(Steps) /\ <<"close">> \in Seq(Steps) /\ Report \in Seq(Steps)
  /\ <<"close quietly">> \o Report \in Seq(Steps)
<1>0. /\ "report" \in Steps /\ "close" \in Steps /\ "close quietly" \in Steps
      /\ "log error" \in Steps /\ "errorf" \in Steps /\ "code 2" \in Steps
  BY DEF Steps
<1>1. <<"report">> \in Seq(Steps) /\ <<"close">> \in Seq(Steps) /\ Report \in Seq(Steps)
  BY <1>0, Tuples DEF Report
<1>2. PICK q \in Seq(Steps) : q = <<"close quietly", "log error", "errorf", "code 2">>
  BY <1>0, Tuples
<1>3. q = <<"close quietly">> \o Report  BY <1>2, SomeSteps DEF Report
<1>4. WillTell(q)
  <2>1. Len(q) = 4 /\ q[4] = "code 2"  BY <1>2
  <2>2. 4 \in Nat /\ 4 \in 1 .. 4  OBVIOUS
  <2>3. q[4] \in Telling  BY <2>1 DEF Telling
  <2> QED  BY <2>1, <2>2, <2>3, Tells
<1>5. WillTell(Report)
  <2>1. Len(Report) = 3 /\ Report[3] = "code 2"  BY DEF Report
  <2>2. 3 \in Nat /\ 3 \in 1 .. 3  OBVIOUS
  <2>3. Report[3] \in Telling  BY <2>1 DEF Telling
  <2> QED  BY <2>1, <2>2, <2>3, Tells
<1>6. WillTell(<<"report">>)
  <2>1. PICK r : r = <<"report">>  OBVIOUS
  <2>2. Len(r) = 1 /\ r[1] = "report"  BY <2>1
  <2>3. 1 \in Nat /\ 1 \in 1 .. 1 /\ r[1] \in Telling  BY <2>2 DEF Telling
  <2>4. WillTell(r)  BY <2>2, <2>3, Tells
  <2> QED  BY <2>1, <2>4
<1>7. ~WillTell(<< >>)
  <2>1. Len(<< >>) = 0  OBVIOUS
  <2> QED  BY <2>1 DEF WillTell
<1> QED  BY <1>1, <1>2, <1>3, <1>4, <1>5, <1>6, <1>7

Somebody == \E c \in Clients : WillTell(todo[c])
LEMMA ErrorKept ==
  ASSUME ErrorInv, exitCode # 0 => exitCode' # 0,
         Somebody => Somebody' \/ exitCode' # 0,
         \A k \in DOMAIN Workers : Live(k) /\ werr[Workers[k]] =>
           Somebody' \/ \E j \in DOMAIN Workers : Live(j)' /\ werr'[Workers[j]],
         \A k \in DOMAIN Workers : werr'[Workers[k]] /\ ~werr[Workers[k]] => Live(k)'
  PROVE  ErrorInv'
BY DEF ErrorInv, Somebody

\* one client goes on to s, and no worker but perhaps one that starts
LEMMA ClientKeepsError ==
  ASSUME Types, ErrorInv, NEW c \in Clients, UNCHANGED werr,
         \A d \in Clients : d # c => todo'[d] = todo[d],
         exitCode # 0 => exitCode' # 0,
         WillTell(todo[c]) => WillTell(todo'[c]) \/ exitCode' # 0,
         \A k \in DOMAIN Workers : Live(k) => Live(k)'
  PROVE  ErrorInv'
<1>1. Somebody => Somebody' \/ exitCode' # 0  BY DEF Somebody
<1> QED  BY <1>1, ErrorKept

\* a client that goes on leaves the workers alone
LEMMA OnlyOneGoesOn ==
  ASSUME Types, NEW c \in Clients, NEW s, OnlyTodo(c, s)
  PROVE  /\ todo'[c] = s
         /\ \A d \in Clients : d # c => todo'[d] = todo[d]
         /\ \A k \in DOMAIN Workers : /\ todo'[Workers[k]] = todo[Workers[k]]
                                      /\ Live(k)' <=> Live(k)
<1>1. /\ todo'[c] = s
      /\ \A d \in Clients : d # c => todo'[d] = todo[d]
      /\ \A k \in DOMAIN Workers : todo'[Workers[k]] = todo[Workers[k]]
  BY Names DEF OnlyTodo
<1> QED  BY <1>1 DEF Live, Is

LEMMA ClientTells ==
  ASSUME Types, Chain, ErrorInv, NEW c \in Clients,
         \/ Lock(c) \/ Unlock(c) \/ LogLine(c) \/ PrintfPuts(c) \/ PrintfOk(c) \/ PrintfFails(c)
         \/ StartUnwrap(c) \/ StartReport(c) \/ HangUp(c) \/ SetCode(c) \/ Answer(c)
  PROVE  ErrorInv'
<1>0. ClosingInv /\ WellFormed(todo[c])  BY DEF Chain, Types, CallsAndStates, CallInv
<1>1. UNCHANGED werr
  BY DEF Lock, Unlock, LogLine, PrintfPuts, PrintfOk, PrintfFails, StartUnwrap, StartReport, HangUp,
         SetCode, Answer, worker
<1>2. CASE Lock(c)
  <2>1. UNCHANGED exitCode  BY <1>2 DEF Lock, logger
  <2>2. todo[c] = << >>  BY <1>2, Names DEF Lock, Types, CallsAndStates, CallInv
  <2>3. ~WillTell(todo[c])  BY <2>2, SomeTell
  <2>4. OnlyTodo(c, Body(Head(calls[c])))  BY <1>2, LockTypes
  <2> QED  BY <1>1, <2>1, <2>3, <2>4, OnlyOneGoesOn, ClientKeepsError
<1>3. CASE Unlock(c) \/ PrintfPuts(c) \/ HangUp(c)
  <2>1. UNCHANGED <<todo, exitCode>>
    BY <1>0, <1>3, PrintfPutsTypes, HangUpTypes DEF Unlock, PrintfPuts, HangUp, logger
  <2>2. \A k \in DOMAIN Workers : Live(k) => Live(k)'  BY <2>1 DEF Live, Is
  <2> QED  BY <1>1, <2>1, <2>2, ClientKeepsError
<1>4. CASE LogLine(c) \/ PrintfOk(c) \/ Answer(c)
  <2>1. UNCHANGED exitCode  BY <1>4 DEF LogLine, PrintfOk, Answer, logger
  <2>2. OnlyTodo(c, Tail(todo[c]))  BY <1>4, LogLineTypes, PrintfOkTypes, AnswerTypes
  <2>3. todo[c] # << >> /\ Head(todo[c]) \notin Telling
    <3>1. CASE LogLine(c)  BY <3>1 DEF LogLine, Doing, Telling
    <3>2. CASE PrintfOk(c)  BY <3>2 DEF PrintfOk, Doing, Printfs, Telling
    <3>3. CASE Answer(c)  BY <3>3 DEF Answer, Doing, Telling
    <3> QED  BY <1>4, <3>1, <3>2, <3>3
  <2>4. WillTell(todo[c]) => WillTell(Tail(todo[c]))  BY <1>0, <2>3, TellsTail
  <2> QED  BY <1>1, <2>1, <2>2, <2>4, OnlyOneGoesOn, ClientKeepsError
<1>5. CASE SetCode(c)
  <2>1. OnlyTodo(c, Tail(todo[c])) /\ exitCode' # 0  BY <1>5, SetCodeTypes
  <2> QED  BY <1>1, <2>1, OnlyOneGoesOn, ClientKeepsError
<1>6. CASE PrintfFails(c)
  <2>1. UNCHANGED exitCode /\ todo[c] # << >>  BY <1>6 DEF PrintfFails, logger, Doing
  <2>2. todo[c] \in Seq(Steps)  BY <1>0 DEF WellFormed
  <2>3. CASE OnlyTodo(c, <<"report">> \o Tail(todo[c]))
    <3>1. WillTell(<<"report">> \o Tail(todo[c]))  BY <2>1, <2>2, SomeTell, TellsPrefix
    <3> QED  BY <1>1, <2>1, <2>3, <3>1, OnlyOneGoesOn, ClientKeepsError
  <2>4. CASE Doing(c, "errorf") /\ OnlyTodo(c, Tail(todo[c]))
    <3>1. Head(todo[c]) \notin Telling  BY <2>4 DEF Doing, Telling
    <3>2. WillTell(todo[c]) => WillTell(Tail(todo[c]))  BY <1>0, <2>1, <3>1, TellsTail
    <3> QED  BY <1>1, <2>1, <2>4, <3>2, OnlyOneGoesOn, ClientKeepsError
  <2> QED  BY <1>6, <2>3, <2>4, PrintfFailsTypes
<1>7. CASE StartUnwrap(c)
  <2>1. UNCHANGED exitCode /\ todo[c] # << >> /\ Head(todo[c]) \notin Telling
    BY <1>7 DEF StartUnwrap, Doing, Telling
  <2>2. todo[c] \in Seq(Steps)  BY <1>0 DEF WellFormed
  <2>3. WillTell(todo[c]) => WillTell(Tail(todo[c]))  BY <1>0, <2>1, TellsTail
  <2>4. CASE OnlyTodo(c, Tail(todo[c]))
    BY <1>1, <2>1, <2>3, <2>4, OnlyOneGoesOn, ClientKeepsError
  <2>5. CASE OnlyTodo(c, <<"close">> \o Tail(todo[c]))
    <3>1. WillTell(todo[c]) => WillTell(<<"close">> \o Tail(todo[c]))
      BY <2>1, <2>2, <2>3, SomeTell, TellsPrefix
    <3> QED  BY <1>1, <2>1, <2>5, <3>1, OnlyOneGoesOn, ClientKeepsError
  <2> QED  BY <1>7, <2>4, <2>5, StartUnwrapTypes
<1>8. CASE StartReport(c)
  <2>1. UNCHANGED exitCode /\ todo[c] # << >>  BY <1>8 DEF StartReport, Doing
  <2>2. todo[c] \in Seq(Steps)  BY <1>0 DEF WellFormed
  <2>3. PICK p \in Seq(Steps) : WillTell(p) /\ OnlyTodo(c, p \o Tail(todo[c]))
    BY <1>8, StartReportTypes, SomeTell
  <2>4. WillTell(p \o Tail(todo[c]))  BY <2>1, <2>2, <2>3, TellsPrefix
  <2> QED  BY <1>1, <2>1, <2>3, <2>4, OnlyOneGoesOn, ClientKeepsError
<1> QED  BY <1>2, <1>3, <1>4, <1>5, <1>6, <1>7, <1>8

LEMMA CloseDoneTells ==
  ASSUME Types, Chain, ErrorInv, NEW c \in Clients, CloseDone(c)
  PROVE  ErrorInv'
<1>0. ClosingInv /\ WellFormed(todo[c])  BY DEF Chain, Types, CallsAndStates, CallInv
<1>1. UNCHANGED <<werr, exitCode>> /\ todo[c] # << >> /\ Head(todo[c]) \notin Telling /\ IsClosing(c)
  BY DEF CloseDone, worker, logger, Doing, Closes, Telling, IsClosing
<1>2. todo[c] \in Seq(Steps)  BY <1>0 DEF WellFormed
<1>3. WillTell(todo[c]) => WillTell(Tail(todo[c]))  BY <1>0, <1>1, TellsTail
<1>4. PICK k \in DOMAIN Workers :
        /\ Top(k) /\ Is(k, "send")
        /\ \/ TwoTodos(c, <<"report">> \o Tail(todo[c]), Workers[k], <<"gone">>)
           \/ /\ Doing(c, "close quietly") \/ ~werr[Workers[k]]
              /\ TwoTodos(c, Tail(todo[c]), Workers[k], <<"gone">>)
  BY <1>0, CloseDoneTypes DEF Top, Live
<1>5. \A j \in DOMAIN Workers : Live(j) => j = k
  <2>1. \A j \in DOMAIN Workers : (j < k => Is(j, "gone")) /\ (j > k => Is(j, "new"))
    BY <1>1, <1>4, ClosedIsLast
  <2>2. \A j \in DOMAIN Workers : j < k \/ j = k \/ j > k  BY Names
  <2> QED  BY <2>1, <2>2 DEF Live
<1>6. \A s : TwoTodos(c, s, Workers[k], <<"gone">>) =>
              todo'[c] = s /\ \A d \in Clients : d # c => todo'[d] = todo[d]
  BY Names DEF TwoTodos
<1>7. CASE TwoTodos(c, <<"report">> \o Tail(todo[c]), Workers[k], <<"gone">>)
  <2>1. WillTell(<<"report">> \o Tail(todo[c]))  BY <1>1, <1>2, SomeTell, TellsPrefix
  <2>2. Somebody'  BY <1>6, <1>7, <2>1 DEF Somebody
  <2> QED  BY <1>1, <2>2, ErrorKept
<1>8. CASE /\ Doing(c, "close quietly") \/ ~werr[Workers[k]]
           /\ TwoTodos(c, Tail(todo[c]), Workers[k], <<"gone">>)
  <2>1. todo'[c] = Tail(todo[c]) /\ \A d \in Clients : d # c => todo'[d] = todo[d]
    BY <1>6, <1>8
  <2>2. Somebody => Somebody'  BY <1>3, <2>1 DEF Somebody
  <2>3. Doing(c, "close quietly") => Somebody'
    <3>1. Doing(c, "close quietly") => WillTell(Tail(todo[c]))  BY <1>0, QuietTells DEF Doing
    <3> QED  BY <2>1, <3>1 DEF Somebody
  <2>4. \A j \in DOMAIN Workers : Live(j) /\ werr[Workers[j]] => Somebody'
    BY <1>5, <1>8, <2>3
  <2> QED  BY <1>1, <2>2, <2>4, ErrorKept
<1> QED  BY <1>4, <1>7, <1>8

LEMMA WrapTells ==
  ASSUME Types, ErrorInv, NEW c \in Clients, Wrap(c) PROVE ErrorInv'
<1>0. WellFormed(todo[c])  BY DEF Types, CallsAndStates, CallInv
<1>1. UNCHANGED <<werr, exitCode>> /\ todo[c] # << >> /\ Head(todo[c]) \notin Telling
  BY DEF Wrap, Doing, Telling
<1>2. WillTell(todo[c]) => WillTell(Tail(todo[c]))  BY <1>0, <1>1, TellsTail
<1>3. PICK k \in DOMAIN Workers : TwoTodos(c, Tail(todo[c]), Workers[k], <<"scan">>)
  BY WrapTypes
<1>4. /\ todo'[c] = Tail(todo[c])
      /\ \A d \in Clients : d # c => todo'[d] = todo[d]
      /\ todo'[Workers[k]] = <<"scan">>
      /\ \A j \in DOMAIN Workers : j # k => todo'[Workers[j]] = todo[Workers[j]]
  BY <1>3, Names DEF TwoTodos
<1>5. \A j \in DOMAIN Workers : Live(j) => Live(j)'
  BY <1>4, OneChanged DEF Live
<1> QED  BY <1>1, <1>2, <1>4, <1>5, ClientKeepsError

LEMMA WorkerTells ==
  ASSUME Types, Chain, ErrorInv, NEW k \in DOMAIN Workers, Worker(Workers[k])
  PROVE  ErrorInv'
<1> DEFINE w == Workers[k]
<1>0. TargetInv  BY DEF Chain
<1>1. WorkerOnly /\ UNCHANGED exitCode
  BY DEF Worker, StartScan, ReadPipe, PipeEnds, ScanLine, ScanFails, FlushPuts, FlushOk,
         FlushFails, WorkerHangsUp, WorkerCloses, WorkerOnly, logger
<1>2. \A c \in Clients : todo'[c] = todo[c]
  <2>1. CASE \E x, y : GoesOn(k, x, y)  BY <2>1, Names DEF GoesOn, OnlyTodo
  <2>2. CASE UNCHANGED todo  BY <2>2
  <2>3. CASE WorkerCloses(w)
    BY <1>0, <2>3, WorkerClosesTypes, Names DEF GoesOn, OnlyTodo, TwoTodos
  <2> QED
    BY <2>1, <2>2, <2>3, StartScanTypes, ReadPipeTypes, PipeEndsTypes, ScanLineTypes, ScanFailsTypes,
       FlushPutsTypes, FlushOkTypes, FlushFailsTypes, WorkerHangsUpTypes DEF Worker
<1>3. Somebody => Somebody'  BY <1>2 DEF Somebody
<1>4. ASSUME NEW x, NEW y, GoesOn(k, x, y), y # "gone", y # "new"
      PROVE  Live(k)' /\ \A j \in DOMAIN Workers : Live(j) => Live(j)'
  <2>1. /\ todo'[w] = <<y>>
        /\ \A j \in DOMAIN Workers : j # k => todo'[Workers[j]] = todo[Workers[j]]
    BY <1>4, Names DEF GoesOn, OnlyTodo
  <2> QED  BY <1>4, <2>1, OneChanged DEF Live
<1>5. CASE StartScan(w) \/ PipeEnds(w) \/ ScanLine(w) \/ FlushOk(w)
  <2>1. UNCHANGED werr  BY <1>5 DEF StartScan, PipeEnds, ScanLine, FlushOk, worker
  <2>2. \A j \in DOMAIN Workers : Live(j) => Live(j)'
    BY <1>4, <1>5, StartScanTypes, PipeEndsTypes, ScanLineTypes, FlushOkTypes
  <2> QED  BY <1>1, <1>3, <2>1, <2>2, ErrorKept
<1>6. CASE ReadPipe(w) \/ FlushPuts(w) \/ WorkerHangsUp(w)
  <2>1. UNCHANGED werr  BY <1>6 DEF ReadPipe, FlushPuts, WorkerHangsUp, worker
  <2>2. UNCHANGED todo  BY <1>6, ReadPipeTypes, FlushPutsTypes, WorkerHangsUpTypes
  <2>3. \A j \in DOMAIN Workers : Live(j) => Live(j)'  BY <2>2 DEF Live, Is
  <2> QED  BY <1>1, <1>3, <2>1, <2>3, ErrorKept
<1>7. CASE ScanFails(w) \/ FlushFails(w)
  <2>1. werr'[w] /\ ErrorsStay(k)  BY <1>7, ScanFailsTypes, FlushFailsTypes
  <2>2. Live(k)' /\ \A j \in DOMAIN Workers : Live(j) => Live(j)'
    BY <1>4, <1>7, ScanFailsTypes, FlushFailsTypes
  <2> QED  BY <1>1, <1>3, <2>1, <2>2, ErrorKept DEF ErrorsStay
<1>8. CASE WorkerCloses(w)
  <2>1. /\ ErrorsStay(k) /\ (werr[w] => werr'[w])
        /\ \/ GoesOn(k, "close", "send")
           \/ /\ k > 1 /\ (Is(k - 1, "send") \/ Is(k - 1, "gone"))
              /\ TwoTodos(w, <<"send">>, Workers[k - 1], <<"gone">>)
              /\ werr'[w] <=> werr[w] \/ (Is(k - 1, "send") /\ werr[Workers[k - 1]])
    BY <1>0, <1>8, WorkerClosesTypes
  <2>2. CASE GoesOn(k, "close", "send")
    <3>1. Live(k)' /\ \A j \in DOMAIN Workers : Live(j) => Live(j)'  BY <1>4, <2>2
    <3> QED  BY <1>1, <1>3, <2>1, <3>1, ErrorKept DEF ErrorsStay
  <2>3. CASE /\ k > 1 /\ (Is(k - 1, "send") \/ Is(k - 1, "gone"))
             /\ TwoTodos(w, <<"send">>, Workers[k - 1], <<"gone">>)
             /\ werr'[w] <=> werr[w] \/ (Is(k - 1, "send") /\ werr[Workers[k - 1]])
    <3>1. PICK i \in DOMAIN Workers : i = k - 1 /\ i # k  BY <2>3, Names
    <3>2. /\ todo'[w] = <<"send">>
          /\ \A j \in DOMAIN Workers : j # k /\ j # i => todo'[Workers[j]] = todo[Workers[j]]
      BY <2>3, <3>1, Names DEF TwoTodos
    <3>3. Live(k)'
      <4>1. <<"send">> # <<"new">> /\ <<"send">> # <<"gone">>  OBVIOUS
      <4> QED  BY <3>2, <4>1 DEF Live, Is
    <3>4. \A j \in DOMAIN Workers : j # i /\ Live(j) => Live(j)'  BY <3>2, <3>3 DEF Live, Is
    <3>5. Live(i) /\ werr[Workers[i]] => werr'[w]  BY <2>3, <3>1 DEF Live
    <3>6. \A j \in DOMAIN Workers : Live(j) /\ werr[Workers[j]] =>
            \E g \in DOMAIN Workers : Live(g)' /\ werr'[Workers[g]]
      BY <2>1, <3>3, <3>4, <3>5 DEF ErrorsStay
    <3>7. \A j \in DOMAIN Workers : werr'[Workers[j]] /\ ~werr[Workers[j]] => Live(j)'
      BY <2>1, <3>3 DEF ErrorsStay
    <3> QED  BY <1>1, <1>3, <3>6, <3>7, ErrorKept
  <2> QED  BY <2>1, <2>2, <2>3
<1> QED  BY <1>5, <1>6, <1>7, <1>8 DEF Worker

LEMMA StepTells ==
  ASSUME Types, Chain, ErrorInv, [Next]_vars PROVE ErrorInv'
<1>1. CASE \E c \in Clients : Client(c)
  BY <1>1, ClientTells, CloseDoneTells, WrapTells DEF Client
<1>2. CASE \E w \in ToSet(Workers) : Worker(w)
  <2>1. PICK k \in DOMAIN Workers : Worker(Workers[k])  BY <1>2, Names
  <2> QED  BY <2>1, WorkerTells
<1>3. CASE Break \/ UNCHANGED vars
  <2>1. UNCHANGED <<todo, werr, exitCode>>  BY <1>3 DEF Break, vars, worker, client, logger
  <2> QED  BY <2>1 DEF ErrorInv, Live, Is
<1> QED  BY <1>1, <1>2, <1>3 DEF Next

\* If a worker has failed, the program exits with an error once the log is
\* unwrapped (exitCode of logger.go): a worker inside of another one tells it in
\* its own error, and Unwrap reports what Close answers, or has an error already.
THEOREM FailuresTold == Spec => []FailuresAreReported
<1>1. Init => ErrorInv
  <2>1. Init => \A k \in DOMAIN Workers : ~werr[Workers[k]]  BY Names DEF Init
  <2> QED  BY <2>1 DEF ErrorInv
<1>2. Types /\ Chain /\ ErrorInv => FailuresAreReported
  <2> SUFFICES ASSUME Types, Chain, ErrorInv, mutex = None, fallback = None,
                      NEW w \in DOMAIN werr, werr[w]
               PROVE  exitCode # 0
    BY DEF FailuresAreReported
  <2>1. PICK k \in DOMAIN Workers : w = Workers[k]  BY Names DEF Types, Shapes
  <2>2. \A c \in Clients : todo[c] = << >>  BY Names DEF Types, CallsAndStates, CallInv
  <2>3. \A c \in Clients : ~WillTell(todo[c])  BY <2>2, SomeTell
  <2>4. \A c \in Clients : ~IsClosing(c)  BY <2>2 DEF IsClosing, Doing
  <2>5. \A j \in DOMAIN Workers : ~Live(j)  BY <2>4 DEF Chain, LiveInv
  <2> QED  BY <2>1, <2>3, <2>5 DEF ErrorInv
<1> QED  BY <1>1, <1>2, InitTypes, StepKeepsTypes, StepTells, PTL DEF Spec
=============================================================================
