---------------------------- MODULE FirstVMProofs ---------------------------
(***************************************************************************)
(* Theorems about FirstVM, for every number of words, limit, layout and    *)
(* input: its types, its symbols and its stores.  The second half has what *)
(* the steps of a well bracketed program do to its dictionary, its code    *)
(* and its return stack, which WellBracketedProofs needs.                  *)
(***************************************************************************)
EXTENDS FirstVM, SequenceTheorems, TLAPS

\* no string is stored twice
NamesAreUnique == IsInjective(strings)

\* Every action keeps the types once the string storage is known to be no
\* longer than what was read, so that its indices are words.
IInv ==
  /\ TypeOK
  /\ Len(strings) <= pos /\ pos <= Len(Input)
  /\ NamesAreUnique
----------------------------------------------------------------------------
(* Words.                                                                  *)

LEMMA WordFacts ==
  /\ Half \in Nat /\ Top \in Nat /\ Top > 32
  /\ 0 \in Word /\ 1 \in Word /\ 10 \in Word /\ 11 \in Word
  /\ Ops \subseteq Word
  /\ OpExit \in Word /\ OpRead \in Word /\ OpCompile \in Word /\ OpRun \in Word
  /\ OpPushint \in Word /\ OpCompIt \in Word
BY WordAssumption
   DEF Top, Word, Ops, OpExit, OpRead, OpCompile, OpRun, OpPushint, OpCompIt

LEMMA StepFacts ==
  ASSUME NEW a \in Word
  PROVE  Plus1(a) \in Word /\ Minus1(a) \in Word
BY WordFacts DEF Plus1, Minus1, Word

LEMMA WIsWord ==
  ASSUME NEW n \in Int
  PROVE  W(n) \in Word
BY WordFacts DEF W, Word

LEMMA StoredType ==
  ASSUME NEW m \in [Word -> Word], NEW a \in Word, NEW v \in Word
  PROVE  Stored(m, a, v) \in [Word -> Word]
BY DEF Stored

LEMMA FrontType ==
  ASSUME NEW S, NEW s \in Seq(S)
  PROVE  Front(s) \in Seq(S)
<1>1. Len(s) \in Nat /\ \A i \in 1 .. Len(s) - 1 : s[i] \in S
  BY LenProperties, ElementOfSeq
<1> QED BY <1>1, SubSeqProperties DEF Front

LEMMA StackFacts ==
  ASSUME TypeOK
  PROVE  /\ stack \in Seq(Word) /\ Len(stack) \in Nat
         /\ \A i \in 1 .. Len(stack) : stack[i] \in Word
<1>1. stack \in Seq(Word)
  BY DEF TypeOK
<1> QED BY <1>1, LenProperties, ElementOfSeq

LEMMA BelowType ==
  ASSUME TypeOK, NEW n \in Nat
  PROVE  Below(n) \in Seq(Word)
<1>1. \A i \in 1 .. Len(stack) - n : stack[i] \in Word
  BY StackFacts
<1> QED BY <1>1, StackFacts, SubSeqProperties DEF Below

LEMMA ArgType ==
  ASSUME TypeOK, NEW n \in 1 .. Len(stack)
  PROVE  Arg(n) \in Word
<1>1. Len(stack) + 1 - n \in 1 .. Len(stack)
  BY StackFacts
<1> QED BY <1>1, StackFacts DEF Arg

LEMMA DoType ==
  ASSUME NEW what \in Jobs, NEW arg \in Word
  PROVE  <<Do(what, arg)>> \in TodoType
BY DEF Do, TodoType

LEMMA Arg0Type ==
  ASSUME TypeOK, todo # << >>
  PROVE  Head(todo).do \in Jobs /\ Arg0 \in Word /\ Tail(todo) \in TodoType
<1> DEFINE Job == [do : Jobs, arg : Word]
<1>1. todo \in Seq(Job)
  BY DEF TypeOK, TodoType
<1>2. Head(todo) \in Job /\ Tail(todo) \in Seq(Job)
  BY <1>1, HeadTailProperties
<1> QED BY <1>2 DEF Arg0, TodoType
----------------------------------------------------------------------------
(* The string storage and what methods leave to do.                        *)

LEMMA SymbolType ==
  ASSUME IInv, NEW t \in Tokens
  PROVE  /\ Symbol(t) \in 0 .. Len(strings)
         /\ Symbol(t) \in Word
<1>1. Len(strings) \in Nat /\ DOMAIN strings = 1 .. Len(strings)
  BY LenProperties DEF IInv, TypeOK
<1>2. Len(strings) \in Word
  <2>1. /\ pos \in Nat /\ Len(strings) <= pos /\ pos <= Len(Input)
    BY DEF IInv, TypeOK
  <2>2. Len(Input) \in Nat /\ Len(Input) <= Top - 1
    BY InputAssumption, WordFacts DEF Word
  <2> QED BY <1>1, <2>1, <2>2, WordFacts DEF Word
<1>3. CASE t \in ToSet(strings)
  <2>1. \E i \in DOMAIN strings : strings[i] = t
    BY <1>3 DEF ToSet
  <2> QED BY <2>1, <1>1, <1>2, <1>3, WordFacts DEF Symbol, Word
<1>4. CASE t \notin ToSet(strings)
  BY <1>1, <1>4, WordFacts DEF Symbol
<1> QED BY <1>3, <1>4

LEMMA SymbolicateKeepsNames ==
  ASSUME IInv, NEW t \in Tokens, Symbolicate(t), pos' = pos + 1, pos < Len(Input)
  PROVE  /\ SymbolOf(t) \in Word
         /\ strings' \in Seq(Tokens)
         /\ Len(strings') <= pos' /\ pos' <= Len(Input) /\ pos' \in Nat
         /\ IsInjective(strings')
<1>1. /\ strings \in Seq(Tokens) /\ pos \in Nat /\ Len(strings) \in Nat
      /\ DOMAIN strings = 1 .. Len(strings)
      /\ \A a, b \in 1 .. Len(strings) : strings[a] = strings[b] => a = b
  BY LenProperties DEF IInv, TypeOK, NamesAreUnique, IsInjective
<1>2. Len(Input) \in Nat /\ Len(Input) < Top
  BY InputAssumption, WordFacts DEF Word
<1>3. CASE t \in ToSet(strings)
  BY <1>1, <1>2, <1>3, SymbolType DEF IInv, Symbolicate, SymbolOf, NamesAreUnique
<1>4. CASE t \notin ToSet(strings)
  <2>1. strings' = Append(strings, t) /\ SymbolOf(t) = Len(strings) + 1
    BY <1>4 DEF Symbolicate, SymbolOf
  <2>2. /\ strings' \in Seq(Tokens) /\ Len(strings') = Len(strings) + 1
        /\ \A i \in 1 .. Len(strings) : strings'[i] = strings[i]
        /\ strings'[Len(strings) + 1] = t
    BY <1>1, <2>1, AppendProperties
  <2>3. \A i \in 1 .. Len(strings) : strings[i] # t
    BY <1>1, <1>4 DEF ToSet
  <2>4. DOMAIN strings' = 1 .. Len(strings) + 1
    BY <2>2, LenProperties
  <2>5. IsInjective(strings')
    BY <1>1, <2>2, <2>3, <2>4 DEF IsInjective
  <2> QED BY <1>1, <1>2, <2>1, <2>2, <2>5, WordFacts DEF IInv, Word
<1> QED BY <1>3, <1>4

LEMMA HeaderType ==
  ASSUME TypeOK, NEW name \in Word
  PROVE  Header(name) \in TodoType
<1> DEFINE Job == [do : Jobs, arg : Word]
<1>1. last \in Word /\ H \in Word /\ OpCompile \in Word /\ OpRun \in Word
  BY WordFacts DEF TypeOK, H
<1>2. /\ DoCompile(last) \in Job /\ DoCompile(name) \in Job
      /\ DoCompile(OpCompile) \in Job /\ DoCompile(OpRun) \in Job
      /\ Do("setLast", H) \in Job
  BY <1>1 DEF DoCompile, Do, Jobs
<1> QED BY <1>2 DEF Header, TodoType

LEMMA BuiltinType ==
  ASSUME NEW op \in Word
  PROVE  Builtin(op) \in TodoType
<1> DEFINE A == <<Do("inline", 0)>>
           B == IF op = OpExit THEN <<DoCompile(op), DoImmediate>>
                ELSE (IF op <= OpImmediate THEN <<DoImmediate>> ELSE << >>)
                     \o <<DoCompile(op), DoImmediate, DoCompile(OpExit)>>
           C == IF op < OpLastBuiltin THEN <<Do("builtin", op + 1)>> ELSE << >>
<1>1. A \in TodoType
  BY DoType, WordFacts DEF Jobs
<1>2. <<DoCompile(op), DoImmediate>> \in TodoType
  BY WordFacts DEF TodoType, Jobs, DoCompile, DoImmediate, Do
<1>3. <<DoCompile(op), DoImmediate, DoCompile(OpExit)>> \in TodoType
  BY WordFacts DEF TodoType, Jobs, DoCompile, DoImmediate, Do, OpExit
<1>4. << >> \in TodoType /\ <<DoImmediate>> \in TodoType
  BY WordFacts DEF TodoType, Jobs, DoImmediate, Do
<1>5. B \in TodoType
  BY <1>2, <1>3, <1>4, ConcatProperties DEF TodoType
<1>6. C \in TodoType
  <2>1. CASE op < OpLastBuiltin
    <3>1. op + 1 \in Word
      BY <2>1, WordFacts DEF OpLastBuiltin, OpPick, Word
    <3> QED BY <2>1, <3>1, DoType DEF Jobs
  <2> QED BY <2>1, <1>4
<1>7. A \o B \in TodoType
  BY <1>1, <1>5, ConcatProperties DEF TodoType
<1>8. Builtin(op) = A \o B \o C
  BY DEF Builtin
<1> QED BY <1>6, <1>7, <1>8, ConcatProperties DEF TodoType
----------------------------------------------------------------------------
(* What the methods that change memory leave behind.                       *)

Memory == [Word -> Word]
Statuses == {"new", "running"} \union Ends

LEMMA Layout ==
  ASSUME TypeOK
  PROVE  /\ mem \in Memory /\ H \in Word /\ R \in Word /\ RetBase \in Word /\ MemBase \in Word
         /\ prog \in Word /\ last \in Word /\ status \in Statuses
BY WordFacts DEF TypeOK, Memory, Statuses, H, R, RetBase, MemBase

LEMMA CallType ==
  ASSUME TypeOK, NEW ret \in Word, NEW target \in Word, Call(ret, target)
  PROVE  mem' \in Memory /\ prog' \in Word /\ status' \in Statuses /\ calls' \in Seq(Word)
<1>1. prog' \in Word
  BY DEF Call
<1>2. CASE PushrFault(ret) # "none"
  <2>1. PushrFault(ret) \in Ends
    BY <1>2 DEF PushrFault, Ends
  <2> QED BY <1>1, <1>2, <2>1 DEF TypeOK, Call, Halts, Statuses, Memory
<1>3. CASE PushrFault(ret) = "none"
  <2>1. Stored(mem, Plus1(R), ret) \in Memory /\ Plus1(R) \in Word
    BY Layout, StepFacts, StoredType DEF Memory
  <2>2. mem' \in Memory
    BY <1>3, <2>1 DEF Call, Memory
  <2>3. calls' \in Seq(Word)
    <3>1. calls \in Seq(Word) /\ calls' = Append(calls, ret)
      BY <1>3 DEF Call, TypeOK
    <3> QED BY <3>1, AppendProperties
  <2> QED BY <1>1, <1>3, <2>2, <2>3, Layout DEF Call
<1> QED BY <1>2, <1>3

LEMMA ExitType ==
  ASSUME TypeOK, NEW ret \in Word, Exit(ret)
  PROVE  mem' \in Memory /\ prog' \in Word /\ status' \in Statuses /\ calls' \in Seq(Word)
<1>1. CASE PoprFault # "none"
  <2>1. PoprFault \in Ends
    BY <1>1 DEF PoprFault, Ends
  <2> QED BY <1>1, <2>1 DEF TypeOK, Exit, Halts, Statuses, Memory
<1>2. CASE PoprFault = "none"
  <2>1. mem' \in Memory
    BY <1>2, Layout, StepFacts DEF Exit, Memory
  <2>2. prog' \in Word
    BY <1>2, Layout DEF Exit, Memory
  <2>3. calls' \in Seq(Word)
    <3>1. calls \in Seq(Word)
      BY DEF TypeOK
    <3>2. Front(calls) \in Seq(Word)
      BY <3>1, FrontType
    <3> QED BY <1>2, <3>1, <3>2 DEF Exit
  <2> QED BY <1>2, <2>1, <2>2, <2>3, Layout DEF Exit
<1> QED BY <1>1, <1>2

LEMMA CompileType ==
  ASSUME TypeOK, NEW v \in Word, Compile(v)
  PROVE  mem' \in Memory /\ status' \in Statuses
<1>1. [mem EXCEPT ![0] = Plus1(H)] \in Memory
  BY Layout, StepFacts DEF Memory
<1>2. Compiled(v) \in Memory
  BY <1>1, Layout, StoredType DEF Compiled, Memory
<1> QED BY <1>1, <1>2, Layout DEF Compile, Statuses, Ends

LEMMA ImmediateType ==
  ASSUME TypeOK, Immediate
  PROVE  mem' \in Memory /\ status' \in Statuses
<1> DEFINE h == Minus1(H)
<1>1. h \in Word /\ Minus1(h) \in Word /\ mem[h] \in Word
  BY Layout, StepFacts DEF Memory
<1>2. Stored(mem, Minus1(h), mem[h]) \in Memory
  BY <1>1, Layout, StoredType DEF Memory
<1>3. [Stored(mem, Minus1(h), mem[h]) EXCEPT ![0] = h] \in Memory
  BY <1>1, <1>2 DEF Memory
<1>4. CASE h \in Cells /\ CanStor(Minus1(h))
  BY <1>3, <1>4, Layout DEF Immediate
<1>5. CASE ~(h \in Cells /\ CanStor(Minus1(h)))
  BY <1>5, Layout DEF Immediate, Statuses, Ends
<1> QED BY <1>4, <1>5

LEMMA OfferedType ==
  ASSUME IInv, NEW t \in Offered
  PROVE  t \in Tokens /\ pos < Len(Input)
<1>1. pos < Len(Input) /\ t \in Input[pos + 1]
  BY DEF Offered
<1>2. DOMAIN Input = 1 .. Len(Input) /\ Len(Input) \in Nat /\ pos \in Nat
  BY InputAssumption, LenProperties DEF IInv, TypeOK
<1>3. pos + 1 \in DOMAIN Input
  BY <1>1, <1>2
<1> QED BY <1>1, <1>3 DEF Tokens

\* What no action but those that take a name from the input disturbs.
LEMMA NoNewName ==
  ASSUME IInv, TypeOK', UNCHANGED strings,
         pos' = pos \/ (pos' = pos + 1 /\ pos < Len(Input))
  PROVE  IInv'
<1>1. Len(strings) \in Nat /\ pos \in Nat /\ Len(Input) \in Nat
  BY LenProperties, InputAssumption DEF IInv, TypeOK
<1>2. Len(strings') <= pos' /\ pos' <= Len(Input)
  BY <1>1 DEF IInv
<1> QED BY <1>2 DEF IInv, NamesAreUnique
----------------------------------------------------------------------------
(* The initial states.                                                     *)

LEMMA InitIInv ==
  ASSUME Init
  PROVE  IInv
<1>1. mem \in Memory
  <2>1. PICK cells \in Presets :
          mem = [a \in Word |-> CASE a = 0 -> cells.h [] a = 1 -> cells.r
                                  [] a = 10 -> cells.retBase [] a = 11 -> cells.memBase
                                  [] OTHER -> 0]
    BY DEF Init
  <2>2. cells \in [h : Word, r : Word, retBase : Word, memBase : Word]
    BY PresetsAssumption
  <2>3. cells.h \in Word /\ cells.r \in Word /\ cells.retBase \in Word /\ cells.memBase \in Word
    BY <2>2
  <2> QED BY <2>1, <2>3, WordFacts DEF Memory
<1>2. /\ << >> \in Seq(Word) /\ << >> \in Seq(Tokens) /\ << >> \in TodoType
      /\ << >> \in Seq([name : Tokens \union {""}, word : Word])
  BY DEF TodoType
<1>3. TypeOK
  BY <1>1, <1>2, WordFacts DEF Init, TypeOK, Memory
<1>4. strings = << >> /\ pos = 0
  BY DEF Init
<1>5. Len(strings) = 0 /\ DOMAIN strings = {}
  BY <1>4
<1>6. Len(Input) \in Nat
  BY InputAssumption, LenProperties
<1>7. NamesAreUnique
  BY <1>5 DEF NamesAreUnique, IsInjective
<1> QED BY <1>3, <1>4, <1>5, <1>6, <1>7 DEF IInv
----------------------------------------------------------------------------
(* Every action keeps the types: first those of init and of what methods   *)
(* leave to do.                                                            *)

LEMMA StartType ==
  ASSUME IInv, Start
  PROVE  TypeOK'
<1> DEFINE retBase == IF RetBase = 0 THEN Page ELSE RetBase
           memBase == IF MemBase = 0 THEN W(4 * Page) ELSE MemBase
           h       == IF H = 0 THEN memBase ELSE H
<1>1. TypeOK
  BY DEF IInv
<1>2. Page \in Word
  BY PageSizeAssumption DEF Page
<1>3. W(4 * Page) \in Word
  <2>1. 4 * Page \in Int
    BY <1>2, WordFacts DEF Word
  <2> QED BY <2>1, WIsWord
<1>4. retBase \in Word /\ memBase \in Word /\ h \in Word /\ Minus1(retBase) \in Word
  BY <1>1, <1>2, <1>3, Layout, StepFacts
<1>5. mem' = [mem EXCEPT ![10] = retBase, ![11] = memBase, ![0] = h,
                         ![1] = IF R = 0 THEN Minus1(retBase) ELSE R]
  BY DEF Start
<1>6. mem' \in Memory
  BY <1>1, <1>4, <1>5, Layout DEF Memory
<1>7. status' \in Statuses
  BY DEF Start, Statuses, Ends
<1>8. todo' \in TodoType
  <2> DEFINE Job == [do : Jobs, arg : Word]
  <2>1. Do("setLast", h) \in Job
    BY <1>4 DEF Do, Jobs
  <2>2. Header(0) \in Seq(Job) /\ 5 \in 1 .. Len(Header(0))
    BY <1>1, HeaderType, WordFacts DEF TodoType, Header
  <2> HIDE DEF h
  <2>3. [Header(0) EXCEPT ![5] = Do("setLast", h)] \in Seq(Job)
    BY <2>1, <2>2, ExceptSeq
  <2>4. <<DoImmediate, Do("entry", 0)>> \in Seq(Job)
    BY WordFacts DEF DoImmediate, Do, Jobs
  <2>5. todo' = [Header(0) EXCEPT ![5] = Do("setLast", h)] \o <<DoImmediate, Do("entry", 0)>>
    BY DEF Start, h
  <2> QED BY <2>3, <2>4, <2>5, ConcatProperties DEF TodoType
<1> QED BY <1>1, <1>6, <1>7, <1>8 DEF Start, history, TypeOK, Memory, Statuses

LEMMA MoreType ==
  ASSUME IInv, EntryMore \/ InlineMore \/ CompileMore \/ SetLastMore \/ ImmediateMore
                 \/ ExitMore \/ CompItMore \/ LookupCall \/ LookupMore \/ LookupLiteral
  PROVE  TypeOK'
<1> DEFINE Job == [do : Jobs, arg : Word]
<1> USE DEF history, fields
<1>1. TypeOK
  BY DEF IInv
<1>2. /\ todo # << >> => Arg0 \in Word /\ Tail(todo) \in TodoType
      /\ << >> \in TodoType
  BY <1>1, Arg0Type DEF TodoType
<1>3. /\ mem \in Memory /\ status \in Statuses /\ prog \in Word /\ H \in Word
      /\ Plus1(prog) \in Word /\ Plus1(Plus1(last)) \in Word
      /\ "limit" \in Statuses /\ "literal" \in Statuses
  BY <1>1, Layout, StepFacts DEF Statuses, Ends
<1>4. CASE EntryMore
  <2>1. /\ DoCompile(OpRead) \in Job /\ DoCompile(H) \in Job /\ DoCompile(OpExit) \in Job
        /\ Do("builtin", OpExit) \in Job
    BY <1>3, WordFacts DEF DoCompile, Do, Jobs
  <2>2. todo' \in TodoType
    BY <1>4, <2>1 DEF EntryMore, TodoType
  <2> QED BY <1>1, <1>3, <1>4, <2>2 DEF EntryMore, TypeOK
<1>5. CASE InlineMore
  <2>1. Stored(mem, Plus1(Plus1(last)), OpCompIt) \in Memory
    BY <1>3, WordFacts, StoredType DEF Memory
  <2>2. mem' \in Memory /\ status' \in Statuses
    BY <1>3, <1>5, <2>1 DEF InlineMore
  <2> QED BY <1>1, <1>2, <1>5, <2>2 DEF InlineMore, Pending, TypeOK, Memory, Statuses
<1>6. CASE CompileMore
  <2>1. Arg0 \in Word /\ Compile(Arg0)
    BY <1>2, <1>6 DEF CompileMore, Pending
  <2>2. mem' \in Memory /\ status' \in Statuses
    BY <1>1, <2>1, CompileType
  <2> QED BY <1>1, <1>2, <1>6, <2>2 DEF CompileMore, Pending, TypeOK, Memory, Statuses
<1>7. CASE SetLastMore
  <2> DEFINE Definition == [name : Tokens \union {""}, word : Word]
  <2>1. Arg0 \in Word /\ Tail(todo) \in TodoType
    BY <1>2, <1>7 DEF SetLastMore, Pending
  <2>2. defs \in Seq(Definition) /\ [name |-> token, word |-> Arg0] \in Definition
    BY <1>1, <2>1 DEF TypeOK
  <2>3. defs' \in Seq(Definition)
    BY <1>7, <2>2, AppendProperties DEF SetLastMore
  <2> QED BY <1>1, <1>7, <2>1, <2>3 DEF SetLastMore, TypeOK
<1>8. CASE ImmediateMore
  <2>1. mem' \in Memory /\ status' \in Statuses
    BY <1>1, <1>8, ImmediateType DEF ImmediateMore
  <2> QED BY <1>1, <1>2, <1>8, <2>1 DEF ImmediateMore, Pending, TypeOK, Memory, Statuses
<1>9. CASE ExitMore
  <2>1. mem' \in Memory /\ prog' \in Word /\ status' \in Statuses /\ calls' \in Seq(Word)
    BY <1>1, <1>3, <1>9, ExitType DEF ExitMore
  <2> QED BY <1>1, <1>2, <1>9, <2>1 DEF ExitMore, Pending, TypeOK, Memory, Statuses
<1>10. CASE CompItMore
  <2>1. Arg0 \in Word
    BY <1>2, <1>10 DEF CompItMore, Pending
  <2>2. [mem EXCEPT ![0] = Plus1(H)] \in Memory
    BY <1>3, StepFacts DEF Memory
  <2>3. Compiled(Arg0) \in Memory
    BY <1>3, <2>1, <2>2, StoredType DEF Compiled, Memory
  <2>4. mem' \in Memory /\ status' \in Statuses
    BY <1>3, <1>10, <2>2, <2>3 DEF CompItMore
  <2>5. mem'[prog] \in Word
    BY <1>3, <2>4 DEF Memory
  <2>6. <<DoExit>> \in TodoType /\ <<Do("compileit", mem'[prog])>> \in TodoType
    BY <2>5, DoType, WordFacts DEF DoExit, Jobs
  <2>7. todo' \in TodoType
    BY <1>10, <2>6 DEF CompItMore
  <2> QED BY <1>1, <1>3, <1>10, <2>4, <2>7 DEF CompItMore, TypeOK, Memory, Statuses
<1>11. CASE LookupCall
  <2>1. Arg0 \in Word
    BY <1>2, <1>11 DEF LookupCall, LookupFound, Pending
  <2>2. Plus1(Plus1(Arg0)) \in Word
    BY <2>1, StepFacts
  <2>3. mem' \in Memory /\ prog' \in Word /\ status' \in Statuses /\ calls' \in Seq(Word)
    BY <1>1, <1>3, <1>11, <2>2, CallType DEF LookupCall
  <2> QED BY <1>1, <1>2, <1>11, <2>3 DEF LookupCall, TypeOK, Memory, Statuses
<1>12. CASE LookupMore
  <2>1. Arg0 \in Word
    BY <1>2, <1>12 DEF LookupMore, Pending
  <2>2. mem[Arg0] \in Word
    BY <1>3, <2>1 DEF Memory
  <2>3. <<Do("lookup", mem[Arg0])>> \in TodoType
    BY <2>2, DoType DEF Jobs
  <2> QED BY <1>1, <1>3, <1>12, <2>3 DEF LookupMore, TypeOK, Statuses
<1>13. CASE LookupLiteral
  <2>1. CASE token \in DOMAIN Literals
    <3>1. Literals[token] \in Word
      BY <2>1, InputAssumption
    <3>2. DoCompile(OpPushint) \in Job /\ DoCompile(Literals[token]) \in Job
      BY <3>1, WordFacts DEF DoCompile, Do, Jobs
    <3>3. <<DoCompile(OpPushint), DoCompile(Literals[token])>> \in TodoType
      BY <3>2 DEF TodoType
    <3>4. todo' \in TodoType
      BY <1>13, <2>1, <3>3 DEF LookupLiteral
    <3> QED BY <1>1, <1>13, <2>1, <3>4 DEF LookupLiteral, TypeOK
  <2>2. CASE token \notin DOMAIN Literals
    BY <1>1, <1>3, <1>13, <2>2 DEF LookupLiteral, TypeOK, Statuses
  <2> QED BY <2>1, <2>2
<1> QED BY <1>4, <1>5, <1>6, <1>7, <1>8, <1>9, <1>10, <1>11, <1>12, <1>13
----------------------------------------------------------------------------
(* The actions that take a name from the input.                            *)

LEMMA NameActionsKeepIInv ==
  ASSUME IInv, BuiltinMore \/ DefineStep
  PROVE  IInv'
<1> USE DEF history
<1>1. PICK t \in Offered :
        /\ token' = t /\ Symbolicate(t) /\ pos' = pos + 1
        /\ BuiltinMore => todo' = Header(SymbolOf(t)) \o Builtin(Arg0)
        /\ ~BuiltinMore => todo' = Header(SymbolOf(t))
  BY DEF BuiltinMore, DefineStep, Define
<1>2. t \in Tokens /\ pos < Len(Input)
  BY OfferedType
<1>3. /\ SymbolOf(t) \in Word /\ strings' \in Seq(Tokens)
      /\ Len(strings') <= pos' /\ pos' <= Len(Input) /\ pos' \in Nat
      /\ IsInjective(strings')
  BY <1>1, <1>2, SymbolicateKeepsNames
<1>4. TypeOK
  BY DEF IInv
<1>5. Header(SymbolOf(t)) \in TodoType
  BY <1>3, <1>4, HeaderType
<1>6. CASE BuiltinMore
  <2>1. Builtin(Arg0) \in TodoType
    BY <1>4, <1>6, Arg0Type, BuiltinType DEF BuiltinMore, Pending
  <2>2. todo' \in TodoType
    BY <1>1, <1>5, <1>6, <2>1, ConcatProperties DEF TodoType
  <2> QED BY <1>1, <1>2, <1>3, <1>4, <1>6, <2>2 DEF BuiltinMore, IInv, TypeOK, NamesAreUnique
<1>7. CASE DefineStep /\ ~BuiltinMore
  <2>1. prog' \in Word
    BY <1>4, <1>7, Layout, StepFacts DEF DefineStep, After
  <2>2. todo' \in TodoType
    BY <1>1, <1>5, <1>7
  <2> QED BY <1>1, <1>2, <1>3, <1>4, <1>7, <2>1, <2>2 DEF DefineStep, IInv, TypeOK, NamesAreUnique
<1> QED BY <1>6, <1>7
----------------------------------------------------------------------------
(* The primitives that call, compile and read.                             *)

LEMMA CodeStepType ==
  ASSUME IInv, FetchPastLimit \/ EndOfInput \/ CallStep \/ ExitStep \/ ImmediateStep
                 \/ ReadStep \/ CompileStep \/ RunStep \/ PushintStep \/ CompItStep
  PROVE  TypeOK'
<1> DEFINE Job == [do : Jobs, arg : Word]
<1> USE DEF history, fields
<1>1. TypeOK
  BY DEF IInv
<1>2. /\ mem \in Memory /\ status \in Statuses /\ prog \in Word /\ last \in Word
      /\ After \in Word /\ Plus1(After) \in Word /\ mem[After] \in Word /\ mem[prog] \in Word
      /\ "limit" \in Statuses /\ "EOF" \in Statuses
  BY <1>1, Layout, StepFacts DEF Statuses, Ends, After, Memory
<1>3. CASE FetchPastLimit
  BY <1>1, <1>2, <1>3 DEF FetchPastLimit, TypeOK, Statuses
<1>4. CASE EndOfInput
  BY <1>1, <1>2, <1>4 DEF EndOfInput, TypeOK, Statuses
<1>5. CASE CallStep
  <2>1. mem' \in Memory /\ prog' \in Word /\ status' \in Statuses /\ calls' \in Seq(Word)
    BY <1>1, <1>2, <1>5, CallType DEF CallStep
  <2> QED BY <1>1, <1>5, <2>1 DEF CallStep, TypeOK, Memory, Statuses
<1>6. CASE ExitStep
  <2>1. mem' \in Memory /\ prog' \in Word /\ status' \in Statuses /\ calls' \in Seq(Word)
    BY <1>1, <1>2, <1>6, ExitType DEF ExitStep
  <2> QED BY <1>1, <1>6, <2>1 DEF ExitStep, TypeOK, Memory, Statuses
<1>7. CASE ImmediateStep
  <2>1. mem' \in Memory /\ status' \in Statuses
    BY <1>1, <1>7, ImmediateType DEF ImmediateStep
  <2> QED BY <1>1, <1>2, <1>7, <2>1 DEF ImmediateStep, TypeOK, Memory, Statuses
<1>8. CASE ReadStep
  <2>1. PICK t \in WordsOffered :
          /\ token' = t /\ form' = FormAfter(t)
          /\ todo' = <<Do("lookup", LookupFrom(t))>>
    BY <1>8 DEF ReadStep
  <2>2. t \in Tokens
    BY OfferedType DEF WordsOffered
  <2>3. LookupFrom(t) \in Word
    BY <1>2, WordFacts DEF LookupFrom
  <2>4. todo' \in TodoType
    BY <2>1, <2>3, DoType DEF Jobs
  <2>5. form' \in {"top", "named", "body"}
    BY <1>1, <2>1 DEF FormAfter, TypeOK
  <2>6. /\ pos' = pos + 1 /\ prog' = After
        /\ UNCHANGED <<mem, last, stack, strings, status, calls, defs>>
    BY <1>8 DEF ReadStep
  <2>7. token' \in Tokens
    BY <2>1, <2>2
  <2>8. pos' \in Nat
    <3>1. pos \in Nat /\ pos' = pos + 1
      BY <1>1, <1>8 DEF ReadStep, TypeOK
    <3> QED BY <3>1
  <2> QED BY <1>1, <1>2, <2>4, <2>5, <2>6, <2>7, <2>8 DEF TypeOK
<1>9. CASE CompileStep
  <2> DEFINE a == IF mem[After] = OpRun THEN Plus1(After) ELSE After
  <2>1. DoCompile(a) \in Job /\ DoExit \in Job
    BY <1>2, WordFacts DEF DoCompile, DoExit, Do, Jobs
  <2>2. <<DoCompile(a), DoExit>> \in TodoType
    BY <2>1 DEF TodoType
  <2>3. todo' \in TodoType /\ status' \in Statuses
    BY <1>1, <1>2, <1>9, <2>2 DEF CompileStep, TypeOK
  <2> QED BY <1>1, <1>2, <1>9, <2>3 DEF CompileStep, TypeOK, Statuses
<1>10. CASE RunStep
  BY <1>1, <1>2, <1>10 DEF RunStep, TypeOK
<1>11. CASE PushintStep
  <2>1. stack \in Seq(Word)
    BY <1>1 DEF TypeOK
  <2>2. Append(stack, mem[After]) \in Seq(Word)
    BY <1>2, <2>1, AppendProperties
  <2>3. stack' \in Seq(Word) /\ status' \in Statuses
    BY <1>2, <1>11, <2>1, <2>2 DEF PushintStep
  <2> QED BY <1>1, <1>2, <1>11, <2>3 DEF PushintStep, TypeOK, Statuses
<1>12. CASE CompItStep
  <2>1. <<Do("compileit", mem[After])>> \in TodoType
    BY <1>2, DoType DEF Jobs
  <2>2. todo' \in TodoType /\ status' \in Statuses
    BY <1>1, <1>2, <1>12, <2>1 DEF CompItStep, TypeOK
  <2> QED BY <1>1, <1>2, <1>12, <2>2 DEF CompItStep, TypeOK, Statuses
<1> QED BY <1>3, <1>4, <1>5, <1>6, <1>7, <1>8, <1>9, <1>10, <1>11, <1>12
----------------------------------------------------------------------------
(* The primitives on the stack: all they leave is a shorter stack, or one  *)
(* with a word on top of it.                                               *)

StackSteps ==
  \/ SubStep \/ MulStep \/ LessStep \/ EchoStep \/ DivStep
  \/ GetStep \/ SetStep \/ PickStep \/ KeyStep \/ StackUnderflow

LEMMA StackFrame ==
  ASSUME IInv, StackSteps
  PROVE  /\ UNCHANGED <<last, strings, todo, token, form, calls, defs>>
         /\ prog' = After
         /\ pos' = pos \/ (pos' = pos + 1 /\ pos < Len(Input))
BY DEF StackSteps, SubStep, MulStep, LessStep, EchoStep, DivStep, GetStep, SetStep, PickStep,
       KeyStep, StackUnderflow, Underflow, Pops, RestUnchanged, history

LEMMA PushesType ==
  ASSUME TypeOK, NEW n \in Nat, NEW v \in Word, Pushes(n, v)
  PROVE  stack' \in Seq(Word) /\ status' \in Statuses
<1>1. Below(n) \in Seq(Word)
  BY BelowType
<1>2. Append(Below(n), v) \in Seq(Word)
  BY <1>1, AppendProperties
<1> QED BY <1>2, Layout DEF Pushes

LEMMA FailsType ==
  ASSUME TypeOK, NEW n \in Nat, NEW why \in Ends, Fails(n, why)
  PROVE  stack' \in Seq(Word) /\ status' \in Statuses
BY BelowType DEF Fails, Statuses

LEMMA ArgsType ==
  ASSUME TypeOK, NEW op, NEW n \in Nat, Pops(op, n)
  PROVE  \A i \in 1 .. n : Arg(i) \in Word
<1>1. n <= Len(stack)
  BY DEF Pops
<1> QED BY <1>1, StackFacts, ArgType

LEMMA StackStepType ==
  ASSUME IInv, StackSteps
  PROVE  TypeOK'
<1> USE DEF RestUnchanged
<1>1. /\ TypeOK /\ After \in Word /\ pos \in Nat
  BY Layout, StepFacts DEF IInv, TypeOK, After
<1>2. /\ mem \in Memory /\ status \in Statuses /\ Len(stack) \in Nat
      /\ Half \in Nat /\ Top \in Nat
      /\ "limit" \in Ends /\ "panic" \in Ends /\ "stackUnderflow" \in Ends
  BY <1>1, Layout, StackFacts, WordFacts DEF Ends
<1>3. mem' \in Memory /\ stack' \in Seq(Word) /\ status' \in Statuses
  <2>1. CASE SubStep
    <3>1. Arg(1) \in Word /\ Arg(2) \in Word
      BY <1>1, <2>1, ArgsType DEF SubStep
    <3>2. Minus(Arg(2), Arg(1)) \in Word
      BY <1>2, <3>1 DEF Minus, Word
    <3> QED BY <1>1, <1>2, <2>1, <3>2, PushesType DEF SubStep
  <2>2. CASE MulStep
    <3>1. Arg(1) \in Word /\ Arg(2) \in Word
      BY <1>1, <2>2, ArgsType DEF MulStep
    <3>2. Arg(2) * Arg(1) \in Int
      BY <1>2, <3>1 DEF Word
    <3>3. W(Arg(2) * Arg(1)) \in Word
      BY <3>2, WIsWord
    <3> QED BY <1>1, <1>2, <2>2, <3>3, PushesType DEF MulStep
  <2>3. CASE LessStep
    <3>1. (IF Signed(Arg(1)) < 0 THEN 1 ELSE 0) \in Word
      BY WordFacts
    <3> QED BY <1>1, <1>2, <2>3, <3>1, PushesType DEF LessStep
  <2>4. CASE EchoStep
    BY <1>1, <1>2, <2>4, BelowType DEF EchoStep
  <2>5. CASE DivStep
    <3>1. Arg(1) \in Word /\ Arg(2) \in Word
      BY <1>1, <2>5, ArgsType DEF DivStep
    <3>2. CASE Arg(1) = 0
      BY <1>1, <1>2, <2>5, <3>2, FailsType DEF DivStep
    <3>3. CASE Arg(1) # 0
      <4> DEFINE a == Signed(Arg(2))
                 b == Signed(Arg(1))
      <4>1. a \in Int /\ b \in Int /\ b # 0
        BY <1>2, <3>1, <3>3, WordFacts DEF Signed, Word, Top
      <4>2. Magnitude(a) \in Nat /\ Magnitude(b) \in Nat /\ Magnitude(b) > 0
        BY <4>1 DEF Magnitude
      <4>3. Magnitude(a) \div Magnitude(b) \in Int
        BY <4>2
      <4>4. (IF (a < 0) = (b < 0) THEN Magnitude(a) \div Magnitude(b)
             ELSE Top - Magnitude(a) \div Magnitude(b)) \in Int
        BY <1>2, <4>3
      <4>5. Quotient(a, b) \in Word
        BY <4>4, WIsWord DEF Quotient
      <4> QED BY <1>1, <1>2, <2>5, <3>3, <4>5, PushesType DEF DivStep
    <3> QED BY <3>2, <3>3
  <2>6. CASE GetStep
    <3>1. Arg(1) \in Word
      BY <1>1, <2>6, ArgsType DEF GetStep
    <3>2. mem[Arg(1)] \in Word
      BY <1>2, <3>1 DEF Memory
    <3> QED BY <1>1, <1>2, <2>6, <3>2, PushesType, FailsType DEF GetStep
  <2>7. CASE SetStep
    <3>1. Arg(1) \in Word /\ Arg(2) \in Word
      BY <1>1, <2>7, ArgsType DEF SetStep
    <3>2. Stored(mem, Arg(1), Arg(2)) \in Memory /\ Below(2) \in Seq(Word)
      BY <1>1, <1>2, <3>1, StoredType, BelowType DEF Memory
    <3> QED BY <1>1, <1>2, <2>7, <3>2, FailsType DEF SetStep
  <2>8. CASE PickStep
    <3> DEFINE i == Len(stack) - 2 - Signed(Arg(1))
    <3>1. Arg(1) \in Word
      BY <1>1, <2>8, ArgsType DEF PickStep
    <3>2. i \in Int
      BY <1>2, <3>1 DEF Signed, Word
    <3>3. i \in 0 .. Len(stack) - 2 => i + 1 \in 1 .. Len(stack)
      BY <1>2, <3>2
    <3>4. (IF i \in 0 .. Len(stack) - 2 THEN stack[i + 1] ELSE 0) \in Word
      BY <1>1, <3>3, StackFacts, WordFacts
    <3> QED BY <1>1, <1>2, <2>8, <3>4, PushesType DEF PickStep
  <2>9. CASE KeyStep
    <3>1. PICK c \in Runes : stack' = Append(stack, c)
      BY <2>9 DEF KeyStep
    <3>2. c \in Word
      BY InputAssumption
    <3>3. stack' \in Seq(Word)
      BY <1>1, <3>1, <3>2, StackFacts, AppendProperties
    <3> QED BY <1>2, <2>9, <3>3 DEF KeyStep
  <2>10. CASE StackUnderflow
    <3>1. stack' = << >> /\ status' = "stackUnderflow" /\ mem' = mem
      BY <2>10 DEF StackUnderflow, Underflow
    <3> QED BY <1>2, <3>1 DEF Statuses
  <2> QED BY <2>1, <2>2, <2>3, <2>4, <2>5, <2>6, <2>7, <2>8, <2>9, <2>10 DEF StackSteps
<1>4. pos' \in Nat
  BY <1>1, StackFrame
<1> QED BY <1>1, <1>3, <1>4, StackFrame DEF TypeOK, Memory, Statuses
----------------------------------------------------------------------------
(* The invariant.                                                          *)

LEMMA NextKeepsIInv ==
  ASSUME IInv, Next
  PROVE  IInv'
<1>1. CASE Start
  <2>1. UNCHANGED strings /\ pos' = pos
    BY <1>1 DEF Start
  <2> QED BY <1>1, <2>1, StartType, NoNewName
<1>2. CASE BuiltinMore \/ DefineStep
  BY <1>2, NameActionsKeepIInv
<1>3. CASE EntryMore \/ InlineMore \/ CompileMore \/ SetLastMore \/ ImmediateMore
             \/ ExitMore \/ CompItMore \/ LookupCall \/ LookupMore \/ LookupLiteral
  <2>1. UNCHANGED strings /\ pos' = pos
    BY <1>3 DEF EntryMore, InlineMore, CompileMore, SetLastMore, ImmediateMore, ExitMore,
                CompItMore, LookupCall, LookupMore, LookupLiteral, fields
  <2> QED BY <1>3, <2>1, MoreType, NoNewName
<1>4. CASE FetchPastLimit \/ EndOfInput \/ CallStep \/ ExitStep \/ ImmediateStep
             \/ ReadStep \/ CompileStep \/ RunStep \/ PushintStep \/ CompItStep
  <2>1. ReadStep => pos < Len(Input)
    BY OfferedType DEF ReadStep, WordsOffered
  <2>2. UNCHANGED strings /\ (pos' = pos \/ (pos' = pos + 1 /\ pos < Len(Input)))
    BY <1>4, <2>1 DEF FetchPastLimit, EndOfInput, CallStep, ExitStep, ImmediateStep, ReadStep,
                CompileStep, RunStep, PushintStep, CompItStep, fields
  <2> QED BY <1>4, <2>2, CodeStepType, NoNewName
<1>5. CASE StackSteps
  BY <1>5, StackStepType, StackFrame, NoNewName
<1> QED BY <1>1, <1>2, <1>3, <1>4, <1>5 DEF Next, More, Step, StackSteps

LEMMA StutterKeepsIInv ==
  ASSUME IInv, UNCHANGED vars
  PROVE  IInv'
BY DEF IInv, TypeOK, NamesAreUnique, vars, fields, history

LEMMA IInvHolds == Spec => []IInv
<1>1. Init => IInv
  BY InitIInv
<1>2. IInv /\ [Next]_vars => IInv'
  BY NextKeepsIInv, StutterKeepsIInv
<1> QED BY <1>1, <1>2, PTL DEF Spec

\* Every program, whatever it stores to its own pointers, keeps its registers,
\* its memory and its stacks made of words, and halts only for the reasons
\* first.go gives.
THEOREM TypeCorrect == Spec => []TypeOK
<1>1. IInv => TypeOK
  BY DEF IInv
<1> QED BY <1>1, IInvHolds, PTL
----------------------------------------------------------------------------
(* Where a step may store.                                                 *)

LEMMA StoredElsewhere ==
  ASSUME NEW m \in Memory, NEW a \in Word, NEW v \in Word, NEW b \in Word, b # a
  PROVE  Stored(m, a, v)[b] = m[b]
BY DEF Stored, Memory

LEMMA CallFootprint ==
  ASSUME TypeOK, NEW ret \in Word, NEW target, Call(ret, target), NEW a \in Word \ Footprint
  PROVE  mem'[a] = mem[a]
<1>1. CASE PushrFault(ret) # "none"
  BY <1>1 DEF Call, Halts
<1>2. CASE PushrFault(ret) = "none"
  <2>1. ~(R < Minus1(RetBase)) /\ ~(R >= Minus1(MemBase))
    BY <1>2 DEF PushrFault
  <2>2. /\ mem \in Memory /\ R \in Word /\ RetBase \in Word /\ MemBase \in Word
        /\ Plus1(R) \in Word
    BY Layout, StepFacts
  <2>3. RetBase <= Plus1(R) /\ (Plus1(R) < MemBase \/ MemBase = 0)
    BY <2>1, <2>2, WordFacts DEF Plus1, Minus1, Word
  <2>4. a # 1 /\ a # Plus1(R)
    BY <2>3 DEF Footprint
  <2>5. mem' = [Stored(mem, Plus1(R), ret) EXCEPT ![1] = Plus1(R)]
    BY <1>2 DEF Call
  <2>6. Stored(mem, Plus1(R), ret) \in Memory /\ Stored(mem, Plus1(R), ret)[a] = mem[a]
    BY <2>2, <2>4, StoredType, StoredElsewhere DEF Memory
  <2> QED BY <2>4, <2>5, <2>6 DEF Memory
<1> QED BY <1>1, <1>2

LEMMA ExitFootprint ==
  ASSUME TypeOK, NEW ret, Exit(ret), NEW a \in Word \ Footprint
  PROVE  mem'[a] = mem[a]
<1>1. a # 1
  BY DEF Footprint
<1> QED BY <1>1, Layout DEF Exit, Halts, Memory

LEMMA CompileFootprint ==
  ASSUME TypeOK, NEW v \in Word, Pending("compile") \/ Pending("compileit"),
         mem' = IF CanStor(H) THEN Compiled(v) ELSE [mem EXCEPT ![0] = Plus1(H)],
         NEW a \in Word \ Footprint
  PROVE  mem'[a] = mem[a]
<1>1. a # 0 /\ a # H
  BY DEF Footprint
<1>2. mem \in Memory /\ H \in Word /\ Plus1(H) \in Word
  BY Layout, StepFacts
<1> DEFINE m == [mem EXCEPT ![0] = Plus1(H)]
<1>3. m \in Memory /\ m[a] = mem[a]
  BY <1>1, <1>2 DEF Memory
<1>4. Compiled(v) = Stored(m, H, v)
  BY DEF Compiled
<1> HIDE DEF m
<1>5. Stored(m, H, v)[a] = m[a]
  BY <1>1, <1>2, <1>3, StoredElsewhere
<1> QED BY <1>3, <1>4, <1>5 DEF m

LEMMA ImmediateFootprint ==
  ASSUME TypeOK, Immediate, Exec(OpImmediate) \/ Pending("immediate"),
         NEW a \in Word \ Footprint
  PROVE  mem'[a] = mem[a]
<1> DEFINE h == Minus1(H)
<1>1. a # 0 /\ a # Minus1(h)
  BY DEF Footprint
<1>2. mem \in Memory /\ h \in Word /\ Minus1(h) \in Word /\ mem[h] \in Word
  BY Layout, StepFacts DEF Memory
<1>3. /\ Stored(mem, Minus1(h), mem[h]) \in Memory
      /\ Stored(mem, Minus1(h), mem[h])[a] = mem[a]
  BY <1>1, <1>2, StoredType, StoredElsewhere DEF Memory
<1>4. CASE h \in Cells /\ CanStor(Minus1(h))
  <2>1. mem' = [Stored(mem, Minus1(h), mem[h]) EXCEPT ![0] = h]
    BY <1>4 DEF Immediate
  <2> QED BY <1>1, <1>3, <2>1 DEF Memory
<1>5. CASE ~(h \in Cells /\ CanStor(Minus1(h)))
  BY <1>5 DEF Immediate
<1> QED BY <1>4, <1>5

LEMMA NextFootprint ==
  ASSUME IInv, Next, Running, NEW a \in Word \ Footprint
  PROVE  mem'[a] = mem[a]
<1> USE DEF history, fields, RestUnchanged
<1>1. /\ TypeOK /\ prog \in Word /\ After \in Word
      /\ todo # << >> => Arg0 \in Word
  BY Layout, StepFacts, Arg0Type DEF IInv, After
<1>2. ~Start
  BY DEF Running, Start
<1>3. CASE LookupCall \/ CallStep
  BY <1>1, <1>3, CallFootprint DEF LookupCall, CallStep
<1>4. CASE ExitMore \/ ExitStep
  BY <1>1, <1>4, ExitFootprint DEF ExitMore, ExitStep
<1>5. CASE CompileMore
  <2>1. Pending("compile") /\ Compile(Arg0) /\ Arg0 \in Word
    BY <1>1, <1>5 DEF CompileMore, Pending
  <2> QED BY <1>1, <2>1, CompileFootprint DEF Compile
<1>6. CASE CompItMore
  <2>1. Pending("compileit") /\ Arg0 \in Word
    BY <1>1, <1>6 DEF CompItMore, Pending
  <2> QED BY <1>1, <1>6, <2>1, CompileFootprint DEF CompItMore
<1>7. CASE ImmediateMore \/ ImmediateStep
  BY <1>1, <1>7, ImmediateFootprint DEF ImmediateMore, ImmediateStep
<1>8. CASE InlineMore
  <2>1. a # Plus1(Plus1(last))
    BY <1>8 DEF InlineMore, Footprint
  <2>2. mem \in Memory /\ Plus1(Plus1(last)) \in Word
    BY <1>1, Layout, StepFacts
  <2>3. Stored(mem, Plus1(Plus1(last)), OpCompIt)[a] = mem[a]
    BY <2>1, <2>2, WordFacts, StoredElsewhere
  <2> QED BY <1>8, <2>3 DEF InlineMore
<1>9. CASE SetStep
  <2>1. Arg(1) \in Word /\ Arg(2) \in Word
    BY <1>1, <1>9, ArgsType DEF SetStep
  <2>2. stack # << >>
    BY <1>9, StackFacts DEF SetStep, Pops
  <2>3. a # Arg(1)
    BY <1>9, <2>2 DEF SetStep, Pops, Footprint
  <2>4. Stored(mem, Arg(1), Arg(2))[a] = mem[a]
    BY <1>1, <2>1, <2>3, Layout, StoredElsewhere
  <2> QED BY <1>9, <2>4 DEF SetStep
<1>10. CASE EntryMore \/ BuiltinMore \/ SetLastMore \/ LookupMore \/ LookupLiteral
               \/ FetchPastLimit \/ EndOfInput \/ DefineStep \/ ReadStep \/ CompileStep
               \/ RunStep \/ PushintStep \/ CompItStep
  BY <1>10 DEF EntryMore, BuiltinMore, SetLastMore, LookupMore, LookupLiteral, FetchPastLimit,
      EndOfInput, DefineStep, ReadStep, CompileStep, RunStep, PushintStep, CompItStep
<1>11. CASE SubStep \/ MulStep \/ LessStep \/ EchoStep \/ DivStep \/ GetStep \/ PickStep
               \/ KeyStep \/ StackUnderflow
  BY <1>11 DEF SubStep, MulStep, LessStep, EchoStep, DivStep, GetStep, PickStep, KeyStep,
      StackUnderflow, Underflow
<1> QED BY <1>2, <1>3, <1>4, <1>5, <1>6, <1>7, <1>8, <1>9, <1>10, <1>11 DEF Next, More, Step

\* No step of any program stores outside its footprint: what ! is given, the
\* ends of the dictionary, and the return stack inside its bounds, so that a
\* runaway program ends with retOver before it can run over its own dictionary
\* (first.go: pushr, popr, compile, immediate, compileBuiltins).
THEOREM StoresStayInFootprint == Spec => OnlySetStoresAnywhere
<1>1. IInv /\ [Next]_vars => [Running => \A a \in Word \ Footprint : mem'[a] = mem[a]]_vars
  BY NextFootprint
<1> QED BY <1>1, IInvHolds, PTL DEF Spec, OnlySetStoresAnywhere
----------------------------------------------------------------------------
(* Of well bracketed programs: the dictionary and the code, in a memory m  *)
(* with the definitions ds.                                                *)

Entry(ds) == ds[1].word + 3
Codes(ds) == UNION {{ds[i].word + 3, ds[i].word + 4} : i \in 1 .. Len(ds)}

\* The main loop: read a token, and again (first.go: compileEntry).
MainLoop(m, ds) == /\ m[Entry(ds)] = OpRead /\ m[Entry(ds) + 1] = Entry(ds)
                   /\ m[Entry(ds) + 2] = OpExit

\* What follows the code at a lies in X, and so does what it calls.
CellOk(m, ds, a, X) ==
  \/ m[a] = OpExit
  \/ m[a] \in UsedOps /\ a + 1 \in X
  \/ m[a] = OpPushint /\ a + 2 \in X
  \/ m[a] \in Codes(ds) /\ m[a] \in X /\ a + 1 \in X

\* What runs when the word at w is read: of a builtin, of a word that is finished.
BuiltinHead(m, i, w) ==
  \/ i = 2 /\ m[w + 2] = OpCompIt /\ m[w + 3] = OpExit
  \/ i \in {3, 4} /\ m[w + 2] = i - 2 /\ m[w + 3] = OpExit
  \/ i > 4 /\ m[w + 2] = OpCompIt /\ m[w + 3] = i - 2 /\ m[w + 4] = OpExit
UserHead(m, w, X) ==
  \/ m[w + 2] = OpRun /\ w + 3 \in X
  \/ m[w + 2] = OpCompile /\ m[w + 3] = OpRun /\ w + 4 \in X
HeadsOk(m, ds, n, X) ==
  \A i \in 2 .. n : IF i <= 14 THEN BuiltinHead(m, i, ds[i].word) ELSE UserHead(m, ds[i].word, X)

\* How many cells a word has at least.
Span(i) == IF i = 1 THEN 6 ELSE IF i \in 5 .. 14 THEN 5 ELSE 4

\* The first definition is the entry, the next 13 are the builtins.
NameOk(i, t) ==
  \/ i = 1 /\ t = ""
  \/ i \in 2 .. 14 /\ t \in Input[i - 1]
  \/ i > 14 /\ t \in Names
SymbolOk(m, st, i, d) ==
  \/ i = 1 /\ m[d.word + 1] = 0
  \/ i > 1 /\ m[d.word + 1] \in 1 .. Len(st) /\ st[m[d.word + 1]] = d.name
Dict(m, ds, st, base) ==
  \A i \in 1 .. Len(ds) :
    /\ NameOk(i, ds[i].name) /\ SymbolOk(m, st, i, ds[i])
    /\ base <= ds[i].word
    /\ \A j \in i + 1 .. Len(ds) : ds[i].word + Span(i) <= ds[j].word
    /\ m[ds[i].word] = IF i = 1 THEN 0 ELSE ds[i - 1].word

\* C is a set of cells of code between base and end, closed but for the cells
\* in X, from which the heads of the first n words lead into X.
CodeOk(m, ds, base, end, n, C, X) ==
  /\ HeadsOk(m, ds, n, X)
  /\ \A i \in 2 .. n : ds[i].word + (IF i <= 14 THEN Span(i) ELSE 3) <= end
  /\ ds[3].word + 3 \in C /\ ds[4].word + 3 \in C
  /\ \A a \in C : a < end /\ CellOk(m, ds, a, X)
  /\ C \subseteq X /\ \A a \in X : base <= a /\ a <= end
----------------------------------------------------------------------------
(* The machine.                                                            *)

StackOk == /\ R = RetBase - 1 + Len(calls)
           /\ RetBase + Len(calls) <= MemBase
           /\ \A i \in 1 .. Len(calls) : mem[RetBase - 1 + i] = calls[i]

\* Room for n cells, and for two with each token that may still come.
Roomy(n) == \/ H + n + 1 + 2 * (Len(Input) - pos) < Top
            \/ Limit # 0 /\ H <= Limit /\ Limit + 1 < Top

Base == /\ 12 <= RetBase /\ MemBase <= H /\ 14 <= H /\ StackOk
        /\ \A a \in Word : a > H => mem[a] = 0

Words == /\ 14 <= Len(defs) /\ 13 <= pos /\ 14 <= defs[1].word
         /\ Dict(mem, defs, strings, MemBase) /\ last = defs[Len(defs)].word
         /\ MainLoop(mem, defs)

\* What has been called: the main loop k times from itself, and then code, and
\* from it other code.
InMain(k) == k = Len(calls) /\ \A i \in 1 .. k : calls[i] = Entry(defs) + 2
InCode(k, X) == /\ k < Len(calls) /\ \A i \in 1 .. k : calls[i] = Entry(defs) + 2
                /\ calls[k + 1] = Entry(defs) + 1
                /\ \A i \in k + 2 .. Len(calls) : calls[i] \in X
Inside(X) == \E k \in 0 .. Len(calls) : InCode(k, X)
ReadFrom(X) == \E k \in 0 .. Len(calls) : \/ prog = Entry(defs) + 1 /\ InMain(k)
                                          \/ prog \in X /\ InCode(k, X)

\* The last word is only a header.
Sealed == /\ H = last + 4 /\ mem[H] = 0 /\ 14 < Len(defs)
          /\ mem[last + 2] = OpCompile /\ mem[last + 3] = OpRun
\* The next cell of the dictionary is free, and runs as the end of a word, or
\* right after immediate as OpRun.
Free(X) == /\ mem[H] \in {0, OpRun}
           /\ last + 4 <= H \/ (last + 3 = H /\ mem[H] = OpRun /\ H \in X)
Reached(C, b) == IF b THEN C \union {H} ELSE C

\* The code is C; X has the next cell as well, when a word is not finished.
\* The first n words have more than a header.
Built(C, X, n) ==
  /\ Free(X)
  /\ n = Len(defs) \/ (n = Len(defs) - 1 /\ Sealed)
  /\ CodeOk(mem, defs, MemBase, H, n, C, X)

InBody == form = "body"

\* Nothing is left to do: the next code is in the main loop, or after a call from it.
Idle(C) ==
  /\ todo = << >> /\ Roomy(0) /\ Built(C, Reached(C, InBody), IF form = "named" THEN Len(defs) - 1 ELSE Len(defs))
  /\ \E k \in 0 .. Len(calls) :
       \/ prog \in {Entry(defs), Entry(defs) + 1} /\ InMain(k)
       \/ prog \in Reached(C, InBody) /\ InCode(k, Reached(C, InBody))
       \/ prog = H + 1 /\ mem[H] = OpRun /\ InBody /\ InCode(k, Reached(C, InBody))

\* A token is looked up, or its word is about to run.
Growing == (InBody /\ token # "immediate") \/ token = "exit"
NoneAfter(n) == \A i \in 1 .. Len(defs) : defs[i].name = token => i <= n
Token(C) ==
  /\ Roomy(2) /\ form # "named"
  /\ Built(C, Reached(C, Growing), IF token = "immediate" THEN Len(defs) - 1 ELSE Len(defs))
  /\ \E i \in 14 .. Len(Input) : token \in Input[i]
  /\ token \in {":", "exit"} => form = "top"
  /\ token = "immediate" => form = "body"
LookingUp(C) ==
  /\ Token(C) /\ ReadFrom(Reached(C, Growing))
  /\ \/ todo = <<Do("lookup", 0)>> /\ NoneAfter(0)
     \/ \E i \in 1 .. Len(defs) : /\ todo = <<Do("lookup", defs[i].word)>> /\ NoneAfter(i)
                                  /\ token \in ToSet(strings)
AtHead(C) ==
  /\ Token(C) /\ Inside(Reached(C, Growing)) /\ todo = << >>
  /\ \E i \in 2 .. Len(defs) : defs[i].name = token /\ prog = defs[i].word + 2

\* A literal is compiled.
Literal1(C) ==
  /\ \E v \in Word : todo = <<DoCompile(OpPushint), DoCompile(v)>>
  /\ Roomy(2) /\ form # "named" /\ Built(C, Reached(C, InBody), Len(defs)) /\ ReadFrom(Reached(C, InBody))
Literal2(C) ==
  LET X == IF InBody THEN C \union {H - 1} ELSE C
  IN /\ \E v \in Word : todo = <<DoCompile(v)>>
     /\ Roomy(1) /\ form # "named" /\ mem[H] = 0 /\ mem[H - 1] = OpPushint
     /\ last + 4 <= H
     /\ CodeOk(mem, defs, MemBase, H - 1, Len(defs), C, X) /\ ReadFrom(X)

\* A call is compiled, or the code of a builtin is copied; then the word returns.
Calling(C) ==
  /\ \E v \in Codes(defs) : /\ todo = <<DoCompile(v), DoExit>>
                            /\ InBody => v \in Reached(C, InBody)
  /\ Roomy(1) /\ form # "named" /\ Built(C, Reached(C, InBody), Len(defs)) /\ Inside(Reached(C, InBody))
Copying(C) ==
  /\ \/ todo = <<Do("compileit", OpExit)>> /\ token = "exit" /\ form = "top"
     \/ \E v \in UsedOps : /\ todo = <<Do("compileit", v)>> /\ token # "exit"
                           /\ MemBase <= prog /\ prog < H /\ mem[prog] = OpExit
  /\ Roomy(1) /\ form # "named" /\ Built(C, Reached(C, InBody \/ token = "exit"), Len(defs))
  /\ Inside(Reached(C, InBody \/ token = "exit"))
Returning(C) ==
  /\ todo = <<DoExit>> /\ Roomy(0) /\ form # "named" /\ Built(C, Reached(C, InBody), Len(defs))
  /\ Inside(Reached(C, InBody))

\* The header of a new word is compiled: j of its four cells are.
HeaderAt(w, nm, j) ==
  /\ H = w + j /\ Roomy(4 - j)
  /\ j > 0 => mem[H] = 0
  /\ j > 0 => mem[w] = last
  /\ j > 1 => mem[w + 1] = nm
  /\ j > 2 => mem[w + 2] = OpCompile
  /\ j > 3 => mem[w + 3] = OpRun
Defining(C) ==
  \E w \in Word, nm \in 1 .. Len(strings) :
    /\ strings[nm] = token /\ token \in Names /\ form = "named" /\ last + 4 <= w
    /\ \/ todo = <<DoCompile(last), DoCompile(nm), DoCompile(OpCompile), DoCompile(OpRun),
                   Do("setLast", w)>> /\ HeaderAt(w, nm, 0) /\ mem[H] \in {0, OpRun}
       \/ todo = <<DoCompile(nm), DoCompile(OpCompile), DoCompile(OpRun), Do("setLast", w)>>
            /\ HeaderAt(w, nm, 1)
       \/ todo = <<DoCompile(OpCompile), DoCompile(OpRun), Do("setLast", w)>> /\ HeaderAt(w, nm, 2)
       \/ todo = <<DoCompile(OpRun), Do("setLast", w)>> /\ HeaderAt(w, nm, 3)
       \/ todo = <<Do("setLast", w)>> /\ HeaderAt(w, nm, 4)
    /\ CodeOk(mem, defs, MemBase, w, Len(defs), C, C)
    /\ prog \in C /\ Inside(C)

Phase(C) == \/ Idle(C) \/ LookingUp(C) \/ AtHead(C) \/ Literal1(C) \/ Literal2(C)
            \/ Calling(C) \/ Copying(C) \/ Returning(C) \/ Defining(C)
Working == Base /\ Words /\ \E C \in SUBSET Word : Phase(C)
----------------------------------------------------------------------------
(* What the methods that change memory do, when they do not halt.          *)

LEMMA CodesAreNumbers ==
  /\ OpExit = 0 /\ OpDefine = 1 /\ OpImmediate = 2 /\ OpRead = 3 /\ OpGet = 4 /\ OpSet = 5
  /\ OpSub = 6 /\ OpMul = 7 /\ OpDiv = 8 /\ OpLess = 9 /\ OpEcho = 10 /\ OpKey = 11
  /\ OpPick = 12 /\ OpCompile = 13 /\ OpRun = 14 /\ OpPushint = 15 /\ OpCompIt = 16
  /\ OpLastBuiltin = 12 /\ Ops = 0 .. 16
BY DEF OpExit, OpDefine, OpImmediate, OpRead, OpGet, OpSet, OpSub, OpMul, OpDiv, OpLess, OpEcho,
   OpKey, OpPick, OpCompile, OpRun, OpPushint, OpCompIt, OpLastBuiltin, Ops

LEMMA MachineTypes ==
  ASSUME TypeOK
  PROVE  /\ mem \in Memory /\ DOMAIN mem = Word
         /\ \A a \in Word : mem[a] \in Word
         /\ H \in Word /\ R \in Word /\ RetBase \in Word /\ MemBase \in Word
         /\ prog \in Word /\ last \in Word /\ pos \in Nat
         /\ Len(calls) \in Nat /\ \A i \in 1 .. Len(calls) : calls[i] \in Word
         /\ Len(defs) \in Nat
         /\ \A i \in 1 .. Len(defs) : defs[i].word \in Word /\ defs[i].name \in Tokens \union {""}
<1>1. mem \in [Word -> Word] /\ calls \in Seq(Word) /\ pos \in Nat
  BY DEF TypeOK
<1>2. defs \in Seq([name : Tokens \union {""}, word : Word])
  BY DEF TypeOK
<1>3. Len(defs) \in Nat /\ \A i \in 1 .. Len(defs) : defs[i] \in [name : Tokens \union {""}, word : Word]
  BY <1>2, LenProperties, ElementOfSeq
<1>4. Len(calls) \in Nat /\ \A i \in 1 .. Len(calls) : calls[i] \in Word
  BY <1>1, LenProperties, ElementOfSeq
<1> QED BY <1>1, <1>3, <1>4, Layout DEF Memory

\* Room is left for the cell at H, and is used up with it.
LEMMA RoomIsLeft ==
  ASSUME IInv, NEW n \in Nat, Roomy(n)
  PROVE  /\ H + 1 < Top /\ H \in Nat
         /\ \A k \in Nat : k <= n => Roomy(k)
<1>1. H \in 0 .. Top - 1 /\ Top \in Nat /\ pos \in Nat /\ pos <= Len(Input) /\ Len(Input) \in Nat
  BY MachineTypes, WordFacts, InputAssumption, LenProperties DEF IInv, Word
<1>2. Limit \in 0 .. Top - 1
  BY LimitAssumption DEF Word
<1> QED BY <1>1, <1>2 DEF Roomy

LEMMA RoomIsUsed ==
  ASSUME IInv, NEW n \in Nat, Roomy(n + 1), CanStor(H), H' = H + 1, pos' = pos
  PROVE  Roomy(n)'
<1>1. H \in 0 .. Top - 1 /\ Top \in Nat /\ pos \in Nat /\ pos <= Len(Input) /\ Len(Input) \in Nat
  BY MachineTypes, WordFacts, InputAssumption, LenProperties DEF IInv, Word
<1>2. Limit \in 0 .. Top - 1 /\ H + 1 < Top
  BY LimitAssumption, RoomIsLeft DEF Word
<1>3. Limit = 0 \/ H + 1 <= Limit
  BY <1>1, <1>2 DEF CanStor, Plus1
<1> QED BY <1>1, <1>2, <1>3 DEF Roomy

LEMMA TokenMakesRoom ==
  ASSUME IInv, NEW n \in Nat, Roomy(n), H' = H, pos' = pos + 1, pos < Len(Input)
  PROVE  Roomy(n + 2)'
<1>1. H \in 0 .. Top - 1 /\ Top \in Nat /\ pos \in Nat /\ Len(Input) \in Nat
  BY MachineTypes, WordFacts, InputAssumption, LenProperties DEF IInv, Word
<1> QED BY <1>1 DEF Roomy

LEMMA RoomIsKept ==
  ASSUME NEW n, Roomy(n), H' = H, pos' = pos
  PROVE  Roomy(n)'
BY DEF Roomy

LEMMA CompiledCells ==
  ASSUME TypeOK, NEW v \in Word, 0 < H, H + 1 < Top
  PROVE  /\ Compiled(v) \in Memory
         /\ Compiled(v)[0] = H + 1 /\ Compiled(v)[H] = v
         /\ \A a \in Word : a # 0 /\ a # H => Compiled(v)[a] = mem[a]
<1>1. mem \in [Word -> Word] /\ H \in 0 .. Top - 1 /\ Top \in Nat /\ Top > 32
  BY MachineTypes, WordFacts DEF Word, Memory
<1>2. Plus1(H) = H + 1 /\ H + 1 \in Word /\ H + 1 # 0 /\ H \in Word /\ 0 \in Word
  BY <1>1 DEF Plus1, Word
<1>3. Compiled(v) = [[mem EXCEPT ![0] = H + 1] EXCEPT ![H] = v]
  BY <1>1, <1>2 DEF Compiled, Stored
<1> QED BY <1>1, <1>2, <1>3 DEF Memory

LEMMA ImmediateCells ==
  ASSUME TypeOK, 2 < H, Immediate, status' = "running"
  PROVE  /\ mem' \in Memory
         /\ mem'[0] = H - 1 /\ mem'[H - 2] = mem[H - 1]
         /\ \A a \in Word : a # 0 /\ a # H - 2 => mem'[a] = mem[a]
<1>1. mem \in [Word -> Word] /\ H \in 0 .. Top - 1 /\ Top \in Nat /\ Top > 32
  BY MachineTypes, WordFacts DEF Word, Memory
<1>2. /\ Minus1(H) = H - 1 /\ Minus1(H - 1) = H - 2 /\ Plus1(H - 2) # 0
      /\ H - 1 \in Word /\ H - 2 \in Word /\ H - 2 # 0 /\ 0 \in Word
  BY <1>1 DEF Minus1, Plus1, Word
<1>3. mem[H - 1] \in Word
  BY <1>1, <1>2
<1>4. mem' = [[mem EXCEPT ![H - 2] = mem[H - 1]] EXCEPT ![0] = H - 1]
  BY <1>1, <1>2 DEF Immediate, Stored
<1> QED BY <1>1, <1>2, <1>3, <1>4 DEF Memory
----------------------------------------------------------------------------
(* Calls and returns.                                                      *)

\* What calls and returns do not touch.
SameCells == \A a \in Word : a \in {0, 10, 11} \/ MemBase <= a => mem'[a] = mem[a]

LEMMA SameLayout ==
  ASSUME TypeOK, SameCells
  PROVE  /\ H' = H /\ RetBase' = RetBase /\ MemBase' = MemBase
         /\ Base /\ StackOk' => Base'
<1>1. H' = H /\ RetBase' = RetBase /\ MemBase' = MemBase
  BY WordFacts DEF SameCells, H, RetBase, MemBase
<1>2. ASSUME Base, StackOk' PROVE Base'
  <2>1. H \in 0 .. Top - 1 /\ MemBase \in 0 .. Top - 1
    BY MachineTypes DEF Word
  <2>2. \A a \in Word : a > H => mem'[a] = 0
    BY <1>2, <2>1 DEF Base, SameCells, Word
  <2> QED BY <1>1, <1>2, <2>2 DEF Base
<1> QED BY <1>1, <1>2

LEMMA CallCells ==
  ASSUME TypeOK, Base, NEW ret \in Word, NEW target \in Word, Call(ret, target),
         status' = "running"
  PROVE  /\ prog' = target /\ SameCells /\ Base'
         /\ Len(calls') = Len(calls) + 1 /\ calls'[Len(calls) + 1] = ret
         /\ \A i \in 1 .. Len(calls) : calls'[i] = calls[i]
<1>1. PushrFault(ret) = "none"
  BY DEF Call, Halts, PushrFault
<1>2. prog' = target /\ mem' = [Stored(mem, Plus1(R), ret) EXCEPT ![1] = Plus1(R)]
      /\ calls' = Append(calls, ret)
  BY <1>1 DEF Call
<1>3. /\ Len(calls') = Len(calls) + 1 /\ calls'[Len(calls) + 1] = ret
      /\ \A i \in 1 .. Len(calls) : calls'[i] = calls[i]
  <2>1. calls \in Seq(Word)
    BY DEF TypeOK
  <2> QED BY <1>2, <2>1, AppendProperties
<1>4. /\ mem \in [Word -> Word] /\ R \in 0 .. Top - 1 /\ Top \in Nat /\ Top > 32 /\ H \in Word
      /\ RetBase \in 0 .. Top - 1 /\ MemBase \in 0 .. Top - 1 /\ Len(calls) \in Nat
      /\ \A i \in 1 .. Len(calls) : calls[i] \in Word
  BY MachineTypes, WordFacts DEF Word, Memory
<1>5. 12 <= RetBase /\ R = RetBase - 1 + Len(calls) /\ RetBase + Len(calls) <= MemBase
  BY DEF Base, StackOk
<1>6. ~(R >= Minus1(MemBase))
  BY <1>1 DEF PushrFault
<1>7. R + 1 < MemBase /\ Plus1(R) = R + 1 /\ R + 1 \in Word /\ R + 1 >= 12 /\ Plus1(R + 1) # 0
  <2>1. Minus1(MemBase) = MemBase - 1 /\ 12 <= R + 1
    BY <1>4, <1>5 DEF Minus1
  <2>2. R + 1 < MemBase
    BY <1>4, <1>6, <2>1
  <2>3. Plus1(R) = R + 1 /\ Plus1(R + 1) # 0
    BY <1>4, <2>2 DEF Plus1
  <2> QED BY <1>4, <2>1, <2>2, <2>3 DEF Word
<1>8. mem' = [[mem EXCEPT ![R + 1] = ret] EXCEPT ![1] = R + 1]
  BY <1>2, <1>7 DEF Stored
<1>9. /\ mem'[1] = R + 1 /\ mem'[R + 1] = ret
      /\ \A a \in Word : a # 1 /\ a # R + 1 => mem'[a] = mem[a]
  BY <1>4, <1>7, <1>8, WordFacts
<1>10. SameCells
  BY <1>4, <1>5, <1>7, <1>9 DEF SameCells
<1>11. StackOk'
  <2>1. R' = R + 1 /\ RetBase' = RetBase /\ MemBase' = MemBase
    BY <1>9, <1>10, SameLayout DEF R
  <2>2. \A i \in 1 .. Len(calls) : mem'[RetBase - 1 + i] = calls[i]
    <3> TAKE i \in 1 .. Len(calls)
    <3>1. RetBase - 1 + i \in Word /\ RetBase - 1 + i # 1 /\ RetBase - 1 + i # R + 1
      <4>1. RetBase \in Int /\ MemBase \in Int /\ Len(calls) \in Int /\ Top \in Int /\ MemBase < Top
        BY <1>4
      <4> QED BY <1>5, <4>1 DEF Word
    <3>2. mem[RetBase - 1 + i] = calls[i]
      BY DEF Base, StackOk
    <3> QED BY <1>9, <3>1, <3>2
  <2>3. \A i \in 1 .. Len(calls) + 1 : mem'[RetBase - 1 + i] = calls'[i]
    <3> TAKE i \in 1 .. Len(calls) + 1
    <3>1. CASE i = Len(calls) + 1
      BY <1>3, <1>4, <1>5, <1>9, <3>1
    <3>2. CASE i \in 1 .. Len(calls)
      BY <1>3, <2>2, <3>2
    <3> QED BY <1>4, <3>1, <3>2
  <2> QED BY <1>3, <1>4, <1>5, <1>7, <2>1, <2>3 DEF StackOk
<1> QED BY <1>2, <1>3, <1>10, <1>11, SameLayout

LEMMA ExitCells ==
  ASSUME TypeOK, Base, NEW ret \in Word, Exit(ret), status' = "running", 0 < Len(calls)
  PROVE  /\ prog' = calls[Len(calls)] /\ SameCells /\ Base'
         /\ Len(calls') = Len(calls) - 1
         /\ \A i \in 1 .. Len(calls) - 1 : calls'[i] = calls[i]
<1>1. PoprFault = "none"
  BY DEF Exit, Halts, PoprFault
<1>2. calls # << >>
  <2>1. Len(<< >>) = 0
    OBVIOUS
  <2> QED BY <2>1
<1>3. prog' = mem[R] /\ mem' = [mem EXCEPT ![1] = Minus1(R)] /\ calls' = Front(calls)
  BY <1>1, <1>2 DEF Exit
<1>4. /\ mem \in [Word -> Word] /\ R \in 0 .. Top - 1 /\ Top \in Nat /\ Top > 32 /\ H \in Word
      /\ RetBase \in 0 .. Top - 1 /\ MemBase \in 0 .. Top - 1 /\ Len(calls) \in Nat
      /\ \A i \in 1 .. Len(calls) : calls[i] \in Word
  BY MachineTypes, WordFacts DEF Word, Memory
<1>5. Len(calls') = Len(calls) - 1 /\ \A i \in 1 .. Len(calls) - 1 : calls'[i] = calls[i]
  <2> DEFINE n == Len(calls) - 1
  <2>1. n \in Nat /\ n - 1 + 1 = n /\ \A i \in 1 .. n : calls[i] \in Word
    BY <1>4
  <2>2. calls' = SubSeq(calls, 1, n)
    BY <1>3 DEF Front
  <2> HIDE DEF n
  <2>3. /\ Len(SubSeq(calls, 1, n)) = n
        /\ \A i \in 1 .. n : SubSeq(calls, 1, n)[i] = calls[i]
    BY <2>1, SubSeqProperties
  <2> QED BY <2>2, <2>3 DEF n
<1>6. /\ 12 <= RetBase /\ R = RetBase - 1 + Len(calls) /\ RetBase + Len(calls) <= MemBase
      /\ \A i \in 1 .. Len(calls) : mem[RetBase - 1 + i] = calls[i]
  BY DEF Base, StackOk
<1>7. Minus1(R) = R - 1 /\ R - 1 \in Word /\ R > 11
  BY <1>4, <1>6 DEF Minus1, Word
<1>8. prog' = calls[Len(calls)]
  BY <1>3, <1>4, <1>6
<1>9. mem'[1] = R - 1 /\ \A a \in Word : a # 1 => mem'[a] = mem[a]
  BY <1>3, <1>4, <1>7, WordFacts
<1>10. SameCells
  BY <1>4, <1>6, <1>9 DEF SameCells
<1>11. StackOk'
  <2>1. R' = R - 1 /\ RetBase' = RetBase /\ MemBase' = MemBase
    BY <1>9, <1>10, SameLayout DEF R
  <2>2. \A i \in 1 .. Len(calls) - 1 : mem'[RetBase - 1 + i] = calls'[i]
    <3> TAKE i \in 1 .. Len(calls) - 1
    <3>1. RetBase - 1 + i \in Word /\ RetBase - 1 + i # 1
      BY <1>4, <1>6 DEF Word
    <3> QED BY <1>4, <1>5, <1>6, <1>9, <3>1
  <2> QED BY <1>4, <1>5, <1>6, <2>1, <2>2 DEF StackOk
<1> QED BY <1>5, <1>8, <1>10, <1>11, SameLayout

LEMMA StackIsKept ==
  ASSUME TypeOK, Base, UNCHANGED calls,
         \A a \in Word : a # 0 /\ a < MemBase => mem'[a] = mem[a]
  PROVE  /\ StackOk' /\ RetBase' = RetBase /\ MemBase' = MemBase /\ 12 <= RetBase
<1>1. /\ 12 <= RetBase /\ R = RetBase - 1 + Len(calls) /\ RetBase + Len(calls) <= MemBase
      /\ \A i \in 1 .. Len(calls) : mem[RetBase - 1 + i] = calls[i]
  BY DEF Base, StackOk
<1>2. /\ RetBase \in 0 .. Top - 1 /\ MemBase \in 0 .. Top - 1 /\ Len(calls) \in Nat /\ Top \in Nat
  BY MachineTypes, WordFacts DEF Word
<1>3. R' = R /\ RetBase' = RetBase /\ MemBase' = MemBase
  BY <1>1, <1>2, WordFacts DEF R, RetBase, MemBase
<1>4. \A i \in 1 .. Len(calls) : mem'[RetBase - 1 + i] = calls[i]
  <2> TAKE i \in 1 .. Len(calls)
  <2>1. RetBase - 1 + i \in Word /\ RetBase - 1 + i # 0 /\ RetBase - 1 + i < MemBase
    BY <1>1, <1>2 DEF Word
  <2> QED BY <1>1, <2>1
<1> QED BY <1>1, <1>3, <1>4 DEF StackOk
----------------------------------------------------------------------------
(* What has been called.                                                   *)

LEMMA MainCalls ==
  ASSUME TypeOK, Len(calls') = Len(calls) + 1, UNCHANGED defs,
         \A i \in 1 .. Len(calls) : calls'[i] = calls[i],
         NEW k \in 0 .. Len(calls), InMain(k)
  PROVE  /\ calls'[Len(calls) + 1] = Entry(defs) + 2 => InMain(k + 1)' /\ k + 1 \in 0 .. Len(calls')
         /\ calls'[Len(calls) + 1] = Entry(defs) + 1
              => \A X : InCode(k, X)' /\ k \in 0 .. Len(calls')
<1>1. Len(calls) \in Nat
  BY MachineTypes
<1> QED BY <1>1 DEF InMain, InCode

LEMMA CodeCalls ==
  ASSUME TypeOK, Len(calls') = Len(calls) + 1, UNCHANGED defs,
         \A i \in 1 .. Len(calls) : calls'[i] = calls[i],
         NEW k \in 0 .. Len(calls), NEW X, InCode(k, X), calls'[Len(calls) + 1] \in X
  PROVE  InCode(k, X)' /\ k \in 0 .. Len(calls')
<1>1. Len(calls) \in Nat
  BY MachineTypes
<1> QED BY <1>1 DEF InCode

LEMMA CodeReturns ==
  ASSUME TypeOK, Len(calls') = Len(calls) - 1, UNCHANGED defs,
         \A i \in 1 .. Len(calls) - 1 : calls'[i] = calls[i],
         NEW k \in 0 .. Len(calls), NEW X, InCode(k, X)
  PROVE  /\ 0 < Len(calls) /\ k \in 0 .. Len(calls')
         /\ \/ calls[Len(calls)] = Entry(defs) + 1 /\ InMain(k)'
            \/ calls[Len(calls)] \in X /\ InCode(k, X)'
<1>0. Len(calls) \in Nat
  BY MachineTypes
<1>1. Len(calls) \in Nat /\ k \in Nat
  BY <1>0
<1>2. k < Len(calls)
  BY DEF InCode
<1>3. CASE Len(calls) = k + 1
  BY <1>1, <1>3 DEF InMain, InCode
<1>4. CASE Len(calls) > k + 1
  BY <1>1, <1>4 DEF InCode
<1> QED BY <1>1, <1>2, <1>3, <1>4

LEMMA MoreCode ==
  ASSUME NEW k, NEW X, NEW Y, X \subseteq Y, InCode(k, X), UNCHANGED <<calls, defs>>
  PROVE  InCode(k, Y)'
BY DEF InCode
----------------------------------------------------------------------------
(* The dictionary and the code in a memory that grows.                     *)

\* The definitions are those of before, perhaps with more of them, and the
\* strings too.
Longer(s, t) == Len(s) <= Len(t) /\ \A i \in 1 .. Len(s) : t[i] = s[i]

SameCode(m, m2, base, end) == \A a \in Word : base <= a /\ a < end => m2[a] = m[a]

LEMMA DictFacts ==
  ASSUME TypeOK, NEW st, NEW base \in Nat, Dict(mem, defs, st, base)
  PROVE  /\ \A i \in 1 .. Len(defs) : base <= defs[i].word
         /\ \A i \in 1 .. Len(defs), j \in 1 .. Len(defs) :
              i < j => defs[i].word + Span(i) <= defs[j].word
         /\ \A i \in 1 .. Len(defs) : defs[i].word <= defs[Len(defs)].word
<1>1. Len(defs) \in Nat
  BY MachineTypes
<1>2. \A i \in 1 .. Len(defs) : base <= defs[i].word
  BY DEF Dict
<1>3. \A i \in 1 .. Len(defs), j \in 1 .. Len(defs) :
        i < j => defs[i].word + Span(i) <= defs[j].word
  <2> TAKE i \in 1 .. Len(defs), j \in 1 .. Len(defs)
  <2>1. CASE i < j
    <3>1. j \in i + 1 .. Len(defs)
      BY <1>1, <2>1
    <3> QED BY <3>1 DEF Dict
  <2> QED BY <2>1
<1>4. \A i \in 1 .. Len(defs) : defs[i].word <= defs[Len(defs)].word
  <2> TAKE i \in 1 .. Len(defs)
  <2>1. defs[i].word \in 0 .. Top - 1 /\ defs[Len(defs)].word \in 0 .. Top - 1 /\ Top \in Nat
    <3>1. Len(defs) \in 1 .. Len(defs)
      BY <1>1
    <3> QED BY <3>1, MachineTypes, WordFacts DEF Word
  <2>2. CASE i < Len(defs)
    <3>1. defs[i].word + Span(i) <= defs[Len(defs)].word
      BY <1>1, <1>3, <2>2
    <3>2. Span(i) \in Nat
      BY DEF Span
    <3> QED BY <2>1, <3>1, <3>2
  <2>3. CASE i = Len(defs)
    BY <2>1, <2>3
  <2> QED BY <1>1, <2>2, <2>3
<1> QED BY <1>2, <1>3, <1>4

LEMMA DictIsKept ==
  ASSUME TypeOK, TypeOK', NEW base \in Nat, NEW end \in 0 .. Top, Dict(mem, defs, strings, base),
         \A i \in 1 .. Len(defs) : defs[i].word + 2 <= end,
         UNCHANGED defs, Longer(strings, strings'),
         SameCode(mem, mem', base, end)
  PROVE  Dict(mem', defs', strings', base)
<1>1. Len(defs) \in Nat /\ Len(strings) \in Nat /\ Top \in Nat
  BY MachineTypes, WordFacts, LenProperties DEF TypeOK
<1>2. Len(strings) <= Len(strings') /\ \A i \in 1 .. Len(strings) : strings'[i] = strings[i]
  BY DEF Longer
<1>3. SUFFICES ASSUME NEW i \in 1 .. Len(defs)
               PROVE  /\ mem'[defs[i].word] = mem[defs[i].word]
                      /\ SymbolOk(mem', strings', i, defs[i])
  BY DEF Dict
<1>4. PICK w \in 0 .. Top - 1 : w = defs[i].word /\ base <= w /\ w + 2 <= end
  BY MachineTypes DEF Dict, Word
<1>5. mem'[w] = mem[w] /\ mem'[w + 1] = mem[w + 1]
  <2>1. w \in Word /\ w + 1 \in Word
    BY <1>1, <1>4 DEF Word
  <2>2. base <= w + 1 /\ w < end /\ w + 1 < end
    BY <1>1, <1>4
  <2> QED BY <1>4, <2>1, <2>2 DEF SameCode
<1>6. SymbolOk(mem, strings, i, defs[i])
  BY DEF Dict
<1>7. Len(strings') \in Nat
  BY LenProperties DEF TypeOK
<1>8. CASE i = 1
  BY <1>4, <1>5, <1>6, <1>8 DEF SymbolOk
<1>9. CASE i > 1
  <2>1. mem[w + 1] \in 1 .. Len(strings) /\ strings[mem[w + 1]] = defs[i].name
    BY <1>4, <1>6, <1>9 DEF SymbolOk
  <2>2. mem'[w + 1] \in 1 .. Len(strings') /\ strings'[mem'[w + 1]] = defs[i].name
    BY <1>1, <1>2, <1>5, <1>7, <2>1
  <2> QED BY <1>4, <1>5, <1>9, <2>2 DEF SymbolOk
<1> QED BY <1>1, <1>8, <1>9

LEMMA BuiltinIsKept ==
  ASSUME NEW m, NEW m2, NEW base \in Nat, NEW end \in 0 .. Top, NEW w \in Word, base <= w,
         SameCode(m, m2, base, end),
         NEW i \in 2 .. 14, BuiltinHead(m, i, w), w + Span(i) <= end
  PROVE  BuiltinHead(m2, i, w)
<1>1. Top \in Nat
  BY WordFacts
<1>2. w + 2 < end /\ w + 3 < end /\ (i > 4 => w + 4 < end)
  BY <1>1 DEF Span, Word
<1>3. /\ w + 2 \in Word /\ w + 3 \in Word /\ (i > 4 => w + 4 \in Word)
      /\ base <= w + 2 /\ base <= w + 3 /\ base <= w + 4
  BY <1>1, <1>2 DEF Word
<1>4. m2[w + 2] = m[w + 2] /\ m2[w + 3] = m[w + 3] /\ (i > 4 => m2[w + 4] = m[w + 4])
  BY <1>2, <1>3 DEF SameCode
<1> QED BY <1>4 DEF BuiltinHead

LEMMA UserIsKept ==
  ASSUME NEW m, NEW m2, NEW base \in Nat, NEW end \in 0 .. Top, NEW w \in Word, base <= w,
         SameCode(m, m2, base, end),
         NEW X \in SUBSET Word, NEW Y \in SUBSET Word, X \subseteq Y, \A a \in X : a <= end,
         UserHead(m, w, X), w + 3 <= end
  PROVE  UserHead(m2, w, Y)
<1>1. Top \in Nat
  BY WordFacts
<1>2. w + 2 < end /\ w + 2 \in Word /\ base <= w + 2
  BY <1>1 DEF Word
<1>3. m2[w + 2] = m[w + 2]
  BY <1>2 DEF SameCode
<1>4. CASE m[w + 2] = OpCompile /\ m[w + 3] = OpRun /\ w + 4 \in X
  <2>1. w + 3 < end /\ w + 3 \in Word /\ base <= w + 3
    BY <1>1, <1>4 DEF Word
  <2> QED BY <1>3, <1>4, <2>1 DEF UserHead, SameCode
<1>5. CASE m[w + 2] = OpRun /\ w + 3 \in X
  BY <1>3, <1>5 DEF UserHead
<1> QED BY <1>4, <1>5 DEF UserHead

\* A store at the end adds the cells in D to the code.
LEMMA CodeGrows ==
  ASSUME TypeOK, TypeOK', NEW base \in Nat, NEW end \in 0 .. Top, NEW end2 \in 0 .. Top,
         NEW n \in 14 .. Len(defs),
         NEW C \in SUBSET Word, NEW X \in SUBSET Word, CodeOk(mem, defs, base, end, n, C, X),
         \A i \in 1 .. Len(defs) : base <= defs[i].word, Longer(defs, defs'),
         SameCode(mem, mem', base, end),
         NEW D, NEW Y \in SUBSET Word, X \subseteq Y, C \subseteq D, D \subseteq Y, end <= end2,
         \A a \in Y : base <= a /\ a <= end2,
         \A a \in D \ C : a < end2 /\ CellOk(mem', defs', a, Y)
  PROVE  CodeOk(mem', defs', base, end2, n, D, Y)
<1>1. Len(defs) \in Nat /\ Top \in Nat /\ Len(defs') \in Nat /\ Len(defs) <= Len(defs')
      /\ \A i \in 1 .. Len(defs) : defs'[i] = defs[i] /\ defs[i].word \in Word
  BY MachineTypes, WordFacts, LenProperties DEF Longer, TypeOK
<1>2. HeadsOk(mem', defs', n, Y)
  <2> SUFFICES ASSUME NEW i \in 2 .. n
               PROVE  IF i <= 14 THEN BuiltinHead(mem', i, defs'[i].word)
                                 ELSE UserHead(mem', defs'[i].word, Y)
    BY DEF HeadsOk
  <2>1. i \in 1 .. Len(defs) /\ defs'[i] = defs[i] /\ defs[i].word \in Word /\ base <= defs[i].word
    BY <1>1
  <2>2. defs[i].word + (IF i <= 14 THEN Span(i) ELSE 3) <= end
    BY DEF CodeOk
  <2>3. IF i <= 14 THEN BuiltinHead(mem, i, defs[i].word) ELSE UserHead(mem, defs[i].word, X)
    BY DEF CodeOk, HeadsOk
  <2>4. \A a \in X : a <= end
    BY DEF CodeOk
  <2>5. CASE i <= 14
    <3>1. BuiltinHead(mem, i, defs[i].word) /\ defs[i].word + Span(i) <= end /\ i \in 2 .. 14
      BY <2>2, <2>3, <2>5
    <3>2. BuiltinHead(mem', i, defs[i].word)
      BY <2>1, <3>1, BuiltinIsKept
    <3> QED BY <2>1, <2>5, <3>2
  <2>6. CASE i > 14
    <3>1. UserHead(mem, defs[i].word, X) /\ defs[i].word + 3 <= end
      BY <2>2, <2>3, <2>6
    <3>2. UserHead(mem', defs[i].word, Y)
      BY <2>1, <2>4, <3>1, UserIsKept
    <3> QED BY <2>1, <2>6, <3>2
  <2> QED BY <2>5, <2>6
<1>3. \A i \in 2 .. n : defs'[i].word + (IF i <= 14 THEN Span(i) ELSE 3) <= end2
  <2> TAKE i \in 2 .. n
  <2>1. i \in 1 .. Len(defs) /\ defs'[i] = defs[i] /\ defs[i].word \in Word
    BY <1>1
  <2>2. defs[i].word + (IF i <= 14 THEN Span(i) ELSE 3) <= end
    BY DEF CodeOk
  <2>3. (IF i <= 14 THEN Span(i) ELSE 3) \in Nat
    BY DEF Span
  <2> QED BY <1>1, <2>1, <2>2, <2>3 DEF Word
<1>4. defs'[3].word + 3 \in D /\ defs'[4].word + 3 \in D
  BY <1>1 DEF CodeOk
<1>5. \A a \in C : a < end2 /\ CellOk(mem', defs', a, Y)
  <2> TAKE a \in C
  <2>1. a \in Word /\ a < end /\ base <= a /\ CellOk(mem, defs, a, X)
    BY DEF CodeOk
  <2>2. mem'[a] = mem[a] /\ a < end2
    BY <1>1, <2>1 DEF Word, SameCode
  <2>3. \A v \in Codes(defs) : v \in Codes(defs')
    BY <1>1 DEF Codes
  <2> QED BY <2>1, <2>2, <2>3 DEF CellOk
<1> QED BY <1>2, <1>3, <1>4, <1>5 DEF CodeOk

LEMMA WordsAreKept ==
  ASSUME TypeOK, TypeOK', Words, UNCHANGED <<last, defs>>, NEW end \in 0 .. Top, last + 2 <= end,
         pos' = pos \/ pos' = pos + 1, Longer(strings, strings'), MemBase' = MemBase,
         SameCode(mem, mem', MemBase, end)
  PROVE  Words'
<1>1. /\ Len(defs) \in Nat /\ 14 <= Len(defs) /\ pos \in Nat /\ Top \in Nat
      /\ last = defs[Len(defs)].word /\ MemBase \in Nat
      /\ \A i \in 1 .. Len(defs) : defs[i].word \in Nat
  <2>1. Top \in Nat /\ Word \subseteq Nat
    BY WordFacts DEF Word
  <2> QED BY <2>1, MachineTypes DEF Words
<1>2. Dict(mem, defs, strings, MemBase)
  BY DEF Words
<1>3. \A i \in 1 .. Len(defs) : defs[i].word <= last
  BY <1>1, <1>2, DictFacts
<1>4. Dict(mem', defs', strings', MemBase)
  <2>1. \A i \in 1 .. Len(defs) : defs[i].word + 2 <= end
    BY <1>1, <1>3
  <2>2. UNCHANGED defs
    OBVIOUS
  <2> QED BY <1>1, <1>2, <2>1, <2>2, DictIsKept
<1>5. MainLoop(mem', defs')
  <2>1. Span(1) = 6 /\ defs[1].word + Span(1) <= defs[14].word /\ MemBase <= defs[1].word
    BY <1>1, <1>2, DictFacts DEF Span
  <2>2. PICK w \in Nat : w = defs[1].word
    BY <1>1
  <2>3. w + 6 <= end /\ MemBase <= w
    BY <1>1, <1>3, <2>1, <2>2
  <2>4. w + 3 \in Word /\ w + 4 \in Word /\ w + 5 \in Word
    <3>1. Top \in Nat /\ end \in Nat /\ end <= Top
      BY <1>1
    <3> QED BY <2>3, <3>1 DEF Word
  <2>5. mem'[w + 3] = mem[w + 3] /\ mem'[w + 4] = mem[w + 4] /\ mem'[w + 5] = mem[w + 5]
    BY <1>1, <2>3, <2>4 DEF SameCode
  <2>6. w + 3 + 1 = w + 4 /\ w + 3 + 2 = w + 5
    OBVIOUS
  <2> QED BY <2>2, <2>5, <2>6 DEF Words, MainLoop, Entry
<1> QED BY <1>1, <1>4, <1>5 DEF Words
----------------------------------------------------------------------------
(* What happens next.                                                      *)

\* What is left to do is done first.
LEMMA NextJob ==
  ASSUME Next, Running, todo # << >>
  PROVE  \/ Head(todo).do = "compile" /\ CompileMore
         \/ Head(todo).do = "setLast" /\ SetLastMore
         \/ Head(todo).do = "immediate" /\ ImmediateMore
         \/ Head(todo).do = "exit" /\ ExitMore
         \/ Head(todo).do = "inline" /\ InlineMore
         \/ Head(todo).do = "entry" /\ EntryMore
         \/ Head(todo).do = "builtin" /\ (BuiltinMore \/ EndOfInput)
         \/ Head(todo).do = "compileit" /\ CompItMore
         \/ Head(todo).do = "lookup" /\ (LookupCall \/ LookupMore \/ LookupLiteral)
<1>1. ~Start
  BY DEF Start, Running
<1>2. ~Stepping /\ \A op : ~Exec(op)
  BY DEF Stepping, Exec
<1>3. ~Step
  BY <1>2 DEF Step, FetchPastLimit, CallStep, ExitStep, DefineStep, ImmediateStep,
     ReadStep, CompileStep, RunStep, PushintStep, CompItStep, SubStep, MulStep, LessStep,
     EchoStep, DivStep, GetStep, SetStep, PickStep, KeyStep, StackUnderflow, Underflow, Pops
<1>4. EndOfInput => Head(todo).do = "builtin"
  BY <1>2 DEF EndOfInput, Pending
<1>5. More \/ EndOfInput
  BY <1>1, <1>3 DEF Next
<1>6. CASE More
  BY <1>6 DEF More, CompileMore, SetLastMore, ImmediateMore, ExitMore, InlineMore, EntryMore,
     BuiltinMore, CompItMore, LookupCall, LookupFound, LookupMore, LookupLiteral, Pending
<1> QED BY <1>4, <1>5, <1>6

\* The primitives that only take from the stack and give to it.
StackOps == {OpGet, OpSub, OpMul, OpDiv, OpLess, OpEcho, OpKey, OpPick}
Computes ==
  /\ prog' = After /\ UNCHANGED <<mem, last, strings, todo, token, form, calls, defs>>
  /\ pos' = pos \/ (pos' = pos + 1 /\ pos < Len(Input))

LEMMA NextCode ==
  ASSUME Next, Running, todo = << >>, status' = "running"
  PROVE  /\ prog \in Cells
         /\ \/ mem[prog] \notin Ops /\ CallStep
            \/ mem[prog] = OpExit /\ ExitStep
            \/ mem[prog] = OpDefine /\ DefineStep
            \/ mem[prog] = OpImmediate /\ ImmediateStep
            \/ mem[prog] = OpRead /\ ReadStep
            \/ mem[prog] = OpSet
            \/ mem[prog] = OpCompile /\ CompileStep
            \/ mem[prog] = OpRun /\ RunStep
            \/ mem[prog] = OpPushint /\ PushintStep
            \/ mem[prog] = OpCompIt /\ CompItStep
            \/ mem[prog] \in StackOps /\ Computes
<1>1. ~Start /\ ~More
  BY DEF Start, Running, More, EntryMore, BuiltinMore, InlineMore, CompileMore, SetLastMore,
     ImmediateMore, ExitMore, CompItMore, LookupCall, LookupFound, LookupMore, LookupLiteral, Pending
<1>2. ~EndOfInput /\ ~FetchPastLimit /\ ~StackUnderflow
  BY DEF EndOfInput, FetchPastLimit, StackUnderflow, Underflow
<1>3. Step
  BY <1>1, <1>2 DEF Next
<1>4. CASE CallStep \/ ExitStep \/ DefineStep \/ ImmediateStep \/ ReadStep \/ CompileStep
           \/ RunStep \/ PushintStep \/ CompItStep
  BY <1>4 DEF CallStep, ExitStep, DefineStep, ImmediateStep, ReadStep, CompileStep,
     RunStep, PushintStep, CompItStep, Exec
<1>5. CASE SubStep \/ MulStep \/ LessStep \/ EchoStep \/ DivStep \/ GetStep \/ PickStep
  BY <1>5 DEF SubStep, MulStep, LessStep, EchoStep, DivStep, GetStep, PickStep, Pops, Exec,
     RestUnchanged, history, StackOps, Computes
<1>6. CASE SetStep
  BY <1>6 DEF SetStep, Pops, Exec
<1>7. CASE KeyStep
  BY <1>7 DEF KeyStep, Exec, history, StackOps, Computes
<1> QED BY <1>2, <1>3, <1>4, <1>5, <1>6, <1>7 DEF Step
----------------------------------------------------------------------------
(* The code that is built.                                                 *)

LEMMA WordNumbers ==
  ASSUME TypeOK, Words
  PROVE  /\ Top \in Nat /\ last \in 0 .. Top - 1 /\ H \in 0 .. Top - 1 /\ MemBase \in 0 .. Top - 1
         /\ prog \in 0 .. Top - 1
         /\ Len(defs) \in Nat /\ 14 <= Len(defs) /\ last = defs[Len(defs)].word
         /\ \A i \in 1 .. Len(defs) : /\ defs[i].word \in 0 .. Top - 1 /\ defs[i].word <= last
                                      /\ MemBase <= defs[i].word /\ 14 <= defs[i].word
                                      /\ i < Len(defs) => defs[i].word + Span(i) <= last
         /\ Entry(defs) \in Nat /\ 17 <= Entry(defs) /\ Entry(defs) + 3 <= last
         /\ MemBase <= Entry(defs)
<1>1. /\ Len(defs) \in Nat /\ 14 <= Len(defs) /\ Top \in Nat
      /\ last = defs[Len(defs)].word /\ 14 <= defs[1].word
  BY MachineTypes, WordFacts DEF Words
<1>2. /\ last \in 0 .. Top - 1 /\ H \in 0 .. Top - 1 /\ MemBase \in 0 .. Top - 1
      /\ prog \in 0 .. Top - 1
      /\ \A i \in 1 .. Len(defs) : defs[i].word \in 0 .. Top - 1
  BY MachineTypes DEF Word
<1>3. /\ \A i \in 1 .. Len(defs) : MemBase <= defs[i].word /\ defs[i].word <= last
      /\ \A i \in 1 .. Len(defs), j \in 1 .. Len(defs) :
           i < j => defs[i].word + Span(i) <= defs[j].word
  BY <1>1, <1>2, DictFacts DEF Words
<1>4. Span(1) = 6 /\ defs[1].word + Span(1) <= defs[Len(defs)].word
  BY <1>1, <1>3 DEF Span
<1>5. \A i \in 1 .. Len(defs) : 14 <= defs[i].word
  <2> TAKE i \in 1 .. Len(defs)
  <2>1. CASE i > 1
    <3>1. defs[1].word + Span(1) <= defs[i].word
      BY <1>1, <1>3, <2>1
    <3> QED BY <1>1, <1>2, <1>4, <3>1
  <2> QED BY <1>1, <2>1
<1>6. \A i \in 1 .. Len(defs) : i < Len(defs) => defs[i].word + Span(i) <= last
  BY <1>1, <1>3
<1>7. /\ Entry(defs) \in Nat /\ 17 <= Entry(defs) /\ Entry(defs) + 3 <= last
      /\ MemBase <= Entry(defs)
  <2>1. PICK w \in 0 .. Top - 1 : w = defs[1].word
    BY <1>1, <1>2
  <2>2. MemBase <= w /\ 14 <= w /\ w + 6 <= last
    BY <1>1, <1>3, <1>4, <2>1
  <2> QED BY <1>1, <1>2, <2>1, <2>2 DEF Entry
<1> QED BY <1>1, <1>2, <1>3, <1>5, <1>6, <1>7

LEMMA SameCellsKeepWords ==
  ASSUME IInv, IInv', Base, Words, SameCells, UNCHANGED <<last, defs>>, last + 3 <= H,
         pos' = pos \/ pos' = pos + 1, UNCHANGED strings
  PROVE  Words'
<1>1. TypeOK /\ TypeOK' /\ Longer(strings, strings')
  <2>1. Len(strings) \in Nat
    BY LenProperties DEF IInv, TypeOK
  <2> QED BY <2>1 DEF IInv, Longer
<1>2. Top \in Nat /\ Top \in 0 .. Top /\ last + 2 <= Top /\ MemBase' = MemBase
  BY <1>1, WordNumbers, SameLayout
<1>3. SameCode(mem, mem', MemBase, Top)
  BY DEF SameCode, SameCells
<1> QED BY <1>1, <1>2, <1>3, WordsAreKept

LEMMA BuiltIsKept ==
  ASSUME IInv, IInv', Base, Words, SameCells, UNCHANGED <<last, defs>>,
         NEW C \in SUBSET Word, NEW X \in SUBSET Word, NEW n \in Nat, Built(C, X, n)
  PROVE  Built(C, X, n)' /\ mem'[H] = mem[H] /\ H' = H
<1>1. TypeOK /\ TypeOK' /\ H' = H /\ MemBase' = MemBase
  BY SameLayout DEF IInv
<1>2. /\ Top \in Nat /\ last \in 0 .. Top - 1 /\ H \in 0 .. Top - 1 /\ MemBase \in 0 .. Top - 1
      /\ Len(defs) \in Nat /\ 14 <= Len(defs) /\ MemBase <= last /\ MemBase <= H
      /\ \A i \in 1 .. Len(defs) : MemBase <= defs[i].word
  BY <1>1, WordNumbers DEF Base
<1>3. \A a \in 0 .. Top - 1 : MemBase <= a => mem'[a] = mem[a]
  BY DEF SameCells, Word
<1>4. mem'[H] = mem[H]
  BY <1>2, <1>3
<1>5. Free(X)'
  BY <1>1, <1>4 DEF Built, Free
<1>6. Sealed => Sealed'
  <2> HAVE Sealed
  <2>1. last + 2 \in 0 .. Top - 1 /\ last + 3 \in 0 .. Top - 1
    BY <1>2 DEF Sealed
  <2>2. mem'[last + 2] = mem[last + 2] /\ mem'[last + 3] = mem[last + 3]
    BY <1>2, <1>3, <2>1
  <2> QED BY <1>1, <1>4, <2>2 DEF Sealed
<1>7. n \in 14 .. Len(defs)
  BY <1>2 DEF Built, Sealed
<1>8. CodeOk(mem, defs, MemBase, H, n, C, X)
  BY DEF Built
<1>9. Longer(defs, defs') /\ SameCode(mem, mem', MemBase, H)
  BY <1>2 DEF Longer, SameCode, SameCells
<1>10. (\A a \in X : MemBase <= a /\ a <= H) /\ C \subseteq X
  BY <1>8 DEF CodeOk
<1>11. CodeOk(mem', defs', MemBase, H, n, C, X)
  <2>1. H \in 0 .. Top /\ MemBase \in Nat /\ H <= H
    BY <1>2
  <2> QED BY <1>1, <1>2, <1>7, <1>8, <1>9, <1>10, <2>1, CodeGrows
<1> QED BY <1>1, <1>4, <1>5, <1>6, <1>11 DEF Built

\* One cell is compiled.
CompilesCell(v) ==
  /\ H' = H + 1 /\ mem'[H] = v /\ \A a \in Word : a # 0 /\ a # H => mem'[a] = mem[a]
  /\ UNCHANGED <<last, defs, strings, calls, pos>>

LEMMA CompileKeepsWords ==
  ASSUME IInv, IInv', Base, H + 1 < Top, NEW v, CompilesCell(v)
  PROVE  /\ Base' /\ MemBase' = MemBase /\ SameCode(mem, mem', MemBase, H) /\ mem'[H + 1] = 0
         /\ Words /\ last + 3 <= H => Words'
<1>1. TypeOK /\ TypeOK'
  BY DEF IInv
<1>2. H \in 0 .. Top - 1 /\ MemBase \in 0 .. Top - 1 /\ Top \in Nat
  BY <1>1, MachineTypes, WordFacts DEF Word
<1>3. /\ 12 <= RetBase /\ MemBase <= H /\ 14 <= H
      /\ \A a \in Word : a > H => mem[a] = 0
  BY DEF Base
<1>4. StackOk' /\ RetBase' = RetBase /\ MemBase' = MemBase
  <2>1. \A a \in Word : a # 0 /\ a < MemBase => mem'[a] = mem[a]
    BY <1>2, <1>3 DEF CompilesCell, Word
  <2> QED BY <1>1, <2>1, StackIsKept DEF CompilesCell
<1>5. \A a \in Word : a > H + 1 => mem'[a] = 0
  BY <1>2, <1>3 DEF CompilesCell, Word
<1>6. Base'
  <2>1. H' = H + 1 /\ H + 1 >= 14 /\ MemBase <= H + 1
    BY <1>2, <1>3 DEF CompilesCell
  <2> QED BY <1>3, <1>4, <1>5, <2>1 DEF Base
<1>7. mem'[H + 1] = 0
  <2>1. H + 1 \in Word /\ H + 1 > H /\ H + 1 # 0 /\ H + 1 # H
    BY <1>2 DEF Word
  <2> QED BY <1>3, <2>1 DEF CompilesCell
<1>8. SameCode(mem, mem', MemBase, H)
  <2>1. 12 <= MemBase
    <3>1. RetBase \in Nat /\ Len(calls) \in Nat
      <4>1. RetBase \in Word /\ Len(calls) \in Nat
        BY <1>1, MachineTypes
      <4> QED BY <1>2, <4>1 DEF Word
    <3> QED BY <1>2, <1>3, <3>1 DEF Base, StackOk
  <2> QED BY <1>2, <2>1 DEF SameCode, CompilesCell
<1>9. ASSUME Words, last + 3 <= H PROVE Words'
  <2>1. Len(strings) \in Nat
    BY <1>1, LenProperties DEF TypeOK
  <2>2. Longer(strings, strings') /\ pos' = pos /\ UNCHANGED <<last, defs>>
    BY <2>1 DEF Longer, CompilesCell
  <2>3. H \in 0 .. Top
    BY <1>2
  <2>4. last + 2 <= H
    <3>1. last \in Word
      BY <1>1, MachineTypes
    <3>2. last \in Nat
      BY <1>2, <3>1 DEF Word
    <3> QED BY <1>2, <1>9, <3>2
  <2> QED BY <1>1, <1>4, <1>8, <1>9, <2>2, <2>3, <2>4, WordsAreKept
<1> QED BY <1>4, <1>6, <1>7, <1>8, <1>9

LEMMA CompileBuilds ==
  ASSUME IInv, IInv', Base, Words, H + 1 < Top, NEW v, CompilesCell(v),
         NEW C \in SUBSET Word, NEW X \in SUBSET Word, Built(C, X, Len(defs)),
         NEW D \in SUBSET Word, NEW Y \in SUBSET Word,
         C \subseteq D, D \subseteq C \union {H}, X \subseteq Y, D \subseteq Y,
         Y \subseteq X \union {H, H + 1},
         H \in D => CellOk(mem', defs, H, Y)
  PROVE  Base' /\ Words' /\ Built(D, Y, Len(defs))'
<1>1. TypeOK /\ TypeOK' /\ H' = H + 1 /\ UNCHANGED <<last, defs>>
  BY DEF IInv, CompilesCell
<1>2. /\ Top \in Nat /\ last \in 0 .. Top - 1 /\ H \in 0 .. Top - 1 /\ MemBase \in 0 .. Top - 1
      /\ Len(defs) \in Nat /\ 14 <= Len(defs) /\ MemBase <= last /\ MemBase <= H
      /\ \A i \in 1 .. Len(defs) : MemBase <= defs[i].word
  BY <1>1, WordNumbers DEF Base
<1>3. last + 3 <= H
  BY <1>2 DEF Built, Free
<1>4. Base' /\ Words' /\ MemBase' = MemBase /\ SameCode(mem, mem', MemBase, H) /\ mem'[H + 1] = 0
  BY <1>3, CompileKeepsWords
<1>5. Free(Y)'
  BY <1>1, <1>2, <1>3, <1>4 DEF Free
<1>6. CodeOk(mem, defs, MemBase, H, Len(defs), C, X)
  BY DEF Built
<1>7. \A a \in Y : MemBase <= a /\ a <= H + 1
  <2> TAKE a \in Y
  <2>1. a \in Nat
    BY <1>2 DEF Word
  <2>2. a \in X => MemBase <= a /\ a <= H
    BY <1>6 DEF CodeOk
  <2> QED BY <1>2, <2>1, <2>2
<1>8. \A a \in D \ C : a < H + 1 /\ CellOk(mem', defs', a, Y)
  BY <1>1, <1>2
<1>9. CodeOk(mem', defs', MemBase, H + 1, Len(defs), D, Y)
  <2>1. H \in 0 .. Top /\ H + 1 \in 0 .. Top /\ MemBase \in Nat /\ H <= H + 1
        /\ Len(defs) \in 14 .. Len(defs) /\ Longer(defs, defs')
    BY <1>1, <1>2 DEF Longer
  <2> QED BY <1>1, <1>2, <1>4, <1>6, <1>7, <1>8, <2>1, CodeGrows
<1> QED BY <1>1, <1>4, <1>5, <1>9 DEF Built
----------------------------------------------------------------------------
(* Code is compiled, and the word that did it returns.                     *)

LEMMA JobLists ==
  ASSUME NEW a, NEW b, NEW c, NEW d, NEW e
  PROVE  /\ Head(<<a>>) = a /\ Tail(<<a>>) = << >> /\ <<a>> # << >>
         /\ Head(<<a, b>>) = a /\ Tail(<<a, b>>) = <<b>> /\ <<a, b>> # << >>
         /\ Head(<<a, b, c>>) = a /\ Tail(<<a, b, c>>) = <<b, c>> /\ <<a, b, c>> # << >>
         /\ Head(<<a, b, c, d>>) = a /\ Tail(<<a, b, c, d>>) = <<b, c, d>>
         /\ <<a, b, c, d>> # << >>
         /\ Head(<<a, b, c, d, e>>) = a /\ Tail(<<a, b, c, d, e>>) = <<b, c, d, e>>
         /\ <<a, b, c, d, e>> # << >>
OBVIOUS

LEMMA JobFields ==
  ASSUME NEW v
  PROVE  /\ DoCompile(v).do = "compile" /\ DoCompile(v).arg = v
         /\ DoExit.do = "exit" /\ DoImmediate.do = "immediate"
         /\ \A what : Do(what, v).do = what /\ Do(what, v).arg = v
BY DEF DoCompile, DoExit, DoImmediate, Do

LEMMA CompileJob ==
  ASSUME IInv, IInv', Next, Running, status' = "running", todo # << >>,
         NEW v \in Word, Head(todo) = DoCompile(v), NEW n \in Nat, 0 < n, Roomy(n), 0 < H
  PROVE  /\ CompilesCell(v) /\ H + 1 < Top /\ \A k \in Nat : k < n => Roomy(k)'
         /\ todo' = Tail(todo) /\ UNCHANGED <<prog, token, form>>
<1>1. CompileMore
  <2>1. Head(todo).do = "compile"
    BY JobFields
  <2> QED BY <2>1, NextJob
<1>2. Arg0 = v
  BY JobFields DEF Arg0
<1>3. H + 1 < Top /\ TypeOK
  BY RoomIsLeft DEF IInv
<1>4. CanStor(H) /\ mem' = Compiled(v)
  BY <1>1, <1>2 DEF CompileMore, Compile
<1>5. H' = H + 1 /\ mem'[H] = v /\ \A a \in Word : a # 0 /\ a # H => mem'[a] = mem[a]
  BY <1>3, <1>4, CompiledCells DEF H
<1>6. UNCHANGED <<prog, token, form, last, defs, strings, calls, pos>> /\ todo' = Tail(todo)
  BY <1>1 DEF CompileMore, history
<1>7. ASSUME NEW k \in Nat, k < n PROVE Roomy(k)'
  <2>1. Roomy(k + 1)
    BY <1>7, RoomIsLeft
  <2> QED BY <1>4, <1>5, <1>6, <2>1, RoomIsUsed
<1> QED BY <1>3, <1>5, <1>6, <1>7 DEF CompilesCell

LEMMA InsideStays ==
  ASSUME NEW X, NEW Y, X \subseteq Y, Inside(X), UNCHANGED <<calls, defs>>
  PROVE  Inside(Y)'
BY MoreCode DEF Inside

LEMMA ReadFromStays ==
  ASSUME NEW X, NEW Y, X \subseteq Y, ReadFrom(X), UNCHANGED <<calls, defs, prog>>
  PROVE  ReadFrom(Y)'
<1>1. PICK k \in 0 .. Len(calls) : \/ prog = Entry(defs) + 1 /\ InMain(k)
                                   \/ prog \in X /\ InCode(k, X)
  BY DEF ReadFrom
<1>2. CASE prog = Entry(defs) + 1 /\ InMain(k)
  BY <1>1, <1>2 DEF ReadFrom, InMain
<1>3. CASE prog \in X /\ InCode(k, X)
  <2>1. InCode(k, Y)' /\ prog' \in Y
    BY <1>3, MoreCode
  <2> QED BY <1>1, <2>1 DEF ReadFrom
<1> QED BY <1>1, <1>2, <1>3

LEMMA CodesAreWords ==
  ASSUME TypeOK, Words
  PROVE  /\ \A v \in Codes(defs) : 17 <= v /\ v \in Nat
         /\ Codes(defs) = CodeFields
<1>1. Codes(defs) = CodeFields
  <2>1. DOMAIN defs = 1 .. Len(defs)
    BY LenProperties DEF TypeOK
  <2> QED BY <2>1 DEF Codes, CodeFields, ToSet
<1>2. ASSUME NEW v \in Codes(defs) PROVE 17 <= v /\ v \in Nat
  <2>1. PICK i \in 1 .. Len(defs) : v \in {defs[i].word + 3, defs[i].word + 4}
    BY <1>2 DEF Codes
  <2>2. PICK w \in 0 .. Top - 1 : w = defs[i].word /\ 14 <= w
    BY WordNumbers
  <2>3. Top \in Nat
    BY WordFacts
  <2> QED BY <2>1, <2>2, <2>3
<1> QED BY <1>1, <1>2

LEMMA CallingGoesOn ==
  ASSUME IInv, IInv', Base, Words, Next, Running, status' = "running",
         NEW C \in SUBSET Word, Calling(C)
  PROVE  Working'
<1>1. PICK v \in Codes(defs) : /\ todo = <<DoCompile(v), DoExit>>
                               /\ InBody => v \in Reached(C, InBody)
  BY DEF Calling
<1>2. TypeOK /\ H \in 0 .. Top - 1 /\ 14 <= H /\ Top \in Nat
  BY WordNumbers DEF IInv, Base
<1>3. v \in Word
  <2>1. todo # << >> /\ Arg0 = v
    BY <1>1, <1>2, JobLists, JobFields DEF Arg0
  <2>2. Arg0 \in Word
    BY <1>2, <2>1, Arg0Type
  <2> QED BY <2>1, <2>2
<1>4. /\ CompilesCell(v) /\ Roomy(0)' /\ H + 1 < Top
      /\ todo' = <<DoExit>> /\ UNCHANGED <<prog, token, form>>
  <2>1. Head(todo) = DoCompile(v) /\ Tail(todo) = <<DoExit>> /\ todo # << >> /\ Roomy(1)
    BY <1>1, JobLists DEF Calling
  <2>2. 1 \in Nat /\ 0 \in Nat /\ 0 < 1 /\ 0 < H
    BY <1>2
  <2>3. /\ CompilesCell(v) /\ H + 1 < Top /\ \A k \in Nat : k < 1 => Roomy(k)'
        /\ todo' = Tail(todo) /\ UNCHANGED <<prog, token, form>>
    BY <1>3, <2>1, <2>2, CompileJob
  <2> QED BY <2>1, <2>2, <2>3
<1>5. PICK h \in Word, X \in SUBSET Word : h = H /\ X = Reached(C, InBody)
  BY <1>2 DEF Reached, Word
<1>6. PICK D \in SUBSET Word : D = IF InBody THEN C \union {h} ELSE C
  OBVIOUS
<1>7. PICK Y \in SUBSET Word : Y = IF InBody THEN D \union {h + 1} ELSE D
  <2>1. h + 1 \in Word
    BY <1>2, <1>4, <1>5 DEF Word
  <2> QED BY <2>1
<1>8. Built(C, X, Len(defs)) /\ Inside(X)
  BY <1>5 DEF Calling
<1>9. H \in D => CellOk(mem', defs, H, Y)
  <2>1. H \notin C
    BY <1>2, <1>8 DEF Built, CodeOk
  <2>2. H \in D => mem'[H] = v /\ v \in Y /\ H + 1 \in Y
    BY <1>1, <1>4, <1>5, <1>6, <1>7, <2>1 DEF CompilesCell, Reached
  <2> QED BY <2>2 DEF CellOk
<1>10. /\ C \subseteq D /\ D \subseteq C \union {H} /\ X \subseteq Y /\ D \subseteq Y
       /\ Y \subseteq X \union {H, H + 1}
  BY <1>5, <1>6, <1>7 DEF Reached
<1>11. Base' /\ Words' /\ Built(D, Y, Len(defs))'
  BY <1>4, <1>8, <1>9, <1>10, CompileBuilds
<1>12. Y = Reached(D, InBody)' /\ form' # "named"
  BY <1>4, <1>5, <1>6, <1>7 DEF Reached, InBody, Calling, CompilesCell
<1>13. Inside(Y)'
  BY <1>4, <1>8, <1>10, InsideStays DEF CompilesCell
<1>14. Returning(D)'
  BY <1>4, <1>11, <1>12, <1>13 DEF Returning
<1> QED BY <1>11, <1>14 DEF Working, Phase

LEMMA Literal1GoesOn ==
  ASSUME IInv, IInv', Base, Words, Next, Running, status' = "running",
         NEW C \in SUBSET Word, Literal1(C)
  PROVE  Working'
<1>1. PICK v \in Word : todo = <<DoCompile(OpPushint), DoCompile(v)>>
  BY DEF Literal1
<1>2. /\ TypeOK /\ TypeOK' /\ H \in 0 .. Top - 1 /\ 14 <= H /\ Top \in Nat /\ MemBase \in Nat
      /\ last \in Nat /\ 14 <= Len(defs) /\ Len(defs) \in Nat
      /\ \A i \in 1 .. Len(defs) : MemBase <= defs[i].word
  BY WordNumbers DEF IInv, Base
<1>3. /\ CompilesCell(OpPushint) /\ Roomy(1)' /\ H + 1 < Top
      /\ todo' = <<DoCompile(v)>> /\ UNCHANGED <<prog, token, form>>
  <2>1. /\ Head(todo) = DoCompile(OpPushint) /\ Tail(todo) = <<DoCompile(v)>> /\ todo # << >>
        /\ Roomy(2)
    BY <1>1, JobLists DEF Literal1
  <2>2. 2 \in Nat /\ 1 \in Nat /\ 1 < 2 /\ 0 < 2 /\ 0 < H /\ OpPushint \in Word
    BY <1>2, CodesAreNumbers, WordFacts DEF Word
  <2>3. /\ CompilesCell(OpPushint) /\ H + 1 < Top /\ \A k \in Nat : k < 2 => Roomy(k)'
        /\ todo' = Tail(todo) /\ UNCHANGED <<prog, token, form>>
    BY <2>1, <2>2, CompileJob
  <2> QED BY <2>1, <2>2, <2>3
<1>4. PICK h \in Word, X \in SUBSET Word : h = H /\ X = Reached(C, InBody)
  BY <1>2 DEF Reached, Word
<1>5. Built(C, X, Len(defs)) /\ ReadFrom(X) /\ form # "named"
  BY <1>4 DEF Literal1
<1>6. last + 3 <= H /\ CodeOk(mem, defs, MemBase, h, Len(defs), C, X)
  BY <1>2, <1>4, <1>5 DEF Built, Free
<1>7. Base' /\ Words' /\ MemBase' = MemBase /\ SameCode(mem, mem', MemBase, h) /\ mem'[h + 1] = 0
  BY <1>3, <1>4, <1>6, CompileKeepsWords
<1>8. /\ H' = h + 1 /\ mem'[h] = OpPushint /\ UNCHANGED <<last, defs, strings, calls, pos>>
  BY <1>3, <1>4 DEF CompilesCell
<1>9. CodeOk(mem', defs', MemBase, h, Len(defs), C, X)
  <2>1. h \in 0 .. Top /\ h <= h /\ Len(defs) \in 14 .. Len(defs) /\ Longer(defs, defs')
    BY <1>2, <1>4, <1>8 DEF Longer
  <2>2. C \subseteq X /\ \A a \in X : MemBase <= a /\ a <= h
    BY <1>6 DEF CodeOk
  <2> QED BY <1>2, <1>6, <1>7, <2>1, <2>2, CodeGrows
<1>10. ReadFrom(X)'
  BY <1>3, <1>5, <1>8, ReadFromStays
<1>11. h \in Nat /\ h + 1 - 1 = h
  BY <1>2, <1>4
<1>12. X = IF InBody' THEN C \union {H' - 1} ELSE C
  BY <1>3, <1>4, <1>8, <1>11 DEF InBody, Reached
<1>13. Literal2(C)'
  <2>1. (last + 4 <= H)'
    BY <1>2, <1>4, <1>6, <1>8, <1>11
  <2>2. mem'[H'] = 0 /\ mem'[H' - 1] = OpPushint /\ form' # "named"
    BY <1>3, <1>5, <1>7, <1>8, <1>11
  <2>3. CodeOk(mem', defs', MemBase', H' - 1, Len(defs'), C, X)
    BY <1>7, <1>8, <1>9, <1>11
  <2> QED BY <1>3, <1>10, <1>12, <2>1, <2>2, <2>3 DEF Literal2
<1> QED BY <1>7, <1>13 DEF Working, Phase

LEMMA Literal2GoesOn ==
  ASSUME IInv, IInv', Base, Words, Next, Running, status' = "running",
         NEW C \in SUBSET Word, Literal2(C)
  PROVE  Working'
<1>1. PICK v \in Word : todo = <<DoCompile(v)>>
  BY DEF Literal2
<1>2. /\ TypeOK /\ TypeOK' /\ H \in 0 .. Top - 1 /\ 14 <= H /\ Top \in Nat /\ MemBase \in Nat
      /\ last \in Nat /\ 14 <= Len(defs) /\ Len(defs) \in Nat
      /\ \A i \in 1 .. Len(defs) : MemBase <= defs[i].word
  BY WordNumbers DEF IInv, Base
<1>3. /\ CompilesCell(v) /\ Roomy(0)' /\ H + 1 < Top
      /\ todo' = << >> /\ UNCHANGED <<prog, token, form>>
  <2>1. /\ Head(todo) = DoCompile(v) /\ Tail(todo) = << >> /\ todo # << >> /\ Roomy(1)
    BY <1>1, JobLists DEF Literal2
  <2>2. 1 \in Nat /\ 0 \in Nat /\ 0 < 1 /\ 0 < H
    BY <1>2
  <2>3. /\ CompilesCell(v) /\ H + 1 < Top /\ \A k \in Nat : k < 1 => Roomy(k)'
        /\ todo' = Tail(todo) /\ UNCHANGED <<prog, token, form>>
    BY <2>1, <2>2, CompileJob
  <2> QED BY <2>1, <2>2, <2>3
<1>4. PICK h \in Word, D \in SUBSET Word :
        h = H /\ D = IF InBody THEN C \union {h - 1} ELSE C
  <2>1. H \in Word /\ H - 1 \in Word
    BY <1>2 DEF Word
  <2> QED BY <2>1
<1>5. PICK Y \in SUBSET Word : Y = IF InBody THEN D \union {h + 1} ELSE D
  <2>1. h + 1 \in Word
    BY <1>2, <1>3, <1>4 DEF Word
  <2> QED BY <2>1
<1>6. /\ last + 4 <= h /\ form # "named" /\ mem[h - 1] = OpPushint
      /\ CodeOk(mem, defs, MemBase, h - 1, Len(defs), C, D) /\ ReadFrom(D)
  BY <1>4 DEF Literal2
<1>7. h \in Nat /\ 14 <= h /\ h < Top - 1
  BY <1>2, <1>3, <1>4
<1>8. Base' /\ Words' /\ MemBase' = MemBase /\ SameCode(mem, mem', MemBase, h) /\ mem'[h + 1] = 0
  <2>1. last + 3 <= H
    BY <1>2, <1>4, <1>6, <1>7
  <2> QED BY <1>3, <1>4, <2>1, CompileKeepsWords
<1>9. /\ H' = h + 1 /\ UNCHANGED <<last, defs, strings, calls, pos>>
  BY <1>3, <1>4 DEF CompilesCell
<1>10. mem'[h - 1] = OpPushint
  <2>1. h - 1 \in Word /\ h - 1 # 0 /\ h - 1 # h
    BY <1>2, <1>7 DEF Word
  <2> QED BY <1>3, <1>4, <1>6, <2>1 DEF CompilesCell
<1>11. CodeOk(mem', defs', MemBase, h + 1, Len(defs), D, Y)
  <2>1. /\ h - 1 \in 0 .. Top /\ h + 1 \in 0 .. Top /\ h - 1 <= h + 1
        /\ Len(defs) \in 14 .. Len(defs) /\ Longer(defs, defs')
    BY <1>2, <1>7, <1>9 DEF Longer
  <2>2. C \subseteq D /\ D \subseteq Y
    BY <1>4, <1>5
  <2>3. SameCode(mem, mem', MemBase, h - 1)
    BY <1>7, <1>8 DEF SameCode, Word
  <2>4. \A a \in Y : MemBase <= a /\ a <= h + 1
    <3>1. \A a \in D : a \in Nat /\ MemBase <= a /\ a <= h - 1
      BY <1>2, <1>6 DEF CodeOk, Word
    <3>2. MemBase <= h
      BY <1>4 DEF Base
    <3> QED BY <1>2, <1>5, <1>7, <3>1, <3>2
  <2>5. \A a \in D \ C : a < h + 1 /\ CellOk(mem', defs', a, Y)
    <3> TAKE a \in D \ C
    <3>1. a = h - 1 /\ h - 1 + 2 = h + 1 /\ h + 1 \in Y /\ h - 1 < h + 1
      BY <1>4, <1>5, <1>7
    <3> QED BY <1>10, <3>1 DEF CellOk
  <2> QED BY <1>2, <1>6, <2>1, <2>2, <2>3, <2>4, <2>5, CodeGrows
<1>12. Y = Reached(D, InBody)' /\ form' # "named"
  BY <1>3, <1>5, <1>6, <1>9 DEF Reached, InBody
<1>13. Built(D, Y, Len(defs))'
  <2>1. Free(Y)'
    BY <1>2, <1>6, <1>7, <1>8, <1>9 DEF Free
  <2> QED BY <1>8, <1>9, <1>11, <2>1 DEF Built
<1>14. ReadFrom(Y)'
  <2>1. D \subseteq Y
    BY <1>5
  <2> QED BY <1>3, <1>6, <1>9, <2>1, ReadFromStays
<1>15. Idle(D)'
  <2>1. \E k \in 0 .. Len(calls') :
          \/ prog' \in {Entry(defs'), Entry(defs') + 1} /\ InMain(k)'
          \/ prog' \in Y /\ InCode(k, Y)'
    BY <1>14 DEF ReadFrom
  <2> QED BY <1>3, <1>12, <1>13, <2>1 DEF Idle
<1> QED BY <1>8, <1>15 DEF Working, Phase
----------------------------------------------------------------------------

LEMMA UsedOpsAreNumbers == \A v \in UsedOps : v \in 3 .. 12 /\ v \in Word /\ v \in Ops
<1>1. \A v \in UsedOps : v \in 3 .. 12
  BY CodesAreNumbers DEF UsedOps
<1>2. \A v \in 3 .. 12 : v \in 0 .. Top - 1 /\ v \in 0 .. 16
  BY WordFacts
<1> QED BY <1>1, <1>2, CodesAreNumbers DEF Word

\* One cell is copied, and it is the last.
LEMMA CopyJob ==
  ASSUME IInv, IInv', Next, Running, status' = "running",
         NEW v \in Word, todo = <<Do("compileit", v)>>, Roomy(1), 0 < H,
         v = OpExit \/ (prog \in Word /\ 0 < prog /\ prog # H /\ mem[prog] = OpExit)
  PROVE  /\ CompilesCell(v) /\ H + 1 < Top /\ Roomy(0)'
         /\ todo' = <<DoExit>> /\ UNCHANGED <<token, form>>
<1>1. Head(todo).do = "compileit" /\ Head(todo).arg = v /\ todo # << >>
  BY JobLists, JobFields
<1>2. CompItMore /\ Arg0 = v
  BY <1>1, NextJob DEF Arg0
<1>3. H + 1 < Top /\ TypeOK /\ 1 \in Nat /\ 0 \in Nat
  BY RoomIsLeft DEF IInv
<1>4. CanStor(H) /\ mem' = Compiled(v)
  BY <1>2 DEF CompItMore, Running
<1>5. H' = H + 1 /\ mem'[H] = v /\ \A a \in Word : a # 0 /\ a # H => mem'[a] = mem[a]
  BY <1>3, <1>4, CompiledCells DEF H
<1>6. UNCHANGED <<token, form, last, defs, strings, calls, pos>>
  BY <1>2 DEF CompItMore, history
<1>7. todo' = <<DoExit>>
  <2>1. prog \in Word /\ 0 < prog /\ prog # H => mem'[prog] = mem[prog]
    BY <1>5
  <2>2. OpExit \in {Arg0, mem'[prog]}
    BY <1>2, <2>1
  <2> QED BY <1>2, <2>2 DEF CompItMore
<1>8. Roomy(0)'
  <2>1. Roomy(0 + 1)
    OBVIOUS
  <2> QED BY <1>3, <1>4, <1>5, <1>6, <2>1, RoomIsUsed
<1> QED BY <1>3, <1>5, <1>6, <1>7, <1>8 DEF CompilesCell

LEMMA CopyingGoesOn ==
  ASSUME IInv, IInv', Base, Words, Next, Running, status' = "running",
         NEW C \in SUBSET Word, Copying(C)
  PROVE  Working'
<1>1. PICK v \in Word :
        /\ todo = <<Do("compileit", v)>>
        /\ \/ v = OpExit /\ token = "exit" /\ form = "top"
           \/ v \in UsedOps /\ token # "exit" /\ MemBase <= prog /\ prog < H /\ mem[prog] = OpExit
  <2>1. OpExit \in Word
    BY CodesAreNumbers, WordFacts DEF Word
  <2> QED BY <2>1, UsedOpsAreNumbers DEF Copying
<1>2. /\ TypeOK /\ H \in 0 .. Top - 1 /\ 14 <= H /\ Top \in Nat /\ prog \in 0 .. Top - 1
      /\ MemBase \in 0 .. Top - 1
  BY WordNumbers DEF IInv, Base
<1>3. /\ CompilesCell(v) /\ Roomy(0)' /\ H + 1 < Top
      /\ todo' = <<DoExit>> /\ UNCHANGED <<token, form>>
  <2>1. 12 <= MemBase
    <3>1. RetBase \in Word /\ Len(calls) \in Nat
      BY <1>2, MachineTypes
    <3> QED BY <1>2, <3>1 DEF Base, StackOk, Word
  <2>2. v # OpExit => prog \in Word /\ 0 < prog /\ prog # H /\ mem[prog] = OpExit
    BY <1>1, <1>2, <2>1 DEF Word
  <2>3. Roomy(1) /\ 0 < H
    BY <1>2 DEF Copying
  <2> QED BY <1>1, <2>2, <2>3, CopyJob
<1>4. PICK h \in Word, X \in SUBSET Word : h = H /\ X = Reached(C, InBody \/ token = "exit")
  BY <1>2 DEF Reached, Word
<1>5. PICK D \in SUBSET Word : D = IF InBody \/ token = "exit" THEN C \union {h} ELSE C
  OBVIOUS
<1>6. PICK Y \in SUBSET Word : Y = IF InBody THEN D \union {h + 1} ELSE D
  <2>1. h + 1 \in Word
    BY <1>2, <1>3, <1>4 DEF Word
  <2> QED BY <2>1
<1>7. Built(C, X, Len(defs)) /\ Inside(X) /\ form # "named"
  BY <1>4 DEF Copying
<1>8. H \in D => CellOk(mem', defs, H, Y)
  <2>1. H \notin C
    BY <1>2, <1>7 DEF Built, CodeOk
  <2>2. mem'[H] = v
    BY <1>3 DEF CompilesCell
  <2>3. CASE v = OpExit
    BY <2>2, <2>3 DEF CellOk
  <2>4. CASE v \in UsedOps
    <3>1. H \in D => h + 1 \in Y
      BY <1>1, <1>4, <1>5, <1>6, <2>1, <2>4, UsedOpsAreNumbers, CodesAreNumbers
    <3> QED BY <1>4, <2>2, <2>4, <3>1 DEF CellOk
  <2> QED BY <1>1, <2>3, <2>4
<1>9. /\ C \subseteq D /\ D \subseteq C \union {H} /\ X \subseteq Y /\ D \subseteq Y
      /\ Y \subseteq X \union {H, H + 1}
  BY <1>4, <1>5, <1>6 DEF Reached
<1>10. Base' /\ Words' /\ Built(D, Y, Len(defs))'
  BY <1>3, <1>7, <1>8, <1>9, CompileBuilds
<1>11. Y = Reached(D, InBody)' /\ form' # "named"
  BY <1>3, <1>4, <1>5, <1>6, <1>7 DEF Reached, InBody, CompilesCell
<1>12. Inside(Y)'
  BY <1>3, <1>7, <1>9, InsideStays DEF CompilesCell
<1>13. Returning(D)'
  BY <1>3, <1>10, <1>11, <1>12 DEF Returning
<1> QED BY <1>10, <1>13 DEF Working, Phase

\* A return is into the main loop or into code.
LEMMA ReturnsInto ==
  ASSUME IInv, IInv', Base, Words, NEW ret \in Word, Exit(ret), status' = "running",
         UNCHANGED <<last, strings, pos, token, form, defs>>, NEW n \in Nat,
         NEW C \in SUBSET Word, NEW X \in SUBSET Word, X = Reached(C, InBody), Built(C, X, n),
         NEW k \in 0 .. Len(calls), InCode(k, X)
  PROVE  /\ Base' /\ Words' /\ Built(C, X, n)' /\ X = Reached(C, InBody)' /\ H' = H
         /\ \E j \in 0 .. Len(calls') :
              \/ prog' \in {Entry(defs), Entry(defs) + 1}' /\ InMain(j)'
              \/ prog' \in X /\ InCode(j, X)'
<1>1. TypeOK /\ Len(calls) \in Nat /\ k < Len(calls)
  BY MachineTypes DEF IInv, InCode
<1>2. 0 < Len(calls)
  BY <1>1
<1>3. /\ prog' = calls[Len(calls)] /\ SameCells /\ Base'
      /\ Len(calls') = Len(calls) - 1
      /\ \A i \in 1 .. Len(calls) - 1 : calls'[i] = calls[i]
  BY <1>1, <1>2, ExitCells
<1>4. last + 3 <= H
  BY <1>1, WordNumbers DEF Built, Free
<1>5. Words'
  BY <1>3, <1>4, SameCellsKeepWords
<1>6. Built(C, X, n)' /\ H' = H
  BY <1>3, BuiltIsKept
<1>7. X = Reached(C, InBody)'
  BY <1>6 DEF Reached, InBody
<1>8. /\ k \in 0 .. Len(calls')
      /\ \/ calls[Len(calls)] = Entry(defs) + 1 /\ InMain(k)'
         \/ calls[Len(calls)] \in X /\ InCode(k, X)'
  BY <1>1, <1>3, CodeReturns
<1> QED BY <1>3, <1>5, <1>6, <1>7, <1>8

LEMMA ReturningGoesOn ==
  ASSUME IInv, IInv', Base, Words, Next, Running, status' = "running",
         NEW C \in SUBSET Word, Returning(C)
  PROVE  Working'
<1>1. todo = <<DoExit>> /\ form # "named" /\ Roomy(0)
  BY DEF Returning
<1>2. Head(todo).do = "exit" /\ todo # << >> /\ Tail(todo) = << >>
  BY <1>1, JobLists, JobFields
<1>3. ExitMore
  BY <1>2, NextJob
<1>4. /\ Exit(prog) /\ todo' = << >> /\ UNCHANGED <<last, strings, pos, token, form, defs>>
  BY <1>2, <1>3 DEF ExitMore
<1>5. TypeOK /\ prog \in Word /\ H \in Word /\ Len(defs) \in Nat
  BY MachineTypes DEF IInv
<1>6. PICK X \in SUBSET Word : X = Reached(C, InBody)
  BY <1>5 DEF Reached
<1>7. Built(C, X, Len(defs)) /\ Inside(X)
  BY <1>6 DEF Returning
<1>8. PICK k \in 0 .. Len(calls) : InCode(k, X)
  BY <1>7 DEF Inside
<1>9. PICK n \in Nat : n = Len(defs)
  BY <1>5
<1>10. /\ Base' /\ Words' /\ Built(C, X, n)' /\ X = Reached(C, InBody)' /\ H' = H
       /\ \E j \in 0 .. Len(calls') :
            \/ prog' \in {Entry(defs), Entry(defs) + 1}' /\ InMain(j)'
            \/ prog' \in X /\ InCode(j, X)'
  BY <1>4, <1>5, <1>6, <1>7, <1>8, <1>9, ReturnsInto
<1>11. Roomy(0)'
  BY <1>1, <1>4, <1>10, RoomIsKept
<1>12. Idle(C)'
  BY <1>1, <1>4, <1>9, <1>10, <1>11 DEF Idle
<1> QED BY <1>10, <1>12 DEF Working, Phase
----------------------------------------------------------------------------
(* A word is defined.                                                      *)

\* What does not change until the header is there.
Named(C, w, nm) ==
  /\ strings[nm] = token /\ token \in Names /\ form = "named" /\ last + 4 <= w
  /\ CodeOk(mem, defs, MemBase, w, Len(defs), C, C)
  /\ prog \in C /\ Inside(C)

LEMMA HeaderCell ==
  ASSUME IInv, IInv', Base, Words, Next, Running, status' = "running",
         NEW C \in SUBSET Word, NEW w \in Word, NEW nm \in 1 .. Len(strings), Named(C, w, nm),
         w <= H, todo # << >>, NEW n \in Nat, 0 < n, Roomy(n), NEW v, Head(todo) = DoCompile(v)
  PROVE  /\ Base' /\ Words' /\ todo' = Tail(todo) /\ \A k \in Nat : k < n => Roomy(k)'
         /\ Named(C, w, nm)' /\ nm \in 1 .. Len(strings')
         /\ CompilesCell(v) /\ mem'[H + 1] = 0
<1>1. /\ TypeOK /\ TypeOK' /\ H \in 0 .. Top - 1 /\ 14 <= H /\ Top \in Nat /\ MemBase \in Nat
      /\ last \in Nat /\ 14 <= Len(defs) /\ Len(defs) \in Nat /\ w \in 0 .. Top - 1
      /\ \A i \in 1 .. Len(defs) : MemBase <= defs[i].word
  <2>1. TypeOK /\ TypeOK' /\ 14 <= H
    BY DEF IInv, Base
  <2>2. w \in 0 .. Top - 1
    BY DEF Word
  <2>3. /\ H \in 0 .. Top - 1 /\ Top \in Nat /\ MemBase \in Nat /\ last \in Nat
        /\ 14 <= Len(defs) /\ Len(defs) \in Nat
    BY <2>1, WordNumbers
  <2>4. \A i \in 1 .. Len(defs) : MemBase <= defs[i].word
    BY <2>1, WordNumbers
  <2> QED BY <2>1, <2>2, <2>3, <2>4
<1>2. last + 4 <= w
  BY <1>1 DEF Named
<1>3. v \in Word
  <2>1. Arg0 = v
    BY JobFields DEF Arg0
  <2> QED BY <1>1, <2>1, Arg0Type
<1>4. /\ CompilesCell(v) /\ H + 1 < Top /\ \A k \in Nat : k < n => Roomy(k)'
      /\ todo' = Tail(todo) /\ UNCHANGED <<prog, token, form>>
  <2>1. 0 < H
    BY <1>1
  <2> QED BY <1>3, <2>1, CompileJob
<1>5. Base' /\ Words' /\ MemBase' = MemBase /\ SameCode(mem, mem', MemBase, H) /\ mem'[H + 1] = 0
  <2>1. last + 3 <= H
    BY <1>1, <1>2
  <2> QED BY <1>4, <2>1, CompileKeepsWords
<1>6. UNCHANGED <<last, defs, strings, calls, pos>>
  BY <1>4 DEF CompilesCell
<1>7. CodeOk(mem', defs', MemBase', w, Len(defs'), C, C)
  <2>1. w \in 0 .. Top /\ w <= w /\ Len(defs) \in 14 .. Len(defs) /\ Longer(defs, defs')
    BY <1>1, <1>6 DEF Longer
  <2>2. C \subseteq C /\ (\A a \in C : MemBase <= a /\ a <= w) /\ \A a \in C \ C : FALSE
    BY DEF Named, CodeOk
  <2>3. SameCode(mem, mem', MemBase, w)
    BY <1>1, <1>5 DEF SameCode, Word
  <2>4. CodeOk(mem', defs', MemBase, w, Len(defs), C, C)
    BY <1>1, <2>1, <2>2, <2>3, CodeGrows DEF Named
  <2> QED BY <1>5, <1>6, <2>4
<1>8. Inside(C)'
  <2>1. Inside(C) /\ C \subseteq C
    BY DEF Named
  <2> QED BY <1>6, <2>1, InsideStays
<1>9. Named(C, w, nm)' /\ nm \in 1 .. Len(strings')
  BY <1>4, <1>6, <1>7, <1>8 DEF Named
<1> QED BY <1>4, <1>5, <1>9

LEMMA SetLastGoesOn ==
  ASSUME IInv, IInv', Base, Words, Next, Running, status' = "running",
         NEW C \in SUBSET Word, NEW w \in Word, NEW nm \in 1 .. Len(strings), Named(C, w, nm),
         todo = <<Do("setLast", w)>>, HeaderAt(w, nm, 4)
  PROVE  Working'
<1>1. Head(todo).do = "setLast" /\ Head(todo).arg = w /\ todo # << >> /\ Tail(todo) = << >>
  <2>1. Head(todo) = Do("setLast", w) /\ todo # << >> /\ Tail(todo) = << >>
    OBVIOUS
  <2> QED BY <2>1 DEF Do
<1>2. /\ SetLastMore /\ last' = w /\ defs' = Append(defs, [name |-> token, word |-> w])
      /\ todo' = << >> /\ UNCHANGED <<mem, prog, strings, pos, form, calls>>
  <2>1. SetLastMore
    BY <1>1, NextJob
  <2> QED BY <1>1, <2>1 DEF SetLastMore, Arg0
<1>3. /\ TypeOK /\ TypeOK' /\ H \in 0 .. Top - 1 /\ Top \in Nat /\ MemBase \in Nat
      /\ last \in Nat /\ 14 <= Len(defs) /\ Len(defs) \in Nat /\ w \in 0 .. Top - 1
      /\ last = defs[Len(defs)].word
      /\ \A i \in 1 .. Len(defs) : MemBase <= defs[i].word /\ defs[i].word \in Nat
      /\ \A i \in 1 .. Len(defs) : i < Len(defs) => defs[i].word + Span(i) <= last
      /\ Len(calls) \in Nat
  <2>1. TypeOK /\ TypeOK' /\ w \in 0 .. Top - 1 /\ Len(calls) \in Nat
    BY MachineTypes DEF IInv, Word
  <2>2. /\ H \in 0 .. Top - 1 /\ Top \in Nat /\ MemBase \in Nat /\ last \in Nat
        /\ 14 <= Len(defs) /\ Len(defs) \in Nat /\ last = defs[Len(defs)].word
    BY <2>1, WordNumbers
  <2>3. /\ \A i \in 1 .. Len(defs) : MemBase <= defs[i].word /\ defs[i].word \in 0 .. Top - 1
        /\ \A i \in 1 .. Len(defs) : i < Len(defs) => defs[i].word + Span(i) <= last
    BY <2>1, WordNumbers
  <2>4. \A i \in 1 .. Len(defs) : defs[i].word \in Nat
    BY <2>2, <2>3
  <2> QED BY <2>1, <2>2, <2>3, <2>4
<1>4. PICK n \in Nat : n = Len(defs)
  BY <1>3
<1>5. /\ Len(defs') = n + 1 /\ \A i \in 1 .. n : defs'[i] = defs[i]
      /\ defs'[n + 1].name = token /\ defs'[n + 1].word = w
  <2>1. PICK S : S = [name : Tokens \union {""}, word : Word]
    OBVIOUS
  <2>2. defs \in Seq(S) /\ [name |-> token, word |-> w] \in S
    BY <1>3, <2>1 DEF TypeOK
  <2>3. PICK d \in S : d = [name |-> token, word |-> w]
    BY <2>2
  <2>4. d.name = token /\ d.word = w
    BY <2>3
  <2>5. /\ Len(Append(defs, d)) = Len(defs) + 1 /\ Append(defs, d)[Len(defs) + 1] = d
        /\ \A i \in 1 .. Len(defs) : Append(defs, d)[i] = defs[i]
    BY <2>2, <2>3, AppendProperties
  <2>6. defs' = Append(defs, d)
    BY <1>2, <2>3
  <2> QED BY <1>4, <2>4, <2>5, <2>6
<1>6. /\ H = w + 4 /\ Roomy(0) /\ mem[H] = 0 /\ mem[w] = last /\ mem[w + 1] = nm
      /\ mem[w + 2] = OpCompile /\ mem[w + 3] = OpRun
  <2>1. 4 > 0 /\ 4 > 1 /\ 4 > 2 /\ 4 > 3 /\ 4 - 4 = 0
    OBVIOUS
  <2> QED BY <2>1 DEF HeaderAt
<1>7. H' = H /\ MemBase' = MemBase /\ RetBase' = RetBase
  BY <1>2 DEF H, MemBase, RetBase
<1>8. Base'
  BY <1>2, <1>7 DEF Base, StackOk, R
<1>9. last + 4 <= w /\ strings[nm] = token /\ token \in Names /\ form = "named"
      /\ CodeOk(mem, defs, MemBase, w, n, C, C) /\ prog \in C /\ Inside(C)
  BY <1>4 DEF Named
<1>10. Dict(mem', defs', strings', MemBase')
  <2>1. ASSUME NEW i \in 1 .. n PROVE defs[i].word + Span(i) <= w
    <3>0. n \in Nat /\ 14 <= n /\ i \in 1 .. n
      BY <1>3, <1>4, <2>1
    <3>1. CASE i < n
      <4>1. Span(i) \in Nat
        BY DEF Span
      <4> QED BY <1>3, <1>4, <1>9, <3>1, <4>1
    <3>2. CASE i = n /\ n > 14
      <4>1. Span(n) = 4 /\ defs[n].word = last
        <5>1. n # 1 /\ n \notin 5 .. 14
          BY <3>0, <3>2
        <5>2. Span(n) = 4
          BY <5>1 DEF Span
        <5> QED BY <1>3, <1>4, <5>2
      <4>2. last \in Nat /\ w \in Nat /\ last + 4 <= w
        BY <1>3, <1>9
      <4> QED BY <3>2, <4>1, <4>2
    <3>3. CASE i = n /\ n = 14
      <4>1. \A l \in 2 .. n : defs[l].word + (IF l <= 14 THEN Span(l) ELSE 3) <= w
        BY <1>9 DEF CodeOk
      <4>2. n \in 2 .. n /\ n <= 14
        BY <3>3
      <4> QED BY <3>3, <4>1, <4>2
    <3> QED BY <3>0, <3>1, <3>2, <3>3
  <2>2. Dict(mem, defs, strings, MemBase) /\ 14 <= n
    BY <1>3, <1>4 DEF Words
  <2> SUFFICES ASSUME NEW i \in 1 .. n + 1
               PROVE  /\ NameOk(i, defs'[i].name) /\ SymbolOk(mem, strings, i, defs'[i])
                      /\ MemBase <= defs'[i].word
                      /\ \A j \in i + 1 .. n + 1 : defs'[i].word + Span(i) <= defs'[j].word
                      /\ mem[defs'[i].word] = IF i = 1 THEN 0 ELSE defs'[i - 1].word
    BY <1>2, <1>5, <1>7 DEF Dict
  <2>3. CASE i \in 1 .. n
    <3>1. /\ NameOk(i, defs[i].name) /\ SymbolOk(mem, strings, i, defs[i])
          /\ MemBase <= defs[i].word
          /\ \A j \in i + 1 .. n : defs[i].word + Span(i) <= defs[j].word
          /\ mem[defs[i].word] = IF i = 1 THEN 0 ELSE defs[i - 1].word
      BY <1>4, <2>2, <2>3 DEF Dict
    <3>2. \A j \in i + 1 .. n + 1 : defs'[i].word + Span(i) <= defs'[j].word
      <4> TAKE j \in i + 1 .. n + 1
      <4>1. CASE j = n + 1
        BY <1>5, <2>1, <2>3, <4>1
      <4>2. CASE j \in i + 1 .. n
        BY <1>5, <2>3, <3>1, <4>2
      <4> QED BY <4>1, <4>2
    <3>3. i > 1 => defs'[i - 1] = defs[i - 1]
      BY <1>5, <2>3
    <3>4. defs'[i] = defs[i]
      BY <1>5, <2>3
    <3> QED BY <2>3, <3>1, <3>2, <3>3, <3>4
  <2>4. CASE i = n + 1
    <3>1. NameOk(i, defs'[i].name)
      <4>1. i > 14 /\ defs'[i].name \in Names
        BY <1>5, <1>9, <2>2, <2>4
      <4> QED BY <4>1 DEF NameOk
    <3>2. SymbolOk(mem, strings, i, defs'[i])
      BY <1>5, <1>6, <1>9, <2>2, <2>4 DEF SymbolOk
    <3>3. MemBase <= w
      BY <1>3, <1>4, <1>9, <2>2
    <3>4. mem[w] = defs'[n].word
      BY <1>3, <1>4, <1>5, <1>6, <2>2
    <3>5. i # 1 /\ i - 1 = n /\ defs'[i].word = w /\ \A j \in i + 1 .. n + 1 : FALSE
      BY <1>5, <2>2, <2>4
    <3> QED BY <3>1, <3>2, <3>3, <3>4, <3>5
  <2> QED BY <2>3, <2>4
<1>11. Entry(defs') = Entry(defs)
  BY <1>3, <1>4, <1>5 DEF Entry
<1>12. Words'
  <2>1. MainLoop(mem', defs') /\ 14 <= Len(defs') /\ 13 <= pos' /\ 14 <= defs'[1].word
    BY <1>2, <1>3, <1>4, <1>5, <1>11 DEF Words, MainLoop
  <2> QED BY <1>2, <1>5, <1>10, <2>1 DEF Words
<1>13. CodeOk(mem', defs', MemBase', H', n, C, C)
  <2>1. w \in 0 .. Top /\ H \in 0 .. Top /\ w <= H /\ n \in 14 .. Len(defs) /\ Longer(defs, defs')
    <3>1. w \in 0 .. Top /\ H \in 0 .. Top /\ n \in 14 .. Len(defs)
      BY <1>3, <1>4
    <3>2. w <= H
      BY <1>3, <1>6
    <3>3. Longer(defs, defs')
      BY <1>4, <1>5 DEF Longer
    <3> QED BY <3>1, <3>2, <3>3
  <2>2. C \subseteq C /\ (\A a \in C : MemBase <= a /\ a <= w) /\ \A a \in C \ C : FALSE
    BY <1>9 DEF CodeOk
  <2>3. \A a \in C : MemBase <= a /\ a <= H
    BY <1>3, <2>1, <2>2 DEF Word
  <2>4. SameCode(mem, mem', MemBase, w)
    BY <1>2 DEF SameCode
  <2>5. CodeOk(mem', defs', MemBase, H, n, C, C)
    BY <1>3, <1>9, <2>1, <2>2, <2>3, <2>4, CodeGrows
  <2> QED BY <1>7, <2>5
<1>14. Built(C, C, n)'
  <2>1. Free(C)'
    BY <1>2, <1>6, <1>7 DEF Free
  <2>2. Sealed'
    BY <1>2, <1>3, <1>4, <1>5, <1>6, <1>7 DEF Sealed
  <2> QED BY <1>4, <1>5, <1>13, <2>1, <2>2 DEF Built
<1>15. \E k \in 0 .. Len(calls') : prog' \in C /\ InCode(k, C)'
  BY <1>2, <1>9, <1>11 DEF Inside, InCode
<1>16. Idle(C)'
  <2>1. C = Reached(C, InBody)' /\ form' = "named" /\ n = Len(defs') - 1
    BY <1>2, <1>5, <1>9 DEF Reached, InBody
  <2>2. Roomy(0)'
    BY <1>2, <1>6, <1>7, RoomIsKept
  <2> QED BY <1>2, <1>14, <1>15, <2>1, <2>2 DEF Idle
<1> QED BY <1>8, <1>12, <1>16 DEF Working, Phase

LEMMA DefiningGoesOn ==
  ASSUME IInv, IInv', Base, Words, Next, Running, status' = "running",
         NEW C \in SUBSET Word, Defining(C)
  PROVE  Working'
<1>1. PICK w \in Word, nm \in 1 .. Len(strings), l \in Word :
        /\ Named(C, w, nm) /\ l = last
        /\ \/ todo = <<DoCompile(l), DoCompile(nm), DoCompile(OpCompile), DoCompile(OpRun),
                       Do("setLast", w)>> /\ HeaderAt(w, nm, 0)
           \/ todo = <<DoCompile(nm), DoCompile(OpCompile), DoCompile(OpRun), Do("setLast", w)>>
                /\ HeaderAt(w, nm, 1)
           \/ todo = <<DoCompile(OpCompile), DoCompile(OpRun), Do("setLast", w)>> /\ HeaderAt(w, nm, 2)
           \/ todo = <<DoCompile(OpRun), Do("setLast", w)>> /\ HeaderAt(w, nm, 3)
           \/ todo = <<Do("setLast", w)>> /\ HeaderAt(w, nm, 4)
  <2>1. last \in Word
    BY DEF IInv, TypeOK
  <2> QED BY <2>1 DEF Defining, Named
<1>2. /\ OpCompile = 13 /\ OpRun = 14 /\ 14 < last /\ w \in Nat /\ 14 < w
      /\ w < Top /\ Top \in Nat
  <2>1. /\ 14 < last /\ last \in Nat /\ w \in Nat /\ last + 4 <= w /\ w < Top
        /\ Top \in Nat
    BY <1>1, WordNumbers DEF IInv, Word, Named
  <2> QED BY <2>1, CodesAreNumbers
<1>3. CASE todo = <<DoCompile(l), DoCompile(nm), DoCompile(OpCompile), DoCompile(OpRun),
                    Do("setLast", w)>>
           /\ HeaderAt(w, nm, 0)
  <2>1. PICK v : v = l
    OBVIOUS
  <2>2. /\ H = w /\ Roomy(4)
    BY <1>2, <1>3 DEF HeaderAt
  <2>3. /\ todo # << >> /\ Head(todo) = DoCompile(v)
        /\ Tail(todo) = <<DoCompile(nm), DoCompile(OpCompile), DoCompile(OpRun), Do("setLast", w)>>
    BY <1>3, <2>1, JobLists
  <2>4. /\ Base' /\ Words' /\ todo' = Tail(todo) /\ Roomy(3)'
        /\ Named(C, w, nm)' /\ nm \in 1 .. Len(strings')
        /\ CompilesCell(v) /\ mem'[w + 1] = 0
    <3>1. 4 \in Nat /\ 0 < 4 /\ 3 \in Nat /\ 3 < 4 /\ w <= H /\ H + 1 = w + 1
      BY <1>2, <2>2
    <3>2. /\ Base' /\ Words' /\ todo' = Tail(todo) /\ \A i \in Nat : i < 4 => Roomy(i)'
          /\ Named(C, w, nm)' /\ nm \in 1 .. Len(strings')
          /\ CompilesCell(v) /\ mem'[H + 1] = 0
      BY <1>1, <2>2, <2>3, <3>1, HeaderCell
    <3> QED BY <3>1, <3>2
  <2>5. /\ H' = w + 1 /\ UNCHANGED last /\ mem'[w] = l
    <3>1. \A a \in Word : a # 0 /\ a # w => mem'[a] = mem[a]
      BY <2>2, <2>4 DEF CompilesCell
    <3>2. H' = w + 1 /\ UNCHANGED last /\ mem'[w] = l
      BY <1>2, <2>1, <2>2, <2>4 DEF CompilesCell
    <3> QED BY <3>2
  <2>6. HeaderAt(w, nm, 1)'
    BY <1>1, <1>2, <2>4, <2>5 DEF HeaderAt
  <2>7. Defining(C)'
    BY <1>1, <2>3, <2>4, <2>5, <2>6 DEF Defining, Named
  <2> QED BY <2>4, <2>7 DEF Working, Phase
<1>4. CASE todo = <<DoCompile(nm), DoCompile(OpCompile), DoCompile(OpRun), Do("setLast", w)>>
           /\ HeaderAt(w, nm, 1)
  <2>1. PICK v : v = nm
    OBVIOUS
  <2>2. /\ H = w + 1 /\ Roomy(3) /\ mem[w] = last
    BY <1>2, <1>4 DEF HeaderAt
  <2>3. /\ todo # << >> /\ Head(todo) = DoCompile(v)
        /\ Tail(todo) = <<DoCompile(OpCompile), DoCompile(OpRun), Do("setLast", w)>>
    BY <1>4, <2>1, JobLists
  <2>4. /\ Base' /\ Words' /\ todo' = Tail(todo) /\ Roomy(2)'
        /\ Named(C, w, nm)' /\ nm \in 1 .. Len(strings')
        /\ CompilesCell(v) /\ mem'[w + 2] = 0
    <3>1. 3 \in Nat /\ 0 < 3 /\ 2 \in Nat /\ 2 < 3 /\ w <= H /\ H + 1 = w + 2
      BY <1>2, <2>2
    <3>2. /\ Base' /\ Words' /\ todo' = Tail(todo) /\ \A i \in Nat : i < 3 => Roomy(i)'
          /\ Named(C, w, nm)' /\ nm \in 1 .. Len(strings')
          /\ CompilesCell(v) /\ mem'[H + 1] = 0
      BY <1>1, <2>2, <2>3, <3>1, HeaderCell
    <3> QED BY <3>1, <3>2
  <2>5. /\ H' = w + 2 /\ UNCHANGED last /\ mem'[w + 1] = nm
        /\ mem'[w] = last
    <3>1. \A a \in Word : a # 0 /\ a # w + 1 => mem'[a] = mem[a]
      BY <2>2, <2>4 DEF CompilesCell
    <3>2. H' = w + 2 /\ UNCHANGED last /\ mem'[w + 1] = nm
      BY <1>2, <2>1, <2>2, <2>4 DEF CompilesCell
    <3>3. w \in Word
      BY <1>2, <2>2, WordNumbers DEF IInv, Word
    <3> QED BY <1>2, <2>2, <3>1, <3>2, <3>3
  <2>6. HeaderAt(w, nm, 2)'
    BY <1>1, <1>2, <2>4, <2>5 DEF HeaderAt
  <2>7. Defining(C)'
    BY <1>1, <2>3, <2>4, <2>5, <2>6 DEF Defining, Named
  <2> QED BY <2>4, <2>7 DEF Working, Phase
<1>5. CASE todo = <<DoCompile(OpCompile), DoCompile(OpRun), Do("setLast", w)>>
           /\ HeaderAt(w, nm, 2)
  <2>1. PICK v : v = OpCompile
    OBVIOUS
  <2>2. /\ H = w + 2 /\ Roomy(2) /\ mem[w] = last /\ mem[w + 1] = nm
    BY <1>2, <1>5 DEF HeaderAt
  <2>3. /\ todo # << >> /\ Head(todo) = DoCompile(v)
        /\ Tail(todo) = <<DoCompile(OpRun), Do("setLast", w)>>
    BY <1>5, <2>1, JobLists
  <2>4. /\ Base' /\ Words' /\ todo' = Tail(todo) /\ Roomy(1)'
        /\ Named(C, w, nm)' /\ nm \in 1 .. Len(strings')
        /\ CompilesCell(v) /\ mem'[w + 3] = 0
    <3>1. 2 \in Nat /\ 0 < 2 /\ 1 \in Nat /\ 1 < 2 /\ w <= H /\ H + 1 = w + 3
      BY <1>2, <2>2
    <3>2. /\ Base' /\ Words' /\ todo' = Tail(todo) /\ \A i \in Nat : i < 2 => Roomy(i)'
          /\ Named(C, w, nm)' /\ nm \in 1 .. Len(strings')
          /\ CompilesCell(v) /\ mem'[H + 1] = 0
      BY <1>1, <2>2, <2>3, <3>1, HeaderCell
    <3> QED BY <3>1, <3>2
  <2>5. /\ H' = w + 3 /\ UNCHANGED last /\ mem'[w + 2] = OpCompile
        /\ mem'[w] = last /\ mem'[w + 1] = nm
    <3>1. \A a \in Word : a # 0 /\ a # w + 2 => mem'[a] = mem[a]
      BY <2>2, <2>4 DEF CompilesCell
    <3>2. H' = w + 3 /\ UNCHANGED last /\ mem'[w + 2] = OpCompile
      BY <1>2, <2>1, <2>2, <2>4 DEF CompilesCell
    <3>3. w \in Word /\ w + 1 \in Word
      <4>1. H \in 0 .. Top - 1 /\ Top \in Nat
        BY WordNumbers DEF IInv
      <4> QED BY <2>2, <4>1 DEF Word
    <3>4. w # 0 /\ w # w + 2 /\ w + 1 # 0 /\ w + 1 # w + 2
      BY <1>2
    <3>5. mem'[w] = mem[w] /\ mem'[w + 1] = mem[w + 1]
      BY <3>1, <3>3, <3>4
    <3> QED BY <2>2, <3>2, <3>5
  <2>6. HeaderAt(w, nm, 3)'
    BY <1>1, <1>2, <2>4, <2>5 DEF HeaderAt
  <2>7. Defining(C)'
    BY <1>1, <2>3, <2>4, <2>5, <2>6 DEF Defining, Named
  <2> QED BY <2>4, <2>7 DEF Working, Phase
<1>6. CASE todo = <<DoCompile(OpRun), Do("setLast", w)>>
           /\ HeaderAt(w, nm, 3)
  <2>1. PICK v : v = OpRun
    OBVIOUS
  <2>2. /\ H = w + 3 /\ Roomy(1) /\ mem[w] = last /\ mem[w + 1] = nm /\ mem[w + 2] = OpCompile
    BY <1>2, <1>6 DEF HeaderAt
  <2>3. /\ todo # << >> /\ Head(todo) = DoCompile(v)
        /\ Tail(todo) = <<Do("setLast", w)>>
    BY <1>6, <2>1, JobLists
  <2>4. /\ Base' /\ Words' /\ todo' = Tail(todo) /\ Roomy(0)'
        /\ Named(C, w, nm)' /\ nm \in 1 .. Len(strings')
        /\ CompilesCell(v) /\ mem'[w + 4] = 0
    <3>1. 1 \in Nat /\ 0 < 1 /\ 0 \in Nat /\ 0 < 1 /\ w <= H /\ H + 1 = w + 4
      BY <1>2, <2>2
    <3>2. /\ Base' /\ Words' /\ todo' = Tail(todo) /\ \A i \in Nat : i < 1 => Roomy(i)'
          /\ Named(C, w, nm)' /\ nm \in 1 .. Len(strings')
          /\ CompilesCell(v) /\ mem'[H + 1] = 0
      BY <1>1, <2>2, <2>3, <3>1, HeaderCell
    <3> QED BY <3>1, <3>2
  <2>5. /\ H' = w + 4 /\ UNCHANGED last /\ mem'[w + 3] = OpRun
        /\ mem'[w] = last /\ mem'[w + 1] = nm /\ mem'[w + 2] = OpCompile
    <3>1. \A a \in Word : a # 0 /\ a # w + 3 => mem'[a] = mem[a]
      BY <2>2, <2>4 DEF CompilesCell
    <3>2. H' = w + 4 /\ UNCHANGED last /\ mem'[w + 3] = OpRun
      BY <1>2, <2>1, <2>2, <2>4 DEF CompilesCell
    <3>3. w \in Word /\ w + 1 \in Word /\ w + 2 \in Word
      <4>1. H \in 0 .. Top - 1 /\ Top \in Nat
        BY WordNumbers DEF IInv
      <4> QED BY <2>2, <4>1 DEF Word
    <3>4. mem'[w] = mem[w] /\ mem'[w + 1] = mem[w + 1] /\ mem'[w + 2] = mem[w + 2]
      <4>1. w # 0 /\ w + 1 # 0 /\ w + 2 # 0 /\ w # w + 3 /\ w + 1 # w + 3 /\ w + 2 # w + 3
        BY <1>2
      <4> QED BY <3>1, <3>3, <4>1
    <3> QED BY <2>2, <3>2, <3>4
  <2>6. HeaderAt(w, nm, 4)'
    BY <1>1, <1>2, <2>4, <2>5 DEF HeaderAt
  <2>7. Defining(C)'
    BY <1>1, <2>3, <2>4, <2>5, <2>6 DEF Defining, Named
  <2> QED BY <2>4, <2>7 DEF Working, Phase
<1>7. CASE todo = <<Do("setLast", w)>> /\ HeaderAt(w, nm, 4)
  BY <1>1, <1>7, SetLastGoesOn
<1> QED BY <1>1, <1>3, <1>4, <1>5, <1>6, <1>7
----------------------------------------------------------------------------
(* A token is looked up.                                                   *)

LEMMA SymbolFacts ==
  ASSUME TypeOK, NamesAreUnique, NEW t
  PROVE  /\ t \in ToSet(strings) => /\ Symbol(t) \in 1 .. Len(strings)
                                    /\ strings[Symbol(t)] = t
         /\ t \notin ToSet(strings) => Symbol(t) = 0
         /\ \A i \in 1 .. Len(strings) : strings[i] = t => t \in ToSet(strings) /\ Symbol(t) = i
<1>1. DOMAIN strings = 1 .. Len(strings) /\ Len(strings) \in Nat
  BY LenProperties DEF TypeOK
<1>2. ASSUME t \in ToSet(strings)
      PROVE  Symbol(t) \in 1 .. Len(strings) /\ strings[Symbol(t)] = t
  <2>1. \E i \in DOMAIN strings : strings[i] = t
    BY <1>2 DEF ToSet
  <2>2. Symbol(t) = CHOOSE i \in DOMAIN strings : strings[i] = t
    BY <1>2 DEF Symbol
  <2> QED BY <1>1, <2>1, <2>2
<1>3. t \notin ToSet(strings) => Symbol(t) = 0
  BY DEF Symbol
<1>4. ASSUME NEW i \in 1 .. Len(strings), strings[i] = t
      PROVE  t \in ToSet(strings) /\ Symbol(t) = i
  <2>1. t \in ToSet(strings)
    BY <1>1, <1>4 DEF ToSet
  <2> QED BY <1>1, <1>2, <1>4, <2>1 DEF NamesAreUnique, IsInjective
<1> QED BY <1>2, <1>3, <1>4

\* The names of the builtins mean the builtins.
LEMMA NameFacts ==
  ASSUME WellBracketed, TypeOK, Words
  PROVE  /\ \A i \in 1 .. Len(defs), j \in 1 .. 13 : defs[i].name \in Input[j] => i = j + 1
         /\ \A i \in 2 .. 14 : defs[i].name \in Input[i - 1]
         /\ \A i \in 1 .. Len(defs) : i > 14 => defs[i].name \in Names
         /\ defs[1].name \notin Tokens
<1>1. /\ 14 <= Len(defs) /\ Len(defs) \in Nat
      /\ \A i \in 1 .. Len(defs) : NameOk(i, defs[i].name)
  BY MachineTypes DEF Words, Dict
<1>2. /\ \A i \in 1 .. 13 : /\ \A j \in 1 .. 13 : i # j => Input[i] \intersect Input[j] = {}
                            /\ Input[i] \intersect Names = {}
      /\ "" \notin Tokens
  BY DEF WellBracketed
<1>3. \A j \in 1 .. 13 : Input[j] \subseteq Tokens
  <2>1. DOMAIN Input = 1 .. Len(Input) /\ Len(Input) \in Nat /\ 13 <= Len(Input)
    BY InputAssumption, LenProperties DEF WellBracketed
  <2> QED BY <2>1 DEF Tokens
<1>4. \A i \in 2 .. 14 : defs[i].name \in Input[i - 1]
  <2> TAKE i \in 2 .. 14
  <2>1. i \in 1 .. Len(defs) /\ i # 1 /\ ~(i > 14)
    BY <1>1
  <2> QED BY <1>1, <2>1 DEF NameOk
<1>5. ASSUME NEW i \in 1 .. Len(defs), i > 14 PROVE defs[i].name \in Names
  <2>1. i # 1 /\ i \notin 2 .. 14
    BY <1>1, <1>5
  <2> QED BY <1>1, <2>1 DEF NameOk
<1>6. defs[1].name = ""
  <2>1. 1 \in 1 .. Len(defs) /\ 1 \notin 2 .. 14 /\ ~(1 > 14)
    BY <1>1
  <2>2. NameOk(1, defs[1].name)
    BY <1>1, <2>1
  <2> QED BY <2>1, <2>2 DEF NameOk
<1>7. ASSUME NEW i \in 1 .. Len(defs), NEW j \in 1 .. 13, defs[i].name \in Input[j]
      PROVE  i = j + 1
  <2>1. i # 1
    BY <1>2, <1>3, <1>6, <1>7
  <2>2. ~(i > 14)
    BY <1>2, <1>5, <1>7
  <2>3. i \in 2 .. 14 /\ i - 1 \in 1 .. 13
    BY <1>1, <2>1, <2>2
  <2>4. i - 1 = j
    BY <1>2, <1>4, <1>7, <2>3
  <2> QED BY <2>3, <2>4
<1> QED BY <1>2, <1>4, <1>5, <1>6, <1>7

\* The next cell becomes a place where code may go on.
LEMMA BuiltWidens ==
  ASSUME IInv, Base, Words, NEW C \in SUBSET Word, NEW X \in SUBSET Word, NEW n \in Nat,
         Built(C, X, n), X \subseteq C \union {H}
  PROVE  Built(C, C \union {H}, n)
<1>1. /\ TypeOK /\ H \in 0 .. Top - 1 /\ MemBase \in 0 .. Top - 1 /\ Top \in Nat /\ MemBase <= H
      /\ Len(defs) \in Nat /\ 14 <= Len(defs)
      /\ \A i \in 1 .. Len(defs) : MemBase <= defs[i].word
  BY WordNumbers DEF IInv, Base
<1>2. PICK Y \in SUBSET Word : Y = C \union {H}
  BY <1>1 DEF Word
<1>3. CodeOk(mem, defs, MemBase, H, n, C, X) /\ n \in 14 .. Len(defs)
  BY <1>1 DEF Built, Sealed
<1>4. /\ HeadsOk(mem, defs, n, X) /\ C \subseteq X /\ \A a \in X : MemBase <= a /\ a <= H
      /\ \A a \in C : a < H /\ CellOk(mem, defs, a, X)
  BY <1>3 DEF CodeOk
<1>5. X \subseteq Y /\ C \subseteq Y /\ \A a \in Y : MemBase <= a /\ a <= H
  BY <1>1, <1>2, <1>4
<1>6. HeadsOk(mem, defs, n, Y)
  BY <1>4, <1>5 DEF HeadsOk, UserHead
<1>7. \A a \in C : a < H /\ CellOk(mem, defs, a, Y)
  BY <1>4, <1>5 DEF CellOk
<1>8. CodeOk(mem, defs, MemBase, H, n, C, Y)
  BY <1>3, <1>5, <1>6, <1>7 DEF CodeOk
<1>9. Free(Y)
  BY <1>2 DEF Built, Free
<1> QED BY <1>2, <1>8, <1>9 DEF Built

LEMMA HeadComesIn ==
  ASSUME NEW m, NEW ds, NEW base, NEW end, NEW n \in Nat, 14 <= n, NEW C, NEW X,
         CodeOk(m, ds, base, end, n, C, X), UserHead(m, ds[n + 1].word, X), ds[n + 1].word + 3 <= end
  PROVE  CodeOk(m, ds, base, end, n + 1, C, X)
<1>1. \A i \in 2 .. n + 1 : i \in 2 .. n \/ (i = n + 1 /\ ~(i <= 14))
  OBVIOUS
<1>2. HeadsOk(m, ds, n + 1, X)
  <2> SUFFICES ASSUME NEW i \in 2 .. n + 1
               PROVE  IF i <= 14 THEN BuiltinHead(m, i, ds[i].word)
                                 ELSE UserHead(m, ds[i].word, X)
    BY DEF HeadsOk
  <2>1. CASE i \in 2 .. n
    BY <2>1 DEF CodeOk, HeadsOk
  <2>2. CASE i = n + 1 /\ ~(i <= 14)
    BY <2>2
  <2> QED BY <1>1, <2>1, <2>2
<1>3. \A i \in 2 .. n + 1 : ds[i].word + (IF i <= 14 THEN Span(i) ELSE 3) <= end
  <2> TAKE i \in 2 .. n + 1
  <2>1. CASE i \in 2 .. n
    BY <2>1 DEF CodeOk
  <2>2. CASE i = n + 1 /\ ~(i <= 14)
    BY <2>2
  <2> QED BY <1>1, <2>1, <2>2
<1> QED BY <1>2, <1>3 DEF CodeOk

\* The last word gets a body.
LEMMA BodyOpens ==
  ASSUME IInv, Base, Words, NEW C \in SUBSET Word, NEW n \in Nat, n = Len(defs) - 1, Built(C, C, n)
  PROVE  Built(C, C \union {H}, Len(defs))
<1>1. /\ TypeOK /\ H \in 0 .. Top - 1 /\ Top \in Nat /\ Len(defs) \in Nat /\ 14 <= Len(defs)
      /\ last = defs[Len(defs)].word /\ last \in Nat
  BY WordNumbers DEF IInv
<1>2. Built(C, C \union {H}, n)
  BY BuiltWidens
<1>3. Sealed /\ 14 < Len(defs)
  BY <1>1 DEF Built, Sealed
<1>4. CodeOk(mem, defs, MemBase, H, n, C, C \union {H})
  BY <1>2 DEF Built
<1>5. UserHead(mem, last, C \union {H})
  BY <1>3 DEF Sealed, UserHead
<1>6. last + 3 <= H /\ n \in Nat /\ 14 <= n /\ Len(defs) = n + 1
  BY <1>1, <1>3 DEF Sealed
<1>7. CodeOk(mem, defs, MemBase, H, n + 1, C, C \union {H})
  BY <1>1, <1>4, <1>5, <1>6, HeadComesIn
<1> QED BY <1>2, <1>6, <1>7 DEF Built

\* A search does not change the machine.
LEMMA LookupGoesOn ==
  ASSUME WellBracketed, IInv, IInv', Base, Words, Next, Running, status' = "running",
         NEW C \in SUBSET Word, LookingUp(C)
  PROVE  Working'
<1>1. /\ TypeOK /\ NamesAreUnique /\ prog \in Word /\ Top \in Nat /\ MemBase \in Nat
      /\ Len(defs) \in Nat /\ 14 <= Len(defs) /\ H \in 0 .. Top - 1 /\ Len(strings) \in Nat
      /\ \A i \in 1 .. Len(defs) : defs[i].word \in 0 .. Top - 1 /\ 14 <= defs[i].word
                                   /\ defs[i].word <= last
      /\ last \in 0 .. Top - 1 /\ Len(calls) \in Nat
  <2>1. TypeOK /\ prog \in Word /\ Len(calls) \in Nat /\ Len(strings) \in Nat
    BY MachineTypes, LenProperties DEF IInv, TypeOK
  <2> QED BY <2>1, WordNumbers DEF IInv
<1>2. /\ Roomy(2) /\ form # "named"
      /\ token \in {":", "exit"} => form = "top"
      /\ token = "immediate" => form = "body"
      /\ \E i \in 14 .. Len(Input) : token \in Input[i]
  BY DEF LookingUp, Token
<1>3. token \in Tokens
  <2>1. DOMAIN Input = 1 .. Len(Input) /\ Len(Input) \in Nat
    BY InputAssumption, LenProperties
  <2> QED BY <1>2, <2>1 DEF Tokens
<1>4. PICK X \in SUBSET Word, n \in Nat :
        /\ X = Reached(C, Growing)
        /\ n = IF token = "immediate" THEN Len(defs) - 1 ELSE Len(defs)
  <2>1. Reached(C, Growing) \in SUBSET Word
    BY <1>1 DEF Reached, Word
  <2>2. (IF token = "immediate" THEN Len(defs) - 1 ELSE Len(defs)) \in Nat
    BY <1>1
  <2> QED BY <2>1, <2>2
<1>5. Built(C, X, n) /\ ReadFrom(X)
  BY <1>4 DEF LookingUp, Token
<1>6. /\ Head(todo).do = "lookup" /\ todo # << >>
      /\ \/ Arg0 = 0 /\ NoneAfter(0)
         \/ \E i \in 1 .. Len(defs) : Arg0 = defs[i].word /\ NoneAfter(i) /\ token \in ToSet(strings)
  <2>1. PICK a : todo = <<Do("lookup", a)>>
                 /\ \/ a = 0 /\ NoneAfter(0)
                    \/ \E i \in 1 .. Len(defs) : a = defs[i].word /\ NoneAfter(i)
                                                 /\ token \in ToSet(strings)
    BY DEF LookingUp
  <2>2. Head(todo) = Do("lookup", a) /\ todo # << >>
    BY <2>1
  <2> QED BY <2>1, <2>2 DEF Do, Arg0
<1>7. \A i \in 1 .. Len(defs) : SymbolOk(mem, strings, i, defs[i])
                                /\ mem[defs[i].word] = IF i = 1 THEN 0 ELSE defs[i - 1].word
  BY DEF Words, Dict
<1>8. CASE LookupCall
  <2>1. Arg0 # 0 /\ mem[Plus1(Arg0)] = Symbol(token) /\ Call(prog, Plus1(Plus1(Arg0)))
        /\ todo' = << >> /\ UNCHANGED <<last, stack, strings, token, pos, form, defs>>
    BY <1>8 DEF LookupCall, LookupFound
  <2>2. PICK i \in 1 .. Len(defs), w \in 0 .. Top - 1 :
          Arg0 = defs[i].word /\ NoneAfter(i) /\ token \in ToSet(strings) /\ w = defs[i].word
    BY <1>1, <1>6, <2>1
  <2>3. last + 3 <= H
    BY <1>1, <1>5 DEF Built, Free
  <2>4. Plus1(w) = w + 1 /\ Plus1(w + 1) = w + 2 /\ w + 2 \in Word
    <3>1. w + 3 <= H /\ H \in 0 .. Top - 1 /\ Top \in Nat
      BY <1>1, <2>2, <2>3
    <3> QED BY <3>1 DEF Plus1, Word
  <2>5. mem[w + 1] = Symbol(token) /\ Symbol(token) \in 1 .. Len(strings)
        /\ strings[Symbol(token)] = token
    BY <1>1, <2>1, <2>2, <2>4, SymbolFacts
  <2>6. i > 1 /\ defs[i].name = token
    BY <1>1, <1>7, <2>2, <2>5 DEF SymbolOk
  <2>7. PICK t \in Word : t = w + 2
    BY <2>4
  <2>8. PICK p \in Word : p = prog
    BY <1>1
  <2>9. /\ prog' = w + 2 /\ SameCells /\ Base' /\ Len(calls') = Len(calls) + 1
        /\ calls'[Len(calls) + 1] = prog /\ \A j \in 1 .. Len(calls) : calls'[j] = calls[j]
    <3>1. Call(p, t)
      BY <2>1, <2>2, <2>4, <2>7, <2>8
    <3>2. /\ prog' = t /\ SameCells /\ Base' /\ Len(calls') = Len(calls) + 1
          /\ calls'[Len(calls) + 1] = p /\ \A j \in 1 .. Len(calls) : calls'[j] = calls[j]
      BY <1>1, <3>1, CallCells
    <3> QED BY <2>7, <2>8, <3>2
  <2>10. Words'
    BY <2>1, <2>3, <2>9, SameCellsKeepWords
  <2>11. Built(C, X, n)' /\ H' = H
    BY <1>5, <2>1, <2>9, BuiltIsKept
  <2>12. X = Reached(C, Growing)' /\ n = IF token' = "immediate" THEN Len(defs') - 1 ELSE Len(defs')
    BY <1>4, <2>1, <2>11 DEF Reached, Growing, InBody
  <2>13. Inside(X)'
    <3>1. PICK k \in 0 .. Len(calls) : \/ prog = Entry(defs) + 1 /\ InMain(k)
                                       \/ prog \in X /\ InCode(k, X)
      BY <1>5 DEF ReadFrom
    <3>2. CASE prog = Entry(defs) + 1 /\ InMain(k)
      <4>1. InCode(k, X)' /\ k \in 0 .. Len(calls')
        BY <1>1, <2>1, <2>9, <3>2, MainCalls
      <4> QED BY <4>1 DEF Inside
    <3>3. CASE prog \in X /\ InCode(k, X)
      <4>1. InCode(k, X)' /\ k \in 0 .. Len(calls')
        BY <1>1, <2>1, <2>9, <3>3, CodeCalls
      <4> QED BY <4>1 DEF Inside
    <3> QED BY <3>1, <3>2, <3>3
  <2>14. Token(C)'
    <3>1. Roomy(2)'
      BY <1>2, <2>1, <2>11 DEF Roomy
    <3>2. Built(C, Reached(C, Growing), IF token = "immediate" THEN Len(defs) - 1 ELSE Len(defs))'
      BY <2>11, <2>12
    <3>3. (\E j \in 14 .. Len(Input) : token \in Input[j])'
      BY <1>2, <2>1
    <3> QED BY <1>2, <2>1, <3>1, <3>2, <3>3 DEF Token
  <2>15. AtHead(C)'
    <3>1. i \in 2 .. Len(defs') /\ defs'[i].name = token' /\ prog' = defs'[i].word + 2
      BY <1>1, <2>1, <2>2, <2>6, <2>9
    <3> QED BY <2>1, <2>12, <2>13, <2>14, <3>1 DEF AtHead
  <2> QED BY <2>9, <2>10, <2>15 DEF Working, Phase
<1>9. CASE LookupMore
  <2>1. Arg0 # 0 /\ ~LookupFound /\ Plus1(Arg0) \in Cells /\ todo' = <<Do("lookup", mem[Arg0])>>
        /\ UNCHANGED <<mem, prog, last, stack, strings, token, pos, form, calls, defs>>
    BY <1>9 DEF LookupMore, Running, fields, history
  <2>2. PICK i \in 1 .. Len(defs), w \in 0 .. Top - 1 :
          Arg0 = defs[i].word /\ NoneAfter(i) /\ token \in ToSet(strings) /\ w = defs[i].word
    BY <1>1, <1>6, <2>1
  <2>3. mem[w + 1] # Symbol(token)
    <3>1. last + 3 <= H
      BY <1>1, <1>5 DEF Built, Free
    <3>2. Plus1(w) = w + 1
      BY <1>1, <2>2, <3>1 DEF Plus1
    <3>3. Pending("lookup")
      BY <1>6 DEF Pending
    <3> QED BY <2>1, <2>2, <3>2, <3>3 DEF LookupFound
  <2>4. defs[i].name # token
    <3>1. CASE i = 1
      BY <1>1, <1>3, <3>1, NameFacts
    <3>2. CASE i > 1
      <4>1. mem[w + 1] \in 1 .. Len(strings) /\ strings[mem[w + 1]] = defs[i].name
        BY <1>7, <2>2, <3>2 DEF SymbolOk
      <4> QED BY <1>1, <2>3, <4>1, SymbolFacts
    <3> QED BY <1>1, <3>1, <3>2
  <2>5. NoneAfter(i - 1)
    BY <1>1, <2>2, <2>4 DEF NoneAfter
  <2>6. LookingUp(C)'
    <3>1. (Token(C) /\ ReadFrom(Reached(C, Growing)))'
      BY <2>1 DEF LookingUp, Token, ReadFrom, InMain, InCode, Growing, InBody, Reached, Built,
         Roomy, Free, Sealed, H, MemBase
    <3>2. CASE i = 1
      <4>1. todo' = <<Do("lookup", 0)>> /\ NoneAfter(0)
        BY <1>7, <2>1, <2>2, <2>5, <3>2
      <4> QED BY <2>1, <3>1, <4>1 DEF LookingUp, NoneAfter
    <3>3. CASE i > 1
      <4>1. i - 1 \in 1 .. Len(defs) /\ todo' = <<Do("lookup", defs[i - 1].word)>>
        BY <1>1, <1>7, <2>1, <2>2, <3>3
      <4> QED BY <2>1, <2>2, <2>5, <3>1, <4>1 DEF LookingUp, NoneAfter
    <3> QED BY <1>1, <3>2, <3>3
  <2>7. Base' /\ Words'
    BY <2>1 DEF Base, StackOk, Words, MainLoop, H, R, RetBase, MemBase
  <2> QED BY <2>6, <2>7 DEF Working, Phase
<1>10. CASE LookupLiteral
  <2>1. Arg0 = 0 /\ token \in DOMAIN Literals
        /\ todo' = <<DoCompile(OpPushint), DoCompile(Literals[token])>>
        /\ UNCHANGED <<mem, prog, last, stack, strings, token, pos, form, calls, defs>>
    BY <1>10 DEF LookupLiteral, Running, fields, history
  <2>2. NoneAfter(0)
    BY <1>1, <1>6, <2>1
  <2>3. token \notin {":", "exit", "immediate"}
    <3>1. \A i \in 2 .. 4 : defs[i].name \in Input[i - 1] /\ i \in 1 .. Len(defs) /\ ~(i <= 0)
      <4>1. \A i \in 2 .. 4 : i \in 2 .. 14 /\ i \in 1 .. Len(defs) /\ ~(i <= 0)
        BY <1>1
      <4> QED BY <1>1, <4>1, NameFacts
    <3>2. Input[1] = {"exit"} /\ Input[2] = {":"} /\ Input[3] = {"immediate"}
      BY DEF WellBracketed
    <3>3. 2 \in 2 .. 4 /\ 3 \in 2 .. 4 /\ 4 \in 2 .. 4 /\ 2 - 1 = 1 /\ 3 - 1 = 2 /\ 4 - 1 = 3
      OBVIOUS
    <3>4. defs[2].name = "exit" /\ defs[3].name = ":" /\ defs[4].name = "immediate"
      BY <3>1, <3>2, <3>3
    <3> QED BY <2>2, <3>1, <3>3, <3>4 DEF NoneAfter
  <2>4. X = Reached(C, InBody) /\ n = Len(defs)
    BY <1>4, <2>3 DEF Growing, Reached
  <2>5. Literals[token] \in Word
    BY <2>1, InputAssumption
  <2>6. Literal1(C)'
    <3>0. Built(C, Reached(C, InBody), Len(defs)) /\ ReadFrom(Reached(C, InBody))
      BY <1>5, <2>4
    <3>1. Roomy(2) /\ form # "named" /\ Built(C, Reached(C, InBody), Len(defs))
          /\ ReadFrom(Reached(C, InBody))
      BY <1>2, <3>0
    <3> QED BY <2>1, <2>5, <3>1 DEF Literal1, ReadFrom, InMain, InCode, InBody, Reached, Built,
         Roomy, Free, Sealed, H, MemBase
  <2>7. Base' /\ Words'
    BY <2>1 DEF Base, StackOk, Words, MainLoop, H, R, RetBase, MemBase
  <2> QED BY <2>6, <2>7 DEF Working, Phase
<1> QED BY <1>6, <1>8, <1>9, <1>10, NextJob
----------------------------------------------------------------------------
(* A word runs.                                                            *)

\* Only the program counter, and what is left to do, change.
SameMachine == UNCHANGED <<mem, last, strings, token, pos, form, calls, defs>>

LEMMA MachineStays ==
  ASSUME SameMachine, Base, Words
  PROVE  /\ Base' /\ Words' /\ H' = H
         /\ \A n : Roomy(n) => Roomy(n)'
         /\ \A C, X, n : Built(C, X, n) => Built(C, X, n)'
         /\ \A C : Reached(C, InBody)' = Reached(C, InBody)
         /\ \A X : Inside(X) => Inside(X)'
         /\ \A k, X : InCode(k, X) => InCode(k, X)'
<1>1. UNCHANGED <<mem, last, strings, token, pos, form, calls, defs>>
  BY DEF SameMachine
<1>2. Base' /\ Words' /\ H' = H
  BY <1>1 DEF Base, StackOk, Words, MainLoop, H, R, RetBase, MemBase
<1>3. /\ \A n : Roomy(n) => Roomy(n)'
      /\ \A C, X, n : Built(C, X, n) => Built(C, X, n)'
  BY <1>1 DEF Roomy, Built, Free, Sealed, H, MemBase
<1>4. \A C : Reached(C, InBody)' = Reached(C, InBody)
  BY <1>1 DEF Reached, InBody, H
<1>5. /\ \A X : Inside(X) => Inside(X)'
      /\ \A k, X : InCode(k, X) => InCode(k, X)'
  BY <1>1 DEF Inside, InCode
<1> QED BY <1>2, <1>3, <1>4, <1>5

\* The i-th word, at w, is what the token means, and has the head of its kind.
HeadIs(C, X, w, i) ==
  \/ /\ token = "immediate" /\ i = 4 /\ InBody /\ X = C
     /\ Built(C, X, Len(defs) - 1) /\ w + 4 <= H /\ BuiltinHead(mem, i, w)
  \/ /\ token = "exit" /\ i = 2 /\ form = "top" /\ X = C \union {H}
     /\ Built(C, X, Len(defs)) /\ w + 4 <= H /\ BuiltinHead(mem, i, w)
  \/ /\ token = ":" /\ i = 3 /\ form = "top" /\ X = C
     /\ Built(C, X, Len(defs)) /\ w + 4 <= H /\ BuiltinHead(mem, i, w)
  \/ /\ token # "exit" /\ i \in 5 .. 14 /\ i - 2 \in UsedOps /\ X = Reached(C, InBody)
     /\ Built(C, X, Len(defs)) /\ w + 5 <= H /\ BuiltinHead(mem, i, w)
  \/ /\ i > 14 /\ X = Reached(C, InBody) /\ Built(C, X, Len(defs))
     /\ w + 3 <= H /\ UserHead(mem, w, X)

\* What a word is, from where its name came in.
LEMMA HeadFacts ==
  ASSUME WellBracketed, IInv, Base, Words, NEW C \in SUBSET Word, AtHead(C)
  PROVE  /\ todo = << >> /\ Roomy(2) /\ form # "named" /\ prog \in Word
         /\ \E X \in SUBSET Word, w \in 0 .. Top - 1, i \in 2 .. Len(defs) :
              /\ w = defs[i].word /\ prog = w + 2 /\ Inside(X) /\ MemBase <= w
              /\ HeadIs(C, X, w, i)
<1>1. /\ Roomy(2) /\ form # "named" /\ todo = << >>
      /\ token \in {":", "exit"} => form = "top"
      /\ token = "immediate" => form = "body"
      /\ \E i \in 14 .. Len(Input) : token \in Input[i]
  BY DEF AtHead, Token
<1>2. /\ TypeOK /\ prog \in Word /\ Top \in Nat /\ Len(defs) \in Nat /\ 14 <= Len(defs)
      /\ H \in 0 .. Top - 1 /\ MemBase \in Nat
      /\ \A i \in 1 .. Len(defs) : defs[i].word \in 0 .. Top - 1 /\ MemBase <= defs[i].word
  <2>1. TypeOK /\ prog \in Word
    BY MachineTypes DEF IInv
  <2> QED BY <2>1, WordNumbers DEF IInv
<1>3. PICK i \in 2 .. Len(defs) : defs[i].name = token /\ prog = defs[i].word + 2
  BY DEF AtHead
<1>4. i \in 1 .. Len(defs)
  BY <1>2, <1>3
<1>5. PICK w \in 0 .. Top - 1 : w = defs[i].word /\ MemBase <= w
  BY <1>2, <1>4
<1>6. PICK X \in SUBSET Word : X = Reached(C, Growing)
  BY <1>2 DEF Reached, Word
<1>7. /\ Built(C, X, IF token = "immediate" THEN Len(defs) - 1 ELSE Len(defs))
      /\ Inside(X)
  BY <1>6 DEF AtHead, Token
<1>8. Input[1] = {"exit"} /\ Input[2] = {":"} /\ Input[3] = {"immediate"}
  BY DEF WellBracketed
<1>9. /\ token \in Input[1] <=> i = 2
      /\ token \in Input[2] <=> i = 3
      /\ token \in Input[3] <=> i = 4
  <2>1. \A j \in {1, 2, 3} : j \in 1 .. 13 /\ j + 1 \in 2 .. 14 /\ j + 1 - 1 = j
    OBVIOUS
  <2>2. \A j \in 1 .. 13 : token \in Input[j] => i = j + 1
    BY <1>2, <1>3, <1>4, NameFacts
  <2>3. \A j \in {1, 2, 3} : i = j + 1 => token \in Input[j]
    BY <1>2, <1>3, <2>1, NameFacts
  <2> QED BY <2>1, <2>2, <2>3
<1>10. /\ token = "exit" <=> i = 2
       /\ token = ":" <=> i = 3
       /\ token = "immediate" <=> i = 4
  BY <1>8, <1>9
<1>11. PICK n \in Nat : n = IF token = "immediate" THEN Len(defs) - 1 ELSE Len(defs)
  <2>1. (IF token = "immediate" THEN Len(defs) - 1 ELSE Len(defs)) \in Nat
    BY <1>2
  <2> QED BY <2>1
<1>12. Built(C, X, n)
  BY <1>7, <1>11
<1>13. i \in 2 .. n /\ n \in 14 .. Len(defs)
  <2>1. n \in 14 .. Len(defs)
    BY <1>2, <1>12 DEF Built, Sealed
  <2> QED BY <1>2, <1>10, <1>11, <2>1
<1>14. /\ IF i <= 14 THEN BuiltinHead(mem, i, w) ELSE UserHead(mem, w, X)
       /\ w + (IF i <= 14 THEN Span(i) ELSE 3) <= H
  BY <1>5, <1>12, <1>13 DEF Built, CodeOk, HeadsOk
<1>15. ASSUME i = 4 PROVE HeadIs(C, X, w, i)
  <2>1. X = C /\ n = Len(defs) - 1 /\ InBody /\ token = "immediate"
    BY <1>1, <1>6, <1>10, <1>11, <1>15 DEF Reached, Growing, InBody
  <2>2. BuiltinHead(mem, i, w) /\ w + 4 <= H
    BY <1>14, <1>15 DEF Span
  <2>3. Built(C, X, Len(defs) - 1)
    BY <1>12, <2>1
  <2> QED BY <1>15, <2>1, <2>2, <2>3 DEF HeadIs
<1>16. ASSUME i = 2 PROVE HeadIs(C, X, w, i)
  <2>1. X = C \union {H} /\ n = Len(defs) /\ form = "top" /\ token = "exit"
    BY <1>1, <1>6, <1>10, <1>11, <1>16 DEF Reached, Growing, InBody
  <2>2. BuiltinHead(mem, i, w) /\ w + 4 <= H
    BY <1>14, <1>16 DEF Span
  <2>3. Built(C, X, Len(defs))
    BY <1>12, <2>1
  <2> QED BY <1>16, <2>1, <2>2, <2>3 DEF HeadIs
<1>17. ASSUME i = 3 PROVE HeadIs(C, X, w, i)
  <2>1. X = C /\ n = Len(defs) /\ form = "top" /\ token = ":"
    BY <1>1, <1>6, <1>10, <1>11, <1>17 DEF Reached, Growing, InBody
  <2>2. BuiltinHead(mem, i, w) /\ w + 4 <= H
    BY <1>14, <1>17 DEF Span
  <2>3. Built(C, X, Len(defs))
    BY <1>12, <2>1
  <2> QED BY <1>17, <2>1, <2>2, <2>3 DEF HeadIs
<1>18. ASSUME i > 4 PROVE X = Reached(C, InBody) /\ Built(C, X, Len(defs)) /\ token # "exit"
  <2>1. X = Reached(C, InBody) /\ n = Len(defs) /\ token # "exit"
    BY <1>6, <1>10, <1>11, <1>18 DEF Reached, Growing
  <2> QED BY <1>12, <2>1
<1>19. ASSUME i \in 5 .. 14 PROVE HeadIs(C, X, w, i)
  <2>1. BuiltinHead(mem, i, w) /\ w + 5 <= H /\ i > 4
    BY <1>14, <1>19 DEF Span
  <2>2. i - 2 \in UsedOps
    <3>1. i - 1 \in 1 .. 13 /\ i - 2 + 1 = i - 1 /\ i - 2 \in 3 .. 12 /\ i \in 2 .. 14
      BY <1>19
    <3>2. token \in Input[i - 2 + 1]
      BY <1>2, <1>3, <3>1, NameFacts
    <3>3. i - 2 \in OpRead .. OpLastBuiltin
      BY <3>1, CodesAreNumbers
    <3> QED BY <1>1, <3>2, <3>3 DEF UsedOps
  <2> QED BY <1>18, <1>19, <2>1, <2>2 DEF HeadIs
<1>20. ASSUME i > 14 PROVE HeadIs(C, X, w, i)
  <2>1. UserHead(mem, w, X) /\ w + 3 <= H /\ i > 4
    BY <1>2, <1>14, <1>20
  <2> QED BY <1>18, <1>20, <2>1 DEF HeadIs
<1>21. i = 2 \/ i = 3 \/ i = 4 \/ i \in 5 .. 14 \/ i > 14
  BY <1>2, <1>3
<1>22. HeadIs(C, X, w, i)
  BY <1>15, <1>16, <1>17, <1>19, <1>20, <1>21
<1> QED BY <1>1, <1>2, <1>3, <1>5, <1>7, <1>22

\* immediate replaces the COMPILE of the last word by its RUN.
LEMMA ImmediateGoesOn ==
  ASSUME IInv, IInv', Base, Words, status' = "running", todo = << >>,
         NEW C \in SUBSET Word, InBody, Built(C, C, Len(defs) - 1), Inside(C), Roomy(2),
         ImmediateStep, prog' \in C
  PROVE  Working'
<1>1. /\ Immediate /\ UNCHANGED <<last, strings, todo, pos, form, calls, defs>>
  BY DEF ImmediateStep, history
<1>2. /\ TypeOK /\ TypeOK' /\ H \in 0 .. Top - 1 /\ 14 <= H /\ Top \in Nat
      /\ MemBase \in 0 .. Top - 1 /\ MemBase <= H
      /\ last \in 0 .. Top - 1 /\ 14 <= Len(defs) /\ Len(defs) \in Nat
      /\ last = defs[Len(defs)].word
      /\ \A i \in 1 .. Len(defs) : /\ defs[i].word \in 0 .. Top - 1 /\ MemBase <= defs[i].word
                                   /\ i < Len(defs) => defs[i].word + Span(i) <= last
  BY WordNumbers DEF IInv, Base
<1>3. PICK l \in 0 .. Top - 1, n \in Nat, h \in 0 .. Top - 1 :
        l = last /\ n = Len(defs) - 1 /\ h = H
  <2>1. Len(defs) - 1 \in Nat
    BY <1>2
  <2> QED BY <1>2, <2>1
<1>4. /\ h = l + 4 /\ mem[h] = 0 /\ 14 <= n /\ Len(defs) = n + 1
      /\ mem[l + 2] = OpCompile /\ mem[l + 3] = OpRun
      /\ MemBase <= l
  BY <1>2, <1>3 DEF Built, Sealed
<1>5. /\ mem'[0] = l + 3 /\ mem'[l + 2] = OpRun
      /\ \A a \in Word : a # 0 /\ a # l + 2 => mem'[a] = mem[a]
  <2>1. /\ mem'[0] = H - 1 /\ mem'[H - 2] = mem[H - 1]
        /\ \A a \in Word : a # 0 /\ a # H - 2 => mem'[a] = mem[a]
    BY <1>1, <1>2, ImmediateCells
  <2>2. H - 1 = l + 3 /\ H - 2 = l + 2
    BY <1>3, <1>4
  <2> QED BY <1>4, <2>1, <2>2
<1>6. /\ l + 2 \in Word /\ l + 3 \in Word /\ l + 4 \in Word /\ l + 3 # 0 /\ l + 4 # 0
  <2>1. h = l + 4 /\ Top \in Nat
    BY <1>2, <1>4
  <2> QED BY <2>1 DEF Word
<1>7. H' = l + 3 /\ mem'[l + 3] = OpRun
  BY <1>4, <1>5, <1>6 DEF H
<1>8. StackOk' /\ RetBase' = RetBase /\ MemBase' = MemBase /\ 12 <= RetBase
  <2>1. \A a \in Word : a # 0 /\ a < MemBase => mem'[a] = mem[a]
    <3>1. MemBase \in Nat /\ MemBase <= l
      BY <1>2, <1>4
    <3>2. \A a \in Word : a < MemBase => a # l + 2
      BY <3>1 DEF Word
    <3> QED BY <1>5, <3>2
  <2> QED BY <1>1, <1>2, <2>1, StackIsKept
<1>9. Base'
  <2>1. \A a \in Word : a > l + 3 => mem'[a] = 0
    <3> TAKE a \in Word
    <3>1. CASE a > l + 4
      <4>1. a # 0 /\ a # l + 2 /\ a > H
        BY <1>3, <1>4, <3>1 DEF Word
      <4> QED BY <1>5, <4>1 DEF Base
    <3>2. CASE a = l + 4
      BY <1>4, <1>5, <1>6, <3>2
    <3> QED BY <1>3, <3>1, <3>2 DEF Word
  <2>2. MemBase <= l + 3 /\ 14 <= l + 3
    <3>1. 14 <= l
      BY <1>2, <1>3, WordNumbers
    <3> QED BY <1>2, <1>3, <1>4, <3>1
  <2> QED BY <1>7, <1>8, <2>1, <2>2 DEF Base
<1>10. SameCode(mem, mem', MemBase, l + 2)
  <2>1. MemBase # 0
    <3>1. RetBase \in Word /\ Len(calls) \in Nat
      BY <1>2, MachineTypes
    <3> QED BY <1>2, <3>1 DEF Base, StackOk, Word
  <2>2. \A a \in Word : MemBase <= a /\ a < l + 2 => a # 0 /\ a # l + 2
    BY <1>2, <1>3, <2>1 DEF Word
  <2> QED BY <1>5, <2>2 DEF SameCode
<1>11. Words'
  <2>1. l + 2 \in 0 .. Top /\ last + 2 <= l + 2
    BY <1>2, <1>3, <1>4
  <2>2. Longer(strings, strings')
    <3>1. Len(strings) \in Nat
      BY <1>2, LenProperties DEF TypeOK
    <3> QED BY <1>1, <3>1 DEF Longer
  <2> QED BY <1>1, <1>2, <1>8, <1>10, <2>1, <2>2, WordsAreKept
<1>12. CodeOk(mem, defs, MemBase, H, n, C, C)
  BY <1>3 DEF Built
<1>13. CodeOk(mem, defs, MemBase, l + 2, n, C, C)
  <2>1. \A i \in 2 .. n : defs[i].word + (IF i <= 14 THEN Span(i) ELSE 3) <= l + 2
    <3> TAKE i \in 2 .. n
    <3>1. PICK w \in Nat, sp \in Nat : w = defs[i].word /\ sp = Span(i)
      <4>1. defs[i].word \in Nat
        BY <1>2, <1>4
      <4> QED BY <4>1 DEF Span
    <3>2. i \in 1 .. Len(defs) /\ i < Len(defs) /\ i # 1
      BY <1>4
    <3>3. w + sp <= l
      BY <1>2, <1>3, <3>1, <3>2
    <3>4. sp = 4 \/ sp = 5
      BY <3>1, <3>2 DEF Span
    <3> QED BY <1>3, <3>1, <3>3, <3>4
  <2>2. \A a \in C : a < l + 2
    <3> TAKE a \in C
    <3>1. a \in Nat /\ a < l + 4 /\ CellOk(mem, defs, a, C)
      BY <1>3, <1>4, <1>12 DEF CodeOk, Word
    <3>2. mem[a] # OpRun /\ mem[a] # OpCompile
      <4>1. \A v \in Codes(defs) : v # 13 /\ v # 14
        BY <1>2, CodesAreWords
      <4>2. \A v \in UsedOps : v # 13 /\ v # 14
        BY UsedOpsAreNumbers
      <4> QED BY <3>1, <4>1, <4>2, CodesAreNumbers DEF CellOk
    <3> QED BY <1>3, <1>4, <3>1, <3>2
  <2>3. \A a \in C : MemBase <= a /\ a <= l + 2
    BY <1>2, <1>3, <1>12, <2>2 DEF CodeOk, Word
  <2>4. /\ HeadsOk(mem, defs, n, C) /\ defs[3].word + 3 \in C /\ defs[4].word + 3 \in C
        /\ \A a \in C : CellOk(mem, defs, a, C)
    BY <1>12 DEF CodeOk
  <2> QED BY <2>1, <2>2, <2>3, <2>4 DEF CodeOk
<1>14. PICK Y \in SUBSET Word : Y = C \union {l + 3}
  BY <1>6
<1>15. CodeOk(mem', defs', MemBase, l + 3, n, C, Y)
  <2>1. /\ MemBase \in Nat /\ l + 2 \in 0 .. Top /\ l + 3 \in 0 .. Top /\ l + 2 <= l + 3
        /\ n \in 14 .. Len(defs) /\ Longer(defs, defs')
        /\ \A i \in 1 .. Len(defs) : MemBase <= defs[i].word
    <3>1. MemBase \in Nat /\ l + 2 \in 0 .. Top /\ l + 3 \in 0 .. Top /\ l + 2 <= l + 3
      <4>1. h = l + 4 /\ Top \in Nat /\ MemBase \in Nat
        BY <1>2, <1>4
      <4> QED BY <4>1
    <3>2. n \in 14 .. Len(defs) /\ \A i \in 1 .. Len(defs) : MemBase <= defs[i].word
      BY <1>2, <1>4
    <3>3. Longer(defs, defs')
      BY <1>1, <1>2 DEF Longer
    <3> QED BY <3>1, <3>2, <3>3
  <2>2. C \subseteq Y /\ \A a \in C \ C : FALSE
    BY <1>14
  <2>3. \A a \in Y : MemBase <= a /\ a <= l + 3
    <3>1. \A a \in C : a \in Nat /\ MemBase <= a /\ a <= l + 2
      BY <1>2, <1>13 DEF CodeOk, Word
    <3>2. MemBase <= l + 3
      BY <1>2, <1>4
    <3> QED BY <1>14, <3>1, <3>2
  <2> QED BY <1>2, <1>10, <1>13, <2>1, <2>2, <2>3, CodeGrows
<1>16. CodeOk(mem', defs', MemBase, l + 3, n + 1, C, Y)
  <2>1. UserHead(mem', l, Y) /\ defs'[n + 1].word = l /\ l + 3 <= l + 3
    BY <1>1, <1>2, <1>3, <1>4, <1>5, <1>14 DEF UserHead
  <2> QED BY <1>4, <1>15, <2>1, HeadComesIn
<1>17. Built(C, Y, Len(defs))'
  <2>1. Free(Y)'
    BY <1>1, <1>3, <1>7, <1>14 DEF Free
  <2> QED BY <1>1, <1>4, <1>7, <1>8, <1>16, <2>1 DEF Built
<1>18. Y = Reached(C, InBody)' /\ form' # "named"
  BY <1>1, <1>7, <1>14 DEF Reached, InBody
<1>19. Roomy(0)'
  <2>1. pos' = pos /\ pos \in Nat /\ Len(Input) \in Nat
    BY <1>1, <1>2, InputAssumption, LenProperties DEF TypeOK
  <2>2. Limit \in Nat
    BY <1>2, LimitAssumption DEF Word
  <2>3. \/ l + 4 + 2 + 1 + 2 * (Len(Input) - pos) < Top
        \/ Limit # 0 /\ l + 4 <= Limit /\ Limit + 1 < Top
    BY <1>3, <1>4 DEF Roomy
  <2>4. \/ l + 3 + 0 + 1 + 2 * (Len(Input) - pos) < Top
        \/ Limit # 0 /\ l + 3 <= Limit /\ Limit + 1 < Top
    <3>1. Top \in Nat
      BY <1>2
    <3> QED BY <2>1, <2>2, <2>3, <3>1
  <2> QED BY <1>7, <2>1, <2>4 DEF Roomy
<1>20. \E k \in 0 .. Len(calls') : prog' \in Y /\ InCode(k, Y)'
  BY <1>1, <1>14, MoreCode DEF Inside
<1>21. Idle(C)'
  BY <1>1, <1>17, <1>18, <1>19, <1>20 DEF Idle
<1> QED BY <1>9, <1>11, <1>21 DEF Working, Phase

\* : starts a definition.
LEMMA DefineGoesOn ==
  ASSUME IInv, IInv', Base, Words, status' = "running",
         NEW C \in SUBSET Word, Built(C, C, Len(defs)), Inside(C), Roomy(2),
         DefineStep, prog' \in C
  PROVE  Working'
<1>1. PICK t \in Offered \intersect Names : Define(t)
  BY DEF DefineStep
<1>2. /\ pos' = pos + 1 /\ form' = "named" /\ UNCHANGED <<mem, last, calls, defs>>
      /\ token' = t /\ Symbolicate(t) /\ todo' = Header(SymbolOf(t))
  BY <1>1 DEF DefineStep, Define
<1>3. /\ TypeOK /\ TypeOK' /\ H \in 0 .. Top - 1 /\ Top \in Nat /\ MemBase \in Nat
      /\ last \in 0 .. Top - 1
  BY WordNumbers DEF IInv
<1>4. t \in Tokens /\ pos < Len(Input) /\ t \in Names
  BY OfferedType
<1>0. PICK w \in Word : w = H
  BY <1>3 DEF Word
<1>5. PICK nm : w = H /\ nm = SymbolOf(t)
  BY <1>0
<1>6. /\ nm \in 1 .. Len(strings') /\ strings'[nm] = t /\ Longer(strings, strings')
  <2>1. Len(strings) \in Nat /\ strings \in Seq(Tokens)
    BY <1>3, LenProperties DEF TypeOK
  <2>2. CASE t \in ToSet(strings)
    BY <1>2, <1>3, <1>5, <2>1, <2>2, SymbolFacts DEF Symbolicate, SymbolOf, Longer, IInv
  <2>3. CASE t \notin ToSet(strings)
    <3>1. strings' = Append(strings, t) /\ nm = Len(strings) + 1
      BY <1>2, <1>5, <2>3 DEF Symbolicate, SymbolOf
    <3>2. /\ Len(Append(strings, t)) = Len(strings) + 1 /\ Append(strings, t)[Len(strings) + 1] = t
          /\ \A i \in 1 .. Len(strings) : Append(strings, t)[i] = strings[i]
      BY <1>4, <2>1, AppendProperties
    <3> QED BY <2>1, <3>1, <3>2 DEF Longer
  <2> QED BY <2>2, <2>3
<1>7. H' = H /\ MemBase' = MemBase /\ RetBase' = RetBase
  BY <1>2 DEF H, MemBase, RetBase
<1>8. Base'
  BY <1>2, <1>7 DEF Base, StackOk, R
<1>9. last + 4 <= H
  <2>1. \A a \in C : a < H
    BY DEF Built, CodeOk
  <2> QED BY <1>3, <2>1 DEF Built, Free, Word
<1>10. Words'
  <2>1. H \in 0 .. Top /\ last + 2 <= H /\ SameCode(mem, mem', MemBase, H)
    BY <1>2, <1>3, <1>9 DEF SameCode
  <2> QED BY <1>2, <1>3, <1>6, <1>7, <2>1, WordsAreKept
<1>11. Roomy(4)'
  <2>1. 2 \in Nat /\ 2 + 2 = 4 /\ Roomy(2 + 2)'
    BY <1>2, <1>4, <1>7, TokenMakesRoom
  <2> QED BY <2>1
<1>12. HeaderAt(w, nm, 0)'
  <2>1. H' = w + 0 /\ Roomy(4 - 0)'
    <3>1. w \in Nat /\ w + 0 = w /\ 4 - 0 = 4
      BY <1>3, <1>5
    <3> QED BY <1>5, <1>7, <1>11, <3>1
  <2> QED BY <2>1 DEF HeaderAt
<1>13. todo' = <<DoCompile(last'), DoCompile(nm), DoCompile(OpCompile), DoCompile(OpRun),
                 Do("setLast", w)>>
  BY <1>2, <1>5 DEF Header
<1>14. CodeOk(mem', defs', MemBase', w, Len(defs'), C, C) /\ mem'[H'] \in {0, OpRun}
  BY <1>2, <1>5, <1>7 DEF Built, Free
<1>15. Inside(C)'
  BY <1>2, InsideStays
<1>16. Defining(C)'
  <2>1. last' + 4 <= w
    BY <1>2, <1>5, <1>9
  <2> QED BY <1>2, <1>4, <1>6, <1>12, <1>13, <1>14, <1>15, <2>1 DEF Defining
<1> QED BY <1>8, <1>10, <1>16 DEF Working, Phase

LEMMA AtHeadGoesOn ==
  ASSUME WellBracketed, IInv, IInv', Base, Words, Next, Running, status' = "running",
         NEW C \in SUBSET Word, AtHead(C)
  PROVE  Working'
<1>1. todo = << >> /\ Roomy(2) /\ form # "named" /\ prog \in Word /\ TypeOK
  BY HeadFacts DEF IInv
<1>2. PICK X \in SUBSET Word, w \in 0 .. Top - 1, i \in 2 .. Len(defs) :
        /\ w = defs[i].word /\ prog = w + 2 /\ Inside(X) /\ MemBase <= w
        /\ \/ /\ token = "immediate" /\ i = 4 /\ InBody /\ X = C
              /\ Built(C, X, Len(defs) - 1) /\ w + 4 <= H /\ BuiltinHead(mem, i, w)
           \/ /\ token = "exit" /\ i = 2 /\ form = "top" /\ X = C \union {H}
              /\ Built(C, X, Len(defs)) /\ w + 4 <= H /\ BuiltinHead(mem, i, w)
           \/ /\ token = ":" /\ i = 3 /\ form = "top" /\ X = C
              /\ Built(C, X, Len(defs)) /\ w + 4 <= H /\ BuiltinHead(mem, i, w)
           \/ /\ token # "exit" /\ i \in 5 .. 14 /\ i - 2 \in UsedOps /\ X = Reached(C, InBody)
              /\ Built(C, X, Len(defs)) /\ w + 5 <= H /\ BuiltinHead(mem, i, w)
           \/ /\ i > 14 /\ X = Reached(C, InBody) /\ Built(C, X, Len(defs))
              /\ w + 3 <= H /\ UserHead(mem, w, X)
  BY HeadFacts DEF HeadIs
<1>3. /\ Top \in Nat /\ H \in 0 .. Top - 1 /\ H + 1 < Top /\ Len(defs) \in Nat /\ 14 <= Len(defs)
      /\ MemBase \in Nat /\ i \in Nat /\ w \in 0 .. Top - 1
  <2>1. H + 1 < Top /\ 2 \in Nat
    BY <1>1, RoomIsLeft
  <2> QED BY <1>1, <1>2, <2>1, WordNumbers
<1>4. After = w + 3 /\ (w + 4 <= H => Plus1(After) = w + 4) /\ w + 3 < Top
  <2>1. w + 3 <= H /\ w < Top - 3
    <3>1. w + 3 <= H \/ w + 4 <= H \/ w + 5 <= H
      BY <1>2
    <3> QED BY <1>3, <3>1
  <2>2. Plus1(w + 2) = w + 3
    BY <1>3, <2>1 DEF Plus1
  <2>3. w + 4 <= H => Plus1(w + 3) = w + 4
    BY <1>3 DEF Plus1
  <2> QED BY <1>2, <1>3, <2>1, <2>2, <2>3 DEF After
<1>5. Roomy(0) /\ Roomy(1)
  <2>1. 0 \in Nat /\ 1 \in Nat /\ 2 \in Nat /\ 0 <= 2 /\ 1 <= 2
    OBVIOUS
  <2> QED BY <1>1, <2>1, RoomIsLeft
<1>6. \A op : mem[prog] = op /\ op \in {OpImmediate, OpDefine, OpCompIt, OpRun, OpCompile}
        => /\ op = OpImmediate => ImmediateStep
           /\ op = OpDefine => DefineStep
           /\ op = OpCompIt => CompItStep
           /\ op = OpRun => RunStep
           /\ op = OpCompile => CompileStep
  <2>1. mem[prog] \in {1, 2, 13, 14, 16} => mem[prog] \notin {0, 3, 5, 15} /\ mem[prog] \in Ops
        /\ mem[prog] \notin StackOps
    BY CodesAreNumbers DEF StackOps
  <2>2. /\ mem[prog] = OpImmediate => ImmediateStep
        /\ mem[prog] = OpDefine => DefineStep
        /\ mem[prog] = OpCompIt => CompItStep
        /\ mem[prog] = OpRun => RunStep
        /\ mem[prog] = OpCompile => CompileStep
    BY <1>1, <2>1, NextCode, CodesAreNumbers
  <2> QED BY <2>2
<1>7. CASE i = 4
  <2>1. X = C /\ InBody /\ Built(C, C, Len(defs) - 1) /\ BuiltinHead(mem, i, w)
    BY <1>2, <1>7
  <2>2. mem[prog] = OpImmediate
    BY <1>2, <1>7, <2>1, CodesAreNumbers DEF BuiltinHead
  <2>3. ImmediateStep
    BY <1>6, <2>2
  <2>4. prog' \in C
    <3>1. prog' = w + 3
      BY <1>4, <2>3 DEF ImmediateStep
    <3> QED BY <1>2, <1>7, <2>1, <3>1 DEF Built, CodeOk
  <2> QED BY <1>1, <1>2, <2>1, <2>3, <2>4, ImmediateGoesOn
<1>8. ASSUME SameMachine, todo' = << >>, i > 14, X = Reached(C, InBody), Built(C, X, Len(defs)),
             prog' \in X
      PROVE  Working'
  <2>1. \E k \in 0 .. Len(calls') : InCode(k, X)'
    BY <1>2, <1>8, MachineStays DEF Inside, SameMachine
  <2>2. Built(C, Reached(C, InBody), Len(defs))' /\ Roomy(0)' /\ X = Reached(C, InBody)'
        /\ form' # "named" /\ Base' /\ Words'
    <3>1. /\ Base' /\ Words' /\ Roomy(0)' /\ Built(C, X, Len(defs))'
          /\ X = Reached(C, InBody)'
      <4>1. PICK n : n = Len(defs)
        OBVIOUS
      <4>2. /\ Base' /\ Words' /\ Roomy(0)' /\ Built(C, X, n)' /\ Reached(C, InBody)' = Reached(C, InBody)
        BY <1>5, <1>8, <4>1, MachineStays
      <4> QED BY <1>8, <4>1, <4>2 DEF SameMachine
    <3> QED BY <1>1, <1>8, <3>1 DEF SameMachine
  <2>3. Idle(C)'
    BY <1>8, <2>1, <2>2 DEF Idle
  <2> QED BY <2>2, <2>3 DEF Working, Phase
<1>9. CASE i > 14 /\ mem[w + 2] = OpRun /\ w + 3 \in X
  <2>1. RunStep
    BY <1>2, <1>6, <1>9
  <2>2. SameMachine /\ todo' = << >> /\ prog' \in X
    BY <1>1, <1>4, <1>9, <2>1 DEF RunStep, history, SameMachine
  <2> QED BY <1>2, <1>8, <1>9, <2>2
<1>10. CASE i > 14 /\ mem[w + 2] = OpCompile /\ mem[w + 3] = OpRun /\ w + 4 \in X
  <2>1. CompileStep /\ X = Reached(C, InBody) /\ Built(C, X, Len(defs))
    BY <1>2, <1>6, <1>10
  <2>2. /\ \A a \in X : a <= H
    BY <2>1 DEF Built, CodeOk
  <2>3. Plus1(After) = w + 4 /\ mem[After] = OpRun
    BY <1>4, <1>10, <2>2
  <2>4. PICK v \in Word : v = w + 4
    BY <1>10
  <2>5. SameMachine /\ todo' = <<DoCompile(v), DoExit>>
    BY <2>1, <2>3, <2>4 DEF CompileStep, Running, history, SameMachine
  <2>6. v \in Codes(defs)
    <3>1. i \in 1 .. Len(defs)
      BY <1>3, <1>10
    <3> QED BY <1>2, <2>4, <3>1 DEF Codes
  <2>7. Calling(C)' /\ Base' /\ Words'
    <3>1. PICK n : n = Len(defs)
      OBVIOUS
    <3>2. /\ Base' /\ Words' /\ Roomy(1)' /\ Built(C, X, n)' /\ Reached(C, InBody)' = Reached(C, InBody)
          /\ Inside(X)'
      BY <1>2, <1>5, <2>1, <2>5, <3>1, MachineStays
    <3>3. Built(C, Reached(C, InBody), Len(defs))' /\ Inside(Reached(C, InBody))' /\ form' # "named"
          /\ defs' = defs /\ v \in Reached(C, InBody)'
      BY <1>1, <1>10, <2>1, <2>4, <2>5, <3>1, <3>2 DEF SameMachine
    <3> QED BY <2>5, <2>6, <3>2, <3>3 DEF Calling
  <2> QED BY <2>7 DEF Working, Phase
<1>11. CASE i = 2 \/ i \in 5 .. 14
  <2>1. PICK v : v = IF i = 2 THEN OpExit ELSE i - 2
    OBVIOUS
  <2>2. /\ mem[w + 2] = OpCompIt /\ mem[w + 3] = v /\ w + 4 <= H
        /\ i # 2 => w + 5 <= H /\ mem[w + 4] = OpExit /\ v \in UsedOps /\ token # "exit"
        /\ i = 2 => v = OpExit /\ token = "exit" /\ form = "top"
        /\ Built(C, X, Len(defs)) /\ X = Reached(C, InBody \/ token = "exit")
    <3>1. CASE i = 2
      <4>1. /\ token = "exit" /\ form = "top" /\ X = C \union {H}
            /\ Built(C, X, Len(defs)) /\ w + 4 <= H /\ BuiltinHead(mem, 2, w)
        BY <1>2, <3>1
      <4>2. v = OpExit /\ mem[w + 2] = OpCompIt /\ mem[w + 3] = OpExit
        BY <2>1, <3>1, <4>1 DEF BuiltinHead
      <4> QED BY <3>1, <4>1, <4>2 DEF Reached
    <3>2. CASE i \in 5 .. 14
      <4>1. /\ token # "exit" /\ i - 2 \in UsedOps /\ X = Reached(C, InBody)
            /\ Built(C, X, Len(defs)) /\ w + 5 <= H /\ BuiltinHead(mem, i, w)
        BY <1>2, <3>2
      <4>2. v = i - 2 /\ mem[w + 2] = OpCompIt /\ mem[w + 3] = i - 2 /\ mem[w + 4] = OpExit
        BY <2>1, <3>2, <4>1 DEF BuiltinHead
      <4>3. w + 4 <= H /\ i # 2
        BY <1>3, <3>2, <4>1
      <4> QED BY <4>1, <4>2, <4>3 DEF Reached
    <3> QED BY <1>11, <3>1, <3>2
  <2>3. CompItStep
    BY <1>2, <1>6, <2>2
  <2>4. SameMachine /\ todo' = <<Do("compileit", v)>> /\ prog' = w + 4
    <3>1. After \in Cells /\ Plus1(After) = w + 4 /\ mem[After] = v
      BY <1>4, <2>2, <2>3 DEF CompItStep, Running
    <3> QED BY <2>3, <3>1 DEF CompItStep, history, SameMachine
  <2>5. Copying(C)' /\ Base' /\ Words'
    <3>1. PICK n : n = Len(defs)
      OBVIOUS
    <3>2. /\ Base' /\ Words' /\ Roomy(1)' /\ Built(C, X, n)' /\ H' = H /\ Inside(X)'
      BY <1>2, <1>5, <2>2, <2>4, <3>1, MachineStays
    <3>3. form' # "named" /\ form' = form /\ token' = token /\ defs' = defs /\ MemBase' = MemBase
          /\ mem' = mem
      BY <1>1, <2>4 DEF SameMachine, MemBase
    <3>4. X = Reached(C, InBody \/ token = "exit")'
      BY <2>2, <3>2, <3>3 DEF Reached, InBody
    <3>5. Built(C, X, Len(defs))'
      BY <3>1, <3>2, <3>3
    <3>6. MemBase <= w + 4 /\ (w + 5 <= H => w + 4 < H)
      BY <1>2, <1>3
    <3>7. (\/ todo = <<Do("compileit", OpExit)>> /\ token = "exit" /\ form = "top"
           \/ \E u \in UsedOps : /\ todo = <<Do("compileit", u)>> /\ token # "exit"
                                 /\ MemBase <= prog /\ prog < H /\ mem[prog] = OpExit)'
      BY <2>2, <2>4, <3>2, <3>3, <3>6
    <3> QED BY <3>2, <3>3, <3>4, <3>5, <3>7 DEF Copying
  <2> QED BY <2>5 DEF Working, Phase
<1>12. CASE i = 3
  <2>1. token = ":" /\ X = C /\ form = "top" /\ Built(C, C, Len(defs)) /\ BuiltinHead(mem, i, w)
    BY <1>2, <1>12
  <2>2. mem[prog] = OpDefine
    BY <1>2, <1>12, <2>1, CodesAreNumbers DEF BuiltinHead
  <2>3. DefineStep
    BY <1>6, <2>2
  <2>4. w + 3 \in C
    BY <1>2, <1>12, <2>1 DEF Built, CodeOk
  <2>5. prog' \in C
    BY <1>4, <2>3, <2>4 DEF DefineStep
  <2> QED BY <1>1, <1>2, <2>1, <2>3, <2>5, DefineGoesOn
<1>13. i = 2 \/ i = 3 \/ i = 4 \/ i \in 5 .. 14 \/ i > 14
  BY <1>3
<1>14. i > 14 => UserHead(mem, w, X)
  BY <1>2
<1> QED BY <1>7, <1>9, <1>10, <1>11, <1>12, <1>13, <1>14 DEF UserHead
----------------------------------------------------------------------------
(* The machine goes on to the next code.                                   *)

LEMMA FormFacts ==
  ASSUME NEW t
  PROVE  /\ t = "exit" => FormAfter(t) = "top"
         /\ t # "exit" /\ form = "named" => FormAfter(t) = "body"
         /\ t # "exit" /\ form # "named" => FormAfter(t) = form
BY DEF FormAfter

LEMMA ReadGoesOn ==
  ASSUME WellBracketed, IInv, IInv', Base, Words, status' = "running",
         NEW C \in SUBSET Word, Roomy(0),
         Built(C, Reached(C, InBody), IF form = "named" THEN Len(defs) - 1 ELSE Len(defs)),
         ReadStep, NEW k \in 0 .. Len(calls),
         \/ prog' = Entry(defs) + 1 /\ InMain(k)
         \/ prog' \in Reached(C, InBody) /\ InCode(k, Reached(C, InBody))
  PROVE  Working'
<1>1. PICK t \in WordsOffered :
        /\ token' = t /\ form' = FormAfter(t) /\ todo' = <<Do("lookup", LookupFrom(t))>>
  BY DEF ReadStep
<1>2. pos' = pos + 1 /\ UNCHANGED <<mem, last, stack, strings, calls, defs>>
  BY DEF ReadStep
<1>3. /\ TypeOK /\ TypeOK' /\ NamesAreUnique /\ H \in 0 .. Top - 1 /\ Top \in Nat /\ MemBase \in Nat
      /\ last \in 0 .. Top - 1 /\ Len(defs) \in Nat /\ 14 <= Len(defs)
      /\ last = defs[Len(defs)].word /\ H' = H /\ MemBase' = MemBase
  BY <1>2, WordNumbers DEF IInv, H, MemBase
<1>4. /\ t \in Tokens /\ pos < Len(Input) /\ t \in Input[pos + 1]
      /\ t = ":" => form = "top"
      /\ t = "immediate" => form = "named"
  <2>1. t \in Offered
    BY DEF WordsOffered
  <2>2. t \in Tokens /\ pos < Len(Input) /\ t \in Input[pos + 1]
    BY <2>1, OfferedType DEF Offered
  <2> QED BY <2>2 DEF WordsOffered, WellBracketed
<1>5. pos + 1 \in 14 .. Len(Input)
  <2>1. pos \in Nat /\ Len(Input) \in Nat /\ 13 <= pos
    BY <1>3, InputAssumption, LenProperties DEF TypeOK, Words
  <2> QED BY <1>4, <2>1
<1>6. Roomy(2)'
  <2>1. 0 \in Nat /\ 0 + 2 = 2
    OBVIOUS
  <2>2. Roomy(0 + 2)'
    BY <1>2, <1>3, <1>4, <2>1, TokenMakesRoom
  <2> QED BY <2>1, <2>2
<1>7. form \in {"top", "named", "body"}
  BY <1>3 DEF TypeOK
<1>8. PICK X \in SUBSET Word, n \in Nat :
        /\ X = Reached(C, InBody) /\ n = IF form = "named" THEN Len(defs) - 1 ELSE Len(defs)
  <2>1. Reached(C, InBody) \in SUBSET Word
    BY <1>3 DEF Reached, Word
  <2>2. (IF form = "named" THEN Len(defs) - 1 ELSE Len(defs)) \in Nat
    BY <1>3
  <2> QED BY <2>1, <2>2
<1>9. Built(C, X, n)
  BY <1>8
<1>10. PICK h \in Word : h = H
  BY <1>3 DEF Word
<1>11. PICK Y \in SUBSET Word, j \in Nat :
         /\ Y = (IF Growing' THEN C \union {h} ELSE C)
         /\ j = IF t = "immediate" THEN Len(defs) - 1 ELSE Len(defs)
  <2>1. (IF Growing' THEN C \union {h} ELSE C) \in SUBSET Word
    BY <1>10
  <2>2. (IF t = "immediate" THEN Len(defs) - 1 ELSE Len(defs)) \in Nat
    BY <1>3
  <2> QED BY <2>1, <2>2
<1>12. /\ X \subseteq Y /\ Built(C, Y, j) /\ form' # "named"
       /\ t \in {":", "exit"} => form' = "top"
       /\ t = "immediate" => form' = "body"
  <2>1. CASE t = "immediate"
    <3>1. form = "named" /\ form' = "body" /\ ~Growing' /\ ~InBody
      BY <1>1, <1>4, <2>1, FormFacts DEF Growing, InBody
    <3>2. X = C /\ Y = C /\ n = j
      BY <1>8, <1>11, <2>1, <3>1 DEF Reached
    <3> QED BY <1>9, <2>1, <3>1, <3>2
  <2>2. CASE t # "immediate" /\ form = "named"
    <3>1. /\ form' = IF t = "exit" THEN "top" ELSE "body"
          /\ Growing' /\ ~InBody
      BY <1>1, <1>4, <2>2, FormFacts DEF Growing, InBody
    <3>2. X = C /\ Y = C \union {H} /\ n = Len(defs) - 1 /\ j = Len(defs)
      BY <1>8, <1>10, <1>11, <2>2, <3>1 DEF Reached
    <3>3. Built(C, C \union {H}, Len(defs))
      BY <1>9, <3>2, BodyOpens
    <3> QED BY <1>4, <2>2, <3>1, <3>2, <3>3
  <2>3. CASE t # "immediate" /\ form = "body"
    <3>1. /\ form' = IF t = "exit" THEN "top" ELSE "body"
          /\ Growing' /\ InBody
      BY <1>1, <1>4, <2>3, FormFacts DEF Growing, InBody
    <3>2. X = C \union {H} /\ Y = X /\ n = j
      BY <1>8, <1>10, <1>11, <2>3, <3>1 DEF Reached
    <3> QED BY <1>4, <1>9, <2>3, <3>1, <3>2
  <2>4. CASE t # "immediate" /\ form = "top"
    <3>1. form' = "top" /\ (Growing' <=> t = "exit") /\ ~InBody
      BY <1>1, <1>4, <2>4, FormFacts DEF Growing, InBody
    <3>2. X = C /\ n = j
      BY <1>8, <1>11, <2>4, <3>1 DEF Reached
    <3>3. Built(C, C \union {H}, n)
      BY <1>3, <1>9, <3>2, BuiltWidens
    <3> QED BY <1>9, <1>10, <1>11, <2>4, <3>1, <3>2, <3>3
  <2> QED BY <1>7, <2>1, <2>2, <2>3, <2>4
<1>13. Base' /\ Words'
  <2>1. Base'
    BY <1>2, <1>3 DEF Base, StackOk, R, RetBase, MemBase
  <2>2. last + 3 <= H
    BY <1>3, <1>9 DEF Built, Free
  <2>3. SameCells
    BY <1>2 DEF SameCells
  <2> QED BY <1>2, <2>1, <2>2, <2>3, SameCellsKeepWords
<1>14. Built(C, Y, j)' /\ Y = Reached(C, Growing)'
       /\ j = IF token' = "immediate" THEN Len(defs') - 1 ELSE Len(defs')
  <2>1. Built(C, Y, j)'
    BY <1>2, <1>3, <1>12 DEF Built, Free, Sealed
  <2>2. Y = Reached(C, Growing)'
    BY <1>3, <1>10, <1>11 DEF Reached
  <2> QED BY <1>1, <1>2, <1>11, <2>1, <2>2
<1>15. Token(C)'
  <2>1. Built(C, Reached(C, Growing), IF token = "immediate" THEN Len(defs) - 1 ELSE Len(defs))'
    BY <1>14
  <2>2. (\E i \in 14 .. Len(Input) : token \in Input[i])'
    BY <1>1, <1>4, <1>5
  <2> QED BY <1>1, <1>6, <1>12, <2>1, <2>2 DEF Token
<1>16. ReadFrom(Y)'
  <2>1. CASE prog' = Entry(defs) + 1 /\ InMain(k)
    BY <1>2, <2>1 DEF ReadFrom, InMain
  <2>2. CASE prog' \in X /\ InCode(k, X)
    <3>1. prog' \in Y /\ InCode(k, Y)'
      BY <1>2, <1>12, <2>2, MoreCode
    <3> QED BY <1>2, <3>1 DEF ReadFrom
  <2> QED BY <1>8, <2>1, <2>2
<1>17. (\/ todo = <<Do("lookup", 0)>> /\ NoneAfter(0)
        \/ \E i \in 1 .. Len(defs) : /\ todo = <<Do("lookup", defs[i].word)>> /\ NoneAfter(i)
                                     /\ token \in ToSet(strings))'
  <2>1. CASE t \in ToSet(strings)
    <3>1. LookupFrom(t) = last
      BY <1>3, <2>1, SymbolFacts DEF LookupFrom
    <3>2. Len(defs) \in 1 .. Len(defs) /\ NoneAfter(Len(defs))'
      BY <1>2, <1>3 DEF NoneAfter
    <3> QED BY <1>1, <1>2, <1>3, <2>1, <3>1, <3>2
  <2>2. CASE t \notin ToSet(strings)
    <3>1. LookupFrom(t) = 0
      BY <1>3, <2>2, SymbolFacts DEF LookupFrom
    <3>2. \A i \in 1 .. Len(defs) : defs[i].name # t
      <4> TAKE i \in 1 .. Len(defs)
      <4>1. CASE i = 1
        BY <1>3, <1>4, <4>1, NameFacts
      <4>2. CASE i > 1
        <5>1. SymbolOk(mem, strings, i, defs[i])
          BY DEF Words, Dict
        <5>2. mem[defs[i].word + 1] \in 1 .. Len(strings)
              /\ strings[mem[defs[i].word + 1]] = defs[i].name
          BY <4>2, <5>1 DEF SymbolOk
        <5> QED BY <1>3, <2>2, <5>2, SymbolFacts
      <4> QED BY <1>3, <4>1, <4>2
    <3>3. NoneAfter(0)'
      BY <1>1, <1>2, <3>2 DEF NoneAfter
    <3> QED BY <1>1, <3>1, <3>3
  <2> QED BY <2>1, <2>2
<1>18. LookingUp(C)'
  <2>1. ReadFrom(Reached(C, Growing))'
    BY <1>14, <1>16
  <2> QED BY <1>15, <1>17, <2>1 DEF LookingUp
<1> QED BY <1>13, <1>18 DEF Working, Phase


LEMMA MovesOn ==
  ASSUME IInv, IInv', Base, Words, todo' = << >>, NEW C \in SUBSET Word, Roomy(0),
         UNCHANGED <<mem, last, strings, token, form, calls, defs>>,
         pos' = pos \/ (pos' = pos + 1 /\ pos < Len(Input)),
         Built(C, Reached(C, InBody), IF form = "named" THEN Len(defs) - 1 ELSE Len(defs)),
         NEW k \in 0 .. Len(calls), InCode(k, Reached(C, InBody)),
         prog' \in Reached(C, InBody) \/ (prog' = H + 1 /\ mem[H] = OpRun /\ InBody)
  PROVE  Working'
<1>1. /\ TypeOK /\ TypeOK' /\ H' = H /\ MemBase' = MemBase /\ Top \in Nat
      /\ last \in Nat /\ 14 <= Len(defs) /\ H \in Nat
  BY WordNumbers DEF IInv, H, MemBase
<1>2. PICK n : n = IF form = "named" THEN Len(defs) - 1 ELSE Len(defs)
  OBVIOUS
<1>3. PICK X : X = Reached(C, InBody)
  OBVIOUS
<1>4. Built(C, X, n)
  BY <1>2, <1>3
<1>5. Base' /\ Words'
  <2>1. Base'
    BY <1>1 DEF Base, StackOk, R, RetBase, MemBase
  <2>2. last + 3 <= H
    BY <1>1, <1>4 DEF Built, Free
  <2>3. SameCells
    BY DEF SameCells
  <2>4. pos' = pos \/ pos' = pos + 1
    OBVIOUS
  <2> QED BY <2>1, <2>2, <2>3, <2>4, SameCellsKeepWords
<1>6. Roomy(0)'
  <2>1. CASE pos' = pos
    BY <1>1, <2>1, RoomIsKept
  <2>2. CASE pos' = pos + 1 /\ pos < Len(Input)
    <3>1. 0 \in Nat /\ 2 \in Nat /\ 0 <= 2 /\ 0 + 2 = 2
      OBVIOUS
    <3>2. Roomy(0 + 2)'
      BY <1>1, <2>2, <3>1, TokenMakesRoom
    <3>3. H' + 2 + 1 + 2 * (Len(Input) - pos') < Top \/ (Limit # 0 /\ H' <= Limit /\ Limit + 1 < Top)
      BY <3>1, <3>2 DEF Roomy
    <3>4. Len(Input) \in Nat /\ pos' \in Nat
      BY <1>1, InputAssumption, LenProperties DEF TypeOK
    <3> QED BY <1>1, <3>3, <3>4 DEF Roomy
  <2> QED BY <2>1, <2>2
<1>7. Built(C, X, n)' /\ X = Reached(C, InBody)'
      /\ n = IF form' = "named" THEN Len(defs') - 1 ELSE Len(defs')
  BY <1>1, <1>2, <1>3, <1>4 DEF Built, Free, Sealed, Reached, InBody
<1>8. InCode(k, X)' /\ k \in 0 .. Len(calls')
  BY <1>3, MoreCode
<1>9. prog' \in X \/ (prog' = H' + 1 /\ mem'[H'] = OpRun /\ InBody')
  BY <1>1, <1>3 DEF InBody
<1>10. Idle(C)'
  <2>1. Built(C, Reached(C, InBody), IF form = "named" THEN Len(defs) - 1 ELSE Len(defs))'
    BY <1>7
  <2>2. \E j \in 0 .. Len(calls') :
          \/ prog' \in {Entry(defs'), Entry(defs') + 1} /\ InMain(j)'
          \/ prog' \in Reached(C, InBody)' /\ InCode(j, Reached(C, InBody))'
          \/ prog' = H' + 1 /\ mem'[H'] = OpRun /\ InBody' /\ InCode(j, Reached(C, InBody))'
    BY <1>7, <1>8, <1>9
  <2> QED BY <1>6, <2>1, <2>2 DEF Idle
<1> QED BY <1>5, <1>10 DEF Working, Phase

\* A call, from the main loop or from code.
LEMMA CallGoesOn ==
  ASSUME IInv, IInv', Base, Words, todo' = << >>, NEW C \in SUBSET Word, Roomy(0),
         status' = "running", UNCHANGED <<last, strings, pos, token, form, defs>>,
         NEW ret \in Word, NEW target \in Word, Call(ret, target),
         Built(C, Reached(C, InBody), IF form = "named" THEN Len(defs) - 1 ELSE Len(defs)),
         NEW k \in 0 .. Len(calls),
         \/ InMain(k) /\ ret = Entry(defs) + 2 /\ target = Entry(defs)
         \/ InCode(k, Reached(C, InBody)) /\ ret \in Reached(C, InBody) /\ target \in Reached(C, InBody)
  PROVE  Working'
<1>1. TypeOK /\ H \in Nat /\ last \in Nat
  BY WordNumbers DEF IInv
<1>2. /\ prog' = target /\ SameCells /\ Base' /\ Len(calls') = Len(calls) + 1
      /\ calls'[Len(calls) + 1] = ret /\ \A i \in 1 .. Len(calls) : calls'[i] = calls[i]
  BY <1>1, CallCells
<1>3. PICK n \in Nat : n = IF form = "named" THEN Len(defs) - 1 ELSE Len(defs)
  <2>1. (IF form = "named" THEN Len(defs) - 1 ELSE Len(defs)) \in Nat
    BY <1>1, WordNumbers
  <2> QED BY <2>1
<1>4. PICK X \in SUBSET Word : X = Reached(C, InBody)
  <2>1. H \in Word
    BY <1>1, MachineTypes
  <2> QED BY <2>1 DEF Reached
<1>5. Built(C, X, n)
  BY <1>3, <1>4
<1>6. Words'
  <2>1. last + 3 <= H
    BY <1>1, <1>5 DEF Built, Free
  <2> QED BY <1>2, <2>1, SameCellsKeepWords
<1>7. Built(C, X, n)' /\ H' = H
  BY <1>2, <1>5, BuiltIsKept
<1>8. X = Reached(C, InBody)' /\ n = IF form' = "named" THEN Len(defs') - 1 ELSE Len(defs')
  BY <1>3, <1>4, <1>7 DEF Reached, InBody
<1>9. Roomy(0)'
  BY <1>7, RoomIsKept
<1>10. \E j \in 0 .. Len(calls') :
         \/ prog' \in {Entry(defs'), Entry(defs') + 1} /\ InMain(j)'
         \/ prog' \in X /\ InCode(j, X)'
  <2>1. CASE InMain(k) /\ ret = Entry(defs) + 2 /\ target = Entry(defs)
    <3>1. InMain(k + 1)' /\ k + 1 \in 0 .. Len(calls')
      BY <1>1, <1>2, <2>1, MainCalls
    <3> QED BY <1>2, <2>1, <3>1
  <2>2. CASE InCode(k, X) /\ ret \in X /\ target \in X
    <3>1. InCode(k, X)' /\ k \in 0 .. Len(calls')
      BY <1>1, <1>2, <2>2, CodeCalls
    <3> QED BY <1>2, <2>2, <3>1
  <2> QED BY <1>4, <2>1, <2>2
<1>11. Idle(C)'
  <2>1. Built(C, Reached(C, InBody), IF form = "named" THEN Len(defs) - 1 ELSE Len(defs))'
    BY <1>7, <1>8
  <2> QED BY <1>8, <1>9, <1>10, <2>1 DEF Idle
<1> QED BY <1>2, <1>6, <1>11 DEF Working, Phase

LEMMA ExitGoesOn ==
  ASSUME IInv, IInv', Base, Words, todo' = << >>, NEW C \in SUBSET Word, Roomy(0),
         status' = "running", UNCHANGED <<last, strings, pos, token, form, defs>>,
         NEW ret \in Word, Exit(ret),
         Built(C, Reached(C, InBody), IF form = "named" THEN Len(defs) - 1 ELSE Len(defs)),
         NEW k \in 0 .. Len(calls), InCode(k, Reached(C, InBody))
  PROVE  Working'
<1>1. TypeOK /\ H \in Nat /\ last \in Nat
  BY WordNumbers DEF IInv
<1>3. PICK n \in Nat : n = IF form = "named" THEN Len(defs) - 1 ELSE Len(defs)
  <2>1. (IF form = "named" THEN Len(defs) - 1 ELSE Len(defs)) \in Nat
    BY <1>1, WordNumbers
  <2> QED BY <2>1
<1>4. PICK X \in SUBSET Word : X = Reached(C, InBody)
  <2>1. H \in Word
    BY <1>1, MachineTypes
  <2> QED BY <2>1 DEF Reached
<1>5. Built(C, X, n) /\ InCode(k, X)
  BY <1>3, <1>4
<1>6. /\ Base' /\ Words' /\ Built(C, X, n)' /\ X = Reached(C, InBody)' /\ H' = H
      /\ \E j \in 0 .. Len(calls') :
           \/ prog' \in {Entry(defs), Entry(defs) + 1}' /\ InMain(j)'
           \/ prog' \in X /\ InCode(j, X)'
  BY <1>4, <1>5, ReturnsInto
<1>7. n = IF form' = "named" THEN Len(defs') - 1 ELSE Len(defs')
  BY <1>3
<1>8. Roomy(0)'
  BY <1>6, RoomIsKept
<1>9. Idle(C)'
  <2>1. Built(C, Reached(C, InBody), IF form = "named" THEN Len(defs) - 1 ELSE Len(defs))'
    BY <1>6, <1>7
  <2> QED BY <1>6, <1>8, <2>1 DEF Idle
<1> QED BY <1>6, <1>9 DEF Working, Phase

\* A cell of code runs, or the free cell at the end of it.
LEMMA CodeGoesOn ==
  ASSUME WellBracketed, IInv, IInv', Base, Words, Next, Running, status' = "running",
         todo = << >>, NEW C \in SUBSET Word, Roomy(0),
         Built(C, Reached(C, InBody), IF form = "named" THEN Len(defs) - 1 ELSE Len(defs)),
         NEW k \in 0 .. Len(calls), InCode(k, Reached(C, InBody)),
         \/ prog \in Reached(C, InBody)
         \/ prog = H + 1 /\ mem[H] = OpRun /\ InBody
  PROVE  Working'
<1>1. /\ TypeOK /\ Top \in Nat /\ H \in 0 .. Top - 1 /\ prog \in 0 .. Top - 1 /\ MemBase \in Nat
      /\ Len(defs) \in Nat /\ 14 <= H
  BY WordNumbers DEF IInv, Base
<1>2. H + 1 < Top
  <2>1. 0 \in Nat
    OBVIOUS
  <2> QED BY <2>1, RoomIsLeft
<1>3. PICK X \in SUBSET Word, n \in Nat :
        /\ X = Reached(C, InBody) /\ n = IF form = "named" THEN Len(defs) - 1 ELSE Len(defs)
  <2>1. Reached(C, InBody) \in SUBSET Word
    BY <1>1 DEF Reached, Word
  <2>2. (IF form = "named" THEN Len(defs) - 1 ELSE Len(defs)) \in Nat
    BY <1>1, WordNumbers
  <2> QED BY <2>1, <2>2
<1>4. Built(C, X, n) /\ InCode(k, X)
  BY <1>3
<1>5. /\ \A a \in C : a < H /\ CellOk(mem, defs, a, X)
      /\ mem[H] \in {OpExit, OpRun}
      /\ X \subseteq C \union {H}
  BY <1>3, <1>4, CodesAreNumbers DEF Built, CodeOk, Free, Reached
<1>6. PICK p \in Word : p = prog
  BY <1>1 DEF Word
<1>7. /\ p \in Nat /\ p <= H + 1 /\ After \in Word
      /\ p <= H => After = p + 1
      /\ p < H => Plus1(After) = p + 2
  <2>1. p <= H + 1
    BY <1>1, <1>3, <1>5, <1>6
  <2> QED BY <1>1, <1>2, <1>6, <2>1 DEF Plus1, After, Word
<1>9. CASE mem[p] = OpExit
  <2>1. ExitStep
    BY <1>6, <1>9, NextCode, CodesAreNumbers DEF StackOps
  <2>2. PICK r \in Word : r = After
    BY <1>7
  <2>3. Exit(r) /\ todo' = << >> /\ UNCHANGED <<last, strings, pos, token, form, defs>>
    BY <2>1, <2>2 DEF ExitStep
  <2> QED BY <2>3, ExitGoesOn
<1>10. CASE p = H /\ mem[p] = OpRun
  <2>1. RunStep
    BY <1>6, <1>10, NextCode, CodesAreNumbers DEF StackOps
  <2>2. /\ prog' = p + 1 /\ todo' = << >>
        /\ UNCHANGED <<mem, last, strings, pos, token, form, calls, defs>>
    <3>1. After = p + 1
      BY <1>1, <1>7, <1>10
    <3> QED BY <2>1, <3>1 DEF RunStep, history
  <2>3. InBody \/ p \in C
    BY <1>1, <1>3, <1>6, <1>7, <1>10 DEF Reached
  <2>4. InBody
    BY <1>1, <1>5, <1>10, <2>3
  <2> QED BY <1>10, <2>2, <2>4, MovesOn
<1>11. CASE p \in C
  <2>1. p < H /\ CellOk(mem, defs, p, X)
    BY <1>5, <1>11
  <2>5. After = p + 1
    BY <1>1, <1>7, <2>1
  <2>2. CASE mem[p] \in UsedOps /\ p + 1 \in X
    <3>1. mem[p] \in 3 .. 12 /\ mem[p] # OpSet
      BY <2>2, UsedOpsAreNumbers DEF WellBracketed
    <3>2. CASE mem[p] = OpRead
      <4>1. ReadStep
        BY <1>6, <3>2, NextCode, CodesAreNumbers DEF StackOps
      <4>2. prog' \in Reached(C, InBody)
        BY <1>3, <2>2, <2>5, <4>1 DEF ReadStep
      <4> QED BY <4>1, <4>2, ReadGoesOn
    <3>3. CASE mem[p] # OpRead
      <4>1. mem[p] \in StackOps
        BY <3>1, <3>3, CodesAreNumbers DEF StackOps
      <4>2. Computes
        BY <1>6, <4>1, NextCode, CodesAreNumbers DEF StackOps
      <4>3. /\ prog' = p + 1 /\ todo' = << >>
            /\ UNCHANGED <<mem, last, strings, token, form, calls, defs>>
            /\ pos' = pos \/ (pos' = pos + 1 /\ pos < Len(Input))
        BY <1>1, <2>5, <4>2 DEF Computes
      <4>4. prog' \in Reached(C, InBody)
        BY <1>3, <2>2, <4>3
      <4> QED BY <4>3, <4>4, MovesOn
    <3> QED BY <3>2, <3>3
  <2>3. CASE mem[p] = OpPushint /\ p + 2 \in X
    <3>1. PushintStep
      BY <1>6, <2>3, NextCode, CodesAreNumbers DEF StackOps
    <3>2. /\ prog' = p + 2 /\ todo' = << >>
          /\ UNCHANGED <<mem, last, strings, pos, token, form, calls, defs>>
      <4>1. Plus1(After) = p + 2
        BY <1>7, <2>1
      <4> QED BY <3>1, <4>1 DEF PushintStep, history
    <3>3. prog' \in Reached(C, InBody)
      BY <1>3, <2>3, <3>2
    <3> QED BY <3>2, <3>3, MovesOn
  <2>4. CASE mem[p] \in Codes(defs) /\ mem[p] \in X /\ p + 1 \in X
    <3>1. 17 <= mem[p] /\ mem[p] \in Nat
      BY <1>1, <2>4, CodesAreWords
    <3>2. CallStep
      <4>1. mem[p] \notin Ops /\ mem[p] \notin StackOps
        BY <3>1, CodesAreNumbers DEF StackOps
      <4> QED BY <1>6, <3>1, <4>1, NextCode, CodesAreNumbers
    <3>3. PICK v \in Word : v = mem[p]
      BY <2>4
    <3>4. Call(p + 1, v) /\ UNCHANGED <<last, strings, todo, pos, token, form, defs>>
      BY <1>6, <2>5, <3>2, <3>3 DEF CallStep
    <3>5. p + 1 \in Word /\ v \in Reached(C, InBody) /\ p + 1 \in Reached(C, InBody)
      BY <1>3, <2>4, <3>3
    <3>6. PICK r \in Word : r = p + 1
      BY <3>5
    <3>7. Call(r, v) /\ r \in Reached(C, InBody)
      BY <3>4, <3>5, <3>6
    <3>8. todo' = << >>
      BY <3>4
    <3> HIDE DEF Call
    <3> QED BY <3>4, <3>5, <3>7, <3>8, CallGoesOn
  <2> QED BY <1>9, <2>1, <2>2, <2>3, <2>4 DEF CellOk
<1>12. CASE p = H + 1
  <2>1. mem[p] = OpExit
    <3>1. p \in Word /\ p > H
      BY <1>1, <1>12
    <3> QED BY <3>1, CodesAreNumbers DEF Base
  <2> QED BY <1>9, <2>1
<1>13. p \in C \/ p = H \/ p = H + 1
  BY <1>3, <1>5, <1>6
<1>14. CASE p = H
  BY <1>5, <1>9, <1>10, <1>14
<1> QED BY <1>11, <1>12, <1>13, <1>14

LEMMA IdleGoesOn ==
  ASSUME WellBracketed, IInv, IInv', Base, Words, Next, Running, status' = "running",
         NEW C \in SUBSET Word, Idle(C)
  PROVE  Working'
<1>1. /\ todo = << >> /\ Roomy(0)
      /\ Built(C, Reached(C, InBody), IF form = "named" THEN Len(defs) - 1 ELSE Len(defs))
  BY DEF Idle
<1>2. PICK k \in 0 .. Len(calls) :
        \/ prog \in {Entry(defs), Entry(defs) + 1} /\ InMain(k)
        \/ prog \in Reached(C, InBody) /\ InCode(k, Reached(C, InBody))
        \/ prog = H + 1 /\ mem[H] = OpRun /\ InBody /\ InCode(k, Reached(C, InBody))
  BY DEF Idle
<1>3. /\ TypeOK /\ Top \in Nat /\ prog \in 0 .. Top - 1 /\ last \in 0 .. Top - 1
      /\ Entry(defs) \in Nat /\ 17 <= Entry(defs) /\ Entry(defs) + 3 <= last
  BY WordNumbers DEF IInv
<1>4. PICK e \in Nat : e = Entry(defs)
  BY <1>3
<1>5. mem[e] = OpRead /\ mem[e + 1] = e
  BY <1>4 DEF Words, MainLoop
<1>6. e \in Word /\ e + 2 \in Word /\ Plus1(e) = e + 1 /\ Plus1(e + 1) = e + 2
  BY <1>3, <1>4 DEF Word, Plus1
<1>7. CASE prog = e /\ InMain(k)
  <2>1. ReadStep
    BY <1>1, <1>5, <1>7, NextCode, CodesAreNumbers DEF StackOps
  <2>2. prog' = Entry(defs) + 1
    BY <1>4, <1>6, <1>7, <2>1 DEF ReadStep, After
  <2> QED BY <1>1, <1>7, <2>1, <2>2, ReadGoesOn
<1>8. CASE prog = e + 1 /\ InMain(k)
  <2>1. mem[prog] = e /\ e \notin Ops /\ e \notin StackOps /\ e \notin 0 .. 16
    BY <1>3, <1>4, <1>5, <1>8, CodesAreNumbers DEF StackOps
  <2>2. CallStep
    BY <1>1, <2>1, NextCode, CodesAreNumbers
  <2>3. PICK r \in Word : r = e + 2
    BY <1>6
  <2>4. Call(r, e) /\ UNCHANGED <<last, strings, todo, pos, token, form, defs>>
    BY <1>6, <1>8, <2>1, <2>2, <2>3 DEF CallStep, After
  <2>5. r = Entry(defs) + 2 /\ e = Entry(defs) /\ todo' = << >>
    BY <1>1, <1>4, <2>3, <2>4
  <2> HIDE DEF Call
  <2> QED BY <1>1, <1>6, <1>8, <2>4, <2>5, CallGoesOn
<1>9. CASE ~InMain(k)
  BY <1>1, <1>2, <1>9, CodeGoesOn
<1>10. CASE InMain(k)
  BY <1>1, <1>2, <1>4, <1>7, <1>8, <1>10, CodeGoesOn
<1> QED BY <1>9, <1>10

\* What the machine does while it works keeps it working.
LEMMA WorkGoesOn ==
  ASSUME WellBracketed, IInv, IInv', Working, Next, Running, status' = "running"
  PROVE  Working'
<1>1. PICK C \in SUBSET Word : Phase(C)
  BY DEF Working
<1>2. Base /\ Words
  BY DEF Working
<1> QED BY <1>1, <1>2, IdleGoesOn, LookupGoesOn, AtHeadGoesOn, Literal1GoesOn, Literal2GoesOn,
        CallingGoesOn, CopyingGoesOn, ReturningGoesOn, DefiningGoesOn DEF Phase
=============================================================================
