------------------------------ MODULE FirstVM ------------------------------
(***************************************************************************)
(* The FIRST virtual machine (first.go): main memory with the dictionary   *)
(* and the return stack in it, the stack, the string storage, and one      *)
(* action per primitive.  The machine runs on one goroutine.  A method     *)
(* that calls others leaves in todo what it has still to do; nothing else  *)
(* can happen before todo is empty, and an error in the middle leaves what *)
(* was done before it, as the panic in Core.halt does.  Memory is flat     *)
(* here (see FlatMem and PagedInts).  Words are unsigned modulo Top =      *)
(* 2 * Half; int(w) is the signed reading of w.  An operator marked        *)
(* "mutant" is a way in which the next one could be wrong: nothing uses it *)
(* but the test that the properties would notice.                          *)
(***************************************************************************)
EXTENDS Integers, SequencesExt

CONSTANTS Half,          \* half the number of words
          Limit,         \* WithMemLimit, 0 for none
          PageSize,      \* mem.PageSize when init runs, 0 for not chosen
          DefaultPageSize,
          Presets,       \* cells 0, 1, 10, 11 that options may have stored
          Input,         \* Input[i]: the tokens that may come i-th
          Names,         \* which of them a program may define
          Literals,      \* the tokens that are literals, with their words
          Runes,         \* what key may read
          Disciplined    \* are programs well bracketed? see Offered

Top == 2 * Half
Word == 0 .. Top - 1
Cells == 0 .. (IF Limit = 0 THEN Top - 1 ELSE Limit)   \* what load can reach
Tokens == UNION {Input[i] : i \in DOMAIN Input}

ASSUME WordAssumption == Half \in Nat /\ Half > 16
ASSUME LimitAssumption == Limit \in Word /\ (Limit # 0 => Limit > 16)
ASSUME PageSizeAssumption == PageSize \in Word /\ DefaultPageSize \in Word \ {0}
ASSUME PresetsAssumption ==
  Presets \subseteq [h : Word, r : Word, retBase : Word, memBase : Word]
ASSUME InputAssumption ==
  /\ Input \in Seq(SUBSET STRING) /\ Len(Input) \in Word
  /\ Literals \in [DOMAIN Literals -> Word]
  /\ Runes \subseteq Word \ {0}

VARIABLES mem, prog, last, stack, strings,   \* the fields of VM
          status,   \* "new", "running", or why the machine halted
          todo,     \* what is left to do of the methods under way
          token,    \* the token that was scanned
          pos,      \* how many tokens have been read
          form,     \* history: the place in a definition, see Offered
          calls,    \* history: the addresses pushr pushed and popr has not popped
          defs      \* history: the words in the order they were defined

fields == <<mem, prog, last, stack, strings>>
history == <<form, calls, defs>>
vars == <<fields, status, todo, token, pos, history>>

Running == status = "running"
----------------------------------------------------------------------------
(* Words and memory.                                                       *)

W(n) == n % Top
Signed(w) == IF w < Half THEN w ELSE w - Top
\* mutant: signed
MinusSigned(a, b) == a - b
Minus(a, b) == IF a >= b THEN a - b ELSE a - b + Top
Plus1(a) == IF a = Top - 1 THEN 0 ELSE a + 1
Minus1(a) == IF a = 0 THEN Top - 1 ELSE a - 1

\* stor of one value: the limit is compared to the next address, and nothing
\* is stored at the last address of all (see PagedInts)
CanStor(a) == Limit = 0 \/ Plus1(a) <= Limit
Stored(m, a, v) == IF Plus1(a) = 0 THEN m ELSE [m EXCEPT ![a] = v]

H       == mem[0]     \* the end of the dictionary
R       == mem[1]     \* the top of the return stack
RetBase == mem[10]
MemBase == mem[11]

Halts(why) == status' = why /\ UNCHANGED <<mem, calls>>
----------------------------------------------------------------------------
(* The methods that change memory.                                         *)

\* pushr(ret), then prog = target
\* mutants: one cell too many, and no bound at all
PushrFaultLate(ret) ==
  IF R < Minus1(RetBase) THEN "retUnder"
  ELSE IF R >= MemBase THEN "retOver"
  ELSE IF ~CanStor(Plus1(R)) THEN "limit" ELSE "none"
PushrFaultUnbounded(ret) ==
  IF R < Minus1(RetBase) THEN "retUnder"
  ELSE IF ~CanStor(Plus1(R)) THEN "limit" ELSE "none"
PushrFault(ret) ==
  IF R < Minus1(RetBase) THEN "retUnder"
  ELSE IF R >= Minus1(MemBase) THEN "retOver"
  ELSE IF ~CanStor(Plus1(R)) THEN "limit" ELSE "none"

Call(ret, target) ==
  /\ prog' = IF PushrFault(ret) = "none" THEN target ELSE ret
  /\ IF PushrFault(ret) # "none" THEN Halts(PushrFault(ret))
     ELSE /\ mem' = [Stored(mem, Plus1(R), ret) EXCEPT ![1] = Plus1(R)]
          /\ calls' = Append(calls, ret)
          /\ UNCHANGED status

\* exit: prog = popr(); ret is the program counter if it fails
PoprFault ==
  IF R = Minus1(RetBase) THEN "exited"
  ELSE IF R < Minus1(RetBase) THEN "retUnder"
  ELSE IF R > Minus1(MemBase) THEN "retOver"
  ELSE IF R \notin Cells THEN "limit" ELSE "none"

Exit(ret) ==
  /\ prog' = IF PoprFault = "none" THEN mem[R] ELSE ret
  /\ IF PoprFault # "none" THEN Halts(PoprFault)
     ELSE /\ mem' = [mem EXCEPT ![1] = Minus1(R)]
          /\ calls' = IF calls = << >> THEN calls ELSE Front(calls)
          /\ UNCHANGED status

\* compile: the end of the dictionary moves before the value is stored
Compiled(v) == Stored([mem EXCEPT ![0] = Plus1(H)], H, v)
Compile(v) ==
  /\ mem' = IF CanStor(H) THEN Compiled(v) ELSE [mem EXCEPT ![0] = Plus1(H)]
  /\ status' = IF CanStor(H) THEN status ELSE "limit"

\* immediate: the last cell of the dictionary replaces the one before it
\* mutant: what comes after the dictionary is taken for its last cell
ImmediateAfterEnd ==
  IF H \in Cells /\ CanStor(Minus1(H))
  THEN mem' = Stored(mem, Minus1(H), mem[H]) /\ UNCHANGED status
  ELSE status' = "limit" /\ UNCHANGED mem
Immediate ==
  LET h == Minus1(H)
  IN IF h \in Cells /\ CanStor(Minus1(h))
     THEN /\ mem' = [Stored(mem, Minus1(h), mem[h]) EXCEPT ![0] = h]
          /\ UNCHANGED status
     ELSE status' = "limit" /\ UNCHANGED mem
----------------------------------------------------------------------------
(* Codes, the string storage, and what a method leaves to do.              *)

OpExit == 0    OpDefine == 1   OpImmediate == 2   OpRead == 3
OpGet == 4     OpSet == 5      OpSub == 6         OpMul == 7
OpDiv == 8     OpLess == 9     OpEcho == 10       OpKey == 11
OpPick == 12   OpCompile == 13 OpRun == 14        OpPushint == 15
OpCompIt == 16
OpLastBuiltin == OpPick
Ops == OpExit .. OpCompIt

\* symbol: 0 for a string that is not in the string storage
Symbol(t) == IF t \in ToSet(strings)
             THEN CHOOSE i \in DOMAIN strings : strings[i] = t ELSE 0
\* symbolicate, and the index it returns
Symbolicate(t) ==
  strings' = IF t \in ToSet(strings) THEN strings ELSE Append(strings, t)
SymbolOf(t) == IF t \in ToSet(strings) THEN Symbol(t) ELSE Len(strings) + 1

Do(what, arg) == [do |-> what, arg |-> arg]
DoCompile(v) == Do("compile", v)
DoImmediate == Do("immediate", 0)
DoExit == Do("exit", 0)

\* compileHeader
\* mutant: the new word is the last one already
HeaderOfItself(name) ==
  <<DoCompile(H), DoCompile(name), DoCompile(OpCompile), DoCompile(OpRun), Do("setLast", H)>>
Header(name) ==
  <<DoCompile(last), DoCompile(name), DoCompile(OpCompile), DoCompile(OpRun),
    Do("setLast", H)>>

\* define, of the name it scanned
Define(t) ==
  /\ token' = t /\ Symbolicate(t)
  /\ todo' = Header(SymbolOf(t))

\* compileBuiltins: the rest of what is done for one code
Builtin(op) ==
  <<Do("inline", 0)>>
  \o (IF op = OpExit THEN <<DoCompile(op), DoImmediate>>
      ELSE (IF op <= OpImmediate THEN <<DoImmediate>> ELSE << >>)
           \o <<DoCompile(op), DoImmediate, DoCompile(OpExit)>>)
  \o (IF op < OpLastBuiltin THEN <<Do("builtin", op + 1)>> ELSE << >>)
----------------------------------------------------------------------------
(* The input: Input[pos + 1] may come next, or the input may end there.    *)
(* A disciplined program is bracketed the way the sample program is        *)
(* (first.go): ":" only outside of definitions, which "exit" ends, and     *)
(* "immediate" only right after the name of a definition.                  *)

Offered == IF pos < Len(Input) THEN Input[pos + 1] ELSE {}
WordsOffered == {t \in Offered : Disciplined => /\ t = ":" => form = "top"
                                                /\ t = "immediate" => form = "named"}
FormAfter(t) == CASE t = "exit" -> "top"
                  [] t # "exit" /\ form = "named" -> "body"
                  [] OTHER -> form
----------------------------------------------------------------------------
(* Starting.                                                               *)

Init ==
  /\ \E cells \in Presets :
       mem = [a \in Word |-> CASE a = 0 -> cells.h [] a = 1 -> cells.r
                               [] a = 10 -> cells.retBase [] a = 11 -> cells.memBase
                               [] OTHER -> 0]
  /\ prog = 0 /\ last = 0 /\ stack = << >> /\ strings = << >>
  /\ status = "new" /\ todo = << >> /\ token = "" /\ pos = 0
  /\ form = "top" /\ calls = << >> /\ defs = << >>

Page == IF PageSize = 0 THEN DefaultPageSize ELSE PageSize

\* init stores a default for the layout cells that are 0, then compileEntry
Start ==
  /\ status = "new"
  /\ LET retBase == IF RetBase = 0 THEN Page ELSE RetBase
         memBase == IF MemBase = 0 THEN W(4 * Page) ELSE MemBase
         h       == IF H = 0 THEN memBase ELSE H
     IN /\ mem' = [mem EXCEPT ![10] = retBase, ![11] = memBase, ![0] = h,
                              ![1] = IF R = 0 THEN Minus1(retBase) ELSE R]
        /\ status' = CASE R # 0 /\ R < retBase -> "retUnder"
                       [] R # 0 /\ R >= retBase /\ R > memBase -> "retOver"
                       [] OTHER -> "running"
        /\ todo' = [Header(0) EXCEPT ![5] = Do("setLast", h)]
                     \o <<DoImmediate, Do("entry", 0)>>
  /\ UNCHANGED <<prog, last, stack, strings, token, pos, history>>

\* the rest of compileEntry, whose address run puts in prog when the builtins
\* are compiled: nothing looks at prog before
Pending(what) == Running /\ todo # << >> /\ Head(todo).do = what
Arg0 == Head(todo).arg

\* mutant: the main loop does not call itself
EntryOnce ==
  /\ Pending("entry")
  /\ prog' = H
  /\ todo' = <<DoCompile(OpRead), DoCompile(OpExit), Do("builtin", OpExit)>>
  /\ UNCHANGED <<mem, last, stack, strings, status, token, pos, history>>
EntryMore ==
  /\ Pending("entry")
  /\ prog' = H
  /\ todo' = <<DoCompile(OpRead), DoCompile(H), DoCompile(OpExit), Do("builtin", OpExit)>>
  /\ UNCHANGED <<mem, last, stack, strings, status, token, pos, history>>

\* compileBuiltins takes the name of each builtin from the input
BuiltinMore ==
  /\ Pending("builtin")
  /\ \E t \in Offered :
       /\ token' = t /\ Symbolicate(t)
       /\ todo' = Header(SymbolOf(t)) \o Builtin(Arg0)
  /\ pos' = pos + 1
  /\ UNCHANGED <<mem, prog, last, stack, status, history>>

InlineMore ==
  /\ Pending("inline")
  /\ IF CanStor(Plus1(Plus1(last)))
     THEN mem' = Stored(mem, Plus1(Plus1(last)), OpCompIt) /\ UNCHANGED status
     ELSE status' = "limit" /\ UNCHANGED mem
  /\ todo' = Tail(todo)
  /\ UNCHANGED <<prog, last, stack, strings, token, pos, history>>
----------------------------------------------------------------------------
(* What methods leave to do.                                               *)

CompileMore ==
  /\ Pending("compile")
  /\ Compile(Arg0)
  /\ todo' = Tail(todo)
  /\ UNCHANGED <<prog, last, stack, strings, token, pos, history>>

SetLastMore ==
  /\ Pending("setLast")
  /\ last' = Arg0
  /\ defs' = Append(defs, [name |-> token, word |-> Arg0])
  /\ todo' = Tail(todo)
  /\ UNCHANGED <<mem, prog, stack, strings, status, token, pos, form, calls>>

ImmediateMore ==
  /\ Pending("immediate")
  /\ Immediate
  /\ todo' = Tail(todo)
  /\ UNCHANGED <<prog, last, stack, strings, token, pos, history>>

ExitMore ==
  /\ Pending("exit")
  /\ Exit(prog)
  /\ todo' = Tail(todo)
  /\ UNCHANGED <<last, stack, strings, token, pos, form, defs>>

\* one iteration of compileit's loop, which copies code up to an exit
CompItMore ==
  /\ Pending("compileit")
  /\ mem' = IF CanStor(H) THEN Compiled(Arg0) ELSE [mem EXCEPT ![0] = Plus1(H)]
  /\ status' = IF CanStor(H) /\ prog \in Cells THEN status ELSE "limit"
  /\ prog' = Plus1(prog)
  /\ todo' = IF OpExit \in {Arg0, mem'[prog]} THEN <<DoExit>>
             ELSE <<Do("compileit", mem'[prog])>>
  /\ UNCHANGED <<last, stack, strings, token, pos, history>>

\* one iteration of lookup's loop: found, the next word, or past the limit;
\* at the end of the dictionary the token is a literal or an error
LookupFound == /\ Pending("lookup") /\ Arg0 # 0
               /\ Plus1(Arg0) \in Cells /\ mem[Plus1(Arg0)] = Symbol(token)

LookupCall ==
  /\ LookupFound
  /\ Call(prog, Plus1(Plus1(Arg0)))
  /\ todo' = << >>
  /\ UNCHANGED <<last, stack, strings, token, pos, form, defs>>

LookupMore ==
  /\ Pending("lookup") /\ Arg0 # 0 /\ ~LookupFound
  /\ IF {Arg0, Plus1(Arg0)} \subseteq Cells
     THEN todo' = <<Do("lookup", mem[Arg0])>> /\ UNCHANGED status
     ELSE status' = "limit" /\ UNCHANGED todo
  /\ UNCHANGED <<fields, token, pos, history>>

LookupLiteral ==
  /\ Pending("lookup") /\ Arg0 = 0
  /\ IF token \in DOMAIN Literals
     THEN /\ todo' = <<DoCompile(OpPushint), DoCompile(Literals[token])>>
          /\ UNCHANGED status
     ELSE status' = "literal" /\ UNCHANGED todo
  /\ UNCHANGED <<fields, token, pos, history>>
----------------------------------------------------------------------------
(* step: fetch the code at prog and run its primitive, or call the word.   *)

Stepping == Running /\ todo = << >>
Exec(op) == Stepping /\ prog \in Cells /\ mem[prog] = op
After == Plus1(prog)      \* prog when loadProg has fetched

FetchPastLimit ==
  /\ Stepping /\ prog \notin Cells
  /\ status' = "limit"
  /\ UNCHANGED <<fields, todo, token, pos, history>>

\* scan and readRune: the input ends
EndOfInput ==
  /\ Pending("builtin") \/ \E op \in {OpDefine, OpRead, OpKey} : Exec(op)
  /\ status' = "EOF"
  /\ UNCHANGED <<fields, todo, token, pos, history>>

CallStep ==
  /\ Stepping /\ prog \in Cells /\ mem[prog] \notin Ops
  /\ Call(After, mem[prog])
  /\ UNCHANGED <<last, stack, strings, todo, token, pos, form, defs>>

ExitStep ==
  /\ Exec(OpExit)
  /\ Exit(After)
  /\ UNCHANGED <<last, stack, strings, todo, token, pos, form, defs>>

DefineStep ==
  /\ Exec(OpDefine)
  /\ \E t \in Offered \intersect Names : Define(t)
  /\ pos' = pos + 1 /\ form' = "named" /\ prog' = After
  /\ UNCHANGED <<mem, last, stack, status, calls, defs>>

ImmediateStep ==
  /\ Exec(OpImmediate)
  /\ Immediate
  /\ prog' = After
  /\ UNCHANGED <<last, stack, strings, todo, token, pos, history>>

\* lookup starts at the last word, if the token is a known string
\* mutant: it starts at the word before
LookupFromPrev(t) == IF Symbol(t) = 0 THEN 0 ELSE mem[last]
LookupFrom(t) == IF Symbol(t) = 0 THEN 0 ELSE last

ReadStep ==
  /\ Exec(OpRead)
  /\ \E t \in WordsOffered :
       /\ token' = t /\ form' = FormAfter(t)
       /\ todo' = <<Do("lookup", LookupFrom(t))>>
  /\ pos' = pos + 1 /\ prog' = After
  /\ UNCHANGED <<mem, last, stack, strings, status, calls, defs>>

CompileStep ==
  /\ Exec(OpCompile)
  /\ prog' = After
  /\ IF After \in Cells
     THEN /\ todo' = <<DoCompile(IF mem[After] = OpRun THEN Plus1(After) ELSE After), DoExit>>
          /\ UNCHANGED status
     ELSE status' = "limit" /\ UNCHANGED todo
  /\ UNCHANGED <<mem, last, stack, strings, token, pos, history>>

RunStep ==
  /\ Exec(OpRun)
  /\ prog' = After
  /\ UNCHANGED <<mem, last, stack, strings, status, todo, token, pos, history>>

\* mutant: the number is run when it has been pushed
PushintStepShort ==
  /\ Exec(OpPushint)
  /\ prog' = After
  /\ IF After \in Cells
     THEN stack' = Append(stack, mem[After]) /\ UNCHANGED status
     ELSE status' = "limit" /\ UNCHANGED stack
  /\ UNCHANGED <<mem, last, strings, todo, token, pos, history>>
PushintStep ==
  /\ Exec(OpPushint)
  /\ prog' = Plus1(After)
  /\ IF After \in Cells
     THEN stack' = Append(stack, mem[After]) /\ UNCHANGED status
     ELSE status' = "limit" /\ UNCHANGED stack
  /\ UNCHANGED <<mem, last, strings, todo, token, pos, history>>

CompItStep ==
  /\ Exec(OpCompIt)
  /\ prog' = Plus1(After)
  /\ IF After \in Cells
     THEN todo' = <<Do("compileit", mem[After])>> /\ UNCHANGED status
     ELSE status' = "limit" /\ UNCHANGED todo
  /\ UNCHANGED <<mem, last, stack, strings, token, pos, history>>
----------------------------------------------------------------------------
(* The primitives on the stack.                                            *)

Arg(i) == stack[Len(stack) + 1 - i]     \* Arg(1) is popped first
Below(n) == SubSeq(stack, 1, Len(stack) - n)

\* op pops n elements; with fewer the machine halts with an empty stack
Underflow(op, n) ==
  /\ Exec(op) /\ Len(stack) < n
  /\ status' = "stackUnderflow" /\ stack' = << >> /\ prog' = After
  /\ UNCHANGED <<mem, last, strings, todo, token, pos, history>>

Pops(op, n) == Exec(op) /\ Len(stack) >= n /\ prog' = After

\* what the primitive that popped n elements pushes, or why it halts instead
Pushes(n, v) == stack' = Append(Below(n), v) /\ UNCHANGED status
Fails(n, why) == stack' = Below(n) /\ status' = why
RestUnchanged == UNCHANGED <<last, strings, todo, token, pos, history>>

SubStep  == Pops(OpSub, 2) /\ Pushes(2, Minus(Arg(2), Arg(1))) /\ UNCHANGED mem /\ RestUnchanged
MulStep  == Pops(OpMul, 2) /\ Pushes(2, W(Arg(2) * Arg(1))) /\ UNCHANGED mem /\ RestUnchanged
LessStep == Pops(OpLess, 1) /\ Pushes(1, IF Signed(Arg(1)) < 0 THEN 1 ELSE 0)
              /\ UNCHANGED mem /\ RestUnchanged
EchoStep == Pops(OpEcho, 1) /\ stack' = Below(1) /\ UNCHANGED <<mem, status>> /\ RestUnchanged

\* Go's division truncates towards zero; by zero it is a run time panic
Magnitude(n) == IF n < 0 THEN -n ELSE n
Quotient(a, b) == LET q == Magnitude(a) \div Magnitude(b)
                  IN W(IF (a < 0) = (b < 0) THEN q ELSE Top - q)
DivStep ==
  /\ Pops(OpDiv, 2)
  /\ IF Arg(1) = 0 THEN Fails(2, "panic")
     ELSE Pushes(2, Quotient(Signed(Arg(2)), Signed(Arg(1))))
  /\ UNCHANGED mem /\ RestUnchanged

GetStep ==
  /\ Pops(OpGet, 1)
  /\ IF Arg(1) \in Cells THEN Pushes(1, mem[Arg(1)]) ELSE Fails(1, "limit")
  /\ UNCHANGED mem /\ RestUnchanged

SetStep ==
  /\ Pops(OpSet, 2)
  /\ IF CanStor(Arg(1))
     THEN mem' = Stored(mem, Arg(1), Arg(2)) /\ stack' = Below(2) /\ UNCHANGED status
     ELSE Fails(2, "limit") /\ UNCHANGED mem
  /\ RestUnchanged

\* the index is taken from the top of what is left; 0 if there is no such element
PickStep ==
  /\ Pops(OpPick, 1)
  /\ LET i == Len(stack) - 2 - Signed(Arg(1))
     IN Pushes(1, IF i \in 0 .. Len(stack) - 2 THEN stack[i + 1] ELSE 0)
  /\ UNCHANGED mem /\ RestUnchanged

KeyStep ==
  /\ Exec(OpKey) /\ pos < Len(Input)
  /\ \E c \in Runes : stack' = Append(stack, c)
  /\ pos' = pos + 1 /\ prog' = After
  /\ UNCHANGED <<mem, last, strings, status, todo, token, history>>

StackUnderflow ==
  \/ \E op \in {OpSub, OpMul, OpDiv, OpSet} : Underflow(op, 2)
  \/ \E op \in {OpLess, OpEcho, OpGet, OpPick} : Underflow(op, 1)
----------------------------------------------------------------------------
More ==
  \/ EntryMore \/ BuiltinMore \/ InlineMore \/ CompileMore \/ SetLastMore
  \/ ImmediateMore \/ ExitMore \/ CompItMore
  \/ LookupCall \/ LookupMore \/ LookupLiteral

Step ==
  \/ FetchPastLimit \/ CallStep \/ ExitStep \/ DefineStep \/ ImmediateStep
  \/ ReadStep \/ CompileStep \/ RunStep \/ PushintStep \/ CompItStep
  \/ SubStep \/ MulStep \/ LessStep \/ EchoStep \/ DivStep
  \/ GetStep \/ SetStep \/ PickStep \/ KeyStep \/ StackUnderflow

Next == Start \/ More \/ Step \/ EndOfInput

Spec == Init /\ [][Next]_vars

\* run loops over step without waiting for anything but its input, which comes
\* or ends
FairSpec == Spec /\ WF_vars(Next)
----------------------------------------------------------------------------
(* Of every program, whatever it does to its memory.                       *)

Jobs == {"compile", "setLast", "immediate", "exit", "inline", "entry", "builtin",
         "compileit", "lookup"}
TodoType == Seq([do : Jobs, arg : Word])

\* why a machine halts: the errors of first.go and the nil of popr's halt, the
\* limit of the memory, a panic of the run time, and the end of the input
Ends == {"retUnder", "retOver", "exited", "stackUnderflow", "literal", "limit", "panic",
         "EOF"}

TypeOK ==
  /\ mem \in [Word -> Word]
  /\ prog \in Word /\ last \in Word
  /\ stack \in Seq(Word) /\ strings \in Seq(Tokens)
  /\ status \in {"new", "running"} \union Ends
  /\ todo \in TodoType /\ token \in Tokens \union {""}
  /\ pos \in Nat /\ form \in {"top", "named", "body"}
  /\ calls \in Seq(Word) /\ defs \in Seq([name : Tokens \union {""}, word : Word])

\* The cells a step from this state may store to: the dictionary and return
\* stack pointers, the next cell of the return stack as far as it lies inside
\* its bounds, the ends of the dictionary, and what ! is given.
Footprint ==
  {0, 1}
  \union {a \in {Plus1(R)} : RetBase <= a /\ (a < MemBase \/ MemBase = 0)}
  \union (IF Exec(OpSet) /\ stack # << >> THEN {Arg(1)} ELSE {})
  \union (IF Pending("inline") THEN {Plus1(Plus1(last))} ELSE {})
  \union (IF Exec(OpImmediate) \/ Pending("immediate") THEN {Minus1(Minus1(H))} ELSE {})
  \union (IF Pending("compile") \/ Pending("compileit") THEN {H, Plus1(H)} ELSE {})

\* Only ! can reach an arbitrary cell: every other step of any program, even
\* of one that has overwritten its own pointers, stays inside the footprint
\* (first.go: pushr, popr, compile, compileHeader, immediate).
OnlySetStoresAnywhere ==
  [][Running => \A a \in Word \ Footprint : mem'[a] = mem[a]]_vars
----------------------------------------------------------------------------
(* Of well bracketed programs that do not use !.                           *)

\* The primitives that a program can compile: those whose names it uses.
UsedOps == {op \in OpRead .. OpLastBuiltin :
              \E i \in 14 .. Len(Input) : Input[i] \intersect Input[op + 1] # {}}

\* What init makes of the layout that options stored (first.go: init).
StartRet(cells) == IF cells.retBase = 0 THEN Page ELSE cells.retBase
StartMem(cells) == IF cells.memBase = 0 THEN W(4 * Page) ELSE cells.memBase
StartH(cells) == IF cells.h = 0 THEN StartMem(cells) ELSE cells.h

\* The layout keeps the cells of the machine, the return stack and the
\* dictionary apart, no code has the address of a primitive, and there is room
\* for what the input can compile, or a limit.
LayoutFits(cells) ==
  /\ cells.r = 0
  /\ 12 <= StartRet(cells) /\ StartRet(cells) <= StartMem(cells)
  /\ 14 <= StartH(cells) /\ StartMem(cells) <= StartH(cells)
  /\ \/ StartH(cells) + 46 + 2 * Len(Input) < Top
     \/ Limit # 0 /\ StartH(cells) <= Limit /\ Limit + 1 < Top

\* A well bracketed program that does not use !: its input starts with names of
\* the 13 builtins, which it does not define again.
WellBracketed ==
  /\ Disciplined
  /\ \A cells \in Presets : LayoutFits(cells)
  /\ 13 <= Len(Input)
  /\ Input[1] = {"exit"} /\ Input[2] = {":"} /\ Input[3] = {"immediate"}
  /\ \A i \in 1 .. 13 : /\ \A j \in 1 .. 13 : i # j => Input[i] \intersect Input[j] = {}
                        /\ Input[i] \intersect Names = {}
  /\ "" \notin Tokens
  /\ OpSet \notin UsedOps

\* The return stack in memory is exactly the calls that have not returned:
\* no word ever compiles, defines or pushes over another one's return address.
ReturnStackIntact ==
  Running =>
    /\ R = RetBase - 1 + Len(calls)
    /\ RetBase + Len(calls) <= MemBase
    /\ \A i \in DOMAIN calls : mem[RetBase + i - 1] = calls[i]

\* The dictionary is the list of the definitions, latest first, at strictly
\* lower and lower addresses: every search in it ends (first.go: lookup loops
\* until it reads 0, without a bound).
DictionaryIsDefinitions ==
  Running =>
    /\ last = IF defs = << >> THEN 0 ELSE Last(defs).word
    /\ \A i \in DOMAIN defs :
         LET w == defs[i].word
         IN /\ mem[w] = (IF i = 1 THEN 0 ELSE defs[i - 1].word) /\ mem[w] < w
            /\ mem[w + 1] = Symbol(defs[i].name)
            /\ MemBase <= w /\ w + 3 <= H

\* A name means its latest definition: a search that ends at a word has passed
\* no later definition of the token.
LookupFindsLatest ==
  LookupFound => /\ \E i \in DOMAIN defs : defs[i] = [name |-> token, word |-> Arg0]
                 /\ \A i \in DOMAIN defs : defs[i].name = token => defs[i].word <= Arg0

\* What a call may jump to: the code of a word, after its header.
CodeFields == UNION {{d.word + 3, d.word + 4} : d \in ToSet(defs)}

\* The machine never runs data: what it is about to run is a primitive or a
\* call of a word, and so is what it will return to.
RunsOnlyCode ==
  Stepping =>
    /\ prog \in MemBase .. H + 1
    /\ \A a \in {prog} \union ToSet(calls) : mem[a] \in Ops \union CodeFields

\* A return always has a call to return to: the main loop is never left, so a
\* program ends with its input or with an error of its own.
NeverReturnsTooFar == status \notin {"exited", "retUnder", "panic"}

\* The cells of the latest word that are still made up: its code field, while a
\* builtin is compiled, and the first cell of it where "immediate" runs.
Unfinished ==
  CASE Exec(OpImmediate) -> {last + 2}
    [] Pending("inline") \/ Pending("immediate") -> {last + 2, last + 3}
    [] OTHER -> {}

\* What has been compiled is never changed by what is defined, compiled or run
\* later, not even by an immediate, which moves cells whatever they are: it
\* meets nothing but the code field of the latest word (first.go: immediate).
FinishedWordsKept ==
  [][Running => \A a \in (MemBase .. H - 1) \ Unfinished : mem'[a] = mem[a]]_vars

\* A program with a finite input ends: with its input, or when the return stack
\* runs out (first.go: the main loop "uses up a word on the return stack").
ProgramsEnd == <>(status \notin {"new", "running"})
=============================================================================
