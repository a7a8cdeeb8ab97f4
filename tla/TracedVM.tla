------------------------------ MODULE TracedVM -----------------------------
(***************************************************************************)
(* FirstVM with its trace: before each step a line is logged that says     *)
(* where the machine is, what it runs next, and what is on its two stacks  *)
(* (first.go: step, wordOf, codeName, rstack).  What it says is read from  *)
(* memory, so that it can halt the machine, or keep it forever in a        *)
(* search, before the step.  A name is the word's first cell here; a       *)
(* search that did not end in as many turns as there are cells goes round  *)
(* in a circle.                                                            *)
(***************************************************************************)
EXTENDS FirstVM

CONSTANT MostCells     \* no slice of more cells can be made

ASSUME MostCellsAssumption == MostCells \in Nat

VARIABLE highest       \* the highest cell ever stored to, see Dumper

tracedVars == <<vars, highest>>

\* checkFlag: the flags are the cell below the return stack
Flags == IF {10, Minus1(RetBase)} \subseteq Cells THEN mem[Minus1(RetBase)] ELSE 0
Traced == Flags % 2 = 1

String(sym) == IF sym \in DOMAIN strings THEN strings[sym] ELSE ""

\* wordOf: the first word below addr, from the last one defined; a word without
\* a name or a string has none, 0, except that of compileEntry
Found(w) == [word |-> w, fault |-> "none"]
Lost(why) == [word |-> 0, fault |-> why]
Nameless(w) == mem[Plus1(w)] # 0 /\ String(mem[Plus1(w)]) = ""

\* mutant: the first cell of the code counts to the word before
WordOfLateCode(addr) ==
  LET search[at \in Word \X (0 .. Top)] ==      \* a word, after so many turns
        LET prev == at[1]
        IN IF prev = 0 THEN Found(0)
           ELSE IF Plus1(Plus1(prev)) < addr
             THEN IF Plus1(prev) \notin Cells THEN Lost("limit")
                  ELSE Found(IF Nameless(prev) THEN 0 ELSE prev)
             ELSE IF prev \notin Cells THEN Lost("limit")
             ELSE IF at[2] = Top THEN Lost("circle") ELSE search[<<mem[prev], at[2] + 1>>]
  IN search[<<last, 0>>]
WordOf(addr) ==
  LET search[at \in Word \X (0 .. Top)] ==      \* a word, after so many turns
        LET prev == at[1]
        IN IF prev = 0 THEN Found(0)
           ELSE IF prev < addr
             THEN IF Plus1(prev) \notin Cells THEN Lost("limit")
                  ELSE Found(IF Nameless(prev) THEN 0 ELSE prev)
             ELSE IF prev \notin Cells THEN Lost("limit")
             ELSE IF at[2] = Top THEN Lost("circle") ELSE search[<<mem[prev], at[2] + 1>>]
  IN search[<<last, 0>>]

\* codeName: the code at prog, with the number it pushes or the word it calls
CodeName ==
  CASE prog \notin Cells -> Lost("limit")
    [] prog \in Cells /\ mem[prog] \notin Ops -> WordOf(mem[prog])
    [] prog \in Cells /\ mem[prog] = OpPushint /\ After \notin Cells -> Lost("limit")
    [] OTHER -> Found(0)

\* rstack: the cells from retBase to r
RStackFault ==
  CASE R < Minus1(RetBase) -> "retUnder"
    [] R >= Minus1(RetBase) /\ R < RetBase -> "none"
    [] R >= RetBase /\ R - RetBase >= MostCells -> "panic"
    [] OTHER -> IF Limit = 0 \/ Plus1(R) <= Limit THEN "none" ELSE "limit"

TraceFault ==
  IF WordOf(prog).fault # "none" THEN WordOf(prog).fault
  ELSE IF CodeName.fault # "none" THEN CodeName.fault
  ELSE RStackFault

\* the trace ends the machine instead of the step; in a circle nothing happens
TraceHalts ==
  /\ Stepping /\ Traced /\ TraceFault \notin {"none", "circle"}
  /\ status' = TraceFault
  /\ UNCHANGED <<fields, todo, token, pos, history, highest>>

\* The cells that are stored to: those that change, what is compiled, and what
\* ! is given, even if they held the same value before.
StoredTo ==
  {a \in Word : mem'[a] # mem[a]}
  \union (IF (Pending("compile") \/ Pending("compileit")) /\ CanStor(H) THEN {H} ELSE {})
  \union (IF Exec(OpSet) /\ Len(stack) > 1 /\ CanStor(Arg(1)) /\ Plus1(Arg(1)) # 0
          THEN {Arg(1)} ELSE {})

TracedStep ==
  /\ Stepping /\ Traced => TraceFault = "none"
  /\ Next
  /\ highest' = FoldSet(LAMBDA a, b : IF a > b THEN a ELSE b, highest, StoredTo)

TracedInit ==
  /\ Init
  /\ highest = FoldSet(LAMBDA a, b : IF a > b THEN a ELSE b, 0, {a \in Word : mem[a] # 0})

TracedNext == TraceHalts \/ TracedStep

TracedSpec == TracedInit /\ [][TracedNext]_tracedVars
TracedFairSpec == TracedSpec /\ WF_tracedVars(TracedNext)
----------------------------------------------------------------------------
Latest(addr) ==
  LET below == {d.word : d \in {e \in ToSet(defs) : e.word < addr}}
  IN IF below = {} THEN 0 ELSE Max(below)

\* the whole of a return stack can be copied: no layout makes it too long
RStackFits == \A cells \in Presets : StartMem(cells) - StartRet(cells) <= MostCells

\* The trace tells the truth: the word it names is the latest one that was
\* defined below the machine's place, and so is the word it says is called; and
\* it halts no machine and keeps none from running (first.go: wordOf, codeName).
TraceTellsTheWord ==
  Stepping /\ Traced =>
    /\ WordOf(prog) = Found(Latest(prog))
    /\ mem[prog] \notin Ops => CodeName = Found(Latest(mem[prog]))
    /\ RStackFault = "none"
=============================================================================
