----------------------------- MODULE ThirdSession ---------------------------
(***************************************************************************)
(* The machine as main sets it up (main.go): the THIRD kernel, then "[",   *)
(* which starts command mode, then what a user types.                      *)
(***************************************************************************)
EXTENDS FirstVM, ThirdKernel

CONSTANT Compiling     \* the places of a session where a word is defined

Prelude == Kernel \o <<"[">>

VARIABLES typed,       \* history: the tokens of the session, as far as they were read
          bracket      \* history: the tops of return stack and dictionary before "["

sessionVars == <<vars, typed, bracket>>

SessionInit == Init /\ typed = << >> /\ bracket = << >>

SessionNext ==
  /\ Next
  /\ typed' = IF pos' > pos /\ pos >= Len(Prelude) THEN Append(typed, token') ELSE typed
  /\ bracket' = IF pos' > pos /\ token' = "[" THEN <<R, H>> ELSE bracket

SessionSpec == SessionInit /\ [][SessionNext]_sessionVars
----------------------------------------------------------------------------
\* What the words of a session do to the stack: f is ": f 0 do i loop ;", whose
\* body runs at least once, and drop, "0 * +", needs an element below.
Underflowed == <<Top>>
Needs(t) == CASE t \in {"-", "drop", "swap"} -> 2 [] t \in {"dup", "f"} -> 1 [] OTHER -> 0
Apply(s, t) ==
  LET n == Len(s)
      below(k) == SubSeq(s, 1, n - k)
  IN IF s = Underflowed \/ n < Needs(t) THEN Underflowed
     ELSE CASE t = "2"    -> Append(s, 2)
            [] t = "dup"  -> Append(s, s[n])
            [] t = "-"    -> Append(below(2), Minus(s[n - 1], s[n]))
            [] t = "drop" -> below(1)
            [] t = "swap" -> below(2) \o <<s[n], s[n - 1]>>
            [] t = "f"    -> below(1) \o [i \in 1 .. (IF Signed(s[n]) > 1 THEN s[n] ELSE 1) |-> i - 1]

Evaluated == FoldLeftDomain(LAMBDA s, i : IF i \in Compiling THEN s ELSE Apply(s, typed[i]),
                            << >>, typed)

\* a token is about to be read in command mode
AtPrompt == Exec(OpRead) /\ pos >= Len(Prelude) /\ Len(typed) + 1 \notin Compiling \ {Min(Compiling)}

\* Command mode computes: at each prompt the stack holds what the words typed
\* so far make of it, each taken back from the dictionary and run at once, and
\* "[" and "exit" switch to and from compiling.  The kernel halts no machine: one
\* ends with its input, or when the words typed take more from the stack than
\* there is (third.go: command, execute; it is compiled by its own words).
SessionComputes ==
  /\ AtPrompt => stack = Evaluated
  /\ status \in Ends \ {"EOF"} => status = "stackUnderflow" /\ Evaluated = Underflowed

\* Nothing piles up: at each prompt the dictionary ends where it did when "["
\* was typed, and the return stack holds the calls of "[" and command only
\* (third.go: command's tail calls, and its decrements of the dictionary pointer).
PromptIsClean == AtPrompt => <<R, H>> = <<bracket[1] + 2, bracket[2]>>
----------------------------------------------------------------------------
\* the word that the code at prog belongs to
WordRunning ==
  CHOOSE d \in ToSet(defs) :
    d.word < prog /\ \A e \in ToSet(defs) : e.word < prog => e.word <= d.word

\* third.go:231: "Override old definition of ':' with a new one that invokes ]":
\* once ":" has taken its name, "]" reads what follows.
ColonInvokesBracket ==
  Exec(OpRead) /\ Len(typed) = 2 /\ typed[1] = ":" => WordRunning.name = "]"
=============================================================================
