------------------------------- MODULE MCThird ------------------------------
(***************************************************************************)
(* Sessions for TLC: 760 words of memory hold the kernel and what the      *)
(* session defines.                                                        *)
(***************************************************************************)
EXTENDS ThirdSession

Exactly(names) == [i \in DOMAIN names |-> {names[i]}]
Times(n, ts) == [i \in 1 .. n |-> ts]

\* Three tokens, then a word with a loop, which is defined in compile mode (see
\* ColonInvokesBracket), then two more, of which the first may be a call of it.
Calculation == {"2", "dup", "-", "drop"}
Definition == <<"exit", ":", "f", "0", "do", "i", "loop", ";", "[">>
Calculating ==
  Exactly(Prelude) \o Times(3, Calculation) \o Exactly(Definition)
  \o <<{"f", "2", "swap"}, {"-"}>>
InDefinition == 4 .. 12

\* a definition at the prompt
Defining == Exactly(Prelude) \o Exactly(<<":", "f", "dup", "+", ";", "[">>)

SessionNames == UNION {Input[i] : i \in DOMAIN Input}
SessionLiterals ==
  [t \in {ToString(n) : n \in 0 .. 10} |-> CHOOSE n \in 0 .. 10 : ToString(n) = t]
  @@ ("')'" :> 41)
SessionPresets == {[h |-> 0, r |-> 0, retBase |-> 16, memBase |-> 64]}
=============================================================================
