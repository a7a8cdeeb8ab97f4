------------------------------ MODULE MCFirstVM -----------------------------
(***************************************************************************)
(* Small machines for TLC: 128 words, a return stack of a few cells, and   *)
(* inputs that start with the names of the 13 builtins, as third.go does.  *)
(***************************************************************************)
EXTENDS Dumper

CONSTANTS MaxTokens    \* how many tokens may follow a fixed beginning

BuiltinNames == <<"exit", ":", "immediate", "_read", "@", "!", "-", "*", "/", "<0",
                  "echo", "key", "pick">>

Exactly(names) == [i \in DOMAIN names |-> {names[i]}]
Times(n, ts) == [i \in 1 .. n |-> ts]
Builtins == Exactly(BuiltinNames)

\* -1 is no code of a primitive and no address of a word
MCLiterals == ("-1" :> 127) @@ ("0" :> 0) @@ ("1" :> 1) @@ ("10" :> 10)
NoLayout == [h |-> 0, r |-> 0, retBase |-> 0, memBase |-> 0]
\* with a return stack at 12, its flags are the cell of memBase: an odd one traces
Layout(retBase, memBase) == [NoLayout EXCEPT !.retBase = retBase, !.memBase = memBase]

\* "f" may call itself or an earlier "f", and read tokens, when it is finished
\* and called, or while it is being defined
DefinePresets == {Layout(12, memBase) : memBase \in {16, 27}}
DefineInput ==
  Builtins \o Exactly(<<":", "f">>)
  \o Times(MaxTokens, {":", "f", "immediate", "-1", "exit", "_read"}) \o Exactly(<<"f", "f">>)

\* "f" runs when it is typed, whatever it does and finished or not
AnyPresets == {Layout(12, 24), Layout(12, 25), NoLayout,
               [h |-> 26, r |-> 13, retBase |-> 12, memBase |-> 24]}
              \union {[h |-> 0, r |-> r, retBase |-> 12, memBase |-> 24] : r \in {11, 24, 25}}
AnyInput ==
  Builtins \o Exactly(<<":", "f", "immediate">>)
  \o Times(MaxTokens, {"-1", "0", "1", "10", "@", "!", "-", "*", "/", "<0", "echo", "key",
                       "pick", "_read"})
  \o Times(2, {"f", ":", "immediate", "exit", "none"})

\* what the theorems about well bracketed programs ask of them, those about the
\* trace, and the one about the main loop: they do not divide
ASSUME ProgramsAssumption == Disciplined => WellBracketed /\ RStackFits /\ OpDiv \notin UsedOps
=============================================================================
