----------------------------- MODULE ThirdKernel ----------------------------
(***************************************************************************)
(* The THIRD kernel (third.go): the program that main gives the machine    *)
(* before anything else, as the tokens that its machine asks for.  Left    *)
(* out are its comments, which "(" skips rune by rune, and the words that  *)
(* none of these use.                                                      *)
(***************************************************************************)
EXTENDS Sequences

\* The names of the 13 builtins, in the order of their codes.
Builtins ==
  <<"exit", ":", "immediate", "_read", "@", "!", "-", "*", "/", "<0", "echo", "key",
    "pick">>

\* mutant: the loop keeps its own return
MainLoopNested ==
  <<":", "r", "1", "exit", ":", "]", "_read", "]", ":", "main", "immediate", "]",
    "main">>
\* "]" in place of the loop of compileEntry: it drops its own return, compiles a
\* token, and calls itself.  "main" compiles the loop, its second word starts it.
MainLoop ==
  <<":", "r", "1", "exit", ":", "]", "r", "@", "1", "-", "r", "!", "_read", "]",
    ":", "main", "immediate", "]", "main">>

\* Cells as words, "+" and "dup", the quotation of the code that follows, and
\* "exec", which runs an address on an empty return stack.
Memory ==
  <<":", "rb", "10", "exit", ":", "_x", "3", "@", "exit", ":", "_x!", "3", "!",
    "exit", ":", "+", "_x!", "0", "_x", "-", "-", "exit", ":", "dup", "_x!", "_x",
    "_x", "exit", ":", "'", "r", "@", "@", "dup", "1", "+", "r", "@", "!", "@",
    "exit", ":", "exec", "rb", "@", "!", "rb", "@", "r", "!", "exit">>

\* The main loop starts anew on the empty return stack.
Reboot ==
  <<":", "_read]", "_read", "]", ":", "reboot", "immediate", "'", "_read]", "exec",
    "reboot">>

\* The end of the dictionary, ",", and ";" which ends a word without a token.
Dictionary ==
  <<":", "_y", "4", "@", "exit", ":", "_y!", "4", "!", "exit", ":", "swap", "_x!",
    "_y!", "_x", "_y", "exit", ":", "inc", "dup", "@", "1", "+", "swap", "!",
    "exit", ":", "h", "0", "exit", ":", ",", "h", "@", "!", "h", "inc", "exit", ":",
    ";", "immediate", "'", "exit", ",", "exit", ":", "drop", "0", "*", "+", ";",
    ":", "dec", "dup", "@", "1", "-", "swap", "!", ";">>

\* To and from the return stack, under the return of the caller.
ReturnStack ==
  <<":", "tor", "r", "@", "@", "swap", "r", "@", "!", "r", "@", "1", "+", "r", "!",
    "r", "@", "!", ";", ":", "fromr", "r", "@", "@", "r", "@", "1", "-", "r", "!",
    "r", "@", "@", "swap", "r", "@", "!", ";">>

\* Comparisons, and branches by the offset in the cell after the call.
Logic ==
  <<":", "minus", "0", "swap", "-", ";", ":", "bnot", "1", "swap", "-", ";", ":",
    "<", "-", "<0", ";", ":", "logical", "dup", "0", "<", "swap", "minus", "0", "<",
    "+", ";", ":", "not", "logical", "bnot", ";", ":", "=", "-", "not", ";", ":",
    "branch", "r", "@", "@", "@", "r", "@", "@", "+", "r", "@", "!", ";", ":",
    "computebranch", "1", "-", "*", "1", "+", ";", ":", "notbranch", "not", "r",
    "@", "@", "@", "computebranch", "r", "@", "@", "+", "r", "@", "!", ";">>

\* "if", "then" and "else", which fill in offsets; the tail call; comments.
Branches ==
  <<":", "here", "h", "@", ";", ":", "if", "immediate", "'", "notbranch", ",",
    "here", "0", ",", ";", ":", "then", "immediate", "dup", "here", "swap", "-",
    "swap", "!", ";", ":", "tail", "fromr", "fromr", "drop", "tor", ";", ":",
    "find-)", "key", "')'", "=", "not", "if", "tail", "find-)", "then", ";", ":",
    "(", "immediate", "find-)", ";", ":", "else", "immediate", "'", "branch", ",",
    "here", "0", ",", "swap", "dup", "here", "swap", "-", "swap", "!", ";">>

\* Loops, whose index and limit are on the return stack.
Loops ==
  <<":", "i", "r", "@", "1", "-", "@", ";", ":", "j", "r", "@", "3", "-", "@", ";",
    ":", "do", "immediate", "'", "swap", ",", "'", "tor", ",", "'", "tor", ",",
    "here", ";", ":", "inci", "r", "@", "1", "-", "inc", "r", "@", "1", "-", "@",
    "r", "@", "2", "-", "@", "<", "if", "r", "@", "@", "@", "r", "@", "@", "+", "r",
    "@", "!", "exit", "then", "fromr", "1", "+", "fromr", "drop", "fromr", "drop",
    "tor", ";", ":", "loop", "immediate", "'", "inci", ",", "here", "-", ",", ";">>

\* ":" is made of its code in a word that is patched, and defined anew.
Colon ==
  <<":", "::", ";", ";", ":", "fix-::", "immediate", "1", "'", "::", "!", ";",
    "fix-::", ":", ":", "immediate", "::", "r", "dec", "]", ";">>

\* Run a code: it is put in cell 8 with an exit after it.
Execute ==
  <<":", "_z", "5", "@", "exit", ":", "_z!", "5", "!", "exit", ":", "execute",
    "dup", "not", "if", "fromr", "drop", "8", "!", ";", "then", "8", "!", "'",
    "exit", "9", "!", "8", "tor", ";">>

\* Command mode: what a token compiled is taken back from the end of the
\* dictionary, and run,
Command ==
  <<":", "command", "here", "_z!", "_read", "here", "_z", "=", "if", "tail",
    "command", "then", "here", "1", "-", "h", "!", "here", "_z", "=", "if", "here",
    "@", "execute">>

\* mutant: the other cell stays
CommandNumberOnce ==
  <<"else", "here", "@", "then", "tail", "command", ";", ":", "[", "immediate",
    "command", ";">>
\* or pushed if it was a number, which had compiled another cell before it.
CommandNumber ==
  <<"else", "here", "@", "here", "1", "-", "h", "!", "then", "tail", "command", ";",
    ":", "[", "immediate", "command", ";">>

Kernel ==
  Builtins \o MainLoop \o Memory \o Reboot \o Dictionary \o ReturnStack \o Logic
  \o Branches \o Loops \o Colon \o Execute \o Command \o CommandNumber
=============================================================================
