------------------------------- MODULE Dumper ------------------------------
(***************************************************************************)
(* The dump that main prints of a machine that has halted (dumper.go): it  *)
(* follows the dictionary from the last word down, and then goes up        *)
(* through the memory, where each address that is the next word of that    *)
(* list is shown as a word with its code, and every other as a number.     *)
(* Everything here is a function of the state the machine was left in; an  *)
(* address stands for the line that shows it.                              *)
(***************************************************************************)
EXTENDS TracedVM

\* mem.Size: the end of the last page, and a page is made for any cell stored to
Size == (highest \div Page + 1) * Page

\* scanWords: from the last word, as long as it lies in the memory
ScanWords ==
  LET scan[word \in Word, turns \in 0 .. Top] ==
        IF word = 0 \/ word >= Size \/ word \notin Cells \/ turns = Top THEN << >>
        ELSE <<word>> \o scan[mem[word], turns + 1]
  IN scan[last, 0]

\* formatCode: a number that is pushed is shown with its code
CodeEnd(addr) == IF mem[addr] = OpPushint THEN addr + 2 ELSE addr + 1

\* the word that a call is shown to be to, 0 for none
Callee(words, code) ==
  IF \E i \in DOMAIN words : words[i] < code
  THEN words[SelectInSeq(words, LAMBDA w : w < code)] ELSE 0

\* mutant: the first code of the next word is shown too
FormatWordFar(word, next) ==
  LET codes[addr \in Nat] ==
        IF addr > next \/ addr >= Top THEN {} ELSE {addr} \union codes[CodeEnd(addr)]
      skip  == IF mem[word + 2] \in {OpCompile, OpCompIt} THEN 3 ELSE 2
      shown == codes[word + skip]
  IN [word |-> word, codes |-> shown,
      end |-> IF shown = {} THEN word + skip
              ELSE CodeEnd(CHOOSE a \in shown : \A b \in shown : b <= a)]
\* formatMem for a word: the addresses shown as its code, after its two cells and
\* the code that compiles it, up to the next word; the last one may reach over it
FormatWord(word, next) ==
  LET codes[addr \in Nat] ==
        IF addr >= next \/ addr >= Top THEN {} ELSE {addr} \union codes[CodeEnd(addr)]
      skip  == IF mem[word + 2] \in {OpCompile, OpCompIt} THEN 3 ELSE 2
      shown == codes[word + skip]
  IN [word |-> word, codes |-> shown,
      end |-> IF shown = {} THEN word + skip
              ELSE CodeEnd(CHOOSE a \in shown : \A b \in shown : b <= a)]

\* dumpMem: the words shown, lowest first.  Numbers are shown until the next word
\* in the list; below the end of the return stack there are only numbers, and a
\* word that was passed is never met, nor any word after it.
DumpMem ==
  LET words == ScanWords
      dump[k \in 0 .. Len(words), addr \in Nat] ==
        IF k = 0 \/ words[k] < addr THEN << >>
        ELSE LET next == IF k > 1 THEN words[k - 1] ELSE H
                 w == FormatWord(words[k], next)
             IN <<w>> \o dump[k - 1, w.end]
      first == CHOOSE a \in {12, RetBase, MemBase} : a >= 12 /\ a >= RetBase /\ a >= MemBase
  IN dump[Len(words), first]
----------------------------------------------------------------------------
\* The dump shows the program: every word that was defined, in order, each with
\* its code up to the next word, each call with the word it is to; no number
\* that stands for something else hides a word (dumper.go: formatMem moves to
\* the next word of the list only when it meets the one before).
DumpShowsEveryWord ==
  status \in Ends =>
    LET dumped == DumpMem
        words  == ScanWords
    IN /\ Len(dumped) = Len(defs)
       /\ \A i \in DOMAIN defs :
            /\ dumped[i].word = defs[i].word
            /\ i < Len(defs) => dumped[i].end = defs[i + 1].word
            /\ \A a \in dumped[i].codes :
                 mem[a] \notin Ops => Callee(words, mem[a]) = Latest(mem[a])
=============================================================================
