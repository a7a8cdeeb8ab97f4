----------------------------- MODULE MCFileInput ----------------------------
(***************************************************************************)
(* Queues of up to two streams, of up to MaxRunes runes, the first of which*)
(* may end with an error; and some of three streams.                       *)
(***************************************************************************)
EXTENDS FileInput

CONSTANTS MaxRunes

Texts(n) == UNION {[1 .. k -> Runes] : k \in 0 .. n}
StreamsOf(name, n, ends) == {[name |-> name, runes |-> t, end |-> e] : t \in Texts(n), e \in ends}

MCQueues ==
  {<< >>}
  \union {<<s>> : s \in StreamsOf("a", MaxRunes, Ends)}
  \union {<<s, t>> : s \in StreamsOf("a", MaxRunes, {"EOF"}), t \in StreamsOf("b", 2, Ends)}
  \union {<<s, t, u>> : s \in StreamsOf("a", 1, Ends), t \in StreamsOf("b", 1, {"EOF"}),
                        u \in StreamsOf("c", 1, {"EOF"})}
=============================================================================
