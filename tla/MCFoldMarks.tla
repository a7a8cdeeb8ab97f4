----------------------------- MODULE MCFoldMarks ----------------------------
(***************************************************************************)
(* Small logs for TLC: lines of every kind.                                *)
(***************************************************************************)
EXTENDS FoldMarks

MCLines ==
  {[kind |-> "scan", id |-> loc, text |-> <<"a">>] : loc \in {"p:1", "p:2"}}
  \union {[kind |-> "scan", id |-> "p:1", text |-> <<"a", "open", "b">>],
          [kind |-> "other", id |-> "", text |-> <<"c">>]}
  \union {[kind |-> "step", id |-> rs, text |-> <<"d">>] : rs \in {<<1>>, <<1, 2>>, <<3>>}}

MCScannings == {{"scan"}, {"scan", "step"}}
=============================================================================
