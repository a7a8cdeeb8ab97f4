------------------------------ MODULE FlatMem ------------------------------
(***************************************************************************)
(* What the paged integer memory of internal/mem promises its caller: one  *)
(* flat array of integers over every address, zero until stored to, where  *)
(* a store is all or nothing and a load sees every store answered before   *)
(* it.  A request past the limit is answered with an error and changes     *)
(* nothing.  PagedInts is shown to implement this module.                  *)
(***************************************************************************)
EXTENDS Integers, Sequences

CONSTANTS Top,       \* addresses are 0 .. Top-1 (2^64 in the program)
          Limit,     \* PagedCore.Limit; 0 means that there is no limit
          Values,    \* the integers that are stored
          Requests   \* the calls a caller may make

Addr == 0 .. Top - 1
Kinds == {"load", "loadInto", "stor"}

\* A call: Load(addr), LoadInto(addr, buf) or Stor(addr, values...).  vals is
\* the slice passed in; for LoadInto it is the stale content of the buffer.
RequestType == [kind : Kinds, addr : Addr, vals : Seq(Values)]
AnswerType  == [err : BOOLEAN, vals : Seq(Values)]

\* The answered call that a fresh memory starts from: nothing asked for.
NoRequest == [kind |-> "loadInto", addr |-> 0, vals |-> << >>]
Done(vs)  == [err |-> FALSE, vals |-> vs]
Failed    == [err |-> TRUE,  vals |-> << >>]

VARIABLES mem,    \* the flat array
          req,    \* the current call, or the last one
          busy,   \* has the current call not been answered yet?
          ans     \* the answer to the last call

vars == <<mem, req, busy, ans>>
----------------------------------------------------------------------------
\* The limit holds for the address of a Load, and for the address one past
\* the last cell of a non-empty LoadInto or Stor.
PastLimit(r) ==
  /\ Limit # 0
  /\ IF r.kind = "load" THEN r.addr > Limit
     ELSE r.vals # << >> /\ r.addr + Len(r.vals) > Limit

\* The array with vs written from address a on.
Overwrite(m, a, vs) ==
  [x \in Addr |-> IF x - a \in 0 .. Len(vs) - 1 THEN vs[x - a + 1] ELSE m[x]]

Answer(r) ==
  IF PastLimit(r) THEN Failed
  ELSE CASE r.kind = "load"     -> Done(<<mem[r.addr]>>)
         [] r.kind = "loadInto" -> Done([i \in 1 .. Len(r.vals) |-> mem[r.addr + i - 1]])
         [] r.kind = "stor"     -> Done(<< >>)

Init ==
  /\ mem = [a \in Addr |-> 0]
  /\ req = NoRequest
  /\ busy = FALSE
  /\ ans = Done(<< >>)

Call(r) ==
  /\ ~busy
  /\ req' = r
  /\ busy' = TRUE
  /\ mem' = IF r.kind = "stor" /\ ~PastLimit(r)
            THEN Overwrite(mem, r.addr, r.vals) ELSE mem
  /\ UNCHANGED ans

Return ==
  /\ busy
  /\ busy' = FALSE
  /\ ans' = Answer(req)
  /\ UNCHANGED <<mem, req>>

Next == Return \/ \E r \in Requests : Call(r)

Spec == Init /\ [][Next]_vars
=============================================================================
