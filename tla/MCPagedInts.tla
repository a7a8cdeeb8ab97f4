---------------------------- MODULE MCPagedInts ----------------------------
(***************************************************************************)
(* Small instances of PagedInts for TLC.                                   *)
(***************************************************************************)
EXTENDS PagedInts

CONSTANTS StorAddrs, StorVals, LoadAddrs, BufAddrs, BufSizes

\* values to store, distinct within one call
Ramp(n) == [i \in 1 .. n |-> 1 + (i % 2)]

Stors == {[kind |-> "stor", addr |-> a, vals |-> Ramp(n)] : a \in StorAddrs, n \in StorVals}
Loads == {[kind |-> "load", addr |-> a, vals |-> << >>] : a \in LoadAddrs}
\* the buffer is passed in with something in it
LoadIntos ==
  {[kind |-> "loadInto", addr |-> a, vals |-> [i \in 1 .. n |-> 3]] : a \in BufAddrs, n \in BufSizes}

AllCalls == Stors \union Loads \union LoadIntos
\* a caller that never wraps around the end of the address space
MCRequests == {r \in AllCalls : r.addr + Len(r.vals) < Top}
MCValues == 0 .. 3

\* what the page size may be set to: nothing, half of 4, or any other size
NoResize == [p \in Addr |-> {}]
Halving == [NoResize EXCEPT ![4] = {2}]
Resizing == [p \in Addr |-> {2, 3, 4} \ {p}]
=============================================================================
