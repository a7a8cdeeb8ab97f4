----------------------------- MODULE PagedInts -----------------------------
(***************************************************************************)
(* mem.Ints (internal/mem/int.go over internal/mem/core.go): integer       *)
(* memory kept in pages that are allocated when first stored to.  One      *)
(* action per loop iteration: findPage's binary search, LoadInto's and     *)
(* Stor's walk over the pages.  Page numbers are the code's (from 0); the  *)
(* three parallel slices bases, sizes and pages are sequences (from 1).    *)
(* An operator marked "mutant" is a way in which the next one could be     *)
(* wrong: nothing uses it but the test that the properties would notice.   *)
(***************************************************************************)
EXTENDS Integers, SequencesExt

CONSTANTS Half,             \* addresses are unsigned modulo Top = 2 * Half
          Limit,            \* PagedCore.Limit, 0 for none
          Values,           \* the integers that are stored
          Requests,         \* the calls a caller may make, see FlatMem
          InitPageSizes,    \* PageSize when the memory is made; 0: not chosen
          DefaultPageSize,  \* DefaultIntsPageSize
          Resizes           \* Resizes[p]: what a caller may set a PageSize of p to
                            \* between calls

Top == 2 * Half
Addr == 0 .. Top - 1
Kinds == {"load", "loadInto", "stor"}
RequestType == [kind : Kinds, addr : Addr, vals : Seq(Values)]

ASSUME WordAssumption == Half \in Nat \ {0}
ASSUME LimitAssumption == Limit \in Addr
ASSUME ValuesAssumption == Values \subseteq Int /\ 0 \in Values
\* the length of a slice is an int
ASSUME RequestsAssumption ==
  /\ Requests \subseteq RequestType
  /\ \A r \in Requests : Len(r.vals) < Half
ASSUME PageSizeAssumption ==
  /\ InitPageSizes \subseteq Addr
  /\ DefaultPageSize \in Addr \ {0}
  /\ Resizes \in [Addr -> SUBSET (Addr \ {0})]

VARIABLES pageSize, bases, sizes, pages,   \* the fields of Ints
          req,      \* the current call, or the last one
          pc,       \* where that call stands; "idle" when it has returned
          lo, hi,   \* findPage's i and j
          pageID,   \* the page the walk is at
          addr,     \* the address the walk is at
          buf,      \* LoadInto's buffer
          ans       \* what the last call returned

memory == <<pageSize, bases, sizes, pages>>
locals == <<lo, hi, pageID, addr, buf>>
vars == <<memory, req, pc, locals, ans>>
----------------------------------------------------------------------------
(* Unsigned and signed 64-bit arithmetic.                                  *)

Plus(a, b)  == IF a + b >= Top THEN a + b - Top ELSE a + b
Minus(a, b) == IF a >= b THEN a - b ELSE a - b + Top

\* int(a) - int(b)
Signed(a, b) == IF Minus(a, b) < Half THEN Minus(a, b) ELSE Minus(a, b) - Top

Least(a, b) == IF a <= b THEN a ELSE b
----------------------------------------------------------------------------
(* PagedCore.                                                              *)

CheckLimit(a) == Limit # 0 => a <= Limit

Base(k) == bases[k + 1]
Size(k) == sizes[k + 1]
Page(k) == pages[k + 1]

AlignDown(a) == (a \div pageSize) * pageSize

\* mutant: whatever the last page covers already
AppendedPageUncut(a) == [base |-> AlignDown(a), size |-> pageSize]
\* allocPage's append: the next aligned page, less what the last page covers
AppendedPage(a) ==
  LET last == Len(bases)
      end  == IF last = 0 THEN 0 ELSE Plus(bases[last], sizes[last])
  IN IF last > 0 /\ AlignDown(a) < end
     THEN [base |-> end, size |-> Minus(pageSize, end - AlignDown(a))]
     ELSE [base |-> AlignDown(a), size |-> pageSize]

\* allocPage's insertion in front of page k, cut off at the start of k
InsertedPage(k, a) ==
  [base |-> AlignDown(a), size |-> Least(pageSize, Base(k) - AlignDown(a))]

\* does allocPage have to make a page, and which page does it return?
IsNew(k, a) == k = Len(bases) \/ a < Base(k)
AllocPage(k, a) ==
  IF k = Len(bases) THEN AppendedPage(a)
  ELSE IF a < Base(k) THEN InsertedPage(k, a)
  ELSE [base |-> Base(k), size |-> Size(k)]
----------------------------------------------------------------------------
(* Ints.                                                                   *)

\* mutant: one cell too many
ZeroPageLong(size) == [o \in 0 .. size |-> 0]
ZeroPage(size) == [o \in 0 .. size - 1 |-> 0]

\* mutant: the last page is not counted
MemSizeShort == IF bases = << >> THEN 0 ELSE Base(Len(bases) - 1)
\* Size() of the memory
MemSize == IF bases = << >> THEN 0
           ELSE LET i == Len(bases) - 1 IN Plus(Base(i), Cardinality(DOMAIN Page(i)))

Done(vs) == [err |-> FALSE, vals |-> vs]
Failed   == [err |-> TRUE, vals |-> << >>]
\* the call returns a, and its local variables are gone
Return(a) ==
  /\ pc' = "idle" /\ ans' = a
  /\ lo' = 0 /\ hi' = 0 /\ pageID' = 0 /\ addr' = 0 /\ buf' = << >>

\* where the call's walk over the pages stops
End == Plus(req.addr, Len(req.vals))

NoRequest == [kind |-> "loadInto", addr |-> 0, vals |-> << >>]

Init ==
  /\ pageSize \in InitPageSizes
  /\ bases = << >> /\ sizes = << >> /\ pages = << >>
  /\ req = NoRequest /\ pc = "idle" /\ ans = Done(<< >>)
  /\ lo = 0 /\ hi = 0 /\ pageID = 0 /\ addr = 0 /\ buf = << >>

\* A caller assigns the exported field PageSize between two calls.
SetPageSize(p) ==
  /\ pc = "idle"
  /\ pageSize' = p
  /\ UNCHANGED <<bases, sizes, pages, req, pc, locals, ans>>

Call(r) ==
  /\ pc = "idle"
  /\ req' = r /\ pc' = "enter" /\ addr' = r.addr /\ buf' = r.vals
  /\ UNCHANGED <<memory, lo, hi, pageID, ans>>

BeginFind ==
  /\ pc' = "find" /\ lo' = 0 /\ hi' = Len(bases)
  /\ UNCHANGED <<pageID, addr, buf, ans>>

\* mutant: a load is not checked
EnterLoadUnlimited ==
  /\ pc = "enter" /\ req.kind = "load"
  /\ IF pageSize = 0 \/ pages = << >> THEN Return(Done(<<0>>)) ELSE BeginFind
  /\ UNCHANGED <<memory, req>>
EnterLoad ==
  /\ pc = "enter" /\ req.kind = "load"
  /\ IF ~CheckLimit(addr) THEN Return(Failed)
     ELSE IF pageSize = 0 \/ pages = << >> THEN Return(Done(<<0>>))
     ELSE BeginFind
  /\ UNCHANGED <<memory, req>>

EnterLoadInto ==
  /\ pc = "enter" /\ req.kind = "loadInto"
  /\ IF req.vals = << >> THEN Return(Done(<< >>))
     ELSE IF ~CheckLimit(End) THEN Return(Failed)
     ELSE BeginFind
  /\ UNCHANGED <<memory, req>>

EnterStor ==
  /\ pc = "enter" /\ req.kind = "stor"
  /\ IF req.vals = << >> THEN Return(Done(<< >>)) /\ UNCHANGED pageSize
     ELSE IF ~CheckLimit(End) THEN Return(Failed) /\ UNCHANGED pageSize
     ELSE BeginFind /\ pageSize' = IF pageSize = 0 THEN DefaultPageSize ELSE pageSize
  /\ UNCHANGED <<bases, sizes, pages, req>>

\* where findPage looks next, and does it go on from there?
\* mutant: rounded down, so that it may look where it is
MiddleDown == (lo + hi) \div 2
Middle == (lo + hi) \div 2 + 1

\* mutant: a page that starts just past the address
StartsAround(h) == h < Len(bases) /\ Base(h) <= addr + 1
StartsBelow(h) == h < Len(bases) /\ Base(h) <= addr

\* one iteration of findPage
FindStep ==
  /\ pc = "find" /\ lo < hi
  /\ IF StartsBelow(Middle) THEN lo' = Middle /\ UNCHANGED hi
     ELSE hi' = Middle - 1 /\ UNCHANGED lo
  /\ UNCHANGED <<memory, req, pc, pageID, addr, buf, ans>>

FindDone ==
  /\ pc = "find" /\ ~(lo < hi)
  /\ pageID' = lo /\ pc' = req.kind
  /\ UNCHANGED <<memory, req, lo, hi, addr, buf, ans>>

LoadPage ==
  /\ pc = "load"
  /\ LET i == Signed(addr, Base(pageID))
     IN Return(Done(<<IF i \in DOMAIN Page(pageID) THEN Page(pageID)[i] ELSE 0>>))
  /\ UNCHANGED <<memory, req>>

\* how many cells of the buffer are left, how many of those come before the
\* page the walk is at, and how many cells of the page come before the walk:
\* differences of ints that are only heeded when they are positive
Rest == Len(req.vals) - (addr - req.addr)
\* mutant: nothing is skipped
SkipNothing(a, b) == 0
Skip(a, b) == IF Signed(a, b) > 0 THEN Signed(a, b) ELSE 0
Gap == Skip(Base(pageID), addr)

LoadIntoMore ==
  /\ addr < End /\ pageID < Len(bases)
  /\ Base(pageID) <= End /\ Gap < Rest

LoadIntoPage ==
  /\ pc = "loadInto" /\ LoadIntoMore
  /\ LET from == addr + Gap
         skip == Skip(from, Base(pageID))
         size == Cardinality(DOMAIN Page(pageID))
         upto == IF skip > 0 /\ skip >= size THEN from ELSE from + Least(size - skip, Rest - Gap)
     IN /\ addr' = upto
        /\ buf' = [x \in DOMAIN buf |->
             LET a == req.addr + x - 1
             IN IF a \in addr .. from - 1 THEN 0
                ELSE IF a \in from .. upto - 1 THEN Page(pageID)[skip + a - from]
                ELSE buf[x]]
  /\ pageID' = pageID + 1
  /\ UNCHANGED <<memory, req, pc, lo, hi, ans>>

LoadIntoDone ==
  /\ pc = "loadInto" /\ ~LoadIntoMore
  /\ Return(Done([x \in DOMAIN buf |-> IF req.addr + x - 1 < addr THEN buf[x] ELSE 0]))
  /\ UNCHANGED <<memory, req>>

\* page with the cells of [addr, upto) taken from the values to store
Written(page, base, upto) ==
  [o \in DOMAIN page |-> IF base + o \in addr .. upto - 1
                         THEN req.vals[base + o - req.addr + 1] ELSE page[o]]

\* one iteration of Stor: find or make the page, then copy what fits into it
StorPage ==
  /\ pc = "stor" /\ addr < End
  /\ LET p    == AllocPage(pageID, addr)
         new  == IsNew(pageID, addr)
         page == IF new THEN ZeroPage(p.size) ELSE Page(pageID)
         skip == Minus(addr, p.base)
         upto == IF skip > 0 /\ skip >= p.size THEN addr
                 ELSE addr + Least(p.size - skip, End - addr)
     IN /\ addr' = upto
        /\ bases' = IF new THEN InsertAt(bases, pageID + 1, p.base) ELSE bases
        /\ sizes' = IF new THEN InsertAt(sizes, pageID + 1, p.size) ELSE sizes
        /\ pages' = IF new THEN InsertAt(pages, pageID + 1, Written(page, p.base, upto))
                    ELSE [pages EXCEPT ![pageID + 1] = Written(page, p.base, upto)]
  /\ pageID' = pageID + 1
  /\ UNCHANGED <<pageSize, req, pc, lo, hi, buf, ans>>

StorDone ==
  /\ pc = "stor" /\ ~(addr < End)
  /\ Return(Done(<< >>))
  /\ UNCHANGED <<memory, req>>

Step ==
  \/ EnterLoad \/ EnterLoadInto \/ EnterStor
  \/ FindStep \/ FindDone
  \/ LoadPage \/ LoadIntoPage \/ LoadIntoDone
  \/ StorPage \/ StorDone

Next ==
  \/ Step
  \/ \E r \in Requests : Call(r)
  \/ \E p \in Resizes[pageSize] : SetPageSize(p)

Spec == Init /\ [][Next]_vars

\* A call runs on its caller's goroutine: nothing but its end stops it.
FairSpec == Spec /\ WF_vars(Step)
----------------------------------------------------------------------------
(* What is true of the memory.                                             *)

TypeOK ==
  /\ pageSize \in Addr
  /\ bases \in Seq(Addr) /\ sizes \in Seq(Addr)
  /\ DOMAIN pages = DOMAIN bases /\ DOMAIN sizes = DOMAIN bases
  /\ \A k \in DOMAIN pages : pages[k] \in [0 .. sizes[k] - 1 -> Values]
  /\ req \in RequestType
  /\ pc \in {"idle", "enter", "find"} \union Kinds
  /\ lo \in Nat /\ hi \in Int /\ pageID \in Nat
  /\ addr \in Addr
  /\ buf \in Seq(Values)
  /\ ans \in [err : BOOLEAN, vals : Seq(Values)]

\* No address lies in two pages, and the pages are in order of address: the
\* premise of findPage's search (core.go, findPage) that every insertion made
\* by allocPage has to keep.
PagesDisjoint ==
  \A k \in 1 .. Len(bases) - 1 : bases[k] + sizes[k] <= bases[k + 1]

\* The pages that cover address a, and what a load of it should see.
Covering(a) == {k \in DOMAIN bases : a - bases[k] \in 0 .. sizes[k] - 1}
View(a) == IF Covering(a) = {} THEN 0
           ELSE LET k == CHOOSE k \in Covering(a) : TRUE IN pages[k][a - bases[k]]

\* Size() is past every cell that holds something: the memory dump
\* (dumper.go, dumpMem), which walks up to it, misses nothing.
SizeIsPastEverything == \A a \in Addr : View(a) # 0 => a < MemSize

\* the cells that a call asks for
AskedFor(r) == IF r.kind = "load" THEN {r.addr} ELSE {r.addr + i - 1 : i \in DOMAIN r.vals}

\* A Load, LoadInto or Stor that asks for any cell past the limit is answered
\* with an error, whatever it found on its way (core.go: "past which any store or
\* load should result in an error").
PastLimitFails ==
  pc = "idle" /\ Limit # 0 /\ (\E a \in AskedFor(req) : a > Limit) => ans.err

\* Every call returns: the binary search and the walks end.
CallsReturn == pc # "idle" ~> pc = "idle"
----------------------------------------------------------------------------
(* The memory a caller sees: a store takes effect when it is called, so    *)
(* what it has still to copy counts as stored.                             *)

Pending ==
  pc \in {"enter", "find", "stor"} /\ req.kind = "stor"
    /\ req.vals # << >> /\ CheckLimit(End)

FlatView ==
  [a \in Addr |-> IF Pending /\ a >= addr /\ a < End
                  THEN req.vals[a - req.addr + 1] ELSE View(a)]

Flat == INSTANCE FlatMem WITH mem <- FlatView, busy <- pc # "idle"

\* The paged memory behaves like one flat array: Load, LoadInto and Stor
\* across page boundaries, holes and the ends of the pages (int.go).
ImplementsFlatMem == Flat!Spec
=============================================================================
