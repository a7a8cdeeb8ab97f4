-------------------------- MODULE PagedIntsProofs --------------------------
(***************************************************************************)
(* Theorems about PagedInts, for every width of an address, limit, page    *)
(* size and set of requests: its types and limit, that its pages never     *)
(* overlap, and that it behaves like one flat array (FlatMem).             *)
(***************************************************************************)
EXTENDS PagedInts, SequenceTheorems, FiniteSetTheorems, TLAPS

\* The three slices are as long as each other, and there is no page before a
\* page size.
MemoryInv ==
  /\ pages = [k \in DOMAIN bases |-> pages[k]]
  /\ pageSize = 0 => bases = << >>

\* The call that is on its way: it has passed the limit, it has walked no
\* further than its end, and it stands at a page that exists or past the last.
CallInv ==
  pc # "idle" =>
    /\ req \in Requests
    /\ Len(buf) = Len(req.vals)
    /\ req.addr <= addr /\ (addr = req.addr \/ addr <= End)
    /\ pc \in {"enter", "find"} => addr = req.addr
    /\ pc # "enter" =>
         IF req.kind = "load" THEN bases # << >> /\ addr = req.addr /\ CheckLimit(addr)
         ELSE req.vals # << >> /\ CheckLimit(End)
    /\ pc # "enter" /\ req.kind = "stor" => pageSize # 0
    /\ pc = "find" => /\ lo <= hi /\ hi <= Len(bases)
                      /\ bases # << >> => lo < Len(bases)
    /\ pc \in Kinds => pc = req.kind /\ pageID <= Len(bases)
    /\ pc = "load" => pageID < Len(bases)

TypeInv ==
  /\ TypeOK
  /\ MemoryInv
  /\ CallInv
----------------------------------------------------------------------------
(* Arithmetic.                                                             *)

LEMMA DivFacts ==
  ASSUME NEW a \in Nat, NEW p \in Nat \ {0}
  PROVE  /\ a \div p \in Nat
         /\ (a \div p) * p \in Nat
         /\ (a \div p) * p <= a
         /\ a < (a \div p) * p + p
<1>1. a \div p \in Int /\ a % p \in 0 .. p - 1 /\ a = p * (a \div p) + (a % p)
  OBVIOUS
<1> QED BY <1>1

LEMMA WordFacts ==
  /\ Half \in Nat /\ Half > 0 /\ Top = 2 * Half /\ Top \in Nat /\ Top > 1
  /\ Limit \in Nat /\ Limit < Top
  /\ DefaultPageSize \in Addr /\ DefaultPageSize # 0
BY WordAssumption, LimitAssumption, PageSizeAssumption DEF Top, Addr

LEMMA PlusMinusType ==
  ASSUME NEW a \in Addr, NEW b \in Addr
  PROVE  /\ Plus(a, b) \in Addr /\ Minus(a, b) \in Addr
         /\ Plus(a, b) = (IF a + b < Top THEN a + b ELSE a + b - Top)
         /\ Minus(a, b) = (IF b <= a THEN a - b ELSE a - b + Top)
         /\ Signed(a, b) \in Int
BY WordFacts DEF Plus, Minus, Addr, Signed

LEMMA AlignDownFacts ==
  ASSUME pageSize \in Addr \ {0}, NEW a \in Addr
  PROVE  /\ AlignDown(a) \in Addr
         /\ AlignDown(a) <= a /\ a < AlignDown(a) + pageSize
<1>1. a \in Nat /\ pageSize \in Nat \ {0}
  BY WordFacts DEF Addr
<1>2. /\ (a \div pageSize) * pageSize \in Nat
      /\ (a \div pageSize) * pageSize <= a
      /\ a < (a \div pageSize) * pageSize + pageSize
  BY <1>1, DivFacts
<1> QED BY <1>2, WordFacts DEF AlignDown, Addr
----------------------------------------------------------------------------
(* Sequences.                                                              *)

LEMMA InsertAtProperties ==
  ASSUME NEW S, NEW s \in Seq(S), NEW i \in 1 .. Len(s) + 1, NEW e \in S
  PROVE  /\ InsertAt(s, i, e) \in Seq(S)
         /\ Len(InsertAt(s, i, e)) = Len(s) + 1
         /\ \A j \in 1 .. Len(s) + 1 :
              InsertAt(s, i, e)[j] = IF j < i THEN s[j] ELSE IF j = i THEN e ELSE s[j - 1]
<1>1. Len(s) \in Nat /\ \A j \in 1 .. Len(s) : s[j] \in S
  BY LenProperties, ElementOfSeq
<1> DEFINE L == SubSeq(s, 1, i - 1)
           R == SubSeq(s, i, Len(s))
<1>2. /\ L \in Seq(S) /\ Len(L) = i - 1
      /\ \A j \in 1 .. i - 1 : L[j] = s[j]
  BY <1>1, SubSeqProperties
<1>3. /\ R \in Seq(S) /\ Len(R) = Len(s) - i + 1
      /\ \A j \in 1 .. Len(s) - i + 1 : R[j] = s[i + j - 1]
  BY <1>1, SubSeqProperties
<1>4. <<e>> \in Seq(S) /\ Len(<<e>>) = 1 /\ <<e>>[1] = e
  OBVIOUS
<1> HIDE DEF L, R
<1> DEFINE LE == L \o <<e>>
<1>5. /\ LE \in Seq(S) /\ Len(LE) = i
      /\ \A j \in 1 .. i : LE[j] = IF j < i THEN s[j] ELSE e
  BY <1>2, <1>4, ConcatProperties
<1> HIDE DEF LE
<1>6. /\ LE \o R \in Seq(S) /\ Len(LE \o R) = Len(s) + 1
      /\ \A j \in 1 .. Len(s) + 1 : (LE \o R)[j] = IF j <= i THEN LE[j] ELSE R[j - i]
  <2>1. /\ LE \o R \in Seq(S) /\ Len(LE \o R) = Len(LE) + Len(R)
        /\ \A j \in 1 .. Len(LE) + Len(R) :
             (LE \o R)[j] = IF j <= Len(LE) THEN LE[j] ELSE R[j - Len(LE)]
    BY <1>3, <1>5, ConcatProperties
  <2> QED BY <1>1, <1>3, <1>5, <2>1
<1>7. \A j \in 1 .. Len(s) + 1 :
        (LE \o R)[j] = IF j < i THEN s[j] ELSE IF j = i THEN e ELSE s[j - 1]
  BY <1>1, <1>3, <1>5, <1>6
<1> QED BY <1>6, <1>7 DEF InsertAt, LE, L, R

LEMMA PagesFacts ==
  ASSUME TypeInv
  PROVE  /\ Len(bases) \in Nat /\ DOMAIN bases = 1 .. Len(bases)
         /\ DOMAIN pages = 1 .. Len(bases) /\ DOMAIN sizes = 1 .. Len(bases)
         /\ Len(sizes) = Len(bases) /\ Len(pages) = Len(bases)
         /\ \A k \in 1 .. Len(bases) :
              /\ bases[k] \in Addr /\ sizes[k] \in Addr
              /\ pages[k] \in [0 .. sizes[k] - 1 -> Values]
         /\ bases # << >> <=> Len(bases) > 0
<1>1. bases \in Seq(Addr) /\ sizes \in Seq(Addr) /\ DOMAIN sizes = DOMAIN bases
  BY DEF TypeInv, TypeOK
<1>2. /\ Len(bases) \in Nat /\ DOMAIN bases = 1 .. Len(bases)
      /\ Len(sizes) \in Nat /\ DOMAIN sizes = 1 .. Len(sizes)
      /\ \A k \in 1 .. Len(bases) : bases[k] \in Addr
      /\ \A k \in 1 .. Len(sizes) : sizes[k] \in Addr
  BY <1>1, LenProperties, ElementOfSeq
<1>3. Len(sizes) = Len(bases)
  BY <1>1, <1>2
<1>4. bases # << >> <=> Len(bases) > 0
  BY <1>1, <1>2, EmptySeq
<1>5. Len(pages) = Len(bases)
  BY <1>2 DEF TypeInv, MemoryInv
<1> QED BY <1>1, <1>2, <1>3, <1>4, <1>5 DEF TypeInv, TypeOK
----------------------------------------------------------------------------
(* A step of Stor.                                                         *)

LEMMA RequestFacts ==
  ASSUME TypeInv
  PROVE  /\ req.kind \in Kinds /\ req.addr \in Addr /\ req.vals \in Seq(Values)
         /\ Len(req.vals) \in Nat /\ DOMAIN req.vals = 1 .. Len(req.vals)
         /\ \A i \in 1 .. Len(req.vals) : req.vals[i] \in Values
         /\ req.vals # << >> <=> Len(req.vals) > 0
         /\ addr \in Addr
         /\ pc # "idle" =>
              /\ Len(req.vals) < Half
              /\ End \in Addr
              /\ End = (IF req.addr + Len(req.vals) < Top THEN req.addr + Len(req.vals)
                        ELSE req.addr + Len(req.vals) - Top)
              /\ addr < End => End = req.addr + Len(req.vals)
<1>1. req \in RequestType /\ addr \in Addr
  BY DEF TypeInv, TypeOK
<1>2. req.kind \in Kinds /\ req.addr \in Addr /\ req.vals \in Seq(Values)
  BY <1>1 DEF RequestType
<1>3. /\ Len(req.vals) \in Nat /\ DOMAIN req.vals = 1 .. Len(req.vals)
      /\ \A i \in 1 .. Len(req.vals) : req.vals[i] \in Values
  BY <1>2, LenProperties, ElementOfSeq
<1>4. req.vals # << >> <=> Len(req.vals) > 0
  BY <1>2, <1>3, EmptySeq
<1>5. ASSUME pc # "idle"
      PROVE  /\ Len(req.vals) < Half
             /\ End \in Addr
             /\ End = (IF req.addr + Len(req.vals) < Top THEN req.addr + Len(req.vals)
                       ELSE req.addr + Len(req.vals) - Top)
             /\ addr < End => End = req.addr + Len(req.vals)
  <2>1. Len(req.vals) < Half /\ req.addr <= addr
    BY <1>5, RequestsAssumption DEF TypeInv, CallInv
  <2>2. Len(req.vals) \in Addr
    BY <1>3, <2>1, WordFacts DEF Addr
  <2>3. /\ End \in Addr
        /\ End = (IF req.addr + Len(req.vals) < Top THEN req.addr + Len(req.vals)
                  ELSE req.addr + Len(req.vals) - Top)
    BY <1>2, <2>2, PlusMinusType DEF End
  <2>4. addr < End => End = req.addr + Len(req.vals)
    BY <1>1, <1>2, <1>3, <2>1, <2>3, WordFacts DEF Addr
  <2> QED BY <2>1, <2>3, <2>4
<1> QED BY <1>1, <1>2, <1>3, <1>4, <1>5

\* The page that Stor is to write to, made or found, whether it is made, and
\* the address that Stor is at when it has written to it.
Made == AllocPage(pageID, addr)
Fresh == IsNew(pageID, addr)
Upto == LET skip == Minus(addr, Made.base)
        IN IF skip > 0 /\ skip >= Made.size THEN addr
           ELSE addr + Least(Made.size - skip, End - addr)

LEMMA MadeType ==
  ASSUME TypeInv, pc = "stor"
  PROVE  Made = [base |-> Made.base, size |-> Made.size] /\ Made.base \in Addr /\ Made.size \in Addr
<1>1. pageSize \in Addr \ {0} /\ pageID \in Nat /\ pageID <= Len(bases) /\ addr \in Addr
  BY DEF TypeInv, TypeOK, CallInv, Kinds
<1>2. AlignDown(addr) \in Addr
  BY <1>1, AlignDownFacts
<1>3. CASE pageID = Len(bases)
  <2>1. Made = AppendedPage(addr)
    BY <1>3 DEF Made, AllocPage
  <2>2. CASE Len(bases) > 0 /\ AlignDown(addr) < Plus(bases[Len(bases)], sizes[Len(bases)])
    <3> DEFINE end == Plus(bases[Len(bases)], sizes[Len(bases)])
    <3>1. end \in Addr
      BY <2>2, PagesFacts, PlusMinusType
    <3>2. Made = [base |-> end, size |-> Minus(pageSize, end - AlignDown(addr))]
      BY <2>1, <2>2, PagesFacts DEF AppendedPage
    <3>3. end - AlignDown(addr) \in Addr
      BY <1>2, <2>2, <3>1, WordFacts DEF Addr
    <3>4. Minus(pageSize, end - AlignDown(addr)) \in Addr
      BY <1>1, <3>3, PlusMinusType
    <3> HIDE DEF end
    <3> QED BY <3>1, <3>2, <3>4
  <2>3. CASE ~(Len(bases) > 0 /\ AlignDown(addr) < Plus(bases[Len(bases)], sizes[Len(bases)]))
    <3>1. Made = [base |-> AlignDown(addr), size |-> pageSize]
      BY <2>1, <2>3, PagesFacts DEF AppendedPage
    <3> QED BY <1>1, <1>2, <3>1
  <2> QED BY <2>2, <2>3
<1>4. CASE pageID # Len(bases)
  <2>1. pageID + 1 \in 1 .. Len(bases)
    <3>1. Len(bases) \in Nat
      BY PagesFacts
    <3> QED BY <1>1, <1>4, <3>1
  <2>2. Base(pageID) \in Addr /\ Size(pageID) \in Addr
    BY <2>1, PagesFacts DEF Base, Size
  <2>3. CASE addr < Base(pageID)
    <3>1. Made = [base |-> AlignDown(addr), size |-> Least(pageSize, Base(pageID) - AlignDown(addr))]
      BY <1>4, <2>3 DEF Made, AllocPage, InsertedPage
    <3>2. Base(pageID) - AlignDown(addr) \in Addr
      <4>1. AlignDown(addr) <= addr
        BY <1>1, AlignDownFacts
      <4> QED BY <1>1, <1>2, <2>2, <2>3, <4>1, WordFacts DEF Addr
    <3> QED BY <1>1, <1>2, <3>1, <3>2 DEF Least
  <2>4. CASE ~(addr < Base(pageID))
    BY <1>4, <2>2, <2>4 DEF Made, AllocPage
  <2> QED BY <2>3, <2>4
<1> QED BY <1>3, <1>4

\* How far Stor gets: past the page or to the end of what it stores.
LEMMA UptoFacts ==
  ASSUME TypeInv, pc = "stor", addr < End
  PROVE  /\ Upto \in Addr /\ addr <= Upto /\ Upto <= End
         /\ Made.base <= addr =>
              IF Made.base + Made.size <= addr /\ addr > Made.base THEN Upto = addr
              ELSE Upto = End \/ (Upto = Made.base + Made.size /\ Upto <= End)
         /\ Made.base <= addr => \A a \in addr .. Upto - 1 : a - Made.base \in 0 .. Made.size - 1
<1>1. Made.base \in Addr /\ Made.size \in Addr /\ addr \in Addr /\ End \in Addr
  BY MadeType, RequestFacts
<1>2. /\ Minus(addr, Made.base) \in Addr
      /\ Made.base <= addr => Minus(addr, Made.base) = addr - Made.base
  BY <1>1, PlusMinusType DEF Addr
<1> QED BY <1>1, <1>2, WordFacts DEF Upto, Least, Addr

\* The values that a page of some size may hold.
Contents == UNION {[0 .. n - 1 -> Values] : n \in Addr}

\* What Stor writes to: the page before it is written to.
Target == IF Fresh THEN ZeroPage(Made.size) ELSE Page(pageID)

LEMMA TargetType ==
  ASSUME TypeInv, pc = "stor", addr < End
  PROVE  /\ Target \in [0 .. Made.size - 1 -> Values]
         /\ Written(Target, Made.base, Upto) \in [0 .. Made.size - 1 -> Values]
         /\ \A o \in 0 .. Made.size - 1 :
              Written(Target, Made.base, Upto)[o] =
                IF Made.base + o \in addr .. Upto - 1
                THEN req.vals[Made.base + o - req.addr + 1] ELSE Target[o]
<1>1. Target \in [0 .. Made.size - 1 -> Values]
  <2>1. CASE Fresh
    BY <2>1, ValuesAssumption DEF Target, ZeroPage
  <2>2. CASE ~Fresh
    <3>1. pageID \in Nat /\ pageID < Len(bases)
      <4>1. Len(bases) \in Nat /\ pageID \in Nat /\ pageID <= Len(bases)
        BY PagesFacts DEF TypeInv, TypeOK, CallInv, Kinds
      <4> QED BY <2>2, <4>1 DEF Fresh, IsNew
    <3>2. pageID + 1 \in 1 .. Len(bases)
      BY <3>1, PagesFacts
    <3>3. Made.size = sizes[pageID + 1]
      BY <2>2 DEF Made, AllocPage, Fresh, IsNew, Size
    <3> QED BY <2>2, <3>2, <3>3, PagesFacts DEF Target, Page
  <2> QED BY <2>1, <2>2
<1>2. /\ addr \in Nat /\ Upto \in Nat /\ req.addr \in Nat /\ Len(req.vals) \in Nat
      /\ req.addr <= addr /\ Upto <= req.addr + Len(req.vals)
  <2>1. addr \in Addr /\ Upto \in Addr /\ req.addr \in Addr /\ Upto <= End
    BY UptoFacts, RequestFacts
  <2>2. req.addr <= addr /\ End = req.addr + Len(req.vals) /\ Len(req.vals) \in Nat
    BY RequestFacts DEF TypeInv, CallInv
  <2> QED BY <2>1, <2>2, WordFacts DEF Addr
<1>3. Made.size \in Nat /\ Made.base \in Nat /\ addr \in Nat /\ Upto \in Nat
  BY MadeType, UptoFacts, RequestFacts, WordFacts DEF Addr
<1>4. Written(Target, Made.base, Upto) =
        [o \in 0 .. Made.size - 1 |->
           IF Made.base + o \in addr .. Upto - 1
           THEN req.vals[Made.base + o - req.addr + 1] ELSE Target[o]]
  BY <1>1 DEF Written
<1>5. ASSUME NEW o \in 0 .. Made.size - 1
      PROVE  (IF Made.base + o \in addr .. Upto - 1
              THEN req.vals[Made.base + o - req.addr + 1] ELSE Target[o]) \in Values
  <2>1. CASE Made.base + o \in addr .. Upto - 1
    <3> DEFINE v == req.vals[Made.base + o - req.addr + 1]
    <3>1. v \in Values
      <4>1. /\ Made.base + o \in Int
            /\ addr <= Made.base + o /\ Made.base + o <= Upto - 1
        BY <1>2, <1>3, <2>1
      <4>2. PICK n \in Int, r \in Int : n = Len(req.vals) /\ r = req.addr
        BY <1>2
      <4>3. PICK b \in Int : b = Made.base + o
        BY <4>1
      <4>4. PICK m \in Int, u \in Int : m = addr /\ u = Upto
        BY <1>2
      <4>5. r <= m /\ m <= b /\ b <= u - 1 /\ u <= r + n
        BY <1>2, <4>1, <4>2, <4>3, <4>4
      <4>6. PICK i \in Int : i = b - r + 1
        OBVIOUS
      <4>7. i \in 1 .. n
        BY <4>5, <4>6
      <4>8. req.vals[i] \in Values
        BY <4>2, <4>7, RequestFacts
      <4>9. i = Made.base + o - req.addr + 1
        BY <1>2, <1>3, <4>1, <4>2, <4>3, <4>6
      <4> QED BY <4>8, <4>9
    <3> HIDE DEF v
    <3>2. (IF Made.base + o \in addr .. Upto - 1 THEN v ELSE Target[o]) = v
      BY <2>1
    <3> QED BY <3>1, <3>2 DEF v
  <2>2. CASE Made.base + o \notin addr .. Upto - 1
    BY <1>1, <2>2
  <2> QED BY <2>1, <2>2
<1> QED BY <1>1, <1>4, <1>5

\* The memory after a step of Stor: one page is written to, the pages before
\* it are as they were, and so are those after it, one place further up when
\* the page is a new one.
LEMMA StorFacts ==
  ASSUME TypeInv, StorPage
  PROVE  /\ pc = "stor" /\ addr < End /\ addr' = Upto /\ pageID' = pageID + 1
         /\ pageID \in Nat /\ pageID <= Len(bases) /\ (~Fresh => pageID < Len(bases))
         /\ bases' \in Seq(Addr) /\ sizes' \in Seq(Addr)
         /\ Len(bases') = (IF Fresh THEN Len(bases) + 1 ELSE Len(bases))
         /\ Len(sizes') = Len(bases') /\ DOMAIN pages' = 1 .. Len(bases')
         /\ pages' = [k \in 1 .. Len(bases') |-> pages'[k]]
         /\ bases'[pageID + 1] = Made.base
         /\ sizes'[pageID + 1] = Made.size
         /\ pages'[pageID + 1] = Written(Target, Made.base, Upto)
         /\ \A j \in 1 .. Len(bases') :
              /\ j < pageID + 1 => /\ bases'[j] = bases[j] /\ sizes'[j] = sizes[j]
                                   /\ pages'[j] = pages[j]
              /\ j > pageID + 1 /\ Fresh => /\ bases'[j] = bases[j - 1]
                                            /\ sizes'[j] = sizes[j - 1]
                                            /\ pages'[j] = pages[j - 1]
              /\ j > pageID + 1 /\ ~Fresh => /\ bases'[j] = bases[j] /\ sizes'[j] = sizes[j]
                                             /\ pages'[j] = pages[j]
<1> DEFINE n == Len(bases)
           k == pageID + 1
           W == Written(Target, Made.base, Upto)
<1>1. /\ pc = "stor" /\ addr < End /\ addr' = Upto /\ pageID' = pageID + 1
      /\ bases' = (IF Fresh THEN InsertAt(bases, k, Made.base) ELSE bases)
      /\ sizes' = (IF Fresh THEN InsertAt(sizes, k, Made.size) ELSE sizes)
      /\ pages' = (IF Fresh THEN InsertAt(pages, k, W)
                   ELSE [pages EXCEPT ![k] = W])
  BY DEF StorPage, Made, Fresh, Upto, Target
<1>2. /\ n \in Nat /\ pageID \in Nat /\ pageID <= n
      /\ ~Fresh => pageID < n
  <2>1. n \in Nat /\ pageID \in Nat /\ pageID <= n
    BY <1>1, PagesFacts DEF TypeInv, TypeOK, CallInv, Kinds
  <2> QED BY <2>1 DEF Fresh, IsNew
<1>3. /\ bases \in Seq(Addr) /\ sizes \in Seq(Addr) /\ Len(sizes) = n /\ Len(pages) = n
      /\ DOMAIN pages = 1 .. n
  BY PagesFacts DEF TypeInv, TypeOK
<1>4. Made.base \in Addr /\ Made.size \in Addr
  BY <1>1, MadeType
<1>5. W \in Contents
  BY <1>1, <1>4, TargetType DEF Contents
<1>6. pages \in Seq(Contents)
  <2>1. \A j \in 1 .. n : pages[j] \in Contents
    BY PagesFacts DEF Contents
  <2>2. pages = [j \in 1 .. n |-> pages[j]]
    BY PagesFacts DEF TypeInv, MemoryInv
  <2> QED BY <1>2, <2>1, <2>2
<1> HIDE DEF n, k, W
<1>7. CASE Fresh
  <2>1. k \in 1 .. n + 1
    BY <1>2 DEF k
  <2>0. Len(bases) = n /\ k \in 1 .. Len(bases) + 1
    BY <2>1 DEF n
  <2>2. /\ bases' \in Seq(Addr) /\ Len(bases') = n + 1
        /\ \A j \in 1 .. n + 1 :
             bases'[j] = IF j < k THEN bases[j] ELSE IF j = k THEN Made.base ELSE bases[j - 1]
    <3>1. bases \in Seq(Addr) /\ k \in 1 .. Len(bases) + 1 /\ Made.base \in Addr
      BY <1>3, <1>4, <1>5, <1>6, <2>0
    <3>2. bases' = InsertAt(bases, k, Made.base)
      BY <1>1, <1>7
    <3>3. /\ InsertAt(bases, k, Made.base) \in Seq(Addr) /\ Len(InsertAt(bases, k, Made.base)) = Len(bases) + 1
          /\ \A j \in 1 .. Len(bases) + 1 :
               InsertAt(bases, k, Made.base)[j] =
                 IF j < k THEN bases[j] ELSE IF j = k THEN Made.base ELSE bases[j - 1]
      BY <3>1, InsertAtProperties
    <3> QED BY <1>3, <2>0, <3>2, <3>3
  <2>3. /\ sizes' \in Seq(Addr) /\ Len(sizes') = n + 1
        /\ \A j \in 1 .. n + 1 :
             sizes'[j] = IF j < k THEN sizes[j] ELSE IF j = k THEN Made.size ELSE sizes[j - 1]
    <3>1. sizes \in Seq(Addr) /\ k \in 1 .. Len(sizes) + 1 /\ Made.size \in Addr
      BY <1>3, <1>4, <1>5, <1>6, <2>0
    <3>2. sizes' = InsertAt(sizes, k, Made.size)
      BY <1>1, <1>7
    <3>3. /\ InsertAt(sizes, k, Made.size) \in Seq(Addr) /\ Len(InsertAt(sizes, k, Made.size)) = Len(sizes) + 1
          /\ \A j \in 1 .. Len(sizes) + 1 :
               InsertAt(sizes, k, Made.size)[j] =
                 IF j < k THEN sizes[j] ELSE IF j = k THEN Made.size ELSE sizes[j - 1]
      BY <3>1, InsertAtProperties
    <3> QED BY <1>3, <2>0, <3>2, <3>3
  <2>4. /\ pages' \in Seq(Contents) /\ Len(pages') = n + 1
        /\ \A j \in 1 .. n + 1 :
             pages'[j] = IF j < k THEN pages[j] ELSE IF j = k THEN W ELSE pages[j - 1]
    <3>1. pages \in Seq(Contents) /\ k \in 1 .. Len(pages) + 1 /\ W \in Contents
      BY <1>3, <1>4, <1>5, <1>6, <2>0
    <3>2. pages' = InsertAt(pages, k, W)
      BY <1>1, <1>7
    <3>3. PICK old \in Seq(Contents), new \in Contents : old = pages /\ new = W
      BY <3>1
    <3>4. k \in 1 .. Len(old) + 1
      BY <3>1, <3>3
    <3>5. /\ InsertAt(old, k, new) \in Seq(Contents) /\ Len(InsertAt(old, k, new)) = Len(old) + 1
          /\ \A j \in 1 .. Len(old) + 1 :
               InsertAt(old, k, new)[j] =
                 IF j < k THEN old[j] ELSE IF j = k THEN new ELSE old[j - 1]
      BY <3>4, InsertAtProperties
    <3>6. pages' = InsertAt(old, k, new)
      BY <3>2, <3>3
    <3> QED BY <1>3, <2>0, <3>3, <3>5, <3>6
  <2>5. pages' = [j \in 1 .. n + 1 |-> pages'[j]] /\ DOMAIN pages' = 1 .. n + 1
    BY <2>4, LenProperties
  <2>6. /\ bases'[k] = Made.base /\ sizes'[k] = Made.size /\ pages'[k] = W
        /\ \A j \in 1 .. n + 1 :
             /\ j < k => bases'[j] = bases[j] /\ sizes'[j] = sizes[j] /\ pages'[j] = pages[j]
             /\ j > k => /\ bases'[j] = bases[j - 1] /\ sizes'[j] = sizes[j - 1]
                         /\ pages'[j] = pages[j - 1]
    <3>1. k \in Int
      BY <2>1
    <3> QED BY <2>1, <2>2, <2>3, <2>4, <3>1
  <2> QED BY <1>1, <1>2, <1>7, <2>2, <2>3, <2>5, <2>6 DEF n, k, W
<1>8. CASE ~Fresh
  <2>1. k \in 1 .. n
    BY <1>2, <1>8 DEF k
  <2>2. bases' = bases /\ sizes' = sizes
    BY <1>1, <1>8
  <2>3. pages' = [pages EXCEPT ![k] = W]
    BY <1>1, <1>8
  <2>4. /\ pages'[k] = W
        /\ \A j \in 1 .. n : j # k => pages'[j] = pages[j]
        /\ DOMAIN pages' = 1 .. n /\ pages' = [j \in 1 .. n |-> pages'[j]]
    BY <1>3, <2>1, <2>3
  <2>5. Made.base = bases[k] /\ Made.size = sizes[k]
    BY <1>8 DEF Made, AllocPage, Fresh, IsNew, Base, Size, k
  <2> QED BY <1>1, <1>2, <1>3, <1>8, <2>1, <2>2, <2>4, <2>5 DEF n, k, W
<1> QED BY <1>7, <1>8
----------------------------------------------------------------------------
(* A step of LoadInto: where it goes on, how much it skips of the page, and *)
(* where it gets to.                                                       *)

From == addr + Gap
InPage == Skip(From, Base(pageID))
LoadedTo == IF InPage > 0 /\ InPage >= sizes[pageID + 1] THEN From
            ELSE From + Least(sizes[pageID + 1] - InPage, Rest - Gap)

LEMMA SkipType ==
  ASSUME NEW a \in Addr, NEW b \in Addr
  PROVE  Skip(a, b) \in Nat
BY PlusMinusType DEF Skip

LEMMA PageLength ==
  ASSUME TypeInv, NEW k \in 1 .. Len(bases)
  PROVE  Cardinality(DOMAIN pages[k]) = sizes[k]
<1>1. sizes[k] \in Nat /\ DOMAIN pages[k] = 0 .. sizes[k] - 1
  BY PagesFacts, WordFacts DEF Addr
<1> DEFINE last == sizes[k] - 1
<1>2. last \in Int /\ 0 \in Int
  BY <1>1
<1> HIDE DEF last
<1>3. Cardinality(0 .. last) = IF 0 > last THEN 0 ELSE last - 0 + 1
  BY <1>2, FS_Interval
<1> QED BY <1>1, <1>3 DEF last

LEMMA LoadIntoFacts ==
  ASSUME TypeInv, LoadIntoPage
  PROVE  /\ pc = "loadInto" /\ pageID + 1 \in 1 .. Len(bases) /\ pageID \in Nat
         /\ Base(pageID) \in Addr /\ sizes[pageID + 1] \in Addr /\ Base(pageID) <= End
         /\ Gap \in Nat /\ From \in Addr /\ InPage \in Nat /\ addr <= From
         /\ From < End /\ End = req.addr + Len(req.vals)
         /\ LoadedTo \in Addr /\ From <= LoadedTo /\ LoadedTo <= End
         /\ Rest - Gap = End - From
         /\ \A a \in From .. LoadedTo - 1 : InPage + a - From \in 0 .. sizes[pageID + 1] - 1
         /\ addr' = LoadedTo /\ pageID' = pageID + 1
         /\ buf' = [x \in DOMAIN buf |->
                     LET a == req.addr + x - 1
                     IN IF a \in addr .. From - 1 THEN 0
                        ELSE IF a \in From .. LoadedTo - 1
                             THEN Page(pageID)[InPage + a - From]
                             ELSE buf[x]]
<1>1. /\ pc = "loadInto" /\ addr < End /\ pageID < Len(bases) /\ Gap < Rest
      /\ Base(pageID) <= End
  BY DEF LoadIntoPage, LoadIntoMore
<1>2. pageID + 1 \in 1 .. Len(bases) /\ pageID \in Nat
  <2>1. pageID \in Nat /\ Len(bases) \in Nat
    BY PagesFacts DEF TypeInv, TypeOK
  <2> QED BY <1>1, <2>1
<1>3. Base(pageID) \in Addr /\ sizes[pageID + 1] \in Addr
  BY <1>2, PagesFacts DEF Base
<1>4. /\ addr \in Addr /\ req.addr \in Addr /\ Len(req.vals) \in Nat /\ End \in Addr
      /\ End = req.addr + Len(req.vals) /\ req.addr <= addr
  BY <1>1, RequestFacts DEF TypeInv, CallInv
<1>5. Gap \in Nat
  BY <1>3, <1>4, SkipType DEF Gap
<1>6. Rest = req.addr + Len(req.vals) - addr /\ Rest - Gap = End - From
  BY <1>4, <1>5, WordFacts DEF Rest, Addr, From
<1>7. From \in Addr /\ addr <= From /\ From < End
  BY <1>1, <1>4, <1>5, <1>6, WordFacts DEF From, Addr
<1>8. InPage \in Nat
  BY <1>3, <1>7, SkipType DEF InPage
<1>9. Cardinality(DOMAIN Page(pageID)) = sizes[pageID + 1]
  BY <1>2, PageLength DEF Page
<1>10. /\ LoadedTo \in Addr /\ From <= LoadedTo /\ LoadedTo <= End
       /\ \A a \in From .. LoadedTo - 1 : InPage + a - From \in 0 .. sizes[pageID + 1] - 1
  <2>1. Rest - Gap \in Nat /\ sizes[pageID + 1] \in Nat /\ From \in Nat /\ Rest - Gap = End - From
    BY <1>3, <1>4, <1>6, <1>7, WordFacts DEF Addr
  <2>2. CASE InPage > 0 /\ InPage >= sizes[pageID + 1]
    BY <1>4, <1>7, <2>1, <2>2, WordFacts DEF LoadedTo, Addr
  <2>3. CASE ~(InPage > 0 /\ InPage >= sizes[pageID + 1])
    <3>1. LoadedTo = From + Least(sizes[pageID + 1] - InPage, Rest - Gap)
      BY <2>3 DEF LoadedTo
    <3>2. sizes[pageID + 1] - InPage \in Nat
      BY <1>8, <2>1, <2>3
    <3>3. /\ LoadedTo - From \in Nat /\ LoadedTo \in Int
          /\ LoadedTo - From <= sizes[pageID + 1] - InPage /\ LoadedTo - From <= End - From
      BY <2>1, <3>1, <3>2 DEF Least
    <3> QED BY <1>4, <1>7, <1>8, <2>1, <3>3, WordFacts DEF Addr
  <2> QED BY <2>2, <2>3
<1>11. /\ addr' = LoadedTo /\ pageID' = pageID + 1
       /\ buf' = [x \in DOMAIN buf |->
                   LET a == req.addr + x - 1
                   IN IF a \in addr .. From - 1 THEN 0
                      ELSE IF a \in From .. LoadedTo - 1
                           THEN Page(pageID)[InPage + a - From]
                           ELSE buf[x]]
  BY <1>9 DEF LoadIntoPage, From, InPage, LoadedTo
<1> QED BY <1>1, <1>2, <1>3, <1>4, <1>5, <1>6, <1>7, <1>8, <1>10, <1>11
----------------------------------------------------------------------------
(* The types.                                                              *)

LEMMA InitTypeInv ==
  Init => TypeInv
<1> SUFFICES ASSUME Init PROVE TypeInv
  OBVIOUS
<1>1. /\ pageSize \in Addr /\ bases = << >> /\ sizes = << >> /\ pages = << >>
      /\ req = NoRequest /\ pc = "idle" /\ ans = Done(<< >>)
      /\ lo = 0 /\ hi = 0 /\ pageID = 0 /\ addr = 0 /\ buf = << >>
  BY PageSizeAssumption DEF Init
<1>2. 0 \in Addr
  BY WordFacts DEF Addr
<1>3. << >> \in Seq(Values) /\ << >> \in Seq(Addr) /\ DOMAIN << >> = {}
  OBVIOUS
<1>4. NoRequest \in RequestType
  BY <1>2, <1>3 DEF NoRequest, RequestType, Kinds
<1>5. ans \in [err : BOOLEAN, vals : Seq(Values)]
  BY <1>1, <1>3 DEF Done
<1>6. TypeOK
  BY <1>1, <1>2, <1>3, <1>4, <1>5 DEF TypeOK
<1>7. MemoryInv
  BY <1>1, <1>3 DEF MemoryInv
<1> QED BY <1>1, <1>6, <1>7 DEF TypeInv, CallInv

AnswerType == [err : BOOLEAN, vals : Seq(Values)]

LEMMA ReturnKeepsTypes ==
  ASSUME TypeInv, NEW a \in AnswerType, Return(a), UNCHANGED <<memory, req>>
  PROVE  TypeInv'
<1>1. 0 \in Addr /\ << >> \in Seq(Values)
  BY WordFacts DEF Addr
<1>2. TypeOK'
  BY <1>1 DEF TypeInv, TypeOK, Return, memory, AnswerType
<1>3. MemoryInv' /\ CallInv'
  BY DEF TypeInv, MemoryInv, CallInv, memory, Return
<1> QED BY <1>2, <1>3 DEF TypeInv

LEMMA AnswerFacts ==
  /\ Failed \in AnswerType /\ Done(<< >>) \in AnswerType /\ Done(<<0>>) \in AnswerType
  /\ \A vs \in Seq(Values) : Done(vs) \in AnswerType
<1>1. << >> \in Seq(Values) /\ <<0>> \in Seq(Values)
  BY ValuesAssumption
<1>2. \A vs \in Seq(Values) : [err |-> FALSE, vals |-> vs] \in AnswerType
  BY DEF AnswerType
<1>3. [err |-> TRUE, vals |-> << >>] \in AnswerType
  BY <1>1 DEF AnswerType
<1> QED BY <1>1, <1>2, <1>3 DEF Failed, Done

\* The search begins with a request that is within the limit.
LEMMA BeginFindKeepsTypes ==
  ASSUME TypeInv, pc = "enter", BeginFind, UNCHANGED <<bases, sizes, pages, req>>,
         pageSize' = pageSize \/ pageSize' = DefaultPageSize,
         IF req.kind = "load" THEN bases # << >> /\ CheckLimit(addr)
         ELSE req.vals # << >> /\ CheckLimit(End),
         req.kind = "stor" => pageSize' # 0
  PROVE  TypeInv'
<1>1. Len(bases) \in Nat /\ (bases # << >> <=> Len(bases) > 0)
  BY PagesFacts
<1>2. TypeOK'
  BY <1>1, WordFacts DEF TypeInv, TypeOK, BeginFind
<1>3. MemoryInv'
  BY WordFacts DEF TypeInv, MemoryInv
<1>4. CallInv'
  BY <1>1 DEF TypeInv, TypeOK, CallInv, BeginFind, CheckLimit, End, Kinds
<1> QED BY <1>2, <1>3, <1>4 DEF TypeInv

LEMMA EnterKeepsTypes ==
  ASSUME TypeInv, EnterLoad \/ EnterLoadInto \/ EnterStor
  PROVE  TypeInv'
<1>1. pages # << >> => bases # << >>
  <2>1. DOMAIN pages = DOMAIN bases /\ pages = [k \in DOMAIN bases |-> pages[k]]
    BY DEF TypeInv, TypeOK, MemoryInv
  <2>2. Len(bases) = 0 => pages = << >>
    BY <2>1, PagesFacts
  <2> QED BY <2>2, PagesFacts
<1>2. CASE EnterLoad
  <2>1. CASE Return(Failed)
    BY <1>2, <2>1, AnswerFacts, ReturnKeepsTypes DEF EnterLoad
  <2>2. CASE Return(Done(<<0>>))
    BY <1>2, <2>2, AnswerFacts, ReturnKeepsTypes DEF EnterLoad
  <2>3. CASE BeginFind /\ CheckLimit(addr) /\ pages # << >>
    BY <1>1, <1>2, <2>3, BeginFindKeepsTypes DEF EnterLoad, memory
  <2> QED BY <1>2, <2>1, <2>2, <2>3 DEF EnterLoad
<1>3. CASE EnterLoadInto
  <2>1. CASE Return(Failed)
    BY <1>3, <2>1, AnswerFacts, ReturnKeepsTypes DEF EnterLoadInto
  <2>2. CASE Return(Done(<< >>))
    BY <1>3, <2>2, AnswerFacts, ReturnKeepsTypes DEF EnterLoadInto
  <2>3. CASE BeginFind /\ CheckLimit(End) /\ req.vals # << >>
    BY <1>3, <2>3, BeginFindKeepsTypes DEF EnterLoadInto, memory
  <2> QED BY <1>3, <2>1, <2>2, <2>3 DEF EnterLoadInto
<1>4. CASE EnterStor
  <2>1. CASE Return(Failed) /\ UNCHANGED pageSize
    BY <1>4, <2>1, AnswerFacts, ReturnKeepsTypes DEF EnterStor, memory
  <2>2. CASE Return(Done(<< >>)) /\ UNCHANGED pageSize
    BY <1>4, <2>2, AnswerFacts, ReturnKeepsTypes DEF EnterStor, memory
  <2>3. CASE /\ BeginFind /\ CheckLimit(End) /\ req.vals # << >>
             /\ pageSize' = IF pageSize = 0 THEN DefaultPageSize ELSE pageSize
    BY <1>4, <2>3, BeginFindKeepsTypes, WordFacts DEF EnterStor
  <2> QED BY <1>4, <2>1, <2>2, <2>3 DEF EnterStor
<1> QED BY <1>2, <1>3, <1>4

\* The middle of the search lies above lo and at most at hi, and a page that
\* starts below the address exists.
LEMMA FindFacts ==
  ASSUME TypeInv, FindStep
  PROVE  /\ pc = "find" /\ lo \in Nat /\ hi \in Nat /\ lo < hi /\ hi <= Len(bases)
         /\ Middle \in Nat /\ lo < Middle /\ Middle <= hi
         /\ \/ StartsBelow(Middle) /\ lo' = Middle /\ hi' = hi
            \/ ~StartsBelow(Middle) /\ hi' = Middle - 1 /\ lo' = lo
         /\ UNCHANGED <<memory, req, pc, pageID, addr, buf, ans>>
<1>1. /\ pc = "find" /\ lo \in Nat /\ hi \in Int /\ lo < hi /\ hi <= Len(bases)
      /\ Len(bases) \in Nat
  BY PagesFacts DEF TypeInv, TypeOK, CallInv, FindStep
<1>2. Middle \in Nat /\ lo < Middle /\ Middle <= hi
  BY <1>1 DEF Middle
<1> QED BY <1>1, <1>2 DEF FindStep

LEMMA FindKeepsTypes ==
  ASSUME TypeInv, FindStep \/ FindDone
  PROVE  TypeInv'
<1>1. MemoryInv'
  BY DEF TypeInv, MemoryInv, FindStep, FindDone, memory
<1>2. CASE FindStep
  <2>1. TypeOK'
    BY <1>2, FindFacts DEF TypeInv, TypeOK, memory
  <2>2. /\ lo' <= hi' /\ hi' <= Len(bases) /\ lo' \in Nat /\ hi' \in Int
        /\ bases # << >> => lo' < Len(bases)
    <3>1. bases # << >> => lo < Len(bases)
      BY <1>2, FindFacts DEF TypeInv, CallInv
    <3>2. StartsBelow(Middle) => Middle < Len(bases)
      BY DEF StartsBelow
    <3>3. Len(bases) \in Nat
      BY PagesFacts
    <3> QED BY <1>2, <3>1, <3>2, <3>3, FindFacts
  <2>3. CallInv'
    BY <1>2, <2>2, FindFacts DEF TypeInv, CallInv, memory, Kinds, CheckLimit, End
  <2> QED BY <1>1, <2>1, <2>3 DEF TypeInv
<1>3. CASE FindDone
  <2>1. /\ pc = "find" /\ pageID' = lo /\ pc' = req.kind /\ req.kind \in Kinds
        /\ UNCHANGED <<memory, req, lo, hi, addr, buf, ans>>
    BY <1>3, RequestFacts DEF FindDone
  <2>2. lo \in Nat /\ lo <= Len(bases) /\ (bases # << >> => lo < Len(bases))
    BY <2>1, PagesFacts DEF TypeInv, TypeOK, CallInv
  <2>3. TypeOK'
    BY <2>1, <2>2 DEF TypeInv, TypeOK, memory
  <2>4. CallInv'
    BY <2>1, <2>2 DEF TypeInv, CallInv, memory, Kinds, CheckLimit, End
  <2> QED BY <1>1, <2>3, <2>4 DEF TypeInv
<1> QED BY <1>2, <1>3

LEMMA LoadKeepsTypes ==
  ASSUME TypeInv, LoadPage
  PROVE  TypeInv'
<1> DEFINE i == Signed(addr, Base(pageID))
           v == IF i \in DOMAIN Page(pageID) THEN Page(pageID)[i] ELSE 0
<1>1. pageID + 1 \in 1 .. Len(bases)
  <2>1. pageID \in Nat /\ pageID < Len(bases) /\ Len(bases) \in Nat
    BY PagesFacts DEF LoadPage, TypeInv, TypeOK, CallInv
  <2> QED BY <2>1
<1>2. Page(pageID) \in [0 .. sizes[pageID + 1] - 1 -> Values]
  BY <1>1, PagesFacts DEF Page
<1>3. v \in Values
  <2> HIDE DEF i
  <2> QED BY <1>2, ValuesAssumption
<1> HIDE DEF v
<1>4. <<v>> \in Seq(Values)
  BY <1>3
<1>5. Return(Done(<<v>>)) /\ UNCHANGED <<memory, req>>
  BY DEF LoadPage, v
<1> QED BY <1>4, <1>5, AnswerFacts, ReturnKeepsTypes

LEMMA BufferFacts ==
  ASSUME TypeInv, pc # "idle"
  PROVE  /\ buf \in Seq(Values) /\ Len(buf) = Len(req.vals) /\ Len(buf) \in Nat
         /\ DOMAIN buf = 1 .. Len(req.vals)
         /\ \A x \in 1 .. Len(req.vals) : buf[x] \in Values
<1>1. buf \in Seq(Values) /\ Len(buf) = Len(req.vals)
  BY DEF TypeInv, TypeOK, CallInv
<1> QED BY <1>1, LenProperties, ElementOfSeq

LEMMA LoadIntoKeepsTypes ==
  ASSUME TypeInv, LoadIntoPage
  PROVE  TypeInv'
<1> DEFINE V(x) == LET a == req.addr + x - 1
                   IN IF a \in addr .. From - 1 THEN 0
                      ELSE IF a \in From .. LoadedTo - 1
                           THEN Page(pageID)[InPage + a - From]
                           ELSE buf[x]
<1>1. ASSUME NEW x \in DOMAIN buf
      PROVE  V(x) \in Values
  <2> DEFINE a == req.addr + x - 1
  <2>1. buf[x] \in Values /\ 0 \in Values
    BY LoadIntoFacts, BufferFacts, ValuesAssumption
  <2>2. Page(pageID) \in [0 .. sizes[pageID + 1] - 1 -> Values]
    BY LoadIntoFacts, PagesFacts DEF Page
  <2> HIDE DEF a
  <2>3. a \in From .. LoadedTo - 1 => Page(pageID)[InPage + a - From] \in Values
    BY <2>2, LoadIntoFacts
  <2> QED BY <2>1, <2>3 DEF a
<1>2. buf' = [x \in 1 .. Len(req.vals) |-> V(x)] /\ Len(req.vals) \in Nat
  BY LoadIntoFacts, BufferFacts
<1>3. \A x \in 1 .. Len(req.vals) : V(x) \in Values
  BY <1>1, LoadIntoFacts, BufferFacts
<1> HIDE DEF V
<1>4. buf' \in Seq(Values) /\ Len(buf') = Len(req.vals)
  BY <1>2, <1>3
<1>5. UNCHANGED <<memory, req, pc, lo, hi, ans>>
  BY DEF LoadIntoPage
<1>6. TypeOK'
  BY <1>4, <1>5, LoadIntoFacts DEF TypeInv, TypeOK, memory
<1>7. MemoryInv'
  BY <1>5 DEF TypeInv, MemoryInv, memory
<1>8. /\ pageID' <= Len(bases) /\ addr' <= End /\ req.addr <= addr'
  <2>1. Len(bases) \in Nat /\ req.addr \in Addr /\ req.addr <= addr /\ addr \in Addr
    BY LoadIntoFacts, PagesFacts, RequestFacts DEF TypeInv, CallInv
  <2> QED BY <2>1, LoadIntoFacts, WordFacts DEF Addr
<1>9. CallInv'
  BY <1>4, <1>5, <1>8, LoadIntoFacts DEF TypeInv, CallInv, memory, Kinds, CheckLimit, End
<1> QED BY <1>6, <1>7, <1>9 DEF TypeInv

LEMMA DoneKeepsTypes ==
  ASSUME TypeInv, LoadIntoDone \/ StorDone
  PROVE  TypeInv'
<1>1. CASE LoadIntoDone
  <2> DEFINE V(x) == IF req.addr + x - 1 < addr THEN buf[x] ELSE 0
  <2>1. /\ DOMAIN buf = 1 .. Len(req.vals) /\ Len(req.vals) \in Nat
        /\ \A x \in 1 .. Len(req.vals) : V(x) \in Values
    BY <1>1, BufferFacts, ValuesAssumption DEF LoadIntoDone
  <2>2. Return(Done([x \in DOMAIN buf |-> V(x)])) /\ UNCHANGED <<memory, req>>
    BY <1>1 DEF LoadIntoDone
  <2> HIDE DEF V
  <2>3. [x \in DOMAIN buf |-> V(x)] \in Seq(Values)
    BY <2>1
  <2> QED BY <2>2, <2>3, AnswerFacts, ReturnKeepsTypes
<1>2. CASE StorDone
  BY <1>2, AnswerFacts, ReturnKeepsTypes DEF StorDone
<1> QED BY <1>1, <1>2

LEMMA StorKeepsTypes ==
  ASSUME TypeInv, StorPage
  PROVE  TypeInv'
<1>1. /\ pc = "stor" /\ addr < End /\ addr' = Upto
      /\ UNCHANGED <<pageSize, req, pc, lo, hi, buf, ans>>
  BY StorFacts DEF StorPage
<1>2. Len(bases) \in Nat /\ pageID \in Nat /\ pageID <= Len(bases)
  BY StorFacts, PagesFacts
<1>3. /\ bases' \in Seq(Addr) /\ sizes' \in Seq(Addr) /\ Len(bases') \in Nat
      /\ DOMAIN bases' = 1 .. Len(bases') /\ DOMAIN sizes' = 1 .. Len(bases')
      /\ DOMAIN pages' = 1 .. Len(bases')
  BY StorFacts, LenProperties
<1>4. ASSUME NEW j \in 1 .. Len(bases')
      PROVE  pages'[j] \in [0 .. sizes'[j] - 1 -> Values]
  <2>1. CASE j < pageID + 1
    BY <1>2, <1>4, <2>1, StorFacts, PagesFacts
  <2>2. CASE j = pageID + 1
    BY <1>1, <2>2, StorFacts, TargetType
  <2>3. CASE j > pageID + 1 /\ Fresh
    BY <1>2, <1>4, <2>3, StorFacts, PagesFacts
  <2>4. CASE j > pageID + 1 /\ ~Fresh
    BY <1>2, <1>4, <2>4, StorFacts, PagesFacts
  <2> QED BY <1>2, <1>3, <1>4, <2>1, <2>2, <2>3, <2>4
<1>5. addr' \in Addr /\ addr <= addr' /\ addr' <= End
  BY <1>1, UptoFacts
<1>6. pageID' \in Nat /\ pageID' <= Len(bases')
  BY <1>2, StorFacts
<1>7. TypeOK'
  BY <1>1, <1>3, <1>4, <1>5, <1>6 DEF TypeInv, TypeOK
<1>8. MemoryInv'
  <2>1. pageSize' # 0
    BY <1>1 DEF TypeInv, CallInv, Kinds
  <2>2. pages' = [k \in DOMAIN bases' |-> pages'[k]]
    BY <1>3, StorFacts
  <2> QED BY <2>1, <2>2 DEF MemoryInv
<1>9. req.addr <= addr' /\ Len(bases') \in Nat
  <2>1. req.addr \in Addr /\ addr \in Addr /\ req.addr <= addr
    BY <1>1, RequestFacts DEF TypeInv, CallInv
  <2> QED BY <1>3, <1>5, <2>1, WordFacts DEF Addr
<1>10. CallInv'
  BY <1>1, <1>5, <1>6, <1>9, RequestFacts DEF TypeInv, CallInv, Kinds, CheckLimit, End
<1> QED BY <1>7, <1>8, <1>10 DEF TypeInv

LEMMA CallKeepsTypes ==
  ASSUME TypeInv,
         \/ \E r \in Requests : Call(r)
         \/ \E p \in Resizes[pageSize] : SetPageSize(p)
  PROVE  TypeInv'
<1>1. ASSUME NEW r \in Requests, Call(r)
      PROVE  TypeInv'
  <2>1. r \in RequestType /\ r.addr \in Addr /\ r.vals \in Seq(Values)
    BY <1>1, RequestsAssumption DEF RequestType
  <2>2. TypeOK'
    BY <1>1, <2>1 DEF TypeInv, TypeOK, Call, memory
  <2>3. MemoryInv'
    BY <1>1 DEF TypeInv, MemoryInv, Call, memory
  <2>4. CallInv'
    BY <1>1, <2>1, WordFacts DEF CallInv, Call, Addr, Kinds
  <2> QED BY <2>2, <2>3, <2>4 DEF TypeInv
<1>2. ASSUME NEW p \in Resizes[pageSize], SetPageSize(p)
      PROVE  TypeInv'
  <2>1. p \in Addr \ {0}
    BY PageSizeAssumption DEF TypeInv, TypeOK
  <2>2. TypeOK' /\ MemoryInv' /\ CallInv'
    BY <1>2, <2>1 DEF TypeInv, TypeOK, MemoryInv, CallInv, SetPageSize, locals
  <2> QED BY <2>2 DEF TypeInv
<1> QED BY <1>1, <1>2

LEMMA NextKeepsTypes ==
  ASSUME TypeInv, [Next]_vars
  PROVE  TypeInv'
<1>1. CASE Step
  BY <1>1, EnterKeepsTypes, FindKeepsTypes, LoadKeepsTypes, LoadIntoKeepsTypes,
     DoneKeepsTypes, StorKeepsTypes DEF Step
<1>2. CASE UNCHANGED vars
  BY <1>2 DEF vars, memory, locals, TypeInv, TypeOK, MemoryInv, CallInv, CheckLimit, End
<1> QED BY <1>1, <1>2, CallKeepsTypes DEF Next

LEMMA TypeInvHolds == Spec => []TypeInv
<1>1. Init => TypeInv
  BY InitTypeInv
<1>2. TypeInv /\ [Next]_vars => TypeInv'
  BY NextKeepsTypes
<1> QED BY <1>1, <1>2, PTL DEF Spec

\* The state keeps its types: in particular a page is as long as the slice of
\* sizes says, and no index into the pages or into the values of a call is
\* out of their range.
THEOREM TypesHold == Spec => []TypeOK
<1>1. TypeInv => TypeOK
  BY DEF TypeInv
<1> QED BY <1>1, TypeInvHolds, PTL
----------------------------------------------------------------------------
(* The limit.                                                              *)

\* A caller that stays below the end of the address space, and that passes no
\* values to a Load.
Proper ==
  \A r \in Requests : /\ r.addr + Len(r.vals) < Top
                      /\ r.kind = "load" => r.vals = << >>

\* what the limit is compared to
Checked == IF req.kind = "load" THEN CheckLimit(req.addr)
           ELSE req.vals = << >> \/ CheckLimit(End)
LimitInv ==
  /\ req = NoRequest \/ req \in Requests
  /\ pc = "idle" => ans.err \/ Checked

LEMMA ReturnKeepsLimit ==
  ASSUME Proper, TypeInv, LimitInv, NEW a, Return(a), UNCHANGED <<memory, req>>,
         a.err \/ Checked
  PROVE  LimitInv'
BY DEF LimitInv, Return, Checked, CheckLimit, End

LEMMA NextKeepsLimit ==
  ASSUME Proper, TypeInv, LimitInv, [Next]_vars
  PROVE  LimitInv'
<1>1. ASSUME pc \notin {"idle", "enter"}
      PROVE  Checked
  <2>1. IF req.kind = "load" THEN addr = req.addr /\ CheckLimit(addr)
        ELSE req.vals # << >> /\ CheckLimit(End)
    BY <1>1 DEF TypeInv, CallInv
  <2> QED BY <2>1 DEF Checked
<1>2. Failed.err
  BY DEF Failed
<1>3. CASE EnterLoad
  <2>1. pc = "enter" /\ req.kind = "load" /\ addr = req.addr /\ UNCHANGED <<memory, req>>
    BY <1>3 DEF EnterLoad, TypeInv, CallInv
  <2>2. CASE ~CheckLimit(addr)
    <3>1. Return(Failed)
      BY <1>3, <2>2 DEF EnterLoad
    <3> QED BY <1>2, <2>1, <3>1, ReturnKeepsLimit
  <2>3. CASE CheckLimit(addr)
    <3>1. Checked
      BY <2>1, <2>3 DEF Checked
    <3>2. Return(Done(<<0>>)) \/ pc' # "idle"
      BY <1>3, <2>3 DEF EnterLoad, BeginFind
    <3>3. CASE Return(Done(<<0>>))
      BY <2>1, <3>1, <3>3, ReturnKeepsLimit
    <3>4. CASE pc' # "idle"
      BY <2>1, <3>4 DEF LimitInv
    <3> QED BY <3>2, <3>3, <3>4
  <2> QED BY <2>2, <2>3
<1>4. CASE EnterLoadInto \/ EnterStor
  <2>1. /\ UNCHANGED req /\ req.kind # "load"
        /\ pc' # "idle" \/ req.vals = << >> \/ ans' = Failed
    BY <1>4 DEF EnterLoadInto, EnterStor, BeginFind, Return
  <2> QED BY <1>2, <2>1 DEF LimitInv, Checked
<1>5. CASE FindStep \/ FindDone \/ LoadIntoPage \/ StorPage
  BY <1>5, RequestFacts DEF FindStep, FindDone, LoadIntoPage, StorPage, LimitInv, Kinds
<1>6. CASE LoadPage \/ LoadIntoDone \/ StorDone
  <2>1. PICK a : Return(a)
    BY <1>6 DEF LoadPage, LoadIntoDone, StorDone
  <2>2. UNCHANGED <<memory, req>> /\ pc \notin {"idle", "enter"}
    BY <1>6 DEF LoadPage, LoadIntoDone, StorDone
  <2> QED BY <1>1, <2>1, <2>2, ReturnKeepsLimit
<1>7. CASE \E r \in Requests : Call(r)
  BY <1>7 DEF Call, LimitInv
<1>8. CASE \E p \in Resizes[pageSize] : SetPageSize(p)
  BY <1>8 DEF SetPageSize, LimitInv, Checked, CheckLimit, End, locals
<1>9. CASE UNCHANGED vars
  BY <1>9 DEF vars, memory, locals, LimitInv, Checked, CheckLimit, End
<1> QED BY <1>3, <1>4, <1>5, <1>6, <1>7, <1>8, <1>9 DEF Next, Step

\* A Load, LoadInto or Stor that asks for a cell past the limit is answered with
\* an error, whatever the pages are, as long as the end of the request does not
\* wrap around to 0 (int.go, core.go: checkLimit).
THEOREM LimitIsKept ==
  ASSUME Proper
  PROVE  Spec => []PastLimitFails
<1>1. Init => LimitInv
  BY DEF Init, LimitInv, NoRequest, Checked
<1>2. TypeInv /\ LimitInv /\ [Next]_vars => LimitInv'
  BY NextKeepsLimit
<1>3. ASSUME TypeInv, LimitInv
      PROVE  PastLimitFails
  <2> SUFFICES ASSUME pc = "idle", Limit # 0, NEW a \in AskedFor(req), a > Limit
               PROVE  ~Checked
    BY <1>3 DEF PastLimitFails, LimitInv
  <2>1. CASE req.kind = "load"
    <3>1. a = req.addr
      BY <2>1 DEF AskedFor
    <3>2. req.addr \in Nat /\ Limit \in Nat
      BY <1>3, RequestFacts, LimitAssumption, WordFacts DEF TypeInv, TypeOK, RequestType, Addr
    <3> QED BY <2>1, <3>1, <3>2 DEF Checked, CheckLimit
  <2>2. CASE req.kind # "load"
    <3>1. PICK i \in DOMAIN req.vals : a = req.addr + i - 1
      BY <2>2 DEF AskedFor
    <3>2. req \in Requests
      BY <1>3, <3>1 DEF LimitInv, NoRequest
    <3>3. /\ req.addr \in Addr /\ Len(req.vals) \in Nat /\ Len(req.vals) < Half
          /\ req.addr + Len(req.vals) < Top
      BY <1>3, <3>2, RequestsAssumption, RequestFacts DEF Proper
    <3>4. i \in 1 .. Len(req.vals) /\ req.vals # << >>
      BY <3>1, <3>2, RequestsAssumption DEF RequestType
    <3>5. Len(req.vals) \in Addr
      BY <3>3, WordFacts DEF Addr
    <3>6. End = req.addr + Len(req.vals)
      BY <3>3, <3>5, PlusMinusType DEF End
    <3>7. ~CheckLimit(End)
      BY <3>1, <3>3, <3>4, <3>6, LimitAssumption, WordFacts DEF CheckLimit, Addr
    <3> QED BY <2>2, <3>4, <3>7 DEF Checked
  <2> QED BY <2>1, <2>2
<1> QED BY <1>1, <1>2, <1>3, TypeInvHolds, PTL DEF Spec
----------------------------------------------------------------------------
(* The page that Stor makes.                                               *)

PageEnd(k) == bases[k] + sizes[k]

\* Stor, with something still to copy, has the pages before it behind it.
Appends ==
  pc = "stor" /\ addr < End /\ pageID = Len(bases) /\ Len(bases) > 0
    => PageEnd(Len(bases)) <= addr

LEMMA MadeFacts ==
  ASSUME TypeInv, pc = "stor", addr < End, Appends
  PROVE  /\ pageSize \in Addr \ {0} /\ pageID \in Nat /\ pageID <= Len(bases)
         /\ Len(bases) \in Nat
         /\ AlignDown(addr) \in Addr /\ AlignDown(addr) <= addr
         /\ addr < AlignDown(addr) + pageSize
         /\ Made.base \in Addr /\ Made.size \in Addr /\ Made.base <= addr
         /\ ~Fresh => /\ pageID < Len(bases)
                      /\ Made.base = bases[pageID + 1] /\ Made.size = sizes[pageID + 1]
         /\ Fresh /\ pageID < Len(bases) =>
              /\ addr < bases[pageID + 1]
              /\ Made.base = AlignDown(addr)
              /\ \/ Made.base + Made.size = AlignDown(addr) + pageSize
                 \/ Made.base + Made.size = bases[pageID + 1]
              /\ Made.base + Made.size <= bases[pageID + 1]
              /\ Made.size <= pageSize
         /\ pageID = Len(bases) =>
              /\ Made.base + Made.size = AlignDown(addr) + pageSize
              /\ Made.size <= pageSize
              /\ Len(bases) = 0 => Made.base = AlignDown(addr)
              /\ Len(bases) > 0 => /\ Made.base >= PageEnd(Len(bases))
                                   /\ \/ Made.base = AlignDown(addr)
                                      \/ Made.base = PageEnd(Len(bases))
         /\ Fresh => addr < Made.base + Made.size
<1> DEFINE n == Len(bases)
<1>1. /\ pageSize \in Addr \ {0} /\ pageID \in Nat /\ pageID <= n /\ n \in Nat /\ addr \in Addr
  BY PagesFacts DEF TypeInv, TypeOK, CallInv, Kinds
<1>2. AlignDown(addr) \in Addr /\ AlignDown(addr) <= addr /\ addr < AlignDown(addr) + pageSize
  BY <1>1, AlignDownFacts
<1>3. Made.base \in Addr /\ Made.size \in Addr
  BY MadeType
<1>4. CASE pageID = n
  <2>1. Made = AppendedPage(addr) /\ Fresh
    BY <1>4 DEF Made, AllocPage, Fresh, IsNew
  <2>2. CASE n = 0
    <3>1. Made = [base |-> AlignDown(addr), size |-> pageSize]
      BY <2>1, <2>2 DEF AppendedPage
    <3> QED BY <1>1, <1>2, <1>3, <1>4, <2>1, <2>2, <3>1, WordFacts DEF Addr
  <2>3. CASE n > 0
    <3> DEFINE end == Plus(bases[n], sizes[n])
    <3>1. /\ bases[n] \in Addr /\ sizes[n] \in Addr /\ PageEnd(n) <= addr
      BY <1>1, <1>4, <2>3, PagesFacts DEF Appends
    <3>2. end = PageEnd(n) /\ end \in Nat
      <4>1. end = (IF bases[n] + sizes[n] < Top THEN bases[n] + sizes[n]
                   ELSE bases[n] + sizes[n] - Top)
        BY <3>1, PlusMinusType
      <4> HIDE DEF end
      <4> QED BY <1>1, <3>1, <4>1, WordFacts DEF PageEnd, Addr
    <3>3. CASE AlignDown(addr) < end
      <4>1. Made = [base |-> end, size |-> Minus(pageSize, end - AlignDown(addr))]
        BY <2>1, <2>3, <3>3 DEF AppendedPage
      <4>2. end - AlignDown(addr) \in Addr /\ end - AlignDown(addr) <= pageSize
        BY <1>1, <1>2, <3>1, <3>2, <3>3, WordFacts DEF Addr
      <4>3. Made.base = end /\ Made.size = pageSize - (end - AlignDown(addr))
        BY <1>1, <4>1, <4>2, PlusMinusType
      <4> HIDE DEF end
      <4> QED BY <1>1, <1>2, <1>3, <1>4, <2>1, <2>3, <3>1, <3>2, <3>3, <4>3, WordFacts DEF Addr
    <3>4. CASE ~(AlignDown(addr) < end)
      <4>1. Made = [base |-> AlignDown(addr), size |-> pageSize]
        BY <2>1, <2>3, <3>4 DEF AppendedPage
      <4> HIDE DEF end
      <4> QED BY <1>1, <1>2, <1>3, <1>4, <2>1, <2>3, <3>1, <3>2, <3>4, <4>1, WordFacts DEF Addr
    <3> QED BY <3>3, <3>4
  <2> QED BY <1>1, <2>2, <2>3
<1>5. CASE pageID < n
  <2>1. pageID + 1 \in 1 .. n
    BY <1>1, <1>5
  <2>2. Base(pageID) = bases[pageID + 1] /\ Size(pageID) = sizes[pageID + 1]
        /\ bases[pageID + 1] \in Addr
    BY <2>1, PagesFacts DEF Base, Size
  <2>3. CASE addr < Base(pageID)
    <3>1. Made = [base |-> AlignDown(addr), size |-> Least(pageSize, Base(pageID) - AlignDown(addr))]
      BY <1>1, <1>5, <2>3 DEF Made, AllocPage, InsertedPage
    <3>2. Fresh
      BY <2>3 DEF Fresh, IsNew
    <3>3. Made.base = AlignDown(addr) /\ Made.size = Least(pageSize, bases[pageID + 1] - AlignDown(addr))
      BY <2>2, <3>1
    <3> QED BY <1>1, <1>2, <1>3, <1>5, <2>2, <2>3, <3>2, <3>3, WordFacts DEF Least, Addr
  <2>4. CASE ~(addr < Base(pageID))
    <3>1. Made = [base |-> Base(pageID), size |-> Size(pageID)] /\ ~Fresh
      BY <1>1, <1>5, <2>4 DEF Made, AllocPage, Fresh, IsNew
    <3> QED BY <1>1, <1>2, <1>3, <1>5, <2>2, <2>4, <3>1, WordFacts DEF Addr
  <2> QED BY <2>3, <2>4
<1> QED BY <1>1, <1>4, <1>5
----------------------------------------------------------------------------
(* The size of the memory, for any way in which its page size changes.     *)

PageSizes == InitPageSizes \union {DefaultPageSize} \union UNION {Resizes[p] : p \in Addr}

\* A limit with room for a page above it.
Limited ==
  /\ Limit # 0
  /\ \A p \in PageSizes : Limit + p < Top

\* Pages that a growing page size let overlap may be out of order, but none
\* ends past the last one.
SizeInv ==
  /\ pageSize \in PageSizes
  /\ \A k \in 1 .. Len(bases) : PageEnd(k) < Top /\ PageEnd(k) <= PageEnd(Len(bases))
  /\ pc = "stor" /\ pageID = Len(bases) /\ Len(bases) > 0
       => PageEnd(Len(bases)) <= addr \/ addr = End

LEMMA PageEndType ==
  ASSUME TypeInv, NEW k \in 1 .. Len(bases)
  PROVE  PageEnd(k) \in Nat /\ bases[k] \in Nat /\ sizes[k] \in Nat
BY PagesFacts, WordFacts DEF PageEnd, Addr

\* The page that Stor writes to ends behind it, or Stor is done.
LEMMA UptoIsPast ==
  ASSUME TypeInv, pc = "stor", addr < End, Appends
  PROVE  Made.base + Made.size <= Upto \/ Upto = End
BY UptoFacts, MadeFacts, RequestFacts, WordFacts DEF Addr

LEMMA StorKeepsSize ==
  ASSUME Limited, TypeInv, SizeInv, StorPage
  PROVE  SizeInv'
<1>1. PICK n \in Nat : n = Len(bases)
  BY PagesFacts
<1>2. /\ pc = "stor" /\ addr < End /\ addr \in Nat /\ addr < Limit
      /\ pageID \in Nat /\ pageID <= n /\ Appends
  <2>1. pc = "stor" /\ addr < End /\ pageID \in Nat /\ pageID <= n
    BY <1>1, StorFacts
  <2>2. addr \in Nat /\ End \in Nat /\ End <= Limit
    <3>1. addr \in Addr /\ End \in Addr
      BY <2>1, RequestFacts
    <3>2. CheckLimit(End)
      BY <2>1 DEF TypeInv, CallInv, Kinds
    <3> QED BY <3>1, <3>2, WordFacts DEF CheckLimit, Limited, Addr
  <2>3. PageEnd(Len(bases)) <= addr \/ addr = End \/ Len(bases) = 0 \/ pageID # Len(bases)
    BY <1>1, <2>1 DEF SizeInv
  <2> QED BY <2>1, <2>2, <2>3, WordFacts DEF Appends
<1>3. /\ Made.base \in Nat /\ Made.size \in Nat /\ Made.base <= addr
      /\ AlignDown(addr) \in Nat /\ AlignDown(addr) <= addr /\ pageSize \in Nat
      /\ AlignDown(addr) + pageSize < Top
  <2>1. Limit + pageSize < Top /\ pageSize \in Nat
    BY MadeFacts, <1>2, WordFacts DEF Limited, SizeInv, Addr
  <2> QED BY <1>2, <2>1, MadeFacts, WordFacts DEF Addr
<1>4. PICK e \in Nat : e = Made.base + Made.size
  BY <1>3
<1>5. /\ \A k \in 1 .. n : PageEnd(k) < Top /\ PageEnd(k) \in Nat
      /\ \A k, l \in 1 .. n : l = n => PageEnd(k) <= PageEnd(l)
  BY <1>1, PageEndType DEF SizeInv
<1>6. pageID < n => pageID + 1 \in 1 .. n
  BY <1>1, <1>2
<1>7. e <= addr' \/ addr' = End'
  BY <1>2, <1>4, UptoIsPast, StorFacts DEF StorPage, End
<1>8. pageSize' \in PageSizes /\ pageID' = pageID + 1
  BY StorFacts DEF SizeInv, StorPage
<1>9. PICK n1 \in Nat : n1 = Len(bases')
  BY <1>1, StorFacts
<1>10. SUFFICES /\ \A k \in 1 .. n1 : PageEnd(k)' < Top
                /\ \A k, l \in 1 .. n1 : l = n1 => PageEnd(k)' <= PageEnd(l)'
                /\ pageID + 1 = n1 => \A l \in 1 .. n1 : l = n1 => PageEnd(l)' = e
  <2>1. n1 > 0 => n1 \in 1 .. n1
    BY <1>9
  <2>2. \A l : l = n1 => PageEnd(l)' = PageEnd(Len(bases))'
    BY <1>9 DEF PageEnd
  <2> QED BY <1>7, <1>8, <1>9, <1>10, <2>1, <2>2 DEF SizeInv
<1>11. CASE pageID = n
  <2>1. /\ Fresh /\ n1 = n + 1 /\ e = AlignDown(addr) + pageSize /\ addr < e
    BY <1>1, <1>2, <1>4, <1>9, <1>11, MadeFacts, StorFacts DEF Fresh, IsNew
  <2>2. \A l : l = n + 1 => PageEnd(l)' = e
    BY <1>1, <1>4, <1>11, StorFacts DEF PageEnd
  <2>3. \A k \in 1 .. n : PageEnd(k)' = PageEnd(k)
    BY <1>1, <1>9, <1>11, <2>1, StorFacts DEF PageEnd
  <2>4. e < Top
    BY <1>3, <2>1
  <2>5. ASSUME NEW k \in 1 .. n
        PROVE  PageEnd(k) <= e
    <3>1. n \in 1 .. n /\ Len(bases) > 0
      BY <1>1
    <3>2. PageEnd(n) <= Made.base /\ PageEnd(n) \in Nat /\ PageEnd(k) <= PageEnd(n)
      BY <1>1, <1>2, <1>5, <1>11, <3>1, MadeFacts, PageEndType
    <3> QED BY <1>3, <1>4, <1>5, <3>2
  <2> QED BY <2>1, <2>2, <2>3, <2>4, <2>5, <1>5
<1>12. CASE pageID < n /\ Fresh
  <2>1. /\ n1 = n + 1 /\ addr < bases[pageID + 1] /\ e <= bases[pageID + 1]
    BY <1>1, <1>2, <1>4, <1>9, <1>12, MadeFacts, StorFacts
  <2>2. e <= PageEnd(pageID + 1)
    <3>1. bases[pageID + 1] \in Nat /\ sizes[pageID + 1] \in Nat
      BY <1>1, <1>6, <1>12, PageEndType
    <3> QED BY <2>1, <3>1 DEF PageEnd
  <2>3. \A k \in 1 .. n + 1 :
          PageEnd(k)' = IF k < pageID + 1 THEN PageEnd(k)
                        ELSE IF k = pageID + 1 THEN e ELSE PageEnd(k - 1)
    BY <1>1, <1>2, <1>4, <1>9, <1>12, <2>1, StorFacts DEF PageEnd
  <2>4. n \in 1 .. n /\ \A l : l = n + 1 => PageEnd(l)' = PageEnd(n)
    BY <1>2, <1>12, <2>3
  <2>5. e <= PageEnd(n) /\ e < Top
    BY <1>5, <1>6, <1>12, <2>2, <2>4, WordFacts
  <2>6. \A k \in 1 .. n + 1 : PageEnd(k)' < Top /\ PageEnd(k)' <= PageEnd(n)
    BY <1>2, <1>5, <1>12, <2>3, <2>4, <2>5
  <2> QED BY <1>2, <1>12, <2>1, <2>4, <2>6
<1>13. CASE pageID < n /\ ~Fresh
  <2>1. bases' = bases /\ sizes' = sizes /\ n1 = n
    BY <1>1, <1>9, <1>13 DEF StorPage, Fresh
  <2>2. \A k : PageEnd(k)' = PageEnd(k)
    BY <2>1 DEF PageEnd
  <2>3. PageEnd(pageID + 1) = e
    BY <1>1, <1>2, <1>4, <1>13, MadeFacts DEF PageEnd
  <2> QED BY <1>5, <2>1, <2>2, <2>3
<1> QED BY <1>2, <1>11, <1>12, <1>13

\* Every other step leaves the pages alone, and Stor begins at a page that
\* exists when there is one.
LEMMA NextKeepsSize ==
  ASSUME Limited, TypeInv, SizeInv, [Next]_vars
  PROVE  SizeInv'
<1>1. CASE StorPage
  BY <1>1, StorKeepsSize
<1>2. /\ pageSize \in PageSizes /\ DefaultPageSize \in PageSizes
      /\ \A p \in Resizes[pageSize] : p \in PageSizes
  BY DEF SizeInv, PageSizes, TypeInv, TypeOK
<1>3. ASSUME UNCHANGED <<bases, sizes>>, pageSize' \in PageSizes,
             \/ pc' # "stor"
             \/ UNCHANGED <<pc, pageID, addr, req>>
             \/ pageID' # Len(bases) \/ Len(bases) = 0
      PROVE  SizeInv'
  BY <1>3 DEF SizeInv, PageEnd, End
<1>4. CASE EnterLoad \/ EnterLoadInto \/ EnterStor
  <2>1. /\ pc' # "stor" /\ UNCHANGED <<bases, sizes>>
        /\ pageSize' = pageSize \/ pageSize' = DefaultPageSize
    BY <1>4 DEF EnterLoad, EnterLoadInto, EnterStor, BeginFind, Return, memory
  <2> QED BY <1>2, <1>3, <2>1
<1>5. CASE FindStep
  <2>1. pc' = "find" /\ UNCHANGED <<bases, sizes, pageSize>>
    BY <1>5 DEF FindStep, memory
  <2> QED BY <1>2, <1>3, <2>1
<1>6. CASE FindDone
  <2>1. UNCHANGED <<bases, sizes, pageSize>> /\ pageID' = lo
    BY <1>6 DEF FindDone, memory
  <2>2. Len(bases) > 0 => lo < Len(bases)
    BY <1>6, PagesFacts DEF FindDone, TypeInv, CallInv
  <2>3. Len(bases) \in Nat /\ lo \in Nat
    BY PagesFacts DEF TypeInv, TypeOK
  <2>4. pageID' # Len(bases) \/ Len(bases) = 0
    BY <2>1, <2>2, <2>3
  <2> QED BY <1>2, <1>3, <2>1, <2>4
<1>7. CASE LoadPage \/ LoadIntoPage \/ LoadIntoDone \/ StorDone
  <2>1. UNCHANGED <<bases, sizes, pageSize>> /\ pc' # "stor"
    BY <1>7 DEF LoadPage, LoadIntoPage, LoadIntoDone, StorDone, Return, memory
  <2> QED BY <1>2, <1>3, <2>1
<1>8. CASE \E r \in Requests : Call(r)
  <2>1. UNCHANGED <<bases, sizes, pageSize>> /\ pc' # "stor"
    BY <1>8 DEF Call, memory
  <2> QED BY <1>2, <1>3, <2>1
<1>9. CASE \E p \in Resizes[pageSize] : SetPageSize(p)
  <2>1. UNCHANGED <<bases, sizes>> /\ pc' # "stor" /\ pageSize' \in PageSizes
    BY <1>2, <1>9 DEF SetPageSize
  <2> QED BY <1>3, <2>1
<1>10. CASE UNCHANGED vars
  BY <1>2, <1>3, <1>10 DEF vars, memory, locals
<1> QED BY <1>1, <1>4, <1>5, <1>6, <1>7, <1>8, <1>9, <1>10 DEF Next, Step

\* With a limit, Size is past every cell that holds something, however the
\* page size changes between the calls.
THEOREM SizeIsPast ==
  ASSUME Limited
  PROVE  Spec => []SizeIsPastEverything
<1>1. Init => SizeInv
  <2> SUFFICES ASSUME Init PROVE SizeInv
    OBVIOUS
  <2>1. Len(bases) = 0 /\ pageSize \in PageSizes /\ pc # "stor"
    BY DEF Init, PageSizes
  <2> QED BY <2>1 DEF SizeInv
<1>2. TypeInv /\ SizeInv /\ [Next]_vars => SizeInv'
  BY NextKeepsSize
<1>3. ASSUME TypeInv, SizeInv
      PROVE  SizeIsPastEverything
  <2> SUFFICES ASSUME NEW a \in Addr, View(a) # 0
               PROVE  a < MemSize
    BY DEF SizeIsPastEverything
  <2>1. PICK k \in 1 .. Len(bases) : a - bases[k] \in 0 .. sizes[k] - 1
    BY <1>3, PagesFacts DEF View, Covering
  <2>2. Len(bases) \in 1 .. Len(bases) /\ Len(bases) \in Nat
    BY <1>3, <2>1, PagesFacts
  <2>3. a < PageEnd(k) /\ PageEnd(k) \in Nat
    <3>1. bases[k] \in Nat /\ sizes[k] \in Nat /\ PageEnd(k) = bases[k] + sizes[k] /\ a \in Nat
      BY <1>3, PageEndType, WordFacts DEF PageEnd, Addr
    <3> QED BY <2>1, <3>1
  <2>4. MemSize = PageEnd(Len(bases))
    <3> DEFINE n == Len(bases)
    <3>1. bases[n] \in Addr /\ sizes[n] \in Addr /\ PageEnd(n) < Top /\ bases # << >>
      BY <1>3, <2>2, PagesFacts DEF SizeInv
    <3>2. Cardinality(DOMAIN pages[n]) = sizes[n]
      BY <1>3, <2>2, PageLength
    <3>3. n - 1 + 1 = n
      BY <2>2
    <3>4. MemSize = Plus(bases[n], sizes[n])
      BY <3>1, <3>2, <3>3 DEF MemSize, Base, Page
    <3> HIDE DEF n
    <3> QED BY <3>1, <3>4, PlusMinusType DEF PageEnd, n
  <2>5. PageEnd(k) <= PageEnd(Len(bases)) /\ PageEnd(Len(bases)) \in Nat
    BY <1>3, <2>2, PageEndType DEF SizeInv
  <2> QED BY <2>3, <2>4, <2>5, WordFacts DEF Addr
<1> QED BY <1>1, <1>2, <1>3, TypeInvHolds, PTL DEF Spec
----------------------------------------------------------------------------
(* Pages never overlap, if the page size is only replaced by a divisor.    *)

\* The page size is only ever set to a divisor of what it was.
DividingResizes ==
  \A p \in Addr \ {0} : \A q \in Resizes[p] : \E m \in Nat : p = m * q

MultipleOf(a, p) == \E m \in Nat : a = m * p

\* Every page starts and ends at a multiple of the page size, so that the
\* aligned address below one past the end of a page is past it as well.
AlignedPages ==
  \A k \in 1 .. Len(bases) :
    sizes[k] > 0 /\ MultipleOf(bases[k], pageSize) /\ MultipleOf(PageEnd(k), pageSize)

OrderedPages == \A k, j \in 1 .. Len(bases) : j < k => PageEnd(j) <= bases[k]

\* The pages that the search has ruled out lie on the right side of the
\* address, and the pages that the walk has passed lie behind it.
SearchInv ==
  /\ pc = "find" /\ lo > 0 => bases[lo + 1] <= addr
  /\ pc = "find" => \A j \in 1 .. Len(bases) : hi + 2 <= j => addr < bases[j]
  /\ pc = "load" => \A j \in 1 .. Len(bases) : pageID + 2 <= j => addr < bases[j]
  /\ pc \in Kinds /\ (pc = "load" \/ addr < End)
       => \A j \in 1 .. Len(bases) : j <= pageID => PageEnd(j) <= addr

DisjointInv ==
  /\ AlignedPages
  /\ OrderedPages
  /\ SearchInv
----------------------------------------------------------------------------
(* Multiples of the page size.                                             *)

LEMMA MultipleOrder ==
  ASSUME NEW m \in Int, NEW n \in Int, NEW p \in Nat \ {0}, m * p < n * p + p
  PROVE  m * p <= n * p
<1>1. CASE m >= n + 1
  <2>1. PICK d \in Nat : m = n + 1 + d
    BY <1>1, Z3
  <2>2. m * p = n * p + p + d * p
    BY <2>1
  <2>3. d * p \in Nat
    OBVIOUS
  <2> QED BY <2>2, <2>3
<1>2. CASE m <= n
  <2>1. PICK d \in Nat : n = m + d
    BY <1>2, Z3
  <2>2. n * p = m * p + d * p
    BY <2>1
  <2>3. d * p \in Nat
    OBVIOUS
  <2> QED BY <2>2, <2>3
<1> QED BY <1>1, <1>2

LEMMA MultipleOfMultiple ==
  ASSUME NEW a \in Nat, NEW p \in Nat, NEW q \in Nat,
         MultipleOf(a, p), MultipleOf(p, q)
  PROVE  MultipleOf(a, q)
<1>1. PICK m \in Nat : a = m * p
  BY DEF MultipleOf
<1>2. PICK n \in Nat : p = n * q
  BY DEF MultipleOf
<1>3. a = (m * n) * q /\ m * n \in Nat
  BY <1>1, <1>2
<1> QED BY <1>3 DEF MultipleOf

\* What ends at a multiple of the page size, at or before an address, ends at
\* or before that address rounded down.
LEMMA AlignDownIsPast ==
  ASSUME pageSize \in Addr \ {0}, NEW a \in Addr, NEW e \in Nat,
         MultipleOf(e, pageSize), e <= a
  PROVE  e <= AlignDown(a)
<1>1. a \in Nat /\ pageSize \in Nat \ {0}
  BY WordFacts DEF Addr
<1>2. PICK m \in Nat : e = m * pageSize
  BY DEF MultipleOf
<1>3. a \div pageSize \in Nat /\ a < (a \div pageSize) * pageSize + pageSize
  BY <1>1, DivFacts
<1> DEFINE n == a \div pageSize
<1>4. n * pageSize \in Nat /\ n \in Nat
  BY <1>1, <1>3
<1> HIDE DEF n
<1>5. m * pageSize < n * pageSize + pageSize
  BY <1>1, <1>2, <1>3, <1>4 DEF n
<1>6. m * pageSize <= n * pageSize
  BY <1>1, <1>4, <1>5, MultipleOrder
<1> QED BY <1>2, <1>6 DEF AlignDown, n

LEMMA AlignDownIsMultiple ==
  ASSUME pageSize \in Addr \ {0}, NEW a \in Addr
  PROVE  /\ MultipleOf(AlignDown(a), pageSize)
         /\ MultipleOf(AlignDown(a) + pageSize, pageSize)
<1>1. a \in Nat /\ pageSize \in Nat \ {0}
  BY WordFacts DEF Addr
<1> DEFINE n == a \div pageSize
<1>2. n \in Nat
  BY <1>1, DivFacts
<1>3. AlignDown(a) = n * pageSize
  BY DEF AlignDown
<1> HIDE DEF n
<1>4. AlignDown(a) + pageSize = (n + 1) * pageSize /\ n + 1 \in Nat
  BY <1>1, <1>2, <1>3
<1> QED BY <1>2, <1>3, <1>4 DEF MultipleOf
----------------------------------------------------------------------------
(* A step of Stor.                                                         *)

LEMMA StorKeepsDisjoint ==
  ASSUME TypeInv, DisjointInv, StorPage
  PROVE  DisjointInv'
<1>1. PICK n \in Nat : n = Len(bases)
  BY PagesFacts
<1>2. PICK c \in Nat : c = pageID + 1
  BY StorFacts
<1>3. /\ pc = "stor" /\ addr < End /\ addr \in Addr /\ addr \in Nat /\ pageID \in Nat
      /\ c <= n + 1 /\ c > 0 /\ (~Fresh => c <= n)
  <2>1. addr \in Addr /\ addr \in Nat
    BY RequestFacts, WordFacts DEF Addr
  <2>2. /\ pc = "stor" /\ addr < End /\ pageID \in Nat /\ pageID <= n
        /\ ~Fresh => pageID < n
    BY <1>1, StorFacts
  <2> QED BY <1>1, <1>2, <2>1, <2>2
<1>4. \A j \in 1 .. n : /\ bases[j] \in Nat /\ sizes[j] \in Nat /\ PageEnd(j) \in Nat
                        /\ PageEnd(j) = bases[j] + sizes[j] /\ sizes[j] > 0
                        /\ MultipleOf(bases[j], pageSize) /\ MultipleOf(PageEnd(j), pageSize)
                        /\ j < c => PageEnd(j) <= addr
  <2>1. \A j \in 1 .. n : j < c => PageEnd(j) <= addr
    BY <1>1, <1>2, <1>3 DEF DisjointInv, SearchInv, Kinds
  <2>2. \A j \in 1 .. n : /\ bases[j] \in Nat /\ sizes[j] \in Nat /\ PageEnd(j) \in Nat
                          /\ PageEnd(j) = bases[j] + sizes[j]
    BY <1>1, PageEndType DEF PageEnd
  <2>3. \A j \in 1 .. n : sizes[j] > 0 /\ MultipleOf(bases[j], pageSize)
                          /\ MultipleOf(PageEnd(j), pageSize)
    BY <1>1 DEF DisjointInv, AlignedPages
  <2> QED BY <2>1, <2>2, <2>3
<1>5. \A j, k \in 1 .. n : j < k => PageEnd(j) <= bases[k]
  BY <1>1 DEF DisjointInv, OrderedPages
<1>6. Appends
  BY <1>1, <1>2, <1>3, <1>4 DEF Appends
<1>7. PICK b \in Nat : b = Made.base
  BY <1>3, <1>6, MadeFacts, WordFacts DEF Addr
<1>8. PICK e \in Nat : e = Made.base + Made.size
  BY <1>3, <1>6, MadeFacts, WordFacts DEF Addr
<1>9. pageSize \in Addr \ {0}
  BY <1>3, <1>6, MadeFacts
<1>10. /\ b <= addr
       /\ Fresh => addr < e /\ MultipleOf(b, pageSize) /\ MultipleOf(e, pageSize)
  <2>1. b <= addr /\ (Fresh => addr < e)
    BY <1>3, <1>6, <1>7, <1>8, MadeFacts
  <2>2. MultipleOf(AlignDown(addr), pageSize) /\ MultipleOf(AlignDown(addr) + pageSize, pageSize)
    BY <1>3, <1>9, AlignDownIsMultiple
  <2>3. CASE c <= n /\ Fresh
    <3>1. c \in 1 .. n /\ bases[c] = bases[pageID + 1] /\ pageID < Len(bases)
      BY <1>1, <1>2, <1>3, <2>3
    <3>2. b = AlignDown(addr) /\ (e = AlignDown(addr) + pageSize \/ e = bases[c])
      BY <1>3, <1>6, <1>7, <1>8, <2>3, <3>1, MadeFacts
    <3> QED BY <1>4, <2>1, <2>2, <3>1, <3>2
  <2>4. CASE c = n + 1
    <3>1. pageID = Len(bases)
      BY <1>1, <1>2, <1>3, <2>4
    <3>2. /\ e = AlignDown(addr) + pageSize
          /\ b = AlignDown(addr) \/ (n > 0 /\ b = PageEnd(n))
      BY <1>1, <1>3, <1>6, <1>7, <1>8, <3>1, MadeFacts
    <3>3. n > 0 => n \in 1 .. n
      BY <1>1
    <3> QED BY <1>4, <2>1, <2>2, <3>2, <3>3
  <2> QED BY <1>3, <2>1, <2>3, <2>4
<1>11. Fresh => /\ \A j \in 1 .. n : j < c => PageEnd(j) <= b
                /\ \A j \in 1 .. n : c <= j => e <= bases[j]
  <2> SUFFICES ASSUME Fresh
               PROVE  /\ \A j \in 1 .. n : j < c => PageEnd(j) <= b
                      /\ \A j \in 1 .. n : c <= j => e <= bases[j]
    OBVIOUS
  <2>1. \A j \in 1 .. n : j < c => PageEnd(j) <= AlignDown(addr)
    BY <1>3, <1>4, <1>9, AlignDownIsPast
  <2>2. CASE c <= n
    <3>1. c \in 1 .. n /\ bases[c] = bases[pageID + 1] /\ pageID < Len(bases)
      BY <1>1, <1>2, <1>3, <2>2
    <3>2. b = AlignDown(addr) /\ e <= bases[c]
      BY <1>3, <1>6, <1>7, <1>8, <3>1, MadeFacts
    <3>3. \A j \in 1 .. n : c < j => bases[c] <= bases[j]
      <4>1. \A j \in 1 .. n : c < j => PageEnd(c) <= bases[j]
        BY <1>5, <3>1
      <4>2. PageEnd(c) \in Nat /\ bases[c] \in Nat /\ bases[c] <= PageEnd(c)
        BY <1>4, <3>1
      <4> QED BY <1>4, <4>1, <4>2
    <3> QED BY <1>3, <1>4, <2>1, <3>1, <3>2, <3>3
  <2>3. CASE c = n + 1
    <3>1. pageID = Len(bases)
      BY <1>1, <1>2, <1>3, <2>3
    <3>2. n > 0 => n \in 1 .. n /\ PageEnd(n) <= b
      BY <1>1, <1>3, <1>6, <1>7, <3>1, MadeFacts
    <3>3. \A j \in 1 .. n : j < n => PageEnd(j) <= bases[n]
      BY <1>5
    <3>4. \A j \in 1 .. n : PageEnd(j) <= b
      <4>1. \A j \in 1 .. n : j = n \/ j < n
        OBVIOUS
      <4>2. n > 0 => bases[n] <= PageEnd(n) /\ bases[n] \in Nat /\ PageEnd(n) \in Nat
        BY <1>4, <3>2
      <4> QED BY <1>4, <3>2, <3>3, <4>1, <4>2
    <3> QED BY <2>3, <3>4
  <2> QED BY <1>3, <2>2, <2>3
<1>12. PICK n1 \in Nat : n1 = Len(bases')
  BY <1>1, StorFacts
<1>13. pageSize' = pageSize /\ pageID' = c /\ pc' = "stor" /\ End' = End /\ addr' = Upto
  BY <1>2, StorFacts DEF StorPage, End
<1>14. \A j \in 1 .. n1 :
         /\ j < c => j \in 1 .. n /\ bases'[j] = bases[j] /\ PageEnd(j)' = PageEnd(j)
                     /\ sizes'[j] = sizes[j]
         /\ j = c => bases'[j] = b /\ PageEnd(j)' = e
         /\ j > c /\ Fresh => /\ j - 1 \in 1 .. n /\ bases'[j] = bases[j - 1]
                              /\ PageEnd(j)' = PageEnd(j - 1) /\ sizes'[j] = sizes[j - 1]
         /\ ~Fresh => j \in 1 .. n /\ bases'[j] = bases[j] /\ PageEnd(j)' = PageEnd(j)
                      /\ sizes'[j] = sizes[j]
  <2>1. n1 = (IF Fresh THEN n + 1 ELSE n)
    BY <1>1, <1>12, StorFacts
  <2>2. bases'[c] = b /\ PageEnd(c)' = e
    BY <1>2, <1>7, <1>8, StorFacts DEF PageEnd
  <2>3. ASSUME NEW j \in 1 .. n1, j < c
        PROVE  j \in 1 .. n /\ bases'[j] = bases[j] /\ PageEnd(j)' = PageEnd(j)
               /\ sizes'[j] = sizes[j]
    BY <1>2, <1>3, <1>12, <2>3, StorFacts DEF PageEnd
  <2>4. ASSUME NEW j \in 1 .. n1, j > c, Fresh
        PROVE  /\ j - 1 \in 1 .. n /\ bases'[j] = bases[j - 1]
               /\ PageEnd(j)' = PageEnd(j - 1) /\ sizes'[j] = sizes[j - 1]
    BY <1>2, <1>3, <1>12, <2>1, <2>4, StorFacts DEF PageEnd
  <2>5. ~Fresh => bases' = bases /\ sizes' = sizes /\ n1 = n
    BY <2>1 DEF StorPage, Fresh
  <2> QED BY <2>2, <2>3, <2>4, <2>5 DEF PageEnd
<1>15. AlignedPages'
  <2> SUFFICES ASSUME NEW k \in 1 .. n1
               PROVE  sizes'[k] > 0 /\ MultipleOf(bases'[k], pageSize)
                      /\ MultipleOf(PageEnd(k)', pageSize)
    BY <1>12, <1>13 DEF AlignedPages
  <2>1. CASE k = c /\ Fresh
    <3>1. sizes'[k] = Made.size /\ Made.size \in Int
      BY <1>2, <1>3, <2>1, StorFacts, MadeType, WordFacts DEF Addr
    <3> QED BY <1>3, <1>7, <1>8, <1>10, <1>14, <2>1, <3>1
  <2>2. CASE k < c \/ ~Fresh
    BY <1>4, <1>14, <2>2
  <2>3. CASE k > c /\ Fresh
    BY <1>4, <1>14, <2>3
  <2> QED BY <1>2, <2>1, <2>2, <2>3
<1>16. OrderedPages'
  <2> SUFFICES ASSUME NEW j \in 1 .. n1, NEW k \in 1 .. n1, j < k
               PROVE  PageEnd(j)' <= bases'[k]
    BY <1>12 DEF OrderedPages
  <2>1. CASE ~Fresh
    BY <1>5, <1>14, <2>1
  <2>2. CASE Fresh /\ k < c
    BY <1>5, <1>14, <2>2
  <2>3. CASE Fresh /\ k = c
    BY <1>11, <1>14, <2>3
  <2>4. CASE Fresh /\ j < c /\ c < k
    <3>1. j \in 1 .. n /\ k - 1 \in 1 .. n /\ j < k - 1
      BY <1>2, <1>14, <2>4
    <3>2. PageEnd(j) <= bases[k - 1]
      BY <1>5, <3>1
    <3> QED BY <1>14, <2>4, <3>2
  <2>5. CASE Fresh /\ j = c
    <3>1. k - 1 \in 1 .. n /\ c <= k - 1
      BY <1>2, <1>14, <2>5
    <3>2. e <= bases[k - 1]
      BY <1>11, <2>5, <3>1
    <3> QED BY <1>14, <2>5, <3>2
  <2>6. CASE Fresh /\ c < j
    <3>0. c < k
      BY <1>2, <2>6
    <3>1. j - 1 \in 1 .. n /\ k - 1 \in 1 .. n /\ j - 1 < k - 1
      BY <1>14, <2>6, <3>0
    <3>2. PageEnd(j - 1) <= bases[k - 1]
      BY <1>5, <3>1
    <3> QED BY <1>2, <1>14, <2>6, <3>2
  <2> QED BY <1>2, <2>1, <2>2, <2>3, <2>4, <2>5, <2>6
<1>17. SearchInv'
  <2> SUFFICES ASSUME addr' < End', NEW j \in 1 .. n1, j <= c
               PROVE  PageEnd(j)' <= addr'
    BY <1>12, <1>13 DEF SearchInv
  <2>1. e <= addr' /\ addr <= addr' /\ addr' \in Nat
    BY <1>3, <1>6, <1>8, <1>13, UptoFacts, UptoIsPast, WordFacts, RequestFacts DEF Addr
  <2>2. CASE j = c
    BY <1>14, <2>1, <2>2
  <2>3. CASE j < c
    BY <1>3, <1>4, <1>14, <2>1, <2>3
  <2> QED BY <1>2, <2>2, <2>3
<1> QED BY <1>15, <1>16, <1>17 DEF DisjointInv
----------------------------------------------------------------------------
(* The other steps.                                                        *)

\* A step of LoadInto walks past the page it is at, or to its end.
LEMMA LoadedPast ==
  ASSUME TypeInv, LoadIntoPage
  PROVE  PageEnd(pageID + 1) <= LoadedTo \/ LoadedTo = End
<1> DEFINE b == bases[pageID + 1]
           s == sizes[pageID + 1]
<1>1. Base(pageID) = b /\ b \in Addr /\ s \in Addr /\ b <= End /\ PageEnd(pageID + 1) = b + s
  BY LoadIntoFacts, PagesFacts DEF Base, PageEnd
<1>2. /\ addr \in Addr /\ End \in Addr /\ From \in Addr /\ Gap \in Nat /\ InPage \in Nat
      /\ From = addr + Gap /\ From < End /\ End - addr < Half
      /\ Rest - Gap = End - From
  <2>1. addr \in Addr /\ End \in Addr /\ req.addr \in Addr /\ Len(req.vals) \in Nat
        /\ Len(req.vals) < Half /\ req.addr <= addr
    BY LoadIntoFacts, RequestFacts DEF TypeInv, CallInv
  <2>2. /\ From \in Addr /\ Gap \in Nat /\ InPage \in Nat /\ From < End
        /\ From = addr + Gap /\ Rest - Gap = End - From
        /\ End = req.addr + Len(req.vals)
    BY LoadIntoFacts DEF From
  <2> QED BY <2>1, <2>2, WordFacts DEF Addr
<1> HIDE DEF b, s
<1>3. CASE addr < b
  <2>1. Gap = b - addr
    BY <1>1, <1>2, <1>3, WordFacts DEF Gap, Skip, Signed, Minus, Addr
  <2>2. From = b /\ InPage = 0
    BY <1>1, <1>2, <2>1, WordFacts DEF InPage, Skip, Signed, Minus, Addr
  <2>3. LoadedTo = b + Least(s, End - From)
    BY <1>1, <1>2, <2>2, WordFacts DEF LoadedTo, s, Addr
  <2> QED BY <1>1, <1>2, <2>2, <2>3, WordFacts DEF Least, Addr
<1>4. CASE b <= addr
  <2>1. Gap = 0
    BY <1>1, <1>2, <1>4, WordFacts DEF Gap, Skip, Signed, Minus, Addr
  <2>2. From = addr /\ (InPage = 0 \/ InPage = addr - b)
    BY <1>1, <1>2, <1>4, <2>1, WordFacts DEF InPage, Skip, Signed, Minus, Addr
  <2>3. CASE InPage > 0 /\ InPage >= s
    BY <1>1, <1>2, <1>4, <2>2, <2>3, WordFacts DEF LoadedTo, s, Addr
  <2>4. CASE ~(InPage > 0 /\ InPage >= s)
    <3>1. LoadedTo = addr + Least(s - InPage, End - From)
      BY <1>2, <2>2, <2>4 DEF LoadedTo, s
    <3> QED BY <1>1, <1>2, <1>4, <2>2, <2>4, <3>1, WordFacts DEF Least, Addr
  <2> QED BY <2>3, <2>4
<1> QED BY <1>1, <1>2, <1>3, <1>4, WordFacts DEF Addr

LEMMA LoadIntoKeepsDisjoint ==
  ASSUME TypeInv, DisjointInv, LoadIntoPage
  PROVE  DisjointInv'
<1>1. UNCHANGED <<pageSize, bases, sizes, pages, req, pc>> /\ pc = "loadInto"
  BY DEF LoadIntoPage, memory
<1>2. /\ addr' = LoadedTo /\ pageID' = pageID + 1 /\ pageID \in Nat /\ End' = End
      /\ pageID + 1 \in 1 .. Len(bases) /\ addr < End
  BY <1>1, LoadIntoFacts DEF End, LoadIntoPage, LoadIntoMore
<1>3. addr \in Nat /\ addr' \in Nat /\ addr <= addr'
  BY <1>2, LoadIntoFacts, RequestFacts, WordFacts DEF Addr
<1>4. AlignedPages' /\ OrderedPages'
  BY <1>1 DEF DisjointInv, AlignedPages, OrderedPages, PageEnd
<1>5. SearchInv'
  <2> SUFFICES ASSUME addr' < End', NEW j \in 1 .. Len(bases), j <= pageID + 1
               PROVE  PageEnd(j) <= addr'
    BY <1>1, <1>2 DEF SearchInv, PageEnd
  <2>1. CASE j = pageID + 1
    <3>1. PageEnd(j) <= LoadedTo \/ LoadedTo = End
      BY <2>1, LoadedPast
    <3>2. End \in Addr
      BY <1>1, RequestFacts
    <3> QED BY <1>2, <1>3, <3>1, <3>2, WordFacts DEF Addr
  <2>2. CASE j <= pageID
    <3>1. PageEnd(j) <= addr /\ PageEnd(j) \in Nat
      BY <1>1, <1>2, <2>2, PageEndType DEF DisjointInv, SearchInv, Kinds
    <3> QED BY <1>3, <3>1
  <2> QED BY <1>2, <2>1, <2>2
<1> QED BY <1>4, <1>5 DEF DisjointInv

LEMMA FindKeepsSearch ==
  ASSUME TypeInv, OrderedPages, AlignedPages, SearchInv, FindStep
  PROVE  SearchInv'
<1>1. PICK n \in Nat : n = Len(bases)
  BY PagesFacts
<1>2. PICK m \in Nat : m = Middle
  BY FindFacts
<1>3. UNCHANGED <<bases, sizes, req, pc, addr>> /\ pc = "find"
  BY FindFacts DEF memory
<1>4. /\ lo \in Nat /\ hi \in Nat /\ lo < m /\ m <= hi /\ hi <= n
      /\ \/ m < n /\ bases[m + 1] <= addr /\ lo' = m /\ hi' = hi
         \/ ~(m < n /\ bases[m + 1] <= addr) /\ hi' = m - 1 /\ lo' = lo
  BY <1>1, <1>2, FindFacts DEF StartsBelow, Base
<1>5. \A j \in 1 .. n : bases[j] \in Nat /\ hi + 2 <= j => addr < bases[j]
  BY <1>1, <1>3 DEF SearchInv
<1>6. CASE lo' = m /\ hi' = hi /\ bases[m + 1] <= addr
  BY <1>3, <1>6 DEF SearchInv, Kinds
<1>7. CASE ~(m < n /\ bases[m + 1] <= addr) /\ hi' = m - 1 /\ lo' = lo
  <2>1. ASSUME NEW j \in 1 .. n, m + 1 <= j
        PROVE  addr < bases[j]
    <3>1. m + 1 \in 1 .. n /\ bases[m + 1] \in Nat /\ PageEnd(m + 1) \in Nat
          /\ PageEnd(m + 1) = bases[m + 1] + sizes[m + 1] /\ sizes[m + 1] \in Nat
          /\ bases[j] \in Nat /\ addr \in Nat
      <4>1. m + 1 \in 1 .. n
        BY <2>1
      <4> QED BY <1>1, <2>1, <4>1, PageEndType, RequestFacts, WordFacts DEF PageEnd, Addr
    <3>2. addr < bases[m + 1]
      BY <1>7, <3>1
    <3>3. CASE j = m + 1
      BY <3>2, <3>3
    <3>4. CASE m + 1 < j
      <4>1. PageEnd(m + 1) <= bases[j]
        BY <1>1, <3>1, <3>4 DEF OrderedPages
      <4> QED BY <3>1, <3>2, <4>1
    <3> QED BY <2>1, <3>3, <3>4
  <2>2. hi' + 2 = m + 1
    BY <1>7
  <2> QED BY <1>1, <1>3, <1>7, <2>1, <2>2 DEF SearchInv, Kinds
<1> QED BY <1>4, <1>6, <1>7

LEMMA FoundPage ==
  ASSUME TypeInv, OrderedPages, SearchInv, FindDone
  PROVE  SearchInv'
<1>1. PICK n \in Nat : n = Len(bases)
  BY PagesFacts
<1>2. /\ UNCHANGED <<bases, sizes, req, addr>> /\ pc = "find" /\ pageID' = lo
      /\ pc' = req.kind /\ req.kind \in Kinds
  BY RequestFacts DEF FindDone, memory
<1>3. lo \in Nat /\ hi = lo /\ (n > 0 => lo < n)
  <2>1. lo \in Nat /\ hi \in Int /\ lo <= hi /\ (n > 0 => lo < n)
    BY <1>1, <1>2, PagesFacts DEF TypeInv, TypeOK, CallInv
  <2> QED BY <2>1 DEF FindDone
<1>4. \A j \in 1 .. n : lo + 2 <= j => addr < bases[j]
  BY <1>1, <1>2, <1>3 DEF SearchInv
<1>5. ASSUME NEW j \in 1 .. n, j <= lo
      PROVE  PageEnd(j) <= addr
  <2>1. lo + 1 \in 1 .. n /\ lo > 0 /\ j < lo + 1
    BY <1>3, <1>5
  <2>2. bases[lo + 1] <= addr
    BY <1>2, <2>1 DEF SearchInv
  <2>3. PageEnd(j) <= bases[lo + 1]
    BY <1>1, <2>1 DEF OrderedPages
  <2>4. PageEnd(j) \in Nat /\ bases[lo + 1] \in Nat /\ addr \in Nat
    BY <1>1, <2>1, PageEndType, RequestFacts, WordFacts DEF Addr
  <2> QED BY <2>2, <2>3, <2>4
<1> QED BY <1>1, <1>2, <1>4, <1>5 DEF SearchInv, PageEnd, Kinds

LEMMA NextKeepsDisjoint ==
  ASSUME DividingResizes, TypeInv, DisjointInv, [Next]_vars
  PROVE  DisjointInv'
<1>1. ASSUME UNCHANGED <<pageSize, bases, sizes>>
      PROVE  AlignedPages' /\ OrderedPages'
  BY <1>1 DEF DisjointInv, AlignedPages, OrderedPages, PageEnd
<1>2. ASSUME UNCHANGED <<bases, sizes>>, pc' \in {"idle", "enter"}
      PROVE  OrderedPages' /\ SearchInv'
  BY <1>2 DEF DisjointInv, OrderedPages, SearchInv, PageEnd, Kinds
<1>3. ASSUME BeginFind, UNCHANGED <<bases, sizes>>
      PROVE  SearchInv'
  <2>1. Len(bases) \in Nat
    BY PagesFacts
  <2>2. pc' = "find" /\ lo' = 0 /\ hi' = Len(bases)
    BY <1>3 DEF BeginFind
  <2>3. \A j \in 1 .. Len(bases) : ~(hi' + 2 <= j)
    BY <2>1, <2>2
  <2> QED BY <1>3, <2>2, <2>3 DEF SearchInv, Kinds
<1>4. CASE EnterLoad \/ EnterLoadInto
  <2>1. UNCHANGED <<pageSize, bases, sizes>> /\ (pc' = "idle" \/ BeginFind)
    BY <1>4 DEF EnterLoad, EnterLoadInto, memory, Return
  <2> QED BY <1>1, <1>2, <1>3, <2>1 DEF DisjointInv
<1>5. CASE EnterStor
  <2>1. UNCHANGED <<bases, sizes>> /\ (pc' = "idle" \/ BeginFind)
        /\ (pageSize' = pageSize \/ pageSize = 0)
    BY <1>5 DEF EnterStor, Return
  <2>2. CASE pageSize = 0
    <3>1. Len(bases) = 0
      BY <2>2 DEF TypeInv, MemoryInv
    <3>2. AlignedPages' /\ OrderedPages'
      BY <2>1, <3>1 DEF AlignedPages, OrderedPages
    <3> QED BY <1>2, <1>3, <2>1, <3>2 DEF DisjointInv
  <2>3. CASE pageSize' = pageSize
    BY <1>1, <1>2, <1>3, <2>1, <2>3 DEF DisjointInv
  <2> QED BY <2>1, <2>2, <2>3
<1>6. CASE FindStep
  BY <1>1, <1>6, FindFacts, FindKeepsSearch DEF DisjointInv, memory
<1>7. CASE FindDone
  BY <1>1, <1>7, FoundPage DEF DisjointInv, FindDone, memory
<1>8. CASE LoadPage \/ LoadIntoDone \/ StorDone
  <2>1. UNCHANGED <<pageSize, bases, sizes>> /\ pc' = "idle"
    BY <1>8 DEF LoadPage, LoadIntoDone, StorDone, Return, memory
  <2> QED BY <1>1, <1>2, <2>1 DEF DisjointInv
<1>9. CASE \E r \in Requests : Call(r)
  <2>1. UNCHANGED <<pageSize, bases, sizes>> /\ pc' = "enter"
    BY <1>9 DEF Call, memory
  <2> QED BY <1>1, <1>2, <2>1 DEF DisjointInv
<1>10. ASSUME NEW p \in Resizes[pageSize], SetPageSize(p)
       PROVE  DisjointInv'
  <2>1. UNCHANGED <<bases, sizes>> /\ pc' = "idle" /\ pageSize' = p
    BY <1>10 DEF SetPageSize
  <2>2. CASE pageSize = 0
    <3>1. Len(bases) = 0
      BY <2>2 DEF TypeInv, MemoryInv
    <3>2. AlignedPages'
      BY <2>1, <3>1 DEF AlignedPages
    <3> QED BY <1>2, <2>1, <3>2 DEF DisjointInv
  <2>3. CASE pageSize # 0
    <3>1. pageSize \in Addr \ {0} /\ p \in Addr \ {0}
      BY <1>10, <2>3, PageSizeAssumption DEF TypeInv, TypeOK
    <3>2. MultipleOf(pageSize, p) /\ pageSize \in Nat /\ p \in Nat
      <4>1. \E m \in Nat : pageSize = m * p
        BY <1>10, <3>1 DEF DividingResizes
      <4>2. pageSize \in Nat /\ p \in Nat
        BY <3>1, WordFacts DEF Addr
      <4> QED BY <4>1, <4>2 DEF MultipleOf
    <3>3. ASSUME NEW k \in 1 .. Len(bases)
          PROVE  sizes[k] > 0 /\ MultipleOf(bases[k], p) /\ MultipleOf(PageEnd(k), p)
      <4>1. /\ sizes[k] > 0 /\ MultipleOf(bases[k], pageSize)
            /\ MultipleOf(PageEnd(k), pageSize)
        BY DEF DisjointInv, AlignedPages
      <4>2. bases[k] \in Nat /\ PageEnd(k) \in Nat
        BY PageEndType
      <4> QED BY <3>2, <4>1, <4>2, MultipleOfMultiple
    <3>4. AlignedPages'
      BY <2>1, <3>3 DEF AlignedPages, PageEnd
    <3> QED BY <1>2, <2>1, <3>4 DEF DisjointInv
  <2> QED BY <2>2, <2>3
<1>11. CASE UNCHANGED vars
  <2>1. UNCHANGED <<pageSize, bases, sizes, req, pc, lo, hi, pageID, addr>>
    BY <1>11 DEF vars, memory, locals
  <2>2. SearchInv'
    BY <2>1 DEF DisjointInv, SearchInv, PageEnd, End
  <2> QED BY <1>1, <2>1, <2>2 DEF DisjointInv
<1> QED BY <1>4, <1>5, <1>6, <1>7, <1>8, <1>9, <1>10, <1>11,
           LoadIntoKeepsDisjoint, StorKeepsDisjoint DEF Next, Step

LEMMA DisjointInvHolds ==
  ASSUME DividingResizes
  PROVE  Spec => []DisjointInv
<1>1. Init => DisjointInv
  <2> SUFFICES ASSUME Init PROVE DisjointInv
    OBVIOUS
  <2>1. Len(bases) = 0 /\ pc = "idle"
    BY DEF Init
  <2> QED BY <2>1 DEF DisjointInv, AlignedPages, OrderedPages, SearchInv, Kinds
<1>2. TypeInv /\ DisjointInv /\ [Next]_vars => DisjointInv'
  BY NextKeepsDisjoint
<1> QED BY <1>1, <1>2, TypeInvHolds, PTL DEF Spec

\* No address lies in two pages, and the pages are in order of address, as
\* long as every page size is a divisor of the one before it.
THEOREM PagesNeverOverlap ==
  ASSUME DividingResizes
  PROVE  Spec => []PagesDisjoint
<1>1. ASSUME TypeInv, DisjointInv
      PROVE  PagesDisjoint
  <2> SUFFICES ASSUME NEW k \in 1 .. Len(bases) - 1
               PROVE  bases[k] + sizes[k] <= bases[k + 1]
    BY DEF PagesDisjoint
  <2>1. Len(bases) \in Nat
    BY <1>1, PagesFacts
  <2>2. k \in 1 .. Len(bases) /\ k + 1 \in 1 .. Len(bases) /\ k < k + 1
    BY <2>1
  <2> QED BY <1>1, <2>2 DEF DisjointInv, OrderedPages, PageEnd
<1> QED BY <1>1, TypeInvHolds, DisjointInvHolds, PTL
----------------------------------------------------------------------------
(* PagedInts behaves like one flat array (FlatMem).                        *)

\* Ints.LoadInto and Ints.Load subtract addresses as ints: the requests and
\* the pages that these differences are right for.
SmallDistances ==
  /\ \A p \in PageSizes : p <= Half
  /\ \A r \in Requests : r.kind = "loadInto" => r.addr + Len(r.vals) <= Half

\* No page is longer than an int can count, nothing is stored past the end of
\* the address space, and LoadInto has filled its buffer up to where it is.
ContentInv ==
  /\ pageSize \in PageSizes
  /\ \A k \in 1 .. Len(bases) : sizes[k] <= Half
  /\ \A k \in 1 .. Len(bases) :
       \A o \in 0 .. sizes[k] - 1 : bases[k] + o >= Top => pages[k][o] = 0
  /\ pc = "loadInto" =>
       \A x \in 1 .. Len(req.vals) :
         req.addr + x - 1 < addr => buf[x] = View(req.addr + x - 1)

FlatInv == TypeInv /\ DisjointInv /\ ContentInv
----------------------------------------------------------------------------
(* The view of the memory.                                                 *)

\* View of pages that are not those of the state.
ViewOf(b, s, p, a) ==
  IF {k \in DOMAIN b : a - b[k] \in 0 .. s[k] - 1} = {} THEN 0
  ELSE LET k == CHOOSE k \in {k \in DOMAIN b : a - b[k] \in 0 .. s[k] - 1} : TRUE
       IN p[k][a - b[k]]

\* Pages that do not overlap.
Apart(b, s, n) ==
  /\ DOMAIN b = 1 .. n
  /\ \A k \in 1 .. n : b[k] \in Nat /\ s[k] \in Nat
  /\ \A j, k \in 1 .. n : j < k => b[j] + s[j] <= b[k]

LEMMA ViewOfPages ==
  ASSUME NEW n \in Nat, NEW b, NEW s, NEW p, Apart(b, s, n), NEW a \in Nat
  PROVE  /\ \A k \in 1 .. n : b[k] <= a /\ a < b[k] + s[k] => ViewOf(b, s, p, a) = p[k][a - b[k]]
         /\ (\A k \in 1 .. n : ~(b[k] <= a /\ a < b[k] + s[k])) => ViewOf(b, s, p, a) = 0
<1> DEFINE C == {k \in DOMAIN b : a - b[k] \in 0 .. s[k] - 1}
<1>1. \A k : k \in C <=> k \in 1 .. n /\ b[k] <= a /\ a < b[k] + s[k]
  BY DEF Apart
<1>2. ViewOf(b, s, p, a) = IF C = {} THEN 0
                           ELSE LET k == CHOOSE k \in C : TRUE IN p[k][a - b[k]]
  BY DEF ViewOf
<1> HIDE DEF C
<1>3. ASSUME NEW k \in 1 .. n, b[k] <= a, a < b[k] + s[k]
      PROVE  ViewOf(b, s, p, a) = p[k][a - b[k]]
  <2>1. k \in C
    BY <1>1, <1>3
  <2>2. ASSUME NEW j \in C
        PROVE  j = k
    <3>1. j \in 1 .. n /\ b[j] <= a /\ a < b[j] + s[j]
      BY <1>1
    <3>2. j < k => b[j] + s[j] <= b[k]
      BY <3>1 DEF Apart
    <3>3. k < j => b[k] + s[k] <= b[j]
      BY <3>1 DEF Apart
    <3>4. b[j] \in Nat /\ b[k] \in Nat /\ s[j] \in Nat /\ s[k] \in Nat
      BY <3>1 DEF Apart
    <3> QED BY <1>3, <3>1, <3>2, <3>3, <3>4
  <2>3. (CHOOSE j \in C : TRUE) = k /\ C # {}
    BY <2>1, <2>2
  <2> QED BY <1>2, <2>3
<1>4. ASSUME \A k \in 1 .. n : ~(b[k] <= a /\ a < b[k] + s[k])
      PROVE  ViewOf(b, s, p, a) = 0
  BY <1>1, <1>2, <1>4
<1> QED BY <1>3, <1>4

LEMMA PagesApart ==
  ASSUME TypeInv, OrderedPages
  PROVE  Apart(bases, sizes, Len(bases))
<1>1. /\ DOMAIN bases = 1 .. Len(bases)
      /\ \A k \in 1 .. Len(bases) : bases[k] \in Nat /\ sizes[k] \in Nat
  BY PagesFacts, PageEndType
<1> QED BY <1>1 DEF Apart, OrderedPages, PageEnd

LEMMA ViewFacts ==
  ASSUME TypeInv, OrderedPages, NEW a \in Nat
  PROVE  /\ \A k \in 1 .. Len(bases) :
              bases[k] <= a /\ a < PageEnd(k) => View(a) = pages[k][a - bases[k]]
         /\ (\A k \in 1 .. Len(bases) : ~(bases[k] <= a /\ a < PageEnd(k))) => View(a) = 0
<1>1. View(a) = ViewOf(bases, sizes, pages, a)
  BY DEF View, Covering, ViewOf
<1>2. Len(bases) \in Nat
  BY PagesFacts
<1> QED BY <1>1, <1>2, PagesApart, ViewOfPages DEF PageEnd
----------------------------------------------------------------------------
(* A step of Stor, as the view shows it.                                   *)

\* Each page but the one that Stor writes to is there before and after.
LEMMA StorMoves ==
  ASSUME TypeInv, StorPage
  PROVE  /\ \A k \in 1 .. Len(bases) : k # pageID + 1 \/ Fresh =>
              \E j \in 1 .. Len(bases') : /\ j # pageID + 1 /\ bases'[j] = bases[k]
                                          /\ sizes'[j] = sizes[k] /\ pages'[j] = pages[k]
         /\ \A j \in 1 .. Len(bases') : j # pageID + 1 =>
              \E k \in 1 .. Len(bases) : /\ k # pageID + 1 \/ Fresh
                                         /\ bases'[j] = bases[k]
                                         /\ sizes'[j] = sizes[k] /\ pages'[j] = pages[k]
<1>1. PICK n \in Nat : n = Len(bases)
  BY PagesFacts
<1>2. PICK c \in Nat : c = pageID + 1
  BY StorFacts
<1>3. PICK m \in Nat : m = Len(bases')
  BY <1>1, StorFacts
<1>4. m = (IF Fresh THEN n + 1 ELSE n) /\ c <= m /\ 0 < c
  BY <1>1, <1>2, <1>3, StorFacts
<1>5. \A j \in 1 .. m :
        /\ j < c => bases'[j] = bases[j] /\ sizes'[j] = sizes[j] /\ pages'[j] = pages[j]
        /\ j > c /\ Fresh => /\ bases'[j] = bases[j - 1] /\ sizes'[j] = sizes[j - 1]
                             /\ pages'[j] = pages[j - 1]
        /\ j > c /\ ~Fresh => /\ bases'[j] = bases[j] /\ sizes'[j] = sizes[j]
                              /\ pages'[j] = pages[j]
  BY <1>2, <1>3, StorFacts
<1>6. ASSUME NEW k \in 1 .. n, k # c \/ Fresh
      PROVE  \E j \in 1 .. m : /\ j # c /\ bases'[j] = bases[k]
                               /\ sizes'[j] = sizes[k] /\ pages'[j] = pages[k]
  <2>1. CASE k < c
    <3>1. k \in 1 .. m /\ k # c
      BY <1>4, <2>1
    <3> QED BY <1>5, <2>1, <3>1
  <2>2. CASE k >= c /\ Fresh
    <3> DEFINE l == k + 1
    <3>1. l \in 1 .. m /\ l > c /\ l - 1 = k
      BY <1>4, <2>2
    <3> HIDE DEF l
    <3>2. bases'[l] = bases[k] /\ sizes'[l] = sizes[k] /\ pages'[l] = pages[k]
      BY <1>5, <2>2, <3>1
    <3> QED BY <1>4, <3>1, <3>2
  <2>3. CASE k > c /\ ~Fresh
    <3>1. k \in 1 .. m /\ k # c
      BY <1>4, <2>3
    <3> QED BY <1>5, <2>3, <3>1
  <2> QED BY <1>6, <2>1, <2>2, <2>3
<1>7. ASSUME NEW j \in 1 .. m, j # c
      PROVE  \E k \in 1 .. n : /\ k # c \/ Fresh
                               /\ bases'[j] = bases[k]
                               /\ sizes'[j] = sizes[k] /\ pages'[j] = pages[k]
  <2>1. CASE j < c
    <3>1. j \in 1 .. n /\ j # c
      BY <1>4, <2>1
    <3> QED BY <1>5, <2>1, <3>1
  <2>2. CASE j > c /\ Fresh
    <3> DEFINE l == j - 1
    <3>1. l \in 1 .. n
      BY <1>4, <2>2
    <3>2. bases'[j] = bases[l] /\ sizes'[j] = sizes[l] /\ pages'[j] = pages[l]
      BY <1>5, <2>2
    <3> HIDE DEF l
    <3> QED BY <2>2, <3>1, <3>2
  <2>3. CASE j > c /\ ~Fresh
    <3>1. j \in 1 .. n /\ j # c
      BY <1>4, <2>3
    <3> QED BY <1>5, <2>3, <3>1
  <2> QED BY <1>7, <2>1, <2>2, <2>3
<1> QED BY <1>1, <1>2, <1>3, <1>6, <1>7

LEMMA StorView ==
  ASSUME TypeInv, DisjointInv, StorPage, NEW a \in Addr
  PROVE  View(a)' = IF a \in addr .. Upto - 1 THEN req.vals[a - req.addr + 1] ELSE View(a)
<1> DEFINE InOld(k) == bases[k] <= a /\ a < bases[k] + sizes[k]
           InNew(k) == bases'[k] <= a /\ a < bases'[k] + sizes'[k]
<1>1. PICK n \in Nat : n = Len(bases)
  BY PagesFacts
<1>2. PICK c \in Nat : c = pageID + 1
  BY StorFacts
<1>3. PICK m \in Nat : m = Len(bases')
  BY <1>1, StorFacts
<1>4. /\ pc = "stor" /\ addr < End /\ c \in 1 .. m /\ a \in Nat
      /\ ~Fresh => c \in 1 .. n
      /\ bases'[c] = Made.base /\ sizes'[c] = Made.size
      /\ pages'[c] = Written(Target, Made.base, Upto)
  BY <1>1, <1>2, <1>3, StorFacts, WordFacts DEF Addr
<1>5. /\ \A k \in 1 .. n : InOld(k) => View(a) = pages[k][a - bases[k]]
      /\ (\A k \in 1 .. n : ~InOld(k)) => View(a) = 0
  BY <1>1, <1>4, ViewFacts DEF DisjointInv, PageEnd
<1>6. Apart(bases', sizes', m)
  <2>1. OrderedPages'
    BY StorKeepsDisjoint DEF DisjointInv
  <2>2. /\ bases' \in Seq(Addr) /\ sizes' \in Seq(Addr) /\ Len(sizes') = m
        /\ DOMAIN bases' = 1 .. m
    BY <1>3, StorFacts, LenProperties
  <2>3. \A k \in 1 .. m : bases'[k] \in Nat /\ sizes'[k] \in Nat
    BY <1>3, <2>2, ElementOfSeq, WordFacts DEF Addr
  <2> QED BY <1>3, <2>1, <2>2, <2>3 DEF Apart, OrderedPages, PageEnd
<1>7. /\ \A k \in 1 .. m : InNew(k) => View(a)' = pages'[k][a - bases'[k]]
      /\ (\A k \in 1 .. m : ~InNew(k)) => View(a)' = 0
  <2>1. View(a)' = ViewOf(bases', sizes', pages', a)
    BY DEF View, Covering, ViewOf
  <2> QED BY <1>4, <1>6, <2>1, ViewOfPages
<1>8. /\ \A k \in 1 .. n : k # c \/ Fresh =>
           \E j \in 1 .. m : /\ j # c /\ bases'[j] = bases[k]
                             /\ sizes'[j] = sizes[k] /\ pages'[j] = pages[k]
      /\ \A j \in 1 .. m : j # c =>
           \E k \in 1 .. n : /\ k # c \/ Fresh
                             /\ bases'[j] = bases[k]
                             /\ sizes'[j] = sizes[k] /\ pages'[j] = pages[k]
  BY <1>1, <1>2, <1>3, StorMoves
<1>9. ASSUME NEW j \in 1 .. m, j # c, InNew(c)
      PROVE  ~InNew(j)
  <2>1. /\ bases'[j] \in Nat /\ sizes'[j] \in Nat /\ bases'[c] \in Nat /\ sizes'[c] \in Nat
        /\ j < c => bases'[j] + sizes'[j] <= bases'[c]
        /\ c < j => bases'[c] + sizes'[c] <= bases'[j]
    BY <1>4, <1>6 DEF Apart
  <2> QED BY <1>4, <1>9, <2>1
<1>10. InNew(c) =>
         /\ View(a)' = IF a \in addr .. Upto - 1 THEN req.vals[a - req.addr + 1]
                       ELSE Target[a - Made.base]
         /\ a - Made.base \in 0 .. Made.size - 1
  <2> SUFFICES ASSUME InNew(c)
               PROVE  /\ View(a)' = IF a \in addr .. Upto - 1 THEN req.vals[a - req.addr + 1]
                                    ELSE Target[a - Made.base]
                      /\ a - Made.base \in 0 .. Made.size - 1
    OBVIOUS
  <2>1. Made.base \in Nat /\ Made.size \in Nat /\ req.addr \in Nat
    BY <1>4, MadeType, RequestFacts, WordFacts DEF Addr
  <2>2. PICK i \in 0 .. Made.size - 1 : i = a - Made.base
    BY <1>4, <2>1
  <2>3. View(a)' = Written(Target, Made.base, Upto)[i]
    BY <1>4, <1>7, <2>2
  <2>4. PICK z \in Int : z = Made.base + i
    BY <2>1
  <2>5. Written(Target, Made.base, Upto)[i] =
          IF z \in addr .. Upto - 1 THEN req.vals[z - req.addr + 1] ELSE Target[i]
    <3>1. Written(Target, Made.base, Upto)[i] =
            IF Made.base + i \in addr .. Upto - 1
            THEN req.vals[Made.base + i - req.addr + 1] ELSE Target[i]
      BY <1>4, TargetType
    <3>2. z - req.addr + 1 = Made.base + i - req.addr + 1
      BY <2>1, <2>4
    <3>3. CASE z \in addr .. Upto - 1
      BY <2>4, <3>1, <3>2, <3>3
    <3>4. CASE z \notin addr .. Upto - 1
      BY <2>4, <3>1, <3>4
    <3> QED BY <3>3, <3>4
  <2>6. z = a
    BY <1>4, <2>1, <2>2, <2>4
  <2> QED BY <2>2, <2>3, <2>5, <2>6
<1>11. CASE a \in addr .. Upto - 1
  <2>1. Appends
    <3>1. n > 0 => n \in 1 .. n
      BY <1>1
    <3> QED BY <1>1, <1>2, <1>4, <3>1 DEF DisjointInv, SearchInv, Appends, Kinds
  <2>2. Made.base <= addr
    BY <1>4, <2>1, MadeFacts
  <2>3. a - Made.base \in 0 .. Made.size - 1
    BY <1>4, <1>11, <2>2, UptoFacts
  <2>4. InNew(c)
    <3>1. Made.base \in Nat /\ Made.size \in Nat
      BY <1>4, MadeType, WordFacts DEF Addr
    <3> QED BY <1>4, <2>3, <3>1
  <2> QED BY <1>10, <1>11, <2>4
<1>12. CASE a \notin addr .. Upto - 1 /\ InNew(c) /\ Fresh
  <2>1. ASSUME NEW k \in 1 .. n
        PROVE  ~InOld(k)
    <3>1. PICK j \in 1 .. m : j # c /\ bases'[j] = bases[k] /\ sizes'[j] = sizes[k]
      BY <1>8, <1>12
    <3> QED BY <1>9, <1>12, <3>1
  <2>2. View(a) = 0
    BY <1>5, <2>1
  <2>3. Target[a - Made.base] = 0
    BY <1>10, <1>12 DEF Target, ZeroPage
  <2> QED BY <1>10, <1>12, <2>2, <2>3
<1>13. CASE a \notin addr .. Upto - 1 /\ InNew(c) /\ ~Fresh
  <2>1. bases' = bases /\ sizes' = sizes
    BY <1>13 DEF StorPage, Fresh
  <2>2. View(a) = pages[c][a - bases[c]]
    BY <1>4, <1>5, <1>13, <2>1
  <2>3. Target = pages[c] /\ Made.base = bases[c]
    BY <1>2, <1>4, <1>13, <2>1 DEF Target, Page
  <2> QED BY <1>10, <1>13, <2>2, <2>3
<1>14. CASE a \notin addr .. Upto - 1 /\ ~InNew(c)
  <2>1. CASE \E k \in 1 .. n : InOld(k)
    <3>1. PICK k \in 1 .. n : InOld(k)
      BY <2>1
    <3>2. k # c \/ Fresh
      <4>1. ~Fresh => bases' = bases /\ sizes' = sizes
        BY DEF StorPage, Fresh
      <4> QED BY <1>14, <3>1, <4>1
    <3>3. PICK j \in 1 .. m : /\ j # c /\ bases'[j] = bases[k]
                              /\ sizes'[j] = sizes[k] /\ pages'[j] = pages[k]
      BY <1>8, <3>2
    <3>4. View(a)' = pages'[j][a - bases'[j]]
      BY <1>7, <3>1, <3>3
    <3> QED BY <1>5, <1>14, <3>1, <3>3, <3>4
  <2>2. CASE \A k \in 1 .. n : ~InOld(k)
    <3>1. ASSUME NEW j \in 1 .. m, j # c
          PROVE  ~InNew(j)
      <4>1. PICK k \in 1 .. n : bases'[j] = bases[k] /\ sizes'[j] = sizes[k]
        BY <1>8, <3>1
      <4> QED BY <2>2, <4>1
    <3>2. \A j \in 1 .. m : ~InNew(j)
      BY <1>14, <3>1
    <3> QED BY <1>5, <1>7, <1>14, <2>2, <3>2
  <2> QED BY <2>1, <2>2
<1> QED BY <1>11, <1>12, <1>13, <1>14
----------------------------------------------------------------------------
(* A step of LoadInto copies what the view shows.                          *)

LEMMA LoadIntoShows ==
  ASSUME SmallDistances, TypeInv, DisjointInv, LoadIntoPage,
         NEW a \in Nat, addr <= a, a < LoadedTo
  PROVE  /\ a < From => View(a) = 0
         /\ From <= a => View(a) = Page(pageID)[InPage + a - From]
<1>1. PICK c \in Nat : c = pageID + 1
  BY LoadIntoFacts
<1>2. PICK b \in Nat : b = bases[c]
  BY <1>1, LoadIntoFacts, PagesFacts, WordFacts DEF Addr
<1>3. /\ c \in 1 .. Len(bases) /\ Base(pageID) = b /\ b \in Addr /\ PageEnd(c) = b + sizes[c]
      /\ Page(pageID) = pages[c] /\ sizes[c] \in Nat /\ Len(bases) \in Nat
  BY <1>1, <1>2, LoadIntoFacts, PagesFacts, PageEndType DEF Base, Page, PageEnd
<1>4. /\ addr \in Addr /\ From \in Addr /\ Gap \in Nat /\ LoadedTo \in Addr /\ InPage \in Nat
      /\ From = addr + Gap /\ From < End /\ End <= Half /\ End \in Addr /\ b <= End
      /\ addr < Half /\ End - addr < Half
  <2>1. /\ addr \in Addr /\ From \in Addr /\ Gap \in Nat /\ LoadedTo \in Addr /\ InPage \in Nat
        /\ From = addr + Gap /\ From < End /\ End \in Addr /\ b <= End
        /\ addr <= From /\ End = req.addr + Len(req.vals) /\ pc = "loadInto"
    BY <1>3, LoadIntoFacts, RequestFacts DEF From
  <2>2. req \in Requests /\ req.kind = "loadInto"
    BY <2>1 DEF TypeInv, CallInv, Kinds
  <2>3. End <= Half
    BY <2>1, <2>2 DEF SmallDistances
  <2>4. req.addr \in Nat /\ Len(req.vals) \in Nat /\ Len(req.vals) < Half /\ req.addr <= addr
    <3>1. req.addr \in Addr /\ Len(req.vals) \in Nat /\ Len(req.vals) < Half
      BY <2>1, RequestFacts
    <3>2. req.addr <= addr
      BY <2>1 DEF TypeInv, CallInv
    <3> QED BY <3>1, <3>2, WordFacts DEF Addr
  <2> QED BY <2>1, <2>3, <2>4, WordFacts DEF Addr
<1>5. /\ addr < b => From = b /\ InPage = 0
      /\ b <= addr => From = addr /\ InPage = addr - b
  <2>1. CASE addr < b
    <3>1. Gap = b - addr
      BY <1>3, <1>4, <2>1, WordFacts DEF Gap, Skip, Signed, Minus, Addr
    <3> QED BY <1>3, <1>4, <2>1, <3>1, WordFacts DEF InPage, Skip, Signed, Minus, Addr
  <2>2. CASE b <= addr
    <3>1. Gap = 0
      BY <1>3, <1>4, <2>2, WordFacts DEF Gap, Skip, Signed, Minus, Addr
    <3>2. From = addr
      BY <1>4, <3>1, WordFacts DEF Addr
    <3>3. Signed(From, Base(pageID)) = addr - b
      BY <1>3, <1>4, <2>2, <3>2, WordFacts DEF Signed, Minus, Addr
    <3>4. addr - b > 0 \/ addr - b = 0
      BY <1>4, <2>2, WordFacts DEF Addr
    <3> QED BY <2>2, <3>2, <3>3, <3>4, <1>4, WordFacts DEF InPage, Skip, Addr
  <2> QED BY <1>4, <2>1, <2>2, WordFacts DEF Addr
<1>6. CASE a < From
  <2>1. addr < b /\ a < b
    BY <1>4, <1>5, <1>6, WordFacts DEF Addr
  <2>2. ASSUME NEW j \in 1 .. Len(bases), bases[j] <= a, a < PageEnd(j)
        PROVE  FALSE
    <3>1. bases[j] \in Nat /\ PageEnd(j) \in Nat
      BY PageEndType
    <3>2. j <= pageID => PageEnd(j) <= addr
      BY LoadIntoFacts DEF DisjointInv, SearchInv, Kinds, LoadIntoPage, LoadIntoMore
    <3>3. j = c => b <= a
      BY <1>2, <2>2
    <3>4. c < j => PageEnd(c) <= bases[j]
      BY <1>3 DEF DisjointInv, OrderedPages
    <3>5. j <= pageID \/ j = c \/ c < j
      BY <1>1, LoadIntoFacts
    <3>6. addr \in Nat
      BY <1>4, WordFacts DEF Addr
    <3> QED BY <1>3, <2>1, <2>2, <3>1, <3>2, <3>3, <3>4, <3>5, <3>6
  <2>3. View(a) = 0
    BY <2>2, ViewFacts DEF DisjointInv
  <2> QED BY <1>4, <1>6, <2>3, WordFacts DEF Addr
<1>7. CASE From <= a
  <2>1. InPage + a - From \in 0 .. sizes[c] - 1
    <3>1. a \in From .. LoadedTo - 1
      BY <1>4, <1>7, WordFacts DEF Addr
    <3> QED BY <1>1, <3>1, LoadIntoFacts
  <2>2. InPage + a - From = a - b
    BY <1>4, <1>5, WordFacts DEF Addr
  <2>3. bases[c] <= a /\ a < PageEnd(c)
    BY <1>2, <1>3, <2>1, <2>2
  <2>4. View(a) = pages[c][a - b]
    BY <1>2, <1>3, <2>3, ViewFacts DEF DisjointInv
  <2> QED BY <1>3, <1>4, <1>7, <2>2, <2>4, WordFacts DEF Addr
<1> QED BY <1>4, <1>6, <1>7, WordFacts DEF Addr

\* The buffer so far, after a step of LoadInto.
LEMMA LoadIntoKeepsBuffer ==
  ASSUME SmallDistances, FlatInv, LoadIntoPage,
         NEW x \in 1 .. Len(req.vals), req.addr + x - 1 < LoadedTo
  PROVE  buf'[x] = View(req.addr + x - 1)
<1>1. PICK a \in Nat : a = req.addr + x - 1
  <2>1. req.addr \in Nat /\ Len(req.vals) \in Nat
    BY RequestFacts, WordFacts DEF FlatInv, Addr
  <2> QED BY <2>1
<1>2. /\ addr \in Nat /\ From \in Nat /\ LoadedTo \in Nat /\ addr <= From
      /\ x \in DOMAIN buf /\ pc = "loadInto"
  BY LoadIntoFacts, RequestFacts, BufferFacts, WordFacts DEF FlatInv, Addr
<1>3. buf'[x] = IF a \in addr .. From - 1 THEN 0
                ELSE IF a \in From .. LoadedTo - 1 THEN Page(pageID)[InPage + a - From]
                ELSE buf[x]
  BY <1>1, <1>2, LoadIntoFacts DEF FlatInv
<1>4. CASE a < addr
  <2>1. buf'[x] = buf[x]
    BY <1>2, <1>3, <1>4
  <2> QED BY <1>1, <1>2, <1>4, <2>1 DEF FlatInv, ContentInv
<1>5. CASE addr <= a /\ a < From
  BY <1>1, <1>2, <1>3, <1>5, LoadIntoShows DEF FlatInv
<1>6. CASE From <= a
  <2>1. a \in From .. LoadedTo - 1 /\ a \notin addr .. From - 1
    BY <1>1, <1>2, <1>6
  <2>2. buf'[x] = Page(pageID)[InPage + a - From]
    BY <1>3, <2>1
  <2>3. addr <= a /\ a < LoadedTo
    BY <1>1, <1>2, <1>6
  <2> QED BY <1>1, <1>6, <2>2, <2>3, LoadIntoShows DEF FlatInv
<1> QED BY <1>1, <1>2, <1>4, <1>5, <1>6
----------------------------------------------------------------------------
(* The invariant.                                                          *)

LEMMA StorKeepsContent ==
  ASSUME SmallDistances, FlatInv, StorPage
  PROVE  ContentInv'
<1>1. PICK c \in Nat : c = pageID + 1
  BY StorFacts DEF FlatInv
<1>2. PICK m \in Nat : m = Len(bases')
  BY StorFacts, PagesFacts DEF FlatInv
<1>3. /\ pc = "stor" /\ addr < End /\ c \in 1 .. m
      /\ bases'[c] = Made.base /\ sizes'[c] = Made.size
      /\ pages'[c] = Written(Target, Made.base, Upto)
      /\ pageSize' = pageSize /\ pc' = "stor"
  BY <1>1, <1>2, StorFacts, PagesFacts DEF FlatInv, StorPage
<1>4. Appends
  <2>1. Len(bases) > 0 => Len(bases) \in 1 .. Len(bases)
    BY PagesFacts DEF FlatInv
  <2> QED BY <1>3, <2>1 DEF FlatInv, DisjointInv, SearchInv, Appends, Kinds
<1>5. /\ Made.base \in Nat /\ Made.size \in Nat /\ Made.size <= Half
  <2>1. Made.base \in Nat /\ Made.size \in Nat
    BY <1>3, MadeType, WordFacts DEF FlatInv, Addr
  <2>2. CASE Fresh
    <3>1. Made.size <= pageSize
      <4>1. pageID \in Nat /\ pageID <= Len(bases) /\ Len(bases) \in Nat
        BY StorFacts, PagesFacts DEF FlatInv
      <4> QED BY <1>3, <1>4, <2>2, <4>1, MadeFacts DEF FlatInv
    <3>2. pageSize <= Half /\ pageSize \in Nat
      BY WordFacts DEF FlatInv, ContentInv, SmallDistances, TypeInv, TypeOK, Addr
    <3> QED BY <2>1, <3>1, <3>2, WordFacts
  <2>3. CASE ~Fresh
    <3>1. c \in 1 .. Len(bases) /\ Made.size = sizes[c]
      BY <1>1, <1>3, <1>4, <2>3, MadeFacts DEF FlatInv
    <3> QED BY <2>1, <3>1 DEF FlatInv, ContentInv
  <2> QED BY <2>1, <2>2, <2>3
<1>6. ASSUME NEW o \in 0 .. Made.size - 1, Made.base + o >= Top
      PROVE  pages'[c][o] = 0
  <2>1. Upto \in Nat /\ Upto < Top /\ addr \in Nat
    BY <1>3, UptoFacts, RequestFacts, WordFacts DEF FlatInv, Addr
  <2>2. Made.base + o \notin addr .. Upto - 1
    BY <1>5, <1>6, <2>1, WordFacts
  <2>3. pages'[c][o] = Target[o]
    BY <1>3, <2>2, TargetType DEF FlatInv
  <2>4. CASE Fresh
    BY <2>3, <2>4 DEF Target, ZeroPage
  <2>5. CASE ~Fresh
    <3>1. c \in 1 .. Len(bases) /\ Made.size = sizes[c] /\ Made.base = bases[c]
      BY <1>1, <1>3, <1>4, <2>5, MadeFacts DEF FlatInv
    <3>2. Target = pages[c]
      BY <1>1, <2>5 DEF Target, Page
    <3> QED BY <1>6, <2>3, <3>1, <3>2 DEF FlatInv, ContentInv
  <2> QED BY <2>4, <2>5
<1>7. ASSUME NEW j \in 1 .. m, j # c
      PROVE  /\ sizes'[j] <= Half
             /\ \A o \in 0 .. sizes'[j] - 1 : bases'[j] + o >= Top => pages'[j][o] = 0
  <2>1. PICK k \in 1 .. Len(bases) : /\ bases'[j] = bases[k]
                                     /\ sizes'[j] = sizes[k] /\ pages'[j] = pages[k]
    BY <1>1, <1>2, <1>7, StorMoves DEF FlatInv
  <2> QED BY <2>1 DEF FlatInv, ContentInv
<1> QED BY <1>2, <1>3, <1>5, <1>6, <1>7 DEF FlatInv, ContentInv

LEMMA NextKeepsContent ==
  ASSUME SmallDistances, FlatInv, [Next]_vars
  PROVE  ContentInv'
<1>1. CASE StorPage
  BY <1>1, StorKeepsContent
<1>2. /\ pageSize \in PageSizes /\ DefaultPageSize \in PageSizes
      /\ \A p \in Resizes[pageSize] : p \in PageSizes
  BY DEF FlatInv, ContentInv, PageSizes, TypeInv, TypeOK
<1>3. ASSUME UNCHANGED <<bases, sizes, pages>>, pageSize' \in PageSizes,
             pc' = "loadInto" =>
               \A x \in 1 .. Len(req'.vals) :
                 req'.addr + x - 1 < addr' => buf'[x] = View(req'.addr + x - 1)
      PROVE  ContentInv'
  BY <1>3 DEF FlatInv, ContentInv, View, Covering
<1>4. CASE EnterLoad \/ EnterLoadInto \/ EnterStor
  <2>1. /\ pc' # "loadInto" /\ UNCHANGED <<bases, sizes, pages>>
        /\ pageSize' = pageSize \/ pageSize' = DefaultPageSize
    BY <1>4 DEF EnterLoad, EnterLoadInto, EnterStor, BeginFind, Return, memory
  <2> QED BY <1>2, <1>3, <2>1
<1>5. CASE FindStep
  <2>1. pc' = "find" /\ UNCHANGED <<bases, sizes, pages, pageSize>>
    BY <1>5 DEF FindStep, memory
  <2> QED BY <1>2, <1>3, <2>1
<1>6. CASE FindDone
  <2>1. UNCHANGED <<bases, sizes, pages, pageSize, req, addr>> /\ pc = "find"
    BY <1>6 DEF FindDone, memory
  <2>2. addr = req.addr /\ addr \in Nat
    <3>1. addr \in Nat
      BY RequestFacts, WordFacts DEF FlatInv, Addr
    <3> QED BY <2>1, <3>1 DEF FlatInv, TypeInv, CallInv
  <2>3. \A x \in 1 .. Len(req.vals) : ~(req.addr + x - 1 < addr)
    BY <2>2
  <2> QED BY <1>2, <1>3, <2>1, <2>3
<1>7. CASE LoadIntoPage
  <2>1. UNCHANGED <<bases, sizes, pages, pageSize, req>> /\ addr' = LoadedTo
    BY <1>7, LoadIntoFacts DEF FlatInv, LoadIntoPage, memory
  <2> QED BY <1>2, <1>3, <1>7, <2>1, LoadIntoKeepsBuffer
<1>8. CASE LoadPage \/ LoadIntoDone \/ StorDone
  <2>1. UNCHANGED <<bases, sizes, pages, pageSize>> /\ pc' # "loadInto"
    BY <1>8 DEF LoadPage, LoadIntoDone, StorDone, Return, memory
  <2> QED BY <1>2, <1>3, <2>1
<1>9. CASE \E r \in Requests : Call(r)
  <2>1. UNCHANGED <<bases, sizes, pages, pageSize>> /\ pc' # "loadInto"
    BY <1>9 DEF Call, memory
  <2> QED BY <1>2, <1>3, <2>1
<1>10. CASE \E p \in Resizes[pageSize] : SetPageSize(p)
  <2>1. UNCHANGED <<bases, sizes, pages>> /\ pc' # "loadInto" /\ pageSize' \in PageSizes
    BY <1>2, <1>10 DEF SetPageSize
  <2> QED BY <1>3, <2>1
<1>11. CASE UNCHANGED vars
  <2>1. UNCHANGED <<bases, sizes, pages, pageSize, req, pc, addr, buf>>
    BY <1>11 DEF vars, memory, locals
  <2> QED BY <1>2, <1>3, <2>1 DEF FlatInv, ContentInv
<1> QED BY <1>1, <1>4, <1>5, <1>6, <1>7, <1>8, <1>9, <1>10, <1>11 DEF Next, Step

LEMMA FlatInvHolds ==
  ASSUME DividingResizes, SmallDistances
  PROVE  Spec => []FlatInv
<1>1. Init => ContentInv
  <2> SUFFICES ASSUME Init PROVE ContentInv
    OBVIOUS
  <2>1. Len(bases) = 0 /\ pc = "idle" /\ pageSize \in PageSizes
    BY DEF Init, PageSizes
  <2> QED BY <2>1 DEF ContentInv
<1>2. TypeInv /\ DisjointInv /\ ContentInv /\ [Next]_vars => ContentInv'
  BY NextKeepsContent DEF FlatInv
<1> QED BY <1>1, <1>2, TypeInvHolds, DisjointInvHolds, PTL DEF Spec, FlatInv
----------------------------------------------------------------------------
(* The flat array.                                                         *)

\* What the view shows, once nothing is left to copy.
Shown == [a \in Addr |-> View(a)]

LEMMA NothingPending ==
  ASSUME TypeInv, ~Pending \/ ~(addr < End)
  PROVE  FlatView = Shown
<1>1. CASE ~Pending
  BY <1>1, Zenon DEF FlatView, Shown
<1>2. CASE ~(addr < End) /\ pc # "idle"
  <2>1. addr \in Nat /\ End \in Nat
    BY <1>2, RequestFacts, WordFacts DEF Addr
  <2>2. \A a \in Addr : ~(a >= addr /\ a < End)
    BY <1>2, <2>1, WordFacts DEF Addr
  <2> QED BY <2>2 DEF FlatView, Shown
<1>3. CASE pc = "idle"
  <2>1. ~Pending
    BY <1>3 DEF Pending
  <2> QED BY <1>1, <2>1
<1> QED BY <1>1, <1>2, <1>3

\* A step that changes neither the pages nor how much is left to copy.
LEMMA SameView ==
  ASSUME UNCHANGED <<bases, sizes, pages, req>>, Pending' <=> Pending, Pending => addr' = addr
  PROVE  FlatView' = FlatView
<1>1. \A a : View(a)' = View(a)
  BY DEF View, Covering
<1>2. End' = End
  BY DEF End
<1>3. CASE Pending
  <2>1. addr' = addr /\ Pending'
    BY <1>3
  <2>2. \A a \in Addr :
          (IF Pending' /\ a >= addr' /\ a < End' THEN req'.vals[a - req'.addr + 1] ELSE View(a)')
          = (IF Pending /\ a >= addr /\ a < End THEN req.vals[a - req.addr + 1] ELSE View(a))
    BY <1>1, <1>2, <1>3, <2>1
  <2> QED BY <2>2, Zenon DEF FlatView
<1>4. CASE ~Pending
  <2>1. FlatView = [a \in Addr |-> View(a)]
    BY <1>4, Zenon DEF FlatView
  <2>2. FlatView' = [a \in Addr |-> View(a)']
    BY <1>4, Zenon DEF FlatView
  <2> QED BY <1>1, <2>1, <2>2, Zenon
<1> QED BY <1>3, <1>4

\* The limit, as the flat array checks it.
LEMMA SameLimit ==
  ASSUME Proper, TypeInv, pc # "idle"
  PROVE  /\ req \in Requests /\ End = req.addr + Len(req.vals)
         /\ req.kind = "load" => (Flat!PastLimit(req) <=> ~CheckLimit(req.addr))
         /\ req.kind # "load" =>
              (Flat!PastLimit(req) <=> req.vals # << >> /\ ~CheckLimit(End))
<1>1. req \in Requests
  BY DEF TypeInv, CallInv
<1>2. /\ req.addr \in Addr /\ Len(req.vals) \in Addr
      /\ req.addr + Len(req.vals) < Top
  <2>1. req.addr \in Addr /\ Len(req.vals) \in Nat /\ Len(req.vals) < Half
    BY RequestFacts
  <2>2. Len(req.vals) \in Addr
    BY <2>1, WordFacts DEF Addr
  <2> QED BY <1>1, <2>1, <2>2 DEF Proper
<1>3. End = req.addr + Len(req.vals)
  BY <1>2, PlusMinusType DEF End
<1>4. /\ CheckLimit(req.addr) <=> (Limit # 0 => req.addr <= Limit)
      /\ CheckLimit(End) <=> (Limit # 0 => End <= Limit)
  BY DEF CheckLimit
<1>5. ~CheckLimit(req.addr) <=> Limit # 0 /\ req.addr > Limit
  BY <1>2, <1>4, WordFacts DEF Addr
<1>6. ~CheckLimit(End) <=> Limit # 0 /\ req.addr + Len(req.vals) > Limit
  <2>1. End <= Limit <=> ~(req.addr + Len(req.vals) > Limit)
    <3>1. req.addr \in Nat /\ Len(req.vals) \in Nat
      BY <1>2, WordFacts DEF Addr
    <3> QED BY <1>3, <3>1, WordFacts
  <2> QED BY <1>4, <2>1, Zenon
<1>7. Flat!PastLimit(req) <=> /\ Limit # 0
                              /\ IF req.kind = "load" THEN req.addr > Limit
                                 ELSE req.vals # << >> /\ req.addr + Len(req.vals) > Limit
  BY Zenon DEF Flat!PastLimit
<1> QED BY <1>1, <1>3, <1>5, <1>6, <1>7, Zenon

\* A call returns what the flat array answers.
LEMMA ReturnIsFlat ==
  ASSUME TypeInv, pc # "idle", ~Pending \/ ~(addr < End),
         Return(Flat!Answer(req)), UNCHANGED <<memory, req>>
  PROVE  Flat!Return
<1>1. FlatView = Shown
  BY NothingPending
<1>2. FlatView' = FlatView
  <2>1. ~Pending'
    BY DEF Return, Pending
  <2>2. FlatView' = [a \in Addr |-> View(a)']
    BY <2>1, Zenon DEF FlatView
  <2>3. \A a : View(a)' = View(a)
    BY DEF View, Covering, memory
  <2> QED BY <1>1, <2>2, <2>3, Zenon DEF Shown
<1>3. (pc # "idle") /\ (pc' # "idle") = FALSE /\ ans' = Flat!Answer(req) /\ req' = req
  BY DEF Return
<1> QED BY <1>2, <1>3, Zenon DEF Flat!Return
----------------------------------------------------------------------------
(* Every step is a step of the flat array, or none.                        *)

LEMMA NoneIsFlat ==
  ASSUME FlatView' = FlatView, UNCHANGED <<req, ans>>, pc = "idle" <=> pc' = "idle"
  PROVE  UNCHANGED Flat!vars
<1>1. (pc # "idle") = (pc' # "idle")
  OBVIOUS
<1> QED BY <1>1 DEF Flat!vars

LEMMA AnswerCases ==
  ASSUME TypeInv
  PROVE  /\ Flat!PastLimit(req) => Flat!Answer(req) = Failed
         /\ ~Flat!PastLimit(req) /\ req.kind = "load" =>
              Flat!Answer(req) = Done(<<FlatView[req.addr]>>)
         /\ ~Flat!PastLimit(req) /\ req.kind = "loadInto" =>
              Flat!Answer(req) =
                Done([i \in 1 .. Len(req.vals) |-> FlatView[req.addr + i - 1]])
         /\ ~Flat!PastLimit(req) /\ req.kind = "stor" => Flat!Answer(req) = Done(<< >>)
BY DEF Flat!Answer, Failed, Done, Flat!Failed, Flat!Done

LEMMA EnterLoadIsFlat ==
  ASSUME Proper, FlatInv, EnterLoad
  PROVE  Flat!Return \/ UNCHANGED Flat!vars
<1>1. /\ pc = "enter" /\ req.kind = "load" /\ addr = req.addr /\ UNCHANGED <<memory, req>>
      /\ TypeInv /\ OrderedPages
  BY DEF EnterLoad, FlatInv, DisjointInv, TypeInv, CallInv
<1>2. ~Pending /\ ~Pending'
  BY <1>1 DEF Pending
<1>3. Flat!PastLimit(req) <=> ~CheckLimit(addr)
  BY <1>1, SameLimit
<1>4. CASE ~CheckLimit(addr)
  <2>1. Return(Failed)
    BY <1>4 DEF EnterLoad
  <2>2. Flat!Answer(req) = Failed
    BY <1>1, <1>3, <1>4, AnswerCases
  <2> QED BY <1>1, <1>2, <2>1, <2>2, ReturnIsFlat
<1>5. CASE CheckLimit(addr) /\ (pageSize = 0 \/ pages = << >>)
  <2>1. Return(Done(<<0>>))
    BY <1>5 DEF EnterLoad
  <2>2. bases = << >> /\ req.addr \in Addr /\ req.addr \in Nat
    <3>1. pages = << >> => Len(bases) = 0
      BY <1>1, PagesFacts DEF TypeInv, MemoryInv
    <3> QED BY <1>1, <1>5, <3>1, PagesFacts, RequestFacts, WordFacts DEF TypeInv, MemoryInv, Addr
  <2>3. View(req.addr) = 0
    <3>1. Len(bases) = 0
      BY <2>2
    <3> QED BY <1>1, <2>2, <3>1, ViewFacts
  <2>4. FlatView[req.addr] = 0
    BY <1>1, <1>2, <2>2, <2>3, NothingPending DEF Shown
  <2>5. Flat!Answer(req) = Done(<<0>>)
    BY <1>1, <1>3, <1>5, <2>4, AnswerCases
  <2> QED BY <1>1, <1>2, <2>1, <2>5, ReturnIsFlat
<1>6. CASE BeginFind
  <2>1. FlatView' = FlatView
    BY <1>1, <1>2, SameView DEF memory
  <2> QED BY <1>1, <1>6, <2>1, NoneIsFlat DEF BeginFind
<1> QED BY <1>4, <1>5, <1>6 DEF EnterLoad

LEMMA EnterLoadIntoIsFlat ==
  ASSUME Proper, FlatInv, EnterLoadInto
  PROVE  Flat!Return \/ UNCHANGED Flat!vars
<1>1. /\ pc = "enter" /\ req.kind = "loadInto" /\ UNCHANGED <<memory, req>> /\ TypeInv
  BY DEF EnterLoadInto, FlatInv
<1>2. ~Pending /\ ~Pending'
  BY <1>1 DEF Pending
<1>3. Flat!PastLimit(req) <=> req.vals # << >> /\ ~CheckLimit(End)
  BY <1>1, SameLimit
<1>4. CASE req.vals = << >>
  <2>1. Return(Done(<< >>))
    BY <1>4 DEF EnterLoadInto
  <2>2. Flat!Answer(req) = Done([i \in 1 .. Len(req.vals) |-> FlatView[req.addr + i - 1]])
    BY <1>1, <1>3, <1>4, AnswerCases
  <2>3. [i \in 1 .. Len(req.vals) |-> FlatView[req.addr + i - 1]] = << >>
    <3>1. Len(req.vals) = 0
      BY <1>4
    <3> QED BY <3>1
  <2> QED BY <1>1, <1>2, <2>1, <2>2, <2>3, ReturnIsFlat
<1>5. CASE req.vals # << >> /\ ~CheckLimit(End)
  <2>1. Return(Failed)
    BY <1>5 DEF EnterLoadInto
  <2>2. Flat!Answer(req) = Failed
    BY <1>1, <1>3, <1>5, AnswerCases
  <2> QED BY <1>1, <1>2, <2>1, <2>2, ReturnIsFlat
<1>6. CASE BeginFind
  <2>1. FlatView' = FlatView
    BY <1>1, <1>2, SameView DEF memory
  <2> QED BY <1>1, <1>6, <2>1, NoneIsFlat DEF BeginFind
<1> QED BY <1>4, <1>5, <1>6 DEF EnterLoadInto

\* What a store has asked for is in the view from the start: finding the page
\* changes nothing.
LEMMA EnterStorIsFlat ==
  ASSUME Proper, FlatInv, EnterStor
  PROVE  Flat!Return \/ UNCHANGED Flat!vars
<1>1. /\ pc = "enter" /\ req.kind = "stor" /\ UNCHANGED <<bases, sizes, pages, req>>
      /\ TypeInv
  BY DEF EnterStor, FlatInv
<1>2. Flat!PastLimit(req) <=> req.vals # << >> /\ ~CheckLimit(End)
  BY <1>1, SameLimit
<1>3. CASE req.vals = << >>
  <2>1. Return(Done(<< >>)) /\ UNCHANGED memory
    BY <1>1, <1>3 DEF EnterStor, memory
  <2>2. Flat!Answer(req) = Done(<< >>) /\ ~Pending
    BY <1>1, <1>2, <1>3, AnswerCases DEF Pending
  <2> QED BY <1>1, <2>1, <2>2, ReturnIsFlat
<1>4. CASE req.vals # << >> /\ ~CheckLimit(End)
  <2>1. Return(Failed) /\ UNCHANGED memory
    BY <1>1, <1>4 DEF EnterStor, memory
  <2>2. Flat!Answer(req) = Failed /\ ~Pending
    BY <1>1, <1>2, <1>4, AnswerCases DEF Pending
  <2> QED BY <1>1, <2>1, <2>2, ReturnIsFlat
<1>5. CASE BeginFind
  <2>1. Pending' <=> Pending
    BY <1>1, <1>5 DEF BeginFind, Pending, CheckLimit, End
  <2>2. FlatView' = FlatView
    BY <1>1, <1>5, <2>1, SameView DEF BeginFind
  <2> QED BY <1>1, <1>5, <2>2, NoneIsFlat DEF BeginFind
<1> QED BY <1>3, <1>4, <1>5 DEF EnterStor

LEMMA FindIsFlat ==
  ASSUME FlatInv, FindStep \/ FindDone
  PROVE  UNCHANGED Flat!vars
<1>1. /\ pc = "find" /\ UNCHANGED <<memory, req, addr, ans>> /\ pc' \in {"find", req.kind}
      /\ req.kind \in Kinds
  BY RequestFacts DEF FindStep, FindDone, FlatInv
<1>2. Pending' <=> Pending
  BY <1>1 DEF Pending, CheckLimit, End, Kinds
<1>3. FlatView' = FlatView
  BY <1>1, <1>2, SameView DEF memory
<1> QED BY <1>1, <1>3, NoneIsFlat DEF Kinds

LEMMA LoadPageIsFlat ==
  ASSUME Proper, FlatInv, LoadPage
  PROVE  Flat!Return
<1>1. /\ pc = "load" /\ req.kind = "load" /\ addr = req.addr /\ CheckLimit(addr)
      /\ UNCHANGED <<memory, req>> /\ TypeInv /\ OrderedPages /\ pageID < Len(bases)
  BY DEF LoadPage, FlatInv, DisjointInv, TypeInv, CallInv, Kinds
<1>2. ~Pending
  BY <1>1 DEF Pending
<1> DEFINE i == Signed(addr, Base(pageID))
           v == IF i \in DOMAIN Page(pageID) THEN Page(pageID)[i] ELSE 0
<1>3. PICK c \in Nat : c = pageID + 1
  BY DEF FlatInv, TypeInv, TypeOK
<1>4. c \in 1 .. Len(bases) /\ Len(bases) \in Nat /\ pageID \in Nat
  BY <1>1, <1>3, PagesFacts DEF TypeInv, TypeOK
<1>5. PICK b \in Nat : b = bases[c]
  BY <1>1, <1>4, PageEndType
<1>6. PICK s \in Nat : s = sizes[c]
  BY <1>1, <1>4, PageEndType
<1>7. /\ addr \in Addr /\ addr \in Nat /\ b \in Addr /\ Base(pageID) = b /\ PageEnd(c) = b + s
      /\ s <= Half /\ Page(pageID) = pages[c] /\ DOMAIN pages[c] = 0 .. s - 1
  BY <1>1, <1>3, <1>4, <1>5, <1>6, PagesFacts, RequestFacts, WordFacts
  DEF Base, Page, PageEnd, FlatInv, ContentInv, Addr
<1>8. ASSUME NEW j \in 1 .. Len(bases), bases[j] <= addr, addr < PageEnd(j)
      PROVE  j = c
  <2>1. j <= pageID => PageEnd(j) <= addr
    BY <1>1 DEF FlatInv, DisjointInv, SearchInv, Kinds
  <2>2. pageID + 2 <= j => addr < bases[j]
    BY <1>1 DEF FlatInv, DisjointInv, SearchInv
  <2>3. bases[j] \in Nat /\ PageEnd(j) \in Nat
    BY <1>1, PageEndType
  <2> QED BY <1>3, <1>4, <1>7, <1>8, <2>1, <2>2, <2>3
<1>9. /\ b <= addr /\ addr < b + s => View(addr) = pages[c][addr - b]
      /\ ~(b <= addr /\ addr < b + s) => View(addr) = 0
  BY <1>1, <1>4, <1>5, <1>7, <1>8, ViewFacts
<1>10. v = View(addr)
  <2>1. v = IF i \in 0 .. s - 1 THEN pages[c][i] ELSE 0
    BY <1>7
  <2>2. i = (IF Minus(addr, b) < Half THEN Minus(addr, b) ELSE Minus(addr, b) - Top)
    BY <1>7 DEF Signed
  <2>3. Minus(addr, b) = (IF b <= addr THEN addr - b ELSE addr - b + Top)
    BY <1>7, PlusMinusType
  <2> HIDE DEF i, v
  <2>4. CASE b <= addr /\ addr - b < Half
    <3>1. i = addr - b
      BY <1>7, <2>2, <2>3, <2>4
    <3> QED BY <1>7, <1>9, <2>1, <2>4, <3>1
  <2>5. CASE b <= addr /\ ~(addr - b < Half)
    <3>1. i = addr - b - Top
      BY <1>7, <2>2, <2>3, <2>5
    <3>2. i \notin 0 .. s - 1
      BY <1>7, <3>1, WordFacts DEF Addr
    <3>3. ~(addr < b + s)
      BY <1>7, <2>5, WordFacts
    <3> QED BY <1>9, <2>1, <3>2, <3>3
  <2>6. CASE addr < b /\ addr - b + Top < Half
    <3>1. i = addr - b + Top
      BY <1>7, <2>2, <2>3, <2>6
    <3>2. i \in 0 .. s - 1 => pages[c][i] = 0
      <4>1. i \in Nat /\ b + i >= Top
        BY <1>7, <3>1, <2>6, WordFacts DEF Addr
      <4> QED BY <1>4, <1>5, <1>6, <4>1 DEF FlatInv, ContentInv
    <3> QED BY <1>7, <1>9, <2>1, <2>6, <3>2
  <2>7. CASE addr < b /\ ~(addr - b + Top < Half)
    <3>1. i = addr - b
      BY <1>7, <2>2, <2>3, <2>7, WordFacts
    <3>2. i \notin 0 .. s - 1
      BY <1>7, <2>7, <3>1, WordFacts
    <3> QED BY <1>7, <1>9, <2>1, <2>7, <3>2
  <2> QED BY <1>7, <2>4, <2>5, <2>6, <2>7
<1>11. Return(Done(<<v>>))
  BY DEF LoadPage
<1> HIDE DEF v
<1>12. FlatView[req.addr] = v
  BY <1>1, <1>2, <1>7, <1>10, NothingPending DEF Shown
<1>13. Flat!Answer(req) = Done(<<v>>)
  <2>1. ~Flat!PastLimit(req)
    BY <1>1, SameLimit
  <2> QED BY <1>1, <1>12, <2>1, AnswerCases
<1> QED BY <1>1, <1>2, <1>11, <1>13, ReturnIsFlat

LEMMA LoadIntoPageIsFlat ==
  ASSUME FlatInv, LoadIntoPage
  PROVE  UNCHANGED Flat!vars
<1>1. pc = "loadInto" /\ UNCHANGED <<memory, req, pc, ans>>
  BY DEF LoadIntoPage
<1>2. ~Pending /\ ~Pending'
  BY <1>1 DEF Pending
<1> QED BY <1>1, <1>2, SameView, NoneIsFlat DEF memory

\* When LoadInto stops, no page shows anything of what is left of its buffer.
LEMMA NothingLeft ==
  ASSUME SmallDistances, TypeInv, DisjointInv, pc = "loadInto", ~LoadIntoMore,
         NEW a \in Nat, addr <= a, a < End
  PROVE  View(a) = 0
<1>1. /\ addr \in Nat /\ addr \in Addr /\ End \in Addr /\ End \in Nat /\ addr < End
      /\ pageID \in Nat /\ pageID <= Len(bases) /\ Len(bases) \in Nat
  <2>1. addr \in Nat /\ addr \in Addr /\ End \in Addr /\ End \in Nat
    BY RequestFacts, WordFacts DEF Addr
  <2>2. pageID \in Nat /\ pageID <= Len(bases) /\ Len(bases) \in Nat
    BY PagesFacts DEF TypeInv, TypeOK, CallInv, Kinds
  <2> QED BY <2>1, <2>2
<1>2. End <= Half /\ End - addr < Half /\ Rest = End - addr
  <2>1. req \in Requests /\ req.kind = "loadInto" /\ req.addr <= addr
    BY DEF TypeInv, CallInv, Kinds
  <2>2. /\ req.addr \in Addr /\ Len(req.vals) \in Nat /\ Len(req.vals) < Half
        /\ End = req.addr + Len(req.vals)
    BY <1>1, RequestFacts
  <2>3. End <= Half
    BY <2>1, <2>2 DEF SmallDistances
  <2> QED BY <1>1, <2>1, <2>2, <2>3, WordFacts DEF Rest, Addr
<1>3. ASSUME NEW j \in 1 .. Len(bases), bases[j] <= a, a < PageEnd(j)
      PROVE  FALSE
  <2>1. bases[j] \in Nat /\ PageEnd(j) \in Nat
    BY PageEndType
  <2>2. ~(j <= pageID)
    <3>1. j <= pageID => PageEnd(j) <= addr
      BY <1>1 DEF DisjointInv, SearchInv, Kinds
    <3> QED BY <1>1, <1>3, <2>1, <3>1
  <2>3. PICK c \in 1 .. Len(bases) : c = pageID + 1
    BY <1>1, <2>2
  <2>4. PICK b \in Nat : b = bases[c]
    BY PageEndType
  <2>5. b \in Addr /\ Base(pageID) = b /\ pageID < Len(bases)
    BY <1>1, <2>3, <2>4, PagesFacts DEF Base
  <2>6. b <= a
    <3>1. c < j => PageEnd(c) <= bases[j]
      BY DEF DisjointInv, OrderedPages
    <3>2. b <= PageEnd(c) /\ PageEnd(c) \in Nat
      BY <2>4, PageEndType DEF PageEnd
    <3>3. c = j \/ c < j
      BY <1>1, <2>2, <2>3
    <3> QED BY <1>3, <2>1, <2>4, <3>1, <3>2, <3>3
  <2>7. Gap < Rest
    <3>1. CASE addr < b
      <4>1. Gap = b - addr
        BY <1>1, <1>2, <2>5, <2>6, <3>1, WordFacts DEF Gap, Skip, Signed, Minus, Addr
      <4> QED BY <1>1, <1>2, <2>6, <4>1
    <3>2. CASE b <= addr
      <4>1. Gap = 0
        BY <1>1, <1>2, <2>5, <3>2, WordFacts DEF Gap, Skip, Signed, Minus, Addr
      <4> QED BY <1>1, <1>2, <4>1
    <3> QED BY <1>1, <2>4, <3>1, <3>2
  <2>8. Base(pageID) <= End
    BY <1>1, <2>4, <2>5, <2>6
  <2> QED BY <1>1, <2>5, <2>7, <2>8 DEF LoadIntoMore
<1> QED BY <1>3, ViewFacts DEF DisjointInv

LEMMA LoadIntoDoneIsFlat ==
  ASSUME Proper, SmallDistances, FlatInv, LoadIntoDone
  PROVE  Flat!Return
<1>1. /\ pc = "loadInto" /\ req.kind = "loadInto" /\ req.vals # << >> /\ CheckLimit(End)
      /\ UNCHANGED <<memory, req>> /\ TypeInv /\ DisjointInv /\ ~LoadIntoMore
  BY DEF LoadIntoDone, FlatInv, TypeInv, CallInv, Kinds
<1>2. ~Pending
  BY <1>1 DEF Pending
<1> DEFINE V(x) == IF req.addr + x - 1 < addr THEN buf[x] ELSE 0
<1>3. Return(Done([x \in 1 .. Len(req.vals) |-> V(x)]))
  BY <1>1, BufferFacts DEF LoadIntoDone
<1>4. ASSUME NEW x \in 1 .. Len(req.vals)
      PROVE  V(x) = FlatView[req.addr + x - 1]
  <2>1. /\ req.addr \in Addr /\ Len(req.vals) \in Nat /\ End \in Addr
        /\ End = req.addr + Len(req.vals) /\ addr \in Addr
    BY <1>1, RequestFacts, SameLimit
  <2>2. PICK a \in Nat : a = req.addr + x - 1
    BY <2>1, WordFacts DEF Addr
  <2>3. a \in Addr /\ a < End
    BY <2>1, <2>2, WordFacts DEF Addr
  <2>4. FlatView[a] = View(a)
    BY <1>1, <1>2, <2>3, NothingPending DEF Shown
  <2>5. CASE a < addr
    <3>1. buf[x] = View(a)
      BY <1>1, <2>2, <2>5 DEF FlatInv, ContentInv
    <3> QED BY <2>2, <2>4, <2>5, <3>1
  <2>6. CASE addr <= a
    <3>1. View(a) = 0
      BY <1>1, <2>3, <2>6, NothingLeft
    <3>2. ~(a < addr)
      BY <2>1, <2>2, <2>6, WordFacts DEF Addr
    <3> QED BY <2>2, <2>4, <3>1, <3>2
  <2> QED BY <2>1, <2>2, <2>5, <2>6, WordFacts DEF Addr
<1> HIDE DEF V
<1>5. Flat!Answer(req) = Done([x \in 1 .. Len(req.vals) |-> V(x)])
  <2>1. ~Flat!PastLimit(req)
    BY <1>1, SameLimit
  <2>2. Flat!Answer(req) = Done([x \in 1 .. Len(req.vals) |-> FlatView[req.addr + x - 1]])
    BY <1>1, <2>1, AnswerCases
  <2>3. [x \in 1 .. Len(req.vals) |-> FlatView[req.addr + x - 1]]
          = [x \in 1 .. Len(req.vals) |-> V(x)]
    BY <1>4
  <2> QED BY <2>2, <2>3
<1> QED BY <1>1, <1>2, <1>3, <1>5, ReturnIsFlat

\* What Stor copies moves from what is left to copy into the pages.
LEMMA StorPageIsFlat ==
  ASSUME FlatInv, StorPage
  PROVE  UNCHANGED Flat!vars
<1>1. /\ pc = "stor" /\ addr < End /\ addr' = Upto /\ UNCHANGED <<req, pc, ans>> /\ End' = End
      /\ TypeInv /\ DisjointInv /\ req.kind = "stor" /\ req.vals # << >> /\ CheckLimit(End)
  BY StorFacts DEF StorPage, FlatInv, End, TypeInv, CallInv, Kinds
<1>2. Pending /\ Pending'
  BY <1>1 DEF Pending, CheckLimit
<1>3. addr \in Nat /\ Upto \in Nat /\ End \in Nat /\ addr <= Upto /\ Upto <= End
  BY <1>1, UptoFacts, RequestFacts, WordFacts DEF Addr
<1>4. ASSUME NEW a \in Addr
      PROVE  (IF a >= addr' /\ a < End' THEN req'.vals[a - req'.addr + 1] ELSE View(a)')
             = (IF a >= addr /\ a < End THEN req.vals[a - req.addr + 1] ELSE View(a))
  <2>1. a \in Nat
    BY WordFacts DEF Addr
  <2>2. /\ a \in addr .. Upto - 1 => View(a)' = req.vals[a - req.addr + 1]
        /\ a \notin addr .. Upto - 1 => View(a)' = View(a)
    BY <1>1, StorView
  <2>3. CASE a < addr
    BY <1>1, <1>3, <2>1, <2>2, <2>3
  <2>4. CASE addr <= a /\ a < Upto
    BY <1>1, <1>3, <2>1, <2>2, <2>4
  <2>5. CASE Upto <= a
    BY <1>1, <1>3, <2>1, <2>2, <2>5
  <2> QED BY <1>3, <2>1, <2>3, <2>4, <2>5
<1>5. FlatView' = FlatView
  <2>1. FlatView = [a \in Addr |-> IF a >= addr /\ a < End
                                   THEN req.vals[a - req.addr + 1] ELSE View(a)]
    BY <1>2, Zenon DEF FlatView
  <2>2. FlatView' = [a \in Addr |-> IF a >= addr' /\ a < End'
                                    THEN req'.vals[a - req'.addr + 1] ELSE View(a)']
    BY <1>2, Zenon DEF FlatView
  <2> QED BY <1>4, <2>1, <2>2, Zenon
<1> QED BY <1>1, <1>5, NoneIsFlat

LEMMA StorDoneIsFlat ==
  ASSUME Proper, FlatInv, StorDone
  PROVE  Flat!Return
<1>1. /\ pc = "stor" /\ ~(addr < End) /\ UNCHANGED <<memory, req>> /\ Return(Done(<< >>))
      /\ TypeInv /\ req.kind = "stor" /\ CheckLimit(End)
  BY DEF StorDone, FlatInv, TypeInv, CallInv, Kinds
<1>2. Flat!Answer(req) = Done(<< >>)
  BY <1>1, SameLimit, AnswerCases
<1> QED BY <1>1, <1>2, ReturnIsFlat

LEMMA CallIsFlat ==
  ASSUME Proper, FlatInv, NEW r \in Requests, Call(r)
  PROVE  Flat!Call(r)
<1>1. /\ pc = "idle" /\ req' = r /\ pc' = "enter" /\ addr' = r.addr
      /\ UNCHANGED <<bases, sizes, pages, ans>> /\ TypeInv
  BY DEF Call, FlatInv, memory
<1>2. FlatView = Shown
  <2>1. ~Pending
    BY <1>1 DEF Pending
  <2> QED BY <1>1, <2>1, NothingPending
<1>3. \A a : View(a)' = View(a)
  BY <1>1 DEF View, Covering
<1>4. /\ r.addr \in Addr /\ r.addr \in Nat /\ Len(r.vals) \in Nat /\ Len(r.vals) \in Addr
      /\ r.addr + Len(r.vals) < Top /\ (r.vals = << >> <=> Len(r.vals) = 0)
  <2>1. r.addr \in Addr /\ r.vals \in Seq(Values) /\ Len(r.vals) < Half
    BY RequestsAssumption DEF RequestType
  <2>2. Len(r.vals) \in Nat /\ (r.vals = << >> <=> Len(r.vals) = 0)
    BY <2>1, EmptySeq, LenProperties
  <2> QED BY <2>1, <2>2, WordFacts DEF Proper, Addr
<1>5. PICK e \in Nat : e = r.addr + Len(r.vals)
  BY <1>4
<1>6. End' = e
  <2>1. End' = Plus(r.addr, Len(r.vals))
    BY <1>1 DEF End
  <2> QED BY <1>4, <1>5, <2>1, PlusMinusType
<1>7. Pending' <=> r.kind = "stor" /\ r.vals # << >> /\ (Limit # 0 => e <= Limit)
  BY <1>1, <1>6 DEF Pending, CheckLimit
<1>8. r.kind = "stor" => (Flat!PastLimit(r) <=> Limit # 0 /\ r.vals # << >> /\ ~(e <= Limit))
  <2> SUFFICES ASSUME r.kind = "stor"
               PROVE  Flat!PastLimit(r) <=> Limit # 0 /\ r.vals # << >> /\ ~(e <= Limit)
    OBVIOUS
  <2>1. Flat!PastLimit(r) <=> Limit # 0 /\ r.vals # << >> /\ r.addr + Len(r.vals) > Limit
    BY DEF Flat!PastLimit
  <2>2. r.addr + Len(r.vals) > Limit <=> ~(e <= Limit)
    BY <1>4, <1>5, WordFacts
  <2> QED BY <2>1, <2>2, Zenon
<1>9. CASE ~Pending'
  <2>1. FlatView' = FlatView
    <3>1. FlatView' = [a \in Addr |-> View(a)']
      BY <1>9, Zenon DEF FlatView
    <3> QED BY <1>2, <1>3, <3>1, Zenon DEF Shown
  <2>2. CASE r.kind = "stor" /\ ~Flat!PastLimit(r)
    <3>1. r.vals = << >> /\ Len(r.vals) = 0
      BY <1>4, <1>7, <1>8, <1>9, <2>2, Zenon
    <3>2. Flat!Overwrite(FlatView, r.addr, r.vals)
            = [x \in 0 .. Top - 1 |-> IF x - r.addr \in 0 .. 0 - 1 THEN r.vals[x - r.addr + 1]
                                      ELSE FlatView[x]]
      BY <3>1 DEF Flat!Overwrite, Flat!Addr
    <3>3. Flat!Overwrite(FlatView, r.addr, r.vals) = [x \in Addr |-> FlatView[x]]
      BY <3>2 DEF Addr
    <3>4. FlatView = [x \in Addr |-> FlatView[x]]
      BY <1>2 DEF Shown
    <3> QED BY <1>1, <2>1, <2>2, <3>3, <3>4 DEF Flat!Call
  <2>3. CASE ~(r.kind = "stor" /\ ~Flat!PastLimit(r))
    BY <1>1, <2>1, <2>3 DEF Flat!Call
  <2> QED BY <2>2, <2>3
<1>10. CASE Pending'
  <2>1. r.kind = "stor" /\ ~Flat!PastLimit(r)
    BY <1>7, <1>8, <1>10, Zenon
  <2>2. FlatView' = [a \in Addr |-> IF a >= addr' /\ a < End'
                                    THEN req'.vals[a - req'.addr + 1] ELSE View(a)']
    BY <1>10, Zenon DEF FlatView
  <2>3. ASSUME NEW a \in Addr
        PROVE  (IF a >= addr' /\ a < End' THEN req'.vals[a - req'.addr + 1] ELSE View(a)')
               = (IF a - r.addr \in 0 .. Len(r.vals) - 1 THEN r.vals[a - r.addr + 1]
                  ELSE FlatView[a])
    <3>1. a \in Nat /\ FlatView[a] = View(a)'
      BY <1>2, <1>3, WordFacts DEF Shown, Addr
    <3>2. a - r.addr \in 0 .. Len(r.vals) - 1 <=> a >= addr' /\ a < End'
      BY <1>1, <1>4, <1>5, <1>6, <3>1
    <3> QED BY <1>1, <3>1, <3>2, Zenon
  <2>4. Flat!Overwrite(FlatView, r.addr, r.vals)
          = [a \in Addr |-> IF a - r.addr \in 0 .. Len(r.vals) - 1 THEN r.vals[a - r.addr + 1]
                            ELSE FlatView[a]]
    BY DEF Flat!Overwrite, Flat!Addr, Addr
  <2>5. FlatView' = Flat!Overwrite(FlatView, r.addr, r.vals)
    BY <2>2, <2>3, <2>4, Zenon
  <2> QED BY <1>1, <2>1, <2>5 DEF Flat!Call
<1> QED BY <1>9, <1>10

LEMMA SetPageSizeIsFlat ==
  ASSUME NEW p, SetPageSize(p)
  PROVE  UNCHANGED Flat!vars
<1>1. UNCHANGED <<bases, sizes, pages, req, pc, addr, ans>>
  BY DEF SetPageSize, locals
<1>2. Pending' <=> Pending
  BY <1>1 DEF Pending, CheckLimit, End
<1> QED BY <1>1, <1>2, SameView, NoneIsFlat

LEMMA NextIsFlat ==
  ASSUME Proper, SmallDistances, FlatInv, [Next]_vars
  PROVE  [Flat!Next]_(Flat!vars)
<1>1. CASE Step
  BY <1>1, EnterLoadIsFlat, EnterLoadIntoIsFlat, EnterStorIsFlat, FindIsFlat, LoadPageIsFlat,
     LoadIntoPageIsFlat, LoadIntoDoneIsFlat, StorPageIsFlat, StorDoneIsFlat
  DEF Step, Flat!Next
<1>2. CASE \E r \in Requests : Call(r)
  BY <1>2, CallIsFlat DEF Flat!Next
<1>3. CASE \E p \in Resizes[pageSize] : SetPageSize(p)
  BY <1>3, SetPageSizeIsFlat
<1>4. CASE UNCHANGED vars
  <2>1. UNCHANGED <<bases, sizes, pages, req, pc, addr, ans>>
    BY <1>4 DEF vars, memory, locals
  <2>2. Pending' <=> Pending
    BY <2>1 DEF Pending, CheckLimit, End
  <2> QED BY <2>1, <2>2, SameView, NoneIsFlat
<1> QED BY <1>1, <1>2, <1>3, <1>4 DEF Next

\* The paged memory behaves like one flat array, for every caller that does
\* not wrap around the end of the address space, and every page size that
\* divides the ones before it: a load sees every store that was answered
\* before it, across the bounds of pages and the holes between them, and
\* zero where nothing was stored; a request past the limit changes nothing.
THEOREM PagesAreFlat ==
  ASSUME DividingResizes, Proper, SmallDistances
  PROVE  Spec => ImplementsFlatMem
<1>1. Init => Flat!Init
  <2> SUFFICES ASSUME Init PROVE Flat!Init
    OBVIOUS
  <2>1. /\ bases = << >> /\ req = NoRequest /\ pc = "idle" /\ ans = Done(<< >>)
    BY DEF Init
  <2>2. \A a : View(a) = 0
    <3>1. DOMAIN bases = {}
      BY <2>1
    <3> QED BY <3>1 DEF View, Covering
  <2>3. FlatView = [a \in Addr |-> View(a)]
    <3>1. ~Pending
      BY <2>1 DEF Pending
    <3> QED BY <3>1, Zenon DEF FlatView
  <2>4. FlatView = [a \in Flat!Addr |-> 0]
    BY <2>2, <2>3 DEF Flat!Addr, Addr
  <2>5. req = Flat!NoRequest /\ ans = Flat!Done(<< >>)
    BY <2>1 DEF NoRequest, Done, Flat!NoRequest, Flat!Done
  <2> QED BY <2>1, <2>4, <2>5 DEF Flat!Init
<1>2. FlatInv /\ [Next]_vars => [Flat!Next]_(Flat!vars)
  BY NextIsFlat
<1> QED BY <1>1, <1>2, FlatInvHolds, PTL DEF Spec, ImplementsFlatMem, Flat!Spec
=============================================================================
