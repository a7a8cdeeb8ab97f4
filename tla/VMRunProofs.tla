---------------------------- MODULE VMRunProofs ----------------------------
(***************************************************************************)
(* Theorems about VMRun, for every list of outputs, buffer size, program   *)
(* and input writer.                                                       *)
(***************************************************************************)
EXTENDS VMRun, SequenceTheorems, TLAPS

\* The machine has left its loop, and the value it ends with is settled.
Ending == {"panicking", "returning", "recoverExit", "close", "gone"}
\* Recover's deferred functions are sending it, or have.
Recovering == {"recoverExit", "close", "gone"}

Working == \A i \in DOMAIN Sinks : mode[i] = "ok"
Exact == \A i \in DOMAIN Sinks : got[i] + held[i] = echoed
Empty == \A i \in DOMAIN Sinks : held[i] = 0 /\ ~failed[i]

\* A direct output holds nothing, and an output that met an error still
\* fails: its mode never becomes another.
SinksInv ==
  \A i \in DOMAIN Sinks : /\ ~Buffered(i) => held[i] = 0 /\ ~failed[i]
                          /\ failed[i] => mode[i] = "fails"

\* What the outputs were given, at every place of the machine.  While it runs
\* no write has failed; it reads, and finds the end of the input, with empty
\* buffers; a write that failed is the error that it halts with, and otherwise
\* halt itself writes what is left.
OutputInv ==
  /\ vm \in {"step", "check", "reading"} => Exact
  /\ vm = "reading" => Empty
  /\ vm = "halting" =>
       /\ val.by = "halt" /\ val.err \in {"nil", "write", "EOF", "read", "program"}
       /\ IF val.err = "write" THEN ~Working ELSE Exact
       /\ val.err \in {"EOF", "read"} => Empty
  /\ vm \in Ending /\ val.by = "halt" =>
       /\ val.err \in {"nil", "write", "EOF", "read", "program"}
       /\ Working => AllWritten
       /\ val.err \in {"nil", "EOF"} =>
            AllWritten \/ \E i \in DOMAIN Sinks : mode[i] = "panics"

\* How the machine ends: by a halt, by a run time panic or by the context.
ValInv ==
  vm \in Ending => /\ val.by \in {"halt", "panic", "return"}
                   /\ val.by = "panic" => val.err = "runtime"
                   /\ val.by = "return" => val.err = "context"
                   /\ vm = "panicking" => val.by # "return"
                   /\ vm = "returning" => val.by = "return"

\* The channel is empty until the machine ends; what it then holds, until the
\* caller takes it, is the value of the machine: recoverExitError, which
\* sends as well, finds the channel full.
ChannelInv ==
  /\ vm \notin Recovering => errch.buf = << >>
  /\ errch.closed => vm = "gone"
  /\ caller = "waiting" => result = "none"
  /\ caller = "waiting" /\ vm \in Recovering => errch.buf = <<val>>

IInv ==
  /\ TypeOK
  /\ SinksInv
  /\ OutputInv
  /\ ValInv
  /\ ChannelInv
  /\ MachineIsStill
  /\ RunReportsTheOutcome
----------------------------------------------------------------------------
(* The outputs.                                                            *)

LEMMA SinksFacts ==
  /\ Len(Sinks) \in Nat /\ DOMAIN Sinks = 1 .. Len(Sinks)
  /\ \A i \in DOMAIN Sinks : Sinks[i] \in {"buffered", "direct"}
BY SinksAssumption, LenProperties, ElementOfSeq

LEMMA CountFacts ==
  ASSUME TypeOK
  PROVE  /\ Cap \in Nat /\ Cap > 0 /\ echoed \in Nat /\ MaxEchoes \in Nat
         /\ \A i \in DOMAIN Sinks : /\ held[i] \in Nat /\ held[i] <= Cap
                                    /\ got[i] \in Nat /\ failed[i] \in BOOLEAN
                                    /\ mode[i] \in {"ok", "fails", "panics", "blocks"}
                                    /\ got[i] + held[i] <= echoed
BY CountsAssumption DEF TypeOK

\* A flush moves runes from the buffers to the outputs and loses none.
LEMMA FlushMoves ==
  ASSUME TypeOK, SinksInv, Flush
  PROVE  /\ echoed' = echoed
         /\ held' \in [DOMAIN Sinks -> 0 .. Cap] /\ got' \in [DOMAIN Sinks -> Nat]
         /\ failed' \in [DOMAIN Sinks -> BOOLEAN]
         /\ \A i \in DOMAIN Sinks : /\ got'[i] + held'[i] = got[i] + held[i]
                                    /\ ~Buffered(i) => held'[i] = 0 /\ ~failed'[i]
                                    /\ failed'[i] => mode[i] = "fails"
<1>1. \A i \in DOMAIN Sinks :
        /\ got'[i] = got[i] + (IF i \in Flushed THEN held[i] ELSE 0)
        /\ held'[i] = (IF i \in Flushed THEN 0 ELSE held[i])
        /\ failed'[i] = (failed[i] \/ (i \in Reached /\ Flushing(i) = "fails"))
  BY DEF Flush, Kept
<1>2. \A i \in DOMAIN Sinks : /\ ~Buffered(i) => Flushing(i) = "nothing"
                              /\ Flushing(i) = "fails" => failed[i] \/ mode[i] = "fails"
  BY DEF Flushing
<1>3. \A i \in DOMAIN Sinks : /\ held'[i] \in 0 .. Cap /\ got'[i] \in Nat
                              /\ got'[i] + held'[i] = got[i] + held[i]
  <2>1. TAKE i \in DOMAIN Sinks
  <2>2. CASE i \in Flushed
    BY <1>1, <2>2, CountFacts
  <2>3. CASE i \notin Flushed
    BY <1>1, <2>3, CountFacts
  <2> QED BY <2>2, <2>3
<1>4. \A i \in DOMAIN Sinks : /\ ~Buffered(i) => held'[i] = 0 /\ ~failed'[i]
                              /\ failed'[i] => mode[i] = "fails"
  BY <1>1, <1>2, CountFacts DEF SinksInv
<1> QED BY <1>1, <1>3, <1>4 DEF Flush

\* A flush that meets no error leaves the buffers empty.
LEMMA FlushEmpties ==
  ASSUME TypeOK, SinksInv, Flush, ~FlushPanics, ~FlushBlocks, FlushErr = "nil"
  PROVE  Empty'
<1>1. Reached = DOMAIN Sinks
  BY DEF FlushBlocks
<1>4. \A i \in DOMAIN Sinks : Flushing(i) \notin {"panics", "blocks"}
  BY <1>1, SinksFacts DEF Reached
<1>2. \A i \in DOMAIN Sinks : Flushing(i) # "fails"
  BY <1>1 DEF FlushErr
<1>3. \A i \in DOMAIN Sinks : ~failed[i] /\ (held[i] = 0 \/ i \in Flushed)
  BY <1>1, <1>2, <1>4, CountFacts DEF Flushing, SinksInv, Flushed
<1> QED BY <1>1, <1>2, <1>3, CountFacts DEF Flush, Kept, Empty

\* A flush that meets an error, panics or blocks met an output that does not work.
LEMMA FlushMeetsError ==
  ASSUME TypeOK, SinksInv
  PROVE  /\ FlushPanics => \E i \in DOMAIN Sinks : mode[i] = "panics"
         /\ FlushErr # "nil" => FlushErr = "write" /\ ~Working
         /\ FlushBlocks => ~Working
<1>1. \A i \in DOMAIN Sinks : Flushing(i) = "panics" => mode[i] = "panics"
  BY DEF Flushing
<1>2. \A i \in DOMAIN Sinks : Flushing(i) = "fails" => mode[i] = "fails"
  BY DEF Flushing, SinksInv
<1>3. Reached # DOMAIN Sinks => ~Working
  <2>1. \A i \in DOMAIN Sinks : Flushing(i) \in {"panics", "blocks"} => mode[i] # "ok"
    BY DEF Flushing
  <2>2. \A i \in DOMAIN Sinks : 1 .. i \subseteq DOMAIN Sinks
    BY SinksFacts
  <2> QED BY <2>1, <2>2 DEF Reached, Working
<1> QED BY <1>1, <1>2, <1>3 DEF FlushPanics, FlushBlocks, FlushErr, Reached, Working

\* With empty buffers a flush changes nothing.
LEMMA FlushOfEmpty ==
  ASSUME TypeOK, SinksInv, Flush, Empty
  PROVE  Empty' /\ ~FlushPanics /\ ~FlushBlocks /\ FlushErr = "nil"
<1>1. \A i \in DOMAIN Sinks : Flushing(i) = "nothing"
  BY DEF Empty, Flushing
<1>2. ~FlushPanics /\ ~FlushBlocks /\ FlushErr = "nil"
  <2>1. \A i \in DOMAIN Sinks : 1 .. i \subseteq DOMAIN Sinks
    BY SinksFacts
  <2> QED BY <1>1, <2>1 DEF FlushPanics, FlushBlocks, FlushErr, Reached
<1> QED BY <1>2, FlushEmpties

\* A rune that is echoed goes to every output, unless one does not work, and
\* twice to none.
LEMMA WriteCounts ==
  ASSUME TypeOK, SinksInv, Write, echoed < MaxEchoes
  PROVE  /\ echoed' = echoed + 1 /\ echoed' \in 0 .. MaxEchoes
         /\ held' \in [DOMAIN Sinks -> 0 .. Cap] /\ got' \in [DOMAIN Sinks -> Nat]
         /\ failed' \in [DOMAIN Sinks -> BOOLEAN]
         /\ \A i \in DOMAIN Sinks : /\ got'[i] + held'[i] <= got[i] + held[i] + 1
                                    /\ ~Buffered(i) => held'[i] = 0 /\ ~failed'[i]
                                    /\ failed'[i] => mode[i] = "fails"
         /\ Stops = {} => \A i \in DOMAIN Sinks : got'[i] + held'[i] = got[i] + held[i] + 1
         /\ Stops # {} => ~Working
<1> DEFINE done == {i \in DOMAIN Sinks : \A j \in Stops : i < j}
           full(i) == Buffered(i) /\ held[i] = Cap
<1>1. \A i \in DOMAIN Sinks :
        /\ got'[i] = got[i] + (IF i \notin done THEN 0
                               ELSE IF ~Buffered(i) THEN 1 ELSE IF full(i) THEN Cap ELSE 0)
        /\ held'[i] = (IF i \notin done \/ ~Buffered(i) THEN held[i]
                       ELSE IF full(i) THEN 1 ELSE held[i] + 1)
        /\ failed'[i] = (failed[i] \/ (Stops # {} /\ i = First(Stops) /\ Buffered(i)
                                       /\ Writing(i) = "fails"))
  BY DEF Write
<1>2. \A i \in DOMAIN Sinks : /\ held'[i] \in 0 .. Cap /\ got'[i] \in Nat
                              /\ got'[i] + held'[i] = got[i] + held[i] + (IF i \in done THEN 1 ELSE 0)
  <2>1. TAKE i \in DOMAIN Sinks
  <2> HIDE DEF done
  <2>2. CASE i \notin done
    BY <1>1, <2>2, CountFacts
  <2>3. CASE i \in done /\ ~Buffered(i)
    BY <1>1, <2>3, CountFacts DEF SinksInv
  <2>4. CASE i \in done /\ full(i)
    BY <1>1, <2>4, CountFacts
  <2>5. CASE i \in done /\ Buffered(i) /\ ~full(i)
    BY <1>1, <2>5, CountFacts
  <2> QED BY <2>2, <2>3, <2>4, <2>5
<1>3. \A i \in DOMAIN Sinks : /\ ~Buffered(i) => held'[i] = 0 /\ ~failed'[i]
                              /\ failed'[i] => mode[i] = "fails"
  <2>1. \A i \in DOMAIN Sinks : Buffered(i) /\ Writing(i) = "fails" => mode[i] = "fails"
    BY DEF Writing, SinksInv
  <2> QED BY <1>1, <2>1, CountFacts DEF SinksInv
<1>4. ASSUME Stops = {}
      PROVE  \A i \in DOMAIN Sinks : got'[i] + held'[i] = got[i] + held[i] + 1
  <2>1. done = DOMAIN Sinks
    BY <1>4
  <2> HIDE DEF done
  <2> QED BY <1>2, <2>1
<1>5. Stops # {} => ~Working
  <2>1. \A i \in DOMAIN Sinks : Writing(i) # "ok" => mode[i] # "ok"
    BY DEF Writing, SinksInv
  <2> QED BY <2>1 DEF Stops, Working
<1>6. echoed' = echoed + 1 /\ echoed' \in 0 .. MaxEchoes
  BY CountFacts DEF Write
<1>7. \A i \in DOMAIN Sinks : got'[i] + held'[i] <= got[i] + held[i] + 1
  <2> HIDE DEF done
  <2> QED BY <1>2, CountFacts
<1>8. /\ held' \in [DOMAIN Sinks -> 0 .. Cap] /\ got' \in [DOMAIN Sinks -> Nat]
      /\ failed' \in [DOMAIN Sinks -> BOOLEAN]
  BY <1>1, <1>2 DEF Write
<1> QED BY <1>3, <1>4, <1>5, <1>6, <1>7, <1>8
----------------------------------------------------------------------------
(* The steps of the machine.                                               *)

LEMMA InitIInv ==
  Init => IInv
<1> SUFFICES ASSUME Init PROVE IInv
  OBVIOUS
<1>1. TypeOK
  BY SinksFacts, CountsAssumption DEF Init, TypeOK, NoVal
<1>2. SinksInv /\ OutputInv
  BY SinksFacts DEF Init, SinksInv, OutputInv, Exact, Ending
<1> QED
  BY <1>1, <1>2 DEF Init, IInv, ValInv, ChannelInv, Ending, Recovering, MachineIsStill,
                    RunReportsTheOutcome

\* While the machine runs nobody else has moved: the caller waits and the
\* channel is empty.
LEMMA RunningFacts ==
  ASSUME IInv, vm \notin Recovering
  PROVE  /\ caller = "waiting" /\ result = "none"
         /\ errch.buf = << >> /\ ~errch.closed
BY DEF IInv, TypeOK, ChannelInv, MachineIsStill, Recovering

Vals == [by : {"none", "halt", "panic", "return"},
         err : {"none", "nil", "write", "runtime", "EOF", "read", "program", "context"}]

InputType ==
  /\ writer \in {"writing", "silent", "closed"} /\ left \in 0 .. Chunks
  /\ source \in {"pipe", "stdin"} /\ stdin \in {"open", "ended", "broken"}

\* A step of the machine in its loop or in halt, which leaves the channel and
\* the caller alone, keeps the invariant when it keeps what concerns its
\* place, its value and the outputs.
LEMMA MachineStep ==
  ASSUME IInv, NotInput, InputType', vm \notin Recovering,
         vm' \in {"step", "looping", "check", "reading", "blocked", "halting", "panicking",
                 "returning"},
         val' \in Vals,
         echoed' \in 0 .. MaxEchoes,
         held' \in [DOMAIN Sinks -> 0 .. Cap], got' \in [DOMAIN Sinks -> Nat],
         failed' \in [DOMAIN Sinks -> BOOLEAN],
         \A i \in DOMAIN Sinks : got'[i] + held'[i] <= echoed',
         SinksInv', OutputInv', ValInv'
  PROVE  IInv'
<1>1. TypeOK'
  BY DEF IInv, TypeOK, NotInput, InputType, Vals, world
<1>2. ChannelInv' /\ MachineIsStill' /\ RunReportsTheOutcome'
  BY RunningFacts
     DEF NotInput, ChannelInv, MachineIsStill, RunReportsTheOutcome, Recovering
<1> QED BY <1>1, <1>2 DEF IInv

LEMMA VMOnlyFacts ==
  ASSUME IInv, VMOnly
  PROVE  NotInput /\ InputType'
BY DEF IInv, TypeOK, VMOnly, NotInput, InputType, input

LEMMA EchoKeepsIInv ==
  ASSUME IInv, Echo
  PROVE  IInv'
<1>1. /\ TypeOK /\ SinksInv /\ VMOnly /\ vm = "step" /\ Write /\ echoed < MaxEchoes
      /\ Exact /\ mode' = mode
  BY DEF IInv, Echo, OutputInv, VMOnly, world
<1>2. \/ Stops = {} /\ vm' = "check" /\ val' = val
      \/ Stops # {} /\ vm' = "halting" /\ val' = Val("halt", "write")
      \/ vm' = "panicking" /\ val' = Val("panic", "runtime")
      \/ vm' = "blocked" /\ val' = val
  BY DEF Echo, HaltsWith, PanicsWith, Blocks
<1>3. SinksInv'
  BY <1>1, WriteCounts DEF SinksInv, Buffered
<1>4. \A i \in DOMAIN Sinks : got'[i] + held'[i] <= echoed'
  BY <1>1, WriteCounts, CountFacts
<1>5. Stops = {} => Exact'
  BY <1>1, WriteCounts DEF Exact
<1>6. Stops # {} => ~Working'
  BY <1>1, WriteCounts DEF Working
<1>7. OutputInv' /\ ValInv'
  BY <1>2, <1>5, <1>6 DEF OutputInv, ValInv, Ending, Val
<1>8. val' \in Vals
  BY <1>1, <1>2 DEF TypeOK, Val, Vals
<1> QED BY <1>1, <1>2, <1>3, <1>4, <1>7, <1>8, WriteCounts, MachineStep, VMOnlyFacts DEF Recovering

LEMMA BeginReadKeepsIInv ==
  ASSUME IInv, BeginRead
  PROVE  IInv'
<1>1. /\ TypeOK /\ SinksInv /\ VMOnly /\ vm = "step" /\ Flush /\ Exact /\ mode' = mode
  BY DEF IInv, BeginRead, OutputInv, VMOnly, world
<1>2. \/ ~FlushPanics /\ ~FlushBlocks /\ FlushErr = "nil" /\ vm' = "reading" /\ val' = val
      \/ FlushErr = "write" /\ ~Working /\ vm' = "halting" /\ val' = Val("halt", "write")
      \/ vm' = "panicking" /\ val' = Val("panic", "runtime")
      \/ vm' = "blocked" /\ val' = val
  BY <1>1, FlushMeetsError DEF BeginRead, HaltsWith, PanicsWith, Blocks
<1>3. SinksInv'
  BY <1>1, FlushMoves DEF SinksInv, Buffered
<1>4. Exact' /\ (Working => Working')
  BY <1>1, FlushMoves DEF Exact, Working
<1>5. \A i \in DOMAIN Sinks : got'[i] + held'[i] <= echoed'
  BY <1>1, FlushMoves, CountFacts
<1>6. ~Working => ~Working'
  BY <1>1 DEF Working
<1>7. OutputInv' /\ ValInv'
  BY <1>1, <1>2, <1>4, <1>6, FlushEmpties DEF OutputInv, ValInv, Ending, Val
<1>8. val' \in Vals
  BY <1>1, <1>2 DEF TypeOK, Val, Vals
<1>9. echoed' \in 0 .. MaxEchoes
  BY <1>1, FlushMoves DEF TypeOK
<1> QED BY <1>1, <1>2, <1>3, <1>5, <1>7, <1>8, <1>9, FlushMoves, MachineStep, VMOnlyFacts DEF Recovering

LEMMA HaltKeepsIInv ==
  ASSUME IInv, Halt
  PROVE  IInv'
<1>1. /\ TypeOK /\ SinksInv /\ VMOnly /\ vm = "halting" /\ Flush
      /\ mode' = mode
      /\ val.by = "halt" /\ val.err \in {"nil", "write", "EOF", "read", "program"}
      /\ IF val.err = "write" THEN ~Working ELSE Exact
      /\ val.err \in {"EOF", "read"} => Empty
  BY DEF IInv, Halt, OutputInv, VMOnly, world
<1>2. \/ FlushBlocks /\ vm' = "blocked" /\ val' = val
      \/ /\ ~FlushBlocks /\ vm' = "panicking"
         /\ val' = (IF val.err = "nil" /\ ~FlushPanics THEN Val("halt", FlushErr) ELSE val)
  BY DEF Halt, Blocks
<1>3. SinksInv'
  BY <1>1, FlushMoves DEF SinksInv, Buffered
<1>4. \A i \in DOMAIN Sinks : got'[i] + held'[i] <= echoed'
  BY <1>1, FlushMoves, CountFacts
<1>5. ASSUME Exact, ~FlushPanics, ~FlushBlocks, FlushErr = "nil"
      PROVE  AllWritten'
  <2>1. Empty'
    BY <1>1, <1>5, FlushEmpties
  <2>2. \A i \in DOMAIN Sinks : got'[i] = echoed'
    BY <1>1, <1>5, <2>1, FlushMoves DEF Exact, Empty
  <2> QED BY <2>2 DEF AllWritten
<1>6. /\ FlushPanics => \E i \in DOMAIN Sinks : mode'[i] = "panics"
      /\ FlushErr \in {"nil", "write"} /\ (FlushErr = "write" => ~Working)
      /\ FlushBlocks => ~Working
  BY <1>1, FlushMeetsError
<1>7. (Working' <=> Working) /\ (FlushPanics => ~Working)
  BY <1>1, <1>6 DEF Working
<1>8. val'.by = "halt" /\ val'.err \in {"nil", "write", "EOF", "read", "program"}
  BY <1>1, <1>2, <1>6 DEF Val
<1>9. Working' => AllWritten'
  BY <1>1, <1>5, <1>6, <1>7
<1>10. vm' = "panicking" /\ val'.err \in {"nil", "EOF"} =>
         AllWritten' \/ \E i \in DOMAIN Sinks : mode'[i] = "panics"
  <2>1. CASE val.err = "nil"
    BY <1>1, <1>2, <1>5, <1>6, <2>1 DEF Val
  <2>2. CASE val.err = "EOF"
    BY <1>1, <1>5, <2>2, FlushOfEmpty
  <2> QED BY <1>1, <1>2, <2>1, <2>2
<1>11. OutputInv' /\ ValInv'
  BY <1>1, <1>2, <1>8, <1>9, <1>10 DEF OutputInv, ValInv, Ending
<1>12. val' \in Vals
  BY <1>1, <1>2, <1>6 DEF TypeOK, Val, Vals
<1>13. echoed' \in 0 .. MaxEchoes
  BY <1>1, FlushMoves DEF TypeOK
<1> QED BY <1>1, <1>2, <1>3, <1>4, <1>11, <1>12, <1>13, FlushMoves, MachineStep, VMOnlyFacts DEF Recovering

\* The steps that leave the outputs alone.
LEMMA QuietStep ==
  ASSUME IInv, NotInput, InputType', UNCHANGED output, vm \notin Recovering,
         \/ vm' \in {"step", "check"} /\ vm \in {"step", "check", "reading"} /\ val' = val
         \/ vm' = "reading" /\ vm = "reading" /\ val' = val
         \/ vm' = "looping" /\ val' = val
         \/ /\ vm' = "halting" /\ val'.by = "halt"
            /\ \/ vm \in {"step", "reading"} /\ val'.err \in {"nil", "program"}
               \/ vm = "reading" /\ val'.err \in {"EOF", "read"}
         \/ vm' = "panicking" /\ val' = Val("panic", "runtime")
         \/ vm' = "returning" /\ val' = Val("return", "context"),
         val' \in Vals
  PROVE  IInv'
<1>1. /\ echoed' = echoed /\ held' = held /\ got' = got /\ failed' = failed /\ mode' = mode
      /\ TypeOK /\ SinksInv /\ OutputInv
  BY DEF IInv, NotInput, output, world
<1>2. SinksInv'
  BY <1>1 DEF SinksInv, Buffered
<1>3. Exact' = Exact /\ Empty' = Empty
  BY <1>1 DEF Exact, Empty
<1>4. OutputInv'
  BY <1>1, <1>3 DEF OutputInv, Ending, Val
<1>5. ValInv'
  BY DEF ValInv, Ending, Val
<1>6. /\ echoed' \in 0 .. MaxEchoes
      /\ held' \in [DOMAIN Sinks -> 0 .. Cap] /\ got' \in [DOMAIN Sinks -> Nat]
      /\ failed' \in [DOMAIN Sinks -> BOOLEAN]
      /\ \A i \in DOMAIN Sinks : got'[i] + held'[i] <= echoed'
  BY <1>1 DEF TypeOK
<1> QED BY <1>2, <1>4, <1>5, <1>6, MachineStep

LEMMA ComputeKeepsIInv ==
  ASSUME IInv,
         Compute \/ Loop \/ ReadPipe \/ PipeEnds \/ ReadStdin \/ ReadFails \/ ProgramHalts
           \/ ProgramPanics \/ CheckContext
  PROVE  IInv'
<1>1. val \in Vals /\ InputType /\ Chunks \in Nat
  BY CountsAssumption DEF IInv, TypeOK, Vals, InputType
<1>2. CASE Compute \/ Loop
  BY <1>1, <1>2, QuietStep, VMOnlyFacts DEF Compute, Loop, Recovering, output
<1>3. CASE ReadPipe
  <2>1. InputType'
    BY <1>1, <1>3 DEF ReadPipe, InputType
  <2> QED BY <1>1, <1>3, <2>1, QuietStep DEF ReadPipe, ReadOn, Recovering
<1>4. CASE PipeEnds
  <2>1. InputType'
    BY <1>1, <1>4 DEF PipeEnds, InputType
  <2> QED BY <1>1, <1>4, <2>1, QuietStep DEF PipeEnds, ReadOn, Recovering
<1>5. CASE ReadStdin
  BY <1>1, <1>5, QuietStep, VMOnlyFacts DEF ReadStdin, ReadOn, Recovering
<1>6. CASE ReadFails
  BY <1>1, <1>6, QuietStep, VMOnlyFacts DEF ReadFails, HaltsWith, Val, Vals, Recovering
<1>7. CASE ProgramHalts
  BY <1>1, <1>7, QuietStep, VMOnlyFacts DEF ProgramHalts, HaltsWith, Val, Vals, Recovering
<1>8. CASE ProgramPanics
  BY <1>1, <1>8, QuietStep, VMOnlyFacts DEF ProgramPanics, PanicsWith, Val, Vals, Recovering
<1>9. CASE CheckContext
  BY <1>1, <1>9, QuietStep, VMOnlyFacts DEF CheckContext, Val, Vals, Recovering
<1> QED BY <1>2, <1>3, <1>4, <1>5, <1>6, <1>7, <1>8, <1>9
----------------------------------------------------------------------------
(* The deferred functions of Recover, the caller and the world.            *)

\* A step that leaves the outputs, their modes and the value of the machine
\* alone, and the machine in its place or on its way out, keeps the
\* conjuncts about these.
LEMMA OutputsKept ==
  ASSUME IInv, UNCHANGED <<val, output, mode>>,
         \/ vm' = vm
         \/ vm \in {"panicking", "returning", "recoverExit", "close"} /\ vm' \in Recovering
  PROVE  SinksInv' /\ OutputInv' /\ ValInv'
<1>1. /\ echoed' = echoed /\ held' = held /\ got' = got /\ failed' = failed /\ mode' = mode
      /\ val' = val /\ SinksInv /\ OutputInv /\ ValInv
  BY DEF IInv, output
<1>2. /\ SinksInv' = SinksInv /\ Exact' = Exact /\ Empty' = Empty /\ Working' = Working
      /\ AllWritten' = AllWritten
  BY <1>1 DEF SinksInv, Buffered, Exact, Empty, Working, AllWritten
<1>3. OutputInv' /\ ValInv'
  BY <1>1, <1>2 DEF OutputInv, ValInv, Ending, Recovering
<1> QED BY <1>1, <1>2, <1>3

SentVals == [by : {"halt", "panic", "return", "exit"},
             err : {"nil", "write", "runtime", "EOF", "read", "program", "context", "exit"}]
ChannelType == errch \in [buf : Seq(SentVals), closed : BOOLEAN] /\ Len(errch.buf) <= 1

LEMMA SentFacts ==
  ASSUME TypeOK, errch.buf = << >>, NEW v \in SentVals, errch' = Sent(v)
  PROVE  errch'.buf = <<v>> /\ errch'.closed = errch.closed /\ ChannelType'
<1>1. errch \in [buf : Seq(SentVals), closed : BOOLEAN]
  BY DEF TypeOK, SentVals
<1>2. Append(<< >>, v) = <<v>> /\ <<v>> \in Seq(SentVals) /\ Len(<<v>>) = 1
  OBVIOUS
<1>3. errch' = [errch EXCEPT !.buf = <<v>>]
  BY <1>2 DEF Sent
<1>4. errch' = [buf |-> <<v>>, closed |-> errch.closed]
  BY <1>1, <1>3
<1>5. errch.closed \in BOOLEAN
  BY <1>1
<1>6. errch'.buf = <<v>> /\ errch'.closed = errch.closed
  BY <1>4
<1>7. errch' \in [buf : Seq(SentVals), closed : BOOLEAN]
  BY <1>2, <1>4, <1>5
<1> QED BY <1>2, <1>6, <1>7 DEF ChannelType

LEMMA TrySendFacts ==
  ASSUME TypeOK, NEW v \in SentVals, TrySend(v)
  PROVE  /\ errch'.buf = IF errch.buf = << >> THEN <<v>> ELSE errch.buf
         /\ errch'.closed = errch.closed /\ ChannelType'
<1>1. CASE errch.buf = << >>
  BY <1>1, SentFacts DEF TrySend
<1>2. CASE errch.buf # << >>
  BY <1>2 DEF TrySend, TypeOK, ChannelType, SentVals
<1> QED BY <1>1, <1>2

\* A step of Recover's deferred functions.
LEMMA RecoverStep ==
  ASSUME IInv, TailOnly, ChannelType',
         vm \in {"panicking", "returning", "recoverExit", "close"}, vm' \in Recovering,
         errch'.closed => vm' = "gone",
         caller = "waiting" => errch'.buf = <<val>>
  PROVE  IInv'
<1>1. SinksInv' /\ OutputInv' /\ ValInv'
  BY OutputsKept DEF TailOnly, world
<1>2. TypeOK'
  BY DEF IInv, TypeOK, TailOnly, ChannelType, SentVals, Recovering, output, input, world
<1>3. ChannelInv' /\ MachineIsStill' /\ RunReportsTheOutcome'
  BY DEF IInv, ChannelInv, MachineIsStill, RunReportsTheOutcome, TailOnly, Recovering,
         Returned
<1> QED BY <1>1, <1>2, <1>3 DEF IInv

LEMMA RecoverKeepsIInv ==
  ASSUME IInv, Return \/ RecoverPanic \/ RecoverExit \/ CloseChannel
  PROVE  IInv'
<1>1. TypeOK /\ ChannelInv /\ ValInv /\ OutputInv /\ val \in Vals
  BY DEF IInv, TypeOK, Vals
<1>2. /\ vm \in Ending => val \in SentVals
      /\ Val("exit", "exit") \in SentVals
  <2>1. val = [by |-> val.by, err |-> val.err]
    BY <1>1 DEF Vals
  <2>2. vm \in Ending =>
          /\ val.by \in {"halt", "panic", "return"}
          /\ val.err \in {"nil", "write", "runtime", "EOF", "read", "program", "context"}
    BY <1>1 DEF ValInv, OutputInv
  <2> QED BY <2>1, <2>2 DEF SentVals, Val
<1>3. CASE Return
  <2>1. vm = "returning" /\ errch.buf = << >> /\ errch' = Sent(val) /\ vm' = "recoverExit"
        /\ TailOnly
    BY <1>3 DEF Return
  <2>2. errch'.buf = <<val>> /\ ~errch'.closed /\ ChannelType'
    BY <1>1, <1>2, <2>1, SentFacts DEF ChannelInv, TypeOK, Ending
  <2> QED BY <2>1, <2>2, RecoverStep DEF Recovering
<1>4. CASE RecoverPanic
  <2>1. vm = "panicking" /\ TrySend(val) /\ vm' = "recoverExit" /\ TailOnly
    BY <1>4 DEF RecoverPanic
  <2>2. errch'.buf = <<val>> /\ ~errch'.closed /\ ChannelType'
    BY <1>1, <1>2, <2>1, TrySendFacts DEF ChannelInv, TypeOK, Ending, Recovering
  <2> QED BY <2>1, <2>2, RecoverStep DEF Recovering
<1>5. CASE RecoverExit
  <2>1. vm = "recoverExit" /\ TrySend(Val("exit", "exit")) /\ vm' = "close" /\ TailOnly
    BY <1>5 DEF RecoverExit
  <2>2. /\ caller = "waiting" => errch'.buf = <<val>>
        /\ ~errch'.closed /\ ChannelType'
    <3>1. /\ errch'.buf = IF errch.buf = << >> THEN <<Val("exit", "exit")>> ELSE errch.buf
          /\ errch'.closed = errch.closed /\ ChannelType'
      BY <1>1, <1>2, <2>1, TrySendFacts
    <3>2. caller = "waiting" => errch.buf = <<val>>
      BY <1>1, <2>1 DEF ChannelInv, Recovering
    <3>3. ~errch.closed /\ <<val>> # << >>
      BY <1>1, <2>1 DEF ChannelInv, TypeOK
    <3> QED BY <3>1, <3>2, <3>3
  <2> QED BY <2>1, <2>2, RecoverStep DEF Recovering
<1>6. CASE CloseChannel
  <2>1. vm = "close" /\ errch' = [errch EXCEPT !.closed = TRUE] /\ vm' = "gone" /\ TailOnly
    BY <1>6 DEF CloseChannel
  <2>2. errch \in [buf : Seq(SentVals), closed : BOOLEAN] /\ Len(errch.buf) <= 1
    BY <1>1 DEF TypeOK, SentVals
  <2>3. errch' = [buf |-> errch.buf, closed |-> TRUE] /\ errch.buf \in Seq(SentVals)
    BY <2>1, <2>2
  <2>4. errch'.buf = errch.buf /\ ChannelType'
    BY <2>2, <2>3 DEF ChannelType
  <2> QED BY <1>1, <2>1, <2>4, RecoverStep DEF Recovering, ChannelInv
<1> QED BY <1>3, <1>4, <1>5, <1>6

LEMMA ReceiveKeepsIInv ==
  ASSUME IInv, Receive
  PROVE  IInv'
<1>1. /\ TypeOK /\ ChannelInv /\ ValInv /\ OutputInv /\ caller = "waiting" /\ Over
      /\ vm \in Recovering /\ errch.buf = <<val>>
  BY DEF IInv, Receive, Over, ChannelInv, Recovering
<1>2. /\ result' = Returned(val) /\ errch' = [errch EXCEPT !.buf = << >>]
      /\ caller' = "returned" /\ UNCHANGED <<vm, val, output, input, world>>
  <2>1. Head(<<val>>) = val /\ Tail(<<val>>) = << >> /\ <<val>> # << >>
    OBVIOUS
  <2> QED BY <1>1, <2>1 DEF Receive
<1>3. errch'.buf = << >> /\ errch'.closed = errch.closed /\ ChannelType'
  <2>1. errch \in [buf : Seq(SentVals), closed : BOOLEAN]
    BY <1>1 DEF TypeOK, SentVals
  <2>2. errch' = [buf |-> << >>, closed |-> errch.closed] /\ errch.closed \in BOOLEAN
    BY <1>2, <2>1
  <2>3. << >> \in Seq(SentVals) /\ Len(<< >>) = 0
    OBVIOUS
  <2> QED BY <2>2, <2>3 DEF ChannelType
<1>4. SinksInv' /\ OutputInv' /\ ValInv'
  BY <1>2, OutputsKept DEF world
<1>5. Returned(val) \in {"none", "nil", "write", "panic", "read", "program", "context"}
  BY <1>1 DEF ValInv, OutputInv, Ending, Recovering, Returned
<1>6. TypeOK'
  <2>1. caller' \in {"waiting", "returned", "closed"} /\ ChannelType' /\ result' = Returned(val)
    BY <1>2, <1>3
  <2> QED BY <1>1, <1>2, <1>5, <2>1
     DEF TypeOK, ChannelType, SentVals, output, input, world
<1>7. ChannelInv' /\ MachineIsStill' /\ RunReportsTheOutcome'
  BY <1>1, <1>2, <1>3
     DEF ChannelInv, MachineIsStill, RunReportsTheOutcome, Recovering, Returned
<1> QED BY <1>4, <1>6, <1>7 DEF IInv

\* The caller's Close, the input writer, the context and the standard input.
LEMMA OthersKeepIInv ==
  ASSUME IInv, Close \/ WriterEnds \/ WriterFails \/ WriterStalls \/ Expire \/ StdinEnds
  PROVE  IInv'
<1>1. /\ UNCHANGED <<vm, val, errch, result, output, mode>>
      /\ \/ caller' = caller
         \/ caller = "returned" /\ caller' = "closed"
  <2>1. CASE Close
    BY <2>1 DEF Close, world
  <2>2. CASE WriterEnds \/ WriterFails \/ WriterStalls
    BY <2>2 DEF WriterEnds, WriterFails, WriterStalls, WriterOnly, world
  <2>3. CASE Expire \/ StdinEnds
    BY <2>3 DEF Expire, StdinEnds, world
  <2> QED BY <2>1, <2>2, <2>3
<1>2. InputType' /\ ctx' \in {"live", "expired"}
  BY DEF IInv, TypeOK, InputType, Close, WriterEnds, WriterFails, WriterStalls, WriterOnly, Expire,
         StdinEnds, input, world
<1>3. SinksInv' /\ OutputInv' /\ ValInv'
  BY <1>1, OutputsKept
<1>4. TypeOK'
  BY <1>1, <1>2 DEF IInv, TypeOK, InputType, output
<1>5. ChannelInv' /\ MachineIsStill' /\ RunReportsTheOutcome'
  BY <1>1 DEF IInv, ChannelInv, MachineIsStill, RunReportsTheOutcome, Recovering, Returned
<1> QED BY <1>3, <1>4, <1>5 DEF IInv

\* An output that breaks is one that worked: what a write or a flush has met
\* stays met.
LEMMA SinkBreaksKeepsIInv ==
  ASSUME IInv, SinkBreaks
  PROVE  IInv'
<1>1. PICK i \in DOMAIN Sinks :
        mode[i] = "ok" /\ \E how \in {"fails", "panics", "blocks"} : mode' = [mode EXCEPT ![i] = how]
  BY DEF SinkBreaks
<1>2. /\ UNCHANGED <<vm, val, errch, caller, result, output, input, ctx>>
      /\ TypeOK /\ SinksInv /\ OutputInv
  BY DEF SinkBreaks, IInv
<1>3. /\ mode' \in [DOMAIN Sinks -> {"ok", "fails", "panics", "blocks"}]
      /\ \A j \in DOMAIN Sinks : mode[j] # "ok" => mode'[j] = mode[j]
      /\ ~Working'
  BY <1>1, <1>2 DEF TypeOK, Working
<1>4. /\ echoed' = echoed /\ held' = held /\ got' = got /\ failed' = failed /\ vm' = vm
      /\ val' = val
  BY <1>2 DEF output
<1>5. SinksInv'
  BY <1>2, <1>3, <1>4 DEF SinksInv, Buffered
<1>6. Exact' = Exact /\ Empty' = Empty /\ AllWritten' = AllWritten
  BY <1>4 DEF Exact, Empty, AllWritten
<1>7. (\E j \in DOMAIN Sinks : mode[j] = "panics")
        => \E j \in DOMAIN Sinks : mode'[j] = "panics"
  BY <1>3
<1>8. OutputInv'
  BY <1>2, <1>3, <1>4, <1>6, <1>7 DEF OutputInv, Ending
<1>9. TypeOK'
  BY <1>2, <1>3, <1>4 DEF TypeOK, input
<1>10. ValInv' /\ ChannelInv' /\ MachineIsStill' /\ RunReportsTheOutcome'
  BY <1>2 DEF IInv, ValInv, Ending, ChannelInv, MachineIsStill, RunReportsTheOutcome,
              Recovering, Returned
<1> QED BY <1>5, <1>8, <1>9, <1>10 DEF IInv

LEMMA StutterKeepsIInv ==
  ASSUME IInv, UNCHANGED vars
  PROVE  IInv'
BY DEF vars, output, input, world, IInv, TypeOK, SinksInv, Buffered, OutputInv, Ending,
       Recovering, Exact, Empty, Working, AllWritten, ValInv, ChannelInv, MachineIsStill,
       RunReportsTheOutcome, Returned

LEMMA NextKeepsIInv ==
  ASSUME IInv, [Next]_vars
  PROVE  IInv'
<1>1. CASE VM
  BY <1>1, EchoKeepsIInv, BeginReadKeepsIInv, HaltKeepsIInv, ComputeKeepsIInv,
     RecoverKeepsIInv DEF VM
<1>2. CASE Receive \/ WriterEnds
  BY <1>2, ReceiveKeepsIInv, OthersKeepIInv
<1>3. CASE World
  BY <1>3, SinkBreaksKeepsIInv, ComputeKeepsIInv, OthersKeepIInv DEF World
<1> QED BY <1>1, <1>2, <1>3, StutterKeepsIInv DEF Next

LEMMA IInvHolds == Spec => []IInv
<1>1. Init => IInv
  BY InitIInv
<1>2. IInv /\ [Next]_vars => IInv'
  BY NextKeepsIInv
<1> QED BY <1>1, <1>2, PTL DEF Spec
----------------------------------------------------------------------------
(* The theorems.                                                           *)

\* When Run has returned, its caller has seen the machine end by itself.
LEMMA ReturnedFacts ==
  ASSUME IInv, caller # "waiting"
  PROVE  /\ vm \in Ending /\ result = Returned(val) /\ val.by \in {"halt", "panic", "return"}
         /\ val.by = "panic" => result = "panic"
         /\ val.by = "return" => result = "context"
BY DEF IInv, MachineIsStill, RunReportsTheOutcome, ValInv, Ending, Returned

\* The state keeps its types, the channel of Recover never holds two values, a
\* buffer never holds more than its size, and no output is given a rune twice.
THEOREM TypesHold == Spec => []TypeOK
<1>1. IInv => TypeOK
  BY DEF IInv
<1> QED BY <1>1, IInvHolds, PTL

\* Once Run has returned, the goroutine of the machine does nothing more than
\* Recover's deferred functions: the caller may read and dump its memory.
THEOREM MachineStaysStill == Spec => []MachineIsStill
<1>1. IInv => MachineIsStill
  BY DEF IInv
<1> QED BY <1>1, IInvHolds, PTL

\* Run returns how the machine ended and never that it exited its goroutine,
\* however the sends of the two deferred functions and the receive interleave.
THEOREM OutcomeIsReported == Spec => []RunReportsTheOutcome
<1>1. IInv => RunReportsTheOutcome
  BY DEF IInv
<1> QED BY <1>1, IInvHolds, PTL

\* A run that reports no error has written every rune to every output, for any
\* outputs that fail, in any order and at any time, without a panic.
THEOREM NilIsHonest == Spec => []NilMeansAllWritten
<1>1. ASSUME IInv
      PROVE  NilMeansAllWritten
  <2> SUFFICES ASSUME result = "nil", \A i \in DOMAIN Sinks : mode[i] # "panics"
               PROVE  AllWritten
    BY DEF NilMeansAllWritten
  <2>1. caller # "waiting"
    BY <1>1 DEF IInv, ChannelInv
  <2>2. val.by = "halt" /\ vm \in Ending /\ result = Returned(val)
    BY <1>1, <2>1, ReturnedFacts
  <2>3. val.err \in {"nil", "EOF"}
    BY <2>2 DEF Returned
  <2> QED BY <1>1, <2>2, <2>3 DEF IInv, OutputInv
<1> QED BY <1>1, IInvHolds, PTL

\* A program that halts, with an error or without, has everything that it
\* echoed written as long as the outputs work.
THEOREM HaltWritesAll == Spec => []HaltsWithAllWritten
<1>1. ASSUME IInv
      PROVE  HaltsWithAllWritten
  <2> SUFFICES ASSUME result \notin {"none", "context", "panic"}, Working
               PROVE  AllWritten
    BY DEF HaltsWithAllWritten, Working
  <2>1. caller # "waiting"
    BY <1>1 DEF IInv, ChannelInv
  <2>2. val.by = "halt" /\ vm \in Ending
    BY <1>1, <2>1, ReturnedFacts
  <2> QED BY <1>1, <2>2 DEF IInv, OutputInv
<1> QED BY <1>1, IInvHolds, PTL
=============================================================================
