------------------------------- MODULE VMRun -------------------------------
(***************************************************************************)
(* One VM.Run and the goroutines around it: the caller, which waits in     *)
(* panicerr.Recover and may then Close the machine; the machine itself,    *)
(* in a goroutine of its own, any program at all, seen by what it does to  *)
(* the world; the goroutine of WithInputWriter, which feeds a pipe; the    *)
(* context, the standard input and the outputs, which fail.  An operator   *)
(* marked "mutant" is a way in which the next one could be wrong: nothing  *)
(* uses it but the test that the properties would notice.                  *)
(***************************************************************************)
EXTENDS Naturals, SequencesExt

CONSTANTS Sinks,      \* the outputs, in the order of WithOutput and WithTee:
                      \* "buffered" (a bufio.Writer) or "direct" (a nopFlusher)
          Cap,        \* the size of a bufio.Writer
          MaxEchoes,  \* bound: how often the program may echo
          Chunks      \* bound: how many writes the input writer makes

ASSUME SinksAssumption == Sinks \in Seq({"buffered", "direct"})
ASSUME CountsAssumption == Cap \in Nat \ {0} /\ MaxEchoes \in Nat /\ Chunks \in Nat

VARIABLES vm,       \* where the machine's goroutine is
          val,      \* what it is halting with, panics with or returns
          errch,    \* Recover's channel: what is in it, is it closed
          caller,   \* "waiting" in Run, "returned" or "closed" the machine
          result,   \* what Run returned
          ctx,      \* "live" or "expired"
          echoed,   \* how many runes the program has echoed
          held,     \* held[i]: what the buffer of output i holds
          got,      \* got[i]: what output i was written
          failed,   \* failed[i]: the bufio.Writer of output i has met an error
          mode,     \* mode[i]: what a write to output i does: "ok", "fails", "panics"
                    \* or "blocks", never to return
          writer,   \* the input writer: "writing", "silent" for ever, or "closed" its
                    \* end of the pipe
          left,     \* what it has still to write
          source,   \* what the machine reads: "pipe", then "stdin"
          stdin     \* "open", "ended" or "broken"

output == <<echoed, held, got, failed>>
input == <<writer, left, source, stdin>>
world == <<ctx, mode>>
vars == <<vm, val, errch, caller, result, output, input, world>>

NoVal == [by |-> "none", err |-> "none"]
Val(by, err) == [by |-> by, err |-> err]
----------------------------------------------------------------------------
(* The outputs: writeFlushers writes to one after the other and stops at   *)
(* the first that fails; it flushes them all.                              *)

Buffered(i) == Sinks[i] = "buffered"

\* what becomes of the buffer of i when it is flushed
Flushing(i) == IF ~Buffered(i) \/ (held[i] = 0 /\ ~failed[i]) THEN "nothing"
               ELSE IF failed[i] THEN "fails" ELSE mode[i]

\* what becomes of one rune written to i, whose buffer is flushed if it is full
Writing(i) == IF ~Buffered(i) THEN mode[i]
              ELSE IF failed[i] THEN "fails"
              ELSE IF held[i] < Cap THEN "ok" ELSE mode[i]

First(S) == CHOOSE i \in S : \A j \in S : i <= j
\* the outputs that are flushed, up to the first that panics or blocks
Reached == {i \in DOMAIN Sinks : \A j \in 1 .. i : Flushing(j) \notin {"panics", "blocks"}}

\* the outputs whose buffers are written out, and what they hold then
\* mutants: the first output only, and a buffer that is not emptied
FlushedFirst == {i \in Reached : Flushing(i) = "ok" /\ i = 1}
Flushed == {i \in Reached : Flushing(i) = "ok"}
KeptAll(i) == held[i]
Kept(i) == IF i \in Flushed THEN 0 ELSE held[i]

Flush ==
  /\ got' = [i \in DOMAIN Sinks |-> got[i] + (IF i \in Flushed THEN held[i] ELSE 0)]
  /\ held' = [i \in DOMAIN Sinks |-> Kept(i)]
  /\ failed' = [i \in DOMAIN Sinks |->
                  failed[i] \/ (i \in Reached /\ Flushing(i) = "fails")]
  /\ UNCHANGED echoed

FlushPanics == \E i \in DOMAIN Sinks : /\ Flushing(i) = "panics"
                                       /\ \A j \in 1 .. i : Flushing(j) # "blocks"
FlushBlocks == Reached # DOMAIN Sinks /\ ~FlushPanics
\* mutant: the error of the last output hides the others
FlushErrLast == IF Flushing(Len(Sinks)) = "fails" THEN "write" ELSE "nil"
FlushErr == IF \E i \in Reached : Flushing(i) = "fails" THEN "write" ELSE "nil"

Stops == {i \in DOMAIN Sinks : Writing(i) # "ok"}
Write ==
  LET done == {i \in DOMAIN Sinks : \A j \in Stops : i < j}
      full(i) == Buffered(i) /\ held[i] = Cap
  IN /\ echoed' = echoed + 1
     /\ got' = [i \in DOMAIN Sinks |->
                  got[i] + (IF i \notin done THEN 0
                            ELSE IF ~Buffered(i) THEN 1 ELSE IF full(i) THEN Cap ELSE 0)]
     /\ held' = [i \in DOMAIN Sinks |->
                   IF i \notin done \/ ~Buffered(i) THEN held[i]
                   ELSE IF full(i) THEN 1 ELSE held[i] + 1]
     /\ failed' = [i \in DOMAIN Sinks |->
                     failed[i] \/ (Stops # {} /\ i = First(Stops) /\ Buffered(i)
                                   /\ Writing(i) = "fails")]
----------------------------------------------------------------------------
(* The machine: run's loop, and a step of it seen from outside.            *)

Init ==
  /\ vm = "step" /\ val = NoVal
  /\ errch = [buf |-> << >>, closed |-> FALSE]
  /\ caller = "waiting" /\ result = "none"
  /\ ctx = "live" /\ mode = [i \in DOMAIN Sinks |-> "ok"]
  /\ echoed = 0 /\ held = [i \in DOMAIN Sinks |-> 0] /\ got = held
  /\ failed = [i \in DOMAIN Sinks |-> FALSE]
  /\ writer = "writing" /\ left = Chunks /\ source = "pipe" /\ stdin = "open"

VMOnly == UNCHANGED <<errch, caller, result, input, world>>
HaltsWith(err) == vm' = "halting" /\ val' = Val("halt", err)
PanicsWith(err) == vm' = "panicking" /\ val' = Val("panic", err)
Blocks == vm' = "blocked" /\ UNCHANGED val

\* a primitive that does not touch the world
Compute ==
  /\ vm = "step" /\ vm' = "check"
  /\ UNCHANGED <<val, output>> /\ VMOnly

\* a step that never ends: a look up of a name the dictionary does not hold, say,
\* when ! has made the chain a circle
Loop ==
  /\ vm = "step" /\ vm' = "looping"
  /\ UNCHANGED <<val, output>> /\ VMOnly

Echo ==
  /\ vm = "step" /\ echoed < MaxEchoes
  /\ Write
  /\ IF Stops = {} THEN vm' = "check" /\ UNCHANGED val
     ELSE IF Writing(First(Stops)) = "fails" THEN HaltsWith("write")
     ELSE IF Writing(First(Stops)) = "blocks" THEN Blocks
     ELSE PanicsWith("runtime")
  /\ VMOnly

\* scan and readRune flush the output before they read
BeginRead ==
  /\ vm = "step"
  /\ Flush
  /\ IF FlushPanics THEN PanicsWith("runtime")
     ELSE IF FlushBlocks THEN Blocks
     ELSE IF FlushErr # "nil" THEN HaltsWith(FlushErr)
     ELSE vm' = "reading" /\ UNCHANGED val
  /\ VMOnly

\* a read is over with what it got, or it needs more
ReadOn == vm' \in {"reading", "check"} /\ UNCHANGED <<val, output>>
NotInput == UNCHANGED <<errch, caller, result, world>>

ReadPipe ==
  /\ vm = "reading" /\ source = "pipe" /\ writer = "writing" /\ left > 0
  /\ left' = left - 1
  /\ ReadOn
  /\ UNCHANGED <<writer, source, stdin>> /\ NotInput

\* the pipe is at its end, which looks like a rune 0 (see FileInput)
PipeEnds ==
  /\ vm = "reading" /\ source = "pipe" /\ writer = "closed"
  /\ source' = "stdin"
  /\ ReadOn
  /\ UNCHANGED <<writer, left, stdin>> /\ NotInput

ReadStdin ==
  /\ vm = "reading" /\ source = "stdin" /\ stdin = "open"
  /\ ReadOn
  /\ VMOnly

ReadFails ==
  /\ vm = "reading" /\ source = "stdin" /\ stdin # "open"
  /\ HaltsWith(IF stdin = "ended" THEN "EOF" ELSE "read")
  /\ UNCHANGED output /\ VMOnly

\* popr past the return stack halts with no error, anything else with one
ProgramHalts ==
  /\ vm = "step"
  /\ \E err \in {"nil", "program"} : HaltsWith(err)
  /\ UNCHANGED output /\ VMOnly

\* a division by zero
ProgramPanics ==
  /\ vm = "step" /\ PanicsWith("runtime")
  /\ UNCHANGED output /\ VMOnly

\* the rest of halt: flush, whatever comes of it, and panic with a haltError
Halt ==
  /\ vm = "halting"
  /\ Flush
  /\ IF FlushBlocks THEN Blocks
     ELSE /\ vm' = "panicking"
          /\ val' = IF val.err = "nil" /\ ~FlushPanics THEN Val("halt", FlushErr) ELSE val
  /\ VMOnly

\* run looks at the context after every step
\* mutant: it does not
CheckContextNever ==
  /\ vm = "check" /\ vm' = "step"
  /\ UNCHANGED <<val, output>> /\ VMOnly
CheckContext ==
  /\ vm = "check"
  /\ IF ctx = "expired" THEN vm' = "returning" /\ val' = Val("return", "context")
     ELSE vm' = "step" /\ UNCHANGED val
  /\ UNCHANGED output /\ VMOnly
----------------------------------------------------------------------------
(* panicerr.Recover.                                                       *)

Sent(v) == [errch EXCEPT !.buf = Append(@, v)]
TrySend(v) == errch' = IF errch.buf = << >> THEN Sent(v) ELSE errch
TailOnly == UNCHANGED <<val, caller, result, output, input, world>>

Return ==
  /\ vm = "returning" /\ errch.buf = << >>
  /\ errch' = Sent(val) /\ vm' = "recoverExit"
  /\ TailOnly

\* mutant: recoverExitError is deferred after it, and sends first
RecoverPanicLate ==
  /\ vm = "panicking"
  /\ TrySend(Val("exit", "exit")) /\ vm' = "recoverExit"
  /\ TailOnly
RecoverPanic ==
  /\ vm = "panicking"
  /\ TrySend(val) /\ vm' = "recoverExit"
  /\ TailOnly

\* runs after a return and after a panic as well
RecoverExit ==
  /\ vm = "recoverExit"
  /\ TrySend(Val("exit", "exit")) /\ vm' = "close"
  /\ TailOnly

CloseChannel ==
  /\ vm = "close"
  /\ errch' = [errch EXCEPT !.closed = TRUE] /\ vm' = "gone"
  /\ TailOnly
----------------------------------------------------------------------------
(* The caller.                                                             *)

\* what Run makes of the error that Recover returned: errors.Is finds an EOF
\* under a haltError, and a haltError is unwrapped
Returned(v) == IF v.err \in {"nil", "EOF"} THEN "nil"
               ELSE IF v.by = "panic" THEN "panic" ELSE v.err

\* what the caller waits for
\* mutant: it does not wait beyond the time limit
OverInTime == errch.buf # << >> \/ errch.closed \/ ctx = "expired"
Over == errch.buf # << >> \/ errch.closed

Receive ==
  /\ caller = "waiting" /\ Over
  /\ IF errch.buf = << >> THEN result' = "nil" /\ UNCHANGED errch
     ELSE /\ result' = Returned(Head(errch.buf))
          /\ errch' = [errch EXCEPT !.buf = Tail(@)]
  /\ caller' = "returned"
  /\ UNCHANGED <<vm, val, output, input, world>>

\* Core.Close closes the machine's end of the pipe
Close ==
  /\ caller = "returned" /\ caller' = "closed"
  /\ UNCHANGED <<vm, val, errch, result, output, input, world>>
----------------------------------------------------------------------------
(* The input writer.  What WriteTo returns is dropped.                     *)

WriterOnly == UNCHANGED <<vm, val, errch, caller, result, output, source, stdin, world>>

WriterEnds ==
  /\ writer = "writing" /\ (left = 0 \/ caller = "closed")
  /\ writer' = "closed" /\ UNCHANGED left /\ WriterOnly

WriterFails ==
  /\ writer = "writing" /\ left > 0
  /\ writer' = "closed" /\ UNCHANGED left /\ WriterOnly

WriterStalls ==
  /\ writer = "writing"
  /\ writer' = "silent" /\ UNCHANGED left /\ WriterOnly
----------------------------------------------------------------------------
(* The world.                                                              *)

Expire ==
  /\ ctx = "live" /\ ctx' = "expired"
  /\ UNCHANGED <<vm, val, errch, caller, result, output, input, mode>>

StdinEnds ==
  /\ stdin = "open" /\ stdin' \in {"ended", "broken"}
  /\ UNCHANGED <<vm, val, errch, caller, result, output, writer, left, source, world>>

SinkBreaks ==
  /\ \E i \in DOMAIN Sinks : /\ mode[i] = "ok"
                             /\ \E how \in {"fails", "panics", "blocks"} :
                                  mode' = [mode EXCEPT ![i] = how]
  /\ UNCHANGED <<vm, val, errch, caller, result, output, input, ctx>>

VM == \/ Compute \/ Loop \/ Echo \/ BeginRead \/ ProgramHalts \/ ProgramPanics \/ Halt \/ CheckContext
      \/ ReadPipe \/ PipeEnds \/ ReadFails
      \/ Return \/ RecoverPanic \/ RecoverExit \/ CloseChannel
World == Expire \/ StdinEnds \/ SinkBreaks \/ WriterFails \/ WriterStalls \/ Close \/ ReadStdin

Next == VM \/ Receive \/ WriterEnds \/ World

Spec == Init /\ [][Next]_vars

\* The Go scheduler runs every goroutine that can run.  Nobody owes anything else:
\* a step of the machine may loop, a write to an output may block, the input
\* writer may stall and the standard input stay silent for ever, and the context
\* need not expire.
FairSpec == Spec /\ WF_vars(VM) /\ WF_vars(Receive) /\ WF_vars(WriterEnds)
----------------------------------------------------------------------------
TypeOK ==
  /\ vm \in {"step", "looping", "check", "reading", "blocked", "halting", "panicking",
             "returning", "recoverExit", "close", "gone"}
  /\ val \in [by : {"none", "halt", "panic", "return"},
              err : {"none", "nil", "write", "runtime", "EOF", "read", "program", "context"}]
  /\ errch \in [buf : Seq([by : {"halt", "panic", "return", "exit"},
                           err : {"nil", "write", "runtime", "EOF", "read", "program",
                                  "context", "exit"}]),
                closed : BOOLEAN]
  /\ Len(errch.buf) <= 1
  /\ caller \in {"waiting", "returned", "closed"}
  /\ result \in {"none", "nil", "write", "panic", "read", "program", "context"}
  /\ ctx \in {"live", "expired"} /\ mode \in [DOMAIN Sinks -> {"ok", "fails", "panics", "blocks"}]
  /\ echoed \in 0 .. MaxEchoes
  /\ held \in [DOMAIN Sinks -> 0 .. Cap] /\ got \in [DOMAIN Sinks -> Nat]
  /\ \A i \in DOMAIN Sinks : got[i] + held[i] <= echoed   \* no rune is written twice
  /\ failed \in [DOMAIN Sinks -> BOOLEAN]
  /\ writer \in {"writing", "silent", "closed"} /\ left \in 0 .. Chunks
  /\ source \in {"pipe", "stdin"} /\ stdin \in {"open", "ended", "broken"}

AllWritten == \A i \in DOMAIN Sinks : got[i] = echoed

\* A run that reports no error has written everything the program echoed to
\* every output: the end of the input, which is no error, never hides a write
\* that failed.  Only a write that panics inside halt is lost, as halt means to.
NilMeansAllWritten ==
  result = "nil" /\ (\A i \in DOMAIN Sinks : mode[i] # "panics") => AllWritten

\* However a program halts, what it echoed is written as long as the outputs
\* work; only the context's end and a run time panic leave it in the buffers.
HaltsWithAllWritten ==
  result \notin {"none", "context", "panic"} /\ (\A i \in DOMAIN Sinks : mode[i] = "ok")
    => AllWritten

\* Run returns how the machine ended, although the deferred recoverExitError
\* tries to send as well, at a time when the channel may be empty again.
RunReportsTheOutcome == caller # "waiting" => result = Returned(val)

\* When Run has returned, the machine is still: the caller may look at its
\* memory, dump it or close it (main.go and vm_test.go do, without a lock).
MachineIsStill == caller # "waiting" => vm \in {"recoverExit", "close", "gone"}

\* A machine whose context has expired returns, from wherever the expiry finds
\* it, unless it waits: for input that may never come, for a write to an output
\* that never returns, or for the end of a step that has none.
Waits == \/ vm \in {"looping", "blocked"}
         \/ vm = "reading" /\ (source = "stdin" \/ writer = "silent")
ExpiredMachineReturns == (ctx = "expired") ~> (caller # "waiting" \/ Waits)

\* The run is over some time after the time limit (main.go: "specify a time
\* limit").
TimeLimitHolds == (ctx = "expired") ~> (caller # "waiting")
=============================================================================
