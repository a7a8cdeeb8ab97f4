------------------------------ MODULE TraceLog -----------------------------
(***************************************************************************)
(* The log (logio.Logger) and the scanners that main wraps it in           *)
(* (scanner.go).  Any number of goroutines may log; each call holds the    *)
(* mutex until it returns.  Wrap puts a worker before the output: a        *)
(* goroutine that reads lines from a pipe, keeps the last ones back to     *)
(* mark them, and writes them to what was the output before.  A worker may *)
(* fail at any line; closing it waits for its error on the channel done.   *)
(* Lines are members of a set; marks and levels are left out.  An operator *)
(* marked "mutant" is a way in which the next one could be wrong: nothing  *)
(* uses it but the test that the properties would notice.                  *)
(***************************************************************************)
EXTENDS Naturals, SequencesExt

CONSTANTS Clients,     \* the goroutines that use the log
          Script,      \* Script[c]: the calls of c, in order
          Workers,     \* the workers, in the order in which Wrap starts them
          MayFail      \* may workers and the output fail?

Calls == {"Printf", "ErrorIf", "Errorf", "Wrap", "Unwrap", "ExitCode", "Exit"}
Base == "stderr"
None == "none"
Outputs == {Base} \union ToSet(Workers)

ASSUME ScriptAssumption == Script \in [Clients -> Seq(Calls)] /\ MayFail \in BOOLEAN
ASSUME WorkersAssumption == Workers \in Seq(ToSet(Workers)) /\ IsInjective(Workers)
ASSUME NamesAssumption ==
  /\ ToSet(Workers) \intersect Clients = {}
  /\ {Base, None} \intersect (ToSet(Workers) \union Clients) = {}

VARIABLES mutex,      \* the client that holds it, or None
          out, fallback, buf, exitCode,    \* the fields of Logger
          calls,      \* calls[c]: the calls c has still to make
          todo,       \* todo[p]: what is left of the call of client p, or what
                      \* worker p is doing
          closing,    \* closing[c]: what unwrap or reportError closes
          putting,    \* putting[p]: is p blocked in a write to a pipe?
          pipe,       \* pipe[w]: what is being written, are its ends closed
          target,     \* target[w]: what worker w writes to
          unread, pend, held, werr,    \* of worker w: read but not scanned, the
                      \* line scanned, the line kept back (Last), its error
          code,       \* the answer of ExitCode, and if the program has exited
          broken,     \* does the output fail?
          logged, shown      \* history: the lines logged, and those output

logger == <<out, fallback, buf, exitCode, logged>>
client == <<mutex, calls, closing, code>>
worker == <<target, unread, pend, held, werr>>
vars == <<logger, client, worker, todo, putting, pipe, broken, shown>>

NoLine == <<"no line", 0>>
Blank == <<"blank", 0>>    \* lineBuffer.WriteTo ends even an empty line
Line(kind) == <<kind, Len(logged) + 1>>
----------------------------------------------------------------------------
(* Writing to an output: at once to the base; to a worker through its      *)
(* pipe, where Write returns when the data was read or an end was closed.  *)

CanPut(d) == ~pipe[d].rclosed /\ ~pipe[d].wclosed

Puts(p, d, data) ==
  /\ d # Base /\ ~putting[p] /\ CanPut(d)
  /\ pipe' = [pipe EXCEPT ![d].data = data]
  /\ putting' = [putting EXCEPT ![p] = TRUE]
  /\ UNCHANGED shown

WriteOk(p, d, data) ==
  \/ /\ d = Base /\ ~broken
     /\ shown' = shown \o data
     /\ UNCHANGED <<pipe, putting>>
  \/ /\ d # Base /\ putting[p] /\ pipe[d].data = << >>
     /\ putting' = [putting EXCEPT ![p] = FALSE]
     /\ UNCHANGED <<pipe, shown>>

WriteFails(p, d) ==
  \/ d = Base /\ broken /\ UNCHANGED <<pipe, putting, shown>>
  \/ /\ d # Base /\ ~putting[p] /\ ~CanPut(d)
     /\ UNCHANGED <<pipe, putting, shown>>
  \/ /\ d # Base /\ putting[p] /\ pipe[d].data # << >> /\ ~CanPut(d)
     /\ putting' = [putting EXCEPT ![p] = FALSE]
     /\ pipe' = [pipe EXCEPT ![d].data = << >>]
     /\ UNCHANGED shown

\* pipeWorker.Close: the pipe is closed, then the worker's error received, or
\* nothing when the channel is closed already; the base is not closed
Hangs(d) == d # Base /\ ~pipe[d].wclosed
HangsUp(d) ==
  /\ Hangs(d)
  /\ pipe' = [pipe EXCEPT ![d].wclosed = TRUE]
  /\ UNCHANGED <<todo, putting, shown>>

Closed(d) == d # Base => (pipe[d].wclosed /\ todo[d] \in {<<"send">>, <<"gone">>})
\* mutant: it is never asked for
CloseErrNone(d) == FALSE
CloseErr(d) == d # Base /\ todo[d] = <<"send">> /\ werr[d]
\* todo when the worker d, if there is one, has sent its error
Released(d) == IF d = Base THEN todo ELSE [todo EXCEPT ![d] = <<"gone">>]
----------------------------------------------------------------------------
Init ==
  /\ mutex = None /\ out = Base /\ fallback = None /\ buf = << >> /\ exitCode = 0
  /\ calls = Script
  /\ todo = [p \in Clients \union ToSet(Workers) |-> IF p \in Clients THEN << >> ELSE <<"new">>]
  /\ closing = [c \in Clients |-> None]
  /\ putting = [p \in Clients \union ToSet(Workers) |-> FALSE]
  /\ pipe = [w \in ToSet(Workers) |-> [data |-> << >>, rclosed |-> FALSE, wclosed |-> FALSE]]
  /\ target = [w \in ToSet(Workers) |-> Base]
  /\ unread = [w \in ToSet(Workers) |-> << >>]
  /\ pend = [w \in ToSet(Workers) |-> NoLine]
  /\ held = [w \in ToSet(Workers) |-> Blank]
  /\ werr = [w \in ToSet(Workers) |-> FALSE]
  /\ code = [answer |-> 0, exited |-> FALSE] /\ broken = FALSE
  /\ logged = << >> /\ shown = << >>

(* The calls.                                                              *)

\* what each of them has to do once it has the mutex
Body(call) ==
  CASE call = "Printf"   -> <<"log", "printf">>
    [] call = "ErrorIf"  -> <<"report">>
    [] call = "Errorf"   -> <<"unwrap", "log error", "errorf", "code 1">>
    [] call = "Wrap"     -> <<"wrap">>
    [] call = "Unwrap"   -> <<"unwrap">>
    [] call = "ExitCode" -> <<"unwrap", "answer">>
    [] call = "Exit"     -> <<"exit">>

Lock(c) ==
  /\ mutex = None /\ calls[c] # << >>
  /\ mutex' = c
  /\ todo' = [todo EXCEPT ![c] = Body(Head(calls[c]))]
  /\ calls' = [calls EXCEPT ![c] = Tail(@)]
  /\ UNCHANGED <<logger, closing, code, worker, putting, pipe, broken, shown>>

Unlock(c) ==
  /\ mutex = c /\ todo[c] = << >>
  /\ mutex' = None
  /\ UNCHANGED <<logger, calls, closing, code, worker, todo, putting, pipe, broken, shown>>

Doing(c, what) == mutex = c /\ todo[c] # << >> /\ Head(todo[c]) = what
Then(c, more) == todo' = [todo EXCEPT ![c] = more \o Tail(@)]

\* printf appends to what the buffer still holds of lines that were not written
LogLine(c) ==
  /\ \E what \in {"log", "log error"} :
       /\ Doing(c, what)
       /\ LET line == Line(IF what = "log" THEN "line" ELSE "ERROR")
          IN buf' = Append(buf, line) /\ logged' = Append(logged, line)
  /\ Then(c, << >>)
  /\ UNCHANGED <<out, fallback, exitCode, client, worker, putting, pipe, broken, shown>>

\* the write of printf: Printf reports an error, the others drop it
Printfs == {"printf", "errorf"}
PrintfPuts(c) ==
  /\ \E what \in Printfs : Doing(c, what)
  /\ Puts(c, out, buf)
  /\ UNCHANGED <<logger, client, worker, todo, broken>>

\* mutant: the lines stay in the buffer
PrintfOkKeeps(c) ==
  /\ \E what \in Printfs : Doing(c, what)
  /\ WriteOk(c, out, buf)
  /\ Then(c, << >>)
  /\ UNCHANGED <<logger, client, worker, broken>>
PrintfOk(c) ==
  /\ \E what \in Printfs : Doing(c, what)
  /\ WriteOk(c, out, buf)
  /\ buf' = << >>
  /\ Then(c, << >>)
  /\ UNCHANGED <<out, fallback, exitCode, logged, client, worker, broken>>

PrintfFails(c) ==
  /\ \E what \in Printfs : Doing(c, what) /\ Then(c, IF what = "printf" THEN <<"report">> ELSE << >>)
  /\ WriteFails(c, out)
  /\ UNCHANGED <<logger, client, worker, broken>>

\* unwrap and reportError take the wrapper away and close it
\* mutant: the wrapper stays the output
TakesAwayLate(c) ==
  /\ closing' = [closing EXCEPT ![c] = out]
  /\ fallback' = None /\ UNCHANGED out
TakesAway(c) ==
  /\ closing' = [closing EXCEPT ![c] = out]
  /\ out' = fallback /\ fallback' = None

StartUnwrap(c) ==
  /\ Doing(c, "unwrap")
  /\ IF fallback = None THEN Then(c, << >>) /\ UNCHANGED <<out, fallback, closing>>
     ELSE Then(c, <<"close">>) /\ TakesAway(c)
  /\ UNCHANGED <<buf, exitCode, logged, mutex, calls, code, worker, putting, pipe, broken, shown>>

\* mutant: the error is logged to the wrapper
StartReportWrapped(c) ==
  /\ Doing(c, "report")
  /\ Then(c, <<"log error", "errorf", "code 2">>)
  /\ UNCHANGED <<logger, client, worker, putting, pipe, broken, shown>>
StartReport(c) ==
  /\ Doing(c, "report")
  /\ LET print == <<"log error", "errorf", "code 2">>
     IN IF fallback = None THEN Then(c, print) /\ UNCHANGED <<out, fallback, closing>>
        ELSE Then(c, <<"close quietly">> \o print) /\ TakesAway(c)
  /\ UNCHANGED <<buf, exitCode, logged, mutex, calls, code, worker, putting, pipe, broken, shown>>

Closes == {"close", "close quietly"}
HangUp(c) ==
  /\ \E what \in Closes : Doing(c, what)
  /\ HangsUp(closing[c])
  /\ UNCHANGED <<logger, client, worker, broken>>

\* unwrap reports the worker's error, reportError drops it
CloseDone(c) ==
  /\ \E what \in Closes :
       /\ Doing(c, what) /\ Closed(closing[c])
       /\ todo' = [Released(closing[c]) EXCEPT
                     ![c] = (IF what = "close" /\ CloseErr(closing[c]) THEN <<"report">> ELSE << >>)
                            \o Tail(@)]
  /\ UNCHANGED <<logger, client, worker, putting, pipe, broken, shown>>

SetCode(c) ==
  /\ \/ Doing(c, "code 1") /\ exitCode' = 1
     \/ Doing(c, "code 2") /\ exitCode' = 2
  /\ Then(c, << >>)
  /\ UNCHANGED <<out, fallback, buf, logged, client, worker, putting, pipe, broken, shown>>

Answer(c) ==
  /\ \/ Doing(c, "answer") /\ code' = [code EXCEPT !.answer = exitCode]
     \/ Doing(c, "exit") /\ code' = [code EXCEPT !.exited = TRUE]
  /\ Then(c, << >>)
  /\ UNCHANGED <<logger, mutex, calls, closing, worker, putting, pipe, broken, shown>>

\* Wrap starts the next worker; the first one is kept from closing the output
Unstarted(w) ==
  \E k \in DOMAIN Workers : /\ w = Workers[k] /\ todo[w] = <<"new">>
                            /\ \A j \in 1 .. k - 1 : todo[Workers[j]] # <<"new">>
Wrap(c) ==
  /\ Doing(c, "wrap")
  /\ fallback' = IF fallback = None THEN out ELSE fallback
  /\ \E w \in ToSet(Workers) :
       /\ Unstarted(w)
       /\ out' = w
       /\ target' = [target EXCEPT ![w] = out]
       /\ todo' = [todo EXCEPT ![c] = Tail(@), ![w] = <<"scan">>]
  /\ UNCHANGED <<buf, exitCode, logged, client, unread, pend, held, werr, putting, pipe, broken,
                 shown>>
----------------------------------------------------------------------------
(* A worker: the loop over markScanner.Scan, then its Close, then the      *)
(* closing of the pipe, then its error.                                    *)

At(w, what) == todo[w] = <<what>>
Goes(w, what) == todo' = [todo EXCEPT ![w] = <<what>>]
WorkerOnly == UNCHANGED <<logger, client, broken>>

\* Scan: Next flushes the line kept back, for the line scanned to take its place
StartScan(w) ==
  /\ At(w, "scan")
  /\ Goes(w, IF pend[w] # NoLine THEN "flush, read" ELSE "read")
  /\ UNCHANGED <<worker, putting, pipe, shown>> /\ WorkerOnly

\* Scanner.Scan: the lines of a read are scanned one by one
ReadPipe(w) ==
  /\ At(w, "read") /\ unread[w] = << >> /\ pipe[w].data # << >>
  /\ unread' = [unread EXCEPT ![w] = pipe[w].data]
  /\ pipe' = [pipe EXCEPT ![w].data = << >>]
  /\ UNCHANGED <<target, pend, held, werr, todo, putting, shown>> /\ WorkerOnly

\* mutant: the line kept back is dropped
PipeEndsDrops(w) ==
  /\ At(w, "read") /\ unread[w] = << >> /\ pipe[w].data = << >> /\ pipe[w].wclosed
  /\ Goes(w, "close")
  /\ UNCHANGED <<worker, putting, pipe, shown>> /\ WorkerOnly
PipeEnds(w) ==
  /\ At(w, "read") /\ unread[w] = << >> /\ pipe[w].data = << >> /\ pipe[w].wclosed
  /\ Goes(w, "flush, close")
  /\ UNCHANGED <<worker, putting, pipe, shown>> /\ WorkerOnly

\* a line that matches the pattern takes the place of the last one at once
ScanLine(w) ==
  /\ At(w, "read") /\ unread[w] # << >>
  /\ pend' = [pend EXCEPT ![w] = Head(unread[w])]
  /\ unread' = [unread EXCEPT ![w] = Tail(@)]
  /\ \E matches \in BOOLEAN : Goes(w, IF matches THEN "flush, scan" ELSE "scan")
  /\ UNCHANGED <<target, held, werr, putting, pipe, shown>> /\ WorkerOnly

\* a line that is too long for the scanner
ScanFails(w) ==
  /\ MayFail /\ At(w, "read") /\ unread[w] # << >>
  /\ werr' = [werr EXCEPT ![w] = TRUE]
  /\ Goes(w, "flush, close")
  /\ UNCHANGED <<target, unread, pend, held, putting, pipe, shown>> /\ WorkerOnly

Flushes == {"flush, read", "flush, scan", "flush, close"}
FlushPuts(w) ==
  /\ \E f \in Flushes : At(w, f)
  /\ Puts(w, target[w], <<held[w]>>)
  /\ UNCHANGED <<worker, todo>> /\ WorkerOnly

FlushOk(w) ==
  /\ WriteOk(w, target[w], <<held[w]>>)
  /\ \/ \E f \in Flushes \ {"flush, close"} :
          /\ At(w, f) /\ Goes(w, IF f = "flush, read" THEN "read" ELSE "scan")
          /\ held' = [held EXCEPT ![w] = pend[w]]
          /\ pend' = [pend EXCEPT ![w] = NoLine]
     \/ At(w, "flush, close") /\ Goes(w, "close") /\ UNCHANGED <<held, pend>>
  /\ UNCHANGED <<target, unread, werr>> /\ WorkerOnly

FlushFails(w) ==
  /\ WriteFails(w, target[w])
  /\ \E f \in Flushes : /\ At(w, f)
                        /\ Goes(w, IF f = "flush, close" THEN "close" ELSE "flush, close")
  /\ werr' = [werr EXCEPT ![w] = TRUE]
  /\ UNCHANGED <<target, unread, pend, held>> /\ WorkerOnly

\* the output that a worker closes when it ends
\* mutant: Wrap keeps every worker from closing its output, not only the first
OuterKept(w) == Base
Outer(w) == target[w]

WorkerHangsUp(w) == At(w, "close") /\ HangsUp(Outer(w)) /\ UNCHANGED worker /\ WorkerOnly

\* markScanner.Close closes the output, then the worker its end of the pipe
\* mutant: the worker does not
WorkerClosesHalf(w) ==
  /\ At(w, "close") /\ Closed(Outer(w))
  /\ werr' = [werr EXCEPT ![w] = @ \/ CloseErr(Outer(w))]
  /\ todo' = [Released(Outer(w)) EXCEPT ![w] = <<"send">>]
  /\ UNCHANGED <<target, unread, pend, held, putting, pipe, shown>> /\ WorkerOnly
WorkerCloses(w) ==
  /\ At(w, "close") /\ Closed(Outer(w))
  /\ werr' = [werr EXCEPT ![w] = @ \/ CloseErr(Outer(w))]
  /\ todo' = [Released(Outer(w)) EXCEPT ![w] = <<"send">>]
  /\ pipe' = [pipe EXCEPT ![w].rclosed = TRUE]
  /\ UNCHANGED <<target, unread, pend, held, putting, shown>> /\ WorkerOnly
----------------------------------------------------------------------------
Break ==
  /\ MayFail /\ ~broken /\ broken' = TRUE
  /\ UNCHANGED <<logger, client, worker, todo, putting, pipe, shown>>

Client(c) ==
  \/ Lock(c) \/ Unlock(c) \/ LogLine(c) \/ PrintfPuts(c) \/ PrintfOk(c) \/ PrintfFails(c)
  \/ StartUnwrap(c) \/ StartReport(c) \/ HangUp(c) \/ CloseDone(c) \/ SetCode(c) \/ Answer(c)
  \/ Wrap(c)

Worker(w) ==
  \/ StartScan(w) \/ ReadPipe(w) \/ PipeEnds(w) \/ ScanLine(w) \/ ScanFails(w)
  \/ FlushPuts(w) \/ FlushOk(w) \/ FlushFails(w) \/ WorkerHangsUp(w) \/ WorkerCloses(w)

\* nothing is left to run when the program has exited
Next ==
  /\ ~code.exited
  /\ (\E c \in Clients : Client(c)) \/ (\E w \in ToSet(Workers) : Worker(w)) \/ Break

Spec == Init /\ [][Next]_vars

\* The Go scheduler runs every goroutine that can run, and its mutexes starve
\* nobody; the output need not ever fail.
FairSpec == Spec /\ (\A c \in Clients : WF_vars(~code.exited /\ Client(c)))
                 /\ (\A w \in ToSet(Workers) : WF_vars(~code.exited /\ Worker(w)))
----------------------------------------------------------------------------
TypeOK ==
  /\ mutex \in Clients \union {None}
  /\ out \in Outputs /\ fallback \in {Base, None} /\ (fallback = None => out = Base)
  /\ exitCode \in 0 .. 2 /\ code.answer \in 0 .. 2
  /\ \A c \in Clients : todo[c] # << >> => mutex = c
  /\ \A w \in ToSet(Workers) : pipe[w].data # << >> => \E p \in DOMAIN putting : putting[p]

Position(l) == l[2]

\* Whatever fails, lines come out as they were logged and in that order, and
\* none comes out twice, though a worker holds lines back and a line that could
\* not be written is written again with the next one.
LinesInOrder ==
  /\ \A i \in DOMAIN shown : shown[i] # Blank => shown[i] \in ToSet(logged)
  /\ \A i, j \in DOMAIN shown : i < j /\ shown[i] # Blank /\ shown[j] # Blank =>
       Position(shown[i]) < Position(shown[j])

\* Every line that was logged has come out when the log is not wrapped and
\* nobody is in the middle of a call, if neither the output nor a worker failed.
NothingKeptBack ==
  fallback = None /\ mutex = None /\ ~broken /\ (\A w \in DOMAIN werr : ~werr[w])
    => ToSet(logged) \subseteq ToSet(shown)

\* The log reports an error itself: the last line of the output is the error,
\* not something a worker kept back, even if the worker has failed.
ErrorsAreShown ==
  \A c \in Clients : (Doing(c, "code 1") \/ Doing(c, "code 2")) /\ ~broken =>
    Last(shown)[1] = "ERROR" /\ Last(shown) = Last(logged)

\* An error of a worker shows in the exit code once the log is unwrapped, though
\* a worker inside of another one has only that one to tell.
FailuresAreReported ==
  mutex = None /\ fallback = None /\ (\E w \in DOMAIN werr : werr[w]) => exitCode # 0

\* Every call returns: no client waits for ever for the mutex, a pipe or the end
\* of a worker, whatever fails.
CallsReturn == <>(code.exited \/ (mutex = None /\ \A c \in Clients : calls[c] = << >>))

\* No worker is left behind when the log is unwrapped, nor one inside of another.
WorkersEnd ==
  fallback = None /\ mutex = None => \A w \in ToSet(Workers) : At(w, "new") \/ At(w, "gone")

\* The program exits with an error if it has logged one (logger.go: "exit
\* non-zero if any error log").
ExitTellsErrors == code.exited /\ (\E l \in ToSet(logged) : l[1] = "ERROR") => code.answer # 0
=============================================================================
