----------------------------- MODULE MCTraceLog ----------------------------
(***************************************************************************)
(* Two goroutines that log while one of them wraps the log, once inside of *)
(* the other, and unwraps it; and the one goroutine of main.go.            *)
(***************************************************************************)
EXTENDS TraceLog

MCScript == ("c1" :> <<"Wrap", "Printf", "Wrap", "Unwrap", "ExitCode", "Exit">>)
              @@ ("c2" :> <<"Printf", "ErrorIf", "Errorf">>)
MCWorkers == <<"w1", "w2">>

\* main: the exit code is asked for where "defer os.Exit(log.ExitCode())"
\* stands; the machine logs while main waits for it; its error is logged, and
\* the deferred calls run
MainScript == "main" :> <<"ExitCode", "Wrap", "Printf", "ErrorIf", "Unwrap", "Exit">>
MainWorkers == <<"trace scanner">>
=============================================================================
