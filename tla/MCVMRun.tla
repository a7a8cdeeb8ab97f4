------------------------------ MODULE MCVMRun ------------------------------
(***************************************************************************)
(* Outputs of WithOutput and WithTee: two files with a byte buffer between *)
(* them, and the one buffered output of main.go.                           *)
(***************************************************************************)
EXTENDS VMRun

BufferedFirst == <<"buffered", "direct", "buffered">>
OneBuffered == <<"buffered">>
=============================================================================
