--------------------------- MODULE CaptureContract --------------------------
(***************************************************************************)
(* How a capture of at least one sample can end: what the receive loop and *)
(* the writer thread leave to the code after them                          *)
(* (DataCollection/src/radiometer_driver.cpp).  RadiometerRun takes it for *)
(* the whole of a capture; RadiometerCapture keeps it.                     *)
(***************************************************************************)

\* reached: all samples asked for were received; abort: an error ended the
\* capture, or the writer failed or ran out of space, which may be noticed only
\* when the writer is joined; errs: some error was counted, apart from the
\* unclassified ones; tooMany: of those there were more than the limit; stop: a
\* signal came; saved: what is in the capture's files, if there is one.
CaptureEnds(reached, abort, errs, tooMany, stop, saved) ==
    /\ reached \/ abort \/ stop
    /\ tooMany => abort /\ ~ reached
    /\ saved = "whole" => reached /\ ~ abort
    /\ reached /\ ~ abort /\ ~ errs => saved = "whole"
=============================================================================
