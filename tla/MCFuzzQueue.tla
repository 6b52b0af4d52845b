---------------------------- MODULE MCFuzzQueue ----------------------------
(* Small instances of FuzzQueue for TLC.                                   *)
EXTENDS FuzzQueue

\* A deterministic target: every run of a test case gives the same trace.
Stable == {{t} : t \in Traces}

\* A target with variable behaviour: a run may also hit bytes that others miss.
Variable == Stable \cup {{s, Bytes} : s \in Traces}
=============================================================================
