------------------------------ MODULE MCSInval ------------------------------
(* SInval for TLC: backends come and go, send and receive; the ring holds a  *)
(* few messages, so that it fills up, backends are signaled and reset, and   *)
(* the counters are lowered at MSGNUMWRAPAROUND within a run.                *)
EXTENDS SInval
=============================================================================
