----------------------------- MODULE MCEventLoop -----------------------------
(* The instances of EventLoop that TLC checks. *)
EXTENDS EventLoop
=============================================================================
