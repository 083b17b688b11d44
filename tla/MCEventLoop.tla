----------------------------- MODULE MCEventLoop -----------------------------
(* Two clients, a source that sends and a cycle that starts an async task.    *)
EXTENDS EventLoop

CONSTANTS c1, c2
==============================================================================
