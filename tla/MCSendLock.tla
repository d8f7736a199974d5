----------------------------- MODULE MCSendLock -----------------------------
(* TLC instances of SendLock: two processes, any of them the worker.        *)
EXTENDS SendLock, TLC
=============================================================================
