---------------------------- MODULE MCThreadPool ----------------------------
(* Three workers, the timer thread as the one outside caller, four tasks.    *)
EXTENDS ThreadPool
=============================================================================
