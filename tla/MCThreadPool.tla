---------------------------- MODULE MCThreadPool ---------------------------
(* thread_pool<2> with more jobs than workers, scheduled at once.          *)
EXTENDS ThreadPool
=============================================================================
