---------------------------- MODULE MCThreadPool ----------------------------
(* Three threads with event bases and three jobs: a job can be taken, be   *)
(* added by a job, or come too late, while other threads sleep or leave.   *)
EXTENDS ThreadPool
=============================================================================
