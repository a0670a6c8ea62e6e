---------------------------- MODULE MCTcpServer ----------------------------
(* More jobs than workers: two peers and a local event share two workers, and  *)
(* the peers send up to two bytes, so that one may send past a write error.    *)
EXTENDS TcpServer
============================================================================
