------------------------------ MODULE MCLogger ------------------------------
(* Two threads that log while the logger is created and destroyed.         *)
EXTENDS Logger
============================================================================
