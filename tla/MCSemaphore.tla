---------------------------- MODULE MCSemaphore ----------------------------
(* The semaphore shared by three threads, with every operation of each.    *)
EXTENDS Semaphore
============================================================================
