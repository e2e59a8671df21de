------------------------------ MODULE MCWorker ------------------------------
(* Worker for TLC: interchangeable connections, short timeouts that meet   *)
(* in one pass every KeepAlive * WorkerTimeout seconds.                    *)
EXTENDS Worker
=============================================================================
