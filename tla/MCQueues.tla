------------------------------ MODULE MCQueues ------------------------------
(***************************************************************************)
(* The queue on both databases: two worker processes on PostgreSQL, and on *)
(* SQLite one process of two threads.  Each behaviour has one database;    *)
(* the other's queue stays empty.                                          *)
(***************************************************************************)
EXTENDS MCJobQueue

VARIABLES database, rows, served, inHand, process, released, open, mishaps

Sq == INSTANCE JobQueue WITH
  Tenants <- {1}, TenantOfWork <- MCTenantOfWorkOne, Workers <- {w1}, WorkerOf <- MCWorkerOfOne,
  PerTenant <- 1, Sqlite <- TRUE, MaxFaults <- 3,
  jobs <- rows, since <- served, hold <- inHand, state <- process, left <- released,
  active <- open, faults <- mishaps

sqVars == <<rows, served, inHand, process, released, open, mishaps>>

QueuesInit == database \in {"postgresql", "sqlite"} /\ Init /\ Sq!Init

QueuesNext ==
  \/ database = "postgresql" /\ Next /\ UNCHANGED <<database, sqVars>>
  \/ database = "sqlite" /\ Sq!Next /\ UNCHANGED <<database, vars>>

QueuesSpec == QueuesInit /\ [][QueuesNext]_<<database, vars, sqVars>>

\* The SQLite queue: a newsroom's one slot is one run at a time, and the row
\* of every run is its own, through the requeue of all that runs at a start.
OneAtATime == Sq!TenantShare /\ Sq!RowIsOwn
=============================================================================
