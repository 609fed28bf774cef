----------------------------- MODULE MCJobQueue -----------------------------
(***************************************************************************)
(* Small instances of JobQueue: two workers with one slot each (or one     *)
(* worker with two), a tick and a collection that clash and a draft of     *)
(* another tenant (or of the same one).                                    *)
(***************************************************************************)
EXTENDS JobQueue

CONSTANTS w1, w2, s1, s2

MCTenantOfWork == "tick" :> 1 @@ "collect" :> 1 @@ "draft" :> 2
MCPriorityOf == "tick" :> 0 @@ "collect" :> 10 @@ "draft" :> 10
MCWorkerOf == s1 :> w1 @@ s2 :> w2
MCWorkerOfOne == [s \in Slots |-> w1]
\* One newsroom only.
MCTenantOfWorkOne == [w \in Works |-> 1]
MCPriorityOfOne == [w \in Works |-> 10]
=============================================================================
