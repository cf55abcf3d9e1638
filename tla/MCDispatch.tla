----------------------------- MODULE MCDispatch ------------------------------
EXTENDS DispatchProps, TLC

CONSTANTS w1, w2

OneWorker == {w1}
TwoWorkers == {w1, w2}
WorkerSymmetry == Permutations(Workers)

OneModel == {1}
AllSameModel == [r \in Requests |-> 1]
TwoModels == {1, 2}
LaterModelFirst == 1 :> 2 @@ 2 :> 1
AllServe == [w \in Workers |-> Models]
=============================================================================
