------------------------------ MODULE MCCluster ------------------------------
EXTENDS ClusterProps, TLC

CONSTANTS a, b, c, m

TwoNodes == {a, b}
ThreeNodes == {a, b, c}
OneModel == {m}
EachOther == a :> {b} @@ b :> {a}
Upwards == a :> {} @@ b :> {a} @@ c :> {b}
TwoAndOne == a :> 2 @@ b :> 1
OthersOnce == a :> 0 @@ b :> 1 @@ c :> 1
BothOffer == a :> {{m}} @@ b :> {{m}}
AllOffer == a :> {{m}} @@ b :> {{m}} @@ c :> {{m}}
=============================================================================
