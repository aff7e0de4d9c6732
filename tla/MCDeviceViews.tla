--------------------------- MODULE MCDeviceViews ---------------------------
(* Instances of DispatchViews, and of what it extends, for TLC.            *)
EXTENDS DispatchViews

DeviceShapes == {<<2, 3>>, <<2, 1, 3>>, <<1, 1, 2, 2>>, <<2, 1, 1, 2>>}
Asked == {<<2, 2>>, <<None, 2>>, <<2, 2, 3>>, <<1, 2, 3>>, <<2, 2, 2>>, <<2>>, <<>>}
SomeDims == {-2, -1, 0, 1}
=============================================================================
