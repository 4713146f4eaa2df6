------------------------------ MODULE MCDeviceIo ------------------------------
EXTENDS DeviceIo, TLC

CONSTANTS u1, u2, u3, r1

\* Two layers, as in super_algo_device, with superblocks of one and two sectors.
MCStart == <<0, 1, 3>>

\* Two threads at the upper layer, one at the lower.
MCLayerOf == (u1 :> 2) @@ (u2 :> 2) @@ (u3 :> 1)
MCAddrs == {0, 1}
\* The request is issued twice, with the sector its callback got back.
MCMaxCalls == (u1 :> 1) @@ (u2 :> 1) @@ (u3 :> 1) @@ (r1 :> 2)
===============================================================================
