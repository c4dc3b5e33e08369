----------------------------- MODULE MCBdifUsb -----------------------------
(***************************************************************************)
(* A peer with two frames to send, of every length up to one too long, and *)
(* a short one behind them, with payloads that are lengths in range and    *)
(* out of it.                                                              *)
(***************************************************************************)
EXTENDS BdifUsb

Frame(len, v) == <<[val |-> len, head |-> TRUE]>>
                    \o [i \in 1..len |-> [val |-> v, head |-> FALSE]]

MCStreams == {Frame(m, v) \o Frame(n, v) \o Frame(1, v) :
                 m, n \in 0..(MaxPacket + 1), v \in {0, MaxPacket, MaxPacket + 1}}
=============================================================================
