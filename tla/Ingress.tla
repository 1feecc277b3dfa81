------------------------------ MODULE Ingress -------------------------------
(***************************************************************************)
(* Ingress: what the three backends behind IRxBackend have in common: a    *)
(* device that is down or up, a call of recv_burst() that adapts one       *)
(* received frame or message after the other, and the burst it fills.      *)
(***************************************************************************)
EXTENDS Integers, SequencesExt, FiniteSets

CONSTANT MaxFrames   \* bound: frames that arrive in one run

VARIABLES
    dev,      \* "down", "init", "drain" (DPDK: started), "failed" or "up"
    calling,  \* inside recv_burst()
    recvOk,   \* what the last recv_burst() returned
    burst,    \* datagrams of the caller's UdpDatagramBurst
    rxPackets,\* stats_.rx_packets
    arrived   \* frames the network delivered, bounds the model

ingressVars == <<dev, calling, recvOk, burst, rxPackets, arrived>>

IngressInit ==
    /\ dev = "down" /\ calling = FALSE /\ recvOk = TRUE
    /\ burst = <<>> /\ rxPackets = 0 /\ arrived = 0

\* The entry of recv_burst(): the caller's burst is cleared.
CallRecv == /\ calling' = TRUE /\ burst' = <<>>
            /\ UNCHANGED <<dev, recvOk, rxPackets, arrived>>

\* The burst is full of what was received: recv_burst() returns true.
ReturnBurst == /\ calling /\ calling' = FALSE /\ recvOk' = TRUE
               /\ UNCHANGED <<dev, burst, rxPackets, arrived>>

Arrives == /\ arrived < MaxFrames /\ arrived' = arrived + 1
           /\ UNCHANGED <<dev, calling, recvOk, burst, rxPackets>>
=============================================================================
