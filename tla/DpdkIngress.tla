---------------------------- MODULE DpdkIngress -----------------------------
(***************************************************************************)
(* DpdkIngress: where every mbuf of the pool is.  The NIC fills mbufs of   *)
(* the pool; recv_burst() takes them from the NIC, answers ARP requests,   *)
(* frees what is no UDP datagram and lends the rest to the caller, who     *)
(* gives them back with release_burst().                                   *)
(*                                                                         *)
(* A frame is a record of what the code looks at: [ether, request, local,  *)
(* sound, fragment, udp].  The pool, the NIC and its driver are external.  *)
(***************************************************************************)
EXTENDS Ingress

CONSTANTS Mbufs,   \* the mbufs of the pool
          Frames   \* the frames that arrive

VARIABLES
    at,        \* where each mbuf is: "pool", "nic", "held", "lent" or "tx"
    nic,       \* filled mbufs, oldest first
    taken,     \* filled mbufs this call of recv_burst() has not yet looked at
    discarded, \* frames recv_burst() took and did not lend
    doubleFree \* an mbuf of the pool was freed, history

dpdkVars == <<at, nic, taken, discarded, doubleFree>>

DpdkPlain ==
    /\ at = [m \in Mbufs |-> "pool"] /\ nic = <<>> /\ taken = <<>>
    /\ discarded = 0 /\ doubleFree = FALSE

\* parse_arp_request(): a request for the local address.
IsArpRequest(f) == f.ether = "arp" /\ f.request /\ f.local

\* adapt_frame(): an unfragmented IPv4/UDP datagram with sound lengths.
IsUdpDatagram(f) == f.ether = "ipv4" /\ f.sound /\ ~f.fragment /\ f.udp

\* rte_pktmbuf_free() of each mbuf in S, moving those in T elsewhere.
FreeAndMove(S, T, where) ==
    /\ at' = [m \in Mbufs |-> IF m \in T THEN where ELSE IF m \in S THEN "pool" ELSE at[m]]
    /\ doubleFree' = (doubleFree \/ \E m \in S : at[m] = "pool")

Free(S) == FreeAndMove(S, {}, "pool")

-----------------------------------------------------------------------------
\* init() up to rte_eth_dev_start(): any of its calls may fail.
DpdkInit ==
    /\ dev = "init" /\ dev' \in {"failed", "drain"}
    /\ UNCHANGED <<calling, recvOk, burst, rxPackets, arrived, dpdkVars>>

\* One round of the loop that empties the NIC before the run.
DpdkDrain ==
    /\ dev = "drain"
    /\ dev' = IF nic = <<>> THEN "up" ELSE "drain"
    /\ Free({nic[i].mbuf : i \in 1..Len(nic)}) /\ nic' = <<>>
    /\ UNCHANGED <<calling, recvOk, burst, rxPackets, arrived, taken, discarded>>

\* recv_burst(): takes at most 64 frames, and no more than asked for.
DpdkRecv(maxBurst) ==
    LET n == Min({maxBurst, 64, Len(nic)})
    IN /\ ~calling /\ calling' = TRUE /\ burst' = <<>>
       /\ taken' = SubSeq(nic, 1, n) /\ nic' = SubSeq(nic, n + 1, Len(nic))
       /\ at' = [m \in Mbufs |-> IF \E i \in 1..n : nic[i].mbuf = m THEN "held" ELSE at[m]]
       /\ UNCHANGED <<dev, recvOk, rxPackets, arrived, discarded, doubleFree>>

TakeFrame == /\ calling /\ taken # <<>>
             /\ taken' = Tail(taken) /\ rxPackets' = rxPackets + 1
             /\ UNCHANGED <<dev, calling, recvOk, arrived, nic>>

\* Mutant of DpdkAnswer: a reply the NIC did not take is not freed.
DpdkAnswerLeaks ==
    /\ TakeFrame /\ IsArpRequest(Head(taken).frame)
    /\ LET m == Head(taken).mbuf
           spare == {t \in Mbufs : at[t] = "pool"}
       IN \/ spare = {} /\ Free({m})
          \/ \E t \in spare : FreeAndMove({m}, {t}, "tx") \/ FreeAndMove({m}, {t}, "held")
    /\ discarded' = discarded + 1 /\ UNCHANGED burst

\* maybe_reply_arp(): the reply needs an mbuf of its own; it goes to the NIC,
\* or is freed when the NIC does not take it.
DpdkAnswer ==
    /\ TakeFrame /\ IsArpRequest(Head(taken).frame)
    /\ LET m == Head(taken).mbuf
           spare == {t \in Mbufs : at[t] = "pool"}
       IN \/ spare = {} /\ Free({m})
          \/ \E t \in spare : FreeAndMove({m}, {t}, "tx") \/ Free({m})
    /\ discarded' = discarded + 1 /\ UNCHANGED burst

DpdkDiscard ==
    /\ TakeFrame
    /\ ~IsArpRequest(Head(taken).frame) /\ ~IsUdpDatagram(Head(taken).frame)
    /\ Free({Head(taken).mbuf})
    /\ discarded' = discarded + 1 /\ UNCHANGED burst

DpdkLend ==
    /\ TakeFrame /\ IsUdpDatagram(Head(taken).frame)
    /\ burst' = Append(burst, Head(taken).mbuf)
    /\ at' = [at EXCEPT ![Head(taken).mbuf] = "lent"]
    /\ UNCHANGED <<discarded, doubleFree>>

\* release_burst()
DpdkRelease == /\ Free(ToSet(burst)) /\ burst' = <<>>
               /\ UNCHANGED <<nic, taken, discarded>>

\* shutdown(): stopping and closing the device frees what the driver holds.
DpdkShutdown ==
    /\ at' = [m \in Mbufs |-> IF at[m] \in {"nic", "tx"} THEN "pool" ELSE at[m]]
    /\ nic' = <<>> /\ UNCHANGED <<taken, discarded, doubleFree>>

\* The network and the driver.
DpdkArrive(f) ==
    /\ dev \in {"drain", "up"} /\ Arrives
    /\ \E m \in Mbufs : /\ at[m] = "pool" /\ at' = [at EXCEPT ![m] = "nic"]
                        /\ nic' = Append(nic, [mbuf |-> m, frame |-> f])
    /\ UNCHANGED <<taken, discarded, doubleFree>>

DpdkSent ==
    /\ \E m \in Mbufs : at[m] = "tx" /\ at' = [at EXCEPT ![m] = "pool"]
    /\ UNCHANGED <<ingressVars, nic, taken, discarded, doubleFree>>

-----------------------------------------------------------------------------
\* Every mbuf taken from the NIC is freed exactly once, on whichever of the
\* ARP, discard, lend and release paths it goes: no mbuf is freed twice, and
\* one that is neither in the pool nor on its way out is in the NIC, in the
\* call, or in the caller's burst.  A leak would stop the reception after
\* mempool-many frames.
MbufsConserved ==
    /\ ~doubleFree
    /\ \A m \in Mbufs :
         /\ at[m] = "nic" <=> \E i \in 1..Len(nic) : nic[i].mbuf = m
         /\ at[m] = "held" <=> \E i \in 1..Len(taken) : taken[i].mbuf = m
         /\ at[m] = "lent" <=> \E i \in 1..Len(burst) : burst[i] = m
=============================================================================
