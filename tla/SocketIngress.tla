--------------------------- MODULE SocketIngress ----------------------------
(***************************************************************************)
(* SocketIngress: the UDP socket backend.  init() opens and sets up the    *)
(* socket step by step; recv_burst() receives a batch of messages and      *)
(* turns the kernel's running total of dropped datagrams into increments.  *)
(*                                                                         *)
(* The kernel stamps a message with its 32-bit total when the message is   *)
(* queued, and attaches no stamp of value 0; the queue is external.        *)
(***************************************************************************)
EXTENDS Ingress

CONSTANTS SockCap,  \* messages the receive buffer holds
          DropMod,  \* the kernel's total is counted modulo this (2^32)
          MaxDrops  \* bound: datagrams the kernel drops in one run

ASSUME SocketAssumption == DropMod \in Nat \ {0}

VARIABLES
    fd,       \* "none", "local" to init() or "owned" by the backend
    step,     \* steps of init() done
    waiting,  \* inside recvmmsg()
    msgs,     \* received by this call of recv_burst(), not yet looked at
    queue,    \* the receive buffer: [inet, total]
    kdrops,   \* datagrams the kernel dropped, history
    lastSeen, \* last_seen_kernel_drop_count
    reported  \* stats_.kernel_drop_count

socketVars == <<fd, step, waiting, msgs, queue, kdrops, lastSeen, reported>>

SocketPlain ==
    /\ fd = "none" /\ step = 0 /\ waiting = FALSE /\ queue = <<>> /\ msgs = <<>>
    /\ kdrops = 0 /\ lastSeen = 0 /\ reported = 0

\* The system calls of init() after socket(): receive buffer, timeout or
\* non-blocking mode, packet info, drop counter, and bind.
Options == 5

-----------------------------------------------------------------------------
SocketAddress(addressOk) ==
    /\ dev = "init" /\ step = 0
    /\ IF addressOk THEN step' = 1 /\ UNCHANGED dev ELSE dev' = "failed" /\ UNCHANGED step
    /\ UNCHANGED <<fd, waiting, msgs, queue, kdrops, lastSeen, reported>>
    /\ UNCHANGED <<calling, recvOk, burst, rxPackets, arrived>>

SocketOpen ==
    /\ dev = "init" /\ step = 1
    /\ \/ fd' = "local" /\ step' = 2 /\ UNCHANGED dev
       \/ dev' = "failed" /\ UNCHANGED <<fd, step>>
    /\ UNCHANGED <<waiting, msgs, queue, kdrops, lastSeen, reported>>
    /\ UNCHANGED <<calling, recvOk, burst, rxPackets, arrived>>

\* Each of the calls closes the socket when it fails; after the last the
\* backend takes the socket over.
SocketOption ==
    /\ dev = "init" /\ step \in 2..(Options + 1)
    /\ \/ dev' = "failed" /\ fd' = "none" /\ UNCHANGED step
       \/ /\ step' = step + 1
          /\ IF step = Options + 1 THEN fd' = "owned" /\ dev' = "up"
                                   ELSE UNCHANGED <<fd, dev>>
    /\ UNCHANGED <<waiting, msgs, queue, kdrops, lastSeen, reported>>
    /\ UNCHANGED <<calling, recvOk, burst, rxPackets, arrived>>

\* A burst of 0 datagrams is empty without a look at the socket.
SocketRecv(maxBurst) ==
    /\ ~calling /\ CallRecv /\ waiting' = (maxBurst > 0)
    /\ UNCHANGED <<fd, step, msgs, queue, kdrops, lastSeen, reported>>

\* recvmmsg() returns what is there ...
SocketReceive(maxBurst) ==
    /\ waiting /\ queue # <<>> /\ waiting' = FALSE
    /\ LET n == Min({maxBurst, Len(queue)})
       IN msgs' = SubSeq(queue, 1, n) /\ queue' = SubSeq(queue, n + 1, Len(queue))
    /\ UNCHANGED <<fd, step, kdrops, lastSeen, reported>>
    /\ UNCHANGED <<dev, calling, recvOk, burst, rxPackets, arrived>>

\* ... or nothing (EAGAIN, timeout, EINTR), unless it blocks without timeout; ...
SocketEmpty(blocks) ==
    /\ waiting /\ queue = <<>> /\ ~blocks /\ waiting' = FALSE
    /\ UNCHANGED <<ingressVars, fd, step, msgs, queue, kdrops, lastSeen, reported>>

\* ... or another error.
SocketError ==
    /\ waiting /\ waiting' = FALSE /\ calling' = FALSE /\ recvOk' = FALSE
    /\ UNCHANGED <<dev, burst, rxPackets, arrived>>
    /\ UNCHANGED <<fd, step, msgs, queue, kdrops, lastSeen, reported>>

\* Mutant of UpdateDrops: the last total is not remembered.
UpdateDropsForgets(total) ==
    IF total = 0 THEN UNCHANGED <<lastSeen, reported>>
    ELSE /\ reported' = IF total < lastSeen THEN reported ELSE reported + (total - lastSeen)
         /\ UNCHANGED lastSeen

\* update_kernel_drop_count_from_cmsg(): a smaller total is taken for a
\* counter that started again.
UpdateDrops(total) ==
    IF total = 0 THEN UNCHANGED <<lastSeen, reported>>
    ELSE /\ lastSeen' = total
         /\ reported' = IF total < lastSeen THEN reported ELSE reported + (total - lastSeen)

\* One message of the batch; its control data may be truncated.
SocketMessage ==
    /\ calling /\ ~waiting /\ msgs # <<>> /\ msgs' = Tail(msgs)
    /\ UpdateDrops(Head(msgs).total) \/ UNCHANGED <<lastSeen, reported>>
    /\ IF Head(msgs).inet
         THEN burst' = Append(burst, Len(burst) + 1) /\ rxPackets' = rxPackets + 1
         ELSE UNCHANGED <<burst, rxPackets>>
    /\ UNCHANGED <<dev, calling, recvOk, arrived, fd, step, waiting, queue, kdrops>>

SocketRelease == burst' = <<>> /\ UNCHANGED socketVars

SocketShutdown ==
    /\ fd' = IF fd = "owned" THEN "none" ELSE fd
    /\ queue' = IF fd = "owned" THEN <<>> ELSE queue
    /\ lastSeen' = 0 /\ UNCHANGED <<step, waiting, msgs, kdrops, reported>>

\* The kernel queues a datagram, or drops it when the buffer is full.
SocketArrive(inet) ==
    /\ fd = "owned" /\ Len(queue) < SockCap /\ Arrives
    /\ queue' = Append(queue, [inet |-> inet, total |-> kdrops % DropMod])
    /\ UNCHANGED <<fd, step, waiting, msgs, kdrops, lastSeen, reported>>

SocketLose ==
    /\ fd = "owned" /\ Len(queue) = SockCap
    /\ kdrops < MaxDrops /\ kdrops' = kdrops + 1
    /\ UNCHANGED <<ingressVars, fd, step, waiting, msgs, queue, lastSeen, reported>>

-----------------------------------------------------------------------------
\* The summary never reports more kernel drops than there were, although the
\* total wraps, a truncated message carries none and a message without drops
\* carries no stamp; until the total first wraps, what is reported is exactly
\* the newest total a message carried.
KernelDropsTruthful ==
    /\ reported <= kdrops
    /\ (kdrops < DropMod /\ fd = "owned") => reported = lastSeen
=============================================================================
