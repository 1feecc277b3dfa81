------------------------- MODULE FileReplayIngress --------------------------
(***************************************************************************)
(* FileReplayIngress: the backend that serves prebuilt frames from files,  *)
(* loop_count times, and after that empty bursts.  Its datagrams carry a   *)
(* raw frame but no payload and no addresses.  The rate limiter only       *)
(* sleeps and is left out.                                                 *)
(***************************************************************************)
EXTENDS Ingress

CONSTANTS ReplayFrames, \* frames the data directories hold
          LoopCount     \* opts.loop_count

VARIABLES
    frames, \* frames built by init()
    cursor, \* next frame to serve
    upto,   \* the last frame of this call of recv_burst()
    loop,   \* completed loops
    stopped

replayVars == <<frames, cursor, upto, loop, stopped>>

ReplayPlain == frames = 0 /\ cursor = 0 /\ upto = 0 /\ loop = 0 /\ stopped = FALSE

\* init(): an unreadable or missing file leaves the frames built so far.
ReplayInit ==
    /\ dev = "init"
    /\ \/ dev' = "up" /\ frames' = ReplayFrames /\ ReplayFrames > 0
       \/ dev' = "failed" /\ frames' \in 0..ReplayFrames
    /\ UNCHANGED <<calling, recvOk, burst, rxPackets, arrived, cursor, upto, loop, stopped>>

Exhausted == cursor >= frames
LastLoop == loop + 1 >= LoopCount

\* recv_burst(): at the end of the frames the next loop begins, or the replay
\* stops.
ReplayRecv(maxBurst) ==
    /\ ~calling /\ calling' = TRUE /\ burst' = <<>>
    /\ LET idle == stopped \/ frames = 0
           ends == ~idle /\ Exhausted /\ LastLoop
           from == IF Exhausted THEN 0 ELSE cursor
           n == IF idle \/ ends THEN 0
                ELSE Min({maxBurst, frames - from})
       IN /\ cursor' = IF idle \/ ends THEN cursor ELSE from
          /\ upto' = cursor' + n
          /\ loop' = IF ~idle /\ Exhausted THEN loop + 1 ELSE loop
          /\ stopped' = (stopped \/ ends)
    /\ UNCHANGED <<dev, recvOk, rxPackets, arrived, frames>>

ReplayAdapt ==
    /\ calling /\ cursor < upto
    /\ cursor' = cursor + 1 /\ burst' = Append(burst, cursor)
    /\ rxPackets' = rxPackets + 1
    /\ UNCHANGED <<dev, calling, recvOk, arrived, frames, upto, loop, stopped>>

ReplayRelease == burst' = <<>> /\ UNCHANGED replayVars

ReplayShutdown == stopped' = TRUE /\ UNCHANGED <<frames, cursor, upto, loop>>
=============================================================================
