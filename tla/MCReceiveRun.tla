---------------------------- MODULE MCReceiveRun ----------------------------
(* Three frames for a pool of two mbufs or a socket queue of one message,
   a replay of two frames played twice, one signal.  Runs of every backend,
   and dry runs over files of up to three lines.  Ports end at 7. *)
EXTENDS ReceiveRun

Arg(a) == [arg |-> a, ok |-> TRUE, value |-> 0]
Flat(setting) == [section |-> FALSE, set |-> setting, ok |-> TRUE]
Section(setting) == [Flat(setting) EXCEPT !.section = TRUE]
Garbled(setting) == [Flat(setting) EXCEPT !.ok = FALSE]

Frame(ether, local, fragment) ==
    [ether |-> ether, request |-> TRUE, local |-> local, sound |-> TRUE,
     fragment |-> fragment, udp |-> TRUE]
MCFrames == {Frame("ipv4", TRUE, FALSE), Frame("ipv4", TRUE, TRUE), Frame("arp", TRUE, FALSE)}

Job(entry, backend, tokens, file) ==
    [entry |-> entry, backend |-> backend, linked |-> TRUE, tokens |-> tokens, file |-> file]

Two == Flat([maxBurst |-> 2])
NoCapture == Flat([capture |-> FALSE])
Target == <<Flat([recvIp |-> "A"]), Flat([destPort |-> 5])>>

RunJobs ==
    {Job("app", "dpdk", <<Arg("--config")>>,
         <<Two, Flat([untilStopped |-> TRUE]), Flat([record |-> TRUE]), NoCapture>>),
     Job("app", "dpdk", <<Arg("--config"), Arg("--duration")>>,
         <<Two, Flat([dropPolicy |-> "error"]), Flat([destPort |-> 5])>>),
     [Job("app", "dpdk", <<Arg("--config")>>, <<Two>>) EXCEPT !.linked = FALSE],
     Job("app", "socket", <<Arg("--config"), Arg("--run-until-stopped")>>,
         Target \o <<NoCapture, Flat([logOutput |-> "file"]), Flat([logPath |-> "l"])>>),
     Job("app", "socket", <<Arg("--config"), Arg("--run-until-stopped")>>,
         Target \o <<NoCapture, Flat([timeoutMs |-> 0])>>),
     Job("app", "socket", <<Arg("--config"), Arg("--run-until-stopped")>>,
         Target \o <<NoCapture, Flat([timeoutMs |-> 0]), Flat([maxBurst |-> 0])>>),
     Job("app", "socket", <<Arg("--config")>>, <<Flat([recvIp |-> "bad"]), Flat([destPort |-> 5])>>),
     Job("app", "dpdk", <<Arg("--config")>>, <<Two, Garbled([duration |-> 0])>>),
     Job("library", "filereplay", <<>>,
         <<Two, Flat([untilStopped |-> TRUE]), Flat([record |-> TRUE])>>),
     Job("library", "filereplay", <<>>, <<Two, Flat([destPort |-> 5]), NoCapture>>)}

CommandJobs ==
    {Job("app", "dpdk", tokens, <<>>) :
       tokens \in {<<>>, <<Arg("--help")>>, <<Arg("--dry-run")>>, <<Arg("--unknown")>>,
                   <<Arg("--help"), [Arg("--config") EXCEPT !.ok = FALSE]>>}}

Addresses == {Flat([recvIp |-> "A"]), Flat([recvIp |-> "B"]), Flat([bindIp |-> "A"]),
              Flat([bindIp |-> "any"]), Flat([destPort |-> 5]), Flat([destPort |-> 6]),
              Flat([destPort |-> 9]), Flat([bindPort |-> 5])}
Sources == {Flat([destPort |-> 5]), Section([destPort |-> 6]), Flat([duration |-> 3]),
            Section([duration |-> 4]), Flat([unknown |-> 0])}
Recording == {Flat([record |-> TRUE]), Flat([segmentBytes |-> 6000]), Flat([ringSlots |-> 0]),
              Flat([channels |-> 0])}
Files == [1..3 -> Addresses] \union [1..3 -> Sources] \union [1..2 -> Recording]

DryJobs ==
    {Job("app", backend, tokens, file) :
       backend \in {"dpdk", "socket"}, file \in Files,
       tokens \in {<<Arg("--config"), Arg("--dry-run")>>,
                   <<Arg("--config"), Arg("--dry-run"), Arg("--duration")>>}}

MCJobs == RunJobs \union CommandJobs \union DryJobs
=============================================================================
