------------------------------ MODULE RxConfig ------------------------------
(***************************************************************************)
(* RxConfig: command line, configuration file, effective configuration and *)
(* its validation, as functions.  A configuration is a record; only fields *)
(* something depends on are in it, addresses and names are model strings   *)
(* ("" is the empty string, "any" is 0.0.0.0, "bad" is no IPv4 address).   *)
(***************************************************************************)
EXTENDS Integers, SequencesExt

CONSTANT MaxPort   \* 65535

ASSUME PortAssumption == MaxPort \in Nat \ {0}

DefaultConfig ==
    [backend |-> "dpdk", srcIp |-> "", recvIp |-> "", destPort |-> 0,
     bindIp |-> "", bindPort |-> 0, rcvbuf |-> 128, nonblocking |-> FALSE,
     timeoutMs |-> 10, maxBurst |-> 64, duration |-> 0, untilStopped |-> FALSE,
     capture |-> TRUE, captureDir |-> "results", captureIndex |-> "index",
     captureData |-> "data", record |-> FALSE, recordDir |-> "raw",
     recordPrefix |-> "radar_raw", ringSlots |-> 4096, batchSize |-> 64,
     frameBytes |-> 16384, segmentBytes |-> 512, totalBytes |-> 5120,
     logOutput |-> "stdout", logPath |-> "", dropPolicy |-> "degrade",
     udpSize |-> 2048, channels |-> 3, packets |-> 9]

-----------------------------------------------------------------------------
(* The command line: a token is [arg, ok, value]; ok says that the value is
   there and, for a number, parses. *)

NoArgs == [valid |-> TRUE, help |-> FALSE, dryRun |-> FALSE, config |-> FALSE,
           untilStopped |-> FALSE, duration |-> <<>>]

ParseToken(args, tok) ==
    IF ~args.valid THEN args
    ELSE CASE tok.arg = "--help" -> [args EXCEPT !.help = TRUE]
           [] tok.arg = "--dry-run" -> [args EXCEPT !.dryRun = TRUE]
           [] tok.arg = "--run-until-stopped" -> [args EXCEPT !.untilStopped = TRUE]
           [] tok.arg = "--config" /\ tok.ok -> [args EXCEPT !.config = TRUE]
           [] tok.arg = "--duration" /\ tok.ok -> [args EXCEPT !.duration = <<tok.value>>]
           [] OTHER -> [args EXCEPT !.valid = FALSE]

ParseCliArgs(tokens) == FoldLeft(ParseToken, NoArgs, tokens)

-----------------------------------------------------------------------------
(* The file: a line is [section, set, ok]; section says that it stands under
   a section header, set is a record with the one setting it names, ok says
   that its value parses (the setter throws if not).  All names of a setting
   stand for one field; a field no configuration has is an unknown name. *)

Key(line) == CHOOSE key \in DOMAIN line.set : TRUE

\* A value that parses is a number or a flag where the setter asks for one.
Numbers == {"destPort", "bindPort", "rcvbuf", "timeoutMs", "maxBurst", "duration", "ringSlots",
            "batchSize", "frameBytes", "segmentBytes", "totalBytes", "udpSize", "channels",
            "packets"}
Flags == {"nonblocking", "untilStopped", "capture", "record"}
WellFormed(line) ==
    /\ line.section \in BOOLEAN /\ line.ok \in BOOLEAN
    /\ (line.ok /\ Key(line) \in Numbers) => line.set[Key(line)] \in Nat
    /\ (line.ok /\ Key(line) \in Flags) => line.set[Key(line)] \in BOOLEAN

\* The setter: a drop policy that is not "error" is "degrade".
Assigned(cfg, line) ==
    LET key == Key(line)
    IN [cfg EXCEPT ![key] = IF key = "dropPolicy" /\ line.set[key] # "error"
                              THEN "degrade" ELSE line.set[key]]

\* Mutant of AssignLine: the last line wins, wherever it stands.
AssignLineLast(st, line) ==
    IF st.threw \/ Key(line) \notin DOMAIN DefaultConfig THEN st
    ELSE [cfg |-> IF line.ok THEN Assigned(st.cfg, line) ELSE st.cfg,
          assigned |-> {}, threw |-> ~line.ok]

\* assign_config_value(): once a section has assigned a key, a line outside of
\* the sections no longer does.
AssignLine(st, line) ==
    LET key == Key(line)
    IN IF \/ st.threw \/ key \notin DOMAIN DefaultConfig
          \/ ~line.section /\ key \in st.assigned
         THEN st
         ELSE [cfg |-> IF line.ok THEN Assigned(st.cfg, line) ELSE st.cfg,
               assigned |-> st.assigned \union (IF line.section THEN {key} ELSE {}),
               threw |-> ~line.ok]

LoadConfigFile(lines) ==
    LET unread == [cfg |-> DefaultConfig, assigned |-> {}, threw |-> FALSE]
        after[n \in 0..Len(lines)] == IF n = 0 THEN unread ELSE AssignLine(after[n - 1], lines[n])
    IN after[Len(lines)]

\* build_effective_config(): the binary decides the backend, the command line
\* wins over the file.
EffectiveConfig(backend, args, loaded) ==
    [loaded EXCEPT
       !.backend = backend,
       !.untilStopped = @ \/ args.untilStopped,
       !.duration = IF args.duration = <<>> THEN @ ELSE args.duration[1]]

EffectiveBindIp(c) == IF c.bindIp = "" THEN c.recvIp ELSE c.bindIp

EffectiveBindPort(c) ==
    LET port == IF c.bindPort # 0 THEN c.bindPort ELSE c.destPort
    IN IF port > MaxPort THEN 0 ELSE port

-----------------------------------------------------------------------------
(* validate_config() *)

\* Mutant of SocketValid: the two ports may differ.
SocketValidPorts(c) ==
    /\ EffectiveBindIp(c) # ""
    /\ c.bindPort <= MaxPort
    /\ EffectiveBindPort(c) # 0
    /\ c.bindIp \in {"", "any"} \/ c.recvIp = "" \/ c.bindIp = c.recvIp
    /\ c.rcvbuf # 0

SocketValid(c) ==
    /\ EffectiveBindIp(c) # ""
    /\ c.bindPort <= MaxPort
    /\ EffectiveBindPort(c) # 0
    /\ c.bindIp \in {"", "any"} \/ c.recvIp = "" \/ c.bindIp = c.recvIp
    /\ c.bindPort = 0 \/ c.destPort = 0 \/ c.bindPort = c.destPort
    /\ c.rcvbuf # 0

CaptureValid(c) == "" \notin {c.captureDir, c.captureIndex, c.captureData}

RecordValid(c) ==
    /\ "" \notin {c.recordDir, c.recordPrefix}
    /\ 0 \notin {c.ringSlots, c.batchSize, c.frameBytes, c.segmentBytes, c.totalBytes}
    /\ c.segmentBytes <= c.totalBytes

ConfigValid(c) ==
    /\ c.destPort <= MaxPort
    /\ c.backend = "socket" => SocketValid(c)
    /\ c.capture => CaptureValid(c)
    /\ c.record => RecordValid(c)
    /\ c.logOutput = "file" => c.logPath # ""
    /\ 0 \notin {c.udpSize, c.channels, c.packets}

-----------------------------------------------------------------------------
(* matches_packet_filter(): an address that does not parse counts as 0.0.0.0 *)

Address(ip) == IF ip = "bad" THEN "any" ELSE ip

MatchesFilter(c, src, dst, port) ==
    /\ c.srcIp # "" => src = Address(c.srcIp)
    /\ c.recvIp # "" => dst = Address(c.recvIp)
    /\ c.destPort # 0 => port = c.destPort % (MaxPort + 1)
=============================================================================
