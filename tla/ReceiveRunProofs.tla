-------------------------- MODULE ReceiveRunProofs --------------------------
(***************************************************************************)
(* Proofs about ReceiveRun.tla, for any pool of mbufs, any files, command  *)
(* lines and arrivals: runner, loop and backends keep the contract of      *)
(* IRxBackend, every mbuf is freed once, and a run that exits has given    *)
(* everything back, whatever ended it.  The first part is about the        *)
(* configuration file: what LoadConfigFile makes of any lines.             *)
(***************************************************************************)
EXTENDS ReceiveRun, SequenceFacts, TLAPS

Starting == {"args", "load", "validate", "log", "reset", "handlers"}
Up == {"record", "check", "recv", "process", "finalize", "join", "stoprec", "judge", "unwind"}
AtWork == {"check", "recv", "process", "finalize", "join", "stoprec"}
Helping == {"check", "recv", "process", "finalize", "join"}

(* Where the thread is tells what is open: the backend, the helpers, the   *)
(* handlers; and a datagram is lent only from the receipt to the release.  *)
PlacesHold ==
  /\ pc \in Starting \union {"init"} \union Up \union {"leave", "exited", "killed"}
  /\ dev \in {"down", "init", "drain", "failed", "up"} /\ calling \in BOOLEAN
  /\ calling => pc = "recv"
  /\ burst # <<>> => pc \in {"recv", "process"}
  /\ pc \in Starting \union {"leave", "exited", "killed"} => dev = "down"
  /\ pc \in Up => dev = "up"
  /\ handlers <=> pc \in Up \union {"init", "leave"}
  /\ rec = "on" => pc \in AtWork
  /\ consumer = "on" => pc \in Helping

(* Whose the socket is follows from how far init() got.                    *)
SocketHolds ==
  /\ fd \in {"none", "local", "owned"} /\ step \in Nat
  /\ fd = "local" => dev = "init" /\ step > 1
  /\ fd = "owned" => dev = "up"
  /\ fd # "none" \/ waiting => cfg.backend = "socket"
  /\ waiting => calling

-----------------------------------------------------------------------------
(* The configuration a file loads, line by line *)

Unread == [cfg |-> DefaultConfig, assigned |-> {}, threw |-> FALSE]

LoadsTo(lines, after) ==
  after = [n \in 0 .. Len(lines) |-> IF n = 0 THEN Unread ELSE AssignLine(after[n - 1], lines[n])]

LEMMA LoadExists ==
  ASSUME NEW L, NEW lines \in Seq(L)
  PROVE  \E after : LoadsTo(lines, after)
<1> DEFINE T(n) == \E f : f = [i \in 0 .. n |-> IF i = 0 THEN Unread
                                                 ELSE AssignLine(f[i - 1], lines[i])]
           S == {n \in 0 .. Len(lines) : T(n)}
<1>1. Len(lines) \in Nat
  OBVIOUS
<1>2. T(0)
  <2> DEFINE f == [i \in {0} |-> Unread]
  <2>1. f = [i \in 0 .. 0 |-> IF i = 0 THEN Unread ELSE AssignLine(f[i - 1], lines[i])]
    OBVIOUS
  <2>2. QED
    BY <2>1
<1>3. ASSUME NEW n \in 1 .. Len(lines), T(n - 1)
      PROVE  T(n)
  <2>1. PICK f : f = [i \in 0 .. n - 1 |-> IF i = 0 THEN Unread
                                           ELSE AssignLine(f[i - 1], lines[i])]
    BY <1>3
  <2> DEFINE g == [i \in 0 .. n |-> IF i = n THEN AssignLine(f[n - 1], lines[n]) ELSE f[i]]
  <2>2. \A i \in 0 .. n - 1 : g[i] = f[i]
    BY <1>1
  <2>3. \A i \in 0 .. n : g[i] = IF i = 0 THEN Unread ELSE AssignLine(g[i - 1], lines[i])
    <3> SUFFICES ASSUME NEW i \in 0 .. n
                 PROVE  g[i] = IF i = 0 THEN Unread ELSE AssignLine(g[i - 1], lines[i])
      OBVIOUS
    <3>1. CASE i = n
      <4>1. g[i] = AssignLine(f[n - 1], lines[n]) /\ n - 1 \in 0 .. n - 1 /\ i # 0
        BY <1>1, <3>1
      <4>2. g[n - 1] = f[n - 1]
        BY <2>2, <4>1
      <4> HIDE DEF g
      <4>3. QED
        BY <3>1, <4>1, <4>2
    <3>2. CASE i \in 0 .. n - 1
      <4>1. g[i] = f[i] /\ (i # 0 => i - 1 \in 0 .. n - 1)
        BY <1>1, <2>2, <3>2
      <4>2. f[i] = IF i = 0 THEN Unread ELSE AssignLine(f[i - 1], lines[i])
        BY <2>1, <3>2
      <4>3. i # 0 => g[i - 1] = f[i - 1]
        BY <2>2, <4>1
      <4> HIDE DEF g
      <4>4. QED
        BY <4>1, <4>2, <4>3
    <3>3. QED
      BY <1>1, <3>1, <3>2
  <2>4. g = [i \in 0 .. n |-> IF i = 0 THEN Unread ELSE AssignLine(g[i - 1], lines[i])]
    <3>1. g = [i \in 0 .. n |-> g[i]]
      OBVIOUS
    <3> HIDE DEF g
    <3>2. QED
      BY <2>3, <3>1
  <2>5. QED
    BY <2>4
<1> HIDE DEF T
<1>4. 0 \in S /\ \A n \in 1 .. Len(lines) : n - 1 \in S => n \in S
  <2>1. 0 \in 0 .. Len(lines) /\ \A n \in 1 .. Len(lines) : n \in 0 .. Len(lines)
    BY <1>1
  <2>2. QED
    BY <1>2, <1>3, <2>1
<1>5. Len(lines) \in 0 .. Len(lines)
  BY <1>1
<1> HIDE DEF S
<1>6. Len(lines) \in S
  BY <1>1, <1>4, <1>5, IntervalInduction
<1>7. T(Len(lines))
  BY <1>6 DEF S
<1>8. QED
  BY <1>7 DEF T, LoadsTo

LEMMA LoadIs ==
  ASSUME NEW L, NEW lines \in Seq(L)
  PROVE  \E after : /\ LoadConfigFile(lines) = after[Len(lines)] /\ after[0] = Unread
                    /\ \A n \in 1 .. Len(lines) : after[n] = AssignLine(after[n - 1], lines[n])
<1> DEFINE after == CHOOSE f : f = [n \in 0 .. Len(lines) |->
                                      IF n = 0 THEN [cfg |-> DefaultConfig, assigned |-> {},
                                                     threw |-> FALSE]
                                      ELSE AssignLine(f[n - 1], lines[n])]
<1>1. LoadConfigFile(lines) = after[Len(lines)]
  BY DEF LoadConfigFile
<1>2. after = [n \in 0 .. Len(lines) |-> IF n = 0 THEN Unread ELSE AssignLine(after[n - 1], lines[n])]
  BY LoadExists DEF LoadsTo, Unread
<1> HIDE DEF after
<1>3. Len(lines) \in Nat
  OBVIOUS
<1>4. after[0] = Unread /\ \A n \in 1 .. Len(lines) : after[n] = AssignLine(after[n - 1], lines[n])
  BY <1>2, <1>3
<1>5. QED
  BY <1>1, <1>4

(* The types of a configuration as far as something depends on them.       *)
ConfigTypes(c) ==
  /\ DOMAIN c = DOMAIN DefaultConfig
  /\ \A key \in Numbers : c[key] \in Nat
  /\ \A key \in Flags : c[key] \in BOOLEAN

LEMMA DefaultTypes == ConfigTypes(DefaultConfig) /\ Numbers \subseteq DOMAIN DefaultConfig
                      /\ Flags \subseteq DOMAIN DefaultConfig
<1>1. Numbers \subseteq DOMAIN DefaultConfig /\ Flags \subseteq DOMAIN DefaultConfig
  BY DEF Numbers, Flags, DefaultConfig
<1>2. \A key \in Numbers : DefaultConfig[key] \in Nat
  <2>1. DefaultConfig.destPort \in Nat
    BY DEF DefaultConfig
  <2>2. DefaultConfig.bindPort \in Nat
    BY DEF DefaultConfig
  <2>3. DefaultConfig.rcvbuf \in Nat
    BY DEF DefaultConfig
  <2>4. DefaultConfig.timeoutMs \in Nat
    BY DEF DefaultConfig
  <2>5. DefaultConfig.maxBurst \in Nat
    BY DEF DefaultConfig
  <2>6. DefaultConfig.duration \in Nat
    BY DEF DefaultConfig
  <2>7. DefaultConfig.ringSlots \in Nat
    BY DEF DefaultConfig
  <2>8. DefaultConfig.batchSize \in Nat
    BY DEF DefaultConfig
  <2>9. DefaultConfig.frameBytes \in Nat
    BY DEF DefaultConfig
  <2>10. DefaultConfig.segmentBytes \in Nat
    BY DEF DefaultConfig
  <2>11. DefaultConfig.totalBytes \in Nat
    BY DEF DefaultConfig
  <2>12. DefaultConfig.udpSize \in Nat
    BY DEF DefaultConfig
  <2>13. DefaultConfig.channels \in Nat
    BY DEF DefaultConfig
  <2>14. DefaultConfig.packets \in Nat
    BY DEF DefaultConfig
  <2>15. QED
    BY <2>1, <2>2, <2>3, <2>4, <2>5, <2>6, <2>7, <2>8, <2>9, <2>10, <2>11, <2>12, <2>13, <2>14 DEF Numbers
<1>3. \A key \in Flags : DefaultConfig[key] \in BOOLEAN
  <2>1. DefaultConfig.nonblocking \in BOOLEAN
    BY DEF DefaultConfig
  <2>2. DefaultConfig.untilStopped \in BOOLEAN
    BY DEF DefaultConfig
  <2>3. DefaultConfig.capture \in BOOLEAN
    BY DEF DefaultConfig
  <2>4. DefaultConfig.record \in BOOLEAN
    BY DEF DefaultConfig
  <2>5. QED
    BY <2>1, <2>2, <2>3, <2>4 DEF Flags
<1>4. QED
  BY <1>1, <1>2, <1>3 DEF ConfigTypes


LEMMA AssignTypes ==
  ASSUME NEW st, NEW line, ConfigTypes(st.cfg), WellFormed(line)
  PROVE  ConfigTypes(AssignLine(st, line).cfg)
<1> DEFINE key == Key(line)
           new == AssignLine(st, line)
<1>1. CASE new = st
  BY <1>1
<1>2. CASE new # st
  <2>1. key \in DOMAIN DefaultConfig
        /\ new = [cfg |-> IF line.ok THEN Assigned(st.cfg, line) ELSE st.cfg,
                  assigned |-> st.assigned \cup (IF line.section THEN {key} ELSE {}),
                  threw |-> ~line.ok]
    BY <1>2 DEF AssignLine
  <2>2. new.cfg = IF line.ok THEN Assigned(st.cfg, line) ELSE st.cfg
    BY <2>1
  <2>3. ASSUME line.ok
        PROVE  ConfigTypes(Assigned(st.cfg, line))
    <3> DEFINE value == IF key = "dropPolicy" /\ line.set[key] # "error"
                        THEN "degrade" ELSE line.set[key]
    <3>1. Assigned(st.cfg, line) = [st.cfg EXCEPT ![key] = value]
      BY DEF Assigned
    <3>2. (key \in Numbers => value \in Nat) /\ (key \in Flags => value \in BOOLEAN)
      BY <2>3 DEF WellFormed, Numbers, Flags
    <3> HIDE DEF key, value
    <3>3. QED
      BY <3>1, <3>2, DefaultTypes DEF ConfigTypes
  <2>4. QED
    BY <2>2, <2>3
<1>3. QED
  BY <1>1, <1>2

LEMMA LoadedTypes ==
  ASSUME NEW L, NEW lines \in Seq(L), \A n \in 1 .. Len(lines) : WellFormed(lines[n])
  PROVE  ConfigTypes(LoadConfigFile(lines).cfg)
<1>1. PICK after : /\ LoadConfigFile(lines) = after[Len(lines)] /\ after[0] = Unread
                   /\ \A n \in 1 .. Len(lines) : after[n] = AssignLine(after[n - 1], lines[n])
  BY LoadIs
<1>2. Len(lines) \in Nat
  OBVIOUS
<1> DEFINE Good == {n \in 0 .. Len(lines) : ConfigTypes(after[n].cfg)}
<1>3. 0 \in Good
  BY <1>1, <1>2, DefaultTypes DEF Unread
<1>4. ASSUME NEW n \in 1 .. Len(lines), n - 1 \in Good
      PROVE  n \in Good
  <2>1. ConfigTypes(after[n - 1].cfg) /\ n \in 0 .. Len(lines)
    BY <1>2, <1>4
  <2>2. ConfigTypes(after[n].cfg)
    BY <1>1, <2>1, AssignTypes
  <2>3. QED
    BY <2>1, <2>2
<1> HIDE DEF Good
<1>5. Len(lines) \in Good
  <2>1. \A n \in 0 .. Len(lines) : n \in Good
    BY <1>2, <1>3, <1>4, IntervalInduction
  <2>2. QED
    BY <1>2, <2>1
<1>6. QED
  BY <1>1, <1>5 DEF Good

(* The lines for a setting among the first n, and the value they give it.  *)
LinesIn(lines, key, inSection, n) ==
  {i \in 1 .. n : Key(lines[i]) = key /\ lines[i].section = inSection}
ValueIn(lines, key, n) ==
  LET inSection == LinesIn(lines, key, TRUE, n)
      flat == LinesIn(lines, key, FALSE, n)
  IN  IF inSection # {} THEN lines[Max(inSection)].set[key]
      ELSE IF flat # {} THEN lines[Max(flat)].set[key] ELSE DefaultConfig[key]

LEMMA LinesGrow ==
  ASSUME NEW lines, NEW key, NEW inSection, NEW n \in Nat \ {0}
  PROVE  IF Key(lines[n]) = key /\ lines[n].section = inSection
         THEN /\ LinesIn(lines, key, inSection, n) # {}
              /\ Max(LinesIn(lines, key, inSection, n)) = n
         ELSE LinesIn(lines, key, inSection, n) = LinesIn(lines, key, inSection, n - 1)
<1> DEFINE new == LinesIn(lines, key, inSection, n)
           old == LinesIn(lines, key, inSection, n - 1)
<1>1. \A i \in 1 .. n : i = n \/ i \in 1 .. n - 1
  OBVIOUS
<1>2. 1 .. n - 1 \subseteq 1 .. n /\ n \in 1 .. n
  OBVIOUS
<1>3. CASE Key(lines[n]) = key /\ lines[n].section = inSection
  <2>1. new \in SUBSET Int /\ n \in new /\ \A i \in new : i <= n
    BY <1>2, <1>3 DEF LinesIn
  <2> HIDE DEF new
  <2>2. Max(new) = n
    BY <2>1, MaxIs
  <2>3. QED
    BY <1>3, <2>1, <2>2 DEF new
<1>4. CASE ~(Key(lines[n]) = key /\ lines[n].section = inSection)
  BY <1>1, <1>2, <1>4 DEF LinesIn
<1>5. QED
  BY <1>3, <1>4

(* While nothing has been thrown, a setting has the value the lines so far *)
(* give it, and what a section has assigned is remembered.                 *)
Read(lines, n, st) ==
  /\ DOMAIN st.cfg = DOMAIN DefaultConfig
  /\ \A key \in DOMAIN DefaultConfig :
       /\ key \in st.assigned <=> LinesIn(lines, key, TRUE, n) # {}
       /\ key # "dropPolicy" => st.cfg[key] = ValueIn(lines, key, n)

LEMMA LineRead ==
  ASSUME NEW lines, NEW n \in Nat \ {0}, NEW st, Read(lines, n - 1, st),
         WellFormed(lines[n]), ~st.threw, ~AssignLine(st, lines[n]).threw
  PROVE  Read(lines, n, AssignLine(st, lines[n]))
<1> DEFINE line == lines[n]
           k == Key(line)
           new == AssignLine(st, line)
<1>0. line.section \in BOOLEAN /\ line.ok \in BOOLEAN
  BY DEF WellFormed
<1>1. \A key, inSection :
         IF k = key /\ line.section = inSection
         THEN LinesIn(lines, key, inSection, n) # {} /\ Max(LinesIn(lines, key, inSection, n)) = n
         ELSE LinesIn(lines, key, inSection, n) = LinesIn(lines, key, inSection, n - 1)
  BY LinesGrow
<1>2. \A key : key # k => ValueIn(lines, key, n) = ValueIn(lines, key, n - 1)
  BY <1>1 DEF ValueIn
<1>3. CASE k \notin DOMAIN DefaultConfig \/ (~line.section /\ k \in st.assigned)
  <2>1. new = st
    BY <1>3 DEF AssignLine
  <2> SUFFICES ASSUME NEW key \in DOMAIN DefaultConfig
               PROVE  /\ key \in st.assigned <=> LinesIn(lines, key, TRUE, n) # {}
                      /\ key # "dropPolicy" => st.cfg[key] = ValueIn(lines, key, n)
    BY <2>1 DEF Read
  <2>2. /\ key \in st.assigned <=> LinesIn(lines, key, TRUE, n - 1) # {}
        /\ key # "dropPolicy" => st.cfg[key] = ValueIn(lines, key, n - 1)
    BY DEF Read
  <2>3. LinesIn(lines, key, TRUE, n) = LinesIn(lines, key, TRUE, n - 1)
    BY <1>1, <1>3
  <2>4. ValueIn(lines, key, n) = ValueIn(lines, key, n - 1)
    <3>1. CASE key # k
      BY <1>2, <3>1
    <3>2. CASE key = k
      <4>1. LinesIn(lines, key, TRUE, n - 1) # {}
        BY <1>3, <2>2, <3>2
      <4>2. QED
        BY <2>3, <4>1 DEF ValueIn
    <3>3. QED
      BY <3>1, <3>2
  <2>5. QED
    BY <2>2, <2>3, <2>4
<1>4. CASE ~(k \notin DOMAIN DefaultConfig \/ (~line.section /\ k \in st.assigned))
  <2>1. new = [cfg |-> IF line.ok THEN Assigned(st.cfg, line) ELSE st.cfg,
               assigned |-> st.assigned \cup (IF line.section THEN {k} ELSE {}),
               threw |-> ~line.ok]
    BY <1>4 DEF AssignLine
  <2>2. line.ok
    <3>1. new.threw = ~line.ok
      BY <2>1
    <3>2. QED
      BY <3>1
  <2>3. /\ new.cfg = Assigned(st.cfg, line)
        /\ new.assigned = st.assigned \cup (IF line.section THEN {k} ELSE {})
    BY <2>1, <2>2
  <2> DEFINE value == IF k = "dropPolicy" /\ line.set[k] # "error" THEN "degrade" ELSE line.set[k]
  <2>4. Assigned(st.cfg, line) = [st.cfg EXCEPT ![k] = value]
    BY DEF Assigned
  <2>5. k # "dropPolicy" => value = line.set[k]
    OBVIOUS
  <2> HIDE DEF value
  <2>6. /\ DOMAIN new.cfg = DOMAIN DefaultConfig /\ new.cfg[k] = value
        /\ \A key \in DOMAIN DefaultConfig : key # k => new.cfg[key] = st.cfg[key]
    BY <1>4, <2>3, <2>4 DEF Read
  <2>7. ASSUME NEW key \in DOMAIN DefaultConfig, key # k
        PROVE  /\ key \in new.assigned <=> LinesIn(lines, key, TRUE, n) # {}
               /\ key # "dropPolicy" => new.cfg[key] = ValueIn(lines, key, n)
    <3>1. LinesIn(lines, key, TRUE, n) = LinesIn(lines, key, TRUE, n - 1)
      BY <1>1, <2>7
    <3>2. key \in new.assigned <=> key \in st.assigned
      BY <2>3, <2>7
    <3>3. QED
      BY <1>2, <2>6, <2>7, <3>1, <3>2 DEF Read
  <2>8. k \in new.assigned <=> LinesIn(lines, k, TRUE, n) # {}
    <3>1. CASE line.section = TRUE
      BY <1>1, <2>3, <3>1
    <3>2. CASE line.section = FALSE
      <4>1. LinesIn(lines, k, TRUE, n) = LinesIn(lines, k, TRUE, n - 1)
        BY <1>1, <3>2
      <4>2. QED
        BY <1>4, <2>3, <3>2, <4>1 DEF Read
    <3>3. QED
      BY <1>0, <3>1, <3>2
  <2>9. ValueIn(lines, k, n) = line.set[k]
    <3>1. CASE line.section = TRUE
      <4>1. LinesIn(lines, k, TRUE, n) # {} /\ Max(LinesIn(lines, k, TRUE, n)) = n
        BY <1>1, <3>1
      <4>2. QED
        BY <4>1 DEF ValueIn
    <3>2. CASE line.section = FALSE
      <4>1. LinesIn(lines, k, TRUE, n) = {}
        BY <1>4, <2>3, <2>8, <3>2
      <4>2. LinesIn(lines, k, FALSE, n) # {} /\ Max(LinesIn(lines, k, FALSE, n)) = n
        BY <1>1, <3>2
      <4>3. QED
        BY <4>1, <4>2 DEF ValueIn
    <3>3. QED
      BY <1>0, <3>1, <3>2
  <2>10. QED
    BY <2>5, <2>6, <2>7, <2>8, <2>9 DEF Read
<1>5. QED
  BY <1>3, <1>4

LEMMA LoadedValues ==
  ASSUME NEW L, NEW lines \in Seq(L), \A n \in 1 .. Len(lines) : WellFormed(lines[n]),
         ~LoadConfigFile(lines).threw
  PROVE  Read(lines, Len(lines), LoadConfigFile(lines))
<1>1. PICK after : /\ LoadConfigFile(lines) = after[Len(lines)] /\ after[0] = Unread
                   /\ \A n \in 1 .. Len(lines) : after[n] = AssignLine(after[n - 1], lines[n])
  BY LoadIs
<1>2. Len(lines) \in Nat
  OBVIOUS
<1> DEFINE Good == {n \in 0 .. Len(lines) : ~after[n].threw => Read(lines, n, after[n])}
<1>3. 0 \in Good
  <2>1. \A key, inSection : LinesIn(lines, key, inSection, 0) = {}
    BY DEF LinesIn
  <2>2. Unread.cfg = DefaultConfig /\ Unread.assigned = {}
    BY DEF Unread
  <2>3. Read(lines, 0, Unread)
    BY <2>1, <2>2 DEF Read, ValueIn
  <2>4. QED
    BY <1>1, <1>2, <2>3
<1>4. ASSUME NEW n \in 1 .. Len(lines), n - 1 \in Good
      PROVE  n \in Good
  <2>1. /\ n \in 0 .. Len(lines) /\ n \in Nat \ {0}
        /\ ~after[n - 1].threw => Read(lines, n - 1, after[n - 1])
        /\ after[n] = AssignLine(after[n - 1], lines[n])
    BY <1>1, <1>2, <1>4
  <2>2. ASSUME ~after[n].threw
        PROVE  Read(lines, n, after[n])
    <3>1. ~after[n - 1].threw
      BY <2>1, <2>2 DEF AssignLine
    <3>2. QED
      BY <2>1, <2>2, <3>1, LineRead
  <2>3. QED
    BY <2>1, <2>2
<1> HIDE DEF Good
<1>5. Len(lines) \in Good
  <2>1. \A n \in 0 .. Len(lines) : n \in Good
    BY <1>2, <1>3, <1>4, IntervalInduction
  <2>2. QED
    BY <1>2, <2>1
<1>6. QED
  BY <1>1, <1>5 DEF Good

-----------------------------------------------------------------------------
(* The places *)

LEMMA InitPlaces == Init => PlacesHold /\ SocketHolds
<1> SUFFICES ASSUME Init
             PROVE  PlacesHold /\ SocketHolds
  OBVIOUS
<1>1. /\ dev = "down" /\ calling = FALSE /\ burst = <<>> /\ handlers = FALSE
      /\ rec = "off" /\ consumer = "off" /\ pc \in {"args", "reset"}
      /\ fd = "none" /\ step = 0 /\ waiting = FALSE
  BY DEF Init, IngressInit, SocketPlain
<1>2. QED
  BY <1>1 DEF PlacesHold, SocketHolds, Starting, Up, AtWork, Helping

LEMMA NextKeepsPlaces == PlacesHold /\ [Next]_vars => PlacesHold'
<1> SUFFICES ASSUME PlacesHold, [Next]_vars
             PROVE  PlacesHold'
  OBVIOUS
<1> USE DEF PlacesHold, Starting, Up, AtWork, Helping, Goto, jobVars, stopVars, helperVars,
            countVars, verdictVars, backendVars, ingressVars, dpdkVars, socketVars, replayVars
<1>1. CASE ParseArgs
  BY <1>1 DEF ParseArgs, Exit, StartupUnchanged
<1>2. CASE LoadConfig
  BY <1>2 DEF LoadConfig, Exit, StartupUnchanged
<1>3. CASE ValidateConfig
  BY <1>3 DEF ValidateConfig, Exit, StartupUnchanged
<1>4. CASE OpenLog
  BY <1>4 DEF OpenLog, Exit, StartupUnchanged
<1>5. CASE ResetStop
  BY <1>5 DEF ResetStop
<1>6. CASE InstallHandlers
  BY <1>6 DEF InstallHandlers
<1>7. CASE BackendInit
  BY <1>7 DEF BackendInit, DpdkInit, DpdkDrain, SocketAddress, SocketOpen, SocketOption,
     ReplayInit
<1>8. CASE InitFailed
  BY <1>8 DEF InitFailed, BackendShutdown
<1>9. CASE OpenCapture
  BY <1>9 DEF OpenCapture, Throws
<1>10. CASE StartRecorder
  BY <1>10 DEF StartRecorder, Throws
<1>11. CASE BeginRecv
  BY <1>11 DEF BeginRecv, DpdkRecv, SocketRecv, CallRecv, ReplayRecv, LoopUnchanged
<1>12. CASE Receive
  BY <1>12 DEF Receive, DpdkAnswer, DpdkDiscard, DpdkLend, TakeFrame, SocketReceive,
     SocketEmpty, SocketError, SocketMessage, ReplayAdapt, ReturnBurst, LoopUnchanged
<1>13. CASE RecvFailed
  BY <1>13 DEF RecvFailed, ReleaseBurst, DpdkRelease, SocketRelease, ReplayRelease,
     LoopUnchanged
<1>14. CASE RecvDone
  BY <1>14 DEF RecvDone, LoopUnchanged
<1>15. CASE FilterDatagram
  BY <1>15 DEF FilterDatagram, HasDatagram, LoopUnchanged
<1>16. CASE RejectDatagram
  BY <1>16 DEF RejectDatagram, HasDatagram, LoopUnchanged
<1>17. CASE DeliverDatagram
  BY <1>17 DEF DeliverDatagram, HasDatagram, LoopUnchanged
<1>18. CASE ExhaustPool
  BY <1>18 DEF ExhaustPool, HasDatagram, ReleaseBurst, DpdkRelease, SocketRelease,
     ReplayRelease, LoopUnchanged
<1>19. CASE EndBurst
  BY <1>19 DEF EndBurst, ReleaseBurst, DpdkRelease, SocketRelease, ReplayRelease,
     LoopUnchanged
<1>20. CASE LeaveLoop
  BY <1>20 DEF LeaveLoop, LoopUnchanged
<1>21. CASE FinalizeActive
  BY <1>21 DEF FinalizeActive, LoopUnchanged
<1>22. CASE JoinConsumer
  BY <1>22 DEF JoinConsumer
<1>23. CASE StopRecorder
  BY <1>23 DEF StopRecorder
<1>24. CASE JudgeRun
  BY <1>24 DEF JudgeRun, Throws, BackendShutdown, LoopUnchanged
<1>25. CASE Unwind
  BY <1>25 DEF Unwind, BackendShutdown
<1>26. CASE LeaveRunner
  BY <1>26 DEF LeaveRunner
<1>27. CASE Deadline
  BY <1>27 DEF Deadline
<1>28. CASE Signal
  BY <1>28 DEF Signal, Running
<1>29. CASE RequestStop
  BY <1>29 DEF RequestStop
<1>30. CASE RecorderFails
  BY <1>30 DEF RecorderFails
<1>31. CASE Arrive
  <2>1. UNCHANGED <<pc, dev, calling, burst, handlers, rec, consumer>>
    BY <1>31 DEF Arrive, DpdkArrive, DpdkSent, SocketArrive, SocketLose, Arrives
  <2>2. QED
    BY <2>1
<1>32. CASE UNCHANGED vars
  BY <1>32 DEF vars
<1>33. QED
  BY <1>1, <1>2, <1>3, <1>4, <1>5, <1>6, <1>7, <1>8, <1>9, <1>10, <1>11, <1>12, <1>13,
     <1>14, <1>15, <1>16, <1>17, <1>18, <1>19, <1>20, <1>21, <1>22, <1>23, <1>24, <1>25,
     <1>26, <1>27, <1>28, <1>29, <1>30, <1>31, <1>32 DEF Next, Program, Environment

LEMMA NextKeepsSocket ==
  PlacesHold /\ SocketHolds /\ [Next]_vars => SocketHolds'
<1> SUFFICES ASSUME PlacesHold, SocketHolds, [Next]_vars
             PROVE  SocketHolds'
  OBVIOUS
<1> USE DEF SocketHolds, Goto, jobVars, stopVars, helperVars,
            countVars, verdictVars, backendVars, ingressVars, dpdkVars, socketVars, replayVars
<1>1. CASE ParseArgs
  BY <1>1 DEF ParseArgs, Exit, StartupUnchanged
<1>2. CASE LoadConfig
  BY <1>2 DEF LoadConfig, Exit, StartupUnchanged, PlacesHold, Starting
<1>3. CASE ValidateConfig
  BY <1>3 DEF ValidateConfig, Exit, StartupUnchanged
<1>4. CASE OpenLog
  BY <1>4 DEF OpenLog, Exit, StartupUnchanged
<1>5. CASE ResetStop
  BY <1>5 DEF ResetStop
<1>6. CASE InstallHandlers
  BY <1>6 DEF InstallHandlers, PlacesHold, Starting
<1>7. CASE BackendInit
  BY <1>7 DEF BackendInit, DpdkInit, DpdkDrain, SocketAddress, SocketOpen, SocketOption,
     ReplayInit
<1>8. CASE InitFailed
  BY <1>8 DEF InitFailed, BackendShutdown, DpdkShutdown, SocketShutdown, ReplayShutdown,
     PlacesHold
<1>9. CASE OpenCapture
  BY <1>9 DEF OpenCapture, Throws
<1>10. CASE StartRecorder
  BY <1>10 DEF StartRecorder, Throws
<1>11. CASE BeginRecv
  BY <1>11 DEF BeginRecv, DpdkRecv, SocketRecv, CallRecv, ReplayRecv, LoopUnchanged
<1>12. CASE Receive
  BY <1>12 DEF Receive, DpdkAnswer, DpdkDiscard, DpdkLend, TakeFrame, SocketReceive,
     SocketEmpty, SocketError, SocketMessage, ReplayAdapt, ReturnBurst, LoopUnchanged
<1>13. CASE RecvFailed
  BY <1>13 DEF RecvFailed, ReleaseBurst, DpdkRelease, SocketRelease, ReplayRelease,
     LoopUnchanged
<1>14. CASE RecvDone
  BY <1>14 DEF RecvDone, LoopUnchanged
<1>15. CASE FilterDatagram
  BY <1>15 DEF FilterDatagram, HasDatagram, LoopUnchanged
<1>16. CASE RejectDatagram
  BY <1>16 DEF RejectDatagram, HasDatagram, LoopUnchanged
<1>17. CASE DeliverDatagram
  BY <1>17 DEF DeliverDatagram, HasDatagram, LoopUnchanged
<1>18. CASE ExhaustPool
  BY <1>18 DEF ExhaustPool, HasDatagram, ReleaseBurst, DpdkRelease, SocketRelease,
     ReplayRelease, LoopUnchanged
<1>19. CASE EndBurst
  BY <1>19 DEF EndBurst, ReleaseBurst, DpdkRelease, SocketRelease, ReplayRelease,
     LoopUnchanged
<1>20. CASE LeaveLoop
  BY <1>20 DEF LeaveLoop, LoopUnchanged
<1>21. CASE FinalizeActive
  BY <1>21 DEF FinalizeActive, LoopUnchanged
<1>22. CASE JoinConsumer
  BY <1>22 DEF JoinConsumer
<1>23. CASE StopRecorder
  BY <1>23 DEF StopRecorder
<1>24. CASE JudgeRun
  BY <1>24 DEF JudgeRun, Throws, BackendShutdown, DpdkShutdown, SocketShutdown,
     ReplayShutdown, LoopUnchanged, PlacesHold, Up
<1>25. CASE Unwind
  BY <1>25 DEF Unwind, BackendShutdown, DpdkShutdown, SocketShutdown, ReplayShutdown,
     PlacesHold, Up
<1>26. CASE LeaveRunner
  BY <1>26 DEF LeaveRunner
<1>27. CASE Deadline
  BY <1>27 DEF Deadline
<1>28. CASE Signal
  BY <1>28 DEF Signal, Running
<1>29. CASE RequestStop
  BY <1>29 DEF RequestStop
<1>30. CASE RecorderFails
  BY <1>30 DEF RecorderFails
<1>31. CASE Arrive
  <2>1. UNCHANGED <<fd, step, dev, waiting, calling, cfg>>
    BY <1>31 DEF Arrive, DpdkArrive, DpdkSent, SocketArrive, SocketLose, Arrives
  <2>2. QED
    BY <2>1
<1>32. CASE UNCHANGED vars
  BY <1>32 DEF vars
<1>33. QED
  BY <1>1, <1>2, <1>3, <1>4, <1>5, <1>6, <1>7, <1>8, <1>9, <1>10, <1>11, <1>12, <1>13,
     <1>14, <1>15, <1>16, <1>17, <1>18, <1>19, <1>20, <1>21, <1>22, <1>23, <1>24, <1>25,
     <1>26, <1>27, <1>28, <1>29, <1>30, <1>31, <1>32 DEF Next, Program, Environment

-----------------------------------------------------------------------------
(* Queues of filled mbufs *)

Filled == [mbuf : Mbufs, frame : Frames]

MbufsOf(q) == {q[i].mbuf : i \in 1 .. Len(q)}

Distinct(q) == \A i, j \in 1 .. Len(q) : q[i].mbuf = q[j].mbuf => i = j

LEMMA FilledTail ==
  ASSUME NEW q \in Seq(Filled), q # <<>>, Distinct(q)
  PROVE  /\ Tail(q) \in Seq(Filled) /\ Distinct(Tail(q))
         /\ Head(q) \in Filled /\ Head(q).mbuf \in Mbufs
         /\ MbufsOf(q) = MbufsOf(Tail(q)) \union {Head(q).mbuf}
         /\ Head(q).mbuf \notin MbufsOf(Tail(q))
<1>1. /\ Tail(q) \in Seq(Filled) /\ Len(Tail(q)) = Len(q) - 1 /\ Len(q) \in Nat \ {0}
      /\ Head(q) = q[1] /\ q[1] \in Filled
  OBVIOUS
<1>2. \A i \in 1 .. Len(Tail(q)) : Tail(q)[i] = q[i + 1] /\ i + 1 \in 1 .. Len(q)
  BY <1>1
<1>3. \A i \in 1 .. Len(q) : i # 1 => i - 1 \in 1 .. Len(Tail(q)) /\ q[i] = Tail(q)[i - 1]
  BY <1>1
<1>4. Distinct(Tail(q))
  BY <1>1, <1>2 DEF Distinct
<1>5. MbufsOf(q) = MbufsOf(Tail(q)) \union {Head(q).mbuf}
  BY <1>1, <1>2, <1>3 DEF MbufsOf
<1>6. Head(q).mbuf \notin MbufsOf(Tail(q))
  BY <1>1, <1>2 DEF MbufsOf, Distinct
<1>7. QED
  BY <1>1, <1>4, <1>5, <1>6 DEF Filled

LEMMA FilledAppend ==
  ASSUME NEW q \in Seq(Filled), Distinct(q), NEW e \in Filled, e.mbuf \notin MbufsOf(q)
  PROVE  /\ Append(q, e) \in Seq(Filled) /\ Distinct(Append(q, e))
         /\ MbufsOf(Append(q, e)) = MbufsOf(q) \union {e.mbuf}
<1> DEFINE r == Append(q, e)
<1>1. r \in Seq(Filled) /\ Len(r) = Len(q) + 1 /\ Len(q) \in Nat
  OBVIOUS
<1>2. r[Len(q) + 1] = e /\ \A i \in 1 .. Len(q) : r[i] = q[i]
  OBVIOUS
<1>3. \A i \in 1 .. Len(r) : i \in 1 .. Len(q) \/ i = Len(q) + 1
  BY <1>1
<1>4. Len(q) + 1 \in 1 .. Len(r) /\ \A i \in 1 .. Len(q) : i \in 1 .. Len(r)
  BY <1>1
<1> HIDE DEF r
<1>5. Distinct(r)
  BY <1>2, <1>3 DEF Distinct, MbufsOf
<1>6. MbufsOf(r) = MbufsOf(q) \union {e.mbuf}
  BY <1>2, <1>3, <1>4 DEF MbufsOf
<1>7. QED
  BY <1>1, <1>5, <1>6 DEF r

LEMMA FilledSplit ==
  ASSUME NEW q \in Seq(Filled), Distinct(q), NEW n \in 0 .. Len(q)
  PROVE  LET a == SubSeq(q, 1, n)
             b == SubSeq(q, n + 1, Len(q))
         IN  /\ a \in Seq(Filled) /\ b \in Seq(Filled) /\ Distinct(a) /\ Distinct(b)
             /\ MbufsOf(a) = {q[i].mbuf : i \in 1 .. n}
             /\ MbufsOf(q) = MbufsOf(a) \union MbufsOf(b)
             /\ MbufsOf(a) \intersect MbufsOf(b) = {}
<1> DEFINE a == SubSeq(q, 1, n)
           b == SubSeq(q, n + 1, Len(q))
<1>1. Len(q) \in Nat /\ n \in Nat
  OBVIOUS
<1>2. /\ a \in Seq(Filled) /\ Len(a) = n /\ b \in Seq(Filled) /\ Len(b) = Len(q) - n
      /\ \A i \in 1 .. n : a[i] = q[i]
      /\ \A i \in 1 .. Len(q) - n : b[i] = q[n + i]
  <2>1. CASE n = 0
    <3>1. a = <<>> /\ b = q
      BY <1>1, <2>1
    <3>2. QED
      BY <1>1, <2>1, <3>1
  <2>2. CASE n # 0
    <3>1. n \in 1 .. Len(q)
      BY <1>1, <2>2
    <3>2. QED
      BY <3>1, SplitFacts
  <2>3. QED
    BY <2>1, <2>2
<1> HIDE DEF a, b
<1>3. Distinct(a) /\ Distinct(b)
  <2>1. Distinct(a)
    <3>1. \A i \in 1 .. Len(a) : i \in 1 .. Len(q) /\ a[i] = q[i]
      BY <1>1, <1>2
    <3>2. SUFFICES ASSUME NEW i \in 1 .. Len(a), NEW j \in 1 .. Len(a), a[i].mbuf = a[j].mbuf
                   PROVE  i = j
      BY DEF Distinct
    <3>3. i \in 1 .. Len(q) /\ j \in 1 .. Len(q) /\ q[i].mbuf = q[j].mbuf
      BY <3>1, <3>2
    <3>4. QED
      BY <3>3 DEF Distinct
  <2>2. Distinct(b)
    <3>1. \A i \in 1 .. Len(b) : n + i \in 1 .. Len(q) /\ b[i] = q[n + i] /\ i \in Nat
      BY <1>1, <1>2
    <3>2. SUFFICES ASSUME NEW i \in 1 .. Len(b), NEW j \in 1 .. Len(b), b[i].mbuf = b[j].mbuf
                   PROVE  i = j
      BY DEF Distinct
    <3>3. n + i = n + j
      BY <3>1, <3>2 DEF Distinct
    <3>4. QED
      BY <1>1, <3>1, <3>3
  <2>3. QED
    BY <2>1, <2>2
<1>4. MbufsOf(a) = {q[i].mbuf : i \in 1 .. n}
  BY <1>1, <1>2 DEF MbufsOf
<1>5. \A i \in 1 .. Len(q) : i \in 1 .. n \/ (i - n \in 1 .. Len(b) /\ q[i] = b[i - n])
  BY <1>1, <1>2
<1>6. \A i \in 1 .. Len(b) : n + i \in 1 .. Len(q) /\ b[i] = q[n + i] /\ n + i \notin 1 .. n
  BY <1>1, <1>2
<1>7. \A i \in 1 .. n : i \in 1 .. Len(q)
  BY <1>1
<1>8. MbufsOf(q) = MbufsOf(a) \union MbufsOf(b)
  <2>1. ASSUME NEW i \in 1 .. Len(q)
        PROVE  q[i].mbuf \in MbufsOf(a) \union MbufsOf(b)
    <3>1. CASE i \in 1 .. n
      BY <1>4, <3>1
    <3>2. CASE i - n \in 1 .. Len(b) /\ q[i] = b[i - n]
      BY <3>2 DEF MbufsOf
    <3>3. QED
      BY <1>5, <3>1, <3>2
  <2>2. MbufsOf(q) \subseteq MbufsOf(a) \union MbufsOf(b)
    BY <2>1 DEF MbufsOf
  <2>3. MbufsOf(a) \subseteq MbufsOf(q)
    BY <1>4, <1>7 DEF MbufsOf
  <2>4. ASSUME NEW i \in 1 .. Len(b)
        PROVE  b[i].mbuf \in MbufsOf(q)
    BY <1>6 DEF MbufsOf
  <2>5. MbufsOf(b) \subseteq MbufsOf(q)
    BY <2>4 DEF MbufsOf
  <2>6. QED
    BY <2>2, <2>3, <2>5
<1>9. MbufsOf(a) \intersect MbufsOf(b) = {}
  <2>1. ASSUME NEW i \in 1 .. n, NEW j \in 1 .. Len(b), q[i].mbuf = b[j].mbuf
        PROVE  FALSE
    <3>1. i \in 1 .. Len(q) /\ n + j \in 1 .. Len(q) /\ q[i].mbuf = q[n + j].mbuf
      BY <1>6, <1>7, <2>1
    <3>2. i = n + j
      BY <3>1 DEF Distinct
    <3>3. QED
      BY <1>6, <3>2
  <2>2. QED
    BY <1>4, <2>1 DEF MbufsOf
<1>10. QED
  BY <1>2, <1>3, <1>4, <1>8, <1>9 DEF a, b

(* How many frames a call takes.                                           *)
LEMMA SmallestOfThree ==
  ASSUME NEW x \in Nat, NEW y \in Nat, NEW z \in Nat
  PROVE  Min({x, y, z}) \in 0 .. z
<1>1. \E v \in {x, y, z} : \A w \in {x, y, z} : v <= w
  OBVIOUS
<1>2. Min({x, y, z}) \in {x, y, z} /\ \A w \in {x, y, z} : Min({x, y, z}) <= w
  BY <1>1 DEF Min
<1>3. QED
  BY <1>2

-----------------------------------------------------------------------------
(* The mbufs *)

(* Each mbuf is where "at" says; only the DPDK backend lends mbufs; a call *)
(* leaves no frame unlooked at, and a closed device nothing outside.       *)
MbufsHold ==
  /\ job \in Jobs /\ cfg.maxBurst \in Nat /\ cursor \in Nat
  /\ at \in [Mbufs -> {"pool", "nic", "held", "lent", "tx"}]
  /\ nic \in Seq(Filled) /\ Distinct(nic) /\ taken \in Seq(Filled) /\ Distinct(taken)
  /\ ~doubleFree
  /\ \A m \in Mbufs : /\ at[m] = "nic" <=> m \in MbufsOf(nic)
                      /\ at[m] = "held" <=> m \in MbufsOf(taken)
                      /\ at[m] = "lent" <=> m \in ToSet(burst)
  /\ cfg.backend = "dpdk" => burst \in Seq(Mbufs)
  /\ cfg.backend # "dpdk" => /\ burst \in Seq(Nat) /\ nic = <<>> /\ taken = <<>>
                             /\ \A m \in Mbufs : at[m] # "tx"
  /\ taken # <<>> => calling
  /\ dev = "down" => nic = <<>> /\ \A m \in Mbufs : at[m] # "tx"

LEMMA ConservedByPlace == MbufsHold => MbufsConserved
<1> SUFFICES ASSUME MbufsHold
             PROVE  MbufsConserved
  OBVIOUS
<1>1. \A i \in 1 .. Len(burst) : burst[i] \in ToSet(burst)
  BY DEF MbufsHold, ToSet
<1>2. \A m : m \in ToSet(burst) <=> \E i \in 1 .. Len(burst) : burst[i] = m
  BY DEF MbufsHold, ToSet
<1>3. QED
  BY <1>2 DEF MbufsHold, MbufsConserved, MbufsOf

LEMMA EmptyHasNone == MbufsOf(<<>>) = {} /\ ToSet(<<>>) = {} /\ Distinct(<<>>)
BY DEF MbufsOf, ToSet, Distinct

(* Nothing that concerns an mbuf happens.                                  *)
LEMMA MbufsStay ==
  ASSUME MbufsHold, job' = job, cfg' = cfg, UNCHANGED <<at, nic, taken, doubleFree>>,
         burst' = burst, cursor' \in Nat, taken # <<>> => calling', dev' = "down" => dev = "down"
  PROVE  MbufsHold'
BY DEF MbufsHold

(* The datagrams of another backend come and go.                           *)
LEMMA OtherBurst ==
  ASSUME MbufsHold, cfg.backend # "dpdk", job' = job, cfg' = cfg,
         UNCHANGED <<at, nic, taken, doubleFree>>,
         burst' \in Seq(Nat), cursor' \in Nat
  PROVE  MbufsHold'
<1>1. Mbufs \intersect Nat = {}
  BY RunAssumption
<1>2. ToSet(burst) \subseteq Nat /\ ToSet(burst') \subseteq Nat
  <2>1. burst \in Seq(Nat) /\ burst' \in Seq(Nat)
    BY DEF MbufsHold
  <2>2. \A q \in Seq(Nat) : ToSet(q) \subseteq Nat
    BY DEF ToSet
  <2>3. QED
    BY <2>1, <2>2
<1>3. \A m \in Mbufs : at[m] # "lent" /\ m \notin ToSet(burst')
  <2> SUFFICES ASSUME NEW m \in Mbufs
               PROVE  at[m] # "lent" /\ m \notin ToSet(burst')
    OBVIOUS
  <2>1. m \notin ToSet(burst) /\ m \notin ToSet(burst')
    BY <1>1, <1>2
  <2>2. at[m] = "lent" <=> m \in ToSet(burst)
    BY DEF MbufsHold
  <2>3. QED
    BY <2>1, <2>2
<1>4. QED
  BY <1>3 DEF MbufsHold

(* The oldest frame in the call is freed; mbufs of T go from the pool to   *)
(* the NIC as replies.                                                     *)
LEMMA HeadFreed ==
  ASSUME MbufsHold, taken # <<>>, NEW T \in SUBSET {t \in Mbufs : at[t] = "pool"},
         FreeAndMove({Head(taken).mbuf}, T, "tx"), taken' = Tail(taken),
         cfg.backend = "dpdk", calling', dev' # "down",
         UNCHANGED <<job, cfg, cursor, nic, burst>>
  PROVE  MbufsHold'
<1> DEFINE h == Head(taken).mbuf
<1>1. /\ Tail(taken) \in Seq(Filled) /\ Distinct(Tail(taken)) /\ h \in Mbufs
      /\ MbufsOf(taken) = MbufsOf(Tail(taken)) \union {h} /\ h \notin MbufsOf(Tail(taken))
  BY FilledTail DEF MbufsHold
<1>2. at[h] = "held"
  BY <1>1 DEF MbufsHold
<1>3. ~doubleFree'
  BY <1>2 DEF FreeAndMove, MbufsHold
<1> HIDE DEF h
<1>4. /\ at' \in [Mbufs -> {"pool", "nic", "held", "lent", "tx"}]
      /\ \A m \in Mbufs : at'[m] = IF m \in T THEN "tx" ELSE IF m = h THEN "pool" ELSE at[m]
  BY DEF FreeAndMove, MbufsHold, h
<1>5. \A m \in T : at[m] = "pool"
  OBVIOUS
<1>6. \A m \in Mbufs : /\ at'[m] = "nic" <=> m \in MbufsOf(nic)
                       /\ at'[m] = "held" <=> m \in MbufsOf(Tail(taken))
                       /\ at'[m] = "lent" <=> m \in ToSet(burst)
  BY <1>1, <1>2, <1>4, <1>5 DEF MbufsHold
<1>7. QED
  BY <1>1, <1>3, <1>4, <1>6 DEF MbufsHold

LEMMA HeadLent ==
  ASSUME MbufsHold, DpdkLend, cfg.backend = "dpdk", dev # "down",
         UNCHANGED <<job, cfg, cursor>>
  PROVE  MbufsHold'
<1> DEFINE h == Head(taken).mbuf
<1>1. /\ taken # <<>> /\ taken' = Tail(taken) /\ burst' = Append(burst, h)
      /\ calling' /\ nic' = nic /\ dev' = dev /\ doubleFree' = doubleFree
      /\ at' = [at EXCEPT ![h] = "lent"]
  BY DEF DpdkLend, TakeFrame
<1>2. /\ Tail(taken) \in Seq(Filled) /\ Distinct(Tail(taken)) /\ h \in Mbufs
      /\ MbufsOf(taken) = MbufsOf(Tail(taken)) \union {h} /\ h \notin MbufsOf(Tail(taken))
  BY <1>1, FilledTail DEF MbufsHold
<1>3. burst \in Seq(Mbufs)
  BY DEF MbufsHold
<1> HIDE DEF h
<1>4. Append(burst, h) \in Seq(Mbufs) /\ ToSet(Append(burst, h)) = ToSet(burst) \union {h}
  BY <1>2, <1>3, AppendFacts
<1>5. at[h] = "held"
  BY <1>2 DEF MbufsHold
<1>6. /\ at' \in [Mbufs -> {"pool", "nic", "held", "lent", "tx"}]
      /\ \A m \in Mbufs : at'[m] = IF m = h THEN "lent" ELSE at[m]
  BY <1>1, <1>2 DEF MbufsHold
<1>7. \A m \in Mbufs : /\ at'[m] = "nic" <=> m \in MbufsOf(nic)
                       /\ at'[m] = "held" <=> m \in MbufsOf(Tail(taken))
                       /\ at'[m] = "lent" <=> m \in ToSet(Append(burst, h))
  BY <1>2, <1>4, <1>5, <1>6 DEF MbufsHold
<1>8. QED
  BY <1>1, <1>2, <1>4, <1>6, <1>7 DEF MbufsHold

(* A call takes the oldest frames from the NIC.                            *)
LEMMA FramesTaken ==
  ASSUME MbufsHold, DpdkRecv(cfg.maxBurst), burst = <<>>, cfg.backend = "dpdk",
         UNCHANGED <<job, cfg, cursor>>
  PROVE  MbufsHold'
<1> DEFINE n == Min({cfg.maxBurst, 64, Len(nic)})
           a == SubSeq(nic, 1, n)
           b == SubSeq(nic, n + 1, Len(nic))
<1>1. nic \in Seq(Filled) /\ Distinct(nic) /\ Len(nic) \in Nat /\ cfg.maxBurst \in Nat
  BY DEF MbufsHold
<1>2. n \in 0 .. Len(nic)
  BY <1>1, SmallestOfThree
<1>3. /\ taken = <<>> /\ calling' /\ burst' = <<>> /\ taken' = a /\ nic' = b /\ dev' = dev
      /\ doubleFree' = doubleFree
      /\ at' = [m \in Mbufs |-> IF \E i \in 1 .. n : nic[i].mbuf = m THEN "held" ELSE at[m]]
  BY DEF DpdkRecv, MbufsHold
<1>4. /\ a \in Seq(Filled) /\ b \in Seq(Filled) /\ Distinct(a) /\ Distinct(b)
      /\ MbufsOf(a) = {nic[i].mbuf : i \in 1 .. n}
      /\ MbufsOf(nic) = MbufsOf(a) \union MbufsOf(b)
      /\ MbufsOf(a) \intersect MbufsOf(b) = {}
  <2> HIDE DEF n
  <2>1. QED
    BY <1>1, <1>2, FilledSplit
<1>5. nic = <<>> => b = <<>>
  <2>1. ASSUME nic = <<>>
        PROVE  b = <<>>
    <3>1. Len(nic) = 0 /\ n = 0
      BY <1>2, <2>1
    <3>2. QED
      BY <2>1, <3>1
  <2>2. QED
    BY <2>1
<1> HIDE DEF n, a, b
<1>6. \A m \in Mbufs : at'[m] = IF m \in MbufsOf(a) THEN "held" ELSE at[m]
  BY <1>3, <1>4
<1>7. at' \in [Mbufs -> {"pool", "nic", "held", "lent", "tx"}]
  BY <1>3 DEF MbufsHold
<1>8. \A m \in Mbufs : at[m] # "lent" /\ at[m] # "held"
  BY <1>3, EmptyHasNone DEF MbufsHold
<1>9. \A m \in Mbufs : /\ at'[m] = "nic" <=> m \in MbufsOf(b)
                       /\ at'[m] = "held" <=> m \in MbufsOf(a)
                       /\ at'[m] = "lent" <=> m \in ToSet(<<>>)
  BY <1>4, <1>6, <1>8, EmptyHasNone DEF MbufsHold
<1>10. dev' = "down" => \A m \in Mbufs : at'[m] # "tx"
  BY <1>3, <1>6 DEF MbufsHold
<1>11. QED
  BY <1>3, <1>4, <1>5, <1>7, <1>9, <1>10 DEF MbufsHold

(* Giving the burst back.                                                  *)
LEMMA BurstFreed ==
  ASSUME MbufsHold, DpdkRelease, cfg.backend = "dpdk", dev # "down", dev' = dev,
         UNCHANGED <<job, cfg, cursor, calling>>
  PROVE  MbufsHold'
<1>1. /\ burst' = <<>> /\ nic' = nic /\ taken' = taken
      /\ at' = [m \in Mbufs |-> IF m \in ToSet(burst) THEN "pool" ELSE at[m]]
      /\ doubleFree' = (doubleFree \/ \E m \in ToSet(burst) : at[m] = "pool")
  BY DEF DpdkRelease, Free, FreeAndMove
<1>2. ToSet(burst) \subseteq Mbufs
  BY DEF MbufsHold, ToSet
<1>3. ~doubleFree'
  BY <1>1, <1>2 DEF MbufsHold
<1>4. /\ at' \in [Mbufs -> {"pool", "nic", "held", "lent", "tx"}]
      /\ \A m \in Mbufs : at'[m] = IF m \in ToSet(burst) THEN "pool" ELSE at[m]
  BY <1>1 DEF MbufsHold
<1>5. \A m \in Mbufs : /\ at'[m] = "nic" <=> m \in MbufsOf(nic)
                       /\ at'[m] = "held" <=> m \in MbufsOf(taken)
                       /\ at'[m] = "lent" <=> m \in ToSet(<<>>)
  BY <1>4, EmptyHasNone DEF MbufsHold
<1>6. QED
  BY <1>1, <1>3, <1>4, <1>5 DEF MbufsHold

(* Stopping the device.                                                    *)
LEMMA DeviceStopped ==
  ASSUME MbufsHold, DpdkShutdown, cfg.backend = "dpdk",
         UNCHANGED <<job, cfg, cursor, burst, calling>>
  PROVE  MbufsHold'
<1>1. /\ at' \in [Mbufs -> {"pool", "nic", "held", "lent", "tx"}]
      /\ \A m \in Mbufs : at'[m] = IF at[m] \in {"nic", "tx"} THEN "pool" ELSE at[m]
  BY DEF DpdkShutdown, MbufsHold
<1>2. nic' = <<>> /\ taken' = taken /\ doubleFree' = doubleFree
  BY DEF DpdkShutdown
<1>3. \A m \in Mbufs : /\ at'[m] = "nic" <=> m \in MbufsOf(<<>>)
                       /\ at'[m] = "held" <=> m \in MbufsOf(taken)
                       /\ at'[m] = "lent" <=> m \in ToSet(burst)
                       /\ at'[m] # "tx"
  BY <1>1, EmptyHasNone DEF MbufsHold
<1>4. QED
  BY <1>1, <1>2, <1>3, EmptyHasNone DEF MbufsHold

(* Emptying the NIC before the run.                                        *)
LEMMA NicDrained ==
  ASSUME MbufsHold, DpdkDrain, cfg.backend = "dpdk",
         UNCHANGED <<job, cfg, cursor>>
  PROVE  MbufsHold'
<1>1. {nic[i].mbuf : i \in 1 .. Len(nic)} = MbufsOf(nic)
  BY DEF MbufsOf
<1>2. /\ nic' = <<>> /\ taken' = taken /\ burst' = burst /\ calling' = calling
      /\ dev' \in {"up", "drain"}
      /\ at' = [m \in Mbufs |-> IF m \in MbufsOf(nic) THEN "pool" ELSE at[m]]
      /\ doubleFree' = (doubleFree \/ \E m \in MbufsOf(nic) : at[m] = "pool")
  BY <1>1 DEF DpdkDrain, Free, FreeAndMove
<1>3. MbufsOf(nic) \subseteq Mbufs
  <2>1. nic \in Seq(Filled)
    BY DEF MbufsHold
  <2>2. \A i \in 1 .. Len(nic) : nic[i] \in Filled
    BY <2>1
  <2>3. QED
    BY <2>2 DEF MbufsOf, Filled
<1>4. ~doubleFree'
  BY <1>2, <1>3 DEF MbufsHold
<1>5. /\ at' \in [Mbufs -> {"pool", "nic", "held", "lent", "tx"}]
      /\ \A m \in Mbufs : at'[m] = IF m \in MbufsOf(nic) THEN "pool" ELSE at[m]
  BY <1>2 DEF MbufsHold
<1>6. \A m \in Mbufs : /\ at'[m] = "nic" <=> m \in MbufsOf(<<>>)
                       /\ at'[m] = "held" <=> m \in MbufsOf(taken)
                       /\ at'[m] = "lent" <=> m \in ToSet(burst)
  BY <1>5, EmptyHasNone DEF MbufsHold
<1>7. QED
  BY <1>2, <1>4, <1>5, <1>6, EmptyHasNone DEF MbufsHold

(* The NIC fills an mbuf of the pool.                                      *)
LEMMA FrameArrives ==
  ASSUME MbufsHold, NEW f \in Frames, DpdkArrive(f), cfg.backend = "dpdk",
         UNCHANGED <<job, cfg, cursor>>
  PROVE  MbufsHold'
<1>1. PICK m \in Mbufs : /\ at[m] = "pool" /\ at' = [at EXCEPT ![m] = "nic"]
                         /\ nic' = Append(nic, [mbuf |-> m, frame |-> f])
  BY DEF DpdkArrive
<1>2. /\ burst' = burst /\ taken' = taken /\ calling' = calling /\ dev' # "down"
      /\ doubleFree' = doubleFree
  BY DEF DpdkArrive, Arrives
<1> DEFINE e == [mbuf |-> m, frame |-> f]
<1>3. e \in Filled /\ e.mbuf = m /\ m \notin MbufsOf(nic)
  BY <1>1 DEF Filled, MbufsHold
<1>4. /\ nic' \in Seq(Filled) /\ Distinct(nic')
      /\ MbufsOf(nic') = MbufsOf(nic) \union {m}
  BY <1>1, <1>3, FilledAppend DEF MbufsHold
<1>5. /\ at' \in [Mbufs -> {"pool", "nic", "held", "lent", "tx"}]
      /\ \A o \in Mbufs : at'[o] = IF o = m THEN "nic" ELSE at[o]
  BY <1>1 DEF MbufsHold
<1>6. \A o \in Mbufs : /\ at'[o] = "nic" <=> o \in MbufsOf(nic')
                       /\ at'[o] = "held" <=> o \in MbufsOf(taken)
                       /\ at'[o] = "lent" <=> o \in ToSet(burst)
  BY <1>1, <1>4, <1>5 DEF MbufsHold
<1>7. QED
  BY <1>2, <1>4, <1>5, <1>6 DEF MbufsHold

(* A reply has left.                                                       *)
LEMMA ReplySent ==
  ASSUME MbufsHold, DpdkSent, UNCHANGED <<job, cfg, cursor>>
  PROVE  MbufsHold'
<1>1. PICK m \in Mbufs : at[m] = "tx" /\ at' = [at EXCEPT ![m] = "pool"]
  BY DEF DpdkSent
<1>2. UNCHANGED <<burst, taken, calling, dev, nic, doubleFree>>
  BY DEF DpdkSent, ingressVars
<1>3. /\ at' \in [Mbufs -> {"pool", "nic", "held", "lent", "tx"}]
      /\ \A o \in Mbufs : at'[o] = IF o = m THEN "pool" ELSE at[o]
  BY <1>1 DEF MbufsHold
<1>4. \A o \in Mbufs : /\ at'[o] = "nic" <=> o \in MbufsOf(nic)
                       /\ at'[o] = "held" <=> o \in MbufsOf(taken)
                       /\ at'[o] = "lent" <=> o \in ToSet(burst)
  BY <1>1, <1>3 DEF MbufsHold
<1>5. QED
  BY <1>1, <1>2, <1>3, <1>4 DEF MbufsHold

(* Another backend is closed.                                              *)
LEMMA OtherClosed ==
  ASSUME MbufsHold, cfg.backend # "dpdk", UNCHANGED <<job, cfg, cursor, burst, calling, dpdkVars>>
  PROVE  MbufsHold'
BY DEF MbufsHold, dpdkVars

LEMMA BackendCloses ==
  ASSUME MbufsHold, BackendShutdown, UNCHANGED <<job, cfg>>
  PROVE  MbufsHold'
<1>1. CASE cfg.backend = "dpdk" /\ DpdkShutdown /\ UNCHANGED <<socketVars, replayVars>>
  BY <1>1, DeviceStopped DEF BackendShutdown, replayVars
<1>2. CASE cfg.backend = "socket" /\ SocketShutdown /\ UNCHANGED <<dpdkVars, replayVars>>
  BY <1>2, OtherClosed DEF BackendShutdown, replayVars
<1>3. CASE cfg.backend = "filereplay" /\ ReplayShutdown /\ UNCHANGED <<dpdkVars, socketVars>>
  BY <1>3, OtherClosed DEF BackendShutdown, ReplayShutdown
<1>4. QED
  BY <1>1, <1>2, <1>3 DEF BackendShutdown

LEMMA BurstReleased ==
  ASSUME MbufsHold, ReleaseBurst, dev # "down", UNCHANGED <<job, cfg>>
  PROVE  MbufsHold'
<1>1. CASE cfg.backend = "dpdk" /\ DpdkRelease /\ UNCHANGED <<socketVars, replayVars>>
  BY <1>1, BurstFreed DEF ReleaseBurst, replayVars
<1>2. CASE cfg.backend = "socket" /\ SocketRelease /\ UNCHANGED <<dpdkVars, replayVars>>
  <2>1. burst' = <<>> /\ <<>> \in Seq(Nat) /\ cursor' \in Nat
    BY <1>2 DEF SocketRelease, replayVars, MbufsHold
  <2>2. QED
    BY <1>2, <2>1, OtherBurst DEF dpdkVars, MbufsHold, ReleaseBurst
<1>3. CASE cfg.backend = "filereplay" /\ ReplayRelease /\ UNCHANGED <<dpdkVars, socketVars>>
  <2>1. burst' = <<>> /\ <<>> \in Seq(Nat) /\ cursor' \in Nat
    BY <1>3 DEF ReplayRelease, replayVars, MbufsHold
  <2>2. QED
    BY <1>3, <2>1, OtherBurst DEF dpdkVars, MbufsHold, ReleaseBurst
<1>4. QED
  BY <1>1, <1>2, <1>3 DEF ReleaseBurst

(* The lines of a file that a run may be given, and of none.               *)
LEMMA FileLines ==
  ASSUME NEW j \in Jobs, NEW file \in {j.file, <<>>}
  PROVE  file \in Seq(ToSet(file)) /\ \A n \in 1 .. Len(file) : WellFormed(file[n])
<1>1. CASE file = j.file
  <2>1. file \in Seq(ToSet(file)) /\ \A line \in ToSet(file) : WellFormed(line)
    BY <1>1, RunAssumption
  <2>2. QED
    BY <2>1
<1>2. CASE file = <<>>
  BY <1>2
<1>3. QED
  BY <1>1, <1>2

(* However the configuration comes about, a call has a bound.              *)
LEMMA LoadedBound ==
  ASSUME NEW j \in Jobs, NEW file \in {j.file, <<>>}
  PROVE  ConfigTypes(LoadConfigFile(file).cfg)
<1>1. file \in Seq(ToSet(file)) /\ \A n \in 1 .. Len(file) : WellFormed(file[n])
  BY FileLines
<1> DEFINE L == ToSet(file)
<1> HIDE DEF L
<1>2. QED
  BY <1>1, LoadedTypes DEF L

LEMMA TypedBound ==
  ASSUME NEW c, ConfigTypes(c)
  PROVE  c.maxBurst \in Nat /\ "maxBurst" \in DOMAIN c
BY DefaultTypes DEF ConfigTypes, Numbers

LEMMA LoadKeepsMbufs ==
  ASSUME PlacesHold, MbufsHold, LoadConfig
  PROVE  MbufsHold'
<1>1. dev = "down" /\ burst = <<>> /\ taken = <<>> /\ nic = <<>>
  BY DEF LoadConfig, PlacesHold, Starting, MbufsHold
<1>2. UNCHANGED <<job, at, nic, taken, doubleFree, burst, cursor, dev, calling>>
  BY DEF LoadConfig, StartupUnchanged, backendVars, ingressVars, dpdkVars, replayVars
<1>3. cfg'.maxBurst \in Nat
  <2>1. CASE UNCHANGED cfg
    BY <2>1 DEF MbufsHold
  <2>2. CASE \E file \in {job.file, <<>>} :
                cfg' = EffectiveConfig(job.backend, Args, LoadConfigFile(file).cfg)
    <3>1. PICK file \in {job.file, <<>>} :
             cfg' = EffectiveConfig(job.backend, Args, LoadConfigFile(file).cfg)
      BY <2>2
    <3> DEFINE c == LoadConfigFile(file).cfg
    <3>2. c.maxBurst \in Nat /\ "maxBurst" \in DOMAIN c
      BY LoadedBound, TypedBound DEF MbufsHold
    <3> HIDE DEF c
    <3>3. cfg' = EffectiveConfig(job.backend, Args, c)
      BY <3>1 DEF c
    <3>4. QED
      BY <3>2, <3>3 DEF EffectiveConfig
  <2>3. QED
    <3>1. (IF Args.config THEN job.file ELSE <<>>) \in {job.file, <<>>}
      OBVIOUS
    <3>2. QED
      BY <2>1, <2>2, <3>1 DEF LoadConfig
<1>4. \A m \in Mbufs : at[m] # "tx"
  BY <1>1 DEF MbufsHold
<1>5. QED
  BY <1>1, <1>2, <1>3, <1>4 DEF MbufsHold

LEMMA InitMbufs == Init => MbufsHold
<1> SUFFICES ASSUME Init
             PROVE  MbufsHold
  OBVIOUS
<1>1. /\ job \in Jobs /\ cursor = 0 /\ burst = <<>> /\ nic = <<>> /\ taken = <<>>
      /\ at = [m \in Mbufs |-> "pool"] /\ ~doubleFree
  BY DEF Init, IngressInit, DpdkPlain, ReplayPlain
<1>2. cfg.maxBurst \in Nat
  <2>1. CASE cfg = DefaultConfig
    <3>1. DefaultConfig.maxBurst = 64
      BY SMTT(60) DEF DefaultConfig
    <3>2. QED
      BY <2>1, <3>1
  <2>2. CASE cfg = [LoadConfigFile(job.file).cfg EXCEPT !.backend = job.backend]
    <3> DEFINE c == LoadConfigFile(job.file).cfg
    <3>1. c.maxBurst \in Nat /\ "maxBurst" \in DOMAIN c
      BY <1>1, LoadedBound, TypedBound
    <3> HIDE DEF c
    <3>2. cfg = [c EXCEPT !.backend = job.backend]
      BY <2>2 DEF c
    <3>3. QED
      BY <3>1, <3>2
  <2>3. QED
    BY <2>1, <2>2 DEF Init
<1>3. QED
  BY <1>1, <1>2, EmptyHasNone DEF MbufsHold

(* What a call does with the frames, messages or records it has taken.     *)
LEMMA ReceiveKeepsMbufs ==
  ASSUME PlacesHold, SocketHolds, MbufsHold, Receive
  PROVE  MbufsHold'
<1>1. dev # "down" /\ UNCHANGED <<job, cfg>>
  BY DEF Receive, LoopUnchanged, PlacesHold, Up, jobVars
<1>2. ASSUME cfg.backend = "dpdk", UNCHANGED replayVars, DpdkAnswer
      PROVE  MbufsHold'
  <2> DEFINE h == Head(taken).mbuf
  <2>1. taken # <<>> /\ taken' = Tail(taken) /\ calling' /\ UNCHANGED <<nic, burst, cursor, dev>>
    BY <1>2 DEF DpdkAnswer, TakeFrame, replayVars
  <2>2. PICK T \in SUBSET {t \in Mbufs : at[t] = "pool"} : FreeAndMove({h}, T, "tx")
    <3>1. ASSUME Free({h})
          PROVE  FreeAndMove({h}, {}, "tx")
      BY <3>1 DEF Free, FreeAndMove
    <3>2. {} \in SUBSET {t \in Mbufs : at[t] = "pool"}
      OBVIOUS
    <3>3. \A t \in {t \in Mbufs : at[t] = "pool"} :
              {t} \in SUBSET {s \in Mbufs : at[s] = "pool"}
      OBVIOUS
    <3>4. QED
      BY <1>2, <3>1, <3>2, <3>3 DEF DpdkAnswer
  <2>3. QED
    BY <1>1, <1>2, <2>1, <2>2, HeadFreed
<1>3. ASSUME cfg.backend = "dpdk", UNCHANGED replayVars, DpdkDiscard
      PROVE  MbufsHold'
  <2>1. taken # <<>> /\ taken' = Tail(taken) /\ calling' /\ UNCHANGED <<nic, burst, cursor, dev>>
    BY <1>3 DEF DpdkDiscard, TakeFrame, replayVars
  <2>2. /\ {} \in SUBSET {t \in Mbufs : at[t] = "pool"}
        /\ FreeAndMove({Head(taken).mbuf}, {}, "tx")
    BY <1>3 DEF DpdkDiscard, Free, FreeAndMove
  <2>3. QED
    BY <1>1, <1>3, <2>1, <2>2, HeadFreed
<1>4. ASSUME cfg.backend = "dpdk", UNCHANGED replayVars, DpdkLend
      PROVE  MbufsHold'
  BY <1>1, <1>4, HeadLent DEF replayVars
<1>5. ASSUME SocketReceive(cfg.maxBurst) \/ SocketEmpty(BlocksForever) \/ SocketError,
             UNCHANGED <<dpdkVars, replayVars>>
      PROVE  MbufsHold'
  <2>1. waiting /\ burst' = burst /\ dev' = dev
    BY <1>5 DEF SocketReceive, SocketEmpty, SocketError, ingressVars
  <2>2. taken = <<>>
    BY <2>1 DEF SocketHolds, MbufsHold
  <2>3. QED
    BY <1>1, <1>5, <2>1, <2>2, MbufsStay DEF dpdkVars, replayVars, MbufsHold
<1>6. ASSUME cfg.backend = "socket", SocketMessage, UNCHANGED <<dpdkVars, replayVars>>
      PROVE  MbufsHold'
  <2>1. burst \in Seq(Nat)
    BY <1>6 DEF MbufsHold
  <2>2. burst' \in Seq(Nat)
    <3>1. burst' = burst \/ burst' = Append(burst, Len(burst) + 1)
      BY <1>6 DEF SocketMessage
    <3>2. QED
      BY <2>1, <3>1
  <2>3. QED
    BY <1>1, <1>6, <2>2, OtherBurst DEF dpdkVars, replayVars, MbufsHold
<1>7. ASSUME cfg.backend = "filereplay", ReplayAdapt, UNCHANGED dpdkVars
      PROVE  MbufsHold'
  <2>1. burst \in Seq(Nat) /\ cursor \in Nat
    BY <1>7 DEF MbufsHold
  <2>2. burst' \in Seq(Nat) /\ cursor' \in Nat
    BY <1>7, <2>1 DEF ReplayAdapt
  <2>3. QED
    BY <1>1, <1>7, <2>2, OtherBurst DEF dpdkVars
<1>8. ASSUME taken = <<>>, ReturnBurst, UNCHANGED <<dpdkVars, replayVars>>
      PROVE  MbufsHold'
  BY <1>1, <1>8, MbufsStay DEF ReturnBurst, dpdkVars, replayVars, MbufsHold
<1>9. QED
  BY <1>2, <1>3, <1>4, <1>5, <1>6, <1>7, <1>8 DEF Receive

LEMMA CallKeepsMbufs ==
  ASSUME PlacesHold, MbufsHold, BeginRecv
  PROVE  MbufsHold'
<1>1. burst = <<>> /\ dev # "down" /\ UNCHANGED <<job, cfg>>
  BY DEF BeginRecv, Goto, LoopUnchanged, PlacesHold, Up, jobVars
<1>2. CASE cfg.backend = "dpdk" /\ DpdkRecv(cfg.maxBurst) /\ UNCHANGED <<socketVars, replayVars>>
  BY <1>1, <1>2, FramesTaken DEF replayVars
<1>3. CASE cfg.backend = "socket" /\ SocketRecv(cfg.maxBurst) /\ UNCHANGED <<dpdkVars, replayVars>>
  <2>1. burst' = burst /\ calling' /\ dev' = dev
    BY <1>1, <1>3 DEF SocketRecv, CallRecv
  <2>2. QED
    BY <1>1, <1>3, <2>1, MbufsStay DEF dpdkVars, replayVars, MbufsHold
<1>4. CASE cfg.backend = "filereplay" /\ ReplayRecv(cfg.maxBurst) /\ UNCHANGED <<dpdkVars, socketVars>>
  <2>1. burst' = <<>> /\ <<>> \in Seq(Nat)
    BY <1>4 DEF ReplayRecv
  <2>2. cursor' \in Nat
    BY <1>4 DEF ReplayRecv, MbufsHold
  <2>3. QED
    BY <1>1, <1>4, <2>1, <2>2, OtherBurst DEF dpdkVars
<1>5. QED
  BY <1>2, <1>3, <1>4 DEF BeginRecv

LEMMA InitKeepsMbufs ==
  ASSUME MbufsHold, BackendInit
  PROVE  MbufsHold'
<1>1. UNCHANGED <<job, cfg>>
  BY DEF BackendInit, jobVars
<1>2. CASE cfg.backend = "dpdk" /\ DpdkDrain /\ UNCHANGED <<socketVars, replayVars>>
  <2>1. UNCHANGED <<job, cfg, cursor>>
    BY <1>2 DEF BackendInit, jobVars, replayVars
  <2>2. QED
    BY <1>2, <2>1, NicDrained
<1>3. CASE /\ UNCHANGED <<dpdkVars, burst, calling>> /\ cursor' = cursor
           /\ dev' \in {"init", "drain", "failed", "up"}
  BY <1>3, MbufsStay DEF dpdkVars, MbufsHold, BackendInit, jobVars
<1>4. QED
  BY <1>2, <1>3 DEF BackendInit, DpdkInit, SocketAddress, SocketOpen, SocketOption,
     ReplayInit, replayVars, dpdkVars

LEMMA ArriveKeepsMbufs ==
  ASSUME MbufsHold, Arrive
  PROVE  MbufsHold'
<1>1. UNCHANGED <<job, cfg>>
  BY DEF Arrive, jobVars
<1>2. ASSUME NEW f \in Frames, cfg.backend = "dpdk", DpdkArrive(f), UNCHANGED replayVars
      PROVE  MbufsHold'
  BY <1>1, <1>2, FrameArrives DEF replayVars
<1>3. ASSUME DpdkSent, UNCHANGED replayVars
      PROVE  MbufsHold'
  BY <1>1, <1>3, ReplySent DEF replayVars
<1>4. ASSUME (\E inet \in BOOLEAN : SocketArrive(inet)) \/ SocketLose,
             UNCHANGED <<dpdkVars, replayVars>>
      PROVE  MbufsHold'
  <2>1. UNCHANGED <<burst, calling, dev>>
    BY <1>4 DEF SocketArrive, SocketLose, Arrives, ingressVars
  <2>2. QED
    BY <1>1, <1>4, <2>1, MbufsStay DEF dpdkVars, replayVars, MbufsHold
<1>5. QED
  BY <1>2, <1>3, <1>4 DEF Arrive

LEMMA NextKeepsMbufs ==
  PlacesHold /\ SocketHolds /\ MbufsHold /\ [Next]_vars => MbufsHold'
<1> SUFFICES ASSUME PlacesHold, SocketHolds, MbufsHold, [Next]_vars
             PROVE  MbufsHold'
  OBVIOUS
<1> DEFINE Same == UNCHANGED <<job, cfg, at, nic, taken, doubleFree, burst, cursor, calling>>
<1> USE DEF jobVars, backendVars, ingressVars, dpdkVars, replayVars
<1>1. ASSUME Same, dev' = dev \/ dev' = "init"
      PROVE  MbufsHold'
  BY <1>1, MbufsStay DEF MbufsHold
<1>2. ASSUME ParseArgs \/ ValidateConfig \/ OpenLog \/ ResetStop
      PROVE  MbufsHold'
  BY <1>1, <1>2 DEF ParseArgs, ValidateConfig, OpenLog, ResetStop, StartupUnchanged
<1>3. CASE LoadConfig
  BY <1>3, LoadKeepsMbufs
<1>4. CASE InstallHandlers
  BY <1>1, <1>4 DEF InstallHandlers
<1>5. CASE BackendInit
  BY <1>5, InitKeepsMbufs
<1>6. CASE InitFailed
  BY <1>6, BackendCloses DEF InitFailed
<1>7. ASSUME OpenCapture \/ StartRecorder
      PROVE  MbufsHold'
  BY <1>1, <1>7 DEF OpenCapture, StartRecorder
<1>8. CASE BeginRecv
  BY <1>8, CallKeepsMbufs
<1>9. CASE Receive
  BY <1>9, ReceiveKeepsMbufs
<1>10. CASE RecvFailed
  BY <1>10, BurstReleased DEF RecvFailed, LoopUnchanged, Goto, PlacesHold, Up
<1>11. ASSUME RecvDone \/ FilterDatagram \/ RejectDatagram \/ DeliverDatagram
      PROVE  MbufsHold'
  BY <1>1, <1>11 DEF RecvDone, FilterDatagram, RejectDatagram, DeliverDatagram, LoopUnchanged
<1>12. CASE ExhaustPool
  BY <1>12, BurstReleased DEF ExhaustPool, LoopUnchanged, HasDatagram, PlacesHold, Up
<1>13. CASE EndBurst
  BY <1>13, BurstReleased DEF EndBurst, LoopUnchanged, Goto, PlacesHold, Up
<1>14. ASSUME LeaveLoop \/ FinalizeActive \/ JoinConsumer \/ StopRecorder
      PROVE  MbufsHold'
  BY <1>1, <1>14 DEF LeaveLoop, FinalizeActive, JoinConsumer, StopRecorder, LoopUnchanged
<1>15. CASE JudgeRun
  <2>1. CASE BackendShutdown
    BY <1>15, <2>1, BackendCloses DEF JudgeRun, LoopUnchanged
  <2>2. CASE UNCHANGED backendVars
    BY <1>1, <1>15, <2>2 DEF JudgeRun, LoopUnchanged
  <2>3. QED
    BY <1>15, <2>1, <2>2 DEF JudgeRun
<1>16. CASE Unwind
  BY <1>16, BackendCloses DEF Unwind
<1>17. ASSUME LeaveRunner \/ Deadline \/ Signal \/ RequestStop \/ RecorderFails
      PROVE  MbufsHold'
  BY <1>1, <1>17 DEF LeaveRunner, Deadline, Signal, RequestStop, RecorderFails
<1>18. CASE Arrive
  BY <1>18, ArriveKeepsMbufs
<1>19. CASE UNCHANGED vars
  BY <1>1, <1>19 DEF vars
<1>20. QED
  BY <1>2, <1>3, <1>4, <1>5, <1>6, <1>7, <1>8, <1>9, <1>10, <1>11, <1>12, <1>13, <1>14,
     <1>15, <1>16, <1>17, <1>18, <1>19 DEF Next, Program, Environment

-----------------------------------------------------------------------------
(* What holds of every run                                                 *)

RunInvariant == PlacesHold /\ SocketHolds /\ MbufsHold

THEOREM RunInvariantHolds == Spec => []RunInvariant
<1>1. Init => RunInvariant
  BY InitPlaces, InitMbufs DEF RunInvariant
<1>2. RunInvariant /\ [Next]_vars => RunInvariant'
  BY NextKeepsPlaces, NextKeepsSocket, NextKeepsMbufs DEF RunInvariant
<1>3. QED
  BY <1>1, <1>2, PTL DEF Spec

(* Every mbuf taken from the NIC is freed exactly once (FreeAndMove), and  *)
(* one that is not in the pool is where somebody will free it.             *)
THEOREM MbufsConservedHolds == Spec => []MbufsConserved
<1>1. RunInvariant => MbufsConserved
  BY ConservedByPlace DEF RunInvariant
<1>2. QED
  BY <1>1, RunInvariantHolds, PTL

(* Whatever ended the run, run() gives back what it opened: the exit is    *)
(* reached only with everything released.                                  *)
THEOREM ResourcesReleasedHolds == Spec => []ResourcesReleased
<1>1. RunInvariant => ResourcesReleased
  <2> SUFFICES ASSUME RunInvariant, pc = "exited"
               PROVE  /\ dev = "down" /\ burst = <<>> /\ fd = "none"
                      /\ \A m \in Mbufs : at[m] = "pool"
                      /\ rec # "on" /\ consumer # "on" /\ ~handlers
    BY DEF ResourcesReleased
  <2>1. /\ dev = "down" /\ burst = <<>> /\ rec # "on" /\ consumer # "on" /\ ~handlers
        /\ ~calling
    BY DEF RunInvariant, PlacesHold, Starting, Up, AtWork, Helping
  <2>2. fd = "none"
    BY <2>1 DEF RunInvariant, SocketHolds
  <2>3. taken = <<>> /\ nic = <<>> /\ \A m \in Mbufs : at[m] # "tx"
    BY <2>1 DEF RunInvariant, MbufsHold
  <2>4. \A m \in Mbufs : at[m] = "pool"
    BY <2>1, <2>3, EmptyHasNone DEF RunInvariant, MbufsHold
  <2>5. QED
    BY <2>1, <2>2, <2>4
<1>2. QED
  BY <1>1, RunInvariantHolds, PTL

-----------------------------------------------------------------------------
(* The contract of the backends                                            *)

Phase == IF dev # "up" THEN "closed" ELSE IF calling THEN "calling" ELSE "open"

(* A burst only grows while it is filled.                                  *)
LEMMA BurstGrows ==
  ASSUME NEW q, NEW S, q \in Seq(S), NEW e
  PROVE  ToSet(q) \subseteq ToSet(Append(q, e))
<1>1. \A i \in 1 .. Len(q) : i \in 1 .. Len(Append(q, e)) /\ Append(q, e)[i] = q[i]
  OBVIOUS
<1>2. DOMAIN q = 1 .. Len(q) /\ DOMAIN Append(q, e) = 1 .. Len(Append(q, e))
  OBVIOUS
<1> DEFINE r == Append(q, e)
<1> HIDE DEF r
<1>3. QED
  BY <1>1, <1>2 DEF ToSet, r

LEMMA StepsKeepContract ==
  RunInvariant /\ [Next]_vars => [Contract!Next]_<<Phase, ToSet(burst)>>
<1> SUFFICES ASSUME PlacesHold, SocketHolds, MbufsHold, [Next]_vars
             PROVE  [Contract!Next]_<<Phase, ToSet(burst)>>
  BY DEF RunInvariant
<1> DEFINE Lent == ToSet(burst)
           Stutter == UNCHANGED <<Phase, Lent>>
<1> USE DEF backendVars, ingressVars
<1>1. ASSUME UNCHANGED <<dev, calling, burst>>
      PROVE  Stutter
  BY <1>1 DEF Phase
<1>2. ASSUME ParseArgs \/ LoadConfig \/ ValidateConfig \/ OpenLog \/ ResetStop
      PROVE  Stutter
  BY <1>1, <1>2 DEF ParseArgs, LoadConfig, ValidateConfig, OpenLog, ResetStop, StartupUnchanged
<1>3. CASE InstallHandlers
  <2>1. dev # "up" /\ dev' # "up" /\ burst' = burst
    BY <1>3 DEF InstallHandlers, PlacesHold, Starting, Goto
  <2>2. QED
    BY <2>1 DEF Phase
<1>4. CASE BackendInit
  <2>1. dev # "up" /\ ~calling /\ UNCHANGED <<calling, burst>>
    BY <1>4 DEF BackendInit, DpdkInit, DpdkDrain, SocketAddress, SocketOpen, SocketOption,
       ReplayInit, PlacesHold
  <2>2. CASE dev' = "up"
    <3>1. Contract!Open
      BY <2>1, <2>2 DEF Contract!Open, Phase
    <3>2. QED
      BY <3>1 DEF Contract!Next
  <2>3. CASE dev' # "up"
    BY <2>1, <2>3 DEF Phase
  <2>4. QED
    BY <2>2, <2>3
<1>5. CASE InitFailed
  <2>1. dev # "up" /\ dev' # "up" /\ burst' = burst
    BY <1>5 DEF InitFailed, BackendShutdown
  <2>2. QED
    BY <2>1 DEF Phase
<1>6. ASSUME OpenCapture \/ StartRecorder
      PROVE  Stutter
  BY <1>1, <1>6 DEF OpenCapture, StartRecorder
<1>7. CASE BeginRecv
  <2>1. dev = "up" /\ ~calling /\ burst = <<>>
    BY <1>7 DEF BeginRecv, Goto, PlacesHold, Up
  <2>2. dev' = dev /\ calling' /\ burst' = <<>>
    BY <1>7 DEF BeginRecv, DpdkRecv, SocketRecv, CallRecv, ReplayRecv
  <2>3. Contract!Call
    BY <2>1, <2>2, EmptyHasNone DEF Contract!Call, Phase
  <2>4. QED
    BY <2>3 DEF Contract!Next
<1>8. CASE Receive
  <2>1. dev = "up" /\ dev' = dev
    BY <1>8 DEF Receive, PlacesHold, Up, DpdkAnswer, DpdkDiscard, DpdkLend, TakeFrame,
       SocketReceive, SocketEmpty, SocketError, SocketMessage, ReplayAdapt, ReturnBurst
  <2>2. CASE UNCHANGED <<calling, burst>>
    BY <1>1, <2>1, <2>2
  <2>3. CASE calling /\ ~calling' /\ burst' = burst
    <3>1. Contract!Return
      BY <2>1, <2>3 DEF Contract!Return, Phase
    <3>2. QED
      BY <3>1 DEF Contract!Next
  <2>4. CASE calling /\ calling' = calling /\ \E e : burst' = Append(burst, e)
    <3>1. burst \in Seq(Mbufs) \/ burst \in Seq(Nat)
      BY DEF MbufsHold
    <3>2. ToSet(burst) \subseteq ToSet(burst')
      BY <2>4, <3>1, BurstGrows
    <3>3. Contract!Lend
      BY <2>1, <2>4, <3>2 DEF Contract!Lend, Phase
    <3>4. QED
      BY <3>3 DEF Contract!Next
  <2>5. QED
    <3>1. ASSUME DpdkAnswer \/ DpdkDiscard \/ SocketReceive(cfg.maxBurst)
                   \/ SocketEmpty(BlocksForever)
          PROVE  UNCHANGED <<calling, burst>>
      BY <3>1 DEF DpdkAnswer, DpdkDiscard, TakeFrame, SocketReceive, SocketEmpty
    <3>2. ASSUME SocketError \/ ReturnBurst
          PROVE  calling /\ ~calling' /\ burst' = burst
      BY <3>2 DEF SocketError, ReturnBurst, SocketHolds
    <3>3. ASSUME DpdkLend \/ ReplayAdapt
          PROVE  calling /\ calling' = calling /\ \E e : burst' = Append(burst, e)
      BY <3>3 DEF DpdkLend, TakeFrame, ReplayAdapt
    <3>4. ASSUME SocketMessage
          PROVE  \/ UNCHANGED <<calling, burst>>
                 \/ calling /\ calling' = calling /\ \E e : burst' = Append(burst, e)
      BY <3>4 DEF SocketMessage
    <3>5. QED
      BY <1>8, <2>2, <2>3, <2>4, <3>1, <3>2, <3>3, <3>4 DEF Receive
<1>9. ASSUME RecvFailed \/ ExhaustPool \/ EndBurst
      PROVE  Contract!Next
  <2>1. dev = "up" /\ ~calling
    BY <1>9 DEF RecvFailed, ExhaustPool, EndBurst, HasDatagram, Goto, PlacesHold, Up
  <2>2. dev' = dev /\ calling' = calling /\ burst' = <<>>
    BY <1>9 DEF RecvFailed, ExhaustPool, EndBurst, ReleaseBurst, DpdkRelease, SocketRelease,
       ReplayRelease
  <2>3. Contract!Release
    BY <2>1, <2>2, EmptyHasNone DEF Contract!Release, Phase
  <2>4. QED
    BY <2>3 DEF Contract!Next
<1>10. ASSUME RecvDone \/ FilterDatagram \/ RejectDatagram \/ DeliverDatagram
       PROVE  Stutter
  BY <1>1, <1>10 DEF RecvDone, FilterDatagram, RejectDatagram, DeliverDatagram
<1>11. ASSUME LeaveLoop \/ FinalizeActive \/ JoinConsumer \/ StopRecorder
       PROVE  Stutter
  BY <1>1, <1>11 DEF LeaveLoop, FinalizeActive, JoinConsumer, StopRecorder
<1>12. ASSUME JudgeRun \/ Unwind
       PROVE  Stutter \/ Contract!Next
  <2>1. dev = "up" /\ ~calling /\ burst = <<>>
    BY <1>12 DEF JudgeRun, Unwind, Throws, Goto, PlacesHold, Up
  <2>2. CASE BackendShutdown
    <3>1. dev' = "down" /\ UNCHANGED burst
      BY <2>2 DEF BackendShutdown
    <3>2. Contract!Close
      BY <2>1, <3>1, EmptyHasNone DEF Contract!Close, Phase
    <3>3. QED
      BY <3>2 DEF Contract!Next
  <2>3. CASE UNCHANGED backendVars
    BY <1>1, <2>3
  <2>4. QED
    BY <1>12, <2>2, <2>3 DEF JudgeRun, Unwind
<1>13. ASSUME LeaveRunner \/ Deadline \/ Signal \/ RequestStop \/ RecorderFails
       PROVE  Stutter
  BY <1>1, <1>13 DEF LeaveRunner, Deadline, Signal, RequestStop, RecorderFails
<1>14. CASE Arrive
  BY <1>1, <1>14 DEF Arrive, DpdkArrive, DpdkSent, SocketArrive, SocketLose, Arrives
<1>15. CASE UNCHANGED vars
  BY <1>1, <1>15 DEF vars
<1>16. QED
  BY <1>2, <1>3, <1>4, <1>5, <1>6, <1>7, <1>8, <1>9, <1>10, <1>11, <1>12, <1>13, <1>14,
     <1>15 DEF Next, Program, Environment

(* Runner, loop and backends keep the contract of IRxBackend: no call and  *)
(* no shutdown while a datagram that points into the backend is lent.      *)
THEOREM RunKeepsContract == Spec => KeepsContract
<1>1. Init => Contract!Init
  BY EmptyHasNone DEF Init, IngressInit, Contract!Init
<1>2. RunInvariant /\ [Next]_vars => [Contract!Next]_<<Phase, ToSet(burst)>>
  BY StepsKeepContract
<1>3. QED
  BY <1>1, <1>2, RunInvariantHolds, PTL DEF Spec, KeepsContract, Contract!Spec, Phase
=============================================================================
