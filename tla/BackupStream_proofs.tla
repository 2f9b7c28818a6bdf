------------------------ MODULE BackupStream_proofs ------------------------
(***************************************************************************)
(* The safety properties of BackupStream, for every number of tabs,        *)
(* connections, commands, frames and every capacity of the channels.       *)
(***************************************************************************)
EXTENDS BackupStream, SequenceTheorems, TLAPS

Elems(s) == { s[i] : i \in 1..Len(s) }

Ended == logs # << >> /\ logs[Len(logs)] = "end"

\* The producers take turns: a pump is on only while the operation waits for
\* it, and the terminal frame is the operation's last word.
LogInv ==
  /\ \A i \in 1..(Len(logs) - 1) : logs[i] = "log"
  /\ Ended => /\ writer["main"].at \in {"send", "finish", "off"} /\ PumpsOff
              /\ writer["main"].at = "send" => writer["main"].frame = Len(logs)
  /\ ~Ended => writer["main"].at \in {"idle", "send"} /\ Len(logs) <= MaxLogs
  /\ done => writer["main"].at = "off"
  /\ \A w \in Pumps : /\ writer[w].at # "finish"
                      /\ writer[w].at # "off" => writer["main"].at = "idle"
  /\ \A w \in Writers : writer[w].at = "send" => writer[w].frame \in 1..Len(logs)
  /\ \A v, w \in Writers : /\ v # w
                           /\ writer[v].at = "send" /\ writer[w].at = "send"
                           => writer[v].frame # writer[w].frame

\* The frames that append has put in the log and not yet sent to c.
Due(c) ==
  { writer[w].frame : w \in { v \in Writers : writer[v].at = "send"
                                              /\ c \in writer[v].to } }

\* Nothing is meant for a handler that has not taken its snapshot.
Fresh(c) ==
  /\ conn[c].at \in {"none", "start"} =>
       /\ got[c] = << >> /\ chan[c] = << >> /\ dropped[c] = {} /\ Due(c) = {}
       /\ conn[c].hist = 0 /\ conn[c].sent = 0
  /\ c \in subs <=> conn[c].at \in {"replay", "tail"}

\* The channel, and what is due to it, carries frames newer than the history.
Bounds(c) ==
  /\ conn[c].hist <= Len(logs) /\ conn[c].sent <= conn[c].hist
  /\ \A f \in Elems(chan[c]) \cup dropped[c] \cup Due(c) :
       conn[c].hist < f /\ f <= Len(logs)
  /\ \A f \in Elems(got[c]) : f <= Len(logs)

\* No frame is on its way twice.
Separate(c) ==
  /\ \A i, j \in 1..Len(chan[c]) : i # j => chan[c][i] # chan[c][j]
  /\ Elems(chan[c]) \cap Elems(got[c]) = {}
  /\ Elems(chan[c]) \cap Due(c) = {}
  /\ Elems(got[c]) \cap Due(c) = {}

\* HistoryThenLive for one connection.
Prefix(c) ==
  /\ \A i \in 1..Len(got[c]) : IF i <= conn[c].hist THEN got[c][i] = i
                               ELSE got[c][i] > conn[c].hist
  /\ \A i, j \in 1..Len(got[c]) : i # j => got[c][i] # got[c][j]

\* What the browser has of the history.
Progress(c) ==
  /\ conn[c].at = "replay" => Len(got[c]) <= conn[c].sent
  /\ conn[c].at = "replay" /\ Attached(c) => Len(got[c]) = conn[c].sent
  /\ conn[c].at = "tail" /\ Attached(c) => Len(got[c]) >= conn[c].hist

\* Nothing falls between the history and the channel.
Complete(c) ==
  conn[c].at \in {"replay", "tail"} /\ Attached(c) =>
    \A f \in (conn[c].hist + 1)..Len(logs) :
      f \in Elems(got[c]) \cup Elems(chan[c]) \cup dropped[c] \cup Due(c)

\* The terminal frame overtakes nothing.
Told(c) ==
  /\ \A i \in 1..(Len(chan[c]) - 1) : logs[chan[c][i]] = "log"
  /\ (\E f \in Elems(got[c]) : logs[f] = "end") =>
       /\ ~Attached(c)
       /\ Elems(got[c]) \cup dropped[c] = 1..Len(logs)

ConnInv(c) ==
  /\ Fresh(c) /\ Bounds(c) /\ Separate(c) /\ Prefix(c) /\ Progress(c)
  /\ Complete(c) /\ Told(c)

StreamInv == TypeOK /\ LogInv /\ \A c \in Conns : ConnInv(c)

----------------------------------------------------------------------------
(* Sequences *)

LEMMA AppendFacts ==
  ASSUME NEW S, NEW s \in Seq(S), NEW e
  PROVE  /\ Len(Append(s, e)) = Len(s) + 1
         /\ \A i \in 1..Len(s) : Append(s, e)[i] = s[i]
         /\ Append(s, e)[Len(s) + 1] = e
         /\ Elems(Append(s, e)) = Elems(s) \cup {e}
<1>1. /\ Len(s) \in Nat /\ Len(Append(s, e)) = Len(s) + 1
      /\ \A i \in 1..Len(s) : Append(s, e)[i] = s[i]
      /\ Append(s, e)[Len(s) + 1] = e
  OBVIOUS
<1>2. 1..(Len(s) + 1) = 1..Len(s) \cup {Len(s) + 1}
  BY <1>1
<1>3. Elems(Append(s, e)) = Elems(s) \cup {e}
  BY <1>1, <1>2 DEF Elems
<1>4. QED BY <1>1, <1>3

LEMMA TailFacts ==
  ASSUME NEW S, NEW s \in Seq(S), s # << >>
  PROVE  /\ Len(s) \in Nat /\ Len(s) > 0 /\ Len(Tail(s)) = Len(s) - 1
         /\ \A i \in 1..(Len(s) - 1) : Tail(s)[i] = s[i + 1]
         /\ Head(s) = s[1] /\ Head(s) \in S /\ Tail(s) \in Seq(S)
         /\ Head(s) \in Elems(s)
         /\ Elems(s) = {Head(s)} \cup Elems(Tail(s))
<1>1. /\ Len(s) \in Nat /\ Len(s) > 0 /\ Len(Tail(s)) = Len(s) - 1
      /\ \A i \in 1..(Len(s) - 1) : Tail(s)[i] = s[i + 1]
      /\ Head(s) = s[1] /\ Head(s) \in S /\ Tail(s) \in Seq(S)
  OBVIOUS
<1>2. Head(s) \in Elems(s)
  BY <1>1 DEF Elems
<1>3. Elems(Tail(s)) \subseteq Elems(s)
  BY <1>1 DEF Elems
<1>4. Elems(s) \subseteq {Head(s)} \cup Elems(Tail(s))
  <2> SUFFICES ASSUME NEW i \in 1..Len(s), i # 1
               PROVE  s[i] \in Elems(Tail(s))
    BY <1>1 DEF Elems
  <2>1. i - 1 \in 1..(Len(s) - 1) /\ Tail(s)[i - 1] = s[i]
    BY <1>1
  <2>2. QED BY <1>1, <2>1 DEF Elems
<1>5. QED BY <1>1, <1>2, <1>3, <1>4

----------------------------------------------------------------------------
(* Types *)

WriterType == [at : {"off", "idle", "send", "finish"}, frame : Frames \cup {0},
               to : SUBSET Conns]

ConnType == [at : {"none", "start", "replay", "tail", "closed"},
             tab : Tabs \cup {"none"}, hist : Frames \cup {0},
             sent : Frames \cup {0}, done : BOOLEAN]

TabType == [at : {"closed", "open", "retry", "away", "told", "lost"},
            conn : Conns \cup {0}]

LEMMA Constants ==
  /\ Cap \in Nat /\ Cap > 0 /\ MaxLogs \in Nat /\ MaxCmds \in Nat
  /\ MaxConns \in Nat /\ MaxDrops \in Nat
  /\ "none" \notin Tabs /\ "main" \notin Pumps
BY StreamAssumption DEF Pumps

LEMMA Updated ==
  ASSUME NEW A, NEW B, NEW f \in [A -> B], NEW a \in A, NEW b \in B
  PROVE  [f EXCEPT ![a] = b] \in [A -> B]
OBVIOUS

\* A writer moves on.
LEMMA WriterMoves ==
  ASSUME TypeOK, NEW w \in Writers, NEW a \in {"off", "idle", "send", "finish"}
  PROVE  [writer EXCEPT ![w].at = a] \in [Writers -> WriterType]
<1>1. writer \in [Writers -> WriterType] /\ writer[w] \in WriterType
  BY DEF TypeOK, WriterType
<1>2. [writer[w] EXCEPT !.at = a] \in WriterType
  BY <1>1 DEF WriterType
<1>3. QED BY <1>1, <1>2, Updated

LEMMA Append1Type ==
  ASSUME TypeOK, NEW w \in Writers, NEW e \in {"log", "end"}, Append1(w, e),
         Len(logs) <= MaxLogs
  PROVE  TypeOK'
<1>1. Len(logs) \in Nat /\ Len(logs) + 1 \in Frames
  BY Constants DEF TypeOK, Frames
<1>2. logs' \in Seq({"log", "end"}) /\ Len(logs') = Len(logs) + 1
  BY DEF TypeOK, Append1
<1>3. writer' \in [Writers -> WriterType]
  BY <1>1 DEF TypeOK, Append1, WriterType
<1>4. QED
  BY <1>1, <1>2, <1>3, Constants DEF TypeOK, Append1, WriterType

LEMMA ProducerType ==
  ASSUME TypeOK, LogInv, Producer \/ Janitor
  PROVE  TypeOK'
<1>1. CASE StreamCmd
  <2>1. writer' \in [Writers -> WriterType]
    BY <1>1 DEF TypeOK, StreamCmd, WriterType, Frames
  <2>2. cmds' \in 0..MaxCmds
    BY <1>1, Constants DEF TypeOK, StreamCmd
  <2>3. QED BY <1>1, <2>1, <2>2 DEF TypeOK, StreamCmd, WriterType
<1>2. CASE AppendEnd
  <2>1. Len(logs) <= MaxLogs
    BY <1>2 DEF AppendEnd, LogInv
  <2>2. QED BY <1>2, <2>1, Append1Type DEF AppendEnd, Writers
<1>3. CASE Finish
  <2>1. writer' \in [Writers -> WriterType]
    BY <1>3, WriterMoves DEF Finish, Writers
  <2>2. QED BY <1>3, <2>1 DEF TypeOK, Finish, WriterType
<1>4. ASSUME NEW w \in Pumps, PumpEOF(w)
      PROVE  TypeOK'
  <2>1. writer' \in [Writers -> WriterType]
    BY <1>4, WriterMoves DEF PumpEOF, Writers
  <2>2. QED BY <1>4, <2>1 DEF TypeOK, PumpEOF, WriterType
<1>5. ASSUME NEW w \in Writers, AppendLog(w)
      PROVE  TypeOK'
  <2>1. Len(logs) <= MaxLogs
    BY <1>5, Constants DEF AppendLog, TypeOK
  <2>2. QED BY <1>5, <2>1, Append1Type DEF AppendLog
<1>6. ASSUME NEW w \in Writers, Sent(w)
      PROVE  TypeOK'
  <2>1. writer' \in [Writers -> WriterType]
    BY <1>6, WriterMoves DEF Sent
  <2>2. QED BY <1>6, <2>1 DEF TypeOK, Sent, WriterType
<1>7. ASSUME NEW w \in Writers, NEW c \in Conns, Send(w, c)
      PROVE  TypeOK'
  <2>1. writer[w].frame \in Frames
    BY <1>7, Constants DEF TypeOK, LogInv, Send, Frames
  <2>2. chan' \in [Conns -> Seq(Frames)]
    <3>1. chan \in [Conns -> Seq(Frames)] /\ Append(chan[c], writer[w].frame) \in Seq(Frames)
      BY <2>1 DEF TypeOK
    <3>2. chan' \in {chan, [chan EXCEPT ![c] = Append(chan[c], writer[w].frame)]}
      BY <1>7 DEF Send
    <3>3. QED BY <3>1, <3>2, Updated
  <2>3. dropped' \in [Conns -> SUBSET Frames]
    <3>1. /\ dropped \in [Conns -> SUBSET Frames]
          /\ dropped[c] \cup {writer[w].frame} \in SUBSET Frames
      BY <2>1 DEF TypeOK
    <3>2. dropped' \in {dropped, [dropped EXCEPT ![c] = dropped[c] \cup {writer[w].frame}]}
      BY <1>7 DEF Send
    <3>3. QED BY <3>1, <3>2, Updated
  <2>4. writer' \in [Writers -> WriterType]
    <3>1. writer \in [Writers -> WriterType] /\ writer[w] \in WriterType
      BY DEF TypeOK, WriterType
    <3>2. [writer[w] EXCEPT !.to = @ \ {c}] \in WriterType
      BY <3>1 DEF WriterType
    <3>3. QED BY <1>7, <3>1, <3>2, Updated DEF Send
  <2>5. QED BY <1>7, <2>2, <2>3, <2>4 DEF TypeOK, Send, WriterType
<1>8. CASE Janitor
  BY <1>8 DEF TypeOK, Janitor
<1>9. QED
  BY <1>1, <1>2, <1>3, <1>4, <1>5, <1>6, <1>7, <1>8 DEF Producer

\* A browser's EventSource changes its state.
LEMMA TabMoves ==
  ASSUME TypeOK, NEW t \in Tabs, NEW a \in {"closed", "open", "retry", "away", "told", "lost"}
  PROVE  tab \in [Tabs -> TabType] /\ [tab EXCEPT ![t].at = a] \in [Tabs -> TabType]
<1>1. tab \in [Tabs -> TabType] /\ tab[t] \in TabType
  BY DEF TypeOK, TabType
<1>2. [tab[t] EXCEPT !.at = a] \in TabType
  BY <1>1 DEF TabType
<1>3. QED BY <1>1, <1>2, Updated

LEMMA WriteFrameType ==
  ASSUME TypeOK, NEW c \in Conns, NEW f \in Frames, WriteFrame(c, f)
  PROVE  got' \in [Conns -> Seq(Frames)] /\ tab' \in [Tabs -> TabType]
<1>1. conn[c].tab \in Tabs \cup {"none"}
  BY DEF TypeOK
<1>2. got' \in [Conns -> Seq(Frames)]
  <2>1. got \in [Conns -> Seq(Frames)] /\ Append(got[c], f) \in Seq(Frames)
    BY DEF TypeOK
  <2>2. got' \in {got, [got EXCEPT ![c] = Append(got[c], f)]}
    BY DEF WriteFrame
  <2>3. QED BY <2>1, <2>2, Updated
<1>3. CASE Attached(c)
  <2>1. conn[c].tab \in Tabs
    BY <1>1, <1>3 DEF Attached
  <2>2. tab' \in {tab, [tab EXCEPT ![conn[c].tab].at = "told"]}
    BY <1>3 DEF WriteFrame
  <2>3. PICK t \in Tabs : tab' \in {tab, [tab EXCEPT ![t].at = "told"]}
    BY <2>1, <2>2
  <2>4. tab' \in [Tabs -> TabType]
    BY <2>3, TabMoves
  <2>5. QED BY <1>2, <2>4
<1>4. CASE ~Attached(c)
  BY <1>2, <1>4 DEF WriteFrame, TypeOK, TabType
<1>5. QED BY <1>3, <1>4

LEMMA ConsumerType ==
  ASSUME TypeOK, NEW c \in Conns, Consumer(c)
  PROVE  TypeOK'
<1>0. /\ conn \in [Conns -> ConnType] /\ conn[c] \in ConnType
      /\ tab \in [Tabs -> TabType]
  BY DEF TypeOK, ConnType, TabType
<1>1. CASE Snapshot(c)
  <2>1. Len(logs) \in Frames \cup {0}
    BY Constants DEF TypeOK, Frames
  <2>2. conn' \in [Conns -> ConnType]
    BY <1>0, <1>1, <2>1 DEF Snapshot, ConnType, TypeOK
  <2>3. QED BY <1>1, <2>2 DEF TypeOK, Snapshot, ConnType
<1>2. CASE Replay(c)
  <2>1. conn[c].sent + 1 \in Frames
    BY <1>0, <1>2, Constants DEF Replay, ConnType, Frames
  <2>2. conn' \in [Conns -> ConnType]
    BY <1>0, <1>2, <2>1 DEF Replay, ConnType
  <2>3. got' \in [Conns -> Seq(Frames)] /\ tab' \in [Tabs -> TabType]
    BY <1>2, <2>1, WriteFrameType DEF Replay
  <2>4. QED BY <1>2, <2>2, <2>3 DEF TypeOK, Replay, ConnType, TabType
<1>3. ASSUME Close(c)
      PROVE  conn' \in [Conns -> ConnType] /\ subs' \subseteq Conns
  BY <1>0, <1>3 DEF Close, ConnType, TypeOK
<1>4. CASE CheckDone(c)
  <2>1. conn' \in [Conns -> ConnType] /\ subs' \subseteq Conns
    <3>1. CASE Close(c)
      BY <1>3, <3>1
    <3>2. CASE conn' = [conn EXCEPT ![c].at = "tail"] /\ subs' = subs
      BY <1>0, <3>2 DEF ConnType, TypeOK
    <3>3. QED BY <1>4, <3>1, <3>2 DEF CheckDone
  <2>2. tab' \in [Tabs -> TabType]
    <3>1. tab' # tab => conn[c].tab \in Tabs /\ tab' = [tab EXCEPT ![conn[c].tab].at = "retry"]
      BY <1>0, <1>4 DEF CheckDone, Attached, ConnType
    <3>2. CASE tab' = tab
      BY <1>0, <3>2
    <3>3. CASE tab' # tab
      <4>1. conn[c].tab \in Tabs /\ tab' = [tab EXCEPT ![conn[c].tab].at = "retry"]
        BY <3>1, <3>3
      <4>2. [tab EXCEPT ![conn[c].tab].at = "retry"] \in [Tabs -> TabType]
        BY <4>1, TabMoves
      <4>3. QED BY <4>1, <4>2
    <3>4. QED BY <3>2, <3>3
  <2>3. QED BY <1>4, <2>1, <2>2 DEF TypeOK, CheckDone, ConnType, TabType
<1>5. CASE Tail1(c)
  <2>1. Head(chan[c]) \in Frames /\ Tail(chan[c]) \in Seq(Frames)
    BY <1>5, TailFacts DEF TypeOK, Tail1
  <2>2. got' \in [Conns -> Seq(Frames)] /\ tab' \in [Tabs -> TabType]
    BY <1>5, <2>1, WriteFrameType DEF Tail1
  <2>3. conn' \in [Conns -> ConnType] /\ subs' \subseteq Conns
    <3>1. CASE Close(c)
      BY <1>3, <3>1
    <3>2. CASE conn' = conn /\ subs' = subs
      BY <1>0, <3>2 DEF TypeOK
    <3>3. QED BY <1>5, <3>1, <3>2 DEF Tail1
  <2>4. chan' \in [Conns -> Seq(Frames)]
    BY <1>5, <2>1 DEF Tail1, TypeOK
  <2>5. QED BY <1>5, <2>2, <2>3, <2>4 DEF TypeOK, Tail1, ConnType, TabType
<1>6. CASE Cancel(c)
  BY <1>3, <1>6 DEF TypeOK, Cancel, ConnType
<1>7. QED
  BY <1>1, <1>2, <1>4, <1>5, <1>6 DEF Consumer

LEMMA BrowserType ==
  ASSUME TypeOK, NEW t \in Tabs, NetworkDrop(t) \/ \E c \in Conns : Connect(t, c)
  PROVE  TypeOK'
<1>0. conn \in [Conns -> ConnType] /\ tab \in [Tabs -> TabType]
  BY DEF TypeOK, ConnType, TabType
<1>1. CASE NetworkDrop(t)
  <2>1. tab' \in [Tabs -> TabType]
    BY <1>0, <1>1 DEF NetworkDrop, TabType
  <2>2. drops' \in 0..MaxDrops
    BY <1>1, Constants DEF NetworkDrop, TypeOK
  <2>3. QED BY <1>1, <2>1, <2>2 DEF TypeOK, NetworkDrop, TabType
<1>2. ASSUME NEW c \in Conns, Connect(t, c)
      PROVE  TypeOK'
  <2>1. tab' \in [Tabs -> TabType]
    BY <1>0, <1>2 DEF Connect, TabType
  <2>2. conn' \in [Conns -> ConnType]
    <3>1. [NoConn EXCEPT !.at = "start", !.tab = t] \in ConnType
      BY DEF ConnType, NoConn
    <3>2. QED BY <1>0, <1>2, <3>1, Updated DEF Connect
  <2>3. QED BY <1>2, <2>1, <2>2 DEF TypeOK, Connect, TabType, ConnType
<1>3. QED BY <1>1, <1>2

LEMMA TypeStep ==
  ASSUME TypeOK, LogInv, [Next]_vars
  PROVE  TypeOK'
<1>1. CASE UNCHANGED vars
  BY <1>1 DEF TypeOK, vars
<1>2. QED
  BY <1>1, ProducerType, ConsumerType, BrowserType DEF Next

----------------------------------------------------------------------------
(* The log and its writers *)

\* One writer moves on, the log stays.
LEMMA LogMoves ==
  ASSUME TypeOK, LogInv, NEW w \in Writers, NEW a,
         writer' = [writer EXCEPT ![w].at = a], logs' = logs,
         a # "send",
         w \in Pumps => a \in {"idle", "off"} /\ writer[w].at # "off",
         w = "main" => /\ PumpsOff
                       /\ a \in {"finish", "off"} => Ended
                       /\ a = "idle" => ~Ended
                       /\ a \in {"idle", "finish", "off"},
         done' => w = "main" /\ a = "off"
  PROVE  LogInv'
<1>1. /\ \A v \in Writers : /\ writer'[v].frame = writer[v].frame
                             /\ v # w => writer'[v] = writer[v]
      /\ writer'[w].at = a
  BY DEF TypeOK
<1>2. "main" \in Writers /\ Pumps \subseteq Writers /\ "main" \notin Pumps
      /\ Writers = Pumps \cup {"main"}
  BY DEF Writers, Pumps
<1>3. Ended' <=> Ended
  BY DEF Ended
<1>4. CASE w = "main"
  <2>1. PumpsOff /\ PumpsOff'
    BY <1>1, <1>2, <1>4 DEF PumpsOff
  <2>2. QED
    BY <1>1, <1>2, <1>3, <1>4, <2>1 DEF LogInv, PumpsOff
<1>5. CASE w \in Pumps
  <2>1. writer["main"].at = "idle" /\ writer'["main"] = writer["main"] /\ ~Ended /\ ~done
    BY <1>1, <1>2, <1>5 DEF LogInv
  <2>2. QED
    BY <1>1, <1>2, <1>3, <1>5, <2>1 DEF LogInv
<1>6. QED BY <1>2, <1>4, <1>5

LEMMA WriterSets ==
  /\ "main" \in Writers /\ Pumps \subseteq Writers /\ "main" \notin Pumps
  /\ Writers = Pumps \cup {"main"}
BY DEF Writers, Pumps

\* A frame joins the log.
LEMMA LogGrows ==
  ASSUME TypeOK, LogInv, NEW w \in Writers, NEW e \in {"log", "end"}, Append1(w, e),
         writer[w].at = "idle", w = "main" => PumpsOff,
         e = "end" => w = "main",
         e = "log" => Len(logs) < MaxLogs
  PROVE  /\ LogInv' /\ ~Ended
         /\ Len(logs') = Len(logs) + 1 /\ Len(logs) \in Nat
         /\ \A i \in 1..Len(logs) : logs[i] = "log" /\ logs'[i] = "log"
         /\ logs'[Len(logs) + 1] = e
<1>1. /\ Len(logs) \in Nat /\ Len(logs') = Len(logs) + 1
      /\ \A i \in 1..Len(logs) : logs'[i] = logs[i]
      /\ logs'[Len(logs) + 1] = e
  BY DEF TypeOK, Append1
<1>2. ~Ended
  BY WriterSets DEF LogInv, PumpsOff
<1>3. \A i \in 1..Len(logs) : logs[i] = "log"
  <2>1. Len(logs) # 0 => logs[Len(logs)] = "log"
    BY <1>1, <1>2 DEF Ended, TypeOK
  <2>2. QED BY <1>1, <2>1 DEF LogInv
<1>4. writer'[w] = [at |-> "send", frame |-> Len(logs) + 1, to |-> subs]
      /\ \A v \in Writers : v # w => writer'[v] = writer[v]
  BY DEF TypeOK, Append1
<1>5. Ended' <=> e = "end"
  BY <1>1 DEF Ended
<1>6. \A v \in Writers : writer[v].at = "send" => writer[v].frame \in 1..Len(logs)
  BY DEF LogInv
<1>7. \A i \in 1..(Len(logs') - 1) : logs'[i] = "log"
  BY <1>1, <1>3
<1>8. \A v \in Writers : writer'[v].at = "send" => writer'[v].frame \in 1..Len(logs')
  BY <1>1, <1>4, <1>6
<1>9. \A u, v \in Writers : /\ u # v
                            /\ writer'[u].at = "send" /\ writer'[v].at = "send"
                            => writer'[u].frame # writer'[v].frame
  <2>1. \A v \in Writers : writer[v].at = "send" => writer[v].frame # Len(logs) + 1
    BY <1>1, <1>6
  <2>2. QED BY <1>4, <2>1 DEF LogInv
<1>10. ~done
  BY <1>2, WriterSets DEF LogInv
<1>11. CASE w = "main"
  <2>1. PumpsOff'
    BY <1>4, <1>11, WriterSets DEF PumpsOff
  <2>2. /\ writer'["main"].at = "send" /\ writer'["main"].frame = Len(logs')
        /\ \A v \in Pumps : writer'[v].at = "off"
    BY <1>1, <1>4, <1>11, <2>1 DEF PumpsOff
  <2>3. e = "log" => Len(logs') <= MaxLogs
    BY <1>1, Constants
  <2>4. LogInv'
    BY <1>5, <1>7, <1>8, <1>9, <1>10, <2>1, <2>2, <2>3 DEF LogInv, Append1
  <2>5. QED BY <1>1, <1>2, <1>3, <2>4
<1>12. CASE w \in Pumps
  <2>1. e = "log" /\ writer'["main"] = writer["main"] /\ writer["main"].at = "idle"
    BY <1>4, <1>12, WriterSets DEF LogInv
  <2>2. Len(logs') <= MaxLogs
    BY <1>1, <2>1, Constants
  <2>3. \A v \in Pumps : /\ writer'[v].at # "finish"
    BY <1>4, WriterSets DEF LogInv
  <2>4. LogInv'
    BY <1>5, <1>7, <1>8, <1>9, <1>10, <2>1, <2>2, <2>3 DEF LogInv, Append1
  <2>5. QED BY <1>1, <1>2, <1>3, <2>4
<1>13. QED BY <1>11, <1>12, WriterSets

LEMMA LogStep ==
  ASSUME TypeOK, LogInv, [Next]_vars
  PROVE  LogInv'
<1>1. CASE StreamCmd
  <2>1. /\ writer["main"].at = "idle" /\ writer'["main"] = writer["main"]
        /\ \A v \in Pumps : writer'[v].at = "idle"
        /\ logs' = logs /\ done' = done
    BY <1>1, WriterSets DEF StreamCmd
  <2>2. ~Ended /\ ~Ended' /\ ~done
    BY <2>1 DEF LogInv, Ended
  <2>3. QED BY <2>1, <2>2, WriterSets DEF LogInv
<1>2. CASE AppendEnd
  BY <1>2, LogGrows, WriterSets DEF AppendEnd
<1>3. CASE Finish
  <2>1. PumpsOff /\ Ended
    BY <1>3 DEF Finish, LogInv
  <2>2. QED BY <1>3, <2>1, LogMoves, WriterSets DEF Finish
<1>4. ASSUME NEW w \in Pumps, PumpEOF(w)
      PROVE  LogInv'
  <2>1. writer[w].at = "idle" /\ logs' = logs /\ done' = done
        /\ writer' = [writer EXCEPT ![w].at = "off"]
    BY <1>4 DEF PumpEOF
  <2>2. w \in Writers /\ w # "main" /\ ~done
    BY <2>1, WriterSets DEF LogInv
  <2>3. QED BY <2>1, <2>2, LogMoves
<1>5. ASSUME NEW w \in Writers, AppendLog(w)
      PROVE  LogInv'
  BY <1>5, LogGrows DEF AppendLog
<1>6. ASSUME NEW w \in Writers, Sent(w)
      PROVE  LogInv'
  <2> DEFINE a == IF logs[writer[w].frame] = "end" THEN "finish" ELSE "idle"
  <2>1. /\ writer[w].at = "send" /\ logs' = logs /\ done' = done
        /\ writer' = [writer EXCEPT ![w].at = a]
        /\ writer[w].frame \in 1..Len(logs) /\ Len(logs) \in Nat
    BY <1>6 DEF Sent, LogInv, TypeOK
  <2>2. a = "finish" => Ended
    BY <2>1 DEF LogInv, Ended, TypeOK
  <2>3. ~done
    BY <2>1, WriterSets DEF LogInv, PumpsOff
  <2>4. CASE w = "main"
    <3>1. a = "idle" => ~Ended
      BY <2>1, <2>4 DEF LogInv, Ended
    <3>2. PumpsOff
      BY <2>1, <2>4 DEF LogInv, PumpsOff
    <3>3. a \in {"idle", "finish"}
      OBVIOUS
    <3> HIDE DEF a
    <3>4. /\ a # "send" /\ w \notin Pumps /\ ~done'
          /\ a \in {"finish", "off"} => Ended
          /\ a \in {"idle", "finish", "off"}
      BY <2>1, <2>2, <2>3, <2>4, <3>3, WriterSets
    <3>5. QED BY <2>1, <3>1, <3>2, <3>4, LogMoves
  <2>5. CASE w \in Pumps
    <3>1. a = "idle"
      BY <2>1, <2>2, <2>5 DEF LogInv
    <3> HIDE DEF a
    <3>2. QED BY <2>1, <2>3, <2>5, <3>1, LogMoves, WriterSets
  <2>6. QED BY <2>4, <2>5, WriterSets
<1>7. ASSUME NEW w \in Writers, NEW c \in Conns, Send(w, c)
      PROVE  LogInv'
  <2>1. /\ logs' = logs /\ done' = done
        /\ \A v \in Writers : /\ writer'[v].at = writer[v].at
                               /\ writer'[v].frame = writer[v].frame
    BY <1>7 DEF Send, TypeOK
  <2>2. (Ended' <=> Ended) /\ (PumpsOff' <=> PumpsOff)
    BY <2>1, WriterSets DEF Ended, PumpsOff
  <2>3. QED BY <2>1, <2>2, WriterSets DEF LogInv
<1>8. CASE \/ Janitor \/ (\E c \in Conns : Consumer(c)) \/ UNCHANGED vars
           \/ \E t \in Tabs : NetworkDrop(t) \/ \E c \in Conns : Connect(t, c)
  <2>1. logs' = logs /\ done' = done /\ writer' = writer
    BY <1>8 DEF Janitor, Consumer, Snapshot, Replay, CheckDone, Tail1, Cancel,
       NetworkDrop, Connect, vars
  <2>2. QED BY <2>1 DEF LogInv, Ended, PumpsOff
<1>9. QED
  BY <1>1, <1>2, <1>3, <1>4, <1>5, <1>6, <1>7, <1>8 DEF Next, Producer

----------------------------------------------------------------------------
(* The connections *)

\* Connection d is left as it is; its browser may go away.
LEMMA Untouched ==
  ASSUME NEW d \in Conns, ConnInv(d), logs' = logs, conn'[d] = conn[d],
         got'[d] = got[d], chan'[d] = chan[d], dropped'[d] = dropped[d],
         d \in subs' <=> d \in subs, Due(d)' = Due(d), Attached(d)' => Attached(d)
  PROVE  ConnInv(d)'
<1>1. Fresh(d)' /\ Bounds(d)' /\ Separate(d)' /\ Prefix(d)'
  BY DEF ConnInv, Fresh, Bounds, Separate, Prefix
<1>2. Progress(d)' /\ Complete(d)' /\ Told(d)'
  BY DEF ConnInv, Progress, Complete, Told
<1>3. QED BY <1>1, <1>2 DEF ConnInv

\* What is due to d depends on the writers that send to it.
LEMMA SameDue ==
  ASSUME NEW d \in Conns,
         \A v \in Writers :
           /\ writer'[v].at = "send" /\ d \in writer'[v].to
                <=> writer[v].at = "send" /\ d \in writer[v].to
           /\ writer[v].at = "send" /\ d \in writer[v].to
                => writer'[v].frame = writer[v].frame
  PROVE  Due(d)' = Due(d)
BY DEF Due

\* Numbers of connection d.
LEMMA ConnNumbers ==
  ASSUME TypeOK, NEW d \in Conns
  PROVE  /\ conn[d].hist \in Nat /\ conn[d].sent \in Nat /\ Len(logs) \in Nat
         /\ got[d] \in Seq(Frames) /\ chan[d] \in Seq(Frames)
         /\ Len(got[d]) \in Nat /\ Len(chan[d]) \in Nat
         /\ Elems(got[d]) \subseteq Frames /\ Elems(chan[d]) \subseteq Frames
         /\ dropped[d] \subseteq Frames /\ Frames \subseteq Nat \ {0}
<1>1. Frames \subseteq Nat \ {0} /\ Frames \cup {0} \subseteq Nat
  BY Constants DEF Frames
<1>2. conn[d].hist \in Frames \cup {0} /\ conn[d].sent \in Frames \cup {0}
  BY DEF TypeOK
<1>3. /\ Len(logs) \in Nat /\ dropped[d] \subseteq Frames
      /\ got[d] \in Seq(Frames) /\ chan[d] \in Seq(Frames)
  BY DEF TypeOK
<1>4. Elems(got[d]) \subseteq Frames /\ Elems(chan[d]) \subseteq Frames
  BY <1>3 DEF Elems
<1>5. Len(got[d]) \in Nat /\ Len(chan[d]) \in Nat
  BY <1>3
<1>6. conn[d].hist \in Nat /\ conn[d].sent \in Nat
  BY <1>1, <1>2, Zenon
<1>7. QED BY <1>1, <1>3, <1>4, <1>5, <1>6

\* A frame joins the log and becomes due to the subscribers.
LEMMA AppendConn ==
  ASSUME TypeOK, LogInv, NEW d \in Conns, ConnInv(d), NEW w \in Writers,
         NEW e \in {"log", "end"}, Append1(w, e),
         writer[w].at = "idle", w = "main" => PumpsOff,
         e = "end" => w = "main",
         e = "log" => Len(logs) < MaxLogs
  PROVE  ConnInv(d)'
<1> DEFINE n == Len(logs)
<1>1. /\ n \in Nat /\ Len(logs') = n + 1
      /\ \A i \in 1..n : logs[i] = "log" /\ logs'[i] = "log"
  BY LogGrows
<1>2. /\ conn' = conn /\ got' = got /\ chan' = chan /\ dropped' = dropped
      /\ subs' = subs /\ tab' = tab
  BY DEF Append1
<1>3. Due(d)' = IF d \in subs THEN Due(d) \cup {n + 1} ELSE Due(d)
  <2>1. /\ writer'[w] = [at |-> "send", frame |-> n + 1, to |-> subs]
        /\ \A v \in Writers : v # w => writer'[v] = writer[v]
    BY DEF TypeOK, Append1
  <2>2. QED BY <2>1 DEF Due
<1>4. Attached(d)' <=> Attached(d)
  BY <1>2 DEF Attached
<1>5. \A f \in Elems(chan[d]) \cup dropped[d] \cup Due(d) \cup Elems(got[d]) :
        f \in Nat /\ f \in 1..n
  <2>1. Due(d) \subseteq 1..n
    BY DEF Due, LogInv
  <2>2. \A f \in Elems(chan[d]) \cup dropped[d] \cup Elems(got[d]) :
          f \in Nat /\ f > 0 /\ f <= n
    BY ConnNumbers DEF ConnInv, Bounds
  <2>3. QED BY <1>1, <2>1, <2>2
<1> HIDE DEF n
<1>6. Fresh(d)'
  BY <1>2, <1>3 DEF ConnInv, Fresh
<1>7. Bounds(d)'
  BY <1>1, <1>2, <1>3, <1>5, ConnNumbers DEF ConnInv, Bounds, n
<1>8. Separate(d)'
  <2>1. n + 1 \notin Elems(chan[d]) \cup Elems(got[d])
    BY <1>1, <1>5
  <2>2. QED BY <1>2, <1>3, <2>1 DEF ConnInv, Separate
<1>9. Prefix(d)' /\ Progress(d)'
  BY <1>2, <1>4 DEF ConnInv, Prefix, Progress
<1>10. Complete(d)'
  <2> SUFFICES ASSUME conn[d].at \in {"replay", "tail"}, Attached(d),
                      NEW f \in (conn[d].hist + 1)..(n + 1)
               PROVE  f \in Elems(got[d]) \cup Elems(chan[d]) \cup dropped[d] \cup Due(d)'
    BY <1>1, <1>2, <1>4 DEF Complete
  <2>1. d \in subs
    BY DEF ConnInv, Fresh
  <2>2. f = n + 1 \/ f \in (conn[d].hist + 1)..n
    BY <1>1, ConnNumbers
  <2>3. QED BY <1>3, <2>1, <2>2 DEF ConnInv, Complete, n
<1>11. Told(d)'
  <2>1. \A i \in 1..(Len(chan[d]) - 1) : logs'[chan[d][i]] = "log"
    <3>1. \A i \in 1..(Len(chan[d]) - 1) : chan[d][i] \in Elems(chan[d])
      BY ConnNumbers DEF Elems
    <3>2. QED BY <1>1, <1>5, <3>1
  <2>2. \A f \in Elems(got[d]) : logs'[f] = "log"
    BY <1>1, <1>5
  <2>3. QED BY <1>2, <2>1, <2>2 DEF Told
<1>12. QED
  BY <1>6, <1>7, <1>8, <1>9, <1>10, <1>11 DEF ConnInv

\* One non-blocking send to c.
LEMMA SendConn ==
  ASSUME TypeOK, LogInv, NEW c \in Conns, ConnInv(c), NEW w \in Writers, Send(w, c)
  PROVE  ConnInv(c)'
<1> DEFINE f == writer[w].frame
<1>1. /\ logs' = logs /\ subs' = subs /\ conn' = conn /\ got' = got /\ tab' = tab
      /\ writer[w].at = "send" /\ c \in writer[w].to
  BY DEF Send
<1>2. f \in Due(c) /\ f \in 1..Len(logs)
  BY <1>1 DEF Due, LogInv
<1>3. Due(c)' = Due(c) \ {f}
  <2>1. /\ writer'[w] = [writer[w] EXCEPT !.to = @ \ {c}]
        /\ \A v \in Writers : v # w => writer'[v] = writer[v]
        /\ writer[w] \in WriterType
    BY DEF TypeOK, Send, WriterType
  <2>2. writer'[w].to = writer[w].to \ {c}
    BY <2>1 DEF WriterType
  <2>3. \A v \in Writers : v # w /\ writer[v].at = "send" => writer[v].frame # f
    BY <1>1 DEF LogInv
  <2>4. \A v \in Writers :
          /\ writer'[v].at = writer[v].at /\ writer'[v].frame = writer[v].frame
          /\ c \in writer'[v].to <=> v # w /\ c \in writer[v].to
    BY <2>1, <2>2 DEF WriterType
  <2>5. QED BY <1>1, <2>3, <2>4 DEF Due
<1>4. Attached(c)' <=> Attached(c)
  BY <1>1 DEF Attached
<1>5. f \notin Elems(chan[c]) /\ f \notin Elems(got[c]) /\ conn[c].hist < f
  BY <1>2 DEF ConnInv, Separate, Bounds
<1>6. conn[c].at \notin {"none", "start"}
  BY <1>2 DEF ConnInv, Fresh
<1>7. Fresh(c)' /\ Prefix(c)' /\ Progress(c)'
  BY <1>1, <1>4, <1>6 DEF ConnInv, Fresh, Prefix, Progress
<1>8. CASE chan'[c] = Append(chan[c], f) /\ dropped'[c] = dropped[c]
  <2>1. /\ Len(chan'[c]) = Len(chan[c]) + 1
        /\ \A i \in 1..Len(chan[c]) : chan'[c][i] = chan[c][i]
        /\ chan'[c][Len(chan[c]) + 1] = f
        /\ Elems(chan'[c]) = Elems(chan[c]) \cup {f}
    BY <1>8, AppendFacts, ConnNumbers
  <2>2. Bounds(c)'
    BY <1>1, <1>2, <1>3, <1>5, <1>8, <2>1, ConnNumbers DEF ConnInv, Bounds
  <2>3. Separate(c)'
    <3>1. \A i \in 1..Len(chan[c]) : chan[c][i] # f
      BY <1>5 DEF Elems
    <3>2. \A i, j \in 1..Len(chan'[c]) : i # j => chan'[c][i] # chan'[c][j]
      <4>1. 1..Len(chan'[c]) = 1..Len(chan[c]) \cup {Len(chan[c]) + 1}
        BY <2>1, ConnNumbers
      <4>2. QED BY <2>1, <3>1, <4>1 DEF ConnInv, Separate
    <3>3. QED BY <1>1, <1>3, <1>5, <2>1, <3>2 DEF ConnInv, Separate
  <2>4. Complete(c)'
    BY <1>1, <1>3, <1>4, <1>8, <2>1 DEF ConnInv, Complete
  <2>5. Told(c)'
    <3>1. ASSUME NEW i \in 1..Len(chan[c])
          PROVE  logs[chan[c][i]] = "log"
      <4>1. chan[c][i] \in Elems(chan[c]) /\ chan[c][i] \in 1..Len(logs)
        BY ConnNumbers DEF Elems, ConnInv, Bounds
      <4>2. CASE ~Ended
        <5>1. logs \in Seq({"log", "end"}) /\ Len(logs) \in Nat /\ logs # << >>
          BY <4>1, ConnNumbers DEF TypeOK
        <5>2. logs[Len(logs)] # "end" /\ Len(logs) \in 1..Len(logs)
          BY <4>1, <4>2, <5>1 DEF Ended
        <5>3. logs[Len(logs)] = "log"
          BY <5>1, <5>2
        <5>4. CASE chan[c][i] = Len(logs)
          BY <5>3, <5>4
        <5>5. CASE chan[c][i] # Len(logs)
          <6>1. chan[c][i] \in 1..(Len(logs) - 1)
            BY <4>1, <5>1, <5>5
          <6>2. QED BY <6>1 DEF LogInv
        <5>6. QED BY <5>4, <5>5
      <4>3. CASE Ended
        <5>1. w = "main" /\ f = Len(logs)
          BY <1>1, <4>3, WriterSets DEF LogInv, PumpsOff
        <5>2. chan[c][i] # Len(logs)
          BY <1>5, <4>1, <5>1
        <5>3. QED BY <4>1, <5>2, ConnNumbers DEF LogInv
      <4>4. QED BY <4>2, <4>3
    <3>2. \A i \in 1..(Len(chan'[c]) - 1) : logs'[chan'[c][i]] = "log"
      <4>1. Len(chan'[c]) - 1 = Len(chan[c])
        BY <2>1, ConnNumbers
      <4>2. QED BY <1>1, <2>1, <3>1, <4>1
    <3>3. QED BY <1>1, <1>4, <1>8, <3>2 DEF ConnInv, Told
  <2>6. QED BY <1>7, <2>2, <2>3, <2>4, <2>5 DEF ConnInv
<1>9. CASE chan'[c] = chan[c] /\ dropped'[c] = dropped[c] \cup {f}
  <2>1. Bounds(c)' /\ Separate(c)' /\ Complete(c)'
    BY <1>1, <1>2, <1>3, <1>4, <1>5, <1>9, ConnNumbers
       DEF ConnInv, Bounds, Separate, Complete
  <2>2. Told(c)'
    BY <1>1, <1>2, <1>4, <1>9 DEF ConnInv, Told
  <2>3. QED BY <1>7, <2>1, <2>2 DEF ConnInv
<1>10. QED
  BY <1>8, <1>9 DEF Send, TypeOK

----------------------------------------------------------------------------
\* snapshot: the history is the log, and what comes later is sent.
LEMMA SnapshotConn ==
  ASSUME TypeOK, NEW c \in Conns, ConnInv(c), Snapshot(c)
  PROVE  ConnInv(c)'
<1>1. /\ conn[c].at = "start" /\ subs' = subs \cup {c}
      /\ conn' = [conn EXCEPT ![c].at = "replay", ![c].hist = Len(logs),
                              ![c].done = done]
      /\ logs' = logs /\ writer' = writer /\ chan' = chan /\ got' = got
      /\ dropped' = dropped /\ tab' = tab
  BY DEF Snapshot
<1>2. conn'[c].at = "replay" /\ conn'[c].hist = Len(logs)
      /\ conn'[c].sent = conn[c].sent
  BY <1>1 DEF TypeOK
<1>3. /\ got[c] = << >> /\ chan[c] = << >> /\ dropped[c] = {} /\ Due(c) = {}
      /\ conn[c].sent = 0
  BY <1>1 DEF ConnInv, Fresh
<1>4. Due(c)' = {} /\ Elems(got'[c]) = {} /\ Elems(chan'[c]) = {} /\ dropped'[c] = {}
      /\ Len(got'[c]) = 0 /\ Len(chan'[c]) = 0
  <2>1. Len(<< >>) = 0 /\ Elems(<< >>) = {}
    BY DEF Elems
  <2>2. Due(c)' = Due(c)
    BY <1>1 DEF Due
  <2>3. QED BY <1>1, <1>3, <2>1, <2>2
<1>5. Len(logs') \in Nat /\ Len(logs') = Len(logs) /\ conn'[c].sent = 0
  BY <1>1, <1>2, <1>3, ConnNumbers
<1>6. Fresh(c)' /\ Bounds(c)' /\ Separate(c)'
  BY <1>1, <1>2, <1>4, <1>5 DEF Fresh, Bounds, Separate
<1>7. Prefix(c)' /\ Progress(c)'
  BY <1>2, <1>4, <1>5 DEF Prefix, Progress
<1>8. Complete(c)' /\ Told(c)'
  BY <1>2, <1>4, <1>5 DEF Complete, Told
<1>9. QED BY <1>6, <1>7, <1>8 DEF ConnInv

\* The browser of c reads a frame; another browser's EventSource does not open.
LEMMA WriteAttached ==
  ASSUME TypeOK, NEW c \in Conns, NEW f, WriteFrame(c, f), NEW d \in Conns,
         conn'[d].tab = conn[d].tab
  PROVE  /\ Attached(d)' => Attached(d)
         /\ d # c => got'[d] = got[d]
         /\ Attached(c) => /\ got'[c] = Append(got[c], f)
                           /\ d = c /\ logs[f] = "end" => ~Attached(d)'
         /\ ~Attached(c) => got'[c] = got[c]
<1>1. CASE ~Attached(c)
  BY <1>1 DEF WriteFrame, Attached
<1>2. CASE Attached(c)
  <2>1. conn[c].tab \in Tabs /\ tab[conn[c].tab].conn = c /\ tab[conn[c].tab] \in TabType
    BY <1>2 DEF Attached, TypeOK, TabType
  <2>2. got'[c] = Append(got[c], f) /\ (d # c => got'[d] = got[d])
    BY <1>2 DEF WriteFrame, TypeOK
  <2>3. tab' = IF logs[f] = "end" THEN [tab EXCEPT ![conn[c].tab].at = "told"] ELSE tab
    BY <1>2 DEF WriteFrame
  <2>4. CASE logs[f] # "end"
    BY <1>2, <2>2, <2>3, <2>4 DEF Attached
  <2>5. CASE logs[f] = "end"
    <3>1. tab'[conn[c].tab].at = "told"
          /\ \A t \in Tabs : t # conn[c].tab => tab'[t] = tab[t]
      BY <2>1, <2>3, <2>5 DEF TypeOK, TabType
    <3>2. conn[d].tab \in Tabs \cup {"none"}
      BY DEF TypeOK
    <3>3. Attached(d)' => Attached(d) /\ conn[d].tab # conn[c].tab
      BY <3>1, <3>2 DEF Attached
    <3>4. QED BY <1>2, <2>2, <3>3
  <2>6. QED BY <2>4, <2>5
<1>3. QED BY <1>1, <1>2

\* One frame of the history.
LEMMA ReplayConn ==
  ASSUME TypeOK, LogInv, NEW c \in Conns, ConnInv(c), Replay(c)
  PROVE  ConnInv(c)'
<1> DEFINE n == conn[c].sent
<1>1. /\ conn[c].at = "replay" /\ n < conn[c].hist /\ WriteFrame(c, n + 1)
      /\ logs' = logs /\ subs' = subs /\ writer' = writer /\ chan' = chan
      /\ dropped' = dropped
  BY DEF Replay
<1>2. /\ conn'[c].at = "replay" /\ conn'[c].hist = conn[c].hist
      /\ conn'[c].sent = n + 1 /\ conn'[c].tab = conn[c].tab
  BY DEF Replay, TypeOK
<1>3. Due(c)' = Due(c)
  BY <1>1 DEF Due
<1>4. Attached(c)' => Attached(c)
  BY <1>1, <1>2, WriteAttached
<1>5. /\ n \in Nat /\ conn[c].hist \in Nat /\ Len(logs) \in Nat
      /\ conn[c].hist <= Len(logs) /\ Len(got[c]) \in Nat /\ Len(got[c]) <= n
  BY <1>1, ConnNumbers DEF ConnInv, Bounds, Progress
<1>6. Fresh(c)'
  BY <1>1, <1>2 DEF ConnInv, Fresh
<1>7. CASE ~Attached(c)
  <2>1. got'[c] = got[c]
    BY <1>1, <1>2, <1>7, WriteAttached
  <2>2. Bounds(c)' /\ Separate(c)' /\ Prefix(c)'
    <3>1. Bounds(c)'
      BY <1>1, <1>2, <1>3, <1>5, <2>1 DEF ConnInv, Bounds
    <3>2. Separate(c)' /\ Prefix(c)'
      BY <1>1, <1>2, <1>3, <2>1 DEF ConnInv, Separate, Prefix
    <3>3. QED BY <3>1, <3>2
  <2>3. Progress(c)' /\ Complete(c)' /\ Told(c)'
    BY <1>1, <1>2, <1>4, <1>5, <1>7, <2>1 DEF ConnInv, Progress, Complete, Told
  <2>4. QED BY <1>6, <2>2, <2>3 DEF ConnInv
<1>8. CASE Attached(c)
  <2>1. Len(got[c]) = n
    BY <1>1, <1>8 DEF ConnInv, Progress
  <2>2. got'[c] = Append(got[c], n + 1) /\ (logs[n + 1] = "end" => ~Attached(c)')
    BY <1>1, <1>2, <1>8, WriteAttached
  <2>3. /\ Len(got'[c]) = n + 1 /\ got'[c][n + 1] = n + 1
        /\ \A i \in 1..n : got'[c][i] = got[c][i]
        /\ Elems(got'[c]) = Elems(got[c]) \cup {n + 1}
    BY <2>1, <2>2, AppendFacts, ConnNumbers
  <2>4. \A i \in 1..(n + 1) : got'[c][i] = i
    <3>1. \A i \in 1..n : got[c][i] = i
      BY <1>1, <1>5, <2>1 DEF ConnInv, Prefix
    <3>2. 1..(n + 1) = 1..n \cup {n + 1}
      BY <1>5
    <3>3. QED BY <2>3, <3>1, <3>2
  <2>5. Elems(got'[c]) = 1..(n + 1)
    BY <2>3, <2>4 DEF Elems
  <2>6. \A f \in Elems(chan[c]) \cup dropped[c] \cup Due(c) :
          conn[c].hist < f /\ f <= Len(logs) /\ f \notin 1..(n + 1)
    BY <1>1, <1>5 DEF ConnInv, Bounds
  <2>7. Bounds(c)'
    BY <1>1, <1>2, <1>3, <1>5, <2>5, <2>6 DEF ConnInv, Bounds
  <2>8. Separate(c)'
    BY <1>1, <1>3, <2>5, <2>6 DEF ConnInv, Separate
  <2>9. Prefix(c)'
    <3>1. \A i \in 1..(n + 1) : i <= conn[c].hist
      BY <1>1, <1>5
    <3>2. QED BY <1>2, <2>3, <2>4, <3>1 DEF Prefix
  <2>10. Progress(c)'
    BY <1>2, <1>5, <2>3 DEF Progress
  <2>11. Complete(c)'
    BY <1>1, <1>2, <1>3, <1>8, <2>3 DEF ConnInv, Complete
  <2>12. Told(c)'
    <3>1. \A f \in Elems(got[c]) : logs[f] # "end"
      BY <1>8 DEF ConnInv, Told
    <3>2. ASSUME logs[n + 1] = "end"
          PROVE  Elems(got'[c]) \cup dropped[c] = 1..Len(logs)
      <4>1. n + 1 = Len(logs)
        BY <1>1, <1>5, <3>2 DEF LogInv
      <4>2. dropped[c] \subseteq 1..Len(logs)
        BY <1>5, <2>6, ConnNumbers
      <4>3. QED BY <2>5, <4>1, <4>2
    <3>3. QED BY <1>1, <2>2, <2>3, <3>1, <3>2 DEF ConnInv, Told
  <2>13. QED
    BY <1>6, <2>7, <2>8, <2>9, <2>10, <2>11, <2>12 DEF ConnInv
<1>9. QED BY <1>7, <1>8

\* The handler of c goes on to its channel, or returns: nothing else changes,
\* and a browser does not come back to it.
LEMMA TurnConn ==
  ASSUME TypeOK, NEW c \in Conns, ConnInv(c),
         NEW a, conn' = [conn EXCEPT ![c].at = a],
         \/ a = "closed" /\ c \notin subs' /\ conn[c].at \in {"replay", "tail"}
         \/ /\ a = "tail" /\ subs' = subs /\ conn[c].at = "replay"
            /\ conn[c].sent = conn[c].hist,
         logs' = logs, writer' = writer, chan' = chan, got' = got,
         dropped' = dropped, Attached(c)' => Attached(c)
  PROVE  ConnInv(c)'
<1>1. /\ conn'[c].at = a /\ conn'[c].hist = conn[c].hist
      /\ conn'[c].sent = conn[c].sent
  BY DEF TypeOK
<1>2. Due(c)' = Due(c)
  BY DEF Due
<1>3. Fresh(c)' /\ Bounds(c)' /\ Separate(c)' /\ Prefix(c)'
  BY <1>1, <1>2 DEF ConnInv, Fresh, Bounds, Separate, Prefix
<1>4. Progress(c)' /\ Complete(c)' /\ Told(c)'
  BY <1>1, <1>2, ConnNumbers DEF ConnInv, Progress, Complete, Told
<1>5. QED BY <1>3, <1>4 DEF ConnInv

\* One frame of the channel.
LEMMA TailConn ==
  ASSUME TypeOK, LogInv, NEW c \in Conns, ConnInv(c), Tail1(c)
  PROVE  ConnInv(c)'
<1> DEFINE f == Head(chan[c])
           n == Len(got[c])
<1>1. /\ conn[c].at = "tail" /\ chan[c] # << >> /\ WriteFrame(c, f)
      /\ logs' = logs /\ writer' = writer /\ dropped' = dropped
      /\ chan'[c] = Tail(chan[c])
  BY DEF Tail1, TypeOK
<1>2. /\ conn'[c].hist = conn[c].hist /\ conn'[c].sent = conn[c].sent
      /\ conn'[c].tab = conn[c].tab
      /\ \/ conn'[c].at = "tail" /\ subs' = subs /\ logs[f] # "end"
         \/ conn'[c].at = "closed" /\ c \notin subs' /\ logs[f] = "end"
  BY DEF Tail1, Close, TypeOK
<1>3. Due(c)' = Due(c)
  BY <1>1 DEF Due
<1>4. Attached(c)' => Attached(c)
  BY <1>1, <1>2, WriteAttached
<1>5. /\ Len(chan[c]) \in Nat /\ Len(chan[c]) > 0
      /\ Len(chan'[c]) = Len(chan[c]) - 1
      /\ \A i \in 1..(Len(chan[c]) - 1) : chan'[c][i] = chan[c][i + 1]
      /\ f = chan[c][1] /\ f \in Elems(chan[c])
      /\ Elems(chan[c]) = {f} \cup Elems(chan'[c])
  BY <1>1, TailFacts, ConnNumbers
<1>6. /\ \A i, j \in 1..Len(chan'[c]) : i # j => chan'[c][i] # chan'[c][j]
      /\ f \notin Elems(chan'[c])
  <2>1. \A i \in 1..(Len(chan[c]) - 1) : i + 1 \in 1..Len(chan[c]) /\ i + 1 # 1
    BY <1>5
  <2>2. \A i \in 1..(Len(chan[c]) - 1) : chan[c][i + 1] # f
    BY <1>5, <2>1 DEF ConnInv, Separate
  <2>3. f \notin Elems(chan'[c])
    BY <1>5, <2>2 DEF Elems
  <2>4. \A i, j \in 1..(Len(chan[c]) - 1) : i # j => chan[c][i + 1] # chan[c][j + 1]
    <3>1. \A i, j \in 1..(Len(chan[c]) - 1) : i # j => i + 1 # j + 1
      BY <1>5
    <3>2. QED BY <2>1, <3>1 DEF ConnInv, Separate
  <2>5. QED BY <1>5, <2>3, <2>4
<1>7. \A i \in 1..(Len(chan'[c]) - 1) : logs[chan'[c][i]] = "log"
  <2>1. \A i \in 1..(Len(chan'[c]) - 1) : /\ i + 1 \in 1..(Len(chan[c]) - 1)
                                         /\ i \in 1..(Len(chan[c]) - 1)
    BY <1>5
  <2>2. QED BY <1>5, <2>1 DEF ConnInv, Told
<1>8. /\ f \in Nat /\ conn[c].hist < f /\ f <= Len(logs) /\ f \notin Elems(got[c])
      /\ f \notin Due(c) /\ conn[c].hist \in Nat /\ Len(logs) \in Nat
  BY <1>5, ConnNumbers DEF ConnInv, Bounds, Separate
<1> HIDE DEF f
<1>9. Fresh(c)'
  BY <1>1, <1>2 DEF ConnInv, Fresh
<1>10. CASE ~Attached(c)
  <2>1. got'[c] = got[c]
    BY <1>1, <1>2, <1>10, WriteAttached
  <2>2. Bounds(c)' /\ Separate(c)' /\ Prefix(c)'
    BY <1>1, <1>2, <1>3, <1>5, <1>6, <2>1 DEF ConnInv, Bounds, Separate, Prefix
  <2>3. Progress(c)' /\ Complete(c)'
    BY <1>2, <1>4, <1>10 DEF Progress, Complete
  <2>4. Told(c)'
    BY <1>1, <1>4, <1>7, <1>10, <2>1 DEF ConnInv, Told
  <2>5. QED BY <1>9, <2>2, <2>3, <2>4 DEF ConnInv
<1>11. CASE Attached(c)
  <2>1. n \in Nat /\ n >= conn[c].hist
    BY <1>1, <1>11, ConnNumbers DEF ConnInv, Progress
  <2>2. got'[c] = Append(got[c], f) /\ (logs[f] = "end" => ~Attached(c)')
    BY <1>1, <1>2, <1>11, WriteAttached
  <2>3. /\ Len(got'[c]) = n + 1 /\ got'[c][n + 1] = f
        /\ \A i \in 1..n : got'[c][i] = got[c][i]
        /\ Elems(got'[c]) = Elems(got[c]) \cup {f}
    BY <2>2, AppendFacts, ConnNumbers
  <2>4. 1..(n + 1) = 1..n \cup {n + 1} /\ ~(n + 1 <= conn[c].hist)
    BY <1>8, <2>1
  <2>5. \A i \in 1..n : got[c][i] # f
    BY <1>8 DEF Elems
  <2>6. Prefix(c)'
    <3>1. \A i \in 1..n : IF i <= conn[c].hist THEN got[c][i] = i
                          ELSE got[c][i] > conn[c].hist
      BY DEF ConnInv, Prefix
    <3>2. \A i, j \in 1..n : i # j => got[c][i] # got[c][j]
      BY DEF ConnInv, Prefix
    <3>3. 1..Len(got'[c]) = 1..n \cup {n + 1} /\ f > conn[c].hist
      BY <1>8, <2>3, <2>4
    <3> HIDE DEF n
    <3>4. \A i \in 1..Len(got'[c]) : IF i <= conn[c].hist THEN got'[c][i] = i
                                     ELSE got'[c][i] > conn[c].hist
      BY <2>3, <2>4, <3>1, <3>3
    <3>5. \A i, j \in 1..Len(got'[c]) : i # j => got'[c][i] # got'[c][j]
      BY <2>3, <2>5, <3>2, <3>3
    <3>6. QED BY <1>2, <3>4, <3>5 DEF Prefix
  <2>7. Bounds(c)'
    BY <1>1, <1>2, <1>3, <1>5, <1>8, <2>3 DEF ConnInv, Bounds
  <2>8. Separate(c)'
    BY <1>3, <1>5, <1>6, <1>8, <2>3 DEF ConnInv, Separate
  <2>9. Progress(c)'
    BY <1>2, <1>8, <2>1, <2>3 DEF Progress
  <2>10. Complete(c)'
    BY <1>1, <1>2, <1>3, <1>5, <1>11, <2>3 DEF ConnInv, Complete
  <2>11. ASSUME logs[f] = "end"
         PROVE  Elems(got'[c]) \cup dropped[c] = 1..Len(logs)
    <3>1. f = Len(logs) /\ Ended
      <4>1. f \notin 1..(Len(logs) - 1)
        BY <2>11 DEF LogInv
      <4>2. f = Len(logs) /\ Len(logs) > 0
        BY <1>8, <4>1
      <4>3. QED BY <2>11, <4>2 DEF Ended
    <3>2. Elems(chan[c]) = {f}
      <4>0. Len(chan[c]) \in Nat /\ Len(chan[c]) > 0
        BY <1>5
      <4>1. Len(chan[c]) = 1
        <5> DEFINE k == Len(chan[c])
        <5>1. \A i \in 1..(k - 1) : logs[chan[c][i]] = "log"
          BY DEF ConnInv, Told
        <5>2. logs[chan[c][1]] # "log"
          BY <1>5, <2>11
        <5>3. k \in Nat /\ k > 0
          BY <4>0
        <5> HIDE DEF k
        <5>4. 1 \notin 1..(k - 1)
          BY <5>1, <5>2
        <5>5. k = 1
          BY <5>3, <5>4
        <5>6. QED BY <5>5 DEF k
      <4>2. QED BY <1>5, <4>1 DEF Elems
    <3>3. Due(c) = {}
      <4>1. \A g \in Due(c) : g = Len(logs)
        BY <3>1, WriterSets DEF Due, LogInv, PumpsOff
      <4>2. QED BY <1>8, <3>1, <4>1
    <3>4. \A g \in (conn[c].hist + 1)..Len(logs) : g \in Elems(got'[c]) \cup dropped[c]
      BY <1>1, <1>11, <2>3, <3>2, <3>3 DEF ConnInv, Complete
    <3>5. \A g \in 1..conn[c].hist : g \in Elems(got[c])
      <4>1. \A g \in 1..conn[c].hist : g \in 1..n /\ got[c][g] = g
        BY <1>8, <2>1 DEF ConnInv, Prefix
      <4>2. QED BY <4>1 DEF Elems
    <3>6. 1..Len(logs) \subseteq Elems(got'[c]) \cup dropped[c]
      <4>1. \A g \in 1..Len(logs) : g \in 1..conn[c].hist \/ g \in (conn[c].hist + 1)..Len(logs)
        BY <1>8
      <4>2. QED BY <2>3, <3>4, <3>5, <4>1
    <3>7. Elems(got'[c]) \cup dropped[c] \subseteq 1..Len(logs)
      <4>1. \A g \in Elems(got[c]) \cup dropped[c] : g \in Nat \ {0} /\ g <= Len(logs)
        BY ConnNumbers DEF ConnInv, Bounds
      <4>2. f \in 1..Len(logs)
        BY <1>8
      <4>3. QED BY <1>8, <2>3, <4>1, <4>2
    <3>8. QED BY <3>6, <3>7
  <2>12. Told(c)'
    <3>1. \A g \in Elems(got[c]) : logs[g] # "end"
      BY <1>11 DEF ConnInv, Told
    <3>2. QED BY <1>1, <1>7, <2>2, <2>3, <2>11, <3>1 DEF Told
  <2>13. QED
    BY <1>9, <2>6, <2>7, <2>8, <2>9, <2>10, <2>12 DEF ConnInv
<1>12. QED BY <1>10, <1>11

----------------------------------------------------------------------------
(* The steps *)

\* A browser opens an EventSource on a connection nobody has used, or finds no
\* operation.
LEMMA ConnectConn ==
  ASSUME TypeOK, NEW t \in Tabs, NEW c \in Conns, Connect(t, c),
         NEW d \in Conns, ConnInv(d)
  PROVE  ConnInv(d)'
<1>1. /\ logs' = logs /\ subs' = subs /\ writer' = writer /\ chan' = chan
      /\ got' = got /\ dropped' = dropped /\ Due(d)' = Due(d)
  BY DEF Connect, Due
<1>2. conn[c].at = "none" /\ conn[d].tab \in Tabs \cup {"none"} /\ c # 0
  BY DEF Connect, TypeOK, Conns
<1>3. /\ \A u \in Tabs : u # t => tab'[u] = tab[u]
      /\ tab'[t] \in {[at |-> "open", conn |-> c], [at |-> "lost", conn |-> 0]}
  BY DEF Connect, TypeOK
<1>4. CASE d # c
  <2>1. conn'[d] = conn[d]
    BY <1>4 DEF Connect, TypeOK
  <2>2. Attached(d)' => Attached(d)
    BY <1>2, <1>3, <1>4, <2>1 DEF Attached
  <2>3. QED BY <1>1, <2>1, <2>2, Untouched
<1>5. CASE d = c /\ ~registered
  <2>1. conn' = conn /\ tab'[t].at = "lost"
    BY <1>5 DEF Connect, TypeOK
  <2>2. Attached(d)' => Attached(d)
    BY <1>2, <1>3, <2>1 DEF Attached
  <2>3. QED BY <1>1, <2>1, <2>2, Untouched
<1>6. CASE d = c /\ registered
  <2>0. conn'[d] = [NoConn EXCEPT !.at = "start", !.tab = t]
    BY <1>6 DEF Connect, TypeOK
  <2>1. conn'[d].at = "start" /\ conn'[d].hist = 0 /\ conn'[d].sent = 0
    BY <2>0 DEF NoConn
  <2>2. /\ got[d] = << >> /\ chan[d] = << >> /\ dropped[d] = {} /\ Due(d) = {}
        /\ d \notin subs
    BY <1>2, <1>6 DEF ConnInv, Fresh
  <2>3. Len(<< >>) = 0 /\ Elems(<< >>) = {} /\ Len(logs) \in Nat
    BY DEF Elems, TypeOK
  <2>4. Fresh(d)' /\ Bounds(d)' /\ Separate(d)'
    BY <1>1, <2>1, <2>2, <2>3 DEF Fresh, Bounds, Separate
  <2>5. Prefix(d)' /\ Progress(d)' /\ Complete(d)' /\ Told(d)'
    BY <1>1, <2>1, <2>2, <2>3 DEF Prefix, Progress, Complete, Told
  <2>6. QED BY <2>4, <2>5 DEF ConnInv
<1>7. QED
  BY <1>4, <1>5, <1>6

LEMMA ConsumerConn ==
  ASSUME TypeOK, LogInv, NEW c \in Conns, Consumer(c), NEW d \in Conns,
         ConnInv(c), ConnInv(d)
  PROVE  ConnInv(d)'
<1>1. logs' = logs /\ writer' = writer /\ dropped' = dropped /\ Due(d)' = Due(d)
  BY DEF Consumer, Snapshot, Replay, CheckDone, Tail1, Cancel, Due
<1>2. CASE CheckDone(c) \/ Cancel(c)
  <2>1. /\ chan' = chan /\ got' = got /\ conn[c].at \in {"replay", "tail"}
        /\ conn'[d].tab = conn[d].tab
    <3>1. /\ chan' = chan /\ got' = got /\ conn[c].at \in {"replay", "tail"}
          /\ \E a : conn' = [conn EXCEPT ![c].at = a]
      BY <1>2 DEF CheckDone, Cancel, Close
    <3>2. PICK a : conn' = [conn EXCEPT ![c].at = a]
      BY <3>1
    <3>3. conn'[d].tab = conn[d].tab
      BY <3>2 DEF TypeOK
    <3>4. QED BY <3>1, <3>3
  <2>2. /\ conn[d].tab \in Tabs \cup {"none"}
        /\ \A t \in Tabs : tab'[t] = tab[t] \/ tab'[t].at = "retry"
    <3>1. conn[d].tab \in Tabs \cup {"none"} /\ conn[c].tab \in Tabs \cup {"none"}
      BY DEF TypeOK
    <3>2. tab \in [Tabs -> TabType]
      BY DEF TypeOK, TabType
    <3>3. tab' \in {tab, [tab EXCEPT ![conn[c].tab].at = "retry"]}
      BY <1>2 DEF CheckDone, Cancel
    <3>4. \A t \in Tabs : tab'[t] = tab[t] \/ tab'[t].at = "retry"
      BY <3>2, <3>3 DEF TabType
    <3>5. QED BY <3>1, <3>4
  <2>3. Attached(d)' => Attached(d)
    BY <2>1, <2>2 DEF Attached
  <2>4. CASE d = c
    <3>1. \/ /\ conn' = [conn EXCEPT ![c].at = "closed"]
             /\ c \notin subs'
          \/ /\ conn' = [conn EXCEPT ![c].at = "tail"] /\ subs' = subs
             /\ conn[c].at = "replay" /\ conn[c].sent = conn[c].hist
      BY <1>2 DEF CheckDone, Cancel, Close
    <3>2. QED BY <1>1, <2>1, <2>3, <2>4, <3>1, TurnConn
  <2>5. CASE d # c
    <3>1. conn'[d] = conn[d] /\ (d \in subs' <=> d \in subs)
      BY <1>2, <2>5 DEF CheckDone, Cancel, Close, TypeOK
    <3>2. QED BY <1>1, <2>1, <2>3, <3>1, Untouched
  <2>6. QED BY <2>4, <2>5
<1>3. CASE Snapshot(c)
  <2>1. CASE d # c
    <3>1. /\ conn'[d] = conn[d] /\ (d \in subs' <=> d \in subs)
          /\ chan' = chan /\ got' = got /\ tab' = tab
      BY <1>3, <2>1 DEF Snapshot, TypeOK
    <3>2. Attached(d)' => Attached(d)
      BY <3>1 DEF Attached
    <3>3. QED BY <1>1, <3>1, <3>2, Untouched
  <2>2. QED BY <1>3, <2>1, SnapshotConn
<1>4. CASE Replay(c) \/ Tail1(c)
  <2>1. CASE d = c
    BY <1>4, <2>1, ReplayConn, TailConn
  <2>2. CASE d # c
    <3>1. /\ conn'[d] = conn[d] /\ (d \in subs' <=> d \in subs)
          /\ chan'[d] = chan[d]
      BY <1>4, <2>2 DEF Replay, Tail1, Close, TypeOK
    <3>2. PICK f : WriteFrame(c, f)
      BY <1>4 DEF Replay, Tail1
    <3>3. (Attached(d)' => Attached(d)) /\ got'[d] = got[d]
      BY <2>2, <3>1, <3>2, WriteAttached
    <3>4. QED BY <1>1, <3>1, <3>3, Untouched
  <2>3. QED BY <2>1, <2>2
<1>5. QED BY <1>2, <1>3, <1>4 DEF Consumer

LEMMA WriterSteps ==
  ASSUME TypeOK, NEW w \in Writers, NEW a, writer' = [writer EXCEPT ![w].at = a]
  PROVE  /\ writer'[w].at = a
         /\ \A v \in Writers : v # w => writer'[v] = writer[v]
BY DEF TypeOK

LEMMA ProducerConn ==
  ASSUME TypeOK, LogInv, Producer, NEW d \in Conns, ConnInv(d)
  PROVE  ConnInv(d)'
<1>0. ASSUME logs' = logs, conn' = conn, got' = got, chan'[d] = chan[d], tab' = tab,
             dropped'[d] = dropped[d], subs' = subs,
             \A v \in Writers :
               /\ writer'[v].at = "send" /\ d \in writer'[v].to
                    <=> writer[v].at = "send" /\ d \in writer[v].to
               /\ writer[v].at = "send" /\ d \in writer[v].to
                    => writer'[v].frame = writer[v].frame
      PROVE  ConnInv(d)'
  <2>1. Due(d)' = Due(d)
    BY <1>0, SameDue
  <2>2. Attached(d)' => Attached(d)
    BY <1>0 DEF Attached
  <2>3. QED BY <1>0, <2>1, <2>2, Untouched
<1>1. CASE StreamCmd
  <2>1. \A v \in Writers : \/ writer'[v] = writer[v]
                           \/ writer'[v].at = "idle" /\ writer[v].at = "off"
    BY <1>1 DEF StreamCmd, PumpsOff
  <2>2. QED BY <1>0, <1>1, <2>1 DEF StreamCmd
<1>2. CASE AppendEnd
  BY <1>2, AppendConn, WriterSets DEF AppendEnd
<1>3. CASE Finish
  <2>1. \A v \in Writers : \/ writer'[v] = writer[v]
                           \/ writer'[v].at = "off" /\ writer[v].at = "finish"
    BY <1>3, WriterSteps, WriterSets DEF Finish
  <2>2. QED BY <1>0, <1>3, <2>1 DEF Finish
<1>4. ASSUME NEW w \in Pumps, PumpEOF(w)
      PROVE  ConnInv(d)'
  <2>1. \A v \in Writers : \/ writer'[v] = writer[v]
                           \/ writer'[v].at = "off" /\ writer[v].at = "idle"
    BY <1>4, WriterSteps, WriterSets DEF PumpEOF
  <2>2. QED BY <1>0, <1>4, <2>1 DEF PumpEOF
<1>5. ASSUME NEW w \in Writers, AppendLog(w)
      PROVE  ConnInv(d)'
  BY <1>5, AppendConn DEF AppendLog
<1>6. ASSUME NEW w \in Writers, Sent(w)
      PROVE  ConnInv(d)'
  <2>1. \A v \in Writers : \/ writer'[v] = writer[v]
                           \/ writer'[v].at # "send" /\ writer[v].to = {}
    BY <1>6, WriterSteps DEF Sent
  <2>2. QED BY <1>0, <1>6, <2>1 DEF Sent
<1>7. ASSUME NEW w \in Writers, NEW c \in Conns, Send(w, c)
      PROVE  ConnInv(d)'
  <2>1. CASE d # c
    <3>1. \A v \in Writers : /\ writer'[v].at = writer[v].at
                             /\ writer'[v].frame = writer[v].frame
                             /\ d \in writer'[v].to <=> d \in writer[v].to
      <4>1. writer' = [writer EXCEPT ![w] = [writer[w] EXCEPT !.to = @ \ {c}]]
        BY <1>7 DEF Send
      <4>2. writer \in [Writers -> WriterType] /\ writer[w] \in WriterType
        BY DEF TypeOK, WriterType
      <4>3. /\ writer'[w].at = writer[w].at /\ writer'[w].frame = writer[w].frame
            /\ writer'[w].to = writer[w].to \ {c}
        BY <4>1, <4>2 DEF WriterType
      <4>4. \A v \in Writers : v # w => writer'[v] = writer[v]
        BY <4>1, <4>2
      <4>5. QED BY <2>1, <4>3, <4>4
    <3>2. chan'[d] = chan[d] /\ dropped'[d] = dropped[d]
      BY <1>7, <2>1 DEF Send, TypeOK
    <3>3. QED BY <1>0, <1>7, <3>1, <3>2 DEF Send
  <2>2. QED BY <1>7, <2>1, SendConn
<1>8. QED
  BY <1>1, <1>2, <1>3, <1>4, <1>5, <1>6, <1>7 DEF Producer

LEMMA StreamStep ==
  ASSUME StreamInv, [Next]_vars
  PROVE  StreamInv'
<1>1. TypeOK' /\ LogInv'
  BY TypeStep, LogStep DEF StreamInv
<1>2. ASSUME NEW d \in Conns
      PROVE  ConnInv(d)'
  <2>1. CASE Producer
    BY <2>1, ProducerConn DEF StreamInv
  <2>2. CASE \E c \in Conns : Consumer(c)
    BY <2>2, ConsumerConn DEF StreamInv
  <2>3. CASE \E t \in Tabs, c \in Conns : Connect(t, c)
    BY <2>3, ConnectConn DEF StreamInv
  <2>4. CASE Janitor \/ UNCHANGED vars \/ \E t \in Tabs : NetworkDrop(t)
    <3>1. /\ logs' = logs /\ conn' = conn /\ got' = got /\ chan' = chan
          /\ dropped' = dropped /\ subs' = subs /\ writer' = writer
      BY <2>4 DEF Janitor, NetworkDrop, vars
    <3>2. \A t \in Tabs : tab'[t] = tab[t] \/ tab'[t].at = "away"
      BY <2>4 DEF Janitor, NetworkDrop, vars, StreamInv, TypeOK
    <3>3. conn[d].tab \in Tabs \cup {"none"}
      BY DEF StreamInv, TypeOK
    <3>4. (Attached(d)' => Attached(d)) /\ Due(d)' = Due(d)
      BY <3>1, <3>2, <3>3 DEF Attached, Due
    <3>5. QED BY <3>1, <3>4, Untouched DEF StreamInv
  <2>5. QED BY <2>1, <2>2, <2>3, <2>4 DEF Next
<1>3. QED BY <1>1, <1>2 DEF StreamInv

LEMMA StreamInit == Init => StreamInv
<1> SUFFICES ASSUME Init PROVE StreamInv
  OBVIOUS
<1>1. Len(<< >>) = 0 /\ Elems(<< >>) = {}
  BY DEF Elems
<1>2. /\ writer["main"].at = "idle" /\ \A w \in Pumps : writer[w].at = "off"
      /\ \A w \in Writers : writer[w].at # "send"
  BY WriterSets DEF Init
<1>3. writer \in [Writers -> WriterType]
  BY DEF Init, WriterType
<1>4. conn \in [Conns -> ConnType]
  <2>1. NoConn \in ConnType
    BY DEF NoConn, ConnType
  <2>2. QED BY <2>1 DEF Init
<1>5. tab \in [Tabs -> TabType]
  BY DEF Init, TabType
<1>6. TypeOK
  <2>1. logs \in Seq({"log", "end"}) /\ Len(logs) <= MaxLogs + 1
    BY <1>1, Constants DEF Init
  <2>2. /\ chan \in [Conns -> Seq(Frames)] /\ got \in [Conns -> Seq(Frames)]
        /\ dropped \in [Conns -> SUBSET Frames]
    BY DEF Init
  <2>3. cmds \in 0..MaxCmds /\ drops \in 0..MaxDrops
    BY Constants DEF Init
  <2>4. subs \subseteq Conns /\ done \in BOOLEAN /\ registered \in BOOLEAN
    BY DEF Init
  <2>5. QED
    BY <1>3, <1>4, <1>5, <2>1, <2>2, <2>3, <2>4
       DEF TypeOK, WriterType, ConnType, TabType
<1>7. LogInv
  BY <1>1, <1>2, Constants DEF Init, LogInv, Ended
<1>8. ASSUME NEW c \in Conns
      PROVE  ConnInv(c)
  <2>1. /\ conn[c] = NoConn /\ got[c] = << >> /\ chan[c] = << >> /\ dropped[c] = {}
        /\ subs = {} /\ Due(c) = {} /\ logs = << >>
    BY <1>2 DEF Init, Due
  <2>2. conn[c].at = "none" /\ conn[c].hist = 0 /\ conn[c].sent = 0
    BY <2>1 DEF NoConn
  <2>3. Fresh(c) /\ Bounds(c) /\ Separate(c)
    BY <1>1, <2>1, <2>2 DEF Fresh, Bounds, Separate
  <2>4. Prefix(c) /\ Progress(c) /\ Complete(c) /\ Told(c)
    BY <1>1, <2>1, <2>2 DEF Prefix, Progress, Complete, Told
  <2>5. QED BY <2>3, <2>4 DEF ConnInv
<1>9. QED BY <1>6, <1>7, <1>8 DEF StreamInv

LEMMA Streaming == Spec => []StreamInv
<1>1. StreamInv /\ [Next]_vars => StreamInv'
  BY StreamStep
<1>2. QED BY <1>1, StreamInit, PTL DEF Spec

\* Every variable of the stream holds a value of its kind: the log does not
\* outgrow its bound although three writers append to it.
THEOREM StreamTypeCorrect == Spec => []TypeOK
<1>1. StreamInv => TypeOK
  BY DEF StreamInv
<1>2. QED BY <1>1, Streaming, PTL

\* The log has one terminal frame, at its end, and an operation that is Done
\* has it: whoever replays the log of a finished operation reads its outcome.
THEOREM OutcomeBeforeDone == Spec => []DoneHasOutcome
<1>1. StreamInv => DoneHasOutcome
  BY DEF StreamInv, LogInv, DoneHasOutcome, Ended
<1>2. QED BY <1>1, Streaming, PTL

\* However appends, sends, snapshots and reconnections interleave, every
\* browser reads the history in order and then newer frames, none twice
\* (backupOp.snapshot copies and subscribes under one lock).
THEOREM HistoryOnce == Spec => []HistoryThenLive
<1>1. StreamInv => HistoryThenLive
  BY DEF StreamInv, ConnInv, Prefix, HistoryThenLive
<1>2. QED BY <1>1, Streaming, PTL

\* A browser that reads the terminal frame misses nothing but what its full
\* channel lost: streamCmd waits for its pumps before the operation returns,
\* and the unlocked sends of append cannot let the terminal frame pass another.
THEOREM OutcomeComesLast == Spec => []ToldEverything
<1>1. StreamInv => ToldEverything
  BY DEF StreamInv, ConnInv, Told, ToldEverything, Elems
<1>2. QED BY <1>1, Streaming, PTL
=============================================================================
