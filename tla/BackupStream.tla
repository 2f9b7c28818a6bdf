---------------------------- MODULE BackupStream ----------------------------
(***************************************************************************)
(* The progress stream of one backup or restore: the goroutine that runs   *)
(* the operation and the two pumps of streamCmd append frames to the       *)
(* operation's log and fan them out to subscriber channels; every          *)
(* GET /backup/events replays the log and then tails its channel; browsers *)
(* reconnect; the janitor evicts the operation once it is done.            *)
(*                                                                         *)
(* A frame is known by its place in the log.                               *)
(***************************************************************************)
EXTENDS Integers, Sequences, FiniteSets

CONSTANTS
  Tabs,      \* browser tabs that show the operation
  Cap,       \* capacity of a subscriber channel (32 in the code)
  MaxLogs,   \* bound: frames before the terminal one
  MaxCmds,   \* bound: commands the operation streams
  MaxConns,  \* bound: connections opened
  MaxDrops   \* bound: connections lost to the network

ASSUME StreamAssumption ==
  /\ Cap \in Nat \ {0}
  /\ {MaxLogs, MaxCmds, MaxConns, MaxDrops} \subseteq Nat
  /\ "none" \notin Tabs

VARIABLES
  logs,        \* backupOp.logs: "log" or "end" (done or error) frames
  subs,        \* backupOp.subs: the connections subscribed
  done,        \* backupOp.Done
  registered,  \* the operation is in globalOpTracker
  writer,      \* main, stdout and stderr: where each is in append
  cmds,        \* commands still to be streamed
  chan,        \* connection -> its channel
  conn,        \* connection -> its handler
  got,         \* connection -> the frames the browser received on it
  dropped,     \* history: connection -> frames dropped for it
  tab,         \* tab -> its EventSource
  drops        \* connections the network has dropped

vars == <<logs, subs, done, registered, writer, cmds, chan, conn, got, dropped,
          tab, drops>>

Conns == 1..MaxConns
Pumps == {"stdout", "stderr"}
Writers == Pumps \cup {"main"}
Frames == 1..(MaxLogs + 1)

NoConn == [at |-> "none", tab |-> "none", hist |-> 0, sent |-> 0, done |-> FALSE]

Init ==
  /\ logs = << >>
  /\ subs = {}
  /\ done = FALSE
  /\ registered = TRUE
  /\ writer = [w \in Writers |-> [at |-> IF w = "main" THEN "idle" ELSE "off",
                                  frame |-> 0, to |-> {}]]
  /\ cmds = MaxCmds
  /\ chan = [c \in Conns |-> << >>]
  /\ conn = [c \in Conns |-> NoConn]
  /\ got = [c \in Conns |-> << >>]
  /\ dropped = [c \in Conns |-> {}]
  /\ tab = [t \in Tabs |-> [at |-> "closed", conn |-> 0]]
  /\ drops = 0

PumpsOff == \A w \in Pumps : writer[w].at = "off"

----------------------------------------------------------------------------
(* The producers *)

\* streamCmd starts a command and a pump for each of its outputs.
StreamCmd ==
  /\ writer["main"].at = "idle" /\ PumpsOff
  /\ cmds > 0
  /\ cmds' = cmds - 1
  /\ writer' = [w \in Writers |-> IF w \in Pumps
                  THEN [at |-> "idle", frame |-> 0, to |-> {}] ELSE writer[w]]
  /\ UNCHANGED <<logs, subs, done, registered, chan, conn, got, dropped, tab,
                 drops>>

\* A pump meets the end of its pipe.
PumpEOF(w) ==
  /\ writer[w].at = "idle"
  /\ writer' = [writer EXCEPT ![w].at = "off"]
  /\ UNCHANGED <<logs, subs, done, registered, cmds, chan, conn, got, dropped,
                 tab, drops>>

\* The locked half of backupOp.append: the frame joins the log and the list of
\* subscribers is copied.
Append1(w, event) ==
  /\ logs' = Append(logs, event)
  /\ writer' = [writer EXCEPT ![w] = [at |-> "send", frame |-> Len(logs) + 1,
                                      to |-> subs]]
  /\ UNCHANGED <<subs, done, registered, cmds, chan, conn, got, dropped, tab,
                 drops>>

\* A line of a command's output, or a status of the operation between commands.
AppendLog(w) ==
  /\ writer[w].at = "idle"
  /\ w = "main" => PumpsOff
  /\ Len(logs) < MaxLogs
  /\ Append1(w, "log")

\* Mutant of AppendEnd: streamCmd does not wait for its pumps.
AppendEndEarly == writer["main"].at = "idle" /\ Append1("main", "end")

\* The terminal frame, when the operation has returned.
AppendEnd ==
  /\ writer["main"].at = "idle" /\ PumpsOff
  /\ Append1("main", "end")

\* The unlocked half: one non-blocking send per copied subscriber; a full
\* channel loses the frame.  (The code goes through the list in order, which
\* no subscriber can observe.)
Send(w, c) ==
  /\ writer[w].at = "send"
  /\ c \in writer[w].to
  /\ IF Len(chan[c]) < Cap
       THEN /\ chan' = [chan EXCEPT ![c] = Append(@, writer[w].frame)]
            /\ UNCHANGED dropped
       ELSE /\ dropped' = [dropped EXCEPT ![c] = @ \cup {writer[w].frame}]
            /\ UNCHANGED chan
  /\ writer' = [writer EXCEPT ![w].to = @ \ {c}]
  /\ UNCHANGED <<logs, subs, done, registered, cmds, conn, got, tab, drops>>

\* append returns.
Sent(w) ==
  /\ writer[w].at = "send"
  /\ writer[w].to = {}
  /\ writer' = [writer EXCEPT ![w].at =
                  IF logs[writer[w].frame] = "end" THEN "finish" ELSE "idle"]
  /\ UNCHANGED <<logs, subs, done, registered, cmds, chan, conn, got, dropped,
                 tab, drops>>

\* Mutant of Finish: the goroutine does not return after its terminal frame.
FinishGoesOn ==
  /\ writer["main"].at = "finish"
  /\ done' = TRUE
  /\ writer' = [writer EXCEPT !["main"].at = "idle"]
  /\ UNCHANGED <<logs, subs, registered, cmds, chan, conn, got, dropped, tab,
                 drops>>

\* backupOp.finish, after the terminal frame.
Finish ==
  /\ writer["main"].at = "finish"
  /\ done' = TRUE
  /\ writer' = [writer EXCEPT !["main"].at = "off"]
  /\ UNCHANGED <<logs, subs, registered, cmds, chan, conn, got, dropped, tab,
                 drops>>

\* The janitor evicts an operation some time after it is done.
Janitor ==
  /\ registered /\ done
  /\ registered' = FALSE
  /\ UNCHANGED <<logs, subs, done, writer, cmds, chan, conn, got, dropped, tab,
                 drops>>

----------------------------------------------------------------------------
(* handleBackupEvents *)

\* Mutant of Connect: the channel is subscribed before the log is copied.
ConnectSubscribes(t, c) ==
  /\ tab[t].at \in {"closed", "retry", "away"}
  /\ \A d \in Conns : conn[d].at = "none" <=> d >= c
  /\ registered
  /\ conn' = [conn EXCEPT ![c] = [NoConn EXCEPT !.at = "start", !.tab = t]]
  /\ tab' = [tab EXCEPT ![t] = [at |-> "open", conn |-> c]]
  /\ subs' = subs \cup {c}
  /\ UNCHANGED <<logs, done, registered, writer, cmds, chan, got, dropped, drops>>

\* Tab t (re)opens its EventSource on connection c: an unknown operation is
\* answered with 404, after which an EventSource does not try again.
Connect(t, c) ==
  /\ tab[t].at \in {"closed", "retry", "away"}
  /\ \A d \in Conns : conn[d].at = "none" <=> d >= c
  /\ \/ /\ registered
        /\ conn' = [conn EXCEPT ![c] = [NoConn EXCEPT !.at = "start", !.tab = t]]
        /\ tab' = [tab EXCEPT ![t] = [at |-> "open", conn |-> c]]
     \/ /\ ~registered
        /\ tab' = [tab EXCEPT ![t] = [at |-> "lost", conn |-> 0]]
        /\ UNCHANGED conn
  /\ UNCHANGED <<logs, subs, done, registered, writer, cmds, chan, got, dropped,
                 drops>>

\* Mutant of Snapshot: the new channel is not subscribed.
SnapshotOnly(c) ==
  /\ conn[c].at = "start"
  /\ conn' = [conn EXCEPT ![c].at = "replay", ![c].hist = Len(logs),
                          ![c].done = done]
  /\ UNCHANGED <<logs, subs, done, registered, writer, cmds, chan, got, dropped,
                 tab, drops>>

\* backupOp.snapshot: copy the log and subscribe, under one lock.
Snapshot(c) ==
  /\ conn[c].at = "start"
  /\ subs' = subs \cup {c}
  /\ conn' = [conn EXCEPT ![c].at = "replay", ![c].hist = Len(logs),
                          ![c].done = done]
  /\ UNCHANGED <<logs, done, registered, writer, cmds, chan, got, dropped, tab,
                 drops>>

Attached(c) == conn[c].tab # "none" /\ tab[conn[c].tab] = [at |-> "open", conn |-> c]

\* One writeFrame of frame f on c.  A browser that reads a terminal frame
\* closes its EventSource; to a browser that is gone the write is lost.
WriteFrame(c, f) ==
  IF Attached(c)
    THEN /\ got' = [got EXCEPT ![c] = Append(@, f)]
         /\ tab' = IF logs[f] = "end"
                     THEN [tab EXCEPT ![conn[c].tab].at = "told"] ELSE tab
    ELSE UNCHANGED <<got, tab>>

Replay(c) ==
  /\ conn[c].at = "replay"
  /\ conn[c].sent < conn[c].hist
  /\ WriteFrame(c, conn[c].sent + 1)
  /\ conn' = [conn EXCEPT ![c].sent = @ + 1]
  /\ UNCHANGED <<logs, subs, done, registered, writer, cmds, chan, dropped, drops>>

\* The handler returns: it unsubscribes, the stream ends, and a browser that
\* was still attached will try again.
Close(c) ==
  /\ conn' = [conn EXCEPT ![c].at = "closed"]
  /\ subs' = subs \ {c}

\* op.Done is read without the lock: the value may be as old as the snapshot.
CheckDone(c) ==
  /\ conn[c].at = "replay"
  /\ conn[c].sent = conn[c].hist
  /\ \/ /\ TRUE \in {done, conn[c].done}
        /\ Close(c)
        /\ tab' = IF Attached(c) THEN [tab EXCEPT ![conn[c].tab].at = "retry"]
                  ELSE tab
     \/ /\ FALSE \in {done, conn[c].done}
        /\ conn' = [conn EXCEPT ![c].at = "tail"]
        /\ UNCHANGED <<subs, tab>>
  /\ UNCHANGED <<logs, done, registered, writer, cmds, chan, got, dropped, drops>>

\* One frame of the channel.
Tail1(c) ==
  /\ conn[c].at = "tail"
  /\ chan[c] # << >>
  /\ WriteFrame(c, Head(chan[c]))
  /\ chan' = [chan EXCEPT ![c] = Tail(@)]
  /\ IF logs[Head(chan[c])] = "end"
       THEN Close(c) ELSE UNCHANGED <<conn, subs>>
  /\ UNCHANGED <<logs, done, registered, writer, cmds, dropped, drops>>

\* The request's context ends, or a keepalive fails, once the browser is gone.
Cancel(c) ==
  /\ conn[c].at = "tail"
  /\ ~Attached(c)
  /\ Close(c)
  /\ UNCHANGED <<logs, done, registered, writer, cmds, chan, got, dropped, tab,
                 drops>>

\* The network drops a browser's connection; it may come back at any time.
NetworkDrop(t) ==
  /\ tab[t].at = "open"
  /\ drops < MaxDrops
  /\ drops' = drops + 1
  /\ tab' = [tab EXCEPT ![t] = [at |-> "away", conn |-> 0]]
  /\ UNCHANGED <<logs, subs, done, registered, writer, cmds, chan, conn, got,
                 dropped>>

----------------------------------------------------------------------------
Producer ==
  \/ StreamCmd \/ AppendEnd \/ Finish
  \/ \E w \in Pumps : PumpEOF(w)
  \/ \E w \in Writers : AppendLog(w) \/ Sent(w) \/ \E c \in Conns : Send(w, c)

Consumer(c) == Snapshot(c) \/ Replay(c) \/ CheckDone(c) \/ Tail1(c) \/ Cancel(c)

Reconnect(t) == tab[t].at = "retry" /\ \E c \in Conns : Connect(t, c)

Next ==
  \/ Producer
  \/ Janitor
  \/ \E c \in Conns : Consumer(c)
  \/ \E t \in Tabs : NetworkDrop(t) \/ \E c \in Conns : Connect(t, c)

\* Goroutines are scheduled, commands end, and an EventSource whose stream was
\* closed reconnects.  Opening a tab, losing or regaining the network and the
\* janitor are left to chance.
Fairness ==
  /\ \A w \in Writers : /\ WF_vars(Sent(w))
                        /\ \A c \in Conns : WF_vars(Send(w, c))
  /\ \A w \in Pumps : WF_vars(PumpEOF(w))
  /\ WF_vars(AppendEnd)
  /\ WF_vars(Finish)
  /\ \A c \in Conns : WF_vars(Consumer(c))
  /\ \A t \in Tabs : WF_vars(Reconnect(t))

Spec == Init /\ [][Next]_vars

FairSpec == Spec /\ Fairness

----------------------------------------------------------------------------
(* Properties *)

\* Every variable holds a value of its kind.
TypeOK ==
  /\ logs \in Seq({"log", "end"}) /\ Len(logs) <= MaxLogs + 1
  /\ subs \subseteq Conns
  /\ done \in BOOLEAN
  /\ registered \in BOOLEAN
  /\ writer \in [Writers -> [at : {"off", "idle", "send", "finish"},
                             frame : Frames \cup {0}, to : SUBSET Conns]]
  /\ cmds \in 0..MaxCmds
  /\ chan \in [Conns -> Seq(Frames)]
  /\ conn \in [Conns -> [at : {"none", "start", "replay", "tail", "closed"},
                         tab : Tabs \cup {"none"}, hist : Frames \cup {0},
                         sent : Frames \cup {0}, done : BOOLEAN]]
  /\ got \in [Conns -> Seq(Frames)]
  /\ dropped \in [Conns -> SUBSET Frames]
  /\ tab \in [Tabs -> [at : {"closed", "open", "retry", "away", "told", "lost"},
                       conn : Conns \cup {0}]]
  /\ drops \in 0..MaxDrops

\* A browser reads the history first, in order, and then only newer frames,
\* none of them twice: snapshot copies the log and subscribes under one lock,
\* so no frame falls into both halves or between them.
HistoryThenLive ==
  \A c \in Conns :
    /\ \A i \in 1..Len(got[c]) : IF i <= conn[c].hist THEN got[c][i] = i
                                 ELSE got[c][i] > conn[c].hist
    /\ \A i, j \in 1..Len(got[c]) : i # j => got[c][i] # got[c][j]

\* A browser that has read the terminal frame has read the whole log before
\* it, but for frames its full channel lost: the terminal frame overtakes no
\* other, although two pumps append without waiting for each other.
ToldEverything ==
  \A c \in Conns :
    LET read == { got[c][i] : i \in 1..Len(got[c]) } IN
      (\E f \in read : logs[f] = "end") => read \cup dropped[c] = 1..Len(logs)

\* The log holds one terminal frame and nothing behind it, and the operation
\* is done only when it is there, so whoever replays the log of a finished
\* operation reads the outcome (append before finish).
DoneHasOutcome ==
  /\ done => logs # << >> /\ logs[Len(logs)] = "end"
  /\ \A i \in 1..(Len(logs) - 1) : logs[i] = "log"

\* A browser that follows the operation reads its outcome, unless the network
\* loses it, the operation has been evicted when it reconnects, or its channel
\* was full when the terminal frame came.
EventuallyTold ==
  \A t \in Tabs :
    tab[t].at = "open" ~>
      \/ tab[t].at \in {"told", "away", "lost"}
      \/ \E c \in Conns : /\ Attached(c) /\ conn[c].tab = t
                         /\ \E f \in dropped[c] : logs[f] = "end"
=============================================================================
