----------------------------- MODULE WebServer -----------------------------
(***************************************************************************)
(* The web server between the snapshot file and the browsers: the watcher  *)
(* of the file, the cached state, the hub with its bounded channels, and   *)
(* for every WebSocket the handler and the two pumps (web/server).  The    *)
(* goroutines interleave at every channel operation, lock and file access. *)
(* A snapshot is the number of the write that made it, 0 for none.         *)
(***************************************************************************)
EXTENDS Integers, Sequences

CONSTANTS
  Conns,        \* WebSocket connections at a time
  BroadcastCap, \* capacity of hub.broadcast (16)
  SendCap,      \* capacity of client.send (256)
  MaxLoads,     \* loadState calls at a time (bound)
  MaxWrites     \* writes of the snapshot file (bound)

ASSUME WebAssumption ==
  /\ 0 \notin Conns
  /\ {BroadcastCap, SendCap, MaxLoads} \subseteq Nat \ {0} /\ MaxWrites \in Nat

VARIABLES
  file,       \* the snapshot file
  heard,      \* an event for it is waiting in watcher.Events
  wpc,        \* Watch: "load", "loop", or "poll" when Add failed
  timer,      \* debounceTimer is armed
  newer,      \* its ModTime is after pollLoop's lastMtime
  loads,      \* the loadState calls: [pc, data]
  cached,     \* StateCache
  bqueue,     \* hub.broadcast
  clients,    \* hub.clients
  send, closed,     \* client.send
  hpc, greeting,    \* handleWebSocket: "none", "register", "get", "send"
  rpump, wpump,     \* readPump and writePump run
  up,         \* the connection is open
  raced       \* history: see HealthFeed

watchVars == <<file, heard, wpc, timer, newer, loads, cached>>
hubVars == <<clients, closed, rpump, wpump, up>>
webVars == <<watchVars, bqueue, hubVars, send, hpc, greeting, raced>>

Idle == [pc |-> "none", data |-> 0]
Loads == 1 .. MaxLoads
Loading == {l \in Loads : loads[l] # Idle}

WebInit ==
  /\ file \in {0, 1} /\ heard = FALSE
  /\ wpc = "load" /\ timer = FALSE /\ newer = TRUE
  /\ loads = [l \in Loads |-> IF l = 1 THEN [pc |-> "read", data |-> 0] ELSE Idle]
  /\ cached = 0 /\ bqueue = <<>> /\ clients = {}
  /\ send = [c \in Conns |-> <<>>] /\ closed = [c \in Conns |-> FALSE]
  /\ hpc = [c \in Conns |-> "none"] /\ greeting = [c \in Conns |-> 0]
  /\ rpump = [c \in Conns |-> FALSE] /\ wpump = [c \in Conns |-> FALSE]
  /\ up = [c \in Conns |-> FALSE]
  /\ raced = FALSE
-----------------------------------------------------------------------------
\* The file is still to be read: somebody will be told of it, or begins to.
ToRead ==
  \/ heard \/ timer
  \/ \E l \in Loads : loads[l].pc = "read"
  \/ wpc = "poll" /\ newer

\* external: the daemon replaces the file, perhaps before the clock moves on;
\* inotify tells who watches
WriteFile ==
  /\ file < MaxWrites /\ file' = file + 1
  /\ newer' \in {newer, TRUE}
  /\ heard' = (heard \/ wpc = "loop")
  /\ UNCHANGED <<wpc, timer, loads, cached, bqueue, hubVars, send, hpc, greeting>>

Start(l) == loads' = [loads EXCEPT ![l] = [pc |-> "read", data |-> 0]]

\* Watch after its first loadState: watch the directory, or poll
AddWatch ==
  /\ wpc = "load" /\ Loading = {}
  /\ wpc' \in {"loop", "poll"}
  /\ UNCHANGED <<file, heard, timer, newer, loads, cached, bqueue, hubVars, send, hpc, greeting, raced>>

\* Watch: an event (re)arms the debounce timer
HandleEvent ==
  /\ wpc = "loop" /\ heard
  /\ heard' = FALSE /\ timer' = TRUE
  /\ UNCHANGED <<file, wpc, newer, loads, cached, bqueue, hubVars, send, hpc, greeting, raced>>

\* The debounce timer starts a loadState, whether or not one is running.
TimerFires ==
  /\ timer /\ timer' = FALSE
  /\ \E l \in Loads \ Loading : Start(l)
  /\ raced' = (raced \/ Loading # {})
  /\ UNCHANGED <<file, heard, wpc, newer, cached, bqueue, hubVars, send, hpc, greeting>>

\* pollLoop: a tick that finds a newer file loads it, one load at a time
PollTick ==
  /\ wpc = "poll" /\ Loading = {} /\ file # 0 /\ newer
  /\ newer' = FALSE /\ Start(1)
  /\ UNCHANGED <<file, heard, wpc, timer, cached, bqueue, hubVars, send, hpc, greeting, raced>>

\* loadState: ReadFile, then Stat; there may be no file
ReadState(l) ==
  /\ loads[l].pc = "read"
  /\ loads' = [loads EXCEPT ![l] = IF file = 0 THEN Idle ELSE [pc |-> "set", data |-> file]]
  /\ UNCHANGED <<file, heard, wpc, timer, newer, cached, bqueue, hubVars, send, hpc, greeting, raced>>

\* loadState: ReadFile or Stat of a file that is there fails, and nobody tries
\* again, unless there is another reason to read
LoadFails(l) ==
  /\ loads[l].pc = "read" /\ file # 0
  /\ loads' = [loads EXCEPT ![l] = Idle]
  /\ UNCHANGED <<file, heard, wpc, timer, newer, cached, bqueue, hubVars, send, hpc, greeting>>
  /\ raced' = (raced \/ ~ToRead')

\* loadState: cache.Set
SetState(l) ==
  /\ loads[l].pc = "set"
  /\ cached' = loads[l].data
  /\ loads' = [loads EXCEPT ![l].pc = "broadcast"]
  /\ UNCHANGED <<file, heard, wpc, timer, newer, bqueue, hubVars, send, hpc, greeting, raced>>

\* Broadcast drops the message when the channel is full.
Broadcast(l) ==
  /\ loads[l].pc = "broadcast"
  /\ loads' = [loads EXCEPT ![l] = Idle]
  /\ IF Len(bqueue) < BroadcastCap
     THEN bqueue' = Append(bqueue, loads[l].data) /\ UNCHANGED raced
     ELSE raced' = TRUE /\ UNCHANGED bqueue
  /\ UNCHANGED <<file, heard, wpc, timer, newer, cached, hubVars, send, hpc, greeting>>

loadState(l) == ReadState(l) \/ SetState(l) \/ Broadcast(l)
-----------------------------------------------------------------------------
\* A connection nothing of the server refers to
Free(c) == hpc[c] = "none" /\ ~rpump[c] /\ ~wpump[c] /\ c \notin clients

\* handleWebSocket: Upgrade
Upgrade(c) ==
  /\ Free(c)
  /\ hpc' = [hpc EXCEPT ![c] = "register"] /\ up' = [up EXCEPT ![c] = TRUE]
  /\ send' = [send EXCEPT ![c] = <<>>] /\ closed' = [closed EXCEPT ![c] = FALSE]
  /\ UNCHANGED <<watchVars, bqueue, clients, rpump, wpump, greeting, raced>>

\* handleWebSocket and Run: register, and start the pumps
Register(c) ==
  /\ hpc[c] = "register"
  /\ clients' = clients \cup {c}
  /\ hpc' = [hpc EXCEPT ![c] = "get"]
  /\ rpump' = [rpump EXCEPT ![c] = TRUE] /\ wpump' = [wpump EXCEPT ![c] = TRUE]
  /\ UNCHANGED <<watchVars, bqueue, closed, up, send, greeting, raced>>

\* handleWebSocket: the current state, if there is one
GetState(c) ==
  /\ hpc[c] = "get"
  /\ greeting' = [greeting EXCEPT ![c] = cached]
  /\ hpc' = [hpc EXCEPT ![c] = IF cached = 0 THEN "none" ELSE "send"]
  /\ UNCHANGED <<watchVars, bqueue, hubVars, send, raced>>

\* handleWebSocket: client.send <- data blocks on a full channel and panics on
\* a closed one, which net/http recovers
Greet(c) ==
  /\ hpc[c] = "send"
  /\ closed[c] \/ Len(send[c]) < SendCap
  /\ send' = IF closed[c] THEN send ELSE [send EXCEPT ![c] = Append(@, greeting[c])]
  /\ raced' = (raced \/ greeting[c] # cached)
  /\ hpc' = [hpc EXCEPT ![c] = "none"] /\ greeting' = [greeting EXCEPT ![c] = 0]
  /\ UNCHANGED <<watchVars, bqueue, hubVars>>

\* readPump fails when the connection is gone; Run takes the unregistration
Unregister(c) ==
  /\ rpump[c] /\ ~up[c]
  /\ rpump' = [rpump EXCEPT ![c] = FALSE]
  /\ clients' = clients \ {c}
  /\ closed' = [closed EXCEPT ![c] = @ \/ c \in clients]
  /\ UNCHANGED <<watchVars, bqueue, wpump, up, send, hpc, greeting, raced>>

\* Mutant of RunBroadcast: a client that is too slow stays registered.
RunBroadcastKeeps ==
  LET slow == {c \in clients : Len(send[c]) >= SendCap}
  IN  /\ bqueue # <<>> /\ bqueue' = Tail(bqueue)
      /\ send' = [c \in Conns |-> IF c \in clients \ slow THEN Append(send[c], Head(bqueue))
                                  ELSE send[c]]
      /\ closed' = [c \in Conns |-> closed[c] \/ c \in slow]
      /\ UNCHANGED <<watchVars, clients, rpump, wpump, up, hpc, greeting, raced>>

\* Mutant of RunBroadcast: a client that is too slow misses the message.
RunBroadcastSkips ==
  LET slow == {c \in clients : Len(send[c]) >= SendCap}
  IN  /\ bqueue # <<>> /\ bqueue' = Tail(bqueue)
      /\ send' = [c \in Conns |-> IF c \in clients \ slow THEN Append(send[c], Head(bqueue))
                                  ELSE send[c]]
      /\ UNCHANGED <<watchVars, hubVars, hpc, greeting, raced>>

\* Run takes a broadcast: every client gets it, or is closed for being slow
RunBroadcast ==
  LET slow == {c \in clients : Len(send[c]) >= SendCap}
  IN  /\ bqueue # <<>> /\ bqueue' = Tail(bqueue)
      /\ send' = [c \in Conns |-> IF c \in clients \ slow THEN Append(send[c], Head(bqueue))
                                  ELSE send[c]]
      /\ closed' = [c \in Conns |-> closed[c] \/ c \in slow]
      /\ clients' = clients \ slow
      /\ UNCHANGED <<watchVars, rpump, wpump, up, hpc, greeting, raced>>

\* writePump takes a message off the channel; the caller says what becomes of it
TakeMessage(c) ==
  /\ wpump[c] /\ send[c] # <<>> /\ up[c]
  /\ send' = [send EXCEPT ![c] = Tail(@)]
  /\ UNCHANGED <<watchVars, bqueue, hubVars, hpc, greeting>>

\* writePump ends: the channel is closed and empty, or writing fails
EndWritePump(c) ==
  /\ wpump[c]
  /\ ~up[c] \/ (closed[c] /\ send[c] = <<>>)
  /\ wpump' = [wpump EXCEPT ![c] = FALSE] /\ up' = [up EXCEPT ![c] = FALSE]
  /\ UNCHANGED <<watchVars, bqueue, clients, closed, rpump, send, hpc, greeting, raced>>

\* external: the connection breaks
Disconnect(c) ==
  /\ up[c] /\ up' = [up EXCEPT ![c] = FALSE]
  /\ UNCHANGED <<watchVars, bqueue, clients, closed, rpump, wpump, send, hpc, greeting, raced>>

ServerStep ==
  \/ AddWatch \/ HandleEvent \/ TimerFires \/ PollTick \/ RunBroadcast
  \/ \E l \in Loads : loadState(l)
  \/ \E c \in Conns : Register(c) \/ GetState(c) \/ Greet(c) \/ Unregister(c) \/ EndWritePump(c)
=============================================================================
