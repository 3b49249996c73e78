----------------------------- MODULE HealthFeed -----------------------------
(***************************************************************************)
(* The data feed of one browser (web/ui/src/state) on top of the server:   *)
(* snapshots pushed over the WebSocket, polling over HTTP while there is   *)
(* none, reconnection, and the snapshot on screen, which is the one that   *)
(* came last and was accepted.  HTTP replies may be late.                  *)
(***************************************************************************)
EXTENDS WebServer

CONSTANTS
  MaxPolls,     \* requests in flight (bound)
  MaxFeedFaults,    \* failed connections, requests and reads (bound)
  Stamps        \* what the writes may be: the stamp of each

VARIABLES
  ws,           \* the connection of the socket, 0 while there is none
  opened,       \* its onopen has run
  reconnect,    \* reconnectTimer is set
  pollTimer,    \* the polling interval runs
  poll,         \* requests: [pc, data]
  connection,   \* "connecting", "live", "polling", "unreachable"
  screen,       \* snapshot
  latest,       \* history: the snapshot the screen was last brought up to
  stamp,        \* of each write, generated_at and cycle as one number, or 0
                \* where parseHealthState rejects it
  feedFaults

feedVars == <<ws, opened, reconnect, pollTimer, poll, connection, screen, latest, stamp, feedFaults>>
allVars == <<webVars, feedVars>>
Polls == 1 .. MaxPolls

\* startHealthFeed: show what localStorage has, poll once and connect
FeedInit ==
  /\ WebInit
  /\ ws = (CHOOSE c \in Conns : TRUE) /\ opened = FALSE /\ reconnect = FALSE /\ pollTimer = FALSE
  /\ poll = [p \in Polls |-> IF p = 1 THEN [pc |-> "asked", data |-> 0] ELSE Idle]
  /\ stamp \in Stamps /\ screen \in {n \in {0, file} : n # 0 => stamp[n] # 0} /\ latest = 0
  /\ connection = "connecting" /\ feedFaults = 0

\* A snapshot that is rejected, or has the stamp of the one on screen, leaves
\* the screen as it is.
acceptSnapshot(prev, next) ==
  IF stamp[next] = 0 \/ (prev # 0 /\ stamp[prev] = stamp[next]) THEN prev ELSE next

FeedFault == feedFaults < MaxFeedFaults /\ feedFaults' = feedFaults + 1

\* The server upgrades the connection, and onopen
Open ==
  /\ ws # 0 /\ ~opened /\ Upgrade(ws)
  /\ opened' = TRUE /\ connection' = "live" /\ pollTimer' = FALSE
  /\ UNCHANGED <<ws, reconnect, poll, screen, latest, stamp, feedFaults>>

\* onmessage
Message(c) ==
  /\ TakeMessage(c)
  /\ screen' = IF ws = c THEN acceptSnapshot(screen, Head(send[c])) ELSE screen
  /\ latest' = IF ws = c THEN Head(send[c]) ELSE latest
  /\ UNCHANGED <<raced, ws, opened, reconnect, pollTimer, poll, connection, stamp, feedFaults>>

\* Mutant of Closed: a socket that never opened is not tried again.
ClosedOnce ==
  /\ ws' = 0 /\ opened' = FALSE
  /\ connection' = IF connection = "live" THEN "polling" ELSE connection
  /\ reconnect' = opened /\ pollTimer' = TRUE
  /\ UNCHANGED <<webVars, poll, screen, latest, stamp>>

\* onclose and scheduleReconnect
Closed ==
  /\ ws' = 0 /\ opened' = FALSE
  /\ connection' = IF connection = "live" THEN "polling" ELSE connection
  /\ reconnect' = TRUE /\ pollTimer' = TRUE
  /\ UNCHANGED <<webVars, poll, screen, latest, stamp>>

Close ==
  \/ ws # 0 /\ opened /\ ~up[ws] /\ Closed /\ UNCHANGED feedFaults
  \/ ws # 0 /\ ~opened /\ Closed /\ FeedFault

\* The reconnection timer: connect; which connection it is does not matter
Connect ==
  /\ reconnect /\ reconnect' = FALSE
  /\ (\E c \in Conns : Free(c)) /\ ws' = CHOOSE c \in Conns : Free(c)
  /\ UNCHANGED <<webVars, opened, pollTimer, poll, connection, screen, latest, stamp, feedFaults>>

\* The polling interval: poll
Poll ==
  /\ pollTimer
  /\ \E p \in Polls : poll[p] = Idle /\ poll' = [poll EXCEPT ![p].pc = "asked"]
  /\ UNCHANGED <<webVars, ws, opened, reconnect, pollTimer, connection, screen, latest, stamp, feedFaults>>

\* handleHealthAPI
ServePoll(p) ==
  /\ poll[p].pc = "asked"
  /\ poll' = [poll EXCEPT ![p] = [pc |-> "served", data |-> cached]]
  /\ UNCHANGED <<webVars, ws, opened, reconnect, pollTimer, connection, screen, latest, stamp, feedFaults>>

\* What a settled request does to the connection state
SettlePoll(status) == connection' = IF connection = "live" THEN "live" ELSE status

\* poll, after fetch: 503 while there is no snapshot; one that is not even
\* JSON says nothing of the connection
Reply(p) ==
  /\ poll[p].pc = "served" /\ poll' = [poll EXCEPT ![p] = Idle]
  /\ LET d == poll[p].data
     IN  /\ screen' = IF d = 0 THEN screen ELSE acceptSnapshot(screen, d)
         /\ latest' = IF d > latest \/ screen' # screen THEN d ELSE latest
         /\ raced' = (raced \/ (d < latest /\ screen' # screen))
         /\ SettlePoll("polling") \/ (d # 0 /\ stamp[d] = 0 /\ connection' = connection)
  /\ UNCHANGED <<watchVars, bqueue, hubVars, send, hpc, greeting, ws, opened, reconnect, pollTimer, stamp, feedFaults>>

\* poll, when fetch throws
ReplyFails(p) ==
  /\ poll[p] # Idle /\ poll' = [poll EXCEPT ![p] = Idle]
  /\ SettlePoll("unreachable") /\ FeedFault
  /\ UNCHANGED <<webVars, ws, opened, reconnect, pollTimer, screen, latest, stamp>>

\* Nothing is on its way from the file to the screen.
Settled ==
  /\ ~heard /\ ~timer /\ Loading = {} /\ wpc \in {"loop", "poll"}
  /\ wpc = "poll" => ~newer \/ file = 0
  /\ bqueue = <<>> /\ \A p \in Polls : poll[p] = Idle
  /\ ws \in clients /\ up[ws] /\ hpc[ws] = "none" /\ send[ws] = <<>>

\* A write is a race when nobody will tell of it; one that finds everything
\* settled ends all races before it.
Write ==
  /\ WriteFile
  /\ raced' = (~ToRead' \/ (raced /\ ~Settled))
  /\ UNCHANGED feedVars

Break == (\E c \in Conns : Disconnect(c)) /\ FeedFault
         /\ UNCHANGED <<ws, opened, reconnect, pollTimer, poll, connection, screen, latest, stamp>>

LoadError == (\E l \in Loads : LoadFails(l)) /\ FeedFault
             /\ UNCHANGED <<ws, opened, reconnect, pollTimer, poll, connection, screen, latest, stamp>>

Browser ==
  \/ Open \/ Connect \/ (ws # 0 /\ opened /\ ~up[ws] /\ Closed /\ UNCHANGED feedFaults)
  \/ \E c \in Conns : Message(c)
  \/ \E p \in Polls : ServePoll(p) \/ Reply(p)
Server == ServerStep /\ UNCHANGED feedVars

FeedNext ==
  \/ Server \/ Write \/ Break \/ LoadError
  \/ Open \/ Close \/ Connect \/ Poll
  \/ \E c \in Conns : Message(c)
  \/ \E p \in Polls : ServePoll(p) \/ Reply(p) \/ ReplyFails(p)

FeedSpec == FeedInit /\ [][FeedNext]_allVars
FeedFairness == WF_allVars(Server) /\ WF_allVars(Browser)
-----------------------------------------------------------------------------
\* The hub never sends on or closes a channel it has closed, which would end
\* the server: a client it still knows has an open channel, however the
\* removal of a slow client and its own unregistration interleave.
HubChannelsOpen == \A c \in clients : ~closed[c]

\* The screen shows snapshot n: one with its stamp or, when n is rejected, a
\* good one from before, if there was any.
Shows(n) ==
  /\ screen # 0 => stamp[screen] # 0
  /\ stamp[n] # 0 => screen # 0 /\ stamp[screen] = stamp[n]

\* When everything has settled on a live socket, the screen shows the file,
\* unless there was a race since the last write that found everything
\* settled.  The races are a write between the first load and the watch
\* (watcher.go:46), one that pollLoop's clock does not tell from the last
\* (watcher.go:124), a load that fails (watcher.go:135), two loads at a time
\* (watcher.go:93), a broadcast that found its channel full
\* (websocket.go:168), a greeting older than the cache (handlers.go:110) and
\* an older reply that replaces what is on screen (feed.ts:65).
ScreenCurrent == Settled /\ ~raced /\ file # 0 => Shows(file)

\* Once writes and failures end, the screen shows the file for good, unless
\* there was a race: a client closed for being slow connects again and is
\* greeted with what it missed.
FileShown == file = 0 \/ Shows(file) \/ raced
EventuallyShown == <>[]FileShown
=============================================================================
