----------------------------- MODULE FeedProofs -----------------------------
(***************************************************************************)
(* That the hub never uses a channel it has closed, and that the screen    *)
(* shows the file when nothing is on its way, for any number of clients    *)
(* and loads and any capacities of the channels.                           *)
(***************************************************************************)
EXTENDS HealthFeed, SequenceTheorems, TLAPS

\* A client is known to the hub only after its handler has passed "register",
\* and until then nobody else can close its channel.
HubInv ==
  /\ clients \subseteq Conns
  /\ closed \in [Conns -> BOOLEAN]
  /\ hpc \in [Conns -> {"none", "register", "get", "send"}]
  /\ HubChannelsOpen
  /\ \A c \in Conns : hpc[c] = "register" => c \notin clients /\ ~closed[c]

\* What HubInv speaks of
hub == <<clients, closed, hpc>>

\* The hub is empty before the first connection.
LEMMA HubInitially == FeedInit => HubInv
  BY DEF FeedInit, WebInit, HubInv, HubChannelsOpen

\* A step that leaves clients, channels and handlers alone keeps the invariant.
LEMMA HubUntouched == HubInv /\ UNCHANGED hub => HubInv'
  BY DEF HubInv, HubChannelsOpen, hub

\* An upgraded connection gets a new channel.
LEMMA UpgradeKeeps ==
  ASSUME HubInv, NEW c, Upgrade(c)
  PROVE  HubInv'
<1>1. c \in Conns => c \notin clients
  BY DEF Upgrade, Free
<1>2. clients' = clients
  BY DEF Upgrade
<1>. QED BY Zenon, <1>1, <1>2 DEF HubInv, HubChannelsOpen, Upgrade, Free

\* The steps of the server: the handlers, the pumps and the hub.
LEMMA ServerKeeps ==
  ASSUME HubInv, ServerStep
  PROVE  HubInv'
<1>1. CASE AddWatch \/ HandleEvent \/ TimerFires \/ PollTick
  BY <1>1, HubUntouched DEF AddWatch, HandleEvent, TimerFires, PollTick, hubVars, hub
<1>2. CASE \E l \in Loads : loadState(l)
  BY <1>2, HubUntouched DEF loadState, ReadState, SetState, Broadcast, hubVars, hub
<1>3. CASE RunBroadcast
  BY <1>3 DEF RunBroadcast, HubInv, HubChannelsOpen
<1>4. ASSUME NEW c \in Conns, Register(c) PROVE HubInv'
  BY <1>4 DEF Register, HubInv, HubChannelsOpen
<1>5. ASSUME NEW c \in Conns, GetState(c) PROVE HubInv'
  BY <1>5 DEF GetState, hubVars, HubInv, HubChannelsOpen
<1>6. ASSUME NEW c \in Conns, Greet(c) PROVE HubInv'
  BY <1>6 DEF Greet, hubVars, HubInv, HubChannelsOpen
<1>7. ASSUME NEW c \in Conns, Unregister(c) PROVE HubInv'
  BY <1>7 DEF Unregister, HubInv, HubChannelsOpen
<1>8. ASSUME NEW c \in Conns, EndWritePump(c) PROVE HubInv'
  BY <1>8, HubUntouched DEF EndWritePump, hub
<1>. QED BY <1>1, <1>2, <1>3, <1>4, <1>5, <1>6, <1>7, <1>8 DEF ServerStep

\* Every step of the server, of the browser and of their surroundings keeps
\* the invariant.
LEMMA HubStep == HubInv /\ [FeedNext]_allVars => HubInv'
<1>. SUFFICES ASSUME HubInv, [FeedNext]_allVars PROVE HubInv'
  OBVIOUS
<1>1. CASE Server
  BY <1>1, ServerKeeps DEF Server
<1>2. CASE Open
  BY <1>2, UpgradeKeeps DEF Open
<1>3. CASE Write \/ Break \/ LoadError
  BY Zenon, <1>3, HubUntouched DEF Write, WriteFile, Break, Disconnect, LoadError, LoadFails, hubVars, hub
<1>4. CASE Close \/ Connect \/ Poll
  BY <1>4, HubUntouched DEF Close, Closed, Connect, Poll, webVars, hubVars, hub
<1>5. CASE \E c \in Conns : Message(c)
  BY <1>5, HubUntouched DEF Message, TakeMessage, hubVars, hub
<1>6. CASE \E p \in Polls : ServePoll(p) \/ Reply(p) \/ ReplyFails(p)
  BY <1>6, HubUntouched DEF ServePoll, Reply, ReplyFails, webVars, hubVars, hub
<1>7. CASE UNCHANGED allVars
  BY <1>7, HubUntouched DEF allVars, webVars, hubVars, hub
<1>. QED BY <1>1, <1>2, <1>3, <1>4, <1>5, <1>6, <1>7 DEF FeedNext

\* However many clients connect, are dropped for being slow and unregister
\* themselves, the hub holds only open channels (websocket.go:142-162).
THEOREM HubIsSafe == FeedSpec => []HubChannelsOpen
<1>1. HubInv => HubChannelsOpen
  BY DEF HubInv
<1>. QED BY HubInitially, HubStep, <1>1, PTL DEF FeedSpec
-----------------------------------------------------------------------------
(* That the screen is current once everything has settled: where the       *)
(* newest snapshot is on its way from the file to the screen.              *)

Stages == {"none", "read", "set", "broadcast"}

\* Nothing that is on its way is newer than the file.
FeedTypeOK ==
  /\ {file, cached, latest} \subseteq Nat
  /\ wpc \in {"load", "loop", "poll"}
  /\ cached <= file
  /\ loads \in [Loads -> [pc : Stages, data : Nat]]
  /\ \A l \in Loads : loads[l].data <= file
  /\ poll \in [Polls -> [pc : {"none", "asked", "served"}, data : Nat]]
  /\ \A p \in Polls : poll[p].data <= file
  /\ bqueue \in Seq(Nat) /\ send \in [Conns -> Seq(Nat)]
  /\ greeting \in [Conns -> Nat]

\* Without a race there is one load at a time; when the file need not be read
\* again, every load under way has it, and it is cached or about to be.
LoadInv ==
  ~raced =>
    /\ \A k, l \in Loads : loads[k].pc # "none" /\ loads[l].pc # "none" => k = l
    /\ file # 0 /\ ~ToRead =>
         /\ \A l \in Loads : loads[l].pc # "none" => loads[l].data = file
         /\ cached = file \/ \E l \in Loads : loads[l].pc = "set"

\* The file has been read and handed to the hub.
Delivered == ~raced /\ file # 0 /\ ~ToRead /\ \A l \in Loads : loads[l].pc = "none"

EndsWith(q, x) == q # <<>> => q[Len(q)] = x

\* What is handed to the hub is the last of what waits there; once the hub is
\* through with it, the last of what waits for the browser's connection, or
\* on the screen.
ScreenInv ==
  Delivered =>
    /\ EndsWith(bqueue, file)
    /\ ws \in clients /\ hpc[ws] = "none" /\ bqueue = <<>> =>
         EndsWith(send[ws], file) /\ (send[ws] = <<>> => latest = file)

\* The screen shows what it was last brought up to.
LatestShown ==
  /\ screen # 0 => stamp[screen] # 0
  /\ latest # 0 => Shows(latest)

FeedInv == HubInv /\ FeedTypeOK /\ LoadInv /\ ScreenInv /\ LatestShown

\* It holds before the first load.
LEMMA FeedInitially == FeedInit => FeedInv
<1>. SUFFICES ASSUME FeedInit PROVE FeedInv
  OBVIOUS
<1>1. HubInv
  BY HubInitially
<1>2. 1 \in Loads /\ loads[1].pc = "read"
  BY WebAssumption DEF FeedInit, WebInit, Loads
<1>3. ToRead
  BY <1>2 DEF ToRead
<1>4. FeedTypeOK
  BY DEF FeedTypeOK, FeedInit, WebInit, Idle, Stages
<1>5. \A k, l \in Loads : loads[k].pc # "none" /\ loads[l].pc # "none" => k = l
  BY DEF FeedInit, WebInit, Idle
<1>6. LatestShown
  BY DEF FeedInit, LatestShown
<1>. QED BY <1>1, <1>3, <1>4, <1>5, <1>6 DEF FeedInv, LoadInv, ScreenInv, Delivered

\* What the three parts of the invariant speak of
watching == <<file, heard, timer, wpc, newer, loads, cached, raced>>

\* A channel stays a sequence of snapshots.
LEMMA ChannelType ==
  ASSUME NEW q \in Seq(Nat), NEW x \in Nat
  PROVE  Append(q, x) \in Seq(Nat)
  OBVIOUS

\* Nor does taking the oldest snapshot out of it.
LEMMA ChannelRest ==
  ASSUME NEW q \in Seq(Nat), q # <<>>
  PROVE  Tail(q) \in Seq(Nat) /\ Head(q) \in Nat
  OBVIOUS

\* A write makes a later file.
LEMMA LaterFile ==
  ASSUME NEW f \in Nat
  PROVE  f + 1 \in Nat /\ \A n \in Nat : n <= f => n <= f + 1
  OBVIOUS

\* What is being loaded or served is the number of a write.
LEMMA DataTypes ==
  ASSUME FeedTypeOK
  PROVE  (\A l \in Loads : loads[l].data \in Nat) /\ (\A p \in Polls : poll[p].data \in Nat)
<1>1. \A l \in Loads : loads[l] \in [pc : Stages, data : Nat]
  BY Zenon DEF FeedTypeOK
<1>2. \A p \in Polls : poll[p] \in [pc : {"none", "asked", "served"}, data : Nat]
  BY Zenon DEF FeedTypeOK
<1>. QED BY <1>1, <1>2

\* The steps of the watcher and of loadState keep the types.
LEMMA WatcherTypes ==
  ASSUME FeedTypeOK,
         \/ AddWatch \/ HandleEvent \/ TimerFires \/ PollTick
         \/ \E l \in Loads : loadState(l),
         UNCHANGED feedVars
  PROVE  FeedTypeOK'
<1>. USE DEF FeedTypeOK, feedVars, hubVars, Stages, Idle
<1>1. CASE AddWatch \/ HandleEvent
  BY <1>1 DEF AddWatch, HandleEvent
<1>2. CASE TimerFires
  BY <1>2 DEF TimerFires, Start
<1>3. CASE PollTick
  BY <1>3, WebAssumption DEF PollTick, Start, Loads
<1>4. ASSUME NEW l \in Loads, ReadState(l) PROVE FeedTypeOK'
  BY <1>4 DEF ReadState
<1>5. ASSUME NEW l \in Loads, SetState(l) PROVE FeedTypeOK'
  BY Zenon, <1>5 DEF SetState
<1>6. ASSUME NEW l \in Loads, Broadcast(l) PROVE FeedTypeOK'
  <2>1. loads[l].data \in Nat /\ bqueue \in Seq(Nat)
    BY <1>6
  <2>2. bqueue' \in Seq(Nat)
    <3>1. bqueue' = bqueue \/ bqueue' = Append(bqueue, loads[l].data)
      BY Zenon, <1>6 DEF Broadcast
    <3>. QED BY Zenon, <2>1, <3>1, ChannelType
  <2>3. loads' = [loads EXCEPT ![l] = Idle]
        /\ UNCHANGED <<file, wpc, cached, poll, send, greeting, latest>>
    BY <1>6 DEF Broadcast
  <2>. QED BY <1>6, <2>2, <2>3
<1>. QED BY Zenon, <1>1, <1>2, <1>3, <1>4, <1>5, <1>6 DEF loadState

\* So do those of the hub and of the handlers.
LEMMA HubTypes ==
  ASSUME FeedTypeOK, HubInv,
         \/ RunBroadcast
         \/ \E c \in Conns : Register(c) \/ GetState(c) \/ Greet(c) \/ Unregister(c) \/ EndWritePump(c),
         UNCHANGED feedVars
  PROVE  FeedTypeOK'
<1>. USE DEF FeedTypeOK, feedVars, hubVars, watchVars
<1>1. CASE RunBroadcast
  <2>1. /\ bqueue # <<>> /\ bqueue' = Tail(bqueue)
        /\ UNCHANGED <<file, wpc, cached, loads, poll, greeting, latest>>
    BY Zenon, <1>1 DEF RunBroadcast
  <2>2. PICK S : send' = [c \in Conns |-> IF c \in S THEN Append(send[c], Head(bqueue))
                                         ELSE send[c]]
    BY Zenon, <1>1 DEF RunBroadcast
  <2>3. bqueue' \in Seq(Nat) /\ Head(bqueue) \in Nat
    BY Zenon, <2>1, ChannelRest
  <2>4. \A c \in Conns : send[c] \in Seq(Nat) /\ Append(send[c], Head(bqueue)) \in Seq(Nat)
    BY Zenon, <2>3, ChannelType
  <2>5. send' \in [Conns -> Seq(Nat)]
    BY Zenon, <2>2, <2>4
  <2>. QED BY Zenon, <2>1, <2>3, <2>5
<1>2. ASSUME NEW c \in Conns, Register(c) \/ Unregister(c) \/ EndWritePump(c) PROVE FeedTypeOK'
  <2>1. UNCHANGED <<file, wpc, cached, loads, poll, bqueue, send, greeting, latest>>
    BY Zenon, <1>2 DEF Register, Unregister, EndWritePump
  <2>. QED BY Zenon, <2>1
<1>3. ASSUME NEW c \in Conns, GetState(c) PROVE FeedTypeOK'
  BY Zenon, <1>3 DEF GetState
<1>4. ASSUME NEW c \in Conns, Greet(c) PROVE FeedTypeOK'
  <2>1. /\ send' = IF closed[c] THEN send ELSE [send EXCEPT ![c] = Append(@, greeting[c])]
        /\ greeting' = [greeting EXCEPT ![c] = 0]
        /\ UNCHANGED <<file, wpc, cached, loads, poll, bqueue, latest>>
    BY Zenon, <1>4 DEF Greet
  <2>2. Append(send[c], greeting[c]) \in Seq(Nat)
    BY Zenon, <1>4, ChannelType
  <2>3. send' \in [Conns -> Seq(Nat)]
    BY Zenon, <2>1, <2>2
  <2>4. greeting' \in [Conns -> Nat]
    BY <2>1
  <2>. QED BY Zenon, <2>1, <2>3, <2>4
<1>. QED BY Zenon, <1>1, <1>2, <1>3, <1>4

\* And those of the browser.
LEMMA BrowserTypes ==
  ASSUME FeedTypeOK,
         \/ Write \/ Break \/ LoadError \/ Open \/ Close \/ Connect \/ Poll
         \/ \E c \in Conns : Message(c)
         \/ \E p \in Polls : ServePoll(p) \/ Reply(p) \/ ReplyFails(p)
  PROVE  FeedTypeOK'
<1>. USE DEF FeedTypeOK, feedVars, webVars, hubVars, watchVars, Idle
<1>1. CASE Write
  <2>1. file' = file + 1
        /\ UNCHANGED <<wpc, cached, loads, poll, bqueue, send, greeting, latest>>
    BY Zenon, <1>1 DEF Write, WriteFile
  <2>2. {file, cached, latest} \subseteq Nat /\ cached <= file
    BY Zenon
  <2>3. file' \in Nat /\ \A n \in Nat : n <= file => n <= file'
    BY Zenon, <2>1, <2>2, LaterFile
  <2>4. cached <= file' /\ (\A l \in Loads : loads[l].data <= file')
          /\ (\A p \in Polls : poll[p].data <= file')
    BY Zenon, <2>2, <2>3, DataTypes
  <2>. QED BY Zenon, <2>1, <2>2, <2>3, <2>4
<1>2. CASE Break \/ Close \/ Connect
  BY Zenon, <1>2 DEF Break, Disconnect, Close, Closed, Connect
<1>3. CASE Open
  <2>1. send' = [send EXCEPT ![ws] = <<>>] /\ <<>> \in Seq(Nat)
    BY Zenon, <1>3, EmptySeq DEF Open, Upgrade
  <2>2. send' \in [Conns -> Seq(Nat)]
    BY Zenon, <2>1
  <2>3. UNCHANGED <<file, wpc, cached, loads, poll, bqueue, greeting, latest>>
    BY Zenon, <1>3 DEF Open, Upgrade
  <2>. QED BY Zenon, <2>2, <2>3
<1>4. CASE Poll
  BY Zenon, <1>4 DEF Poll
<1>5. ASSUME NEW c \in Conns, Message(c) PROVE FeedTypeOK'
  <2>1. /\ send[c] # <<>> /\ send' = [send EXCEPT ![c] = Tail(@)]
        /\ latest' = IF ws = c THEN Head(send[c]) ELSE latest
        /\ UNCHANGED <<file, wpc, cached, loads, poll, bqueue, greeting>>
    BY Zenon, <1>5 DEF Message, TakeMessage
  <2>2. Tail(send[c]) \in Seq(Nat) /\ Head(send[c]) \in Nat
    BY Zenon, <1>5, <2>1, ChannelRest
  <2>3. send' \in [Conns -> Seq(Nat)] /\ latest' \in Nat
    BY Zenon, <2>1, <2>2
  <2>. QED BY Zenon, <2>1, <2>3
<1>6. ASSUME NEW p \in Polls, ServePoll(p) PROVE FeedTypeOK'
  BY <1>6 DEF ServePoll
<1>7. ASSUME NEW p \in Polls, Reply(p) PROVE FeedTypeOK'
  <2>1. latest' = latest \/ latest' = poll[p].data
    BY Zenon, <1>7 DEF Reply
  <2>2. poll' = [poll EXCEPT ![p] = Idle]
        /\ UNCHANGED <<file, wpc, cached, loads, bqueue, send, greeting>>
    BY Zenon, <1>7 DEF Reply
  <2>. QED BY <1>7, <2>1, <2>2, DataTypes
<1>8. ASSUME NEW p \in Polls, ReplyFails(p) PROVE FeedTypeOK'
  BY <1>8 DEF ReplyFails
<1>9. CASE LoadError
  BY <1>9 DEF LoadError, LoadFails, Stages
<1>. QED BY Zenon, <1>1, <1>2, <1>3, <1>4, <1>5, <1>6, <1>7, <1>8, <1>9

\* A step that leaves the watcher alone, but for a race, keeps its part.
LEMMA LoadUntouched ==
  ASSUME LoadInv, ~raced' => ~raced,
         UNCHANGED <<file, heard, timer, wpc, newer, loads, cached>>
  PROVE  LoadInv'
  BY Zenon DEF LoadInv, ToRead

\* A write is read by somebody, or is a race.
LEMMA WriteIsToRead ==
  ASSUME FeedTypeOK, LoadInv, Write, ~raced'
  PROVE  /\ \A k, l \in Loads : loads[k].pc # "none" /\ loads[l].pc # "none" => k = l
         /\ ToRead'
<1>1. \A k, l \in Loads : loads[k].pc # "none" /\ loads[l].pc # "none" => k = l
  <2>1. ~raced \/ Settled
    BY Zenon DEF Write
  <2>2. Settled => \A l \in Loads : loads[l].pc = "none"
    BY DEF Settled, Loading, Idle
  <2>. QED BY Zenon, <2>1, <2>2 DEF LoadInv
<1>. QED BY Zenon, <1>1 DEF Write

\* Either way it keeps the watcher's part.
LEMMA WriteLoad ==
  ASSUME FeedTypeOK, LoadInv, Write
  PROVE  LoadInv'
  BY Zenon, WriteIsToRead DEF Write, WriteFile, LoadInv

\* A load that fails leaves another reason to read, or is a race.
LEMMA ErrorLoad ==
  ASSUME FeedTypeOK, LoadInv, LoadError
  PROVE  LoadInv' /\ ~Delivered'
<1>1. PICK l \in Loads : LoadFails(l)
  BY Zenon DEF LoadError
<1>2. ~raced' => ~raced /\ ToRead'
  BY Zenon, <1>1 DEF LoadFails
<1>3. \A k \in Loads : loads'[k].pc # "none" => loads[k].pc # "none"
  BY <1>1 DEF LoadFails, FeedTypeOK, Idle
<1>. QED BY Zenon, <1>2, <1>3 DEF LoadInv, Delivered

\* loadState reads the file, caches it and hands it on.
LEMMA LoadStateLoad ==
  ASSUME FeedTypeOK, LoadInv, NEW l \in Loads, loadState(l)
  PROVE  LoadInv'
<1>. SUFFICES ASSUME ~raced' PROVE LoadInv'
  BY DEF LoadInv
<1>0. ~raced /\ UNCHANGED <<file, heard, timer, wpc, newer>>
      /\ \A k \in Loads : k # l => loads'[k] = loads[k]
  BY DEF loadState, ReadState, SetState, Broadcast, FeedTypeOK
<1>1. \A k, m \in Loads : loads[k].pc # "none" /\ loads[m].pc # "none" => k = m
  BY <1>0 DEF LoadInv
<1>2. loads[l].pc # "none"
  BY DEF loadState, ReadState, SetState, Broadcast
<1>3. \A k \in Loads : k # l => loads'[k].pc = "none"
  BY <1>0, <1>1, <1>2
<1>4. CASE ReadState(l)
  <2>1. file # 0 => loads'[l] = [pc |-> "set", data |-> file]
    BY <1>4 DEF ReadState, FeedTypeOK
  <2>2. file # 0 => loads'[l].pc = "set" /\ loads'[l].data = file
    BY <2>1
  <2>. QED BY Zenon, <1>0, <1>3, <2>2 DEF LoadInv
<1>5. CASE SetState(l)
  <2>1. loads'[l].pc = "broadcast" /\ loads'[l].data = loads[l].data /\ cached' = loads[l].data
    BY <1>5 DEF SetState, FeedTypeOK
  <2>2. ToRead => ToRead'
    BY <1>0, <1>1, <1>5, <2>1 DEF ToRead, SetState
  <2>3. file # 0 /\ ~ToRead => loads[l].data = file
    BY Zenon, <1>0, <1>2 DEF LoadInv
  <2>. QED BY Zenon, <1>0, <1>3, <2>1, <2>2, <2>3 DEF LoadInv
<1>6. CASE Broadcast(l)
  <2>1. loads'[l].pc = "none" /\ cached' = cached
    BY <1>6 DEF Broadcast, FeedTypeOK, Idle
  <2>2. ToRead => ToRead'
    BY <1>0, <1>1, <1>6, <2>1 DEF ToRead, Broadcast
  <2>3. file # 0 /\ ~ToRead => cached = file
    BY <1>0, <1>1, <1>6 DEF LoadInv, Broadcast
  <2>. QED BY <1>0, <1>3, <2>1, <2>2, <2>3 DEF LoadInv
<1>. QED BY <1>4, <1>5, <1>6 DEF loadState

\* Every step keeps it.
LEMMA LoadStep ==
  ASSUME FeedTypeOK, LoadInv, FeedNext
  PROVE  LoadInv'
<1>1. CASE AddWatch
  BY <1>1 DEF AddWatch, LoadInv, ToRead
<1>2. CASE HandleEvent
  BY <1>2 DEF HandleEvent, LoadInv, ToRead
<1>3. CASE TimerFires
  <2>. SUFFICES ASSUME ~raced' PROVE LoadInv'
    BY DEF LoadInv
  <2>1. PICK l \in Loads : Start(l)
    BY <1>3 DEF TimerFires
  <2>2. Loading = {} /\ ~raced
    BY Zenon, <1>3 DEF TimerFires
  <2>3. \A k \in Loads : loads[k].pc = "none"
    BY <2>2 DEF Loading, Idle
  <2>4. loads'[l].pc = "read" /\ \A k \in Loads : k # l => loads'[k].pc = "none"
    BY <2>1, <2>3 DEF Start, FeedTypeOK
  <2>. QED BY Zenon, <2>4 DEF LoadInv, ToRead
<1>4. CASE PollTick
  <2>1. 1 \in Loads /\ \A k \in Loads : loads[k].pc = "none"
    BY <1>4, WebAssumption DEF PollTick, Loading, Idle, Loads
  <2>2. loads'[1].pc = "read" /\ \A k \in Loads : k # 1 => loads'[k].pc = "none"
    BY <1>4, <2>1 DEF PollTick, Start, FeedTypeOK
  <2>. QED BY Zenon, <2>1, <2>2 DEF LoadInv, ToRead
<1>5. CASE \E c \in Conns : Greet(c)
  BY Zenon, <1>5, LoadUntouched DEF Greet, watchVars
<1>6. CASE \E p \in Polls : Reply(p)
  BY Zenon, <1>6, LoadUntouched DEF Reply, watchVars
<1>7. CASE UNCHANGED watching
  BY <1>7, LoadUntouched DEF watching
<1>8. RunBroadcast \/ (\E c \in Conns : Register(c) \/ GetState(c) \/ Unregister(c) \/ EndWritePump(c))
        => UNCHANGED watching
  BY DEF RunBroadcast, Register, GetState, Unregister, EndWritePump, watchVars, watching
<1>9. Break \/ Open \/ Close \/ Connect \/ Poll => UNCHANGED watching
  BY DEF Break, Disconnect, Open, Upgrade, Close, Closed, Connect, Poll, webVars, watchVars, watching
<1>10. (\E c \in Conns : Message(c)) \/ (\E p \in Polls : ServePoll(p) \/ ReplyFails(p))
        => UNCHANGED watching
  BY DEF Message, TakeMessage, ServePoll, ReplyFails, webVars, watchVars, watching
<1>. QED BY <1>1, <1>2, <1>3, <1>4, <1>5, <1>6, <1>7, <1>8, <1>9, <1>10, WriteLoad, ErrorLoad, LoadStateLoad
         DEF FeedNext, Server, ServerStep

\* A step that delivers nothing and moves nothing keeps the screen's part, for
\* a connection that was the browser's and ready before.
LEMMA ScreenUntouched ==
  ASSUME ScreenInv, Delivered' => Delivered /\ file' = file,
         UNCHANGED <<bqueue, latest>>,
         ws' \in clients' /\ hpc'[ws'] = "none" =>
           ws' = ws /\ ws \in clients /\ hpc[ws] = "none" /\ send'[ws] = send[ws]
  PROVE  ScreenInv'
  BY Zenon DEF ScreenInv, EndsWith

\* While the watcher and the loads stay as they are, only a race undoes it.
LEMMA DeliveredBefore ==
  ASSUME ~raced' => ~raced, UNCHANGED <<file, heard, timer, wpc, newer, loads>>
  PROVE  Delivered' => Delivered /\ file' = file
  BY Zenon DEF Delivered, ToRead

\* What is delivered is cached.
LEMMA DeliveredIsCached ==
  ASSUME LoadInv, Delivered
  PROVE  cached = file /\ cached # 0
  BY DEF LoadInv, Delivered

\* The watcher delivers by handing the newest snapshot to the hub.
LEMMA WatcherScreen ==
  ASSUME FeedInv, UNCHANGED feedVars,
         \/ AddWatch \/ HandleEvent \/ TimerFires \/ PollTick
         \/ \E l \in Loads : loadState(l)
  PROVE  ScreenInv'
<1>. SUFFICES ASSUME Delivered' PROVE ScreenInv'
  BY DEF ScreenInv
<1>0. FeedTypeOK /\ LoadInv /\ ScreenInv /\ LoadInv'
  <2>1. FeedNext
    BY Zenon DEF FeedNext, Server, ServerStep
  <2>. QED BY Zenon, <2>1, LoadStep DEF FeedInv
<1>1. CASE AddWatch
  <2>1. Delivered /\ file' = file
    BY Zenon, <1>1 DEF AddWatch, Delivered, ToRead
  <2>2. UNCHANGED <<bqueue, latest, send, ws, clients, hpc>>
    BY Zenon, <1>1 DEF AddWatch, hubVars, feedVars
  <2>. QED BY Zenon, <1>0, <2>1, <2>2, ScreenUntouched
<1>2. CASE HandleEvent
  BY Zenon, <1>2 DEF HandleEvent, Delivered, ToRead
<1>3. CASE TimerFires
  <2>1. PICK l \in Loads : Start(l)
    BY <1>3 DEF TimerFires
  <2>2. loads'[l].pc = "read"
    BY <1>0, <2>1 DEF Start, FeedTypeOK
  <2>. QED BY <2>2 DEF Delivered
<1>4. CASE PollTick
  <2>1. 1 \in Loads
    BY WebAssumption DEF Loads
  <2>2. loads'[1].pc = "read"
    BY <1>0, <1>4, <2>1 DEF PollTick, Start, FeedTypeOK
  <2>. QED BY <2>1, <2>2 DEF Delivered
<1>5. ASSUME NEW l \in Loads, loadState(l) PROVE ScreenInv'
  <2>1. CASE ReadState(l)
    <3>1. file # 0
      BY <2>1 DEF ReadState, Delivered
    <3>2. loads'[l].pc = "set"
      BY Zenon, <1>0, <2>1, <3>1 DEF ReadState, FeedTypeOK
    <3>. QED BY <3>2 DEF Delivered
  <2>2. CASE SetState(l)
    <3>1. loads'[l].pc = "broadcast"
      BY <1>0, <2>2 DEF SetState, FeedTypeOK
    <3>. QED BY <3>1 DEF Delivered
  <2>3. CASE Broadcast(l)
    <3>1. ~raced /\ ~ToRead /\ file # 0 /\ file' = file
      <4>1. ~raced /\ ~raced' /\ file' = file /\ file' # 0 /\ ~ToRead'
        BY Zenon, <2>3 DEF Broadcast, Delivered
      <4>2. \A k \in Loads : k # l => loads'[k] = loads[k]
        BY Zenon, <1>0, <2>3 DEF Broadcast, FeedTypeOK
      <4>3. ToRead => ToRead'
        BY Zenon, <2>3, <4>2 DEF Broadcast, ToRead
      <4>. QED BY <4>1, <4>3
    <3>2. loads[l].data = file
      BY <1>0, <2>3, <3>1 DEF LoadInv, Broadcast
    <3>3. bqueue' = Append(bqueue, file) /\ bqueue \in Seq(Nat) /\ file \in Nat
      BY <1>0, <2>3, <3>2 DEF Broadcast, Delivered, FeedTypeOK
    <3>4. bqueue' # <<>> /\ bqueue'[Len(bqueue')] = file
      BY <3>3
    <3>. QED BY Zenon, <3>1, <3>4 DEF ScreenInv, EndsWith
  <2>. QED BY <1>5, <2>1, <2>2, <2>3 DEF loadState
<1>. QED BY <1>1, <1>2, <1>3, <1>4, <1>5

\* Taking the first off a queue leaves its last.
LEMMA TailEndsWith ==
  ASSUME NEW q \in Seq(Nat), q # <<>>, NEW x, EndsWith(q, x)
  PROVE  /\ Tail(q) \in Seq(Nat) /\ EndsWith(Tail(q), x)
         /\ Tail(q) = <<>> => Head(q) = x
<1>1. q[Len(q)] = x /\ Len(q) \in Nat \ {0}
  BY EmptySeq DEF EndsWith
<1>2. Tail(q) \in Seq(Nat) /\ Len(Tail(q)) = Len(q) - 1 /\ Head(q) = q[1]
        /\ \A i \in 1 .. Len(Tail(q)) : Tail(q)[i] = q[i + 1]
  BY HeadTailProperties
<1>3. EndsWith(Tail(q), x)
  <2>. SUFFICES ASSUME Tail(q) # <<>> PROVE Tail(q)[Len(Tail(q))] = x
    BY DEF EndsWith
  <2>1. Len(Tail(q)) \in Nat \ {0}
    BY <1>2, EmptySeq
  <2>. QED BY <1>1, <1>2, <2>1
<1>4. Tail(q) = <<>> => Len(Tail(q)) = 0
  BY Zenon, <1>2, EmptySeq
<1>. QED BY <1>1, <1>2, <1>3, <1>4

\* What is put last into a queue is its last.
LEMMA AppendEndsWith ==
  ASSUME NEW q \in Seq(Nat), NEW x \in Nat
  PROVE  Append(q, x) # <<>> /\ EndsWith(Append(q, x), x)
  BY DEF EndsWith

\* The hub passes it on in order, and a greeting is as new as the cache.
LEMMA HubScreen ==
  ASSUME FeedInv, UNCHANGED feedVars,
         \/ RunBroadcast
         \/ \E c \in Conns : Register(c) \/ GetState(c) \/ Greet(c) \/ Unregister(c) \/ EndWritePump(c)
  PROVE  ScreenInv'
<1>. SUFFICES ASSUME Delivered' PROVE ScreenInv'
  BY Zenon DEF ScreenInv
<1>0. FeedTypeOK /\ LoadInv /\ ScreenInv /\ HubInv /\ file \in Nat
  BY Zenon DEF FeedInv, FeedTypeOK
<1>a. ws' = ws /\ latest' = latest
  BY DEF feedVars
<1>1. Delivered /\ file' = file
  <2>1. UNCHANGED <<file, heard, timer, wpc, newer, loads>>
    BY Zenon DEF RunBroadcast, Register, GetState, Greet, Unregister, EndWritePump, watchVars
  <2>2. ~raced' => ~raced
    BY Zenon DEF RunBroadcast, Register, GetState, Greet, Unregister, EndWritePump
  <2>. QED BY Zenon, <2>1, <2>2, DeliveredBefore
<1>2. EndsWith(bqueue, file)
        /\ (ws \in clients /\ hpc[ws] = "none" /\ bqueue = <<>> =>
              EndsWith(send[ws], file) /\ (send[ws] = <<>> => latest = file))
  BY Zenon, <1>0, <1>1 DEF ScreenInv
<1>3. CASE RunBroadcast
  <2>1. bqueue \in Seq(Nat) /\ bqueue # <<>> /\ bqueue' = Tail(bqueue) /\ hpc' = hpc
    BY Zenon, <1>0, <1>3 DEF RunBroadcast, FeedTypeOK
  <2>2. EndsWith(bqueue', file) /\ (bqueue' = <<>> => Head(bqueue) = file)
    BY Zenon, <1>2, <2>1, TailEndsWith
  <2>3. ASSUME ws \in clients', bqueue' = <<>>
        PROVE  send'[ws] # <<>> /\ EndsWith(send'[ws], file)
    <3>1. ws \in Conns /\ send'[ws] = Append(send[ws], file) /\ send[ws] \in Seq(Nat)
      BY Zenon, <1>0, <1>3, <2>2, <2>3 DEF RunBroadcast, HubInv, FeedTypeOK
    <3>. QED BY Zenon, <1>0, <3>1, AppendEndsWith
  <2>. QED BY Zenon, <1>1, <1>a, <2>2, <2>3 DEF ScreenInv
<1>4. ASSUME NEW c \in Conns, Register(c) PROVE ScreenInv'
  <2>1. UNCHANGED <<bqueue, send>> /\ clients' = clients \cup {c} /\ hpc' = [hpc EXCEPT ![c] = "get"]
    BY <1>4 DEF Register
  <2>2. ws \in clients' /\ hpc'[ws] = "none" => ws \in clients /\ hpc[ws] = "none"
    BY <1>0, <2>1 DEF HubInv
  <2>. QED BY Zenon, <1>0, <1>1, <1>a, <2>1, <2>2, ScreenUntouched
<1>5. ASSUME NEW c \in Conns, GetState(c) PROVE ScreenInv'
  <2>1. cached # 0
    BY <1>0, <1>1, DeliveredIsCached
  <2>2. UNCHANGED <<bqueue, send, clients>> /\ hpc' = [hpc EXCEPT ![c] = "send"]
    BY <1>5, <2>1 DEF GetState, hubVars
  <2>3. ws \in clients' /\ hpc'[ws] = "none" => ws \in clients /\ hpc[ws] = "none"
    BY <1>0, <2>2 DEF HubInv
  <2>. QED BY Zenon, <1>0, <1>1, <1>a, <2>2, <2>3, ScreenUntouched
<1>6. ASSUME NEW c \in Conns, Greet(c) PROVE ScreenInv'
  <2>1. UNCHANGED <<bqueue, clients>> /\ hpc' = [hpc EXCEPT ![c] = "none"]
    BY <1>6 DEF Greet, hubVars
  <2>2. CASE c # ws
    <3>1. send'[ws] = send[ws] \/ ws \notin Conns
      BY <1>0, <1>6, <2>2 DEF Greet, FeedTypeOK
    <3>2. ws \in clients' /\ hpc'[ws] = "none" =>
            ws \in clients /\ hpc[ws] = "none" /\ send'[ws] = send[ws]
      BY Zenon, <1>0, <2>1, <2>2, <3>1 DEF HubInv
    <3>. QED BY Zenon, <1>0, <1>1, <1>a, <2>1, <3>2, ScreenUntouched
  <2>3. CASE c = ws
    <3>1. greeting[c] = file
      <4>1. greeting[c] = cached
        BY Zenon, <1>6 DEF Greet, Delivered
      <4>. QED BY <1>0, <1>1, <4>1, DeliveredIsCached
    <3>2. ASSUME ws \in clients PROVE send'[ws] # <<>> /\ EndsWith(send'[ws], file)
      <4>1. ~closed[ws]
        BY <1>0, <3>2 DEF HubInv, HubChannelsOpen
      <4>2. send' = [send EXCEPT ![c] = Append(@, file)]
        BY Zenon, <1>6, <2>3, <3>1, <4>1 DEF Greet
      <4>3. send'[ws] = Append(send[ws], file) /\ send[ws] \in Seq(Nat)
        BY <1>0, <2>3, <4>2 DEF FeedTypeOK
      <4>. QED BY <1>0, <4>3, AppendEndsWith
    <3>. QED BY Zenon, <1>1, <1>2, <1>a, <2>1, <3>2 DEF ScreenInv
  <2>. QED BY <2>2, <2>3
<1>7. ASSUME NEW c \in Conns, Unregister(c) \/ EndWritePump(c) PROVE ScreenInv'
  <2>1. UNCHANGED <<bqueue, send, hpc>> /\ clients' \subseteq clients
    BY Zenon, <1>7 DEF Unregister, EndWritePump
  <2>. QED BY Zenon, <1>0, <1>1, <1>a, <2>1, ScreenUntouched
<1>. QED BY <1>3, <1>4, <1>5, <1>6, <1>7

\* The browser shows what comes, and an older reply is a race.
LEMMA BrowserScreen ==
  ASSUME FeedInv,
         \/ Write \/ Break \/ LoadError \/ Open \/ Close \/ Connect \/ Poll
         \/ \E c \in Conns : Message(c)
         \/ \E p \in Polls : ServePoll(p) \/ Reply(p) \/ ReplyFails(p)
  PROVE  ScreenInv'
<1>. SUFFICES ASSUME Delivered' PROVE ScreenInv'
  BY Zenon DEF ScreenInv
<1>0. FeedTypeOK /\ LoadInv /\ ScreenInv /\ HubInv /\ file \in Nat
  BY Zenon DEF FeedInv, FeedTypeOK
<1>1. CASE Write
  BY Zenon, <1>0, <1>1, WriteIsToRead DEF Delivered
<1>. SUFFICES ASSUME ~Write, ~LoadError PROVE ScreenInv'
  BY Zenon, <1>0, <1>1, ErrorLoad
<1>2. Delivered /\ file' = file
  <2>1. UNCHANGED <<file, heard, timer, wpc, newer, loads>>
    BY DEF Break, Disconnect, Open, Upgrade, Close, Closed, Connect, Poll,
     Message, TakeMessage, ServePoll, Reply, ReplyFails, webVars, watchVars
  <2>2. ~raced' => ~raced
    BY Zenon DEF Break, Disconnect, Open, Upgrade, Close, Closed, Connect, Poll,
     Message, TakeMessage, ServePoll, Reply, ReplyFails, webVars
  <2>. QED BY Zenon, <2>1, <2>2, DeliveredBefore
<1>3. CASE Break \/ Poll \/ \E p \in Polls : ServePoll(p) \/ ReplyFails(p)
  <2>1. UNCHANGED <<bqueue, send, latest, ws, clients, hpc>>
    BY <1>3 DEF Break, Disconnect, Poll, ServePoll, ReplyFails, webVars, hubVars
  <2>. QED BY Zenon, <1>0, <1>2, <2>1, ScreenUntouched
<1>4. CASE Open
  <2>1. UNCHANGED <<bqueue, latest, ws, clients>> /\ ws \notin clients
    BY <1>4 DEF Open, Upgrade, Free
  <2>. QED BY Zenon, <1>0, <1>2, <2>1, ScreenUntouched
<1>5. CASE Close
  <2>1. UNCHANGED <<bqueue, latest, clients>> /\ ws' = 0
    BY Zenon, <1>5 DEF Close, Closed, webVars, hubVars
  <2>2. 0 \notin clients
    BY <1>0, WebAssumption DEF HubInv
  <2>. QED BY Zenon, <1>0, <1>2, <2>1, <2>2, ScreenUntouched
<1>6. CASE Connect
  <2>1. UNCHANGED <<bqueue, latest, clients>> /\ Free(ws')
    BY Zenon, <1>6 DEF Connect, webVars, hubVars
  <2>. QED BY Zenon, <1>0, <1>2, <2>1, ScreenUntouched DEF Free
<1>7. ASSUME NEW c \in Conns, Message(c) PROVE ScreenInv'
  <2>1. UNCHANGED <<bqueue, ws, clients, hpc>> /\ send[c] \in Seq(Nat) /\ send[c] # <<>>
    BY Zenon, <1>0, <1>7 DEF Message, TakeMessage, hubVars, FeedTypeOK
  <2>2. CASE c # ws
    <3>1. latest' = latest /\ (ws \in Conns => send'[ws] = send[ws])
      BY Zenon, <1>0, <1>7, <2>2 DEF Message, TakeMessage, FeedTypeOK
    <3>2. clients \subseteq Conns
      BY <1>0 DEF HubInv
    <3>. QED BY Zenon, <1>0, <1>2, <2>1, <3>1, <3>2, ScreenUntouched
  <2>3. CASE c = ws
    <3>1. latest' = Head(send[ws]) /\ send'[ws] = Tail(send[ws])
      BY Zenon, <1>0, <1>7, <2>3 DEF Message, TakeMessage, FeedTypeOK
    <3>2. EndsWith(send[ws], file) =>
            EndsWith(send'[ws], file) /\ (send'[ws] = <<>> => latest' = file)
      BY Zenon, <2>1, <2>3, <3>1, TailEndsWith
    <3>. QED BY Zenon, <1>0, <1>2, <2>1, <3>2 DEF ScreenInv
  <2>. QED BY <2>2, <2>3
<1>8. ASSUME NEW p \in Polls, Reply(p) PROVE ScreenInv'
  <2>1. UNCHANGED <<bqueue, send, ws, clients, hpc>>
    BY <1>8 DEF Reply, hubVars
  <2>2. latest = file => latest' = file
    <3>1. poll[p].data \in Nat /\ poll[p].data <= file
      BY <1>0, <1>8, DataTypes DEF FeedTypeOK
    <3>2. ~(poll[p].data < latest /\ screen' # screen)
      BY Zenon, <1>8 DEF Reply, Delivered
    <3>3. latest' = IF poll[p].data > latest \/ screen' # screen THEN poll[p].data ELSE latest
      BY Zenon, <1>8 DEF Reply
    <3>. QED BY <1>0, <3>1, <3>2, <3>3
  <2>. QED BY Zenon, <1>0, <1>2, <2>1, <2>2 DEF ScreenInv
<1>. QED BY <1>3, <1>4, <1>5, <1>6, <1>7, <1>8

\* What acceptSnapshot leaves on screen is good, and shows what it was given.
LEMMA AcceptShows ==
  ASSUME NEW prev, NEW next, prev # 0 => stamp[prev] # 0
  PROVE  LET r == acceptSnapshot(prev, next)
         IN  /\ r # 0 => stamp[r] # 0
             /\ next # 0 /\ stamp[next] # 0 => r # 0 /\ stamp[r] = stamp[next]
  BY Zenon DEF acceptSnapshot

\* A step that leaves the screen alone keeps what is said of it.
LEMMA LatestUntouched ==
  ASSUME LatestShown, UNCHANGED <<screen, latest, stamp>>
  PROVE  LatestShown'
  BY Zenon DEF LatestShown, Shows

\* Only a message and a reply bring the screen up to date.
LEMMA LatestStep ==
  ASSUME FeedTypeOK, LatestShown, FeedNext
  PROVE  LatestShown'
<1>1. CASE Server \/ Write
  BY Zenon, <1>1, LatestUntouched DEF Server, Write, feedVars
<1>2. CASE Break \/ LoadError \/ Open \/ Close \/ Connect \/ Poll
  BY Zenon, <1>2, LatestUntouched DEF Break, LoadError, Open, Close, Closed, Connect, Poll
<1>3. ASSUME NEW c \in Conns, Message(c) PROVE LatestShown'
  <2>1. CASE ws # c
    BY Zenon, <1>3, <2>1, LatestUntouched DEF Message
  <2>2. CASE ws = c
    <3>1. screen' = acceptSnapshot(screen, Head(send[c])) /\ latest' = Head(send[c]) /\ stamp' = stamp
      BY Zenon, <1>3, <2>2 DEF Message
    <3>. QED BY Zenon, <3>1, AcceptShows DEF LatestShown, Shows
  <2>. QED BY <2>1, <2>2
<1>4. ASSUME NEW p \in Polls, Reply(p) PROVE LatestShown'
  <2>. DEFINE d == poll[p].data
  <2>1. /\ stamp' = stamp
        /\ screen' = IF d = 0 THEN screen ELSE acceptSnapshot(screen, d)
        /\ latest' = IF d > latest \/ screen' # screen THEN d ELSE latest
    BY Zenon, <1>4 DEF Reply
  <2>2. CASE latest' = latest /\ screen' = screen
    BY Zenon, <2>1, <2>2, LatestUntouched
  <2>3. CASE latest' = d /\ d # 0
    <3>1. screen' = acceptSnapshot(screen, d)
      BY Zenon, <2>1, <2>3
    <3>2. screen' # 0 => stamp[screen'] # 0
      BY Zenon, <3>1, AcceptShows DEF LatestShown
    <3>3. stamp[d] # 0 => screen' # 0 /\ stamp[screen'] = stamp[d]
      BY Zenon, <2>3, <3>1, AcceptShows DEF LatestShown
    <3>4. stamp'[latest'] = stamp[d] /\ stamp' = stamp
      BY Zenon, <2>1, <2>3
    <3>. QED BY Zenon, <3>2, <3>3, <3>4 DEF LatestShown, Shows
  <2>4. d = 0 => ~(d > latest)
    BY DEF FeedTypeOK
  <2>. QED BY Zenon, <2>1, <2>2, <2>3, <2>4
<1>5. ASSUME NEW p \in Polls, ServePoll(p) \/ ReplyFails(p) PROVE LatestShown'
  BY Zenon, <1>5, LatestUntouched DEF ServePoll, ReplyFails
<1>. QED BY Zenon, <1>1, <1>2, <1>3, <1>4, <1>5 DEF FeedNext

\* Every step keeps the whole invariant.
LEMMA FeedStep == FeedInv /\ [FeedNext]_allVars => FeedInv'
<1>. SUFFICES ASSUME FeedInv, [FeedNext]_allVars PROVE FeedInv'
  OBVIOUS
<1>1. HubInv'
  BY HubStep DEF FeedInv
<1>2. CASE UNCHANGED allVars
  <2>1. UNCHANGED <<file, heard, timer, wpc, newer, loads, cached, raced, poll, bqueue, send,
                    greeting, screen, latest, stamp, ws, clients, hpc>>
    BY <1>2 DEF allVars, webVars, watchVars, hubVars, feedVars
  <2>2. FeedTypeOK'
    BY Zenon, <2>1 DEF FeedInv, FeedTypeOK
  <2>3. LoadInv'
    BY Zenon, <2>1, LoadUntouched DEF FeedInv
  <2>4. ScreenInv'
    BY Zenon, <2>1, DeliveredBefore, ScreenUntouched DEF FeedInv
  <2>5. LatestShown'
    BY Zenon, <2>1, LatestUntouched DEF FeedInv
  <2>. QED BY <1>1, <2>2, <2>3, <2>4, <2>5 DEF FeedInv
<1>3. CASE FeedNext
  <2>1. LoadInv'
    BY <1>3, LoadStep DEF FeedInv
  <2>3. LatestShown'
    BY Zenon, <1>3, LatestStep DEF FeedInv
  <2>2. FeedTypeOK' /\ ScreenInv'
    BY Zenon, <1>3, WatcherTypes, HubTypes, BrowserTypes, WatcherScreen, HubScreen, BrowserScreen
       DEF FeedNext, Server, ServerStep, FeedInv
  <2>. QED BY <1>1, <2>1, <2>2, <2>3 DEF FeedInv
<1>. QED BY <1>2, <1>3

\* For any number of connections, loads and requests and any capacities: once
\* nothing is on its way, the screen shows the file, unless one of the races
\* that ScreenCurrent names lost it.
THEOREM ScreenIsCurrent == FeedSpec => []ScreenCurrent
<1>1. FeedInv => ScreenCurrent
  <2>. SUFFICES ASSUME FeedInv, Settled, ~raced, file # 0 PROVE Shows(file)
    BY DEF ScreenCurrent
  <2>1. \A l \in Loads : loads[l].pc = "none"
    <3>1. \A l \in Loads : loads[l] = Idle
      BY Zenon DEF Settled, Loading
    <3>2. Idle.pc = "none"
      BY DEF Idle
    <3>. QED BY Zenon, <3>1, <3>2
  <2>2. ~ToRead
    BY Zenon, <2>1 DEF Settled, ToRead
  <2>3. Delivered
    BY Zenon, <2>1, <2>2 DEF Delivered
  <2>4. latest = file
    BY Zenon, <2>3 DEF FeedInv, ScreenInv, Settled
  <2>. QED BY Zenon, <2>4 DEF FeedInv, LatestShown
<1>. QED BY FeedInitially, FeedStep, <1>1, PTL DEF FeedSpec
=============================================================================
