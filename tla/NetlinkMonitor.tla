--------------------------- MODULE NetlinkMonitor ---------------------------
(***************************************************************************)
(* The interface cache kept up to date from rtnetlink                      *)
(* (src/netlink_monitor.cpp) and what collect_network (src/probes.cpp)     *)
(* reports of it.  The kernel's links and addresses change at any time and *)
(* every change is announced on the monitor's socket, whose receive queue  *)
(* is bounded: an announcement that does not fit is lost, and the next     *)
(* read fails once (ENOBUFS).  init() subscribes before it asks for the    *)
(* two dumps, so that announcements and dumps overlap.                     *)
(***************************************************************************)
EXTENDS Integers, Sequences, FiniteSets, FiniteSetsExt, SequencesExt

CONSTANTS
  Names,        \* interface names
  Addrs,        \* IPv4 addresses
  NoAddr,       \* std::nullopt
  QueueCap,     \* announcements the socket can hold
  MaxIndex,     \* bound on interface indexes (for TLC)
  MaxChanges    \* bound on changes in the kernel (for TLC)

ASSUME NetlinkAssumption ==
  /\ IsFiniteSet(Addrs) /\ NoAddr \notin Addrs
  /\ {QueueCap, MaxIndex, MaxChanges} \subseteq Nat

VARIABLES
  links,      \* external: the kernel's links, by index
  lastIndex,  \* external: last index given out; they are not reused
  changes,    \* bound
  nqueue,     \* external: the socket's receive queue
  overrun,    \* external: its pending ENOBUFS
  npc,        \* "down", "failed", in init "dump", "links", "addr_dump",
              \*   "addrs"; between two cycles "idle", in drain_events "drain"
  cache,      \* cache_
  \* history
  lossy,      \* an announcement was lost, or a dump could not be asked for
  multi,      \* links that have had two addresses at once
  renamed     \* some link was renamed

kernelVars == <<links, lastIndex, changes, multi, renamed>>
netlinkVars == <<kernelVars, nqueue, overrun, npc, cache, lossy>>

NetlinkInit ==
  /\ \E n \in Names, up \in BOOLEAN, as \in SUBSET Addrs :
       /\ links = [i \in {1} |-> [name |-> n, running |-> up, addrs |-> as]]
       /\ multi = IF Cardinality(as) > 1 THEN {1} ELSE {}
  /\ lastIndex = 1 /\ changes = 0 /\ renamed = FALSE
  /\ nqueue = <<>> /\ overrun = FALSE
  /\ npc = "down" /\ cache = <<>>
  /\ lossy = FALSE
-----------------------------------------------------------------------------
LinkMsg(type, i, l) ==
  [type |-> type, index |-> i, name |-> l.name, running |-> l.running]
AddrMsg(type, i, a) == [type |-> type, index |-> i, addr |-> a]
Done == [type |-> "DONE"]

Announce(m) ==
  /\ IF npc \in {"down", "failed"} THEN UNCHANGED <<nqueue, overrun, lossy>>
     ELSE IF Len(nqueue) < QueueCap
     THEN nqueue' = Append(nqueue, m) /\ UNCHANGED <<overrun, lossy>>
     ELSE overrun' = TRUE /\ lossy' = TRUE /\ UNCHANGED nqueue
  /\ changes < MaxChanges /\ changes' = changes + 1
  /\ UNCHANGED <<npc, cache>>

\* f with x at i
With(f, i, x) == [j \in DOMAIN f \cup {i} |-> IF j = i THEN x ELSE f[j]]

\* A link's new state
Set(i, l) ==
  /\ links' = [links EXCEPT ![i] = l]
  /\ UNCHANGED lastIndex

AddLink(n) ==
  LET i == lastIndex + 1
      l == [name |-> n, running |-> FALSE, addrs |-> {}]
  IN  /\ i <= MaxIndex
      /\ \A j \in DOMAIN links : links[j].name # n
      /\ links' = With(links, i, l) /\ lastIndex' = i
      /\ Announce(LinkMsg("NEWLINK", i, l))
      /\ UNCHANGED <<multi, renamed>>

ToggleLink(i) ==
  LET l == [links[i] EXCEPT !.running = ~@]
  IN  Set(i, l) /\ Announce(LinkMsg("NEWLINK", i, l)) /\ UNCHANGED <<multi, renamed>>

RenameLink(i, n) ==
  LET l == [links[i] EXCEPT !.name = n]
  IN  /\ \A j \in DOMAIN links : links[j].name # n
      /\ Set(i, l) /\ Announce(LinkMsg("NEWLINK", i, l))
      /\ renamed' = TRUE /\ UNCHANGED multi

\* A link is taken down and stripped of its addresses before it goes.
DelLink(i) ==
  /\ ~links[i].running /\ links[i].addrs = {}
  /\ links' = [j \in DOMAIN links \ {i} |-> links[j]]
  /\ Announce(LinkMsg("DELLINK", i, links[i]))
  /\ UNCHANGED <<lastIndex, multi, renamed>>

AddAddr(i, a) ==
  LET l == [links[i] EXCEPT !.addrs = @ \cup {a}]
  IN  /\ a \notin links[i].addrs
      /\ Set(i, l) /\ Announce(AddrMsg("NEWADDR", i, a))
      /\ multi' = IF Cardinality(l.addrs) > 1 THEN multi \cup {i} ELSE multi
      /\ UNCHANGED renamed

DelAddr(i, a) ==
  /\ a \in links[i].addrs
  /\ Set(i, [links[i] EXCEPT !.addrs = @ \ {a}])
  /\ Announce(AddrMsg("DELADDR", i, a))
  /\ UNCHANGED <<multi, renamed>>

Kernel ==
  \/ \E n \in Names : AddLink(n)
  \/ \E i \in DOMAIN links :
       \/ ToggleLink(i) \/ DelLink(i)
       \/ \E n \in Names : RenameLink(i, n)
       \/ \E a \in Addrs : AddAddr(i, a) \/ DelAddr(i, a)
-----------------------------------------------------------------------------
\* Mutant of data_cb: a message without addresses clears the address.
data_cb_fresh(m, c) ==
  With(c, m.index, [name |-> m.name, running |-> m.running, ip |-> NoAddr])

\* Mutant of data_cb: only the first message of a link is looked at.
data_cb_once(m, c) ==
  IF m.index \in DOMAIN c THEN c
  ELSE With(c, m.index, [name |-> m.name, running |-> m.running, ip |-> NoAddr])

\* data_cb: find or create the entry, for RTM_NEWLINK and RTM_DELLINK alike
data_cb(m, c) ==
  With(c, m.index, [name |-> m.name, running |-> m.running,
                    ip |-> IF m.index \in DOMAIN c THEN c[m.index].ip ELSE NoAddr])

\* addr_data_cb: an address of a link not seen yet is ignored
addr_data_cb(m, c) ==
  IF m.index \notin DOMAIN c THEN c
  ELSE [c EXCEPT ![m.index].ip = IF m.type = "DELADDR" THEN NoAddr ELSE m.addr]

Dispatch(m, c) ==
  CASE m.type \in {"NEWLINK", "DELLINK"} -> data_cb(m, c)
    [] m.type \in {"NEWADDR", "DELADDR"} -> addr_data_cb(m, c)
    [] OTHER -> c

\* init up to the dumps: open the socket and subscribe
init ==
  /\ npc = "down"
  /\ npc' \in {"failed", "dump"}
  /\ UNCHANGED <<kernelVars, nqueue, overrun, cache, lossy>>

\* sendto of a dump request: the kernel answers at once, in order and however
\* full the queue is
Request(dump, then, otherwise) ==
  /\ \/ npc' = otherwise /\ lossy' = TRUE /\ UNCHANGED nqueue
     \/ npc' = then /\ nqueue' = nqueue \o dump \o <<Done>> /\ UNCHANGED lossy
  /\ UNCHANGED <<kernelVars, overrun, cache>>

request_dump ==
  /\ npc = "dump"
  /\ Request(SetToSeq({LinkMsg("NEWLINK", i, links[i]) : i \in DOMAIN links}),
             "links", "addr_dump")

request_addr_dump ==
  /\ npc = "addr_dump"
  /\ Request(SetToSeq(UNION {{AddrMsg("NEWADDR", i, a) : a \in links[i].addrs} :
                               i \in DOMAIN links}),
             "addrs", "idle")

AfterResponse == IF npc = "links" THEN "addr_dump" ELSE "idle"

Receive ==
  /\ ~overrun /\ nqueue # <<>>
  /\ nqueue' = Tail(nqueue)
  /\ cache' = Dispatch(Head(nqueue), cache)
  /\ UNCHANGED <<kernelVars, overrun, lossy>>

\* recv fails with ENOBUFS, once
ReceiveOverrun ==
  /\ overrun /\ overrun' = FALSE
  /\ UNCHANGED <<kernelVars, nqueue, cache, lossy>>

\* One round of drain_response: up to the end of a dump or a failing recv
drain_response ==
  /\ npc \in {"links", "addrs"}
  /\ \/ Receive /\ npc' = IF Head(nqueue) = Done THEN AfterResponse ELSE npc
     \/ ReceiveOverrun /\ npc' = AfterResponse

\* One round of drain_events, which a cycle begins with: until there is
\* nothing to read, or recv fails
drain_events ==
  \/ /\ npc = "idle" /\ npc' = "drain"
     /\ UNCHANGED <<kernelVars, nqueue, overrun, cache, lossy>>
  \/ /\ npc = "drain"
     /\ \/ Receive /\ UNCHANGED npc
        \/ ReceiveOverrun /\ npc' = "idle"
        \/ /\ ~overrun /\ nqueue = <<>> /\ npc' = "idle"
           /\ UNCHANGED <<kernelVars, nqueue, overrun, cache, lossy>>

Monitor ==
  init \/ request_dump \/ request_addr_dump \/ drain_response \/ drain_events

NetlinkNext == Kernel \/ Monitor
NetlinkSpec == NetlinkInit /\ [][NetlinkNext]_netlinkVars
NetlinkFairness == WF_netlinkVars(Monitor)
-----------------------------------------------------------------------------
\* Mutant of collect_network: the oldest entry of a name counts.
collect_network_oldest(n) ==
  LET is == {i \in DOMAIN cache : cache[i].name = n}
  IN  IF is = {} THEN [link |-> "unknown", ip |-> NoAddr]
      ELSE [link |-> IF cache[Min(is)].running THEN "up" ELSE "down",
            ip   |-> cache[Min(is)].ip]

\* collect_network of one interface: nl_map is filled in the order of the
\* indexes, so that of several entries with a name the last counts
collect_network(n) ==
  LET is == {i \in DOMAIN cache : cache[i].name = n}
  IN  IF is = {} THEN [link |-> "unknown", ip |-> NoAddr]
      ELSE [link |-> IF cache[Max(is)].running THEN "up" ELSE "down",
            ip   |-> cache[Max(is)].ip]
-----------------------------------------------------------------------------
\* Everything announced has been read, and nothing was lost.
Synced == npc = "idle" /\ nqueue = <<>> /\ ~lossy

\* The addresses of an index, which may have gone
AddrsOf(i) == IF i \in DOMAIN links THEN links[i].addrs ELSE {}

LinksCached ==
  \A i \in DOMAIN links :
    i \in DOMAIN cache /\ cache[i].name = links[i].name
                       /\ cache[i].running = links[i].running

\* After drain_events a cached address is one the link has.  One that has
\* an address has a cached one, unless it once had two and lost one of them:
\* RTM_DELADDR clears the entry (netlink_monitor.cpp:142).
AddressesTracked ==
  Synced =>
    \A i \in DOMAIN cache :
      /\ cache[i].ip \in AddrsOf(i) \cup {NoAddr}
      /\ AddrsOf(i) # {} /\ i \notin multi => cache[i].ip # NoAddr

\* What collect_network reports under the name of a link is that link's state
\* and address, although entries of links that have gone are never removed: a
\* link that comes back has a higher index, and the highest counts.  A link
\* renamed to the name of one that has gone may be hidden by it
\* (probes.cpp:678).
ReportedByName ==
  Synced /\ ~renamed =>
    \A i \in DOMAIN links :
      LET r == collect_network(links[i].name)
      IN  /\ r.link = (IF links[i].running THEN "up" ELSE "down")
          /\ r.ip = cache[i].ip

\* Once the kernel's links stay as they are, the cache shows them for good,
\* unless an announcement was lost: nothing repairs a loss, drain_events
\* stops at ENOBUFS without a new dump (netlink_monitor.cpp:312).
LinksTracked == LinksCached \/ lossy \/ npc = "failed"
EventuallyTracked == <>[]LinksTracked
=============================================================================
