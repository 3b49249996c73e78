--------------------------- MODULE NetworkProofs ----------------------------
(***************************************************************************)
(* The theorems about the network.  The interface cache shows the          *)
(* kernel's links and addresses, for any number of links, names, addresses *)
(* and changes and any size of the socket queue.  The ethtool queries take *)
(* their own answers, for any list of interfaces.                          *)
(***************************************************************************)
EXTENDS NetlinkMonitor, EthtoolQuerier, SequenceTheorems, FiniteSetTheorems, TLAPS
-----------------------------------------------------------------------------
(* The interface cache.                                                    *)

OfLink == {"NEWLINK", "DELLINK"}
OfAddr == {"NEWADDR", "DELADDR"}

Message ==
  [type : OfLink, index : Nat, name : Names, running : BOOLEAN]
    \cup [type : OfAddr, index : Nat, addr : Addrs] \cup {Done}

Link == [name : Names, running : BOOLEAN, addrs : SUBSET Addrs]
Entry == [name : Names, running : BOOLEAN, ip : Addrs \cup {NoAddr}]

\* Message k of a queue is of one of these types and about index i, ...
At(q, k, i, types) == q[k].type \in types /\ q[k].index = i

\* ... the last of them, ...
Latest(q, k, i, types) ==
  At(q, k, i, types) /\ \A h \in 1 .. Len(q) : h > k => ~At(q, h, i, types)

\* ... or there is none.
Without(q, i, types) == \A k \in 1 .. Len(q) : ~At(q, k, i, types)

NetlinkTypeOK ==
  /\ lastIndex \in Nat
  /\ links \in [DOMAIN links -> Link]
  /\ DOMAIN links \subseteq 1 .. lastIndex
  /\ nqueue \in Seq(Message)
  /\ \A k \in 1 .. Len(nqueue) : nqueue[k].type \in OfLink => nqueue[k].index <= lastIndex
  /\ cache \in [DOMAIN cache -> Entry]
  /\ DOMAIN cache \subseteq 0 .. lastIndex
  /\ npc \in {"down", "failed", "dump", "links", "addr_dump", "addrs", "idle", "drain"}
  /\ npc \in {"down", "failed"} => DOMAIN cache = {} /\ nqueue = <<>>
  /\ overrun \in BOOLEAN /\ lossy \in BOOLEAN /\ (overrun => lossy)

\* A link that never had two addresses has at most one.
MultiInv ==
  \A i \in DOMAIN links : i \notin multi => \A a, b \in links[i].addrs : a = b

\* From the link dump on, the last message about a link, or else its entry,
\* shows the link as it is.
LinkInv ==
  ~lossy /\ npc \notin {"down", "failed", "dump"} =>
    \A i \in DOMAIN links :
      /\ \A k \in 1 .. Len(nqueue) : Latest(nqueue, k, i, OfLink) =>
           nqueue[k].name = links[i].name /\ nqueue[k].running = links[i].running
      /\ Without(nqueue, i, OfLink) =>
           /\ i \in DOMAIN cache
           /\ cache[i].name = links[i].name /\ cache[i].running = links[i].running

\* The address that an index will be left with is one it has.
AddrInv ==
  ~lossy =>
    \A i \in Nat :
      /\ \A k \in 1 .. Len(nqueue) :
           Latest(nqueue, k, i, OfAddr) /\ nqueue[k].type = "NEWADDR" => nqueue[k].addr \in AddrsOf(i)
      /\ Without(nqueue, i, OfAddr) /\ i \in DOMAIN cache => cache[i].ip \in AddrsOf(i) \cup {NoAddr}

\* The entry is there when message k, about the address of i, is read.
Known(q, c, k, i) == i \in DOMAIN c \/ \E h \in 1 .. Len(q) : h < k /\ At(q, h, i, OfLink)

\* From the address dump on, a link with an address will be left with one.
DumpedInv ==
  ~lossy /\ npc \in {"addrs", "idle", "drain"} =>
    \A i \in DOMAIN links : links[i].addrs # {} /\ i \notin multi =>
      /\ \A k \in 1 .. Len(nqueue) : Latest(nqueue, k, i, OfAddr) =>
           nqueue[k].type = "NEWADDR" /\ Known(nqueue, cache, k, i)
      /\ Without(nqueue, i, OfAddr) => i \in DOMAIN cache /\ cache[i].ip # NoAddr

\* No two links have one name, and as long as none is renamed, a link that had
\* the name of a present one is older.
NameInv ==
  /\ \A i, j \in DOMAIN links : links[i].name = links[j].name => i = j
  /\ ~renamed => \A i \in DOMAIN links :
       /\ \A j \in DOMAIN cache : cache[j].name = links[i].name => j <= i
       /\ \A k \in 1 .. Len(nqueue) :
            nqueue[k].type \in OfLink /\ nqueue[k].name = links[i].name => nqueue[k].index <= i

NetlinkInv ==
  NetlinkTypeOK /\ MultiInv /\ LinkInv /\ AddrInv /\ DumpedInv /\ NameInv
-----------------------------------------------------------------------------
(* The messages and the queue.                                             *)

\* What a message is made of
LEMMA Messages ==
  /\ \A m \in Message :
       /\ m.type \in OfLink \cup OfAddr \cup {"DONE"}
       /\ m.type \in OfLink => m.index \in Nat /\ m.name \in Names /\ m.running \in BOOLEAN
       /\ m.type \in OfAddr => m.index \in Nat /\ m.addr \in Addrs
  /\ Done \in Message /\ Done.type = "DONE"
  /\ OfLink \cap OfAddr = {} /\ "DONE" \notin OfLink \cup OfAddr
<1>1. ASSUME NEW m \in Message
      PROVE  /\ m.type \in OfLink \cup OfAddr \cup {"DONE"}
             /\ m.type \in OfLink => m.index \in Nat /\ m.name \in Names /\ m.running \in BOOLEAN
             /\ m.type \in OfAddr => m.index \in Nat /\ m.addr \in Addrs
  <2>1. CASE m \in [type : OfLink, index : Nat, name : Names, running : BOOLEAN]
    BY <2>1 DEF OfLink, OfAddr
  <2>2. CASE m \in [type : OfAddr, index : Nat, addr : Addrs]
    BY <2>2 DEF OfLink, OfAddr
  <2>3. CASE m = Done
    BY <2>3 DEF Done, OfLink, OfAddr
  <2>. QED BY Zenon, <2>1, <2>2, <2>3 DEF Message
<1>2. Done \in Message /\ Done.type = "DONE"
  BY DEF Done, Message
<1>. QED BY <1>1, <1>2 DEF OfLink, OfAddr

\* A link message says what the link is.
LEMMA LinkMessage ==
  ASSUME NEW t \in OfLink, NEW i \in Nat, NEW l \in Link
  PROVE  /\ LinkMsg(t, i, l) \in Message
         /\ LinkMsg(t, i, l).type = t /\ LinkMsg(t, i, l).index = i
         /\ LinkMsg(t, i, l).name = l.name /\ LinkMsg(t, i, l).running = l.running
BY DEF LinkMsg, Message, Link

\* An address message says which address.
LEMMA AddrMessage ==
  ASSUME NEW t \in OfAddr, NEW i \in Nat, NEW a \in Addrs
  PROVE  /\ AddrMsg(t, i, a) \in Message
         /\ AddrMsg(t, i, a).type = t /\ AddrMsg(t, i, a).index = i
         /\ AddrMsg(t, i, a).addr = a
BY DEF AddrMsg, Message

\* The positions of a sequence one longer.
LEMMA OneMore ==
  ASSUME NEW n \in Nat, NEW l, l = n + 1
  PROVE  \A k \in 1 .. l : k \in 1 .. n \/ k = n + 1
OBVIOUS

\* An announcement is the last message about its index, and about no other.
LEMMA Appended ==
  ASSUME NEW q \in Seq(Message), NEW m \in Message
  PROVE  /\ Append(q, m) \in Seq(Message) /\ Len(Append(q, m)) = Len(q) + 1 /\ Len(q) \in Nat
         /\ \A k \in 1 .. Len(q) : Append(q, m)[k] = q[k]
         /\ Append(q, m)[Len(q) + 1] = m
         /\ \A i, types : m.type \in types /\ m.index = i =>
              /\ ~Without(Append(q, m), i, types)
              /\ \A k \in 1 .. Len(Append(q, m)) :
                   Latest(Append(q, m), k, i, types) => k = Len(q) + 1
         /\ \A i, types : ~(m.type \in types /\ m.index = i) =>
              /\ Without(Append(q, m), i, types) => Without(q, i, types)
              /\ \A k \in 1 .. Len(Append(q, m)) :
                   Latest(Append(q, m), k, i, types) => k \in 1 .. Len(q) /\ Latest(q, k, i, types)
<1>. DEFINE r == Append(q, m)
<1>1. /\ r \in Seq(Message) /\ Len(r) = Len(q) + 1 /\ Len(q) \in Nat
      /\ \A k \in 1 .. Len(q) : r[k] = q[k]
      /\ r[Len(q) + 1] = m
  BY AppendProperties, LenProperties
<1>. HIDE DEF r
<1>2. ASSUME NEW i, NEW types, m.type \in types, m.index = i
      PROVE  /\ ~Without(r, i, types)
             /\ \A k \in 1 .. Len(r) : Latest(r, k, i, types) => k = Len(q) + 1
  <2>1. At(r, Len(q) + 1, i, types)
    BY <1>1, <1>2 DEF At
  <2>. QED BY <1>1, <2>1 DEF Without, Latest
<1>3. ASSUME NEW i, NEW types, ~(m.type \in types /\ m.index = i)
      PROVE  /\ Without(r, i, types) => Without(q, i, types)
             /\ \A k \in 1 .. Len(r) :
                  Latest(r, k, i, types) => k \in 1 .. Len(q) /\ Latest(q, k, i, types)
  <2>1. ~At(r, Len(q) + 1, i, types)
    BY <1>1, <1>3 DEF At
  <2>2. \A k \in 1 .. Len(q) : At(r, k, i, types) <=> At(q, k, i, types)
    BY <1>1 DEF At
  <2>. QED BY <1>1, <2>1, <2>2 DEF Without, Latest
<1>. QED BY Zenon, <1>1, <1>2, <1>3 DEF r

\* Reading the head leaves what is said of the others as it was.
LEMMA Rest ==
  ASSUME NEW q \in Seq(Message), q # <<>>
  PROVE  /\ Tail(q) \in Seq(Message) /\ Len(q) \in Nat /\ Len(q) >= 1 /\ Len(Tail(q)) = Len(q) - 1
         /\ \A k \in 1 .. Len(Tail(q)) : k + 1 \in 1 .. Len(q) /\ Tail(q)[k] = q[k + 1]
         /\ Head(q) = q[1] /\ Head(q) \in Message
         /\ \A i, types : \A k \in 1 .. Len(Tail(q)) :
              Latest(Tail(q), k, i, types) => Latest(q, k + 1, i, types)
         /\ \A i, types : Without(Tail(q), i, types) =>
              IF At(q, 1, i, types) THEN Latest(q, 1, i, types) ELSE Without(q, i, types)
<1>. DEFINE r == Tail(q)
<1>1. Len(q) \in Nat \ {0}
  BY EmptySeq
<1>2. /\ Head(q) \in Message /\ r \in Seq(Message) /\ Len(r) = Len(q) - 1
      /\ \A k \in 1 .. Len(r) : r[k] = q[k + 1]
  BY HeadTailProperties
<1>3. Head(q) = q[1]
  OBVIOUS
<1>. HIDE DEF r
<1>4. ASSUME NEW i, NEW types
      PROVE  /\ \A k \in 1 .. Len(r) : Latest(r, k, i, types) => Latest(q, k + 1, i, types)
             /\ Without(r, i, types) =>
                  IF At(q, 1, i, types) THEN Latest(q, 1, i, types) ELSE Without(q, i, types)
  <2>1. \A k \in 1 .. Len(r) : At(r, k, i, types) <=> At(q, k + 1, i, types)
    BY <1>2 DEF At
  <2>2. \A h \in 1 .. Len(q) : h > 1 => h - 1 \in 1 .. Len(r) /\ (At(r, h - 1, i, types) <=> At(q, h, i, types))
    BY <1>1, <1>2, <2>1
  <2>3. ASSUME NEW k \in 1 .. Len(r), Latest(r, k, i, types) PROVE Latest(q, k + 1, i, types)
    BY <1>1, <1>2, <2>1, <2>2, <2>3 DEF Latest
  <2>4. ASSUME Without(r, i, types)
        PROVE  IF At(q, 1, i, types) THEN Latest(q, 1, i, types) ELSE Without(q, i, types)
    BY <1>1, <1>2, <2>1, <2>2, <2>4 DEF Latest, Without
  <2>. QED BY <2>3, <2>4
<1>5. \A k \in 1 .. Len(r) : k + 1 \in 1 .. Len(q)
  BY <1>1, <1>2
<1>6. Len(q) >= 1
  BY <1>1
<1>. QED BY Zenon, <1>1, <1>2, <1>3, <1>4, <1>5, <1>6 DEF r

\* The dump d and its end behind a queue: of an index in the dump the last
\* message is in it, of any other it is where it was.
LEMMA Extended ==
  ASSUME NEW q \in Seq(Message), NEW d \in Seq(Message), NEW r, r = q \o d \o <<Done>>
  PROVE  /\ r \in Seq(Message) /\ Len(q) \in Nat /\ Len(q) <= Len(r)
         /\ \A k \in 1 .. Len(q) : r[k] = q[k]
         /\ \A k \in 1 .. Len(r) : \/ k \in 1 .. Len(q)
                                   \/ k > Len(q) /\ (r[k] = Done \/ \E h \in 1 .. Len(d) : r[k] = d[h])
         /\ \A i : \A types \in {OfLink, OfAddr} :
              IF Without(d, i, types)
              THEN /\ Without(r, i, types) => Without(q, i, types)
                   /\ \A k \in 1 .. Len(r) :
                        Latest(r, k, i, types) => k \in 1 .. Len(q) /\ Latest(q, k, i, types)
              ELSE /\ ~Without(r, i, types)
                   /\ \A k \in 1 .. Len(r) : Latest(r, k, i, types) => k > Len(q)
<1>. DEFINE n == Len(q)
            e == Len(d)
<1>1. n \in Nat /\ e \in Nat
  BY LenProperties
<1>2. <<Done>> \in Seq(Message) /\ Len(<<Done>>) = 1 /\ <<Done>>[1] = Done
  BY Messages
<1>3. /\ q \o d \in Seq(Message) /\ Len(q \o d) = n + e
      /\ \A k \in 1 .. n + e : (q \o d)[k] = IF k <= n THEN q[k] ELSE d[k - n]
  BY ConcatProperties
<1>4. /\ r \in Seq(Message) /\ Len(r) = Len(q \o d) + Len(<<Done>>)
      /\ \A k \in 1 .. Len(q \o d) + Len(<<Done>>) : r[k] =
           IF k <= Len(q \o d) THEN (q \o d)[k] ELSE <<Done>>[k - Len(q \o d)]
  BY <1>2, <1>3, ConcatProperties
<1>. HIDE DEF n, e
<1>5. /\ Len(r) = n + e + 1
      /\ \A k \in 1 .. n : r[k] = q[k]
      /\ \A h \in 1 .. e : r[n + h] = d[h]
      /\ r[n + e + 1] = Done
  <2>. DEFINE s == q \o d
              z == <<Done>>
  <2>1. /\ Len(s) = n + e /\ Len(z) = 1 /\ z[1] = Done
        /\ \A k \in 1 .. n + e : s[k] = IF k <= n THEN q[k] ELSE d[k - n]
        /\ Len(r) = Len(s) + Len(z)
        /\ \A k \in 1 .. Len(s) + Len(z) : r[k] = IF k <= Len(s) THEN s[k] ELSE z[k - Len(s)]
    BY Zenon, <1>2, <1>3, <1>4
  <2>. HIDE DEF s, z
  <2>2. Len(r) = n + e + 1
    BY <1>1, <2>1
  <2>3. \A k \in 1 .. n + e : k \in 1 .. Len(s) + Len(z) /\ k <= Len(s)
    BY <1>1, <2>1
  <2>4. \A k \in 1 .. n + e : r[k] = IF k <= n THEN q[k] ELSE d[k - n]
    BY Zenon, <2>1, <2>3
  <2>5. \A k \in 1 .. n : k \in 1 .. n + e /\ k <= n
    BY <1>1
  <2>6. \A h \in 1 .. e : n + h \in 1 .. n + e /\ ~(n + h <= n) /\ (n + h) - n = h
    BY <1>1
  <2>7. n + e + 1 \in 1 .. Len(s) + Len(z) /\ ~(n + e + 1 <= Len(s)) /\ (n + e + 1) - Len(s) = 1
    BY <1>1, <2>1
  <2>8. r[n + e + 1] = z[(n + e + 1) - Len(s)]
    BY Zenon, <2>1, <2>7
  <2>9. r[n + e + 1] = Done
    BY Zenon, <2>1, <2>7, <2>8
  <2>10. \A h \in 1 .. e : r[n + h] = d[(n + h) - n]
    BY Zenon, <2>4, <2>6
  <2>11. \A h \in 1 .. e : r[n + h] = d[h]
    BY Zenon, <2>6, <2>10
  <2>12. \A k \in 1 .. n : r[k] = q[k]
    BY Zenon, <2>4, <2>5
  <2>. QED BY Zenon, <2>2, <2>9, <2>11, <2>12
<1>6. \A k \in 1 .. Len(r) : k \in 1 .. n \/ k = n + e + 1 \/ (k - n \in 1 .. e /\ k = n + (k - n))
  BY <1>1, <1>5
<1>7. ASSUME NEW i, NEW types \in {OfLink, OfAddr}
      PROVE  IF Without(d, i, types)
             THEN /\ Without(r, i, types) => Without(q, i, types)
                  /\ \A k \in 1 .. Len(r) :
                       Latest(r, k, i, types) => k \in 1 .. n /\ Latest(q, k, i, types)
             ELSE /\ ~Without(r, i, types)
                  /\ \A k \in 1 .. Len(r) : Latest(r, k, i, types) => k > n
  <2>1. ~At(r, n + e + 1, i, types)
    BY <1>5, Messages DEF At
  <2>2. \A k \in 1 .. n : k \in 1 .. Len(r) /\ (At(r, k, i, types) <=> At(q, k, i, types))
    BY <1>1, <1>5 DEF At
  <2>3. \A h \in 1 .. e : n + h \in 1 .. Len(r) /\ n + h > n /\ (At(r, n + h, i, types) <=> At(d, h, i, types))
    <3>1. \A h \in 1 .. e : n + h \in 1 .. Len(r) /\ n + h > n
      BY <1>1, <1>5
    <3>2. \A h \in 1 .. e : r[n + h] = d[h]
      BY Zenon, <1>5
    <3>. QED BY Zenon, <3>1, <3>2 DEF At
  <2>4. CASE Without(d, i, types)
    <3>1. \A k \in 1 .. Len(r) : At(r, k, i, types) => k \in 1 .. n
      BY Zenon, <1>6, <2>1, <2>3, <2>4 DEF Without, e
    <3>. QED BY <2>2, <2>4, <3>1 DEF Without, Latest, n
  <2>5. CASE ~Without(d, i, types)
    <3>1. PICK h \in 1 .. e : At(d, h, i, types)
      BY <2>5 DEF Without, e
    <3>2. At(r, n + h, i, types) /\ n + h \in 1 .. Len(r) /\ n + h > n
      BY <2>3, <3>1
    <3>. QED BY <1>1, <2>5, <3>2 DEF Without, Latest
  <2>. QED BY <2>4, <2>5
<1>8. \A k \in 1 .. Len(r) : \/ k \in 1 .. n
                             \/ k > n /\ (r[k] = Done \/ \E h \in 1 .. e : r[k] = d[h])
  <2>. SUFFICES ASSUME NEW k \in 1 .. Len(r), k \notin 1 .. n
                PROVE  k > n /\ (r[k] = Done \/ \E h \in 1 .. e : r[k] = d[h])
    BY Zenon
  <2>1. k \in Int /\ k > n
    BY <1>1, <1>5
  <2>2. CASE k = n + e + 1
    BY <1>5, <2>1, <2>2
  <2>3. CASE k - n \in 1 .. e /\ k = n + (k - n)
    <3>1. r[n + (k - n)] = d[k - n]
      BY Zenon, <1>5, <2>3
    <3>. QED BY Zenon, <2>1, <2>3, <3>1
  <2>. QED BY Zenon, <1>6, <2>2, <2>3
<1>9. n <= Len(r)
  BY <1>1, <1>5
<1>. QED BY Zenon, <1>1, <1>4, <1>5, <1>7, <1>8, <1>9 DEF n, e

\* SetToSeq lists a finite set.
LEMMA Listed ==
  ASSUME NEW S \in SUBSET Message, IsFiniteSet(S)
  PROVE  /\ SetToSeq(S) \in Seq(Message)
         /\ \A k \in 1 .. Len(SetToSeq(S)) : SetToSeq(S)[k] \in S
         /\ \A m \in S : \E k \in 1 .. Len(SetToSeq(S)) : SetToSeq(S)[k] = m
<1>. DEFINE n == Cardinality(S)
            f == SetToSeq(S)
<1>1. n \in Nat /\ ExistsBijection(1 .. n, S)
  BY FS_CardinalityType
<1>2. PICK g \in [1 .. n -> S] : IsInjective(g)
  BY <1>1 DEF ExistsBijection, Bijection, Injection, IsInjective
<1>3. f \in [1 .. n -> S] /\ IsInjective(f)
  BY <1>2 DEF SetToSeq
<1>. HIDE DEF f
<1>4. f \in Injection(1 .. n, S)
  BY <1>3 DEF Injection, IsInjective
<1>5. Cardinality(1 .. n) = n
  BY <1>1, FS_Interval
<1>6. f \in Surjection(1 .. n, S)
  BY <1>4, <1>5, FS_Injection
<1>. HIDE DEF n
<1>7. f \in Seq(Message) /\ Len(f) = n
  BY <1>1, <1>3
<1>8. \A m \in S : \E k \in 1 .. n : f[k] = m
  BY <1>6 DEF Surjection
<1>9. \A k \in 1 .. n : f[k] \in S
  BY <1>3
<1>. QED BY Zenon, <1>7, <1>8, <1>9 DEF f

\* The queue r is q with a dump of S behind it: of an index in S the last message
\* is in S, of any other it is where it was.
DumpBehind(q, S, r) ==
  /\ r \in Seq(Message) /\ Len(q) \in Nat /\ Len(q) <= Len(r)
  /\ \A k \in 1 .. Len(q) : r[k] = q[k]
  /\ \A k \in 1 .. Len(r) : k \in 1 .. Len(q) \/ r[k] \in S \cup {Done}
  /\ \A i : \A types \in {OfLink, OfAddr} :
       IF \E m \in S : m.type \in types /\ m.index = i
       THEN /\ ~Without(r, i, types)
            /\ \A k \in 1 .. Len(r) : Latest(r, k, i, types) => k > Len(q) /\ r[k] \in S
       ELSE /\ Without(r, i, types) => Without(q, i, types)
            /\ \A k \in 1 .. Len(r) :
                 Latest(r, k, i, types) => k \in 1 .. Len(q) /\ Latest(q, k, i, types)

\* That is what a request does.
LEMMA Dumped ==
  ASSUME NEW q \in Seq(Message), NEW S \in SUBSET Message, IsFiniteSet(S),
         NEW r, r = q \o SetToSeq(S) \o <<Done>>
  PROVE  DumpBehind(q, S, r)
<1>. DEFINE d == SetToSeq(S)
<1>1. /\ d \in Seq(Message)
      /\ \A k \in 1 .. Len(d) : d[k] \in S
      /\ \A m \in S : \E k \in 1 .. Len(d) : d[k] = m
  BY Zenon, Listed
<1>a. r = q \o d \o <<Done>>
  OBVIOUS
<1>. HIDE DEF d
<1>2. /\ r \in Seq(Message) /\ Len(q) \in Nat /\ Len(q) <= Len(r)
      /\ \A k \in 1 .. Len(q) : r[k] = q[k]
      /\ \A k \in 1 .. Len(r) : \/ k \in 1 .. Len(q)
                                \/ k > Len(q) /\ (r[k] = Done \/ \E h \in 1 .. Len(d) : r[k] = d[h])
      /\ \A i : \A types \in {OfLink, OfAddr} :
           IF Without(d, i, types)
           THEN /\ Without(r, i, types) => Without(q, i, types)
                /\ \A k \in 1 .. Len(r) :
                     Latest(r, k, i, types) => k \in 1 .. Len(q) /\ Latest(q, k, i, types)
           ELSE /\ ~Without(r, i, types)
                /\ \A k \in 1 .. Len(r) : Latest(r, k, i, types) => k > Len(q)
  BY Zenon, <1>1, <1>a, Extended
<1>3. \A k \in 1 .. Len(r) : k \in 1 .. Len(q) \/ r[k] \in S \cup {Done}
  BY Zenon, <1>1, <1>2
<1>4. ASSUME NEW i, NEW types \in {OfLink, OfAddr}
      PROVE  IF \E m \in S : m.type \in types /\ m.index = i
             THEN /\ ~Without(r, i, types)
                  /\ \A k \in 1 .. Len(r) : Latest(r, k, i, types) => k > Len(q) /\ r[k] \in S
             ELSE /\ Without(r, i, types) => Without(q, i, types)
                  /\ \A k \in 1 .. Len(r) :
                       Latest(r, k, i, types) => k \in 1 .. Len(q) /\ Latest(q, k, i, types)
  <2>1. Without(d, i, types) <=> ~\E m \in S : m.type \in types /\ m.index = i
    BY Zenon, <1>1 DEF Without, At
  <2>2. \A k \in 1 .. Len(r) : k > Len(q) => k \notin 1 .. Len(q)
    BY <1>2
  <2>3. Done.type \notin types
    BY Messages
  <2>4. \A k \in 1 .. Len(r) : Latest(r, k, i, types) => r[k] # Done
    BY Zenon, <2>3 DEF Latest, At
  <2>. QED BY Zenon, <1>2, <1>3, <2>1, <2>2, <2>4
<1>. QED BY Zenon, <1>2, <1>3, <1>4 DEF DumpBehind

\* What reading a message makes of the cache c
Reads(m, c, e) ==
  /\ e \in [DOMAIN e -> Entry]
  /\ DOMAIN e = IF m.type \in OfLink THEN DOMAIN c \cup {m.index} ELSE DOMAIN c
  /\ \A j \in DOMAIN c : ~(m.type \in OfLink \cup OfAddr /\ m.index = j) => e[j] = c[j]
  /\ m.type \in OfLink =>
       /\ e[m.index].name = m.name /\ e[m.index].running = m.running
       /\ e[m.index].ip = IF m.index \in DOMAIN c THEN c[m.index].ip ELSE NoAddr
  /\ m.type \in OfAddr /\ m.index \in DOMAIN c =>
       /\ e[m.index].name = c[m.index].name /\ e[m.index].running = c[m.index].running
       /\ e[m.index].ip = IF m.type = "DELADDR" THEN NoAddr ELSE m.addr

\* The callbacks do just that.
LEMMA Dispatched ==
  ASSUME NEW m \in Message, NEW c, c \in [DOMAIN c -> Entry]
  PROVE  Reads(m, c, Dispatch(m, c))
<1>. DEFINE e == Dispatch(m, c)
<1>. SUFFICES Reads(m, c, e)
  OBVIOUS
<1>0. e = Dispatch(m, c)
  OBVIOUS
<1>. HIDE DEF e
<1>1. CASE m.type \in OfLink
  <2>. DEFINE x == [name |-> m.name, running |-> m.running,
                    ip |-> IF m.index \in DOMAIN c THEN c[m.index].ip ELSE NoAddr]
  <2>1. e = With(c, m.index, x)
    BY <1>0, <1>1, Messages DEF Dispatch, OfLink, data_cb
  <2>2. m.type \notin OfAddr
    BY Zenon, <1>1, Messages
  <2>3. m.name \in Names /\ m.running \in BOOLEAN
    BY Zenon, <1>1, Messages
  <2>4. m.index \in DOMAIN c => c[m.index].ip \in Addrs \cup {NoAddr}
    BY DEF Entry
  <2>5. x \in Entry
    BY <2>3, <2>4 DEF Entry
  <2>6. /\ x.name = m.name /\ x.running = m.running
        /\ x.ip = IF m.index \in DOMAIN c THEN c[m.index].ip ELSE NoAddr
    BY Zenon
  <2>. HIDE DEF x
  <2>7. e = [j \in DOMAIN c \cup {m.index} |-> IF j = m.index THEN x ELSE c[j]]
    BY Zenon, <2>1 DEF With
  <2>8. /\ e \in [DOMAIN e -> Entry] /\ DOMAIN e = DOMAIN c \cup {m.index} /\ e[m.index] = x
        /\ \A j \in DOMAIN c : j # m.index => e[j] = c[j]
    BY <2>5, <2>7
  <2>. QED BY Zenon, <1>1, <2>2, <2>6, <2>8 DEF Reads
<1>2. CASE m.type \in OfAddr
  <2>1. m.type \notin OfLink /\ m.addr \in Addrs
    BY Zenon, <1>2, Messages
  <2>2. e = addr_data_cb(m, c)
    BY <1>0, <1>2, <2>1 DEF Dispatch, OfLink, OfAddr
  <2>3. CASE m.index \notin DOMAIN c
    <3>1. e = c
      BY <2>2, <2>3 DEF addr_data_cb
    <3>. QED BY Zenon, <1>2, <2>1, <2>3, <3>1 DEF Reads
  <2>4. CASE m.index \in DOMAIN c
    <3>. DEFINE y == IF m.type = "DELADDR" THEN NoAddr ELSE m.addr
    <3>1. e = [c EXCEPT ![m.index].ip = y]
      BY <2>2, <2>4 DEF addr_data_cb
    <3>2. y \in Addrs \cup {NoAddr}
      BY <2>1
    <3>. HIDE DEF y
    <3>3. c[m.index] \in Entry /\ [c[m.index] EXCEPT !.ip = y] \in Entry
      BY <2>4, <3>2 DEF Entry
    <3>4. e = [c EXCEPT ![m.index] = [c[m.index] EXCEPT !.ip = y]]
      BY <3>1
    <3>5. /\ DOMAIN e = DOMAIN c /\ e \in [DOMAIN e -> Entry]
          /\ e[m.index] = [c[m.index] EXCEPT !.ip = y]
          /\ \A j \in DOMAIN c : j # m.index => e[j] = c[j]
      BY <2>4, <3>3, <3>4
    <3>6. /\ e[m.index].name = c[m.index].name /\ e[m.index].running = c[m.index].running
          /\ e[m.index].ip = y
      BY <3>3, <3>5 DEF Entry
    <3>. QED BY Zenon, <1>2, <2>1, <3>5, <3>6 DEF y, Reads
  <2>. QED BY <2>3, <2>4
<1>3. CASE m.type \notin OfLink \cup OfAddr
  <2>1. e = c
    BY <1>0, <1>3 DEF Dispatch, OfLink, OfAddr
  <2>. QED BY Zenon, <1>3, <2>1 DEF Reads
<1>. QED BY Zenon, <1>1, <1>2, <1>3
-----------------------------------------------------------------------------
(* The kernel's changes.                                                   *)

\* A set with no more than one element
LEMMA AtMostOne ==
  ASSUME NEW S \in SUBSET Addrs, ~(Cardinality(S) > 1)
  PROVE  \A a, b \in S : a = b
<1>1. IsFiniteSet(S)
  BY FS_Subset, NetlinkAssumption
<1>2. Cardinality(S) \in Nat
  BY <1>1, FS_CardinalityType
<1>3. Cardinality(S) = 0 \/ Cardinality(S) = 1
  BY <1>2
<1>4. CASE Cardinality(S) = 0
  BY <1>1, <1>4, FS_EmptySet
<1>5. CASE Cardinality(S) = 1
  <2>1. PICK x : S = {x}
    BY <1>1, <1>5, FS_Singleton
  <2>. QED BY <2>1
<1>. QED BY <1>3, <1>4, <1>5

\* At first the cache is empty and nothing waits.
LEMMA NetlinkInitially == NetlinkInit => NetlinkInv
<1>. SUFFICES ASSUME NetlinkInit PROVE NetlinkInv
  OBVIOUS
<1>1. PICK n \in Names, up \in BOOLEAN, as \in SUBSET Addrs :
        /\ links = [i \in {1} |-> [name |-> n, running |-> up, addrs |-> as]]
        /\ multi = IF Cardinality(as) > 1 THEN {1} ELSE {}
  BY Zenon DEF NetlinkInit
<1>2. DOMAIN links = {1} /\ links[1] = [name |-> n, running |-> up, addrs |-> as]
  BY <1>1
<1>3. /\ lastIndex = 1 /\ nqueue = <<>> /\ ~overrun /\ overrun \in BOOLEAN /\ npc = "down"
      /\ cache = <<>> /\ lossy = FALSE
  BY Zenon DEF NetlinkInit
<1>4. nqueue \in Seq(Message) /\ Len(nqueue) = 0 /\ DOMAIN cache = {}
  BY <1>3
<1>5. NetlinkTypeOK
  <2>1. [name |-> n, running |-> up, addrs |-> as] \in Link
    BY Zenon DEF Link
  <2>2. links \in [DOMAIN links -> Link]
    BY <1>1, <2>1
  <2>3. cache \in [DOMAIN cache -> Entry]
    BY <1>3
  <2>4. lastIndex \in Nat /\ DOMAIN links \subseteq 1 .. lastIndex
    BY <1>2, <1>3
  <2>5. \A k \in 1 .. Len(nqueue) : nqueue[k].type \in OfLink => nqueue[k].index <= lastIndex
    BY <1>4
  <2>. QED BY Zenon, <1>3, <1>4, <2>2, <2>3, <2>4, <2>5 DEF NetlinkTypeOK
<1>6. MultiInv
  <2>1. CASE Cardinality(as) > 1
    BY <1>1, <1>2, <2>1 DEF MultiInv
  <2>2. CASE ~(Cardinality(as) > 1)
    <3>1. \A a, b \in as : a = b
      BY Zenon, <2>2, AtMostOne
    <3>2. links[1].addrs = as
      BY <1>2
    <3>. QED BY Zenon, <1>2, <3>1, <3>2 DEF MultiInv
  <2>. QED BY Zenon, <2>1, <2>2
<1>7. LinkInv /\ DumpedInv
  BY <1>3 DEF LinkInv, DumpedInv
<1>8. AddrInv
  BY <1>4 DEF AddrInv
<1>9. NameInv
  BY <1>2, <1>4 DEF NameInv
<1>. QED BY <1>5, <1>6, <1>7, <1>8, <1>9 DEF NetlinkInv

\* A change of index i and its message m
Change(i, m) ==
  /\ i \in Nat /\ m \in Message /\ m.index = i /\ m.type \in OfLink \cup OfAddr
  /\ lastIndex' \in Nat /\ lastIndex <= lastIndex' /\ i <= lastIndex'
  /\ links' \in [DOMAIN links' -> Link] /\ DOMAIN links' \subseteq 1 .. lastIndex'
  /\ \A j \in DOMAIN links' : j # i => j \in DOMAIN links /\ links'[j] = links[j]
  /\ \A j \in DOMAIN links : j # i => j \in DOMAIN links'
  /\ multi \subseteq multi'
  /\ m.type \in OfLink =>
       /\ i \in DOMAIN links' => m.name = links'[i].name /\ m.running = links'[i].running
       /\ AddrsOf(i)' = AddrsOf(i)
  /\ m.type \in OfAddr =>
       /\ i \in DOMAIN links /\ i \in DOMAIN links'
       /\ links'[i].name = links[i].name /\ links'[i].running = links[i].running
  /\ m.type = "NEWADDR" => m.addr \in links'[i].addrs
  /\ m.type = "DELADDR" => i \in multi' \/ links'[i].addrs = {}
  /\ Announce(m)

\* What it does to the names
Naming(m) ==
  /\ \A j, h \in DOMAIN links' : links'[j].name = links'[h].name => j = h
  /\ ~renamed' =>
       /\ ~renamed
       /\ \A j \in DOMAIN links' :
            (j \in DOMAIN links /\ links'[j].name = links[j].name) \/ j > lastIndex
       /\ m.type \in OfLink => \A j \in DOMAIN links' : m.name = links'[j].name => m.index <= j

\* A link that appears
LEMMA AddLinkChange ==
  ASSUME NetlinkInv, NEW n \in Names, AddLink(n)
  PROVE  \E i, m : Change(i, m) /\ Naming(m) /\ MultiInv'
<1>0. NetlinkTypeOK /\ MultiInv /\ NameInv
  BY DEF NetlinkInv
<1>a. PICK i, l, m : i = lastIndex + 1 /\ l = [name |-> n, running |-> FALSE, addrs |-> {}]
                       /\ m = LinkMsg("NEWLINK", i, l)
  BY Zenon
<1>1. /\ \A j \in DOMAIN links : links[j].name # n
      /\ links' = With(links, i, l) /\ lastIndex' = i
      /\ Announce(m) /\ UNCHANGED <<multi, renamed>>
  BY Zenon, <1>a DEF AddLink
<1>2. lastIndex \in Nat /\ i \in Nat /\ i > lastIndex /\ i \notin DOMAIN links
  BY <1>0, <1>a DEF NetlinkTypeOK
<1>3. l \in Link /\ l.name = n /\ l.addrs = {}
  BY <1>a DEF Link
<1>4. /\ m \in Message /\ m.type = "NEWLINK" /\ m.index = i /\ m.name = n /\ m.running = l.running
  <2>1. "NEWLINK" \in OfLink
    BY DEF OfLink
  <2>2. m = LinkMsg("NEWLINK", i, l)
    BY Zenon, <1>a
  <2>. QED BY <1>2, <1>3, <2>1, <2>2, LinkMessage
<1>5. /\ DOMAIN links' = DOMAIN links \cup {i} /\ links'[i] = l
      /\ \A j \in DOMAIN links : links'[j] = links[j]
  BY <1>1, <1>2 DEF With
<1>6. links' \in [DOMAIN links' -> Link]
  BY <1>0, <1>1, <1>3, <1>5 DEF With, NetlinkTypeOK
<1>7. Change(i, m)
  <2>1. DOMAIN links' \subseteq 1 .. lastIndex' /\ lastIndex' \in Nat /\ lastIndex <= lastIndex' /\ i <= lastIndex'
    BY <1>0, <1>1, <1>2, <1>5 DEF NetlinkTypeOK
  <2>2. AddrsOf(i)' = AddrsOf(i)
    BY <1>2, <1>3, <1>5 DEF AddrsOf
  <2>. QED BY Zenon, <1>1, <1>2, <1>3, <1>4, <1>5, <1>6, <2>1, <2>2 DEF Change, OfLink, OfAddr
<1>8. Naming(m)
  <2>1. \A j, h \in DOMAIN links' : links'[j].name = links'[h].name => j = h
    <3>1. \A j \in DOMAIN links : links'[j].name = links[j].name /\ links[j].name # n
      BY Zenon, <1>1, <1>5
    <3>2. links'[i].name = n
      BY Zenon, <1>3, <1>5
    <3>. QED BY Zenon, <1>0, <1>5, <3>1, <3>2 DEF NameInv
  <2>2. i <= i
    BY <1>2
  <2>3. \A j \in DOMAIN links' : m.name = links'[j].name => j = i
    BY Zenon, <1>1, <1>4, <1>5
  <2>. QED BY Zenon, <1>1, <1>2, <1>4, <1>5, <2>1, <2>2, <2>3 DEF Naming
<1>9. MultiInv'
  <2>1. multi' = multi /\ links'[i].addrs = {}
    BY Zenon, <1>1, <1>3, <1>5
  <2>. QED BY Zenon, <1>0, <1>5, <2>1 DEF MultiInv
<1>. QED BY Zenon, <1>7, <1>8, <1>9

\* A link that is set to l, and what has to be known of l and the message
LEMMA SetChange ==
  ASSUME NetlinkInv, NEW i \in DOMAIN links, NEW l \in Link, Set(i, l)
  PROVE  /\ i \in Nat /\ i <= lastIndex /\ lastIndex' = lastIndex /\ lastIndex \in Nat
         /\ DOMAIN links' = DOMAIN links /\ DOMAIN links' \subseteq 1 .. lastIndex'
         /\ links' \in [DOMAIN links' -> Link]
         /\ links'[i] = l /\ \A j \in DOMAIN links : j # i => links'[j] = links[j]
         /\ AddrsOf(i) = links[i].addrs /\ AddrsOf(i)' = l.addrs
<1>0. NetlinkTypeOK
  BY DEF NetlinkInv
<1>1. links' = [links EXCEPT ![i] = l] /\ lastIndex' = lastIndex
  BY DEF Set
<1>2. /\ lastIndex \in Nat /\ DOMAIN links \subseteq 1 .. lastIndex
      /\ links \in [DOMAIN links -> Link]
  BY <1>0 DEF NetlinkTypeOK
<1>3. DOMAIN links' = DOMAIN links /\ links'[i] = l /\ \A j \in DOMAIN links : j # i => links'[j] = links[j]
  BY <1>1, <1>2
<1>4. links' \in [DOMAIN links' -> Link]
  BY <1>1, <1>2
<1>5. AddrsOf(i) = links[i].addrs /\ AddrsOf(i)' = l.addrs
  BY <1>3 DEF AddrsOf
<1>. QED BY <1>1, <1>2, <1>3, <1>4, <1>5

\* The state of a link
LEMMA ToggleLinkChange ==
  ASSUME NetlinkInv, NEW i \in DOMAIN links, ToggleLink(i)
  PROVE  \E h, m : Change(h, m) /\ Naming(m) /\ MultiInv'
<1>0. MultiInv /\ NameInv /\ links[i] \in Link
  BY DEF NetlinkInv, NetlinkTypeOK
<1>a. PICK l, m : l = [links[i] EXCEPT !.running = ~@] /\ m = LinkMsg("NEWLINK", i, l)
  BY Zenon
<1>1. Set(i, l) /\ Announce(m) /\ UNCHANGED <<multi, renamed>>
  BY Zenon, <1>a DEF ToggleLink
<1>2. l \in Link /\ l.name = links[i].name /\ l.addrs = links[i].addrs
  BY Zenon, <1>0, <1>a DEF Link
<1>3. /\ i \in Nat /\ i <= lastIndex /\ lastIndex' = lastIndex /\ lastIndex \in Nat
      /\ DOMAIN links' = DOMAIN links /\ DOMAIN links' \subseteq 1 .. lastIndex'
      /\ links' \in [DOMAIN links' -> Link]
      /\ links'[i] = l /\ \A j \in DOMAIN links : j # i => links'[j] = links[j]
      /\ AddrsOf(i) = links[i].addrs /\ AddrsOf(i)' = l.addrs
  BY Zenon, <1>1, <1>2, SetChange
<1>4. m \in Message /\ m.type = "NEWLINK" /\ m.index = i /\ m.name = l.name /\ m.running = l.running
  <2>1. "NEWLINK" \in OfLink
    BY DEF OfLink
  <2>2. m = LinkMsg("NEWLINK", i, l)
    BY Zenon, <1>a
  <2>. QED BY <1>2, <1>3, <2>1, <2>2, LinkMessage
<1>5. i <= lastIndex' /\ lastIndex <= lastIndex' /\ i <= i
  BY <1>3
<1>6. "NEWLINK" \in OfLink /\ "NEWLINK" \notin OfAddr
  BY DEF OfLink, OfAddr
<1>7. Change(i, m)
  BY Zenon, <1>1, <1>2, <1>3, <1>4, <1>5, <1>6 DEF Change
<1>8. \A j \in DOMAIN links : links'[j].name = links[j].name /\ links'[j].addrs = links[j].addrs
  BY Zenon, <1>2, <1>3
<1>9. Naming(m)
  <2>1. \A j, h \in DOMAIN links : links'[j].name = links'[h].name => j = h
    BY Zenon, <1>0, <1>8 DEF NameInv
  <2>2. m.name = links'[i].name
    BY Zenon, <1>3, <1>4
  <2>. QED BY ZenonT(60), <1>1, <1>3, <1>4, <1>5, <1>8, <2>1, <2>2 DEF Naming
<1>10. MultiInv'
  BY ZenonT(60), <1>0, <1>1, <1>3, <1>8 DEF MultiInv
<1>. QED BY Zenon, <1>7, <1>9, <1>10

\* The name of a link
LEMMA RenameLinkChange ==
  ASSUME NetlinkInv, NEW i \in DOMAIN links, NEW n \in Names, RenameLink(i, n)
  PROVE  \E h, m : Change(h, m) /\ Naming(m) /\ MultiInv'
<1>0. MultiInv /\ NameInv /\ links[i] \in Link
  BY DEF NetlinkInv, NetlinkTypeOK
<1>a. PICK l, m : l = [links[i] EXCEPT !.name = n] /\ m = LinkMsg("NEWLINK", i, l)
  BY Zenon
<1>1. /\ Set(i, l) /\ Announce(m) /\ renamed' /\ UNCHANGED multi
      /\ \A j \in DOMAIN links : links[j].name # n
  BY Zenon, <1>a DEF RenameLink
<1>2. l \in Link /\ l.name = n /\ l.addrs = links[i].addrs
  BY <1>0, <1>a DEF Link
<1>3. /\ i \in Nat /\ i <= lastIndex /\ lastIndex' = lastIndex /\ lastIndex \in Nat
      /\ DOMAIN links' = DOMAIN links /\ DOMAIN links' \subseteq 1 .. lastIndex'
      /\ links' \in [DOMAIN links' -> Link]
      /\ links'[i] = l /\ \A j \in DOMAIN links : j # i => links'[j] = links[j]
      /\ AddrsOf(i) = links[i].addrs /\ AddrsOf(i)' = l.addrs
  BY Zenon, <1>1, <1>2, SetChange
<1>4. m \in Message /\ m.type = "NEWLINK" /\ m.index = i /\ m.name = l.name /\ m.running = l.running
  <2>1. "NEWLINK" \in OfLink
    BY DEF OfLink
  <2>2. m = LinkMsg("NEWLINK", i, l)
    BY Zenon, <1>a
  <2>. QED BY <1>2, <1>3, <2>1, <2>2, LinkMessage
<1>5. i <= lastIndex' /\ lastIndex <= lastIndex'
  BY <1>3
<1>6. "NEWLINK" \in OfLink /\ "NEWLINK" \notin OfAddr
  BY DEF OfLink, OfAddr
<1>7. Change(i, m)
  BY Zenon, <1>1, <1>2, <1>3, <1>4, <1>5, <1>6 DEF Change
<1>8. \A j \in DOMAIN links : links'[j].addrs = links[j].addrs
  BY Zenon, <1>2, <1>3
<1>9. Naming(m)
  <2>1. links'[i].name = n /\ \A j \in DOMAIN links : j # i => links'[j].name = links[j].name /\ links'[j].name # n
    BY Zenon, <1>1, <1>2, <1>3
  <2>2. ASSUME NEW j \in DOMAIN links, NEW h \in DOMAIN links, links'[j].name = links'[h].name
        PROVE  j = h
    <3>1. CASE j = i \/ h = i
      BY Zenon, <2>1, <2>2, <3>1
    <3>2. CASE j # i /\ h # i
      BY Zenon, <1>0, <2>1, <2>2, <3>2 DEF NameInv
    <3>. QED BY <3>1, <3>2
  <2>. QED BY Zenon, <1>1, <1>3, <2>2 DEF Naming
<1>10. MultiInv'
  BY ZenonT(60), <1>0, <1>1, <1>3, <1>8 DEF MultiInv
<1>. QED BY Zenon, <1>7, <1>9, <1>10

\* A link that goes has no addresses left.
LEMMA DelLinkChange ==
  ASSUME NetlinkInv, NEW i \in DOMAIN links, DelLink(i)
  PROVE  \E h, m : Change(h, m) /\ Naming(m) /\ MultiInv'
<1>0. /\ MultiInv /\ NameInv /\ links[i] \in Link
      /\ lastIndex \in Nat /\ DOMAIN links \subseteq 1 .. lastIndex /\ links \in [DOMAIN links -> Link]
  BY DEF NetlinkInv, NetlinkTypeOK
<1>a. PICK m : m = LinkMsg("DELLINK", i, links[i])
  OBVIOUS
<1>1. /\ links[i].addrs = {} /\ links' = [j \in DOMAIN links \ {i} |-> links[j]]
      /\ Announce(m) /\ UNCHANGED <<lastIndex, multi, renamed>>
  BY Zenon, <1>a DEF DelLink
<1>2. DOMAIN links' = DOMAIN links \ {i} /\ \A j \in DOMAIN links' : links'[j] = links[j]
  BY <1>1
<1>3. /\ i \in Nat /\ i <= lastIndex' /\ lastIndex <= lastIndex' /\ lastIndex' \in Nat /\ i <= i
      /\ DOMAIN links' \subseteq 1 .. lastIndex'
  BY <1>0, <1>1, <1>2
<1>4. m \in Message /\ m.type = "DELLINK" /\ m.index = i /\ m.name = links[i].name
  <2>1. "DELLINK" \in OfLink
    BY DEF OfLink
  <2>. QED BY <1>a, <1>0, <1>3, <2>1, LinkMessage
<1>5. links' \in [DOMAIN links' -> Link]
  BY <1>0, <1>1
<1>6. "DELLINK" \in OfLink /\ "DELLINK" \notin OfAddr
  BY DEF OfLink, OfAddr
<1>7. AddrsOf(i)' = AddrsOf(i)
  BY <1>1, <1>2 DEF AddrsOf
<1>8. Change(i, m)
  BY Zenon, <1>1, <1>2, <1>3, <1>4, <1>5, <1>6, <1>7 DEF Change
<1>9. Naming(m)
  <2>1. \A j, h \in DOMAIN links' : links'[j].name = links'[h].name => j = h
    BY Zenon, <1>0, <1>2 DEF NameInv
  <2>2. \A j \in DOMAIN links' : m.name # links'[j].name
    BY Zenon, <1>0, <1>2, <1>4 DEF NameInv
  <2>. QED BY Zenon, <1>1, <1>2, <2>1, <2>2 DEF Naming
<1>10. MultiInv'
  BY ZenonT(60), <1>0, <1>1, <1>2 DEF MultiInv
<1>. QED BY Zenon, <1>8, <1>9, <1>10

\* An address that is added
LEMMA AddAddrChange ==
  ASSUME NetlinkInv, NEW i \in DOMAIN links, NEW a \in Addrs, AddAddr(i, a)
  PROVE  \E h, m : Change(h, m) /\ Naming(m) /\ MultiInv'
<1>0. MultiInv /\ NameInv /\ links[i] \in Link
  BY DEF NetlinkInv, NetlinkTypeOK
<1>a. PICK l, m : l = [links[i] EXCEPT !.addrs = @ \cup {a}] /\ m = AddrMsg("NEWADDR", i, a)
  BY Zenon
<1>1. /\ Set(i, l) /\ Announce(m) /\ UNCHANGED renamed
      /\ multi' = IF Cardinality(l.addrs) > 1 THEN multi \cup {i} ELSE multi
  BY Zenon, <1>a DEF AddAddr
<1>2. /\ l \in Link /\ l.name = links[i].name /\ l.running = links[i].running
      /\ l.addrs = links[i].addrs \cup {a} /\ l.addrs \in SUBSET Addrs
  BY <1>0, <1>a DEF Link
<1>3. /\ i \in Nat /\ i <= lastIndex /\ lastIndex' = lastIndex /\ lastIndex \in Nat
      /\ DOMAIN links' = DOMAIN links /\ DOMAIN links' \subseteq 1 .. lastIndex'
      /\ links' \in [DOMAIN links' -> Link]
      /\ links'[i] = l /\ \A j \in DOMAIN links : j # i => links'[j] = links[j]
  BY Zenon, <1>1, <1>2, SetChange
<1>4. m \in Message /\ m.type = "NEWADDR" /\ m.index = i /\ m.addr = a
  <2>1. "NEWADDR" \in OfAddr
    BY DEF OfAddr
  <2>2. m = AddrMsg("NEWADDR", i, a)
    BY Zenon, <1>a
  <2>. QED BY <1>3, <2>1, <2>2, AddrMessage
<1>5. i <= lastIndex' /\ lastIndex <= lastIndex'
  BY <1>3
<1>6. "NEWADDR" \in OfAddr /\ "NEWADDR" \notin OfLink /\ "NEWADDR" # "DELADDR"
  BY DEF OfLink, OfAddr
<1>7. /\ multi \subseteq multi' /\ m.addr \in links'[i].addrs
      /\ links'[i].name = links[i].name /\ links'[i].running = links[i].running
  BY <1>1, <1>2, <1>3, <1>4
<1>8. Change(i, m)
  BY Zenon, <1>1, <1>3, <1>4, <1>5, <1>6, <1>7 DEF Change
<1>9. \A j \in DOMAIN links : links'[j].name = links[j].name
  BY Zenon, <1>3, <1>7
<1>10. Naming(m)
  <2>1. \A j, h \in DOMAIN links : links'[j].name = links'[h].name => j = h
    BY Zenon, <1>0, <1>9 DEF NameInv
  <2>. QED BY Zenon, <1>1, <1>3, <1>4, <1>6, <1>9, <2>1 DEF Naming
<1>11. MultiInv'
  <2>1. i \notin multi' => \A x, y \in l.addrs : x = y
    <3>. SUFFICES ASSUME i \notin multi' PROVE \A x, y \in l.addrs : x = y
      BY Zenon
    <3>1. ~(Cardinality(l.addrs) > 1)
      BY <1>1
    <3>. QED BY <1>2, <3>1, AtMostOne
  <2>. QED BY Zenon, <1>0, <1>3, <1>7, <2>1 DEF MultiInv
<1>. QED BY Zenon, <1>8, <1>10, <1>11

\* An address that is removed; it is the last one, or there were two.
LEMMA DelAddrChange ==
  ASSUME NetlinkInv, NEW i \in DOMAIN links, NEW a \in Addrs, DelAddr(i, a)
  PROVE  \E h, m : Change(h, m) /\ Naming(m) /\ MultiInv'
<1>0. MultiInv /\ NameInv /\ links[i] \in Link
  BY DEF NetlinkInv, NetlinkTypeOK
<1>a. PICK l, m : l = [links[i] EXCEPT !.addrs = @ \ {a}] /\ m = AddrMsg("DELADDR", i, a)
  BY Zenon
<1>1. a \in links[i].addrs /\ Set(i, l) /\ Announce(m) /\ UNCHANGED <<multi, renamed>>
  BY Zenon, <1>a DEF DelAddr
<1>2. /\ l \in Link /\ l.name = links[i].name /\ l.running = links[i].running
      /\ l.addrs = links[i].addrs \ {a}
  BY <1>0, <1>a DEF Link
<1>3. /\ i \in Nat /\ i <= lastIndex /\ lastIndex' = lastIndex /\ lastIndex \in Nat
      /\ DOMAIN links' = DOMAIN links /\ DOMAIN links' \subseteq 1 .. lastIndex'
      /\ links' \in [DOMAIN links' -> Link]
      /\ links'[i] = l /\ \A j \in DOMAIN links : j # i => links'[j] = links[j]
  BY Zenon, <1>1, <1>2, SetChange
<1>4. m \in Message /\ m.type = "DELADDR" /\ m.index = i
  <2>1. "DELADDR" \in OfAddr
    BY DEF OfAddr
  <2>2. m = AddrMsg("DELADDR", i, a)
    BY Zenon, <1>a
  <2>. QED BY <1>3, <2>1, <2>2, AddrMessage
<1>5. i <= lastIndex' /\ lastIndex <= lastIndex'
  BY <1>3
<1>6. "DELADDR" \in OfAddr /\ "DELADDR" \notin OfLink /\ "NEWADDR" # "DELADDR"
  BY DEF OfLink, OfAddr
<1>7. /\ multi' = multi /\ links'[i].name = links[i].name /\ links'[i].running = links[i].running
      /\ \A j \in DOMAIN links : links'[j].name = links[j].name /\ links'[j].addrs \subseteq links[j].addrs
  BY <1>1, <1>2, <1>3
<1>8. i \in multi' \/ links'[i].addrs = {}
  BY <1>0, <1>1, <1>2, <1>3 DEF MultiInv
<1>9. Change(i, m)
  BY Zenon, <1>1, <1>3, <1>4, <1>5, <1>6, <1>7, <1>8 DEF Change
<1>10. Naming(m)
  <2>1. \A j, h \in DOMAIN links : links'[j].name = links'[h].name => j = h
    BY Zenon, <1>0, <1>7 DEF NameInv
  <2>. QED BY Zenon, <1>1, <1>3, <1>4, <1>6, <1>7, <2>1 DEF Naming
<1>11. MultiInv'
  <2>1. \A j \in DOMAIN links' : j \in DOMAIN links /\ \A x \in links'[j].addrs : x \in links[j].addrs
    BY Zenon, <1>3, <1>7
  <2>. QED BY ZenonT(60), <1>0, <1>7, <2>1 DEF MultiInv
<1>. QED BY Zenon, <1>9, <1>10, <1>11

\* Every change of the kernel
LEMMA KernelChange ==
  ASSUME NetlinkInv, Kernel
  PROVE  \E i, m : Change(i, m) /\ Naming(m) /\ MultiInv'
BY Zenon, AddLinkChange, ToggleLinkChange, RenameLinkChange, DelLinkChange, AddAddrChange,
   DelAddrChange DEF Kernel

\* A change that is announced, is not because nobody listens, or is lost
LEMMA KernelStep ==
  ASSUME NetlinkInv, Kernel
  PROVE  NetlinkInv'
<1>0. NetlinkTypeOK /\ LinkInv /\ AddrInv /\ DumpedInv /\ NameInv
  BY DEF NetlinkInv
<1>a. PICK i, m : Change(i, m) /\ Naming(m) /\ MultiInv'
  BY KernelChange
<1>1. /\ npc' = npc /\ cache' = cache
      /\ \/ /\ npc \in {"down", "failed"} /\ nqueue' = nqueue /\ overrun' = overrun /\ lossy' = lossy
         \/ /\ npc \notin {"down", "failed"}
            /\ nqueue' = Append(nqueue, m) /\ overrun' = overrun /\ lossy' = lossy
         \/ /\ npc \notin {"down", "failed"} /\ nqueue' = nqueue /\ overrun' = TRUE /\ lossy' = TRUE
  BY <1>a DEF Change, Announce
<1>2. /\ nqueue \in Seq(Message) /\ m \in Message /\ i \in Nat /\ m.index = i
      /\ lastIndex \in Nat /\ lastIndex' \in Nat /\ lastIndex <= lastIndex' /\ i <= lastIndex'
  BY <1>0, <1>a DEF Change, NetlinkTypeOK
<1>. DEFINE n == Len(nqueue)
            q == Append(nqueue, m)
<1>3. /\ q \in Seq(Message) /\ Len(q) = n + 1 /\ n \in Nat
      /\ \A k \in 1 .. n : q[k] = nqueue[k]
      /\ q[n + 1] = m
      /\ \A j, types : m.type \in types /\ m.index = j =>
           /\ ~Without(q, j, types)
           /\ \A k \in 1 .. Len(q) : Latest(q, k, j, types) => k = n + 1
      /\ \A j, types : ~(m.type \in types /\ m.index = j) =>
           /\ Without(q, j, types) => Without(nqueue, j, types)
           /\ \A k \in 1 .. Len(q) : Latest(q, k, j, types) => k \in 1 .. n /\ Latest(nqueue, k, j, types)
  BY Zenon, <1>2, Appended
<1>4. \A k \in 1 .. Len(q) : k \in 1 .. n \/ k = n + 1
  BY Zenon, <1>3, OneMore
<1>. HIDE DEF q
<1>5. /\ nqueue' \in Seq(Message)
      /\ \A k \in 1 .. Len(nqueue') : \/ k \in 1 .. n /\ nqueue'[k] = nqueue[k]
                                      \/ nqueue'[k] = m
  BY Zenon, <1>1, <1>2, <1>3, <1>4 DEF q
<1>6. NetlinkTypeOK'
  <2>1. \A k \in 1 .. Len(nqueue') : nqueue'[k].type \in OfLink => nqueue'[k].index <= lastIndex'
    <3>. SUFFICES ASSUME NEW k \in 1 .. Len(nqueue'), nqueue'[k].type \in OfLink
                  PROVE  nqueue'[k].index <= lastIndex'
      BY Zenon
    <3>1. CASE nqueue'[k] = m
      BY Zenon, <1>2, <3>1
    <3>2. CASE k \in 1 .. n /\ nqueue'[k] = nqueue[k]
      <4>1. nqueue[k].index <= lastIndex /\ nqueue[k] \in Message /\ nqueue[k].index \in Nat
        BY Zenon, <1>0, <1>2, <3>2, Messages, ElementOfSeq DEF NetlinkTypeOK
      <4>. QED BY <1>2, <3>2, <4>1
    <3>. QED BY <1>5, <3>1, <3>2
  <2>2. links' \in [DOMAIN links' -> Link] /\ DOMAIN links' \subseteq 1 .. lastIndex'
    BY Zenon, <1>a DEF Change
  <2>3. cache' \in [DOMAIN cache' -> Entry]
    BY Zenon, <1>0, <1>1 DEF NetlinkTypeOK
  <2>4. DOMAIN cache' \subseteq 0 .. lastIndex'
    BY <1>0, <1>1, <1>2 DEF NetlinkTypeOK
  <2>5. npc' \in {"down", "failed", "dump", "links", "addr_dump", "addrs", "idle", "drain"}
    BY Zenon, <1>0, <1>1 DEF NetlinkTypeOK
  <2>6. npc' \in {"down", "failed"} => DOMAIN cache' = {} /\ nqueue' = <<>>
    BY Zenon, <1>0, <1>1 DEF NetlinkTypeOK
  <2>7. overrun' \in BOOLEAN /\ lossy' \in BOOLEAN /\ (overrun' => lossy')
    <3>1. \/ overrun' = overrun /\ lossy' = lossy
          \/ overrun' = TRUE /\ lossy' = TRUE
      BY Zenon, <1>1
    <3>2. overrun \in BOOLEAN /\ lossy \in BOOLEAN /\ (overrun => lossy)
      BY Zenon, <1>0 DEF NetlinkTypeOK
    <3>3. CASE overrun' = overrun /\ lossy' = lossy
      BY Zenon, <3>2, <3>3
    <3>4. CASE overrun' = TRUE /\ lossy' = TRUE
      <4>1. TRUE \in BOOLEAN
        OBVIOUS
      <4>. QED BY Zenon, <3>4, <4>1
    <3>. QED BY Zenon, <3>1, <3>3, <3>4
  <2>. QED BY Zenon, <1>2, <1>5, <2>1, <2>2, <2>3, <2>4, <2>5, <2>6, <2>7 DEF NetlinkTypeOK
<1>7. LinkInv'
  <2>. SUFFICES ASSUME ~lossy', npc \notin {"down", "failed", "dump"}, nqueue' = q, ~lossy,
                       NEW j \in DOMAIN links'
                PROVE  /\ \A k \in 1 .. Len(q) : Latest(q, k, j, OfLink) =>
                            q[k].name = links'[j].name /\ q[k].running = links'[j].running
                       /\ Without(q, j, OfLink) =>
                            /\ j \in DOMAIN cache
                            /\ cache[j].name = links'[j].name /\ cache[j].running = links'[j].running
    BY ZenonT(60), <1>1 DEF LinkInv, q
  <2>1. CASE j = i /\ m.type \in OfLink
    BY Zenon, <1>a, <1>2, <1>3, <2>1 DEF Change
  <2>2. CASE ~(j = i /\ m.type \in OfLink)
    <3>1. j \in DOMAIN links /\ links'[j].name = links[j].name /\ links'[j].running = links[j].running
      BY Zenon, <1>a, <2>2 DEF Change
    <3>2. /\ Without(q, j, OfLink) => Without(nqueue, j, OfLink)
          /\ \A k \in 1 .. Len(q) : Latest(q, k, j, OfLink) => k \in 1 .. n /\ Latest(nqueue, k, j, OfLink)
      BY Zenon, <1>2, <1>3, <2>2
    <3>3. \A k \in 1 .. n : Latest(nqueue, k, j, OfLink) =>
            nqueue[k].name = links[j].name /\ nqueue[k].running = links[j].running
      BY Zenon, <1>0, <3>1 DEF LinkInv
    <3>4. Without(nqueue, j, OfLink) =>
            j \in DOMAIN cache /\ cache[j].name = links[j].name /\ cache[j].running = links[j].running
      BY Zenon, <1>0, <3>1 DEF LinkInv
    <3>. QED BY Zenon, <1>3, <3>1, <3>2, <3>3, <3>4
  <2>. QED BY Zenon, <2>1, <2>2
<1>8. AddrInv'
  <2>1. CASE npc \in {"down", "failed"}
    <3>1. nqueue' = <<>> /\ DOMAIN cache' = {} /\ Len(<<>>) = 0
      BY <1>0, <1>1, <2>1 DEF NetlinkTypeOK
    <3>2. \A k \in 1 .. Len(nqueue') : FALSE
      BY <3>1
    <3>. QED BY Zenon, <3>1, <3>2 DEF AddrInv
  <2>2. CASE npc \notin {"down", "failed"}
    <3>. SUFFICES ASSUME nqueue' = q, ~lossy, NEW j \in Nat
                  PROVE  /\ \A k \in 1 .. Len(q) :
                              Latest(q, k, j, OfAddr) /\ q[k].type = "NEWADDR" => q[k].addr \in AddrsOf(j)'
                         /\ Without(q, j, OfAddr) /\ j \in DOMAIN cache =>
                              cache[j].ip \in AddrsOf(j)' \cup {NoAddr}
      BY Zenon, <1>1, <2>2 DEF AddrInv, q
    <3>1. CASE j = i /\ m.type \in OfAddr
      <4>1. m.type = "NEWADDR" => m.addr \in AddrsOf(j)'
        BY Zenon, <1>a, <3>1 DEF Change, AddrsOf
      <4>. QED BY Zenon, <1>2, <1>3, <3>1, <4>1
    <3>2. CASE ~(j = i /\ m.type \in OfAddr)
      <4>1. AddrsOf(j)' = AddrsOf(j)
        <5>1. CASE j = i
          BY Zenon, <1>a, <3>2, <5>1 DEF Change
        <5>2. CASE j # i
          BY Zenon, <1>a, <5>2 DEF Change, AddrsOf
        <5>. QED BY <5>1, <5>2
      <4>2. /\ Without(q, j, OfAddr) => Without(nqueue, j, OfAddr)
            /\ \A k \in 1 .. Len(q) : Latest(q, k, j, OfAddr) => k \in 1 .. n /\ Latest(nqueue, k, j, OfAddr)
        BY Zenon, <1>2, <1>3, <3>2
      <4>. QED BY Zenon, <1>0, <1>3, <4>1, <4>2 DEF AddrInv
    <3>. QED BY Zenon, <3>1, <3>2
  <2>. QED BY <2>1, <2>2
<1>9. DumpedInv'
  <2>. SUFFICES ASSUME ~lossy', npc \in {"addrs", "idle", "drain"}, nqueue' = q, ~lossy,
                       NEW j \in DOMAIN links', links'[j].addrs # {}, j \notin multi'
                PROVE  /\ \A k \in 1 .. Len(q) : Latest(q, k, j, OfAddr) =>
                            q[k].type = "NEWADDR" /\ Known(q, cache, k, j)
                       /\ Without(q, j, OfAddr) => j \in DOMAIN cache /\ cache[j].ip # NoAddr
    BY Zenon, <1>1 DEF DumpedInv, q
  <2>1. CASE j = i /\ m.type \in OfAddr
    <3>1. m.type = "NEWADDR" /\ j \in DOMAIN links
      BY Zenon, <1>a, <2>1 DEF Change, OfAddr
    <3>2. Known(q, cache, n + 1, j)
      <4>1. CASE Without(nqueue, j, OfLink)
        BY <1>0, <3>1, <4>1 DEF LinkInv, Known
      <4>2. CASE ~Without(nqueue, j, OfLink)
        <5>1. PICK h \in 1 .. n : At(nqueue, h, j, OfLink)
          BY <4>2 DEF Without
        <5>2. h \in 1 .. Len(q) /\ h < n + 1 /\ At(q, h, j, OfLink)
          BY <1>3, <5>1 DEF At
        <5>. QED BY <5>2 DEF Known
      <4>. QED BY <4>1, <4>2
    <3>. QED BY Zenon, <1>2, <1>3, <2>1, <3>1, <3>2
  <2>2. CASE ~(j = i /\ m.type \in OfAddr)
    <3>1. j \in DOMAIN links /\ links[j].addrs # {} /\ j \notin multi
      <4>1. CASE j = i
        BY Zenon, <1>a, <2>2, <4>1 DEF Change, AddrsOf
      <4>2. CASE j # i
        BY Zenon, <1>a, <4>2 DEF Change
      <4>. QED BY <4>1, <4>2
    <3>2. /\ Without(q, j, OfAddr) => Without(nqueue, j, OfAddr)
          /\ \A k \in 1 .. Len(q) : Latest(q, k, j, OfAddr) => k \in 1 .. n /\ Latest(nqueue, k, j, OfAddr)
      BY Zenon, <1>2, <1>3, <2>2
    <3>3. \A k \in 1 .. n : Known(nqueue, cache, k, j) => Known(q, cache, k, j)
      <4>1. \A h \in 1 .. n : h \in 1 .. Len(q) /\ (At(nqueue, h, j, OfLink) => At(q, h, j, OfLink))
        BY <1>3 DEF At
      <4>. QED BY Zenon, <4>1 DEF Known, n
    <3>4. \A k \in 1 .. n : Latest(nqueue, k, j, OfAddr) =>
            nqueue[k].type = "NEWADDR" /\ Known(nqueue, cache, k, j)
      BY Zenon, <1>0, <3>1 DEF DumpedInv
    <3>5. Without(nqueue, j, OfAddr) => j \in DOMAIN cache /\ cache[j].ip # NoAddr
      BY Zenon, <1>0, <3>1 DEF DumpedInv
    <3>. QED BY Zenon, <1>3, <3>2, <3>3, <3>4, <3>5
  <2>. QED BY Zenon, <2>1, <2>2
<1>10. NameInv'
  <2>. SUFFICES ASSUME ~renamed', NEW j \in DOMAIN links'
                PROVE  /\ \A h \in DOMAIN cache : cache[h].name = links'[j].name => h <= j
                       /\ \A k \in 1 .. Len(nqueue') :
                            nqueue'[k].type \in OfLink /\ nqueue'[k].name = links'[j].name =>
                              nqueue'[k].index <= j
    BY Zenon, <1>a, <1>1 DEF NameInv, Naming
  <2>1. ~renamed /\ (m.type \in OfLink /\ m.name = links'[j].name => m.index <= j)
    BY Zenon, <1>a DEF Naming
  <2>2. CASE j \in DOMAIN links /\ links'[j].name = links[j].name
    BY Zenon, <1>0, <1>5, <2>1, <2>2 DEF NameInv
  <2>3. CASE j > lastIndex
    <3>1. \A h \in DOMAIN cache : h <= j
      BY <1>0, <1>2, <1>a, <2>3 DEF NetlinkTypeOK, Change
    <3>2. ASSUME NEW k \in 1 .. n, nqueue[k].type \in OfLink PROVE nqueue[k].index <= j
      <4>1. nqueue[k].index <= lastIndex /\ nqueue[k] \in Message /\ nqueue[k].index \in Nat
        BY Zenon, <1>0, <1>2, <3>2, Messages, ElementOfSeq DEF NetlinkTypeOK
      <4>2. j \in Nat
        BY <1>2, <1>a DEF Change
      <4>. QED BY <1>2, <2>3, <4>1, <4>2
    <3>. QED BY Zenon, <1>5, <2>1, <3>1, <3>2
  <2>. QED BY Zenon, <1>a, <2>1, <2>2, <2>3 DEF Naming
<1>. QED BY Zenon, <1>a, <1>6, <1>7, <1>8, <1>9, <1>10 DEF NetlinkInv
-----------------------------------------------------------------------------
(* The monitor.                                                            *)

\* The phases after the link dump, and after the address dump
AfterLinks == {"links", "addr_dump", "addrs", "idle", "drain"}
AfterAddrs == {"addrs", "idle", "drain"}

\* A message that is read, in whichever phase
LEMMA ReceiveStep ==
  ASSUME NetlinkInv, Receive, npc \in AfterLinks, npc' \in AfterLinks,
         npc' \in AfterAddrs => npc \in AfterAddrs
  PROVE  NetlinkInv'
<1>0. NetlinkTypeOK /\ MultiInv /\ LinkInv /\ AddrInv /\ DumpedInv /\ NameInv
  BY DEF NetlinkInv
<1>1. /\ nqueue # <<>> /\ nqueue' = Tail(nqueue) /\ cache' = Dispatch(Head(nqueue), cache)
      /\ links' = links /\ lastIndex' = lastIndex /\ multi' = multi /\ renamed' = renamed
      /\ overrun' = overrun /\ lossy' = lossy
  BY DEF Receive, kernelVars
<1>2. nqueue \in Seq(Message) /\ cache \in [DOMAIN cache -> Entry] /\ lastIndex \in Nat
  BY <1>0 DEF NetlinkTypeOK
<1>. DEFINE r == Tail(nqueue)
            m == Head(nqueue)
<1>3. /\ r \in Seq(Message) /\ Len(nqueue) \in Nat /\ Len(nqueue) >= 1 /\ Len(r) = Len(nqueue) - 1
      /\ \A k \in 1 .. Len(r) : k + 1 \in 1 .. Len(nqueue) /\ r[k] = nqueue[k + 1]
      /\ m = nqueue[1] /\ m \in Message
      /\ \A i, types : \A k \in 1 .. Len(r) : Latest(r, k, i, types) => Latest(nqueue, k + 1, i, types)
      /\ \A i, types : Without(r, i, types) =>
           IF At(nqueue, 1, i, types) THEN Latest(nqueue, 1, i, types) ELSE Without(nqueue, i, types)
  BY Zenon, <1>1, <1>2, Rest
<1>4. 1 \in 1 .. Len(nqueue)
  BY <1>3
<1>a. nqueue' = r
  BY <1>1
<1>c. npc \notin {"down", "failed", "dump"} /\ npc' \notin {"down", "failed", "dump"}
  BY <1>1 DEF AfterLinks
<1>b. cache' = Dispatch(m, cache)
  BY <1>1
<1>. HIDE DEF r, m
<1>5. Reads(m, cache, cache')
  BY Zenon, <1>2, <1>3, <1>b, Dispatched
<1>7. /\ \A j : At(nqueue, 1, j, OfLink) <=> m.type \in OfLink /\ m.index = j
      /\ \A j : At(nqueue, 1, j, OfAddr) <=> m.type \in OfAddr /\ m.index = j
      /\ ~(m.type \in OfLink /\ m.type \in OfAddr)
  BY Zenon, <1>3, Messages DEF At
<1>8. NetlinkTypeOK'
  <2>1. \A k \in 1 .. Len(r) : r[k].type \in OfLink => r[k].index <= lastIndex
    BY Zenon, <1>0, <1>3 DEF NetlinkTypeOK
  <2>2. m.type \in OfLink => m.index \in 0 .. lastIndex
    <3>1. m.type \in OfLink => m.index <= lastIndex /\ m.index \in Nat
      BY Zenon, <1>0, <1>3, <1>4, Messages DEF NetlinkTypeOK
    <3>. QED BY <1>2, <3>1
  <2>3. DOMAIN cache' \subseteq 0 .. lastIndex
    BY Zenon, <1>0, <1>5, <2>2 DEF NetlinkTypeOK, Reads
  <2>4. npc' \in {"down", "failed", "dump", "links", "addr_dump", "addrs", "idle", "drain"}
    BY DEF AfterLinks
  <2>. QED BY Zenon, <1>0, <1>1, <1>3, <1>5, <1>a, <1>c, <2>1, <2>3, <2>4 DEF NetlinkTypeOK, Reads
<1>9. LinkInv'
  <2>. SUFFICES ASSUME ~lossy', NEW i \in DOMAIN links'
                PROVE  /\ \A k \in 1 .. Len(nqueue') : Latest(nqueue', k, i, OfLink) =>
                            nqueue'[k].name = links'[i].name /\ nqueue'[k].running = links'[i].running
                       /\ Without(nqueue', i, OfLink) =>
                            /\ i \in DOMAIN cache'
                            /\ cache'[i].name = links'[i].name /\ cache'[i].running = links'[i].running
    BY Zenon DEF LinkInv
  <2>. SUFFICES ASSUME NEW j \in DOMAIN links
                PROVE  /\ \A k \in 1 .. Len(r) : Latest(r, k, j, OfLink) =>
                            r[k].name = links[j].name /\ r[k].running = links[j].running
                       /\ Without(r, j, OfLink) =>
                            /\ j \in DOMAIN cache'
                            /\ cache'[j].name = links[j].name /\ cache'[j].running = links[j].running
    BY ZenonT(60), <1>1, <1>a
  <2>0. ~lossy
    BY Zenon, <1>1
  <2>1. /\ \A k \in 1 .. Len(nqueue) : Latest(nqueue, k, j, OfLink) =>
             nqueue[k].name = links[j].name /\ nqueue[k].running = links[j].running
        /\ Without(nqueue, j, OfLink) =>
             /\ j \in DOMAIN cache
             /\ cache[j].name = links[j].name /\ cache[j].running = links[j].running
    BY Zenon, <1>0, <1>c, <2>0 DEF LinkInv
  <2>2. ASSUME NEW k \in 1 .. Len(r), Latest(r, k, j, OfLink)
        PROVE  r[k].name = links[j].name /\ r[k].running = links[j].running
    <3>1. k + 1 \in 1 .. Len(nqueue) /\ r[k] = nqueue[k + 1] /\ Latest(nqueue, k + 1, j, OfLink)
      BY Zenon, <1>3, <2>2
    <3>. QED BY Zenon, <2>1, <3>1
  <2>3. ASSUME Without(r, j, OfLink), m.type \in OfLink, m.index = j
        PROVE  /\ j \in DOMAIN cache'
               /\ cache'[j].name = links[j].name /\ cache'[j].running = links[j].running
    <3>1. m.name = links[j].name /\ m.running = links[j].running
      BY Zenon, <1>3, <1>4, <1>7, <2>1, <2>3
    <3>. QED BY Zenon, <1>5, <2>3, <3>1 DEF Reads
  <2>4. ASSUME Without(r, j, OfLink), ~(m.type \in OfLink /\ m.index = j)
        PROVE  /\ j \in DOMAIN cache'
               /\ cache'[j].name = links[j].name /\ cache'[j].running = links[j].running
    <3>1. j \in DOMAIN cache /\ cache[j].name = links[j].name /\ cache[j].running = links[j].running
      BY Zenon, <1>3, <1>7, <2>1, <2>4
    <3>2. j \in DOMAIN cache' /\ cache'[j].name = cache[j].name /\ cache'[j].running = cache[j].running
      BY Zenon, <1>5, <2>4, <3>1 DEF Reads
    <3>. QED BY Zenon, <3>1, <3>2
  <2>. QED BY Zenon, <2>2, <2>3, <2>4
<1>10. AddrInv'
  <2>. SUFFICES ASSUME ~lossy, NEW j \in Nat
                PROVE  /\ \A k \in 1 .. Len(r) :
                            Latest(r, k, j, OfAddr) /\ r[k].type = "NEWADDR" => r[k].addr \in AddrsOf(j)
                       /\ Without(r, j, OfAddr) /\ j \in DOMAIN cache' =>
                            cache'[j].ip \in AddrsOf(j) \cup {NoAddr}
    BY Zenon, <1>1, <1>a DEF AddrInv, AddrsOf
  <2>1. /\ \A k \in 1 .. Len(nqueue) :
             Latest(nqueue, k, j, OfAddr) /\ nqueue[k].type = "NEWADDR" => nqueue[k].addr \in AddrsOf(j)
        /\ Without(nqueue, j, OfAddr) /\ j \in DOMAIN cache =>
             cache[j].ip \in AddrsOf(j) \cup {NoAddr}
    BY Zenon, <1>0 DEF AddrInv
  <2>2. ASSUME NEW k \in 1 .. Len(r), Latest(r, k, j, OfAddr), r[k].type = "NEWADDR"
        PROVE  r[k].addr \in AddrsOf(j)
    <3>1. k + 1 \in 1 .. Len(nqueue) /\ r[k] = nqueue[k + 1] /\ Latest(nqueue, k + 1, j, OfAddr)
      BY Zenon, <1>3, <2>2
    <3>. QED BY Zenon, <2>1, <2>2, <3>1
  <2>3. ASSUME Without(r, j, OfAddr), j \in DOMAIN cache', m.type \in OfAddr, m.index = j
        PROVE  cache'[j].ip \in AddrsOf(j) \cup {NoAddr}
    <3>1. j \in DOMAIN cache
      BY Zenon, <1>5, <1>7, <2>3 DEF Reads
    <3>2. m.type = "NEWADDR" => m.addr \in AddrsOf(j)
      BY Zenon, <1>3, <1>4, <1>7, <2>1, <2>3
    <3>3. cache'[j].ip = IF m.type = "DELADDR" THEN NoAddr ELSE m.addr
      BY Zenon, <1>5, <2>3, <3>1 DEF Reads
    <3>. QED BY <2>3, <3>2, <3>3 DEF OfAddr
  <2>4. ASSUME Without(r, j, OfAddr), j \in DOMAIN cache', ~(m.type \in OfAddr /\ m.index = j)
        PROVE  cache'[j].ip \in AddrsOf(j) \cup {NoAddr}
    <3>1. j \in DOMAIN cache => cache[j].ip \in AddrsOf(j) \cup {NoAddr}
      BY Zenon, <1>3, <1>7, <2>1, <2>4
    <3>2. \/ j \in DOMAIN cache /\ cache'[j].ip = cache[j].ip
          \/ cache'[j].ip = NoAddr
      BY Zenon, <1>5, <2>4 DEF Reads
    <3>. QED BY Zenon, <3>1, <3>2
  <2>. QED BY Zenon, <2>2, <2>3, <2>4
<1>11. DumpedInv'
  <2>. SUFFICES ASSUME ~lossy, npc' \in AfterAddrs, NEW j \in DOMAIN links, links[j].addrs # {}, j \notin multi
                PROVE  /\ \A k \in 1 .. Len(r) : Latest(r, k, j, OfAddr) =>
                            r[k].type = "NEWADDR" /\ Known(r, cache', k, j)
                       /\ Without(r, j, OfAddr) => j \in DOMAIN cache' /\ cache'[j].ip # NoAddr
    BY Zenon, <1>1, <1>a DEF DumpedInv, AfterAddrs
  <2>1. /\ \A k \in 1 .. Len(nqueue) : Latest(nqueue, k, j, OfAddr) =>
             nqueue[k].type = "NEWADDR" /\ Known(nqueue, cache, k, j)
        /\ Without(nqueue, j, OfAddr) => j \in DOMAIN cache /\ cache[j].ip # NoAddr
    BY Zenon, <1>0 DEF DumpedInv, AfterAddrs
  <2>2. ASSUME NEW k \in 1 .. Len(r), Latest(r, k, j, OfAddr)
        PROVE  r[k].type = "NEWADDR" /\ Known(r, cache', k, j)
    <3>0. k + 1 \in 1 .. Len(nqueue) /\ r[k] = nqueue[k + 1] /\ Latest(nqueue, k + 1, j, OfAddr)
      BY Zenon, <1>3, <2>2
    <3>1. r[k].type = "NEWADDR" /\ Known(nqueue, cache, k + 1, j)
      BY Zenon, <2>1, <3>0
    <3>2. CASE j \in DOMAIN cache
      BY Zenon, <1>5, <3>1, <3>2 DEF Known, Reads
    <3>3. CASE j \notin DOMAIN cache
      <4>1. PICK h \in 1 .. Len(nqueue) : h < k + 1 /\ At(nqueue, h, j, OfLink)
        BY Zenon, <3>1, <3>3 DEF Known
      <4>2. CASE h = 1
        BY Zenon, <1>5, <1>7, <3>1, <4>1, <4>2 DEF Known, Reads
      <4>3. CASE h # 1
        <5>1. h - 1 \in 1 .. Len(r) /\ h - 1 < k /\ (h - 1) + 1 = h
          BY <1>3, <4>1, <4>3
        <5>2. r[h - 1] = nqueue[h]
          BY Zenon, <1>3, <5>1
        <5>3. At(r, h - 1, j, OfLink)
          BY Zenon, <4>1, <5>2 DEF At
        <5>. QED BY Zenon, <3>1, <5>1, <5>3 DEF Known
      <4>. QED BY <4>2, <4>3
    <3>. QED BY <3>2, <3>3
  <2>3. ASSUME Without(r, j, OfAddr), m.type \in OfAddr, m.index = j
        PROVE  j \in DOMAIN cache' /\ cache'[j].ip # NoAddr
    <3>1. m.type = "NEWADDR" /\ Known(nqueue, cache, 1, j)
      BY Zenon, <1>3, <1>4, <1>7, <2>1, <2>3
    <3>2. j \in DOMAIN cache
      BY <3>1 DEF Known
    <3>3. m.addr \in Addrs
      BY Zenon, <1>3, <2>3, Messages
    <3>4. m.addr # NoAddr /\ "NEWADDR" # "DELADDR"
      BY <3>3, NetlinkAssumption
    <3>5. m.type # "DELADDR"
      BY Zenon, <3>1, <3>4
    <3>6. cache'[j].ip = m.addr
      BY Zenon, <1>5, <2>3, <3>2, <3>5 DEF Reads
    <3>. QED BY Zenon, <1>5, <3>2, <3>4, <3>6 DEF Reads
  <2>4. ASSUME Without(r, j, OfAddr), ~(m.type \in OfAddr /\ m.index = j)
        PROVE  j \in DOMAIN cache' /\ cache'[j].ip # NoAddr
    <3>1. j \in DOMAIN cache /\ cache[j].ip # NoAddr
      BY Zenon, <1>3, <1>7, <2>1, <2>4
    <3>2. j \in DOMAIN cache' /\ cache'[j].ip = cache[j].ip
      BY Zenon, <1>5, <2>4, <3>1 DEF Reads
    <3>. QED BY Zenon, <3>1, <3>2
  <2>. QED BY Zenon, <2>2, <2>3, <2>4
<1>12. NameInv'
  <2>. SUFFICES ASSUME ~renamed, NEW j \in DOMAIN links
                PROVE  /\ \A h \in DOMAIN cache' : cache'[h].name = links[j].name => h <= j
                       /\ \A k \in 1 .. Len(r) :
                            r[k].type \in OfLink /\ r[k].name = links[j].name => r[k].index <= j
    BY Zenon, <1>0, <1>1, <1>a DEF NameInv
  <2>1. /\ \A h \in DOMAIN cache : cache[h].name = links[j].name => h <= j
        /\ \A k \in 1 .. Len(nqueue) :
             nqueue[k].type \in OfLink /\ nqueue[k].name = links[j].name => nqueue[k].index <= j
    BY Zenon, <1>0 DEF NameInv
  <2>2. \A k \in 1 .. Len(r) : r[k].type \in OfLink /\ r[k].name = links[j].name => r[k].index <= j
    BY Zenon, <1>3, <2>1
  <2>3. \A h \in DOMAIN cache' : \/ h \in DOMAIN cache /\ cache'[h].name = cache[h].name
                                 \/ m.type \in OfLink /\ h = m.index /\ cache'[h].name = m.name
    BY Zenon, <1>5 DEF Reads
  <2>. QED BY Zenon, <1>3, <1>4, <2>1, <2>2, <2>3
<1>13. MultiInv'
  BY Zenon, <1>0, <1>1 DEF MultiInv
<1>. QED BY Zenon, <1>8, <1>9, <1>10, <1>11, <1>12, <1>13 DEF NetlinkInv

\* Steps that only go to another phase, or lose something
LEMMA PhaseStep ==
  ASSUME NetlinkInv, UNCHANGED <<kernelVars, nqueue, cache>>,
         lossy' \in BOOLEAN, lossy => lossy', overrun' \in BOOLEAN, overrun' => overrun,
         npc' \in {"down", "failed", "dump", "links", "addr_dump", "addrs", "idle", "drain"},
         npc' \in {"down", "failed"} => npc \in {"down", "failed"},
         ~lossy' /\ npc' \in AfterLinks => npc \in AfterLinks,
         ~lossy' /\ npc' \in AfterAddrs => npc \in AfterAddrs
  PROVE  NetlinkInv'
<1>0. NetlinkTypeOK /\ MultiInv /\ LinkInv /\ AddrInv /\ DumpedInv /\ NameInv
  BY DEF NetlinkInv
<1>1. /\ links' = links /\ lastIndex' = lastIndex /\ multi' = multi /\ renamed' = renamed
      /\ nqueue' = nqueue /\ cache' = cache
  BY DEF kernelVars
<1>2. NetlinkTypeOK'
  BY Zenon, <1>0, <1>1 DEF NetlinkTypeOK
<1>3. LinkInv'
  <2>1. CASE lossy'
    BY Zenon, <2>1 DEF LinkInv
  <2>2. CASE npc' \notin AfterLinks
    <3>1. npc' \in {"down", "failed", "dump"}
      BY <2>2 DEF AfterLinks
    <3>. QED BY Zenon, <3>1 DEF LinkInv
  <2>3. CASE ~lossy' /\ npc' \in AfterLinks
    <3>1. ~lossy /\ npc \in AfterLinks
      BY Zenon, <2>3
    <3>2. npc \notin {"down", "failed", "dump"}
      BY <3>1 DEF AfterLinks
    <3>3. \A i \in DOMAIN links :
            /\ \A k \in 1 .. Len(nqueue) : Latest(nqueue, k, i, OfLink) =>
                 nqueue[k].name = links[i].name /\ nqueue[k].running = links[i].running
            /\ Without(nqueue, i, OfLink) =>
                 /\ i \in DOMAIN cache
                 /\ cache[i].name = links[i].name /\ cache[i].running = links[i].running
      BY Zenon, <1>0, <3>1, <3>2 DEF LinkInv
    <3>4. \A i \in DOMAIN links' :
            /\ \A k \in 1 .. Len(nqueue') : Latest(nqueue', k, i, OfLink) =>
                 nqueue'[k].name = links'[i].name /\ nqueue'[k].running = links'[i].running
            /\ Without(nqueue', i, OfLink) =>
                 /\ i \in DOMAIN cache'
                 /\ cache'[i].name = links'[i].name /\ cache'[i].running = links'[i].running
      BY SMT, <1>1, <3>3
    <3>. QED BY Zenon, <3>4 DEF LinkInv
  <2>. QED BY Zenon, <2>1, <2>2, <2>3
<1>4. AddrInv'
  BY Zenon, <1>0, <1>1 DEF AddrInv, AddrsOf
<1>5. DumpedInv'
  BY Zenon, <1>0, <1>1 DEF DumpedInv, AfterAddrs
<1>6. MultiInv' /\ NameInv'
  BY Zenon, <1>0, <1>1 DEF MultiInv, NameInv
<1>. QED BY Zenon, <1>2, <1>3, <1>4, <1>5, <1>6 DEF NetlinkInv

\* The answer to request_dump
LinkDump == {LinkMsg("NEWLINK", i, links[i]) : i \in DOMAIN links}

\* It tells the state of every link, in messages about links only.
LEMMA LinkDumped ==
  ASSUME NetlinkTypeOK
  PROVE  /\ LinkDump \in SUBSET Message /\ IsFiniteSet(LinkDump)
         /\ \A m \in LinkDump :
              /\ m.type = "NEWLINK" /\ m.index \in DOMAIN links
              /\ m.name = links[m.index].name /\ m.running = links[m.index].running
         /\ \A i \in DOMAIN links : \E m \in LinkDump : m.type \in OfLink /\ m.index = i
<1>1. /\ lastIndex \in Nat /\ DOMAIN links \subseteq 1 .. lastIndex
      /\ \A i \in DOMAIN links : links[i] \in Link
  BY Zenon DEF NetlinkTypeOK
<1>2. ASSUME NEW i \in DOMAIN links
      PROVE  /\ LinkMsg("NEWLINK", i, links[i]) \in LinkDump
             /\ LinkMsg("NEWLINK", i, links[i]) \in Message
             /\ LinkMsg("NEWLINK", i, links[i]).type = "NEWLINK"
             /\ LinkMsg("NEWLINK", i, links[i]).index = i
             /\ LinkMsg("NEWLINK", i, links[i]).name = links[i].name
             /\ LinkMsg("NEWLINK", i, links[i]).running = links[i].running
  <2>1. i \in Nat /\ links[i] \in Link /\ "NEWLINK" \in OfLink
    BY <1>1 DEF OfLink
  <2>2. LinkMsg("NEWLINK", i, links[i]) \in LinkDump
    BY DEF LinkDump
  <2>. QED BY <2>1, <2>2, LinkMessage
<1>3. IsFiniteSet(LinkDump)
  <2>. DEFINE f == [i \in DOMAIN links |-> LinkMsg("NEWLINK", i, links[i])]
  <2>1. f \in Surjection(DOMAIN links, LinkDump)
    BY DEF Surjection, LinkDump
  <2>a. IsFiniteSet(1 .. lastIndex)
    BY <1>1, FS_Interval
  <2>2. IsFiniteSet(DOMAIN links)
    BY Zenon, <1>1, <2>a, FS_Subset
  <2>. HIDE DEF f
  <2>. QED BY Zenon, <2>1, <2>2, FS_Surjection
<1>4. \A m \in LinkDump : \E i \in DOMAIN links : m = LinkMsg("NEWLINK", i, links[i])
  BY Zenon DEF LinkDump
<1>5. "NEWLINK" \in OfLink
  BY DEF OfLink
<1>6. ASSUME NEW m \in LinkDump
      PROVE  /\ m \in Message /\ m.type = "NEWLINK" /\ m.index \in DOMAIN links
             /\ m.name = links[m.index].name /\ m.running = links[m.index].running
  <2>1. PICK i \in DOMAIN links : m = LinkMsg("NEWLINK", i, links[i])
    BY Zenon, <1>4
  <2>2. /\ m \in Message /\ m.type = "NEWLINK" /\ m.index = i
        /\ m.name = links[i].name /\ m.running = links[i].running
    BY Zenon, <1>2, <2>1
  <2>. QED BY Zenon, <2>2
<1>7. \A i \in DOMAIN links : \E m \in LinkDump : m.type \in OfLink /\ m.index = i
  BY Zenon, <1>2, <1>5
<1>. QED BY Zenon, <1>3, <1>6, <1>7

\* The answer to request_addr_dump
AddrDump == UNION {{AddrMsg("NEWADDR", i, a) : a \in links[i].addrs} : i \in DOMAIN links}

\* It tells every address of every link, in messages about addresses only.
LEMMA AddrDumped ==
  ASSUME NetlinkTypeOK
  PROVE  /\ AddrDump \in SUBSET Message /\ IsFiniteSet(AddrDump)
         /\ \A m \in AddrDump :
              m.type = "NEWADDR" /\ m.index \in DOMAIN links /\ m.addr \in links[m.index].addrs
         /\ \A i \in DOMAIN links : links[i].addrs # {} =>
              \E m \in AddrDump : m.type \in OfAddr /\ m.index = i
<1>1. /\ lastIndex \in Nat /\ DOMAIN links \subseteq 1 .. lastIndex
      /\ \A i \in DOMAIN links : links[i] \in Link
  BY Zenon DEF NetlinkTypeOK
<1>2. \A i \in DOMAIN links : i \in Nat /\ links[i].addrs \subseteq Addrs
  BY <1>1 DEF Link
<1>3. "NEWADDR" \in OfAddr
  BY DEF OfAddr
<1>4. ASSUME NEW i \in DOMAIN links, NEW a \in links[i].addrs
      PROVE  /\ AddrMsg("NEWADDR", i, a) \in AddrDump
             /\ AddrMsg("NEWADDR", i, a) \in Message
             /\ AddrMsg("NEWADDR", i, a).type = "NEWADDR"
             /\ AddrMsg("NEWADDR", i, a).index = i
             /\ AddrMsg("NEWADDR", i, a).addr = a
  <2>1. i \in Nat /\ a \in Addrs
    BY Zenon, <1>2
  <2>2. AddrMsg("NEWADDR", i, a) \in AddrDump
    BY DEF AddrDump
  <2>. QED BY <1>3, <2>1, <2>2, AddrMessage
<1>5. \A m \in AddrDump : \E i \in DOMAIN links : \E a \in links[i].addrs : m = AddrMsg("NEWADDR", i, a)
  BY Zenon DEF AddrDump
<1>6. ASSUME NEW m \in AddrDump
      PROVE  /\ m \in Message /\ m.type = "NEWADDR" /\ m.index \in DOMAIN links
             /\ m.addr \in links[m.index].addrs
  <2>1. PICK i \in DOMAIN links, a \in Addrs : a \in links[i].addrs /\ m = AddrMsg("NEWADDR", i, a)
    BY Zenon, <1>2, <1>5
  <2>2. m \in Message /\ m.type = "NEWADDR" /\ m.index = i /\ m.addr = a
    BY Zenon, <1>4, <2>1
  <2>. QED BY Zenon, <2>1, <2>2
<1>7. IsFiniteSet(AddrDump)
  <2>. DEFINE D == DOMAIN links
              P == {p \in D \X Addrs : p[2] \in links[p[1]].addrs}
              f == [p \in P |-> AddrMsg("NEWADDR", p[1], p[2])]
  <2>0. IsFiniteSet(1 .. lastIndex)
    BY <1>1, FS_Interval
  <2>1. IsFiniteSet(D)
    BY Zenon, <1>1, <2>0, FS_Subset
  <2>2. IsFiniteSet(D \X Addrs)
    BY <2>1, NetlinkAssumption, FS_Product
  <2>3. IsFiniteSet(P)
    BY <2>2, FS_Subset
  <2>4. \A p \in P : p[1] \in D /\ p[2] \in links[p[1]].addrs
    OBVIOUS
  <2>5. \A i \in D : \A a \in Addrs : a \in links[i].addrs =>
          <<i, a>> \in P /\ <<i, a>>[1] = i /\ <<i, a>>[2] = a
    OBVIOUS
  <2>. HIDE DEF P, D
  <2>6. \A p \in P : f[p] = AddrMsg("NEWADDR", p[1], p[2]) /\ f[p] \in AddrDump
    BY <1>4, <2>4 DEF D
  <2>7. \A i \in D : \A a \in Addrs : a \in links[i].addrs => f[<<i, a>>] = AddrMsg("NEWADDR", i, a)
    BY Zenon, <2>5, <2>6
  <2>8. f \in [P -> AddrDump]
    BY Zenon, <2>6
  <2>. HIDE DEF f
  <2>9. \A m \in AddrDump : \E p \in P : f[p] = m
    <3>. SUFFICES ASSUME NEW m \in AddrDump PROVE \E p \in P : f[p] = m
      OBVIOUS
    <3>1. PICK i \in D, a \in Addrs : a \in links[i].addrs /\ m = AddrMsg("NEWADDR", i, a)
      BY Zenon, <1>2, <1>5 DEF D
    <3>2. <<i, a>> \in P /\ f[<<i, a>>] = m
      BY Zenon, <2>5, <2>7, <3>1
    <3>. QED BY Zenon, <3>2
  <2>10. f \in Surjection(P, AddrDump)
    BY Zenon, <2>8, <2>9 DEF Surjection
  <2>. QED BY Zenon, <2>3, <2>10, FS_Surjection
<1>8. ASSUME NEW i \in DOMAIN links, links[i].addrs # {}
      PROVE  \E m \in AddrDump : m.type \in OfAddr /\ m.index = i
  <2>1. PICK a : a \in links[i].addrs
    BY Zenon, <1>8
  <2>. QED BY ZenonT(60), <1>3, <1>4, <2>1
<1>. QED BY Zenon, <1>6, <1>7, <1>8

\* request_dump that is answered
LEMMA LinkDumpStep ==
  ASSUME NetlinkInv, npc = "dump", npc' = "links", DumpBehind(nqueue, LinkDump, nqueue'),
         UNCHANGED <<kernelVars, overrun, cache, lossy>>
  PROVE  NetlinkInv'
<1>0. NetlinkTypeOK /\ MultiInv /\ LinkInv /\ AddrInv /\ DumpedInv /\ NameInv
  BY DEF NetlinkInv
<1>1. /\ links' = links /\ lastIndex' = lastIndex /\ multi' = multi /\ renamed' = renamed
      /\ overrun' = overrun /\ cache' = cache /\ lossy' = lossy
  BY DEF kernelVars
<1>2. /\ LinkDump \in SUBSET Message /\ IsFiniteSet(LinkDump)
      /\ \A m \in LinkDump :
           /\ m.type = "NEWLINK" /\ m.index \in DOMAIN links
           /\ m.name = links[m.index].name /\ m.running = links[m.index].running
      /\ \A i \in DOMAIN links : \E m \in LinkDump : m.type \in OfLink /\ m.index = i
  BY Zenon, <1>0, LinkDumped
<1>4. PICK r : nqueue' = r
  OBVIOUS
<1>5. /\ r \in Seq(Message) /\ Len(nqueue) \in Nat /\ Len(nqueue) <= Len(r)
      /\ \A k \in 1 .. Len(nqueue) : r[k] = nqueue[k]
      /\ \A k \in 1 .. Len(r) : k \in 1 .. Len(nqueue) \/ r[k] \in LinkDump \cup {Done}
      /\ \A i : \A types \in {OfLink, OfAddr} :
           IF \E m \in LinkDump : m.type \in types /\ m.index = i
           THEN /\ ~Without(r, i, types)
                /\ \A k \in 1 .. Len(r) : Latest(r, k, i, types) => k > Len(nqueue) /\ r[k] \in LinkDump
           ELSE /\ Without(r, i, types) => Without(nqueue, i, types)
                /\ \A k \in 1 .. Len(r) :
                     Latest(r, k, i, types) => k \in 1 .. Len(nqueue) /\ Latest(nqueue, k, i, types)
  BY Zenon, <1>4 DEF DumpBehind
<1>6. "NEWLINK" \notin OfAddr /\ Done.type \notin OfLink
  BY Messages DEF OfAddr
<1>7. NetlinkTypeOK'
  <2>1. ASSUME NEW k \in 1 .. Len(r), r[k].type \in OfLink PROVE r[k].index <= lastIndex
    <3>1. CASE k \in 1 .. Len(nqueue)
      BY Zenon, <1>0, <1>5, <2>1, <3>1 DEF NetlinkTypeOK
    <3>2. CASE r[k] \in LinkDump
      <4>1. r[k].index \in 1 .. lastIndex /\ lastIndex \in Nat
        BY Zenon, <1>0, <1>2, <3>2 DEF NetlinkTypeOK
      <4>. QED BY <4>1
    <3>. QED BY Zenon, <1>5, <1>6, <2>1, <3>1, <3>2
  <2>2. /\ npc' \in {"down", "failed", "dump", "links", "addr_dump", "addrs", "idle", "drain"}
        /\ npc' \notin {"down", "failed"}
    OBVIOUS
  <2>. QED BY <1>0, <1>1, <1>4, <1>5, <2>1, <2>2 DEF NetlinkTypeOK
<1>8. LinkInv'
  <2>1. ASSUME NEW i \in DOMAIN links
        PROVE  /\ ~Without(r, i, OfLink)
               /\ \A k \in 1 .. Len(r) : Latest(r, k, i, OfLink) =>
                    r[k].name = links[i].name /\ r[k].running = links[i].running
    <3>1. \E m \in LinkDump : m.type \in OfLink /\ m.index = i
      BY Zenon, <1>2
    <3>2. /\ ~Without(r, i, OfLink)
          /\ \A k \in 1 .. Len(r) : Latest(r, k, i, OfLink) => r[k] \in LinkDump
      BY Zenon, <1>5, <3>1
    <3>3. \A k \in 1 .. Len(r) : Latest(r, k, i, OfLink) => r[k].index = i
      BY Zenon DEF Latest, At
    <3>4. \A m \in LinkDump : m.index = i => m.name = links[i].name /\ m.running = links[i].running
      BY Zenon, <1>2
    <3>. QED BY Zenon, <3>2, <3>3, <3>4
  <2>2. \A i \in DOMAIN links' :
          /\ ~Without(nqueue', i, OfLink)
          /\ \A k \in 1 .. Len(nqueue') : Latest(nqueue', k, i, OfLink) =>
               nqueue'[k].name = links'[i].name /\ nqueue'[k].running = links'[i].running
    BY Zenon, <1>1, <1>4, <2>1
  <2>. QED BY Zenon, <2>2 DEF LinkInv
<1>9. AddrInv'
  <2>. SUFFICES ASSUME ~lossy, NEW i \in Nat
                PROVE  /\ \A k \in 1 .. Len(r) :
                            Latest(r, k, i, OfAddr) /\ r[k].type = "NEWADDR" => r[k].addr \in AddrsOf(i)
                       /\ Without(r, i, OfAddr) /\ i \in DOMAIN cache =>
                            cache[i].ip \in AddrsOf(i) \cup {NoAddr}
    <3>1. \A i \in Nat : AddrsOf(i)' = AddrsOf(i)
      BY Zenon, <1>1 DEF AddrsOf
    <3>2. cache' = cache /\ lossy' = lossy /\ nqueue' = r
      BY Zenon, <1>1, <1>4
    <3>. QED BY <3>1, <3>2 DEF AddrInv
  <2>1. ~\E m \in LinkDump : m.type \in OfAddr /\ m.index = i
    BY Zenon, <1>2, <1>6
  <2>2. /\ Without(r, i, OfAddr) => Without(nqueue, i, OfAddr)
        /\ \A k \in 1 .. Len(r) :
             Latest(r, k, i, OfAddr) => k \in 1 .. Len(nqueue) /\ Latest(nqueue, k, i, OfAddr)
    BY Zenon, <1>5, <2>1
  <2>. QED BY Zenon, <1>0, <1>5, <2>2 DEF AddrInv
<1>10. DumpedInv'
  <2>1. npc' \notin {"addrs", "idle", "drain"}
    OBVIOUS
  <2>. QED BY Zenon, <2>1 DEF DumpedInv
<1>11. NameInv'
  <2>. SUFFICES ASSUME ~renamed, NEW i \in DOMAIN links, NEW k \in 1 .. Len(r),
                       r[k].type \in OfLink, r[k].name = links[i].name
                PROVE  r[k].index <= i
    BY Zenon, <1>0, <1>1, <1>4 DEF NameInv
  <2>1. CASE k \in 1 .. Len(nqueue)
    BY Zenon, <1>0, <1>5, <2>1 DEF NameInv
  <2>2. CASE r[k] \in LinkDump
    <3>1. r[k].index = i
      <4>1. r[k].index \in DOMAIN links /\ links[r[k].index].name = links[i].name
        BY Zenon, <1>2, <2>2
      <4>. QED BY Zenon, <1>0, <4>1 DEF NameInv
    <3>2. i \in 1 .. lastIndex /\ lastIndex \in Nat
      BY Zenon, <1>0 DEF NetlinkTypeOK
    <3>. QED BY <3>1, <3>2
  <2>. QED BY Zenon, <1>5, <1>6, <2>1, <2>2
<1>12. MultiInv'
  BY Zenon, <1>0, <1>1 DEF MultiInv
<1>. QED BY Zenon, <1>7, <1>8, <1>9, <1>10, <1>11, <1>12 DEF NetlinkInv

\* request_addr_dump that is answered
LEMMA AddrDumpStep ==
  ASSUME NetlinkInv, npc = "addr_dump", npc' = "addrs",
         DumpBehind(nqueue, AddrDump, nqueue'),
         UNCHANGED <<kernelVars, overrun, cache, lossy>>
  PROVE  NetlinkInv'
<1>0. NetlinkTypeOK /\ MultiInv /\ LinkInv /\ AddrInv /\ DumpedInv /\ NameInv
  BY DEF NetlinkInv
<1>1. /\ links' = links /\ lastIndex' = lastIndex /\ multi' = multi /\ renamed' = renamed
      /\ overrun' = overrun /\ cache' = cache /\ lossy' = lossy
  BY DEF kernelVars
<1>2. /\ AddrDump \in SUBSET Message /\ IsFiniteSet(AddrDump)
      /\ \A m \in AddrDump :
           m.type = "NEWADDR" /\ m.index \in DOMAIN links /\ m.addr \in links[m.index].addrs
      /\ \A i \in DOMAIN links : links[i].addrs # {} =>
           \E m \in AddrDump : m.type \in OfAddr /\ m.index = i
  BY Zenon, <1>0, AddrDumped
<1>4. PICK r : nqueue' = r
  OBVIOUS
<1>5. /\ r \in Seq(Message) /\ Len(nqueue) \in Nat /\ Len(nqueue) <= Len(r)
      /\ \A k \in 1 .. Len(nqueue) : r[k] = nqueue[k]
      /\ \A k \in 1 .. Len(r) : k \in 1 .. Len(nqueue) \/ r[k] \in AddrDump \cup {Done}
      /\ \A i : \A types \in {OfLink, OfAddr} :
           IF \E m \in AddrDump : m.type \in types /\ m.index = i
           THEN /\ ~Without(r, i, types)
                /\ \A k \in 1 .. Len(r) : Latest(r, k, i, types) => k > Len(nqueue) /\ r[k] \in AddrDump
           ELSE /\ Without(r, i, types) => Without(nqueue, i, types)
                /\ \A k \in 1 .. Len(r) :
                     Latest(r, k, i, types) => k \in 1 .. Len(nqueue) /\ Latest(nqueue, k, i, types)
  BY Zenon, <1>4 DEF DumpBehind
<1>6. "NEWADDR" \notin OfLink /\ Done.type \notin OfLink
  BY Messages DEF OfLink
<1>7. \A k \in 1 .. Len(r) : r[k].type \in OfLink => k \in 1 .. Len(nqueue)
  BY Zenon, <1>2, <1>5, <1>6
<1>8. NetlinkTypeOK'
  <2>1. \A k \in 1 .. Len(r) : r[k].type \in OfLink => r[k].index <= lastIndex
    BY Zenon, <1>0, <1>5, <1>7 DEF NetlinkTypeOK
  <2>2. /\ npc' \in {"down", "failed", "dump", "links", "addr_dump", "addrs", "idle", "drain"}
        /\ npc' \notin {"down", "failed"}
    OBVIOUS
  <2>. QED BY <1>0, <1>1, <1>4, <1>5, <2>1, <2>2 DEF NetlinkTypeOK
<1>9. ASSUME ~lossy, NEW i \in DOMAIN links
      PROVE  /\ \A k \in 1 .. Len(nqueue) : Latest(nqueue, k, i, OfLink) =>
                  nqueue[k].name = links[i].name /\ nqueue[k].running = links[i].running
             /\ Without(nqueue, i, OfLink) =>
                  /\ i \in DOMAIN cache
                  /\ cache[i].name = links[i].name /\ cache[i].running = links[i].running
  <2>1. npc \notin {"down", "failed", "dump"}
    OBVIOUS
  <2>. QED BY Zenon, <1>0, <1>9, <2>1 DEF LinkInv
<1>10. LinkInv'
  <2>1. ASSUME ~lossy, NEW i \in DOMAIN links
        PROVE  /\ \A k \in 1 .. Len(r) : Latest(r, k, i, OfLink) =>
                    r[k].name = links[i].name /\ r[k].running = links[i].running
               /\ Without(r, i, OfLink) =>
                    /\ i \in DOMAIN cache
                    /\ cache[i].name = links[i].name /\ cache[i].running = links[i].running
    <3>1. ~\E m \in AddrDump : m.type \in OfLink /\ m.index = i
      BY Zenon, <1>2, <1>6
    <3>2. /\ Without(r, i, OfLink) => Without(nqueue, i, OfLink)
          /\ \A k \in 1 .. Len(r) :
               Latest(r, k, i, OfLink) => k \in 1 .. Len(nqueue) /\ Latest(nqueue, k, i, OfLink)
      BY Zenon, <1>5, <3>1
    <3>3. /\ \A k \in 1 .. Len(nqueue) : Latest(nqueue, k, i, OfLink) =>
               nqueue[k].name = links[i].name /\ nqueue[k].running = links[i].running
          /\ Without(nqueue, i, OfLink) =>
               /\ i \in DOMAIN cache
               /\ cache[i].name = links[i].name /\ cache[i].running = links[i].running
      BY Zenon, <1>9, <2>1
    <3>. QED BY Zenon, <1>5, <3>2, <3>3
  <2>2. ~lossy' => \A i \in DOMAIN links' :
          /\ \A k \in 1 .. Len(nqueue') : Latest(nqueue', k, i, OfLink) =>
               nqueue'[k].name = links'[i].name /\ nqueue'[k].running = links'[i].running
          /\ Without(nqueue', i, OfLink) =>
               /\ i \in DOMAIN cache'
               /\ cache'[i].name = links'[i].name /\ cache'[i].running = links'[i].running
    <3>1. cache' = cache /\ lossy' = lossy /\ links' = links
      BY Zenon, <1>1
    <3>. QED BY <1>4, <2>1, <3>1
  <2>. QED BY Zenon, <2>2 DEF LinkInv
<1>11. AddrInv'
  <2>. SUFFICES ASSUME ~lossy, NEW i \in Nat
                PROVE  /\ \A k \in 1 .. Len(r) :
                            Latest(r, k, i, OfAddr) /\ r[k].type = "NEWADDR" => r[k].addr \in AddrsOf(i)
                       /\ Without(r, i, OfAddr) /\ i \in DOMAIN cache =>
                            cache[i].ip \in AddrsOf(i) \cup {NoAddr}
    <3>1. \A i \in Nat : AddrsOf(i)' = AddrsOf(i)
      BY Zenon, <1>1 DEF AddrsOf
    <3>2. cache' = cache /\ lossy' = lossy /\ nqueue' = r
      BY Zenon, <1>1, <1>4
    <3>. QED BY <3>1, <3>2 DEF AddrInv
  <2>1. CASE \E m \in AddrDump : m.type \in OfAddr /\ m.index = i
    <3>1. /\ ~Without(r, i, OfAddr)
          /\ \A k \in 1 .. Len(r) : Latest(r, k, i, OfAddr) => r[k] \in AddrDump
      BY Zenon, <1>5, <2>1
    <3>2. \A k \in 1 .. Len(r) : Latest(r, k, i, OfAddr) => r[k].index = i
      BY Zenon DEF Latest, At
    <3>. QED BY Zenon, <1>2, <3>1, <3>2 DEF AddrsOf
  <2>2. CASE ~\E m \in AddrDump : m.type \in OfAddr /\ m.index = i
    <3>1. /\ Without(r, i, OfAddr) => Without(nqueue, i, OfAddr)
          /\ \A k \in 1 .. Len(r) :
               Latest(r, k, i, OfAddr) => k \in 1 .. Len(nqueue) /\ Latest(nqueue, k, i, OfAddr)
      BY Zenon, <1>5, <2>2
    <3>. QED BY Zenon, <1>0, <1>5, <3>1 DEF AddrInv
  <2>. QED BY Zenon, <2>1, <2>2
<1>12. DumpedInv'
  <2>. SUFFICES ASSUME ~lossy, NEW i \in DOMAIN links, links[i].addrs # {}
                PROVE  /\ \A k \in 1 .. Len(r) : Latest(r, k, i, OfAddr) =>
                            r[k].type = "NEWADDR" /\ Known(r, cache, k, i)
                       /\ ~Without(r, i, OfAddr)
    BY <1>1, <1>4 DEF DumpedInv
  <2>1. \E m \in AddrDump : m.type \in OfAddr /\ m.index = i
    BY Zenon, <1>2
  <2>2. /\ ~Without(r, i, OfAddr)
        /\ \A k \in 1 .. Len(r) : Latest(r, k, i, OfAddr) => k > Len(nqueue) /\ r[k] \in AddrDump
    BY Zenon, <1>5, <2>1
  <2>3. ASSUME NEW k \in 1 .. Len(r), k > Len(nqueue)
        PROVE  Known(r, cache, k, i)
    <3>1. CASE Without(nqueue, i, OfLink)
      BY Zenon, <1>9, <3>1 DEF Known
    <3>2. CASE ~Without(nqueue, i, OfLink)
      <4>1. PICK h \in 1 .. Len(nqueue) : At(nqueue, h, i, OfLink)
        BY Zenon, <3>2 DEF Without
      <4>2. h \in 1 .. Len(r) /\ h < k
        <5>1. Len(nqueue) \in Nat /\ Len(r) \in Nat /\ Len(nqueue) <= Len(r)
          BY Zenon, <1>5, LenProperties
        <5>. QED BY <2>3, <5>1
      <4>3. At(r, h, i, OfLink)
        BY Zenon, <1>5, <4>1 DEF At
      <4>. QED BY Zenon, <4>2, <4>3 DEF Known
    <3>. QED BY Zenon, <3>1, <3>2
  <2>. QED BY Zenon, <1>2, <2>2, <2>3
<1>13. NameInv'
  <2>. SUFFICES ASSUME ~renamed, NEW i \in DOMAIN links, NEW k \in 1 .. Len(r),
                       r[k].type \in OfLink, r[k].name = links[i].name
                PROVE  r[k].index <= i
    BY Zenon, <1>0, <1>1, <1>4 DEF NameInv
  <2>. QED BY Zenon, <1>0, <1>5, <1>7 DEF NameInv
<1>14. MultiInv'
  BY Zenon, <1>0, <1>1 DEF MultiInv
<1>. QED BY Zenon, <1>8, <1>10, <1>11, <1>12, <1>13, <1>14 DEF NetlinkInv

\* A dump request: it is answered, or the monitor goes on without.
LEMMA RequestStep ==
  ASSUME NetlinkInv, request_dump \/ request_addr_dump
  PROVE  NetlinkInv'
<1>0. NetlinkTypeOK /\ nqueue \in Seq(Message)
  BY Zenon DEF NetlinkInv, NetlinkTypeOK
<1>1. CASE request_dump
  <2>1. npc = "dump" /\ Request(SetToSeq(LinkDump), "links", "addr_dump")
    BY Zenon, <1>1 DEF request_dump, LinkDump
  <2>2. CASE npc' = "links" /\ nqueue' = nqueue \o SetToSeq(LinkDump) \o <<Done>> /\ UNCHANGED lossy
    <3>1. LinkDump \in SUBSET Message /\ IsFiniteSet(LinkDump)
      BY Zenon, <1>0, LinkDumped
    <3>2. DumpBehind(nqueue, LinkDump, nqueue')
      BY Zenon, <1>0, <2>2, <3>1, Dumped
    <3>3. UNCHANGED <<kernelVars, overrun, cache, lossy>>
      BY <2>1, <2>2 DEF Request
    <3>. QED BY Zenon, <2>1, <2>2, <3>2, <3>3, LinkDumpStep
  <2>3. CASE npc' = "addr_dump" /\ lossy' = TRUE /\ UNCHANGED nqueue
    <3>1. /\ UNCHANGED <<kernelVars, nqueue, cache>> /\ overrun' = overrun /\ overrun \in BOOLEAN
          /\ npc' \in {"down", "failed", "dump", "links", "addr_dump", "addrs", "idle", "drain"}
          /\ npc' \notin {"down", "failed"} /\ lossy' \in BOOLEAN /\ lossy'
      BY <1>0, <2>1, <2>3 DEF Request, NetlinkTypeOK
    <3>. QED BY Zenon, <3>1, PhaseStep
  <2>. QED BY Zenon, <2>1, <2>2, <2>3 DEF Request
<1>2. CASE request_addr_dump
  <2>1. npc = "addr_dump" /\ Request(SetToSeq(AddrDump), "addrs", "idle")
    BY Zenon, <1>2 DEF request_addr_dump, AddrDump
  <2>2. CASE npc' = "addrs" /\ nqueue' = nqueue \o SetToSeq(AddrDump) \o <<Done>> /\ UNCHANGED lossy
    <3>1. AddrDump \in SUBSET Message /\ IsFiniteSet(AddrDump)
      BY Zenon, <1>0, AddrDumped
    <3>2. DumpBehind(nqueue, AddrDump, nqueue')
      BY Zenon, <1>0, <2>2, <3>1, Dumped
    <3>3. UNCHANGED <<kernelVars, overrun, cache, lossy>>
      BY <2>1, <2>2 DEF Request
    <3>. QED BY Zenon, <2>1, <2>2, <3>2, <3>3, AddrDumpStep
  <2>3. CASE npc' = "idle" /\ lossy' = TRUE /\ UNCHANGED nqueue
    <3>1. /\ UNCHANGED <<kernelVars, nqueue, cache>> /\ overrun' = overrun /\ overrun \in BOOLEAN
          /\ npc' \in {"down", "failed", "dump", "links", "addr_dump", "addrs", "idle", "drain"}
          /\ npc' \notin {"down", "failed"} /\ lossy' \in BOOLEAN /\ lossy'
      BY <1>0, <2>1, <2>3 DEF Request, NetlinkTypeOK
    <3>. QED BY Zenon, <3>1, PhaseStep
  <2>. QED BY Zenon, <2>1, <2>2, <2>3 DEF Request
<1>. QED BY <1>1, <1>2

\* Reading in init and in a cycle
LEMMA DrainStep ==
  ASSUME NetlinkInv, drain_response \/ drain_events
  PROVE  NetlinkInv'
<1>0. overrun \in BOOLEAN /\ lossy \in BOOLEAN /\ (overrun => lossy)
  BY Zenon DEF NetlinkInv, NetlinkTypeOK
<1>1. CASE Receive
  <2>1. /\ npc \in AfterLinks /\ npc' \in AfterLinks
        /\ npc' \in AfterAddrs => npc \in AfterAddrs
    BY <1>0, <1>1 DEF drain_response, drain_events, Receive, ReceiveOverrun, AfterResponse,
       AfterLinks, AfterAddrs
  <2>. QED BY Zenon, <1>1, <2>1, ReceiveStep
<1>2. CASE ReceiveOverrun /\ npc' \in {"addr_dump", "idle"}
  <2>1. /\ UNCHANGED <<kernelVars, nqueue, cache>> /\ lossy' = lossy /\ overrun /\ ~overrun'
        /\ overrun' \in BOOLEAN
        /\ npc' \in {"down", "failed", "dump", "links", "addr_dump", "addrs", "idle", "drain"}
        /\ npc' \notin {"down", "failed"}
    BY Zenon, <1>2 DEF ReceiveOverrun
  <2>. QED BY Zenon, <1>0, <2>1, PhaseStep
<1>3. CASE npc \in {"idle", "drain"} /\ npc' \in {"idle", "drain"}
           /\ UNCHANGED <<kernelVars, nqueue, overrun, cache, lossy>>
  <2>1. /\ UNCHANGED <<kernelVars, nqueue, cache>> /\ lossy' = lossy /\ overrun' = overrun
        /\ npc' \in {"down", "failed", "dump", "links", "addr_dump", "addrs", "idle", "drain"}
        /\ npc' \notin {"down", "failed"} /\ npc \in AfterLinks /\ npc \in AfterAddrs
    BY <1>3 DEF AfterLinks, AfterAddrs
  <2>. QED BY Zenon, <1>0, <2>1, PhaseStep
<1>4. \/ Receive
      \/ ReceiveOverrun /\ npc' \in {"addr_dump", "idle"}
      \/ /\ npc \in {"idle", "drain"} /\ npc' \in {"idle", "drain"}
         /\ UNCHANGED <<kernelVars, nqueue, overrun, cache, lossy>>
  <2>1. AfterResponse \in {"addr_dump", "idle"}
    BY DEF AfterResponse
  <2>2. CASE drain_response
    <3>1. Receive \/ (ReceiveOverrun /\ npc' = AfterResponse)
      BY <2>2 DEF drain_response
    <3>. QED BY <2>1, <3>1
  <2>3. CASE drain_events
    <3>1. \/ Receive
          \/ ReceiveOverrun /\ npc' = "idle"
          \/ npc = "idle" /\ npc' = "drain" /\ UNCHANGED <<kernelVars, nqueue, overrun, cache, lossy>>
          \/ npc = "drain" /\ npc' = "idle" /\ UNCHANGED <<kernelVars, nqueue, overrun, cache, lossy>>
      BY <2>3 DEF drain_events
    <3>. QED BY <3>1
  <2>. QED BY <2>2, <2>3
<1>. QED BY Zenon, <1>1, <1>2, <1>3, <1>4

\* Every step keeps the invariant.
LEMMA NetlinkStep ==
  ASSUME NetlinkInv, [NetlinkNext]_netlinkVars
  PROVE  NetlinkInv'
<1>0. overrun \in BOOLEAN /\ lossy \in BOOLEAN
      /\ npc \in {"down", "failed", "dump", "links", "addr_dump", "addrs", "idle", "drain"}
  BY Zenon DEF NetlinkInv, NetlinkTypeOK
<1>1. CASE Kernel
  BY <1>1, KernelStep
<1>2. CASE init
  <2>1. /\ UNCHANGED <<kernelVars, nqueue, cache>> /\ lossy' = lossy /\ overrun' = overrun
        /\ npc' \in {"down", "failed", "dump", "links", "addr_dump", "addrs", "idle", "drain"}
        /\ npc \in {"down", "failed"} /\ npc' \notin AfterLinks /\ npc' \notin AfterAddrs
    BY <1>2 DEF init, AfterLinks, AfterAddrs
  <2>. QED BY Zenon, <1>0, <2>1, PhaseStep
<1>3. CASE request_dump \/ request_addr_dump
  BY <1>3, RequestStep
<1>4. CASE drain_response \/ drain_events
  BY <1>4, DrainStep
<1>5. CASE UNCHANGED netlinkVars
  <2>1. UNCHANGED <<kernelVars, nqueue, cache>> /\ lossy' = lossy /\ overrun' = overrun /\ npc' = npc
    BY <1>5 DEF netlinkVars
  <2>. QED BY Zenon, <1>0, <2>1, PhaseStep
<1>. QED BY <1>1, <1>2, <1>3, <1>4, <1>5 DEF NetlinkNext, Monitor

\* The invariant holds throughout.
LEMMA NetlinkAlways == NetlinkSpec => []NetlinkInv
BY NetlinkInitially, NetlinkStep, PTL DEF NetlinkSpec
-----------------------------------------------------------------------------
(* What a cycle sees.                                                      *)

\* After drain_events the address in an entry is one the link has, and a link
\* that has an address, and never had two, has one in its entry, whatever
\* order announcements and dumps came in.
THEOREM AddressesAreTracked == NetlinkSpec => []AddressesTracked
<1>1. ASSUME NetlinkInv PROVE AddressesTracked
  <2>. SUFFICES ASSUME npc = "idle", nqueue = <<>>, ~lossy, NEW i \in DOMAIN cache
                PROVE  /\ cache[i].ip \in AddrsOf(i) \cup {NoAddr}
                       /\ AddrsOf(i) # {} /\ i \notin multi => cache[i].ip # NoAddr
    BY Zenon DEF AddressesTracked, Synced
  <2>0. NetlinkTypeOK /\ AddrInv /\ DumpedInv
    BY Zenon, <1>1 DEF NetlinkInv
  <2>1. \A types : Without(nqueue, i, types)
    BY DEF Without
  <2>2. i \in Nat
    <3>1. i \in 0 .. lastIndex
      BY Zenon, <2>0 DEF NetlinkTypeOK
    <3>. QED BY <3>1
  <2>3. cache[i].ip \in AddrsOf(i) \cup {NoAddr}
    BY Zenon, <2>0, <2>1, <2>2 DEF AddrInv
  <2>4. ASSUME AddrsOf(i) # {}, i \notin multi PROVE cache[i].ip # NoAddr
    <3>1. i \in DOMAIN links /\ links[i].addrs # {}
      BY Zenon, <2>4 DEF AddrsOf
    <3>2. npc \in {"addrs", "idle", "drain"}
      OBVIOUS
    <3>. QED BY Zenon, <2>0, <2>1, <2>4, <3>1, <3>2 DEF DumpedInv
  <2>. QED BY Zenon, <2>3, <2>4
<1>. QED BY <1>1, NetlinkAlways, PTL

\* As long as no link was renamed, collect_network reports under a link's name
\* that link's own state and address: entries of links that have gone stay, but
\* theirs are lower indexes.
THEOREM NamesAreReported == NetlinkSpec => []ReportedByName
<1>1. ASSUME NetlinkInv PROVE ReportedByName
  <2>. SUFFICES ASSUME npc = "idle", nqueue = <<>>, ~lossy, ~renamed, NEW i \in DOMAIN links
                PROVE  /\ collect_network(links[i].name).link = (IF links[i].running THEN "up" ELSE "down")
                       /\ collect_network(links[i].name).ip = cache[i].ip
    BY Zenon DEF ReportedByName, Synced
  <2>0. NetlinkTypeOK /\ LinkInv /\ NameInv
    BY Zenon, <1>1 DEF NetlinkInv
  <2>1. Without(nqueue, i, OfLink)
    BY DEF Without
  <2>2. npc \notin {"down", "failed", "dump"}
    OBVIOUS
  <2>3. i \in DOMAIN cache /\ cache[i].name = links[i].name /\ cache[i].running = links[i].running
    BY Zenon, <2>0, <2>1, <2>2 DEF LinkInv
  <2>. DEFINE is == {h \in DOMAIN cache : cache[h].name = links[i].name}
  <2>4. i \in is /\ \A h \in is : h <= i
    BY Zenon, <2>0, <2>3 DEF NameInv
  <2>5. lastIndex \in Nat /\ DOMAIN cache \subseteq 0 .. lastIndex
    BY Zenon, <2>0 DEF NetlinkTypeOK
  <2>6. is \subseteq Nat
    BY <2>5
  <2>7. collect_network(links[i].name) =
          IF is = {} THEN [link |-> "unknown", ip |-> NoAddr]
          ELSE [link |-> IF cache[Max(is)].running THEN "up" ELSE "down", ip |-> cache[Max(is)].ip]
    BY Zenon DEF collect_network
  <2>. HIDE DEF is
  <2>8. Max(is) = i
    BY <2>4, <2>6 DEF Max
  <2>9. collect_network(links[i].name) =
          [link |-> IF cache[i].running THEN "up" ELSE "down", ip |-> cache[i].ip]
    BY Zenon, <2>4, <2>7, <2>8
  <2>. QED BY <2>3, <2>9
<1>. QED BY <1>1, NetlinkAlways, PTL
-----------------------------------------------------------------------------
(* The ethtool queries.                                                    *)

Things == {FamilyName} \cup Range(Ifaces)
Answer == [seq : Nat, type : {"reply", "ack", "error"}, of : Things]

\* Answers that are not newer than request s
UpTo(q, s) == \A i \in 1 .. Len(q) : q[i].seq <= s

\* What waits in the queue answers an earlier request.
EthtoolInv ==
  /\ seq \in Nat
  /\ answers \in Seq(Answer) /\ UpTo(answers, seq)
  /\ epc \in {"idle", "batch"}
  /\ todo \in Seq(Things) /\ (epc = "batch" => todo # <<>>)
  /\ OwnAnswers

\* The interfaces are a sequence of things to ask for.
LEMMA IfacesType == Ifaces \in Seq(Things) /\ Ifaces # <<>>
  BY EthtoolAssumption DEF Things

\* The kernel's answer carries the number and the name of its request.
LEMMA AnswerType ==
  ASSUME NEW s \in Nat, NEW x \in Things
  PROVE  /\ AnswerTo(s, x) \in Seq(Answer) /\ UpTo(AnswerTo(s, x), s)
         /\ Len(AnswerTo(s, x)) \in {1, 2}
         /\ AnswerTo(s, x)[1].seq = s /\ AnswerTo(s, x)[1].of = x
         /\ AnswerTo(s, x)[1].type # "error" => Len(AnswerTo(s, x)) = 2
<1>1. CASE x \in Supported
  BY <1>1 DEF AnswerTo, Answer, UpTo
<1>2. CASE x \notin Supported
  BY <1>2 DEF AnswerTo, Answer, UpTo
<1>. QED BY Zenon, <1>1, <1>2

\* Taking the first message off a queue leaves older ones.
LEMMA TailUpTo ==
  ASSUME NEW s \in Nat, NEW q \in Seq(Answer), q # <<>>, UpTo(q, s)
  PROVE  Tail(q) \in Seq(Answer) /\ UpTo(Tail(q), s)
  BY DEF UpTo

\* A request is answered by its own reply or by none, and what is left in the
\* queue is not newer than it.
LEMMA RequestKeeps ==
  ASSUME EthtoolInv, NEW x \in Things, NEW f \in {"none", "send", "recv", "ack"}
  PROVE  LET r == run_request(x, seq + 1, f)
         IN  /\ r.queue \in Seq(Answer) /\ UpTo(r.queue, seq + 1)
             /\ r.status = "Ok" => r.got = {x}
<1>. DEFINE s == seq + 1
            a == AnswerTo(s, x)
            q == answers \o a
            m == Head(q)
            r == run_request(x, s, f)
<1>0. s \in Nat
  BY DEF EthtoolInv
<1>1. s \in Nat /\ a \in Seq(Answer) /\ UpTo(a, s) /\ Len(a) \in {1, 2}
      /\ a[1].seq = s /\ a[1].of = x /\ (a[1].type # "error" => Len(a) = 2)
  <2>1. /\ a \in Seq(Answer) /\ UpTo(a, s) /\ Len(a) \in {1, 2}
        /\ a[1].seq = s /\ a[1].of = x /\ (a[1].type # "error" => Len(a) = 2)
    BY <1>0, AnswerType
  <2>. QED BY Zenon, <1>0, <2>1
<1>2. answers \in Seq(Answer) /\ UpTo(answers, s) /\ UpTo(answers, seq) /\ seq \in Nat
  <2>1. \A i \in 1 .. Len(answers) : answers[i] \in Answer
    BY DEF EthtoolInv
  <2>. QED BY <2>1 DEF EthtoolInv, UpTo, Answer
<1>. HIDE DEF a, s
<1>3. q \in Seq(Answer) /\ q # <<>> /\ Len(q) = Len(answers) + Len(a)
  BY <1>1, <1>2
<1>4. \A i \in 1 .. Len(q) : q[i] = IF i <= Len(answers) THEN answers[i] ELSE a[i - Len(answers)]
  BY <1>1, <1>2
<1>5. UpTo(q, s)
  BY <1>1, <1>2, <1>3, <1>4 DEF UpTo
<1>6. m = q[1]
  BY <1>3
<1>7. m.seq = s => answers = <<>> /\ m = a[1]
  <2>1. CASE answers = <<>>
    BY <2>1, <1>1, <1>3, <1>4, <1>6
  <2>2. CASE answers # <<>>
    <3>1. m = answers[1] /\ 1 \in 1 .. Len(answers)
      BY <2>2, <1>1, <1>2, <1>3, <1>4, <1>6
    <3>2. answers[1].seq <= seq /\ answers[1].seq \in Nat
      <4>1. answers[1] \in Answer
        BY <3>1, <1>2
      <4>. QED BY <3>1, <4>1, <1>2 DEF UpTo, Answer
    <3>. QED BY <3>1, <3>2, <1>2 DEF s
  <2>. QED BY Zenon, <2>1, <2>2
<1>. HIDE DEF q, m
<1>8. Tail(q) \in Seq(Answer) /\ UpTo(Tail(q), s)
  BY <1>1, <1>3, <1>5, TailUpTo
<1>9. ASSUME m.seq = s, m.type # "error" PROVE m.of = x /\ Tail(q) # <<>>
  <2>1. m = a[1] /\ Len(q) = 2
    BY <1>1, <1>3, <1>7, <1>9
  <2>2. Len(Tail(q)) = 1
    BY <2>1, <1>3
  <2>3. m.of = x
    BY <2>1, <1>1
  <2>4. ASSUME Tail(q) = <<>> PROVE FALSE
    <3>1. Len(Tail(q)) = Len(<<>>)
      BY Zenon, <2>4
    <3>. QED BY <2>2, <3>1
  <2>. QED BY <2>3, <2>4
<1>10. Tail(q) # <<>> => Tail(Tail(q)) \in Seq(Answer) /\ UpTo(Tail(Tail(q)), s)
  BY Zenon, <1>1, <1>8, TailUpTo
<1>11. CASE f = "send"
  BY Zenon, <1>11, <1>2 DEF run_request, s
<1>12. CASE f = "recv"
  BY Zenon, <1>12, <1>3, <1>5 DEF run_request, s, q, a
<1>13. CASE f \in {"none", "ack"} /\ (m.seq # s \/ m.type = "error")
  BY Zenon, <1>13, <1>8 DEF run_request, s, q, a, m
<1>14. CASE f = "ack" /\ ~(m.seq # s \/ m.type = "error")
  BY Zenon, <1>14, <1>8, <1>9 DEF run_request, s, q, a, m
<1>15. CASE f = "none" /\ ~(m.seq # s \/ m.type = "error")
  BY Zenon, <1>15, <1>9, <1>10 DEF run_request, s, q, a, m
<1>. QED BY Zenon, <1>11, <1>12, <1>13, <1>14, <1>15 DEF s

\* The invariant holds initially.
LEMMA EthtoolInitially == EthtoolInit => EthtoolInv
  BY DEF EthtoolInit, EthtoolInv, UpTo, OwnAnswers

\* A query begins with an empty result.
LEMMA QueryKeeps ==
  ASSUME EthtoolInv, query
  PROVE  EthtoolInv'
<1>1. out' = <<>>
  BY DEF query
<1>2. OwnAnswers'
  BY <1>1 DEF OwnAnswers
<1>3. CASE UNCHANGED <<answers, seq, epc, todo>>
  BY <1>2, <1>3 DEF EthtoolInv, UpTo
<1>4. CASE resolve_family
  <2>1. PICK f \in {"none", "send", "recv", "ack"} :
          LET r == run_request(FamilyName, seq + 1, f)
          IN  /\ seq' = seq + 1
              /\ answers' = r.queue
              /\ family' = (r.got # {})
              /\ epc' = IF family' THEN "batch" ELSE "idle"
              /\ todo' = IF family' THEN Ifaces ELSE <<>>
    BY Zenon, <1>4 DEF resolve_family
  <2>2. FamilyName \in Things
    BY DEF Things
  <2>3. answers' \in Seq(Answer) /\ UpTo(answers', seq')
    BY Zenon, <2>1, <2>2, RequestKeeps
  <2>4. seq' \in Nat
    BY <2>1 DEF EthtoolInv
  <2>5. epc' \in {"idle", "batch"} /\ todo' \in Seq(Things) /\ (epc' = "batch" => todo' # <<>>)
    BY <2>1, IfacesType
  <2>. QED BY <1>2, <2>3, <2>4, <2>5 DEF EthtoolInv, UpTo
<1>5. CASE epc' = "batch" /\ todo' = Ifaces /\ UNCHANGED <<answers, seq>>
  BY <1>2, <1>5, IfacesType DEF EthtoolInv, UpTo
<1>. QED BY <1>3, <1>4, <1>5 DEF query

\* A round of the loop adds an answer only under its own name.
LEMMA QueryOneKeeps ==
  ASSUME EthtoolInv, query_one
  PROVE  EthtoolInv'
<1>. DEFINE x == Head(todo)
<1>1. todo \in Seq(Things) /\ todo # <<>> /\ x \in Things
  BY DEF EthtoolInv, query_one
<1>2. PICK f \in {"none", "send", "recv", "ack"} :
        LET r == run_request(x, seq + 1, f)
        IN  /\ seq' = seq + 1
            /\ \/ reset /\ UNCHANGED out
               \/ /\ answers' = r.queue
                  /\ todo' = Tail(todo) /\ epc' = IF Tail(todo) = <<>> THEN "idle" ELSE epc
                  /\ out' = IF r.status = "Ok"
                            THEN Answered(x, r.got)
                            ELSE out
  BY Zenon DEF query_one
<1>3. seq' \in Nat
  BY <1>2 DEF EthtoolInv
<1>. DEFINE r == run_request(x, seq + 1, f)
<1>4. r.queue \in Seq(Answer) /\ UpTo(r.queue, seq + 1) /\ (r.status = "Ok" => r.got = {x})
  BY Zenon, <1>1, RequestKeeps
<1>. HIDE DEF r, x
<1>5. CASE reset /\ UNCHANGED out
  BY <1>3, <1>5 DEF EthtoolInv, reset, UpTo, OwnAnswers
<1>6. CASE /\ answers' = r.queue
           /\ todo' = Tail(todo) /\ epc' = IF Tail(todo) = <<>> THEN "idle" ELSE epc
           /\ out' = IF r.status = "Ok" THEN Answered(x, r.got)
                     ELSE out
  <2>1. answers' \in Seq(Answer) /\ UpTo(answers', seq')
    BY Zenon, <1>2, <1>4, <1>6
  <2>2. todo' \in Seq(Things) /\ epc' \in {"idle", "batch"} /\ (epc' = "batch" => todo' # <<>>)
    BY <1>1, <1>6 DEF EthtoolInv
  <2>3. OwnAnswers'
    <3>1. CASE r.status = "Ok"
      <4>1. (CHOOSE z \in {x} : TRUE) = x
        OBVIOUS
      <4>2. out' = [y \in DOMAIN out \cup {x} |-> IF y = x THEN x ELSE out[y]]
        BY Zenon, <1>4, <1>6, <3>1, <4>1 DEF Answered
      <4>. QED BY <4>2 DEF EthtoolInv, OwnAnswers
    <3>2. CASE r.status # "Ok"
      BY <1>6, <3>2 DEF EthtoolInv, OwnAnswers
    <3>. QED BY <3>1, <3>2
  <2>. QED BY <1>3, <2>1, <2>2, <2>3 DEF EthtoolInv, UpTo
<1>. QED BY <1>2, <1>5, <1>6 DEF r

\* Every step keeps the invariant.
LEMMA EthtoolStep == EthtoolInv /\ [EthtoolNext]_ethtoolVars => EthtoolInv'
<1>. SUFFICES ASSUME EthtoolInv, [EthtoolNext]_ethtoolVars PROVE EthtoolInv'
  OBVIOUS
<1>1. CASE UNCHANGED ethtoolVars
  BY Zenon, <1>1 DEF ethtoolVars, EthtoolInv, UpTo, OwnAnswers
<1>. QED BY <1>1, QueryKeeps, QueryOneKeeps DEF EthtoolNext

\* An interface is never shown with the speed of another, however many queries
\* the socket has served and wherever they failed (ethtool_link.cpp:24).
THEOREM AnswersAreOwn == EthtoolSpec => []OwnAnswers
<1>1. EthtoolInv => OwnAnswers
  BY DEF EthtoolInv
<1>. QED BY EthtoolInitially, EthtoolStep, <1>1, PTL DEF EthtoolSpec
-----------------------------------------------------------------------------
\* A queue that resolving the family left clean stays clean, and what the loop
\* has asked for it has an answer to.
CompleteInv ==
  /\ ~tainted => answers = <<>>
  /\ FamilyName \in Supported /\ sock /\ ~failed /\ ~tainted =>
       \A x \in Range(Ifaces) \cap Supported :
         x \in DOMAIN out \/ (epc = "batch" /\ x \in Range(todo))

\* Head and Tail of what the kernel answers with.
LEMMA ShortTails ==
  ASSUME NEW a, NEW b
  PROVE  /\ Head(<<a>>) = a /\ Tail(<<a>>) = <<>>
         /\ Head(<<a, b>>) = a /\ Tail(Tail(<<a, b>>)) = <<>>
<1>1. <<a>> \in Seq({a, b}) /\ <<a, b>> \in Seq({a, b})
  OBVIOUS
<1>2. Len(Tail(<<a>>)) = 0 /\ Len(Tail(<<a, b>>)) = 1
  BY <1>1
<1>3. Tail(<<a>>) \in Seq({a, b}) /\ Tail(<<a, b>>) \in Seq({a, b}) /\ Tail(<<a, b>>) # <<>>
  BY <1>1, <1>2
<1>4. Tail(Tail(<<a, b>>)) \in Seq({a, b}) /\ Len(Tail(Tail(<<a, b>>))) = 0
  BY <1>2, <1>3
<1>. QED BY <1>2, <1>3, <1>4, EmptySeq

\* What a sequence holds is its head and what its tail holds.
LEMMA RangeOfTail ==
  ASSUME NEW S, NEW t \in Seq(S), t # <<>>
  PROVE  Range(t) \subseteq {Head(t)} \cup Range(Tail(t))
<1>. SUFFICES ASSUME NEW i \in 1 .. Len(t), i # 1
              PROVE  t[i] \in Range(Tail(t))
  BY DEF Range
<1>1. i - 1 \in 1 .. Len(Tail(t)) /\ Tail(t)[i - 1] = t[i] /\ DOMAIN Tail(t) = 1 .. Len(Tail(t))
  OBVIOUS
<1>. QED BY Zenon, <1>1 DEF Range

\* On a clean queue an exchange leaves nothing behind unless the socket fails,
\* and one that does not fail brings the answer there is.
LEMMA CleanRequest ==
  ASSUME EthtoolInv, answers = <<>>, NEW x \in Things, NEW f \in {"none", "send", "recv", "ack"}
  PROVE  LET r == run_request(x, seq + 1, f)
         IN  /\ r.status # "SocketError" => r.queue = <<>>
             /\ f = "none" => r.status # "SocketError"
             /\ f = "none" /\ x \in Supported => r.status = "Ok" /\ r.got = {x}
<1>. DEFINE s == seq + 1
            q == answers \o AnswerTo(s, x)
            r == run_request(x, s, f)
            m(t) == [seq |-> s, type |-> t, of |-> x]
<1>1. CASE x \in Supported
  <2>1. q = <<m("reply"), m("ack")>>
    BY <1>1 DEF AnswerTo
  <2>. HIDE DEF m
  <2>2. Head(q) = m("reply") /\ Tail(Tail(q)) = <<>>
    BY Zenon, <2>1, ShortTails
  <2>3. Head(q).seq = s /\ Head(q).type # "error" /\ Head(q).of = x
    BY <2>2 DEF m
  <2>. HIDE DEF q
  <2>4. r = IF f = "send" THEN [status |-> "SocketError", queue |-> answers, got |-> {}]
            ELSE IF f = "recv" THEN [status |-> "SocketError", queue |-> q, got |-> {}]
            ELSE IF f = "ack" THEN [status |-> "SocketError", queue |-> Tail(q), got |-> {x}]
            ELSE [status |-> "Ok", queue |-> <<>>, got |-> {x}]
    BY Zenon, <2>2, <2>3 DEF run_request, q
  <2>. HIDE DEF r
  <2>5. /\ r.status # "SocketError" => r.queue = <<>>
        /\ f = "none" => r.status # "SocketError"
        /\ f = "none" /\ x \in Supported => r.status = "Ok" /\ r.got = {x}
    BY <1>1, <2>4
  <2>. QED BY Zenon, <2>5 DEF r, s
<1>2. CASE x \notin Supported
  <2>1. q = <<m("error")>>
    BY <1>2 DEF AnswerTo
  <2>. HIDE DEF m
  <2>2. Head(q) = m("error") /\ Tail(q) = <<>>
    BY Zenon, <2>1, ShortTails
  <2>3. Head(q).type = "error"
    BY <2>2 DEF m
  <2>. HIDE DEF q
  <2>4. r = IF f = "send" THEN [status |-> "SocketError", queue |-> answers, got |-> {}]
            ELSE IF f = "recv" THEN [status |-> "SocketError", queue |-> q, got |-> {}]
            ELSE [status |-> "MsgError", queue |-> <<>>, got |-> {}]
    BY Zenon, <2>2, <2>3 DEF run_request, q
  <2>. HIDE DEF r
  <2>5. /\ r.status # "SocketError" => r.queue = <<>>
        /\ f = "none" => r.status # "SocketError"
        /\ f = "none" /\ x \in Supported => r.status = "Ok" /\ r.got = {x}
    BY <1>2, <2>4
  <2>. QED BY Zenon, <2>5 DEF r, s
<1>. QED BY Zenon, <1>1, <1>2

\* A query starts with everything still to be asked for.
LEMMA QueryCompletes ==
  ASSUME EthtoolInv, CompleteInv, query
  PROVE  CompleteInv'
<1>1. CASE failed' = TRUE /\ UNCHANGED <<answers, tainted>>
  BY <1>1 DEF CompleteInv
<1>2. CASE epc' = "batch" /\ todo' = Ifaces /\ UNCHANGED <<answers, tainted>>
  BY <1>2 DEF CompleteInv
<1>3. CASE resolve_family
  <2>1. PICK f \in {"none", "send", "recv", "ack"} :
          LET r == run_request(FamilyName, seq + 1, f)
          IN  /\ answers' = r.queue
              /\ family' = (r.got # {})
              /\ epc' = IF family' THEN "batch" ELSE "idle"
              /\ todo' = IF family' THEN Ifaces ELSE <<>>
              /\ failed' = (f # "none")
              /\ tainted' = (tainted \/ r.queue # <<>>)
    BY Zenon, <1>3 DEF resolve_family
  <2>2. FamilyName \in Things
    BY DEF Things
  <2>3. ~tainted' => ~tainted /\ answers' = <<>>
    BY Zenon, <2>1
  <2>4. ASSUME FamilyName \in Supported, ~failed', ~tainted'
        PROVE  epc' = "batch" /\ todo' = Ifaces
    <3>1. answers = <<>> /\ f = "none"
      BY Zenon, <2>1, <2>3, <2>4 DEF CompleteInv
    <3>2. run_request(FamilyName, seq + 1, f).got = {FamilyName}
      BY Zenon, <2>2, <2>4, <3>1, CleanRequest
    <3>. QED BY Zenon, <2>1, <3>2
  <2>. QED BY <2>3, <2>4 DEF CompleteInv
<1>. QED BY Zenon, <1>1, <1>2, <1>3 DEF query

\* A round takes the interface off the list once it is answered.
LEMMA QueryOneCompletes ==
  ASSUME EthtoolInv, CompleteInv, query_one
  PROVE  CompleteInv'
<1>. DEFINE x == Head(todo)
<1>1. todo \in Seq(Things) /\ todo # <<>> /\ x \in Things /\ epc = "batch"
  BY DEF EthtoolInv, query_one
<1>2. PICK f \in {"none", "send", "recv", "ack"} :
        LET r == run_request(x, seq + 1, f)
        IN  /\ failed' = (failed \/ f # "none")
            /\ \/ r.status = "SocketError" /\ reset /\ UNCHANGED out
               \/ /\ r.status # "SocketError"
                  /\ answers' = r.queue
                  /\ todo' = Tail(todo) /\ epc' = IF Tail(todo) = <<>> THEN "idle" ELSE epc
                  /\ out' = IF r.status = "Ok" THEN Answered(x, r.got) ELSE out
                  /\ UNCHANGED <<sock, family, tainted>>
  BY Zenon DEF query_one
<1>. DEFINE r == run_request(x, seq + 1, f)
<1>3. answers = <<>> => /\ r.status # "SocketError" => r.queue = <<>>
                        /\ f = "none" /\ x \in Supported => r.status = "Ok"
  BY Zenon, <1>1, CleanRequest
<1>4. Range(todo) \subseteq {x} \cup Range(Tail(todo))
  BY <1>1, RangeOfTail
<1>. HIDE DEF r, x
<1>5. CASE reset
  BY <1>5 DEF CompleteInv, reset
<1>6. CASE /\ r.status # "SocketError"
           /\ answers' = r.queue
           /\ todo' = Tail(todo) /\ epc' = IF Tail(todo) = <<>> THEN "idle" ELSE epc
           /\ out' = IF r.status = "Ok" THEN Answered(x, r.got) ELSE out
           /\ UNCHANGED <<sock, family, tainted>>
  <2>1. ~tainted' => answers' = <<>>
    BY Zenon, <1>3, <1>6 DEF CompleteInv
  <2>2. DOMAIN out \subseteq DOMAIN out' /\ (r.status = "Ok" => x \in DOMAIN out')
    BY <1>6 DEF Answered
  <2>3. ASSUME FamilyName \in Supported, sock', ~failed', ~tainted',
               NEW y \in Range(Ifaces) \cap Supported, y \notin DOMAIN out'
        PROVE  epc' = "batch" /\ y \in Range(todo')
    <3>1. ~failed /\ f = "none" /\ sock /\ ~tainted
      BY Zenon, <1>2, <1>6, <2>3
    <3>2. y \in Range(todo) /\ answers = <<>>
      BY Zenon, <2>2, <2>3, <3>1 DEF CompleteInv
    <3>3. y # x
      BY Zenon, <1>3, <2>2, <2>3, <3>1, <3>2
    <3>4. y \in Range(Tail(todo))
      BY <1>4, <3>2, <3>3
    <3>5. Tail(todo) # <<>>
      BY <3>4 DEF Range
    <3>. QED BY <1>1, <1>6, <3>4, <3>5
  <2>. QED BY Zenon, <2>1, <2>3 DEF CompleteInv
<1>. QED BY Zenon, <1>2, <1>5, <1>6 DEF r

\* For any interfaces, any kernel and any failures before it, a query that goes
\* well leaves out no interface the kernel knows (ethtool_link.cpp:199), unless
\* the family was resolved with answers left behind.
THEOREM QueriesAreComplete == EthtoolSpec => []AnswersAll
<1>1. EthtoolInit => CompleteInv
  BY DEF EthtoolInit, CompleteInv
<1>2. EthtoolInv /\ CompleteInv /\ [EthtoolNext]_ethtoolVars => CompleteInv'
  <2>. SUFFICES ASSUME EthtoolInv, CompleteInv, [EthtoolNext]_ethtoolVars PROVE CompleteInv'
    OBVIOUS
  <2>1. CASE UNCHANGED ethtoolVars
    BY <2>1 DEF ethtoolVars, CompleteInv
  <2>. QED BY <2>1, QueryCompletes, QueryOneCompletes DEF EthtoolNext
<1>3. CompleteInv => AnswersAll
  BY DEF CompleteInv, AnswersAll
<1>. QED BY EthtoolInitially, EthtoolStep, <1>1, <1>2, <1>3, PTL DEF EthtoolSpec
=============================================================================
