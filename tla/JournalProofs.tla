--------------------------- MODULE JournalProofs ---------------------------
(***************************************************************************)
(* For every buffer capacity, journal and number of faults: the buffer is  *)
(* the tail of the journal up to the cursor, and bounded; and what the     *)
(* probe reports from it is what a scan of that tail would find.           *)
(***************************************************************************)
EXTENDS JournalReader, FiniteSetTheorems, TLAPS

\* Up to where the buffer accounts for the journal: in rebuild_from_tail's
\* loop the handle is on an entry that is not read yet.
Seen == IF jpc = "prime" THEN base .. cursor - 1 ELSE Due

Ascending(b) == \A i, j \in DOMAIN b : i < j => b[i] < b[j]

\* b holds entries of S in order, and of S all but the oldest
Covers(b, S) ==
  /\ \A i \in DOMAIN b : b[i] \in S
  /\ Ascending(b)
  /\ \A p \in S : \/ \E i \in DOMAIN b : b[i] = p
                  \/ Len(b) >= Cap /\ p < b[1]

\* How long the buffer may be, by where the reader is
Room ==
  /\ jpc = "prime" => Len(buffer) <= Cap /\ base <= cursor /\ skipped = {}
  /\ jpc = "scan" => Len(buffer) <= Cap + read
  /\ jpc = "prime" => handle = "open"
  /\ jpc = "scan" => handle # "closed"
  /\ AtRest => Len(buffer) <= Cap
  /\ Len(buffer) <= 3 * Cap

JournalInv == JournalTypeOK /\ Covers(buffer, Seen) /\ Room

\* How many entries evict drops
Dropped(b) == IF Len(b) > Cap THEN Len(b) - Cap ELSE 0

\* evict keeps the last Cap entries of a sequence, or all of them.
LEMMA EvictKeeps ==
  ASSUME NEW b \in Seq(Nat)
  PROVE  /\ evict(b) \in Seq(Nat)
         /\ Len(evict(b)) <= Cap
         /\ Dropped(b) \in Nat
         /\ Len(b) = Len(evict(b)) + Dropped(b)
         /\ Dropped(b) > 0 => Len(evict(b)) = Cap
         /\ \A i \in 1 .. Len(evict(b)) : evict(b)[i] = b[i + Dropped(b)]
<1>1. CASE Len(b) > Cap
  <2>. DEFINE d == Len(b) - Cap
  <2>1. d \in Nat /\ d > 0 /\ d + 1 \in 1 .. Len(b) /\ Cap \in Nat
    BY <1>1, JournalAssumption
  <2>2. evict(b) = SubSeq(b, d + 1, Len(b)) /\ Dropped(b) = d
    BY Zenon, <1>1 DEF evict, Dropped
  <2>3. /\ evict(b) \in Seq(Nat)
        /\ Len(evict(b)) = Cap
        /\ \A i \in 1 .. Cap : evict(b)[i] = b[i + d]
    <3>1. Len(SubSeq(b, d + 1, Len(b))) = Len(b) - d /\ SubSeq(b, d + 1, Len(b)) \in Seq(Nat)
      BY <2>1
    <3>2. \A i \in 1 .. Cap : SubSeq(b, d + 1, Len(b))[i] = b[i + d]
      BY <2>1
    <3>3. Len(b) - d = Cap
      BY <2>1
    <3>. QED BY Zenon, <2>2, <3>1, <3>2, <3>3
  <2>. QED BY <2>1, <2>2, <2>3
<1>2. CASE ~(Len(b) > Cap)
  BY <1>2, JournalAssumption DEF evict, Dropped
<1>. QED BY <1>1, <1>2

\* A suffix that is shorter only if it has Cap entries covers what the
\* sequence covers.
LEMMA SuffixCovers ==
  ASSUME NEW b, NEW e, NEW S \in SUBSET Nat, Covers(b, S),
         NEW m \in Nat, NEW n \in Nat, NEW d \in Nat, n = m + d,
         Len(b) = n, DOMAIN b = 1 .. n, Len(e) = m, DOMAIN e = 1 .. m,
         m < Cap => d = 0,
         \A i \in 1 .. m : e[i] = b[i + d]
  PROVE  Covers(e, S)
<1>1. Cap \in Nat /\ Cap >= 1
  BY JournalAssumption
<1>2. \A i \in 1 .. m : i + d \in 1 .. n
  OBVIOUS
<1>3. \A i \in 1 .. n : b[i] \in S /\ b[i] \in Nat
  BY Zenon DEF Covers
<1>4. \A i, j \in 1 .. n : i < j => b[i] < b[j]
  BY DEF Covers, Ascending
<1>5. \A i \in DOMAIN e : e[i] \in S
  BY <1>2, <1>3
<1>6. Ascending(e)
  <2>. SUFFICES ASSUME NEW i \in 1 .. m, NEW j \in 1 .. m, i < j
                PROVE  e[i] < e[j]
    BY DEF Ascending
  <2>1. i + d < j + d /\ i + d \in 1 .. n /\ j + d \in 1 .. n
    BY <1>2
  <2>. QED BY <2>1, <1>4
<1>7. ASSUME NEW p \in S
      PROVE  \/ \E i \in 1 .. m : e[i] = p
             \/ m >= Cap /\ p < e[1]
  <2>1. CASE n >= Cap /\ p < b[1]
    <3>1. m >= Cap
      BY <2>1, <1>1
    <3>2. e[1] = b[1 + d] /\ 1 + d \in 1 .. n /\ 1 \in 1 .. n
      BY <3>1, <1>1
    <3>3. b[1] = b[1 + d] \/ b[1] < b[1 + d]
      BY <3>2, <1>4
    <3>4. p \in Nat /\ b[1] \in Nat /\ b[1 + d] \in Nat
      BY <3>2, <1>3
    <3>. QED BY <2>1, <3>1, <3>2, <3>3, <3>4
  <2>2. ASSUME NEW i \in 1 .. n, b[i] = p
        PROVE  \/ \E k \in 1 .. m : e[k] = p
               \/ m >= Cap /\ p < e[1]
    <3>1. CASE i > d
      <4>1. i - d \in 1 .. m /\ (i - d) + d = i
        BY <3>1
      <4>2. e[i - d] = b[(i - d) + d]
        BY Zenon, <4>1
      <4>. QED BY Zenon, <4>1, <4>2, <2>2
    <3>2. CASE i <= d
      <4>1. m >= Cap /\ 1 \in 1 .. m
        BY <3>2, <1>1
      <4>2. e[1] = b[1 + d] /\ 1 + d \in 1 .. n /\ i < 1 + d
        BY <4>1, <1>2, <3>2
      <4>. QED BY <4>1, <4>2, <1>4, <2>2
    <3>. QED BY <3>1, <3>2
  <2>. QED BY <2>1, <2>2 DEF Covers
<1>. QED BY Zenon, <1>5, <1>6, <1>7 DEF Covers

\* Evicting keeps the order, and drops only what is older than what stays.
LEMMA EvictCovers ==
  ASSUME NEW b \in Seq(Nat), NEW S \in SUBSET Nat, Covers(b, S)
  PROVE  Covers(evict(b), S)
<1>. DEFINE e == evict(b)
<1>1. /\ e \in Seq(Nat) /\ Len(e) <= Cap
      /\ Dropped(b) \in Nat
      /\ Len(b) = Len(e) + Dropped(b)
      /\ Dropped(b) > 0 => Len(e) = Cap
      /\ \A i \in 1 .. Len(e) : e[i] = b[i + Dropped(b)]
  BY EvictKeeps
<1>. HIDE DEF e
<1>2. /\ Len(e) \in Nat /\ DOMAIN e = 1 .. Len(e)
      /\ Len(b) \in Nat /\ DOMAIN b = 1 .. Len(b)
  BY <1>1
<1>3. Len(e) < Cap => Dropped(b) = 0
  BY <1>1, <1>2
<1>4. Covers(e, S)
  BY Zenon, <1>1, <1>2, <1>3, SuffixCovers
<1>. QED BY <1>4 DEF e

\* Reading one more entry keeps the buffer in order and complete.
LEMMA PushCovers ==
  ASSUME NEW b \in Seq(Nat), NEW S \in SUBSET Nat, Covers(b, S),
         NEW p \in Nat, \A q \in S : q < p
  PROVE  /\ Append(b, p) \in Seq(Nat)
         /\ Len(Append(b, p)) = Len(b) + 1
         /\ Covers(Append(b, p), S \cup {p})
<1>. DEFINE a == Append(b, p)
<1>1. /\ a \in Seq(Nat) /\ Len(a) = Len(b) + 1 /\ Len(b) \in Nat
      /\ DOMAIN a = 1 .. Len(a) /\ DOMAIN b = 1 .. Len(b)
      /\ \A i \in 1 .. Len(b) : a[i] = b[i] /\ b[i] \in Nat
      /\ a[Len(a)] = p /\ Cap \in Nat \ {0}
  BY JournalAssumption
<1>2. \A i \in DOMAIN a : a[i] \in S \cup {p}
  BY <1>1 DEF Covers
<1>3. Ascending(a)
  <2>. SUFFICES ASSUME NEW i \in 1 .. Len(a), NEW j \in 1 .. Len(a), i < j
                PROVE  a[i] < a[j]
    BY <1>1 DEF Ascending
  <2>1. i \in 1 .. Len(b) /\ a[i] = b[i] /\ b[i] \in S
    <3>1. i \in 1 .. Len(b)
      BY <1>1
    <3>. QED BY Zenon, <1>1, <3>1 DEF Covers
  <2>2. CASE j = Len(a)
    BY <2>1, <2>2, <1>1
  <2>3. CASE j # Len(a)
    <3>1. j \in 1 .. Len(b) /\ a[j] = b[j]
      BY <2>3, <1>1
    <3>. QED BY Zenon, <3>1, <2>1, <1>1 DEF Covers, Ascending
  <2>. QED BY <2>2, <2>3
<1>4. ASSUME NEW q \in S \cup {p}
      PROVE  \/ \E i \in DOMAIN a : a[i] = q
             \/ Len(a) >= Cap /\ q < a[1]
  <2>1. CASE q = p
    <3>1. Len(a) \in DOMAIN a
      BY <1>1
    <3>. QED BY <3>1, <2>1, <1>1
  <2>2. CASE q \in S /\ \E i \in DOMAIN b : b[i] = q
    BY <2>2, <1>1
  <2>3. CASE q \in S /\ Len(b) >= Cap /\ q < b[1]
    BY <2>3, <1>1
  <2>. QED BY <2>1, <2>2, <2>3 DEF Covers
<1>. QED BY Zenon, <1>1, <1>2, <1>3, <1>4 DEF Covers

\* Sequences over a set are sequences over a larger set.
LEMMA SeqMonotone ==
  ASSUME NEW S, NEW T, S \subseteq T, NEW b \in Seq(S)
  PROVE  b \in Seq(T)
<1>1. Len(b) \in Nat /\ b \in [1 .. Len(b) -> T]
  OBVIOUS
<1>. QED BY <1>1

\* Where the buffer may be read: what JournalInv says of its entries
LEMMA BufferNat ==
  ASSUME JournalInv
  PROVE  /\ buffer \in Seq(Nat) /\ Len(buffer) \in Nat
         /\ Cap \in Nat /\ Cap >= 1
         /\ Seen \in SUBSET Nat /\ len \in Nat /\ cursor \in Nat /\ base \in Nat
         /\ Covers(buffer, Seen)
<1>1. len \in Nat /\ cursor \in Nat /\ base \in Nat /\ Cap \in Nat /\ Cap >= 1
  BY JournalAssumption DEF JournalInv, JournalTypeOK
<1>2. buffer \in Seq(Nat) /\ Len(buffer) \in Nat
  <2>1. 1 .. len \subseteq Nat
    BY <1>1
  <2>2. buffer \in Seq(1 .. len)
    BY DEF JournalInv, JournalTypeOK
  <2>3. buffer \in Seq(Nat)
    BY Zenon, <2>1, <2>2, SeqMonotone
  <2>. QED BY <2>3
<1>3. Seen \in SUBSET Nat
  BY <1>1 DEF Seen, Due
<1>. QED BY <1>1, <1>2, <1>3 DEF JournalInv

\* A sequence of entries that covers a part of the journal consists of entries
\* of the journal.
LEMMA CoversType ==
  ASSUME NEW b \in Seq(Nat), NEW n \in Nat, NEW S \in SUBSET (1 .. n), Covers(b, S)
  PROVE  b \in Seq(1 .. n)
<1>1. \A i \in 1 .. Len(b) : b[i] \in 1 .. n
  BY DEF Covers
<1>. QED BY <1>1

\* An empty buffer covers the empty set.
LEMMA EmptyCovers ==
  ASSUME NEW S, S = {}
  PROVE  Covers(<<>>, S)
BY DEF Covers, Ascending

\* Every step of the reader and of the journal keeps the invariant.
LEMMA JournalStep ==
  ASSUME JournalInv, JournalNext
  PROVE  JournalInv'
<1>. USE JournalAssumption
<1>0. /\ buffer \in Seq(Nat) /\ Len(buffer) \in Nat
      /\ Cap \in Nat /\ Cap >= 1
      /\ Seen \in SUBSET Nat /\ len \in Nat /\ cursor \in Nat /\ base \in Nat
      /\ Covers(buffer, Seen)
  BY BufferNat
<1>1. CASE Log
  <2>1. Seen' = Seen /\ buffer' = buffer
    BY <1>1 DEF Log, Seen, Due
  <2>2. 1 .. len \subseteq 1 .. len'
    BY <1>0, <1>1 DEF Log
  <2>3. buffer \in Seq(1 .. len')
    BY Zenon, <2>2, SeqMonotone DEF JournalInv, JournalTypeOK
  <2>4. JournalTypeOK'
    BY <1>0, <1>1, <2>2, <2>3 DEF JournalInv, JournalTypeOK, Log
  <2>. QED BY <1>1, <2>1, <2>4 DEF JournalInv, Log, Room, AtRest, Covers, Ascending
<1>2. ASSUME NEW at \in 0 .. len, rebuild_from_tail(at), UNCHANGED len,
             read' \in 0 .. 2 * Cap
      PROVE  JournalInv'
  <2>1. buffer' = <<>> /\ skipped' = {}
    BY <1>2 DEF rebuild_from_tail
  <2>2. Seen' = {} /\ jpc' \in {"idle", "prime"}
    BY <1>0, <1>2, <2>1 DEF rebuild_from_tail, Seen, Due
  <2>3. JournalTypeOK'
    <3>1. /\ handle' \in {"open", "tail"} /\ faults' \in 0 .. MaxFaults
          /\ cursor' \in 0 .. len /\ base' \in 1 .. cursor' + 1
      BY <1>0, <1>2 DEF rebuild_from_tail, JournalInv, JournalTypeOK, Fault
    <3>2. len' = len /\ len \in 0 .. MaxEntries
      BY <1>2 DEF JournalInv, JournalTypeOK
    <3>3. buffer' \in Seq(1 .. len') /\ skipped' \subseteq 1 .. cursor'
      BY <2>1
    <3>. QED BY Zenon, <1>2, <2>2, <3>1, <3>2, <3>3 DEF JournalTypeOK
  <2>4. Room'
    <3>1. Len(buffer') = 0
      BY <2>1
    <3>2. jpc' = "prime" => base' <= cursor' /\ handle' = "open"
      BY <1>0, <1>2 DEF rebuild_from_tail
    <3>3. Len(buffer') <= Cap /\ Len(buffer') <= 3 * Cap
      BY <1>0, <3>1
    <3>. QED BY Zenon, <1>2, <2>1, <2>2, <3>2, <3>3 DEF Room, AtRest
  <2>. QED BY <2>1, <2>2, <2>3, <2>4, EmptyCovers DEF JournalInv
<1>3. CASE open_and_prime
  <2>1. CASE rebuild_from_tail(0)
    BY <1>0, <1>2, <1>3, <2>1 DEF open_and_prime, JournalInv, JournalTypeOK
  <2>2. CASE Fault /\ UNCHANGED <<handle, cursor, buffer, jpc, base, skipped>>
    BY <1>3, <2>2
    DEF open_and_prime, Fault, JournalInv, JournalTypeOK, Seen, Due, Room, AtRest,
        Covers, Ascending
  <2>. QED BY <1>3, <2>1, <2>2 DEF open_and_prime
<1>4. CASE ingest
  <2>1. Seen' = Seen /\ buffer' = buffer
    BY <1>4 DEF ingest, close_handle, Seen, Due
  <2>2. JournalTypeOK' /\ Room'
    BY <1>0, <1>4
    DEF ingest, close_handle, Fault, JournalInv, JournalTypeOK, Room, AtRest
  <2>. QED BY <2>1, <2>2, <1>0 DEF JournalInv, Covers, Ascending
<1>5. CASE PrimeStep
  <2>. DEFINE b == evict(Append(buffer, cursor))
  <2>0. /\ jpc = "prime" /\ handle = "open" /\ Len(buffer) <= Cap /\ base <= cursor
        /\ Seen = base .. cursor - 1 /\ base >= 1 /\ cursor <= len /\ skipped = {}
    BY <1>5 DEF PrimeStep, JournalInv, Room, Seen, JournalTypeOK
  <2>1. CASE /\ Fault /\ skipped' = skipped \cup {cursor}
             /\ jpc' = "idle" /\ UNCHANGED <<cursor, buffer>>
    <3>1. UNCHANGED <<len, handle, read, base>>
      BY <1>5 DEF PrimeStep
    <3>2. Seen' = Seen /\ skipped' \subseteq 1 .. cursor'
      BY <1>0, <2>0, <2>1, <3>1 DEF Seen, Due
    <3>3. JournalTypeOK' /\ Room'
      BY <1>0, <2>0, <2>1, <3>1, <3>2
      DEF Fault, JournalInv, JournalTypeOK, Room, AtRest
    <3>. QED BY <1>0, <2>1, <3>2, <3>3 DEF JournalInv, Covers, Ascending
  <2>2. CASE /\ buffer' = b
             /\ \/ cursor < len /\ cursor' = cursor + 1 /\ UNCHANGED <<jpc, faults>>
                \/ cursor = len /\ jpc' = "idle" /\ UNCHANGED <<cursor, faults>>
                \/ Fault /\ jpc' = "idle" /\ UNCHANGED cursor
             /\ UNCHANGED skipped
    <3>1. UNCHANGED <<len, handle, read, base>>
      BY <1>5 DEF PrimeStep
    <3>2. Seen' = Seen \cup {cursor}
      BY <1>0, <2>0, <2>2, <3>1 DEF Seen, Due
    <3>3. Covers(Append(buffer, cursor), Seen \cup {cursor})
      BY <1>0, <2>0, PushCovers
    <3>4. /\ Append(buffer, cursor) \in Seq(Nat)
          /\ Seen \cup {cursor} \in SUBSET Nat
          /\ Seen \cup {cursor} \in SUBSET (1 .. len)
      BY <1>0, <2>0
    <3>5. Covers(b, Seen \cup {cursor}) /\ b \in Seq(Nat) /\ Len(b) <= Cap
      BY Zenon, <3>3, <3>4, EvictCovers, EvictKeeps
    <3>6. b \in Seq(1 .. len)
      BY <1>0, <3>4, <3>5, CoversType
    <3>. HIDE DEF b
    <3>7. JournalTypeOK'
      <4>1. faults' \in 0 .. MaxFaults
        BY <2>2 DEF Fault, JournalInv, JournalTypeOK
      <4>2. cursor' \in 0 .. len /\ base \in 1 .. cursor' + 1
        BY <1>0, <2>0, <2>2
      <4>3. jpc' \in {"idle", "scan", "prime"} /\ skipped' \subseteq 1 .. cursor'
        BY <2>0, <2>2
      <4> QED
        BY Zenon, <2>2, <3>1, <3>6, <4>1, <4>2, <4>3 DEF JournalInv, JournalTypeOK
    <3>8. Len(b) \in Nat /\ Len(b) <= 3 * Cap
      BY <1>0, <3>5
    <3>9. Room'
      BY <1>0, <2>0, <2>2, <3>1, <3>5, <3>8 DEF Room, AtRest
    <3>. QED BY <2>2, <3>2, <3>5, <3>7, <3>9 DEF JournalInv
  <2>. QED BY <1>5, <2>1, <2>2 DEF PrimeStep
<1>6. CASE ScanStep
  <2>0. /\ jpc = "scan" /\ handle # "closed" /\ Len(buffer) <= Cap + read
        /\ read \in Nat /\ read <= 2 * Cap
        /\ Seen = Due /\ base >= 1 /\ cursor <= len /\ base <= cursor + 1
        /\ skipped \subseteq 1 .. cursor
        /\ UNCHANGED len
    BY <1>6 DEF ScanStep, JournalInv, Room, Seen, JournalTypeOK
  <2>1. CASE /\ Fault /\ close_handle
             /\ UNCHANGED <<cursor, buffer, read, base, skipped>>
    <3>1. Seen' = Seen
      BY <2>0, <2>1 DEF close_handle, Seen, Due
    <3>2. JournalTypeOK' /\ Room'
      BY <1>0, <2>0, <2>1
      DEF Fault, close_handle, JournalInv, JournalTypeOK, Room, AtRest
    <3>. QED BY <1>0, <2>1, <3>1, <3>2 DEF JournalInv, Covers, Ascending
  <2>2. CASE /\ read < 2 * Cap /\ cursor < len
             /\ cursor' = cursor + 1 /\ buffer' = Append(buffer, cursor')
             /\ read' = read + 1
             /\ UNCHANGED <<handle, jpc, faults, base, skipped>>
    <3>1. cursor + 1 \in Nat /\ \A q \in Seen : q < cursor + 1
      BY <1>0, <2>0 DEF Due
    <3>2. Seen' = Seen \cup {cursor + 1}
      BY <1>0, <2>0, <2>2 DEF Seen, Due
    <3>3. /\ buffer' \in Seq(Nat) /\ Len(buffer') = Len(buffer) + 1
          /\ Covers(buffer', Seen')
      BY <1>0, <2>2, <3>1, <3>2, PushCovers
    <3>4. Seen' \in SUBSET (1 .. len)
      BY <1>0, <2>0, <2>2, <3>2 DEF Due
    <3>5. buffer' \in Seq(1 .. len)
      BY <1>0, <3>3, <3>4, CoversType
    <3>6. JournalTypeOK'
      BY <1>0, <2>0, <2>2, <3>5 DEF JournalInv, JournalTypeOK
    <3>7. Room'
      BY <1>0, <2>0, <2>2, <3>3 DEF Room, AtRest
    <3>. QED BY <3>3, <3>6, <3>7 DEF JournalInv
  <2>3. CASE /\ jpc' = "idle" /\ buffer' = evict(buffer)
             /\ UNCHANGED <<handle, cursor, read, faults, base, skipped>>
    <3>1. Seen' = Seen
      BY <2>0, <2>3 DEF Seen, Due
    <3>2. Covers(buffer', Seen) /\ buffer' \in Seq(Nat) /\ Len(buffer') <= Cap
      BY <1>0, <2>3, EvictCovers, EvictKeeps
    <3>3. Seen \in SUBSET (1 .. len)
      BY <1>0, <2>0 DEF Due
    <3>4. buffer' \in Seq(1 .. len) /\ Len(buffer') \in Nat
      BY <1>0, <3>2, <3>3, CoversType
    <3>5. JournalTypeOK'
      BY <1>0, <2>0, <2>3, <3>4 DEF JournalInv, JournalTypeOK
    <3>6. Room'
      BY <1>0, <2>0, <2>3, <3>2, <3>4 DEF Room, AtRest
    <3>. QED BY <3>1, <3>2, <3>5, <3>6 DEF JournalInv
  <2>4. CASE rebuild_from_tail(cursor) /\ UNCHANGED read
    BY <1>0, <1>2, <2>0, <2>4 DEF JournalInv, JournalTypeOK
  <2>. QED BY <1>6, <2>1, <2>2, <2>3, <2>4 DEF ScanStep
<1>. QED BY <1>1, <1>3, <1>4, <1>5, <1>6 DEF JournalNext, Reader

\* What is initially and after every step
THEOREM JournalInductive == JournalSpec => []JournalInv
<1>1. JournalInit => JournalInv
  <2>. SUFFICES ASSUME JournalInit PROVE JournalInv
    OBVIOUS
  <2>1. Seen = {} /\ buffer = <<>> /\ Len(buffer) = 0
    BY DEF JournalInit, Seen, Due
  <2>2. JournalTypeOK
    BY JournalAssumption DEF JournalInit, JournalTypeOK
  <2>3. Room
    BY <2>1, JournalAssumption DEF JournalInit, Room, AtRest
  <2>. QED BY <2>1, <2>2, <2>3, EmptyCovers DEF JournalInv
<1>2. ASSUME JournalInv, UNCHANGED journalVars
      PROVE  JournalInv'
  BY <1>2
  DEF journalVars, JournalInv, JournalTypeOK, Room, AtRest, Seen, Due, Covers, Ascending
<1>. QED BY <1>1, <1>2, JournalStep, PTL DEF JournalSpec

\* Whatever the capacity, the journal and the faults, the buffer between two
\* calls of ingest is the tail of the journal up to the cursor.
THEOREM BufferIsTailThm == JournalSpec => []BufferIsTail
<1>1. JournalInv => BufferIsTail
  <2>. SUFFICES ASSUME JournalInv, AtRest PROVE BufferIsTail
    BY DEF BufferIsTail
  <2>1. Seen = Due /\ Len(buffer) <= Cap
    BY DEF Seen, AtRest, JournalInv, Room
  <2>2. Len(buffer) \in Nat /\ Cap \in Nat
    BY BufferNat
  <2>3. Len(buffer) >= Cap => Len(buffer) = Cap
    BY <2>1, <2>2
  <2>. QED BY <2>1, <2>3 DEF BufferIsTail, JournalInv, Covers, Ascending
<1>. QED BY <1>1, JournalInductive, PTL

\* The entries of b at the indexes in I
Entries(b, I) == {b[i] : i \in I}

\* Counting indexes of an ascending sequence is counting its entries.
LEMMA CountIndexes ==
  ASSUME NEW b, NEW n \in Nat, DOMAIN b = 1 .. n,
         \A i \in 1 .. n : b[i] \in Nat, Ascending(b),
         NEW I \in SUBSET (1 .. n)
  PROVE  /\ IsFiniteSet(I) /\ Cardinality(I) \in Nat
         /\ Cardinality(Entries(b, I)) = Cardinality(I)
<1>1. IsFiniteSet(1 .. n)
  BY FS_Interval
<1>2. IsFiniteSet(I) /\ Cardinality(I) \in Nat
  BY Zenon, <1>1, FS_Subset, FS_CardinalityType
<1>3. ASSUME NEW i \in I, NEW j \in I, b[i] = b[j]
      PROVE  i = j
  <2>1. i \in 1 .. n /\ j \in 1 .. n /\ b[i] \in Nat
    OBVIOUS
  <2>2. ~(i < j) /\ ~(j < i)
    BY <2>1, <1>3 DEF Ascending
  <2>. QED BY <2>1, <2>2
<1>. DEFINE f == [i \in I |-> b[i]]
<1>4. f \in Bijection(I, Entries(b, I))
  BY Zenon, <1>3 DEF Bijection, Injection, Surjection, IsInjective, Entries
<1>5. ExistsBijection(I, Entries(b, I))
  BY <1>4 DEF ExistsBijection
<1>. QED BY <1>2, <1>5, FS_Bijection

\* What a scan back of Cap entries over S finds is what a sequence of at most
\* Cap entries that covers S holds.
LEMMA CoversScan ==
  ASSUME NEW b \in Seq(Nat), NEW S \in SUBSET Nat, IsFiniteSet(S),
         Covers(b, S), Len(b) <= Cap
  PROVE  {p \in S : Cardinality({q \in S : q > p}) < Cap} = Entries(b, DOMAIN b)
<1>. DEFINE n == Len(b)
            Newer(p) == {q \in S : q > p}
<1>1. /\ n \in Nat /\ DOMAIN b = 1 .. n /\ n <= Cap /\ Cap \in Nat \ {0}
      /\ \A i \in 1 .. n : b[i] \in Nat
      /\ \A i \in 1 .. n : b[i] \in S
      /\ Ascending(b)
  BY JournalAssumption DEF Covers
<1>2. \A i, j \in 1 .. n : i < j <=> b[i] < b[j]
  <2>. SUFFICES ASSUME NEW i \in 1 .. n, NEW j \in 1 .. n
                PROVE  i < j <=> b[i] < b[j]
    OBVIOUS
  <2>1. (i < j => b[i] < b[j]) /\ (j < i => b[j] < b[i])
    BY Zenon, <1>1 DEF Ascending
  <2>2. b[i] \in Nat /\ b[j] \in Nat
    BY Zenon, <1>1
  <2>. HIDE DEF n
  <2>. QED BY <1>1, <2>1, <2>2
<1>3. \A p \in S : \/ \E i \in 1 .. n : b[i] = p
                   \/ n = Cap /\ p < b[1]
  <2>1. n >= Cap => n = Cap
    BY JournalAssumption
  <2>. QED BY Zenon, <1>1, <2>1 DEF Covers
<1>. HIDE DEF n
<1>4. ASSUME NEW i \in 1 .. n
      PROVE  Cardinality(Newer(b[i])) < Cap
  <2>. DEFINE I == i + 1 .. n
  <2>1. I \in SUBSET (1 .. n)
    BY <1>1
  <2>2. ASSUME NEW q \in Newer(b[i])
        PROVE  \E j \in I : b[j] = q
    <3>1. q \in S /\ q \in Nat /\ q > b[i] /\ b[i] \in Nat
      BY <1>1
    <3>2. ~(q < b[1])
      <4>1. 1 \in 1 .. n /\ (i = 1 \/ 1 < i)
        BY <1>1
      <4>2. b[1] \in Nat /\ b[1] <= b[i]
        BY <4>1, <1>1, <1>2
      <4>. QED BY <3>1, <4>2
    <3>3. PICK j \in 1 .. n : b[j] = q
      BY <3>1, <3>2, <1>3
    <3>4. i < j
      BY <3>1, <3>3, <1>2
    <3>. QED BY <3>3, <3>4, <1>1
  <2>3. ASSUME NEW j \in I
        PROVE  b[j] \in Newer(b[i])
    <3>1. j \in 1 .. n /\ i < j
      BY <1>1
    <3>. QED BY <3>1, <1>1, <1>2
  <2>4. Newer(b[i]) = Entries(b, I)
    BY <2>2, <2>3 DEF Entries
  <2>5. Cardinality(Newer(b[i])) = Cardinality(I)
    <3>. HIDE DEF Newer, I
    <3>. QED BY <1>1, <2>1, <2>4, CountIndexes
  <2>6. Cardinality(I) = n - i
    BY <1>1, FS_Interval
  <2>. QED BY <1>1, <2>5, <2>6
<1>5. ASSUME NEW p \in S, \A i \in 1 .. n : b[i] # p
      PROVE  ~(Cardinality(Newer(p)) < Cap)
  <2>. DEFINE B == Entries(b, 1 .. n)
  <2>1. n = Cap /\ p < b[1] /\ p \in Nat
    BY <1>3, <1>5
  <2>2. ASSUME NEW i \in 1 .. n
        PROVE  b[i] > p
    <3>1. 1 \in 1 .. n /\ (i = 1 \/ 1 < i)
      BY <1>1
    <3>2. b[1] \in Nat /\ b[i] \in Nat /\ b[1] <= b[i]
      BY <3>1, <1>1, <1>2
    <3>. QED BY <3>2, <2>1
  <2>3. B \in SUBSET Newer(p)
    BY <1>1, <2>2 DEF Entries
  <2>4. IsFiniteSet(Newer(p)) /\ Newer(p) \in SUBSET S
    BY FS_Subset
  <2>5. Cardinality(B) <= Cardinality(Newer(p)) /\ Cardinality(Newer(p)) \in Nat
    BY <2>3, <2>4, FS_Subset, FS_CardinalityType
  <2>6. Cardinality(B) = Cardinality(1 .. n)
    <3>1. 1 .. n \in SUBSET (1 .. n)
      OBVIOUS
    <3>. QED BY <1>1, <3>1, CountIndexes
  <2>7. Cardinality(1 .. n) = n
    BY <1>1, FS_Interval
  <2>. QED BY <1>1, <2>1, <2>5, <2>6, <2>7
<1>. HIDE DEF Newer
<1>6. {p \in S : Cardinality(Newer(p)) < Cap} = Entries(b, 1 .. n)
  <2>1. \A i \in 1 .. n : b[i] \in S /\ Cardinality(Newer(b[i])) < Cap
    BY Zenon, <1>1, <1>4
  <2>2. \A p \in S : Cardinality(Newer(p)) < Cap => \E i \in 1 .. n : b[i] = p
    BY Zenon, <1>5
  <2>. QED BY Zenon, <2>1, <2>2 DEF Entries
<1>. QED BY <1>1, <1>6 DEF Newer

\* Once the clock is past the first Window, the cutoff does not wrap.
LEMMA WindowCutoff ==
  ASSUME NEW p \in 1 .. MaxEntries, NEW now \in Window .. Width - 1
  PROVE  in_window(p, now) <=> Window = 0 \/ now - Realtime[p] <= Window
<1>1. Window \in Nat /\ Width \in Nat /\ Width > 0 /\ now \in Nat /\ Realtime[p] \in Nat
  BY QueryAssumption
<1>2. now - Window \in Nat /\ now - Window < Width
  BY <1>1
<1>3. \A k, w \in Nat : k < w => k % w = k
  OBVIOUS
<1>4. (now - Window) % Width = now - Window
  BY <1>1, <1>2, <1>3
<1>. QED BY <1>1, <1>4 DEF in_window

\* A set of indexes of the buffer has no more elements than one it is part of.
LEMMA FewerIndexes ==
  ASSUME NEW n \in Nat, NEW I \in SUBSET (1 .. n), NEW J \in SUBSET I
  PROVE  Cardinality(J) <= Cardinality(I)
<1>1. IsFiniteSet(1 .. n)
  BY FS_Interval
<1>2. IsFiniteSet(I)
  BY Zenon, <1>1, FS_Subset
<1>. QED BY Zenon, <1>2, FS_Subset

\* Whatever the configuration, the journal, the faults and the times at which
\* JournalProbe looks at the clock, its status is that of the tail.
THEOREM StatusOfTailThm == JournalSpec => []StatusOfTail
<1>1. ASSUME JournalInv, AtRest, NEW t \in ClockReadings
      PROVE  LET s == JournalStatus(t)
             IN  /\ Cardinality(ErrorsBack(t[2 * Cap])) <= s.error_count
                 /\ s.error_count <= Cardinality(ErrorsBack(t[Cap + 1]))
                 /\ s.recent_errors \subseteq ErrorsBack(t[2 * Cap])
                 /\ s.error_count > 0 /\ ErrorPriority <= 3 => s.overall # "ok"
  <2>. DEFINE n == Len(buffer)
              Err(p) == Priority[p] <= ErrorPriority
              u == [i \in 1 .. Cap |-> t[Cap + i]]
              first == t[Cap + 1]
              last == t[2 * Cap]
              now == t[2 * Cap + 1]
              I == {i \in DOMAIN buffer : Err(buffer[i]) /\ in_window(buffer[i], u[i])}
              At(m) == {i \in DOMAIN buffer : Err(buffer[i]) /\ in_window(buffer[i], m)}
  <2>1. /\ buffer \in Seq(Nat) /\ n \in Nat /\ DOMAIN buffer = 1 .. n
        /\ \A i \in 1 .. n : buffer[i] \in 1 .. MaxEntries
        /\ \A i \in 1 .. n : buffer[i] \in Nat
        /\ n <= Cap /\ Cap \in Nat
    <3>1. /\ buffer \in Seq(Nat) /\ buffer \in Seq(1 .. len) /\ n <= Cap
          /\ len \in 0 .. MaxEntries
      BY <1>1, BufferNat DEF JournalInv, JournalTypeOK, Room
    <3>2. \A i \in 1 .. n : buffer[i] \in 1 .. len
      BY <3>1
    <3>. QED BY <3>1, <3>2, JournalAssumption
  <2>2. Due \in SUBSET Nat /\ IsFiniteSet(Due) /\ Covers(buffer, Due)
    <3>1. base \in Int /\ cursor \in Int
      BY <1>1, BufferNat
    <3>2. Due \in SUBSET (base .. cursor) /\ Seen = Due
      BY <1>1 DEF Due, Seen, AtRest
    <3>. QED BY Zenon, <3>1, <3>2, <1>1, BufferNat, FS_Interval, FS_Subset
  <2>3. BackScan = Entries(buffer, 1 .. n)
    BY Zenon, <2>1, <2>2, CoversScan DEF BackScan
  <2>4. ErrorPriority \in Int /\ \A p \in 1 .. MaxEntries : Priority[p] \in Int
    BY QueryAssumption
  \* An entry in the window at one reading was in it at every earlier one.
  <2>5. \A p \in 1 .. MaxEntries, i, j \in 1 .. 2 * Cap + 1 :
          i <= j /\ in_window(p, t[j]) => in_window(p, t[i])
    <3>. SUFFICES ASSUME NEW p \in 1 .. MaxEntries, NEW i \in 1 .. 2 * Cap + 1,
                         NEW j \in 1 .. 2 * Cap + 1, i <= j, in_window(p, t[j])
                  PROVE  in_window(p, t[i])
      OBVIOUS
    <3>1. t[i] \in Window .. Width - 1 /\ t[j] \in Window .. Width - 1
      BY DEF ClockReadings
    <3>2. t[i] <= t[j]
      <4>1. i < j \/ i = j
        BY <2>1
      <4>2. i < j => t[i] <= t[j]
        BY DEF ClockReadings
      <4>3. t[i] \in Int
        BY <3>1, QueryAssumption
      <4>. QED BY <4>1, <4>2, <4>3
    <3>3. /\ in_window(p, t[i]) <=> Window = 0 \/ t[i] - Realtime[p] <= Window
          /\ in_window(p, t[j]) <=> Window = 0 \/ t[j] - Realtime[p] <= Window
      BY Zenon, <3>1, WindowCutoff
    <3>4. Window \in Int /\ t[i] \in Int /\ t[j] \in Int /\ Realtime[p] \in Int
      BY <3>1, QueryAssumption
    <3>. QED BY <3>2, <3>3, <3>4
  <2>6. /\ Cap + 1 \in 1 .. 2 * Cap + 1 /\ 2 * Cap \in 1 .. 2 * Cap + 1
        /\ 2 * Cap + 1 \in 1 .. 2 * Cap + 1 /\ 2 * Cap <= 2 * Cap + 1
        /\ \A i \in 1 .. n : /\ i \in 1 .. Cap /\ i \in 1 .. 2 * Cap + 1
                             /\ Cap + i \in 1 .. 2 * Cap + 1
                             /\ i <= Cap + i /\ Cap + 1 <= Cap + i /\ Cap + i <= 2 * Cap
    BY <2>1, JournalAssumption
  <2>7. /\ first \in Window .. Width - 1 /\ last \in Window .. Width - 1
        /\ now \in Window .. Width - 1
    BY <2>6 DEF ClockReadings
  <2>8. \A i \in 1 .. n : u[i] = t[Cap + i]
    BY <2>6
  <2>9. \A i \in 1 .. n :
          /\ in_window(buffer[i], now) => in_window(buffer[i], last)
          /\ in_window(buffer[i], last) => in_window(buffer[i], u[i])
          /\ in_window(buffer[i], u[i]) => in_window(buffer[i], first)
          /\ in_window(buffer[i], u[i]) => in_window(buffer[i], t[i])
    BY Zenon, <2>1, <2>5, <2>6, <2>8
  <2>. HIDE DEF n, u, first, last, now
  <2>10. ASSUME NEW m \in Window .. Width - 1
         PROVE  ErrorsBack(m) = Entries(buffer, At(m))
    <3>1. \A p \in 1 .. MaxEntries :
            in_window(p, m) <=> Window = 0 \/ m - Realtime[p] <= Window
      BY Zenon, WindowCutoff
    <3>. QED BY Zenon, <2>1, <2>3, <3>1 DEF ErrorsBack, Entries
  <2>11. /\ At(last) \in SUBSET I /\ I \in SUBSET At(first)
         /\ At(first) \in SUBSET (1 .. n) /\ I \in SUBSET (1 .. n) /\ At(last) \in SUBSET (1 .. n)
    BY Zenon, <2>1, <2>9
  <2>12. Ascending(buffer)
    BY <2>2 DEF Covers
  <2>13. /\ Cardinality(ErrorsBack(last)) <= Cardinality(I)
         /\ Cardinality(I) <= Cardinality(ErrorsBack(first))
    <3>1. /\ Cardinality(At(last)) <= Cardinality(I)
          /\ Cardinality(I) <= Cardinality(At(first))
      BY Zenon, <2>1, <2>11, FewerIndexes
    <3>2. /\ Cardinality(Entries(buffer, At(last))) = Cardinality(At(last))
          /\ Cardinality(Entries(buffer, At(first))) = Cardinality(At(first))
      BY Zenon, <2>1, <2>11, <2>12, CountIndexes
    <3>3. /\ ErrorsBack(last) = Entries(buffer, At(last))
          /\ ErrorsBack(first) = Entries(buffer, At(first))
      BY Zenon, <2>7, <2>10
    <3>. QED BY Zenon, <3>1, <3>2, <3>3
  <2>14. recent_errors(now) \subseteq ErrorsBack(last)
    <3>1. recent_errors(now) \subseteq Entries(buffer, At(last))
      BY Zenon, <2>1, <2>9 DEF Entries, recent_errors, filter_journal_entries
    <3>. QED BY Zenon, <3>1, <2>7, <2>10
  <2>15. error_count(u) = Cardinality(I)
    BY Zenon DEF error_count
  <2>16. ASSUME error_count(u) > 0, ErrorPriority <= 3
         PROVE  overall_severity(t) # "ok"
    <3>1. I # {}
      BY <2>15, <2>16, FS_EmptySet
    <3>2. PICK i \in 1 .. n : Err(buffer[i]) /\ in_window(buffer[i], u[i])
      BY Zenon, <3>1, <2>1
    <3>3. Priority[buffer[i]] <= 3
      BY <3>2, <2>1, <2>4, <2>16
    <3>. QED BY Zenon, <3>2, <3>3, <2>1, <2>9 DEF overall_severity
  <2>17. /\ JournalStatus(t).error_count = error_count(u)
         /\ JournalStatus(t).recent_errors = recent_errors(now)
         /\ JournalStatus(t).overall = overall_severity(t)
    BY DEF JournalStatus, u, now
  <2>. QED BY Zenon, <2>13, <2>14, <2>15, <2>16, <2>17 DEF first, last
<1>2. JournalInv => StatusOfTail
  BY Zenon, <1>1 DEF StatusOfTail
<1>. QED BY <1>2, JournalInductive, PTL

\* The buffer stays within three times its capacity on every path through
\* ingest, the ones that end in an error included.
THEOREM BufferBoundedThm == JournalSpec => []BufferBounded
<1>1. JournalInv => BufferBounded
  BY DEF JournalInv, Room, BufferBounded
<1>. QED BY <1>1, JournalInductive, PTL

\* Type correctness of the reader
THEOREM JournalTypeCorrect == JournalSpec => []JournalTypeOK
<1>1. JournalInv => JournalTypeOK
  BY DEF JournalInv
<1>. QED BY <1>1, JournalInductive, PTL
=============================================================================
