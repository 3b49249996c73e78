--------------------------- MODULE JournalReader ---------------------------
(***************************************************************************)
(* The in-memory view of the systemd journal (src/journal_reader.cpp) and  *)
(* what JournalProbe reports of it.  An entry is its position in the       *)
(* journal; the journal grows while the reader runs, and sd_journal calls  *)
(* may fail.  The reader's handle stands on an entry (cursor); ingest()    *)
(* pulls what is new into a buffer of Cap entries and, after a burst,      *)
(* starts again from the tail.                                             *)
(***************************************************************************)
EXTENDS Integers, Sequences, FiniteSets

CONSTANTS
  Cap,           \* buffer_cap(): log_excerpt.buffer_max_entries
  Priority,      \* syslog priority of each entry
  Realtime,      \* its __REALTIME_TIMESTAMP
  Window,        \* log_excerpt.window_sec, in the unit of Realtime
  ErrorPriority, \* error_priority(): log_excerpt.min_priority, 3 if unset
  MaxLines,      \* log_excerpt.max_lines
  Width,         \* timestamps are unsigned, modulo Width
  MaxEntries,    \* bound on the journal (for TLC)
  MaxFaults      \* bound on failing calls and expired deadlines (for TLC)

ASSUME JournalAssumption ==
  /\ Cap \in Nat \ {0}
  /\ MaxEntries \in Nat \ {0}
  /\ MaxFaults \in Nat

ASSUME QueryAssumption ==
  /\ Priority \in [1 .. MaxEntries -> Int]
  /\ Realtime \in [1 .. MaxEntries -> Nat]
  /\ Window \in Nat /\ Width \in Nat \ {0}
  /\ ErrorPriority \in Int /\ MaxLines \in Nat \ {0}

VARIABLES
  len,        \* external: entries in the journal, 1..len
  handle,     \* journal_: "closed", "open", or parked at the "tail" behind the
              \* last entry, from where next() does not follow
  cursor,     \* the entry the handle is on; 0 before the first
  buffer,     \* buffer_: entries, oldest first
  jpc,        \* "idle", in ingest's loop "scan", in rebuild_from_tail "prime"
  read,       \* ingest's local
  faults,     \* bound
  \* history
  base,       \* first entry the buffer has to account for
  skipped     \* entry left unread when the deadline expired

journalVars == <<len, handle, cursor, buffer, jpc, read, faults, base, skipped>>

JournalInit ==
  /\ len = 0
  /\ handle = "closed" /\ cursor = 0 /\ buffer = <<>>
  /\ jpc = "idle" /\ read = 0
  /\ faults = 0
  /\ base = 1 /\ skipped = {}

Fault == faults < MaxFaults /\ faults' = faults + 1
-----------------------------------------------------------------------------
\* evict, and the pop_front of rebuild_from_tail
evict(b) == IF Len(b) > Cap THEN SubSeq(b, Len(b) - Cap + 1, Len(b)) ELSE b

\* rebuild_from_tail up to its loop: seek to the tail and go back Cap entries,
\* onto one not read yet.  The seek may fail (at is where the handle then stays),
\* and so may the way back, at its beginning, as with an empty journal, or after
\* some entries; the loop is not entered.
rebuild_from_tail(at) ==
  /\ buffer' = <<>> /\ skipped' = {}
  /\ \/ /\ Fault
        /\ handle' = "open" /\ cursor' = at /\ base' = at + 1 /\ jpc' = "idle"
     \/ /\ Fault \/ (len = 0 /\ UNCHANGED faults)
        /\ handle' = "tail" /\ cursor' = len /\ base' = len + 1 /\ jpc' = "idle"
     \/ /\ Fault
        /\ cursor' \in {c \in 1 .. len : len - c < Cap - 1}
        /\ handle' = "open" /\ base' = cursor' + 1 /\ jpc' = "idle"
     \/ /\ len > 0 /\ UNCHANGED faults
        /\ cursor' = IF len > Cap THEN len - Cap + 1 ELSE 1
        /\ handle' = "open" /\ base' = cursor' /\ jpc' = "prime"

\* Mutant: a handle that was lost is not opened again.
open_and_prime_never ==
  /\ jpc = "idle" /\ handle = "closed" /\ cursor = 0
  /\ rebuild_from_tail(0)
  /\ UNCHANGED <<len, read>>

\* init, or ingest without a handle: open and prime, or stay degraded
open_and_prime ==
  /\ jpc = "idle" /\ handle = "closed"
  /\ \/ Fault /\ UNCHANGED <<handle, cursor, buffer, jpc, base, skipped>>
     \/ rebuild_from_tail(0)
  /\ UNCHANGED <<len, read>>

\* Mutant: the loop advances before it reads the entry it is on.
PrimeAdvancesFirst ==
  /\ jpc = "prime"
  /\ IF cursor < len
     THEN /\ cursor' = cursor + 1 /\ buffer' = evict(Append(buffer, cursor'))
          /\ UNCHANGED jpc
     ELSE jpc' = "idle" /\ UNCHANGED <<cursor, buffer>>
  /\ UNCHANGED <<len, handle, read, faults, base, skipped>>

\* One round of rebuild_from_tail's loop.  The deadline is looked at before
\* the entry: when it has passed, the handle stays on an entry not read.
PrimeStep ==
  /\ jpc = "prime"
  /\ \/ /\ Fault
        /\ skipped' = skipped \cup {cursor}
        /\ jpc' = "idle"
        /\ UNCHANGED <<cursor, buffer>>
     \/ /\ buffer' = evict(Append(buffer, cursor))
        /\ \/ cursor < len /\ cursor' = cursor + 1 /\ UNCHANGED <<jpc, faults>>
           \/ cursor = len /\ jpc' = "idle" /\ UNCHANGED <<cursor, faults>>
           \/ Fault /\ jpc' = "idle" /\ UNCHANGED cursor
        /\ UNCHANGED skipped
  /\ UNCHANGED <<len, handle, read, base>>

close_handle == handle' = "closed" /\ jpc' = "idle"

\* ingest with a handle: sd_journal_wait(0)
ingest ==
  /\ jpc = "idle" /\ handle # "closed"
  /\ \/ Fault /\ close_handle /\ UNCHANGED read
     \/ jpc' = "scan" /\ read' = 0 /\ UNCHANGED <<handle, faults>>
  /\ UNCHANGED <<len, cursor, buffer, base, skipped>>

\* One round of ingest's loop, and what follows the loop
ScanStep ==
  /\ jpc = "scan"
  /\ \/ /\ read < 2 * Cap /\ Fault /\ close_handle
        /\ UNCHANGED <<cursor, buffer, read, base, skipped>>
     \/ /\ read < 2 * Cap /\ handle = "open" /\ cursor < len
        /\ cursor' = cursor + 1 /\ buffer' = Append(buffer, cursor')
        /\ read' = read + 1
        /\ UNCHANGED <<handle, jpc, faults, base, skipped>>
     \/ /\ read < 2 * Cap /\ (handle = "tail" \/ cursor = len)
        /\ jpc' = "idle" /\ buffer' = evict(buffer)
        /\ UNCHANGED <<handle, cursor, read, faults, base, skipped>>
     \/ /\ read = 2 * Cap
        /\ rebuild_from_tail(cursor)
        /\ UNCHANGED read
  /\ UNCHANGED len

\* external: something logs
Log ==
  /\ len < MaxEntries
  /\ len' = len + 1
  /\ UNCHANGED <<handle, cursor, buffer, jpc, read, faults, base, skipped>>

Reader == open_and_prime \/ PrimeStep \/ ingest \/ ScanStep

JournalNext == Log \/ Reader
JournalSpec == JournalInit /\ [][JournalNext]_journalVars
JournalFairness == WF_journalVars(Reader)
-----------------------------------------------------------------------------
\* What is read off the buffer.  error_count and overall_severity look at the
\* clock for every entry (t[i] for the i-th), filter_journal_entries once.

\* Mutant: the cutoff itself is outside the window.
in_window_open(p, now) ==
  Window = 0 \/ Realtime[p] > (now - Window) % Width

in_window(p, now) == Window = 0 \/ Realtime[p] >= (now - Window) % Width

error_count(t) ==
  Cardinality({i \in DOMAIN buffer :
                 Priority[buffer[i]] <= ErrorPriority /\ in_window(buffer[i], t[i])})

overall_severity(t) ==
  LET seen == {Priority[buffer[i]] :
                 i \in {j \in DOMAIN buffer : in_window(buffer[j], t[j])}}
  IN  IF \E p \in seen : p <= 2 THEN "crit"
      ELSE IF \E p \in seen : p <= 3 THEN "warn" ELSE "ok"

\* The newest MaxLines of the entries in the window; which lines are quoted,
\* not how they are laid out.  entries are indexes of the buffer.
filter_journal_entries(entries, now) ==
  LET kept == {i \in entries : in_window(buffer[i], now)}
  IN  {buffer[i] : i \in {k \in kept :
                           Cardinality({n \in kept : n > k}) < MaxLines}}

recent_errors(now) ==
  filter_journal_entries(
    {i \in DOMAIN buffer : Priority[buffer[i]] <= ErrorPriority}, now)

\* JournalProbe::collect, with the readings t of the clock in their order
JournalStatus(t) ==
  [overall       |-> overall_severity(t),
   error_count   |-> error_count([i \in 1 .. Cap |-> t[Cap + i]]),
   recent_errors |-> recent_errors(t[2 * Cap + 1])]
-----------------------------------------------------------------------------
JournalTypeOK ==
  /\ len \in 0 .. MaxEntries
  /\ handle \in {"closed", "open", "tail"}
  /\ cursor \in 0 .. len
  /\ buffer \in Seq(1 .. len)
  /\ jpc \in {"idle", "scan", "prime"}
  /\ read \in 0 .. 2 * Cap
  /\ faults \in 0 .. MaxFaults
  /\ base \in 1 .. cursor + 1
  /\ skipped \subseteq 1 .. cursor

AtRest == jpc = "idle" /\ handle # "closed"

\* The entries up to the cursor that the buffer has to account for
Due == (base .. cursor) \ skipped

\* Between two calls of ingest the buffer is exactly the last Cap entries up
\* to the cursor, in order and without a hole: reading on, evicting, giving up
\* on a burst, losing the handle and reopening it make no difference to
\* scanning back from the cursor.  Only the entry the deadline of
\* rebuild_from_tail left unread may be missing (journal_reader.cpp:186), and
\* after a failed seek or skip what came before.
BufferIsTail ==
  AtRest =>
    /\ Len(buffer) <= Cap
    /\ \A i \in DOMAIN buffer : buffer[i] \in Due
    /\ \A i, j \in DOMAIN buffer : i < j => buffer[i] < buffer[j]
    /\ \A p \in Due : \/ \E i \in DOMAIN buffer : buffer[i] = p
                      \/ Len(buffer) = Cap /\ p < buffer[1]

\* The buffer never holds more than three times its capacity, however ingest
\* ends: a burst is cut off at twice the capacity, and a buffer that a failing
\* handle left unevicted is not added to (journal_reader.cpp:243).
BufferBounded == Len(buffer) <= 3 * Cap

\* The fixed-size scan back from the cursor
BackScan == {p \in Due : Cardinality({q \in Due : q > p}) < Cap}

\* The errors of the window that such a scan finds
ErrorsBack(now) ==
  {p \in BackScan : /\ Priority[p] <= ErrorPriority
                    /\ Window = 0 \/ now - Realtime[p] <= Window}

\* The readings of the clock in one JournalProbe::collect: one per entry for
\* overall_severity, one per entry for error_count, one for recent_errors.  The
\* clock is not set back meanwhile and is past the first Window of the epoch:
\* before, the unsigned cutoff wraps round (journal_reader.cpp:39).
ClockReadings ==
  {t \in [1 .. 2 * Cap + 1 -> Window .. Width - 1] :
     \A i, j \in 1 .. 2 * Cap + 1 : i < j => t[i] <= t[j]}

\* What JournalProbe reports between two calls of ingest counts the error
\* entries of the window among the last Cap, of those that leave the window
\* while it counts some; and although it reads the clock again and again, it
\* quotes no error it does not count, and calls nothing ok in which it counts
\* errors (unless min_priority lets warnings count as such, which
\* overall_severity knows nothing of).
StatusOfTail ==
  AtRest =>
    \A t \in ClockReadings :
      LET s == JournalStatus(t)
          first == t[Cap + 1]
          last  == t[2 * Cap]
      IN  /\ Cardinality(ErrorsBack(last)) <= s.error_count
          /\ s.error_count <= Cardinality(ErrorsBack(first))
          /\ s.recent_errors \subseteq ErrorsBack(last)
          /\ s.error_count > 0 /\ ErrorPriority <= 3 => s.overall # "ok"

\* Once nothing is logged and nothing fails any more, the reader has a handle
\* and stands on the last entry for good: ingest reopens and reads on, and a
\* rebuild cut short is made up for in the cycles after it.  The exception is
\* a handle parked at the tail, which rebuild_from_tail leaves when it finds
\* the journal empty or cannot go back one entry: it delivers nothing until an
\* error of the journal closes it.
CaughtUp == handle = "tail" \/ (handle = "open" /\ cursor = len)
CatchesUp == <>[]CaughtUp
=============================================================================
