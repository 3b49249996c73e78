--------------------------- MODULE SnapshotProofs ---------------------------
(***************************************************************************)
(* What Snapshot says of the summary, for any thresholds, units, mounts    *)
(* and sensors and any answers of the system.                              *)
(***************************************************************************)
EXTENDS Snapshot, TLAPS

\* Every section is the constructed one until its first collection, which
\* cannot be stale, and then what the probe made of the answer seen last.
SnapshotInv ==
  /\ stale \in [Domains -> BOOLEAN]
  /\ \A d \in Domains :
       IF seen[d] = Never THEN section[d] = Default[d] /\ ~stale[d]
       ELSE AnswerOK(d, seen[d]) /\ section[d] = Collect(d, seen[d])

\* What the domain showed before its age counts
Own(d) == Evaluate(d, section[d])
-----------------------------------------------------------------------------
(* The severities.                                                         *)

\* The ranks, one by one
LEMMA Ranks ==
  /\ Rank["unknown"] = 0 /\ Rank["ok"] = 1 /\ Rank["stale"] = 2
  /\ Rank["unavailable"] = 3 /\ Rank["warn"] = 4 /\ Rank["crit"] = 5
  /\ \A s \in Severities : Rank[s] \in Nat
BY DEF Rank, Severities

\* Warn and crit are the highest ranks, and ok and unknown the lowest.
LEMMA RankOrder ==
  ASSUME NEW s \in Severities
  PROVE  /\ Rank[s] >= 4 <=> s \in {"warn", "crit"}
         /\ Rank[s] <= 1 <=> s \in {"ok", "unknown"}
BY Ranks DEF Severities

\* worst_of gives one of its arguments, and none of them is worse.
LEMMA WorstOf ==
  ASSUME NEW S \in SUBSET Severities
  PROVE  /\ worst_of(S) \in S \cup {"unknown"} /\ worst_of(S) \in Severities
         /\ \A s \in S : Rank[s] <= Rank[worst_of(S)]
<1>1. \E w \in S \cup {"unknown"} : \A s \in S : Rank[s] <= Rank[w]
  <2>1. CASE "crit" \in S
    BY <2>1, Ranks DEF Severities
  <2>2. CASE "crit" \notin S /\ "warn" \in S
    BY <2>2, Ranks DEF Severities
  <2>3. CASE S \cap {"crit", "warn"} = {} /\ "unavailable" \in S
    BY <2>3, Ranks DEF Severities
  <2>4. CASE S \cap {"crit", "warn", "unavailable"} = {} /\ "stale" \in S
    BY <2>4, Ranks DEF Severities
  <2>5. CASE S \cap {"crit", "warn", "unavailable", "stale"} = {} /\ "ok" \in S
    BY <2>5, Ranks DEF Severities
  <2>6. CASE S \subseteq {"unknown"}
    BY <2>6, Ranks
  <2>. QED BY <2>1, <2>2, <2>3, <2>4, <2>5, <2>6 DEF Severities
<1>2. worst_of(S) \in S \cup {"unknown"} /\ \A s \in S : Rank[s] <= Rank[worst_of(S)]
  BY Zenon, <1>1 DEF worst_of
<1>. QED BY Zenon, <1>2 DEF Severities

\* The two levels
LEMMA Levels ==
  ASSUME NEW v, NEW w, NEW c
  PROVE  Level(v, w, c) \in {"ok", "warn", "crit"}
BY DEF Level

\* A value at the lower level is at warn or worse, and only such a value is.
LEMMA LevelBounds ==
  ASSUME NEW v \in Int, NEW w \in Int, NEW c \in Int, w < c
  PROVE  Level(v, w, c) # "ok" <=> v >= w
BY DEF Level

\* Every part of resources counts.
LEMMA ResourcesParts ==
  ASSUME NEW r
  PROVE  /\ evaluate_resources(r) \in Severities
         /\ evaluate_resources(r) \in
              {"unknown", Level(r.cpu, T.cpu_load_warn, T.cpu_load_crit), evaluate_memory(r.memory),
               Readings(r.storage, T.disk_used_warn, T.disk_used_crit),
               Readings(r.thermal, T.temp_warn_c, T.temp_crit_c)}
         /\ \A s \in {Level(r.cpu, T.cpu_load_warn, T.cpu_load_crit), evaluate_memory(r.memory),
                      Readings(r.storage, T.disk_used_warn, T.disk_used_crit),
                      Readings(r.thermal, T.temp_warn_c, T.temp_crit_c)} :
              s \in Severities /\ Rank[s] <= Rank[evaluate_resources(r)]
<1>. DEFINE S == {Level(r.cpu, T.cpu_load_warn, T.cpu_load_crit), evaluate_memory(r.memory),
                  Readings(r.storage, T.disk_used_warn, T.disk_used_crit),
                  Readings(r.thermal, T.temp_warn_c, T.temp_crit_c)}
<1>1. ASSUME NEW v, NEW w, NEW c PROVE Readings(v, w, c) \in Severities
  <2>1. {"ok"} \cup {IF v[x] = NoValue THEN "unavailable" ELSE Level(v[x], w, c) : x \in DOMAIN v}
          \subseteq Severities
    BY Levels DEF Severities
  <2>. QED BY <2>1, WorstOf DEF Readings
<1>2. evaluate_memory(r.memory) \in Severities
  BY Levels DEF evaluate_memory, Severities
<1>3. Level(r.cpu, T.cpu_load_warn, T.cpu_load_crit) \in Severities
  BY Levels DEF Severities
<1>4. S \in SUBSET Severities
  BY <1>1, <1>2, <1>3
<1>5. evaluate_resources(r) = worst_of(S)
  BY DEF evaluate_resources
<1>. HIDE DEF S
<1>6. /\ evaluate_resources(r) \in S \cup {"unknown"} /\ evaluate_resources(r) \in Severities
      /\ \A s \in S : s \in Severities /\ Rank[s] <= Rank[evaluate_resources(r)]
  BY Zenon, <1>4, <1>5, WorstOf
<1>. QED BY <1>6 DEF S

\* A reading counts as lost, or with its level.
LEMMA ReadingsParts ==
  ASSUME NEW v, NEW w, NEW c
  PROVE  /\ Readings(v, w, c) \in Severities
         /\ \A x \in DOMAIN v :
              /\ v[x] = NoValue => Rank["unavailable"] <= Rank[Readings(v, w, c)]
              /\ v[x] # NoValue => Rank[Level(v[x], w, c)] <= Rank[Readings(v, w, c)]
         /\ Readings(v, w, c) \in {"warn", "crit"} =>
              \E x \in DOMAIN v : v[x] # NoValue /\ Level(v[x], w, c) # "ok"
<1>. DEFINE f(x) == IF v[x] = NoValue THEN "unavailable" ELSE Level(v[x], w, c)
            S == {"ok"} \cup {f(x) : x \in DOMAIN v}
<1>1. \A x \in DOMAIN v : f(x) \in Severities
  BY Levels DEF Severities
<1>2. S \in SUBSET Severities
  BY <1>1 DEF Severities
<1>3. Readings(v, w, c) = worst_of(S)
  BY DEF Readings
<1>4. \A x \in DOMAIN v : f(x) \in S
  OBVIOUS
<1>5. \A s \in S : s = "ok" \/ \E x \in DOMAIN v : s = f(x)
  OBVIOUS
<1>. HIDE DEF S, f
<1>6. /\ Readings(v, w, c) \in S \cup {"unknown"} /\ Readings(v, w, c) \in Severities
      /\ \A s \in S : Rank[s] <= Rank[Readings(v, w, c)]
  BY Zenon, <1>2, <1>3, WorstOf
<1>7. ASSUME Readings(v, w, c) \in {"warn", "crit"}
      PROVE  \E x \in DOMAIN v : v[x] # NoValue /\ Level(v[x], w, c) # "ok"
  <2>1. PICK x \in DOMAIN v : f(x) \in {"warn", "crit"}
    BY <1>5, <1>6, <1>7
  <2>. QED BY <2>1 DEF f
<1>. QED BY Zenon, <1>4, <1>6, <1>7 DEF f
-----------------------------------------------------------------------------
(* The invariant.                                                          *)

\* Nothing is collected at first ...
LEMMA SnapshotInitially == SnapshotInit => SnapshotInv
BY DEF SnapshotInit, SnapshotInv

\* ... and every cycle collects a section or leaves it alone.
LEMMA SnapshotStep == SnapshotInv /\ [SnapshotNext]_snapshotVars => SnapshotInv'
<1>. SUFFICES ASSUME SnapshotInv, [SnapshotNext]_snapshotVars PROVE SnapshotInv'
  OBVIOUS
<1>1. CASE UNCHANGED snapshotVars
  BY Zenon, <1>1 DEF snapshotVars, SnapshotInv
<1>2. CASE Cycle
  <2>1. PICK due, got, failing, late :
          /\ collection_cycle(due, got, failing, late)
          /\ \A x \in Domains : AnswerOK(x, got[x])
    <3>1. PICK d \in Domains, failing \in SUBSET {"resources"}, late \in BOOLEAN :
            \E answer \in IF d \in Unusual THEN {Usual[d]} ELSE Answers[d] :
              collection_cycle(
                IF d \in Slow \/ seen["boot"] = Never THEN Domains ELSE Domains \ Slow,
                [x \in Domains |-> IF x = d THEN answer
                                   ELSE IF seen[x] = Never THEN Usual[x] ELSE seen[x]],
                failing, late)
      BY Zenon, <1>2 DEF Cycle
    <3>2. PICK answer \in IF d \in Unusual THEN {Usual[d]} ELSE Answers[d] :
            collection_cycle(
              IF d \in Slow \/ seen["boot"] = Never THEN Domains ELSE Domains \ Slow,
              [x \in Domains |-> IF x = d THEN answer
                                 ELSE IF seen[x] = Never THEN Usual[x] ELSE seen[x]],
              failing, late)
      BY Zenon, <3>1
    <3>. DEFINE got == [x \in Domains |-> IF x = d THEN answer
                                          ELSE IF seen[x] = Never THEN Usual[x] ELSE seen[x]]
    <3>3. AnswerOK(d, answer)
      BY Zenon, <3>2, SnapshotAssumption
    <3>4. \A x \in Domains : \/ got[x] = answer /\ x = d
                             \/ got[x] = Usual[x]
                             \/ got[x] = seen[x] /\ seen[x] # Never
      OBVIOUS
    <3>5. \A x \in Domains : AnswerOK(x, got[x])
      <4>. HIDE DEF got
      <4>. QED BY Zenon, <3>3, <3>4, SnapshotAssumption DEF SnapshotInv
    <3>. QED BY Zenon, <3>2, <3>5
  <2>2. stale' \in [Domains -> BOOLEAN]
    BY <2>1 DEF collection_cycle, mark_stale
  <2>3. ASSUME NEW d \in Domains
        PROVE  IF seen'[d] = Never THEN section'[d] = Default[d] /\ ~stale'[d]
               ELSE AnswerOK(d, seen'[d]) /\ section'[d] = Collect(d, seen'[d])
    <3>1. CASE d \in due \ failing
      <4>1. seen'[d] = got[d] /\ section'[d] = Collect(d, got[d])
        BY Zenon, <2>1, <3>1 DEF collection_cycle
      <4>2. got[d] # Never
        BY Zenon, <2>1 DEF AnswerOK
      <4>. QED BY Zenon, <2>1, <4>1, <4>2
    <3>2. CASE d \notin due \ failing
      <4>1. seen'[d] = seen[d] /\ section'[d] = section[d] /\ (stale'[d] => seen[d] # Never)
        BY Zenon, <2>1, <3>2 DEF collection_cycle, mark_stale
      <4>. QED BY Zenon, <4>1 DEF SnapshotInv
    <3>. QED BY <3>1, <3>2
  <2>. QED BY Zenon, <2>2, <2>3 DEF SnapshotInv
<1>. QED BY <1>1, <1>2 DEF SnapshotNext

\* It holds in every behaviour.
LEMMA SnapshotAlways == SnapshotSpec => []SnapshotInv
BY SnapshotInitially, SnapshotStep, PTL DEF SnapshotSpec
-----------------------------------------------------------------------------
(* The summary.                                                            *)

\* The services are as bad as their worst unit.
LEMMA ServicesParts ==
  ASSUME NEW a
  PROVE  /\ Services(a).overall \in Severities
         /\ \A u \in Units : Services(a).units[u].state = "failed" => Services(a).overall = "crit"
         /\ DOMAIN Services(a).units = Units
<1>. DEFINE units == [u \in Units |-> IF a.bus THEN query_unit(a.units[u])
                                      ELSE [state |-> "unknown", restart_count |-> 0]]
            severity == {evaluate_unit_severity(units[u]) : u \in Units}
<1>1. Services(a).units = units
      /\ Services(a).overall = IF a.bus THEN worst_of({"ok"} \cup severity) ELSE "unknown"
  BY DEF Services
<1>2. {"ok"} \cup severity \in SUBSET Severities
  BY DEF evaluate_unit_severity, Severities
<1>3. ASSUME NEW u \in Units, units[u].state = "failed" PROVE a.bus /\ "crit" \in severity
  <2>1. evaluate_unit_severity(units[u]) = "crit"
    BY <1>3 DEF evaluate_unit_severity
  <2>2. a.bus
    BY <1>3
  <2>. QED BY <2>1, <2>2
<1>. HIDE DEF severity
<1>4. worst_of({"ok"} \cup severity) \in Severities
  BY <1>2, WorstOf
<1>5. "crit" \in severity => worst_of({"ok"} \cup severity) = "crit"
  <2>1. "crit" \in severity => Rank["crit"] <= Rank[worst_of({"ok"} \cup severity)]
    BY <1>2, WorstOf
  <2>. QED BY <1>4, <2>1, Ranks DEF Severities
<1>6. DOMAIN units = Units
  OBVIOUS
<1>. HIDE DEF units
<1>. QED BY Zenon, <1>1, <1>3, <1>4, <1>5, <1>6 DEF Severities

\* Every section has a severity.
LEMMA OwnSeverity ==
  ASSUME SnapshotInv, NEW d \in Domains
  PROVE  Own(d) \in Severities
<1>0. IF seen[d] = Never THEN section[d] = Default[d] /\ ~stale[d]
      ELSE AnswerOK(d, seen[d]) /\ section[d] = Collect(d, seen[d])
  BY Zenon DEF SnapshotInv
<1>1. CASE d = "boot"
  BY <1>1 DEF Own, Evaluate, evaluate_boot, Severities
<1>2. CASE d = "resources"
  <2>1. Own(d) = evaluate_resources(section[d])
    BY <1>2 DEF Own, Evaluate
  <2>. QED BY Zenon, <2>1, ResourcesParts
<1>3. CASE d = "crash"
  BY <1>3 DEF Own, Evaluate, evaluate_crash, Severities
<1>4. CASE d \in {"services", "time_sync", "update", "journal"}
  <2>1. Own(d) = section[d].overall
    BY <1>4 DEF Own, Evaluate, evaluate_own
  <2>2. CASE seen[d] = Never
    <3>1. /\ Default["services"].overall = "unknown" /\ Default["time_sync"].overall = "unknown"
          /\ Default["update"].overall = "unknown" /\ Default["journal"].overall = "unknown"
      BY Zenon DEF Default
    <3>. QED BY Zenon, <1>0, <1>4, <2>1, <2>2, <3>1 DEF Severities
  <2>3. CASE seen[d] # Never /\ d = "services"
    <3>1. section[d] = Services(seen[d])
      BY <1>0, <2>3 DEF Collect
    <3>. QED BY Zenon, <2>1, <3>1, ServicesParts
  <2>4. CASE seen[d] # Never /\ d = "time_sync"
    BY <1>0, <2>1, <2>4 DEF Collect, TimeSync, evaluate_sync_severity, Severities
  <2>5. CASE seen[d] # Never /\ d = "update"
    <3>1. section[d] = Update(seen[d])
      BY <1>0, <2>5 DEF Collect
    <3>2. \A a : Update(a).overall \in {"ok", "unknown", "warn"}
      BY DEF Update
    <3>. QED BY Zenon, <2>1, <3>1, <3>2 DEF Severities
  <2>6. CASE seen[d] # Never /\ d = "journal"
    BY <1>0, <2>1, <2>6 DEF Collect, AnswerOK
  <2>. QED BY <1>4, <2>2, <2>3, <2>4, <2>5, <2>6
<1>. QED BY <1>1, <1>2, <1>3, <1>4 DEF Domains

\* A domain shows the severity of its section, or that it is stale.
LEMMA DomainSeverity ==
  ASSUME SnapshotInv, NEW d \in Domains
  PROVE  /\ summary.domains[d] \in Severities
         /\ ~stale[d] => summary.domains[d] = Own(d)
         /\ stale[d] => /\ summary.domains[d] \in {Own(d), "stale", "unknown"}
                        /\ Rank[Own(d)] <= Rank[summary.domains[d]] /\ 2 <= Rank[summary.domains[d]]
<1>1. summary.domains[d] = IF stale[d] THEN worst_of({Own(d), "stale"}) ELSE Own(d)
  BY DEF summary, aggregate, DomainSeverities, Own
<1>2. {Own(d), "stale"} \in SUBSET Severities
  BY OwnSeverity DEF Severities
<1>3. /\ worst_of({Own(d), "stale"}) \in {Own(d), "stale"} \cup {"unknown"}
      /\ worst_of({Own(d), "stale"}) \in Severities
      /\ \A x \in {Own(d), "stale"} : Rank[x] <= Rank[worst_of({Own(d), "stale"})]
  BY Zenon, <1>2, WorstOf
<1>. QED BY <1>1, <1>3, OwnSeverity, Ranks

\* The overall severity is none better than any domain's.
LEMMA OverallSeverity ==
  ASSUME SnapshotInv
  PROVE  summary.severity \in Severities
           /\ \A d \in Domains : Rank[summary.domains[d]] <= Rank[summary.severity]
<1>. DEFINE S == {summary.domains[d] : d \in Domains}
<1>1. S \in SUBSET Severities
  BY DomainSeverity
<1>2. summary.severity = worst_of(S)
  BY DEF summary, aggregate, compute_overall
<1>3. \A d \in Domains : summary.domains[d] \in S
  OBVIOUS
<1>. HIDE DEF S
<1>. QED BY Zenon, <1>1, <1>2, <1>3, WorstOf
-----------------------------------------------------------------------------
\* Whatever is monitored and whatever the thresholds: a mount or a sensor that
\* gives no usable reading, or resources not collected for too long, are seen
\* in the summary.
THEOREM LossSurfaces == SnapshotSpec => []LossOfSightSurfaces
<1>1. SnapshotInv => LossOfSightSurfaces
  <2>. DEFINE d == "resources"
              a == seen["resources"]
              shown == summary.domains["resources"]
  <2>. SUFFICES ASSUME SnapshotInv, a # Never, ~Sighted(a) \/ stale[d]
                PROVE  summary.severity \notin {"ok", "unknown"} /\ d \in degraded_domains(summary.domains)
    BY DEF LossOfSightSurfaces
  <2>0. d \in Domains
    BY DEF Domains
  <2>1. section[d] = Resources(a)
    BY <2>0 DEF SnapshotInv, Collect
  <2>2. ~Sighted(a) => Rank[Own(d)] >= 3
    <3>. SUFFICES ASSUME ~Sighted(a) PROVE Rank[Own(d)] >= 3
      OBVIOUS
    <3>. DEFINE r == Resources(a)
    <3>1. Own(d) = evaluate_resources(r)
      BY <2>1 DEF Own, Evaluate
    <3>2. CASE \E m \in Mounts : ~(a.storage[m].ok /\ a.storage[m].blocks > 0)
      <4>1. PICK m \in Mounts : ~(a.storage[m].ok /\ a.storage[m].blocks > 0)
        BY <3>2
      <4>2. m \in DOMAIN r.storage /\ r.storage[m] = NoValue
        BY <4>1 DEF Resources, used_pct
      <4>. HIDE DEF r, a
      <4>3. Rank["unavailable"] <= Rank[Readings(r.storage, T.disk_used_warn, T.disk_used_crit)]
              /\ Readings(r.storage, T.disk_used_warn, T.disk_used_crit) \in Severities
        BY Zenon, <4>2, ReadingsParts
      <4>4. Rank[Readings(r.storage, T.disk_used_warn, T.disk_used_crit)] <= Rank[Own(d)]
              /\ Own(d) \in Severities
        BY <3>1, ResourcesParts
      <4>. HIDE DEF d
      <4>. QED BY <4>3, <4>4, Ranks
    <3>3. CASE enable_thermal /\ \E x \in DOMAIN a.thermal :
                                   ~(a.thermal[x].ok /\ a.thermal[x].degrees \in -40 .. 150)
      <4>1. PICK x \in DOMAIN a.thermal : ~(a.thermal[x].ok /\ a.thermal[x].degrees \in -40 .. 150)
        BY Zenon, <3>3
      <4>2. x \in DOMAIN r.thermal /\ r.thermal[x] = NoValue
        BY Zenon, <3>3, <4>1 DEF Resources, temp_c
      <4>. HIDE DEF r, a
      <4>3. Rank["unavailable"] <= Rank[Readings(r.thermal, T.temp_warn_c, T.temp_crit_c)]
              /\ Readings(r.thermal, T.temp_warn_c, T.temp_crit_c) \in Severities
        BY Zenon, <4>2, ReadingsParts
      <4>4. Rank[Readings(r.thermal, T.temp_warn_c, T.temp_crit_c)] <= Rank[Own(d)]
              /\ Own(d) \in Severities
        BY <3>1, ResourcesParts
      <4>. HIDE DEF d
      <4>. QED BY <4>3, <4>4, Ranks
    <3>. QED BY Zenon, <3>2, <3>3 DEF Sighted
  <2>3. /\ shown \in Severities /\ (~stale[d] => shown = Own(d)) /\ Own(d) \in Severities
        /\ stale[d] => Rank[Own(d)] <= Rank[shown] /\ 2 <= Rank[shown]
    BY <2>0, DomainSeverity, OwnSeverity
  <2>4. summary.severity \in Severities /\ Rank[shown] <= Rank[summary.severity]
    BY <2>0, OverallSeverity
  <2>. HIDE DEF d, a, shown
  <2>5. Rank[shown] >= 2
    BY <2>2, <2>3, Ranks
  <2>6. Rank[summary.severity] >= 2
    BY <2>3, <2>4, <2>5, Ranks
  <2>7. shown \notin {"ok", "unknown"} /\ summary.severity \notin {"ok", "unknown"}
    BY <2>5, <2>6, Ranks
  <2>. QED BY <2>0, <2>7 DEF degraded_domains, d, shown
<1>. QED BY <1>1, SnapshotAlways, PTL

\* What a domain shows, for the steps between two states
Shown ==
  \A d \in Domains :
    /\ Own(d) \in Severities
    /\ ~stale[d] => summary.domains[d] = Own(d)
    /\ stale[d] => /\ summary.domains[d] \in {Own(d), "stale", "unknown"}
                   /\ Rank[Own(d)] <= Rank[summary.domains[d]] /\ 2 <= Rank[summary.domains[d]]
                   /\ summary.domains[d] \in Severities

\* Whatever a cycle collects and fails to collect, no section looks better for
\* being older.
THEOREM AgeHealsNothing == SnapshotSpec => AgeNeverHeals
<1>1. SnapshotInv => Shown
  BY DomainSeverity, OwnSeverity DEF Shown
<1>. DEFINE NoBetter == \A d \in Domains :
              stale'[d] => Rank[summary'.domains[d]] >= Rank[summary.domains[d]]
<1>2. Shown /\ Shown' /\ [SnapshotNext]_snapshotVars => [NoBetter]_snapshotVars
  <2>. SUFFICES ASSUME Shown, Shown', Cycle, NEW d \in Domains, stale'[d]
                PROVE  Rank[summary'.domains[d]] >= Rank[summary.domains[d]]
    BY DEF SnapshotNext
  <2>1. PICK due, got, failing, late : collection_cycle(due, got, failing, late)
    BY Zenon DEF Cycle
  <2>2. section'[d] = section[d]
    BY Zenon, <2>1 DEF collection_cycle, mark_stale
  <2>3. Own(d)' = Own(d)
    BY Zenon, <2>2 DEF Own
  <2>4. Rank[Own(d)] <= Rank[summary'.domains[d]] /\ 2 <= Rank[summary'.domains[d]]
          /\ summary'.domains[d] \in Severities
    BY Zenon, <2>3 DEF Shown
  <2>5. summary.domains[d] \in {Own(d), "stale", "unknown"} /\ Own(d) \in Severities
    BY DEF Shown
  <2>. QED BY <2>4, <2>5, Ranks
<1>. QED BY <1>1, <1>2, SnapshotAlways, PTL DEF SnapshotSpec, AgeNeverHeals

\* For any sections and ages, the overall severity and the list of degraded
\* domains agree.
THEOREM SummaryIsConsistent == SnapshotSpec => []SummaryNamesDomains
<1>1. ASSUME SnapshotInv PROVE SummaryNamesDomains
  <2>. DEFINE S == {summary.domains[d] : d \in Domains}
              listed == degraded_domains(summary.domains)
  <2>1. \A d \in Domains : summary.domains[d] \in Severities
    BY <1>1, DomainSeverity
  <2>2. S \in SUBSET Severities
    BY <2>1
  <2>3. summary.severity = worst_of(S)
    BY DEF summary, aggregate, compute_overall
  <2>4. summary.severity \in S \cup {"unknown"} /\ summary.severity \in Severities
    <3>. HIDE DEF S
    <3>. QED BY Zenon, <2>2, <2>3, WorstOf
  <2>5. \A d \in Domains : Rank[summary.domains[d]] <= Rank[summary.severity]
    BY <1>1, OverallSeverity
  <2>6. CASE listed = {}
    <3>1. S \subseteq {"ok", "unknown"}
      BY <2>6 DEF degraded_domains
    <3>. QED BY <2>4, <2>6, <3>1 DEF SummaryNamesDomains
  <2>7. CASE listed # {}
    <3>1. PICK d \in Domains : summary.domains[d] \notin {"ok", "unknown"}
      BY <2>7 DEF degraded_domains
    <3>2. summary.severity \notin {"ok", "unknown"}
      <4>1. Rank[summary.domains[d]] \in Nat /\ ~(Rank[summary.domains[d]] <= 1)
              /\ Rank[summary.severity] \in Nat
        BY <2>1, <2>4, <3>1, Ranks, RankOrder
      <4>2. ~(Rank[summary.severity] <= 1)
        BY <2>5, <4>1
      <4>. QED BY <2>4, <4>2, RankOrder
    <3>3. PICK c \in Domains : summary.severity = summary.domains[c]
      BY <2>4, <3>2
    <3>4. c \in listed
      BY <3>2, <3>3 DEF degraded_domains
    <3>. QED BY Zenon, <2>7, <3>3, <3>4 DEF SummaryNamesDomains
  <2>. QED BY <2>6, <2>7
<1>. QED BY <1>1, SnapshotAlways, PTL
-----------------------------------------------------------------------------
(* The reasons.                                                            *)

\* The summary gives the reason n.
Gives(n) == \E r \in summary.reasons : r[1] = n

\* When each reason is given, in the order of generate_reasons
Reasons(n) ==
  LET res == section["resources"]
      crash == section["crash"]
      active == crash.panic_count > 0 /\ ~crash.acknowledged /\ crash.panic_current_boot
  IN  \/ n = "boot_failures" /\ section["boot"].boot_fail_count > 0
      \/ n = "svc_failed" /\ \E u \in DOMAIN section["services"].units :
                               section["services"].units[u].state = "failed"
      \/ n = "mem_used_high" /\ res.memory.mem_total_mb > 0 /\ mem_pct(res.memory) >= T.mem_used_warn
      \/ n = "disk_used_high" /\ \E m \in DOMAIN res.storage : res.storage[m] >= T.disk_used_warn
      \/ n = "temp_high" /\ \E x \in DOMAIN res.thermal : res.thermal[x] >= T.temp_warn_c
      \/ n = "time_unsynced" /\ section["time_sync"].source = "none"
      \/ n = "rtc_battery_low" /\ section["time_sync"].voltage_mv # NoValue
           /\ section["time_sync"].voltage_mv < T.rtc_voltage_warn_mv
      \/ n = "update_failed" /\ \E u \in section["update"].last_update : u.result = "failed"
      \/ n = "journal_errors" /\ section["journal"].overall \in {"warn", "crit"}
      \/ n = "kernel_panic_detected" /\ active
      \/ n = "historical_crash_artifacts" /\ crash.panic_count > 0 /\ ~active
      \/ n = "pstore_records_present" /\ crash.present

\* The name in a pair
LEMMA PairName == \A n, x : <<n, x>>[1] = n
OBVIOUS

\* generate_reasons gives just these.
LEMMA ReasonsGiven ==
  ASSUME NEW n
  PROVE  Gives(n) <=> Reasons(n)
<1>. DEFINE res == section["resources"]
            crash == section["crash"]
            active == crash.panic_count > 0 /\ ~crash.acknowledged /\ crash.panic_current_boot
            R1 == When(section["boot"].boot_fail_count > 0, "boot_failures")
            R2 == About("svc_failed", {u \in DOMAIN section["services"].units :
                                         section["services"].units[u].state = "failed"})
            R3 == When(/\ res.memory.mem_total_mb > 0
                       /\ mem_pct(res.memory) >= T.mem_used_warn, "mem_used_high")
            R4 == About("disk_used_high", {m \in DOMAIN res.storage : res.storage[m] >= T.disk_used_warn})
            R5 == About("temp_high", {x \in DOMAIN res.thermal : res.thermal[x] >= T.temp_warn_c})
            R6 == When(section["time_sync"].source = "none", "time_unsynced")
            R7 == When(/\ section["time_sync"].voltage_mv # NoValue
                       /\ section["time_sync"].voltage_mv < T.rtc_voltage_warn_mv, "rtc_battery_low")
            R8 == When(\E u \in section["update"].last_update : u.result = "failed", "update_failed")
            R9 == When(section["journal"].overall \in {"warn", "crit"}, "journal_errors")
            Ra == When(active, "kernel_panic_detected")
            Rb == When(crash.panic_count > 0 /\ ~active, "historical_crash_artifacts")
            Rc == When(crash.present, "pstore_records_present")
            Has(R) == \E r \in R : r[1] = n
<1>1. summary.reasons = UNION {R1, R2, R3, R4, R5, R6, R7, R8, R9, UNION {Ra, Rb, Rc}}
  BY DEF summary, aggregate, generate_reasons, crash_reasons
<1>2. Has(R1) <=> n = "boot_failures" /\ section["boot"].boot_fail_count > 0
  BY Zenon, PairName DEF When
<1>3. Has(R2) <=> n = "svc_failed" /\ \E u \in DOMAIN section["services"].units :
                               section["services"].units[u].state = "failed"
  BY Zenon, PairName DEF About
<1>4. Has(R3) <=> n = "mem_used_high" /\ res.memory.mem_total_mb > 0 /\ mem_pct(res.memory) >= T.mem_used_warn
  BY Zenon, PairName DEF When
<1>5. Has(R4) <=> n = "disk_used_high" /\ \E m \in DOMAIN res.storage : res.storage[m] >= T.disk_used_warn
  BY Zenon, PairName DEF About
<1>6. Has(R5) <=> n = "temp_high" /\ \E x \in DOMAIN res.thermal : res.thermal[x] >= T.temp_warn_c
  BY Zenon, PairName DEF About
<1>7. Has(R6) <=> n = "time_unsynced" /\ section["time_sync"].source = "none"
  BY Zenon, PairName DEF When
<1>8. Has(R7) <=> n = "rtc_battery_low" /\ section["time_sync"].voltage_mv # NoValue
           /\ section["time_sync"].voltage_mv < T.rtc_voltage_warn_mv
  BY Zenon, PairName DEF When
<1>9. Has(R8) <=> n = "update_failed" /\ \E u \in section["update"].last_update : u.result = "failed"
  BY Zenon, PairName DEF When
<1>10. Has(R9) <=> n = "journal_errors" /\ section["journal"].overall \in {"warn", "crit"}
  BY Zenon, PairName DEF When
<1>11. Has(Ra) <=> n = "kernel_panic_detected" /\ active
  BY Zenon, PairName DEF When
<1>12. Has(Rb) <=> n = "historical_crash_artifacts" /\ crash.panic_count > 0 /\ ~active
  BY Zenon, PairName DEF When
<1>13. Has(Rc) <=> n = "pstore_records_present" /\ crash.present
  BY Zenon, PairName DEF When
<1>14. Gives(n) <=> \/ Has(R1) \/ Has(R2) \/ Has(R3) \/ Has(R4) \/ Has(R5) \/ Has(R6) \/ Has(R7)
                    \/ Has(R8) \/ Has(R9) \/ Has(Ra) \/ Has(Rb) \/ Has(Rc)
  <2>. HIDE DEF R1, R2, R3, R4, R5, R6, R7, R8, R9, Ra, Rb, Rc
  <2>. QED BY <1>1 DEF Gives
<1>. HIDE DEF R1, R2, R3, R4, R5, R6, R7, R8, R9, Ra, Rb, Rc, Has
<1>. QED BY Zenon, <1>2, <1>3, <1>4, <1>5, <1>6, <1>7, <1>8, <1>9, <1>10, <1>11, <1>12, <1>13, <1>14
         DEF Reasons

\* The section of a domain before its first collection, and after
LEMMA SectionOf ==
  ASSUME SnapshotInv, NEW d \in Domains
  PROVE  /\ seen[d] = Never => section[d] = Default[d] /\ ~stale[d]
         /\ seen[d] # Never => AnswerOK(d, seen[d]) /\ section[d] = Collect(d, seen[d])
BY Zenon DEF SnapshotInv

\* The thresholds as numbers
LEMMA Thresholds ==
  /\ T.boot_fail_warn \in Int /\ T.boot_fail_crit \in Int
  /\ T.cpu_load_warn \in Int /\ T.cpu_load_crit \in Int /\ T.cpu_load_warn < T.cpu_load_crit
  /\ T.mem_used_warn \in Int /\ T.mem_used_crit \in Int /\ T.mem_used_warn < T.mem_used_crit
  /\ T.disk_used_warn \in Int /\ T.disk_used_crit \in Int /\ T.disk_used_warn < T.disk_used_crit
  /\ T.temp_warn_c \in Int /\ T.temp_crit_c \in Int /\ T.temp_warn_c < T.temp_crit_c
  /\ T.rtc_voltage_warn_mv \in Int /\ T.rtc_voltage_crit_mv \in Int
BY SnapshotAssumption

\* A section that was never collected is ok or unknown.
LEMMA DefaultOwn ==
  ASSUME SnapshotInv, Sensible, NEW d \in Domains, seen[d] = Never
  PROVE  Own(d) \in {"ok", "unknown"}
<1>0. section[d] = Default[d]
  BY Zenon, SectionOf
<1>1. CASE d = "boot"
  <2>1. section[d].boot_fail_count = 0 /\ section[d].boot_ok
    BY <1>0, <1>1 DEF Default
  <2>. QED BY <1>1, <2>1, Thresholds DEF Own, Evaluate, evaluate_boot, Sensible
<1>2. CASE d = "resources"
  <2>1. /\ section[d].cpu = 0 /\ section[d].memory.mem_total_mb = 0
        /\ section[d].storage = <<>> /\ section[d].thermal = <<>>
    BY <1>0, <1>2 DEF Default
  <2>2. Own(d) = evaluate_resources(section[d])
    BY <1>2 DEF Own, Evaluate
  <2>3. Level(section[d].cpu, T.cpu_load_warn, T.cpu_load_crit) = "ok"
    BY <2>1, Thresholds DEF Level, Sensible
  <2>4. evaluate_memory(section[d].memory) = "unknown"
    BY <2>1 DEF evaluate_memory
  <2>5. ASSUME NEW w, NEW c PROVE Readings(<<>>, w, c) \in {"ok", "unknown"}
    <3>1. {IF <<>>[x] = NoValue THEN "unavailable" ELSE Level(<<>>[x], w, c) : x \in DOMAIN <<>>} = {}
      OBVIOUS
    <3>2. Readings(<<>>, w, c) = worst_of({"ok"})
      BY <3>1 DEF Readings
    <3>3. {"ok"} \in SUBSET Severities
      BY DEF Severities
    <3>. QED BY <3>2, <3>3, WorstOf
  <2>6. Readings(section[d].storage, T.disk_used_warn, T.disk_used_crit) \in {"ok", "unknown"}
          /\ Readings(section[d].thermal, T.temp_warn_c, T.temp_crit_c) \in {"ok", "unknown"}
    BY Zenon, <2>1, <2>5
  <2>7. Own(d) \in {"unknown", Level(section[d].cpu, T.cpu_load_warn, T.cpu_load_crit),
                    evaluate_memory(section[d].memory),
                    Readings(section[d].storage, T.disk_used_warn, T.disk_used_crit),
                    Readings(section[d].thermal, T.temp_warn_c, T.temp_crit_c)}
    BY <2>2, ResourcesParts
  <2>. QED BY Zenon, <2>3, <2>4, <2>6, <2>7
<1>3. CASE d = "crash"
  <2>1. section[d].panic_count = 0
    BY <1>0, <1>3 DEF Default
  <2>. QED BY <1>3, <2>1 DEF Own, Evaluate, evaluate_crash
<1>4. CASE d \in {"services", "time_sync", "update", "journal"}
  <2>1. Own(d) = section[d].overall
    BY <1>4 DEF Own, Evaluate, evaluate_own
  <2>2. /\ Default["services"].overall = "unknown" /\ Default["time_sync"].overall = "unknown"
        /\ Default["update"].overall = "unknown" /\ Default["journal"].overall = "unknown"
    BY Zenon DEF Default
  <2>. QED BY Zenon, <1>0, <1>4, <2>1, <2>2
<1>. QED BY <1>1, <1>2, <1>3, <1>4 DEF Domains

\* With sensible thresholds nothing that was not collected yet counts against
\* the device, whatever else the system answers.
THEOREM WarmUpIsSafe == SnapshotSpec => []WarmUpSafe
<1>1. SnapshotInv => WarmUpSafe
  <2>. SUFFICES ASSUME SnapshotInv, Sensible, NEW d \in Domains, seen[d] = Never
                PROVE  /\ Rank[summary.domains[d]] <= Rank["ok"]
                       /\ d # "resources" \/ \A r \in summary.reasons :
                            r[1] \notin {"mem_used_high", "disk_used_high", "temp_high"}
    BY Zenon DEF WarmUpSafe
  <2>1. Rank[summary.domains[d]] <= Rank["ok"]
    <3>1. summary.domains[d] = Own(d)
      BY Zenon, SectionOf, DomainSeverity
    <3>2. Own(d) \in {"ok", "unknown"}
      BY Zenon, DefaultOwn
    <3>. QED BY <3>1, <3>2, Ranks
  <2>2. ASSUME d = "resources", NEW r \in summary.reasons,
               r[1] \in {"mem_used_high", "disk_used_high", "temp_high"}
        PROVE  FALSE
    <3>1. section["resources"] = Default["resources"]
      BY Zenon, <2>2, SectionOf
    <3>2. /\ section["resources"].memory.mem_total_mb = 0
          /\ section["resources"].storage = <<>> /\ section["resources"].thermal = <<>>
      BY <3>1 DEF Default
    <3>3. /\ ~(section["resources"].memory.mem_total_mb > 0)
          /\ DOMAIN section["resources"].storage = {} /\ DOMAIN section["resources"].thermal = {}
      BY <3>2
    <3>4. Reasons(r[1])
      BY Zenon, ReasonsGiven DEF Gives
    <3>. QED BY Zenon, <2>2, <3>3, <3>4 DEF Reasons
  <2>. QED BY Zenon, <2>1, <2>2
<1>. QED BY <1>1, SnapshotAlways, PTL

\* The names, one by one
LEMMA ReasonSets ==
  /\ ReasonsOf["boot"] = {"boot_failures"} /\ ReasonsOf["services"] = {"svc_failed"}
  /\ ReasonsOf["resources"] = {"mem_used_high", "disk_used_high", "temp_high"}
  /\ ReasonsOf["time_sync"] = {"time_unsynced", "rtc_battery_low"}
  /\ ReasonsOf["update"] = {"update_failed"} /\ ReasonsOf["journal"] = {"journal_errors"}
  /\ ReasonsOf["crash"] = {"kernel_panic_detected", "historical_crash_artifacts"}
BY DEF ReasonsOf

Bad(d) == Own(d) \in {"warn", "crit"}

\* The domain gives one of its reasons.
Named(d) == \E n \in ReasonsOf[d] : Reasons(n)

\* For every domain but resources: its reasons and its severity
LEMMA BootReasons ==
  ASSUME SnapshotInv, Sensible
  PROVE  Bad("boot") <=> Named("boot")
<1>0. "boot" \in Domains
  BY DEF Domains
<1>1. Named("boot") <=> section["boot"].boot_fail_count > 0
  BY Zenon, ReasonSets DEF Named, Reasons
<1>2. section["boot"].boot_fail_count \in Nat
        /\ (section["boot"].boot_ok <=> section["boot"].boot_fail_count = 0)
  <2>1. CASE seen["boot"] = Never
    <3>1. section["boot"] = Default["boot"]
      BY <1>0, <2>1, SectionOf
    <3>. QED BY <3>1 DEF Default
  <2>2. CASE seen["boot"] # Never
    <3>1. section["boot"] = Boot(seen["boot"]) /\ seen["boot"].failures \in Nat
      BY <1>0, <2>2, SectionOf DEF Collect, AnswerOK
    <3>2. section["boot"].boot_fail_count = seen["boot"].failures
      BY <3>1 DEF Boot
    <3>3. \A a : Boot(a).boot_ok <=> a.failures = 0
      BY Zenon DEF Boot
    <3>. QED BY Zenon, <3>1, <3>2, <3>3
  <2>. QED BY <2>1, <2>2
<1>3. Own("boot") = evaluate_boot(section["boot"])
  BY DEF Own, Evaluate
<1>. QED BY <1>1, <1>2, <1>3, Thresholds DEF Bad, evaluate_boot, Sensible

\* A failed unit is a reason, and the services are then critical.
LEMMA ServicesReasons ==
  ASSUME SnapshotInv
  PROVE  /\ Named("services") \/ Silent("services")
         /\ Named("services") => Bad("services")
<1>0. "services" \in Domains
  BY DEF Domains
<1>1. Named("services") <=> \E u \in DOMAIN section["services"].units :
                              section["services"].units[u].state = "failed"
  BY Zenon, ReasonSets DEF Named, Reasons
<1>2. Named("services") \/ Silent("services")
  BY Zenon, <1>1 DEF Silent
<1>3. Own("services") = section["services"].overall
  BY DEF Own, Evaluate, evaluate_own
<1>4. CASE seen["services"] = Never
  <2>1. section["services"] = Default["services"]
    BY Zenon, <1>0, <1>4, SectionOf
  <2>2. DOMAIN section["services"].units = {}
    BY <2>1 DEF Default
  <2>. QED BY Zenon, <1>1, <1>2, <2>2
<1>5. CASE seen["services"] # Never
  <2>1. section["services"] = Services(seen["services"])
    BY <1>0, <1>5, SectionOf DEF Collect
  <2>2. Named("services") => Own("services") = "crit"
    BY Zenon, <1>1, <1>3, <2>1, ServicesParts
  <2>. QED BY Zenon, <1>2, <2>2 DEF Bad
<1>. QED BY <1>4, <1>5

\* Time: unsynchronised, or the battery is low.
LEMMA TimeReasons ==
  ASSUME SnapshotInv, Sensible
  PROVE  /\ Bad("time_sync") => Named("time_sync")
         /\ Named("time_sync") => Bad("time_sync") \/ seen["time_sync"] = Never \/ ~enable_ntp
<1>. DEFINE d == "time_sync"
            sec == section["time_sync"]
<1>0. d \in Domains
  BY DEF Domains
<1>1. Named(d) <=> sec.source = "none" \/ (sec.voltage_mv # NoValue /\ sec.voltage_mv < T.rtc_voltage_warn_mv)
  BY Zenon, ReasonSets DEF Named, Reasons
<1>2. Own(d) = sec.overall
  BY DEF Own, Evaluate, evaluate_own
<1>3. CASE seen[d] = Never
  <2>1. sec = Default[d]
    BY Zenon, <1>0, <1>3, SectionOf
  <2>2. sec.overall = "unknown"
    BY <2>1 DEF Default
  <2>. QED BY <1>2, <1>3, <2>2 DEF Bad
<1>4. CASE seen[d] # Never
  <2>1. sec = TimeSync(seen[d]) /\ seen[d].voltage_mv \in Int
    BY <1>0, <1>4, SectionOf DEF Collect, AnswerOK
  <2>2. sec.overall = evaluate_sync_severity(sec.source, sec.voltage_mv) /\ sec.voltage_mv \in Int
    BY <2>1 DEF TimeSync, voltage_mv, NoValue
  <2>. HIDE DEF sec, d
  <2>. QED BY <1>1, <1>2, <2>2, Thresholds DEF Bad, evaluate_sync_severity, Sensible, d
<1>. QED BY <1>3, <1>4

\* Updates: the last one failed.
LEMMA UpdateReasons ==
  ASSUME SnapshotInv
  PROVE  Bad("update") <=> Named("update")
<1>0. "update" \in Domains
  BY DEF Domains
<1>1. Named("update") <=> \E u \in section["update"].last_update : u.result = "failed"
  BY Zenon, ReasonSets DEF Named, Reasons
<1>2. Own("update") = section["update"].overall
  BY DEF Own, Evaluate, evaluate_own
<1>3. CASE seen["update"] = Never
  <2>1. section["update"] = Default["update"]
    BY Zenon, <1>0, <1>3, SectionOf
  <2>2. Default["update"].overall = "unknown"
    BY Zenon DEF Default
  <2>3. Default["update"].last_update = {}
    BY Zenon DEF Default
  <2>. QED BY <1>1, <1>2, <2>1, <2>2, <2>3 DEF Bad
<1>4. CASE seen["update"] # Never
  <2>1. section["update"] = Update(seen["update"])
    BY <1>0, <1>4, SectionOf DEF Collect
  <2>2. Update(seen["update"]).overall \in {"warn", "crit"} <=>
          \E u \in Update(seen["update"]).last_update : u.result = "failed"
    BY DEF Update
  <2>. QED BY Zenon, <1>1, <1>2, <2>1, <2>2 DEF Bad
<1>. QED BY <1>3, <1>4

\* The journal's reason is its severity.
LEMMA JournalReasons == Bad("journal") <=> Named("journal")
<1>1. Named("journal") <=> section["journal"].overall \in {"warn", "crit"}
  BY Zenon, ReasonSets DEF Named, Reasons
<1>2. Own("journal") = section["journal"].overall
  BY DEF Own, Evaluate, evaluate_own
<1>. QED BY Zenon, <1>1, <1>2 DEF Bad

\* A panic has a reason, and unless it was acknowledged a severity.
LEMMA CrashReasons ==
  ASSUME SnapshotInv
  PROVE  /\ Bad("crash") => Named("crash")
         /\ Named("crash") => Bad("crash") \/ section["crash"].acknowledged
<1>0. "crash" \in Domains
  BY DEF Domains
<1>. DEFINE crash == section["crash"]
            active == crash.panic_count > 0 /\ ~crash.acknowledged /\ crash.panic_current_boot
<1>1. Named("crash") <=> active \/ (crash.panic_count > 0 /\ ~active)
  BY Zenon, ReasonSets DEF Named, Reasons
<1>2. Own("crash") = evaluate_crash(crash)
  BY DEF Own, Evaluate
<1>3. crash.panic_count \in Nat
  <2>1. CASE seen["crash"] = Never
    <3>1. crash = Default["crash"]
      BY Zenon, <1>0, <2>1, SectionOf
    <3>. QED BY <3>1 DEF Default
  <2>2. CASE seen["crash"] # Never
    BY <1>0, <2>2, SectionOf DEF Collect, AnswerOK
  <2>. QED BY <2>1, <2>2
<1>. QED BY <1>1, <1>2, <1>3 DEF Bad, evaluate_crash

\* The value of what has none is a number, and below every threshold.
LEMMA NoNumber == NoValue \in Int
BY SMT DEF NoValue

\* Resources: what is over its lower threshold, but for the load
LEMMA ResourcesReasons ==
  ASSUME SnapshotInv
  PROVE  /\ Bad("resources") => Named("resources") \/ Silent("resources")
         /\ Named("resources") => Bad("resources")
<1>. DEFINE d == "resources"
            sec == section["resources"]
            mem == sec.memory.mem_total_mb > 0 /\ mem_pct(sec.memory) >= T.mem_used_warn
            disk == \E m \in DOMAIN sec.storage : sec.storage[m] >= T.disk_used_warn
            temp == \E x \in DOMAIN sec.thermal : sec.thermal[x] >= T.temp_warn_c
            disks == Readings(sec.storage, T.disk_used_warn, T.disk_used_crit)
            temps == Readings(sec.thermal, T.temp_warn_c, T.temp_crit_c)
<1>0. d \in Domains
  BY DEF Domains
<1>1. Named(d) <=> mem \/ disk \/ temp
  BY Zenon, ReasonSets DEF Named, Reasons
<1>2. Own(d) = evaluate_resources(sec)
  BY DEF Own, Evaluate
<1>3. Silent(d) <=> Level(sec.cpu, T.cpu_load_warn, T.cpu_load_crit) # "ok"
  BY Zenon DEF Silent
<1>4. /\ sec.memory.mem_total_mb \in Nat /\ sec.memory.mem_used_mb \in Nat
      /\ \A m \in DOMAIN sec.storage : sec.storage[m] \in Int
      /\ \A x \in DOMAIN sec.thermal : sec.thermal[x] \in Int
  <2>1. CASE seen[d] = Never
    <3>1. sec = Default[d]
      BY Zenon, <1>0, <2>1, SectionOf
    <3>2. /\ Default[d].memory.mem_total_mb = 0 /\ Default[d].memory.mem_used_mb = 0
          /\ Default[d].storage = <<>> /\ Default[d].thermal = <<>>
      BY Zenon DEF Default
    <3>. HIDE DEF sec
    <3>. QED BY <3>1, <3>2
  <2>2. CASE seen[d] # Never
    <3>. DEFINE a == seen["resources"]
    <3>1. sec = Resources(a) /\ AnswerOK(d, a)
      BY <1>0, <2>2, SectionOf DEF Collect
    <3>2. /\ a.memory.total_kb \in Nat /\ a.memory.available_kb \in Nat
          /\ \A m \in Mounts : a.storage[m].blocks \in Nat /\ a.storage[m].bfree \in Nat
          /\ \A x \in DOMAIN a.thermal : a.thermal[x].degrees \in Int
      BY <3>1 DEF AnswerOK
    <3>. HIDE DEF a, sec
    <3>3. sec.memory.mem_total_mb \in Nat /\ sec.memory.mem_used_mb \in Nat
      BY <3>1, <3>2 DEF Resources, Memory
    <3>4. \A m \in DOMAIN sec.storage : sec.storage[m] \in Int
      <4>1. \A m \in Mounts : used_pct(a.storage[m]) \in Int
        BY SMT, <3>2, NoNumber DEF used_pct
      <4>2. sec.storage = [m \in Mounts |-> used_pct(a.storage[m])]
        BY <3>1 DEF Resources
      <4>. QED BY <4>1, <4>2
    <3>5. \A x \in DOMAIN sec.thermal : sec.thermal[x] \in Int
      <4>1. \A x \in DOMAIN a.thermal : temp_c(a.thermal[x]) \in Int
        BY Zenon, <3>2, NoNumber DEF temp_c
      <4>2. sec.thermal = IF enable_thermal THEN [x \in DOMAIN a.thermal |-> temp_c(a.thermal[x])]
                          ELSE <<>>
        BY <3>1 DEF Resources
      <4>. QED BY <4>1, <4>2
    <3>. QED BY <3>3, <3>4, <3>5
  <2>. QED BY <2>1, <2>2
<1>5. evaluate_memory(sec.memory) \in {"warn", "crit"} <=> mem
  <2>1. sec.memory.mem_total_mb > 0 => mem_pct(sec.memory) \in Int
    BY <1>4 DEF mem_pct
  <2>. HIDE DEF sec
  <2>. QED BY <1>4, <2>1, Thresholds DEF evaluate_memory, Level
<1>6. ASSUME NEW v, NEW w \in Int, NEW c \in Int, w < c, NoValue < w,
             \A x \in DOMAIN v : v[x] \in Int
      PROVE  Readings(v, w, c) \in {"warn", "crit"} <=> \E x \in DOMAIN v : v[x] >= w
  <2>1. ASSUME Readings(v, w, c) \in {"warn", "crit"} PROVE \E x \in DOMAIN v : v[x] >= w
    <3>1. PICK x \in DOMAIN v : Level(v[x], w, c) # "ok"
      BY Zenon, <2>1, ReadingsParts
    <3>. QED BY <1>6, <3>1, LevelBounds
  <2>2. ASSUME NEW x \in DOMAIN v, v[x] >= w PROVE Readings(v, w, c) \in {"warn", "crit"}
    <3>1. v[x] # NoValue /\ Level(v[x], w, c) \in {"warn", "crit"}
      BY <1>6, <2>2, LevelBounds, Levels, NoNumber
    <3>2. Rank[Level(v[x], w, c)] <= Rank[Readings(v, w, c)] /\ Readings(v, w, c) \in Severities
      BY Zenon, <3>1, ReadingsParts
    <3>. QED BY <3>1, <3>2, Ranks, RankOrder
  <2>. QED BY <2>1, <2>2
<1>7. /\ disks \in {"warn", "crit"} <=> disk
      /\ temps \in {"warn", "crit"} <=> temp
  BY <1>4, <1>6, Thresholds, SnapshotAssumption
<1>8. /\ Own(d) \in Severities
      /\ Own(d) \in {"unknown", Level(sec.cpu, T.cpu_load_warn, T.cpu_load_crit),
                     evaluate_memory(sec.memory), disks, temps}
      /\ \A s \in {evaluate_memory(sec.memory), disks, temps} : s \in Severities /\ Rank[s] <= Rank[Own(d)]
  BY <1>2, ResourcesParts
<1>. HIDE DEF d, sec, mem, disk, temp, disks, temps
<1>9. Bad(d) => mem \/ disk \/ temp \/ Level(sec.cpu, T.cpu_load_warn, T.cpu_load_crit) # "ok"
  BY <1>5, <1>7, <1>8 DEF Bad
<1>10. ASSUME mem \/ disk \/ temp PROVE Bad(d)
  <2>1. PICK s \in Severities : s \in {"warn", "crit"} /\ Rank[s] <= Rank[Own(d)]
    BY <1>5, <1>7, <1>8, <1>10
  <2>2. Own(d) \in Severities
    BY Zenon, <1>8
  <2>3. Rank[s] \in Nat /\ Rank[Own(d)] \in Nat
    BY Zenon, <2>2, Ranks
  <2>4. Rank[s] >= 4
    BY Zenon, <2>1, RankOrder
  <2>5. Rank[Own(d)] >= 4
    BY <2>1, <2>3, <2>4
  <2>. QED BY Zenon, <2>2, <2>5, RankOrder DEF Bad
<1>. QED BY Zenon, <1>1, <1>3, <1>9, <1>10 DEF d

\* For sensible thresholds and any answers, the reasons explain the severities:
\* nothing is at warn or crit without one, but for what generate_reasons has no
\* word for, and no reason is given for a domain that is well.
THEOREM ReasonsExplain == SnapshotSpec => []ReasonsNameDrivers
<1>1. SnapshotInv => ReasonsNameDrivers
  <2>. DEFINE named(d) == \E r \in summary.reasons : r[1] \in ReasonsOf[d]
  <2>. SUFFICES ASSUME SnapshotInv, Sensible, NEW d \in Domains
                PROVE  /\ summary.domains[d] \in {"warn", "crit"} => named(d) \/ Silent(d)
                       /\ named(d) => \/ summary.domains[d] \in {"warn", "crit"}
                                      \/ d = "time_sync" /\ (seen[d] = Never \/ ~enable_ntp)
                                      \/ d = "crash" /\ section[d].acknowledged
    BY Zenon DEF ReasonsNameDrivers
  <2>1. named(d) <=> Named(d)
    BY Zenon, ReasonsGiven DEF Named, Gives
  <2>2. summary.domains[d] \in {"warn", "crit"} <=> Bad(d)
    <3>1. /\ summary.domains[d] \in Severities /\ Own(d) \in Severities
          /\ ~stale[d] => summary.domains[d] = Own(d)
          /\ stale[d] => summary.domains[d] \in {Own(d), "stale", "unknown"}
                           /\ Rank[Own(d)] <= Rank[summary.domains[d]]
      BY Zenon, DomainSeverity, OwnSeverity
    <3>. QED BY <3>1, Ranks, RankOrder DEF Bad
  <2>3. Bad(d) => Named(d) \/ Silent(d)
    BY Zenon, BootReasons, ServicesReasons, ResourcesReasons, TimeReasons, UpdateReasons,
       JournalReasons, CrashReasons DEF Domains
  <2>4. Named(d) => \/ Bad(d)
                    \/ d = "time_sync" /\ (seen[d] = Never \/ ~enable_ntp)
                    \/ d = "crash" /\ section[d].acknowledged
    BY Zenon, BootReasons, ServicesReasons, ResourcesReasons, TimeReasons, UpdateReasons,
       JournalReasons, CrashReasons DEF Domains
  <2>. QED BY Zenon, <2>1, <2>2, <2>3, <2>4
<1>. QED BY <1>1, SnapshotAlways, PTL
=============================================================================
