---------------------------- MODULE StartupProofs ----------------------------
(***************************************************************************)
(* What Startup says of the configuration, for any configuration files,    *)
(* any command lines and any number of starts.                             *)
(***************************************************************************)
EXTENDS Startup, TLAPS

\* A value of a configuration that is read back as it was printed.
Stable(k, v) ==
  IF v = Absent THEN defaults[k] = Absent ELSE ~Throws(k, v) /\ Get(k, v) = v

\* What can be read from the file is stable.
Readable(f) ==
  \A k \in Keys : f.keys[k] # Absent /\ ~Throws(k, f.keys[k]) => Stable(k, Get(k, f.keys[k]))

StableConfig(c) == \A k \in Keys : Stable(k, c[k])

\* In the middle of load: the keys before the next one have been read and have
\* their values, the others their defaults.
HalfRead ==
  /\ conf_file.there /\ conf_file.parses
  /\ unread \subseteq {k \in Keys : conf_file.keys[k] # Absent}
  /\ loading = [k \in Keys |-> IF k \in unread \/ conf_file.keys[k] = Absent THEN defaults[k]
                              ELSE Get(k, conf_file.keys[k])]
  /\ \A k \in Keys \ unread : conf_file.keys[k] # Absent => ~Throws(k, conf_file.keys[k])

\* What main makes of the file
Read == IF Loadable(conf_file) THEN Described(conf_file) ELSE defaults

\* Before load returns main has its defaults; then the configuration follows
\* from the file and the command line, and is stable.  Only a bad one is
\* rejected, and only a good one printed.
StartInv ==
  /\ Readable(conf_file)
  /\ StableConfig(config)
  /\ \A c \in dumped : StableConfig(c) /\ validate(c)
  /\ mpc = "reading" => HalfRead /\ ~args.help
  /\ Undecided => config = Constructed /\ warned = FALSE
  /\ ~Undecided => config = Effective(Read, args) /\ warned = ~Loadable(conf_file)
  /\ rejected => ~validate(config) /\ mpc \notin {"start", "reading"}
-----------------------------------------------------------------------------
\* The keys, one by one
LEMMA KeyNames ==
  Keys = {"snapshot_file", "collect_interval_sec", "trigger_min_interval_sec", "enable_ntp",
          "log_level", "min_priority", "window_sec", "buffer_max_entries", "cpu_load_warn",
          "cpu_load_crit", "service_restart_warn", "service_restart_crit"}
BY DEF Keys, defaults

\* A name of a priority is a number that is one.
LEMMA Priorities ==
  \A s \in DOMAIN priority_from_string : priority_from_string[s] \in 0 .. 7
BY DEF priority_from_string

\* A small number is not narrowed.
LEMMA NarrowSmall ==
  ASSUME NEW k, NEW n \in Nat, n < 256, k # "window_sec"
  PROVE  Narrow(k, n) = n
<1>. DEFINE h == Mod32 \div 2
<1>1. h \in Nat /\ n + h \in Nat /\ n + h < Mod32 /\ n < Mod32 /\ Mod32 \in Nat
  BY WidthAssumption
<1>2. \A i, m \in Nat : i < m => i % m = i
  OBVIOUS
<1>3. n % Mod32 = n /\ (n + h) % Mod32 = n + h /\ n % 256 = n
  BY <1>1, <1>2
<1>4. (n + h) - h = n
  BY <1>1
<1>. HIDE DEF h
<1>5. ((n + Mod32 \div 2) % Mod32) - (Mod32 \div 2) = n
  BY <1>3, <1>4 DEF h
<1>. QED BY <1>3, <1>5 DEF Narrow

\* Narrowing twice is narrowing once.
LEMMA NarrowTwice ==
  ASSUME NEW k, NEW n \in Int
  PROVE  Narrow(k, n) \in Int /\ Narrow(k, Narrow(k, n)) = Narrow(k, n)
<1>1. \A i \in Int, m \in Nat : m > 0 => i % m \in 0 .. m - 1
  OBVIOUS
<1>2. \A i \in Nat, m \in Nat : i < m => i % m = i
  OBVIOUS
<1>3. \A i \in Int, m \in Nat : m > 0 => i % m \in Int /\ (i % m) % m = i % m
  BY <1>1, <1>2
<1>4. CASE k \in {"cpu_load_warn", "cpu_load_crit"}
  BY <1>3, <1>4 DEF Narrow
<1>5. CASE k \in {"buffer_max_entries", "service_restart_warn", "service_restart_crit"}
  BY <1>3, <1>5, WidthAssumption DEF Narrow
<1>6. CASE k = "window_sec"
  BY <1>3, <1>6, WidthAssumption DEF Narrow
<1>7. CASE k \notin {"cpu_load_warn", "cpu_load_crit", "buffer_max_entries", "service_restart_warn",
                     "service_restart_crit", "window_sec"}
  <2>. DEFINE h == Mod32 \div 2
              q == (n + h) % Mod32
  <2>1. h \in Int /\ n + h \in Int /\ Mod32 \in Nat /\ Mod32 > 0
    BY WidthAssumption
  <2>2. q \in Int /\ q % Mod32 = q
    BY Zenon, <2>1, <1>3
  <2>3. \A i \in Int : Narrow(k, i) = ((i + h) % Mod32) - h
    BY <1>7 DEF Narrow
  <2>. HIDE DEF q, h
  <2>4. Narrow(k, n) = q - h
    BY <2>3 DEF q
  <2>5. q - h \in Int /\ (q - h) + h = q
    BY <2>1, <2>2
  <2>6. Narrow(k, q - h) = q - h
    BY <2>2, <2>3, <2>5
  <2>. QED BY Zenon, <2>4, <2>5, <2>6
<1>. QED BY Zenon, <1>4, <1>5, <1>6, <1>7

\* The defaults are stable.
LEMMA DefaultsStable == StableConfig(defaults)
<1>. SUFFICES ASSUME NEW k \in Keys PROVE Stable(k, defaults[k])
  BY DEF StableConfig
<1>1. Lower["info"] = "info"
  BY StartupAssumption
<1>2. ASSUME NEW n \in Nat, Narrow(k, n) = n, defaults[k] = Num(n), k # "window_sec",
             k # "snapshot_file", k # "enable_ntp", k # "log_level", k # "min_priority"
      PROVE  Stable(k, defaults[k])
  BY <1>2 DEF Stable, Throws, Get, Num, Absent
<1>4. /\ defaults["collect_interval_sec"] = Num(60) /\ defaults["trigger_min_interval_sec"] = Num(5)
      /\ defaults["cpu_load_warn"] = Num(80) /\ defaults["cpu_load_crit"] = Num(95)
      /\ defaults["service_restart_warn"] = Num(3) /\ defaults["service_restart_crit"] = Num(10)
      /\ defaults["buffer_max_entries"] = Num(1000)
  BY DEF defaults
<1>5. /\ Narrow(k, 60) = 60 \/ k = "window_sec"
      /\ Narrow(k, 5) = 5 \/ k = "window_sec"
      /\ Narrow(k, 80) = 80 \/ k = "window_sec"
      /\ Narrow(k, 95) = 95 \/ k = "window_sec"
      /\ Narrow(k, 3) = 3 \/ k = "window_sec"
      /\ Narrow(k, 10) = 10 \/ k = "window_sec"
  BY NarrowSmall
<1>6. Narrow("buffer_max_entries", 1000) = 1000
  <2>1. 1000 \in Nat /\ 1000 < Mod32 /\ Mod32 \in Nat
    BY WidthAssumption
  <2>2. \A i, m \in Nat : i < m => i % m = i
    OBVIOUS
  <2>. QED BY <2>1, <2>2 DEF Narrow
<1>7. CASE k \in {"collect_interval_sec", "trigger_min_interval_sec", "buffer_max_entries",
                  "cpu_load_warn", "cpu_load_crit", "service_restart_warn", "service_restart_crit"}
  BY <1>2, <1>4, <1>5, <1>6, <1>7
<1>3. CASE k \in {"snapshot_file", "enable_ntp", "log_level", "min_priority", "window_sec"}
  BY <1>1, <1>3 DEF Stable, defaults, Throws, Get, Num, Str, Bool, Absent
<1>. QED BY <1>3, <1>7, KeyNames

\* load takes a value that it does not refuse to one that it reads back as it is.
LEMMA GetStable ==
  ASSUME NEW k \in Keys, NEW v, JsonValue(v), ~Throws(k, v)
  PROVE  Stable(k, Get(k, v))
<1>1. CASE k \in {"snapshot_file", "enable_ntp"}
  <2>1. v # Absent
    BY DEF JsonValue, Num, Str, Bool, Absent, Other
  <2>2. Get(k, v) = v
    BY <1>1 DEF JsonValue, Throws, Get, Num, Str, Bool, Other
  <2>. QED BY Zenon, <2>1, <2>2 DEF Stable
<1>2. CASE k = "log_level"
  <2>1. PICK s \in DOMAIN Lower : v = Str(s)
    BY <1>2 DEF JsonValue, Throws, Num, Str, Bool, Other
  <2>2. Lower[Lower[s]] = Lower[s]
    BY StartupAssumption
  <2>. QED BY <1>2, <2>1, <2>2 DEF Stable, Throws, Get, Str, Absent
<1>3. CASE k = "min_priority"
  <2>1. Get(k, v) = Absent \/ \E n \in 0 .. 7 : Get(k, v) = Num(n)
    BY <1>3, Priorities DEF JsonValue, Get, defaults, Num, Str, Bool, Other
  <2>2. Stable(k, Absent)
    BY <1>3 DEF Stable, defaults, Absent
  <2>3. ASSUME NEW n \in 0 .. 7 PROVE Stable(k, Num(n))
    <3>1. Narrow(k, n) = n
      BY <1>3, NarrowSmall
    <3>. QED BY <1>3, <3>1 DEF Stable, Throws, Get, defaults, Num, Absent
  <2>. QED BY Zenon, <2>1, <2>2, <2>3
<1>4. CASE k \in {"collect_interval_sec", "trigger_min_interval_sec", "window_sec",
                  "buffer_max_entries", "cpu_load_warn", "cpu_load_crit",
                  "service_restart_warn", "service_restart_crit"}
  <2>1. PICK n \in Int : Get(k, v) = Num(n) /\ Narrow(k, n) = n
    <3>1. CASE v[1] = "num"
      <4>1. v[2] \in Int
        BY <3>1 DEF JsonValue, Num, Str, Bool, Other
      <4>2. Get(k, v) = Num(Narrow(k, v[2]))
        BY <1>4, <3>1 DEF Get
      <4>. QED BY Zenon, <4>1, <4>2, NarrowTwice
    <3>2. CASE v[1] = "bool"
      <4>1. k # "window_sec"
        BY <3>2 DEF Throws
      <4>2. PICK n \in {0, 1} : Get(k, v) = Num(n)
        BY <1>4, <3>2, <4>1 DEF Get
      <4>3. Narrow(k, n) = n
        BY <4>1, NarrowSmall
      <4>. QED BY <4>2, <4>3
    <3>. QED BY <1>4, <3>1, <3>2 DEF Throws
  <2>2. Stable(k, Num(n))
    BY <1>4, <2>1 DEF Stable, Throws, Get, Num, Absent
  <2>. QED BY Zenon, <2>1, <2>2
<1>. QED BY <1>1, <1>2, <1>3, <1>4, KeyNames

\* --verbose changes nothing that is read, but the level.
LEMMA EffectiveKeys ==
  ASSUME NEW c, NEW a, NEW k \in Keys
  PROVE  Effective(c, a)[k] = IF k = "log_level" /\ a.verbose THEN Str("debug") ELSE c[k]
<1>1. k # "verbose" /\ k \in Keys \cup {"verbose"}
  BY KeyNames
<1>. QED BY <1>1 DEF Effective

\* The command line keeps a configuration stable ...
LEMMA EffectiveStable ==
  ASSUME NEW c, NEW a, StableConfig(c)
  PROVE  StableConfig(Effective(c, a))
<1>. SUFFICES ASSUME NEW k \in Keys PROVE Stable(k, Effective(c, a)[k])
  BY DEF StableConfig
<1>1. Stable(k, c[k])
  BY DEF StableConfig
<1>2. Stable("log_level", Str("debug"))
  <2>1. Lower["debug"] = "debug"
    BY StartupAssumption
  <2>. QED BY <2>1 DEF Stable, Throws, Get, Str, Absent
<1>. QED BY Zenon, <1>1, <1>2, EffectiveKeys

\* ... and a valid one valid.
LEMMA EffectiveValid ==
  ASSUME NEW c, NEW a, validate(c)
  PROVE  validate(Effective(c, a))
<1>1. \A k \in Keys : Effective(c, a)[k] = IF k = "log_level" /\ a.verbose THEN Str("debug") ELSE c[k]
  BY Zenon, EffectiveKeys
<1>2. Effective(c, a).log_level[2] \in {"debug", c.log_level[2]}
  BY <1>1, KeyNames DEF Str
<1>. QED BY <1>1, <1>2, KeyNames DEF validate

\* Configurations that agree on the keys are the same to main.
LEMMA EffectiveSame ==
  ASSUME NEW c, NEW d, NEW a, \A k \in Keys : c[k] = d[k]
  PROVE  Effective(c, a) = Effective(d, a)
<1>. DEFINE E(x) == [k \in Keys \cup {"verbose"} |->
                       CASE k = "verbose" -> Bool(a.verbose)
                         [] k = "log_level" /\ a.verbose -> Str("debug")
                         [] OTHER -> x[k]]
<1>1. ASSUME NEW k \in Keys \cup {"verbose"} PROVE E(c)[k] = E(d)[k]
  BY <1>1
<1>2. E(c) = E(d)
  BY <1>1
<1>. QED BY <1>2 DEF Effective

\* What main makes of the file is stable.
LEMMA ReadStable ==
  ASSUME Readable(conf_file)
  PROVE  StableConfig(Read)
<1>1. CASE ~Loadable(conf_file)
  BY Zenon, <1>1, DefaultsStable DEF Read
<1>2. CASE Loadable(conf_file)
  <2>. SUFFICES ASSUME NEW k \in Keys PROVE Stable(k, Read[k])
    BY DEF StableConfig
  <2>1. Read[k] = IF conf_file.keys[k] = Absent THEN defaults[k] ELSE Get(k, conf_file.keys[k])
    BY <1>2 DEF Read, Described
  <2>2. conf_file.keys[k] # Absent => Stable(k, Get(k, conf_file.keys[k]))
    BY Zenon, <1>2 DEF Readable, Loadable
  <2>3. Stable(k, defaults[k])
    BY Zenon, DefaultsStable DEF StableConfig
  <2>. QED BY Zenon, <2>1, <2>2, <2>3
<1>. QED BY <1>1, <1>2

\* What was printed can be read.
LEMMA PrintedReadable ==
  ASSUME NEW c, StableConfig(c)
  PROVE  Readable(to_json_string(c))
<1>. SUFFICES ASSUME NEW k \in Keys, c[k] # Absent PROVE Stable(k, Get(k, c[k]))
  BY DEF Readable, to_json_string
<1>1. Stable(k, c[k])
  BY Zenon DEF StableConfig
<1>. QED BY Zenon, <1>1 DEF Stable

\* A start from what was printed reads just that.
LEMMA PrintedIsRead ==
  ASSUME NEW c, StableConfig(c), conf_file = to_json_string(c)
  PROVE  Loadable(conf_file) /\ \A k \in Keys : Read[k] = c[k]
<1>1. conf_file.there /\ conf_file.parses /\ \A k \in Keys : conf_file.keys[k] = c[k]
  BY DEF to_json_string
<1>2. \A k \in Keys : IF c[k] = Absent THEN defaults[k] = Absent
                      ELSE ~Throws(k, c[k]) /\ Get(k, c[k]) = c[k]
  BY Zenon DEF StableConfig, Stable
<1>3. Loadable(conf_file)
  BY Zenon, <1>1, <1>2 DEF Loadable
<1>4. ASSUME NEW k \in Keys PROVE Read[k] = c[k]
  <2>1. Read[k] = IF conf_file.keys[k] = Absent THEN defaults[k] ELSE Get(k, conf_file.keys[k])
    BY <1>3 DEF Read, Described
  <2>. QED BY Zenon, <1>1, <1>2, <2>1
<1>. QED BY <1>3, <1>4
-----------------------------------------------------------------------------
\* The invariant holds at the first start ...
LEMMA StartInitially == StartupInit => StartInv
<1>. SUFFICES ASSUME StartupInit PROVE StartInv
  OBVIOUS
<1>1. conf_file \in Files /\ mpc = "start" /\ config = Constructed
        /\ warned = FALSE /\ rejected = FALSE /\ dumped = {}
  BY DEF StartupInit
<1>2. Readable(conf_file)
  BY Zenon, <1>1, StartupAssumption, GetStable DEF Readable
<1>3. StableConfig(config)
  BY Zenon, <1>1, DefaultsStable, EffectiveStable DEF Constructed
<1>. QED BY <1>1, <1>2, <1>3 DEF StartInv, Undecided

\* ... before a key is read and after it ...
LEMMA ReadKeyStep ==
  ASSUME HalfRead, NEW k \in unread, ~Throws(k, conf_file.keys[k]), UNCHANGED conf_file,
         loading' = [loading EXCEPT ![k] = Get(k, conf_file.keys[k])], unread' = unread \ {k}
  PROVE  HalfRead'
<1>1. /\ k \in Keys /\ conf_file.keys[k] # Absent
      /\ unread' \subseteq {j \in Keys : conf_file.keys[j] # Absent}
  BY DEF HalfRead
<1>2. loading' = [j \in Keys |-> IF j \in unread' \/ conf_file.keys[j] = Absent THEN defaults[j]
                                ELSE Get(j, conf_file.keys[j])]
  BY Zenon, <1>1 DEF HalfRead
<1>3. \A j \in Keys \ unread' : conf_file.keys[j] # Absent => ~Throws(j, conf_file.keys[j])
  BY Zenon DEF HalfRead
<1>. QED BY Zenon, <1>1, <1>2, <1>3 DEF HalfRead

\* ... and every step keeps it.
LEMMA StartStep == StartInv /\ [StartupNext]_startupVars => StartInv'
<1>. SUFFICES ASSUME StartInv, [StartupNext]_startupVars PROVE StartInv'
  OBVIOUS
<1>0. /\ Readable(conf_file) /\ StableConfig(config)
      /\ \A c \in dumped : StableConfig(c) /\ validate(c)
      /\ mpc = "reading" => HalfRead /\ ~args.help
      /\ Undecided => config = Constructed /\ warned = FALSE
      /\ ~Undecided => config = Effective(Read, args) /\ warned = ~Loadable(conf_file)
      /\ rejected => ~validate(config) /\ mpc \notin {"start", "reading"}
  BY DEF StartInv
\* main takes a configuration
<1>1. ASSUME UNCHANGED <<conf_file, args, rejected, dumped>>, mpc \in {"start", "reading"},
             mpc' = "loaded", config' = Effective(Read, args), warned' = ~Loadable(conf_file),
             ~args.help
      PROVE  StartInv'
  <2>1. Read' = Read /\ Loadable(conf_file') = Loadable(conf_file)
    BY Zenon, <1>1 DEF Read
  <2>2. StableConfig(config')
    BY Zenon, <1>0, <1>1, ReadStable, EffectiveStable
  <2>3. ~Undecided' /\ ~rejected' /\ mpc' # "reading"
    BY Zenon, <1>0, <1>1 DEF Undecided
  <2>. QED BY Zenon, <1>0, <1>1, <2>1, <2>2, <2>3 DEF StartInv
\* or has none yet
<1>2. ASSUME UNCHANGED <<conf_file, args, rejected, dumped, config, warned>>,
             mpc \in {"start", "reading"}, Undecided', mpc' = "reading" => HalfRead' /\ ~args.help
      PROVE  StartInv'
  <2>1. Undecided /\ ~rejected
    BY Zenon, <1>0, <1>2 DEF Undecided
  <2>. QED BY Zenon, <1>0, <1>2, <2>1 DEF StartInv
<1>3. CASE LoadConfig
  <2>1. UNCHANGED <<conf_file, args, rejected, dumped>> /\ mpc = "start"
    BY <1>3 DEF LoadConfig
  <2>2. CASE args.help /\ mpc' = "done" /\ UNCHANGED <<config, loading, unread, warned>>
    BY <1>2, <2>1, <2>2 DEF Undecided
  <2>3. CASE ~args.help /\ ~(conf_file.there /\ conf_file.parses) /\ UseDefaults
    <3>1. ~Loadable(conf_file) /\ Read = defaults
      BY Zenon, <2>3 DEF Loadable, Read
    <3>. QED BY Zenon, <1>1, <2>1, <2>3, <3>1 DEF UseDefaults
  <2>4. CASE /\ ~args.help /\ conf_file.there /\ conf_file.parses
             /\ mpc' = "reading"
             /\ loading' = defaults /\ unread' = {k \in Keys : conf_file.keys[k] # Absent}
             /\ UNCHANGED <<config, warned>>
    <3>1. loading' = [k \in Keys |-> IF k \in unread' \/ conf_file.keys[k] = Absent THEN defaults[k]
                                    ELSE Get(k, conf_file.keys[k])]
      BY <2>4 DEF Keys, defaults
    <3>2. HalfRead'
      BY Zenon, <2>1, <2>4, <3>1 DEF HalfRead
    <3>. QED BY <1>2, <2>1, <2>4, <3>2 DEF Undecided
  <2>. QED BY Zenon, <1>3, <2>2, <2>3, <2>4 DEF LoadConfig
<1>4. CASE load
  <2>1. UNCHANGED <<conf_file, args, rejected, dumped>> /\ mpc = "reading" /\ HalfRead /\ ~args.help
    BY Zenon, <1>0, <1>4 DEF load
  <2>2. ASSUME NEW k \in unread, Throws(k, conf_file.keys[k]), UseDefaults
        PROVE  StartInv'
    <3>1. k \in Keys /\ conf_file.keys[k] # Absent
      BY <2>1 DEF HalfRead
    <3>2. ~Loadable(conf_file) /\ Read = defaults
      BY Zenon, <2>2, <3>1 DEF Loadable, Read
    <3>. QED BY Zenon, <1>1, <2>1, <2>2, <3>2 DEF UseDefaults
  <2>3. ASSUME NEW k \in unread, ~Throws(k, conf_file.keys[k]),
               loading' = [loading EXCEPT ![k] = Get(k, conf_file.keys[k])],
               unread' = unread \ {k}, UNCHANGED <<mpc, config, warned>>
        PROVE  StartInv'
    <3>1. HalfRead'
      BY Zenon, <2>1, <2>3, ReadKeyStep
    <3>. QED BY <1>2, <2>1, <2>3, <3>1 DEF Undecided
  <2>. QED BY Zenon, <1>4, <2>2, <2>3 DEF load
<1>5. CASE LoadReturns
  <2>1. /\ UNCHANGED <<conf_file, args, warned, rejected, dumped>> /\ mpc = "reading" /\ unread = {}
        /\ mpc' = "loaded" /\ config' = Effective(loading, args)
    BY <1>5 DEF LoadReturns
  <2>2. HalfRead /\ ~args.help /\ Undecided /\ warned = FALSE
    BY Zenon, <1>0, <2>1 DEF Undecided
  <2>3. Loadable(conf_file)
    BY <2>1, <2>2 DEF HalfRead, Loadable
  <2>4. loading = Described(conf_file)
    BY <2>1, <2>2 DEF HalfRead, Described
  <2>5. Read = loading
    BY Zenon, <2>3, <2>4 DEF Read
  <2>. QED BY Zenon, <1>1, <2>1, <2>2, <2>3, <2>5
<1>6. CASE Validate
  <2>1. /\ UNCHANGED <<conf_file, args, config, warned>>
        /\ mpc \notin {"start", "reading"} /\ mpc' \notin {"start", "reading"}
    BY <1>6 DEF Validate
  <2>2. Read' = Read /\ Loadable(conf_file') = Loadable(conf_file) /\ Undecided' = Undecided
    BY Zenon, <2>1 DEF Read, Undecided
  <2>3. \A c \in dumped' : StableConfig(c) /\ validate(c)
    BY <1>0, <1>6 DEF Validate
  <2>4. rejected' => ~validate(config)
    BY Zenon, <1>0, <1>6 DEF Validate
  <2>. QED BY Zenon, <1>0, <2>1, <2>2, <2>3, <2>4 DEF StartInv
<1>7. CASE InitializeAndRun \/ Finish
  <2>1. /\ UNCHANGED <<conf_file, args, config, warned, rejected, dumped>>
        /\ mpc \notin {"start", "reading"} /\ mpc' \notin {"start", "reading"}
    BY <1>7 DEF InitializeAndRun, Finish
  <2>2. Read' = Read /\ Loadable(conf_file') = Loadable(conf_file) /\ Undecided' = Undecided
    BY Zenon, <2>1 DEF Read, Undecided
  <2>. QED BY Zenon, <1>0, <2>1, <2>2 DEF StartInv
<1>8. CASE UNCHANGED startupVars
  BY <1>8 DEF startupVars, StartInv, Undecided, HalfRead, Read
<1>9. CASE StartAgain
  <2>1. /\ conf_file' \in {conf_file} \cup {to_json_string(c) : c \in dumped}
        /\ mpc' = "start" /\ config' = Constructed /\ rejected' = FALSE /\ warned' = FALSE
        /\ dumped' = dumped
    BY <1>9 DEF StartAgain
  <2>2. Readable(conf_file')
    <3>1. CASE conf_file' = conf_file
      BY Zenon, <1>0, <3>1
    <3>2. ASSUME NEW c \in dumped, conf_file' = to_json_string(c) PROVE Readable(conf_file')
      BY Zenon, <1>0, <3>2, PrintedReadable
    <3>. QED BY Zenon, <2>1, <3>1, <3>2
  <2>3. StableConfig(config') /\ Undecided'
    BY Zenon, <2>1, DefaultsStable, EffectiveStable DEF Constructed, Undecided
  <2>. QED BY Zenon, <1>0, <2>1, <2>2, <2>3 DEF StartInv
<1>. QED BY <1>3, <1>4, <1>5, <1>6, <1>7, <1>8, <1>9 DEF StartupNext

\* It holds in every behaviour.
LEMMA StartAlways == StartupSpec => []StartInv
BY StartInitially, StartStep, PTL DEF StartupSpec

\* Whatever file and command line a configuration was made of: printed by
\* --dump-config and used as the file it is read back as it was, without a
\* warning, and accepted.
THEOREM DumpsReload == StartupSpec => []DumpReloads
<1>1. StartInv => DumpReloads
  <2>. SUFFICES ASSUME StartInv, NEW c \in dumped, conf_file = to_json_string(c), ~Undecided
                PROVE  config = Effective(c, args) /\ ~warned /\ ~rejected
    BY Zenon DEF DumpReloads
  <2>1. /\ StableConfig(c) /\ validate(c) /\ config = Effective(Read, args)
        /\ warned = ~Loadable(conf_file) /\ (rejected => ~validate(config))
    BY Zenon DEF StartInv
  <2>2. Loadable(conf_file) /\ \A k \in Keys : Read[k] = c[k]
    BY Zenon, <2>1, PrintedIsRead
  <2>3. config = Effective(c, args)
    BY Zenon, <2>1, <2>2, EffectiveSame
  <2>4. validate(config)
    BY Zenon, <2>1, <2>3, EffectiveValid
  <2>. QED BY Zenon, <2>1, <2>2, <2>3, <2>4
<1>. QED BY <1>1, StartAlways, PTL

\* Config::load goes through a file key by key and may throw at any of them;
\* it and the fallback of main never mix the file with the defaults, whatever
\* values the file has.
THEOREM FilesAreAllOrNothing == StartupSpec => []AllOrNothing
<1>1. StartInv => AllOrNothing
  BY Zenon DEF StartInv, AllOrNothing, Read
<1>. QED BY <1>1, StartAlways, PTL
=============================================================================
