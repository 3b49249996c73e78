------------------------------ MODULE Startup ------------------------------
(***************************************************************************)
(* Configuration and start of the daemon: Config::load, validate and       *)
(* to_json_string (src/config.cpp) as main (src/main.cpp) uses them, over  *)
(* several starts with a file that may be missing, broken, or what an      *)
(* earlier --dump-config printed.  Of the keys of a kind that are read,    *)
(* checked and printed alike, one stands for all.                          *)
(***************************************************************************)
EXTENDS Integers

CONSTANTS
  Files,      \* configuration files: [there, parses, keys]
  Args,       \* command lines: [help, verbose, once, dump_config]
  Lower,      \* external: std::tolower on the strings of the instance
  Mod32,      \* values of an int or a uint32_t (2^32 in the build)
  Mod64,      \* values of a uint64_t (2^64 in the build)
  MaxStarts   \* bound on starts (for TLC)

\* JSON values, and the absence of one
Num(n) == <<"num", n>>
Str(s) == <<"str", s>>
Bool(b) == <<"bool", b>>
Other == <<"other">>    \* null, an array or an object
Absent == <<"absent">>

\* Config::defaults
defaults ==
  [snapshot_file |-> Str("/run/health/state.json"),
   collect_interval_sec |-> Num(60),
   trigger_min_interval_sec |-> Num(5),
   enable_ntp |-> Bool(TRUE),
   log_level |-> Str("info"),
   min_priority |-> Absent,
   window_sec |-> Absent,
   buffer_max_entries |-> Num(1000),
   cpu_load_warn |-> Num(80),
   cpu_load_crit |-> Num(95),
   service_restart_warn |-> Num(3),
   service_restart_crit |-> Num(10)]

Keys == DOMAIN defaults

\* The order in which load looks for them
Order ==
  [snapshot_file |-> 1, collect_interval_sec |-> 2, trigger_min_interval_sec |-> 3,
   enable_ntp |-> 4, log_level |-> 5, min_priority |-> 6, window_sec |-> 7,
   buffer_max_entries |-> 8, cpu_load_warn |-> 9, cpu_load_crit |-> 10,
   service_restart_warn |-> 11, service_restart_crit |-> 12]

\* What a file may hold for a key: any JSON value; a number is an integer.
JsonValue(v) ==
  \/ v = Other
  \/ \E s \in DOMAIN Lower : v = Str(s)
  \/ \E b \in BOOLEAN : v = Bool(b)
  \/ v = Num(v[2]) /\ v[2] \in Int

ASSUME StartupAssumption ==
  /\ \A f \in Files, k \in Keys : f.keys[k] = Absent \/ JsonValue(f.keys[k])
  /\ \A s \in DOMAIN Lower : Lower[s] \in DOMAIN Lower /\ Lower[Lower[s]] = Lower[s]
  /\ \A s \in {"info", "debug"} : s \in DOMAIN Lower /\ Lower[s] = s

ASSUME WidthAssumption ==
  Mod32 \in Nat /\ Mod32 > 2000 /\ Mod64 \in Nat /\ Mod64 > 0

priority_from_string ==
  [emerg |-> 0, panic |-> 0, alert |-> 1, crit |-> 2, critical |-> 2, err |-> 3, error |-> 3,
   warning |-> 4, warn |-> 4, notice |-> 5, info |-> 6, informational |-> 6, debug |-> 7]

\* nlohmann's get<T> of a value of the wrong type throws; min_priority is
\* looked at before it is read.
Throws(k, v) ==
  CASE k \in {"snapshot_file", "log_level"} -> v[1] # "str"
    [] k = "enable_ntp" -> v[1] # "bool"
    [] k = "min_priority" -> FALSE
    [] k = "window_sec" -> v[1] # "num"
    [] OTHER -> v[1] \notin {"num", "bool"}

\* get<int>, get<uint8_t>, get<uint32_t> and get<uint64_t> keep the low bits.
Narrow(k, n) ==
  CASE k \in {"cpu_load_warn", "cpu_load_crit"} -> n % 256
    [] k \in {"buffer_max_entries", "service_restart_warn", "service_restart_crit"} -> n % Mod32
    [] k = "window_sec" -> n % Mod64
    [] OTHER -> ((n + Mod32 \div 2) % Mod32) - (Mod32 \div 2)

\* The value a key gives: a number is narrowed, and may be written as a Boolean;
\* a min_priority that is none is left unset.
Get(k, v) ==
  CASE k = "log_level" -> Str(Lower[v[2]])
    [] k = "min_priority" /\ v[1] = "str" ->
         IF Lower[v[2]] \in DOMAIN priority_from_string
         THEN Num(priority_from_string[Lower[v[2]]]) ELSE defaults[k]
    [] k = "min_priority" /\ v[1] = "num" ->
         IF Narrow(k, v[2]) \in 0 .. 7 THEN Num(Narrow(k, v[2])) ELSE defaults[k]
    [] k = "min_priority" /\ v[1] \notin {"str", "num"} -> defaults[k]
    [] k \notin {"log_level", "min_priority", "enable_ntp"} /\ v[1] = "bool" -> Num(IF v[2] THEN 1 ELSE 0)
    [] k \notin {"log_level", "min_priority"} /\ v[1] = "num" -> Num(Narrow(k, v[2]))
    [] OTHER -> v

\* Config::validate returns no error
validate(c) ==
  /\ c.collect_interval_sec[2] >= 1
  /\ c.trigger_min_interval_sec[2] >= 0
  /\ c.log_level[2] \in {"debug", "info", "warn", "error"}
  /\ c.buffer_max_entries[2] <= 100000
  /\ c.cpu_load_warn[2] < c.cpu_load_crit[2]

\* Mutant of to_json_string: the trigger interval is not printed.
to_json_string_short(c) ==
  [there |-> TRUE, parses |-> TRUE,
   keys |-> [k \in Keys |-> IF k = "trigger_min_interval_sec" THEN Absent ELSE c[k]]]

\* Config::to_json_string, taken for a file: an option that is not set is not
\* printed, nor is what the command line set
to_json_string(c) ==
  [there |-> TRUE, parses |-> TRUE, keys |-> [k \in Keys |-> c[k]]]

\* The configuration main works with
Effective(c, a) ==
  [k \in Keys \cup {"verbose"} |->
     CASE k = "verbose" -> Bool(a.verbose)
       [] k = "log_level" /\ a.verbose -> Str("debug")
       [] OTHER -> c[k]]

\* edge::Config config; before anything is known of file or command line
Constructed == Effective(defaults, [verbose |-> FALSE])
-----------------------------------------------------------------------------
VARIABLES
  conf_file,  \* the file --config names
  args,
  mpc,        \* "start", "reading" (in Config::load), "loaded", "created",
              \* "running", "once", "done", "failed"
  config,     \* the configuration main works with
  loading,    \* load's own configuration
  unread,     \* keys of the file that load has not come to
  warned,     \* main warned that it uses the defaults
  rejected,   \* main stopped over the configuration
  dumped,     \* what --dump-config printed: at most one configuration
  starts

startupVars ==
  <<conf_file, args, mpc, config, loading, unread, warned, rejected, dumped, starts>>

StartupInit ==
  /\ conf_file \in Files /\ args \in Args
  /\ mpc = "start" /\ config = Constructed
  /\ loading = defaults /\ unread = {}
  /\ warned = FALSE /\ rejected = FALSE
  /\ dumped = {} /\ starts = 1

\* Mutant: the handler leaves what has been read, and warns of defaults.
UseWhatWasRead ==
  /\ mpc' = "loaded" /\ config' = Effective(loading, args) /\ warned' = TRUE
  /\ loading' = defaults /\ unread' = {}

\* No file, or load threw and its configuration is gone: the defaults, with the
\* command line
UseDefaults ==
  /\ mpc' = "loaded" /\ config' = Effective(defaults, args) /\ warned' = TRUE
  /\ loading' = defaults /\ unread' = {}

\* main up to the first key: --help and --version end the program
LoadConfig ==
  /\ mpc = "start"
  /\ \/ args.help /\ mpc' = "done" /\ UNCHANGED <<config, loading, unread, warned>>
     \/ ~args.help /\ ~(conf_file.there /\ conf_file.parses) /\ UseDefaults
     \/ /\ ~args.help /\ conf_file.there /\ conf_file.parses
        /\ mpc' = "reading"
        /\ loading' = defaults /\ unread' = {k \in Keys : conf_file.keys[k] # Absent}
        /\ UNCHANGED <<config, warned>>
  /\ UNCHANGED <<conf_file, args, rejected, dumped, starts>>

\* Config::load: the next key that the file has is read, or throws.
load ==
  /\ mpc = "reading"
  /\ \E k \in unread :
       /\ \A j \in unread : Order[k] <= Order[j]
       /\ \/ Throws(k, conf_file.keys[k]) /\ UseDefaults
          \/ /\ ~Throws(k, conf_file.keys[k])
             /\ loading' = [loading EXCEPT ![k] = Get(k, conf_file.keys[k])]
             /\ unread' = unread \ {k}
             /\ UNCHANGED <<mpc, config, warned>>
  /\ UNCHANGED <<conf_file, args, rejected, dumped, starts>>

\* load returns: main takes its configuration, with the command line
LoadReturns ==
  /\ mpc = "reading" /\ unread = {}
  /\ mpc' = "loaded" /\ config' = Effective(loading, args)
  /\ loading' = defaults
  /\ UNCHANGED <<conf_file, args, unread, warned, rejected, dumped, starts>>

\* validate, then --dump-config or the daemon
Validate ==
  /\ mpc = "loaded"
  /\ \/ ~validate(config) /\ mpc' = "failed" /\ rejected' = TRUE /\ UNCHANGED dumped
     \/ /\ validate(config) /\ args.dump_config
        /\ mpc' = "done" /\ dumped' = {config} /\ UNCHANGED rejected
     \/ /\ validate(config) /\ ~args.dump_config
        /\ mpc' = "created" /\ UNCHANGED <<rejected, dumped>>
  /\ UNCHANGED <<conf_file, args, config, loading, unread, warned, starts>>

\* daemon.initialize() may fail; then --once or run()
InitializeAndRun ==
  /\ mpc = "created"
  /\ mpc' \in {"failed", IF args.once THEN "once" ELSE "running"}
  /\ UNCHANGED <<conf_file, args, config, loading, unread, warned, rejected, dumped, starts>>

\* collect_now or run() return, or an exception reaches main
Finish ==
  /\ mpc \in {"once", "running"}
  /\ mpc' \in {"done", "failed"}
  /\ UNCHANGED <<conf_file, args, config, loading, unread, warned, rejected, dumped, starts>>

\* The next start, with the same file or with what was printed
StartAgain ==
  /\ mpc \in {"done", "failed"} /\ starts < MaxStarts
  /\ conf_file' \in {conf_file} \cup {to_json_string(c) : c \in dumped}
  /\ args' \in Args
  /\ mpc' = "start" /\ config' = Constructed /\ warned' = FALSE /\ rejected' = FALSE
  /\ starts' = starts + 1
  /\ UNCHANGED <<loading, unread, dumped>>

StartupNext ==
  \/ LoadConfig \/ load \/ LoadReturns
  \/ Validate \/ InitializeAndRun \/ Finish \/ StartAgain
StartupSpec == StartupInit /\ [][StartupNext]_startupVars
-----------------------------------------------------------------------------
\* main has not taken a configuration yet
Undecided == mpc \in {"start", "reading"} \/ args.help

\* What --dump-config prints can be used as the configuration file: a start
\* from it has the configuration that was printed, but for --verbose, warns
\* of nothing and is not rejected.
DumpReloads ==
  \A c \in dumped :
    conf_file = to_json_string(c) /\ ~Undecided =>
      config = Effective(c, args) /\ ~warned /\ ~rejected

\* Every key that the file has can be read.
Loadable(file) ==
  /\ file.there /\ file.parses
  /\ \A k \in Keys : file.keys[k] # Absent => ~Throws(k, file.keys[k])

\* The configuration that such a file describes
Described(file) ==
  [k \in Keys |-> IF file.keys[k] = Absent THEN defaults[k] ELSE Get(k, file.keys[k])]

\* A file is taken as a whole or not at all, although load goes through it key
\* by key and may throw at any of them: main never works with what was read of
\* a file until then.  One value of the wrong type, wherever it is, and every
\* key has its default, with a warning; without one every key counts.
AllOrNothing ==
  IF Undecided THEN config = Constructed
  ELSE /\ warned <=> ~Loadable(conf_file)
       /\ config = Effective(IF warned THEN defaults ELSE Described(conf_file), args)
=============================================================================
