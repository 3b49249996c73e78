----------------------------- MODULE MCPipeline -----------------------------
(***************************************************************************)
(* For TLC, the components a reading passes through on its way from the    *)
(* system to the browser: the configuration (Startup), the sources that    *)
(* keep state of their own (JournalReader, NetlinkMonitor, EthtoolQuerier),*)
(* the sections and their roll-up (Snapshot), and the web server with one  *)
(* browser (HealthFeed).  Their modules share no state; stage says which   *)
(* of them a behaviour is of, and the others stay at an initial state.     *)
(***************************************************************************)
EXTENDS JournalReader, NetlinkMonitor, EthtoolQuerier, MCSnapshot, Startup,
        HealthFeed, TLC

\* The journal: priorities and times of its entries
MCPriority == <<3, 6, 2, 3, 6, 6, 3>>
MCRealtime == <<1, 1, 2, 2, 3, 4, 4>>

MCIfaces == <<"eth0", "eth1">>
-----------------------------------------------------------------------------
(* Startup: what the configuration file may hold.                          *)


MCLower == [s \in {"x", "DEBUG", "loud", "warning", "nonsense", "debug", "info"} |->
              IF s = "DEBUG" THEN "debug" ELSE s]

Values ==
  [snapshot_file |-> {Str("x"), Num(1)},
   collect_interval_sec |-> {Num(0), Num(1), Num(Mod32 \div 2), Str("x"), Bool(TRUE)},
   trigger_min_interval_sec |-> {Num(-1), Num(0)},
   enable_ntp |-> {Bool(FALSE), Num(1), Other},
   log_level |-> {Str("DEBUG"), Str("loud")},
   min_priority |-> {Str("warning"), Str("nonsense"), Num(8), Bool(TRUE), Other},
   window_sec |-> {Num(0), Num(-1)},
   buffer_max_entries |-> {Num(100000), Num(100001), Num(Mod32 + 1)},
   cpu_load_warn |-> {Num(95), Num(94), Num(336), Num(-1)},
   cpu_load_crit |-> {Num(80), Num(81), Num(336)},
   service_restart_warn |-> {Num(11), Num(-1)},
   service_restart_crit |-> {Num(0)}]

NoFile == [there |-> FALSE, parses |-> FALSE, keys |-> [k \in Keys |-> Absent]]

\* Files with at most two keys, a file that is not JSON, and no file
MCFiles ==
  LET none == [k \in Keys |-> Absent]
      with(K) == UNION {UNION {{[f EXCEPT ![k] = v] : v \in Values[k]} : k \in Keys} : f \in K}
      text(there, parses, keys) == [there |-> there, parses |-> parses, keys |-> keys]
  IN  {text(TRUE, TRUE, f) : f \in {none} \cup with({none}) \cup with(with({none}))}
        \cup {text(TRUE, FALSE, none), NoFile}

NoArgs == [help |-> FALSE, verbose |-> FALSE, once |-> FALSE, dump_config |-> FALSE]
MCArgs ==
  {a \in [help : BOOLEAN, verbose : BOOLEAN, once : BOOLEAN, dump_config : BOOLEAN] :
     Cardinality({o \in DOMAIN a : a[o]}) <= 1}
-----------------------------------------------------------------------------
\* The feed: two good snapshots for a new page, or one that is rejected for a
\* page that has a good one
MCStamps == {<<1, 2>>, <<1, 0>>}
-----------------------------------------------------------------------------
VARIABLE stage

pipelineVars ==
  <<stage, journalVars, netlinkVars, ethtoolVars, snapshotVars, startupVars, allVars>>

\* A component that is not looked at has one initial state.
PipelineInit ==
  /\ stage \in {"journal", "netlink", "ethtool", "snapshot", "startup", "feed"}
  /\ JournalInit /\ EthtoolInit /\ SnapshotInit
  /\ NetlinkInit
  /\ stage # "netlink" =>
       links[1] = [name |-> CHOOSE n \in Names : TRUE, running |-> FALSE, addrs |-> {}]
  /\ IF stage = "startup" THEN TRUE ELSE conf_file = NoFile /\ args = NoArgs
  /\ StartupInit
  /\ FeedInit /\ (IF stamp = <<1, 2>> THEN screen = 0 ELSE screen = 1)
  /\ stage # "feed" => file = 0

PipelineNext ==
  \/ /\ stage = "journal" /\ JournalNext
     /\ UNCHANGED <<stage, netlinkVars, ethtoolVars, snapshotVars, startupVars, allVars>>
  \/ /\ stage = "netlink" /\ NetlinkNext
     /\ UNCHANGED <<stage, journalVars, ethtoolVars, snapshotVars, startupVars, allVars>>
  \/ /\ stage = "ethtool" /\ EthtoolNext
     /\ UNCHANGED <<stage, journalVars, netlinkVars, snapshotVars, startupVars, allVars>>
  \/ /\ stage = "snapshot" /\ SnapshotNext
     /\ UNCHANGED <<stage, journalVars, netlinkVars, ethtoolVars, startupVars, allVars>>
  \/ /\ stage = "startup" /\ StartupNext
     /\ UNCHANGED <<stage, journalVars, netlinkVars, ethtoolVars, snapshotVars, allVars>>
  \/ /\ stage = "feed" /\ FeedNext
     /\ UNCHANGED <<stage, journalVars, netlinkVars, ethtoolVars, snapshotVars, startupVars>>

PipelineSpec == PipelineInit /\ [][PipelineNext]_pipelineVars

\* JournalFairness, NetlinkFairness and FeedFairness, each at its stage
LivePipeline ==
  /\ PipelineSpec
  /\ WF_journalVars(stage = "journal" /\ Reader)
  /\ WF_netlinkVars(stage = "netlink" /\ Monitor)
  /\ WF_allVars(stage = "feed" /\ Server)
  /\ WF_allVars(stage = "feed" /\ Browser)
-----------------------------------------------------------------------------
\* Once nothing is logged and nothing fails any more, the journal reader has a
\* handle and stands on the last entry for good (CatchesUp).
ReaderCatchesUp == <>[](stage = "journal" => CaughtUp)

\* Once the kernel's links stay as they are, the netlink cache shows them for
\* good, unless an announcement was lost (EventuallyTracked).
CacheCatchesUp == <>[](stage = "netlink" => LinksTracked)

\* Once writes and failures end, the browser shows the snapshot file for good,
\* unless there was a race (EventuallyShown).
ScreenCatchesUp == <>[](stage = "feed" => FileShown)
=============================================================================
