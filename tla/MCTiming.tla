------------------------------ MODULE MCTiming ------------------------------
(***************************************************************************)
(* The two models with a clock for TLC: CollectionSchedule and Watchdog.   *)
(* They share no state; part says which of the two a behaviour is of, and  *)
(* the other stays at its initial state.                                   *)
(*                                                                         *)
(* Three probes stand for the eight: device (collected once), resources    *)
(* (the only one whose collect() can fail) and update (forced by RAUC,     *)
(* with an interval of its own).                                           *)
(***************************************************************************)
EXTENDS CollectionSchedule, Watchdog, TLC

Device == 1
Resources == 2
Update == 3

MCInterval == Device :> 0 @@ Resources :> 2 @@ Update :> 3

VARIABLE part

timingVars == <<part, vars, watchdogVars>>

TimingInit == part \in {"schedule", "watchdog"} /\ Init /\ WatchdogInit

TimingNext ==
  \/ part = "schedule" /\ Next /\ UNCHANGED <<part, watchdogVars>>
  \/ part = "watchdog" /\ WatchdogNext /\ UNCHANGED <<part, vars>>

TimingSpec == TimingInit /\ [][TimingNext]_timingVars
=============================================================================
