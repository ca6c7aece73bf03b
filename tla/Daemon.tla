------------------------------- MODULE Daemon -------------------------------
(***************************************************************************)
(* The daemon's life: main.c and the part of core/forwarder.c that starts  *)
(* and stops.                                                              *)
(*                                                                         *)
(* The main thread waits for NOTIFY messages that name a profile, loads it *)
(* when the database has it and unloads it when not: the active profiles   *)
(* are merged into one configuration, the forwarder thread is started with *)
(* the first and later ones are handed to it by forwarder_reload_config.   *)
(* Unloading the last profile, or a signal, stops the thread and joins it. *)
(*                                                                         *)
(* Data abstractions: a merged configuration is the set of profiles it was *)
(* built from; their order matters only to same_topology, which may reject *)
(* a reload over the same interfaces.  What the reload does to the packet  *)
(* threads is the module HotReload; here it is two steps.                  *)
(***************************************************************************)
EXTENDS Integers, FiniteSets

CONSTANTS
  Profiles,
  Encrypting,     \* the profiles that have a crypto policy
  Iface,          \* the WANs of a profile; its LANs are treated alike
  MaxActive,      \* MAX_ACTIVE_PROFILE_IDS
  MaxInbox,       \* bound: notifications read at once
  EnvFails        \* interfaces, the database and pthread_create may fail

ASSUME ProfilesAssumption ==
  /\ IsFiniteSet(Profiles) /\ Encrypting \subseteq Profiles
  /\ MaxActive \in Nat \ {0} /\ MaxInbox \in Nat
  /\ EnvFails \in BOOLEAN

NoCfg == 2      \* NULL, where a slot is expected
Outcomes == IF EnvFails THEN BOOLEAN ELSE {TRUE}
Interfaces(config) == UNION {Iface[p] : p \in config}
Policies(config) == config \cap Encrypting

VARIABLES
  inbox,                  \* notifications read and not handled yet
  mpc, cur, loading,      \* the main thread: where it is, the id, its cause
  active_ids, has_thread, active_slot, slots,     \* struct runtime_state
  fpc, init_cfg,          \* the forwarder thread, forwarder_init's argument
  fwd_cfg,                \* fwd->cfg, a slot or NULL
  contexts,               \* whose policies the crypto runtime was built from
  crypto_enabled,
  kind,                   \* the packet threads forwarder_run started
  running,                \* running, of core/forwarder.c
  g_stop_requested, handler

main == <<mpc, cur, loading, active_ids, has_thread, active_slot>>
forwarder == <<fpc, init_cfg, kind>>
runtime == <<fwd_cfg, contexts, crypto_enabled>>
signal == <<g_stop_requested, handler>>
vars == <<inbox, main, slots, forwarder, runtime, running, signal>>

Joining == {"join", "lastjoin"}
Alive == {"start", "build", "bringup", "ready", "run", "checked", "loop"}

Init ==
  /\ inbox = 0
  /\ mpc = "loop" /\ cur \in Profiles /\ loading = FALSE
  /\ active_ids = {} /\ has_thread = FALSE
  /\ active_slot = 0 /\ slots = [s \in {0, 1} |-> {}]
  /\ fpc = "none" /\ init_cfg = 0 /\ kind = "none"
  /\ fwd_cfg = NoCfg /\ contexts = {} /\ crypto_enabled = FALSE
  /\ running = TRUE /\ g_stop_requested = FALSE /\ handler = "idle"

-----------------------------------------------------------------------------
(* The main loop *)

\* PQconsumeInput has read n notifications; anyone may send them, for any id.
\* The stop flag is looked at again only after the last of them.
Consume(n) ==
  /\ mpc = "loop" /\ ~g_stop_requested
  /\ inbox' = n /\ mpc' = "drain"
  /\ UNCHANGED <<cur, loading, active_ids, has_thread, active_slot, slots,
                 forwarder, runtime, running, signal>>

Drained ==
  /\ mpc = "drain" /\ inbox = 0
  /\ mpc' = "loop"
  /\ UNCHANGED <<inbox, cur, loading, active_ids, has_thread, active_slot,
                 slots, forwarder, runtime, running, signal>>

\* handle_profile_notify: ne_profile_id_exists, which a database that cannot be
\* reached answers like one that has no such profile.
Handle(p, exists) ==
  /\ mpc = "drain" /\ inbox > 0
  /\ inbox' = inbox - 1 /\ cur' = p /\ loading' = exists
  /\ mpc' = IF exists THEN "load" ELSE "unload"
  /\ UNCHANGED <<active_ids, has_thread, active_slot, slots,
                 forwarder, runtime, running, signal>>

\* Wrong variants of the definitions that follow them, used by no action.
KeepFailed == active_ids
SlotInUse == active_slot

HasRoom(ids) == Cardinality(ids) < MaxActive
Reverted == IF loading THEN active_ids \ {cur} ELSE active_ids
next_slot == 1 - active_slot
Joined == fpc = "exited"

\* load_profile_and_run up to active_ids_add.
Load ==
  LET ids == IF has_thread THEN active_ids ELSE {}
      added == cur \notin ids /\ HasRoom(ids)
  IN /\ mpc = "load"
     /\ active_ids' = IF added THEN ids \cup {cur} ELSE ids
     /\ mpc' = IF added THEN "merge" ELSE "drain"
     /\ UNCHANGED <<inbox, cur, loading, has_thread, active_slot, slots,
                    forwarder, runtime, running, signal>>

\* active_ids_remove; the last profile takes the forwarder down.
Unload ==
  LET ids == active_ids \ {cur}
      stops == cur \in active_ids /\ ids = {} /\ has_thread
  IN /\ mpc = "unload"
     /\ active_ids' = ids
     /\ mpc' = IF cur \notin active_ids \/ (ids = {} /\ ~has_thread) THEN "drain"
               ELSE IF stops THEN "join" ELSE "merge"
     /\ running' = IF stops THEN FALSE ELSE running
     /\ UNCHANGED <<inbox, cur, loading, has_thread, active_slot, slots,
                    forwarder, runtime, signal>>

\* apply_active_configs failed: a profile being loaded is forgotten, one that
\* was deleted stays forgotten although the forwarder still runs it.
ApplyFails ==
  /\ active_ids' = Reverted
  /\ mpc' = "drain"
  /\ UNCHANGED <<inbox, cur, loading, has_thread, active_slot,
                 runtime, running, signal>>

MergeFails ==
  /\ EnvFails /\ mpc = "merge"
  /\ ApplyFails /\ UNCHANGED <<slots, forwarder>>

\* runtime_start, whose pthread_create may fail
StartFails ==
  /\ EnvFails /\ mpc = "merge" /\ ~has_thread
  /\ slots' = [slots EXCEPT ![0] = active_ids]
  /\ active_slot' = 0
  /\ active_ids' = Reverted
  /\ mpc' = "drain"
  /\ UNCHANGED <<inbox, cur, loading, has_thread, forwarder, runtime, running, signal>>

StartForwarder ==
  /\ mpc = "merge" /\ ~has_thread
  /\ slots' = [slots EXCEPT ![0] = active_ids]
  /\ active_slot' = 0
  /\ has_thread' = TRUE /\ fpc' = "start"
  /\ mpc' = "drain"
  /\ UNCHANGED <<inbox, cur, loading, active_ids, init_cfg, kind,
                 runtime, running, signal>>

\* build_merged_config into the spare slot
FillSlot ==
  /\ mpc = "merge" /\ has_thread
  /\ slots' = [slots EXCEPT ![next_slot] = active_ids]
  /\ mpc' = "reload"
  /\ UNCHANGED <<inbox, cur, loading, active_ids, has_thread, active_slot,
                 forwarder, runtime, running, signal>>

\* forwarder_reload_config before forwarder_init has set fwd->cfg, or over other
\* interfaces; over the same ones in another order, which profiles sharing an
\* interface can bring about.
ReloadFails ==
  /\ mpc = "reload"
  /\ fwd_cfg # NoCfg =>
       \/ Interfaces(slots[fwd_cfg]) # Interfaces(slots[next_slot])
       \/ Cardinality(Interfaces(slots[next_slot])) > 1
  /\ ApplyFails /\ UNCHANGED <<slots, forwarder>>

ReloadAccepted ==
  /\ mpc = "reload" /\ fwd_cfg # NoCfg
  /\ Interfaces(slots[fwd_cfg]) = Interfaces(slots[next_slot])
  /\ mpc' = "commit"
  /\ UNCHANGED <<inbox, cur, loading, active_ids, has_thread, active_slot,
                 slots, forwarder, runtime, running, signal>>

\* The swap, and rebuild_crypto_runtime when the policies differ and there are
\* any; apply_active_configs then moves active_slot.
ReloadCommit ==
  LET new == Policies(slots[next_slot])
      otherPolicies == new # Policies(slots[fwd_cfg])
      otherCount == Cardinality(slots[next_slot]) # Cardinality(slots[fwd_cfg])
  IN /\ mpc = "commit"
     /\ fwd_cfg' = next_slot
     /\ crypto_enabled' = IF otherPolicies \/ otherCount THEN new # {} ELSE crypto_enabled
     /\ contexts' = IF new # {} /\ otherPolicies THEN new ELSE contexts
     /\ active_slot' = next_slot
     /\ mpc' = "drain"
     /\ UNCHANGED <<inbox, cur, loading, active_ids, has_thread, slots,
                    forwarder, running, signal>>

\* pthread_join in runtime_stop_forwarder
Join ==
  /\ mpc \in Joining /\ Joined
  /\ has_thread' = FALSE
  /\ mpc' = IF mpc = "join" THEN "drain" ELSE "exited"
  /\ UNCHANGED <<inbox, cur, loading, active_ids, active_slot, slots,
                 forwarder, runtime, running, signal>>

\* After the main loop.
Shutdown ==
  /\ mpc = "loop" /\ g_stop_requested
  /\ mpc' = IF has_thread THEN "lastjoin" ELSE "exited"
  /\ running' = IF has_thread THEN FALSE ELSE running
  /\ UNCHANGED <<inbox, cur, loading, active_ids, has_thread, active_slot,
                 slots, forwarder, runtime, signal>>

-----------------------------------------------------------------------------
(* on_stop_signal: two stores, which any thread may execute *)

SignalFlag ==
  /\ handler = "idle" /\ mpc # "exited"
  /\ g_stop_requested' = TRUE /\ handler' = "flagged"
  /\ UNCHANGED <<inbox, main, slots, forwarder, runtime, running>>

SignalStop ==
  /\ handler = "flagged"
  /\ running' = FALSE /\ handler' = "idle"
  /\ UNCHANGED <<inbox, main, slots, forwarder, runtime,
                 g_stop_requested>>

-----------------------------------------------------------------------------
(* forwarder_thread_main *)

\* A step of the forwarder thread that only moves it.
Goes(from, to) ==
  /\ fpc = from /\ fpc' = to
  /\ UNCHANGED <<inbox, main, slots, init_cfg, runtime, kind, running, signal>>

\* Wrong variant: packet threads that do not end.
NeverEnds == FALSE

MayRun == running
Stopped == ~running

InitAborted == ~running /\ Goes("start", "exited")

\* forwarder_init gets the active slot and clears struct forwarder.
InitBegin ==
  /\ fpc = "start" /\ running
  /\ fpc' = "build" /\ init_cfg' = active_slot /\ fwd_cfg' = active_slot
  /\ UNCHANGED <<inbox, main, slots, kind, contexts, crypto_enabled, running, signal>>

\* The crypto runtime of its argument, whatever fwd->cfg is by now.
InitBuild ==
  /\ fpc = "build" /\ fpc' = "bringup"
  /\ crypto_enabled' = (Policies(slots[init_cfg]) # {})
  /\ contexts' = Policies(slots[init_cfg])
  /\ UNCHANGED <<inbox, main, slots, init_cfg, fwd_cfg, kind, running, signal>>

\* XDP, the sockets and ARP; running is looked at before each of them.
InitFails ==
  /\ ~running \/ FALSE \in Outcomes
  /\ Goes("bringup", "exited")

InitDone == running /\ Goes("bringup", "ready")

\* forwarder_thread_main looks twice more.
Aborted == ~running /\ Goes("ready", "exited")
CallsRun == running /\ Goes("ready", "run")

\* forwarder_run: a last look, then running = 1 whatever happened since.
RunRefused == ~MayRun /\ Goes("run", "exited")
RunChecked == MayRun /\ Goes("run", "checked")

RunStarts ==
  /\ fpc = "checked" /\ fpc' = "loop"
  /\ running' = TRUE
  /\ kind' = IF crypto_enabled THEN "crypto" ELSE "clear"
  /\ UNCHANGED <<inbox, main, slots, init_cfg, runtime, signal>>

\* The packet threads end, and forwarder_cleanup.
RunEnds == Stopped /\ Goes("loop", "exited")

-----------------------------------------------------------------------------
Main ==
  \/ Drained \/ Load \/ Unload
  \/ \E p \in Profiles, exists \in BOOLEAN : Handle(p, exists)
  \/ MergeFails \/ StartFails \/ StartForwarder \/ FillSlot
  \/ ReloadFails \/ ReloadAccepted \/ ReloadCommit \/ Join \/ Shutdown

Forwarder ==
  \/ InitAborted \/ InitBegin \/ InitBuild \/ InitFails \/ InitDone
  \/ Aborted \/ CallsRun \/ RunRefused \/ RunChecked \/ RunStarts \/ RunEnds

Next ==
  \/ \E n \in 1 .. MaxInbox : Consume(n)
  \/ SignalFlag
  \/ SignalStop \/ Main \/ Forwarder

Spec == Init /\ [][Next]_vars

\* Both threads and a handler that was entered get to run.
Fairness == WF_vars(Main) /\ WF_vars(Forwarder) /\ WF_vars(SignalStop)
FairSpec == Spec /\ Fairness

-----------------------------------------------------------------------------
(* Properties *)

TypeOK ==
  /\ inbox \in 0 .. MaxInbox
  /\ mpc \in {"loop", "drain", "load", "unload", "merge", "reload", "commit",
              "exited"} \cup Joining
  /\ cur \in Profiles /\ loading \in BOOLEAN
  /\ active_ids \subseteq Profiles /\ Cardinality(active_ids) <= MaxActive
  /\ has_thread \in BOOLEAN /\ active_slot \in {0, 1}
  /\ slots \in [{0, 1} -> SUBSET Profiles]
  /\ fpc \in {"none", "exited"} \cup Alive
  /\ init_cfg \in {0, 1} /\ fwd_cfg \in {0, 1, NoCfg}
  /\ contexts \subseteq Profiles /\ crypto_enabled \in BOOLEAN
  /\ kind \in {"none", "crypto", "clear"}
  /\ running \in BOOLEAN /\ g_stop_requested \in BOOLEAN
  /\ handler \in {"idle", "flagged"}

\* Between two notifications there is a forwarder thread exactly when a profile
\* is active, whatever loads and unloads failed before: a failed first load
\* leaves no id behind, and the thread goes with the last profile.
ThreadIffProfiles ==
  mpc \in {"loop", "drain"} => (has_thread <=> active_ids # {})

\* Between two notifications the running forwarder's configuration has every
\* active profile, even when loads and unloads failed half way: no profile is
\* believed active, and its load refused as a repetition, while it is not served.
ActiveServed ==
  mpc \in {"loop", "drain"} /\ fpc = "loop" => active_ids \subseteq slots[fwd_cfg]

\* What is believed loaded and what runs agree, after any sequence of loads and
\* unloads of which any step may have failed.
ProfilesServed == ThreadIffProfiles /\ ActiveServed

\* The configuration a running forwarder works with is never written.
LiveConfigStable ==
  [][fpc = "loop" => slots'[fwd_cfg] = slots[fwd_cfg]]_vars

\* A forwarder is started only when there is none or the one before it has ended:
\* two would share the sockets, the crypto contexts and running.
OneForwarder == [][fpc' = "start" /\ fpc # "start" => fpc \notin Alive]_vars

\* What the main thread does beside a forwarder never disturbs it: it neither
\* writes its configuration nor starts a second one.
ForwarderUndisturbed == LiveConfigStable /\ OneForwarder

\* pthread_join returns, unless forwarder_stop came between forwarder_run's look
\* at running and its store, which undoes the stop.
JoinReturns ==
  (mpc \in Joining /\ ~running /\ fpc # "checked") ~> mpc \notin Joining

\* A stop signal that comes while the packet threads run ends the daemon, after
\* whatever the main thread was doing.
StopEnds == (handler = "flagged" /\ fpc = "loop") ~> mpc = "exited"

\* Both ways to stop the forwarder, by a notification and by a signal, come to
\* their end.
StopsEnd == JoinReturns /\ StopEnds

\* "0 = loaded": after a load that succeeded there is a forwarder, its threads
\* are of the kind that applies the profiles' policies, and these policies have
\* their crypto contexts; when the interfaces can be opened and nobody asked the
\* daemon to stop.
LoadedIsServed ==
  mpc = "loop" /\ active_ids # {} /\ ~g_stop_requested =>
    /\ fpc \in Alive
    /\ fpc = "loop" /\ Policies(active_ids) # {} =>
         kind = "crypto" /\ Policies(active_ids) \subseteq contexts

=============================================================================
