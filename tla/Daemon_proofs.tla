---------------------------- MODULE Daemon_proofs ----------------------------
(***************************************************************************)
(* Proofs about Daemon: what is true of the active profiles, the forwarder *)
(* thread and the configuration slots between and during notifications.    *)
(***************************************************************************)
EXTENDS Daemon, FiniteSetTheorems, TLAPS

AtRest == {"loop", "drain", "load", "unload"}
Applying == {"merge", "reload", "commit"}

\* The profiles whose load or unload is not under way.
Settled == IF loading THEN active_ids \ {cur} ELSE active_ids

\* There is a thread while a settled profile exists, and only then; without a
\* thread the only unsettled one is the first.
ThreadInv ==
  /\ IF has_thread THEN fpc # "none" ELSE fpc \notin Alive
  /\ mpc \in AtRest => (has_thread <=> active_ids # {})
  /\ mpc \in Applying => (has_thread <=> Settled # {}) /\ (loading => cur \in active_ids)
  /\ mpc \in {"reload", "commit"} \cup Joining => has_thread
  /\ mpc = "join" => active_ids = {}
  /\ mpc = "merge" /\ ~has_thread => loading
  /\ mpc = "load" => loading
  /\ mpc = "unload" => ~loading

\* The forwarder's slot is the active one, and has every settled profile.
Started == {"build", "bringup", "ready", "run", "checked", "loop"}
SlotInv ==
  /\ fpc \in Started => fwd_cfg = active_slot
  /\ has_thread /\ mpc \in AtRest => active_ids \subseteq slots[active_slot]
  /\ has_thread /\ mpc \in Applying => Settled \subseteq slots[active_slot]
  /\ mpc \in {"reload", "commit"} => slots[next_slot] = active_ids

DInv == TypeOK /\ ThreadInv /\ SlotInv

\* main() starts with no active id, no thread and both cfg_slots zeroed: DInv
\* holds.
THEOREM InitDInv == Init => DInv
<1> SUFFICES ASSUME Init PROVE DInv
  OBVIOUS
<1>1. Cardinality({}) <= MaxActive
  BY FS_EmptySet, ProfilesAssumption
<1>2. TypeOK
  <2>1. inbox = 0 /\ inbox \in 0 .. MaxInbox
    BY ProfilesAssumption DEF Init
  <2>2. slots \in [{0, 1} -> SUBSET Profiles]
    BY DEF Init
  <2>3. active_ids \subseteq Profiles /\ Cardinality(active_ids) <= MaxActive
    BY <1>1 DEF Init
  <2> QED
    BY <2>1, <2>2, <2>3 DEF Init, TypeOK, NoCfg
<1> QED
  BY <1>2 DEF Init, DInv, Alive, ThreadInv, SlotInv, AtRest, Applying, Joining, Started

\* Dropping a profile keeps the set within its bound.
LEMMA FewerActive ==
  ASSUME TypeOK, NEW S \in SUBSET active_ids
  PROVE  S \subseteq Profiles /\ Cardinality(S) <= MaxActive
<1>1. IsFiniteSet(active_ids)
  BY FS_Subset, ProfilesAssumption DEF TypeOK
<1>2. Cardinality(S) <= Cardinality(active_ids)
  BY <1>1, FS_Subset
<1>3. Cardinality(S) \in Nat /\ Cardinality(active_ids) \in Nat
  BY <1>1, FS_Subset, FS_CardinalityType
<1> QED
  BY <1>2, <1>3, ProfilesAssumption DEF TypeOK

\* One more fits where active_ids_add found room.
LEMMA OneMore ==
  ASSUME TypeOK, NEW S \in SUBSET active_ids, HasRoom(S)
  PROVE  Cardinality(S \cup {cur}) <= MaxActive
<1>1. IsFiniteSet(S)
  BY FS_Subset, ProfilesAssumption DEF TypeOK
<1>2. Cardinality(S \cup {cur}) = IF cur \in S THEN Cardinality(S) ELSE Cardinality(S) + 1
  BY <1>1, FS_AddElement
<1>3. Cardinality(S) \in Nat
  BY <1>1, FS_CardinalityType
<1> QED
  BY <1>2, <1>3, ProfilesAssumption DEF HasRoom

\* Steps of the main thread.
LEMMA MainDInv ==
  ASSUME DInv, Main \/ \E n \in 1 .. MaxInbox : Consume(n)
  PROVE  DInv'
<1> USE ProfilesAssumption DEF DInv
<1>0. next_slot \in {0, 1} /\ next_slot # active_slot
  BY DEF TypeOK, next_slot
<1>1. ASSUME NEW n \in 1 .. MaxInbox, Consume(n)
      PROVE  DInv'
  <2>1. TypeOK'
    BY <1>1 DEF Consume, TypeOK, forwarder, runtime, signal
  <2>2. ThreadInv' /\ SlotInv'
    BY <1>1 DEF Consume, ThreadInv, SlotInv, AtRest, Applying, Joining, forwarder, runtime, next_slot
  <2> QED
    BY <2>1, <2>2
<1>2. CASE Drained
  <2>1. TypeOK'
    BY <1>2 DEF Drained, TypeOK, forwarder, runtime, signal
  <2>2. ThreadInv' /\ SlotInv'
    BY <1>2 DEF Drained, ThreadInv, SlotInv, AtRest, Applying, Joining, forwarder, runtime, next_slot
  <2> QED
    BY <2>1, <2>2
<1>3. ASSUME NEW p \in Profiles, NEW exists \in BOOLEAN, Handle(p, exists)
      PROVE  DInv'
  <2>1. TypeOK'
    BY <1>3 DEF Handle, TypeOK, forwarder, runtime, signal
  <2>2. ThreadInv' /\ SlotInv'
    BY <1>3 DEF Handle, ThreadInv, SlotInv, AtRest, Applying, Joining, forwarder, runtime, next_slot
  <2> QED
    BY <2>1, <2>2
<1>4. CASE Load
  <2> DEFINE ids == IF has_thread THEN active_ids ELSE {}
             added == cur \notin ids /\ HasRoom(ids)
  <2>1. /\ active_ids' = IF added THEN ids \cup {cur} ELSE ids
        /\ mpc = "load" /\ mpc' = IF added THEN "merge" ELSE "drain"
        /\ UNCHANGED <<inbox, cur, loading, has_thread, active_slot, slots,
                       forwarder, runtime, running, signal>>
    BY <1>4 DEF Load
  <2>2. ids \in SUBSET active_ids /\ loading /\ (has_thread <=> active_ids # {})
    BY <2>1 DEF ThreadInv, AtRest
  <2>3. active_ids' \subseteq Profiles /\ Cardinality(active_ids') <= MaxActive
    BY <2>1, <2>2, FewerActive, OneMore DEF TypeOK
  <2>4. TypeOK'
    BY <2>1, <2>3 DEF TypeOK, forwarder, runtime, signal
  <2>5. ThreadInv'
    BY <2>1, <2>2 DEF ThreadInv, AtRest, Applying, Joining, Settled, forwarder
  <2>6. SlotInv'
    BY <2>1, <2>2 DEF SlotInv, AtRest, Applying, Settled, forwarder, runtime, next_slot
  <2> QED
    BY <2>4, <2>5, <2>6
<1>5. CASE Unload
  <2>1. active_ids' = active_ids \ {cur}
    BY <1>5 DEF Unload
  <2>2. active_ids' \subseteq Profiles /\ Cardinality(active_ids') <= MaxActive
    BY <2>1, FewerActive
  <2>3. TypeOK'
    BY ZenonT(30), <1>5, <2>2 DEF Unload, TypeOK, Joining, forwarder, runtime, signal
  <2>4. ThreadInv'
    BY <1>5 DEF Unload, ThreadInv, AtRest, Applying, Joining, Settled, forwarder
  <2>5. SlotInv'
    BY <1>5 DEF Unload, ThreadInv, SlotInv, AtRest, Applying, Settled, forwarder, runtime, next_slot
  <2> QED
    BY <2>3, <2>4, <2>5
<1>6. ASSUME ApplyFails, mpc \in {"merge", "reload"}, UNCHANGED <<slots, forwarder>>
      PROVE  DInv'
  <2>1. Reverted = Settled /\ Settled \in SUBSET active_ids
    BY DEF Reverted, Settled
  <2>2. Settled \subseteq Profiles /\ Cardinality(Settled) <= MaxActive
    BY <2>1, FewerActive
  <2>3. TypeOK'
    BY <1>6, <2>1, <2>2 DEF ApplyFails, TypeOK, forwarder, runtime, signal
  <2>4. ThreadInv'
    BY <1>6, <2>1 DEF ApplyFails, ThreadInv, AtRest, Applying, Joining, forwarder
  <2>5. SlotInv'
    BY <1>6, <2>1 DEF ApplyFails, SlotInv, AtRest, Applying, forwarder, runtime
  <2> QED
    BY <2>3, <2>4, <2>5
<1>7. CASE StartFails
  <2>1. Reverted = Settled /\ Settled \in SUBSET active_ids
    BY DEF Reverted, Settled
  <2>2. Settled \subseteq Profiles /\ Cardinality(Settled) <= MaxActive
    BY <2>1, FewerActive
  <2>3. TypeOK'
    BY <1>7, <2>1, <2>2 DEF StartFails, TypeOK, forwarder, runtime, signal
  <2>4. ThreadInv'
    BY <1>7, <2>1 DEF StartFails, ThreadInv, AtRest, Applying, Joining, forwarder
  <2>5. SlotInv'
    BY <1>7, <2>1 DEF StartFails, ThreadInv, SlotInv, AtRest, Applying, Started, Alive, forwarder, runtime
  <2> QED
    BY <2>3, <2>4, <2>5
<1>8. CASE StartForwarder
  <2>1. TypeOK'
    BY <1>8 DEF StartForwarder, TypeOK, Alive, runtime, signal
  <2>2. ThreadInv'
    BY <1>8 DEF StartForwarder, ThreadInv, AtRest, Applying, Joining, Settled
  <2>3. SlotInv'
    BY <1>8 DEF StartForwarder, TypeOK, SlotInv, AtRest, Applying, Started
  <2> QED
    BY <2>1, <2>2, <2>3
<1>9. CASE FillSlot
  <2>1. TypeOK'
    BY <1>0, <1>9 DEF FillSlot, TypeOK, forwarder, runtime, signal
  <2>2. ThreadInv'
    BY <1>9 DEF FillSlot, ThreadInv, AtRest, Applying, Joining, Settled, forwarder
  <2>3. SlotInv'
    BY <1>0, <1>9 DEF FillSlot, TypeOK, SlotInv, AtRest, Applying, Settled, forwarder, runtime, next_slot
  <2> QED
    BY <2>1, <2>2, <2>3
<1>10. CASE ReloadAccepted
  <2>1. TypeOK'
    BY <1>10 DEF ReloadAccepted, TypeOK, forwarder, runtime, signal
  <2>2. ThreadInv' /\ SlotInv'
    BY <1>10 DEF ReloadAccepted, ThreadInv, SlotInv, AtRest, Applying, Joining, Settled,
                 forwarder, runtime, next_slot
  <2> QED
    BY <2>1, <2>2
<1>11. CASE ReloadCommit
  <2>1. TypeOK'
    <3>1. contexts' \subseteq Profiles /\ crypto_enabled' \in BOOLEAN
      BY <1>0, <1>11 DEF ReloadCommit, TypeOK, Policies
    <3> QED
      BY <1>0, <1>11, <3>1 DEF ReloadCommit, TypeOK, forwarder, signal
  <2>2. ThreadInv'
    BY <1>11 DEF ReloadCommit, ThreadInv, AtRest, Applying, Joining, Settled, forwarder
  <2>3. SlotInv'
    BY <1>0, <1>11 DEF ReloadCommit, SlotInv, AtRest, Applying, Settled, forwarder
  <2> QED
    BY <2>1, <2>2, <2>3
<1>12. CASE Join
  <2>1. TypeOK'
    <3>1. mpc' \in {"drain", "exited"} /\ has_thread' \in BOOLEAN
      BY <1>12 DEF Join
    <3>2. UNCHANGED <<inbox, cur, loading, active_ids, active_slot, slots,
                      forwarder, runtime, running, signal>>
      BY <1>12 DEF Join
    <3> QED
      BY <3>1, <3>2 DEF TypeOK, forwarder, runtime, signal
  <2>2. ThreadInv'
    BY <1>12 DEF Join, Joined, Alive, ThreadInv, forwarder, AtRest, Applying, Joining
  <2>3. SlotInv'
    BY <1>12 DEF Join, SlotInv, forwarder, runtime, next_slot, AtRest, Applying, Joining, Started
  <2> QED
    BY <2>1, <2>2, <2>3
<1>13. CASE Shutdown
  <2>1. TypeOK'
    BY ZenonT(30), <1>13 DEF Shutdown, TypeOK, Joining, forwarder, runtime, signal
  <2>2. ThreadInv' /\ SlotInv'
    BY <1>13 DEF Shutdown, ThreadInv, SlotInv, AtRest, Applying, Joining, forwarder, runtime, next_slot
  <2> QED
    BY <2>1, <2>2
<1>14. CASE MergeFails \/ ReloadFails
  BY <1>6, <1>14 DEF MergeFails, ReloadFails
<1> QED
  BY <1>1, <1>2, <1>3, <1>4, <1>5, <1>7, <1>8, <1>9, <1>10, <1>11, <1>12, <1>13, <1>14 DEF Main

\* Steps of the forwarder thread and of the signal handler.
LEMMA ForwarderDInv ==
  ASSUME DInv, Forwarder \/ SignalFlag \/ SignalStop
  PROVE  DInv'
<1> USE DEF DInv
<1>1. ASSUME NEW from \in Alive, NEW to \in Alive \cup {"exited"}, Goes(from, to),
             to \in Started => from \in Started
      PROVE  DInv'
  <2>1. TypeOK'
    BY <1>1 DEF Goes, TypeOK, main, runtime, signal
  <2>2. ThreadInv'
    BY <1>1 DEF Goes, ThreadInv, Alive, main, Settled
  <2>3. SlotInv'
    BY <1>1 DEF Goes, SlotInv, main, runtime, Settled, next_slot
  <2> QED
    BY <2>1, <2>2, <2>3
<1>2. CASE InitBegin
  <2>1. TypeOK'
    BY <1>2 DEF InitBegin, TypeOK, Alive, main, signal
  <2>2. ThreadInv' /\ SlotInv'
    BY <1>2 DEF InitBegin, Alive, ThreadInv, SlotInv, main, Settled, next_slot
  <2> QED
    BY <2>1, <2>2
<1>3. CASE InitBuild
  <2>1. TypeOK'
    BY <1>3 DEF InitBuild, TypeOK, Alive, Policies, main, signal
  <2>2. ThreadInv' /\ SlotInv'
    BY <1>3 DEF InitBuild, Alive, ThreadInv, SlotInv, Started, main, Settled, next_slot
  <2> QED
    BY <2>1, <2>2
<1>4. CASE RunStarts
  <2>1. TypeOK'
    BY <1>4 DEF RunStarts, TypeOK, Alive, main, runtime, signal
  <2>2. ThreadInv' /\ SlotInv'
    BY <1>4 DEF RunStarts, Alive, ThreadInv, SlotInv, Started, main, runtime, Settled, next_slot
  <2> QED
    BY <2>1, <2>2
<1>5. CASE SignalFlag \/ SignalStop
  <2>1. TypeOK'
    BY ZenonT(30), <1>5 DEF SignalFlag, SignalStop, TypeOK, main, forwarder, runtime, signal
  <2>2. ThreadInv' /\ SlotInv'
    BY <1>5 DEF SignalFlag, SignalStop, ThreadInv, SlotInv, main, forwarder, runtime,
                Settled, next_slot
  <2> QED
    BY <2>1, <2>2
<1>6. CASE \/ InitAborted \/ InitFails \/ InitDone \/ Aborted \/ CallsRun
           \/ RunRefused \/ RunChecked \/ RunEnds
  <2>1. \/ Goes("start", "exited")
        \/ \E from \in Started, to \in Started \cup {"exited"} : Goes(from, to)
    <3>1. InitAborted => Goes("start", "exited")
      BY DEF InitAborted
    <3>2. InitFails \/ InitDone => Goes("bringup", "exited") \/ Goes("bringup", "ready")
      BY DEF InitFails, InitDone
    <3>3. Aborted \/ CallsRun => Goes("ready", "exited") \/ Goes("ready", "run")
      BY DEF Aborted, CallsRun
    <3>4. RunRefused \/ RunChecked => Goes("run", "exited") \/ Goes("run", "checked")
      BY DEF RunRefused, RunChecked
    <3>5. RunEnds => Goes("loop", "exited")
      BY DEF RunEnds
    <3>6. {"bringup", "ready", "run", "checked", "loop"} \subseteq Started
      BY DEF Started
    <3> QED
      BY <1>6, <3>1, <3>2, <3>3, <3>4, <3>5, <3>6
  <2>2. Started \subseteq Alive /\ "start" \in Alive /\ "exited" \notin Started
    BY DEF Started, Alive
  <2> QED
    BY <1>1, <2>1, <2>2
<1> QED
  BY <1>2, <1>3, <1>4, <1>5, <1>6 DEF Forwarder

\* Every step of main.c's main thread, of forwarder_thread_main and of
\* on_stop_signal keeps DInv.
THEOREM StepDInv == DInv /\ [Next]_vars => DInv'
<1>1. CASE UNCHANGED vars
  BY <1>1 DEF DInv, TypeOK, ThreadInv, SlotInv, Settled, next_slot, vars, main, forwarder,
              runtime, signal
<1> QED
  BY <1>1, MainDInv, ForwarderDInv DEF Next

\* The variables of main.c and forwarder.c keep their types: above all the active
\* ids fit struct runtime_state, and fwd->cfg is NULL or one of the two slots.
THEOREM DaemonTypeCorrect == Spec => []TypeOK
<1>1. Spec => []DInv
  BY InitDInv, StepDInv, PTL DEF Spec
<1>2. DInv => TypeOK
  BY DEF DInv
<1> QED
  BY <1>1, <1>2, PTL

\* Between two notifications there is a forwarder thread exactly when a profile
\* is active, and the configuration of a running one contains every profile that
\* load_profile_and_run still calls active, whatever load_profile_and_run and
\* handle_profile_notify met before.
THEOREM ProfilesServedCorrect == Spec => []ProfilesServed
<1>1. Spec => []DInv
  BY InitDInv, StepDInv, PTL DEF Spec
<1>2. DInv => ThreadIffProfiles
  BY DEF DInv, ThreadInv, AtRest, ThreadIffProfiles
<1>3. DInv => ActiveServed
  BY DEF DInv, ThreadInv, SlotInv, AtRest, Started, ActiveServed
<1>4. DInv => ProfilesServed
  BY <1>2, <1>3 DEF ProfilesServed
<1> QED
  BY <1>1, <1>4, PTL

\* apply_active_configs and runtime_start never write the slot that a running
\* forwarder reads, and no forwarder is started beside another.
THEOREM SlotsAndThreadsCorrect == Spec => ForwarderUndisturbed
<1>1. Spec => []DInv
  BY InitDInv, StepDInv, PTL DEF Spec
<1>2. ASSUME DInv, [Next]_vars
      PROVE  /\ [fpc = "loop" => slots'[fwd_cfg] = slots[fwd_cfg]]_vars
             /\ [fpc' = "start" /\ fpc # "start" => fpc \notin Alive]_vars
  <2>1. CASE UNCHANGED slots /\ (fpc' = "start" => fpc = "start")
    BY <2>1
  <2>2. CASE StartForwarder \/ StartFails
    <3>1. fpc \notin Alive
      BY <1>2, <2>2 DEF StartForwarder, StartFails, DInv, ThreadInv
    <3> QED
      BY <3>1 DEF Alive
  <2>3. CASE FillSlot
    <3>1. fpc = "loop" => fwd_cfg # next_slot /\ fwd_cfg \in {0, 1}
      BY <1>2 DEF DInv, TypeOK, SlotInv, Started, next_slot
    <3>2. fpc' = fpc
      BY <2>3 DEF FillSlot, forwarder
    <3> QED
      BY <1>2, <2>3, <3>1, <3>2 DEF FillSlot, DInv, TypeOK
  <2>4. CASE Forwarder \/ SignalFlag \/ SignalStop \/ UNCHANGED vars
    <3>1. UNCHANGED slots /\ (fpc' = "start" => fpc = "start")
      BY <2>4 DEF Forwarder, InitAborted, InitBegin, InitBuild, InitFails, InitDone, Aborted,
                  CallsRun, RunRefused, RunChecked, RunStarts, RunEnds, Goes, SignalFlag,
                  SignalStop, vars, forwarder
    <3> QED
      BY <2>1, <3>1
  <2>5. CASE \/ \E n \in 1 .. MaxInbox : Consume(n)
             \/ \E p \in Profiles, exists \in BOOLEAN : Handle(p, exists)
             \/ Drained \/ Load \/ Unload \/ MergeFails \/ ReloadFails
             \/ ReloadAccepted \/ ReloadCommit \/ Join \/ Shutdown
    <3>1. UNCHANGED slots /\ (fpc' = "start" => fpc = "start")
      BY <2>5 DEF Consume, Handle, Drained, Load, Unload, MergeFails, ReloadFails, ApplyFails,
                  ReloadAccepted, ReloadCommit, Join, Shutdown, forwarder
    <3> QED
      BY <2>1, <3>1
  <2> QED
    BY <1>2, <2>2, <2>3, <2>4, <2>5 DEF Next, Main
<1> QED
  BY <1>1, <1>2, PTL DEF Spec, ForwarderUndisturbed, LiveConfigStable, OneForwarder

=============================================================================
