---------------------------- MODULE KeepWarmProofs ----------------------------
(***************************************************************************)
(* Proofs about the holders of the accelerator, for any finite set of      *)
(* requests, any models and any number of operations and saves.            *)
(***************************************************************************)
EXTENDS KeepWarm, FiniteSetTheorems, TLAPS

-----------------------------------------------------------------------------
(* The inductive invariant.                                                *)

\* A request that is counted has not been counted off; one that switches or
\* streams has a model to switch to or to stream from; the one whose load is in
\* progress holds the gate.
RequestInv ==
  \A q \in Requests :
    /\ Tracked(q) \/ req[q] \in {"new", "pending"} => q \notin ended \cup untracked
    /\ req[q] = "external" => q \in untracked
    /\ req[q] = "framed" => q \in ended
    /\ req[q] = "switch" => want[q] \in Models
    /\ req[q] = "serving" => using[q] # NoModel
    /\ req[q] = "loading" <=> gate = q

\* The load route and the image route hold the slot for as long as they run,
\* and a load that holds it has had ComfyUI's memory freed.
SlotInv ==
  /\ loader # "none" <=> slot = "loader"
  /\ image # "none" <=> slot = "image"
  /\ loader # "none" => ~comfy

\* What the holder of the gate knows of the model while it holds it.
ModelInv ==
  /\ load.phase # "none" => load.want \in Models
  /\ load.phase \in {"loading", "cancelled"} => model = NoModel
  /\ load.phase \in {"noting", "restoring"} => model # NoModel
  /\ idle \in {"saving", "saved", "unloading"} => model # NoModel
  /\ idle = "unloaded" => model = NoModel
  /\ idle \in {"unloading", "unloaded"} => inflight = 0
  /\ stash # NoModel /\ model # NoModel => load.phase = "noting"

\* A manifest is in hand only between its save and its use, and the next one
\* is new.
FilesInv ==
  /\ FilesHaveOneOwner
  /\ files \subseteq 1 .. saves
  /\ idleFile # 0 => idle \in {"saved", "unloading", "unloaded"}
  /\ load.file # 0 => load.phase = "restoring"

\* The inductive invariant.
IInv ==
  /\ TypeOK /\ CountersAreTrue /\ GateIsHeldForWork
  /\ RequestInv /\ SlotInv /\ ModelInv /\ StreamsAreSpared /\ FilesInv

-----------------------------------------------------------------------------
(* The counters.                                                            *)

\* The requests that wait at the gate, and those that are counted.
Pending == {q \in Requests : req[q] = "pending"}
InFlight == {q \in Requests : Tracked(q)}

\* Both are sets of requests.
LEMMA SomeRequests == Pending \in SUBSET Requests /\ InFlight \in SUBSET Requests
BY DEF Pending, InFlight

\* Some of the requests are finitely many, and at most all of them.
LEMMA RequestsCount ==
  ASSUME NEW S \in SUBSET Requests
  PROVE  IsFiniteSet(S) /\ Cardinality(S) \in 0 .. Cardinality(Requests)
<1>1. IsFiniteSet(Requests)
  BY RequestsAssumption DEF Requests
<1>2. IsFiniteSet(S) /\ Cardinality(S) <= Cardinality(Requests)
  BY <1>1, FS_Subset
<1>3. QED
  BY <1>1, <1>2, FS_CardinalityType

\* One request more, or one less, is a count of one more or less.
LEMMA OneMore ==
  ASSUME NEW S \in SUBSET Requests, NEW q \in Requests
  PROVE  /\ q \notin S => Cardinality(S \cup {q}) = Cardinality(S) + 1
         /\ q \in S => Cardinality(S \ {q}) = OneLess(Cardinality(S))
<1>1. IsFiniteSet(S) /\ Cardinality(S) \in Nat
  BY RequestsCount
<1>2. q \notin S => Cardinality(S \cup {q}) = Cardinality(S) + 1
  BY <1>1, FS_AddElement
<1>3. ASSUME q \in S PROVE Cardinality(S \ {q}) = OneLess(Cardinality(S))
  <2>1. Cardinality(S \ {q}) = Cardinality(S) - 1
    BY <1>1, <1>3, FS_RemoveElement
  <2>2. Cardinality(S \ {q}) \in Nat
    BY RequestsCount
  <2>3. QED
    BY <1>1, <2>1, <2>2 DEF OneLess
<1>4. QED
  BY <1>2, <1>3

\* No request and no model goes by the name of another holder.
LEMMA Names ==
  /\ \A q \in Requests : q \notin {"free", "loader", "image", "idle"}
  /\ \A q \in Chats : q \in Requests
  /\ \A m \in Models : m \notin {"none", "loading", NoModel}
BY RequestsAssumption, ModelAssumption DEF Requests

\* The manifests go by numbers, 0 for none.
LEMMA ManifestNumbers ==
  0 \in Manifests /\ \A n \in Manifests : n < MaxSaves => n + 1 \in Manifests
BY BoundsAssumption DEF Manifests

\* A reload is a switch to a model that was there.
LEMMA ReloadIsASwitch ==
  ASSUME TypeOK, NEW q \in Requests, NeedReload(q)
  PROVE  \E m \in Models : NeedSwitch(q, m)
BY DEF TypeOK, NeedReload

\* Where the guard of a switch finds no one else, nobody streams: the others
\* that are counted all wait for the same switch.
LEMMA OnlySwitchers ==
  ASSUME CountersAreTrue, NEW q \in Requests, req[q] = "switch",
         inflight - 1 <= Cardinality(SameTarget(q))
  PROVE  \A x \in Requests : req[x] # "serving"
<1> DEFINE Same == SameTarget(q) \cup {q}
<1>1. SameTarget(q) \in SUBSET Requests /\ Same \in SUBSET Requests /\ q \notin SameTarget(q)
  BY DEF SameTarget
<1>2. Cardinality(Same) = Cardinality(SameTarget(q)) + 1
  BY <1>1, OneMore
<1>3. Same \subseteq InFlight
  BY DEF SameTarget, InFlight, Tracked
<1>4. /\ IsFiniteSet(InFlight) /\ Cardinality(InFlight) \in Nat
      /\ Cardinality(Same) \in Nat /\ Cardinality(SameTarget(q)) \in Nat
  BY <1>1, SomeRequests, RequestsCount
<1>5. inflight = Cardinality(InFlight)
  BY DEF CountersAreTrue, InFlight
<1>6. Cardinality(Same) <= Cardinality(InFlight)
  BY <1>3, <1>4, FS_Subset
<1>7. Cardinality(Same) = Cardinality(InFlight)
  BY <1>2, <1>4, <1>5, <1>6
<1>8. Same = InFlight
  BY <1>3, <1>4, <1>7, FS_Subset
<1>9. QED
  BY <1>8 DEF SameTarget, InFlight, Tracked

\* Type correctness in parts: who holds what, the requests and ComfyUI, the model,
\* its load, its saved slots, and the counters, which count sets of requests.
HolderTypes ==
  /\ slot \in Chats \cup {"free", "loader", "image"}
  /\ gate \in Requests \cup {"free", "loader", "image", "idle"}
  /\ purging \in BOOLEAN
  /\ loader \in Models \cup {"none", "loading"}
  /\ image \in {"none", "image", "unloading", "generating"}
  /\ settings \in [ttl : BOOLEAN, keep : BOOLEAN]
  /\ ops \in 0 .. MaxOps

RequestTypes ==
  /\ rested \in BOOLEAN /\ comfy \in BOOLEAN
  /\ req \in [Requests -> RequestPlaces]
  /\ want \in [Requests -> Models \cup {NoModel}]
  /\ using \in [Requests -> Models \cup {NoModel}]
  /\ ended \cup untracked \cup torn \subseteq Requests

ModelTypes ==
  /\ model \in Models \cup {NoModel}
  /\ seen \in Models \cup {NoModel}
  /\ stash \in Models \cup {NoModel}
  /\ idle \in IdlePlaces

LoadTypes == load \in [phase : LoadPhases, want : Models \cup {NoModel}, file : Manifests]

FileTypes ==
  /\ idleFile \in Manifests /\ resume \in Manifests /\ saves \in Manifests
  /\ files \subseteq Manifests

\* They make up TypeOK.
LEMMA TypesTogether ==
  TypeOK <=> /\ HolderTypes /\ RequestTypes /\ ModelTypes
             /\ LoadTypes /\ FileTypes
             /\ inflight \in 0 .. Cardinality(Requests)
             /\ waiting \in 0 .. Cardinality(Requests)
BY DEF TypeOK, HolderTypes, RequestTypes, ModelTypes, LoadTypes, FileTypes

-----------------------------------------------------------------------------
(* The steps.                                                               *)

\* The two routes keep the slot while they run.
LEMMA SlotStep ==
  IInv /\ [Next]_vars => SlotInv'
<1> SUFFICES ASSUME TypeOK, SlotInv, GateIsHeldForWork, [Next]_vars
             PROVE  SlotInv'
  BY DEF IInv
<1>1. ASSUME NEW q \in Requests, Arrive(q) PROVE SlotInv'
  BY <1>1, Names DEF Arrive, ReqGoes, userVars, SlotInv, TypeOK, GateIsHeldForWork
<1>2. ASSUME NEW q \in Requests, LeaveGate(q) PROVE SlotInv'
  BY <1>2, Names DEF LeaveGate, ReqGoes, FreeSlot, userVars, SlotInv, TypeOK,
         GateIsHeldForWork
<1>3. ASSUME NEW q \in Requests, Return(q) PROVE SlotInv'
  BY <1>3, Names DEF Return, ReqGoes, Finish, FreeSlot, userVars, SlotInv, TypeOK,
         GateIsHeldForWork
<1>4. ASSUME LoadFails PROVE SlotInv'
  BY <1>4, Names DEF LoadFails, NoLoad, SlotInv, TypeOK, GateIsHeldForWork
<1>5. ASSUME LoadEnds PROVE SlotInv'
  BY <1>5, Names DEF LoadEnds, NoLoad, SlotInv, TypeOK, GateIsHeldForWork
<1>6. ASSUME LoadUnderGate PROVE SlotInv'
  BY <1>6, Names DEF LoadUnderGate, TearDown, NoLoad, SlotInv, TypeOK,
         GateIsHeldForWork
<1>7. ASSUME LoadRefused PROVE SlotInv'
  BY <1>7, Names DEF LoadRefused, SlotInv, TypeOK, GateIsHeldForWork
<1>8. ASSUME NEW m \in Models, LoadRoute(m) PROVE SlotInv'
  BY <1>8, Names DEF LoadRoute, Count, SlotInv, TypeOK, GateIsHeldForWork
<1>9. ASSUME ImageRoute PROVE SlotInv'
  BY <1>9, Names DEF ImageRoute, Count, SlotInv, TypeOK, GateIsHeldForWork
<1>10. ASSUME ImageTakesGate PROVE SlotInv'
  BY <1>10, Names DEF ImageTakesGate, SlotInv, TypeOK, GateIsHeldForWork
<1>11. ASSUME ImageUnloads PROVE SlotInv'
  BY <1>11, Names DEF ImageUnloads, ForgetUnloaded, TearDown, SlotInv, TypeOK,
         GateIsHeldForWork
<1>12. ASSUME Generate PROVE SlotInv'
  BY <1>12, Names DEF Generate, userVars, SlotInv, TypeOK, GateIsHeldForWork
<1>13. ASSUME ImageEnds PROVE SlotInv'
  BY <1>13, Names DEF ImageEnds, SlotInv, TypeOK, GateIsHeldForWork
<1>14. ASSUME Release PROVE SlotInv'
  BY <1>14, Names DEF Release, Count, SlotInv, TypeOK, GateIsHeldForWork
<1>15. ASSUME \/ Rest
              \/ (\E q \in Requests : Start(q))
              \/ (\E q \in Requests : Untrack(q))
              \/ (\E q \in Requests, m \in Models : NeedSwitch(q, m))
              \/ (\E q \in Requests : Serve(q))
              \/ (\E q \in Requests : LastFrame(q))
              \/ (\E q \in Requests : AlreadyServing(q))
              \/ (\E q \in Requests : SwitchBusy(q))
              \/ (\E q \in Requests : Switch(q))
              \/ LoadSucceeds
              \/ NoteLoaded
              \/ IdleLook
              \/ IdleBegin
              \/ IdleSave
              \/ IdleStays
              \/ IdleUnload
              \/ Unloaded
              \/ UnloadRaises
              \/ IdleStash
              \/ Unload
              \/ CancelLoad
              \/ Purge
              \/ (\E ttl, keep \in BOOLEAN : Settings(ttl, keep))
              \/ UNCHANGED vars
       PROVE  SlotInv'
  <2>1. UNCHANGED <<loader, slot, image, comfy>>
    BY <1>15 DEF Rest, Start, Untrack, NeedSwitch, Serve, LastFrame, AlreadyServing,
           SwitchBusy, Switch, LoadSucceeds, NoteLoaded, IdleLook, IdleBegin,
           IdleSave, IdleStays, IdleUnload, Unloaded, UnloadRaises, IdleStash,
           Unload, CancelLoad, Purge, Settings, vars, idleVars, requestVars,
           storeVars, userVars
  <2>2. QED
    BY <2>1 DEF SlotInv
<1>16. QED
  BY <1>1, <1>2, <1>3, <1>4, <1>5, <1>6, <1>7, <1>8, <1>9, <1>10, <1>11, <1>12,
     <1>13, <1>14, <1>15, ReloadIsASwitch
     DEF Next, RouteStep, SwitchStep, LoadStep, IdleStep

\* The gate is held by whoever is at work under it.
LEMMA GateStep ==
  IInv /\ [Next]_vars => GateIsHeldForWork'
<1> SUFFICES ASSUME TypeOK, GateIsHeldForWork, SlotInv, [Next]_vars
             PROVE  GateIsHeldForWork'
  BY DEF IInv
<1>1. ASSUME NEW q \in Requests, Switch(q) PROVE GateIsHeldForWork'
  BY <1>1, Names DEF Switch, ReqGoes, NoLoad, idleVars, userVars, GateIsHeldForWork,
         SlotInv, TypeOK
<1>2. ASSUME LoadFails PROVE GateIsHeldForWork'
  BY <1>2, Names DEF LoadFails, NoLoad, idleVars, GateIsHeldForWork, SlotInv, TypeOK
<1>3. ASSUME LoadSucceeds PROVE GateIsHeldForWork'
  BY <1>3, Names DEF LoadSucceeds, idleVars, userVars, GateIsHeldForWork, SlotInv,
         TypeOK
<1>4. ASSUME NoteLoaded PROVE GateIsHeldForWork'
  BY <1>4, Names DEF NoteLoaded, idleVars, userVars, GateIsHeldForWork, SlotInv,
         TypeOK
<1>5. ASSUME LoadEnds PROVE GateIsHeldForWork'
  BY <1>5, Names DEF LoadEnds, NoLoad, idleVars, GateIsHeldForWork, SlotInv, TypeOK
<1>6. ASSUME IdleBegin PROVE GateIsHeldForWork'
  BY <1>6, Names DEF IdleBegin, Idle, IdleGoes, userVars, GateIsHeldForWork,
         SlotInv, TypeOK
<1>7. ASSUME IdleSave PROVE GateIsHeldForWork'
  BY <1>7, Names DEF IdleSave, IdleGoes, userVars, GateIsHeldForWork, SlotInv,
         TypeOK
<1>8. ASSUME IdleStays PROVE GateIsHeldForWork'
  BY <1>8, Names DEF IdleStays, IdleGoes, IdleDropsFiles, userVars,
         GateIsHeldForWork, SlotInv, TypeOK
<1>9. ASSUME IdleUnload PROVE GateIsHeldForWork'
  BY <1>9, Names DEF IdleUnload, IdleGoes, IdleDropsFiles, Idle, userVars,
         GateIsHeldForWork, SlotInv, TypeOK
<1>10. ASSUME Unloaded PROVE GateIsHeldForWork'
  BY <1>10, Names DEF Unloaded, IdleGoes, userVars, GateIsHeldForWork, SlotInv,
         TypeOK
<1>11. ASSUME UnloadRaises PROVE GateIsHeldForWork'
  BY <1>11, Names DEF UnloadRaises, IdleGoes, IdleDropsFiles, userVars,
         GateIsHeldForWork, SlotInv, TypeOK
<1>12. ASSUME IdleStash PROVE GateIsHeldForWork'
  BY <1>12, Names DEF IdleStash, IdleGoes, userVars, GateIsHeldForWork, SlotInv,
         TypeOK
<1>13. ASSUME CancelLoad PROVE GateIsHeldForWork'
  BY <1>13, Names DEF CancelLoad, Count, ForgetUnloaded, idleVars,
         GateIsHeldForWork, SlotInv, TypeOK
<1>14. ASSUME LoadUnderGate PROVE GateIsHeldForWork'
  BY <1>14, Names DEF LoadUnderGate, TearDown, NoLoad, idleVars, GateIsHeldForWork,
         SlotInv, TypeOK
<1>15. ASSUME LoadRefused PROVE GateIsHeldForWork'
  BY <1>15, Names DEF LoadRefused, idleVars, GateIsHeldForWork, SlotInv, TypeOK
<1>16. ASSUME NEW m \in Models, LoadRoute(m) PROVE GateIsHeldForWork'
  BY <1>16, Names DEF LoadRoute, Count, idleVars, GateIsHeldForWork, SlotInv, TypeOK
<1>17. ASSUME ImageRoute PROVE GateIsHeldForWork'
  BY <1>17, Names DEF ImageRoute, Count, idleVars, GateIsHeldForWork, SlotInv,
         TypeOK
<1>18. ASSUME ImageTakesGate PROVE GateIsHeldForWork'
  BY <1>18, Names DEF ImageTakesGate, idleVars, GateIsHeldForWork, SlotInv, TypeOK
<1>19. ASSUME ImageUnloads PROVE GateIsHeldForWork'
  BY <1>19, Names DEF ImageUnloads, ForgetUnloaded, TearDown, idleVars,
         GateIsHeldForWork, SlotInv, TypeOK
<1>20. ASSUME ImageEnds PROVE GateIsHeldForWork'
  BY <1>20, Names DEF ImageEnds, idleVars, GateIsHeldForWork, SlotInv, TypeOK
<1>21. ASSUME \/ Rest
              \/ (\E q \in Requests : Arrive(q))
              \/ (\E q \in Requests : LeaveGate(q))
              \/ (\E q \in Requests : Start(q))
              \/ (\E q \in Requests : Untrack(q))
              \/ (\E q \in Requests, m \in Models : NeedSwitch(q, m))
              \/ (\E q \in Requests : Serve(q))
              \/ (\E q \in Requests : LastFrame(q))
              \/ (\E q \in Requests : Return(q))
              \/ (\E q \in Requests : AlreadyServing(q))
              \/ (\E q \in Requests : SwitchBusy(q))
              \/ IdleLook
              \/ Unload
              \/ Generate
              \/ Release
              \/ Purge
              \/ (\E ttl, keep \in BOOLEAN : Settings(ttl, keep))
              \/ UNCHANGED vars
       PROVE  GateIsHeldForWork'
  <2>1. UNCHANGED <<gate, idle, image, load, loader>>
    BY <1>21 DEF Rest, Arrive, LeaveGate, Start, Untrack, NeedSwitch, Serve,
           LastFrame, Return, AlreadyServing, SwitchBusy, IdleLook, Unload,
           Generate, Release, Purge, Settings, vars, idleVars, requestVars,
           storeVars, userVars
  <2>2. QED
    BY <2>1 DEF GateIsHeldForWork
<1>22. QED
  BY <1>1, <1>2, <1>3, <1>4, <1>5, <1>6, <1>7, <1>8, <1>9, <1>10, <1>11, <1>12,
     <1>13, <1>14, <1>15, <1>16, <1>17, <1>18, <1>19, <1>20, <1>21, ReloadIsASwitch
     DEF Next, RouteStep, SwitchStep, LoadStep, IdleStep

\* Every manifest keeps its one owner.
LEMMA FilesStep ==
  IInv /\ [Next]_vars => FilesInv'
<1> SUFFICES ASSUME TypeOK, FilesInv, GateIsHeldForWork, [Next]_vars
             PROVE  FilesInv'
  BY DEF IInv
<1>1. ASSUME NEW q \in Requests, Switch(q) PROVE FilesInv'
  BY <1>1, Names, BoundsAssumption DEF Switch, ReqGoes, NoLoad, storeVars, idleVars,
         FilesInv, FilesHaveOneOwner, GateIsHeldForWork, TypeOK, Manifests
<1>2. ASSUME LoadFails PROVE FilesInv'
  BY <1>2, Names, BoundsAssumption DEF LoadFails, NoLoad, storeVars, idleVars,
         FilesInv, FilesHaveOneOwner, GateIsHeldForWork, TypeOK, Manifests
<1>3. ASSUME LoadSucceeds PROVE FilesInv'
  BY <1>3, Names, BoundsAssumption DEF LoadSucceeds, storeVars, idleVars, FilesInv,
         FilesHaveOneOwner, GateIsHeldForWork, TypeOK, Manifests
<1>4. ASSUME NoteLoaded PROVE FilesInv'
  BY <1>4, Names, BoundsAssumption DEF NoteLoaded, idleVars, FilesInv,
         FilesHaveOneOwner, GateIsHeldForWork, TypeOK, Manifests
<1>5. ASSUME LoadEnds PROVE FilesInv'
  BY <1>5, Names, BoundsAssumption DEF LoadEnds, NoLoad, idleVars, FilesInv,
         FilesHaveOneOwner, GateIsHeldForWork, TypeOK, Manifests
<1>6. ASSUME IdleLook PROVE FilesInv'
  BY <1>6, Names, BoundsAssumption DEF IdleLook, ForgetUnloaded, storeVars,
         FilesInv, FilesHaveOneOwner, GateIsHeldForWork, TypeOK, Manifests
<1>7. ASSUME IdleBegin PROVE FilesInv'
  BY <1>7, Names, BoundsAssumption DEF IdleBegin, Idle, IdleGoes, storeVars,
         FilesInv, FilesHaveOneOwner, GateIsHeldForWork, TypeOK, Manifests
<1>8. ASSUME IdleSave PROVE FilesInv'
  BY <1>8, Names, BoundsAssumption DEF IdleSave, IdleGoes, FilesInv,
         FilesHaveOneOwner, GateIsHeldForWork, TypeOK, Manifests
<1>9. ASSUME IdleStays PROVE FilesInv'
  BY <1>9, Names, BoundsAssumption DEF IdleStays, IdleGoes, IdleDropsFiles,
         FilesInv, FilesHaveOneOwner, GateIsHeldForWork, TypeOK, Manifests
<1>10. ASSUME IdleUnload PROVE FilesInv'
  BY <1>10, Names, BoundsAssumption DEF IdleUnload, IdleGoes, IdleDropsFiles, Idle,
         FilesInv, FilesHaveOneOwner, GateIsHeldForWork, TypeOK, Manifests
<1>11. ASSUME Unloaded PROVE FilesInv'
  BY <1>11, Names, BoundsAssumption DEF Unloaded, IdleGoes, storeVars, FilesInv,
         FilesHaveOneOwner, GateIsHeldForWork, TypeOK, Manifests
<1>12. ASSUME UnloadRaises PROVE FilesInv'
  BY <1>12, Names, BoundsAssumption DEF UnloadRaises, IdleGoes, IdleDropsFiles,
         FilesInv, FilesHaveOneOwner, GateIsHeldForWork, TypeOK, Manifests
<1>13. ASSUME IdleStash PROVE FilesInv'
  BY <1>13, Names, BoundsAssumption DEF IdleStash, IdleGoes, FilesInv,
         FilesHaveOneOwner, GateIsHeldForWork, TypeOK, Manifests
<1>14. ASSUME Unload PROVE FilesInv'
  BY <1>14, Names, BoundsAssumption DEF Unload, Count, ForgetUnloaded, TearDown,
         idleVars, FilesInv, FilesHaveOneOwner, GateIsHeldForWork, TypeOK, Manifests
<1>15. ASSUME CancelLoad PROVE FilesInv'
  BY <1>15, Names, BoundsAssumption DEF CancelLoad, Count, ForgetUnloaded, idleVars,
         FilesInv, FilesHaveOneOwner, GateIsHeldForWork, TypeOK, Manifests
<1>16. ASSUME LoadUnderGate PROVE FilesInv'
  BY <1>16, Names, BoundsAssumption DEF LoadUnderGate, TearDown, NoLoad, storeVars,
         idleVars, FilesInv, FilesHaveOneOwner, GateIsHeldForWork, TypeOK, Manifests
<1>17. ASSUME ImageUnloads PROVE FilesInv'
  BY <1>17, Names, BoundsAssumption DEF ImageUnloads, ForgetUnloaded, TearDown,
         storeVars, idleVars, FilesInv, FilesHaveOneOwner, GateIsHeldForWork,
         TypeOK, Manifests
<1>18. ASSUME Purge PROVE FilesInv'
  BY <1>18, Names, BoundsAssumption DEF Purge, idleVars, FilesInv,
         FilesHaveOneOwner, GateIsHeldForWork, TypeOK, Manifests
<1>19. ASSUME \/ Rest
              \/ (\E q \in Requests : Arrive(q))
              \/ (\E q \in Requests : LeaveGate(q))
              \/ (\E q \in Requests : Start(q))
              \/ (\E q \in Requests : Untrack(q))
              \/ (\E q \in Requests, m \in Models : NeedSwitch(q, m))
              \/ (\E q \in Requests : Serve(q))
              \/ (\E q \in Requests : LastFrame(q))
              \/ (\E q \in Requests : Return(q))
              \/ (\E q \in Requests : AlreadyServing(q))
              \/ (\E q \in Requests : SwitchBusy(q))
              \/ LoadRefused
              \/ (\E m \in Models : LoadRoute(m))
              \/ ImageRoute
              \/ ImageTakesGate
              \/ Generate
              \/ ImageEnds
              \/ Release
              \/ (\E ttl, keep \in BOOLEAN : Settings(ttl, keep))
              \/ UNCHANGED vars
       PROVE  FilesInv'
  <2>1. UNCHANGED <<resume, idleFile, load, files, saves, idle>>
    BY <1>19 DEF Rest, Arrive, LeaveGate, Start, Untrack, NeedSwitch, Serve,
           LastFrame, Return, AlreadyServing, SwitchBusy, LoadRefused, LoadRoute,
           ImageRoute, ImageTakesGate, Generate, ImageEnds, Release, Settings, vars,
           idleVars, requestVars, storeVars, userVars
  <2>2. QED
    BY <2>1 DEF FilesInv, FilesHaveOneOwner
<1>20. QED
  BY <1>1, <1>2, <1>3, <1>4, <1>5, <1>6, <1>7, <1>8, <1>9, <1>10, <1>11, <1>12,
     <1>13, <1>14, <1>15, <1>16, <1>17, <1>18, <1>19, ReloadIsASwitch
     DEF Next, RouteStep, SwitchStep, LoadStep, IdleStep

\* Every request keeps to its way.
LEMMA RequestStep ==
  IInv /\ [Next]_vars => RequestInv'
<1> SUFFICES ASSUME TypeOK, RequestInv, GateIsHeldForWork, ModelInv, [Next]_vars
             PROVE  RequestInv'
  BY DEF IInv
<1>1. ASSUME NEW q \in Requests, Arrive(q) PROVE RequestInv'
  BY <1>1, Names DEF Arrive, ReqGoes, RequestInv, GateIsHeldForWork, ModelInv,
         Tracked, TypeOK
<1>2. ASSUME NEW q \in Requests, LeaveGate(q) PROVE RequestInv'
  BY <1>2, Names DEF LeaveGate, ReqGoes, FreeSlot, RequestInv, GateIsHeldForWork,
         ModelInv, Tracked, TypeOK
<1>3. ASSUME NEW q \in Requests, Start(q) PROVE RequestInv'
  BY <1>3, Names DEF Start, ReqGoes, NoteStart, RequestInv, GateIsHeldForWork,
         ModelInv, Tracked, TypeOK
<1>4. ASSUME NEW q \in Requests, Untrack(q) PROVE RequestInv'
  BY <1>4, Names DEF Untrack, ReqGoes, RequestInv, GateIsHeldForWork, ModelInv,
         Tracked, TypeOK
<1>5. ASSUME NEW q \in Requests, NEW m \in Models, NeedSwitch(q, m) PROVE RequestInv'
  BY <1>5, Names DEF NeedSwitch, ReqGoes, RequestInv, GateIsHeldForWork, ModelInv,
         Tracked, TypeOK
<1>6. ASSUME NEW q \in Requests, Serve(q) PROVE RequestInv'
  BY <1>6, Names DEF Serve, ReqGoes, RequestInv, GateIsHeldForWork, ModelInv,
         Tracked, TypeOK
<1>7. ASSUME NEW q \in Requests, LastFrame(q) PROVE RequestInv'
  BY <1>7, Names DEF LastFrame, ReqGoes, Finish, RequestInv, GateIsHeldForWork,
         ModelInv, Tracked, TypeOK
<1>8. ASSUME NEW q \in Requests, Return(q) PROVE RequestInv'
  BY <1>8, Names DEF Return, ReqGoes, Finish, FreeSlot, RequestInv,
         GateIsHeldForWork, ModelInv, Tracked, TypeOK
<1>9. ASSUME NEW q \in Requests, AlreadyServing(q) PROVE RequestInv'
  BY <1>9, Names DEF AlreadyServing, ReqGoes, RequestInv, GateIsHeldForWork,
         ModelInv, Tracked, TypeOK
<1>10. ASSUME NEW q \in Requests, SwitchBusy(q) PROVE RequestInv'
  BY <1>10, Names DEF SwitchBusy, ReqGoes, RequestInv, GateIsHeldForWork, ModelInv,
         Tracked, TypeOK
<1>11. ASSUME NEW q \in Requests, Switch(q) PROVE RequestInv'
  BY <1>11, Names DEF Switch, ReqGoes, NoLoad, RequestInv, GateIsHeldForWork,
         ModelInv, Tracked, TypeOK
<1>12. ASSUME LoadFails PROVE RequestInv'
  BY <1>12, Names DEF LoadFails, NoLoad, RequestInv, GateIsHeldForWork, ModelInv,
         Tracked, TypeOK
<1>13. ASSUME LoadEnds PROVE RequestInv'
  BY <1>13, Names DEF LoadEnds, NoLoad, RequestInv, GateIsHeldForWork, ModelInv,
         Tracked, TypeOK
<1>14. ASSUME IdleBegin PROVE RequestInv'
  BY <1>14, Names DEF IdleBegin, Idle, IdleGoes, requestVars, RequestInv,
         GateIsHeldForWork, ModelInv, Tracked, TypeOK
<1>15. ASSUME IdleStays PROVE RequestInv'
  BY <1>15, Names DEF IdleStays, IdleGoes, IdleDropsFiles, requestVars, RequestInv,
         GateIsHeldForWork, ModelInv, Tracked, TypeOK
<1>16. ASSUME UnloadRaises PROVE RequestInv'
  BY <1>16, Names DEF UnloadRaises, IdleGoes, IdleDropsFiles, requestVars,
         RequestInv, GateIsHeldForWork, ModelInv, Tracked, TypeOK
<1>17. ASSUME IdleStash PROVE RequestInv'
  BY <1>17, Names DEF IdleStash, IdleGoes, requestVars, RequestInv,
         GateIsHeldForWork, ModelInv, Tracked, TypeOK
<1>18. ASSUME LoadUnderGate PROVE RequestInv'
  BY <1>18, Names DEF LoadUnderGate, TearDown, NoLoad, requestVars, RequestInv,
         GateIsHeldForWork, ModelInv, Tracked, TypeOK
<1>19. ASSUME ImageTakesGate PROVE RequestInv'
  BY <1>19, Names DEF ImageTakesGate, requestVars, RequestInv, GateIsHeldForWork,
         ModelInv, Tracked, TypeOK
<1>20. ASSUME ImageUnloads PROVE RequestInv'
  BY <1>20, Names DEF ImageUnloads, ForgetUnloaded, TearDown, requestVars,
         RequestInv, GateIsHeldForWork, ModelInv, Tracked, TypeOK
<1>21. ASSUME \/ Rest
              \/ LoadSucceeds
              \/ NoteLoaded
              \/ IdleLook
              \/ IdleSave
              \/ IdleUnload
              \/ Unloaded
              \/ Unload
              \/ CancelLoad
              \/ LoadRefused
              \/ (\E m \in Models : LoadRoute(m))
              \/ ImageRoute
              \/ Generate
              \/ ImageEnds
              \/ Release
              \/ Purge
              \/ (\E ttl, keep \in BOOLEAN : Settings(ttl, keep))
              \/ UNCHANGED vars
       PROVE  RequestInv'
  <2>1. UNCHANGED <<req, ended, untracked, want, using, gate>>
    BY <1>21 DEF Rest, LoadSucceeds, NoteLoaded, IdleLook, IdleSave, IdleUnload,
           Unloaded, Unload, CancelLoad, LoadRefused, LoadRoute, ImageRoute,
           Generate, ImageEnds, Release, Purge, Settings, vars, idleVars,
           requestVars, storeVars, userVars
  <2>2. QED
    BY <2>1 DEF RequestInv, Tracked
<1>22. QED
  BY <1>1, <1>2, <1>3, <1>4, <1>5, <1>6, <1>7, <1>8, <1>9, <1>10, <1>11, <1>12,
     <1>13, <1>14, <1>15, <1>16, <1>17, <1>18, <1>19, <1>20, <1>21, ReloadIsASwitch
     DEF Next, RouteStep, SwitchStep, LoadStep, IdleStep

\* The holder of the gate knows the model.
LEMMA ModelStep ==
  IInv /\ [Next]_vars => ModelInv'
<1> SUFFICES ASSUME TypeOK, ModelInv, RequestInv, GateIsHeldForWork, [Next]_vars
             PROVE  ModelInv'
  BY DEF IInv
<1>1. ASSUME NEW q \in Requests, Start(q) PROVE ModelInv'
  BY <1>1, Names DEF Start, ReqGoes, NoteStart, storeVars, idleVars, userVars,
         ModelInv, RequestInv, GateIsHeldForWork, TypeOK, OneLess
<1>2. ASSUME NEW q \in Requests, Untrack(q) PROVE ModelInv'
  BY <1>2, Names DEF Untrack, ReqGoes, storeVars, idleVars, userVars, ModelInv,
         RequestInv, GateIsHeldForWork, TypeOK, OneLess
<1>3. ASSUME NEW q \in Requests, LastFrame(q) PROVE ModelInv'
  BY <1>3, Names DEF LastFrame, ReqGoes, Finish, storeVars, idleVars, userVars,
         ModelInv, RequestInv, GateIsHeldForWork, TypeOK, OneLess
<1>4. ASSUME NEW q \in Requests, Return(q) PROVE ModelInv'
  BY <1>4, Names DEF Return, ReqGoes, Finish, FreeSlot, storeVars, idleVars,
         userVars, ModelInv, RequestInv, GateIsHeldForWork, TypeOK, OneLess
<1>5. ASSUME NEW q \in Requests, Switch(q) PROVE ModelInv'
  BY <1>5, Names DEF Switch, ReqGoes, NoLoad, storeVars, idleVars, userVars,
         ModelInv, RequestInv, GateIsHeldForWork, TypeOK, OneLess
<1>6. ASSUME LoadFails PROVE ModelInv'
  BY <1>6, Names DEF LoadFails, NoLoad, storeVars, idleVars, ModelInv, RequestInv,
         GateIsHeldForWork, TypeOK, OneLess
<1>7. ASSUME LoadSucceeds PROVE ModelInv'
  BY <1>7, Names DEF LoadSucceeds, requestVars, storeVars, idleVars, userVars,
         ModelInv, RequestInv, GateIsHeldForWork, TypeOK, OneLess
<1>8. ASSUME NoteLoaded PROVE ModelInv'
  BY <1>8, Names DEF NoteLoaded, requestVars, idleVars, userVars, ModelInv,
         RequestInv, GateIsHeldForWork, TypeOK, OneLess
<1>9. ASSUME LoadEnds PROVE ModelInv'
  BY <1>9, Names DEF LoadEnds, NoLoad, idleVars, ModelInv, RequestInv,
         GateIsHeldForWork, TypeOK, OneLess
<1>10. ASSUME IdleLook PROVE ModelInv'
  BY <1>10, Names DEF IdleLook, ForgetUnloaded, requestVars, storeVars, userVars,
         ModelInv, RequestInv, GateIsHeldForWork, TypeOK, OneLess
<1>11. ASSUME IdleBegin PROVE ModelInv'
  BY <1>11, Names DEF IdleBegin, Idle, IdleGoes, requestVars, storeVars, userVars,
         ModelInv, RequestInv, GateIsHeldForWork, TypeOK, OneLess
<1>12. ASSUME IdleSave PROVE ModelInv'
  BY <1>12, Names DEF IdleSave, IdleGoes, requestVars, userVars, ModelInv,
         RequestInv, GateIsHeldForWork, TypeOK, OneLess
<1>13. ASSUME IdleStays PROVE ModelInv'
  BY <1>13, Names DEF IdleStays, IdleGoes, IdleDropsFiles, requestVars, userVars,
         ModelInv, RequestInv, GateIsHeldForWork, TypeOK, OneLess
<1>14. ASSUME IdleUnload PROVE ModelInv'
  BY <1>14, Names DEF IdleUnload, IdleGoes, IdleDropsFiles, Idle, requestVars,
         userVars, ModelInv, RequestInv, GateIsHeldForWork, TypeOK, OneLess
<1>15. ASSUME Unloaded PROVE ModelInv'
  BY <1>15, Names DEF Unloaded, IdleGoes, requestVars, storeVars, userVars,
         ModelInv, RequestInv, GateIsHeldForWork, TypeOK, OneLess
<1>16. ASSUME UnloadRaises PROVE ModelInv'
  BY <1>16, Names DEF UnloadRaises, IdleGoes, IdleDropsFiles, requestVars, userVars,
         ModelInv, RequestInv, GateIsHeldForWork, TypeOK, OneLess
<1>17. ASSUME IdleStash PROVE ModelInv'
  BY <1>17, Names DEF IdleStash, IdleGoes, requestVars, userVars, ModelInv,
         RequestInv, GateIsHeldForWork, TypeOK, OneLess
<1>18. ASSUME Unload PROVE ModelInv'
  BY <1>18, Names DEF Unload, Count, ForgetUnloaded, TearDown, requestVars,
         idleVars, ModelInv, RequestInv, GateIsHeldForWork, TypeOK, OneLess
<1>19. ASSUME CancelLoad PROVE ModelInv'
  BY <1>19, Names DEF CancelLoad, Count, ForgetUnloaded, requestVars, idleVars,
         ModelInv, RequestInv, GateIsHeldForWork, TypeOK, OneLess
<1>20. ASSUME LoadUnderGate PROVE ModelInv'
  BY <1>20, Names DEF LoadUnderGate, TearDown, NoLoad, requestVars, storeVars,
         idleVars, ModelInv, RequestInv, GateIsHeldForWork, TypeOK, OneLess
<1>21. ASSUME ImageUnloads PROVE ModelInv'
  BY <1>21, Names DEF ImageUnloads, ForgetUnloaded, TearDown, requestVars,
         storeVars, idleVars, ModelInv, RequestInv, GateIsHeldForWork, TypeOK,
         OneLess
<1>22. ASSUME \/ Rest
              \/ (\E q \in Requests : Arrive(q))
              \/ (\E q \in Requests : LeaveGate(q))
              \/ (\E q \in Requests, m \in Models : NeedSwitch(q, m))
              \/ (\E q \in Requests : Serve(q))
              \/ (\E q \in Requests : AlreadyServing(q))
              \/ (\E q \in Requests : SwitchBusy(q))
              \/ LoadRefused
              \/ (\E m \in Models : LoadRoute(m))
              \/ ImageRoute
              \/ ImageTakesGate
              \/ Generate
              \/ ImageEnds
              \/ Release
              \/ Purge
              \/ (\E ttl, keep \in BOOLEAN : Settings(ttl, keep))
              \/ UNCHANGED vars
       PROVE  ModelInv'
  <2>1. UNCHANGED <<load, model, idle, inflight, stash>>
    BY <1>22 DEF Rest, Arrive, LeaveGate, NeedSwitch, Serve, AlreadyServing,
           SwitchBusy, LoadRefused, LoadRoute, ImageRoute, ImageTakesGate, Generate,
           ImageEnds, Release, Purge, Settings, vars, idleVars, requestVars,
           storeVars, userVars
  <2>2. QED
    BY <2>1 DEF ModelInv
<1>23. QED
  BY <1>1, <1>2, <1>3, <1>4, <1>5, <1>6, <1>7, <1>8, <1>9, <1>10, <1>11, <1>12,
     <1>13, <1>14, <1>15, <1>16, <1>17, <1>18, <1>19, <1>20, <1>21, <1>22,
     ReloadIsASwitch
     DEF Next, RouteStep, SwitchStep, LoadStep, IdleStep

\* The counters stay with the requests that they count.
LEMMA CountersStep ==
  IInv /\ [Next]_vars => CountersAreTrue'
<1> SUFFICES ASSUME TypeOK, CountersAreTrue, RequestInv, GateIsHeldForWork, [Next]_vars
             PROVE  CountersAreTrue'
  BY DEF IInv
<1>1. ASSUME NEW q \in Requests, Arrive(q) PROVE CountersAreTrue'
  <2>1. Pending' = Pending \cup {q} /\ q \notin Pending /\ InFlight' = InFlight
    BY <1>1 DEF Arrive, ReqGoes, TypeOK, Pending, InFlight, Tracked
  <2>2. waiting' = waiting + 1 /\ inflight' = inflight
    BY <1>1 DEF Arrive
  <2>3. QED
    BY <2>1, <2>2, SomeRequests, OneMore DEF CountersAreTrue, Pending, InFlight
<1>2. ASSUME NEW q \in Requests, LeaveGate(q) PROVE CountersAreTrue'
  <2>1. Pending' = Pending \ {q} /\ q \in Pending /\ InFlight' = InFlight
    BY <1>2 DEF LeaveGate, ReqGoes, TypeOK, Pending, InFlight, Tracked
  <2>2. waiting' = OneLess(waiting) /\ inflight' = inflight
    BY <1>2 DEF LeaveGate, FreeSlot
  <2>3. QED
    BY <2>1, <2>2, SomeRequests, OneMore DEF CountersAreTrue, Pending, InFlight
<1>3. ASSUME NEW q \in Requests, Start(q) PROVE CountersAreTrue'
  <2>1. Pending' = Pending \ {q} /\ q \in Pending /\ InFlight' = InFlight \cup {q} /\ q \notin InFlight
    BY <1>3 DEF Start, ReqGoes, TypeOK, Pending, InFlight, Tracked
  <2>2. waiting' = OneLess(waiting) /\ inflight' = inflight + 1
    BY <1>3 DEF Start, NoteStart
  <2>3. QED
    BY <2>1, <2>2, SomeRequests, OneMore DEF CountersAreTrue, Pending, InFlight
<1>4. ASSUME NEW q \in Requests, Untrack(q) PROVE CountersAreTrue'
  <2>1. Pending' = Pending /\ InFlight' = InFlight \ {q} /\ q \in InFlight
    BY <1>4 DEF Untrack, ReqGoes, TypeOK, Pending, InFlight, Tracked
  <2>2. waiting' = waiting /\ inflight' = OneLess(inflight)
    BY <1>4 DEF Untrack
  <2>3. QED
    BY <2>1, <2>2, SomeRequests, OneMore DEF CountersAreTrue, Pending, InFlight
<1>5. ASSUME NEW q \in Requests, NEW m \in Models, NeedSwitch(q, m) PROVE CountersAreTrue'
  <2>1. Pending' = Pending /\ InFlight' = InFlight
    BY <1>5 DEF NeedSwitch, ReqGoes, TypeOK, Pending, InFlight, Tracked
  <2>2. UNCHANGED <<waiting, inflight>>
    BY <1>5 DEF NeedSwitch
  <2>3. QED
    BY <2>1, <2>2 DEF CountersAreTrue, Pending, InFlight
<1>6. ASSUME NEW q \in Requests, Serve(q) PROVE CountersAreTrue'
  <2>1. Pending' = Pending /\ InFlight' = InFlight
    BY <1>6 DEF Serve, ReqGoes, TypeOK, Pending, InFlight, Tracked
  <2>2. UNCHANGED <<waiting, inflight>>
    BY <1>6 DEF Serve
  <2>3. QED
    BY <2>1, <2>2 DEF CountersAreTrue, Pending, InFlight
<1>7. ASSUME NEW q \in Requests, LastFrame(q) PROVE CountersAreTrue'
  <2>1. Pending' = Pending /\ InFlight' = InFlight \ {q}
    BY <1>7 DEF LastFrame, ReqGoes, TypeOK, Pending, InFlight, Tracked
  <2>2. /\ waiting' = waiting
        /\ inflight' = IF q \in ended \cup untracked THEN inflight ELSE OneLess(inflight)
    BY <1>7 DEF LastFrame, Finish
  <2>3. q \in InFlight <=> q \notin ended \cup untracked
    BY <1>7 DEF LastFrame, RequestInv, InFlight, Tracked
  <2>4. q \notin InFlight => InFlight \ {q} = InFlight
    OBVIOUS
  <2>5. QED
    BY <2>1, <2>2, <2>3, <2>4, SomeRequests, OneMore DEF CountersAreTrue, Pending, InFlight
<1>8. ASSUME NEW q \in Requests, Return(q) PROVE CountersAreTrue'
  <2>1. Pending' = Pending /\ InFlight' = InFlight \ {q}
    BY <1>8 DEF Return, ReqGoes, TypeOK, Pending, InFlight, Tracked
  <2>2. /\ waiting' = waiting
        /\ inflight' = IF q \in ended \cup untracked THEN inflight ELSE OneLess(inflight)
    BY <1>8 DEF Return, Finish
  <2>3. q \in InFlight <=> q \notin ended \cup untracked
    BY <1>8 DEF Return, RequestInv, InFlight, Tracked
  <2>4. q \notin InFlight => InFlight \ {q} = InFlight
    OBVIOUS
  <2>5. QED
    BY <2>1, <2>2, <2>3, <2>4, SomeRequests, OneMore DEF CountersAreTrue, Pending, InFlight
<1>9. ASSUME NEW q \in Requests, AlreadyServing(q) PROVE CountersAreTrue'
  <2>1. Pending' = Pending /\ InFlight' = InFlight
    BY <1>9 DEF AlreadyServing, ReqGoes, TypeOK, Pending, InFlight, Tracked
  <2>2. UNCHANGED <<waiting, inflight>>
    BY <1>9 DEF AlreadyServing
  <2>3. QED
    BY <2>1, <2>2 DEF CountersAreTrue, Pending, InFlight
<1>10. ASSUME NEW q \in Requests, SwitchBusy(q) PROVE CountersAreTrue'
  <2>1. Pending' = Pending /\ InFlight' = InFlight
    BY <1>10 DEF SwitchBusy, ReqGoes, TypeOK, Pending, InFlight, Tracked
  <2>2. UNCHANGED <<waiting, inflight>>
    BY <1>10 DEF SwitchBusy
  <2>3. QED
    BY <2>1, <2>2 DEF CountersAreTrue, Pending, InFlight
<1>11. ASSUME NEW q \in Requests, Switch(q) PROVE CountersAreTrue'
  <2>1. Pending' = Pending /\ InFlight' = InFlight
    BY <1>11 DEF Switch, ReqGoes, TypeOK, Pending, InFlight, Tracked
  <2>2. UNCHANGED <<waiting, inflight>>
    BY <1>11 DEF Switch
  <2>3. QED
    BY <2>1, <2>2 DEF CountersAreTrue, Pending, InFlight
<1>12. ASSUME LoadFails PROVE CountersAreTrue'
  <2>1. Pending' = Pending /\ InFlight' = InFlight
    BY <1>12 DEF LoadFails, TypeOK, Pending, InFlight, Tracked, RequestInv,
           GateIsHeldForWork
  <2>2. UNCHANGED <<waiting, inflight>>
    BY <1>12 DEF LoadFails
  <2>3. QED
    BY <2>1, <2>2 DEF CountersAreTrue, Pending, InFlight
<1>13. ASSUME LoadEnds PROVE CountersAreTrue'
  <2>1. Pending' = Pending /\ InFlight' = InFlight
    BY <1>13 DEF LoadEnds, TypeOK, Pending, InFlight, Tracked, RequestInv,
           GateIsHeldForWork
  <2>2. UNCHANGED <<waiting, inflight>>
    BY <1>13 DEF LoadEnds
  <2>3. QED
    BY <2>1, <2>2 DEF CountersAreTrue, Pending, InFlight
<1>14. ASSUME \/ Rest
              \/ LoadSucceeds
              \/ NoteLoaded
              \/ IdleLook
              \/ IdleBegin
              \/ IdleSave
              \/ IdleStays
              \/ IdleUnload
              \/ Unloaded
              \/ UnloadRaises
              \/ IdleStash
              \/ Unload
              \/ CancelLoad
              \/ LoadUnderGate
              \/ LoadRefused
              \/ (\E m \in Models : LoadRoute(m))
              \/ ImageRoute
              \/ ImageTakesGate
              \/ ImageUnloads
              \/ Generate
              \/ ImageEnds
              \/ Release
              \/ Purge
              \/ (\E ttl, keep \in BOOLEAN : Settings(ttl, keep))
              \/ UNCHANGED vars
       PROVE  CountersAreTrue'
  <2>1. UNCHANGED <<req, inflight, waiting>>
    BY <1>14 DEF Rest, LoadSucceeds, NoteLoaded, IdleLook, IdleBegin, IdleSave,
           IdleStays, IdleUnload, Unloaded, UnloadRaises, IdleStash, Unload,
           CancelLoad, LoadUnderGate, LoadRefused, LoadRoute, ImageRoute,
           ImageTakesGate, ImageUnloads, Generate, ImageEnds, Release, Purge,
           Settings, vars, idleVars, requestVars, storeVars, userVars
  <2>2. QED
    BY <2>1 DEF CountersAreTrue, Tracked
<1>15. QED
  BY <1>1, <1>2, <1>3, <1>4, <1>5, <1>6, <1>7, <1>8, <1>9, <1>10, <1>11, <1>12,
     <1>13, <1>14, ReloadIsASwitch
     DEF Next, RouteStep, SwitchStep, LoadStep, IdleStep

\* No step takes the model from under a stream, unless it is the user's.
LEMMA StreamsStep ==
  IInv /\ [Next]_vars => StreamsAreSpared'
<1> SUFFICES ASSUME TypeOK, StreamsAreSpared, CountersAreTrue, RequestInv, GateIsHeldForWork, ModelInv, [Next]_vars
             PROVE  StreamsAreSpared'
  BY DEF IInv
<1>1. ASSUME NEW q \in Requests, Arrive(q) PROVE StreamsAreSpared'
  BY <1>1, Names DEF Arrive, ReqGoes, StreamsAreSpared, RequestInv,
         GateIsHeldForWork, ModelInv, TypeOK
<1>2. ASSUME NEW q \in Requests, LeaveGate(q) PROVE StreamsAreSpared'
  BY <1>2, Names DEF LeaveGate, ReqGoes, FreeSlot, StreamsAreSpared, RequestInv,
         GateIsHeldForWork, ModelInv, TypeOK
<1>3. ASSUME NEW q \in Requests, Start(q) PROVE StreamsAreSpared'
  BY <1>3, Names DEF Start, ReqGoes, NoteStart, StreamsAreSpared, RequestInv,
         GateIsHeldForWork, ModelInv, TypeOK
<1>4. ASSUME NEW q \in Requests, Untrack(q) PROVE StreamsAreSpared'
  BY <1>4, Names DEF Untrack, ReqGoes, StreamsAreSpared, RequestInv,
         GateIsHeldForWork, ModelInv, TypeOK
<1>5. ASSUME NEW q \in Requests, NEW m \in Models, NeedSwitch(q, m) PROVE StreamsAreSpared'
  BY <1>5, Names DEF NeedSwitch, ReqGoes, StreamsAreSpared, RequestInv,
         GateIsHeldForWork, ModelInv, TypeOK
<1>6. ASSUME NEW q \in Requests, Serve(q) PROVE StreamsAreSpared'
  BY <1>6, Names DEF Serve, ReqGoes, StreamsAreSpared, RequestInv,
         GateIsHeldForWork, ModelInv, TypeOK
<1>7. ASSUME NEW q \in Requests, LastFrame(q) PROVE StreamsAreSpared'
  BY <1>7, Names DEF LastFrame, ReqGoes, Finish, StreamsAreSpared, RequestInv,
         GateIsHeldForWork, ModelInv, TypeOK
<1>8. ASSUME NEW q \in Requests, Return(q) PROVE StreamsAreSpared'
  BY <1>8, Names DEF Return, ReqGoes, Finish, FreeSlot, StreamsAreSpared,
         RequestInv, GateIsHeldForWork, ModelInv, TypeOK
<1>9. ASSUME NEW q \in Requests, AlreadyServing(q) PROVE StreamsAreSpared'
  BY <1>9, Names DEF AlreadyServing, ReqGoes, StreamsAreSpared, RequestInv,
         GateIsHeldForWork, ModelInv, TypeOK
<1>10. ASSUME NEW q \in Requests, SwitchBusy(q) PROVE StreamsAreSpared'
  BY <1>10, Names DEF SwitchBusy, ReqGoes, StreamsAreSpared, RequestInv,
         GateIsHeldForWork, ModelInv, TypeOK
<1>11. ASSUME NEW q \in Requests, Switch(q) PROVE StreamsAreSpared'
  <2>1. \A x \in Requests : req[x] # "serving"
    BY <1>11, OnlySwitchers DEF Switch
  <2>2. QED
    BY <1>11, <2>1 DEF Switch, ReqGoes, StreamsAreSpared, TypeOK
<1>12. ASSUME LoadFails PROVE StreamsAreSpared'
  BY <1>12, Names DEF LoadFails, NoLoad, StreamsAreSpared, RequestInv,
         GateIsHeldForWork, ModelInv, TypeOK
<1>13. ASSUME LoadSucceeds PROVE StreamsAreSpared'
  BY <1>13, Names DEF LoadSucceeds, requestVars, StreamsAreSpared, RequestInv,
         GateIsHeldForWork, ModelInv, TypeOK
<1>14. ASSUME LoadEnds PROVE StreamsAreSpared'
  BY <1>14, Names DEF LoadEnds, NoLoad, StreamsAreSpared, RequestInv,
         GateIsHeldForWork, ModelInv, TypeOK
<1>15. ASSUME Unloaded PROVE StreamsAreSpared'
  <2>1. inflight = 0
    BY <1>15 DEF Unloaded, ModelInv
  <2>2. InFlight = {}
    BY <2>1, SomeRequests, RequestsCount, FS_EmptySet DEF CountersAreTrue, InFlight
  <2>3. \A q \in Requests : req[q] # "serving"
    BY <2>2 DEF InFlight, Tracked
  <2>4. QED
    BY <1>15, <2>3 DEF Unloaded, requestVars, StreamsAreSpared
<1>16. ASSUME Unload PROVE StreamsAreSpared'
  BY <1>16, Names DEF Unload, Count, ForgetUnloaded, TearDown, requestVars,
         StreamsAreSpared, RequestInv, GateIsHeldForWork, ModelInv, TypeOK
<1>17. ASSUME LoadUnderGate PROVE StreamsAreSpared'
  BY <1>17, Names DEF LoadUnderGate, TearDown, NoLoad, requestVars,
         StreamsAreSpared, RequestInv, GateIsHeldForWork, ModelInv, TypeOK
<1>18. ASSUME ImageUnloads PROVE StreamsAreSpared'
  BY <1>18, Names DEF ImageUnloads, ForgetUnloaded, TearDown, requestVars,
         StreamsAreSpared, RequestInv, GateIsHeldForWork, ModelInv, TypeOK
<1>19. ASSUME \/ Rest
              \/ NoteLoaded
              \/ IdleLook
              \/ IdleBegin
              \/ IdleSave
              \/ IdleStays
              \/ IdleUnload
              \/ UnloadRaises
              \/ IdleStash
              \/ CancelLoad
              \/ LoadRefused
              \/ (\E m \in Models : LoadRoute(m))
              \/ ImageRoute
              \/ ImageTakesGate
              \/ Generate
              \/ ImageEnds
              \/ Release
              \/ Purge
              \/ (\E ttl, keep \in BOOLEAN : Settings(ttl, keep))
              \/ UNCHANGED vars
       PROVE  StreamsAreSpared'
  <2>1. UNCHANGED <<torn, req, using, model>>
    BY <1>19 DEF Rest, NoteLoaded, IdleLook, IdleBegin, IdleSave, IdleStays,
           IdleUnload, UnloadRaises, IdleStash, CancelLoad, LoadRefused, LoadRoute,
           ImageRoute, ImageTakesGate, Generate, ImageEnds, Release, Purge,
           Settings, vars, idleVars, requestVars, storeVars, userVars
  <2>2. QED
    BY <2>1 DEF StreamsAreSpared
<1>20. QED
  BY <1>1, <1>2, <1>3, <1>4, <1>5, <1>6, <1>7, <1>8, <1>9, <1>10, <1>11, <1>12,
     <1>13, <1>14, <1>15, <1>16, <1>17, <1>18, <1>19, ReloadIsASwitch
     DEF Next, RouteStep, SwitchStep, LoadStep, IdleStep

\* Who holds what keeps its type.
LEMMA HolderTypesStep ==
  IInv /\ [Next]_vars => HolderTypes'
<1> SUFFICES ASSUME TypeOK, HolderTypes, [Next]_vars
             PROVE  HolderTypes'
  BY TypesTogether DEF IInv
<1>1. ASSUME NEW q \in Requests, Arrive(q) PROVE HolderTypes'
  BY <1>1, Names, BoundsAssumption DEF Arrive, ReqGoes, userVars, HolderTypes
<1>2. ASSUME NEW q \in Requests, LeaveGate(q) PROVE HolderTypes'
  BY <1>2, Names, BoundsAssumption DEF LeaveGate, ReqGoes, FreeSlot, userVars,
         HolderTypes
<1>3. ASSUME NEW q \in Requests, Return(q) PROVE HolderTypes'
  BY <1>3, Names, BoundsAssumption DEF Return, ReqGoes, Finish, FreeSlot, userVars,
         HolderTypes
<1>4. ASSUME NEW q \in Requests, Switch(q) PROVE HolderTypes'
  BY <1>4, Names, BoundsAssumption DEF Switch, ReqGoes, NoLoad, userVars,
         HolderTypes
<1>5. ASSUME LoadFails PROVE HolderTypes'
  BY <1>5, Names, BoundsAssumption DEF LoadFails, NoLoad, HolderTypes
<1>6. ASSUME LoadEnds PROVE HolderTypes'
  BY <1>6, Names, BoundsAssumption DEF LoadEnds, NoLoad, HolderTypes
<1>7. ASSUME IdleBegin PROVE HolderTypes'
  BY <1>7, Names, BoundsAssumption DEF IdleBegin, Idle, IdleGoes, userVars,
         HolderTypes
<1>8. ASSUME IdleStays PROVE HolderTypes'
  BY <1>8, Names, BoundsAssumption DEF IdleStays, IdleGoes, IdleDropsFiles,
         userVars, HolderTypes
<1>9. ASSUME UnloadRaises PROVE HolderTypes'
  BY <1>9, Names, BoundsAssumption DEF UnloadRaises, IdleGoes, IdleDropsFiles,
         userVars, HolderTypes
<1>10. ASSUME IdleStash PROVE HolderTypes'
  BY <1>10, Names, BoundsAssumption DEF IdleStash, IdleGoes, userVars, HolderTypes
<1>11. ASSUME Unload PROVE HolderTypes'
  BY <1>11, Names, BoundsAssumption DEF Unload, Count, ForgetUnloaded, TearDown,
         HolderTypes
<1>12. ASSUME CancelLoad PROVE HolderTypes'
  BY <1>12, Names, BoundsAssumption DEF CancelLoad, Count, ForgetUnloaded,
         HolderTypes
<1>13. ASSUME LoadUnderGate PROVE HolderTypes'
  BY <1>13, Names, BoundsAssumption DEF LoadUnderGate, TearDown, NoLoad, HolderTypes
<1>14. ASSUME LoadRefused PROVE HolderTypes'
  BY <1>14, Names, BoundsAssumption DEF LoadRefused, HolderTypes
<1>15. ASSUME NEW m \in Models, LoadRoute(m) PROVE HolderTypes'
  BY <1>15, Names, BoundsAssumption DEF LoadRoute, Count, HolderTypes
<1>16. ASSUME ImageRoute PROVE HolderTypes'
  BY <1>16, Names, BoundsAssumption DEF ImageRoute, Count, HolderTypes
<1>17. ASSUME ImageTakesGate PROVE HolderTypes'
  BY <1>17, Names, BoundsAssumption DEF ImageTakesGate, HolderTypes
<1>18. ASSUME ImageUnloads PROVE HolderTypes'
  BY <1>18, Names, BoundsAssumption DEF ImageUnloads, ForgetUnloaded, TearDown,
         HolderTypes
<1>19. ASSUME ImageEnds PROVE HolderTypes'
  BY <1>19, Names, BoundsAssumption DEF ImageEnds, HolderTypes
<1>20. ASSUME Release PROVE HolderTypes'
  BY <1>20, Names, BoundsAssumption DEF Release, Count, HolderTypes
<1>21. ASSUME Purge PROVE HolderTypes'
  BY <1>21, Names, BoundsAssumption DEF Purge, HolderTypes
<1>22. ASSUME NEW ttl \in BOOLEAN, NEW keep \in BOOLEAN, Settings(ttl, keep) PROVE HolderTypes'
  BY <1>22, Names, BoundsAssumption DEF Settings, Count, HolderTypes
<1>23. ASSUME \/ Rest
              \/ (\E q \in Requests : Start(q))
              \/ (\E q \in Requests : Untrack(q))
              \/ (\E q \in Requests, m \in Models : NeedSwitch(q, m))
              \/ (\E q \in Requests : Serve(q))
              \/ (\E q \in Requests : LastFrame(q))
              \/ (\E q \in Requests : AlreadyServing(q))
              \/ (\E q \in Requests : SwitchBusy(q))
              \/ LoadSucceeds
              \/ NoteLoaded
              \/ IdleLook
              \/ IdleSave
              \/ IdleUnload
              \/ Unloaded
              \/ Generate
              \/ UNCHANGED vars
       PROVE  HolderTypes'
  <2>1. UNCHANGED <<slot, gate, purging, loader, image, settings, ops>>
    BY <1>23 DEF Rest, Start, Untrack, NeedSwitch, Serve, LastFrame, AlreadyServing,
           SwitchBusy, LoadSucceeds, NoteLoaded, IdleLook, IdleSave, IdleUnload,
           Unloaded, Generate, vars, idleVars, requestVars, storeVars, userVars
  <2>2. QED
    BY <2>1 DEF HolderTypes
<1>24. QED
  BY <1>1, <1>2, <1>3, <1>4, <1>5, <1>6, <1>7, <1>8, <1>9, <1>10, <1>11, <1>12,
     <1>13, <1>14, <1>15, <1>16, <1>17, <1>18, <1>19, <1>20, <1>21, <1>22, <1>23,
     ReloadIsASwitch
     DEF Next, RouteStep, SwitchStep, LoadStep, IdleStep

\* The requests keep their types.
LEMMA RequestTypesStep ==
  IInv /\ [Next]_vars => RequestTypes'
<1> SUFFICES ASSUME TypeOK, RequestTypes, ModelTypes, [Next]_vars
             PROVE  RequestTypes'
  BY TypesTogether DEF IInv
<1>1. ASSUME Rest PROVE RequestTypes'
  BY <1>1, Names DEF Rest, requestVars, RequestTypes, RequestPlaces, ModelTypes
<1>2. ASSUME NEW q \in Requests, Arrive(q) PROVE RequestTypes'
  BY <1>2, Names DEF Arrive, ReqGoes, RequestTypes, RequestPlaces, ModelTypes
<1>3. ASSUME NEW q \in Requests, LeaveGate(q) PROVE RequestTypes'
  BY <1>3, Names DEF LeaveGate, ReqGoes, FreeSlot, RequestTypes, RequestPlaces,
         ModelTypes
<1>4. ASSUME NEW q \in Requests, Start(q) PROVE RequestTypes'
  BY <1>4, Names DEF Start, ReqGoes, NoteStart, RequestTypes, RequestPlaces,
         ModelTypes
<1>5. ASSUME NEW q \in Requests, Untrack(q) PROVE RequestTypes'
  BY <1>5, Names DEF Untrack, ReqGoes, RequestTypes, RequestPlaces, ModelTypes
<1>6. ASSUME NEW q \in Requests, NEW m \in Models, NeedSwitch(q, m) PROVE RequestTypes'
  BY <1>6, Names DEF NeedSwitch, ReqGoes, RequestTypes, RequestPlaces, ModelTypes
<1>7. ASSUME NEW q \in Requests, Serve(q) PROVE RequestTypes'
  BY <1>7, Names DEF Serve, ReqGoes, RequestTypes, RequestPlaces, ModelTypes
<1>8. ASSUME NEW q \in Requests, LastFrame(q) PROVE RequestTypes'
  BY <1>8, Names DEF LastFrame, ReqGoes, Finish, RequestTypes, RequestPlaces,
         ModelTypes
<1>9. ASSUME NEW q \in Requests, Return(q) PROVE RequestTypes'
  BY <1>9, Names DEF Return, ReqGoes, Finish, FreeSlot, RequestTypes, RequestPlaces,
         ModelTypes
<1>10. ASSUME NEW q \in Requests, AlreadyServing(q) PROVE RequestTypes'
  BY <1>10, Names DEF AlreadyServing, ReqGoes, RequestTypes, RequestPlaces,
         ModelTypes
<1>11. ASSUME NEW q \in Requests, SwitchBusy(q) PROVE RequestTypes'
  BY <1>11, Names DEF SwitchBusy, ReqGoes, RequestTypes, RequestPlaces, ModelTypes
<1>12. ASSUME NEW q \in Requests, Switch(q) PROVE RequestTypes'
  BY <1>12, Names DEF Switch, ReqGoes, NoLoad, RequestTypes, RequestPlaces,
         ModelTypes
<1>13. ASSUME LoadFails PROVE RequestTypes'
  BY <1>13, Names DEF LoadFails, NoLoad, RequestTypes, RequestPlaces, ModelTypes
<1>14. ASSUME NoteLoaded PROVE RequestTypes'
  BY <1>14, Names DEF NoteLoaded, requestVars, RequestTypes, RequestPlaces,
         ModelTypes
<1>15. ASSUME LoadEnds PROVE RequestTypes'
  BY <1>15, Names DEF LoadEnds, NoLoad, RequestTypes, RequestPlaces, ModelTypes
<1>16. ASSUME IdleLook PROVE RequestTypes'
  BY <1>16, Names DEF IdleLook, ForgetUnloaded, requestVars, RequestTypes,
         RequestPlaces, ModelTypes
<1>17. ASSUME Unload PROVE RequestTypes'
  BY <1>17, Names DEF Unload, Count, ForgetUnloaded, TearDown, requestVars,
         RequestTypes, RequestPlaces, ModelTypes
<1>18. ASSUME LoadUnderGate PROVE RequestTypes'
  BY <1>18, Names DEF LoadUnderGate, TearDown, NoLoad, requestVars, RequestTypes,
         RequestPlaces, ModelTypes
<1>19. ASSUME NEW m \in Models, LoadRoute(m) PROVE RequestTypes'
  BY <1>19, Names DEF LoadRoute, Count, requestVars, RequestTypes, RequestPlaces,
         ModelTypes
<1>20. ASSUME ImageUnloads PROVE RequestTypes'
  BY <1>20, Names DEF ImageUnloads, ForgetUnloaded, TearDown, requestVars,
         RequestTypes, RequestPlaces, ModelTypes
<1>21. ASSUME Generate PROVE RequestTypes'
  BY <1>21, Names DEF Generate, requestVars, RequestTypes, RequestPlaces, ModelTypes
<1>22. ASSUME Release PROVE RequestTypes'
  BY <1>22, Names DEF Release, Count, requestVars, RequestTypes, RequestPlaces,
         ModelTypes
<1>23. ASSUME \/ LoadSucceeds
              \/ IdleBegin
              \/ IdleSave
              \/ IdleStays
              \/ IdleUnload
              \/ Unloaded
              \/ UnloadRaises
              \/ IdleStash
              \/ CancelLoad
              \/ LoadRefused
              \/ ImageRoute
              \/ ImageTakesGate
              \/ ImageEnds
              \/ Purge
              \/ (\E ttl, keep \in BOOLEAN : Settings(ttl, keep))
              \/ UNCHANGED vars
       PROVE  RequestTypes'
  <2>1. UNCHANGED <<rested, comfy, req, want, using, ended, untracked, torn>>
    BY <1>23 DEF LoadSucceeds, IdleBegin, IdleSave, IdleStays, IdleUnload, Unloaded,
           UnloadRaises, IdleStash, CancelLoad, LoadRefused, ImageRoute,
           ImageTakesGate, ImageEnds, Purge, Settings, vars, idleVars, requestVars,
           storeVars, userVars
  <2>2. QED
    BY <2>1 DEF RequestTypes
<1>24. QED
  BY <1>1, <1>2, <1>3, <1>4, <1>5, <1>6, <1>7, <1>8, <1>9, <1>10, <1>11, <1>12,
     <1>13, <1>14, <1>15, <1>16, <1>17, <1>18, <1>19, <1>20, <1>21, <1>22, <1>23,
     ReloadIsASwitch
     DEF Next, RouteStep, SwitchStep, LoadStep, IdleStep

\* The model keeps its types.
LEMMA ModelTypesStep ==
  IInv /\ [Next]_vars => ModelTypes'
<1> SUFFICES ASSUME TypeOK, ModelTypes, LoadTypes, [Next]_vars
             PROVE  ModelTypes'
  BY TypesTogether DEF IInv
<1>1. ASSUME NEW q \in Requests, Switch(q) PROVE ModelTypes'
  BY <1>1, Names DEF Switch, ReqGoes, NoLoad, storeVars, idleVars, ModelTypes,
         LoadTypes, IdlePlaces
<1>2. ASSUME LoadSucceeds PROVE ModelTypes'
  BY <1>2, Names DEF LoadSucceeds, requestVars, storeVars, idleVars, ModelTypes,
         LoadTypes, IdlePlaces
<1>3. ASSUME NoteLoaded PROVE ModelTypes'
  BY <1>3, Names DEF NoteLoaded, requestVars, idleVars, ModelTypes, LoadTypes,
         IdlePlaces
<1>4. ASSUME IdleLook PROVE ModelTypes'
  BY <1>4, Names DEF IdleLook, ForgetUnloaded, requestVars, storeVars, ModelTypes,
         LoadTypes, IdlePlaces
<1>5. ASSUME IdleBegin PROVE ModelTypes'
  BY <1>5, Names DEF IdleBegin, Idle, IdleGoes, requestVars, storeVars, ModelTypes,
         LoadTypes, IdlePlaces
<1>6. ASSUME IdleSave PROVE ModelTypes'
  BY <1>6, Names DEF IdleSave, IdleGoes, requestVars, ModelTypes, LoadTypes,
         IdlePlaces
<1>7. ASSUME IdleStays PROVE ModelTypes'
  BY <1>7, Names DEF IdleStays, IdleGoes, IdleDropsFiles, requestVars, ModelTypes,
         LoadTypes, IdlePlaces
<1>8. ASSUME IdleUnload PROVE ModelTypes'
  BY <1>8, Names DEF IdleUnload, IdleGoes, IdleDropsFiles, Idle, requestVars,
         ModelTypes, LoadTypes, IdlePlaces
<1>9. ASSUME Unloaded PROVE ModelTypes'
  BY <1>9, Names DEF Unloaded, IdleGoes, requestVars, storeVars, ModelTypes,
         LoadTypes, IdlePlaces
<1>10. ASSUME UnloadRaises PROVE ModelTypes'
  BY <1>10, Names DEF UnloadRaises, IdleGoes, IdleDropsFiles, requestVars,
         ModelTypes, LoadTypes, IdlePlaces
<1>11. ASSUME IdleStash PROVE ModelTypes'
  BY <1>11, Names DEF IdleStash, IdleGoes, requestVars, ModelTypes, LoadTypes,
         IdlePlaces
<1>12. ASSUME Unload PROVE ModelTypes'
  BY <1>12, Names DEF Unload, Count, ForgetUnloaded, TearDown, requestVars,
         idleVars, ModelTypes, LoadTypes, IdlePlaces
<1>13. ASSUME CancelLoad PROVE ModelTypes'
  BY <1>13, Names DEF CancelLoad, Count, ForgetUnloaded, requestVars, idleVars,
         ModelTypes, LoadTypes, IdlePlaces
<1>14. ASSUME LoadUnderGate PROVE ModelTypes'
  BY <1>14, Names DEF LoadUnderGate, TearDown, NoLoad, requestVars, storeVars,
         idleVars, ModelTypes, LoadTypes, IdlePlaces
<1>15. ASSUME ImageUnloads PROVE ModelTypes'
  BY <1>15, Names DEF ImageUnloads, ForgetUnloaded, TearDown, requestVars,
         storeVars, idleVars, ModelTypes, LoadTypes, IdlePlaces
<1>16. ASSUME \/ Rest
              \/ (\E q \in Requests : Arrive(q))
              \/ (\E q \in Requests : LeaveGate(q))
              \/ (\E q \in Requests : Start(q))
              \/ (\E q \in Requests : Untrack(q))
              \/ (\E q \in Requests, m \in Models : NeedSwitch(q, m))
              \/ (\E q \in Requests : Serve(q))
              \/ (\E q \in Requests : LastFrame(q))
              \/ (\E q \in Requests : Return(q))
              \/ (\E q \in Requests : AlreadyServing(q))
              \/ (\E q \in Requests : SwitchBusy(q))
              \/ LoadFails
              \/ LoadEnds
              \/ LoadRefused
              \/ (\E m \in Models : LoadRoute(m))
              \/ ImageRoute
              \/ ImageTakesGate
              \/ Generate
              \/ ImageEnds
              \/ Release
              \/ Purge
              \/ (\E ttl, keep \in BOOLEAN : Settings(ttl, keep))
              \/ UNCHANGED vars
       PROVE  ModelTypes'
  <2>1. UNCHANGED <<model, seen, stash, idle>>
    BY <1>16 DEF Rest, Arrive, LeaveGate, Start, Untrack, NeedSwitch, Serve,
           LastFrame, Return, AlreadyServing, SwitchBusy, LoadFails, LoadEnds,
           LoadRefused, LoadRoute, ImageRoute, ImageTakesGate, Generate, ImageEnds,
           Release, Purge, Settings, vars, idleVars, requestVars, storeVars,
           userVars
  <2>2. QED
    BY <2>1 DEF ModelTypes
<1>17. QED
  BY <1>1, <1>2, <1>3, <1>4, <1>5, <1>6, <1>7, <1>8, <1>9, <1>10, <1>11, <1>12,
     <1>13, <1>14, <1>15, <1>16, ReloadIsASwitch
     DEF Next, RouteStep, SwitchStep, LoadStep, IdleStep

\* The load keeps its type.
LEMMA LoadTypesStep ==
  IInv /\ [Next]_vars => LoadTypes'
<1> SUFFICES ASSUME TypeOK, LoadTypes, RequestTypes, FileTypes, RequestInv, [Next]_vars
             PROVE  LoadTypes'
  BY TypesTogether DEF IInv
<1>1. ASSUME NEW q \in Requests, Switch(q) PROVE LoadTypes'
  <2>1. load' = [phase |-> "loading", want |-> want[q], file |-> 0]
    BY <1>1 DEF Switch, NoLoad
  <2>2. want[q] \in Models
    BY <1>1 DEF Switch, RequestInv
  <2>3. QED
    BY <2>1, <2>2, ManifestNumbers DEF LoadTypes, LoadPhases
<1>2. ASSUME LoadFails PROVE LoadTypes'
  BY <1>2, ManifestNumbers DEF LoadFails, NoLoad, LoadTypes, LoadPhases, FileTypes
<1>3. ASSUME LoadSucceeds PROVE LoadTypes'
  BY <1>3, ManifestNumbers DEF LoadSucceeds, LoadTypes, LoadPhases, FileTypes
<1>4. ASSUME NoteLoaded PROVE LoadTypes'
  BY <1>4, ManifestNumbers DEF NoteLoaded, LoadTypes, LoadPhases, FileTypes
<1>5. ASSUME LoadEnds PROVE LoadTypes'
  BY <1>5, ManifestNumbers DEF LoadEnds, NoLoad, LoadTypes, LoadPhases, FileTypes
<1>6. ASSUME CancelLoad PROVE LoadTypes'
  BY <1>6, ManifestNumbers DEF CancelLoad, Count, ForgetUnloaded, LoadTypes,
         LoadPhases, FileTypes
<1>7. ASSUME LoadUnderGate PROVE LoadTypes'
  <2>1. load' = [phase |-> "loading", want |-> loader, file |-> 0]
    BY <1>7 DEF LoadUnderGate, NoLoad
  <2>2. loader \in Models
    BY <1>7 DEF LoadUnderGate
  <2>3. QED
    BY <2>1, <2>2, ManifestNumbers DEF LoadTypes, LoadPhases
<1>8. ASSUME \/ Rest
              \/ (\E q \in Requests : Arrive(q))
              \/ (\E q \in Requests : LeaveGate(q))
              \/ (\E q \in Requests : Start(q))
              \/ (\E q \in Requests : Untrack(q))
              \/ (\E q \in Requests, m \in Models : NeedSwitch(q, m))
              \/ (\E q \in Requests : Serve(q))
              \/ (\E q \in Requests : LastFrame(q))
              \/ (\E q \in Requests : Return(q))
              \/ (\E q \in Requests : AlreadyServing(q))
              \/ (\E q \in Requests : SwitchBusy(q))
              \/ IdleLook
              \/ IdleBegin
              \/ IdleSave
              \/ IdleStays
              \/ IdleUnload
              \/ Unloaded
              \/ UnloadRaises
              \/ IdleStash
              \/ Unload
              \/ LoadRefused
              \/ (\E m \in Models : LoadRoute(m))
              \/ ImageRoute
              \/ ImageTakesGate
              \/ ImageUnloads
              \/ Generate
              \/ ImageEnds
              \/ Release
              \/ Purge
              \/ (\E ttl, keep \in BOOLEAN : Settings(ttl, keep))
              \/ UNCHANGED vars
       PROVE  LoadTypes'
  <2>1. UNCHANGED <<load>>
    BY <1>8 DEF Rest, Arrive, LeaveGate, Start, Untrack, NeedSwitch, Serve,
           LastFrame, Return, AlreadyServing, SwitchBusy, IdleLook, IdleBegin,
           IdleSave, IdleStays, IdleUnload, Unloaded, UnloadRaises, IdleStash,
           Unload, LoadRefused, LoadRoute, ImageRoute, ImageTakesGate, ImageUnloads,
           Generate, ImageEnds, Release, Purge, Settings, vars, idleVars,
           requestVars, storeVars, userVars
  <2>2. QED
    BY <2>1 DEF LoadTypes
<1>9. QED
  BY <1>1, <1>2, <1>3, <1>4, <1>5, <1>6, <1>7, <1>8, ReloadIsASwitch
     DEF Next, RouteStep, SwitchStep, LoadStep, IdleStep

\* What is saved of the model keeps its types.
LEMMA FileTypesStep ==
  IInv /\ [Next]_vars => FileTypes'
<1> SUFFICES ASSUME TypeOK, FileTypes, [Next]_vars
             PROVE  FileTypes'
  BY TypesTogether DEF IInv
<1>1. ASSUME NoteLoaded PROVE FileTypes'
  BY <1>1, ManifestNumbers DEF NoteLoaded, idleVars, FileTypes
<1>2. ASSUME LoadEnds PROVE FileTypes'
  BY <1>2, ManifestNumbers DEF LoadEnds, NoLoad, idleVars, FileTypes
<1>3. ASSUME IdleLook PROVE FileTypes'
  BY <1>3, ManifestNumbers DEF IdleLook, ForgetUnloaded, storeVars, FileTypes
<1>4. ASSUME IdleSave PROVE FileTypes'
  BY <1>4, ManifestNumbers DEF IdleSave, IdleGoes, FileTypes
<1>5. ASSUME IdleStays PROVE FileTypes'
  BY <1>5, ManifestNumbers DEF IdleStays, IdleGoes, IdleDropsFiles, FileTypes
<1>6. ASSUME IdleUnload PROVE FileTypes'
  BY <1>6, ManifestNumbers DEF IdleUnload, IdleGoes, IdleDropsFiles, Idle, FileTypes
<1>7. ASSUME UnloadRaises PROVE FileTypes'
  BY <1>7, ManifestNumbers DEF UnloadRaises, IdleGoes, IdleDropsFiles, FileTypes
<1>8. ASSUME IdleStash PROVE FileTypes'
  BY <1>8, ManifestNumbers DEF IdleStash, IdleGoes, FileTypes
<1>9. ASSUME Unload PROVE FileTypes'
  BY <1>9, ManifestNumbers DEF Unload, Count, ForgetUnloaded, TearDown, idleVars,
         FileTypes
<1>10. ASSUME CancelLoad PROVE FileTypes'
  BY <1>10, ManifestNumbers DEF CancelLoad, Count, ForgetUnloaded, idleVars,
         FileTypes
<1>11. ASSUME ImageUnloads PROVE FileTypes'
  BY <1>11, ManifestNumbers DEF ImageUnloads, ForgetUnloaded, TearDown, storeVars,
         idleVars, FileTypes
<1>12. ASSUME Purge PROVE FileTypes'
  BY <1>12, ManifestNumbers DEF Purge, idleVars, FileTypes
<1>13. ASSUME \/ Rest
              \/ (\E q \in Requests : Arrive(q))
              \/ (\E q \in Requests : LeaveGate(q))
              \/ (\E q \in Requests : Start(q))
              \/ (\E q \in Requests : Untrack(q))
              \/ (\E q \in Requests, m \in Models : NeedSwitch(q, m))
              \/ (\E q \in Requests : Serve(q))
              \/ (\E q \in Requests : LastFrame(q))
              \/ (\E q \in Requests : Return(q))
              \/ (\E q \in Requests : AlreadyServing(q))
              \/ (\E q \in Requests : SwitchBusy(q))
              \/ (\E q \in Requests : Switch(q))
              \/ LoadFails
              \/ LoadSucceeds
              \/ IdleBegin
              \/ Unloaded
              \/ LoadUnderGate
              \/ LoadRefused
              \/ (\E m \in Models : LoadRoute(m))
              \/ ImageRoute
              \/ ImageTakesGate
              \/ Generate
              \/ ImageEnds
              \/ Release
              \/ (\E ttl, keep \in BOOLEAN : Settings(ttl, keep))
              \/ UNCHANGED vars
       PROVE  FileTypes'
  <2>1. UNCHANGED <<idleFile, resume, saves, files>>
    BY <1>13 DEF Rest, Arrive, LeaveGate, Start, Untrack, NeedSwitch, Serve,
           LastFrame, Return, AlreadyServing, SwitchBusy, Switch, LoadFails,
           LoadSucceeds, IdleBegin, Unloaded, LoadUnderGate, LoadRefused, LoadRoute,
           ImageRoute, ImageTakesGate, Generate, ImageEnds, Release, Settings, vars,
           idleVars, requestVars, storeVars, userVars
  <2>2. QED
    BY <2>1 DEF FileTypes
<1>14. QED
  BY <1>1, <1>2, <1>3, <1>4, <1>5, <1>6, <1>7, <1>8, <1>9, <1>10, <1>11, <1>12,
     <1>13, ReloadIsASwitch
     DEF Next, RouteStep, SwitchStep, LoadStep, IdleStep

\* Every step keeps the variables in their types.
LEMMA TypeStep == IInv /\ [Next]_vars => TypeOK'
<1> SUFFICES ASSUME IInv, [Next]_vars PROVE TypeOK'
  OBVIOUS
<1>1. HolderTypes' /\ RequestTypes' /\ ModelTypes' /\ LoadTypes' /\ FileTypes'
  BY HolderTypesStep, RequestTypesStep, ModelTypesStep, LoadTypesStep, FileTypesStep
<1>2. InFlight' \in SUBSET Requests /\ Pending' \in SUBSET Requests
  BY DEF InFlight, Pending
<1>3. /\ inflight' \in 0 .. Cardinality(Requests)
      /\ waiting' \in 0 .. Cardinality(Requests)
  BY <1>2, CountersStep, RequestsCount DEF CountersAreTrue, Pending, InFlight
<1>4. QED
  BY <1>1, <1>3
     DEF TypeOK, HolderTypes, RequestTypes, ModelTypes, LoadTypes, FileTypes

-----------------------------------------------------------------------------
(* The theorems.                                                            *)

\* The initial state satisfies the invariant.
LEMMA InitInv == Init => IInv
<1> SUFFICES ASSUME Init PROVE IInv
  OBVIOUS
<1>1. Pending = {} /\ InFlight = {}
  BY DEF Init, Pending, InFlight, Tracked
<1>2. CountersAreTrue
  BY <1>1, FS_EmptySet DEF Init, CountersAreTrue, Pending, InFlight
<1>3. HolderTypes
  <2>1. settings \in [ttl : BOOLEAN, keep : BOOLEAN] /\ purging \in BOOLEAN
    BY DEF Init
  <2>2. ops \in 0 .. MaxOps
    BY BoundsAssumption DEF Init
  <2>3. QED
    BY <2>1, <2>2 DEF Init, HolderTypes
<1>4. RequestTypes /\ ModelTypes
  BY DEF Init, RequestTypes, RequestPlaces, ModelTypes, IdlePlaces
<1>5. LoadTypes /\ FileTypes
  BY ManifestNumbers DEF Init, NoLoad, LoadTypes, LoadPhases, FileTypes
<1>6. inflight = 0 /\ waiting = 0 /\ 0 \in 0 .. Cardinality(Requests)
  BY RequestsCount DEF Init
<1>7. TypeOK
  BY <1>3, <1>4, <1>5, <1>6, TypesTogether
<1>8. GateIsHeldForWork /\ SlotInv /\ RequestInv /\ ModelInv
  BY Names DEF Init, NoLoad, GateIsHeldForWork, SlotInv, RequestInv, Tracked, ModelInv
<1>9. StreamsAreSpared /\ FilesInv
  BY DEF Init, NoLoad, StreamsAreSpared, FilesInv, FilesHaveOneOwner
<1>10. QED
  BY <1>2, <1>7, <1>8, <1>9 DEF IInv

\* The invariant holds of every behaviour.
THEOREM InvariantHolds == Spec => []IInv
<1>1. IInv /\ [Next]_vars => IInv'
  BY TypeStep, CountersStep, GateStep, RequestStep, SlotStep, ModelStep, StreamsStep, FilesStep
     DEF IInv
<1>2. QED
  BY <1>1, InitInv, PTL DEF Spec

\* What the idle loop and the switch guard look at (_inflight and _pending, who
\* holds _lifecycle_lock) is true, for any number of requests, whichever way
\* each of them ends and whatever fails under the gate.
THEOREM BooksStayTrue == Spec => []BooksAreTrue
<1>1. IInv => BooksAreTrue
  BY DEF IInv, BooksAreTrue
<1>2. QED
  BY <1>1, InvariantHolds, PTL

\* Neither the idle unload nor the switch of another request takes the model
\* from a stream, and the user's load finds the memory that ComfyUI had.
THEOREM StreamsKeepTheirModel == Spec => []AcceleratorIsShared
<1>1. IInv => AcceleratorIsShared
  BY DEF IInv, SlotInv, AcceleratorIsShared, LoadFindsRoom
<1>2. QED
  BY <1>1, InvariantHolds, PTL

\* The files of a saved context have one owner, who deletes them, and a model
\* to reload is remembered only while none is loaded.
THEOREM SavesHaveAnOwner == Spec => []SavedContextIsOwned
<1>1. IInv => SavedContextIsOwned
  BY Names DEF IInv, FilesInv, ModelInv, GateIsHeldForWork, SavedContextIsOwned, StashOfNoModel
<1>2. QED
  BY <1>1, InvariantHolds, PTL
=============================================================================
