------------------------------ MODULE KeepWarm ------------------------------
(***************************************************************************)
(* Who may hold the accelerator: the keep-warm counters, the lifecycle     *)
(* gate and the idle unload (core/inference/llama_keepwarm.py), the slot   *)
(* that chat shares with a local ComfyUI (features/comfy/coordinator.py    *)
(* and router.py), and the routes that load, switch and unload the GGUF    *)
(* model (routes/inference.py).                                            *)
(*                                                                         *)
(* A step is what an actor does between two awaits, or one call of a       *)
(* thread.  Time is one bit: rested is true when the model has had no      *)
(* activity for the idle time.                                             *)
(***************************************************************************)
EXTENDS Integers, FiniteSets

CONSTANTS
  Chats,      \* requests on the paths that take the accelerator slot
  Others,     \* tracked inference requests on other paths (embeddings, audio)
  Models,
  NoModel,
  MaxOps,     \* operations of the user, changes of the settings
  MaxSaves    \* saves of the model's slots

ASSUME ModelAssumption ==
  NoModel \notin Models /\ Models \cap {"none", "loading"} = {}
ASSUME RequestsAssumption ==
  /\ IsFiniteSet(Chats \cup Others)
  /\ (Chats \cup Others) \cap {"free", "loader", "image", "idle"} = {}
ASSUME BoundsAssumption == MaxOps \in Nat /\ MaxSaves \in Nat

VARIABLES
  slot,       \* AcceleratorCoordinator._lock and its holder
  comfy,      \* ComfyUI has a checkpoint in memory
  gate,       \* _lifecycle_lock and its holder
  model,      \* the model in the llama-server's memory
  load,       \* the load in progress under the gate
  rested,     \* _last_active is older than the idle time
  inflight,   \* _inflight
  waiting,    \* _pending
  req,        \* where a request is
  want,       \* the model a request needs the server to switch to
  using,      \* the model that a request is streaming from
  ended,      \* requests whose _finish ran
  untracked,  \* requests that left the count by themselves
  torn,       \* history: requests whose model the user took away
  idle,       \* where idle_unload_loop is
  seen,       \* its seen_model
  idleFile,   \* its manifest
  stash,      \* _last_unloaded_model
  resume,     \* _kv_resume, 0 for None
  files,      \* manifests whose files are on disk
  saves,      \* how many saves there were
  loader,     \* the load route: "none", the model to load, "loading"
  image,      \* the image route
  settings,   \* idle unload on, keep the slots' KV
  purging,    \* a settings change has still to purge
  ops         \* how many operations there were

requestVars == <<inflight, waiting, req, want, using, ended, untracked>>
storeVars == <<stash, resume, files>>
idleVars == <<idle, seen, idleFile, saves>>
userVars == <<loader, image, settings, purging, ops>>
vars == <<slot, comfy, gate, model, load, rested, requestVars, torn, storeVars,
          idleVars, userVars>>

Requests == Chats \cup Others
Tracked(q) == req[q] \in {"started", "switch", "loading", "unserved", "serving"}
NoLoad == [phase |-> "none", want |-> NoModel, file |-> 0]

Init ==
  /\ slot = "free"
  /\ comfy = FALSE
  /\ gate = "free"
  /\ model = NoModel
  /\ load = NoLoad
  /\ rested = FALSE
  /\ inflight = 0
  /\ waiting = 0
  /\ req = [q \in Requests |-> "new"]
  /\ want = [q \in Requests |-> NoModel]
  /\ using = [q \in Requests |-> NoModel]
  /\ ended = {}
  /\ untracked = {}
  /\ torn = {}
  /\ idle = "sleep"
  /\ seen = NoModel
  /\ idleFile = 0
  /\ stash = NoModel
  /\ resume = 0
  /\ files = {}
  /\ saves = 0
  /\ loader = "none"
  /\ image = "none"
  /\ settings = [ttl |-> TRUE, keep |-> TRUE]
  /\ purging = FALSE
  /\ ops = 0

ReqGoes(q, place) == req' = [req EXCEPT ![q] = place]
OneLess(n) == IF n > 0 THEN n - 1 ELSE 0
Rest == ~rested /\ rested' = TRUE /\
  UNCHANGED <<slot, comfy, gate, model, load, requestVars, torn, storeVars, idleVars, userVars>>

\* _set_last_unloaded(None): what was saved for the reload goes with it.
ForgetUnloaded ==
  /\ stash' = NoModel
  /\ resume' = 0
  /\ files' = files \ {resume}

\* The streams that a deliberate unload or load of the user takes down.
TearDown == torn' = torn \cup {q \in Requests : req[q] = "serving"}

-----------------------------------------------------------------------------
(* A request: the coordinator's middleware, then the keep-warm middleware.  *)

NoteStart ==
  /\ waiting' = OneLess(waiting)
  /\ inflight' = inflight + 1

\* A chat that finds the slot taken gets 409 and is no step.
Arrive(q) ==
  /\ req[q] = "new"
  /\ q \in Chats => slot = "free"
  /\ slot' = IF q \in Chats THEN q ELSE slot
  /\ waiting' = waiting + 1
  /\ ReqGoes(q, "pending")
  /\ UNCHANGED <<comfy, gate, model, load, rested, inflight, want, using, ended,
                 untracked, torn, storeVars, idleVars, userVars>>

FreeSlot(q) == slot' = IF slot = q THEN "free" ELSE slot

\* The client goes away while the request waits at the gate.
LeaveGate(q) ==
  /\ req[q] = "pending"
  /\ waiting' = OneLess(waiting)
  /\ ReqGoes(q, "done")
  /\ FreeSlot(q)
  /\ UNCHANGED <<comfy, gate, model, load, rested, inflight, want, using, ended,
                 untracked, torn, storeVars, idleVars, userVars>>

\* The gate is free, so the request is counted and lets it go again.
Start(q) ==
  /\ req[q] = "pending"
  /\ gate = "free"
  /\ NoteStart
  /\ ReqGoes(q, "started")
  /\ UNCHANGED <<slot, comfy, gate, model, load, rested, want, using, ended,
                 untracked, torn, storeVars, idleVars, userVars>>

\* The route proxies the request to an external provider.
Untrack(q) ==
  /\ req[q] = "started"
  /\ untracked' = untracked \cup {q}
  /\ inflight' = OneLess(inflight)
  /\ ReqGoes(q, "external")
  /\ UNCHANGED <<slot, comfy, gate, model, load, rested, waiting, want, using, ended,
                 torn, storeVars, idleVars, userVars>>

\* _maybe_auto_switch_model: the request names a downloaded model, or finds
\* that the idle unload has freed one.
NeedSwitch(q, m) ==
  /\ req[q] = "started"
  /\ m # model
  /\ want' = [want EXCEPT ![q] = m]
  /\ ReqGoes(q, "switch")
  /\ UNCHANGED <<slot, comfy, gate, model, load, rested, inflight, waiting, using, ended,
                 untracked, torn, storeVars, idleVars, userVars>>

NeedReload(q) ==
  /\ stash # NoModel
  /\ model = NoModel
  /\ NeedSwitch(q, stash)

\* No switch: the request uses what is loaded, or is turned down.
Serve(q) ==
  /\ req[q] = "started"
  /\ using' = [using EXCEPT ![q] = model]
  /\ ReqGoes(q, IF model = NoModel THEN "unserved" ELSE "serving")
  /\ UNCHANGED <<slot, comfy, gate, model, load, rested, inflight, waiting, want, ended,
                 untracked, torn, storeVars, idleVars, userVars>>

\* Requests that wait for a switch to the same model, this one not counted.
SameTarget(q) == {x \in Requests \ {q} : req[x] = "switch" /\ want[x] = want[q]}

\* Under the gate: another request loaded the model meanwhile ...
AlreadyServing(q) ==
  /\ req[q] = "switch"
  /\ gate = "free"
  /\ model = want[q]
  /\ using' = [using EXCEPT ![q] = model]
  /\ ReqGoes(q, "serving")
  /\ UNCHANGED <<slot, comfy, gate, model, load, rested, inflight, waiting, want, ended,
                 untracked, torn, storeVars, idleVars, userVars>>

\* ... or others use the model that the switch would take away: 409 ...
SwitchBusy(q) ==
  /\ req[q] = "switch"
  /\ gate = "free"
  /\ model # want[q]
  /\ inflight - 1 > Cardinality(SameTarget(q))
  /\ ReqGoes(q, "unserved")
  /\ UNCHANGED <<slot, comfy, gate, model, load, rested, inflight, waiting, want, using,
                 ended, untracked, torn, storeVars, idleVars, userVars>>

\* ... or the model is loaded under the gate, in place of the old one.
Switch(q) ==
  /\ req[q] = "switch"
  /\ gate = "free"
  /\ model # want[q]
  /\ inflight - 1 <= Cardinality(SameTarget(q))
  /\ gate' = q
  /\ model' = NoModel
  /\ load' = [NoLoad EXCEPT !.phase = "loading", !.want = want[q]]
  /\ ReqGoes(q, "loading")
  /\ UNCHANGED <<slot, comfy, rested, inflight, waiting, want, using, ended, untracked,
                 torn, storeVars, idleVars, userVars>>

\* Mutant: both runs of _finish count.
FinishTwice(q) ==
  /\ ended' = ended \cup {q}
  /\ inflight' = IF q \in untracked THEN inflight ELSE OneLess(inflight)
  /\ rested' \in IF q \in untracked THEN {rested} ELSE {rested, FALSE}

\* _finish, run by the last body frame and again when the app returns: it
\* counts once, and not at all for a request that untracked itself.  A 401 or
\* 403 leaves the idle time alone.
Finish(q) ==
  /\ ended' = ended \cup {q}
  /\ inflight' = IF q \in ended \cup untracked THEN inflight ELSE OneLess(inflight)
  /\ rested' \in IF q \in ended \cup untracked THEN {rested} ELSE {rested, FALSE}

LastFrame(q) ==
  /\ req[q] \in {"started", "serving", "unserved", "external"}
  /\ Finish(q)
  /\ ReqGoes(q, "framed")
  /\ using' = [using EXCEPT ![q] = NoModel]
  /\ UNCHANGED <<slot, comfy, gate, model, load, waiting, want, untracked, torn,
                 storeVars, idleVars, userVars>>

\* The app returns, after the last frame or without one.
Return(q) ==
  /\ req[q] \in {"framed", "serving"}
  /\ Finish(q)
  /\ ReqGoes(q, "done")
  /\ using' = [using EXCEPT ![q] = NoModel]
  /\ FreeSlot(q)
  /\ UNCHANGED <<comfy, gate, model, load, waiting, want, untracked, torn,
                 storeVars, idleVars, userVars>>

-----------------------------------------------------------------------------
(* A load under the gate, for a request or for the user's load route.       *)

LoadFails ==
  /\ load.phase \in {"loading", "cancelled"}
  /\ load' = NoLoad
  /\ gate' = "free"
  /\ loader' = IF gate = "loader" THEN "none" ELSE loader
  /\ slot' = IF gate = "loader" THEN "free" ELSE slot
  /\ req' = [q \in Requests |-> IF q = gate THEN "unserved" ELSE req[q]]
  /\ UNCHANGED <<comfy, model, rested, inflight, waiting, want, using, ended,
                 untracked, torn, storeVars, idleVars, image, settings, purging, ops>>

LoadSucceeds ==
  /\ load.phase = "loading"
  /\ model' = load.want
  /\ load' = [load EXCEPT !.phase = "noting"]
  /\ UNCHANGED <<slot, comfy, gate, rested, requestVars, torn, storeVars, idleVars, userVars>>

\* note_model_loaded, in a thread: take the saved slots, drop the stash ...
NoteLoaded ==
  /\ load.phase = "noting"
  /\ rested' = FALSE
  /\ load' = [load EXCEPT !.phase = "restoring", !.file = resume]
  /\ resume' = 0
  /\ stash' = NoModel
  /\ UNCHANGED <<slot, comfy, gate, model, requestVars, torn, files, idleVars, userVars>>

\* ... then restore_kv_resume, which deletes the files in any case; the gate is
\* let go of, and the request is served.
LoadEnds ==
  /\ load.phase = "restoring"
  /\ files' = files \ {load.file}
  /\ load' = NoLoad
  /\ gate' = "free"
  /\ loader' = IF gate = "loader" THEN "none" ELSE loader
  /\ slot' = IF gate = "loader" THEN "free" ELSE slot
  /\ req' = [q \in Requests |-> IF q = gate THEN "serving" ELSE req[q]]
  /\ using' = [q \in Requests |-> IF q = gate THEN model ELSE using[q]]
  /\ UNCHANGED <<comfy, model, rested, inflight, waiting, want, ended, untracked, torn,
                 stash, resume, idleVars, image, settings, purging, ops>>

-----------------------------------------------------------------------------
(* idle_unload_loop.                                                         *)

\* Mutant: requests that are being served do not count.
IdleByTheClock == rested

\* _is_idle
Idle == inflight = 0 /\ waiting = 0 /\ rested

IdleGoes(place) == idle' = place

\* A turn of the loop that does not unload: a model it has not seen is noted.
IdleLook ==
  /\ idle = "sleep"
  /\ gate = "free"
  /\ settings.ttl
  /\ model # seen
  /\ seen' = model
  /\ rested' = IF model # NoModel THEN FALSE ELSE rested
  /\ IF model # NoModel THEN ForgetUnloaded ELSE UNCHANGED storeVars
  /\ UNCHANGED <<slot, comfy, gate, model, load, requestVars, torn, idle, idleFile, saves,
                 userVars>>

\* The model is idle: under the gate, save its slots in a thread.
IdleBegin ==
  /\ idle = "sleep"
  /\ gate = "free"
  /\ settings.ttl
  /\ model # NoModel /\ model = seen /\ Idle
  /\ gate' = "idle"
  /\ IdleGoes(IF settings.keep THEN "saving" ELSE "saved")
  /\ UNCHANGED <<slot, comfy, model, load, rested, requestVars, torn, storeVars, seen,
                 idleFile, saves, userVars>>

\* The save writes its files, or gives up (a request is waiting, no room).
IdleSave ==
  /\ idle = "saving"
  /\ \/ /\ saves < MaxSaves
        /\ saves' = saves + 1
        /\ idleFile' = saves + 1
        /\ files' = files \cup {saves + 1}
     \/ UNCHANGED <<saves, idleFile, files>>
  /\ IdleGoes("saved")
  /\ UNCHANGED <<slot, comfy, gate, model, load, rested, requestVars, torn, stash, resume,
                 seen, userVars>>

\* Mutant: the files of a save that is not used stay.
IdleStayFiles == UNCHANGED files

IdleDropsFiles == files' = files \ {idleFile}

\* Settings and idleness are read again after the save.
IdleStays ==
  /\ idle = "saved"
  /\ ~settings.ttl \/ ~Idle
  /\ IdleDropsFiles
  /\ idleFile' = 0
  /\ gate' = "free"
  /\ IdleGoes("sleep")
  /\ UNCHANGED <<slot, comfy, model, load, rested, requestVars, torn, stash, resume, seen,
                 saves, userVars>>

IdleUnload ==
  /\ idle = "saved"
  /\ settings.ttl /\ Idle
  /\ IF settings.keep THEN UNCHANGED <<files, idleFile>> ELSE IdleDropsFiles /\ idleFile' = 0
  /\ IdleGoes("unloading")
  /\ UNCHANGED <<slot, comfy, gate, model, load, rested, requestVars, torn, stash, resume,
                 seen, saves, userVars>>

\* The unload's thread: the model is gone ...
Unloaded ==
  /\ idle = "unloading"
  /\ model' = NoModel
  /\ IdleGoes("unloaded")
  /\ UNCHANGED <<slot, comfy, gate, load, rested, requestVars, torn, storeVars, seen,
                 idleFile, saves, userVars>>

\* ... or the unload raises.
UnloadRaises ==
  /\ idle = "unloading"
  /\ IdleDropsFiles
  /\ idleFile' = 0
  /\ gate' = "free"
  /\ IdleGoes("sleep")
  /\ UNCHANGED <<slot, comfy, model, load, rested, requestVars, torn, stash, resume, seen,
                 saves, userVars>>

\* Record what was freed and where its slots were saved.
IdleStash ==
  /\ idle = "unloaded"
  /\ stash' = seen
  /\ resume' = IF idleFile = 0 THEN resume ELSE idleFile
  /\ files' = IF idleFile = 0 THEN files ELSE files \ {resume}
  /\ idleFile' = 0
  /\ seen' = NoModel
  /\ gate' = "free"
  /\ IdleGoes("sleep")
  /\ UNCHANGED <<slot, comfy, model, load, rested, requestVars, torn, saves, userVars>>

-----------------------------------------------------------------------------
(* The user's routes.                                                       *)

Count == ops < MaxOps /\ ops' = ops + 1

\* POST /inference/unload of a model that is loaded, or of none.
Unload ==
  /\ Count
  /\ gate = "free"
  /\ model' = NoModel
  /\ TearDown
  /\ ForgetUnloaded
  /\ UNCHANGED <<slot, comfy, gate, load, rested, requestVars, idleVars, loader, image, settings, purging>>

\* ... of a model that is still loading: off the gate, and the load fails.
CancelLoad ==
  /\ Count
  /\ load.phase = "loading"
  /\ load' = [load EXCEPT !.phase = "cancelled"]
  /\ ForgetUnloaded
  /\ UNCHANGED <<slot, comfy, gate, model, rested, requestVars, torn, idleVars, loader, image, settings,
                 purging>>

\* POST /inference/load, in the coordinator's middleware: take the slot and
\* have ComfyUI release its memory.
LoadRoute(m) ==
  /\ Count
  /\ slot = "free"
  /\ m # model
  /\ slot' = "loader"
  /\ comfy' = FALSE
  /\ loader' = m
  /\ UNCHANGED <<gate, model, load, rested, requestVars, torn, storeVars, idleVars, image, settings,
                 purging>>

LoadUnderGate ==
  /\ loader \in Models
  /\ gate = "free"
  /\ gate' = "loader"
  /\ model' = NoModel
  /\ TearDown
  /\ load' = [NoLoad EXCEPT !.phase = "loading", !.want = loader]
  /\ loader' = "loading"
  /\ UNCHANGED <<slot, comfy, rested, requestVars, storeVars, idleVars, image, settings,
                 purging, ops>>

\* A transformers install is in progress: 409.
LoadRefused ==
  /\ loader \in Models
  /\ loader' = "none"
  /\ slot' = "free"
  /\ UNCHANGED <<comfy, gate, model, load, rested, requestVars, torn, storeVars, idleVars, image,
                 settings, purging, ops>>

\* POST /comfy/generate takes the slot and finds ComfyUI ready.
ImageRoute ==
  /\ Count
  /\ image = "none"
  /\ slot = "free"
  /\ slot' = "image"
  /\ image' = "image"
  /\ UNCHANGED <<comfy, gate, model, load, rested, requestVars, torn, storeVars, idleVars,
                 loader, settings, purging>>

\* unload_chat_model, under the gate; the unload runs in a thread.
ImageTakesGate ==
  /\ image = "image"
  /\ gate = "free"
  /\ gate' = "image"
  /\ image' = "unloading"
  /\ UNCHANGED <<slot, comfy, model, load, rested, requestVars, torn, storeVars, idleVars,
                 loader, settings, purging, ops>>

\* Only if there was a model to unload is the reload stash dropped.
ImageUnloads ==
  /\ image = "unloading"
  /\ IF model # NoModel THEN ForgetUnloaded ELSE UNCHANGED storeVars
  /\ model' = NoModel
  /\ TearDown
  /\ gate' = "free"
  /\ image' = "generating"
  /\ UNCHANGED <<slot, comfy, load, rested, requestVars, idleVars, loader, settings, purging, ops>>

\* ComfyUI generates, and keeps its checkpoint in memory.
Generate ==
  /\ image = "generating"
  /\ ~comfy
  /\ comfy' = TRUE
  /\ UNCHANGED <<slot, gate, model, load, rested, requestVars, torn, storeVars, idleVars,
                 userVars>>

\* The image is saved, or any of the steps before failed.
ImageEnds ==
  /\ image \in {"image", "generating"}
  /\ image' = "none"
  /\ slot' = IF slot = "image" THEN "free" ELSE slot
  /\ UNCHANGED <<comfy, gate, model, load, rested, requestVars, torn, storeVars, idleVars,
                 loader, settings, purging, ops>>

\* POST /comfy/release
Release ==
  /\ Count
  /\ slot = "free"
  /\ comfy
  /\ comfy' = FALSE
  /\ UNCHANGED <<slot, gate, model, load, rested, requestVars, torn, storeVars, idleVars, loader, image,
                 settings, purging>>

\* PUT /settings/openai-auto-switch writes the settings ...
Settings(ttl, keep) ==
  /\ Count
  /\ ~purging
  /\ settings' = [ttl |-> ttl, keep |-> keep]
  /\ purging' = (~ttl \/ ~keep)
  /\ UNCHANGED <<slot, comfy, gate, model, load, rested, requestVars, torn, storeVars, idleVars,
                 loader, image>>

\* ... and drops what was saved under the old ones: purge_kv_resume.
Purge ==
  /\ purging
  /\ purging' = FALSE
  /\ resume' = 0
  /\ files' = files \ {resume}
  /\ UNCHANGED <<slot, comfy, gate, model, load, rested, requestVars, torn, stash, idleVars, loader, image,
                 settings, ops>>

-----------------------------------------------------------------------------

RouteStep(q) ==
  \/ Untrack(q) \/ NeedReload(q) \/ Serve(q) \/ (\E m \in Models : NeedSwitch(q, m))
  \/ LastFrame(q) \/ Return(q)

SwitchStep(q) == AlreadyServing(q) \/ SwitchBusy(q) \/ Switch(q)

LoadStep == LoadFails \/ LoadSucceeds \/ NoteLoaded \/ LoadEnds

IdleStep ==
  \/ IdleLook \/ IdleBegin \/ IdleSave \/ IdleStays \/ IdleUnload
  \/ Unloaded \/ UnloadRaises \/ IdleStash

Next ==
  \/ Rest
  \/ \E q \in Requests :
       Arrive(q) \/ LeaveGate(q) \/ Start(q) \/ RouteStep(q) \/ SwitchStep(q)
  \/ LoadStep
  \/ IdleStep
  \/ Unload \/ CancelLoad
  \/ LoadUnderGate \/ LoadRefused \/ (\E m \in Models : LoadRoute(m))
  \/ ImageRoute \/ ImageTakesGate \/ ImageUnloads \/ Generate \/ ImageEnds
  \/ Release
  \/ Purge \/ (\E ttl, keep \in BOOLEAN : Settings(ttl, keep))

Spec == Init /\ [][Next]_vars

-----------------------------------------------------------------------------
(* What is promised.                                                        *)

Manifests == 0 .. MaxSaves

RequestPlaces == {"new", "pending", "started", "external", "switch", "loading",
                  "unserved", "serving", "framed", "done"}
IdlePlaces == {"sleep", "saving", "saved", "unloading", "unloaded"}
LoadPhases == {"none", "loading", "cancelled", "noting", "restoring"}

\* Types of the variables; a counter never exceeds the requests there are.
TypeOK ==
  /\ slot \in Chats \cup {"free", "loader", "image"}
  /\ gate \in Requests \cup {"free", "loader", "image", "idle"}
  /\ {model, seen, stash} \subseteq Models \cup {NoModel}
  /\ load \in [phase : LoadPhases, want : Models \cup {NoModel}, file : Manifests]
  /\ {comfy, rested, purging} \subseteq BOOLEAN
  /\ inflight \in 0 .. Cardinality(Requests)
  /\ waiting \in 0 .. Cardinality(Requests)
  /\ req \in [Requests -> RequestPlaces]
  /\ {want, using} \subseteq [Requests -> Models \cup {NoModel}]
  /\ ended \cup untracked \cup torn \subseteq Requests
  /\ idle \in IdlePlaces
  /\ {idleFile, resume, saves} \subseteq Manifests
  /\ files \subseteq Manifests
  /\ loader \in Models \cup {"none", "loading"}
  /\ image \in {"none", "image", "unloading", "generating"}
  /\ settings \in [ttl : BOOLEAN, keep : BOOLEAN]
  /\ ops \in 0 .. MaxOps

\* The counters that the idle loop and the switch guard rely on are the
\* requests they stand for, whichever way a request ends; the clamp at zero
\* never hides a request counted off twice.
CountersAreTrue ==
  /\ waiting = Cardinality({q \in Requests : req[q] = "pending"})
  /\ inflight = Cardinality({q \in Requests : Tracked(q)})

\* A stream keeps the model it is reading from, unless the user took it away:
\* neither the idle unload nor another request's switch may.
StreamsAreSpared ==
  \A q \in Requests \ torn : req[q] = "serving" => using[q] = model

\* Every saved manifest on disk has one owner that will delete it, and what an
\* owner has still to restore is on disk.
FilesHaveOneOwner ==
  /\ files = {resume, idleFile, load.file} \ {0}
  /\ resume # 0 => resume \notin {idleFile, load.file}
  /\ idleFile # 0 => idleFile # load.file

\* What an alias request would reload is only remembered while nothing is
\* loaded: whoever holds the gate settles both before it lets go.
StashOfNoModel == gate = "free" /\ stash # NoModel => model = NoModel

\* The user's load begins with ComfyUI's memory free, and keeps it free.  (The
\* loads of an auto-switch do not ask for it: routes/inference.py 3756.)
LoadFindsRoom == loader = "loading" => ~comfy

\* The gate is taken exactly while its holder is at the work it guards: no
\* failure keeps it, and no one works without it.
GateIsHeldForWork ==
  /\ gate = "idle" <=> idle # "sleep"
  /\ gate = "image" <=> image = "unloading"
  /\ gate \in Requests \cup {"loader"} <=> load.phase # "none"
  /\ gate = "loader" <=> loader = "loading"

\* What the idle loop and the switch guard look at is true.
BooksAreTrue == TypeOK /\ CountersAreTrue /\ GateIsHeldForWork

\* Who was given the accelerator keeps it: a stream its model, a load the
\* memory that ComfyUI let go of.
AcceleratorIsShared == StreamsAreSpared /\ LoadFindsRoom

\* What the idle unload leaves for the reload has one owner and one use.
SavedContextIsOwned == FilesHaveOneOwner /\ StashOfNoModel
=============================================================================
