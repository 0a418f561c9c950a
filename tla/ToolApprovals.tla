---------------------------- MODULE ToolApprovals ----------------------------
(***************************************************************************)
(* The tool stream of a chat request, its tool loop and the gate before    *)
(* each call: state/tool_approvals.py, gguf_tool_stream and its admitted   *)
(* wrapper (routes/inference.py), generate_chat_completion_with_tools      *)
(* (core/inference/llama_cpp.py; safetensors_agentic.py has the same       *)
(* gate).                                                                  *)
(*                                                                         *)
(* Two actors share a run.  The stream, on the event loop, asks for the    *)
(* next event of the loop; the loop is a generator that runs in a thread   *)
(* for as long as it is asked ("next") or waited for ("drain"), and is     *)
(* suspended at a yield otherwise.  The user's answers come on other       *)
(* connections.                                                            *)
(***************************************************************************)
EXTENDS CancelRegistry

CONSTANT MaxCalls       \* gated calls of one run

ASSUME MaxCallsAssumption == MaxCalls \in Nat \ {0}

VARIABLES
  stream,     \* where the stream is
  loop,       \* where the generator is, at a yield or in a thread
  calls,      \* how many calls a run has made; the last is the current one
  pending,    \* _pending: the registered slots
  decision,   \* the slot's decision; its event is set when there is one
  verdict,    \* what wait_tool_decision returned
  shown,      \* calls whose tool_start was sent to the client
  told,       \* history: the answers that tool-confirm acknowledged
  tired,      \* history: calls whose wait timed out
  ran         \* history: calls whose tool was executed

gateVars == <<pending, decision, told>>
loopVars == <<loop, calls, verdict, tired, ran>>
vars == <<registryVars, stream, loopVars, gateVars, shown>>

Calls == Runs \X (1 .. MaxCalls)
Answers == {"allow", "deny"}
StreamPlaces == {"new", "entered", "loop", "next", "drain", "completing",
                 "closing", "closed", "ended"}
LoopPlaces == {"model", "status", "start", "wait", "looked", "pop", "tool",
               "denied", "result", "done"}

TypeOK ==
  /\ RegistryTypeOK
  /\ stream \in [Runs -> StreamPlaces]
  /\ loop \in [Runs -> LoopPlaces]
  /\ calls \in [Runs -> 0 .. MaxCalls]
  /\ pending \subseteq Calls
  /\ decision \in [Calls -> Answers \cup {"none"}]
  /\ verdict \in [Calls -> Answers \cup {"none"}]
  /\ shown \subseteq Calls
  /\ told \in [Calls -> SUBSET Answers]
  /\ tired \subseteq Calls
  /\ ran \subseteq Calls

Init ==
  /\ RegistryInit
  /\ stream = [r \in Runs |-> "new"]
  /\ loop = [r \in Runs |-> "model"]
  /\ calls = [r \in Runs |-> 0]
  /\ pending = {}
  /\ decision = [a \in Calls |-> "none"]
  /\ verdict = [a \in Calls |-> "none"]
  /\ shown = {}
  /\ told = [a \in Calls |-> {}]
  /\ tired = {}
  /\ ran = {}

\* The call the loop is at.
Current(r) == <<r, calls[r]>>

StreamGoes(r, place) == stream' = [stream EXCEPT ![r] = place]
LoopGoes(r, place) == loop' = [loop EXCEPT ![r] = place]

-----------------------------------------------------------------------------
(* The stream.                                                              *)

\* The request's handler registers the run before it returns the response.
Open(r) ==
  /\ stream[r] = "new"
  /\ Enter(r)
  /\ StreamGoes(r, "entered")
  /\ UNCHANGED <<posted, lapsed, wanted, loopVars, gateVars, shown>>

\* The run is never started: its place in the admission queue timed out, was
\* cancelled, or the client went away first.
Unstarted(r) ==
  /\ stream[r] = "entered"
  /\ Exit(r)
  /\ StreamGoes(r, "ended")
  /\ UNCHANGED <<cancelEvent, stash, posted, lapsed, wanted, loopVars, gateVars, shown>>

Granted(r) ==
  /\ stream[r] = "entered"
  /\ ~cancelEvent[r]
  /\ StreamGoes(r, "loop")
  /\ UNCHANGED <<registryVars, loopVars, gateVars, shown>>

\* The top of the stream's loop.
LoopOn(r) ==
  /\ stream[r] = "loop"
  /\ StreamGoes(r, IF cancelEvent[r] THEN "completing" ELSE "next")
  /\ UNCHANGED <<registryVars, loopVars, gateVars, shown>>

\* The disconnect watcher.
Watch(r) ==
  /\ stream[r] \in {"loop", "next", "completing"}
  /\ SetEvents({r})
  /\ wanted' = wanted \cup {r}
  /\ UNCHANGED <<registered, stash, posted, lapsed, stream, loopVars, gateVars, shown>>

\* The client is gone: the stream is cancelled where it stands, and waits for
\* the thread that is still in the generator.
Abandon(r) ==
  /\ stream[r] \in {"loop", "next", "completing"}
  /\ SetEvents({r})
  /\ wanted' = wanted \cup {r}
  /\ StreamGoes(r, IF stream[r] = "next" THEN "drain" ELSE "closing")
  /\ UNCHANGED <<registered, stash, posted, lapsed, loopVars, gateVars, shown>>

\* Mutant: the generator has no finally.
DroppedSlotKept(r) ==
  /\ pending' = pending
  /\ LoopGoes(r, "done")

\* A generator that is closed or collected at one of a call's first two yields
\* runs its finally: abort_tool_decision.
Dropped(r) ==
  /\ pending' = IF loop[r] \in {"status", "start"} THEN pending \ {Current(r)} ELSE pending
  /\ LoopGoes(r, "done")

Close(r) ==
  /\ stream[r] = "closing"
  /\ Dropped(r)
  /\ StreamGoes(r, "closed")
  /\ UNCHANGED <<registryVars, calls, verdict, tired, ran, decision, told, shown>>

Untrack(r) ==
  /\ stream[r] = "closed"
  /\ Exit(r)
  /\ StreamGoes(r, "ended")
  /\ UNCHANGED <<cancelEvent, stash, posted, lapsed, wanted, loopVars, gateVars, shown>>

\* The last chunks are sent.  The generator is not closed; the frame's end
\* drops the last reference to it.
Complete(r) ==
  /\ stream[r] = "completing"
  /\ Exit(r)
  /\ Dropped(r)
  /\ StreamGoes(r, "ended")
  /\ UNCHANGED <<cancelEvent, stash, posted, lapsed, wanted,
                 calls, verdict, tired, ran, decision, told, shown>>

-----------------------------------------------------------------------------
(* The tool loop, in its thread.                                            *)

Running(r) == stream[r] \in {"next", "drain"}

\* The generator hands an event to the stream and is suspended.
Yield(r, place) ==
  /\ LoopGoes(r, place)
  /\ StreamGoes(r, IF stream[r] = "next" THEN "loop" ELSE "closing")

\* The model's turn: some text, or the status of an iteration.
Speak(r) ==
  /\ Running(r)
  /\ loop[r] \in {"model", "denied", "result"}
  /\ Yield(r, "model")
  /\ UNCHANGED <<registryVars, calls, verdict, tired, ran, gateVars, shown>>

\* The model's turn: a call that needs the user.  begin_tool_decision comes
\* before the first yield.
Begin(r) ==
  /\ Running(r)
  /\ loop[r] \in {"model", "denied", "result"}
  /\ calls[r] < MaxCalls
  /\ calls' = [calls EXCEPT ![r] = @ + 1]
  /\ pending' = pending \cup {<<r, calls[r] + 1>>}
  /\ Yield(r, "status")
  /\ UNCHANGED <<registryVars, verdict, tired, ran, decision, told, shown>>

\* The loop is over: the model's final answer, its budget, or a cancel seen at
\* the top of an iteration.
Finish(r) ==
  /\ Running(r)
  /\ loop[r] \in {"model", "denied", "result"}
  /\ LoopGoes(r, "done")
  /\ StreamGoes(r, IF stream[r] = "next" THEN "completing" ELSE "closing")
  /\ UNCHANGED <<registryVars, calls, verdict, tired, ran, gateVars, shown>>

\* The llama-server fails and the generator raises.
Raise(r) ==
  /\ Running(r)
  /\ loop[r] \in {"model", "denied", "result"}
  /\ LoopGoes(r, "done")
  /\ StreamGoes(r, "closing")
  /\ SetEvents({r})
  /\ UNCHANGED <<registered, stash, posted, lapsed, wanted,
                 calls, verdict, tired, ran, gateVars, shown>>

\* yield tool_start
Announce(r) ==
  /\ Running(r)
  /\ loop[r] = "status"
  /\ shown' = IF stream[r] = "next" THEN shown \cup {Current(r)} ELSE shown
  /\ Yield(r, "start")
  /\ UNCHANGED <<registryVars, calls, verdict, tired, ran, gateVars>>

\* wait_tool_decision waits half a second for the slot's event: it is set ...
Woken(r) ==
  /\ Running(r)
  /\ loop[r] \in {"start", "wait"}
  /\ decision[Current(r)] # "none"
  /\ verdict' = [verdict EXCEPT ![Current(r)] = decision[Current(r)]]
  /\ LoopGoes(r, "pop")
  /\ UNCHANGED <<registryVars, stream, calls, tired, ran, gateVars, shown>>

\* ... or the half second passes.
Unanswered(r) ==
  /\ Running(r)
  /\ loop[r] \in {"start", "wait"}
  /\ decision[Current(r)] = "none"
  /\ LoopGoes(r, "looked")
  /\ UNCHANGED <<registryVars, stream, calls, verdict, tired, ran, gateVars, shown>>

\* Mutant: a wait that a cancel ends returns the slot's empty decision, which
\* is not "deny".
GiveUpOpen(r) ==
  /\ Running(r)
  /\ loop[r] = "looked"
  /\ cancelEvent[r]
  /\ verdict' = [verdict EXCEPT ![Current(r)] = "allow"]
  /\ LoopGoes(r, "pop")
  /\ UNCHANGED <<registryVars, stream, calls, tired, ran, gateVars, shown>>

\* Mutant: the wait does not look at the cancel event.
GiveUpNever(r) ==
  /\ FALSE
  /\ UNCHANGED vars

\* The run is cancelled: a denial, whatever the slot holds by now.
GiveUp(r) ==
  /\ Running(r)
  /\ loop[r] = "looked"
  /\ cancelEvent[r]
  /\ verdict' = [verdict EXCEPT ![Current(r)] = "deny"]
  /\ LoopGoes(r, "pop")
  /\ UNCHANGED <<registryVars, stream, calls, tired, ran, gateVars, shown>>

\* _DECISION_TIMEOUT has passed.
TimeOut(r) ==
  /\ Running(r)
  /\ loop[r] = "looked"
  /\ ~cancelEvent[r]
  /\ verdict' = [verdict EXCEPT ![Current(r)] = "deny"]
  /\ tired' = tired \cup {Current(r)}
  /\ LoopGoes(r, "pop")
  /\ UNCHANGED <<registryVars, stream, calls, ran, gateVars, shown>>

WaitOn(r) ==
  /\ Running(r)
  /\ loop[r] = "looked"
  /\ ~cancelEvent[r]
  /\ LoopGoes(r, "wait")
  /\ UNCHANGED <<registryVars, stream, calls, verdict, tired, ran, gateVars, shown>>

\* The finally of wait_tool_decision, and what the loop does with a denial:
\* the refusal is the tool's result.
Decline(r) ==
  /\ Running(r)
  /\ loop[r] = "pop"
  /\ verdict[Current(r)] = "deny"
  /\ pending' = pending \ {Current(r)}
  /\ Yield(r, "denied")
  /\ UNCHANGED <<registryVars, calls, verdict, tired, ran, decision, told, shown>>

\* ... and with anything else: the tool is executed.
Execute(r) ==
  /\ Running(r)
  /\ loop[r] = "pop"
  /\ verdict[Current(r)] # "deny"
  /\ pending' = pending \ {Current(r)}
  /\ ran' = ran \cup {Current(r)}
  /\ LoopGoes(r, "tool")
  /\ UNCHANGED <<registryVars, stream, calls, verdict, tired, decision, told, shown>>

ToolEnd(r) ==
  /\ Running(r)
  /\ loop[r] = "tool"
  /\ Yield(r, "result")
  /\ UNCHANGED <<registryVars, calls, verdict, tired, ran, gateVars, shown>>

-----------------------------------------------------------------------------
(* The user: POST /inference/tool-confirm, resolve_tool_decision.  A request *)
(* it answers with 404 changes nothing and is no step.                       *)

\* A client knows the id of a call it was shown; its scope is the session it
\* names, or nothing.
Resolve(a, answer, scope) ==
  /\ a \in pending \cap shown
  /\ scope \subseteq {SessionOf[a[1]]}
  /\ decision[a] = "none"
  /\ decision' = [decision EXCEPT ![a] = answer]
  /\ told' = [told EXCEPT ![a] = @ \cup {answer}]
  /\ UNCHANGED <<registryVars, stream, loopVars, pending, shown>>

Scopes == {{}} \cup {{s} : s \in Sessions}

CancelPosted ==
  /\ \/ \E r \in Runs : CancelById(r) \/ Prune(r)
     \/ \E k \in Runs \cup Sessions : CancelByKeys(k)
  /\ UNCHANGED <<stream, loopVars, gateVars, shown>>

\* What the event loop and the thread do by themselves.
StreamStep(r) ==
  Granted(r) \/ LoopOn(r) \/ Close(r) \/ Untrack(r) \/ Complete(r)

LoopStep(r) ==
  \/ Speak(r) \/ Begin(r) \/ Finish(r) \/ Raise(r) \/ Announce(r)
  \/ Woken(r) \/ Unanswered(r) \/ GiveUp(r) \/ TimeOut(r) \/ WaitOn(r)
  \/ Decline(r) \/ Execute(r) \/ ToolEnd(r)

Next ==
  \/ \E r \in Runs : Open(r) \/ Unstarted(r) \/ Watch(r) \/ Abandon(r)
                     \/ StreamStep(r) \/ LoopStep(r)
  \/ \E a \in Calls, answer \in Answers, scope \in Scopes : Resolve(a, answer, scope)
  \/ CancelPosted

\* A run that was admitted goes on: the event loop serves its stream, the
\* thread runs, and an entered run is started or not.
Fairness ==
  \A r \in Runs :
    /\ WF_vars(StreamStep(r))
    /\ WF_vars(Unstarted(r))
    /\ WF_vars(LoopStep(r))

Spec == Init /\ [][Next]_vars /\ Fairness

-----------------------------------------------------------------------------
(* What the gate promises.                                                  *)

\* The thread is between the registration of a slot and its removal.
AtGate(r) == loop[r] \in {"status", "start", "wait", "looked", "pop"}

\* The slots registered are those of the calls that a loop has at its gate: an
\* answer to a call on show finds its slot, and a stream that ends at any of
\* its yields leaves none behind.
SlotsAreWaitedFor == pending = {Current(r) : r \in {q \in Runs : AtGate(q)}}

\* No tool runs unless its own call was allowed, and only allowed, by a
\* confirmation the server acknowledged.
RunsOnlyApproved == \A a \in ran : told[a] = {"allow"}

\* One answer is acknowledged, and it is what the loop acts on, unless the run
\* was cancelled or the wait timed out in between.
AnswerStands ==
  \A a \in Calls :
    /\ \A x, y \in told[a] : x = y
    /\ told[a] # {} /\ verdict[a] \notin told[a] \cup {"none"} =>
         cancelEvent[a[1]] \/ a \in tired

\* A run that is still going is cancelled only if somebody wanted it: a cancel
\* of an earlier run of the session does not reach the next one.
NoGhostCancel ==
  \A r \in Runs :
    cancelEvent[r] /\ stream[r] \in {"entered", "loop", "next", "completing"} => r \in wanted

\* A cancelled run ends, even when it is waiting for a user who never answers.
CancelledRunEnds ==
  \A r \in Runs : cancelEvent[r] /\ stream[r] # "new" ~> stream[r] = "ended"

\* A cancel reaches the run it was meant for, and no other.
CancelsReachTheirRun == NoLostCancel /\ NoGhostCancel

\* What the user answered, and nothing else, decides over a tool.
AnswersDecide == RunsOnlyApproved /\ AnswerStands
=============================================================================
