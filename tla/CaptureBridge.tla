--------------------------- MODULE CaptureBridge ---------------------------
(***************************************************************************)
(* The agent's capture bridge (pkg/capture/bridge.go, recover.go): the     *)
(* Start/Stop life cycle with the loopback OTLP receiver, the emitters     *)
(* that feed the Events channel, and the reload coalescer that rewrites    *)
(* the OBI configuration file.                                             *)
(*                                                                         *)
(* Start and Stop may run concurrently.  Every critical section on b.mu is *)
(* one step; what happens between two of them is not.                      *)
(***************************************************************************)
EXTENDS Integers, FiniteSetsExt

CONSTANTS
    Targets,            \* pids and pod UIDs that may be tracked
    Specs, NoSpec,      \* PIDSpec or PodSpec values; NoSpec: not tracked
    Callers,            \* goroutines that call Allow*/Block*/*Module
    Emitters,           \* goroutines that emit
    EventBuffer,        \* capacity of the Events channel
    MaxEvents,          \* bound on the events of one request
    RestartCounts,      \* the cumulative restart counts that are reported
    MaxCalls,           \* bound on the calls that change what is tracked
    Seed                \* the smoke entry of an empty discovery list

ASSUME NoSpecAssumption == NoSpec \notin Specs
ASSUME BoundsAssumption ==
    EventBuffer \in Nat /\ MaxEvents \in Nat /\ MaxCalls \in Nat /\ RestartCounts \subseteq Nat

VARIABLES
    startPc, stopPc,        \* where the calls of Start and Stop are
    started, stopped, receiver,
    server,                 \* the OTLP receiver: "none", "grpc", "serving", "stopped"
    stopCh, coalDone,       \* closed?
    tracked, calls,         \* b.pids and b.pods; calls made so far
    posting,                \* callers between their b.mu section and triggerReload
    dirty,                  \* the one-slot dirty channel holds a signal
    coal, built,            \* coalescerLoop's step, and the config being written
    file, writeFailed,      \* the file's content; the last Write failed
    seen,                   \* b.receiver as Stop read it
    em, kind, left,         \* emitters: step, kind, events left to emit
    delta, lastRestartCount, restartsTotal,
    events, closed, emitPanicked

life == <<startPc, stopPc, started, stopped, receiver, server, stopCh, coalDone, seen>>
reload == <<tracked, calls, posting, dirty>>
config == <<coal, built, file, writeFailed>>
emit == <<em, kind, left>>
restarts == <<delta, lastRestartCount, restartsTotal>>
channel == <<events, closed, emitPanicked>>
bridgeVars == <<life, reload, config, emit, restarts, channel>>

MaybeSpec == Specs \cup {NoSpec}
NoFile == [t \in {} |-> NoSpec]

\* buildConfig: one entry per tracked target, or the seed alone.
buildConfig ==
    LET on == {t \in Targets : tracked[t] # NoSpec}
    IN IF on = {} THEN [t \in {Seed} |-> NoSpec] ELSE [t \in on |-> tracked[t]]

\* NewBridge has returned.
BridgeInit ==
    /\ startPc = "none" /\ stopPc = "none"
    /\ started = FALSE /\ stopped = FALSE /\ receiver = FALSE /\ server = "none"
    /\ stopCh = FALSE /\ coalDone = FALSE
    /\ tracked = [t \in Targets |-> NoSpec] /\ calls = 0
    /\ posting = {} /\ dirty = FALSE
    /\ coal = "none" /\ built = NoFile /\ file = NoFile /\ writeFailed = FALSE
    /\ seen = FALSE
    /\ em = [e \in Emitters |-> "idle"] /\ kind = [e \in Emitters |-> "none"]
    /\ left = [e \in Emitters |-> 0]
    /\ delta = [e \in Emitters |-> 0] /\ lastRestartCount = 0 /\ restartsTotal = 0
    /\ events = 0 /\ closed = FALSE /\ emitPanicked = FALSE

\* The emitters that emitWG counts: between beginEmit and endEmit.
emitWG == {e \in Emitters : em[e] \in {"report", "add", "emit"}}

-----------------------------------------------------------------------------
(* Start.  The first step takes b.mu; a Start that finds stopped or started *)
(* set returns without changing anything.                                   *)

StartCall ==
    /\ startPc = "none" /\ ~stopped
    /\ started' = TRUE /\ startPc' = "grpc"
    /\ UNCHANGED <<stopPc, stopped, receiver, server, stopCh, coalDone, seen,
                   reload, config, emit, restarts, channel>>

\* Mutant of StartFails: coalDone stays open when Start fails.
StartFailsSilently(srv) ==
    /\ server' = srv /\ startPc' = "failed" /\ UNCHANGED coalDone

\* Every failing path of Start resolves coalDone.
StartFails(srv) ==
    /\ server' = srv /\ startPc' = "failed" /\ coalDone' = TRUE

\* Receiver.Start listens on the gRPC address, then on the HTTP one; when the
\* second listen fails it stops the first server.
StartListen ==
    /\ startPc \in {"grpc", "http"}
    /\ \/ /\ startPc = "grpc" /\ server' = "grpc" /\ startPc' = "http"
          /\ UNCHANGED coalDone
       \/ /\ startPc = "http" /\ server' = "serving" /\ startPc' = "publish"
          /\ UNCHANGED coalDone
       \/ StartFails(IF startPc = "http" THEN "stopped" ELSE "none")
    /\ UNCHANGED <<stopPc, started, stopped, receiver, stopCh, seen,
                   reload, config, emit, restarts, channel>>

StartPublish ==
    /\ startPc = "publish" /\ startPc' = "build"
    /\ receiver' = TRUE
    /\ UNCHANGED <<stopPc, started, stopped, server, stopCh, coalDone, seen,
                   reload, config, emit, restarts, channel>>

StartBuild ==
    /\ startPc = "build" /\ startPc' = "write"
    /\ built' = buildConfig
    /\ UNCHANGED <<stopPc, started, stopped, receiver, server, stopCh, coalDone,
                   seen, reload, coal, file, writeFailed, emit, restarts, channel>>

\* The initial configuration is written and the coalescer launched, or the
\* receiver is stopped again.
StartWrite ==
    /\ startPc = "write" /\ built' = NoFile
    /\ \/ file' = built /\ coal' = "select" /\ startPc' = "done"
       \/ startPc' = "unwind" /\ UNCHANGED <<file, coal>>
    /\ UNCHANGED <<stopPc, started, stopped, receiver, server, stopCh, coalDone,
                   seen, reload, writeFailed, emit, restarts, channel>>

\* GracefulStop waits for the gRPC handlers; Shutdown gives up on the HTTP ones
\* when its context ends.
GrpcIdle ==
    \A e \in Emitters : kind[e] = "grpc" => em[e] = "idle"

\* Start's own recv.Stop, then the failure.  In Server.Stop the first caller
\* closes the listeners and waits; a second one returns at once.
StartUnwind ==
    /\ \/ /\ startPc = "unwind" /\ server = "serving"
          /\ server' = "stopping" /\ startPc' = "drain" /\ UNCHANGED coalDone
       \/ startPc = "unwind" /\ server # "serving" /\ StartFails(server)
       \/ startPc = "drain" /\ GrpcIdle /\ StartFails("stopped")
    /\ UNCHANGED <<stopPc, started, stopped, receiver, stopCh, seen,
                   reload, config, emit, restarts, channel>>

-----------------------------------------------------------------------------
(* Stop.  A second call finds stopped set and returns.                      *)

StopCall ==
    /\ stopPc = "none"
    /\ stopped' = TRUE /\ seen' = receiver
    /\ stopPc' = "signal"
    /\ UNCHANGED <<startPc, started, receiver, server, stopCh, coalDone,
                   reload, config, emit, restarts, channel>>

StopSignal ==
    /\ stopPc = "signal" /\ stopPc' = "coalescer"
    /\ stopCh' = TRUE
    /\ UNCHANGED <<startPc, started, stopped, receiver, server, coalDone, seen,
                   reload, config, emit, restarts, channel>>

StopAwaitCoalescer ==
    /\ stopPc = "coalescer" /\ (started => coalDone)
    /\ stopPc' = IF seen THEN "receiver" ELSE "emitters"
    /\ UNCHANGED <<startPc, started, stopped, receiver, server, stopCh, coalDone,
                   seen, reload, config, emit, restarts, channel>>

StopReceiver ==
    /\ \/ /\ stopPc = "receiver" /\ server = "serving"
          /\ server' = "stopping" /\ stopPc' = "drain"
       \/ /\ stopPc = "receiver" /\ server # "serving"
          /\ stopPc' = "emitters" /\ UNCHANGED server
       \/ /\ stopPc = "drain" /\ GrpcIdle
          /\ server' = "stopped" /\ stopPc' = "emitters"
    /\ UNCHANGED <<startPc, started, stopped, receiver, stopCh, coalDone, seen,
                   reload, config, emit, restarts, channel>>

StopAwaitEmitters ==
    /\ stopPc = "emitters" /\ emitWG = {}
    /\ stopPc' = "close"
    /\ UNCHANGED <<startPc, started, stopped, receiver, server, stopCh, coalDone,
                   seen, reload, config, emit, restarts, channel>>

StopClose ==
    /\ stopPc = "close" /\ stopPc' = "done"
    /\ closed' = TRUE
    /\ UNCHANGED <<startPc, started, stopped, receiver, server, stopCh, coalDone,
                   seen, reload, config, emit, restarts, events, emitPanicked>>

-----------------------------------------------------------------------------
(* Emitters: goroutines that run an OTLP handler or ReportOBIRestart.        *)

\* A request reaches a handler, or a restart is about to be reported.
Arrive(e, k) ==
    /\ em[e] = "idle"
    /\ \/ k = "report"
       \/ k = "grpc" /\ server \in {"grpc", "serving"}
       \/ k = "http" /\ server = "serving"
    /\ em' = [em EXCEPT ![e] = "arrived"] /\ kind' = [kind EXCEPT ![e] = k]
    /\ UNCHANGED <<life, reload, config, left, restarts, channel>>

\* Mutant of BeginEmit: emitters are admitted after Stop has begun.
BeginEmitAlways(e, n) ==
    /\ em[e] = "arrived"
    /\ em' = [em EXCEPT ![e] = IF kind[e] = "report" THEN "report" ELSE "emit"]
    /\ left' = [left EXCEPT ![e] = IF kind[e] = "report" THEN 0 ELSE n]
    /\ UNCHANGED <<life, reload, config, kind, restarts, channel>>

\* beginEmit, under b.mu.  An OTLP handler then has n events to emit: what its
\* request translates to, or the degraded event of a recovered panic (the
\* deferred recoverPanic runs before the deferred endEmit).
BeginEmit(e, n) ==
    /\ em[e] = "arrived"
    /\ em' = [em EXCEPT ![e] = IF stopped THEN "idle"
                               ELSE IF kind[e] = "report" THEN "report" ELSE "emit"]
    /\ left' = [left EXCEPT ![e] = IF stopped \/ kind[e] = "report" THEN 0 ELSE n]
    /\ kind' = IF stopped THEN [kind EXCEPT ![e] = "none"] ELSE kind
    /\ UNCHANGED <<life, reload, config, restarts, channel>>

DegradedThreshold == 3

\* ReportOBIRestart(c) under b.mu: the delta to the highest count, and one
\* degraded event for each of the mods enabled modules at the threshold.
RestartDelta(e, c, mods) ==
    /\ em[e] = "report" /\ em' = [em EXCEPT ![e] = "add"]
    /\ delta' = [delta EXCEPT ![e] = Max({0, c - lastRestartCount})]
    /\ lastRestartCount' = Max({c, lastRestartCount})
    /\ left' = [left EXCEPT ![e] = IF c < DegradedThreshold THEN 0 ELSE mods]
    /\ UNCHANGED <<life, reload, config, kind, restartsTotal, channel>>

RestartAdd(e) ==
    /\ em[e] = "add" /\ em' = [em EXCEPT ![e] = "emit"]
    /\ restartsTotal' = restartsTotal + delta[e]
    /\ delta' = [delta EXCEPT ![e] = 0]
    /\ UNCHANGED <<life, reload, config, kind, left, lastRestartCount, channel>>

\* The non-blocking send of emit and markDegraded; it panics on a closed channel.
EmitSend(e) ==
    /\ em[e] = "emit" /\ left[e] > 0
    /\ left' = [left EXCEPT ![e] = @ - 1]
    /\ emitPanicked' = (emitPanicked \/ closed)
    /\ events' = IF ~closed /\ events < EventBuffer THEN events + 1 ELSE events
    /\ UNCHANGED <<life, reload, config, em, kind, restarts, closed>>

EndEmit(e) ==
    /\ em[e] = "emit" /\ left[e] = 0
    /\ em' = [em EXCEPT ![e] = "idle"] /\ kind' = [kind EXCEPT ![e] = "none"]
    /\ UNCHANGED <<life, reload, config, left, restarts, channel>>

\* The reader of Events().
Consume ==
    /\ events > 0 /\ events' = events - 1
    /\ UNCHANGED <<life, reload, config, emit, restarts, closed, emitPanicked>>

-----------------------------------------------------------------------------
(* Calls that trigger a reload, and the coalescer.                           *)

\* AllowPID, AllowPod (v a spec), BlockPID and BlockPod (v = NoSpec; of something
\* not tracked they return without a reload).
Track(c, t, v) ==
    /\ c \notin posting /\ calls < MaxCalls /\ calls' = calls + 1
    /\ v = NoSpec => tracked[t] # NoSpec
    /\ tracked' = [tracked EXCEPT ![t] = v]
    /\ posting' = posting \cup {c}
    /\ UNCHANGED <<life, dirty, config, emit, restarts, channel>>

\* EnableModule and DisableModule: the module set is not part of the config.
SetModule(c) ==
    /\ c \notin posting /\ calls < MaxCalls /\ calls' = calls + 1
    /\ posting' = posting \cup {c}
    /\ UNCHANGED <<life, tracked, dirty, config, emit, restarts, channel>>

triggerReload(c) ==
    /\ c \in posting /\ posting' = posting \ {c}
    /\ dirty' = TRUE
    /\ UNCHANGED <<life, tracked, calls, config, emit, restarts, channel>>

\* The first signal starts the debounce window, later ones restart it.
CoalescerSignal ==
    /\ coal \in {"select", "debounce"} /\ dirty
    /\ coal' = "debounce" /\ dirty' = FALSE
    /\ UNCHANGED <<life, tracked, calls, posting, built, file, writeFailed, emit,
                   restarts, channel>>

\* The window ends; writeReload builds the config.
CoalescerBuild ==
    /\ coal = "debounce" /\ coal' = "write"
    /\ built' = buildConfig
    /\ UNCHANGED <<life, reload, file, writeFailed, emit, restarts, channel>>

\* Mutant of CoalescerWrite: the signals of the meantime are taken as served.
CoalescerWriteDrains ==
    /\ coal = "write" /\ coal' = "select" /\ built' = NoFile
    /\ file' = built /\ writeFailed' = FALSE /\ dirty' = FALSE
    /\ UNCHANGED <<life, tracked, calls, posting, emit, restarts, channel>>

\* Writer.Write: nothing when the content is the same, else an atomic rename,
\* or an error that is only counted.
CoalescerWrite ==
    /\ coal = "write" /\ coal' = "select" /\ built' = NoFile
    /\ \/ file' = built /\ writeFailed' = FALSE
       \/ file # built /\ writeFailed' = TRUE /\ UNCHANGED file
    /\ UNCHANGED <<life, reload, emit, restarts, channel>>

CoalescerExit ==
    /\ coal \in {"select", "debounce"} /\ stopCh
    /\ coal' = "done" /\ coalDone' = TRUE
    /\ UNCHANGED <<startPc, stopPc, started, stopped, receiver, server, stopCh,
                   seen, reload, built, file, writeFailed, emit, restarts, channel>>

-----------------------------------------------------------------------------
StartStep == StartListen \/ StartPublish \/ StartBuild \/ StartWrite \/ StartUnwind

StopStep ==
    \/ StopSignal \/ StopAwaitCoalescer \/ StopReceiver
    \/ StopAwaitEmitters \/ StopClose

CoalescerStep == CoalescerSignal \/ CoalescerBuild \/ CoalescerWrite \/ CoalescerExit

EmitterStep(e) ==
    \/ \E n \in 0..MaxEvents : BeginEmit(e, n)
    \/ \E c \in RestartCounts, n \in 0..MaxEvents : RestartDelta(e, c, n)
    \/ RestartAdd(e) \/ EmitSend(e) \/ EndEmit(e)

BridgeNext ==
    \/ StartCall \/ StartStep \/ StopCall \/ StopStep
    \/ CoalescerStep
    \/ \E e \in Emitters, k \in {"grpc", "http", "report"} : Arrive(e, k)
    \/ \E e \in Emitters : EmitterStep(e)
    \/ Consume
    \/ \E c \in Callers : SetModule(c) \/ triggerReload(c)
    \/ \E c \in Callers, t \in Targets, v \in MaybeSpec : Track(c, t, v)

\* A call that has begun runs on, and a timer that is not reset fires; nobody
\* has to call Start or Stop, send a request or read Events().
BridgeFairness ==
    /\ WF_bridgeVars(StartStep) /\ WF_bridgeVars(StopStep) /\ WF_bridgeVars(CoalescerStep)
    /\ \A e \in Emitters : WF_bridgeVars(EmitterStep(e))
    /\ \A c \in Callers : WF_bridgeVars(triggerReload(c))

BridgeSpec == BridgeInit /\ [][BridgeNext]_bridgeVars
BridgeFairSpec == BridgeSpec /\ BridgeFairness

-----------------------------------------------------------------------------
(* Properties.                                                             *)

\* Every variable has its type, and the Events channel keeps its capacity: an
\* emitter that finds it full drops the event instead of blocking.
BridgeTypeOK ==
    /\ startPc \in {"none", "grpc", "http", "publish", "build", "write", "unwind",
                    "drain", "done", "failed"}
    /\ stopPc \in {"none", "signal", "coalescer", "receiver", "drain", "emitters",
                   "close", "done"}
    /\ started \in BOOLEAN /\ stopped \in BOOLEAN /\ receiver \in BOOLEAN
    /\ seen \in BOOLEAN /\ stopCh \in BOOLEAN /\ coalDone \in BOOLEAN
    /\ server \in {"none", "grpc", "serving", "stopping", "stopped"}
    /\ tracked \in [Targets -> MaybeSpec] /\ calls \in 0..MaxCalls
    /\ posting \in SUBSET Callers /\ dirty \in BOOLEAN
    /\ coal \in {"none", "select", "debounce", "write", "done"}
    /\ writeFailed \in BOOLEAN
    /\ em \in [Emitters -> {"idle", "arrived", "report", "add", "emit"}]
    /\ kind \in [Emitters -> {"none", "grpc", "http", "report"}]
    /\ left \in [Emitters -> 0..MaxEvents] /\ delta \in [Emitters -> Nat]
    /\ lastRestartCount \in Nat /\ restartsTotal \in Nat
    /\ events \in 0..EventBuffer /\ closed \in BOOLEAN /\ emitPanicked \in BOOLEAN

\* No emitter sends on the closed Events channel, even one that outlives the
\* receiver's shutdown or arrives while Stop waits for emitWG.
NoEmitOnClosed == ~emitPanicked

\* While the coalescer runs and its last write succeeded, a file that lags behind
\* what is tracked is on its way: a signal is pending or about to be posted, a
\* debounce window is open, or the current config is being written.  No call is
\* lost between buildConfig, the one-slot channel and the debounce loop.
NoLostReload ==
    coal \in {"select", "debounce", "write"} /\ ~writeFailed /\ file # buildConfig =>
        \/ dirty \/ posting # {} \/ coal = "debounce"
        \/ coal = "write" /\ built = buildConfig

\* Stop returns, whatever Start, the emitters and the coalescer are doing, after
\* a failed Start in particular.
StopReturns == stopPc # "none" ~> stopPc = "done"

\* Once the calls stop, the OBI config is what is tracked, unless the coalescer
\* does not run or its last write failed (which nothing retries).
ConfigConverges ==
    <>[](coal \in {"select", "debounce", "write"} /\ ~writeFailed => file = buildConfig)
=============================================================================
