---------------------------- MODULE HostRuntime ----------------------------
(***************************************************************************)
(* The CUDA runtime as the application sees it                             *)
(* (libcuda/cuda_runtime_api.cc): registration of the binaries and their   *)
(* functions, the launch stack between a kernel call and its launch,       *)
(* streams, events, and the calls that wait.                               *)
(*                                                                         *)
(* One host thread makes the calls.  The stream manager and the simulation *)
(* thread that serves it are not part of the overlay; they are modelled    *)
(* from what the runtime expects of them: a stream is a FIFO of            *)
(* operations, an operation of the default stream (0) is pushed when the   *)
(* other streams have drained and the push returns when it is done, an     *)
(* event counts its records and their completions, and destroy_stream      *)
(* holds the lock of the manager until the stream is empty.                *)
(***************************************************************************)
EXTENDS KernelParams, FiniteSets, TLC

CONSTANTS BinaryOf,      \* Functions -> 1 .. number of fat binaries
          Sites,         \* kernel calls in the program: [fn, grid, stream]
          NStreams,      \* bound: streams the application creates
          Events,        \* events the application may create
          ResumeKernel,  \* resume_kernel with resume_option, else 0
          CheckpointKernel, \* checkpoint_kernel with checkpoint_option, else 0
          MaxCalls,      \* bound: kernel calls of the application
          MaxOps,        \* bound: operations pushed
          MaxNesting     \* bound: kernel calls open at a time

ASSUME HostAssumption ==
  /\ IsFiniteSet(Functions) /\ IsFiniteSet(Events)
  /\ BinaryOf \in [Functions -> Nat \ {0}]
  /\ {ResumeKernel, CheckpointKernel} \subseteq Nat
  /\ {NStreams, MaxCalls, MaxOps, MaxNesting} \subseteq Nat
  /\ Sites \subseteq [fn : Functions, grid : {"empty", "full"},
                      stream : 0 .. NStreams]

Default == 0
Streams == 1 .. NStreams
Binaries == {BinaryOf[f] : f \in Functions}

VARIABLES
  lib,        \* what is registered, parsed and analysed
  stack,      \* g_cuda_launch_stack
  app,        \* the kernel calls the application is evaluating, innermost last
  calls,      \* kernel calls begun
  grids,      \* kernel uids given out
  host,       \* the call the host thread waits in, if any
  streams,    \* the existing streams with their operations
  busy,       \* streams whose first operation is on the device
  events,     \* g_timer_events with the counts of each event
  pushed,     \* number of operations made
  done        \* operations completed

runtimeVars == <<lib, stack, app, calls, grids>>
deviceVars == <<streams, busy, events, pushed, done>>
vars == <<runtimeVars, host, deviceVars>>

Created == DOMAIN streams
Drained(ss) == \A s \in ss : streams[s] = << >>
InFlight(ss) == UNION {{o.id : o \in ToSet(streams[s])} : s \in ss}

(***************************************************************************)
(* The host thread: idle, or in a call that waits.  covers (for the        *)
(* properties) are the operations that call has to see completed.          *)
(***************************************************************************)
Idle == [at |-> "idle", covers |-> {}]
IsIdle == host.at = "idle"
WaitIn(at, on, covers) ==
  host' = [at |-> at, on |-> on, covers |-> covers]

(***************************************************************************)
(* Registration.  The first fat binary has all of them extracted; a binary *)
(* is parsed when its first function or variable is registered.  The file  *)
(* name is "default" for every binary, so that one symbol table serves     *)
(* them all and its initial values are written to memory once.             *)
(***************************************************************************)
RegisterFatBinary ==
  /\ IsIdle
  /\ lib.handles < Cardinality(Binaries)
  /\ lib' = [lib EXCEPT !.handles = @ + 1]
  /\ UNCHANGED <<stack, app, calls, grids, host, deviceVars>>

\* load_static_globals and load_constants write the initial values.
LoadGlobals(l) == [l EXCEPT !.loads = @ + 1]

\* Mutant: every binary writes the initial values of its globals.
MutParse(l, handle) ==
  IF handle \in l.parsed THEN l
  ELSE [LoadGlobals(l) EXCEPT !.parsed = @ \cup {handle}, !.symtab = TRUE]

Parse(l, handle) ==
  IF handle \in l.parsed THEN l
  ELSE [(IF l.symtab THEN l ELSE LoadGlobals(l)) EXCEPT
          !.parsed = @ \cup {handle}, !.symtab = TRUE]

\* The name of the variable is data; what it does besides is to parse.
RegisterVar(handle) ==
  /\ IsIdle
  /\ handle <= lib.handles
  /\ lib' = Parse(lib, handle)
  /\ UNCHANGED <<stack, app, calls, grids, host, deviceVars>>

RegisterFunction(f) ==
  /\ IsIdle
  /\ BinaryOf[f] <= lib.handles
  /\ f \notin lib.kernels
  /\ lib' = [Parse(lib, BinaryOf[f]) EXCEPT !.kernels = @ \cup {f}]
  /\ UNCHANGED <<stack, app, calls, grids, host, deviceVars>>

(***************************************************************************)
(* Pushing.  A push to the default stream waits for the other streams to   *)
(* drain and returns when its operation is done.                           *)
(***************************************************************************)
Operation(kind, event, count, covers) ==
  [id |-> pushed + 1, kind |-> kind, event |-> event, count |-> count,
   covers |-> covers]
KernelOf(frame, config) ==
  [id |-> pushed + 1, kind |-> "kernel", frame |-> frame, config |-> config,
   params |-> InitGrid(frame.site.fn, config.args)]

Push(s, o) ==
  /\ pushed < MaxOps
  /\ pushed' = pushed + 1
  /\ IF s = Default
     THEN /\ WaitIn("push", o, InFlight(Created) \cup {o.id})
          /\ UNCHANGED streams
     ELSE /\ streams' = [streams EXCEPT ![s] = Append(@, o)]
          /\ UNCHANGED host

EnterDefaultStream ==
  /\ host.at = "push" /\ Drained(Created)
  /\ streams' = [streams EXCEPT ![Default] = <<host.on>>]
  /\ host' = [host EXCEPT !.at = "pushed"]
  /\ UNCHANGED <<runtimeVars, busy, events, pushed, done>>

\* A launch on the default stream takes its configuration from the stack
\* when the push returns.
LeaveDefaultStream ==
  /\ host.at = "pushed" /\ Drained(Created)
  /\ stack' = IF host.on.kind = "kernel" THEN Front(stack) ELSE stack
  /\ host' = Idle
  /\ UNCHANGED <<lib, app, calls, grids, deviceVars>>

(***************************************************************************)
(* Kernel calls.  k<<<grid, block, 0, stream>>>(args) pushes its           *)
(* configuration, evaluates args, which may call kernels themselves, and   *)
(* launches with the configuration on top of the stack.                    *)
(***************************************************************************)
ConfigureCall(configs, call, site) ==
  Append(configs, [call |-> call, grid |-> site.grid, stream |-> site.stream,
                   args |-> << >>])

CanCall(site) == /\ IsIdle
                 /\ site.fn \in lib.kernels /\ site.stream \in Created
                 /\ calls < MaxCalls

PushCallConfiguration(site) ==
  /\ CanCall(site) /\ Len(app) < MaxNesting
  /\ calls' = calls + 1
  /\ app' = Append(app, [call |-> calls', site |-> site])
  /\ stack' = ConfigureCall(stack, calls', site)
  /\ UNCHANGED <<lib, grids, host, deviceVars>>

SetupArgument(configs, call, i, param) ==
  [configs EXCEPT ![Len(configs)].args = SetArg(@, call, i, param)]

SetupArguments(configs, frame) ==
  LET after[n \in 0 .. Len(FormalsOf[frame.site.fn])] ==
        IF n = 0 THEN configs
        ELSE SetupArgument(after[n - 1], frame.call, n - 1,
                           ParamConfig(frame.site.fn)[n - 1])
  IN after[Len(FormalsOf[frame.site.fn])]

\* The analysis runs at the first launch of a function (is_pdom_set).
Analyse(l, f) ==
  IF f \in l.pdom THEN l
  ELSE [l EXCEPT !.pdom = @ \cup {f}, !.analyses = @ + 1]

Skipped(uid) == \/ uid < ResumeKernel
                \/ CheckpointKernel # 0 /\ uid > CheckpointKernel

\* Mutant: a refused launch leaves its configuration on the stack.
MutRefused(configs) == configs

\* An empty grid is refused: its configuration leaves the stack.
Refused(configs) == Front(configs)

Launch(configs, frame) ==
  LET config == Last(configs)
  IN \/ /\ config.grid = "empty"
        /\ stack' = Refused(configs)
        /\ UNCHANGED <<lib, grids, host, deviceVars>>
     \/ /\ config.grid # "empty"
        /\ grids' = grids + 1
        /\ lib' = Analyse(lib, frame.site.fn)
        /\ \/ /\ Skipped(grids')
              /\ stack' = Front(configs)
              /\ UNCHANGED <<host, deviceVars>>
           \/ /\ ~Skipped(grids')
              /\ Push(config.stream, KernelOf(frame, config))
              /\ stack' = IF config.stream = Default THEN configs
                          ELSE Front(configs)
              /\ UNCHANGED <<busy, events, done>>

LaunchKernel ==
  /\ IsIdle /\ app # << >> /\ pushed < MaxOps
  /\ app' = Front(app)
  /\ Launch(SetupArguments(stack, Last(app)), Last(app))
  /\ UNCHANGED calls

\* The driver call configures, sets the arguments and launches at once.
CuLaunchKernel(site) ==
  /\ CanCall(site) /\ pushed < MaxOps
  /\ calls' = calls + 1
  /\ LET frame == [call |-> calls', site |-> site]
     IN Launch(SetupArguments(ConfigureCall(stack, calls', site), frame), frame)
  /\ UNCHANGED app

MemcpyAsync(s) ==
  /\ IsIdle /\ s \in Created
  /\ Push(s, Operation("copy", 0, 0, {}))
  /\ UNCHANGED <<runtimeVars, busy, events, done>>

\* Both use the default stream.
Memcpy == MemcpyAsync(Default)
MemcpySymbol == MemcpyAsync(Default)

(***************************************************************************)
(* Streams and events.                                                     *)
(***************************************************************************)
StreamCreate ==
  /\ IsIdle /\ lib.streams < NStreams
  /\ lib' = [lib EXCEPT !.streams = @ + 1]
  /\ streams' = [s \in Created \cup {lib'.streams} |->
                   IF s \in Created THEN streams[s] ELSE << >>]
  /\ UNCHANGED <<stack, app, calls, grids, host, busy, events, pushed, done>>

\* Mutant: destroy_stream without stream->synchronize().
MutStreamDestroy(s) ==
  /\ IsIdle /\ s \in Created \ {Default}
  /\ \A i \in DOMAIN app : app[i].site.stream # s
  /\ WaitIn("destroy", s, InFlight({s}))
  /\ UNCHANGED <<runtimeVars, deviceVars>>

\* stream->synchronize(), then destroy_stream, which holds the lock of the
\* stream manager while it waits for the stream to be empty.
StreamDestroy(s) ==
  /\ IsIdle /\ s \in Created \ {Default}
  /\ \A i \in DOMAIN app : app[i].site.stream # s
  /\ WaitIn("synchronize", s, InFlight({s}))
  /\ UNCHANGED <<runtimeVars, deviceVars>>

DestroyStream ==
  /\ host.at = "synchronize" /\ Drained({host.on})
  /\ host' = [host EXCEPT !.at = "destroy"]
  /\ UNCHANGED <<runtimeVars, deviceVars>>

StreamDestroyed ==
  /\ host.at = "destroy" /\ Drained({host.on})
  /\ streams' = [s \in Created \ {host.on} |-> streams[s]]
  /\ host' = Idle
  /\ UNCHANGED <<runtimeVars, busy, events, pushed, done>>

\* Only the null stream is waited for: the call returns before it reaches
\* stream->synchronize().
StreamSynchronize(s) ==
  /\ IsIdle /\ s \in Created
  /\ IF s = Default THEN WaitIn("all", s, InFlight(Created)) ELSE UNCHANGED host
  /\ UNCHANGED <<runtimeVars, deviceVars>>

\* cudaDeviceSynchronize and cudaThreadSynchronize: ctx->synchronize().
DeviceSynchronize ==
  /\ IsIdle
  /\ WaitIn("all", Default, InFlight(Created))
  /\ UNCHANGED <<runtimeVars, deviceVars>>

Synchronized ==
  /\ host.at = "all" /\ Drained(Created)
  /\ host' = Idle
  /\ UNCHANGED <<runtimeVars, deviceVars>>

EventCreate(e) ==
  /\ IsIdle /\ events[e].state = "none"
  /\ events' = [events EXCEPT ![e].state = "created"]
  /\ UNCHANGED <<runtimeVars, host, streams, busy, pushed, done>>

EventDestroy(e) ==
  /\ IsIdle /\ events[e].state = "created"
  /\ events' = [events EXCEPT ![e].state = "destroyed"]
  /\ UNCHANGED <<runtimeVars, host, streams, busy, pushed, done>>

\* Mutant: a record that is not counted.
MutIssued(event) == event.issued

\* e->issue()
Issued(event) == event.issued + 1

\* An event that is not in g_timer_events is refused.
EventRecord(e, s) ==
  /\ IsIdle /\ s \in Created /\ events[e].state = "created"
  /\ Push(s, Operation("event", e, 0, {}))
  /\ events' = [events EXCEPT
       ![e] = [state |-> "created", updates |-> @.updates,
               issued |-> Issued(@),
               covers |-> @.covers \cup InFlight({s}) \cup {pushed'}]]
  /\ UNCHANGED <<runtimeVars, busy, done>>

\* Nothing to wait for when the event has not been recorded; without a stream
\* all created streams get the operation.
StreamWaitEvent(s, e) ==
  /\ IsIdle /\ s \in Created /\ events[e].state = "created"
  /\ events[e].issued # 0
  /\ pushed < MaxOps
  /\ LET wait == Operation("wait", e, events[e].issued, events[e].covers)
         to == IF s = Default THEN Created \ {Default} ELSE {s}
     IN streams' = [x \in Created |-> IF x \in to THEN Append(streams[x], wait)
                                                  ELSE streams[x]]
  /\ pushed' = pushed + 1
  /\ UNCHANGED <<runtimeVars, host, busy, events, done>>

EventSynchronize(e) ==
  /\ IsIdle /\ events[e].state # "none"
  /\ WaitIn("event", e, events[e].covers)
  /\ UNCHANGED <<runtimeVars, deviceVars>>

\* while (!e->done());
EventDetected ==
  /\ host.at = "event"
  /\ events[host.on].updates = events[host.on].issued
  /\ host' = Idle
  /\ UNCHANGED <<runtimeVars, deviceVars>>

(***************************************************************************)
(* The simulation thread takes the first operation of a stream when the    *)
(* stream manager is not locked.                                           *)
(***************************************************************************)
Waits(s, kind) ==
  /\ s \in Created \ busy /\ streams[s] # << >> /\ Head(streams[s]).kind = kind
  /\ host.at # "destroy"

Take(s) == /\ streams' = [streams EXCEPT ![s] = Tail(@)]
           /\ done' = done \cup {Head(streams[s]).id}

RunCopy(s) ==
  /\ Waits(s, "copy") /\ Take(s)
  /\ UNCHANGED <<runtimeVars, host, busy, events, pushed>>

UpdateEvent(s) ==
  /\ Waits(s, "event") /\ Take(s)
  /\ events' = [events EXCEPT ![Head(streams[s]).event].updates = @ + 1]
  /\ UNCHANGED <<runtimeVars, host, busy, pushed>>

PassWait(s) ==
  /\ Waits(s, "wait")
  /\ events[Head(streams[s]).event].updates >= Head(streams[s]).count
  /\ Take(s)
  /\ UNCHANGED <<runtimeVars, host, busy, events, pushed>>

StartKernel(s) ==
  /\ Waits(s, "kernel")
  /\ busy' = busy \cup {s}
  /\ UNCHANGED <<runtimeVars, host, streams, events, pushed, done>>

FinishKernel(s) ==
  /\ s \in busy /\ host.at # "destroy"
  /\ Take(s)
  /\ busy' = busy \ {s}
  /\ UNCHANGED <<runtimeVars, host, events, pushed>>

Init ==
  /\ lib = [handles |-> 0, parsed |-> {}, symtab |-> FALSE, loads |-> 0,
            kernels |-> {}, pdom |-> {}, analyses |-> 0, streams |-> 0]
  /\ stack = << >> /\ app = << >> /\ calls = 0 /\ grids = 0
  /\ host = Idle
  /\ streams = [s \in {Default} |-> << >>] /\ busy = {}
  /\ events = [e \in Events |-> [state |-> "none", issued |-> 0, updates |-> 0,
                                 covers |-> {}]]
  /\ pushed = 0 /\ done = {}

HostCalls ==
  \/ RegisterFatBinary
  \/ \E f \in Functions : RegisterFunction(f)
  \/ \E b \in Binaries : RegisterVar(b)
  \/ \E site \in Sites : PushCallConfiguration(site) \/ CuLaunchKernel(site)
  \/ LaunchKernel
  \/ \E s \in Created : MemcpyAsync(s) \/ StreamDestroy(s) \/ StreamSynchronize(s)
  \/ Memcpy \/ MemcpySymbol \/ StreamCreate \/ DeviceSynchronize
  \/ \E e \in Events : EventCreate(e) \/ EventDestroy(e) \/ EventSynchronize(e)
  \/ \E e \in Events, s \in Created : EventRecord(e, s) \/ StreamWaitEvent(s, e)

HostWaits == EnterDefaultStream \/ LeaveDefaultStream \/ DestroyStream
             \/ StreamDestroyed \/ Synchronized \/ EventDetected

Device(s) == RunCopy(s) \/ UpdateEvent(s) \/ PassWait(s)
             \/ StartKernel(s) \/ FinishKernel(s)

Service == HostWaits \/ \E s \in Created : Device(s)

Next == HostCalls \/ Service

\* The host thread does not stop in a call whose condition holds and the
\* simulation thread does not stop while a stream has work; the application
\* may make no further call.
Spec == Init /\ [][Next]_vars
FairSpec == Spec /\ WF_vars(Service)

(***************************************************************************)
(* Properties.                                                             *)
(***************************************************************************)
Operations == UNION {ToSet(streams[s]) : s \in Created}

\* A kernel runs with the configuration of its own call, on the stream of that
\* call, and its parameter memory has the arguments of that call, each byte in
\* its place, although calls nest in arguments of calls and some are refused or
\* skipped; the stack has what is left of open calls.
LaunchesOwnConfiguration ==
  /\ \A o \in {o \in Operations : o.kind = "kernel"} :
       /\ HasArgumentsOf(o.params, o.frame.site.fn, o.frame.call)
       /\ o.config.call = o.frame.call
       /\ o.config.grid = o.frame.site.grid
       /\ o.config.stream = o.frame.site.stream
  /\ IsIdle => /\ Len(stack) = Len(app)
               /\ \A i \in DOMAIN app : stack[i].call = app[i].call

\* A call that waits (cudaEventSynchronize, cudaDeviceSynchronize, a copy or a
\* launch on the default stream, cudaStreamDestroy) returns when all that it
\* has to wait for is done, and a stream passes a wait for an event when all
\* that the event covers is done, unless the event was recorded again since the
\* wait was made: completions are only counted, so that a later record on a
\* third stream may complete in the place of an earlier one.
WaitsForAll ==
  [][/\ host' = Idle => host.covers \subseteq done
     /\ \A s \in Created \cap DOMAIN streams' :
          LET o == Head(streams[s])
          IN (streams[s] # << >> /\ streams'[s] = Tail(streams[s])
                /\ o.kind = "wait" /\ o.count = events[o.event].issued)
             => o.covers \subseteq done]_vars

\* The initial values of the globals are written before the first kernel runs,
\* never again over what kernels have stored, however many binaries and
\* functions are registered later; a function is analysed once.
LoadedOnce ==
  [][/\ lib'.loads # lib.loads => grids = 0 /\ lib.loads = 0
     /\ lib'.analyses <= Cardinality(Functions)]_vars

\* Every call of the runtime returns; cudaStreamDestroy synchronises first "to
\* avoid the stream_manager from spinning forever to destroy non-empty
\* streams" (cudaStreamDestroyInternal).
CallsReturn == (host.at # "idle") ~> (host.at = "idle")
=============================================================================
