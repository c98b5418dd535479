------------------------------- MODULE Daemon -------------------------------
(***************************************************************************)
(* The daemon and its reload (internal/daemon/daemon.go).                  *)
(*                                                                         *)
(* A reload stops the components of the generation before, loads the       *)
(* configuration, applies the protection rules and starts a new generation *)
(* under a new context.  Reloads are HTTP handlers: nothing keeps two of   *)
(* them apart, and a client that gave up after its 10 s leaves its handler *)
(* running.  Components are goroutines counted by one WaitGroup; they end  *)
(* when they see their context cancelled, and write their last status as   *)
(* they end.  The goroutine that pulls downmask traffic looks at its       *)
(* context between pulls only.                                             *)
(*                                                                         *)
(* A generation is named by the reload that made its context.  Boot is the *)
(* goroutine of Run: it reloads, listens, and at SIGTERM stops the         *)
(* components and returns.                                                 *)
(***************************************************************************)
CONSTANTS
  Server,    \* components that own a port or queue: dpi, the agent, ...
  Pair,      \* those that listen twice, on TCP and UDP: the downmask server
  Runner,    \* components that own none: the downmask runner
  Boot,      \* the reload of Run, at every start of the process
  Request,   \* the reload requests that will come, each one once
  None,      \* a nil cancelRun; a port nobody holds; a status nobody wrote
  Serial     \* whether reload requests come one after the other, and are
             \* answered within the 5 s the shutdown waits for them

ASSUME DaemonAssumption ==
  /\ Server \cap Runner = {}
  /\ Pair \subseteq Server
  /\ Boot \notin Request
  /\ None \notin Request \cup {Boot}
  /\ Serial \in BOOLEAN

Comp == Server \cup Runner
Reload == Request \cup {Boot}

VARIABLES
  configured,  \* the components the stored configuration turns on
  up,          \* the process: "down", "booting", "up", "exiting"
  rpc,         \* the next step of a reload
  loaded,      \* the components the configuration a reload has read turns on
  cancelRun,   \* the generation s.cancelRun cancels
  cancelled,   \* generations whose context is cancelled
  run,         \* run[g][k]: the goroutine of component k of generation g
  holder,      \* the generation that holds a component's port or queue
  status,      \* s.components
  author,      \* history: the generation that wrote a status
  era          \* history: the reload that reset the statuses last

vars == <<configured, up, rpc, loaded, cancelRun, cancelled, run, holder,
          status, author, era>>

RPC == {"idle", "check", "cancel", "wait", "woken", "clear", "load", "apply", "context",
        "start", "done", "failed", "panicked", "aborted"}
Goroutine == {"none", "new", "serving", "pulling", "failing", "ending",
              "reported"}
Status == {"none", "disabled", "running", "stopped", "error"}

TypeOK ==
  /\ configured \in SUBSET Comp
  /\ up \in {"down", "booting", "up", "exiting"}
  /\ rpc \in [Reload -> RPC]
  /\ loaded \in [Reload -> SUBSET Comp]
  /\ cancelRun \in Reload \cup {None}
  /\ cancelled \in SUBSET Reload
  /\ run \in [Reload -> [Comp -> Goroutine]]
  /\ holder \in [Comp -> Reload \cup {None}]
  /\ status \in [Comp -> Status]
  /\ author \in [Comp -> Reload \cup {None}]
  /\ era \in Reload \cup {None}

----------------------------------------------------------------------------
(* Helpers *)

Returned == {"done", "failed", "panicked", "aborted"}
InProgress == {r \in Reload : rpc[r] \notin {"idle"} \cup Returned}

\* Wrong: Done before the last status is written.
CountedTooShort(g, k) == run[g][k] \in {"new", "serving", "pulling"}

\* Goroutines the WaitGroup counts: from Add to the deferred Done.
Counted(g, k) == run[g][k] # "none"

AllDone == \A g \in Reload, k \in Comp : ~Counted(g, k)

\* Run, whose deferred calls stop the components and do nothing else.
Leaving(r) == r = Boot /\ up = "exiting"

Goto(r, step) == rpc' = [rpc EXCEPT ![r] = step]
RunGoto(g, k, step) == run' = [run EXCEPT ![g][k] = step]
SetComponent(g, k, state) ==
  /\ status' = [status EXCEPT ![k] = state]
  /\ author' = [author EXCEPT ![k] = g]

Statuses == <<status, author, era>>
Process == <<configured, up>>

----------------------------------------------------------------------------

Init ==
  /\ configured \in SUBSET Comp
  /\ up = "down"
  /\ rpc = [r \in Reload |-> "idle"]
  /\ loaded = [r \in Reload |-> {}]
  /\ cancelRun = None
  /\ cancelled = {}
  /\ run = [g \in Reload |-> [k \in Comp |-> "none"]]
  /\ holder = [k \in Comp |-> None]
  /\ status = [k \in Comp |-> "none"]
  /\ author = [k \in Comp |-> None]
  /\ era = None

\* Another process saves a configuration that turns components on or off.
Configure(on) ==
  /\ on # configured
  /\ configured' = on
  /\ UNCHANGED <<up, rpc, loaded, cancelRun, cancelled, run, holder, Statuses>>

\* systemd starts the process, which reloads before it listens.
Start ==
  /\ up = "down"
  /\ up' = "booting"
  /\ Goto(Boot, "check")
  /\ UNCHANGED <<configured, loaded, cancelRun, cancelled, run, holder, Statuses>>

\* The process ends and takes everything it holds with it.
Die ==
  /\ up' = "down"
  /\ rpc' = [r \in Reload |-> IF r = Boot THEN "idle"
                              ELSE IF r \in InProgress THEN "aborted" ELSE rpc[r]]
  /\ cancelRun' = None
  /\ cancelled' = {}
  /\ run' = [g \in Reload |-> [k \in Comp |-> "none"]]
  /\ holder' = [k \in Comp |-> None]
  /\ status' = [k \in Comp |-> "none"]
  /\ author' = [k \in Comp |-> None]
  /\ era' = None
  /\ loaded' = [r \in Reload |-> {}]
  /\ UNCHANGED configured

Crash ==
  /\ up # "down"
  /\ Die

\* Run returns the error of its reload, or has stopped the components.  A
\* panic of its goroutine ends the process as well.
Exit ==
  /\ \/ up = "booting" /\ rpc[Boot] = "failed"
     \/ up = "exiting" /\ rpc[Boot] \in {"load", "panicked"}
  /\ Die

\* listenSocket.  When it fails, Run stops the components and returns.
Listening ==
  /\ up = "booting"
  /\ rpc[Boot] = "done"
  /\ up' = "up"
  /\ UNCHANGED <<configured, rpc, loaded, cancelRun, cancelled, run, holder, Statuses>>

\* SIGTERM, or a listenSocket that fails: after at most 5 s for the requests
\* in progress, and whether or not they are done, the components are stopped.
Terminate ==
  /\ up \in {"booting", "up"}
  /\ rpc[Boot] = "done"
  /\ Serial => InProgress = {}
  /\ up' = "exiting"
  /\ Goto(Boot, "check")
  /\ UNCHANGED <<configured, loaded, cancelRun, cancelled, run, holder, Statuses>>

----------------------------------------------------------------------------
(* reload *)

\* handleReload.
Receive(r) ==
  /\ up = "up"
  /\ rpc[r] = "idle"
  /\ Serial => InProgress = {}
  /\ Goto(r, "check")
  /\ UNCHANGED <<Process, loaded, cancelRun, cancelled, run, holder, Statuses>>

\* stopComponents looks at cancelRun and, further down, calls it: two reads.
CheckCancel(r) ==
  /\ rpc[r] = "check"
  /\ Goto(r, IF cancelRun = None THEN "load" ELSE "cancel")
  /\ UNCHANGED <<Process, loaded, cancelRun, cancelled, run, holder, Statuses>>

\* Wrong: the components are waited for without being cancelled.
SkipCancel(r) ==
  /\ rpc[r] = "cancel"
  /\ Goto(r, "wait")
  /\ UNCHANGED <<Process, loaded, cancelRun, cancelled, run, holder, Statuses>>

\* Calling a nil function panics, which net/http recovers from.
CallCancel(r) ==
  /\ rpc[r] = "cancel"
  /\ IF cancelRun = None
     THEN Goto(r, "panicked") /\ UNCHANGED cancelled
     ELSE Goto(r, "wait") /\ cancelled' = cancelled \cup {cancelRun}
  /\ UNCHANGED <<Process, loaded, cancelRun, run, holder, Statuses>>

\* Wrong: the components are cancelled and not waited for.
NoWait(r) ==
  /\ rpc[r] = "wait"
  /\ Goto(r, "clear")
  /\ UNCHANGED <<Process, loaded, cancelRun, cancelled, run, holder, Statuses>>

\* Wrong: a Wait that has to wait is not woken.
WaitForIdle(r) ==
  /\ rpc[r] = "wait" /\ AllDone
  /\ Goto(r, "clear")
  /\ UNCHANGED <<Process, loaded, cancelRun, cancelled, run, holder, Statuses>>

\* componentWG.Wait: it returns at once, or was woken by the last Done; in
\* between, another reload's Add makes it panic.
WaitComponents(r) ==
  /\ \/ rpc[r] = "wait" /\ AllDone /\ Goto(r, "clear")
     \/ rpc[r] = "woken" /\ Goto(r, IF AllDone THEN "clear" ELSE "panicked")
  /\ UNCHANGED <<Process, loaded, cancelRun, cancelled, run, holder, Statuses>>

ClearCancel(r) ==
  /\ rpc[r] = "clear"
  /\ cancelRun' = None
  /\ Goto(r, "load")
  /\ UNCHANGED <<Process, loaded, cancelled, run, holder, Statuses>>

\* The store does not open, or a configuration does not load: the reload
\* returns the error, with the components stopped and the statuses kept.
LoadFails(r) ==
  /\ rpc[r] = "load" /\ ~Leaving(r)
  /\ Goto(r, "failed")
  /\ UNCHANGED <<Process, loaded, cancelRun, cancelled, run, holder, Statuses>>

\* LoadConfig, LoadDownmaskConfig, LoadDownmaskPolicy; resetComponents.
Load(r) ==
  /\ rpc[r] = "load" /\ ~Leaving(r)
  /\ loaded' = [loaded EXCEPT ![r] = configured]
  /\ status' = [k \in Comp |-> "none"]
  /\ author' = [k \in Comp |-> None]
  /\ era' = r
  /\ Goto(r, "apply")
  /\ UNCHANGED <<Process, cancelRun, cancelled, run, holder>>

\* protect.ApplyWithDBPath fails, and nothing is started.
ApplyFails(r) ==
  /\ rpc[r] = "apply"
  /\ loaded' = [loaded EXCEPT ![r] = {}]
  /\ Goto(r, "failed")
  /\ UNCHANGED <<Process, cancelRun, cancelled, run, holder, Statuses>>

\* The rules are in force (Protect.tla), or protection is off.
Apply(r) ==
  /\ rpc[r] = "apply"
  /\ Goto(r, "context")
  /\ UNCHANGED <<Process, loaded, cancelRun, cancelled, run, holder, Statuses>>

\* Wrong: the new context is not kept.
ForgetContext(r) ==
  /\ rpc[r] = "context"
  /\ Goto(r, "start")
  /\ UNCHANGED <<Process, loaded, cancelRun, cancelled, run, holder, Statuses>>

\* context.WithCancel; s.cancelRun = cancel, whatever it held.
NewContext(r) ==
  /\ rpc[r] = "context"
  /\ cancelRun' = r
  /\ cancelled' = cancelled \ {r}
  /\ Goto(r, "start")
  /\ UNCHANGED <<Process, loaded, run, holder, Statuses>>

\* startDPI ... startDownmaskRunner: what the configuration turns on is
\* started, except servers whose store or settings fail on the way.
StartComponents(r) ==
  /\ rpc[r] = "start"
  /\ \E bad \in SUBSET (loaded[r] \cap Server) :
       /\ run' = [run EXCEPT ![r] =
                    [k \in Comp |-> IF k \in loaded[r] \ bad THEN "new" ELSE "none"]]
       /\ status' = [k \in Comp |-> IF k \in bad THEN "error"
                                    ELSE IF k \in loaded[r] THEN "running"
                                    ELSE "disabled"]
  /\ author' = [k \in Comp |-> r]
  /\ loaded' = [loaded EXCEPT ![r] = {}]
  /\ Goto(r, "done")
  /\ UNCHANGED <<Process, cancelRun, cancelled, holder, era>>

ReloadStep(r) ==
  \/ CheckCancel(r) \/ CallCancel(r) \/ WaitComponents(r) \/ ClearCancel(r)
  \/ LoadFails(r) \/ Load(r) \/ ApplyFails(r) \/ Apply(r)
  \/ NewContext(r) \/ StartComponents(r)

----------------------------------------------------------------------------
(* The goroutines of components *)

\* A server listens: it fails when the port is taken, by us or by others.  One
\* that listens twice may fail with its first port taken and being served.
Listen(g, k) ==
  /\ run[g][k] = "new" /\ k \in Server
  /\ \/ /\ holder[k] = None
        /\ holder' = [holder EXCEPT ![k] = g]
        /\ RunGoto(g, k, "serving")
     \/ RunGoto(g, k, "failing") /\ UNCHANGED holder
     \/ /\ k \in Pair /\ holder[k] = None
        /\ holder' = [holder EXCEPT ![k] = g]
        /\ RunGoto(g, k, "failing")
  /\ UNCHANGED <<Process, rpc, loaded, cancelRun, cancelled, Statuses>>

\* A server ends, with an error or because its context is cancelled; either
\* way its listener is closed first.
Close(g, k) ==
  /\ run[g][k] = "serving" /\ k \in Server
  /\ RunGoto(g, k, IF g \in cancelled THEN "ending" ELSE "failing")
  /\ holder' = [holder EXCEPT ![k] = None]
  /\ UNCHANGED <<Process, rpc, loaded, cancelRun, cancelled, Statuses>>

\* The port a failed server went on serving is closed once its context is
\* cancelled, by a goroutine nobody waits for.
CloseAbandoned(k) ==
  /\ holder[k] \in cancelled
  /\ ~\E g \in Reload : g = holder[k] /\ run[g][k] = "serving"
  /\ holder' = [holder EXCEPT ![k] = None]
  /\ UNCHANGED <<Process, rpc, loaded, cancelRun, cancelled, run, Statuses>>

\* The runner reconciles when it starts and at every tick.
Pull(g, k) ==
  /\ run[g][k] \in {"new", "serving"} /\ k \in Runner
  /\ RunGoto(g, k, "pulling")
  /\ UNCHANGED <<Process, rpc, loaded, cancelRun, cancelled, holder, Statuses>>

\* runReconcileOnce returns: a store that does not open shows as an error.
PullEnds(g, k) ==
  /\ run[g][k] = "pulling"
  /\ RunGoto(g, k, "serving")
  /\ \E s \in {"running", "error"} : SetComponent(g, k, s)
  /\ UNCHANGED <<Process, rpc, loaded, cancelRun, cancelled, holder, era>>

\* Its select sees the context cancelled; a tick may be ready as well.
Quit(g, k) ==
  /\ run[g][k] = "serving" /\ k \in Runner
  /\ g \in cancelled
  /\ RunGoto(g, k, "ending")
  /\ UNCHANGED <<Process, rpc, loaded, cancelRun, cancelled, holder, Statuses>>

\* Wrong: a component that was stopped keeps its status.
ReportErrors(g, k) ==
  /\ run[g][k] \in {"failing", "ending"}
  /\ IF run[g][k] = "failing" THEN SetComponent(g, k, "error")
                              ELSE UNCHANGED <<status, author>>
  /\ RunGoto(g, k, "reported")
  /\ UNCHANGED <<Process, rpc, loaded, cancelRun, cancelled, holder, era>>

\* goComponent writes the last status before the deferred Done.
Report(g, k) ==
  /\ run[g][k] \in {"failing", "ending"}
  /\ SetComponent(g, k, IF run[g][k] = "failing" THEN "error" ELSE "stopped")
  /\ RunGoto(g, k, "reported")
  /\ UNCHANGED <<Process, rpc, loaded, cancelRun, cancelled, holder, era>>

\* The last Done wakes every Wait.
Done(g, k) ==
  /\ run[g][k] = "reported"
  /\ RunGoto(g, k, "none")
  /\ rpc' = [r \in Reload |-> IF AllDone' /\ rpc[r] = "wait" THEN "woken" ELSE rpc[r]]
  /\ UNCHANGED <<Process, loaded, cancelRun, cancelled, holder, Statuses>>

GoroutineStep(g, k) ==
  \/ Listen(g, k) \/ Close(g, k) \/ Pull(g, k) \/ PullEnds(g, k) \/ Quit(g, k)
  \/ Report(g, k) \/ Done(g, k)

----------------------------------------------------------------------------

Next ==
  \/ \E on \in SUBSET Comp : Configure(on)
  \/ Start \/ Crash \/ Exit \/ Listening \/ Terminate
  \/ \E r \in Request : Receive(r)
  \/ \E r \in Reload : ReloadStep(r)
  \/ \E g \in Reload, k \in Comp : GoroutineStep(g, k)
  \/ \E k \in Server : CloseAbandoned(k)

Spec == Init /\ [][Next]_vars

\* The scheduler runs every goroutine: a handler goes on, a component whose
\* context is cancelled closes, a pull ends (its targets and attempts are
\* finite in number and time) and reports.  A select with a tick and the
\* context ready picks at random, so not the tick every time.
Fairness ==
  /\ \A r \in Reload : WF_vars(ReloadStep(r))
  /\ WF_vars(Exit)
  /\ \A g \in Reload, k \in Comp :
       /\ WF_vars(run[g][k] \in {"failing", "ending", "reported", "pulling"}
                  /\ GoroutineStep(g, k))
       /\ WF_vars(run[g][k] = "new" /\ GoroutineStep(g, k))
       /\ WF_vars(g \in cancelled /\ Close(g, k))
       /\ SF_vars(Quit(g, k))

FairSpec == Spec /\ Fairness

----------------------------------------------------------------------------
(* Properties *)

\* No generation is leaked: what runs is either cancelled already or what
\* cancelRun, and so the next reload and the shutdown, will cancel.
NoOrphan ==
  \A g \in Reload, k \in Comp : Counted(g, k) => g \in cancelled \/ g = cancelRun

\* Two generations never serve at once: a component that is about to listen
\* finds its port or queue left by its predecessor, unless that one listens
\* twice and had failed.
PortsReleased ==
  \A g \in Reload, k \in Server :
    run[g][k] = "new" =>
      \/ holder[k] = None
      \/ k \in Pair /\ \A h \in Reload : h = holder[k] => ~Counted(h, k)

\* No late word: a component stopped by a reload never writes its status over
\* one of the generation that replaced it.
StatusCurrent == \A k \in Comp : author[k] \in {None, era}

\* A component shown as running has a goroutine, also after a reload that
\* failed half-way.
RunningIsAlive ==
  \A k \in Comp : status[k] = "running" => \E g \in Reload : Counted(g, k)

\* Every reload request is answered, however long the pull it waits for.
ReloadReturns ==
  \A r \in Request : rpc[r] = "check" ~> rpc[r] \in Returned

\* The daemon ends when it is told to.
ShutdownEnds == up = "exiting" ~> up = "down"
=============================================================================
