---------------------------- MODULE DaemonProofs ----------------------------
(***************************************************************************)
(* Proofs about Daemon, for any components, requests, crashes and edits of *)
(* the configuration: its types; and, when reload requests come one after  *)
(* the other, that no generation is leaked, that each finds its ports, and *)
(* that the statuses are of the generation that runs.                      *)
(***************************************************************************)
EXTENDS Daemon, TLAPS

USE DaemonAssumption

----------------------------------------------------------------------------
(* Types *)

LEMMA TypeInit == Init => TypeOK
  BY DEF Init, TypeOK, RPC, Goroutine, Status

LEMMA TypeReload ==
  ASSUME TypeOK, NEW r \in Reload, ReloadStep(r)
  PROVE  TypeOK'
<1> USE DEF TypeOK, Goto, Process, Statuses, RPC
<1>1. CASE CheckCancel(r) \/ WaitComponents(r) \/ LoadFails(r) \/ ApplyFails(r) \/ Apply(r)
  BY <1>1 DEF CheckCancel, WaitComponents, LoadFails, ApplyFails, Apply
<1>2. CASE CallCancel(r)
  BY <1>2 DEF CallCancel
<1>3. CASE ClearCancel(r) \/ NewContext(r)
  BY <1>3 DEF ClearCancel, NewContext
<1>4. CASE Load(r)
  BY <1>4 DEF Load, Status
<1>5. CASE StartComponents(r)
  <2>1. PICK bad \in SUBSET (loaded[r] \cap Server) :
          /\ run' = [run EXCEPT ![r] =
                       [k \in Comp |-> IF k \in loaded[r] \ bad THEN "new" ELSE "none"]]
          /\ status' = [k \in Comp |-> IF k \in bad THEN "error"
                                       ELSE IF k \in loaded[r] THEN "running"
                                       ELSE "disabled"]
    BY <1>5 DEF StartComponents
  <2>2. run' \in [Reload -> [Comp -> Goroutine]] /\ status' \in [Comp -> Status]
    BY <2>1 DEF Goroutine, Status
  <2>3. QED
    BY <1>5, <2>2 DEF StartComponents
<1>6. QED
  BY <1>1, <1>2, <1>3, <1>4, <1>5 DEF ReloadStep

LEMMA TypeGoroutine ==
  ASSUME TypeOK, NEW g \in Reload, NEW k \in Comp, GoroutineStep(g, k)
  PROVE  TypeOK'
<1> USE DEF TypeOK, Process, Statuses
<1>1. ASSUME NEW step \in Goroutine, RunGoto(g, k, step)
      PROVE  run' \in [Reload -> [Comp -> Goroutine]]
  BY <1>1 DEF RunGoto
<1>2. ASSUME NEW s \in Status, SetComponent(g, k, s)
      PROVE  status' \in [Comp -> Status] /\ author' \in [Comp -> Reload \cup {None}]
  BY <1>2 DEF SetComponent
<1>3. CASE Listen(g, k) \/ Close(g, k)
  <2>1. holder' \in [Comp -> Reload \cup {None}]
    BY <1>3 DEF Listen, Close
  <2>2. QED
    BY <1>1, <1>3, <2>1 DEF Listen, Close, Goroutine
<1>4. CASE Pull(g, k) \/ Quit(g, k)
  BY <1>1, <1>4 DEF Pull, Quit, Goroutine
<1>5. CASE PullEnds(g, k) \/ Report(g, k)
  BY <1>1, <1>2, <1>5 DEF PullEnds, Report, Goroutine, Status
<1>6. CASE Done(g, k)
  <2>1. rpc' \in [Reload -> RPC]
    BY <1>6 DEF Done, RPC
  <2>2. QED
    BY <1>1, <1>6, <2>1 DEF Done, Goroutine
<1>7. QED
  BY <1>3, <1>4, <1>5, <1>6 DEF GoroutineStep

LEMMA TypeDie == TypeOK /\ Die => TypeOK'
  BY DEF Die, TypeOK, RPC, Goroutine, Status, InProgress, Returned

LEMMA TypeStep == TypeOK /\ [Next]_vars => TypeOK'
<1> SUFFICES ASSUME TypeOK, [Next]_vars PROVE TypeOK'
  OBVIOUS
<1>1. ASSUME NEW on \in SUBSET Comp, Configure(on) PROVE TypeOK'
  BY <1>1 DEF Configure, TypeOK, Statuses
<1>2. CASE Start \/ Listening \/ Terminate
  BY <1>2 DEF Start, Listening, Terminate, TypeOK, Goto, RPC, Statuses
<1>3. CASE Crash \/ Exit
  BY <1>3, TypeDie DEF Crash, Exit
<1>4. ASSUME NEW r \in Request, Receive(r) PROVE TypeOK'
  BY <1>4 DEF Receive, TypeOK, Goto, RPC, Process, Statuses, Reload
<1>5. ASSUME NEW k \in Server, CloseAbandoned(k) PROVE TypeOK'
  BY <1>5 DEF CloseAbandoned, TypeOK, Process, Statuses
<1>6. CASE UNCHANGED vars
  BY <1>6 DEF vars, TypeOK
<1>7. QED
  BY <1>1, <1>2, <1>3, <1>4, <1>5, <1>6, TypeReload, TypeGoroutine DEF Next

\* Processes, reloads and goroutines keep their types.
THEOREM TypeCorrect == Spec => []TypeOK
  BY TypeInit, TypeStep, PTL DEF Spec

----------------------------------------------------------------------------
(* One reload at a time *)

OneReload == \A r, s \in InProgress : r = s

\* Which reloads there may be: that of Run while the process starts and ends,
\* a request in between.
Life ==
  /\ up = "down" => InProgress = {} /\ rpc[Boot] = "idle"
  /\ up = "booting" => InProgress \subseteq {Boot}
  /\ up = "up" => rpc[Boot] = "done"
  /\ up = "exiting" =>
       /\ InProgress \subseteq {Boot}
       /\ rpc[Boot] \in {"check", "cancel", "wait", "woken", "clear", "load"}

\* How far a reload is, and what it has left or found by then.
Stage(r) ==
  /\ rpc[r] = "cancel" => cancelRun # None
  /\ rpc[r] \in {"woken", "clear"} => AllDone
  /\ rpc[r] \in {"load", "apply", "context"} => cancelRun = None
  /\ rpc[r] = "start" => cancelRun = r /\ r \notin cancelled /\ AllDone
  /\ rpc[r] \in {"apply", "context", "start"} => era = r

Stages ==
  /\ \A r \in Reload : Stage(r)
  /\ cancelRun = None => AllDone

\* The reload that named a generation has started its components.
Started(g) == rpc[g] = "done" \/ (g = Boot /\ up = "exiting")

\* What runs is of the generation whose statuses are shown, and will be
\* cancelled.
Generations ==
  \A g \in Reload, k \in Comp :
    Counted(g, k) => /\ g = era /\ Started(g)
                     /\ g \in cancelled \/ g = cancelRun

\* A port is held by a goroutine that serves, or was left by one that listens
\* twice; never by a generation that is still to listen.
Ports ==
  \A k \in Server, g \in Reload :
    holder[k] = g => /\ Started(g) /\ run[g][k] # "new"
                     /\ run[g][k] = "serving" \/ k \in Pair

Authors == \A k \in Comp : author[k] \in {None, era}

\* A goroutine that has not written its last status.
Working == {"new", "serving", "pulling", "failing", "ending"}

Alive ==
  \A k \in Comp : status[k] = "running" => \E g \in Reload : run[g][k] \in Working

IInv ==
  /\ TypeOK /\ OneReload /\ Life /\ Stages
  /\ Generations /\ Ports /\ Authors /\ Alive

\* The other reloads are not in progress, and stay so.
LEMMA Others ==
  ASSUME Serial, IInv, NEW r \in Reload, ReloadStep(r)
  PROVE  /\ \A s \in Reload \ {r} : s \notin InProgress /\ rpc'[s] = rpc[s]
         /\ r \in InProgress /\ UNCHANGED <<up, configured>>
         /\ OneReload'
<1>1. r \in InProgress
  BY DEF ReloadStep, CheckCancel, CallCancel, WaitComponents, ClearCancel, LoadFails, Load,
     ApplyFails, Apply, NewContext, StartComponents, InProgress, Returned
<1>2. \A s \in Reload \ {r} : rpc'[s] = rpc[s]
  BY DEF IInv, TypeOK, ReloadStep, CheckCancel, CallCancel, WaitComponents, ClearCancel,
     LoadFails, Load, ApplyFails, Apply, NewContext, StartComponents, Goto
<1>3. UNCHANGED <<up, configured>>
  BY DEF ReloadStep, CheckCancel, CallCancel, WaitComponents, ClearCancel, LoadFails, Load,
     ApplyFails, Apply, NewContext, StartComponents, Process
<1>4. \A s \in Reload \ {r} : s \notin InProgress
  BY <1>1 DEF IInv, OneReload
<1>5. QED
  BY <1>1, <1>2, <1>3, <1>4 DEF OneReload, InProgress

LEMMA ReloadInv ==
  ASSUME Serial, IInv, NEW r \in Reload, ReloadStep(r)
  PROVE  IInv'
<1>1. TypeOK' /\ TypeOK
  BY TypeReload DEF IInv
<1>2. /\ \A s \in Reload \ {r} : s \notin InProgress /\ rpc'[s] = rpc[s]
      /\ r \in InProgress /\ up' = up /\ OneReload'
  BY Others
<1>3. /\ OneReload /\ Life /\ Stages /\ Generations /\ Ports /\ Authors /\ Alive
      /\ Stage(r) /\ (r = Boot => up # "up") /\ (up # "up" => r = Boot)
  BY <1>2 DEF IInv, Life, Stages, InProgress, Returned, TypeOK
<1>4. \A s \in Reload \ {r} : Stage(s)'
  BY <1>2 DEF Stage, InProgress, Returned
<1> SUFFICES /\ Life' /\ Stage(r)' /\ (cancelRun' = None => AllDone')
             /\ Generations' /\ Ports' /\ Authors' /\ Alive'
  BY <1>1, <1>2, <1>4 DEF IInv, Stages
<1>5. Life'
  <2>1. up = "exiting" => rpc'[Boot] \in {"check", "cancel", "wait", "woken", "clear", "load"}
    <3> SUFFICES ASSUME up = "exiting"
                 PROVE  rpc'[Boot] \in {"check", "cancel", "wait", "woken", "clear", "load"}
      OBVIOUS
    <3>1. r = Boot /\ Leaving(r) /\ rpc[r] \in {"check", "cancel", "wait", "woken", "clear", "load"}
      BY <1>3 DEF Life, Leaving
    <3>2. QED
      BY <1>1, <1>3, <3>1
         DEF ReloadStep, CheckCancel, CallCancel, WaitComponents, ClearCancel, LoadFails, Load,
             ApplyFails, Apply, NewContext, StartComponents, Goto, Stage, TypeOK
  <2>2. InProgress' \subseteq InProgress
    BY <1>2 DEF InProgress
  <2>3. up = "up" => rpc'[Boot] = "done"
    BY <1>2, <1>3 DEF Life, Reload
  <2>4. QED
    BY <1>2, <1>3, <2>1, <2>2, <2>3 DEF Life
<1> USE <1>1 DEF TypeOK, Goto, Process, Statuses
<1>6. \A g \in Reload : Started(g) => Started(g)'
  BY <1>2 DEF Started, InProgress, Returned
<1>7. UNCHANGED <<run, holder>> => Ports' /\ (AllDone' <=> AllDone)
  BY <1>3, <1>6 DEF Ports, AllDone, Counted
<1>8. UNCHANGED <<run, status, author, era>> => Authors' /\ Alive'
  BY <1>3 DEF Authors, Alive
<1>9. UNCHANGED <<run, era, cancelRun, cancelled>> => Generations'
  BY <1>3, <1>6 DEF Generations, Counted
<1>10. CASE CheckCancel(r)
  <2>1. /\ rpc' = [rpc EXCEPT ![r] = IF cancelRun = None THEN "load" ELSE "cancel"]
        /\ UNCHANGED <<run, holder, status, author, era, cancelRun, cancelled>>
    BY <1>10 DEF CheckCancel
  <2>2. Stage(r)'
    BY <2>1 DEF Stage
  <2>3. cancelRun' = None => AllDone'
    BY <1>3, <1>7, <2>1 DEF Stages
  <2>4. QED
    BY <1>5, <1>7, <1>8, <1>9, <2>1, <2>2, <2>3
<1>11. CASE CallCancel(r)
  <2>1. rpc[r] = "cancel" /\ cancelRun # None
    BY <1>3, <1>11 DEF CallCancel, Stage
  <2>2. /\ rpc' = [rpc EXCEPT ![r] = "wait"] /\ cancelled' = cancelled \cup {cancelRun}
        /\ UNCHANGED <<run, holder, status, author, era, cancelRun>>
    BY <1>11, <2>1 DEF CallCancel
  <2>3. Generations'
    BY <1>3, <1>6, <2>2 DEF Generations, Counted
  <2>4. Stage(r)' /\ cancelRun' # None
    BY <2>1, <2>2 DEF Stage
  <2>5. QED
    BY <1>5, <1>7, <1>8, <2>2, <2>3, <2>4
<1>12. CASE WaitComponents(r)
  <2>1. AllDone /\ rpc' = [rpc EXCEPT ![r] = "clear"]
    BY <1>3, <1>12 DEF WaitComponents, Stage
  <2>2. UNCHANGED <<run, holder, status, author, era, cancelRun, cancelled>>
    BY <1>12 DEF WaitComponents
  <2>3. AllDone'
    BY <1>7, <2>1, <2>2
  <2>4. Stage(r)'
    BY <2>1, <2>3 DEF Stage
  <2>5. QED
    BY <1>5, <1>7, <1>8, <1>9, <2>2, <2>3, <2>4
<1>13. CASE ClearCancel(r)
  <2>1. /\ AllDone /\ rpc' = [rpc EXCEPT ![r] = "load"] /\ cancelRun' = None
        /\ UNCHANGED <<run, holder, status, author, era, cancelled>>
    BY <1>3, <1>13 DEF ClearCancel, Stage
  <2>2. Generations'
    BY <2>1 DEF Generations, AllDone, Counted
  <2>3. AllDone'
    BY <1>7, <2>1
  <2>4. Stage(r)'
    BY <2>1 DEF Stage
  <2>5. QED
    BY <1>5, <1>7, <1>8, <2>1, <2>2, <2>3, <2>4
<1>14. CASE LoadFails(r) \/ ApplyFails(r) \/ Apply(r)
  <2>1. /\ rpc[r] \in {"load", "apply"}
        /\ \/ rpc' = [rpc EXCEPT ![r] = "failed"]
           \/ rpc[r] = "apply" /\ rpc' = [rpc EXCEPT ![r] = "context"]
        /\ UNCHANGED <<run, holder, status, author, era, cancelRun, cancelled>>
    BY <1>14 DEF LoadFails, ApplyFails, Apply
  <2>2. rpc[r] = "apply" => era = r
    BY <1>3 DEF Stage
  <2>3. cancelRun = None /\ AllDone
    BY <1>3, <2>1 DEF Stages, Stage
  <2>4. AllDone'
    BY <1>7, <2>1, <2>3
  <2>5. Stage(r)'
    BY <2>1, <2>2, <2>3 DEF Stage
  <2>6. QED
    BY <1>5, <1>7, <1>8, <1>9, <2>1, <2>4, <2>5
<1>15. CASE Load(r)
  <2>1. /\ cancelRun = None /\ AllDone /\ rpc' = [rpc EXCEPT ![r] = "apply"] /\ era' = r
        /\ \A k \in Comp : status'[k] = "none" /\ author'[k] = None
        /\ UNCHANGED <<run, holder, cancelRun, cancelled>>
    BY <1>3, <1>15 DEF Load, Stages, Stage
  <2>2. Generations'
    BY <2>1 DEF Generations, AllDone, Counted
  <2>3. AllDone'
    BY <1>7, <2>1
  <2>4. Stage(r)'
    BY <2>1 DEF Stage
  <2>5. Authors' /\ Alive'
    BY <2>1 DEF Authors, Alive
  <2>6. QED
    BY <1>5, <1>7, <2>1, <2>2, <2>3, <2>4, <2>5
<1>16. CASE NewContext(r)
  <2>1. /\ AllDone /\ era = r /\ rpc' = [rpc EXCEPT ![r] = "start"] /\ cancelRun' = r
        /\ cancelled' = cancelled \ {r}
        /\ UNCHANGED <<run, holder, status, author, era>>
    BY <1>3, <1>16 DEF NewContext, Stages, Stage
  <2>2. Generations' /\ cancelRun' # None
    BY <2>1 DEF Generations, AllDone, Counted, Reload
  <2>3. AllDone'
    BY <1>7, <2>1
  <2>4. Stage(r)'
    BY <2>1, <2>3 DEF Stage
  <2>5. QED
    BY <1>5, <1>7, <1>8, <2>1, <2>2, <2>3, <2>4
<1>17. CASE StartComponents(r)
  <2>1. /\ AllDone /\ era = r /\ cancelRun = r /\ rpc[r] = "start" /\ r # None
        /\ rpc' = [rpc EXCEPT ![r] = "done"]
        /\ \A k \in Comp : author'[k] = r
        /\ UNCHANGED <<holder, era, cancelRun, cancelled>>
    BY <1>3, <1>17 DEF StartComponents, Stage, Reload
  <2>2. PICK bad \in SUBSET (loaded[r] \cap Server) :
          /\ run' = [run EXCEPT ![r] =
                       [k \in Comp |-> IF k \in loaded[r] \ bad THEN "new" ELSE "none"]]
          /\ status' = [k \in Comp |-> IF k \in bad THEN "error"
                                       ELSE IF k \in loaded[r] THEN "running"
                                       ELSE "disabled"]
    BY <1>17 DEF StartComponents
  <2>3. \A g \in Reload, k \in Comp :
          run'[g][k] = IF g = r /\ k \in loaded[r] \ bad THEN "new" ELSE "none"
    BY <2>1, <2>2 DEF AllDone, Counted
  <2>4. Started(r)' /\ ~Started(r)
    BY <1>3, <2>1 DEF Started, Life
  <2>5. Generations'
    BY <2>1, <2>3, <2>4 DEF Generations, Counted
  <2>6. Ports'
    <3> SUFFICES ASSUME NEW k \in Server, NEW g \in Reload, holder[k] = g
                 PROVE  Started(g)' /\ run'[g][k] # "new" /\ k \in Pair
      BY <2>1 DEF Ports
    <3>1. k \in Comp /\ Started(g) /\ run[g][k] = "none" /\ k \in Pair
      BY <1>3, <2>1 DEF Ports, AllDone, Counted, Comp
    <3>2. g # r
      BY <2>4, <3>1
    <3>3. QED
      BY <1>6, <2>3, <3>1, <3>2
  <2>7. Alive'
    <3> SUFFICES ASSUME NEW k \in Comp, status'[k] = "running"
                 PROVE  run'[r][k] \in Working
      BY DEF Alive
    <3>1. k \in loaded[r] \ bad
      BY <2>2
    <3>2. QED
      BY <2>3, <3>1 DEF Working
  <2>8. Stage(r)' /\ cancelRun' # None
    BY <2>1 DEF Stage
  <2>9. Authors'
    BY <2>1 DEF Authors
  <2>10. QED
    BY <1>5, <2>5, <2>6, <2>7, <2>8, <2>9
<1>18. QED
  BY <1>5, <1>10, <1>11, <1>12, <1>13, <1>14, <1>15, <1>16, <1>17 DEF ReloadStep

\* Only the goroutine moves; it was counted, so no reload is past its wait.
LEMMA GoroutineMoves ==
  ASSUME IInv, NEW g \in Reload, NEW k \in Comp, GoroutineStep(g, k)
  PROVE  /\ \A h \in Reload, j \in Comp : h # g \/ j # k => run'[h][j] = run[h][j]
         /\ Counted(g, k) /\ ~AllDone /\ g = era
         /\ UNCHANGED <<up, configured, cancelRun, cancelled, era>>
<1>1. TypeOK /\ Generations
  BY DEF IInv
<1>2. \A h \in Reload, j \in Comp : h # g \/ j # k => run'[h][j] = run[h][j]
  BY <1>1 DEF TypeOK, GoroutineStep, Listen, Close, Pull, PullEnds, Quit, Report, Done, RunGoto
<1>3. run[g][k] # "none"
  BY DEF GoroutineStep, Listen, Close, Pull, PullEnds, Quit, Report, Done
<1>4. UNCHANGED <<up, configured, cancelRun, cancelled, era>>
  BY DEF GoroutineStep, Listen, Close, Pull, PullEnds, Quit, Report, Done, Process, Statuses
<1>5. Counted(g, k)
  BY <1>3 DEF Counted
<1>6. g = era /\ ~AllDone
  BY <1>1, <1>5 DEF Generations, AllDone
<1>7. QED
  BY <1>2, <1>4, <1>5, <1>6

\* A goroutine may wake the reload that waits for it, and that is all.
LEMMA GoroutineReloads ==
  ASSUME Serial, IInv, NEW g \in Reload, NEW k \in Comp, GoroutineStep(g, k)
  PROVE  /\ OneReload' /\ Life' /\ Stages'
         /\ \A h \in Reload : Started(h) => Started(h)'
<1>1. /\ TypeOK /\ OneReload /\ Life /\ Stages
      /\ \A r \in Reload : Stage(r)
  BY DEF IInv, Stages
<1>2. /\ ~AllDone
      /\ UNCHANGED <<up, cancelRun, cancelled, era>>
  BY GoroutineMoves
<1>3. \A r \in Reload :
        \/ rpc'[r] = rpc[r]
        \/ rpc[r] = "wait" /\ rpc'[r] = "woken" /\ AllDone'
  BY <1>1 DEF TypeOK, GoroutineStep, Listen, Close, Pull, PullEnds, Quit, Report, Done
<1>4. InProgress' = InProgress
  BY <1>3 DEF InProgress, Returned
<1>5. cancelRun # None
  BY <1>1, <1>2 DEF Stages
<1>6. \A r \in Reload : rpc[r] \notin {"woken", "clear", "load", "apply", "context", "start"}
  BY <1>1, <1>2, <1>5 DEF Stage
<1>7. OneReload'
  BY <1>1, <1>4 DEF OneReload
<1>8. Life'
  BY <1>1, <1>2, <1>3, <1>4 DEF Life, Reload
<1>9. ASSUME NEW r \in Reload
      PROVE  Stage(r)'
  <2>1. rpc'[r] = "woken" => AllDone'
    BY <1>3, <1>6
  <2>2. rpc'[r] \notin {"clear", "load", "apply", "context", "start"}
    BY <1>3, <1>6
  <2>3. QED
    BY <1>2, <1>5, <2>1, <2>2 DEF Stage
<1>10. \A h \in Reload : Started(h) => Started(h)'
  BY <1>2, <1>3 DEF Started
<1>11. QED
  BY <1>2, <1>5, <1>7, <1>8, <1>9, <1>10 DEF Stages

LEMMA GoroutineInv ==
  ASSUME Serial, IInv, NEW g \in Reload, NEW k \in Comp, GoroutineStep(g, k)
  PROVE  IInv'
<1>1. TypeOK' /\ TypeOK /\ Generations /\ Ports /\ Authors /\ Alive
  BY TypeGoroutine DEF IInv
<1>2. /\ \A h \in Reload, j \in Comp : h # g \/ j # k => run'[h][j] = run[h][j]
      /\ Counted(g, k) /\ g = era
      /\ UNCHANGED <<up, configured, cancelRun, cancelled, era>>
  BY GoroutineMoves
<1>3. /\ OneReload' /\ Life' /\ Stages'
      /\ \A h \in Reload : Started(h) => Started(h)'
  BY GoroutineReloads
<1>4. Generations'
  BY <1>1, <1>2, <1>3 DEF Generations, Counted
<1>5. Started(g)
  BY <1>1, <1>2 DEF Generations
<1>6. \A j \in Comp \ {k} : holder'[j] = holder[j] /\ status'[j] = status[j] /\ author'[j] = author[j]
  BY <1>1 DEF TypeOK, GoroutineStep, Listen, Close, Pull, PullEnds, Quit, Report, Done,
     SetComponent, Statuses
<1> USE <1>1 DEF TypeOK, RunGoto, SetComponent, Statuses
<1>7. ASSUME k \in Server, NEW h \in Reload, holder'[k] = h
      PROVE  run'[h][k] # "new" /\ (run'[h][k] = "serving" \/ k \in Pair) /\ Started(h)'
  <2>1. holder[k] = h =>
          /\ Started(h)' /\ run[h][k] # "new" /\ (run[h][k] = "serving" \/ k \in Pair)
    BY <1>1, <1>3, <1>7 DEF Ports
  <2>2. Started(g)'
    BY <1>3, <1>5
  <2>3. k \notin Runner /\ None # h
    BY <1>7, DaemonAssumption DEF Reload
  <2>4. CASE Listen(g, k)
    BY <1>2, <1>7, <2>1, <2>2, <2>4 DEF Listen
  <2>5. CASE Close(g, k)
    BY <1>7, <2>3, <2>5 DEF Close
  <2>6. CASE PullEnds(g, k)
    BY <1>2, <1>7, <2>1, <2>6 DEF PullEnds
  <2>7. CASE Report(g, k)
    BY <1>2, <1>7, <2>1, <2>7 DEF Report
  <2>8. CASE Done(g, k)
    BY <1>2, <1>7, <2>1, <2>8 DEF Done
  <2>9. ~Pull(g, k) /\ ~Quit(g, k)
    BY <2>3 DEF Pull, Quit
  <2>10. QED
    BY <2>4, <2>5, <2>6, <2>7, <2>8, <2>9 DEF GoroutineStep
<1>8. Ports'
  <2> SUFFICES ASSUME NEW j \in Server, NEW h \in Reload, holder'[j] = h, j # k
               PROVE  Started(h)' /\ run'[h][j] # "new" /\ (run'[h][j] = "serving" \/ j \in Pair)
    BY <1>7 DEF Ports
  <2>1. j \in Comp /\ holder[j] = h
    BY <1>6 DEF Comp
  <2>2. QED
    BY <1>1, <1>2, <1>3, <2>1 DEF Ports
<1>9. Authors'
  <2>1. author'[k] \in {None, era}
    BY <1>1, <1>2 DEF Authors, GoroutineStep, Listen, Close, Pull, PullEnds, Quit, Report, Done
  <2>2. QED
    BY <1>1, <1>2, <1>6, <2>1 DEF Authors
<1>10. Alive'
  <2> SUFFICES ASSUME NEW j \in Comp, status'[j] = "running"
               PROVE  \E h \in Reload : run'[h][j] \in Working
    BY DEF Alive
  <2>1. CASE j # k
    BY <1>1, <1>2, <1>6, <2>1 DEF Alive
  <2>2. CASE j = k /\ PullEnds(g, k)
    BY <2>2 DEF PullEnds, Working
  <2>3. CASE j = k /\ Report(g, k)
    BY <2>3 DEF Report
  <2>4. CASE j = k /\ (Listen(g, k) \/ Close(g, k) \/ Pull(g, k) \/ Quit(g, k) \/ Done(g, k))
    <3>1. status[k] = "running"
      BY <2>4 DEF Listen, Close, Pull, Quit, Done
    <3>2. PICK h \in Reload : run[h][k] \in Working
      BY <1>1, <3>1 DEF Alive
    <3>3. run'[g][k] \in Working \/ run[g][k] = "reported"
      BY <2>4 DEF Listen, Close, Pull, Quit, Done, Working
    <3>4. CASE h = g
      BY <2>4, <3>2, <3>3, <3>4 DEF Working
    <3>5. CASE h # g
      BY <1>2, <2>4, <3>2, <3>5
    <3>6. QED
      BY <3>4, <3>5
  <2>5. QED
    BY <2>1, <2>2, <2>3, <2>4 DEF GoroutineStep
<1>11. QED
  BY <1>1, <1>3, <1>4, <1>8, <1>9, <1>10 DEF IInv

----------------------------------------------------------------------------
(* The process *)

LEMMA InitInv == Init => IInv
<1> SUFFICES ASSUME Init PROVE IInv
  OBVIOUS
<1>1. TypeOK
  BY TypeInit
<1>2. InProgress = {} /\ AllDone
  BY DEF Init, InProgress, AllDone, Counted
<1>3. OneReload /\ Life /\ Stages
  BY <1>2 DEF Init, OneReload, Life, Stages, Stage, Reload
<1>4. Generations /\ Ports /\ Authors /\ Alive
  BY DaemonAssumption DEF Init, Generations, Counted, Ports, Authors, Alive, Comp, Reload
<1>5. QED
  BY <1>1, <1>3, <1>4 DEF IInv

LEMMA DieInv ==
  ASSUME IInv, Die
  PROVE  IInv'
<1>1. TypeOK'
  BY TypeDie DEF IInv
<1>2. \A r \in Reload : rpc'[r] \in Returned \cup {"idle"}
  BY DEF Die, InProgress, Returned
<1>3. InProgress' = {} /\ AllDone'
  BY <1>2 DEF Die, InProgress, AllDone, Counted
<1>4. Life'
  BY <1>3 DEF Die, Life, Reload
<1>5. Stages'
  BY <1>2, <1>3 DEF Stages, Stage, Returned
<1>6. Generations' /\ Ports' /\ Authors' /\ Alive'
  BY DaemonAssumption DEF Die, Generations, Counted, Ports, Authors, Alive, Comp, Reload
<1>7. QED
  BY <1>1, <1>3, <1>4, <1>5, <1>6 DEF IInv, OneReload

\* A reload begins: that of Run, of the shutdown, or of a request.
LEMMA BeginInv ==
  ASSUME Serial, IInv, TypeOK',
         \/ Start \/ Terminate \/ \E r \in Request : Receive(r)
  PROVE  IInv'
<1>1. /\ TypeOK /\ Life /\ Stages /\ Generations /\ Ports /\ Authors /\ Alive
      /\ \A s \in Reload : Stage(s)
  BY DEF IInv, Stages
<1>2. Boot \in Reload /\ Boot \notin Request /\ Request \subseteq Reload
  BY DaemonAssumption DEF Reload
<1>3. PICK r \in Reload :
        /\ rpc' = [rpc EXCEPT ![r] = "check"]
        /\ r = Boot => up' # "up"
        /\ up' # "up" => r = Boot
        /\ up' = "up" => rpc[Boot] = "done"
        /\ up' # "down"
        /\ \/ rpc[r] = "idle" /\ up # "exiting"
           \/ r = Boot /\ up' = "exiting"
  <2>1. CASE Start
    BY <1>1, <1>2, <2>1 DEF Start, Goto, Life
  <2>2. CASE Terminate
    BY <1>1, <1>2, <2>2 DEF Terminate, Goto, Life
  <2>3. CASE \E r \in Request : Receive(r)
    BY <1>1, <1>2, <2>3 DEF Receive, Goto, Process, Life
  <2>4. QED
    BY <2>1, <2>2, <2>3
<1>4. /\ InProgress = {}
      /\ UNCHANGED <<run, holder, status, author, era, cancelRun, cancelled>>
  BY <1>1 DEF Start, Terminate, Receive, Statuses, Life
<1>5. rpc'[r] = "check" /\ \A s \in Reload \ {r} : rpc'[s] = rpc[s] /\ s \notin InProgress
  BY <1>1, <1>3, <1>4 DEF TypeOK
<1>6. InProgress' = {r}
  BY <1>5 DEF InProgress, Returned
<1>7. OneReload' /\ Life'
  BY <1>2, <1>3, <1>5, <1>6 DEF OneReload, Life
<1>8. AllDone' <=> AllDone
  BY <1>4 DEF AllDone, Counted
<1>9. Stages'
  BY <1>1, <1>4, <1>5, <1>8 DEF Stages, Stage
<1>10. \A g \in Reload : Started(g) => Started(g)'
  BY <1>3, <1>5 DEF Started
<1>11. Generations' /\ Ports'
  BY <1>1, <1>4, <1>10 DEF Generations, Counted, Ports
<1>12. Authors' /\ Alive'
  BY <1>1, <1>4 DEF Authors, Alive
<1>13. QED
  BY <1>7, <1>9, <1>11, <1>12 DEF IInv

\* A port that was left open is closed; any other step keeps what IInv is about.
LEMMA QuietInv ==
  ASSUME IInv, TypeOK',
         \/ \E on \in SUBSET Comp : Configure(on)
         \/ Listening
         \/ \E k \in Server : CloseAbandoned(k)
         \/ UNCHANGED vars
  PROVE  IInv'
<1>1. TypeOK /\ OneReload /\ Life /\ Stages /\ Generations /\ Ports /\ Authors /\ Alive
  BY DEF IInv
<1>2. /\ UNCHANGED <<rpc, run, status, author, era, cancelRun, cancelled>>
      /\ \/ up' = up
         \/ up' = "up" /\ up = "booting" /\ rpc[Boot] = "done"
  <2>1. CASE \E on \in SUBSET Comp : Configure(on)
    BY <2>1 DEF Configure, Statuses
  <2>2. CASE Listening
    BY <2>2 DEF Listening, Statuses
  <2>3. CASE \E k \in Server : CloseAbandoned(k)
    BY <2>3 DEF CloseAbandoned, Process, Statuses
  <2>4. CASE UNCHANGED vars
    BY <2>4 DEF vars
  <2>5. QED
    BY <2>1, <2>2, <2>3, <2>4
<1>3. \A k \in Comp : holder'[k] \in {holder[k], None}
  BY <1>1 DEF TypeOK, Configure, Listening, CloseAbandoned, vars
<1>4. OneReload' /\ Life'
  BY <1>1, <1>2 DEF OneReload, Life, InProgress
<1>5. Stages'
  BY <1>1, <1>2 DEF Stages, Stage, AllDone, Counted
<1>6. \A g \in Reload : Started(g) => Started(g)'
  BY <1>2 DEF Started
<1>7. Generations'
  BY <1>1, <1>2, <1>6 DEF Generations, Counted
<1>8. Ports'
  <2> SUFFICES ASSUME NEW k \in Server, NEW g \in Reload, holder'[k] = g
               PROVE  Started(g)' /\ run'[g][k] # "new" /\ (run'[g][k] = "serving" \/ k \in Pair)
    BY DEF Ports
  <2>1. holder[k] = g
    BY <1>3, DaemonAssumption DEF Comp, Reload
  <2>2. QED
    BY <1>1, <1>2, <1>6, <2>1 DEF Ports
<1>9. Authors' /\ Alive'
  BY <1>1, <1>2 DEF Authors, Alive
<1>10. QED
  BY <1>4, <1>5, <1>7, <1>8, <1>9 DEF IInv

\* With reloads one after the other, IInv holds for ever.
LEMMA Invariance == Serial => (Spec => []IInv)
<1> SUFFICES ASSUME Serial PROVE Spec => []IInv
  OBVIOUS
<1>1. IInv /\ [Next]_vars => IInv'
  <2> SUFFICES ASSUME IInv, [Next]_vars PROVE IInv'
    OBVIOUS
  <2>1. TypeOK'
    BY TypeStep DEF IInv
  <2>2. CASE Crash \/ Exit
    BY <2>2, DieInv DEF Crash, Exit
  <2>3. CASE Start \/ Terminate \/ \E r \in Request : Receive(r)
    BY <2>1, <2>3, BeginInv
  <2>4. CASE \/ \E on \in SUBSET Comp : Configure(on)
             \/ Listening
             \/ \E k \in Server : CloseAbandoned(k)
             \/ UNCHANGED vars
    BY <2>1, <2>4, QuietInv
  <2>5. CASE \E r \in Reload : ReloadStep(r)
    BY <2>5, ReloadInv
  <2>6. CASE \E g \in Reload, k \in Comp : GoroutineStep(g, k)
    BY <2>6, GoroutineInv
  <2>7. QED
    BY <2>2, <2>3, <2>4, <2>5, <2>6 DEF Next
<1>2. QED
  BY InitInv, <1>1, PTL DEF Spec

----------------------------------------------------------------------------
(* The properties *)

\* No generation is leaked: whatever runs is cancelled already, or cancelRun
\* will cancel it at the next reload or the shutdown.
THEOREM NothingLeaks == Serial => (Spec => []NoOrphan)
<1>1. IInv => NoOrphan
  BY DEF IInv, Generations, NoOrphan
<1>2. QED
  BY Invariance, <1>1, PTL

\* A component that is about to listen finds its port left by the generation
\* before, unless that one listens twice and had failed.
THEOREM PortsAreLeft == Serial => (Spec => []PortsReleased)
<1>1. IInv => PortsReleased
  <2> SUFFICES ASSUME IInv, NEW g \in Reload, NEW k \in Server, run[g][k] = "new",
                      holder[k] # None
               PROVE  k \in Pair /\ \A h \in Reload : h = holder[k] => ~Counted(h, k)
    BY DEF PortsReleased
  <2>1. k \in Comp /\ holder[k] \in Reload
    BY DEF IInv, TypeOK, Comp
  <2>2. Counted(g, k) /\ g = era
    BY <2>1 DEF IInv, Generations, Counted
  <2>3. holder[k] # g
    BY DEF IInv, Ports
  <2>4. ~Counted(holder[k], k)
    BY <2>1, <2>2, <2>3 DEF IInv, Generations
  <2>5. k \in Pair
    BY <2>1, <2>4 DEF IInv, Ports, Counted
  <2>6. QED
    BY <2>4, <2>5
<1>2. QED
  BY Invariance, <1>1, PTL

\* A component that a reload has stopped never writes its status over one of
\* the generation that replaced it.
THEOREM NoLateWord == Serial => (Spec => []StatusCurrent)
<1>1. IInv => StatusCurrent
  BY DEF IInv, Authors, StatusCurrent
<1>2. QED
  BY Invariance, <1>1, PTL

\* A component that is shown as running has a goroutine, also after a reload
\* that failed half-way.
THEOREM ShownIsAlive == Serial => (Spec => []RunningIsAlive)
<1>1. IInv => RunningIsAlive
  BY DEF IInv, Alive, Working, RunningIsAlive, Counted
<1>2. QED
  BY Invariance, <1>1, PTL
=============================================================================
