------------------------------ MODULE Downmask ------------------------------
(***************************************************************************)
(* The accounts of downlink masking (reconcileDownmask of                  *)
(* internal/mask/mask.go and the downmask tables of                        *)
(* internal/store/store.go).                                               *)
(*                                                                         *)
(* Every minute the daemon reconciles: it reads the counters of an         *)
(* interface, adds what they grew by to the state of the day, and, when    *)
(* less was received than the ratio of the day asks for, pulls the         *)
(* difference from another host.  A day's ratio is drawn once and kept in  *)
(* a history.  `nwall downmask run` does the same in a process of its own. *)
(* State and history are written one after the other, a pull takes up to   *)
(* minutes, and a process may fail or be killed at any step.               *)
(*                                                                         *)
(* A pull is one over TCP, which reads what it asked for and no more.      *)
(* What UDP adds when packets are lost (the whole request is sent again)   *)
(* is in Masking.                                                          *)
(*                                                                         *)
(* Bytes, and seconds, are few.  A ratio is a number of ten-thousandths,   *)
(* to which the code rounds it; the bounds it is drawn between need not    *)
(* be.  Bytes sent are counted in ten thousands, those received one by     *)
(* one, so that what a ratio asks for is whole.  The policy stays what it  *)
(* is.                                                                     *)
(***************************************************************************)
EXTENDS Integers, FiniteSetsExt

CONSTANTS
  Proc,         \* the processes that reconcile: the daemon, `downmask run`
  Serial,       \* whether they do so one at a time
  Iface,        \* the interfaces
  Fine,         \* the parts of a ten-thousandth that bounds are counted in
  MinRatio, MaxRatio,                  \* min_ratio, max_ratio, in such parts
  MinDeficit, MaxRun,                  \* min_deficit_bytes, max_bytes_per_run
  WindowStart, WindowEnd,              \* time_window_start, time_window_end
  MaxJitter,    \* max_jitter_seconds
  Percent,      \* bytes_jitter_percent
  DayLength,    \* the seconds of a day
  MaxClock,     \* bound on the clock
  MaxBytes,     \* bound on the bytes there are, but for pulls
  Stray,        \* for each interface, bound on the bytes pulled for it before
                \* some arrive on another: 0 where the route to the targets is its own
  None          \* no state of the day, no entry of the history

ASSUME DownmaskAssumption ==
  /\ Serial \in BOOLEAN
  /\ Fine \in Nat \ {0}
  /\ Iface # {}
  /\ MinRatio \in Nat \ {0} /\ MaxRatio \in Nat /\ MinRatio <= MaxRatio
  /\ {MinDeficit, MaxRun, MaxJitter, Percent, MaxClock, MaxBytes} \subseteq Nat
  /\ Stray \in [Iface -> Nat]
  /\ DayLength \in Nat \ {0}
  /\ {WindowStart, WindowEnd} \subseteq 0 .. DayLength

Day == 0 .. MaxClock \div DayLength

\* round4: to the nearest ten-thousandth.
Round4(bound) == (2 * bound + Fine) \div (2 * Fine)

Ratio == Round4(MinRatio) .. Round4(MaxRatio)

VARIABLES
  clock,    \* the host's clock
  total,    \* bytes received and sent by an interface, ever
  base,     \* what of these its counters have forgotten
  day,      \* downmask_day_state
  history,  \* downmask_ratio_history
  pc,       \* the next step of a reconcile
  job,      \* what it has read and decided
  pulled,   \* history: bytes pulled for an interface, ever
  used      \* history: the ratios pulls were made for, by day

vars == <<clock, total, base, day, history, pc, job, pulled, used>>

Store == <<day, history>>
Link == <<total, base>>

\* The counters of an interface, and counts of bytes.
Bytes == [rx : Nat, tx : Nat]

\* A state of the day.  born and seen belong to no column: what the interface
\* had received and sent, ever, when the counting began and when it was last
\* read; nor do forgot and paid, what its counters had forgotten and what had
\* been pulled when it began.
State == [date : Day, iface : Iface, ratio : Ratio, previous : Ratio \cup {None},
          accum : Bytes, last : Bytes, next : Nat,
          born : Bytes, seen : Bytes, forgot : Bytes, paid : Nat]

\* An entry of the history.
Entry == [ratio : Ratio, previous : Ratio \cup {None}]

ASSUME NoneAssumption == None \notin Ratio /\ None \notin Entry /\ None \notin State

Job == [iface : Iface, raw : Bytes, date : Day, state : State \cup {None},
        write : {"nothing", "missing", "always"}, now : Nat, left : Nat,
        seen : Bytes, forgot : Bytes]

PC == {"idle", "tx", "load", "lookup", "saveDay", "saveHistory", "decide", "pull",
       "finish"}

TypeOK ==
  /\ clock \in 0 .. MaxClock
  /\ total \in [Iface -> Bytes] /\ base \in [Iface -> Bytes]
  /\ day \in State \cup {None}
  /\ history \in [Day -> Entry \cup {None}]
  /\ pc \in [Proc -> PC]
  /\ job \in [Proc -> Job]
  /\ pulled \in [Iface -> Nat]
  /\ used \in [Day -> SUBSET Ratio]

----------------------------------------------------------------------------
(* Helpers *)

Zero == [rx |-> 0, tx |-> 0]
Blank == [iface |-> CHOOSE i \in Iface : TRUE, raw |-> Zero, date |-> 0, state |-> None,
          write |-> "nothing", now |-> 0, left |-> 0, seen |-> Zero, forgot |-> Zero]
Today == clock \div DayLength
Busy == {p \in Proc : pc[p] # "idle"}

Goto(p, step) == pc' = [pc EXCEPT ![p] = step]

\* A reconcile is over, and what it knew forgotten.
Over(p) == Goto(p, "idle") /\ job' = [job EXCEPT ![p] = Blank]

\* inTimeWindow: a window may be open over midnight, or always.
InTimeWindow(now) ==
  LET t == now % DayLength IN
  \/ WindowStart = WindowEnd
  \/ WindowStart < WindowEnd /\ WindowStart <= t /\ t < WindowEnd
  \/ WindowStart > WindowEnd /\ (t >= WindowStart \/ t < WindowEnd)

\* What a counter grew by; one that is less than before began again at zero.
CounterDelta(current, previous) ==
  IF current >= previous THEN current - previous ELSE current

\* What was not received of what the ratio asks for.
ComputeDebt(ratio, accum) == Max({0, ratio * accum.tx - accum.rx})

\* A ratio that is the previous one is moved by a ten-thousandth: up or, above
\* the upper bound, down, but not below the lower.  A sum of floating point
\* that is the upper bound may come out above it.
AdjustRatio(value) ==
  LET up == value + 1
      down == IF Fine * (value - 1) < MinRatio THEN Round4(MinRatio) ELSE value - 1
  IN {r \in {up, down} : \/ r = up /\ MinRatio < MaxRatio /\ Fine * up <= MaxRatio
                         \/ r = down /\ MinRatio < MaxRatio /\ Fine * up >= MaxRatio}
     \cup (IF MinRatio = MaxRatio THEN {value} ELSE {})

\* Wrong: the previous ratio may be drawn again.
AnyRatio(previous) == Ratio

RandomRatios(previous) ==
  (Ratio \ {previous}) \cup (IF previous \in Ratio THEN AdjustRatio(previous) ELSE {})

\* What a pull of so many bytes may ask the other host for.
Wanted(planned) ==
  IF planned = 0 THEN {0}
  ELSE {Max({1, (planned * (100 + d) + 50) \div 100}) : d \in -Percent .. Percent}

\* A state of the day whose counting begins with the counters just read.
NewState(j, ratio, previous) ==
  [date |-> j.date, iface |-> j.iface, ratio |-> ratio, previous |-> previous,
   accum |-> Zero, last |-> j.raw, next |-> 0,
   born |-> j.seen, seen |-> j.seen, forgot |-> j.forgot, paid |-> pulled[j.iface]]

----------------------------------------------------------------------------
(* The host *)

Init ==
  /\ clock = 0
  /\ total = [i \in Iface |-> Zero] /\ base = [i \in Iface |-> Zero]
  /\ day = None
  /\ history = [d \in Day |-> None]
  /\ pc = [p \in Proc |-> "idle"]
  /\ job = [p \in Proc |-> Blank]
  /\ pulled = [i \in Iface |-> 0]
  /\ used = [d \in Day |-> {}]

Tick ==
  /\ clock < MaxClock
  /\ clock' = clock + 1
  /\ UNCHANGED <<Link, Store, pc, job, pulled, used>>

\* Traffic of others.
Traffic(i, way) ==
  /\ MapThenSumSet(LAMBDA k : total[k].rx + total[k].tx, Iface) < MaxBytes
  /\ total' = [total EXCEPT ![i] = [@ EXCEPT ![way] = total[i][way] + 1]]
  /\ UNCHANGED <<clock, base, Store, pc, job, pulled, used>>

\* The interface is made anew, or the host starts anew: once.
ResetCounters(i) ==
  /\ base[i] = Zero /\ total[i] # Zero
  /\ base' = [base EXCEPT ![i] = total[i]]
  /\ UNCHANGED <<clock, total, Store, pc, job, pulled, used>>

----------------------------------------------------------------------------
(* A reconcile *)

\* The policy is loaded and rx_bytes read, of the interface it names now or
\* the one of the default route.
Begin(p, i) ==
  /\ pc[p] = "idle"
  /\ Serial => Busy = {}
  /\ LET j == job[p] IN
     job' = [job EXCEPT ![p] = [j EXCEPT !.iface = i,
                                         !.raw = [j.raw EXCEPT !.rx = total[i].rx - base[i].rx],
                                         !.seen = [j.seen EXCEPT !.rx = total[i].rx],
                                         !.forgot = [j.forgot EXCEPT !.rx = base[i].rx]]]
  /\ Goto(p, "tx")
  /\ UNCHANGED <<clock, Link, Store, pulled, used>>

\* tx_bytes is read, a file of its own.
ReadTX(p) ==
  /\ pc[p] = "tx"
  /\ LET j == job[p]
         i == j.iface
     IN job' = [job EXCEPT ![p] = [j EXCEPT !.raw = [j.raw EXCEPT !.tx = total[i].tx - base[i].tx],
                                            !.seen = [j.seen EXCEPT !.tx = total[i].tx],
                                            !.forgot = [j.forgot EXCEPT !.tx = base[i].tx]]]
  /\ Goto(p, "load")
  /\ UNCHANGED <<clock, Link, Store, pulled, used>>

\* Wrong: what was counted is counted on from the counters of before.
AccumulateAgain(j, s) ==
  [s EXCEPT !.accum = [rx |-> @.rx + CounterDelta(j.raw.rx, s.last.rx),
                       tx |-> @.tx + CounterDelta(j.raw.tx, s.last.tx)],
            !.seen = j.seen]

\* prepareDayState, for a state of today: the growth of the counters is added.
Accumulate(j, s) ==
  [s EXCEPT !.accum = [rx |-> @.rx + CounterDelta(j.raw.rx, s.last.rx),
                       tx |-> @.tx + CounterDelta(j.raw.tx, s.last.tx)],
            !.last = j.raw, !.seen = j.seen]

\* prepareDayState loads the state.  It is kept if it is of today, of this
\* interface and of a ratio that was not rounded to nothing, and then the history is completed if today is missing.
LoadState(p) ==
  /\ pc[p] = "load"
  /\ IF day # None /\ day.date = Today /\ day.ratio > 0 /\ day.iface = job[p].iface
     THEN /\ job' = [job EXCEPT ![p] = [@ EXCEPT !.date = Today, !.write = "missing",
                                                 !.state = Accumulate(job[p], day)]]
          /\ Goto(p, "saveDay")
     ELSE /\ job' = [job EXCEPT ![p] = [@ EXCEPT !.date = Today, !.state = day]]
          /\ Goto(p, "lookup")
  /\ UNCHANGED <<clock, Link, Store, pulled, used>>

\* The ratio a new one must differ from: of the state, else of the history.
PreviousRatio(p) ==
  LET before == {d \in Day : d < job[p].date /\ history[d] # None} IN
  IF job[p].state # None /\ job[p].state.ratio > 0 THEN job[p].state.ratio
  ELSE IF before # {} THEN history[Max(before)].ratio
  ELSE None

\* A state of today is restored from the history, or a new day is begun.
Lookup(p) ==
  /\ pc[p] = "lookup"
  /\ LET h == history[job[p].date]
         previous == PreviousRatio(p)
     IN IF h # None
        THEN job' = [job EXCEPT ![p] = [@ EXCEPT !.state = NewState(job[p], h.ratio, h.previous),
                                                 !.write = "nothing"]]
        ELSE \E r \in RandomRatios(previous) :
               job' = [job EXCEPT ![p] = [@ EXCEPT !.state = NewState(job[p], r, previous),
                                                   !.write = "always"]]
  /\ Goto(p, "saveDay")
  /\ UNCHANGED <<clock, Link, Store, pulled, used>>

\* SaveDownmaskDayState: the whole row, whatever it held before.
SaveDay(p) ==
  /\ pc[p] = "saveDay"
  /\ day' = job[p].state
  /\ Goto(p, IF job[p].write = "nothing" THEN "decide" ELSE "saveHistory")
  /\ UNCHANGED <<clock, Link, history, job, pulled, used>>

\* Wrong: an entry that is missing stays missing.
SaveHistoryOnce(p) ==
  /\ pc[p] = "saveHistory"
  /\ LET s == job[p].state IN
     history' = IF job[p].write = "missing" THEN history
                ELSE [history EXCEPT ![s.date] = [ratio |-> s.ratio, previous |-> s.previous]]
  /\ Goto(p, "decide")
  /\ UNCHANGED <<clock, Link, day, job, pulled, used>>

\* SaveDownmaskRatioHistory, of a new day or of one that is missing; the 32
\* days it keeps are more than there are.
SaveHistory(p) ==
  /\ pc[p] = "saveHistory"
  /\ LET s == job[p].state IN
     history' = IF job[p].write = "missing" /\ history[s.date] # None THEN history
                ELSE [history EXCEPT ![s.date] = [ratio |-> s.ratio, previous |-> s.previous]]
  /\ Goto(p, "decide")
  /\ UNCHANGED <<clock, Link, day, job, pulled, used>>

\* Nothing is to be done now.
Skip(p) ==
  LET s == job[p].state IN
  /\ pc[p] = "decide"
  /\ \/ ~InTimeWindow(clock)
     \/ s.next > 0 /\ clock < s.next
     \/ ComputeDebt(s.ratio, s.accum) < MinDeficit
  /\ Goto(p, "finish")
  /\ UNCHANGED <<clock, Link, Store, job, pulled, used>>

\* The debt, but no more than max_bytes_per_run, is asked for, give or take
\* the jitter.
StartPull(p) ==
  LET s == job[p].state
      debt == ComputeDebt(s.ratio, s.accum)
      planned == IF MaxRun > 0 THEN Min({debt, MaxRun}) ELSE debt
  IN
  /\ pc[p] = "decide"
  /\ InTimeWindow(clock)
  /\ s.next = 0 \/ clock >= s.next
  /\ debt >= MinDeficit
  /\ \E wanted \in Wanted(planned) :
       job' = [job EXCEPT ![p] = [@ EXCEPT !.now = clock, !.left = wanted]]
  /\ used' = [used EXCEPT ![s.date] = @ \cup {s.ratio}]
  /\ Goto(p, "pull")
  /\ UNCHANGED <<clock, Link, Store, pulled>>

\* pullTCP: a byte arrives, until what was asked for has.  It is asked for by
\* the bytes of one interface and arrives on the one it is routed to.
PullByte(p, i) ==
  /\ pc[p] = "pull"
  /\ job[p].left > 0
  /\ i # job[p].iface => pulled[job[p].iface] < Stray[job[p].iface]
  /\ job' = [job EXCEPT ![p] = [@ EXCEPT !.left = job[p].left - 1]]
  /\ total' = [total EXCEPT ![i] = [@ EXCEPT !.rx = total[i].rx + 1]]
  /\ pulled' = [pulled EXCEPT ![job[p].iface] = pulled[job[p].iface] + 1]
  /\ UNCHANGED <<clock, base, Store, pc, used>>

\* Wrong: the counters are taken as read when the pull ends.
EndPullReads(p) ==
  /\ pc[p] = "pull"
  /\ LET i == job[p].iface IN
     \E jitter \in 0 .. MaxJitter :
       job' = [job EXCEPT ![p].state.next = job[p].now + jitter, ![p].left = 0,
                          ![p].state.last.rx = total[i].rx - base[i].rx]
  /\ Goto(p, "finish")
  /\ UNCHANGED <<clock, Link, Store, pulled, used>>

\* The pull ends, complete or not.  The next one may come no sooner than a
\* random time after this one began.
EndPull(p) ==
  /\ pc[p] = "pull"
  /\ \E jitter \in 0 .. MaxJitter :
       job' = [job EXCEPT ![p] = [@ EXCEPT !.state = [job[p].state EXCEPT !.next = job[p].now + jitter],
                                           !.left = 0]]
  /\ Goto(p, "finish")
  /\ UNCHANGED <<clock, Link, Store, pulled, used>>

\* The state is saved again, as it was read before the pull.
Finish(p) ==
  /\ pc[p] = "finish"
  /\ day' = job[p].state
  /\ Over(p)
  /\ UNCHANGED <<clock, Link, history, pulled, used>>

\* A step fails, or the process is killed before it.
Stop(p) ==
  /\ pc[p] # "idle"
  /\ Over(p)
  /\ UNCHANGED <<clock, Link, Store, pulled, used>>

----------------------------------------------------------------------------

Reconcile(p) ==
  \/ \E i \in Iface : Begin(p, i) \/ PullByte(p, i)
  \/ ReadTX(p) \/ LoadState(p) \/ Lookup(p) \/ SaveDay(p) \/ SaveHistory(p)
  \/ Skip(p) \/ StartPull(p) \/ EndPull(p) \/ Finish(p)
  \/ Stop(p)

Next ==
  \/ Tick
  \/ \E i \in Iface : (\E way \in {"rx", "tx"} : Traffic(i, way)) \/ ResetCounters(i)
  \/ \E p \in Proc : Reconcile(p)

Spec == Init /\ [][Next]_vars

----------------------------------------------------------------------------
(* Properties *)

\* No byte is counted twice, whatever restarts and changes of interface come
\* between; and none is lost while the counters forget nothing.
CountsOnce ==
  day # None =>
    \A way \in {"rx", "tx"} :
      LET grown == day.seen[way] - day.born[way] IN
      /\ day.accum[way] <= grown
      /\ base[day.iface][way] = day.forgot[way] => day.accum[way] = grown

\* A day has one ratio: pulls of a day are made for the same one, also after a
\* crash between the two writes and a change of the interface.
OneRatioADay == \A d \in Day : Cardinality(used[d]) <= 1

\* A ratio is not the one it was drawn against, if between the bounds there is
\* more than one step of rounding.  That one is the ratio last stored: of the
\* day before, or of the same day if a crash kept it from the history and the
\* interface has changed since.
RatioMoves ==
  day # None /\ Fine * (Round4(MinRatio) + 1) < MaxRatio => day.ratio # day.previous

\* Pulls that arrive on the interface accounted never make up for more than the
\* host sent: what a lost write forgets of a pull, the counters do not.
NoOverPull ==
  day # None /\ Stray[day.iface] = 0 /\ base[day.iface] = day.forgot =>
    pulled[day.iface] - day.paid <= Max(Wanted(day.ratio * (total[day.iface].tx - day.born.tx)))

\* All pulls for an interface, of every day and every state that was forgotten
\* between, make up for no more than was ever sent over it, while its counters
\* forget nothing and the pulls arrive on it; the half byte is what rounding
\* adds to a byte.
PaysOnce ==
  \A i \in Iface : Stray[i] = 0 /\ base[i] = Zero =>
    100 * pulled[i] <= (100 + Percent + 50) * (Round4(MaxRatio) * total[i].tx)
=============================================================================
