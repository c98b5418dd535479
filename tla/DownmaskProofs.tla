--------------------------- MODULE DownmaskProofs ---------------------------
(***************************************************************************)
(* Proofs about Downmask, for any interfaces, ratios, windows, jitters,    *)
(* restarts and failures: its types; and, when one process at a time       *)
(* reconciles, that a day has one ratio, that no byte is counted twice and *)
(* that pulls do not make up for more than was sent.                       *)
(***************************************************************************)
EXTENDS Downmask, FiniteSetTheorems, WellFoundedInduction, TLAPS

USE DownmaskAssumption

----------------------------------------------------------------------------
(* Numbers *)

LEMMA DivMonotone ==
  ASSUME NEW a \in Nat, NEW b \in Nat, NEW d \in Nat \ {0}, a <= b
  PROVE  a \div d \in Nat /\ a \div d <= b \div d
BY SMTT(30)

LEMMA MaxIs ==
  ASSUME NEW S \in SUBSET Int, NEW x \in S, \A y \in S : x >= y
  PROVE  Max(S) = x
<1> DEFINE P(m) == m \in S /\ \A y \in S : m >= y
<1>1. P(x)
  OBVIOUS
<1>2. Max(S) = CHOOSE m : P(m)
  BY Zenon DEF Max
<1>3. P(CHOOSE m : P(m))
  BY <1>1, Zenon
<1>4. Max(S) \in S /\ Max(S) >= x
  BY <1>2, <1>3
<1>5. x >= Max(S)
  BY <1>4
<1>6. Max(S) \in Int /\ x \in Int
  BY <1>4
<1>7. QED
  BY <1>4, <1>5, <1>6

LEMMA LeastNat ==
  ASSUME NEW T \in SUBSET Nat, T # {}
  PROVE  \E x \in T : \A y \in T : x <= y
<1>1. \E x \in T : \A y \in T : <<y, x>> \notin OpToRel(<, Nat)
  BY NatLessThanWellFounded, WFMin, Zenon
<1>2. \A x, y \in T : x < y => <<x, y>> \in OpToRel(<, Nat)
  BY Zenon DEF OpToRel
<1>3. \E x \in T : \A y \in T : ~(y < x)
  BY <1>1, <1>2, Zenon
<1>4. QED
  BY <1>3

LEMMA MaxOfInterval ==
  ASSUME NEW n \in Nat, NEW T \in SUBSET (0 .. n), T # {}
  PROVE  Max(T) \in T /\ \A y \in T : y <= Max(T)
<1> DEFINE D == {n - y : y \in T}
<1>1. PICK d \in D : \A e \in D : d <= e
  <2>1. \A y \in T : n - y \in Nat
    OBVIOUS
  <2> PICK y \in T : TRUE
    OBVIOUS
  <2>2. D \in SUBSET Nat /\ n - y \in D
    BY <2>1
  <2>3. QED
    BY <2>2, LeastNat
<1>2. PICK x \in T : d = n - x
  BY <1>1
<1>3. \A y \in T : x >= y
  <2>1. ASSUME NEW y \in T PROVE x >= y
    <3>1. d <= n - y
      BY <1>1
    <3>2. QED
      BY <1>2, <3>1
  <2>2. QED
    BY <2>1
<1>4. Max(T) = x
  BY <1>3, MaxIs
<1>5. QED
  BY <1>3, <1>4

LEMMA MaxOfTwo ==
  ASSUME NEW x \in Int, NEW y \in Int
  PROVE  Max({x, y}) = IF x >= y THEN x ELSE y
<1> DEFINE S == {x, y}
           m == IF x >= y THEN x ELSE y
<1>1. S \in SUBSET Int /\ m \in S /\ \A k \in S : m >= k
  OBVIOUS
<1>2. Max(S) = m
  <2> HIDE DEF S, m
  <2>1. QED
    BY <1>1, MaxIs
<1>3. QED
  BY <1>2

LEMMA MinOfTwo ==
  ASSUME NEW x \in Nat, NEW y \in Nat
  PROVE  Min({x, y}) \in Nat /\ Min({x, y}) <= x
<1> DEFINE S == {x, y}
           P(m) == m \in S /\ \A k \in S : m <= k
<1>1. P(IF x <= y THEN x ELSE y)
  OBVIOUS
<1>2. Min(S) = CHOOSE m : P(m)
  BY Zenon DEF Min
<1>3. P(CHOOSE m : P(m))
  BY <1>1, Zenon
<1>4. QED
  BY <1>2, <1>3

----------------------------------------------------------------------------
(* Ratios *)

\* There is more than one step of rounding between the bounds.
Room == Fine * (Round4(MinRatio) + 1) < MaxRatio

\* What rounds is the nearest.
LEMMA QuotientIs ==
  ASSUME NEW x \in Nat, NEW d \in Nat \ {0}, NEW q \in Nat, d * q <= x, x < d * (q + 1)
  PROVE  x \div d = q
<1>1. x \div d \in Int /\ d * (x \div d) <= x /\ x < d * ((x \div d) + 1)
  BY SMTT(30)
<1> DEFINE y == x \div d
<1> HIDE DEF y
<1>2. y \in Int /\ d * y <= x /\ x < d * (y + 1)
  BY <1>1 DEF y
<1>3. ~(y >= q + 1)
  BY <1>2, SMTT(30)
<1>4. ~(q >= y + 1)
  BY <1>2, SMTT(30)
<1>5. QED
  BY <1>2, <1>3, <1>4 DEF y

LEMMA Rounding ==
  /\ \A x \in Nat : Round4(x) \in Nat
  /\ \A x, y \in Nat : x <= y => Round4(x) <= Round4(y)
  /\ \A n \in Nat : Round4(Fine * n) = n
<1>1. \A x \in Nat : 2 * x + Fine \in Nat /\ 2 * Fine \in Nat \ {0}
  OBVIOUS
<1>2. ASSUME NEW x \in Nat, NEW y \in Nat, x <= y
      PROVE  Round4(x) \in Nat /\ Round4(x) <= Round4(y)
  <2>1. 2 * x + Fine <= 2 * y + Fine
    BY <1>2
  <2>2. QED
    BY <1>1, <2>1, DivMonotone DEF Round4
<1>3. ASSUME NEW n \in Nat PROVE Round4(Fine * n) = n
  <2>1. Fine * n \in Nat /\ 2 * (Fine * n) = (2 * Fine) * n
    BY SMTT(30)
  <2> DEFINE x == 2 * (Fine * n) + Fine
             d == 2 * Fine
  <2>2. x \in Nat /\ d \in Nat \ {0} /\ d * (n + 1) = d * n + d
    BY <2>1, SMTT(30)
  <2>3. d * n <= x /\ x < d * (n + 1)
    BY <2>1, <2>2
  <2> HIDE DEF x, d
  <2>4. x \div d = n
    BY <2>2, <2>3, QuotientIs
  <2>5. QED
    BY <2>4 DEF Round4, x, d
<1>4. QED
  BY <1>2, <1>3

LEMMA RoundsNear ==
  ASSUME NEW x \in Nat
  PROVE  x < Fine * (Round4(x) + 1)
<1> DEFINE a == 2 * x + Fine
           d == 2 * Fine
           y == a \div d
<1>1. a \in Nat /\ d \in Nat \ {0}
  OBVIOUS
<1>2. y \in Int /\ a < d * (y + 1)
  <2> HIDE DEF a, d
  <2>1. QED
    BY <1>1, SMTT(30)
<1> HIDE DEF y
<1>3. d * (y + 1) = 2 * (Fine * (y + 1)) /\ Fine * (y + 1) \in Int
  BY <1>2, SMTT(30)
<1> DEFINE z == Fine * (y + 1)
<1> HIDE DEF z
<1>4. z \in Int /\ 2 * x + Fine < 2 * z
  BY <1>2, <1>3 DEF z
<1>5. x < z
  BY <1>4
<1>6. QED
  BY <1>5 DEF z, y, Round4

LEMMA RatioIsNat ==
  ASSUME NEW r \in Ratio
  PROVE  r \in Nat /\ Round4(MinRatio) <= r /\ r <= Round4(MaxRatio)
BY Rounding DEF Ratio

\* A ratio drawn is one of the range, and not the previous one unless there is
\* no room.
LEMMA DrawnRatios ==
  ASSUME NEW previous \in Ratio \cup {None}
  PROVE  /\ RandomRatios(previous) \subseteq Ratio
         /\ Room => previous \notin RandomRatios(previous)
<1> DEFINE low == Round4(MinRatio)
           high == Round4(MaxRatio)
<1>1. low \in Nat /\ high \in Nat /\ low <= high
  BY Rounding
<1>2. ASSUME NEW r \in Ratio
      PROVE  AdjustRatio(r) \subseteq Ratio /\ (Room => r \notin AdjustRatio(r))
  <2>1. r \in Nat /\ low <= r /\ r <= high
    BY RatioIsNat
  <2>2. Fine * (r + 1) <= MaxRatio => r + 1 <= high
    <3>1. Fine * (r + 1) \in Nat /\ Round4(Fine * (r + 1)) = r + 1
      BY <2>1, Rounding, SMTT(30)
    <3>2. QED
      BY <3>1, Rounding
  <2> DEFINE down == IF Fine * (r - 1) < MinRatio THEN low ELSE r - 1
  <2>3. down \in Int /\ low <= down /\ down <= r
    <3>1. CASE Fine * (r - 1) < MinRatio
      BY <1>1, <2>1, <3>1
    <3>2. CASE ~(Fine * (r - 1) < MinRatio)
      <4>1. r - 1 \in Nat
        <5>1. r = 0 => Fine * (r - 1) < MinRatio
          BY <2>1
        <5>2. QED
          BY <2>1, <3>2, <5>1
      <4>2. Fine * (r - 1) \in Nat /\ Round4(Fine * (r - 1)) = r - 1
        BY <4>1, Rounding, SMTT(30)
      <4>3. low <= r - 1
        BY <3>2, <4>2, Rounding
      <4>4. QED
        BY <2>1, <3>2, <4>3
    <3>3. QED
      BY <3>1, <3>2
  <2>4. Room /\ down = r => Fine * (r + 1) < MaxRatio
    <3>1. down = r => r = low
      BY <2>1
    <3>2. QED
      BY <3>1 DEF Room
  <2> DEFINE up == r + 1
  <2>5. \A x \in AdjustRatio(r) :
          \/ x = up /\ Fine * up <= MaxRatio
          \/ x = down /\ Fine * up >= MaxRatio
          \/ x = r /\ MinRatio = MaxRatio
    BY Zenon DEF AdjustRatio
  <2>6. up \in Nat /\ up # r /\ low <= up /\ Fine * up \in Int
    <3>1. up \in Nat /\ up # r /\ low <= up
      BY <1>1, <2>1
    <3>2. \A x \in Nat : Fine * x \in Int
      OBVIOUS
    <3>3. QED
      BY <3>1, <3>2
  <2>7. Room => MinRatio # MaxRatio
    <3> SUFFICES ASSUME Room, MinRatio = MaxRatio PROVE FALSE
      OBVIOUS
    <3>1. MinRatio < Fine * (low + 1)
      BY RoundsNear
    <3>2. QED
      <4> DEFINE x == Fine * (low + 1)
      <4>1. x \in Int /\ MinRatio < x /\ x < MaxRatio
        BY <1>1, <3>1 DEF Room
      <4> HIDE DEF x
      <4>2. QED
        BY <4>1
  <2> HIDE DEF up, down, low, high
  <2>8. AdjustRatio(r) \subseteq low .. high
    BY <1>1, <2>1, <2>2, <2>3, <2>5, <2>6 DEF up
  <2>9. QED
    BY <2>1, <2>3, <2>4, <2>5, <2>6, <2>7, <2>8 DEF Ratio, low, high, up
<1>3. QED
  BY <1>2, NoneAssumption DEF RandomRatios

LEMMA DebtIsNat ==
  ASSUME NEW r \in Ratio, NEW a \in Bytes
  PROVE  /\ ComputeDebt(r, a) \in Nat
         /\ ComputeDebt(r, a) = IF r * a.tx >= a.rx THEN r * a.tx - a.rx ELSE 0
<1>1. r * a.tx - a.rx \in Int /\ a.rx \in Nat /\ r * a.tx \in Nat
  BY RatioIsNat DEF Bytes
<1>2. \A d \in Int : Max({0, d}) = IF 0 >= d THEN 0 ELSE d
  BY MaxOfTwo
<1>3. QED
  BY <1>1, <1>2 DEF ComputeDebt

LEMMA WantedIsNat ==
  ASSUME NEW planned \in Nat, NEW w \in Wanted(planned)
  PROVE  w \in Nat
<1>1. CASE planned = 0
  BY <1>1 DEF Wanted
<1>2. CASE planned # 0
  <2>1. PICK d \in -Percent .. Percent : w = Max({1, (planned * (100 + d) + 50) \div 100})
    BY <1>2, Zenon DEF Wanted
  <2>2. (planned * (100 + d) + 50) \div 100 \in Int
    OBVIOUS
  <2>3. \A x \in Int : Max({1, x}) \in Nat
    BY MaxOfTwo
  <2>4. QED
    BY <2>1, <2>2, <2>3, Zenon
<1>3. QED
  BY <1>1, <1>2

----------------------------------------------------------------------------
(* Types *)

Loaded == {"saveDay", "saveHistory", "decide", "pull", "finish"}

\* No counter forgets more than there was, and a state was read or drawn when
\* something is done with it.
TypeInv ==
  /\ TypeOK
  /\ \A i \in Iface, way \in {"rx", "tx"} : base[i][way] <= total[i][way]
  /\ \A p \in Proc : pc[p] \in Loaded => job[p].state \in State

Pulls(p) == \E i \in Iface : PullByte(p, i)

LEMMA TodayIsDay == clock \in 0 .. MaxClock => Today \in Day
  BY DivMonotone DEF Today, Day

LEMMA AccumulateType ==
  ASSUME NEW j \in Job, NEW s \in State
  PROVE  Accumulate(j, s) \in State
<1>1. \A m, n \in Nat : CounterDelta(m, n) \in Nat
  BY DEF CounterDelta
<1>2. {s.accum.rx, s.accum.tx, s.last.rx, s.last.tx, j.raw.rx, j.raw.tx} \subseteq Nat
  BY DEF State, Job, Bytes
<1>3. CounterDelta(j.raw.rx, s.last.rx) \in Nat /\ CounterDelta(j.raw.tx, s.last.tx) \in Nat
  BY <1>1, <1>2
<1>4. \A m, n \in Nat : m + n \in Nat
  OBVIOUS
<1>5. [rx |-> s.accum.rx + CounterDelta(j.raw.rx, s.last.rx),
       tx |-> s.accum.tx + CounterDelta(j.raw.tx, s.last.tx)] \in Bytes
  BY <1>2, <1>3, <1>4 DEF Bytes
<1>6. j.raw \in Bytes /\ j.seen \in Bytes
  BY DEF Job
<1>7. QED
  BY <1>5, <1>6 DEF Accumulate, State

LEMMA NewStateType ==
  ASSUME NEW j \in Job, NEW r \in Ratio, NEW previous \in Ratio \cup {None}, pulled \in [Iface -> Nat]
  PROVE  NewState(j, r, previous) \in State
  BY DEF NewState, Job, State, Bytes, Zero

LEMMA PreviousType ==
  ASSUME TypeOK, NEW p \in Proc
  PROVE  PreviousRatio(p) \in Ratio \cup {None}
<1> DEFINE before == {d \in Day : d < job[p].date /\ history[d] # None}
<1>1. job[p].state # None => job[p].state.ratio \in Ratio
  BY DEF TypeOK, Job, State
<1>2. ASSUME before # {} PROVE history[Max(before)].ratio \in Ratio
  <2>1. MaxClock \div DayLength \in Nat
    BY DivMonotone
  <2>2. Max(before) \in before
    BY <1>2, <2>1, MaxOfInterval DEF Day
  <2>3. QED
    BY <2>2 DEF TypeOK, Entry
<1>3. QED
  BY <1>1, <1>2, Zenon DEF PreviousRatio

LEMMA BytesWith ==
  ASSUME NEW b \in Bytes, NEW n \in Nat
  PROVE  [b EXCEPT !.rx = n] \in Bytes /\ [b EXCEPT !.tx = n] \in Bytes
  BY DEF Bytes

LEMMA BlankType == Blank \in Job
<1>1. Zero \in Bytes
  BY DEF Zero, Bytes
<1>2. 0 \in Day
  BY DivMonotone DEF Day
<1>3. (CHOOSE i \in Iface : TRUE) \in Iface
  OBVIOUS
<1> HIDE DownmaskAssumption
<1>4. QED
  BY <1>1, <1>2, <1>3 DEF Blank, Job

(* What each step does to the job of its process. *)

Sets(p, j) ==
  /\ job'[p] = j
  /\ job' \in [Proc -> Job]
  /\ \A q \in Proc \ {p} : job'[q] = job[q]

LEMMA SetsJob ==
  ASSUME job \in [Proc -> Job], NEW p \in Proc, NEW j \in Job, job' = [job EXCEPT ![p] = j]
  PROVE  Sets(p, j)
  BY DEF Sets

LEMMA BeginSets ==
  ASSUME TypeInv, NEW p \in Proc, NEW i \in Iface, Begin(p, i)
  PROVE  \E j \in Job :
           /\ Sets(p, j) /\ j.iface = i /\ j.state = job[p].state
           /\ j.raw.rx = total[i].rx - base[i].rx
           /\ j.seen.rx = total[i].rx /\ j.forgot.rx = base[i].rx
<1> DEFINE raw == [job[p].raw EXCEPT !.rx = total[i].rx - base[i].rx]
           seen == [job[p].seen EXCEPT !.rx = total[i].rx]
           forgot == [job[p].forgot EXCEPT !.rx = base[i].rx]
           j == [job[p] EXCEPT !.iface = i, !.raw = raw, !.seen = seen, !.forgot = forgot]
<1>1. job \in [Proc -> Job] /\ job[p] \in Job
  BY DEF TypeInv, TypeOK
<1>2. total[i].rx - base[i].rx \in Nat /\ total[i].rx \in Nat /\ base[i].rx \in Nat
  BY DEF TypeInv, TypeOK, Bytes
<1>3. /\ raw \in Bytes /\ seen \in Bytes /\ forgot \in Bytes
      /\ raw.rx = total[i].rx - base[i].rx /\ seen.rx = total[i].rx /\ forgot.rx = base[i].rx
  BY <1>1, <1>2, BytesWith DEF Job, Bytes
<1>4. j \in Job /\ j.iface = i /\ j.state = job[p].state
      /\ j.raw = raw /\ j.seen = seen /\ j.forgot = forgot
  <2> HIDE DEF raw, seen, forgot
  <2>1. QED
    BY <1>1, <1>3 DEF Job
<1>5. job' = [job EXCEPT ![p] = j]
  BY DEF Begin
<1>6. Sets(p, j)
  <2> HIDE DEF j
  <2>1. QED
    BY <1>1, <1>4, <1>5, SetsJob
<1> HIDE DEF j, raw, seen, forgot
<1>7. QED
  BY <1>3, <1>4, <1>6

LEMMA ReadTXSets ==
  ASSUME TypeInv, NEW p \in Proc, ReadTX(p)
  PROVE  \E j \in Job :
           LET i == job[p].iface IN
           /\ Sets(p, j) /\ j.iface = i /\ j.state = job[p].state
           /\ j.raw.rx = job[p].raw.rx /\ j.raw.tx = total[i].tx - base[i].tx
           /\ j.seen.rx = job[p].seen.rx /\ j.seen.tx = total[i].tx
           /\ j.forgot.rx = job[p].forgot.rx /\ j.forgot.tx = base[i].tx
<1> DEFINE i == job[p].iface
           raw == [job[p].raw EXCEPT !.tx = total[i].tx - base[i].tx]
           seen == [job[p].seen EXCEPT !.tx = total[i].tx]
           forgot == [job[p].forgot EXCEPT !.tx = base[i].tx]
           j == [job[p] EXCEPT !.raw = raw, !.seen = seen, !.forgot = forgot]
<1>1. job \in [Proc -> Job] /\ job[p] \in Job /\ i \in Iface
  BY DEF TypeInv, TypeOK, Job
<1>2. total[i].tx - base[i].tx \in Nat /\ total[i].tx \in Nat /\ base[i].tx \in Nat
  BY <1>1 DEF TypeInv, TypeOK, Bytes
<1>3. /\ raw \in Bytes /\ seen \in Bytes /\ forgot \in Bytes
      /\ raw.tx = total[i].tx - base[i].tx /\ seen.tx = total[i].tx /\ forgot.tx = base[i].tx
      /\ raw.rx = job[p].raw.rx /\ seen.rx = job[p].seen.rx /\ forgot.rx = job[p].forgot.rx
  BY <1>1, <1>2, BytesWith DEF Job, Bytes
<1>4. j \in Job /\ j.iface = i /\ j.state = job[p].state
      /\ j.raw = raw /\ j.seen = seen /\ j.forgot = forgot
  <2> HIDE DEF raw, seen, forgot
  <2>1. QED
    BY <1>1, <1>3 DEF Job
<1>5. job' = [job EXCEPT ![p] = j]
  BY DEF ReadTX
<1>6. Sets(p, j)
  <2> HIDE DEF j
  <2>1. QED
    BY <1>1, <1>4, <1>5, SetsJob
<1> HIDE DEF j, raw, seen, forgot
<1>7. QED
  BY <1>3, <1>4, <1>6

\* Steps that put a state into the job leave what was read in it.
Holds(p, j, d, s, w) ==
  /\ Sets(p, j)
  /\ j.date = d /\ j.state = s /\ j.write = w
  /\ j.iface = job[p].iface /\ j.raw = job[p].raw
  /\ j.seen = job[p].seen /\ j.forgot = job[p].forgot

LEMMA LoadSets ==
  ASSUME TypeInv, NEW p \in Proc, LoadState(p)
  PROVE  IF day # None /\ day.date = Today /\ day.ratio > 0 /\ day.iface = job[p].iface
         THEN /\ Accumulate(job[p], day) \in State
              /\ \E j \in Job : Holds(p, j, Today, Accumulate(job[p], day), "missing")
              /\ pc' = [pc EXCEPT ![p] = "saveDay"]
         ELSE /\ \E j \in Job : Holds(p, j, Today, day, job[p].write)
              /\ pc' = [pc EXCEPT ![p] = "lookup"]
<1>1. job \in [Proc -> Job] /\ job[p] \in Job /\ Today \in Day /\ day \in State \cup {None}
  BY TodayIsDay DEF TypeInv, TypeOK
<1>2. CASE day # None /\ day.date = Today /\ day.ratio > 0 /\ day.iface = job[p].iface
  <2> DEFINE s == Accumulate(job[p], day)
             j == [job[p] EXCEPT !.date = Today, !.write = "missing", !.state = s]
  <2>1. s \in State
    BY <1>1, <1>2, AccumulateType
  <2>2. job' = [job EXCEPT ![p] = j] /\ pc' = [pc EXCEPT ![p] = "saveDay"]
    BY <1>2 DEF LoadState, Goto
  <2> HIDE DEF s
  <2>3. /\ j \in Job /\ j.date = Today /\ j.state = s /\ j.write = "missing"
        /\ j.iface = job[p].iface /\ j.raw = job[p].raw
        /\ j.seen = job[p].seen /\ j.forgot = job[p].forgot
    BY <1>1, <2>1 DEF Job
  <2> HIDE DEF j
  <2>4. Sets(p, j)
    BY <1>1, <2>2, <2>3, SetsJob
  <2>5. Holds(p, j, Today, s, "missing")
    BY <2>3, <2>4 DEF Holds
  <2>6. QED
    BY <1>2, <2>1, <2>2, <2>3, <2>5 DEF s
<1>3. CASE ~(day # None /\ day.date = Today /\ day.ratio > 0 /\ day.iface = job[p].iface)
  <2> DEFINE j == [job[p] EXCEPT !.date = Today, !.state = day]
  <2>1. job' = [job EXCEPT ![p] = j] /\ pc' = [pc EXCEPT ![p] = "lookup"]
    BY <1>3 DEF LoadState, Goto
  <2>2. /\ j \in Job /\ j.date = Today /\ j.state = day /\ j.write = job[p].write
        /\ j.iface = job[p].iface /\ j.raw = job[p].raw
        /\ j.seen = job[p].seen /\ j.forgot = job[p].forgot
    BY <1>1 DEF Job
  <2> HIDE DEF j
  <2>3. Sets(p, j)
    BY <1>1, <2>1, <2>2, SetsJob
  <2>4. Holds(p, j, Today, day, job[p].write)
    BY <2>2, <2>3 DEF Holds
  <2>5. QED
    BY <1>3, <2>1, <2>2, <2>4
<1>4. QED
  BY <1>2, <1>3

LEMMA LookupSets ==
  ASSUME TypeInv, NEW p \in Proc, Lookup(p)
  PROVE  \E j \in Job, r \in Ratio, previous \in Ratio \cup {None} :
           LET d == job[p].date
               s == NewState(job[p], r, previous)
           IN \/ /\ history[d] # None /\ r = history[d].ratio /\ previous = history[d].previous
                 /\ Holds(p, j, d, s, "nothing")
              \/ /\ history[d] = None /\ r \in RandomRatios(previous)
                 /\ Holds(p, j, d, s, "always")
<1> DEFINE d == job[p].date
           h == history[d]
<1>1. job \in [Proc -> Job] /\ job[p] \in Job /\ d \in Day /\ pulled \in [Iface -> Nat]
  BY SMTT(30) DEF TypeInv, TypeOK, Job
<1>2. PICK r \in Ratio, previous \in Ratio \cup {None}, w \in {"nothing", "always"} :
        /\ \/ h # None /\ r = h.ratio /\ previous = h.previous /\ w = "nothing"
           \/ h = None /\ r \in RandomRatios(previous) /\ w = "always"
        /\ job' = [job EXCEPT ![p] = [@ EXCEPT !.state = NewState(job[p], r, previous),
                                               !.write = w]]
  <2>1. CASE h # None
    <3>1. h.ratio \in Ratio /\ h.previous \in Ratio \cup {None}
      BY <1>1, <2>1 DEF TypeInv, TypeOK, Entry
    <3>2. QED
      BY <2>1, <3>1 DEF Lookup
  <2>2. CASE h = None
    <3>1. PICK r \in RandomRatios(PreviousRatio(p)) :
            job' = [job EXCEPT ![p] = [@ EXCEPT !.state = NewState(job[p], r, PreviousRatio(p)),
                                                !.write = "always"]]
      BY <2>2 DEF Lookup
    <3>2. PreviousRatio(p) \in Ratio \cup {None} /\ r \in Ratio
      BY <3>1, PreviousType, DrawnRatios DEF TypeInv
    <3>3. QED
      BY <2>2, <3>1, <3>2
  <2>3. QED
    BY ZenonT(40), <2>1, <2>2
<1> DEFINE s == NewState(job[p], r, previous)
           j == [job[p] EXCEPT !.state = s, !.write = w]
<1>3. s \in State
  BY <1>1, NewStateType
<1>4. job' = [job EXCEPT ![p] = j]
  BY <1>2
<1> HIDE DEF s
<1>5. /\ j \in Job /\ j.date = d /\ j.state = s /\ j.write = w
      /\ j.iface = job[p].iface /\ j.raw = job[p].raw
      /\ j.seen = job[p].seen /\ j.forgot = job[p].forgot
  BY <1>1, <1>3 DEF Job
<1> HIDE DEF j
<1>6. Holds(p, j, d, s, w)
  BY <1>1, <1>4, <1>5, SetsJob DEF Holds
<1>7. QED
  BY <1>2, <1>5, <1>6 DEF s

LEMMA PullSets ==
  ASSUME TypeInv, NEW p \in Proc, NEW now \in Nat, NEW left \in Nat,
         job' = [job EXCEPT ![p] = [@ EXCEPT !.now = now, !.left = left]]
  PROVE  \E j \in Job : /\ Holds(p, j, job[p].date, job[p].state, job[p].write)
                        /\ j.left = left
<1> DEFINE j == [job[p] EXCEPT !.now = now, !.left = left]
<1>1. job \in [Proc -> Job] /\ job[p] \in Job
  BY DEF TypeInv, TypeOK
<1>2. /\ j \in Job /\ j.date = job[p].date /\ j.state = job[p].state /\ j.write = job[p].write
      /\ j.iface = job[p].iface /\ j.raw = job[p].raw
      /\ j.seen = job[p].seen /\ j.forgot = job[p].forgot /\ j.left = left
  BY <1>1 DEF Job
<1>3. job' = [job EXCEPT ![p] = j]
  OBVIOUS
<1> HIDE DEF j
<1>4. Holds(p, j, job[p].date, job[p].state, job[p].write)
  BY <1>1, <1>2, <1>3, SetsJob DEF Holds
<1>5. QED
  BY <1>2, <1>4

LEMMA StartPullSets ==
  ASSUME TypeInv, NEW p \in Proc, StartPull(p)
  PROVE  LET s == job[p].state
             debt == ComputeDebt(s.ratio, s.accum)
         IN /\ s \in State /\ debt \in Nat
            /\ \E j \in Job, planned \in Nat :
                 /\ planned <= debt
                 /\ Holds(p, j, job[p].date, s, job[p].write)
                 /\ j.left \in Wanted(planned)
<1> DEFINE s == job[p].state
           debt == ComputeDebt(s.ratio, s.accum)
           planned == IF MaxRun > 0 THEN Min({debt, MaxRun}) ELSE debt
<1>1. s \in State
  BY DEF StartPull, TypeInv, Loaded
<1>2. s.ratio \in Ratio /\ s.accum \in Bytes
  BY <1>1 DEF State
<1>3. debt \in Nat
  BY <1>2, DebtIsNat
<1>4. planned \in Nat /\ planned <= debt
  <2> HIDE DEF debt
  <2>1. QED
    BY <1>3, MinOfTwo
<1>5. PICK wanted \in Wanted(planned) :
        job' = [job EXCEPT ![p] = [@ EXCEPT !.now = clock, !.left = wanted]]
  BY Zenon DEF StartPull
<1>6. wanted \in Nat /\ clock \in Nat
  BY <1>4, <1>5, WantedIsNat DEF TypeInv, TypeOK
<1> HIDE DEF planned, debt
<1>7. \E j \in Job : Holds(p, j, job[p].date, s, job[p].write) /\ j.left = wanted
  BY <1>5, <1>6, PullSets
<1>8. QED
  BY <1>1, <1>3, <1>4, <1>5, <1>7 DEF debt

LEMMA PullByteSets ==
  ASSUME TypeInv, NEW p \in Proc, Pulls(p)
  PROVE  \E j \in Job : /\ Holds(p, j, job[p].date, job[p].state, job[p].write)
                        /\ j.left = job[p].left - 1
<1>1. job[p].now \in Nat /\ job[p].left - 1 \in Nat
  BY DEF Pulls, PullByte, TypeInv, TypeOK, Job
<1>2. job' = [job EXCEPT ![p] = [@ EXCEPT !.now = job[p].now, !.left = job[p].left - 1]]
  BY DEF Pulls, PullByte, TypeInv, TypeOK, Job
<1>3. QED
  BY <1>1, <1>2, PullSets

LEMMA OwnArrives ==
  ASSUME TypeInv, NEW p \in Proc, NEW i \in Iface, PullByte(p, i), Stray[job[p].iface] = 0
  PROVE  i = job[p].iface
  BY DEF PullByte, TypeInv, TypeOK, Job

LEMMA EndPullSets ==
  ASSUME TypeInv, NEW p \in Proc, EndPull(p)
  PROVE  \E j \in Job, n \in Nat :
           /\ job[p].state \in State
           /\ Holds(p, j, job[p].date, [job[p].state EXCEPT !.next = n], job[p].write)
<1>1. job \in [Proc -> Job] /\ job[p] \in Job /\ job[p].state \in State
  BY DEF EndPull, TypeInv, TypeOK, Loaded
<1>2. PICK jitter \in 0 .. MaxJitter :
        job' = [job EXCEPT ![p] = [@ EXCEPT !.state = [job[p].state EXCEPT !.next = job[p].now + jitter],
                                            !.left = 0]]
  BY DEF EndPull
<1> DEFINE n == job[p].now + jitter
           s == [job[p].state EXCEPT !.next = n]
           j == [job[p] EXCEPT !.state = s, !.left = 0]
<1>3. n \in Nat
  BY <1>1 DEF Job
<1>4. job' = [job EXCEPT ![p] = j]
  BY <1>2
<1> HIDE DEF n
<1>5. s \in State
  BY <1>1, <1>3 DEF State
<1> HIDE DEF s
<1>6. /\ j \in Job /\ j.date = job[p].date /\ j.state = s /\ j.write = job[p].write
      /\ j.iface = job[p].iface /\ j.raw = job[p].raw
      /\ j.seen = job[p].seen /\ j.forgot = job[p].forgot
  BY <1>1, <1>5 DEF Job
<1> HIDE DEF j
<1>7. Holds(p, j, job[p].date, s, job[p].write)
  BY <1>1, <1>4, <1>6, SetsJob DEF Holds
<1>8. QED
  BY <1>1, <1>3, <1>6, <1>7 DEF s

LEMMA TypeCmd ==
  ASSUME TypeInv, NEW p \in Proc, Reconcile(p)
  PROVE  TypeInv'
<1> USE DEF TypeInv, TypeOK, Goto, Over, Loaded, PC, Link, Store
<1>1. CASE \E i \in Iface : Begin(p, i)
  <2> PICK i \in Iface : Begin(p, i)
    BY <1>1
  <2>1. PICK j \in Job : Sets(p, j)
    BY BeginSets
  <2>2. QED
    BY <2>1 DEF Begin, Sets
<1>2. CASE ReadTX(p)
  <2>1. PICK j \in Job : Sets(p, j)
    BY <1>2, ReadTXSets
  <2>2. QED
    BY <1>2, <2>1 DEF ReadTX, Sets
<1>3. CASE LoadState(p)
  <2>1. PICK j \in Job : /\ Sets(p, j)
                         /\ \/ pc' = [pc EXCEPT ![p] = "lookup"]
                            \/ j.state \in State /\ pc' = [pc EXCEPT ![p] = "saveDay"]
    BY <1>3, LoadSets DEF Holds
  <2>2. QED
    BY <1>3, <2>1 DEF LoadState, Sets
<1>4. CASE Lookup(p)
  <2>1. PICK j \in Job, r \in Ratio, previous \in Ratio \cup {None} :
          Sets(p, j) /\ j.state = NewState(job[p], r, previous)
    BY <1>4, LookupSets DEF Holds
  <2>2. j.state \in State
    BY <2>1, NewStateType
  <2>3. QED
    BY <1>4, <2>1, <2>2 DEF Lookup, Sets
<1>5. CASE SaveDay(p)
  BY <1>5 DEF SaveDay
<1>6. CASE SaveHistory(p)
  <2>1. job[p].state \in State
    BY <1>6 DEF SaveHistory
  <2>2. [ratio |-> job[p].state.ratio, previous |-> job[p].state.previous] \in Entry
    BY <2>1 DEF Entry, State
  <2>3. history' \in [Day -> Entry \cup {None}]
    BY <1>6, <2>1, <2>2 DEF SaveHistory, State
  <2>4. QED
    BY <1>6, <2>3 DEF SaveHistory
<1>7. CASE Skip(p)
  BY <1>7 DEF Skip
<1>8. CASE StartPull(p)
  <2>1. PICK j \in Job : Sets(p, j) /\ j.state = job[p].state
    BY <1>8, StartPullSets DEF Holds
  <2>2. job[p].state \in State
    BY <1>8 DEF StartPull
  <2>3. job[p].state.ratio \in Ratio
    BY <2>2 DEF State
  <2>4. used' \in [Day -> SUBSET Ratio] /\ pc' = [pc EXCEPT ![p] = "pull"]
        /\ UNCHANGED <<clock, Link, Store, pulled>>
    BY <1>8, <2>3 DEF StartPull
  <2>5. QED
    BY <2>1, <2>2, <2>4 DEF Sets
<1>9. CASE Pulls(p)
  <2>1. PICK j \in Job : Sets(p, j) /\ j.state = job[p].state
    BY <1>9, PullByteSets DEF Holds
  <2>2. PICK k \in Iface : PullByte(p, k)
    BY <1>9 DEF Pulls
  <2> DEFINE b == [total[k] EXCEPT !.rx = total[k].rx + 1]
  <2>3. b \in Bytes /\ b.rx = total[k].rx + 1 /\ b.tx = total[k].tx /\ total[k].rx \in Nat
    BY <2>2 DEF Bytes
  <2>4. total' = [total EXCEPT ![k] = b] /\ base' = base
    BY <2>2 DEF PullByte
  <2> HIDE DEF b
  <2>5. total' \in [Iface -> Bytes]
        /\ \A i \in Iface, way \in {"rx", "tx"} : total'[i][way] >= total[i][way]
    <3>1. total' \in [Iface -> Bytes]
      BY <2>2, <2>3, <2>4
    <3>2. \A i \in Iface : total'[i] = IF i = k THEN b ELSE total[i]
      BY <2>2, <2>4
    <3>3. QED
      BY <2>3, <3>1, <3>2 DEF Bytes
  <2>6. \A i \in Iface, way \in {"rx", "tx"} : base'[i][way] <= total'[i][way]
    BY <2>4, <2>5 DEF Bytes
  <2>7. job[p].iface \in Iface
    BY DEF Job
  <2>8. pulled' \in [Iface -> Nat] /\ UNCHANGED <<clock, day, history, pc, used>>
    BY <2>2, <2>7 DEF PullByte
  <2>9. QED
    BY <2>1, <2>2, <2>4, <2>5, <2>6, <2>8 DEF PullByte, Sets
<1>10. CASE EndPull(p)
  <2>1. PICK j \in Job, n \in Nat :
          /\ job[p].state \in State
          /\ Holds(p, j, job[p].date, [job[p].state EXCEPT !.next = n], job[p].write)
    BY <1>10, EndPullSets, Zenon
  <2>2. [job[p].state EXCEPT !.next = n] \in State
    BY <2>1 DEF State
  <2>3. Sets(p, j) /\ j.state \in State
    BY <2>1, <2>2 DEF Holds
  <2>4. QED
    BY <1>10, <2>3 DEF EndPull, Sets
<1>11. CASE Finish(p) \/ Stop(p)
  BY <1>11, BlankType DEF Finish, Stop
<1>12. QED
  BY <1>1, <1>2, <1>3, <1>4, <1>5, <1>6, <1>7, <1>8, <1>9, <1>10, <1>11 DEF Reconcile, Pulls

\* Others' traffic only adds to what there was, and a reset forgets all of it.
LEMMA HostCounts ==
  ASSUME TypeInv, NEW i \in Iface,
         ResetCounters(i) \/ \E way \in {"rx", "tx"} : Traffic(i, way)
  PROVE  /\ total' \in [Iface -> Bytes] /\ base' \in [Iface -> Bytes]
         /\ \A k \in Iface, way \in {"rx", "tx"} :
              /\ total[k][way] <= total'[k][way]
              /\ base'[k][way] = base[k][way] \/ base'[k][way] = total'[k][way]
         /\ UNCHANGED <<clock, day, history, pc, job, pulled, used>>
<1> USE DEF TypeInv, TypeOK, Link, Store
<1>1. CASE ResetCounters(i)
  BY <1>1 DEF ResetCounters, Bytes
<1>2. ASSUME NEW w \in {"rx", "tx"}, Traffic(i, w)
      PROVE  /\ total' \in [Iface -> Bytes] /\ base' = base
             /\ \A k \in Iface, way \in {"rx", "tx"} : total[k][way] <= total'[k][way]
             /\ UNCHANGED <<clock, day, history, pc, job, pulled, used>>
  <2> DEFINE b == [total[i] EXCEPT ![w] = total[i][w] + 1]
  <2>1. b \in Bytes /\ \A way \in {"rx", "tx"} : total[i][way] <= b[way]
    BY DEF Bytes
  <2>2. total' = [total EXCEPT ![i] = b] /\ UNCHANGED <<clock, base, day, history, pc, job, pulled, used>>
    BY <1>2 DEF Traffic
  <2> HIDE DEF b
  <2>3. total' \in [Iface -> Bytes] /\ \A k \in Iface : total'[k] = IF k = i THEN b ELSE total[k]
    BY <2>1, <2>2
  <2>4. \A k \in Iface, way \in {"rx", "tx"} : total[k][way] <= total'[k][way]
    BY <2>1, <2>3 DEF Bytes
  <2>5. QED
    BY <2>2, <2>3, <2>4
<1>3. QED
  BY <1>1, <1>2

LEMMA TypeInit == Init => TypeInv
  BY BlankType, DivMonotone DEF Init, TypeInv, TypeOK, Loaded, PC, Bytes, Zero

LEMMA TypeStep == TypeInv /\ [Next]_vars => TypeInv'
<1> SUFFICES ASSUME TypeInv, [Next]_vars PROVE TypeInv'
  OBVIOUS
<1>1. CASE Tick
  BY <1>1 DEF Tick, TypeInv, TypeOK, Loaded, Link, Store
<1>2. ASSUME NEW i \in Iface,
             ResetCounters(i) \/ \E way \in {"rx", "tx"} : Traffic(i, way)
      PROVE  TypeInv'
  <2>1. /\ total' \in [Iface -> Bytes] /\ base' \in [Iface -> Bytes]
        /\ \A k \in Iface, way \in {"rx", "tx"} :
             /\ total[k][way] <= total'[k][way]
             /\ base'[k][way] = base[k][way] \/ base'[k][way] = total'[k][way]
        /\ UNCHANGED <<clock, day, history, pc, job, pulled, used>>
    BY <1>2, HostCounts
  <2>2. \A k \in Iface, way \in {"rx", "tx"} : base'[k][way] <= total'[k][way]
    <3>1. /\ total \in [Iface -> Bytes] /\ base \in [Iface -> Bytes]
          /\ \A k \in Iface, way \in {"rx", "tx"} : base[k][way] <= total[k][way]
      BY DEF TypeInv, TypeOK
    <3>2. \A k \in Iface, way \in {"rx", "tx"} :
            {total[k][way], total'[k][way], base[k][way]} \subseteq Nat
      BY <2>1, <3>1 DEF Bytes
    <3>3. QED
      BY <2>1, <3>1, <3>2
  <2>3. QED
    BY <2>1, <2>2 DEF TypeInv, TypeOK
<1>3. ASSUME NEW p \in Proc, Reconcile(p) PROVE TypeInv'
  BY <1>3, TypeCmd
<1>4. CASE UNCHANGED vars
  BY <1>4 DEF vars, TypeInv, TypeOK
<1>5. QED
  BY <1>1, <1>2, <1>3, <1>4 DEF Next

LEMMA TypeInductive == Spec => []TypeInv
  BY TypeInit, TypeStep, PTL DEF Spec

\* Every variable keeps its type: states of a day are written whole, counters
\* never fall below nothing, and a pull asks for a number of bytes.
THEOREM TypeCorrect == Spec => []TypeOK
<1>1. TypeInv => TypeOK
  BY DEF TypeInv
<1>2. QED
  BY <1>1, TypeInductive, PTL

----------------------------------------------------------------------------
(* A ratio moves *)

Moves(r) == Room => r.ratio # r.previous

MovesInv ==
  /\ TypeInv
  /\ \A d \in Day : history[d] # None => Moves(history[d])
  /\ day # None => Moves(day)
  /\ \A p \in Proc : pc[p] \in Loaded => Moves(job[p].state)

LEMMA MovesCmd ==
  ASSUME MovesInv, NEW p \in Proc, Reconcile(p)
  PROVE  MovesInv'
<1>1. TypeInv' /\ TypeInv
  BY TypeCmd DEF MovesInv
<1> SUFFICES /\ \A d \in Day : history'[d] # None => Moves(history'[d])
             /\ day' # None => Moves(day')
             /\ \A q \in Proc : pc'[q] \in Loaded => Moves(job'[q].state)
  BY <1>1 DEF MovesInv, Moves
<1> USE <1>1 DEF MovesInv, Goto, Over, Loaded, Link, Store
<1>2. pc \in [Proc -> PC] /\ job \in [Proc -> Job]
  BY DEF TypeInv, TypeOK
<1>3. CASE \E i \in Iface : Begin(p, i)
  <2> PICK i \in Iface : Begin(p, i)
    BY <1>3
  <2>1. PICK j \in Job : Sets(p, j)
    BY BeginSets
  <2>2. QED
    BY <1>2, <2>1 DEF Begin, Sets
<1>4. CASE ReadTX(p)
  <2>1. PICK j \in Job : Sets(p, j)
    BY <1>4, ReadTXSets
  <2>2. QED
    BY <1>2, <1>4, <2>1 DEF ReadTX, Sets
<1>5. CASE LoadState(p)
  <2>1. UNCHANGED <<day, history>>
    BY <1>5 DEF LoadState
  <2>2. CASE day # None /\ day.date = Today /\ day.ratio > 0 /\ day.iface = job[p].iface
    <3>1. PICK j \in Job : Sets(p, j) /\ j.state = Accumulate(job[p], day)
      BY <1>5, <2>2, LoadSets DEF Holds
    <3>2. day \in State
      BY <2>2 DEF TypeInv, TypeOK
    <3>3. j.state.ratio = day.ratio /\ j.state.previous = day.previous
      BY <3>1, <3>2 DEF Accumulate, State
    <3>4. QED
      BY <1>2, <1>5, <2>1, <2>2, <3>1, <3>3 DEF Sets, Moves, LoadState
  <2>3. CASE ~(day # None /\ day.date = Today /\ day.ratio > 0 /\ day.iface = job[p].iface)
    <3>1. pc' = [pc EXCEPT ![p] = "lookup"] /\ \E j \in Job : Sets(p, j)
      BY <1>5, <2>3, LoadSets DEF Holds
    <3>2. QED
      BY <1>2, <2>1, <3>1 DEF Sets
  <2>4. QED
    BY <2>2, <2>3
<1>6. CASE Lookup(p)
  <2>1. UNCHANGED <<day, history>> /\ pc' = [pc EXCEPT ![p] = "saveDay"]
    BY <1>6 DEF Lookup
  <2>2. PICK j \in Job, r \in Ratio, previous \in Ratio \cup {None} :
          /\ Sets(p, j) /\ j.state = NewState(job[p], r, previous)
          /\ \/ /\ history[job[p].date] # None
                /\ r = history[job[p].date].ratio /\ previous = history[job[p].date].previous
             \/ r \in RandomRatios(previous)
    BY <1>6, LookupSets DEF Holds
  <2>3. Room => r # previous
    <3>1. job[p].date \in Day
      BY <1>2 DEF Job
    <3>2. QED
      BY <2>2, <3>1, DrawnRatios DEF Moves
  <2>4. Moves(j.state)
    BY <2>2, <2>3 DEF NewState, Moves
  <2>5. QED
    BY <1>2, <2>1, <2>2, <2>4 DEF Sets
<1>7. CASE SaveDay(p)
  BY <1>2, <1>7 DEF SaveDay
<1>8. CASE SaveHistory(p)
  <2>1. job[p].state \in State /\ Moves(job[p].state)
    BY <1>8 DEF SaveHistory, TypeInv
  <2>2. \A d \in Day : history'[d] # None => Moves(history'[d])
    BY <1>8, <2>1 DEF SaveHistory, State, Moves, TypeInv, TypeOK
  <2>3. QED
    BY <1>2, <1>8, <2>2 DEF SaveHistory
<1>9. CASE Skip(p)
  BY <1>2, <1>9 DEF Skip
<1>10. CASE StartPull(p)
  <2>1. PICK j \in Job : Sets(p, j) /\ j.state = job[p].state
    BY <1>10, StartPullSets DEF Holds
  <2>2. QED
    BY <1>2, <1>10, <2>1 DEF StartPull, Sets
<1>11. CASE Pulls(p)
  <2>1. PICK j \in Job : Sets(p, j) /\ j.state = job[p].state
    BY <1>11, PullByteSets DEF Holds
  <2>2. QED
    BY <1>2, <1>11, <2>1 DEF Pulls, PullByte, Sets
<1>12. CASE EndPull(p)
  <2>1. PICK j \in Job, n \in Nat :
          /\ job[p].state \in State
          /\ Holds(p, j, job[p].date, [job[p].state EXCEPT !.next = n], job[p].write)
    BY <1>12, EndPullSets, Zenon
  <2>2. Sets(p, j) /\ j.state.ratio = job[p].state.ratio
        /\ j.state.previous = job[p].state.previous
    BY <2>1 DEF Holds, State
  <2>3. QED
    BY <1>2, <1>12, <2>2 DEF EndPull, Sets, Moves
<1>13. CASE Finish(p) \/ Stop(p)
  BY <1>2, <1>13 DEF Finish, Stop
<1>14. QED
  BY <1>3, <1>4, <1>5, <1>6, <1>7, <1>8, <1>9, <1>10, <1>11, <1>12, <1>13 DEF Reconcile, Pulls

\* What the clock and others' traffic leave alone.
LEMMA HostLeaves ==
  ASSUME TypeInv, [Next]_vars, ~\E p \in Proc : Reconcile(p)
  PROVE  /\ UNCHANGED <<day, history, pc, job, pulled, used>>
         /\ \A k \in Iface, way \in {"rx", "tx"} :
              /\ total[k][way] <= total'[k][way]
              /\ base'[k][way] = base[k][way] \/ base'[k][way] = total'[k][way]
<1>1. CASE Tick \/ UNCHANGED vars
  BY <1>1 DEF Tick, vars, Link, Store, TypeInv, TypeOK, Bytes
<1>2. ASSUME NEW i \in Iface, ResetCounters(i) \/ \E way \in {"rx", "tx"} : Traffic(i, way)
      PROVE  /\ UNCHANGED <<day, history, pc, job, pulled, used>>
             /\ \A k \in Iface, way \in {"rx", "tx"} :
                  /\ total[k][way] <= total'[k][way]
                  /\ base'[k][way] = base[k][way] \/ base'[k][way] = total'[k][way]
  BY <1>2, HostCounts
<1>3. QED
  BY <1>1, <1>2 DEF Next

\* A day's ratio is not the one it was drawn against, if there is more than one
\* step of rounding between the bounds: after restarts, changes of interface
\* and half written states too.
THEOREM RatiosDiffer == Spec => []RatioMoves
<1>1. Init => MovesInv
  BY TypeInit DEF Init, MovesInv, Loaded
<1>2. MovesInv /\ [Next]_vars => MovesInv'
  <2> SUFFICES ASSUME MovesInv, [Next]_vars PROVE MovesInv'
    OBVIOUS
  <2>1. ASSUME NEW p \in Proc, Reconcile(p) PROVE MovesInv'
    BY <2>1, MovesCmd
  <2>2. CASE ~\E p \in Proc : Reconcile(p)
    <3>1. UNCHANGED <<day, history, pc, job, pulled, used>>
      BY <2>2, HostLeaves DEF MovesInv
    <3>2. QED
      BY <3>1, TypeStep DEF MovesInv, Moves
  <2>3. QED
    BY <2>1, <2>2
<1>3. MovesInv => RatioMoves
  BY DEF MovesInv, Moves, Room, RatioMoves
<1>4. QED
  BY <1>1, <1>2, <1>3, PTL DEF Spec

----------------------------------------------------------------------------
(* One process at a time *)

AtMostOne == \A p, q \in Busy : p = q

LEMMA OneSteps ==
  ASSUME Serial, TypeInv, AtMostOne, NEW p \in Proc, Reconcile(p)
  PROVE  /\ \A q \in Proc \ {p} : pc[q] = "idle" /\ pc'[q] = "idle"
         /\ AtMostOne'
<1>1. CASE \E i \in Iface : Begin(p, i)
  BY <1>1 DEF Begin, Busy, Goto, AtMostOne, TypeInv, TypeOK
<1>2. CASE pc[p] # "idle" /\ \E step \in PC : Goto(p, step)
  BY <1>2 DEF Busy, Goto, AtMostOne, TypeInv, TypeOK
<1>3. CASE Pulls(p)
  BY <1>3 DEF Pulls, PullByte, Busy, AtMostOne, TypeInv, TypeOK
<1>4. QED
  BY <1>1, <1>2, <1>3
     DEF Reconcile, ReadTX, LoadState, Lookup, SaveDay, SaveHistory, Skip, StartPull, Pulls,
         EndPull, Finish, Stop, Over, Goto, PC, TypeInv, TypeOK

----------------------------------------------------------------------------
(* A day has one ratio *)

Agrees(s) == history[s.date] # None => history[s.date].ratio = s.ratio

\* The history is written before a pull is made for a ratio, and from what the
\* state of the day says; and it is not written again.
RatioOf(p) ==
  LET s == job[p].state IN
  /\ pc[p] \in Loaded => Agrees(s)
  /\ pc[p] \in {"saveHistory", "decide", "pull"} => day = s
  /\ pc[p] = "saveHistory" => job[p].write \in {"missing", "always"}
  /\ pc[p] \in {"saveDay", "saveHistory"} /\ job[p].write = "always" => history[s.date] = None
  /\ \/ pc[p] \in {"decide", "pull", "finish"}
     \/ pc[p] = "saveDay" /\ job[p].write = "nothing"
     => history[s.date] # None

RatioInv ==
  /\ TypeInv /\ AtMostOne
  /\ \A d \in Day : used[d] # {} => history[d] # None /\ used[d] = {history[d].ratio}
  /\ day # None => Agrees(day)
  /\ \A p \in Proc : RatioOf(p)

LEMMA RatioCmd ==
  ASSUME Serial, RatioInv, NEW p \in Proc, Reconcile(p)
  PROVE  RatioInv'
<1>1. TypeInv' /\ TypeInv
  BY TypeCmd DEF RatioInv
<1>2. AtMostOne' /\ \A q \in Proc \ {p} : pc'[q] = "idle"
  BY OneSteps DEF RatioInv
<1>3. \A q \in Proc \ {p} : RatioOf(q)'
  BY <1>2 DEF RatioOf, Loaded
<1> SUFFICES /\ \A d \in Day : used'[d] # {} => history'[d] # None /\ used'[d] = {history'[d].ratio}
             /\ day' # None => Agrees(day)'
             /\ RatioOf(p)'
  BY <1>1, <1>2, <1>3 DEF RatioInv
<1>4. pc \in [Proc -> PC] /\ job \in [Proc -> Job]
  BY <1>1 DEF TypeInv, TypeOK
<1> USE <1>4 DEF RatioInv, Goto, Over, Loaded, Link, Store
<1>5. CASE \E i \in Iface : Begin(p, i)
  BY <1>5 DEF Begin, Agrees, RatioOf
<1>6. CASE ReadTX(p)
  BY <1>6 DEF ReadTX, Agrees, RatioOf
<1>7. CASE LoadState(p)
  <2>1. UNCHANGED <<day, history, used>>
    BY <1>7 DEF LoadState
  <2>2. CASE day # None /\ day.date = Today /\ day.ratio > 0 /\ day.iface = job[p].iface
    <3>1. PICK j \in Job : Sets(p, j) /\ j.state = Accumulate(job[p], day) /\ j.write = "missing"
      BY <1>1, <1>7, <2>2, LoadSets DEF Holds
    <3>2. day \in State
      BY <1>1, <2>2 DEF TypeInv, TypeOK
    <3>3. j.state.ratio = day.ratio /\ j.state.date = day.date
      BY <3>1, <3>2 DEF Accumulate, State
    <3>4. pc' = [pc EXCEPT ![p] = "saveDay"]
      BY <1>7, <2>2 DEF LoadState
    <3>5. QED
      BY <2>1, <2>2, <3>1, <3>3, <3>4 DEF Sets, Agrees, RatioOf
  <2>3. CASE ~(day # None /\ day.date = Today /\ day.ratio > 0 /\ day.iface = job[p].iface)
    <3>1. pc' = [pc EXCEPT ![p] = "lookup"]
      BY <1>7, <2>3 DEF LoadState
    <3>2. QED
      BY <2>1, <3>1 DEF Agrees, RatioOf
  <2>4. QED
    BY <2>2, <2>3
<1>8. CASE Lookup(p)
  <2>1. UNCHANGED <<day, history, used>> /\ pc' = [pc EXCEPT ![p] = "saveDay"]
    BY <1>8 DEF Lookup
  <2>2. PICK j \in Job, r \in Ratio, previous \in Ratio \cup {None} :
          /\ Sets(p, j) /\ j.state = NewState(job[p], r, previous)
          /\ \/ /\ history[job[p].date] # None /\ r = history[job[p].date].ratio
                /\ j.write = "nothing"
             \/ history[job[p].date] = None /\ j.write = "always"
    BY <1>1, <1>8, LookupSets DEF Holds
  <2>3. j.state.ratio = r /\ j.state.date = job[p].date
    BY <2>2 DEF NewState
  <2>4. QED
    BY <2>1, <2>2, <2>3 DEF Sets, Agrees, RatioOf
<1>9. CASE SaveDay(p)
  <2>1. RatioOf(p) /\ job[p].write \in {"nothing", "missing", "always"}
    BY DEF Job
  <2>2. /\ pc[p] = "saveDay" /\ day' = job[p].state /\ UNCHANGED <<history, job, used>>
        /\ pc' = [pc EXCEPT ![p] = IF job[p].write = "nothing" THEN "decide" ELSE "saveHistory"]
    BY <1>9 DEF SaveDay
  <2>3. QED
    BY <2>1, <2>2 DEF Agrees, RatioOf
<1>10. CASE SaveHistory(p)
  <2> DEFINE s == job[p].state
             e == [ratio |-> s.ratio, previous |-> s.previous]
  <2>1. /\ pc[p] = "saveHistory" /\ UNCHANGED <<day, job, used>>
        /\ pc' = [pc EXCEPT ![p] = "decide"]
        /\ history' = IF job[p].write = "missing" /\ history[s.date] # None THEN history
                      ELSE [history EXCEPT ![s.date] = e]
    BY <1>10 DEF SaveHistory
  <2>2. s \in State /\ Agrees(s) /\ day = s /\ (job[p].write = "always" => history[s.date] = None)
        /\ job[p].write \in {"missing", "always"}
    BY <1>1, <2>1 DEF RatioOf, TypeInv
  <2>3. s.date \in Day /\ e \in Entry /\ e # None /\ e.ratio = s.ratio
    BY <2>2, NoneAssumption DEF State, Entry
  <2>4. history \in [Day -> Entry \cup {None}]
    BY <1>1 DEF TypeInv, TypeOK
  <2> HIDE DEF s, e
  <2>5. CASE history[s.date] # None
    BY <2>1, <2>2, <2>5 DEF Agrees, RatioOf, s
  <2>6. CASE history[s.date] = None
    <3>1. history' = [history EXCEPT ![s.date] = e]
      BY <2>1, <2>6
    <3>2. used[s.date] = {}
      BY <2>3, <2>6
    <3>3. \A d \in Day : d # s.date => history'[d] = history[d]
      BY <2>4, <3>1
    <3>4. history'[s.date] = e
      BY <2>3, <2>4, <3>1
    <3>5. \A d \in Day : used'[d] # {} => history'[d] # None /\ used'[d] = {history'[d].ratio}
      BY <2>1, <3>2, <3>3
    <3>6. day' = s /\ Agrees(day)'
      BY <2>1, <2>2, <2>3, <3>4 DEF Agrees
    <3>7. RatioOf(p)'
      BY <2>1, <2>2, <2>3, <3>4, <3>6 DEF Agrees, RatioOf, s
    <3>8. QED
      BY <3>5, <3>6, <3>7
  <2>7. QED
    BY <2>5, <2>6
<1>11. CASE Skip(p)
  BY <1>11 DEF Skip, Agrees, RatioOf
<1>12. CASE StartPull(p)
  <2>1. PICK j \in Job : Sets(p, j) /\ j.state = job[p].state
    BY <1>1, <1>12, StartPullSets DEF Holds
  <2>2. /\ pc[p] = "decide" /\ UNCHANGED <<day, history>> /\ pc' = [pc EXCEPT ![p] = "pull"]
        /\ used' = [used EXCEPT ![job[p].state.date] = @ \cup {job[p].state.ratio}]
    BY <1>12 DEF StartPull
  <2>3. job[p].state.date \in Day /\ used \in [Day -> SUBSET Ratio]
    BY <1>1, <2>2 DEF TypeInv, TypeOK, State
  <2>4. history[job[p].state.date] # None /\ history[job[p].state.date].ratio = job[p].state.ratio
    BY <2>2 DEF RatioOf, Agrees
  <2>5. \A d \in Day : used'[d] # {} => history'[d] # None /\ used'[d] = {history'[d].ratio}
    BY <2>2, <2>3, <2>4
  <2>6. RatioOf(p)'
    BY <2>1, <2>2, <2>4 DEF Sets, RatioOf, Agrees
  <2>7. QED
    BY <2>2, <2>5, <2>6 DEF Agrees
<1>13. CASE Pulls(p)
  <2>1. PICK j \in Job : Sets(p, j) /\ j.state = job[p].state
    BY <1>1, <1>13, PullByteSets DEF Holds
  <2>2. QED
    BY <1>13, <2>1 DEF Pulls, PullByte, Sets, Agrees, RatioOf
<1>14. CASE EndPull(p)
  <2>1. PICK j \in Job, n \in Nat :
          /\ job[p].state \in State
          /\ Holds(p, j, job[p].date, [job[p].state EXCEPT !.next = n], job[p].write)
    BY <1>1, <1>14, EndPullSets, Zenon
  <2>2. Sets(p, j) /\ j.state.ratio = job[p].state.ratio /\ j.state.date = job[p].state.date
    BY <2>1 DEF Holds, State
  <2>3. QED
    BY <1>14, <2>2 DEF EndPull, Sets, Agrees, RatioOf
<1>15. CASE Finish(p)
  BY <1>15 DEF Finish, Agrees, RatioOf
<1>16. CASE Stop(p)
  BY <1>16 DEF Stop, Agrees, RatioOf
<1>17. QED
  BY <1>5, <1>6, <1>7, <1>8, <1>9, <1>10, <1>11, <1>12, <1>13, <1>14, <1>15, <1>16 DEF Reconcile, Pulls

\* All pulls of a day are for one ratio, whatever is killed between the two
\* writes and however often the interface changes, if one process at a time
\* reconciles.
THEOREM DayKeepsRatio == Serial => (Spec => []OneRatioADay)
<1> SUFFICES ASSUME Serial PROVE Spec => []OneRatioADay
  OBVIOUS
<1>1. Init => RatioInv
  <2> SUFFICES ASSUME Init PROVE RatioInv
    OBVIOUS
  <2>1. AtMostOne /\ \A p \in Proc : RatioOf(p)
    BY DEF Init, AtMostOne, Busy, RatioOf, Loaded
  <2>2. day = None /\ \A d \in Day : used[d] = {}
    BY DEF Init
  <2>3. TypeInv
    BY TypeInit
  <2>4. \A d \in Day : used[d] # {} => history[d] # None /\ used[d] = {history[d].ratio}
    BY <2>2
  <2>5. day # None => Agrees(day)
    BY <2>2
  <2>6. QED
    BY <2>1, <2>3, <2>4, <2>5, Zenon DEF RatioInv
<1>2. RatioInv /\ [Next]_vars => RatioInv'
  <2> SUFFICES ASSUME RatioInv, [Next]_vars PROVE RatioInv'
    OBVIOUS
  <2>1. ASSUME NEW p \in Proc, Reconcile(p) PROVE RatioInv'
    BY <2>1, RatioCmd
  <2>2. CASE ~\E p \in Proc : Reconcile(p)
    <3>1. TypeInv' /\ UNCHANGED <<day, history, pc, job, pulled, used>>
      BY <2>2, HostLeaves, TypeStep DEF RatioInv
    <3>2. QED
      BY <3>1 DEF RatioInv, RatioOf, Agrees, AtMostOne, Busy
  <2>3. QED
    BY <2>1, <2>2
<1>3. RatioInv => OneRatioADay
  <2> SUFFICES ASSUME RatioInv, NEW d \in Day PROVE Cardinality(used[d]) <= 1
    BY DEF OneRatioADay
  <2>1. CASE used[d] = {}
    BY <2>1, FS_EmptySet
  <2>2. CASE used[d] = {history[d].ratio}
    <3>1. Cardinality(used[d]) = 1
      BY <2>2, FS_Singleton, Zenon
    <3>2. QED
      BY <3>1
  <2>3. QED
    BY <2>1, <2>2 DEF RatioInv
<1>4. QED
  BY <1>1, <1>2, <1>3, PTL DEF Spec

----------------------------------------------------------------------------
(* No byte is counted twice *)

Way == {"rx", "tx"}

\* Of a state, when interfaces have had T bytes and forgotten B of them: what
\* its last reading knew, and that its sum is what came since, all of it
\* unless the counters began again.
CountOf(s, w, T, B) ==
  LET knew == s.seen[w] - s.last[w]
      grown == s.seen[w] - s.born[w]
  IN
  /\ s.last[w] <= s.seen[w] /\ s.seen[w] <= T[s.iface][w]
  /\ s.born[w] <= s.seen[w]
  /\ s.forgot[w] <= knew
  /\ B[s.iface][w] = knew \/ B[s.iface][w] >= s.seen[w]
  /\ s.accum[w] <= grown
  /\ knew = s.forgot[w] => s.accum[w] = grown

\* Of a reading: it is one of this interface, later than that of state d.
ReadOf(j, d, w, T, B) ==
  /\ j.raw[w] + j.forgot[w] = j.seen[w]
  /\ j.seen[w] <= T[j.iface][w]
  /\ B[j.iface][w] = j.forgot[w] \/ B[j.iface][w] >= j.seen[w]
  /\ d # None /\ d.iface = j.iface
       => /\ d.seen[w] <= j.seen[w]
          /\ j.forgot[w] = d.seen[w] - d.last[w] \/ j.forgot[w] >= d.seen[w]

CountingOf(p) ==
  /\ pc[p] \in Loaded => \A w \in Way : CountOf(job[p].state, w, total, base)
  /\ pc[p] \in {"tx", "load", "lookup"} => ReadOf(job[p], day, "rx", total, base)
  /\ pc[p] \in {"load", "lookup"} => ReadOf(job[p], day, "tx", total, base)

CountInv ==
  /\ TypeInv /\ AtMostOne
  /\ day # None => \A w \in Way : CountOf(day, w, total, base)
  /\ \A p \in Proc : CountingOf(p)

\* Interfaces only ever have more, and forget nothing or all.
Later(T, B, T2, B2) ==
  \A i \in Iface, w \in Way :
    T[i][w] <= T2[i][w] /\ (B2[i][w] = B[i][w] \/ B2[i][w] = T2[i][w])

Links == [Iface -> Bytes]

LEMMA CountStays ==
  ASSUME NEW T \in Links, NEW B \in Links, NEW T2 \in Links, NEW B2 \in Links,
         Later(T, B, T2, B2), NEW s \in State, NEW w \in Way, CountOf(s, w, T, B)
  PROVE  CountOf(s, w, T2, B2)
<1> DEFINE i == s.iface
<1>1. i \in Iface
  BY DEF State
<1>2. {T[i][w], B[i][w], T2[i][w], B2[i][w]} \subseteq Nat
  BY <1>1 DEF Links, Bytes, Way
<1>3. {s.seen[w], s.last[w], s.born[w], s.forgot[w], s.accum[w]} \subseteq Nat
  BY DEF State, Bytes, Way
<1>4. T[i][w] <= T2[i][w] /\ (B2[i][w] = B[i][w] \/ B2[i][w] = T2[i][w])
  BY <1>1 DEF Later
<1>5. QED
  BY <1>2, <1>3, <1>4 DEF CountOf

LEMMA ReadStays ==
  ASSUME NEW T \in Links, NEW B \in Links, NEW T2 \in Links, NEW B2 \in Links,
         Later(T, B, T2, B2), NEW j \in Job, NEW d \in State \cup {None}, NEW w \in Way,
         ReadOf(j, d, w, T, B)
  PROVE  ReadOf(j, d, w, T2, B2)
<1> DEFINE i == j.iface
<1>1. i \in Iface
  BY DEF Job
<1>2. {T[i][w], B[i][w], T2[i][w], B2[i][w]} \subseteq Nat
  BY <1>1 DEF Links, Bytes, Way
<1>3. {j.raw[w], j.seen[w], j.forgot[w]} \subseteq Nat
  BY DEF Job, Bytes, Way
<1>4. T[i][w] <= T2[i][w] /\ (B2[i][w] = B[i][w] \/ B2[i][w] = T2[i][w])
  BY <1>1 DEF Later
<1>5. QED
  BY <1>2, <1>3, <1>4 DEF ReadOf

\* What is added is what came between two readings, or less.
LEMMA CountGoesOn ==
  ASSUME NEW T \in Links, NEW B \in Links, NEW j \in Job, NEW s \in State, NEW w \in Way,
         s.iface = j.iface, CountOf(s, w, T, B), ReadOf(j, s, w, T, B)
  PROVE  CountOf(Accumulate(j, s), w, T, B)
<1> DEFINE a == Accumulate(j, s)
           i == s.iface
           delta == CounterDelta(j.raw[w], s.last[w])
<1>1. {s.seen[w], s.last[w], s.born[w], s.forgot[w], s.accum[w]} \subseteq Nat
  BY DEF State, Bytes, Way
<1>2. {j.raw[w], j.seen[w], j.forgot[w], T[i][w], B[i][w]} \subseteq Nat
  BY DEF State, Job, Bytes, Way, Links
<1>3. /\ a.iface = i /\ a.born = s.born /\ a.forgot = s.forgot
      /\ a.last = j.raw /\ a.seen = j.seen /\ a.accum[w] = s.accum[w] + delta
  BY DEF Accumulate, State, Way
<1>4. s # None
  BY NoneAssumption
<1>5. CountOf(s, w, T, B) /\ ReadOf(j, s, w, T, B)
  OBVIOUS
<1> HIDE DEF a
<1>6. delta = IF j.raw[w] >= s.last[w] THEN j.raw[w] - s.last[w] ELSE j.raw[w]
  BY DEF CounterDelta
<1> HIDE DEF delta
<1>7. QED
  BY <1>1, <1>2, <1>3, <1>4, <1>5, <1>6 DEF CountOf, ReadOf, a

LEMMA CountBegins ==
  ASSUME NEW T \in Links, NEW B \in Links, NEW j \in Job, NEW d, NEW r, NEW previous,
         NEW w \in Way, ReadOf(j, d, w, T, B)
  PROVE  CountOf(NewState(j, r, previous), w, T, B)
<1> DEFINE s == NewState(j, r, previous)
<1>1. {j.raw[w], j.seen[w], j.forgot[w]} \subseteq Nat
  BY DEF Job, Bytes, Way
<1>2. /\ s.iface = j.iface /\ s.born = j.seen /\ s.forgot = j.forgot
      /\ s.last = j.raw /\ s.seen = j.seen /\ s.accum[w] = 0
  BY DEF NewState, Zero, Way
<1>3. {T[j.iface][w], B[j.iface][w]} \subseteq Nat
  BY DEF Job, Bytes, Way, Links
<1> HIDE DEF s
<1>4. QED
  BY <1>1, <1>2, <1>3 DEF CountOf, ReadOf, s

LEMMA CountReads ==
  ASSUME NEW T \in Links, NEW B \in Links, NEW j \in Job, NEW d \in State \cup {None},
         NEW w \in Way, d # None => CountOf(d, w, T, B), B[j.iface][w] <= T[j.iface][w],
         j.raw[w] = T[j.iface][w] - B[j.iface][w],
         j.seen[w] = T[j.iface][w], j.forgot[w] = B[j.iface][w]
  PROVE  ReadOf(j, d, w, T, B)
<1>1. {T[j.iface][w], B[j.iface][w]} \subseteq Nat
  BY DEF Job, Bytes, Way, Links
<1>2. QED
  BY <1>1 DEF CountOf, ReadOf

LEMMA CountCmd ==
  ASSUME Serial, CountInv, NEW p \in Proc, Reconcile(p)
  PROVE  CountInv'
<1>1. TypeInv' /\ TypeInv
  BY TypeCmd DEF CountInv
<1>2. AtMostOne' /\ \A q \in Proc \ {p} : pc'[q] = "idle"
  BY OneSteps DEF CountInv
<1>3. \A q \in Proc \ {p} : CountingOf(q)'
  BY <1>2 DEF CountingOf, Loaded
<1> SUFFICES /\ day' # None => \A w \in Way : CountOf(day', w, total', base')
             /\ CountingOf(p)'
  BY <1>1, <1>2, <1>3 DEF CountInv
<1>4. /\ pc \in [Proc -> PC] /\ job \in [Proc -> Job] /\ day \in State \cup {None}
      /\ total \in Links /\ base \in Links /\ total' \in Links /\ base' \in Links
      /\ \A i \in Iface, w \in Way : base[i][w] <= total[i][w]
      /\ "rx" \in Way /\ "tx" \in Way
  BY <1>1 DEF TypeInv, TypeOK, Links, Way
<1>5. /\ day # None => \A w \in Way : CountOf(day, w, total, base)
      /\ CountingOf(p)
  BY DEF CountInv
<1> USE <1>4 DEF Goto, Over
<1>6. CASE \E i \in Iface : Begin(p, i)
  <2> PICK i \in Iface : Begin(p, i)
    BY <1>6
  <2>1. PICK j \in Job :
          /\ Sets(p, j) /\ j.iface = i /\ j.raw.rx = total[i].rx - base[i].rx
          /\ j.seen.rx = total[i].rx /\ j.forgot.rx = base[i].rx
    BY <1>1, BeginSets
  <2>2. ReadOf(j, day, "rx", total, base)
    BY <1>5, <2>1, CountReads
  <2>3. pc' = [pc EXCEPT ![p] = "tx"] /\ UNCHANGED <<total, base, day>>
    BY DEF Begin, Link, Store
  <2>4. QED
    BY <1>5, <2>1, <2>2, <2>3 DEF Sets, CountingOf, Loaded
<1>7. CASE ReadTX(p)
  <2> DEFINE i == job[p].iface
  <2>1. PICK j \in Job :
          /\ Sets(p, j) /\ j.iface = i
          /\ j.raw.rx = job[p].raw.rx /\ j.raw.tx = total[i].tx - base[i].tx
          /\ j.seen.rx = job[p].seen.rx /\ j.seen.tx = total[i].tx
          /\ j.forgot.rx = job[p].forgot.rx /\ j.forgot.tx = base[i].tx
    BY <1>1, <1>7, ReadTXSets
  <2>2. pc[p] = "tx" /\ pc' = [pc EXCEPT ![p] = "load"] /\ UNCHANGED <<total, base, day>>
    BY <1>7 DEF ReadTX, Link, Store
  <2>3. i \in Iface
    BY DEF Job
  <2>4. ReadOf(j, day, "tx", total, base)
    BY <1>5, <2>1, <2>3, CountReads
  <2>5. ReadOf(j, day, "rx", total, base)
    BY <1>5, <2>1, <2>2 DEF CountingOf, ReadOf
  <2>6. QED
    BY <1>5, <2>1, <2>2, <2>4, <2>5 DEF Sets, CountingOf, Loaded
<1>8. CASE LoadState(p)
  <2>1. pc[p] = "load" /\ UNCHANGED <<total, base, day>>
    BY <1>8 DEF LoadState, Link, Store
  <2>2. \A w \in Way : ReadOf(job[p], day, w, total, base)
    BY <1>5, <2>1 DEF CountingOf, Way
  <2>3. CASE day # None /\ day.date = Today /\ day.ratio > 0 /\ day.iface = job[p].iface
    <3>1. PICK j \in Job : Sets(p, j) /\ j.state = Accumulate(job[p], day)
      BY <1>1, <1>8, <2>3, LoadSets DEF Holds
    <3>2. \A w \in Way : CountOf(j.state, w, total, base)
      BY <1>5, <2>2, <2>3, <3>1, CountGoesOn
    <3>3. pc' = [pc EXCEPT ![p] = "saveDay"]
      BY <1>8, <2>3 DEF LoadState
    <3>4. QED
      BY <1>5, <2>1, <3>1, <3>2, <3>3 DEF Sets, CountingOf
  <2>4. CASE ~(day # None /\ day.date = Today /\ day.ratio > 0 /\ day.iface = job[p].iface)
    <3>1. PICK j \in Job : Holds(p, j, Today, day, job[p].write)
      BY <1>1, <1>8, <2>4, LoadSets
    <3>2. \A w \in Way : ReadOf(j, day, w, total, base)
      BY <2>2, <3>1 DEF Holds, ReadOf
    <3>3. pc' = [pc EXCEPT ![p] = "lookup"]
      BY <1>8, <2>4 DEF LoadState
    <3>4. QED
      BY <1>5, <2>1, <3>1, <3>2, <3>3 DEF Holds, Sets, CountingOf, Loaded
  <2>5. QED
    BY <2>3, <2>4
<1>9. CASE Lookup(p)
  <2>1. /\ pc[p] = "lookup" /\ UNCHANGED <<total, base, day>>
        /\ pc' = [pc EXCEPT ![p] = "saveDay"]
    BY <1>9 DEF Lookup, Link, Store
  <2>2. PICK j \in Job, r \in Ratio, previous \in Ratio \cup {None} :
          Sets(p, j) /\ j.state = NewState(job[p], r, previous)
    BY <1>1, <1>9, LookupSets DEF Holds
  <2>3. \A w \in Way : ReadOf(job[p], day, w, total, base)
    BY <1>5, <2>1 DEF CountingOf, Way
  <2>4. \A w \in Way : CountOf(j.state, w, total, base)
    BY <2>2, <2>3, CountBegins
  <2>5. QED
    BY <1>5, <2>1, <2>2, <2>4 DEF Sets, CountingOf
<1>10. CASE SaveDay(p) \/ Finish(p)
  <2>1. pc[p] \in Loaded /\ day' = job[p].state /\ UNCHANGED <<total, base>>
    BY <1>10 DEF SaveDay, Finish, Loaded, Link
  <2>2. \A w \in Way : CountOf(day', w, total', base')
    BY <1>5, <2>1 DEF CountingOf
  <2>3. CASE SaveDay(p)
    BY <1>5, <2>1, <2>2, <2>3 DEF SaveDay, CountingOf, Loaded
  <2>4. CASE Finish(p)
    BY <2>2, <2>4 DEF Finish, CountingOf, Loaded
  <2>5. QED
    BY <1>10, <2>3, <2>4
<1>11. CASE SaveHistory(p)
  BY <1>5, <1>11 DEF SaveHistory, CountingOf, Loaded, Link
<1>12. CASE Skip(p)
  BY <1>5, <1>12 DEF Skip, CountingOf, Loaded, Link, Store
<1>13. CASE StartPull(p)
  <2>1. PICK j \in Job : Sets(p, j) /\ j.state = job[p].state
    BY <1>1, <1>13, StartPullSets DEF Holds
  <2>2. QED
    BY <1>5, <1>13, <2>1 DEF StartPull, Sets, CountingOf, Loaded, Link, Store
<1>14. CASE Pulls(p)
  <2>1. PICK j \in Job : Sets(p, j) /\ j.state = job[p].state
    BY <1>1, <1>14, PullByteSets DEF Holds
  <2>2. pc[p] = "pull" /\ pc'[p] = "pull" /\ base' = base /\ day' = day
    BY <1>14 DEF Pulls, PullByte, Store
  <2>3. Later(total, base, total', base')
    <3>0. PICK k \in Iface : PullByte(p, k)
      BY <1>14 DEF Pulls
    <3> DEFINE b == [total[k] EXCEPT !.rx = total[k].rx + 1]
    <3>1. total' = [total EXCEPT ![k] = b]
      BY <3>0 DEF PullByte
    <3>2. total[k] \in Bytes
      BY DEF Links
    <3>3. \A w \in Way : total[k][w] <= b[w]
      BY <3>2 DEF Bytes, Way
    <3> HIDE DEF b
    <3>4. \A i \in Iface : total'[i] = IF i = k THEN b ELSE total[i]
      BY <3>1, <3>2 DEF Links
    <3>5. \A i \in Iface, w \in Way : total[i][w] <= total'[i][w]
      BY <3>3, <3>4 DEF Links, Bytes, Way
    <3>6. QED
      BY <2>2, <3>5 DEF Later
  <2>4. job[p].state \in State
    BY <1>1, <2>2 DEF TypeInv, Loaded
  <2>5. \A w \in Way : CountOf(job[p].state, w, total', base')
    BY <1>5, <2>2, <2>3, <2>4, CountStays DEF CountingOf, Loaded
  <2>6. day # None => \A w \in Way : CountOf(day, w, total', base')
    BY <1>5, <2>3, CountStays
  <2>7. QED
    BY <2>1, <2>2, <2>5, <2>6 DEF Sets, CountingOf
<1>15. CASE EndPull(p)
  <2>1. PICK j \in Job, n \in Nat :
          /\ job[p].state \in State
          /\ Holds(p, j, job[p].date, [job[p].state EXCEPT !.next = n], job[p].write)
    BY <1>1, <1>15, EndPullSets, Zenon
  <2>2. /\ j.state.iface = job[p].state.iface /\ j.state.accum = job[p].state.accum
        /\ j.state.last = job[p].state.last /\ j.state.seen = job[p].state.seen
        /\ j.state.born = job[p].state.born /\ j.state.forgot = job[p].state.forgot
    BY <2>1 DEF Holds, State
  <2>3. pc[p] = "pull" /\ pc'[p] = "finish" /\ UNCHANGED <<total, base, day>>
    BY <1>15 DEF EndPull, Link, Store
  <2>4. \A w \in Way : CountOf(j.state, w, total, base)
    BY <1>5, <2>2, <2>3 DEF CountingOf, Loaded, CountOf
  <2>5. QED
    BY <1>5, <2>1, <2>3, <2>4 DEF Holds, Sets, CountingOf
<1>16. CASE Stop(p)
  BY <1>5, <1>16 DEF Stop, CountingOf, Loaded, Link, Store
<1>17. QED
  BY <1>6, <1>7, <1>8, <1>9, <1>10, <1>11, <1>12, <1>13, <1>14, <1>15, <1>16 DEF Reconcile, Pulls

LEMMA CountInductive == Serial => (Spec => []CountInv)
<1> SUFFICES ASSUME Serial PROVE Spec => []CountInv
  OBVIOUS
<1>1. Init => CountInv
  BY TypeInit DEF Init, CountInv, CountingOf, AtMostOne, Busy, Loaded
<1>2. CountInv /\ [Next]_vars => CountInv'
  <2> SUFFICES ASSUME CountInv, [Next]_vars PROVE CountInv'
    OBVIOUS
  <2>1. ASSUME NEW p \in Proc, Reconcile(p) PROVE CountInv'
    BY <2>1, CountCmd
  <2>2. CASE ~\E p \in Proc : Reconcile(p)
    <3>1. TypeInv /\ TypeInv' /\ UNCHANGED <<day, history, pc, job, pulled, used>>
      BY <2>2, HostLeaves, TypeStep DEF CountInv
    <3>2. Later(total, base, total', base')
      BY <2>2, HostLeaves DEF CountInv, Later, Way
    <3>3. /\ total \in Links /\ base \in Links /\ total' \in Links /\ base' \in Links
          /\ day \in State \cup {None} /\ job \in [Proc -> Job]
          /\ "rx" \in Way /\ "tx" \in Way
      BY <3>1 DEF TypeInv, TypeOK, Links, Way
    <3>4. day' # None => \A w \in Way : CountOf(day', w, total', base')
      BY <3>1, <3>2, <3>3, CountStays DEF CountInv
    <3>5. ASSUME NEW p \in Proc PROVE CountingOf(p)'
      <4>1. CountingOf(p) /\ (pc[p] \in Loaded => job[p].state \in State)
        BY <3>1 DEF CountInv, TypeInv
      <4>2. pc[p] \in Loaded => \A w \in Way : CountOf(job[p].state, w, total', base')
        BY <3>2, <3>3, <4>1, CountStays DEF CountingOf
      <4>3. /\ pc[p] \in {"tx", "load", "lookup"} => ReadOf(job[p], day, "rx", total', base')
            /\ pc[p] \in {"load", "lookup"} => ReadOf(job[p], day, "tx", total', base')
        BY <3>2, <3>3, <4>1, ReadStays DEF CountingOf
      <4>4. QED
        BY <3>1, <4>2, <4>3 DEF CountingOf
    <3>6. QED
      BY <3>1, <3>4, <3>5 DEF CountInv, AtMostOne, Busy
  <2>3. QED
    BY <2>1, <2>2
<1>3. QED
  BY <1>1, <1>2, PTL DEF Spec

\* What a day counts is what the interface carried since its counting began,
\* while its counters forget nothing, and never more: over crashes, restarts,
\* counters that begin again and interfaces that change, if one process at a
\* time reconciles.
THEOREM BytesCountOnce == Serial => (Spec => []CountsOnce)
<1>1. CountInv => CountsOnce
  <2> SUFFICES ASSUME CountInv, day # None, NEW w \in Way
               PROVE  LET grown == day.seen[w] - day.born[w] IN
                      /\ day.accum[w] <= grown
                      /\ base[day.iface][w] = day.forgot[w] => day.accum[w] = grown
    BY DEF CountsOnce, Way
  <2>1. day \in State /\ base \in Links /\ CountOf(day, w, total, base)
    BY DEF CountInv, TypeInv, TypeOK, Links
  <2>2. /\ {day.seen[w], day.last[w], day.born[w], day.forgot[w], day.accum[w]} \subseteq Nat
        /\ base[day.iface][w] \in Nat
    BY <2>1 DEF State, Bytes, Way, Links
  <2>3. QED
    BY <2>1, <2>2 DEF CountOf
<1>2. QED
  BY <1>1, CountInductive, PTL

----------------------------------------------------------------------------
(* Pulls do not make up for more than was sent *)

\* The most a pull of n bytes asks for.
Most(n) == (n * (100 + Percent) + 50) \div 100

LEMMA RoundsUp ==
  ASSUME NEW a \in Int, NEW b \in Int, NEW c \in Int, a + 100 * c <= b
  PROVE  a \div 100 \in Int /\ a \div 100 + c <= b \div 100
BY SMTT(30)

LEMMA MostIsMost ==
  ASSUME NEW n \in Nat
  PROVE  Most(n) \in Nat /\ n <= Most(n) /\ Max(Wanted(n)) = Most(n)
         /\ \A w \in Wanted(n) : w <= Most(n)
<1> DEFINE Asked(d) == (n * (100 + d) + 50) \div 100
<1>1. Most(n) = Asked(Percent) /\ Percent \in Nat
  BY DEF Most
<1>2. \A d \in -Percent .. Percent : Asked(d) \in Int /\ Asked(d) <= Asked(Percent)
  <2> SUFFICES ASSUME NEW d \in -Percent .. Percent
               PROVE  Asked(d) \in Int /\ Asked(d) <= Asked(Percent)
    OBVIOUS
  <2>1. n * (100 + d) + 50 \in Int /\ n * (100 + Percent) + 50 \in Int
    OBVIOUS
  <2>2. n * d <= n * Percent
    OBVIOUS
  <2> DEFINE a == n * (100 + d) + 50
             b == n * (100 + Percent) + 50
  <2>3. a \in Int /\ b \in Int /\ 0 \in Int /\ a + 100 * 0 <= b
    BY <2>1, <2>2
  <2> HIDE DEF a, b
  <2>4. a \div 100 \in Int /\ a \div 100 + 0 <= b \div 100
    BY <2>3, RoundsUp
  <2>5. b \div 100 \in Int
    BY <2>3
  <2>6. QED
    BY <2>4, <2>5 DEF a, b
<1>3. Most(n) \in Nat /\ n <= Most(n)
  <2>1. n * Percent \in Nat /\ n * (100 + Percent) = 100 * n + n * Percent
    OBVIOUS
  <2>2. 50 + 100 * n <= n * (100 + Percent) + 50 /\ n * (100 + Percent) + 50 \in Int
    BY <2>1
  <2>3. 50 \div 100 = 0
    OBVIOUS
  <2>4. 50 \div 100 + n <= Most(n) /\ Most(n) \in Int
    BY <2>2, RoundsUp DEF Most
  <2>5. QED
    BY <2>3, <2>4
<1>4. CASE n = 0
  <2>1. Wanted(n) = {0} /\ Most(n) = 0
    BY <1>4 DEF Wanted, Most
  <2>2. {0, 0} = {0} /\ Max({0, 0}) = 0
    BY MaxOfTwo
  <2>3. QED
    BY <1>3, <2>1, <2>2
<1>5. CASE n # 0
  <2> HIDE DEF Asked
  <2>1. Wanted(n) = {Max({1, Asked(d)}) : d \in -Percent .. Percent}
    BY <1>5, Zenon DEF Wanted, Asked
  <2>2. \A d \in -Percent .. Percent :
          Max({1, Asked(d)}) = IF 1 >= Asked(d) THEN 1 ELSE Asked(d)
    BY <1>2, MaxOfTwo
  <2>3. Max({1, Asked(Percent)}) = Most(n) /\ Percent \in -Percent .. Percent
    BY <1>1, <1>3, <1>5, <2>2
  <2>4. Most(n) \in Wanted(n)
    BY <2>1, <2>3
  <2>5. \A w \in Wanted(n) : w \in Int /\ w <= Most(n)
    <3> SUFFICES ASSUME NEW d \in -Percent .. Percent
                 PROVE  Max({1, Asked(d)}) \in Int /\ Max({1, Asked(d)}) <= Most(n)
      BY <2>1
    <3>1. Asked(d) \in Int /\ Asked(d) <= Most(n) /\ 1 <= Most(n)
      BY <1>1, <1>2, <1>3, <1>5
    <3>2. QED
      BY <2>2, <3>1
  <2>6. Max(Wanted(n)) = Most(n)
    <3>1. Wanted(n) \in SUBSET Int /\ \A w \in Wanted(n) : Most(n) >= w
      BY <1>3, <2>5
    <3>2. QED
      BY <2>4, <3>1, MaxIs
  <2>7. QED
    BY <1>3, <2>5, <2>6
<1>6. QED
  BY <1>4, <1>5

LEMMA MostAdds ==
  ASSUME NEW x \in Nat, NEW y \in Nat, NEW z \in Nat, x + y <= z
  PROVE  x + Most(y) <= Most(z)
<1>1. (x + y) * (100 + Percent) <= z * (100 + Percent)
  OBVIOUS
<1>2. (x + y) * (100 + Percent) = 100 * x + x * Percent + y * (100 + Percent)
  OBVIOUS
<1>3. x * Percent \in Nat /\ y * (100 + Percent) \in Nat /\ z * (100 + Percent) \in Nat
  OBVIOUS
<1>4. y * (100 + Percent) + 50 + 100 * x <= z * (100 + Percent) + 50
  BY <1>1, <1>2, <1>3
<1>5. Most(y) \in Int /\ Most(y) + x <= Most(z)
  BY <1>3, <1>4, RoundsUp DEF Most
<1>6. QED
  BY <1>5, MostIsMost

\* Of a state, when n bytes have been pulled ever: these are among what was
\* received; and they are no more than what was sent asked for, unless the
\* counters began again.  Neither is said where they may arrive elsewhere.
Within(s, T, B, n) ==
  Stray[s.iface] = 0 /\ B[s.iface] = s.forgot
    => n - s.paid <= Most(s.ratio * (T[s.iface].tx - s.born.tx))

PaidOf(s, T, B, n) ==
  /\ s.paid <= n
  /\ Stray[s.iface] = 0 => s.born.rx + (n - s.paid) <= T[s.iface].rx
  /\ Within(s, T, B, n)

PayingOf(p) ==
  LET s == job[p].state
      n == pulled[job[p].iface]
  IN
  /\ pc[p] \in Loaded => PaidOf(s, total, base, n) /\ s.iface = job[p].iface
  /\ pc[p] \in {"saveDay", "saveHistory", "decide"} /\ Stray[s.iface] = 0
       => s.born.rx + (n - s.paid) <= s.seen.rx
  /\ pc[p] \in {"saveHistory", "decide", "pull"} => day = s
  /\ pc[p] = "pull" => Within(s, total, base, n + job[p].left)
  /\ pc[p] \in {"tx", "load", "lookup"} /\ day # None /\ day.iface = job[p].iface
       /\ Stray[day.iface] = 0
       => day.born.rx + (n - day.paid) <= job[p].seen.rx

PayInv ==
  /\ CountInv
  /\ day # None => PaidOf(day, total, base, pulled[day.iface])
  /\ \A p \in Proc : PayingOf(p)

\* What was forgotten since a state began is not taken back.
LEMMA StaysForgotten ==
  ASSUME NEW T \in Links, NEW B \in Links, NEW T2 \in Links, NEW B2 \in Links,
         Later(T, B, T2, B2), NEW s \in State, \A w \in Way : CountOf(s, w, T, B),
         \A w \in Way : B[s.iface][w] <= T[s.iface][w], B2[s.iface] = s.forgot
  PROVE  B[s.iface] = s.forgot
<1> DEFINE i == s.iface
<1>1. i \in Iface /\ B[i] \in Bytes /\ s.forgot \in Bytes
  BY DEF State, Links
<1>2. ASSUME NEW w \in Way PROVE B[i][w] = s.forgot[w]
  <2>1. {T[i][w], B[i][w], T2[i][w], B2[i][w], s.forgot[w], s.seen[w], s.last[w]} \subseteq Nat
    BY <1>1 DEF Links, Bytes, Way, State
  <2>2. T[i][w] <= T2[i][w] /\ (B2[i][w] = B[i][w] \/ B2[i][w] = T2[i][w])
    BY <1>1 DEF Later
  <2>3. s.forgot[w] <= B[i][w]
    BY <2>1 DEF CountOf
  <2>4. B[i][w] <= T[i][w] /\ B2[i][w] = s.forgot[w]
    OBVIOUS
  <2>5. QED
    BY <2>1, <2>2, <2>3, <2>4
<1>3. QED
  BY <1>1, <1>2 DEF Bytes, Way

LEMMA WithinStays ==
  ASSUME NEW T \in Links, NEW B \in Links, NEW T2 \in Links, NEW B2 \in Links,
         Later(T, B, T2, B2), NEW s \in State, \A w \in Way : CountOf(s, w, T, B),
         \A w \in Way : B[s.iface][w] <= T[s.iface][w],
         NEW n \in Nat, Within(s, T, B, n)
  PROVE  Within(s, T2, B2, n)
<1> DEFINE i == s.iface
<1> SUFFICES ASSUME Stray[i] = 0, B2[i] = s.forgot
             PROVE  n - s.paid <= Most(s.ratio * (T2[i].tx - s.born.tx))
  BY DEF Within
<1>1. n - s.paid <= Most(s.ratio * (T[i].tx - s.born.tx))
  BY StaysForgotten DEF Within
<1>2. /\ {T[i].tx, T2[i].tx, s.born.tx, s.ratio, s.paid} \subseteq Nat
      /\ T[i].tx <= T2[i].tx /\ s.born.tx <= T[i].tx
  <2>1. i \in Iface /\ "tx" \in Way /\ s.ratio \in Nat /\ s.paid \in Nat
    BY RatioIsNat DEF State, Way
  <2>2. {T[i].tx, T2[i].tx, s.born.tx, s.seen.tx} \subseteq Nat
    BY <2>1 DEF Links, Bytes, State
  <2>3. CountOf(s, "tx", T, B) /\ T[i].tx <= T2[i].tx
    BY <2>1 DEF Later
  <2>4. QED
    BY <2>1, <2>2, <2>3 DEF CountOf
<1> DEFINE y == s.ratio * (T[i].tx - s.born.tx)
           z == s.ratio * (T2[i].tx - s.born.tx)
<1>3. y \in Nat /\ z \in Nat /\ 0 + y <= z
  BY <1>2
<1> HIDE DEF y, z
<1>4. Most(y) \in Nat /\ Most(z) \in Nat
  BY <1>3, MostIsMost
<1>5. 0 + Most(y) <= Most(z)
  <2>1. 0 \in Nat
    OBVIOUS
  <2>2. QED
    BY <1>3, <2>1, MostAdds
<1>6. n - s.paid <= Most(z)
  <2>1. n - s.paid <= Most(y)
    BY <1>1 DEF y
  <2>2. QED
    BY <1>2, <1>4, <1>5, <2>1
<1>7. QED
  BY <1>6 DEF z

LEMMA PaidStays ==
  ASSUME NEW T \in Links, NEW B \in Links, NEW T2 \in Links, NEW B2 \in Links,
         Later(T, B, T2, B2), NEW s \in State, \A w \in Way : CountOf(s, w, T, B),
         \A w \in Way : B[s.iface][w] <= T[s.iface][w],
         NEW n \in Nat, PaidOf(s, T, B, n)
  PROVE  PaidOf(s, T2, B2, n)
<1>1. Within(s, T2, B2, n)
  BY WithinStays DEF PaidOf
<1>2. {T[s.iface].rx, T2[s.iface].rx, s.born.rx, s.paid} \subseteq Nat /\ T[s.iface].rx <= T2[s.iface].rx
  BY DEF State, Links, Bytes, Later, Way
<1>3. QED
  BY <1>1, <1>2 DEF PaidOf

\* A pull that starts asks for no more than what was received leaves open.
LEMMA PullAsks ==
  ASSUME NEW T \in Links, NEW B \in Links, NEW s \in State, \A w \in Way : CountOf(s, w, T, B),
         NEW n \in Nat, PaidOf(s, T, B, n),
         Stray[s.iface] = 0 => s.born.rx + (n - s.paid) <= s.seen.rx,
         NEW planned \in Nat, planned <= ComputeDebt(s.ratio, s.accum),
         NEW left \in Wanted(planned)
  PROVE  Within(s, T, B, n + left)
<1> DEFINE i == s.iface
           sent == T[i].tx - s.born.tx
<1> SUFFICES ASSUME Stray[i] = 0, B[i] = s.forgot
             PROVE  (n + left) - s.paid <= Most(s.ratio * sent)
  BY DEF Within
<1>1. /\ s.ratio \in Ratio /\ s.ratio \in Nat /\ s.accum \in Bytes /\ s.paid \in Nat
      /\ i \in Iface /\ "rx" \in Way /\ "tx" \in Way
  BY RatioIsNat DEF State, Way
<1>2. ASSUME NEW w \in Way
      PROVE  /\ {s.seen[w], s.born[w], s.accum[w], T[i][w]} \subseteq Nat
             /\ s.accum[w] = s.seen[w] - s.born[w] /\ s.seen[w] <= T[i][w]
  <2>1. {s.seen[w], s.born[w], s.accum[w], s.last[w], s.forgot[w], T[i][w], B[i][w]} \subseteq Nat
    BY <1>1 DEF State, Bytes, Links, Way
  <2>2. CountOf(s, w, T, B) /\ B[i][w] = s.forgot[w]
    OBVIOUS
  <2>3. QED
    BY <2>1, <2>2 DEF CountOf
<1> DEFINE got == n - s.paid
           debt == ComputeDebt(s.ratio, s.accum)
           total1 == s.ratio * s.accum.tx
           total2 == s.ratio * sent
<1>3. /\ got \in Nat /\ got <= s.accum.rx /\ s.accum.rx \in Nat
      /\ s.accum.tx \in Nat /\ sent \in Nat /\ s.accum.tx <= sent
  BY <1>1, <1>2 DEF PaidOf
<1>4. total1 \in Nat /\ total2 \in Nat /\ total1 <= total2
  BY <1>1, <1>3
<1>5. debt \in Nat /\ debt = IF total1 >= s.accum.rx THEN total1 - s.accum.rx ELSE 0
  BY <1>1, DebtIsNat
<1>6. got <= Most(total2)
  BY DEF PaidOf, Within
<1>7. left \in Nat /\ left <= Most(planned) /\ Most(planned) \in Nat
  BY WantedIsNat, MostIsMost
<1>8. planned = 0 => left = 0
  BY DEF Wanted
<1>9. planned <= debt
  OBVIOUS
<1> HIDE DEF debt, total1, total2, sent
<1>10. Most(total2) \in Nat
  BY <1>4, MostIsMost
<1>11. CASE planned = 0
  BY <1>1, <1>3, <1>6, <1>7, <1>8, <1>10, <1>11 DEF total2
<1>12. CASE planned # 0
  <2>1. got + planned <= total2
    BY <1>3, <1>4, <1>5, <1>9, <1>12
  <2>2. got + Most(planned) <= Most(total2)
    BY <1>3, <1>4, <2>1, MostAdds
  <2>3. got + left <= Most(total2)
    BY <1>3, <1>7, <1>10, <2>2
  <2>4. QED
    BY <1>1, <1>7, <2>3 DEF total2
<1>13. QED
  BY <1>11, <1>12

LEMMA PayCmd ==
  ASSUME Serial, PayInv, NEW p \in Proc, Reconcile(p)
  PROVE  PayInv'
<1>1. CountInv' /\ CountInv /\ TypeInv' /\ TypeInv
  BY CountCmd DEF PayInv, CountInv
<1>2. \A q \in Proc \ {p} : PayingOf(q)'
  BY <1>1, OneSteps DEF PayingOf, Loaded, CountInv
<1> SUFFICES /\ day' # None => PaidOf(day', total', base', pulled'[day'.iface])
             /\ PayingOf(p)'
  BY <1>1, <1>2 DEF PayInv
<1>3. /\ pc \in [Proc -> PC] /\ job \in [Proc -> Job] /\ day \in State \cup {None}
      /\ total \in Links /\ base \in Links /\ pulled \in [Iface -> Nat]
      /\ \A i \in Iface, w \in Way : base[i][w] <= total[i][w]
      /\ pc[p] \in Loaded => job[p].state \in State
      /\ "rx" \in Way /\ "tx" \in Way
  BY <1>1 DEF TypeInv, TypeOK, Links, Way
<1>4. /\ day # None => PaidOf(day, total, base, pulled[day.iface])
      /\ PayingOf(p) /\ CountingOf(p)
  BY DEF PayInv, CountInv
<1> USE <1>3 DEF Goto, Over
<1>5. CASE \E i \in Iface : Begin(p, i)
  <2> PICK i \in Iface : Begin(p, i)
    BY <1>5
  <2>1. PICK j \in Job : Sets(p, j) /\ j.iface = i /\ j.seen.rx = total[i].rx
    BY <1>1, BeginSets
  <2>2. pc' = [pc EXCEPT ![p] = "tx"] /\ UNCHANGED <<total, base, day, pulled>>
    BY DEF Begin, Link, Store
  <2>3. day # None /\ day.iface = i /\ Stray[i] = 0
          => day.born.rx + (pulled[i] - day.paid) <= j.seen.rx
    BY <1>4, <2>1 DEF PaidOf
  <2>4. QED
    BY <1>4, <2>1, <2>2, <2>3 DEF Sets, PayingOf, Loaded
<1>6. CASE ReadTX(p)
  <2>1. PICK j \in Job : Sets(p, j) /\ j.iface = job[p].iface /\ j.seen.rx = job[p].seen.rx
    BY <1>1, <1>6, ReadTXSets
  <2>2. pc[p] = "tx" /\ pc' = [pc EXCEPT ![p] = "load"] /\ UNCHANGED <<total, base, day, pulled>>
    BY <1>6 DEF ReadTX, Link, Store
  <2>3. QED
    BY <1>4, <2>1, <2>2 DEF Sets, PayingOf, Loaded
<1>7. CASE LoadState(p)
  <2>1. pc[p] = "load" /\ UNCHANGED <<total, base, day, pulled>>
    BY <1>7 DEF LoadState, Link, Store
  <2>2. CASE day # None /\ day.date = Today /\ day.ratio > 0 /\ day.iface = job[p].iface
    <3>1. PICK j \in Job : /\ Sets(p, j) /\ j.state = Accumulate(job[p], day)
                           /\ j.iface = job[p].iface
      BY <1>1, <1>7, <2>2, LoadSets DEF Holds
    <3>2. /\ j.state.iface = day.iface /\ j.state.ratio = day.ratio /\ j.state.paid = day.paid
          /\ j.state.born = day.born /\ j.state.forgot = day.forgot
          /\ j.state.seen = job[p].seen
      BY <2>2, <3>1 DEF Accumulate, State
    <3> DEFINE n == pulled[j.iface]
    <3>7. day.iface = j.iface /\ n = pulled[day.iface] /\ n = pulled[job[p].iface]
      BY <2>2, <3>1
    <3> HIDE DEF n
    <3>3. PaidOf(j.state, total, base, n)
      BY <1>4, <2>2, <3>2, <3>7 DEF PaidOf, Within
    <3>4. pc' = [pc EXCEPT ![p] = "saveDay"]
      BY <1>7, <2>2 DEF LoadState
    <3>5. Stray[j.iface] = 0 => j.state.born.rx + (n - j.state.paid) <= j.state.seen.rx
      BY <1>4, <2>1, <2>2, <3>2, <3>7 DEF PayingOf
    <3>6. QED
      BY <1>4, <2>1, <2>2, <3>1, <3>2, <3>3, <3>4, <3>5, <3>7 DEF Sets, PayingOf, n
  <2>3. CASE ~(day # None /\ day.date = Today /\ day.ratio > 0 /\ day.iface = job[p].iface)
    <3>1. PICK j \in Job : Holds(p, j, Today, day, job[p].write)
      BY <1>1, <1>7, <2>3, LoadSets
    <3>2. pc' = [pc EXCEPT ![p] = "lookup"]
      BY <1>7, <2>3 DEF LoadState
    <3>3. QED
      BY <1>4, <2>1, <3>1, <3>2 DEF Holds, Sets, PayingOf, Loaded
  <2>4. QED
    BY <2>2, <2>3
<1>8. CASE Lookup(p)
  <2>1. /\ pc[p] = "lookup" /\ UNCHANGED <<total, base, day, pulled>>
        /\ pc' = [pc EXCEPT ![p] = "saveDay"]
    BY <1>8 DEF Lookup, Link, Store
  <2>2. PICK j \in Job, r \in Ratio, previous \in Ratio \cup {None} :
          Sets(p, j) /\ j.state = NewState(job[p], r, previous) /\ j.iface = job[p].iface
    BY <1>1, <1>8, LookupSets DEF Holds
  <2>3. /\ j.state.iface = j.iface /\ j.state.ratio = r /\ j.state.paid = pulled[j.iface]
        /\ j.state.born = job[p].seen /\ j.state.seen = job[p].seen
    BY <2>2 DEF NewState
  <2>4. /\ job[p].seen.rx \in Nat /\ job[p].seen.rx <= total[j.iface].rx
        /\ job[p].seen.tx \in Nat /\ job[p].seen.tx <= total[j.iface].tx
        /\ total[j.iface].tx \in Nat
    BY <1>4, <2>1, <2>2 DEF CountingOf, ReadOf, Job, Bytes, Links
  <2>5. Most(r * (total[j.iface].tx - job[p].seen.tx)) \in Nat
    <3>1. r * (total[j.iface].tx - job[p].seen.tx) \in Nat
      BY <2>4, RatioIsNat
    <3>2. QED
      BY <3>1, MostIsMost
  <2> DEFINE n == pulled[j.iface]
  <2>8. n \in Nat /\ n = pulled[job[p].iface]
    BY <2>2 DEF Job
  <2> HIDE DEF n
  <2>9. j.state.paid = n
    BY <2>3 DEF n
  <2>6. PaidOf(j.state, total, base, n)
    BY <2>3, <2>4, <2>5, <2>8, <2>9 DEF PaidOf, Within
  <2>7. QED
    BY <1>4, <2>1, <2>2, <2>3, <2>4, <2>6, <2>8, <2>9 DEF Sets, PayingOf, n
<1>9. CASE SaveDay(p)
  <2>1. /\ pc[p] = "saveDay" /\ day' = job[p].state /\ UNCHANGED <<total, base, pulled, job>>
        /\ pc'[p] \in {"decide", "saveHistory"}
    BY <1>9 DEF SaveDay, Link
  <2>2. PaidOf(job[p].state, total, base, pulled[job[p].iface])
    BY <1>4, <2>1 DEF PayingOf, Loaded
  <2>3. QED
    BY <1>4, <2>1, <2>2 DEF PayingOf, Loaded
<1>10. CASE SaveHistory(p)
  BY <1>4, <1>10 DEF SaveHistory, PayingOf, Loaded, Link
<1>11. CASE Skip(p)
  BY <1>4, <1>11 DEF Skip, PayingOf, Loaded, Link, Store
<1>12. CASE StartPull(p)
  <2> DEFINE s == job[p].state
  <2>1. /\ pc[p] = "decide" /\ pc' = [pc EXCEPT ![p] = "pull"]
        /\ UNCHANGED <<total, base, day, pulled>>
    BY <1>12 DEF StartPull, Link, Store
  <2>2. PICK j \in Job, planned \in Nat :
          /\ planned <= ComputeDebt(s.ratio, s.accum)
          /\ Holds(p, j, job[p].date, s, job[p].write) /\ j.left \in Wanted(planned)
    BY <1>1, <1>12, StartPullSets
  <2>3. /\ s \in State /\ \A w \in Way : CountOf(s, w, total, base)
        /\ PaidOf(s, total, base, pulled[s.iface])
        /\ Stray[s.iface] = 0 => s.born.rx + (pulled[s.iface] - s.paid) <= s.seen.rx
        /\ day = s /\ s.iface = job[p].iface
    BY <1>4, <2>1 DEF CountingOf, PayingOf, Loaded
  <2> HIDE DEF s
  <2> DEFINE n == pulled[s.iface]
  <2>7. n \in Nat
    BY <2>3 DEF State
  <2> HIDE DEF n
  <2>8. /\ PaidOf(s, total, base, n)
        /\ Stray[s.iface] = 0 => s.born.rx + (n - s.paid) <= s.seen.rx
    BY <2>3 DEF n
  <2>9. Within(s, total, base, n + j.left)
    BY <2>2, <2>3, <2>7, <2>8, PullAsks
  <2>4. Within(s, total, base, pulled[s.iface] + j.left)
    BY <2>9 DEF n
  <2>5. j.state = s /\ j.iface = job[p].iface /\ job'[p] = j
    BY <2>2 DEF Holds, Sets
  <2>6. QED
    BY <1>4, <2>1, <2>3, <2>4, <2>5 DEF PayingOf, Loaded
<1>13. CASE Pulls(p)
  <2> DEFINE s == job[p].state
             k == job[p].iface
  <2>1. PICK j \in Job : Holds(p, j, job[p].date, s, job[p].write) /\ j.left = job[p].left - 1
    BY <1>1, <1>13, PullByteSets
  <2>2. /\ pc[p] = "pull" /\ pc' = pc /\ UNCHANGED <<base, day>> /\ pulled' = [pulled EXCEPT ![k] = pulled[k] + 1]
        /\ job[p].left > 0 /\ job[p].left \in Nat
        /\ Stray[k] = 0 => total' = [total EXCEPT ![k] = [@ EXCEPT !.rx = total[k].rx + 1]]
    BY <1>1, <1>13, OwnArrives DEF Pulls, PullByte, Store, Job
  <2>3. /\ s \in State /\ s.iface = k /\ day = s /\ k \in Iface
        /\ PaidOf(s, total, base, pulled[k]) /\ Within(s, total, base, pulled[k] + job[p].left)
        /\ CountOf(s, "tx", total, base)
    BY <1>4, <2>2 DEF PayingOf, CountingOf, Loaded, State
  <2>4. /\ Stray[k] = 0 => total'[k].rx = total[k].rx + 1 /\ total'[k].tx = total[k].tx
        /\ total[k].rx \in Nat /\ total[k].tx \in Nat
        /\ pulled'[k] = pulled[k] + 1 /\ pulled[k] \in Nat
    BY <2>2, <2>3 DEF Links, Bytes
  <2>5. s.paid \in Nat /\ s.born.rx \in Nat
    BY <2>3 DEF State, Bytes
  <2>6. j.state = s /\ j.iface = k /\ job'[p] = j
    BY <2>1 DEF Holds, Sets
  <2> DEFINE top == Most(s.ratio * (total[k].tx - s.born.tx))
  <2>7. top \in Nat
    <3>1. s.ratio * (total[k].tx - s.born.tx) \in Nat
      <4>1. s.ratio \in Nat /\ s.born.tx \in Nat /\ s.seen.tx \in Nat
        BY <2>3, RatioIsNat DEF State, Bytes
      <4>2. s.born.tx <= total[k].tx
        BY <2>3, <2>4, <4>1 DEF CountOf
      <4>3. QED
        BY <2>4, <4>1, <4>2
    <3>2. QED
      BY <3>1, MostIsMost
  <2>8. Within(s, total', base', pulled'[k]) /\ Within(s, total', base', pulled'[k] + j.left)
    <3> SUFFICES ASSUME Stray[k] = 0, base[k] = s.forgot
                 PROVE  pulled'[k] - s.paid <= top /\ (pulled'[k] + j.left) - s.paid <= top
      BY <2>2, <2>3, <2>4 DEF Within
    <3>1. (pulled[k] + job[p].left) - s.paid <= top
      BY <2>3 DEF Within
    <3> HIDE DEF top
    <3>2. QED
      BY <2>1, <2>2, <2>4, <2>5, <2>7, <3>1
  <2>9. PaidOf(s, total', base', pulled'[k])
    BY <2>2, <2>3, <2>4, <2>5, <2>8 DEF PaidOf
  <2> HIDE DEF s, k
  <2>10. QED
    BY <1>4, <2>2, <2>3, <2>6, <2>8, <2>9 DEF PayingOf, Loaded, s, k
<1>14. CASE EndPull(p)
  <2>1. PICK j \in Job, n \in Nat :
          /\ job[p].state \in State
          /\ Holds(p, j, job[p].date, [job[p].state EXCEPT !.next = n], job[p].write)
    BY <1>1, <1>14, EndPullSets, Zenon
  <2>2. /\ j.state.iface = job[p].state.iface /\ j.state.ratio = job[p].state.ratio
        /\ j.state.paid = job[p].state.paid
        /\ j.state.born = job[p].state.born /\ j.state.forgot = job[p].state.forgot
        /\ j.iface = job[p].iface /\ job'[p] = j
    BY <2>1 DEF Holds, Sets, State
  <2>3. pc[p] = "pull" /\ pc'[p] = "finish" /\ UNCHANGED <<total, base, day, pulled>>
    BY <1>14 DEF EndPull, Link, Store
  <2>4. PaidOf(job[p].state, total, base, pulled[job[p].iface]) /\ job[p].state.iface = job[p].iface
    BY <1>4, <2>3 DEF PayingOf, Loaded
  <2>5. PaidOf(j.state, total, base, pulled[j.iface])
    BY <2>2, <2>4 DEF PaidOf, Within
  <2>6. QED
    BY <1>4, <2>2, <2>3, <2>4, <2>5 DEF PayingOf
<1>15. CASE Finish(p)
  BY <1>4, <1>15 DEF Finish, PayingOf, Loaded, Link
<1>16. CASE Stop(p)
  BY <1>4, <1>16 DEF Stop, PayingOf, Loaded, Link, Store
<1>17. QED
  BY <1>5, <1>6, <1>7, <1>8, <1>9, <1>10, <1>11, <1>12, <1>13, <1>14, <1>15, <1>16 DEF Reconcile, Pulls

LEMMA PayInductive == Serial => (Spec => []PayInv)
<1> SUFFICES ASSUME Serial PROVE Spec => []PayInv
  OBVIOUS
<1>1. Init /\ CountInv => PayInv
  BY DEF Init, PayInv, PayingOf, Loaded
<1>2. PayInv /\ [Next]_vars /\ CountInv' => PayInv'
  <2> SUFFICES ASSUME PayInv, [Next]_vars, CountInv' PROVE PayInv'
    OBVIOUS
  <2>1. ASSUME NEW p \in Proc, Reconcile(p) PROVE PayInv'
    BY <2>1, PayCmd
  <2>2. CASE ~\E p \in Proc : Reconcile(p)
    <3>1. TypeInv /\ TypeInv' /\ UNCHANGED <<day, history, pc, job, pulled, used>>
      BY <2>2, HostLeaves, TypeStep DEF PayInv, CountInv
    <3>2. Later(total, base, total', base')
      BY <2>2, HostLeaves DEF PayInv, CountInv, Later, Way
    <3>3. /\ total \in Links /\ base \in Links /\ total' \in Links /\ base' \in Links
          /\ day \in State \cup {None} /\ job \in [Proc -> Job] /\ pulled \in [Iface -> Nat]
          /\ \A s \in State, w \in Way : base[s.iface][w] <= total[s.iface][w]
      BY <3>1 DEF TypeInv, TypeOK, Links, Way, State
    <3>4. day # None => PaidOf(day, total', base', pulled[day.iface])
      <4> SUFFICES ASSUME day # None PROVE PaidOf(day, total', base', pulled[day.iface])
        OBVIOUS
      <4> DEFINE n == pulled[day.iface]
      <4>1. day \in State /\ n \in Nat
        BY <3>3 DEF State
      <4> HIDE DEF n
      <4>2. PaidOf(day, total, base, n) /\ \A w \in Way : CountOf(day, w, total, base)
        BY DEF PayInv, CountInv, n
      <4>3. PaidOf(day, total', base', n)
        BY <3>2, <3>3, <4>1, <4>2, PaidStays
      <4>4. QED
        BY <4>3 DEF n
    <3>5. ASSUME NEW p \in Proc PROVE PayingOf(p)'
      <4>1. PayingOf(p) /\ CountingOf(p) /\ (pc[p] \in Loaded => job[p].state \in State)
        BY <3>1 DEF PayInv, CountInv, TypeInv
      <4>2. pc[p] \in Loaded => PaidOf(job[p].state, total', base', pulled[job[p].iface])
        <5> SUFFICES ASSUME pc[p] \in Loaded
                     PROVE  PaidOf(job[p].state, total', base', pulled[job[p].iface])
          OBVIOUS
        <5> DEFINE n == pulled[job[p].iface]
        <5>1. n \in Nat
          BY <3>3 DEF Job
        <5> HIDE DEF n
        <5>2. /\ job[p].state \in State /\ PaidOf(job[p].state, total, base, n)
              /\ \A w \in Way : CountOf(job[p].state, w, total, base)
          BY <4>1 DEF CountingOf, PayingOf, n
        <5>3. PaidOf(job[p].state, total', base', n)
          BY <3>2, <3>3, <5>1, <5>2, PaidStays
        <5>4. QED
          BY <5>3 DEF n
      <4>3. pc[p] = "pull" => Within(job[p].state, total', base', pulled[job[p].iface] + job[p].left)
        <5>1. pulled[job[p].iface] + job[p].left \in Nat
          BY <3>3 DEF Job
        <5>2. QED
          BY <3>2, <3>3, <4>1, <5>1, WithinStays DEF CountingOf, PayingOf, Loaded
      <4>4. QED
        BY <3>1, <4>1, <4>2, <4>3 DEF PayingOf
    <3>6. QED
      BY <3>1, <3>4, <3>5 DEF PayInv
  <2>3. QED
    BY <2>1, <2>2
<1>3. QED
  BY <1>1, <1>2, CountInductive, PTL DEF Spec

\* Since a day's counting began no more was pulled than what was sent asks for,
\* over pulls broken off, states that were not saved and restarts, while the
\* counters forget nothing and pulls arrive on the interface they are made for,
\* if one process at a time reconciles.
THEOREM PullsFollowTraffic == Serial => (Spec => []NoOverPull)
<1> SUFFICES ASSUME Serial PROVE Spec => []NoOverPull
  OBVIOUS
<1>1. PayInv => NoOverPull
  <2> SUFFICES ASSUME PayInv, day # None, Stray[day.iface] = 0, base[day.iface] = day.forgot
               PROVE  pulled[day.iface] - day.paid <= Max(Wanted(day.ratio * (total[day.iface].tx - day.born.tx)))
    BY DEF NoOverPull
  <2>1. /\ day \in State /\ total \in Links /\ PaidOf(day, total, base, pulled[day.iface])
        /\ CountOf(day, "tx", total, base)
    BY DEF PayInv, CountInv, TypeInv, TypeOK, Links, Way
  <2>2. day.ratio * (total[day.iface].tx - day.born.tx) \in Nat
    <3>1. {day.ratio, total[day.iface].tx, day.born.tx, day.seen.tx} \subseteq Nat
      BY <2>1, RatioIsNat DEF State, Bytes, Links
    <3>2. day.born.tx <= total[day.iface].tx
      BY <2>1, <3>1 DEF CountOf
    <3>3. QED
      BY <3>1, <3>2
  <2>3. QED
    BY <2>1, <2>2, MostIsMost DEF PaidOf, Within
<1>2. QED
  BY <1>1, PayInductive, PTL

----------------------------------------------------------------------------
(* All pulls together *)

Highest == Round4(MaxRatio)

Rate(n) == (100 + Percent + 50) * (Highest * n)

LEMMA RateIsNat ==
  ASSUME NEW n \in Nat
  PROVE  Rate(n) \in Nat
<1>1. Highest \in Nat
  BY Rounding DEF Highest
<1>2. QED
  BY <1>1 DEF Rate

LEMMA RateAdds ==
  ASSUME NEW x \in Nat, NEW y \in Nat
  PROVE  Rate(x + y) = Rate(x) + Rate(y)
<1> Highest \in Nat
  BY Rounding DEF Highest
<1>1. Highest * (x + y) = Highest * x + Highest * y
  OBVIOUS
<1> DEFINE a == Highest * x
           b == Highest * y
           c == 100 + Percent + 50
<1>2. a \in Nat /\ b \in Nat /\ c \in Nat
  OBVIOUS
<1>3. c * (a + b) = c * a + c * b
  <2> HIDE DEF a, b, c
  <2>1. QED
    BY <1>2
<1>4. QED
  BY <1>1, <1>3 DEF Rate

LEMMA RateGrows ==
  ASSUME NEW x \in Nat, NEW y \in Nat, x <= y
  PROVE  Rate(x) <= Rate(y)
<1>1. y - x \in Nat /\ y = x + (y - x)
  OBVIOUS
<1>2. Rate(y) = Rate(x) + Rate(y - x)
  BY <1>1, RateAdds
<1>3. QED
  BY <1>1, <1>2, RateIsNat

LEMMA WholeHundreds ==
  ASSUME NEW a \in Nat
  PROVE  100 * (a \div 100) <= a /\ a \div 100 \in Nat
  BY SMTT(30)

\* Rounding adds half a byte to at least one.
LEMMA MostRate ==
  ASSUME NEW r \in Ratio, NEW n \in Nat
  PROVE  100 * Most(r * n) <= Rate(n)
<1>1. r \in Nat /\ r <= Highest /\ Highest \in Nat
  BY RatioIsNat, Rounding DEF Highest
<1> DEFINE m == r * n
           k == Highest * n
           c == 100 + Percent
<1>2. m \in Nat /\ k \in Nat /\ m <= k /\ c \in Nat
  BY <1>1
<1>3. Most(m) = (m * c + 50) \div 100 /\ Rate(n) = (c + 50) * k
  BY DEF Most, Rate
<1> HIDE DEF m, k, c
<1>4. CASE m = 0
  <2>1. m * c + 50 = 50 /\ 50 \div 100 = 0
    BY <1>2, <1>4
  <2>2. Most(m) = 0
    BY <1>3, <2>1
  <2>3. QED
    BY <2>2, RateIsNat DEF m
<1>5. CASE m # 0
  <2>1. m * c \in Nat /\ (c + 50) * m = m * c + 50 * m
    BY <1>2
  <2>2. 100 * Most(m) <= m * c + 50
    BY <1>3, <2>1, WholeHundreds
  <2>3. (c + 50) * m <= (c + 50) * k
    BY <1>2
  <2>4. m * c + 50 <= (c + 50) * m
    BY <1>2, <1>5, <2>1
  <2>5. Most(m) \in Nat /\ (c + 50) * m \in Nat /\ (c + 50) * k \in Nat
    BY <1>2, MostIsMost
  <2>6. QED
    BY <1>3, <2>1, <2>2, <2>3, <2>4, <2>5 DEF m
<1>6. QED
  BY <1>4, <1>5

\* What had been pulled when a state began follows what had been sent then.
BornPaid(s, B) == Stray[s.iface] = 0 /\ B[s.iface] = Zero => 100 * s.paid <= Rate(s.born.tx)

\* So does what has been pulled since.
LEMMA AllPaid ==
  ASSUME NEW T \in Links, NEW B \in Links, NEW s \in State, CountOf(s, "rx", T, B),
         CountOf(s, "tx", T, B),
         NEW n \in Nat, s.paid <= n, Within(s, T, B, n), BornPaid(s, B), Stray[s.iface] = 0,
         B[s.iface] = Zero
  PROVE  100 * n <= Rate(T[s.iface].tx)
<1> DEFINE i == s.iface
           grown == T[i].tx - s.born.tx
<1>1. /\ i \in Iface /\ s.ratio \in Ratio /\ s.paid \in Nat /\ s.forgot \in Bytes
      /\ s.seen \in Bytes /\ s.last \in Bytes /\ s.born \in Bytes
      /\ T[i] \in Bytes /\ B[i] \in Bytes
  BY DEF State, Links
<1>2. B[i].rx = 0 /\ B[i].tx = 0
  BY DEF Zero
<1>3. ASSUME NEW w \in Way PROVE s.forgot[w] = 0
  <2>1. {s.forgot[w], s.seen[w], s.last[w], B[i][w]} \subseteq Nat /\ B[i][w] = 0
    BY <1>1, <1>2 DEF Bytes, Way
  <2>2. CountOf(s, w, T, B)
    BY DEF Way
  <2>3. QED
    BY <2>1, <2>2 DEF CountOf
<1>4. B[i] = s.forgot
  BY <1>1, <1>2, <1>3 DEF Bytes, Way
<1>5. n - s.paid <= Most(s.ratio * grown)
  BY <1>4 DEF Within
<1>6. grown \in Nat /\ s.born.tx \in Nat /\ T[i].tx \in Nat /\ T[i].tx = s.born.tx + grown
  <2>1. {T[i].tx, s.born.tx, s.seen.tx} \subseteq Nat
    BY <1>1 DEF Bytes
  <2>2. s.born.tx <= T[i].tx
    BY <2>1 DEF CountOf
  <2>3. QED
    BY <2>1, <2>2
<1> HIDE DEF grown
<1>7. 100 * Most(s.ratio * grown) <= Rate(grown)
  BY <1>1, <1>6, MostRate
<1>8. s.ratio * grown \in Nat
  BY <1>1, <1>6, RatioIsNat
<1>9. Most(s.ratio * grown) \in Nat
  BY <1>8, MostIsMost
<1>10. Rate(T[i].tx) = Rate(s.born.tx) + Rate(grown)
  BY <1>6, RateAdds
<1>11. 100 * s.paid <= Rate(s.born.tx)
  BY DEF BornPaid
<1>12. Rate(s.born.tx) \in Nat /\ Rate(grown) \in Nat
  BY <1>6, RateIsNat
<1>13. QED
  BY <1>1, <1>5, <1>7, <1>9, <1>10, <1>11, <1>12

AllPaidOf(p) ==
  /\ pc[p] \in Loaded => BornPaid(job[p].state, base)
  /\ pc[p] \in {"load", "lookup"} /\ Stray[job[p].iface] = 0 /\ base[job[p].iface] = Zero
       => 100 * pulled[job[p].iface] <= Rate(job[p].seen.tx)

EverInv ==
  /\ PayInv
  /\ PaysOnce
  /\ day # None => BornPaid(day, base)
  /\ \A p \in Proc : AllPaidOf(p)

LEMMA EverCmd ==
  ASSUME Serial, EverInv, PayInv', NEW p \in Proc, Reconcile(p)
  PROVE  EverInv'
<1>1. TypeInv /\ TypeInv' /\ CountInv /\ CountInv'
  BY DEF EverInv, PayInv, CountInv
<1>2. \A q \in Proc \ {p} : AllPaidOf(q)'
  BY <1>1, OneSteps DEF AllPaidOf, Loaded, CountInv
<1> SUFFICES PaysOnce' /\ (day' # None => BornPaid(day', base')) /\ AllPaidOf(p)'
  BY <1>2 DEF EverInv
<1>3. /\ pc \in [Proc -> PC] /\ job \in [Proc -> Job] /\ day \in State \cup {None}
      /\ total \in Links /\ base \in Links /\ pulled \in [Iface -> Nat]
  BY <1>1 DEF TypeInv, TypeOK, Links
<1>4. PaysOnce /\ (day # None => BornPaid(day, base)) /\ AllPaidOf(p) /\ PayingOf(p)
      /\ CountingOf(p)
  BY SMTT(30) DEF EverInv, PayInv, CountInv
<1>5. base' = base /\ (~Pulls(p) => UNCHANGED <<total, pulled>>)
  BY DEF Reconcile, Begin, ReadTX, LoadState, Lookup, SaveDay, SaveHistory, Skip, StartPull,
         Pulls, PullByte, EndPull, Finish, Stop, Link
<1>6. ~Pulls(p) => PaysOnce'
  BY <1>4, <1>5 DEF PaysOnce
<1> USE <1>3 DEF Goto, Over
<1>7. CASE \E i \in Iface : Begin(p, i)
  BY <1>4, <1>5, <1>6, <1>7 DEF Begin, AllPaidOf, Loaded, Store, Pulls, PullByte
<1>8. CASE ReadTX(p)
  <2>1. PICK j \in Job : Sets(p, j) /\ j.iface = job[p].iface /\ j.seen.tx = total[job[p].iface].tx
    BY <1>1, <1>8, ReadTXSets
  <2>2. /\ pc[p] = "tx" /\ pc' = [pc EXCEPT ![p] = "load"]
        /\ UNCHANGED <<total, base, day, pulled>>
    BY <1>8 DEF ReadTX, Link, Store
  <2>3. job[p].iface \in Iface
    BY DEF Job
  <2>4. Stray[j.iface] = 0 /\ base[j.iface] = Zero => 100 * pulled[j.iface] <= Rate(j.seen.tx)
    BY <1>4, <2>1, <2>3 DEF PaysOnce, Rate, Highest
  <2>5. ~Pulls(p)
    BY <2>2 DEF Pulls, PullByte
  <2>6. QED
    BY <1>4, <1>6, <2>1, <2>2, <2>4, <2>5 DEF Sets, AllPaidOf, Loaded
<1>9. CASE LoadState(p)
  <2>1. pc[p] = "load" /\ UNCHANGED <<total, base, day, pulled>> /\ ~Pulls(p)
    BY <1>9 DEF LoadState, Link, Store, Pulls, PullByte
  <2>2. CASE day # None /\ day.date = Today /\ day.ratio > 0 /\ day.iface = job[p].iface
    <3>1. PICK j \in Job : Sets(p, j) /\ j.state = Accumulate(job[p], day)
      BY <1>1, <1>9, <2>2, LoadSets DEF Holds
    <3>2. /\ j.state.iface = day.iface /\ j.state.paid = day.paid /\ j.state.born = day.born
      BY <2>2, <3>1 DEF Accumulate, State
    <3>3. BornPaid(j.state, base)
      BY <1>4, <2>2, <3>2 DEF BornPaid
    <3>4. pc' = [pc EXCEPT ![p] = "saveDay"]
      BY <1>9, <2>2 DEF LoadState
    <3>5. QED
      BY <1>4, <1>6, <2>1, <3>1, <3>3, <3>4 DEF Sets, AllPaidOf
  <2>3. CASE ~(day # None /\ day.date = Today /\ day.ratio > 0 /\ day.iface = job[p].iface)
    <3>1. PICK j \in Job : Holds(p, j, Today, day, job[p].write)
      BY <1>1, <1>9, <2>3, LoadSets
    <3>2. pc' = [pc EXCEPT ![p] = "lookup"]
      BY <1>9, <2>3 DEF LoadState
    <3>3. QED
      BY <1>4, <1>6, <2>1, <3>1, <3>2 DEF Holds, Sets, AllPaidOf, Loaded
  <2>4. QED
    BY <2>2, <2>3
<1>10. CASE Lookup(p)
  <2>1. /\ pc[p] = "lookup" /\ UNCHANGED <<total, base, day, pulled>>
        /\ pc' = [pc EXCEPT ![p] = "saveDay"] /\ ~Pulls(p)
    BY <1>10 DEF Lookup, Link, Store, Pulls, PullByte
  <2>2. PICK j \in Job, r \in Ratio, previous \in Ratio \cup {None} :
          Sets(p, j) /\ j.state = NewState(job[p], r, previous)
    BY <1>1, <1>10, LookupSets DEF Holds
  <2>3. /\ j.state.iface = job[p].iface /\ j.state.paid = pulled[job[p].iface]
        /\ j.state.born = job[p].seen
    BY <2>2 DEF NewState
  <2>4. BornPaid(j.state, base)
    BY <1>4, <2>1, <2>3 DEF BornPaid, AllPaidOf
  <2>5. QED
    BY <1>4, <1>6, <2>1, <2>2, <2>4 DEF Sets, AllPaidOf
<1>11. CASE SaveDay(p)
  <2>1. /\ pc[p] = "saveDay" /\ day' = job[p].state /\ UNCHANGED <<base, job>> /\ ~Pulls(p)
        /\ pc'[p] \in {"decide", "saveHistory"}
    BY <1>11 DEF SaveDay, Link, Pulls, PullByte
  <2>2. QED
    BY <1>4, <1>6, <2>1 DEF AllPaidOf, Loaded
<1>12. CASE SaveHistory(p)
  BY <1>4, <1>6, <1>12 DEF SaveHistory, AllPaidOf, Loaded, Link, Pulls, PullByte
<1>13. CASE Skip(p)
  BY <1>4, <1>6, <1>13 DEF Skip, AllPaidOf, Loaded, Link, Store, Pulls, PullByte
<1>14. CASE StartPull(p)
  <2>1. /\ pc[p] = "decide" /\ pc' = [pc EXCEPT ![p] = "pull"] /\ ~Pulls(p)
        /\ UNCHANGED <<base, day>>
    BY <1>14 DEF StartPull, Link, Store, Pulls, PullByte
  <2>2. PICK j \in Job : Holds(p, j, job[p].date, job[p].state, job[p].write)
    BY <1>1, <1>14, StartPullSets
  <2>3. QED
    BY <1>4, <1>6, <2>1, <2>2 DEF Holds, Sets, AllPaidOf, Loaded
<1>15. CASE Pulls(p)
  <2> DEFINE k == job[p].iface
  <2>1. PICK j \in Job : Holds(p, j, job[p].date, job[p].state, job[p].write)
    BY <1>1, <1>15, PullByteSets
  <2>2. /\ pc[p] = "pull" /\ pc' = pc /\ day' = day /\ k \in Iface
        /\ pulled' = [pulled EXCEPT ![k] = pulled[k] + 1]
        /\ \E i \in Iface : total' = [total EXCEPT ![i] = [@ EXCEPT !.rx = total[i].rx + 1]]
    BY <1>1, <1>15 DEF Pulls, PullByte, Store, Job
  <2>3. job'[p].state = job[p].state /\ job'[p].iface = k
    BY <2>1 DEF Holds, Sets
  <2>4. BornPaid(job[p].state, base)
    BY <1>4, <2>2 DEF AllPaidOf, Loaded
  <2>5. /\ total' \in Links /\ base' \in Links /\ pulled'[k] \in Nat
    BY <1>1, <2>2 DEF TypeInv, TypeOK, Links
  <2> DEFINE s == job[p].state
  <2>6. /\ s \in State /\ s.iface = k /\ s.paid <= pulled'[k] /\ Within(s, total', base', pulled'[k])
        /\ CountOf(s, "rx", total', base') /\ CountOf(s, "tx", total', base')
    <3>1. pc'[p] \in Loaded /\ PayingOf(p)' /\ CountingOf(p)'
      BY <2>2 DEF Loaded, PayInv, CountInv
    <3>2. job'[p].state \in State
      BY <1>1, <3>1 DEF TypeInv
    <3>3. QED
      BY <2>3, <3>1, <3>2 DEF PayingOf, CountingOf, PaidOf, Way
  <2> HIDE DEF s
  <2>7. Stray[k] = 0 /\ base[k] = Zero => 100 * pulled'[k] <= Rate(total'[k].tx)
    <3> SUFFICES ASSUME Stray[k] = 0, base[k] = Zero PROVE 100 * pulled'[k] <= Rate(total'[k].tx)
      OBVIOUS
    <3> DEFINE n == pulled'[k]
    <3>1. n \in Nat /\ s.paid <= n /\ Within(s, total', base', n)
      BY <2>5, <2>6
    <3>2. BornPaid(s, base') /\ base'[s.iface] = Zero
      BY <1>5, <2>4, <2>6 DEF s
    <3> HIDE DEF n
    <3>3. 100 * n <= Rate(total'[s.iface].tx)
      BY <2>5, <2>6, <3>1, <3>2, AllPaid
    <3>4. QED
      BY <2>6, <3>3 DEF n
  <2>8. \A i \in Iface : i # k => pulled'[i] = pulled[i] /\ total'[i].tx = total[i].tx
    BY <1>3, <2>2 DEF Links, Bytes
  <2>9. PaysOnce'
    <3> SUFFICES ASSUME NEW i \in Iface, Stray[i] = 0, base[i] = Zero
                 PROVE  100 * pulled'[i] <= Rate(total'[i].tx)
      BY <1>5 DEF PaysOnce, Rate, Highest
    <3>1. CASE i = k
      BY <2>7, <3>1
    <3>2. CASE i # k
      BY <1>4, <2>8, <3>2 DEF PaysOnce, Rate, Highest
    <3>3. QED
      BY <3>1, <3>2
  <2>10. QED
    BY <1>4, <1>5, <2>2, <2>3, <2>9 DEF AllPaidOf, Loaded
<1>16. CASE EndPull(p)
  <2>1. PICK j \in Job, n \in Nat :
          /\ job[p].state \in State
          /\ Holds(p, j, job[p].date, [job[p].state EXCEPT !.next = n], job[p].write)
    BY <1>1, <1>16, EndPullSets, Zenon
  <2>2. /\ j.state.iface = job[p].state.iface /\ j.state.paid = job[p].state.paid
        /\ j.state.born = job[p].state.born /\ job'[p] = j
    BY <2>1 DEF Holds, Sets, State
  <2>3. pc[p] = "pull" /\ pc'[p] = "finish" /\ UNCHANGED <<base, day>> /\ ~Pulls(p)
    BY <1>16 DEF EndPull, Link, Store, Pulls, PullByte
  <2>4. BornPaid(j.state, base)
    BY <1>4, <2>2, <2>3 DEF AllPaidOf, Loaded, BornPaid
  <2>5. QED
    BY <1>4, <1>6, <2>2, <2>3, <2>4 DEF AllPaidOf
<1>17. CASE Finish(p)
  BY <1>4, <1>6, <1>17 DEF Finish, AllPaidOf, Loaded, Link, Pulls, PullByte
<1>18. CASE Stop(p)
  <2>1. UNCHANGED <<day, total, pulled, base>> /\ pc'[p] = "idle"
    BY <1>18 DEF Stop, Store, Link
  <2>2. QED
    BY <1>4, <2>1 DEF AllPaidOf, Loaded, PaysOnce
<1>19. QED
  BY <1>7, <1>8, <1>9, <1>10, <1>11, <1>12, <1>13, <1>14, <1>15, <1>16, <1>17, <1>18 DEF Reconcile, Pulls

LEMMA EverHost ==
  ASSUME EverInv, PayInv', [Next]_vars, ~\E p \in Proc : Reconcile(p)
  PROVE  EverInv'
<1>1. TypeInv /\ TypeInv' /\ UNCHANGED <<day, history, pc, job, pulled, used>>
  BY HostLeaves DEF EverInv, PayInv, CountInv
<1>2. /\ total \in Links /\ base \in Links /\ total' \in Links /\ base' \in Links
      /\ day \in State \cup {None} /\ job \in [Proc -> Job] /\ pulled \in [Iface -> Nat]
      /\ \A i \in Iface, w \in Way : base[i][w] <= total[i][w]
  BY <1>1 DEF TypeInv, TypeOK, Links, Way
<1>3. \A i \in Iface, w \in Way :
        total[i][w] <= total'[i][w] /\ (base'[i][w] = base[i][w] \/ base'[i][w] = total'[i][w])
  BY HostLeaves DEF EverInv, PayInv, CountInv, Way
<1>4. ASSUME NEW i \in Iface, base'[i] = Zero PROVE base[i] = Zero
  <2>1. ASSUME NEW w \in Way PROVE base[i][w] = 0
    <3>1. base'[i][w] = 0
      BY <1>4 DEF Zero, Way
    <3>2. {base[i][w], total[i][w], total'[i][w]} \subseteq Nat
      BY <1>2 DEF Links, Bytes, Way
    <3>3. QED
      BY <1>2, <1>3, <3>1, <3>2
  <2>2. QED
    BY <1>2, <2>1 DEF Links, Bytes, Way, Zero
<1>5. PaysOnce'
  <2> SUFFICES ASSUME NEW i \in Iface, Stray[i] = 0, base'[i] = Zero
               PROVE  100 * pulled[i] <= Rate(total'[i].tx)
    BY <1>1 DEF PaysOnce, Rate, Highest
  <2>1. 100 * pulled[i] <= Rate(total[i].tx)
    BY <1>4 DEF EverInv, PaysOnce, Rate, Highest
  <2>2. total[i].tx \in Nat /\ total'[i].tx \in Nat /\ total[i].tx <= total'[i].tx
    BY <1>2, <1>3 DEF Links, Bytes, Way
  <2>3. Rate(total[i].tx) <= Rate(total'[i].tx)
    BY <2>2, RateGrows
  <2>4. QED
    BY <1>2, <2>1, <2>2, <2>3, RateIsNat
<1>6. day' # None => BornPaid(day', base')
  BY <1>1, <1>2, <1>4 DEF EverInv, BornPaid, State
<1>7. ASSUME NEW p \in Proc PROVE AllPaidOf(p)'
  <2>1. AllPaidOf(p) /\ job[p].iface \in Iface
        /\ (pc[p] \in Loaded => job[p].state.iface \in Iface)
    BY <1>1, <1>2 DEF EverInv, Job, State, TypeInv
  <2>2. QED
    BY <1>1, <1>4, <2>1 DEF AllPaidOf, BornPaid
<1>8. QED
  BY <1>5, <1>6, <1>7 DEF EverInv

\* All pulls for an interface they arrive on, of any number of days, of pulls
\* broken off and of states lost between them, are no more than what it ever
\* sent asks for, up to rounding, if one process at a time reconciles.
THEOREM PullsArePaidOnce == Serial => (Spec => []PaysOnce)
<1> SUFFICES ASSUME Serial PROVE Spec => []PaysOnce
  OBVIOUS
<1>1. Init /\ PayInv => EverInv
  <2>1. Init => PaysOnce
    <3> SUFFICES ASSUME Init, NEW i \in Iface PROVE 100 * pulled[i] <= Rate(total[i].tx)
      BY DEF PaysOnce, Rate, Highest
    <3>1. pulled[i] = 0 /\ total[i].tx = 0
      BY DEF Init, Zero
    <3>2. QED
      BY <3>1, RateIsNat
  <2>2. QED
    BY <2>1 DEF Init, EverInv, AllPaidOf, Loaded
<1>2. EverInv /\ [Next]_vars /\ PayInv' => EverInv'
  BY EverCmd, EverHost
<1>3. EverInv => PaysOnce
  BY DEF EverInv
<1>4. QED
  BY <1>1, <1>2, <1>3, PayInductive, PTL DEF Spec
=============================================================================
