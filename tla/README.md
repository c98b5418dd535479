# A TLA+ verification of nwall

nwall guards one Linux host.  A command line and a TUI write a configuration
into a SQLite database, a protection command or the daemon renders it to an
nftables table and puts it in force, and the daemon runs the long-lived parts:
protocol blocking, the TCP lease agent and its HTTP trigger, and the downlink
masking server and puller.  These modules model the parts whose state is shared
between processes, goroutines, machines and time.  They are kept in this
directory beside the code; every definition names the code it translates in its
comment, and `PROJECT.json` ("map") gives the lines.

## 1. Inventory

### Components, their state and their operations

| Component | State | Operations | Talks to |
|---|---|---|---|
| protect (`protect/protect.go`, `cli/cli.go`) | table `inet nwall`; rows `nft_snapshot`, `apply_confirmed_at`; `protect.enabled` | apply, apply --confirm, enable, disable; a detached countdown per unconfirmed apply | nft, store, daemon (which applies too) |
| nft (`nft/exec.go`, `nft/render.go`) | the kernel table: rule text, lease sets with timed elements | check, snapshot, delete, load, add element | kernel |
| daemon (`daemon/daemon.go`) | `cancelRun`, `componentWG`, statuses, unix socket | Run, reload, stop and start of components, status, shutdown | everything below |
| lease agent (`lease/lease.go`) | nonces in the store, elements in the lease sets | verify a signed request, record its nonce, add the element | store, nft |
| lease trigger | configured token routes | HTTP GET to signed request | agent of another host |
| packet filter (`nft/render.go`, `dpi`) | chains, connection marks | verdict on a packet | kernel conntrack, NFQUEUE |
| downmask runner (`mask/mask.go`) | status, A/B states, day state, ratio history in the store | reconcile every period, pull over TCP or UDP | /proc counters, remote downmask server |
| downmask server | listeners, sessions, seed file | serve TCP streams and UDP sessions | puller |
| store (`store/store.go`, `conf`) | SQLite database | load and save the whole configuration, policies, statuses, nonces | all processes |
| update, uninstall (`cli/admin.go`) | installed files and their backups | back up, replace, restart, health check, restore | systemd |
| ingress, egress, geo, dpi | none kept | expand lists to prefixes, classify a payload | render, NFQUEUE |
| configuration commands (`cli`) | none kept | read, edit and write the whole configuration | store |
| TUI | screen, cursor, prompt, draft, a copy of the configuration | forms, lists, confirmed jobs, saves | store, protect, daemon |

The processes share no lock: a CLI command, the TUI, the daemon and the
countdowns each open the database and run `nft` on their own.  Inside the
daemon every reload is an HTTP handler, every component a goroutine.

### What is hard to test

* Order: two unconfirmed applies, an apply and a daemon reload, a confirmation
  and a deadline, two reload requests, two deliveries of one lease request.
* Stops between two steps: `nft delete` and `nft -f`, the load and the fork of
  the countdown, the nonce and the lease, a stopped component and its status.
* Time: a countdown against a confirmation, a nonce against its request, the
  clocks of two machines, a client's timeout against a long reload.
* State that outlives its owner: the one snapshot row, the confirmation row,
  ports that are still held, the lease elements in a table that is replaced, a
  day's accounts written as they were before a pull of minutes, the backup of an
  update that was killed.

`PROJECT.json` ("hazards") lists them at the lines where they bite, with the
property that would catch each.

### What makes each component correct

* protect: rules nobody accepted do not stay in force; what is rolled back to
  is what was there; a confirmation in time counts; no race loses the table.
* daemon: one generation of components at a time, none lost, statuses that tell
  the truth, every reload answered, every shutdown finished.
* lease: a signed request opens the host at most once and only while it is
  fresh, over restarts and replays; an unused lease ends.
* packet filter: which packets a configuration lets through, in the order the
  README of the repository promises.
* downmask: bytes are counted once, a day has one ratio, pulls make up for no
  more than the host sent; a pull is served once and accounted as it came, and
  sessions end.
* store: what is stored can always be read; a save keeps what it does not mean to
  change.
* TUI: the screen shows what is stored, a screen writes what it is about.
* update: a failed update puts back what was there before, one that succeeds
  leaves the files and the service of one release.

## 2. Modules

| Module | Models | Proofs | Runs |
|---|---|---|---|
| `Protect` | commands and countdowns over table and store | `ProtectProofs` | `ProtectCareful`, `ProtectFaults`, `ProtectStale`, `ProtectBusy` |
| `Daemon` | reload and lifecycle of the daemon | `DaemonProofs` | `DaemonSerial` |
| `Lease`, `Gate` | agent, nonces, lease elements; what they promise | `LeaseProofs` | `LeaseOnce`, `LeaseOwn` |
| `Downmask` | counters, the day's accounts, ratios, pulls | `DownmaskProofs` | `DownmaskDay` |
| `Update` | an update and its roll-back, over files and systemd | `UpdateProofs` | `UpdateSafe`, `UpdateLegacy` |
| `PacketFilter` | chains, connection marks, the DPI and its queue | `FilterProofs` | `FilterFlows`, `FilterBackend` |
| `Masking` | a pull and the servers it pulls from | `MaskingProofs` | `MaskPull` |
| `Settings` | a configuration, its rules, and what commands make of it | `SettingsProofs` | |
| `Config`, `Store` | processes that read and write the configuration; what they promise | `SettingsProofs` | `ConfigEdits`, `ConfigSeed` |
| `Tui` | a session of the TUI | `SettingsProofs` | `TuiSession`, `TuiRow` |

An `MC` module per module (`MCProtect`, ...) holds what the runs need beside the
specification; the configurations give the constants their values.

### Protect

A command (`Cmd`) goes through the steps of `applyWithStorePath`: `snapshot`
(`nft.Snapshot`), `save` (`SetRuntimeValue`), `delete` and `load` (the two `nft`
processes of `nft.Apply`), then `confirmAt`, or `clear` and `fork`
(`startRollbackTimer`).  A countdown goes through `RunRollbackTimer`: it polls,
expires, reads the snapshot, deletes the table twice and replays.  Each step is
one system call or one SQL statement, and any other process may come between.

A ruleset is the text `Render` makes of a configuration; `table` is the *set* of
the rulesets loaded since the last delete, because `nft -f` of
`table inet nwall {...}` adds to a table that is there.  `snapshot` is what the
table was when it was listed: it does carry neither the timers nor (a
simplification) the elements of the lease sets.  `Render` and `nft -c` are pure
and not modelled; an error of theirs is `Stop` at `snapshot`.

`trial` and `last` are history variables.  A ruleset is on trial from the load
of an unconfirmed apply that brought it in until an operator's `apply
--confirm` of it.

`StopAt` says at which steps a command or a countdown may return an error or be
killed (`Stop`, `TimerStop`).  `Ignored` says which errors that nobody looks at may
happen: `clear`, the row of a confirmation stays when an apply clears it
(`ClearSentinel`); `check`, the store does not open when a countdown looks for that
row (`TimerExpire`); `drop`, a delete of the countdown fails (`TimerDropFails`), so
that its replay adds to the rules on trial.  `Wait` says which operators there are:
those who wait for the running command, those who also wait for the countdown.  The
daemon (`DaemonCmd`) waits for nobody.

### Daemon

A generation is named by the reload that made its context.  A reload goes
through `stopComponents` in four steps (the two reads of `cancelRun` are
separate: nothing protects it), the load of the configuration, the apply, the
new context and the start of components.  A component goroutine is counted by
the WaitGroup from `Add` to its deferred `Done`, and writes its last status
before.  `Listen` and `Close` take and release its port or queue; a `Pair`
component (the downmask server, TCP and UDP) may fail on its second port while
the first goes on being served, and `CloseAbandoned` is the goroutine that
closes that one after the context ends.  `Boot` is the goroutine of `Run`, which
reloads at the start and stops the components at the end.  `Serial` restricts
requests to one at a time.

Go's WaitGroup panics when an `Add` of another reload falls between the last
`Done` and the return of `Wait`: the step `woken` of `WaitComponents`.  `Apply`
is one step here; `Protect` has its parts.

### Lease

A handler goes through `Verify` (`handle` up to `RecordNonce`), `Purge` and
`Insert` (the two statements of `RecordNonce`) and `AddLease`.  Requests may be
delivered any number of times and late (`Conn`), the agent stopped, killed and
started, the table deleted and loaded.  The clock is the agent's, in seconds.
A sender signs with a clock that is `Skew` seconds off.  `Stall` is the longest
time a handler takes from its checks to its end.

A countdown's roll-back loads what was listed before (`TakeSnapshot`, `Replay`): an
element is listed with the time it has left, and a table that is rolled back gives
it that time again, counted from then, whether or not it has ended since.  That
`nft` takes the listed `expires` is assumed (it does since 0.9.2).  `Lease` lets a
replay come at any time; when one does is what `Protect` models.

`nft add element` of an element that is there renews its timeout or keeps it,
depending on the kernel: `AddLease` allows both.

`Gate` is what this promises, without connections, nonces, restarts and tables:
requests are issued, each opens its prefix at most once and not later than
`Late`, packets keep a prefix open, all prefixes may close at once, and what was
noted of the open ones may be put back, with the time they had.  `Lease` implements it (`Gated`): a request is spent when it has been granted, a prefix
closes when its element expires, and `Late` is the window and a handler's time.

### Downmask

A process that reconciles (the daemon's runner, or `nwall downmask run`) goes
through `reconcileDownmask`: `Begin` and `ReadTX` read the two counter files,
`LoadState` the row of the day, `Lookup` the history; `SaveDay` and
`SaveHistory` are the two writes of `prepareDayState`; `Skip` or `StartPull`
decide, `PullByte` and `EndPull` are the pull, `Finish` the last write.  Anything
may come between: traffic, a counter that begins again, the next day, a kill
(`Stop`), and, unless `Serial`, another process.

`total` and `base` are the kernel's: what an interface ever received and sent,
and how much of it the counters have forgotten.  The fields `born`, `seen`,
`forgot` and `paid` of a state, and `pulled` and `used`, are history: from what
on the row counts, and what pulls there were.  Ratios are ten-thousandths, as
`round4` makes them, of bounds that are finer by the factor `Fine`.  Pulled bytes
may arrive on another interface, since `pullAB` is not given the one accounted;
`Stray` bounds for each how many do (0: the route to the targets is its own).  A
pull is one `PullByte` after another, with any end, and reads no more than it asked
for, as over TCP; over UDP it may read less than a packet more (`NoOvershoot` of
`Masking`, which has the pull's inside).

### Masking

One pull (`pullAB`) and the servers it pulls from.  A `leg` is the part of one
protocol (`pullABProtocol`): it draws one of the targets left (`PickTCP`,
`PickUDP`, or `PickFails` for one that cannot be asked), reads, and is done when
that target sent anything, else crosses it out (`TryOver`).  `mode` says which legs
there are and whether they go at once (`parallel_limit`) or UDP after TCP
(`Turn`); `Return` adds up (`sumABResults`).  Over UDP a leg asks up to `Retries`
times (`Ask`), and reads until nothing comes for a while (`EndReads`).

A server has a goroutine per connection and per UDP session (`streams`), the
sessions' numbers (`keys`), and is `up`, `closing` (its listeners are closed) or
`down` (`runServeContext` has returned and closed the seed); a session of before
goes on after that until its next write fails.  The network loses any request or
packet, delivers late, and `MaxFaults` times delivers one twice.  Timeouts are
free: whatever waits may give up at any time, which allows more than the
deadlines of the code do; that it must give up at some time is the fairness of
`PullEnds`.  `got` and `sent` are history.

### Settings, Config and Tui

`Settings` is the configuration as the store has it (`Config`), the defaults and
normalisations of a load and a save (`ApplyFallbacks`, `NormalizeProtect`,
`NormalizeIngress`, `Prepared`, `Loaded`), the validation, and, for every
configuration command, the set of configurations it may leave (`ProtectConfig`,
`CN`, `IngressPortCity`, ...).  Ports are numbers, one of them out of range;
addresses, provinces, cities, routes and terms are names, and `BadTerm` are those
that are not valid.

In `Config` several processes run commands.  A command opens the database, which
seeds the defaults of a new one statement by statement (`ReadFlag`,
`CheckPorts`, `InsertPorts`, ..., `Mark`); reads the tables one at a time in the
order of `LoadConfig` (`Read`); edits its copy; opens the database again; and
writes everything in one transaction (`Prepare`, `Commit`).  `Stop` is an error, a
kill or the end of a command that only shows something.  `stale`, `clean` and
`saved` are history: a process is stale when another one wrote after it began, and
`clean` is true until a stale one writes.

`Store` is what this promises the commands, without processes, transactions and
table-wise reads: one configuration, always acceptable, whose defaults are put in
once and completed before any command (`OpenDefault`, `SkipDefault`, `Complete`),
which each command changes in one step (`Command`), until a process writes that
was overlapped (`Overlapped`).  `Config` implements it (`Atomic`): `conf` is what a
load would make of the rows, `fresh` that the flag is not set, `quiet` is `clean`.
`asked` is history too: the configuration a command made of its copy.
A command reads `CurrentRanges` before its transaction, and a copy of what was read
long before: that both are still right when it commits is what the refinement is
about.  Two simplifications: the port policies and the routes are read in one step
each, where the code asks once more for every row (store.go:593-655), and
`ProtectConfig` takes one port per option, where the command takes any number.

`Tui` is one session (`model` of `tui.go`): the screens and what leads from one to
another, the cursor, the prompt, the draft of a port policy, the confirmed job in
its goroutine, and `mem`, the session's copy of what is stored.  A key that
saves writes all tables (`Attempt`), then loads them again; either may fail.
`Written` is what a command of another process may make of the store: protection on
or off, the regions of both directions, a masking target less.  It comes between
keys (`Other`) or within a load (`Load`, `Seen`), which has then read some tables
before it and the rest after it (`torn`).  Names that `Config` has too are
set apart (`TuiInit`, `TuiNext`, `TuiSpec`, `MoveCursor`), because one module,
`SettingsProofs`, proves about both.  What is typed is any valid value;
what is not valid leaves the prompt as it is.  A list is the set of its rows: the
cursor is a number, and what matters is whether there is a row at it.

### Update

`update` goes through `runUpdate`: `Backup`, `Survey`
(`activeOrEnabledUnits`), `InstallBin` and `InstallUnit`, `RemoveLegacy` unit by
unit, `Reload` (daemon-reload), `Restart`, `Healthy`; a failure of any of these
leads to `RestoreBin`, `RestoreUnit` unit by unit, `RestoreReload`, and
`RestoreRestart` for what was active or enabled.  Each of those may fail too.

A unit has a file, a version of it systemd has `loaded`, a process made from some
release (`runs`), and may be one that systemd keeps active (`on`); `Die` and
`Revive` are the process that ends and `Restart=on-failure`.  `Kill` ends an
update anywhere: its backup is in a temporary directory no later update looks
at.  `before`, `outcome`, `mishap` and `count` are history.  Downloads and the
check of their sums come before anything is changed and are left out; whether
the new release is well is the choice between `Healthy` and `Fail`.

### PacketFilter

`Ingress`, `Forward` and `Egress` are the three base chains of `render.go` with
their jumps (`Guarded`, `Listed`, `Allowed`), as verdicts on a packet: accept,
drop, or queue for the DPI.  A packet is sent (`Send`) or answered (`Reply`), and
changes the kernel's entry of its connection (`track`, `mark`) when it is
delivered; a reply does so when it is seen.  The DPI judges what is queued
(`Judge`, the callback of `dpi.Run`) in any order, or a packet is lost (`Lose`).
Around them tables are deleted and loaded, leases granted and expire, the DPI is
attached with the configuration of the daemon, which need not be that of the
rules, and detached; entries time out (`Forget`).  While there is no table
everything passes.

Ports are those seen from outside, before DNAT.  `MayBegin` is the
policy the README of the repository states; `Inspects` says where protocols are
to be looked at.  `admitted`, `carried` and `exempt` are history.  A connection
that was served while rules did not block and is still marked as pending is
judged again when they do: `SessionsSurvive` leaves it out.  README.md:56 says
that invalid packets are dropped first; the open ports come before that rule, on
purpose (render.go:98), and the model follows the code.

## 3. Runs

| Run | Instance | Shows |
|---|---|---|
| `ProtectCareful` | 3 commands, 2 rulesets, early errors | trials never settle, table never lost, confirmations in time are seen, trials end |
| `ProtectFaults` | the same, every step of commands and countdowns may stop, clearing and deleting may fail unnoticed | an accepted roll-back is exact, after a confirmation no countdown runs out |
| `DaemonSerial` | a server on two ports, a runner, 2 requests one after the other, crashes, fairness | no leak, ports released, statuses current and true; every reload returns, every shutdown ends |
| `LeaseOnce` | 2 requests, 3 deliveries, clock to 5, window 2, handlers of up to a second, roll-backs | once at most, nonces kept long enough; unused leases end; the agent implements `Gate`, so only fresh requests open it |
| `DownmaskDay` | 1 process at a time, 2 interfaces, 2 days, 2 bytes of others' traffic, a byte pulled for one interface may arrive on the other | bytes count once, one ratio a day, a ratio differs from the one before; no pull beyond the debt, and no more than was ever sent asks for, where pulls arrive on their interface |
| `UpdateSafe` | 2 updates, 2 releases, 1 unit of before | a clean roll-back restores files and active units, a success leaves one release's files and service |
| `FilterFlows` | 5 connections of all hooks, two at a time, 4 configurations, 1 lease, a queue of 1 | who begins, what is blocked, sessions and replies that pass |
| `FilterBackend` | 1 connection to a backend, blocking and a list | violation: the backend's reply is dropped |
| `MaskPull` | 1 pull of 3 bytes in packets of 2, each of 4 modes, 2 servers, one of them with another token; 2 attempts, 1 duplicate or stop | one session at a time, no more read than a packet beyond, what is reported is what came, a bound on what is sent; every pull and goroutine ends |
| `ConfigEdits` | 2 processes, 2 commands, a new store and one in use, 3 ports, everything else once | no lock-out, regions in force, a command stores the edit it made, whole and only it; the processes implement `Store` |
| `TuiSession` | every screen, 2 edits, one row in most lists, failing saves, one command of another process | the screen shows the store, selections are in force unless a load was torn, a screen writes its own |
| `TuiRow` | a list of 2 addresses | violation: Enter on a row that is gone |

Five more configurations are kept for what the properties above leave out.  They are
not among the regular runs; each ends at once with the counterexample that
section 5 describes (`tlc -config ProtectStale.cfg MCProtect`, and so on):

| Configuration | Instance | Violates |
|---|---|---|
| `ProtectStale` | 2 commands, clearing may fail unnoticed | `TrialNeverSettles`: the row of an earlier confirmation ends the countdown of a new apply |
| `ProtectBusy` | 2 commands, the store may not open for a countdown | `ExpiresOnlyOnTrial`: confirmed rules are rolled back |
| `LeaseOwn` | 1 request of a term shorter than the global one | `OwnTimeGoverns`: a packet gives the lease the global one |
| `UpdateLegacy` | as `UpdateSafe`, 1 update | `FailedVersionGone`: a failed version goes on without its unit file |
| `ConfigSeed` | as `ConfigEdits`, a new store | `NotReopened`: the default port is inserted after a command closed it |

**Bounds.**  Three commands are the fewest for one command's countdown to run
between two others; two rulesets are the fewest for a wrong one to be told from
a right one; two are enough for a confirmation and an apply after it
(`ProtectStale`).  Two requests after the boot are the fewest for a reload that
follows a reload that failed.  A window of 2 and a clock to 5 let a request be
sent, delivered, expire and be delivered again twice over; three deliveries let
two be handled at once and one come later; a second for a handler lets time pass between
its checks and the element, and a sender that is behind by that much or more keeps
the window's other end as far away as `OnceOnly` needs it.  Stop points in `ProtectCareful` are
those before anything is changed: a command that fails after the load and
before the fork leaves rules in force that nothing will roll back, which is in
the order of the calls and shown by no run (`StopAt = {"fork"}` shows it).
`ProtectFaults` stops anywhere; where a countdown is killed, or its replay fails,
after a delete, no table is left, and `RollbackIsExact` speaks of the others.

`FilterFlows`: connections meet in the queue only and leases concern their own
address, so two connections at a time and one lease show what there is; four
configurations switch blocking on and off, change what is blocked, add a list of
a port, open one and exempt another.  `DownmaskDay`: two interfaces for a default route that moves and moves back, two
days for a ratio that must differ, one second in two for the window to open and
close on each; two bytes of traffic make a debt of up to four, more than
`max_bytes_per_run`, and leave room for a counter that passes its old value after
it began again.  The bounds of the ratio, 2 and 7 thirds of a ten-thousandth, are not
on the grid and round to 1 and 2: a repeated draw is moved up from the one and down
from the other.  The first byte pulled for
one interface may arrive on the other, which leaves a debt as it was.  `UpdateSafe`: two updates, so that the second starts from the
mix of releases a killed one left; one unit of before, since the units of before
are all treated alike.

`MaskPull`: three bytes in packets of two are the fewest for a full packet and a
short one, and for a second sending to overshoot; two servers for one to be
crossed out, the first over both protocols, the second a `Stranger`; two attempts
for a second one that finds the session of the first still there, where the code
has three; one fault for a stop within a session or a request that comes when it
is over.  `ConfigEdits`: two processes for one to write between another's
statements, two commands for one of them to have saved before.  The store in use
has a row in most tables.  `TuiSession`: two edits, so that one follows a failed
one or one on another screen, two targets for one to be renamed, and one write of
another process (`MaxWrites`), at any time and between any two tables of any load.

The types (`TypeOK`) are proved and checked by no run; of `TuiTypeOK` all is proved
but that the row is a number, which would need the lists to be finite.

**Special cases.**  Things the properties exclude by a constant, and that show when it
is changed: `TrialNeverSettles` of `ProtectCareful` with `Wait = {"command"}`, and
with one command in `DaemonCmd`; `ReloadReturns` of `DaemonSerial` with `Serial =
FALSE` (and `Settled`, which has no crashes); `AtMostOnce` of `LeaseOnce` with `Skew
<- Ahead`; `NoOverPull` of `DownmaskDay` without its condition on
`Stray`, and `PaysOnce` with two processes.  Section 5 says what each means.

**Fairness.**  `Protect`: a command that has been started goes on, and a
countdown, which is a process of its own, reaches its deadline; commands need
not be started.  `Daemon`: the Go scheduler runs every goroutine that can run,
so each step of a handler and each end of a component is weakly fair; a pull
ends because its targets, attempts and deadlines are finite; the runner's
`select` picks at random between a tick and its context when both are ready, so
it does not pick the tick for ever: strong fairness of `Quit`.  Nothing is
assumed of `Configure`, crashes, requests or signals.  `Masking`: the client's
dial, reads and overall time have deadlines (`SetDeadline`, `SetReadDeadline`), a
server's header 15 s, its writes 60 s, a session 10 minutes, so that client and
goroutines always come to their next step; nothing is assumed of the network, or
of who stops and starts servers.

## 4. What is proved

`ProtectProofs`, for any commands, rulesets and daemon:

* `TypeCorrect`: `Spec => []TypeOK`.
* `TrialsEndCareful`: with careful operators (`Wait` holds both, no daemon
  applies, stops only before the first change, no error but that of the store a
  countdown looks into is ignored) `[]TrialNeverSettles`.  The
  invariant says that while a ruleset is on trial, the command that put it there
  is still on its way to forking a countdown or its countdown is alive, that the
  stored snapshot is what that command found, and that the sentinel, when it is
  set in that time, was not set for it.  None of that is in the property: the
  property speaks of quiescent states only.
* `ConfirmationSeen`: `Spec => ExpiresOnlyOnTrial`, for the same operators and a
  store that opens.  A countdown is forked by the last step of its command
  (`Forked`), and one that counts while no confirmation is written is of a ruleset
  that is still on trial or was in force before (`OnTrial`).
* `RollsBackExactly` and `ConfirmIsFinal`: `[]RollbackIsExact` and
  `ConfirmSettles` for operators who wait and a daemon that applies nothing
  (`Patient`), whatever step fails, is killed or has its error ignored; the second
  for countdowns that can open the store, without which it is false.  The invariant: whoever is at work started last and only an apply forks a
  countdown (`Order`); where each step of a confirmation and of a trial has left
  table, snapshot and sentinel (`ConfirmOf`, `RollbackOf`).
* `TableSurvives`: `[]FirewallNotLost`, for careful operators.  What the property
  asks of the end held at every time before (`Sound`), and then a table is missing
  only while somebody is about to load one (`Tabled`), and what is stored to be
  put back is one (`Snapped`, `Found`).

`LeaseProofs`, for any requests, connections, prefixes, window and clocks:

* `TypeCorrect`: `Spec => []TypeOK`.
* `OnceOnly` and `NoncesKept`: `[]AtMostOnce` and `NonceOutlivesRequest` for
  `Synchronised` senders, whose clocks are not ahead (by so little as the time a
  handler takes).  The invariant: a request was signed in the past by its own
  clock (`Signed`, `CheckedLater`), a recorded nonce expires no sooner than the
  request does (`Kept`), and of the handlers of one request at most one is about
  to write, with its nonce recorded or no longer needed (`Single`).  Without
  the assumption it does not hold (section 5, 9).
* `IdleEnds`: `[]EndsWhenIdle`, for any clocks: an element expires no later than
  the global term, or that of a request that opened it, after its last packet, grant or
  return by a roll-back; and no element is listed with more time than that (`Bounded`).
* `ImplementsGate`: `Spec => Gated`, for synchronised senders: each step is a step
  of `Gate` or leaves its variables alone, from the same invariant.

`UpdateProofs`, for any units, releases and number of updates:

* `TypeCorrect`: `Spec => []TypeOK`; a roll-back always has a backup.
* `RollsBackExactly` and `SucceedsWhole`: `[]RollbackExact` and
  `[]SuccessIsWhole`, with kills and updates before that left a mix.  The
  invariant: the backup is of what the update found (`Kept`), and what the steps
  so far have put in place, going forward (`Installing`) and back (`Restoring`),
  whatever processes end and are revived meanwhile.

`FilterProofs`, for any addresses, ports, configurations and connections:

* `ChainsArePolicy`: the verdict of the chains on a first packet is the policy:
  a statement about the operators, for every configuration.
* `TypeCorrect`; `PolicyDecides`, `BlockingHolds`, `ReloadsSpare` and
  `RepliesHeard`: the four invariants of `FilterFlows`.  The inductive invariant
  (`Rest`) says what a mark means: an entry without one belongs to a connection
  nobody is to look at (`Unmarked`), one with the final mark speaks what some
  configuration does not block (`Passed`), one that is pending has not been
  served (`Served`), the host's own connections have none (`Outgoing`); and that
  what is queued was let in or belongs to an entry (`Queued`).

`MaskingProofs`, for any targets, modes, sizes, percentages, attempts and faults:

* `TypeCorrect`: `Spec => []TypeOK`.
* `ReadsNoMore`: `[]NoOvershoot`.
* `ReportsWhatCame`: `[]ReportIsReceived`.  The invariant: what was read is what the two
  legs count; a leg drops a target only while it has counted nothing of it.
* `ServedOnce`: `[]OneSession`, over any stops and starts: the sessions of the
  server that is there are at most one, and its number is taken just as long; those
  of servers before have no number.
* `SendsNoMore`: `[]SentIsBounded`.  Not only what was sent stays within the bound,
  but that together with all that the requests on their way and the session of
  now may still have sent (`Bounded`).  A request becomes one session, since there
  is one at a time (`OneSession`), and a second request of an attempt can only be
  the network's.

`DownmaskProofs`, for any interfaces, ratios, windows, sizes and clocks:

* `TypeCorrect`: `Spec => []TypeOK`, with `base <= total` and a state in every job
  that does something with one (`TypeInv`).
* `RatiosDiffer`: `[]RatioMoves`, for any number of processes at once; between bounds
  no further apart than a step of the rounding a ratio may repeat, and the property
  says nothing.
* `DayKeepsRatio`: `[]OneRatioADay`, if one process at a time reconciles (`Serial`),
  as in the next two.  The invariant (`RatioInv`): the history has an entry, of the
  ratio of the state, before a pull is made; and one that is there is not written
  again, since a new ratio is only drawn, and a missing entry only completed, when
  there is none.
* `BytesCountOnce`: `[]CountsOnce`.  The invariant says of a state what its last
  reading knew to be forgotten, and that the counters have forgotten that since, or
  all that was seen (`CountOf`); and of a reading that it is later than the state
  (`ReadOf`), which holds for one process only.
* `PullsFollowTraffic`: `[]NoOverPull`.  Where pulls arrive on their interface
  (`Stray[i] = 0`), what was pulled is among what was received (`PaidOf`), a debt leaves out all that the last reading saw, and a pull of a rest
  plus what was already received is no more than a pull of both (`MostAdds`, about
  the rounding of `applyPercentJitter`).
* `PullsArePaidOnce`: `[]PaysOnce`.  Of an interface whose counters forgot nothing,
  each state begins at most with what the bytes sent until then ask for
  (`BornPaid`), and `NoOverPull` bounds what it adds.  Rounding is per state, half
  a byte each, and a state that pulls anything has seen a byte sent: hence the 50
  percent more in the property.

`DaemonProofs`, for any components, requests, crashes, failed loads and edits of the
configuration:

* `TypeCorrect`: `Spec => []TypeOK`, for serial requests and concurrent ones.
* With requests one after the other (`Serial`), `NothingLeaks` (`[]NoOrphan`),
  `PortsAreLeft` (`[]PortsReleased`), `NoLateWord` (`[]StatusCurrent`) and
  `ShownIsAlive` (`[]RunningIsAlive`), from one invariant (`IInv`): at most one
  reload is in progress (`OneReload`); what it found or left at its step, above all
  that nobody runs between its `Wait` and its start (`Stage`); and so every
  goroutine is of the one generation whose statuses are shown, which `cancelRun`
  cancels (`Generations`).  A port is held by one that serves, or was left by one
  that listens twice (`Ports`).  None of the four is inductive alone: a reload that
  starts components needs the wait before it to have seen every one of them.

`SettingsProofs`, for any processes, commands, settings and stores (ports are
numbers, and those between two ports are ports):

* About the operators: the ranges made of valid ports stand for just those ports
  (`ExpandCompress`); loads and saves lead from valid configurations to valid ones;
  every command leaves a configuration in which ports and ranges were changed
  together and provinces are selected only where the mode lets them in (`EditsOK`);
  what a save of an edited copy stores is, loaded again, the edit (`SaveIsEdit`).
* `Config`: `TypeCorrect`, `NobodyLocked` (`[]NeverLocked`), `RegionsStayInForce`
  (`[]RegionsInForce`) and `CommandsAreAtomic` (`EditIsAtomic`), from one invariant
  (`Inv`).  `Accepted` says what is valid of the
  store and of every copy, half-read ones included; it needs no order of
  processes, because what is valid is valid table by table (`ValidByField`), and so
  is any mix of two saves.  `Serial` says what a process nobody overlapped with has
  in memory at each step: a part of the store, all of it, an edit of it, the edit
  made ready, and that the edit is the one the command was asked for.  `Seeding` says when the default port may still be inserted.
  `ListsStayEqual`: where no stale process has written, the two lists of open
  ports agree, which is the condition of `EditIsAtomic`.
* `ImplementsStore`: `Spec => Atomic`.  The initial states map to initial ones, and each
  step of `Config` to a step of `Store` or a stutter: `InsertPorts` to `OpenDefault`
  (`InsertIsOpen`), `InsertSkip` to `SkipDefault`, `Mark` to `Complete`, a `Commit` to
  `Command` or, when it is stale, to `Overlapped`.  Besides `Inv` it takes `Skipping`,
  which is for the list of skipped ports what `Seeding` is for open ones: the flag
  is never set before both are filled, wherever a process is killed.
* `Tui`: `ScreensShowTheStore` (`[]ShownIsStored`), `SelectionsCount`
  (`[]SelectionInForce`) and `ScreensKeepToTheirOwn` (`ScreenWritesItsOwn`), from
  `ScreenInv`.  `Copies`: what is stored is as a save leaves it (`Canon`: lists that
  agree, a listening address, no city of a selected province), the session's copy
  and a job's are at least typed and have selections in force unless a load was torn,
  and one of the two is what is stored until a save fails or another process writes.
  A save of the whole copy then changes only what was edited, because a save of what is `Canon`
  changes nothing (`CanonSame`, `StoredKept`), and what it makes anew from an
  edited table are tables of the same screen (`OwnedClosed`).  `Dialogue`: a prompt
  is answered on the screen it was opened on, with values of that screen's type,
  and a job runs only while its screen is shown.

Two properties were restated when their proofs failed, and were false for larger
instances than the runs have.  `PaysOnce` summed over the interfaces without room
for rounding: two states of one day on one interface may each be rounded up.
`EditIsAtomic` took the two lists of ports to agree: a process that was overlapped
while it filled in the defaults can leave a port open that no range names, and a
later command, which nobody overlapped with, makes a range for it.  The runs check
the properties as they are now.

Each proof has the three facts Init => IInv, IInv /\ [Next]_vars => IInv' and
IInv => Inv.

The constants are assumed to be what the code has: in `Settings` that some term is
valid, that a store in use is as a save leaves it, and that `None` is none of the
values it stands beside; in `Tui` that a row of the masking's screens has a value.
Where a proof needs a least port (`ExpandCompress`) it cites that the natural
numbers are well-ordered; no proof is by induction over data.

Only model-checked: the liveness properties (`TrialEnds`, `ReloadReturns`,
`ShutdownEnds`, `PullEnds`), which are out of the prover's reach.  Every safety
property of a passing run is a theorem, some under assumptions on the constants
that the theorem names; `ProtectStale` and `ProtectBusy` show why two of these are
needed.

## 5. Findings

With a run that shows it:

1. With blocking and an ingress list on, connections to backends behind DNAT do
   not come about (`FilterBackend`).
2. Editing a row of a list of addresses into a copy of another leaves the cursor
   behind the last row, and the next Enter ends the TUI with a panic (`TuiRow`).
   Clearing the list and adding one address does the same; a list of routes shrinks in
   this way when one is renamed to another's name.

With a configuration that shows it, beside the runs:

3. When the store does not open, an apply leaves the row of an earlier confirmation,
   and its own countdown ends by it: rules nobody confirmed stay (`ProtectStale`).
4. When the store does not open at its deadline, a countdown rolls confirmed rules
   back (`ProtectBusy`).
5. A lease with an `idle_ttl` of its own below the global one gets the global one with
   its first packet (`LeaseOwn`).
6. A failed update of a host of older units leaves the new service running, without a
   unit file (`UpdateLegacy`).
7. Of two commands on a new store, the one that fills in the defaults can open port
   22 again after the other closed it (`ConfigSeed`).

By changing a constant of a run (see "Special cases"):

8. Overlapping unconfirmed applies leave unconfirmed rules in force: the second
   apply's snapshot is of the rules the first has on trial, and that is what its
   countdown restores.
9. A request of a sender whose clock is ahead can be replayed: its nonce is purged
   one window after it arrived, while the request is still within its own.
10. A daemon reload confirms rules on trial, since it applies with `confirm=true`.
11. Concurrent reload requests can hang a reload and leak components.
12. Where the route to the targets leaves by another interface than the one accounted,
    the debt never shrinks and is pulled again and again (README.md:215 of the
    repository asks for an interface to be named on hosts with several).
13. The daemon and `nwall downmask run` pull the same debt twice (`PaysOnce` with two
    processes, `Serial = FALSE`, `Percent = 0` and room for the whole debt in
    `MaxRun`).

And two that the properties of `Tui` leave out: after a save that failed, the edit is
still in the session's copy and goes to the store with the next save; and a load
that another process wrote into can show provinces with the mode of before, which
the next save stores (`SelectionInForce` without `~torn`).

## 6. What is not modelled

* ingress, egress and geo: they expand a configuration to address prefixes once,
  from tables that do not change, and keep no state.  `PacketFilter` takes their
  results as sets of addresses.
* uninstall: a sequence of removals that is not undone.
* geobuild: a build tool, run by the developers over downloaded data.
* the shell scripts, the unit file: thin wrappers of the commands above.
* of the TUI, its drawing and the parsing of typed text; of the store, the schema
  and its migration; of the lease trigger, HTTP; of updates, downloads.

Worth doing next: an abstract trial (accepted or rolled back) that `Protect`
implements; an abstract account (owed and paid) that `Downmask` implements.
