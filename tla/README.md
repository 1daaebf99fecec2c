# TLA+ models of lmkd

This directory holds TLA+ models of the Android low memory killer daemon
(`src/lmkd.cpp`), and TLC configurations that check them.

## The system

lmkd is one process. Its main thread runs an epoll loop (`mainloop`) and
handles each event to completion. The parts that matter here are:

- **Process registry.** `pidhash` plus the `procadjslot_list` buckets, one per
  oom_score_adj. Framework peers fill it over the control socket with
  `LMK_PROCPRIO`, `LMK_PROCREMOVE` and `LMK_PROCPURGE`. Each record
  remembers the peer that registered it (`claim_record` and `remove_claims`),
  and, with pidfd support, holds a pidfd opened at registration.
- **Decision engine.** `__mp_event_psi` classifies PSI events into "no kill"
  or "kill down to min_score_adj". It first checks that no kill is in flight
  (`is_kill_pending`). Between invocations it keeps statics: the refault and
  file-LRU baselines of the current thrashing window, the carried
  `prev_thrash_growth`, `thrashing_limit`, `killing`, `check_filecache` and
  the `first_kill` one-shot. A kill decision is the first matching row of an
  if-chain over the watermark band, swap, reclaim, thrashing and the
  critical stall.
- **Memory event listener.** With BPF memevents, `memevent_listener_notification`
  records direct reclaim and kswapd start times (which replace the pgscan
  counters in the reclaim test), recomputes the watermarks on
  `UPDATE_ZONEINFO`, and runs `__mp_event_psi` for a vendor kill event.
- **Killer.** `find_and_kill_process` walks the buckets from 1000 down,
  picking the tail or the heaviest record. `kill_one_process` checks the
  victim's /proc status, starts a wait on it and hands the kill to the
  reaper.
- **Reaper.** Threads in `reaper.cpp`, which is not in this repository. They
  send SIGKILL asynchronously through a dup of the pidfd. A failure is
  written back to a pipe, whose reader is `kill_fail_handler`.
- **Kill wait.** `start_wait_for_proc_kill` and `stop_wait_for_proc_kill`.
  The wait ends in one of three ways: the victim's pidfd becomes readable
  (`kill_done_handler`), a failure report arrives, or `kill_timeout_ms` runs
  out in `mainloop`.
- **Polling scheduler.** `poll_handler` and `paused_handler`, updated by
  `call_handler` from the handler's `POLLING_START`, `PAUSE` or `RESUME`
  request.
- **Control socket server.** Up to `MAX_DATA_CONN` (3) data connections in
  `data_sock[]`. Each slot keeps the peer pid learnt from `SCM_CREDENTIALS`
  and an `async_event_mask` (kill subscriptions). `maxevents` counts the
  epoll registrations.
- **Kill counters.** `inc_killcnt` after every kill and `LMK_GETKILLCNT`
  (`get_killcnt`) reading them.
- **Watchdog.** A second thread. When a handler overruns
  `WATCHDOG_TIMEOUT_SEC`, `watchdog_callback` picks a victim under the shared
  `adjslot_list_lock`, kills it synchronously and marks its record invalid
  (`pid_invalidate`). The main thread's registry changes take the lock
  exclusively, but only around the bucket-list edits.
- **Legacy vmpressure handler.** Without PSI, the kernel's vmpressure
  eventfds of levels low, medium and critical feed `mp_event_common`. A level
  event is counted by that level's eventfd and every lower level's (the
  default mode). One epoll batch can thus call several level handlers. The
  first handler reads and clears every counter and acts at the highest level
  signalled. It then picks a min score: from the minfree table, or from
  `level_oomadj`, with memcg pressure and swap upgrading, ignoring or
  downgrading the level. It kills, rate-limits the failure reports and pauses
  polling while the kill is awaited.
- **`LMK_TARGET`.** `cmd_target` replaces the minfree table that the minfree
  levels path reads, at most once a second. It publishes the table as
  `sys.lmk.minfree_levels`.
- **Configuration** (`update_props`, `init`) is not modelled (see below).

## Modules

**`Registry.tla`** is the abstract registry. `recs` maps a pid to its score
and its owner peer. Its actions are the following:

- `Add`, `Change`, `Unregister`, `PurgeOwned` and `Orphan`. These are the
  peer commands, guarded by `Claimable` (`claim_record`).
- `Evict`, which drops records without their owner. It is allowed only
  while `selecting` is TRUE, that is, during victim selection.

**`Lmkd.tla`** is the main-thread model together with the reaper and the
kernel. Its state corresponds to the code as follows.

| variable | code |
|---|---|
| `proc` | `pidhash` records: `pidfd`, `oomadj`, `reg_pid`. `regGen` is a ghost field naming the process instance that was registered. |
| `slots` | `procadjslot_list`. A sequence per score, with the newest record at the head (`adjslot_insert`) and `adjslot_tail` as `Last`. |
| `fdOf` | the open pidfds and the process each one pins |
| `lastKill` | `last_kill_pid_or_fd` |
| `timerExp` | whether `kill_timeout_ms` has passed since `last_kill_tm` |
| `rq` | the reaper's request queue, at most `ReaperThreads` entries |
| `pipe` | the reaper failure pipe |
| `conn` | connected peers |
| `polling`, `paused` | `poll_handler`, `paused_handler` |
| `killing` | `killing` in `__mp_event_psi` |
| `mst`, `cur`, `minAdj`, `ksize` | where `find_and_kill_process` is in its walk. Its loop is split into `ScanStep`s, which is sound because nothing else runs on the main thread during the walk; `MpEventPsi` and all peer commands require `mst = "idle"`. |
| `os`, `gen` | the kernel's view of each pid: alive, killed, zombie or dead, and how many times the pid was reused |
| `victim` | the process of the kill in flight. `wrongKill`, `badClose` and `badUse` are history flags: a signal sent to a different instance of the pid, a close of a descriptor that is not open, and a reaper request on a closed descriptor. |

Each main-thread handler is one action, which includes every function it
calls. The function calls are composed as operators over a state record
(`Cur`, `Commit`):

- `ProcPrio` is `cmd_procprio` → `apply_proc_prio` → `register_oom_adj_proc`,
  including `pidfd_open`, `claim_record`, `proc_insert` and the
  unslot/slot.
- `ProcRemove`, `ProcPurge`, `PeerConnect` and `PeerDisconnect`
  (`ctrl_data_close` → `remove_claims`).
- `MpEventPsi` is the kill-pending gate, `stop_wait_for_proc_kill`, the
  classification (abstracted to a choice) and the scheduling tail at
  `no_kill`.
- `ScanStep` is one bucket step of `find_and_kill_process`, with
  `proc_get_heaviest` / `proc_adj_tail`, `kill_one_process`,
  `start_wait_for_proc_kill`, `Reaper::kill` and `pid_remove`. `EndScan` is
  the tail of `__mp_event_psi` after the kill.
- `KillDoneHandler`, `KillFailHandler` and `KillWaitTimeout`.

The other actions belong to the reaper and the kernel:

- `ReaperWork` is a reaper thread that serves one request.
- `ProcExit`, `Reap`, `PidReuse` and `TimerExpire` are the environment.

`Reg == INSTANCE Registry WITH recs <- AbsRecs, selecting <- (mst = "scan")` is
the refinement mapping.

**`CtrlConn.tla`** is the control-socket server. `sock`, `dpid` and `mask`
are `data_sock[].sock`, `.pid` and `.async_event_mask`. `maxevents` is the
epoll count, `reg` the `reg_pid` of each record, and `subs` a ghost set of
the peers that subscribed on their current connection. Handlers are composed
from the functions they call (`Cur`/`Commit`):

- `CtrlConnect` is `ctrl_connect_handler`. It uses `get_free_dsock`, the
  overflow that runs `ctrl_data_close` on every slot and takes slot 0, a
  failing `accept` and a failing `epoll_ctl` (which runs `ctrl_data_close`).
- `CtrlHup` is the EPOLLHUP branch of `mainloop`.
- `CtrlCommand` is `ctrl_data_handler`. It includes `ctrl_data_read`, which
  stores the sender's pid or closes the connection when credentials are
  missing, and the PROCPRIO, PROCREMOVE, PROCPURGE and SUBSCRIBE cases of the
  dispatch.
- `KillRecord` is a kill removing a record.

**`KillCount.tla`** holds the kill counters. `killcnt_idx` is a partial
function from the scores that have an entry (the others hold
`KILLCNT_INVALID_IDX`). `killcnt` is uint16 (`% 2^16`) and `killcnt_total`
is a plain integer, kept far below 2^32 by the bounds. `Kill` is the
`inc_killcnt` of `kill_one_process`. A GETKILLCNT changes nothing, so its
reply `cmd_getkillcnt` is checked in every state for every query. An
out-of-bounds read below -1000 adds a nondeterministic value from
`JunkCounts`.

**`Watchdog.tla`** is the watchdog thread against the main thread. The main
thread's registry changes are split into the steps the code takes:

- `RegisterHash` is `pidfd_open` and the pidhash link of `proc_insert`.
- `RegisterSlot` is `proc_slot`.
- `RegisterMove` is the unslot/slot of a score change.
- `PidRemoveUnhash`, `PidRemoveUnslot` and `PidRemoveFree` are the three
  steps of `pid_remove`.

Only the bucket-list steps wait for `adjslot_list_lock` (`~wlock`). The
watchdog's actions are the following:

- `WdFire` is the timer expiring.
- `WdFind` is one iteration of the `watchdog_callback` loop around
  `find_victim` and `proc_adj_prev`. It copies the record (`wtgt`), which is
  atomic under the shared lock.
- `WdKill` is the synchronous `reaper.kill` on the copy.
- `WdLookup` and `WdWrite` are `pid_invalidate`, which holds the shared
  lock between the lookup and the write (`wlock`).
- `WdRearm` is the next `watchdog.start()`.

Kernel processes are pid instances `<<pid, gen>>`. `fdOf` maps each open
pidfd to the instance it pins, and `pidfd_open` returns the lowest free
number.

**`DecisionEngine.tla`** is `__mp_event_psi` and its callers
(`mp_event_psi`, `memevent_listener_notification`, `kill_done_handler`,
`call_handler` in `mainloop`). Its variables are the function statics of
`__mp_event_psi` (`prev_level`, `killing`, `thrashing_limit`,
`prev_thrash_growth`, `check_filecache`, `first_kill`, `init_ws_refault`,
`base_file_lru`, `prev_workingset_refault`, `wmarks_init`), the kernel's
counters and the uptime (`refault`, `age`), the in-flight kill (`inflight`,
`last_kill_pid_or_fd`), the memevent flags (`dr`, `ks`) and the two
handler slots of the main loop (`poll_handler`, `paused_handler`).

One invocation is one action, and inside it a chain of operators follows the
code's order: `Invoke` (the kill-pending gate), `Handle`, `Parse` (the
vmstat and meminfo parse, with its failure exit), `SwapReclaim`,
`ThrashStep` (the thrashing window and its decay), `UpdateWatermarks`,
`Classify` (the if-chain) and then either `Rerun` (the `first_kill` goto
back to the watermark refresh) or `Kill`. Each step either commits, through
`no_kill` or the kill, or draws the next readings (swap, PSI stall, file
LRU, watermark band) with `\E`. `Commit` also applies the `call_handler`
switch on the returned polling request. The actions are `MpEventPsi` (a PSI
trigger or a polling tick), `MemeventNotification` (one event per
notification: reclaim begin and end, kswapd wake and sleep, `UPDATE_ZONEINFO`,
a failed read, an empty batch and the vendor kill), `KillDone` (the pidfd
becomes readable) and `KillTimeout`.

Data is abstracted in three ways. Refault counters are kept relative to the
smaller of the two baselines (`RefaultBase`), since the code reads only
their differences and equality. `max_thrashing` and the polling interval
affect only logging and timing, so they are left out. The watermark band, the
swap and PSI readings are drawn from small sets. The undefined
`prev_thrash_growth >>= windows_passed` with `windows_passed >= 64` is
`ShiftOutcomes`, which is the outcomes a build can produce. The ghosts
`lastDec` and `lastDecay` record, for the current step only, whether the
kill agreed with `SpecTable` and whether the decay agreed with `DecayRef`.
Both references are written from spec.md (4.5 and invariant 6).

**`LegacyHandler.tla`** models `mp_event_common` for vmpressure with pidfds,
together with `cmd_target` and the main loop around them. Its state is the
following:

- the minfree table (`lowmem_minfree`, `lowmem_adj`, `lowmem_targets_size`)
  and the published `minfree_levels`;
- `max_nr_free_pages`;
- the three eventfd counters (`mpev`) and the current epoll `batch`;
- the kill wait (`inflight` for `last_kill_pid_or_fd >= 0`);
- `poll_params` (`poll_handler`, `paused_handler`, and `resume_now` for a
  pending `POLLING_RESUME`);
- the ages of `last_req_tm`, `last_kill_tm`, `last_report_tm` and
  `poll_start_tm`, clamped at 1001 ms, which is above every interval the
  code compares them with.

The actions are the following:

- `Pressure(L)`: the kernel signals level L;
- `EpollWait`: a new loop iteration whose wait reports the readable
  eventfds;
- `MpEvent(l)`: `call_handler` of a batch handler;
- `PollTick`: the polling branch;
- `KillDone`: the pidfd becomes readable;
- `KillTimeout`: the kill-wait branch with `nevents == 0`;
- `TargetCmd(cmd)`: an `LMK_TARGET` packet;
- `Elapse(d)`: the clock advances.

`mp_event_common` is one action. It follows the code's order: the counter
reads, the clock, the kill gate (`KillWaitGate` with `is_kill_pending`), the
parse, then either the minfree levels (`MinfreeAdj`) or `LevelPath`, then
`DoKill`, and `call_handler`'s switch (`PollSwitch`).

`cmd_target`'s snprintf loop is modelled by the printed width
(`DecimalLen`, a recursive operator). The loop stores a target, then prints
it, and breaks once the text reaches `PROPERTY_VALUE_MAX`. `Stored` is the
number of targets stored.

The kill is its outcome: pages freed, a victim of 0 pages, no victim, or a
failed last attempt (find_and_kill_process is modelled in `Lmkd`). The ghost
`killTick` flips at each kill and `lastTarget` records the last accepted
list.

**`MCLegacyHandler.tla`** gives five target lists:

- the empty list;
- one, two and seven pairs (seven exceeds `MAX_TARGETS` = 6);
- a list that replaces the first one's value.

It also gives `level_oomadj` with the low level not monitored (1001), and the
file, memcg usage and swap readings. The readings are chosen so that each
branch of `LevelPath` is taken: a failed usage read, an upgrade, a kill on
low swap, an ignore, and a critical downgrade.

**`MCDecisionEngine.tla`** gives the vendor min-score set `{-1, 900}`: an
invalid value and a valid one.

**`MCLmkd.tla`** gives model values for pids and peers, the requested scores,
and a symmetry set.

## Runs

| run | cfg | checks | result |
|---|---|---|---|
| kill_safety | MCLmkd.cfg | `TypeOK`, `FdAccounting`, `NoWrongKill` | pass |
| wait_liveness | MCLmkdLive.cfg | `KillUnblocked` | pass |
| registry | MCLmkdRegistry.cfg | `SlotsMatchHash`, `RegistryRefined` | pass |
| ctrl_slots | MCCtrlConn.cfg | `KillNotifiesSubscribers`, `MaxeventsAccurate`, `NoClaimsOfGone` | pass |
| killcnt | MCKillCount.cfg | `TypeOK`, `ReplyExact` | pass |
| watchdog | MCWatchdog.cfg | `NoUseAfterFree` | pass |
| de | MCDecisionEngine.cfg | `TypeOK`, `KillsAsTableAfterFirst` | pass |
| legacy | MCLegacyHandler.cfg | `TypeOK`, `WaitReleased` | pass |
| double_close | MCLmkdDoubleClose.cfg | `NoDoubleClose` | violation |
| stale_failure_report | MCLmkdStaleReport.cfg | `KillsSerial` | violation |
| watchdog_fd_reuse | MCWatchdogFdReuse.cfg | `WatchdogKillsTarget` | violation |
| first_kill | MCDecisionEngineFirstKill.cfg | `MinScoreAsTable` | violation |

The passing runs show the following:

- **kill_safety.** With pidfds, one reaper thread and pid reuse, every open
  pidfd belongs to exactly one record or to the wait (`FdAccounting`). It is
  closed once, whether the wait ends by death, failure or timeout. SIGKILL
  only ever reaches the registered instance of a pid (`NoWrongKill`).
- **wait_liveness.** With pidfds and `kill_timeout_ms = 0`, a pending kill
  always stops blocking kills.
- **registry.** The bucket lists and the hash agree (`SlotsMatchHash`). Two
  peers sharing records through claims behave as `Registry`
  (`RegistryRefined`).
- **ctrl_slots.** Four peers connect, command, hang up and overflow the three
  slots. Kill notifications reach only peers that subscribed on the
  connection they hold (`KillNotifiesSubscribers`). `maxevents` stays exact
  while `epoll_ctl` succeeds. A peer whose connection closed holds no claim.
- **killcnt.** Through 65537 kills at score 900, which wrap its counter, and
  a kill at 1000, every range query inside -1000..1000 replies with the kills
  in the range modulo 2^16. The total query replies with the exact total.
- **watchdog.** `pid_invalidate` never writes a record that `pid_remove`
  freed. `proc_unslot` cannot take the lock while the watchdog holds it
  shared, and the free comes after the unslot.
- **de.** PSI events of two levels, polling ticks, memevents, vendor kills,
  pidfd completions and kill timeouts interleave. The run reaches about
  35,000 states in under two minutes. Every kill after the first is made for
  the reason and with the min_score_adj that the table of spec.md 4.5 gives
  for the readings it was decided on (`KillsAsTableAfterFirst`). The table
  is written separately from the code's chain as `SpecTable`, so the run
  compares two translations. `ThrashDecay` (invariant 6) is not part of
  the run. Within the two windows this bound reaches, it only restates the
  guard at `:2889`. The shift by 64 windows that makes it fail is among the
  configurations kept out below.

- **legacy.** The run covers vmpressure events of all three levels, their
  epoll batches, polling, `LMK_TARGET` updates, kill completions and
  timeouts. It covers low-RAM and other devices, with and without minfree
  levels. It reaches about 175,000 states in a minute. Every kill wait
  ends (`WaitReleased`), also when a resumed poll keeps the main loop off its
  kill-wait branch. The wait then ends by the polling window's end or by a
  later event past the timeout. The victim's exit is not assumed.
  `TableFromLastTarget` is not part of the run: no in-range target list
  reaches the break in `cmd_target`'s loop, and below that break it only
  restates the loop's assignments. The out-of-range case that makes it fail
  is kept out below.

The violation runs each record a finding in `PROJECT.json`:

- **double_close.** A descriptor bug on the kill failure path of
  `kill_one_process`.
- **stale_failure_report.** `kill_fail_handler` ends whichever wait is
  current. A late report for an earlier victim releases the wait for a newer
  one.
- **watchdog_fd_reuse.** `find_victim` copies the record and releases the
  lock. The main thread then removes that record, which closes its pidfd, and
  registers another process, whose `pidfd_open` returns the same number. The
  watchdog's kill through the copied pidfd reaches that other process.
- **first_kill.** The first decision is taken on watermarks never
  computed or stale, here the band LOW, so the code picks LOW_MEM with
  `lowmem_min_oom_score`. The code then refreshes the watermarks and runs the
  chain again. The fresh band is NONE, so no row matches. But `kill_reason`
  still holds LOW_MEM from the first pass, so the kill goes ahead, where the
  table says no kill. The same carry-over keeps `min_score_adj = 201` from a
  first-pass swap row when the second pass matches a row that assigns no
  min-score. TLC finds it in two steps.
The project admits twelve runs, so some configurations that violate a stated
property are kept out of the run set. Each is a change of constants to a cfg
above:

- `KillsSerial` on MCLmkdStaleReport.cfg with `RssPages = {0, 1}`,
  `ReqAdjs <- MCReqAdjs`, `ReaperThreads = 0` and `MaxGen = 0`. A victim under one page counts as "nothing killed", so a second
  kill starts while the first is in flight (`src/lmkd.cpp:2568`).
- `KillUnblocked` with `PidfdSupported = FALSE`, `MaxGen = 1` and
  `KillTimeoutSet = FALSE`. Without pidfds, a reused victim pid keeps
  `is_kill_pending` true forever.
- `NoWrongKill` with `PidfdSupported = FALSE`, `MaxGen = 1` and
  `ReaperThreads = 0`. A pid reused by a new group leader passes the TGID
  check and is killed by `kill(pid)`.
- `MaxeventsAccurate` with `EpollOutcomes = {TRUE, FALSE}`. A failed
  `epoll_ctl(ADD)` runs `ctrl_data_close`, which decrements a `maxevents`
  that was never incremented (`:1714`).
- `ReplyExact` with the query `<<-1001, 0>>` added. `get_killcnt` reads
  `killcnt_idx` below its first element (`:1389`).
- `NoStaleFdUse` on MCLmkd.cfg with `Pids <- MCOnePid`, `MaxGen = 0`,
  `EpollOutcomes = {TRUE, FALSE}` and no `SYMMETRY`. A failed
  `epoll_ctl(ADD)` of the pidfd closes it, and `kill_one_process` goes on to
  use the closed number for the kill (`:2414`).
- `ScanExhaustive` (a `PROPERTY`) on MCLmkd.cfg with
  `ReqAdjs <- MCReqAdjs`, `MaxGen = 0`, `ReaperThreads = 0` and no
  `SYMMETRY`. A last attempt that `kill_one_process` drops before the kill
  (a dead or zombie process) leaves `killed_size == -1`, and the walk
  stops above lower scores that hold killable records (`:2570`).
- `ClaimsKeptWhileConnected` (a `PROPERTY`) on MCCtrlConn.cfg's constants
  without its `SYMMETRY`. `ctrl_data_close` unclaims by `data_sock[].pid`,
  which is never reset. A connection that closes before sending anything
  drops the claims of the slot's previous occupant, who is connected on
  another slot (`:744`).
- `PollsPsiOnly` on MCDecisionEngine.cfg's constants. A vendor kill event
  handled while direct reclaim is on returns `POLLING_START`, so
  `call_handler` makes the memevent handler the polled handler. A vendor kill
  with pidfds returns `POLLING_PAUSE`, and the later `RESUME` polls the
  memevent handler. Either way, the PSI re-evaluation that polling is for
  stops until the next PSI trigger (`:3485`).
- `InvalidOnlyKilled` on MCWatchdog.cfg's constants. After the watchdog's
  kill the main thread removes the record, and the reused pid is registered
  again before `pid_invalidate`, which then marks the new process's record
  invalid. `kill_one_process` then drops that record unkilled (`:995`).
- `ThrashDecay` on MCDecisionEngine.cfg with `Uptimes = {64500}` and
  `MaxAge = 64500`. The first parsed event comes 64.5 s after
  `thrashing_reset_tm`, which starts at 0. `prev_thrash_growth >>= 64` is
  then undefined. With the shift by 0 of arm64 and x86-64, the whole-boot
  growth survives the crossing (`:2889`).
- `TableFromLastTarget` on MCLegacyHandler.cfg with `MinfreeModes = {TRUE}`,
  `LowRamModes = {FALSE}` and `Spec`. `Commands` is two six-target lists:
  first `T(100, 900)`, then `T(2147483647, -2147483647)`. The second list's
  pairs print 23 characters each. The loop breaks after the fourth target,
  whose text reaches 92 bytes. `lowmem_targets_size` is still 6, so entries
  5 and 6 keep the first list's values (`:1443-1456`). Valid `oom_score_adj`
  values (`-1000..1000`) never fill the buffer before the sixth pair, so
  only an out-of-range command reaches this.
- `PausedWhileWaiting` on MCLegacyHandler.cfg. A kill that frees pages
  pauses polling, and its completion resumes it. The resumed poll then kills
  a process of 0 pages while failure reports are rate-limited. The early
  return at `:3348` skips `POLLING_PAUSE`, so the handler is polled during the
  wait, contrary to the comment at `:3372`. The kill gate still holds.
- `PauseLifted` (a `PROPERTY`) on MCLegacyHandler.cfg. An epoll batch holds
  two levels. The first handler kills and pauses polling. The clock passes
  `kill_timeout_ms`, and the second handler of the same batch ends the wait
  through `stop_wait_for_proc_kill(false)` (`:3214`). Neither
  `kill_done_handler` nor the timeout branch can then run, so the paused
  handler is never polled again.

## Bounds

- **Pids.** Two pids (one in the liveness runs), with one reuse per pid
  (`MaxGen = 1`). Two kills in sequence, with a reuse between them, are the
  shortest paths to every race above. The stale-report trace needs three
  victim instances, which two pids and one reuse provide.
- **Descriptors.** Two (`Fds = {1, 2}`), so `pidfd_open` can fail with
  EMFILE.
- **Reaper.** One reaper thread, so both the asynchronous and the
  synchronous (queue full) kill paths occur.
- **Peers.** The safety run uses one peer, since peers matter only to the
  registry run, which has two.
- **CtrlConn.** Four peers and three slots, so the overflow path runs. Each
  outcome of accept and of the credentials check is enabled, with symmetry
  over the peers. One record is enough for claims to be taken and dropped.
- **KillCount.** 65537 kills at one score, one more than a uint16 counter
  holds, and one at another. The queries cover a range inside one score, an
  exclusive and an inclusive bound, the whole range, the total and an empty
  range. The 32-entry cap is kept but not reached: 33 scores with kills
  would be needed.
- **Watchdog.** Two pids with one reuse each and two descriptors, so a closed
  pidfd number is handed to the next `pidfd_open`. There are two scores: 900
  and 0, where the sweep ends.
- **DecisionEngine.** Refault steps of 0 and 150 pages against a file LRU of
  99 pages and a limit of 100%. One step stays under the limit, a single
  step crosses it and two cross the 300% critical limit. Uptime advances of
  0 and 2.1 s give an event inside the current window and one that crosses
  it. The default uptime of 1.5 s keeps `windows_passed` below 64. PSI levels low
  and critical give both a level change and a repeated level. The caps
  `MaxRefault = 300` and `MaxAge = 2200` (ms) bound the counters in the
  guards. The kill timeout of 100 ms is shorter than one advance, so a kill
  can time out before its pidfd completes.
- **LegacyHandler.** Clock advances of 1001 ms only: every interval the code
  compares is 1000 ms or the 100 ms kill timeout. One advance therefore
  passes all of them, and events without an advance fall inside all of them.
  A finer step (500 ms) multiplies the states tenfold without a new branch.
  The free-page readings are 100, 105 and 200. 105 is within 10% of 100 and
  200 is not, so `record_low_pressure_levels` both moves and keeps its
  maximum. The minfree table entries 100 and 200 make a reading hit the
  table, or miss it. One victim score (900) and the three kill outcomes are
  used.
- **Scores, RSS and min score.** One or two requested scores; RSS 1 page (or
  0 and 1 where rounding matters); min score 0.

## Fairness

The main thread is always eventually scheduled, so each handler that stays
enabled eventually runs. For that reason `ScanStep`, the three wait handlers
and the polling event (`MpEventPsi(FALSE)`) are weakly fair.

The environment is fair in three ways:

- Reaper threads serve queued requests.
- The kernel reaps a killed process.
- The timeout eventually expires.

`DecisionEngine` states only safety, so it assumes no fairness. Its
events come from the kernel and are not guaranteed.

`LegacyHandler` makes `MpEvent`, `PollTick`, `KillTimeout` and the clock
weakly fair: the main thread runs whatever is ready, and time passes. The
victim's exit (`KillDone`), the kernel's pressure events and `LMK_TARGET`
packets are not assumed, so `WaitReleased` holds even when the victim never
dies.

Process exit and pid reuse have no fairness. `KillUnblocked` is checked under
`PressureSpec`, which also assumes that PSI events keep coming.

## Not modelled

- **Decision engine inside Lmkd.** `Lmkd` abstracts the PSI classification
  to a choice of min score. `DecisionEngine` models the classification
  without the kill itself: the victim search is `Lmkd`'s. The readings of
  `/proc` are drawn, not parsed. `max_thrashing`, the polling interval and
  the watermark arithmetic (`zone_watermarks_ok` per zone) are abstracted to
  the band they produce.
- **Vendor hook and logging.** The free-memory hook is taken as returning 0,
  which is also what `kill_one_process` returns after a failed `reaper.kill`,
  and kill logging and statistics are left out.
- **Soft limits.** The memcg soft-limit writes are not modelled.
- **TGID check.** Processes are always group leaders.
- **Reaper descriptors.** The reaper's dup descriptor is represented by the
  target it pins.
- **Who removed a record.** The refinement cannot tell which peer removed a
  record, because the actor is not part of the state.
- **Watchdog timer and the main thread's kills in Watchdog.** `watchdog.cpp`
  is not in this repository, so the timer is the nondeterministic `WdFire`.
  The main thread's kill path is in `Lmkd`, and in `Watchdog` it appears only
  as record removal. The sweep's termination is not claimed: repeated score
  changes (`RegisterMove`) of dead processes can keep restarting it.
- **Socket I/O.** Message encoding, the notification writes and their
  failures are not modelled.
- **Legacy handler.** The path without pidfds (`is_kill_pending` by
  `/proc/<pid>` existence) is not modelled, since `Lmkd` covers it for the
  wait. `min_nr_free_pages` is not modelled either, since only a log reads
  it. The polling interval is not modelled: a poll may come at any time.
  In one iteration the code runs the poll after `epoll_wait` returned and
  before the batch. The model orders such a poll before the wait, so a batch
  handler always finds the counters as they were reported. A failed
  `epoll_ctl(ADD)` of the victim's pidfd is left to `Lmkd`. `cmd_target`'s
  writes to the in-kernel driver files are not modelled.
- **Other components.** The memevent
  listener's setup and its BPF ring buffer, the parsers and the build file (`Android.bp`) are not modelled.

## Plan

The next modules to write are:

- Composition of `Watchdog` with the kill wait of `Lmkd`
  (`last_kill_pid_or_fd` and the pidfd the watchdog copies).
- Composition of `DecisionEngine` with the victim search of `Lmkd`, so that a
  failed kill (`pages_freed <= 0`) feeds back into `killing` and the
  pending-kill gate.
- Composition of `LegacyHandler` with `Lmkd`'s victim search, with pidfds
  and without.
