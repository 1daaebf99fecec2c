---------------------------- MODULE LegacyHandler ----------------------------
(***************************************************************************)
(* lmkd's legacy strategy: the vmpressure handler mp_event_common, the     *)
(* minfree table that LMK_TARGET (cmd_target) installs, and the part of   *)
(* the main loop around them: the epoll batch of level eventfds, the      *)
(* kill wait (kill_done_handler, the kill timeout) and the polling that   *)
(* call_handler starts, pauses and resumes.  The kernel signals a         *)
(* vmpressure level to the listeners of that level and of every level     *)
(* below it (the cgroup v1 "default" mode that init_mp_common asks for).  *)
(* Clock readings are kept as the ages of the timestamps the code         *)
(* compares, clamped at AgeCap, which exceeds every interval it compares  *)
(* them with.  /proc readings are drawn at each read from small sets.     *)
(* The model covers the vmpressure configuration (use_psi_monitors false) *)
(* with pidfds; PSI triggers feed __mp_event_psi, modelled in             *)
(* DecisionEngine.  The kill itself (find_and_kill_process, modelled in   *)
(* Lmkd) is its outcome.  low_pressure_mem.min_nr_free_pages is left out: *)
(* only its own update and the log read it.                               *)
(***************************************************************************)
EXTENDS Integers, SequencesExt

CONSTANTS
    MAX_TARGETS,        \* lowmem_adj.size() (lmkd.h)
    PROPERTY_VALUE_MAX, \* sizeof(minfree_str) (cutils/properties.h)
    Commands,           \* the <<minfree, oom_adj_score>> lists LMK_TARGET carries
    level_oomadj,       \* ro.lmk.low / medium / critical
    kill_timeout_ms,
    enable_pressure_upgrade, upgrade_pressure, downgrade_pressure,
    swap_free_low_percentage, swap_compression_ratio,
    MinfreeModes,       \* values ro.lmk.use_minfree_levels may have
    LowRamModes,        \* values ro.config.low_ram may have
    FreePages,          \* meminfo nr_free_pages
    Reserves,           \* zoneinfo totalreserve_pages
    Files,              \* [file |-> nr_file_pages, excl |-> shmem + unevictable + swap_cached]
    Usages,             \* [mem |-> memory.usage_in_bytes, memsw |-> memsw.usage_in_bytes]
    Swaps,              \* [free |-> free_swap, easy |-> easy_available, total |-> total_swap]
    VictimAdjs,         \* oom_score_adj of the processes find_and_kill_process may pick
    KillResults,        \* what a kill attempt that found a victim may end in
    ClockOutcomes,      \* clock_gettime succeeds
    ParseOutcomes,      \* meminfo_parse and zoneinfo_parse succeed
    Advances,           \* ms the monotonic clock may advance in one step
    None

VMPRESS_LEVEL_LOW == 0
VMPRESS_LEVEL_MEDIUM == 1
VMPRESS_LEVEL_CRITICAL == 2
Levels == {VMPRESS_LEVEL_LOW, VMPRESS_LEVEL_MEDIUM, VMPRESS_LEVEL_CRITICAL}
OOM_SCORE_ADJ_MAX == 1000
TARGET_UPDATE_MIN_INTERVAL_MS == 1000
FAIL_REPORT_RLIMIT_MS == 1000
PSI_WINDOW_SIZE_MS == 1000
AgeCap == PSI_WINDOW_SIZE_MS + 1
Slots == 0..(MAX_TARGETS - 1)

ASSUME /\ level_oomadj \in [Levels -> Int]
       /\ KillResults \subseteq {"freed", "zero", "failed"}
       /\ kill_timeout_ms \in 0..AgeCap

VARIABLES
    lowmem_minfree, lowmem_adj, lowmem_targets_size,
    minfree_levels,     \* sys.lmk.minfree_levels: the pairs printed, and whether cut
    req_age,            \* now - last_req_tm of cmd_target
    max_nr_free_pages,  \* low_pressure_mem.max_nr_free_pages
    mpev,               \* level -> its eventfd counter is nonzero
    batch,              \* levels whose eventfd the current epoll batch reported
    inflight,           \* last_kill_pid_or_fd >= 0 (a pidfd with pidfds)
    kill_age,           \* now - last_kill_tm
    report_age,         \* now - last_report_tm of mp_event_common
    poll_handler, paused_handler,
    poll_age,           \* now - poll_start_tm
    resume_now,         \* poll_params.update = POLLING_RESUME after the last handler
    use_minfree_levels, low_ram_device,
    lastTarget,         \* ghost: the last LMK_TARGET list cmd_target accepted
    killTick            \* ghost: flips at every kill

vars == <<lowmem_minfree, lowmem_adj, lowmem_targets_size, minfree_levels, req_age,
          max_nr_free_pages, mpev, batch, inflight, kill_age, report_age,
          poll_handler, paused_handler, poll_age, resume_now,
          use_minfree_levels, low_ram_device, lastTarget, killTick>>

Target == [minfree : Int, adj : Int]
Ages == 0..AgeCap

TypeOK ==
    /\ lowmem_minfree \in [Slots -> Int] /\ lowmem_adj \in [Slots -> Int]
    /\ lowmem_targets_size \in 0..MAX_TARGETS
    /\ minfree_levels \in {None} \cup [pairs : Seq(Target), cut : BOOLEAN]
    /\ req_age \in Ages /\ kill_age \in Ages /\ report_age \in Ages /\ poll_age \in Ages
    /\ max_nr_free_pages \in {-1} \cup FreePages
    /\ mpev \in [Levels -> BOOLEAN] /\ batch \subseteq Levels
    /\ inflight \in BOOLEAN /\ resume_now \in BOOLEAN
    /\ poll_handler \in Levels \cup {None} /\ paused_handler \in Levels \cup {None}
    /\ use_minfree_levels \in BOOLEAN /\ low_ram_device \in BOOLEAN
    /\ lastTarget \in Seq(Target) /\ killTick \in BOOLEAN

-----------------------------------------------------------------------------
(* LMK_TARGET.                                                            *)

RECURSIVE DecimalLen(_)
(* The number of characters snprintf("%d") prints for n.                  *)
DecimalLen(n) ==
    IF n < 0 THEN 1 + DecimalLen(-n)
    ELSE IF n < 10 THEN 1 ELSE 1 + DecimalLen(n \div 10)

(* What snprintf(pstr, pend - pstr, "%d:%d,") returns for one target.     *)
PairLen(t) == DecimalLen(t.minfree) + DecimalLen(t.adj) + 2

PrintedLen(s) == FoldSeq(LAMBDA t, acc : acc + PairLen(t), 0, s)

(* The targets the loop of cmd_target stores: it stores target i, then    *)
(* prints it, and breaks once the printed text no longer fits in          *)
(* minfree_str.                                                           *)
Stored(cmd) ==
    LET cut == {i \in 1..Len(cmd) : PrintedLen(SubSeq(cmd, 1, i)) >= PROPERTY_VALUE_MAX}
    IN IF cut = {} THEN Len(cmd) ELSE Min(cut)

Truncated(cmd) == PrintedLen(cmd) >= PROPERTY_VALUE_MAX

(* cmd_target past its guards: the table, its size, the published        *)
(* property (the pairs printed in full; a cut one is partly printed) and  *)
(* last_req_tm.  The in-kernel driver files are not written: the in-kernel *)
(* passthrough is not modelled.                                           *)
cmd_target(cmd) ==
    /\ lowmem_minfree' = [i \in Slots |-> IF i < Stored(cmd) THEN cmd[i + 1].minfree
                                          ELSE lowmem_minfree[i]]
    /\ lowmem_adj' = [i \in Slots |-> IF i < Stored(cmd) THEN cmd[i + 1].adj
                                      ELSE lowmem_adj[i]]
    /\ lowmem_targets_size' = Len(cmd)
    /\ minfree_levels' =
           IF Truncated(cmd) THEN [pairs |-> SubSeq(cmd, 1, Stored(cmd) - 1), cut |-> TRUE]
           ELSE [pairs |-> cmd, cut |-> FALSE]
    /\ req_age' = 0
    /\ lastTarget' = cmd

(* Without the check on the target count (mutant of TargetAccepted).     *)
TargetAcceptedNoCount(cmd, clk) ==
    /\ Len(cmd) >= 1
    /\ clk
    /\ req_age >= TARGET_UPDATE_MIN_INTERVAL_MS

(* ctrl_command_handler's LMK_TARGET length check, then cmd_target's own  *)
(* checks: the target count, the clock, the rate limit.                   *)
TargetAccepted(cmd, clk) ==
    /\ Len(cmd) <= MAX_TARGETS
    /\ Len(cmd) >= 1
    /\ clk
    /\ req_age >= TARGET_UPDATE_MIN_INTERVAL_MS

-----------------------------------------------------------------------------
(* call_handler: the switch on the handler's poll_params->update.         *)

PollSwitch(h, upd) ==
    /\ CASE upd = "POLLING_START" ->
              poll_handler' = h /\ paused_handler' = paused_handler /\ poll_age' = 0
         [] upd = "POLLING_PAUSE" ->
              poll_handler' = None /\ paused_handler' = h /\ poll_age' = poll_age
         [] upd = "POLLING_RESUME" ->
              poll_handler' = paused_handler /\ paused_handler' = None /\ poll_age' = 0
         [] upd = "POLLING_DO_NOT_CHANGE" ->
              /\ poll_handler' = IF poll_handler # None /\ poll_age > PSI_WINDOW_SIZE_MS
                                 THEN None ELSE poll_handler
              /\ paused_handler' = paused_handler /\ poll_age' = poll_age
    /\ resume_now' = (upd = "POLLING_RESUME")

-----------------------------------------------------------------------------
(* mp_event_common.                                                       *)

DNC == "POLLING_DO_NOT_CHANGE"

(* mp_event_common returns: what it leaves in the kill wait, the          *)
(* timestamps and low_pressure_mem, then call_handler's switch.           *)
Return(l, inf, kage, rage, mx, upd, tick) ==
    /\ inflight' = inf /\ kill_age' = kage /\ report_age' = rage
    /\ max_nr_free_pages' = mx /\ killTick' = tick
    /\ PollSwitch(l, upd)

(* A return past the kill-timeout check, which has ended any wait.        *)
Ret(l, mx) == Return(l, FALSE, kill_age, report_age, mx, DNC, killTick)

upgrade_level(lvl) == IF lvl < VMPRESS_LEVEL_CRITICAL THEN lvl + 1 ELSE lvl
downgrade_level(lvl) == IF lvl > VMPRESS_LEVEL_LOW THEN lvl - 1 ELSE lvl

(* record_low_pressure_levels: the first sample, or a rise of less than   *)
(* 10%, becomes the new maximum.                                          *)
RecordLow(free) ==
    IF \/ max_nr_free_pages = -1
       \/ max_nr_free_pages < free /\ 10 * (free - max_nr_free_pages) < max_nr_free_pages
    THEN free ELSE max_nr_free_pages

OtherFile(f) == IF f.file > f.excl THEN f.file - f.excl ELSE 0

get_free_swap(s) ==
    IF swap_compression_ratio # 0 THEN Min({s.free, s.easy * swap_compression_ratio})
    ELSE s.free

(* The minfree levels: the adj of the first target both free memory and   *)
(* the file cache are below, or OOM_SCORE_ADJ_MAX + 1.                    *)
MinfreeAdj(other_free, other_file) ==
    LET hit == {i \in 0..(lowmem_targets_size - 1) :
                    other_free < lowmem_minfree[i] /\ other_file < lowmem_minfree[i]}
    IN IF hit = {} THEN OOM_SCORE_ADJ_MAX + 1 ELSE lowmem_adj[Min(hit)]

(* find_and_kill_process: "none" when no process is left at or above      *)
(* min_score_adj; otherwise a kill that frees pages, one of a process     *)
(* whose VmRSS rounds to 0 pages, or a last attempt that failed (-1).     *)
KillOutcomes(min) == IF \E a \in VictimAdjs : a >= min THEN KillResults ELSE {"none"}

(* do_kill.  A successful kill starts the wait (its pidfd) and stamps     *)
(* last_kill_tm.  Off low-RAM devices a kill that freed nothing returns   *)
(* early while the failure report is rate limited; every other path       *)
(* stamps last_report_tm.  A kill in flight pauses polling.               *)
DoKill(l, mx, min) ==
    \E r \in KillOutcomes(min) :
        LET started == r \in {"freed", "zero"}
            kage == IF started THEN 0 ELSE kill_age
            tick == IF started THEN ~killTick ELSE killTick
            upd == IF started THEN "POLLING_PAUSE" ELSE DNC
        IN CASE low_ram_device -> Return(l, started, kage, report_age, mx, upd, tick)
             [] r \in {"none", "zero"} /\ report_age < FAIL_REPORT_RLIMIT_MS ->
                  Return(l, started, kage, report_age, mx, DNC, tick)
             [] OTHER -> Return(l, started, kage, 0, mx, upd, tick)

(* The level path goes on to kill at level_oomadj[lvl]; off low-RAM       *)
(* devices only while free memory is below the low-pressure maximum.      *)
KillAtLevel(l, lvl, mx, free) ==
    IF ~low_ram_device /\ free >= mx THEN Ret(l, mx)
    ELSE DoKill(l, mx, level_oomadj[lvl])

(* Without minfree levels: record a low-pressure sample, skip levels not  *)
(* monitored, then upgrade on swapping and ignore or downgrade while swap *)
(* is plentiful.  A failed memcg usage read goes straight to do_kill.     *)
LevelPath(l, lvl, free) ==
    LET mx == IF lvl = VMPRESS_LEVEL_LOW THEN RecordLow(free) ELSE max_nr_free_pages
    IN IF level_oomadj[lvl] > OOM_SCORE_ADJ_MAX THEN Ret(l, mx)
       ELSE \E u \in Usages :
            IF u.mem < 0 \/ u.memsw < 0 THEN KillAtLevel(l, lvl, mx, free)
            ELSE LET p == (u.mem * 100) \div u.memsw
                     up == IF enable_pressure_upgrade /\ lvl # VMPRESS_LEVEL_CRITICAL
                              /\ p < upgrade_pressure
                           THEN upgrade_level(lvl) ELSE lvl
                 IN \E s \in Swaps :
                    CASE get_free_swap(s) < (s.total * swap_free_low_percentage) \div 100 ->
                             KillAtLevel(l, up, mx, free)
                      [] p > downgrade_pressure -> Ret(l, mx)
                      [] up = VMPRESS_LEVEL_CRITICAL /\ p > upgrade_pressure ->
                             KillAtLevel(l, downgrade_level(up), mx, free)
                      [] OTHER -> KillAtLevel(l, up, mx, free)

(* Within kill_timeout_ms of the last kill.                              *)
KillWaitGate == kill_timeout_ms > 0 /\ kill_age < kill_timeout_ms

(* mp_event_common(l): read every level's eventfd counter and take the    *)
(* highest level signalled; return on a clock failure; within             *)
(* kill_timeout_ms of the last kill return while it is pending, else (and *)
(* past the timeout) end the wait; return on a parse failure; then pick   *)
(* min_score_adj from the minfree table or from the level.                *)
mp_event_common(l) ==
    LET lvl == Max({l} \cup {x \in Levels : mpev[x]})
        gate == KillWaitGate
    IN /\ mpev' = [x \in Levels |-> FALSE]
       /\ \E clk \in ClockOutcomes, ok \in ParseOutcomes :
          CASE ~clk \/ (gate /\ inflight) ->
                   Return(l, inflight, kill_age, report_age, max_nr_free_pages, DNC, killTick)
            [] ~ok -> Ret(l, max_nr_free_pages)
            [] use_minfree_levels ->
                   \E free \in FreePages, res \in Reserves, f \in Files :
                      LET min == MinfreeAdj(free - res, OtherFile(f))
                      IN IF min = OOM_SCORE_ADJ_MAX + 1 THEN Ret(l, max_nr_free_pages)
                         ELSE DoKill(l, max_nr_free_pages, min)
            [] OTHER -> \E free \in FreePages : LevelPath(l, lvl, free)

-----------------------------------------------------------------------------
(* The main loop.                                                         *)

table == <<lowmem_minfree, lowmem_adj, lowmem_targets_size, minfree_levels, req_age, lastTarget>>
ages == <<req_age, kill_age, report_age, poll_age>>

(* The kill-wait branch finds the timeout already passed: it skips       *)
(* epoll_wait (delay <= 0) and times the wait out at once.                *)
KillWaitExpired ==
    /\ poll_handler = None /\ kill_timeout_ms > 0 /\ inflight
    /\ kill_age >= kill_timeout_ms

(* A new loop iteration that waits for events: the batch is done, no      *)
(* POLLING_RESUME asks for an immediate poll, and the kill wait has not   *)
(* expired.                                                               *)
NewIteration ==
    /\ batch = {} /\ ~(resume_now /\ poll_handler # None)
    /\ ~KillWaitExpired

(* An event that is part of the current batch or opens one of its own.    *)
InBatch == batch # {} \/ NewIteration

(* The kernel raises vmpressure level L: the eventfds of L and of every   *)
(* level below it count the event.                                        *)
Pressure(L) ==
    /\ mpev' = [x \in Levels |-> mpev[x] \/ x <= L]
    /\ UNCHANGED <<table, max_nr_free_pages, batch, inflight, kill_age, report_age,
                   poll_handler, paused_handler, poll_age, resume_now,
                   use_minfree_levels, low_ram_device, killTick>>

(* epoll_wait returns the level eventfds that are readable.               *)
EpollWait ==
    /\ NewIteration
    /\ \E x \in Levels : mpev[x]
    /\ batch' = {x \in Levels : mpev[x]}
    /\ UNCHANGED <<table, max_nr_free_pages, mpev, inflight, kill_age, report_age,
                   poll_handler, paused_handler, poll_age, resume_now,
                   use_minfree_levels, low_ram_device, killTick>>

(* call_handler runs the level-l handler of the batch.                    *)
MpEvent(l) ==
    /\ l \in batch
    /\ batch' = batch \ {l}
    /\ mp_event_common(l)
    /\ UNCHANGED <<table, use_minfree_levels, low_ram_device>>

(* The polling branch of the main loop calls the polled handler.          *)
PollTick ==
    /\ batch = {} /\ poll_handler # None
    /\ mp_event_common(poll_handler)
    /\ UNCHANGED <<table, batch, use_minfree_levels, low_ram_device>>

(* The victim's pidfd becomes readable: kill_done_handler ends the wait   *)
(* and returns POLLING_RESUME.                                            *)
KillDone ==
    /\ inflight /\ InBatch
    /\ inflight' = FALSE
    /\ PollSwitch(None, "POLLING_RESUME")
    /\ UNCHANGED <<table, max_nr_free_pages, mpev, batch, kill_age, report_age,
                   use_minfree_levels, low_ram_device, killTick>>

(* A timeout branch that does not call stop_wait_for_proc_kill (mutant   *)
(* of KillTimeout).                                                       *)
KillTimeoutNoStop ==
    /\ batch = {} /\ KillWaitExpired
    /\ inflight' = inflight
    /\ IF paused_handler # None
       THEN /\ poll_handler' = paused_handler /\ paused_handler' = None
            /\ poll_age' = 0 /\ resume_now' = TRUE
       ELSE UNCHANGED <<poll_handler, paused_handler, poll_age, resume_now>>
    /\ UNCHANGED <<table, max_nr_free_pages, mpev, batch, kill_age, report_age,
                   use_minfree_levels, low_ram_device, killTick>>

(* The kill-wait branch of the main loop: not polling, and                *)
(* kill_timeout_ms passed without the pidfd: stop waiting and resume a    *)
(* paused poll.                                                           *)
KillTimeout ==
    /\ batch = {} /\ KillWaitExpired
    /\ inflight' = FALSE
    /\ IF paused_handler # None
       THEN /\ poll_handler' = paused_handler /\ paused_handler' = None
            /\ poll_age' = 0 /\ resume_now' = TRUE
       ELSE UNCHANGED <<poll_handler, paused_handler, poll_age, resume_now>>
    /\ UNCHANGED <<table, max_nr_free_pages, mpev, batch, kill_age, report_age,
                   use_minfree_levels, low_ram_device, killTick>>

(* An LMK_TARGET packet on a data socket.                                 *)
TargetCmd(cmd) ==
    /\ InBatch
    /\ \E clk \in ClockOutcomes :
          IF TargetAccepted(cmd, clk) THEN cmd_target(cmd) ELSE UNCHANGED table
    /\ PollSwitch(None, DNC)
    /\ UNCHANGED <<max_nr_free_pages, mpev, batch, inflight, kill_age, report_age,
                   use_minfree_levels, low_ram_device, killTick>>

Later(a, d) == IF a + d > AgeCap THEN AgeCap ELSE a + d

(* CLOCK_MONOTONIC_COARSE advances by d ms.                               *)
Elapse(d) ==
    /\ req_age' = Later(req_age, d) /\ kill_age' = Later(kill_age, d)
    /\ report_age' = Later(report_age, d) /\ poll_age' = Later(poll_age, d)
    /\ UNCHANGED <<lowmem_minfree, lowmem_adj, lowmem_targets_size, minfree_levels,
                   lastTarget, max_nr_free_pages, mpev, batch, inflight,
                   poll_handler, paused_handler, resume_now,
                   use_minfree_levels, low_ram_device, killTick>>

Init ==
    /\ lowmem_minfree = [i \in Slots |-> 0] /\ lowmem_adj = [i \in Slots |-> 0]
    /\ lowmem_targets_size = 0 /\ minfree_levels = None
    /\ req_age = AgeCap /\ kill_age = AgeCap /\ report_age = AgeCap /\ poll_age = 0
    /\ max_nr_free_pages = -1
    /\ mpev = [x \in Levels |-> FALSE] /\ batch = {}
    /\ inflight = FALSE
    /\ poll_handler = None /\ paused_handler = None /\ resume_now = FALSE
    /\ use_minfree_levels \in MinfreeModes /\ low_ram_device \in LowRamModes
    /\ lastTarget = <<>> /\ killTick = FALSE

Next ==
    \/ \E L \in Levels : Pressure(L)
    \/ EpollWait
    \/ \E l \in Levels : MpEvent(l)
    \/ PollTick
    \/ KillDone
    \/ KillTimeout
    \/ \E cmd \in Commands : TargetCmd(cmd)
    \/ \E d \in Advances : Elapse(d)

Spec == Init /\ [][Next]_vars

(* The main thread runs every handler that stays ready, and time passes.  *)
(* The victim's exit (KillDone) and the kernel's pressure events are not  *)
(* assumed.                                                               *)
FairSpec ==
    /\ Spec
    /\ \A l \in Levels : WF_vars(MpEvent(l))
    /\ WF_vars(PollTick) /\ WF_vars(KillTimeout)
    /\ WF_vars(\E d \in Advances : Elapse(d))

-----------------------------------------------------------------------------
(* Properties.                                                            *)

(* The minfree table mp_event_common reads is the last target list        *)
(* cmd_target accepted: lowmem_targets_size of its entries, each one the  *)
(* pair sent, and no entry left over from an earlier LMK_TARGET.  This    *)
(* is what spec.md 6 asks of TARGET: replace the legacy minfree table.    *)
TableFromLastTarget ==
    /\ lowmem_targets_size = Len(lastTarget)
    /\ \A i \in 0..(lowmem_targets_size - 1) :
          /\ lowmem_minfree[i] = lastTarget[i + 1].minfree
          /\ lowmem_adj[i] = lastTarget[i + 1].adj

(* Every kill wait ends: by the victim's pidfd, by the main loop's kill   *)
(* timeout, or by a later mp_event_common past the timeout (which may     *)
(* start the next kill), also when a resumed or still running poll keeps  *)
(* the main loop off its kill-wait branch.  Assumes only that the main    *)
(* loop runs and time passes.                                             *)
WaitReleased ==
    \A b \in BOOLEAN : (inflight /\ killTick = b) ~> (~inflight \/ killTick # b)

(* While a kill is awaited the vmpressure handler is not polled: the      *)
(* comment in mp_event_common says polling is paused while waiting for    *)
(* the death notification.                                                *)
PausedWhileWaiting == inflight => poll_handler = None

(* A handler whose polling a kill paused is eventually polled again:     *)
(* kill_done_handler and the kill-wait timeout resume it.  A later        *)
(* mp_event_common past kill_timeout_ms also ends the wait, through       *)
(* stop_wait_for_proc_kill(false), and it resumes nothing.                *)
PauseLifted == paused_handler # None ~> paused_handler = None

=============================================================================
