--------------------------- MODULE DecisionEngine ---------------------------
(***************************************************************************)
(* The PSI decision engine of lmkd: __mp_event_psi with the state it keeps *)
(* in statics between invocations, the memevent listener that feeds it    *)
(* reclaim timestamps, zoneinfo refreshes and vendor kills, and the part  *)
(* of call_handler and the main loop that decides which handler is        *)
(* polled.  Each handler invocation is one action.  What the kernel files *)
(* say is drawn afresh at each read from small sets: the free-page band   *)
(* against the watermarks, swap, reclaim, the PSI full stall, the file    *)
(* LRU.  The workingset refault counter and the monotonic clock are       *)
(* state, since the thrashing computation depends on their history.       *)
(* Left out: max_thrashing and the polling interval, which only reach the *)
(* kill report and the timing of ticks; the kill itself                   *)
(* (find_and_kill_process, modelled in Lmkd) is its outcome, pages freed  *)
(* or not.                                                                *)
(***************************************************************************)
EXTENDS Integers, Sequences, TLC

CONSTANTS
    thrashing_limit_pct, thrashing_limit_decay_pct, thrashing_critical_pct,
    pressure_after_kill_min_score, lowmem_min_oom_score, swap_util_max,
    direct_reclaim_threshold_ms, kill_timeout_ms,
    filecache_min_pages,    \* filecache_min_kb in pages
    MemeventListener,   \* memevent_listener != NULL
    ZoneinfoSupported,  \* mem_event_update_zoneinfo_supported
    PidfdSupported,
    RefaultSteps,       \* how far workingset_refault_file may advance per read
    FileLru,            \* nr_inactive_file + nr_active_file values
    Advances,           \* ms CLOCK_MONOTONIC_COARSE may advance between events
    VendorMins,         \* min_oom_score_adj of vendor kill events
    ParseOutcomes,      \* vmstat_parse / meminfo_parse succeed
    ZoneOutcomes,       \* zoneinfo_parse succeeds
    PsiLevels,          \* the levels with a PSI trigger registered
    Uptimes,            \* CLOCK_MONOTONIC_COARSE at the first event, in ms
    InitRefaults,       \* workingset_refault_file at the first event
    MaxRefault, MaxAge, None

VMPRESS_LEVEL_LOW == 0
VMPRESS_LEVEL_MEDIUM == 1
VMPRESS_LEVEL_CRITICAL == 2
WMARK_MIN == 0
WMARK_LOW == 1
WMARK_HIGH == 2
WMARK_NONE == 3
PERCEPTIBLE_APP_ADJ == 200
THRASHING_RESET_INTERVAL_MS == 1000
Wmarks == WMARK_MIN..WMARK_NONE

VARIABLES
    prev_level, killing, thrashing_limit, prev_thrash_growth, check_filecache,
    first_kill, init_ws_refault, base_file_lru,
    prev_workingset_refault,
    age,            \* curr_tm - thrashing_reset_tm at the last event, in ms
    wmarks_init,    \* watermarks.high_wmark != 0
    refault,        \* the kernel's workingset_refault_file
    inflight,       \* last_kill_pid_or_fd >= 0: a kill is being waited for
    dr, ks,         \* direct_reclaim_start_tm / kswapd_start_tm are set
    poll_handler,   \* poll_params.poll_handler: "psi", "mem" or None
    paused_handler, \* poll_params.paused_handler
    lastDec,        \* ghost: the verdict on a kill decided in this step
    lastDecay       \* ghost: the verdict on a window crossed in this step

vars == <<prev_level, killing, thrashing_limit, prev_thrash_growth, check_filecache,
          first_kill, init_ws_refault, base_file_lru,
          prev_workingset_refault, age, wmarks_init, refault, inflight, dr, ks,
          poll_handler, paused_handler, lastDec, lastDecay>>

Handlers == {"psi", "mem"}

TypeOK ==
    /\ prev_level \in VMPRESS_LEVEL_LOW..VMPRESS_LEVEL_CRITICAL
    /\ killing \in BOOLEAN /\ check_filecache \in BOOLEAN /\ first_kill \in BOOLEAN
    /\ thrashing_limit \in 0..thrashing_limit_pct
    /\ prev_thrash_growth \in Nat
    /\ init_ws_refault \in 0..MaxRefault /\ prev_workingset_refault \in 0..MaxRefault
    /\ refault \in 0..MaxRefault /\ base_file_lru \in FileLru \cup {0}
    /\ age \in 0..MaxAge /\ wmarks_init \in BOOLEAN /\ inflight \in BOOLEAN
    /\ dr \in BOOLEAN /\ ks \in BOOLEAN
    /\ poll_handler \in Handlers \cup {None} /\ paused_handler \in Handlers \cup {None}

-----------------------------------------------------------------------------
(* Arithmetic of the thrashing computation.                               *)

(* x >> n of a non-negative int64_t, for n < 64.                           *)
Shr(x, n) == IF n >= 31 THEN 0 ELSE x \div (2^n)

(* prev_thrash_growth >>= windows_passed: a shift count of 64 or more is  *)
(* undefined; arm64 and x86-64 shift by the count modulo 64, and a        *)
(* compiler may fold the result to 0.                                     *)
ShiftOutcomes(x, n) == IF n < 64 THEN {Shr(x, n)} ELSE {Shr(x, n % 64), 0}

Growth(r, init, base) == ((r - init) * 100) \div (base + 1)

-----------------------------------------------------------------------------
(* Fault: the perceptible-app guard of the swap rows without the         *)
(* "wmark > WMARK_MIN" condition.                                         *)
RowsSwapMinNoWmark(m, cak, cf, lim, min0) ==
    LET perc == PERCEPTIBLE_APP_ADJ + 1
        swapPerc == IF m.th < thrashing_critical_pct THEN perc ELSE min0
        thrPerc == IF m.th < thrashing_critical_pct THEN perc ELSE min0
    IN <<
    [c |-> m.src = "VENDOR", kr |-> "VENDOR", min |-> m.vmin, cut |-> FALSE, cf |-> cf],
    [c |-> cak /\ m.wm < WMARK_LOW, kr |-> "PRESSURE_AFTER_KILL",
     min |-> pressure_after_kill_min_score, cut |-> FALSE, cf |-> cf],
    [c |-> m.level = VMPRESS_LEVEL_CRITICAL /\ m.events # 0, kr |-> "NOT_RESPONDING",
     min |-> min0, cut |-> FALSE, cf |-> cf],
    [c |-> m.swapLow /\ m.th > thrashing_limit_pct, kr |-> "LOW_SWAP_AND_THRASHING",
     min |-> swapPerc, cut |-> FALSE, cf |-> TRUE],
    [c |-> m.swapLow /\ m.wm < WMARK_HIGH, kr |-> "LOW_MEM_AND_SWAP",
     min |-> swapPerc, cut |-> FALSE, cf |-> cf],
    [c |-> m.wm < WMARK_HIGH /\ swap_util_max < 100 /\ m.swapUtilHigh,
     kr |-> "LOW_MEM_AND_SWAP_UTIL", min |-> min0, cut |-> FALSE, cf |-> cf],
    [c |-> m.wm < WMARK_HIGH /\ m.th > lim, kr |-> "LOW_MEM_AND_THRASHING",
     min |-> thrPerc, cut |-> TRUE, cf |-> TRUE],
    [c |-> m.reclaim = "DIRECT" /\ m.th > lim, kr |-> "DIRECT_RECL_AND_THRASHING",
     min |-> thrPerc, cut |-> TRUE, cf |-> TRUE],
    [c |-> m.reclaim = "DIRECT" /\ direct_reclaim_threshold_ms > 0 /\ m.stuck,
     kr |-> "DIRECT_RECL_STUCK", min |-> min0, cut |-> FALSE, cf |-> cf],
    [c |-> cf /\ m.fileLow, kr |-> "LOW_FILECACHE_AFTER_THRASHING", min |-> perc,
     cut |-> FALSE, cf |-> cf],
    \* check_filecache with enough file cache: stop checking
    [c |-> cf, kr |-> None, min |-> min0, cut |-> FALSE, cf |-> FALSE] >>

(* The reason table: the rows of the if-chain in __mp_event_psi, in       *)
(* order.  min0 is what min_score_adj already holds; a row that does not  *)
(* assign it leaves min0.  m is the current reading: wm, th (thrashing),  *)
(* swapLow, reclaim, swapUtilHigh, stuck, fileLow, plus the event.        *)
Rows(m, cak, cf, lim, min0) ==
    LET perc == PERCEPTIBLE_APP_ADJ + 1
        swapPerc == IF m.wm > WMARK_MIN /\ m.th < thrashing_critical_pct THEN perc ELSE min0
        thrPerc == IF m.th < thrashing_critical_pct THEN perc ELSE min0
    IN <<
    [c |-> m.src = "VENDOR", kr |-> "VENDOR", min |-> m.vmin, cut |-> FALSE, cf |-> cf],
    [c |-> cak /\ m.wm < WMARK_LOW, kr |-> "PRESSURE_AFTER_KILL",
     min |-> pressure_after_kill_min_score, cut |-> FALSE, cf |-> cf],
    [c |-> m.level = VMPRESS_LEVEL_CRITICAL /\ m.events # 0, kr |-> "NOT_RESPONDING",
     min |-> min0, cut |-> FALSE, cf |-> cf],
    [c |-> m.swapLow /\ m.th > thrashing_limit_pct, kr |-> "LOW_SWAP_AND_THRASHING",
     min |-> swapPerc, cut |-> FALSE, cf |-> TRUE],
    [c |-> m.swapLow /\ m.wm < WMARK_HIGH, kr |-> "LOW_MEM_AND_SWAP",
     min |-> swapPerc, cut |-> FALSE, cf |-> cf],
    [c |-> m.wm < WMARK_HIGH /\ swap_util_max < 100 /\ m.swapUtilHigh,
     kr |-> "LOW_MEM_AND_SWAP_UTIL", min |-> min0, cut |-> FALSE, cf |-> cf],
    [c |-> m.wm < WMARK_HIGH /\ m.th > lim, kr |-> "LOW_MEM_AND_THRASHING",
     min |-> thrPerc, cut |-> TRUE, cf |-> TRUE],
    [c |-> m.reclaim = "DIRECT" /\ m.th > lim, kr |-> "DIRECT_RECL_AND_THRASHING",
     min |-> thrPerc, cut |-> TRUE, cf |-> TRUE],
    [c |-> m.reclaim = "DIRECT" /\ direct_reclaim_threshold_ms > 0 /\ m.stuck,
     kr |-> "DIRECT_RECL_STUCK", min |-> min0, cut |-> FALSE, cf |-> cf],
    [c |-> cf /\ m.fileLow, kr |-> "LOW_FILECACHE_AFTER_THRASHING", min |-> perc,
     cut |-> FALSE, cf |-> cf],
    \* check_filecache with enough file cache: stop checking
    [c |-> cf, kr |-> None, min |-> min0, cut |-> FALSE, cf |-> FALSE] >>

FirstRow(rows) == CHOOSE i \in 1..Len(rows) :
                    rows[i].c /\ \A j \in 1..(i - 1) : ~rows[j].c

(* One pass of the classification from "Decide if killing a process is    *)
(* necessary" to the LOW_MEM fallback, starting from kill_reason kr0,     *)
(* min_score_adj min0 and cut_thrashing_limit cut0.                        *)
classify(m, cak, cf, lim, kr0, min0, cut0) ==
    LET rows == Rows(m, cak, cf, lim, min0)
        hit == \E i \in 1..Len(rows) : rows[i].c
        row == IF hit THEN rows[FirstRow(rows)] ELSE [kr |-> None, min |-> min0,
                                                     cut |-> FALSE, cf |-> cf]
        kr == IF row.kr = None THEN kr0 ELSE row.kr
    IN  IF kr = "NONE" /\ m.wm < WMARK_HIGH
        THEN [kr |-> "LOW_MEM", min |-> lowmem_min_oom_score, cut |-> cut0 \/ row.cut,
              cf |-> row.cf]
        ELSE [kr |-> kr, min |-> row.min, cut |-> cut0 \/ row.cut, cf |-> row.cf]

-----------------------------------------------------------------------------
(* The handler.  S is a record of the state variables; each step of       *)
(* __mp_event_psi maps it to the next, and the action commits the result. *)

Cur == [prev_level |-> prev_level, killing |-> killing, thrashing_limit |-> thrashing_limit,
        prev_thrash_growth |-> prev_thrash_growth, check_filecache |-> check_filecache,
        first_kill |-> first_kill,
        init_ws_refault |-> init_ws_refault, base_file_lru |-> base_file_lru,
        prev_workingset_refault |-> prev_workingset_refault, age |-> age,
        wmarks_init |-> wmarks_init, refault |-> refault, inflight |-> inflight,
        update |-> "DO_NOT_CHANGE", lastDec |-> None,
        lastDecay |-> None, h |-> None]

(* call_handler after the handler returns: poll_params->update decides    *)
(* which handler the main loop polls; DO_NOT_CHANGE ends polling once the *)
(* PSI window has passed, which it may have.                              *)
PollAfter(S) ==
    CASE S.update = "POLLING_START" ->
             poll_handler' = S.h /\ paused_handler' = paused_handler
      [] S.update = "POLLING_PAUSE" ->
             poll_handler' = None /\ paused_handler' = S.h
      [] S.update = "DO_NOT_CHANGE" ->
             /\ poll_handler' \in {poll_handler, None}
             /\ paused_handler' = paused_handler

(* The handler reads the refault counter only through differences and    *)
(* equality of refault, init_ws_refault and prev_workingset_refault, so   *)
(* the model keeps them shifted down by the smaller baseline; MaxRefault  *)
(* then bounds how far the counter runs ahead of its baselines.           *)
RefaultBase(S) ==
    IF S.init_ws_refault < S.prev_workingset_refault THEN S.init_ws_refault
    ELSE S.prev_workingset_refault

Commit(S) ==
    /\ prev_level' = S.prev_level /\ killing' = S.killing
    /\ thrashing_limit' = S.thrashing_limit /\ prev_thrash_growth' = S.prev_thrash_growth
    /\ check_filecache' = S.check_filecache
    /\ first_kill' = S.first_kill /\ init_ws_refault' = S.init_ws_refault - RefaultBase(S)
    /\ base_file_lru' = S.base_file_lru
    /\ prev_workingset_refault' = S.prev_workingset_refault - RefaultBase(S)
    /\ age' = S.age /\ wmarks_init' = S.wmarks_init /\ refault' = S.refault - RefaultBase(S)
    /\ inflight' = S.inflight
    /\ lastDec' = S.lastDec /\ lastDecay' = S.lastDecay
    /\ PollAfter(S)

(* Step 1: a PSI event below prev_level is ignored; an event sets it, a   *)
(* polling wakeup resets it.                                              *)
LevelLock(S, m) ==
    IF m.src # "PSI" THEN S
    ELSE [S EXCEPT !.prev_level = IF m.events > 0 THEN m.level ELSE VMPRESS_LEVEL_LOW]

Ignored(S, m) == m.src = "PSI" /\ m.events > 0 /\ m.level < S.prev_level

(* no_kill: the polling request for call_handler.  The polling interval  *)
(* it also picks is left out: when a tick comes is not modelled.          *)
no_kill(S, m, reclaim) ==
    IF PidfdSupported /\ S.inflight THEN [S EXCEPT !.update = "POLLING_PAUSE"]
    ELSE [S EXCEPT !.update = IF m.events > 0 \/ S.killing \/ reclaim = "DIRECT"
                              THEN "POLLING_START" ELSE "DO_NOT_CHANGE"]

(* Step 4: the first parsed event after a kill restarts the thrashing     *)
(* window from the fresh counters.                                        *)
PostKillReset(S, lru) ==
    IF ~S.killing THEN S
    ELSE [S EXCEPT !.killing = FALSE, !.base_file_lru = lru,
                   !.init_ws_refault = S.refault, !.age = 0, !.prev_thrash_growth = 0]

(* The decay as the design states it (invariant 6): growth >> w, the      *)
(* mathematical value, unless one window passed with growth at or over   *)
(* the limit.                                                             *)
DecayRef(growth, w, lim) ==
    IF w = 1 /\ growth >= lim THEN growth
    ELSE IF w >= 31 THEN 0 ELSE growth \div (2^w)

(* The refault growth of the open window, in percent of the file LRU,    *)
(* and the whole windows since it opened.                                 *)
WindowGrowth(S) == Growth(S.refault, S.init_ws_refault, S.base_file_lru)
WindowsPassed(S) == S.age \div THRASHING_RESET_INTERVAL_MS

(* Step 6: crossing THRASHING_RESET_INTERVAL_MS turns the window's growth *)
(* into prev_thrash_growth, decayed unless the window just crossed saw    *)
(* over-the-limit thrashing; sh is the outcome of the shift.              *)
ThrashWindow(S, lru, sh) ==
    LET growth == WindowGrowth(S)
        w == WindowsPassed(S)
        decays == w > 1 \/ growth < S.thrashing_limit
        ptg == IF decays THEN sh ELSE growth
    IN  [S EXCEPT !.prev_thrash_growth = ptg, !.base_file_lru = lru,
                  !.init_ws_refault = S.refault, !.age = 0,
                  !.thrashing_limit = thrashing_limit_pct,
                  !.lastDecay = [ok |-> ptg = DecayRef(growth, w, S.thrashing_limit)]]

Crossed(S) == S.age > THRASHING_RESET_INTERVAL_MS

(* thrashing: the growth of the open window, or 0 when it was just closed, *)
(* plus the carried prev_thrash_growth of the state T after the window.   *)
Thrashing(S, T) ==
    (IF Crossed(S) THEN 0 ELSE WindowGrowth(S)) + T.prev_thrash_growth

(* The watermarks are refreshed when never computed, or every 60 s when   *)
(* zoneinfo memevents are unsupported (stale); zoneinfo_parse may fail.    *)
NeedRefresh(S, stale) == ~S.wmarks_init \/ (~ZoneinfoSupported /\ stale)

(* Fault: the limit cut by decay percentage points, not by a percentage. *)
ActCutByPoints(S, c, stall, freed) ==
    LET T == [S EXCEPT !.inflight = freed]
    IN  IF ~freed THEN T
        ELSE [T EXCEPT !.killing = TRUE,
                       !.thrashing_limit = IF c.cut
                           THEN S.thrashing_limit - thrashing_limit_decay_pct
                           ELSE S.thrashing_limit]

(* After a kill attempt: find_and_kill_process freed pages (freed) or not. *)
Act(S, c, stall, freed) ==
    LET T == [S EXCEPT !.inflight = freed]
    IN  IF ~freed THEN T
        ELSE [T EXCEPT !.killing = TRUE,
                       !.thrashing_limit = IF c.cut
                           THEN (S.thrashing_limit * (100 - thrashing_limit_decay_pct)) \div 100
                           ELSE S.thrashing_limit]

-----------------------------------------------------------------------------
(* The reference: the reason table of the design (section 4.5, step 9),   *)
(* first match wins, with the min-score each reason is to be emitted with, *)
(* lowered to 0 under a critical stall.                                    *)
SpecTable(m, cak, cf, lim, stall) ==
    LET perc == PERCEPTIBLE_APP_ADJ + 1
        swapMin == IF m.wm > WMARK_MIN /\ m.th < thrashing_critical_pct THEN perc ELSE 0
        thrMin == IF m.th < thrashing_critical_pct THEN perc ELSE 0
        table == <<
          <<m.src = "VENDOR", "VENDOR", m.vmin>>,
          <<cak /\ m.wm < WMARK_LOW, "PRESSURE_AFTER_KILL", pressure_after_kill_min_score>>,
          <<m.level = VMPRESS_LEVEL_CRITICAL /\ m.events # 0, "NOT_RESPONDING", 0>>,
          <<m.swapLow /\ m.th > thrashing_limit_pct, "LOW_SWAP_AND_THRASHING", swapMin>>,
          <<m.swapLow /\ m.wm < WMARK_HIGH, "LOW_MEM_AND_SWAP", swapMin>>,
          <<m.wm < WMARK_HIGH /\ swap_util_max < 100 /\ m.swapUtilHigh,
            "LOW_MEM_AND_SWAP_UTIL", 0>>,
          <<m.wm < WMARK_HIGH /\ m.th > lim, "LOW_MEM_AND_THRASHING", thrMin>>,
          <<m.reclaim = "DIRECT" /\ m.th > lim, "DIRECT_RECL_AND_THRASHING", thrMin>>,
          <<m.reclaim = "DIRECT" /\ direct_reclaim_threshold_ms > 0 /\ m.stuck,
            "DIRECT_RECL_STUCK", 0>>,
          <<cf /\ m.fileLow, "LOW_FILECACHE_AFTER_THRASHING", perc>>,
          <<m.wm < WMARK_HIGH, "LOW_MEM", lowmem_min_oom_score>>,
          <<TRUE, "NONE", 0>> >>
        row == table[CHOOSE i \in 1..Len(table) :
                       table[i][1] /\ \A j \in 1..(i - 1) : ~table[j][1]]
    IN  [kr |-> row[2], min |-> IF stall THEN 0 ELSE row[3]]

-----------------------------------------------------------------------------
(* __mp_event_psi, in the order of the code.  Each step either ends the   *)
(* invocation (Commit) or draws what the next read returns and goes on.   *)
(* m is the event; r what vmstat and meminfo said (swapLow, reclaim,      *)
(* swapUtilHigh, stuck, fileLow, th); cak is cycle_after_kill.            *)

(* "Kill a process if necessary", past the first_kill check.  again: the  *)
(* decision was made after the first_kill jump back to update_watermarks. *)
Kill(S, mm, cak, cf0, lim0, c, again) ==
    \E stall \in IF c.min = 0 THEN {FALSE} ELSE BOOLEAN, freed \in BOOLEAN :
        LET ref == SpecTable(mm, cak, cf0, lim0, stall)
            dec == [first |-> again,
                    ok |-> c.kr = ref.kr /\ (IF stall THEN 0 ELSE c.min) = ref.min]
        IN  Commit(no_kill(Act([S EXCEPT !.lastDec = dec], c, stall, freed),
                           mm, mm.reclaim))

(* The second pass after goto update_watermarks: the refresh is forced,   *)
(* wmark and critical_stall are read again, and the chain runs with       *)
(* kill_reason, min_score_adj and cut_thrashing_limit left from pass c1.  *)
Rerun(S, m, r, cak, c1) ==
    \E zoneOk \in ZoneOutcomes :
        \/ ~zoneOk /\ Commit(S)
        \/ zoneOk /\ \E wm \in Wmarks :
              LET mm == [m EXCEPT !.wm = wm] @@ r
                  T == [S EXCEPT !.wmarks_init = TRUE]
                  c == classify(mm, cak, T.check_filecache, T.thrashing_limit,
                                c1.kr, c1.min, c1.cut)
              IN  Kill([T EXCEPT !.check_filecache = c.cf], mm, cak, T.check_filecache,
                       T.thrashing_limit, c, TRUE)

VendorInvalid(m) == m.src = "VENDOR" /\ m.vmin < 0

(* From the wmark read to the end, on the first pass.                     *)
Classify(S, m, r, cak) ==
    \E wm \in Wmarks :
        LET mm == [m EXCEPT !.wm = wm] @@ r
            c == classify(mm, cak, S.check_filecache, S.thrashing_limit, "NONE", 0, FALSE)
            T == [S EXCEPT !.check_filecache = c.cf]
        IN  \/ VendorInvalid(m) /\ Commit(S)
            \/ ~VendorInvalid(m) /\ c.kr = "NONE" /\ Commit(no_kill(T, mm, r.reclaim))
            \/ ~VendorInvalid(m) /\ c.kr # "NONE" /\ S.first_kill
               /\ Rerun([T EXCEPT !.first_kill = FALSE, !.wmarks_init = FALSE], m, r, cak, c)
            \/ ~VendorInvalid(m) /\ c.kr # "NONE" /\ ~S.first_kill
               /\ Kill(T, mm, cak, S.check_filecache, S.thrashing_limit, c, FALSE)

(* update_watermarks on the first pass.                                   *)
UpdateWatermarks(S, m, r, cak) ==
    \E stale \in IF ZoneinfoSupported THEN {FALSE} ELSE BOOLEAN :
        \/ ~NeedRefresh(S, stale) /\ Classify(S, m, r, cak)
        \/ NeedRefresh(S, stale) /\ \E zoneOk \in ZoneOutcomes :
              \/ ~zoneOk /\ Commit(S)
              \/ zoneOk /\ Classify([S EXCEPT !.wmarks_init = TRUE], m, r, cak)

(* Steps 5 and 6 after the early exit: prev_workingset_refault, the       *)
(* thrashing window.                                                      *)
ThrashStep(S, m, r0, lru, cak) ==
    LET S2 == [S EXCEPT !.prev_workingset_refault = S.refault]
        shifts == IF Crossed(S2) THEN ShiftOutcomes(WindowGrowth(S2), WindowsPassed(S2))
                  ELSE {0}
    IN  \E sh \in shifts :
          LET S3 == IF Crossed(S2) THEN ThrashWindow(S2, lru, sh) ELSE S2
              th == Thrashing(S2, S3)
          IN  UpdateWatermarks(S3, m, [r0 EXCEPT !.th = th], cak)

(* The reclaim state: from the memevent timestamps when the listener is   *)
(* up, from the pgscan counters (an input here) otherwise.                *)
ReclaimStates ==
    IF MemeventListener
    THEN {IF dr THEN "DIRECT" ELSE IF ks THEN "KSWAPD" ELSE "NONE"}
    ELSE {"NONE", "KSWAPD", "DIRECT"}

(* Step 5: swap and reclaim; with no reclaim and no refault since the     *)
(* previous PSI wakeup the invocation bails out to no_kill.               *)
SwapReclaim(S, m, lru, cak) ==
    \E swapLow \in BOOLEAN, reclaim \in ReclaimStates :
    \E swapUtilHigh \in IF swap_util_max < 100 THEN BOOLEAN ELSE {FALSE},
       stuck \in IF reclaim = "DIRECT" /\ direct_reclaim_threshold_ms > 0
                 THEN BOOLEAN ELSE {FALSE} :
        LET r == [swapLow |-> swapLow, reclaim |-> reclaim, swapUtilHigh |-> swapUtilHigh,
                  stuck |-> stuck, fileLow |-> lru < filecache_min_pages, th |-> 0]
        IN  \/ reclaim = "NONE" /\ S.refault = S.prev_workingset_refault /\ m.src = "PSI"
               /\ Commit(no_kill(S, m, reclaim))
            \/ ~(reclaim = "NONE" /\ S.refault = S.prev_workingset_refault /\ m.src = "PSI")
               /\ ThrashStep(S, m, r, lru, cak)

(* Steps 3 and 4: vmstat_parse and meminfo_parse, the post-kill reset.    *)
Parse(S, m) ==
    \E ok \in ParseOutcomes :
        \/ ~ok /\ Commit(S)
        \/ ok /\ \E lru \in FileLru : SwapReclaim(PostKillReset(S, lru), m, lru, S.killing)

(* Steps 1 and 2: the level lock and the kill-pending gate; past the gate *)
(* stop_wait_for_proc_kill ends any wait.  gated: the killed process is   *)
(* still alive (always, with pidfds) and kill_timeout_ms has not passed.  *)
Gated(S) ==
    IF ~S.inflight THEN {FALSE}
    ELSE IF PidfdSupported /\ kill_timeout_ms = 0 THEN {TRUE} ELSE BOOLEAN

Handle(S, m) ==
    \/ Ignored(S, m) /\ Commit(S)
    \/ ~Ignored(S, m) /\ \E gated \in Gated(S) :
          LET S1 == LevelLock(S, m)
          IN  \/ gated /\ Commit(no_kill(S1, m, "NONE"))
              \/ ~gated /\ Parse([S1 EXCEPT !.inflight = FALSE], m)

(* The clock and the refault counter move on before each invocation.     *)
Invoke(hd, m) ==
    \E adv \in Advances, step \in RefaultSteps :
        /\ age + adv <= MaxAge /\ refault + step <= MaxRefault
        /\ Handle([Cur EXCEPT !.age = age + adv, !.refault = refault + step,
                              !.h = hd], m)
        /\ UNCHANGED <<dr, ks>>

-----------------------------------------------------------------------------
(* The actions.                                                            *)

NoVendor == [src |-> "PSI", level |-> VMPRESS_LEVEL_LOW, events |-> 0, vmin |-> 0,
             wm |-> WMARK_NONE]

(* mp_event_psi: a PSI trigger of a level (events > 0), or a polling     *)
(* tick when the main loop polls the PSI handler.                         *)
MpEventPsi ==
    \/ \E level \in PsiLevels :
          Invoke("psi", [NoVendor EXCEPT !.level = level, !.events = 1])
    \/ poll_handler = "psi" /\ Invoke("psi", NoVendor)

(* memevent_listener_notification with one event, or with the poll tick's *)
(* empty batch when the main loop polls it after a vendor kill.  A failed *)
(* clock read or getMemEvents clears the direct reclaim timestamp.        *)
MemeventNotification ==
    /\ MemeventListener
    /\ \/ \E ev \in {"DR_BEGIN", "DR_END", "KSWAPD_WAKE", "KSWAPD_SLEEP",
                     "ZONEINFO", "FAIL", "EMPTY"} :
             /\ ev = "EMPTY" => poll_handler = "mem"
             /\ ev = "ZONEINFO" => ZoneinfoSupported
             /\ dr' = CASE ev = "DR_BEGIN" -> TRUE [] ev \in {"DR_END", "FAIL"} -> FALSE
                         [] OTHER -> dr
             /\ ks' = CASE ev = "KSWAPD_WAKE" -> TRUE [] ev = "KSWAPD_SLEEP" -> FALSE
                         [] OTHER -> ks
             /\ \E zoneOk \in IF ev = "ZONEINFO" THEN ZoneOutcomes ELSE {FALSE} :
                  Commit([Cur EXCEPT !.h = "mem",
                          !.wmarks_init = wmarks_init \/ (ev = "ZONEINFO" /\ zoneOk)])
       \/ \E vmin \in VendorMins :
             Invoke("mem", [src |-> "VENDOR", level |-> VMPRESS_LEVEL_LOW, events |-> 0,
                           vmin |-> vmin, wm |-> WMARK_NONE])

(* kill_done_handler: the pidfd of the killed process became readable.   *)
KillDone ==
    /\ PidfdSupported /\ inflight
    /\ inflight' = FALSE
    /\ poll_handler' = paused_handler /\ paused_handler' = None
    /\ UNCHANGED <<prev_level, killing, thrashing_limit, prev_thrash_growth, check_filecache,
                   first_kill, init_ws_refault, base_file_lru,
                   prev_workingset_refault, age, wmarks_init, refault, dr, ks>>
    /\ lastDec' = None /\ lastDecay' = None

(* mainloop: not polling, waiting for a kill, and kill_timeout_ms passed: *)
(* stop_wait_for_proc_kill(false) and resume a paused poll.               *)
KillTimeout ==
    /\ kill_timeout_ms > 0 /\ PidfdSupported /\ inflight /\ poll_handler = None
    /\ inflight' = FALSE
    /\ IF paused_handler # None
       THEN /\ poll_handler' = paused_handler
            /\ paused_handler' = None
       ELSE UNCHANGED <<poll_handler, paused_handler>>
    /\ UNCHANGED <<prev_level, killing, thrashing_limit, prev_thrash_growth, check_filecache,
                   first_kill, init_ws_refault, base_file_lru,
                   prev_workingset_refault, age, wmarks_init, refault, dr, ks>>
    /\ lastDec' = None /\ lastDecay' = None

Init ==
    /\ prev_level = VMPRESS_LEVEL_LOW /\ killing = FALSE
    /\ thrashing_limit = thrashing_limit_pct /\ prev_thrash_growth = 0
    /\ check_filecache = FALSE /\ first_kill = TRUE
    /\ init_ws_refault = 0 /\ base_file_lru = 0 /\ prev_workingset_refault = 0
    /\ age \in Uptimes /\ wmarks_init = FALSE /\ refault \in InitRefaults
    /\ inflight = FALSE /\ dr = FALSE /\ ks = FALSE
    /\ poll_handler = None /\ paused_handler = None
    /\ lastDec = None /\ lastDecay = None

Next == MpEventPsi \/ MemeventNotification \/ KillDone \/ KillTimeout

Spec == Init /\ [][Next]_vars

-----------------------------------------------------------------------------
(* Properties.                                                             *)

(* Every kill after the first is made for the reason, and with the       *)
(* min_score_adj, that the table of the design gives for the readings    *)
(* it was decided on (the if-chain of __mp_event_psi against 4.5).       *)
KillsAsTableAfterFirst == lastDec # None /\ ~lastDec.first => lastDec.ok

(* The same for every kill, the first included: the first_kill refresh   *)
(* is to re-classify on the fresh watermarks (4.5 step 10, invariant 4). *)
MinScoreAsTable == lastDec # None => lastDec.ok

(* Crossing a thrashing window decays prev_thrash_growth by              *)
(* 2^windows_passed, unless exactly one window passed with growth at or  *)
(* over thrashing_limit, where it is kept (invariant 6).                 *)
ThrashDecay == lastDecay # None => lastDecay.ok

(* The main loop polls only the PSI handler: polling is there to         *)
(* re-evaluate PSI pressure during and after a kill (call_handler with    *)
(* POLLING_START or RESUME), and a poll of memevent_listener_notification *)
(* only drains the event ring.                                            *)
PollsPsiOnly == poll_handler \in {None, "psi"}

=============================================================================
