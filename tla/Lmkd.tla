-------------------------------- MODULE Lmkd --------------------------------
(***************************************************************************)
(* The kill path of lmkd (src/lmkd.cpp): the process registry kept by the *)
(* main thread (pidhash + procadjslot_list), the control commands that    *)
(* change it, the kill of one victim (kill_one_process), the walk over    *)
(* oom_score_adj buckets (find_and_kill_process), waiting for a victim to *)
(* die (start/stop_wait_for_proc_kill, kill_done_handler,                 *)
(* kill_fail_handler, the kill-timeout branch of mainloop), the reaper    *)
(* threads that deliver asynchronous kills, and the polling state of      *)
(* call_handler.  The memory-pressure decision of __mp_event_psi is       *)
(* abstracted to a nondeterministic choice: no kill, or kill at some      *)
(* minimum score.  Processes are driven by the kernel as an environment:  *)
(* they exit, become zombies, are reaped, and their pids are reused.      *)
(*                                                                         *)
(* Every main-thread handler runs to completion (epoll loop, one thread), *)
(* so each handler is one action.  Inside a handler the C functions are   *)
(* composed as operators on a record S of the state they touch.          *)
(***************************************************************************)
EXTENDS Integers, Sequences, SequencesExt, FiniteSets, TLC

CONSTANTS
    Pids,            \* pids the kernel may hand out (model values)
    Peers,           \* control-socket clients (model values: ActivityManager...)
    NoPeer,          \* reg_pid of a record whose registrant disconnected
    None,            \* "no pid / no fd / no candidate"
    ReqAdjs,         \* oom_score_adj values sent in LMK_PROCPRIO
    PTypes,          \* proc.ptype values sent in LMK_PROCPRIO
    MinScores,       \* min_score_adj values the decision engine may pick
    RssPages,        \* VmRSS / statm sizes, in pages, a process may show
    Fds,             \* the fd numbers pidfd_open may return
    MaxGen,          \* bound on how often a pid is reused
    PidfdSupported,  \* pidfd_supported
    PerAppMemcg,     \* per_app_memcg
    KillHeaviest,    \* kill_heaviest_task
    KillTimeoutSet,  \* kill_timeout_ms != 0
    ReaperThreads,   \* reaper.thread_cnt() (0 when reaping is unsupported)
    EpollOutcomes    \* results epoll_ctl(ADD) of a pidfd may have

ASSUME /\ ReqAdjs \subseteq -1000..1000 /\ MinScores \subseteq 0..1000
       /\ PTypes \subseteq {"app", "service"}
       /\ Fds \subseteq Nat /\ RssPages \subseteq Nat /\ MaxGen \in Nat
       /\ ReaperThreads \in Nat /\ EpollOutcomes \subseteq BOOLEAN
       /\ {PidfdSupported, PerAppMemcg, KillHeaviest, KillTimeoutSet} \subseteq BOOLEAN

NoFd == -1
PERCEPTIBLE_APP_ADJ == 200
OOM_SCORE_ADJ_MAX == 1000

(* register_oom_adj_proc: an app at 600..699 (the launcher) is recorded   *)
(* at 200 when per-app memcgs are in use.                                 *)
EffectiveAdj(adj, t) ==
    IF t = "app" /\ PerAppMemcg /\ adj >= 600 /\ adj < 700 THEN 200 ELSE adj

Adjs == {EffectiveAdj(a, t) : a \in ReqAdjs, t \in PTypes}

VARIABLES
    proc,       \* pidhash: pid -> [pidfd, oomadj, reg]
    slots,      \* procadjslot_list: adj -> pids, head.next first, tail last
    fdOf,       \* open pidfds: fd -> <<pid, generation>> it refers to
    lastKill,   \* last_kill_pid_or_fd (None for -1)
    timerExp,   \* kill_timeout_ms elapsed since last_kill_tm
    os,         \* kernel state of the process currently holding each pid
    gen,        \* generation of the process currently holding each pid
    rq,         \* reaper requests queued or in progress: [pid, tgt]
    pipe,       \* reaper_comm_fd: pids whose asynchronous kill failed
    conn,       \* peers with an open data connection
    polling,    \* poll_params.poll_handler != NULL
    paused,     \* poll_params.paused_handler != NULL
    killing,    \* the static flag of __mp_event_psi
    mst,        \* "idle", or "scan" while find_and_kill_process runs
    cur,        \* its loop variable i
    minAdj,     \* its min_score_adj
    ksize,      \* its killed_size
    evt,        \* the handler was called for an event (events != 0)
    victim,     \* <<pid, gen>> of the last successful kill, or None
    wrongKill,  \* SIGKILL reached a process nobody registered (history)
    badClose,   \* close() of an fd that was not open (history)
    badUse      \* an fd that was not open handed to a syscall (history)

vars == <<proc, slots, fdOf, lastKill, timerExp, os, gen, rq, pipe, conn,
          polling, paused, killing, mst, cur, minAdj, ksize, evt, victim,
          wrongKill, badClose, badUse>>

OsStates == {"alive", "killed", "zombie", "dead"}
Gens == 0..MaxGen
Procs == Pids \X Gens
(* regGen is not in struct proc: the generation of the process the last  *)
(* LMK_PROCPRIO for this pid described.                                   *)
ProcRec == [pidfd : Fds \cup {NoFd}, oomadj : Adjs, reg : Peers \cup {NoPeer},
            regGen : Gens]

TypeOK ==
    /\ proc \in UNION {[D -> ProcRec] : D \in SUBSET Pids}
    /\ slots \in [Adjs -> Seq(Pids)]
    /\ fdOf \in UNION {[D -> Procs] : D \in SUBSET Fds}
    /\ lastKill \in Fds \cup Pids \cup {None}
    /\ timerExp \in BOOLEAN
    /\ os \in [Pids -> OsStates] /\ gen \in [Pids -> Gens]
    /\ rq \subseteq [pid : Pids, tgt : Procs \cup {None}]
    /\ pipe \in Seq(Pids)
    /\ conn \subseteq Peers
    /\ {polling, paused, killing, evt} \subseteq BOOLEAN
    /\ mst \in {"idle", "scan"} /\ cur \in Adjs \cup {None}
    /\ minAdj \in MinScores \cup {None} /\ ksize \in Int
    /\ victim \in Procs \cup {None}
    /\ {wrongKill, badClose, badUse} \subseteq BOOLEAN

-----------------------------------------------------------------------------
(* The state a main-thread handler reads and writes, as one record.       *)
Cur == [proc |-> proc, slots |-> slots, fds |-> fdOf, last |-> lastKill,
        timerExp |-> timerExp, os |-> os, rq |-> rq, victim |-> victim,
        wrongKill |-> wrongKill, badClose |-> badClose, badUse |-> badUse]

Commit(S) ==
    /\ proc' = S.proc /\ slots' = S.slots /\ fdOf' = S.fds
    /\ lastKill' = S.last /\ timerExp' = S.timerExp /\ os' = S.os
    /\ rq' = S.rq /\ victim' = S.victim /\ wrongKill' = S.wrongKill
    /\ badClose' = S.badClose /\ badUse' = S.badUse

Me(p) == <<p, gen[p]>>

(* close(2) *)
CloseFd(S, f) ==
    [S EXCEPT !.fds = Restrict(S.fds, DOMAIN S.fds \ {f}),
              !.badClose = @ \/ f \notin DOMAIN S.fds]

(* The lowest free descriptor, as pidfd_open allocates it.                *)
FreeFd(S) == CHOOSE f \in Fds \ DOMAIN S.fds :
                 \A g \in Fds \ DOMAIN S.fds : f <= g

(* The kernel delivers SIGKILL to the process now holding pid p; rg is   *)
(* the generation the framework registered under p.                       *)
Signal(S, p, rg) ==
    [S EXCEPT !.os[p] = IF @ = "alive" THEN "killed" ELSE @,
              !.wrongKill = @ \/ gen[p] # rg]

(* proc_unslot / proc_slot                                                *)
Unslot(S, p) == [S EXCEPT !.slots[S.proc[p].oomadj] = Remove(@, p)]
Slot(S, p) == [S EXCEPT !.slots[S.proc[p].oomadj] = Cons(p, @)]

(* Fault variant: pid_remove closing the pidfd even while it is waited on. *)
PidRemoveClosesWaited(S, p) ==
    IF p \notin DOMAIN S.proc THEN S
    ELSE LET fd == S.proc[p].pidfd
             S1 == [Unslot(S, p) EXCEPT !.proc = Restrict(@, DOMAIN @ \ {p})]
         IN  IF fd # NoFd THEN CloseFd(S1, fd) ELSE S1

(* pid_remove: unhash, unslot, and close the pidfd unless it is the one   *)
(* being waited on.                                                       *)
PidRemove(S, p) ==
    IF p \notin DOMAIN S.proc THEN S
    ELSE LET fd == S.proc[p].pidfd
             S1 == [Unslot(S, p) EXCEPT !.proc = Restrict(@, DOMAIN @ \ {p})]
         IN  IF fd # NoFd /\ fd # S.last THEN CloseFd(S1, fd) ELSE S1

(* stop_wait_for_proc_kill: with pidfds, unregister and close the fd.     *)
StopWait(S) ==
    IF S.last = None THEN S
    ELSE IF PidfdSupported THEN [CloseFd(S, S.last) EXCEPT !.last = None]
    ELSE [S EXCEPT !.last = None]

(* start_wait_for_proc_kill(pid_or_fd); epollOk is the epoll_ctl result.  *)
StartWait(S, x, epollOk) ==
    LET S1 == [StopWait(S) EXCEPT !.last = x]
    IN  IF ~PidfdSupported \/ epollOk THEN S1
        ELSE [CloseFd(S1, x) EXCEPT !.last = None]

(* Reaper::kill(target, synchronous = false): a target without a pidfd   *)
(* gets kill(2); otherwise async_kill queues dup(pidfd) for a worker      *)
(* while fewer requests are active than there are threads, else the      *)
(* signal is sent here with pidfd_send_signal.  res is the return value.  *)
Target(S, fd) == IF fd \in DOMAIN S.fds THEN S.fds[fd] ELSE None
Live(S, t) == t # None /\ gen[t[1]] = t[2] /\ S.os[t[1]] # "dead"
Misuse(S, fd) == S.badUse \/ fd \notin DOMAIN S.fds

(* Fault variant: async_kill queueing the caller's pidfd instead of a dup. *)
ReaperKillSharedFd(S, p, fd, rg) ==
    IF fd = NoFd
    THEN IF S.os[p] # "dead" THEN [s |-> Signal(S, p, rg), res |-> 0]
                            ELSE [s |-> S, res |-> -1]
    ELSE IF Cardinality(S.rq) < ReaperThreads
    THEN [s |-> [S EXCEPT !.rq = @ \cup {[pid |-> p, tgt |-> fd]}], res |-> 0]
    ELSE IF Live(S, Target(S, fd))
    THEN [s |-> Signal(S, p, Target(S, fd)[2]), res |-> 0]
    ELSE [s |-> S, res |-> -1]

ReaperKill(S, p, fd, rg) ==
    IF fd = NoFd
    THEN IF S.os[p] # "dead" THEN [s |-> Signal(S, p, rg), res |-> 0]
                            ELSE [s |-> S, res |-> -1]
    ELSE IF Cardinality(S.rq) < ReaperThreads
    THEN [s |-> [S EXCEPT !.rq = @ \cup {[pid |-> p, tgt |-> Target(S, fd)]},
                          !.badUse = Misuse(S, fd)],
          res |-> 0]
    ELSE IF Live(S, Target(S, fd))
    THEN [s |-> Signal(S, p, Target(S, fd)[2]), res |-> 0]
    ELSE [s |-> [S EXCEPT !.badUse = Misuse(S, fd)], res |-> -1]

(* Fault variant: kill_one_process signalling by pid, ignoring the pidfd. *)
KillOneByPid(S, p, rss, epollOk) ==
    LET fd == S.proc[p].pidfd
        W  == StartWait(S, IF fd = NoFd THEN p ELSE fd, epollOk)
        K  == ReaperKill(W, p, NoFd, S.proc[p].regGen)
    IN  IF S.os[p] \notin {"alive", "killed"}
        THEN [s |-> PidRemove(S, p), res |-> -1]
        ELSE IF K.res # 0
        THEN [s |-> PidRemove(StopWait(K.s), p), res |-> 0]
        ELSE [s |-> PidRemove([K.s EXCEPT !.timerExp = FALSE, !.victim = Me(p)], p),
              res |-> rss]

(* kill_one_process: a record that is not a live, non-zombie process is   *)
(* dropped (-1); otherwise wait for the victim, kill it, and drop the     *)
(* record.  A failed kill returns the free-memory hook's result, 0.       *)
(* rss is the VmRSS of /proc/<pid>/status in pages.                       *)
KillOne(S, p, rss, epollOk) ==
    LET fd == S.proc[p].pidfd
        W  == StartWait(S, IF fd = NoFd THEN p ELSE fd, epollOk)
        K  == ReaperKill(W, p, fd, S.proc[p].regGen)
        v  == IF fd = NoFd \/ Target(W, fd) = None THEN Me(p) ELSE Target(W, fd)
    IN  IF S.os[p] \notin {"alive", "killed"}
        THEN [s |-> PidRemove(S, p), res |-> -1]
        ELSE IF K.res # 0
        THEN [s |-> PidRemove(StopWait(K.s), p), res |-> 0]
        ELSE [s |-> PidRemove([K.s EXCEPT !.timerExp = FALSE, !.victim = v], p),
              res |-> rss]

(* proc_get_heaviest(adj): a single record is returned unmeasured;        *)
(* otherwise records whose statm cannot be read are dropped and the first *)
(* (newest) record of strictly largest nonzero size is chosen.  sz gives  *)
(* the statm size of each live process; a zombie's is 0.                  *)
Heaviest(S, a, sz) ==
    LET b    == S.slots[a]
        gone == {q \in ToSet(b) : S.os[q] = "dead"}
        rest == SelectSeq(b, LAMBDA q : q \notin gone)
        size(q) == IF S.os[q] = "zombie" THEN 0 ELSE sz[q]
        top  == {i \in DOMAIN rest :
                    /\ size(rest[i]) > 0
                    /\ \A j \in DOMAIN rest : size(rest[j]) <= size(rest[i])
                    /\ \A j \in 1..(i - 1) : size(rest[j]) < size(rest[i])}
    IN  IF Len(b) = 1 THEN [s |-> S, pick |-> b[1]]
        ELSE [s |-> FoldSet(LAMBDA q, T : PidRemove(T, q), S, gone),
              pick |-> IF top = {} THEN None ELSE rest[CHOOSE i \in top : TRUE]]

(* proc_adj_tail(adj): the oldest record of the bucket.                   *)
AdjTail(S, a) == [s |-> S, pick |-> IF S.slots[a] = <<>> THEN None ELSE Last(S.slots[a])]

(* The next bucket find_and_kill_process visits below i, if any.          *)
NextScore(i, m) == LET B == {a \in Adjs : a < i /\ a >= m}
                   IN  IF B = {} THEN None ELSE Max(B)

(* call_handler: apply poll_params.update at the end of a handler.        *)
(* "none" is POLLING_DO_NOT_CHANGE; the PSI window may have run out.      *)
ApplyUpdate(u) ==
    CASE u = "start"  -> polling' = TRUE /\ UNCHANGED paused
      [] u = "pause"  -> polling' = FALSE /\ paused' = TRUE
      [] u = "resume" -> polling' = paused /\ paused' = FALSE
      [] u = "none"   -> (\E expired \in BOOLEAN : polling' = (polling /\ ~expired))
                         /\ UNCHANGED paused

(* The no_kill tail of __mp_event_psi: pause while a pidfd is waited on,  *)
(* else start polling after an event, a kill or direct reclaim.           *)
PollUpdate(S, ev, kill, direct) ==
    ApplyUpdate(IF PidfdSupported /\ S.last # None THEN "pause"
                ELSE IF ev \/ kill \/ direct THEN "start" ELSE "none")

(* is_kill_pending: a wait is registered and, without pidfds, the victim's *)
(* /proc/<pid> still exists.                                              *)
KillPending == lastKill # None /\ (PidfdSupported \/ os[lastKill] # "dead")

-----------------------------------------------------------------------------
(* Control commands (ctrl_command_handler), run by the main thread while  *)
(* no other handler is running.                                           *)

(* Fault variant: an existing record re-slotted without proc_unslot.      *)
ProcPrioNoUnslot(a, p, adj, t) ==
    LET e == EffectiveAdj(adj, t)
        S == Cur
        New == IF PidfdSupported
               THEN [S EXCEPT !.fds = (FreeFd(S) :> Me(p)) @@ @,
                              !.proc = (p :> [pidfd |-> FreeFd(S), oomadj |-> e,
                                              reg |-> a, regGen |-> gen[p]]) @@ @]
               ELSE [S EXCEPT !.proc = (p :> [pidfd |-> NoFd, oomadj |-> e,
                                              reg |-> a, regGen |-> gen[p]]) @@ @]
        Moved == Slot([S EXCEPT !.proc[p].oomadj = e, !.proc[p].reg = a,
                                !.proc[p].regGen = gen[p]], p)
    IN  /\ mst = "idle" /\ a \in conn
        /\ os[p] # "dead"
        /\ IF p \notin DOMAIN proc
           THEN /\ ~PidfdSupported \/ Fds \ DOMAIN fdOf # {}
                /\ Commit(Slot(New, p))
           ELSE /\ proc[p].reg \in {a, NoPeer}
                /\ Commit(Moved)
        /\ UNCHANGED <<gen, pipe, conn, polling, paused, killing, mst, cur,
                       minAdj, ksize, evt>>

(* Fault variant: register_oom_adj_proc without claim_record.           *)
ProcPrioNoClaim(a, p, adj, t) ==
    LET e == EffectiveAdj(adj, t)
        S == Cur
        New == IF PidfdSupported
               THEN [S EXCEPT !.fds = (FreeFd(S) :> Me(p)) @@ @,
                              !.proc = (p :> [pidfd |-> FreeFd(S), oomadj |-> e,
                                              reg |-> a, regGen |-> gen[p]]) @@ @]
               ELSE [S EXCEPT !.proc = (p :> [pidfd |-> NoFd, oomadj |-> e,
                                              reg |-> a, regGen |-> gen[p]]) @@ @]
        Moved == Slot([Unslot(S, p) EXCEPT !.proc[p].oomadj = e,
                                           !.proc[p].reg = a,
                                           !.proc[p].regGen = gen[p]], p)
    IN  /\ mst = "idle" /\ a \in conn
        /\ os[p] # "dead"
        /\ IF p \notin DOMAIN proc
           THEN /\ ~PidfdSupported \/ Fds \ DOMAIN fdOf # {}
                /\ Commit(Slot(New, p))
           ELSE Commit(Moved)
        /\ UNCHANGED <<gen, pipe, conn, polling, paused, killing, mst, cur,
                       minAdj, ksize, evt>>

(* LMK_PROCPRIO: apply_proc_prio writes /proc/<pid>/oom_score_adj (fails  *)
(* when the pid is free) and register_oom_adj_proc creates the record     *)
(* with a fresh pidfd, or moves a record the caller may claim.            *)
ProcPrio(a, p, adj, t) ==
    LET e == EffectiveAdj(adj, t)
        S == Cur
        New == IF PidfdSupported
               THEN [S EXCEPT !.fds = (FreeFd(S) :> Me(p)) @@ @,
                              !.proc = (p :> [pidfd |-> FreeFd(S), oomadj |-> e,
                                              reg |-> a, regGen |-> gen[p]]) @@ @]
               ELSE [S EXCEPT !.proc = (p :> [pidfd |-> NoFd, oomadj |-> e,
                                              reg |-> a, regGen |-> gen[p]]) @@ @]
        Moved == Slot([Unslot(S, p) EXCEPT !.proc[p].oomadj = e,
                                           !.proc[p].reg = a,
                                           !.proc[p].regGen = gen[p]], p)
    IN  /\ mst = "idle" /\ a \in conn
        /\ os[p] # "dead"
        /\ IF p \notin DOMAIN proc
           THEN /\ ~PidfdSupported \/ Fds \ DOMAIN fdOf # {}
                /\ Commit(Slot(New, p))
           ELSE /\ proc[p].reg \in {a, NoPeer}
                /\ Commit(Moved)
        /\ UNCHANGED <<gen, pipe, conn, polling, paused, killing, mst, cur,
                       minAdj, ksize, evt>>

(* LMK_PROCREMOVE: drop the record if the caller may claim it.            *)
ProcRemove(a, p) ==
    /\ mst = "idle" /\ a \in conn
    /\ p \in DOMAIN proc /\ proc[p].reg \in {a, NoPeer}
    /\ Commit(PidRemove(Cur, p))
    /\ UNCHANGED <<gen, pipe, conn, polling, paused, killing, mst, cur,
                   minAdj, ksize, evt>>

(* LMK_PROCPURGE: drop every record the caller may claim.                 *)
ProcPurge(a) ==
    /\ mst = "idle" /\ a \in conn
    /\ Commit(FoldSet(LAMBDA q, T : PidRemove(T, q), Cur,
                      {q \in DOMAIN proc : proc[q].reg \in {a, NoPeer}}))
    /\ UNCHANGED <<gen, pipe, conn, polling, paused, killing, mst, cur,
                   minAdj, ksize, evt>>

(* ctrl_connect_handler accepts a peer.                                   *)
PeerConnect(a) ==
    /\ mst = "idle" /\ a \notin conn
    /\ conn' = conn \cup {a}
    /\ UNCHANGED <<proc, slots, fdOf, lastKill, timerExp, os, gen, rq, pipe,
                   polling, paused, killing, mst, cur, minAdj, ksize, evt,
                   victim, wrongKill, badClose, badUse>>

(* ctrl_data_close: remove_claims makes the peer's records unowned.       *)
PeerDisconnect(a) ==
    /\ mst = "idle" /\ a \in conn
    /\ conn' = conn \ {a}
    /\ proc' = [q \in DOMAIN proc |->
                  IF proc[q].reg = a THEN [proc[q] EXCEPT !.reg = NoPeer]
                                     ELSE proc[q]]
    /\ UNCHANGED <<slots, fdOf, lastKill, timerExp, os, gen, rq, pipe,
                   polling, paused, killing, mst, cur, minAdj, ksize, evt,
                   victim, wrongKill, badClose, badUse>>

-----------------------------------------------------------------------------
(* Memory pressure.                                                       *)

(* The end of find_and_kill_process: back in __mp_event_psi, a positive   *)
(* result sets killing, then the polling update of no_kill.               *)
EndScan(S, pages) ==
    /\ mst' = "idle" /\ cur' = None /\ minAdj' = None /\ ksize' = 0
    /\ evt' = FALSE /\ killing' = (pages > 0)
    /\ \E direct \in BOOLEAN : PollUpdate(S, evt, pages > 0, direct)

(* __mp_event_psi for a PSI event (ev) or a polling tick: skip while a    *)
(* kill is pending and its timeout has not run out; otherwise stop        *)
(* waiting, reset killing, and either decide not to kill or start         *)
(* find_and_kill_process at min_score_adj m from OOM_SCORE_ADJ_MAX down.  *)
MpEventPsi(ev) ==
    /\ mst = "idle" /\ (ev \/ polling)
    /\ IF KillPending /\ (~KillTimeoutSet \/ ~timerExp)
       THEN /\ PollUpdate(Cur, ev, killing, FALSE)
            /\ UNCHANGED <<proc, slots, fdOf, lastKill, timerExp, os, rq,
                           victim, wrongKill, badClose, badUse, killing,
                           mst, cur, minAdj, ksize, evt>>
       ELSE LET S == StopWait(Cur) IN
            /\ Commit(S) /\ killing' = FALSE
            /\ \/ /\ \E direct \in BOOLEAN : PollUpdate(S, ev, FALSE, direct)
                  /\ UNCHANGED <<mst, cur, minAdj, ksize, evt>>
               \/ \E m \in MinScores :
                     /\ NextScore(OOM_SCORE_ADJ_MAX + 1, m) # None
                     /\ mst' = "scan" /\ cur' = NextScore(OOM_SCORE_ADJ_MAX + 1, m)
                     /\ minAdj' = m /\ ksize' = 0 /\ evt' = ev
                     /\ UNCHANGED <<polling, paused>>
    /\ UNCHANGED <<gen, pipe, conn>>

(* One pass of the inner loop of find_and_kill_process at score cur: pick *)
(* the tail (or heaviest) record and kill it; retry the bucket after a    *)
(* record dropped unkilled (-1), leave the loop when killed_size != 0,    *)
(* else go on to the next lower score.                                    *)
ScanStep ==
    /\ mst = "scan"
    /\ \E sz \in [Pids -> RssPages], rss \in RssPages, ok \in EpollOutcomes :
         LET H == IF KillHeaviest \/ cur <= PERCEPTIBLE_APP_ADJ
                  THEN Heaviest(Cur, cur, sz) ELSE AdjTail(Cur, cur)
             K == IF H.pick = None THEN [s |-> H.s, res |-> ksize]
                  ELSE KillOne(H.s, H.pick, rss, ok)
             nxt == NextScore(cur, minAdj)
             again == H.pick # None /\ K.res < 0
         IN  /\ Commit(K.s)
             /\ IF again
                THEN /\ ksize' = K.res
                     /\ UNCHANGED <<mst, cur, minAdj, evt, killing, polling, paused>>
                ELSE IF K.res # 0 \/ nxt = None
                THEN EndScan(K.s, K.res)
                ELSE /\ cur' = nxt /\ ksize' = K.res
                     /\ UNCHANGED <<mst, minAdj, evt, killing, polling, paused>>
    /\ UNCHANGED <<gen, pipe, conn>>

-----------------------------------------------------------------------------
(* Waiting for the victim.                                                *)

Exited(t) == gen[t[1]] # t[2] \/ os[t[1]] \in {"zombie", "dead"}

(* Fault variant: kill_done_handler resuming without stopping the wait.   *)
KillDoneHandlerNoStop ==
    /\ mst = "idle" /\ PidfdSupported /\ lastKill # None
    /\ Exited(fdOf[lastKill])
    /\ Commit(Cur) /\ ApplyUpdate("resume")
    /\ UNCHANGED <<gen, pipe, conn, killing, mst, cur, minAdj, ksize, evt>>

(* kill_done_handler: the waited-on pidfd became readable.                *)
KillDoneHandler ==
    /\ mst = "idle" /\ PidfdSupported /\ lastKill # None
    /\ Exited(fdOf[lastKill])
    /\ Commit(StopWait(Cur)) /\ ApplyUpdate("resume")
    /\ UNCHANGED <<gen, pipe, conn, killing, mst, cur, minAdj, ksize, evt>>

(* kill_fail_handler: read one pid from the reaper pipe and stop the      *)
(* current wait, whichever pid it was.                                    *)
KillFailHandler ==
    /\ mst = "idle" /\ pipe # <<>>
    /\ pipe' = Tail(pipe)
    /\ Commit(StopWait(Cur)) /\ ApplyUpdate("resume")
    /\ UNCHANGED <<gen, conn, killing, mst, cur, minAdj, ksize, evt>>

(* mainloop, not polling, waiting on a pidfd: epoll_wait timed out after  *)
(* kill_timeout_ms; stop waiting and resume paused polling.               *)
KillWaitTimeout ==
    /\ mst = "idle" /\ ~polling /\ KillTimeoutSet /\ PidfdSupported
    /\ lastKill # None /\ timerExp
    /\ Commit(StopWait(Cur))
    /\ IF paused THEN polling' = TRUE /\ paused' = FALSE
                 ELSE UNCHANGED <<polling, paused>>
    /\ UNCHANGED <<gen, pipe, conn, killing, mst, cur, minAdj, ksize, evt>>

(* Fault variant: the failure report carries the target, not its pid.    *)
ReaperWorkReportsTarget(r) ==
    /\ r \in rq
    /\ rq' = rq \ {r}
    /\ IF Live(Cur, r.tgt)
       THEN /\ os' = [os EXCEPT ![r.pid] = IF @ = "alive" THEN "killed" ELSE @]
            /\ UNCHANGED pipe
       ELSE /\ pipe' = Append(pipe, r.tgt)
            /\ UNCHANGED os
    /\ UNCHANGED <<proc, slots, fdOf, lastKill, timerExp, gen, conn, polling,
                   paused, killing, mst, cur, minAdj, ksize, evt, victim, wrongKill,
                   badClose, badUse>>

(* A reaper thread: pidfd_send_signal on the duplicated pidfd, or write   *)
(* the pid to the pipe when that fails; then close the dup.               *)
ReaperWork(r) ==
    /\ r \in rq
    /\ rq' = rq \ {r}
    /\ IF Live(Cur, r.tgt)
       THEN /\ os' = [os EXCEPT ![r.pid] = IF @ = "alive" THEN "killed" ELSE @]
            /\ UNCHANGED pipe
       ELSE /\ pipe' = Append(pipe, r.pid)
            /\ UNCHANGED os
    /\ UNCHANGED <<proc, slots, fdOf, lastKill, timerExp, gen, conn, polling,
                   paused, killing, mst, cur, minAdj, ksize, evt, victim, wrongKill,
                   badClose, badUse>>

-----------------------------------------------------------------------------
(* The kernel and the clock.                                              *)

EnvVars == <<proc, slots, fdOf, lastKill, rq, pipe, conn, polling, paused,
             killing, mst, cur, minAdj, ksize, evt, victim, wrongKill,
             badClose, badUse>>

(* A process exits by itself, leaving a zombie or being reaped at once.   *)
ProcExit(p) ==
    /\ os[p] = "alive" /\ os' \in {[os EXCEPT ![p] = "zombie"], [os EXCEPT ![p] = "dead"]}
    /\ UNCHANGED <<gen, timerExp>> /\ UNCHANGED EnvVars

(* A killed process finishes dying, or its parent reaps a zombie.         *)
Reap(p) ==
    /\ os[p] \in {"killed", "zombie"} /\ os' = [os EXCEPT ![p] = "dead"]
    /\ UNCHANGED <<gen, timerExp>> /\ UNCHANGED EnvVars

(* The pid is handed to a new process.                                    *)
PidReuse(p) ==
    /\ os[p] = "dead" /\ gen[p] < MaxGen
    /\ os' = [os EXCEPT ![p] = "alive"] /\ gen' = [gen EXCEPT ![p] = @ + 1]
    /\ UNCHANGED timerExp /\ UNCHANGED EnvVars

(* kill_timeout_ms elapses after last_kill_tm.                            *)
TimerExpire ==
    /\ KillTimeoutSet /\ ~timerExp /\ timerExp' = TRUE
    /\ UNCHANGED <<os, gen>> /\ UNCHANGED EnvVars

-----------------------------------------------------------------------------
Init ==
    /\ proc = [q \in {} |-> None] /\ slots = [a \in Adjs |-> <<>>]
    /\ fdOf = [f \in {} |-> None] /\ lastKill = None /\ timerExp = TRUE
    /\ os = [q \in Pids |-> "alive"] /\ gen = [q \in Pids |-> 0]
    /\ rq = {} /\ pipe = <<>> /\ conn = {}
    /\ polling = FALSE /\ paused = FALSE /\ killing = FALSE
    /\ mst = "idle" /\ cur = None /\ minAdj = None /\ ksize = 0 /\ evt = FALSE
    /\ victim = None /\ wrongKill = FALSE
    /\ badClose = FALSE /\ badUse = FALSE

Next ==
    \/ \E a \in Peers, p \in Pids, adj \in ReqAdjs, t \in PTypes : ProcPrio(a, p, adj, t)
    \/ \E a \in Peers, p \in Pids : ProcRemove(a, p)
    \/ \E a \in Peers : ProcPurge(a) \/ PeerConnect(a) \/ PeerDisconnect(a)
    \/ \E ev \in BOOLEAN : MpEventPsi(ev)
    \/ ScanStep \/ KillDoneHandler \/ KillFailHandler \/ KillWaitTimeout
    \/ \E r \in rq : ReaperWork(r)
    \/ \E p \in Pids : ProcExit(p) \/ Reap(p) \/ PidReuse(p)
    \/ TimerExpire

(* The main loop keeps serving its handlers, reaper threads run, killed   *)
(* processes finish dying and the clock advances.                         *)
Fairness ==
    /\ WF_vars(ScanStep) /\ WF_vars(KillDoneHandler) /\ WF_vars(KillFailHandler)
    /\ WF_vars(KillWaitTimeout) /\ WF_vars(MpEventPsi(FALSE))
    /\ WF_vars(\E r \in rq : ReaperWork(r))
    /\ \A p \in Pids : WF_vars(os[p] = "killed" /\ Reap(p))
    /\ WF_vars(TimerExpire)

Spec == Init /\ [][Next]_vars /\ Fairness

-----------------------------------------------------------------------------
(* Properties.                                                            *)

(* pidhash and procadjslot_list describe the same records: every record   *)
(* sits exactly once in the bucket of its oomadj and nowhere else         *)
(* (proc_insert, the unslot/slot of register_oom_adj_proc, pid_remove).   *)
SlotsMatchHash ==
    \A a \in Adjs :
        /\ IsInjective(slots[a])
        /\ ToSet(slots[a]) = {p \in DOMAIN proc : proc[p].oomadj = a}

(* Every open pidfd is owned by exactly one party: a registered record,   *)
(* or, once its record is gone, the wait for the last victim              *)
(* (last_kill_pid_or_fd).  Closed by pid_remove unless waited on, and     *)
(* then by stop_wait_for_proc_kill; nothing leaks.                        *)
FdAccounting ==
    DOMAIN fdOf =
        ({proc[p].pidfd : p \in DOMAIN proc} \ {NoFd})
        \cup (IF PidfdSupported /\ lastKill # None THEN {lastKill} ELSE {})

(* SIGKILL from kill_one_process or a reaper thread only reaches the      *)
(* process generation the framework registered under that pid, even when  *)
(* the pid was recycled after registration.                               *)
NoWrongKill == ~wrongKill

(* No descriptor is closed twice: the failed-kill path of                 *)
(* kill_one_process (stop_wait_for_proc_kill, then pid_remove).           *)
NoDoubleClose == ~badClose

(* No closed descriptor is handed to the reaper: the epoll failure path   *)
(* of start_wait_for_proc_kill closes the pidfd the kill then uses.       *)
NoStaleFdUse == ~badUse

(* Kills are serial: a new victim is only killed once the previous one   *)
(* has exited or kill_timeout_ms has run out since it was killed          *)
(* (the kill-in-flight gate of __mp_event_psi and the wait handlers).     *)
KillsSerial ==
    [][victim' # victim /\ victim' # None =>
         victim = None \/ Exited(victim) \/ timerExp]_vars

(* find_and_kill_process walks every score from OOM_SCORE_ADJ_MAX down  *)
(* to min_score_adj: a selection that ends without a kill leaves no       *)
(* record of a live process at or above min_score_adj behind.             *)
ScanExhaustive ==
    [][mst = "scan" /\ mst' = "idle" /\ ~killing' =>
         ~\E q \in DOMAIN proc' : proc'[q].oomadj >= minAdj /\ os'[q] = "alive"]_vars

(* Under sustained memory pressure (PSI events keep arriving), a kill in  *)
(* flight stops blocking the engine: death notification, the reaper's     *)
(* failure report, the kill timeout or the victim's /proc entry vanishing *)
(* ends is_kill_pending, so lmkd can kill again.                          *)
PressureSpec == Spec /\ WF_vars(MpEventPsi(TRUE))

KillUnblocked == KillPending ~> ~KillPending

(* The registry implements the abstract Registry: records change only by *)
(* their owner or an unowned claim, disconnects orphan them, and records  *)
(* are dropped without their owner only by find_and_kill_process.         *)
AbsRecs == [p \in DOMAIN proc |-> [adj |-> proc[p].oomadj, owner |-> proc[p].reg]]
Reg == INSTANCE Registry WITH recs <- AbsRecs, selecting <- (mst = "scan")
RegistryRefined == Reg!Spec

=============================================================================
