------------------------------ MODULE Watchdog ------------------------------
(***************************************************************************)
(* The watchdog thread of lmkd (watchdog_callback) against the main       *)
(* thread's registry mutation.  The main thread inserts and removes       *)
(* records in steps, as register_oom_adj_proc/proc_insert and pid_remove  *)
(* do: the pidhash link is changed without a lock, the bucket list under  *)
(* adjslot_list_lock held exclusively, the pidfd is closed and the record *)
(* freed without a lock.  The watchdog takes the lock shared: once in     *)
(* find_victim, to copy a candidate, and once across pid_invalidate's     *)
(* lookup and write.  Between the two it kills the copy synchronously.    *)
(* Kernel processes are pid instances <<pid, gen>>; a pid is reused with  *)
(* the next gen.                                                          *)
(***************************************************************************)
EXTENDS Integers, Sequences, SequencesExt, FiniteSets, TLC

CONSTANTS Pids, Scores, Fds, MaxGen, PidfdSupported, None

NoFd == -1

ASSUME Scores \subseteq 0..1000 /\ Fds \subseteq Nat \ {0} /\ MaxGen \in Nat

VARIABLES
    rec,        \* pid -> record, or None once freed
    slots,      \* score -> bucket list, newest at the head, tail = Last
    fdOf,       \* open pidfd -> the process instance it refers to
    os, gen,    \* kernel: state and generation of each pid
    mpc,        \* main thread: the insert or removal in progress
    wpc, wscore, wprev, wtgt, wptr, wlock,  \* watchdog thread
    wkilled,    \* ghost: process instances the watchdog signalled
    wrongKill,  \* ghost: the watchdog signalled another process than its copy's
    uaf         \* ghost: a record was freed while pid_invalidate held it

vars == <<rec, slots, fdOf, os, gen, mpc, wpc, wscore, wprev, wtgt, wptr, wlock,
          wkilled, wrongKill, uaf>>

Gens == 0..MaxGen

(* st: "hashed" = in pidhash only (proc_insert before proc_slot); "live" = *)
(* in pidhash and its bucket; "unhashed" and "unslotted" = the steps of   *)
(* pid_remove before free.                                                *)
Rec == [pidfd : Fds \cup {NoFd}, oomadj : Scores, valid : BOOLEAN, gen : Gens,
        st : {"hashed", "live", "unhashed", "unslotted"}]

Copy == [pid : Pids, pidfd : Fds \cup {NoFd}, valid : BOOLEAN, gen : Gens]

TypeOK ==
    /\ rec \in [Pids -> Rec \cup {None}]
    /\ slots \in [Scores -> Seq(Pids)]
    /\ fdOf \in UNION {[D -> Pids \X Gens] : D \in SUBSET Fds}
    /\ os \in [Pids -> {"alive", "dead"}] /\ gen \in [Pids -> Gens]
    /\ mpc \in [op : {"idle"}, p : {None}] \cup [op : {"add", "rm"}, p : Pids]
    /\ wpc \in {"idle", "find", "kill", "lookup", "write", "done"}
    /\ wscore \in Scores /\ wprev \in Pids \cup {None}
    /\ wtgt \in Copy \cup {None} /\ wptr \in Pids \cup {None} /\ wlock \in BOOLEAN
    /\ wkilled \subseteq Pids \X Gens /\ wrongKill \in BOOLEAN /\ uaf \in BOOLEAN

Idle == [op |-> "idle", p |-> None]

Hashed(p) == rec[p] # None /\ rec[p].st \in {"hashed", "live"}

-----------------------------------------------------------------------------
(* Main thread.                                                           *)

FreeFd == CHOOSE f \in Fds \ DOMAIN fdOf : \A g \in Fds \ DOMAIN fdOf : f <= g

(* register_oom_adj_proc for a new pid: the oom_score_adj write fails for *)
(* a dead process; pidfd_open takes the lowest free descriptor and fails  *)
(* when there is none; proc_insert links the record into pidhash.         *)
RegisterHash(p, s) ==
    /\ mpc.op = "idle" /\ rec[p] = None /\ os[p] = "alive"
    /\ PidfdSupported => Fds \ DOMAIN fdOf # {}
    /\ LET fd == IF PidfdSupported THEN FreeFd ELSE NoFd
       IN  /\ rec' = [rec EXCEPT ![p] = [pidfd |-> fd, oomadj |-> s, valid |-> TRUE,
                                        gen |-> gen[p], st |-> "hashed"]]
           /\ fdOf' = IF PidfdSupported THEN (fd :> <<p, gen[p]>>) @@ fdOf ELSE fdOf
    /\ mpc' = [op |-> "add", p |-> p]
    /\ UNCHANGED <<slots, os, gen, wpc, wscore, wprev, wtgt, wptr, wlock, wkilled,
                   wrongKill, uaf>>

(* proc_slot: adjslot_insert at the head, under the exclusive lock.        *)
RegisterSlot ==
    /\ mpc.op = "add" /\ ~wlock
    /\ LET p == mpc.p IN
       /\ slots' = [slots EXCEPT ![rec[p].oomadj] = <<p>> \o @]
       /\ rec' = [rec EXCEPT ![p].st = "live"]
    /\ mpc' = Idle
    /\ UNCHANGED <<fdOf, os, gen, wpc, wscore, wprev, wtgt, wptr, wlock, wkilled,
                   wrongKill, uaf>>

(* register_oom_adj_proc for a registered pid: proc_unslot, the new score, *)
(* proc_slot, each list change under the exclusive lock.                  *)
RegisterMove(p, s) ==
    /\ mpc.op = "idle" /\ rec[p] # None /\ rec[p].st = "live" /\ ~wlock
    /\ slots' = [t \in Scores |-> IF t = s THEN <<p>> \o Remove(slots[t], p)
                                  ELSE Remove(slots[t], p)]
    /\ rec' = [rec EXCEPT ![p].oomadj = s]
    /\ UNCHANGED <<mpc, fdOf, os, gen, wpc, wscore, wprev, wtgt, wptr, wlock, wkilled,
                   wrongKill, uaf>>

(* pid_remove, first step: unlink the record from its pidhash chain.       *)
PidRemoveUnhash(p) ==
    /\ mpc.op = "idle" /\ rec[p] # None /\ rec[p].st = "live"
    /\ rec' = [rec EXCEPT ![p].st = "unhashed"]
    /\ mpc' = [op |-> "rm", p |-> p]
    /\ UNCHANGED <<slots, fdOf, os, gen, wpc, wscore, wprev, wtgt, wptr, wlock,
                   wkilled, wrongKill, uaf>>

Unslotted(p) ==
    /\ slots' = [slots EXCEPT ![rec[p].oomadj] = Remove(@, p)]
    /\ rec' = [rec EXCEPT ![p].st = "unslotted"]
    /\ UNCHANGED <<mpc, fdOf, os, gen, wpc, wscore, wprev, wtgt, wptr, wlock,
                   wkilled, wrongKill, uaf>>

(* Fault variant: proc_unslot without taking adjslot_list_lock.            *)
PidRemoveUnslotNoLock ==
    /\ mpc.op = "rm" /\ rec[mpc.p].st = "unhashed"
    /\ Unslotted(mpc.p)

(* pid_remove, second step: proc_unslot, which waits for the exclusive    *)
(* lock, i.e. until no reader holds it.                                   *)
PidRemoveUnslot ==
    /\ mpc.op = "rm" /\ rec[mpc.p].st = "unhashed" /\ ~wlock
    /\ Unslotted(mpc.p)

(* pid_remove, last step: close the pidfd and free the record.             *)
PidRemoveFree ==
    /\ mpc.op = "rm" /\ rec[mpc.p].st = "unslotted"
    /\ LET p == mpc.p IN
       /\ fdOf' = IF rec[p].pidfd = NoFd THEN fdOf
                  ELSE [f \in DOMAIN fdOf \ {rec[p].pidfd} |-> fdOf[f]]
       /\ rec' = [rec EXCEPT ![p] = None]
       /\ uaf' = (uaf \/ (wpc = "write" /\ wptr = p))
    /\ mpc' = Idle
    /\ UNCHANGED <<slots, os, gen, wpc, wscore, wprev, wtgt, wptr, wlock, wkilled,
                   wrongKill>>

-----------------------------------------------------------------------------
(* Kernel.                                                                *)

ProcExit(p) ==
    /\ os[p] = "alive" /\ os' = [os EXCEPT ![p] = "dead"]
    /\ UNCHANGED <<rec, slots, fdOf, gen, mpc, wpc, wscore, wprev, wtgt, wptr, wlock,
                   wkilled, wrongKill, uaf>>

PidReuse(p) ==
    /\ os[p] = "dead" /\ gen[p] < MaxGen
    /\ os' = [os EXCEPT ![p] = "alive"] /\ gen' = [gen EXCEPT ![p] = @ + 1]
    /\ UNCHANGED <<rec, slots, fdOf, mpc, wpc, wscore, wprev, wtgt, wptr, wlock,
                   wkilled, wrongKill, uaf>>

-----------------------------------------------------------------------------
(* Watchdog thread.                                                       *)

WUnchanged == UNCHANGED <<rec, slots, fdOf, os, gen, mpc, wkilled, wrongKill, uaf>>

(* A handler overran WATCHDOG_TIMEOUT_SEC: watchdog_callback starts at    *)
(* OOM_SCORE_ADJ_MAX with prev_pid = 0.                                   *)
WdFire ==
    /\ wpc = "idle"
    /\ wpc' = "find" /\ wscore' = Max(Scores) /\ wprev' = None
    /\ UNCHANGED <<wtgt, wptr, wlock>> /\ WUnchanged

Position(s, p) == CHOOSE k \in 1..Len(s) : s[k] = p

(* find_victim: index of the candidate in the bucket, 0 for none: the     *)
(* tail, or the entry before prev_pid (towards the head), or the tail     *)
(* again when prev_pid has left the list.                                 *)
find_victim(s, prev) ==
    IF prev = None \/ prev \notin ToSet(s) THEN Len(s) ELSE Position(s, prev) - 1

Lower(s) == {t \in Scores : t < s}

(* One iteration of watchdog_callback's loop: find_victim under the      *)
(* shared lock copies the candidate, or the sweep moves to a lower score, *)
(* or it ends below score 0.                                              *)
WdFind ==
    /\ wpc = "find"
    /\ LET k == find_victim(slots[wscore], wprev) IN
       IF k > 0
       THEN LET p == slots[wscore][k] IN
            /\ wtgt' = [pid |-> p, pidfd |-> rec[p].pidfd, valid |-> rec[p].valid,
                        gen |-> rec[p].gen]
            /\ wpc' = "kill" /\ UNCHANGED <<wscore, wprev>>
       ELSE IF Lower(wscore) = {}
       THEN wpc' = "done" /\ UNCHANGED <<wscore, wprev, wtgt>>
       ELSE wscore' = Max(Lower(wscore)) /\ wprev' = None /\ UNCHANGED <<wpc, wtgt>>
    /\ UNCHANGED <<wptr, wlock>> /\ WUnchanged

(* The process reaper.kill({pidfd, pid}, true) signals, or None when the  *)
(* signal fails: pidfd_send_signal through the copied descriptor reaches  *)
(* whatever process that descriptor number refers to now; kill(pid)       *)
(* reaches the pid's current process.                                     *)
Signalled(t) ==
    IF t.pidfd = NoFd
    THEN IF os[t.pid] = "alive" THEN <<t.pid, gen[t.pid]>> ELSE None
    ELSE IF t.pidfd \in DOMAIN fdOf /\ os[fdOf[t.pidfd][1]] = "alive"
            /\ gen[fdOf[t.pidfd][1]] = fdOf[t.pidfd][2]
         THEN fdOf[t.pidfd] ELSE None

(* A valid copy is killed synchronously; an invalid copy or a failed kill *)
(* moves on to the previous entry of the bucket.                          *)
WdKill ==
    /\ wpc = "kill"
    /\ LET v == Signalled(wtgt) IN
       IF wtgt.valid /\ v # None
       THEN /\ os' = [os EXCEPT ![v[1]] = "dead"]
            /\ wkilled' = wkilled \cup {v}
            /\ wrongKill' = (wrongKill \/ v # <<wtgt.pid, wtgt.gen>>)
            /\ wpc' = "lookup" /\ UNCHANGED wprev
       ELSE /\ wprev' = wtgt.pid /\ wpc' = "find" /\ UNCHANGED <<os, wkilled, wrongKill>>
    /\ UNCHANGED <<rec, slots, fdOf, gen, mpc, uaf, wscore, wtgt, wptr, wlock>>

(* pid_invalidate: takes the shared lock and looks the pid up in pidhash. *)
WdLookup ==
    /\ wpc = "lookup"
    /\ IF Hashed(wtgt.pid)
       THEN wptr' = wtgt.pid /\ wlock' = TRUE /\ wpc' = "write"
       ELSE wpc' = "done" /\ UNCHANGED <<wptr, wlock>>
    /\ UNCHANGED <<wscore, wprev, wtgt>> /\ WUnchanged

(* pid_invalidate: procp->valid = false, then the lock is released.        *)
WdWrite ==
    /\ wpc = "write"
    /\ rec' = IF rec[wptr] = None THEN rec ELSE [rec EXCEPT ![wptr].valid = FALSE]
    /\ wpc' = "done" /\ wptr' = None /\ wlock' = FALSE
    /\ UNCHANGED <<slots, fdOf, os, gen, mpc, wscore, wprev, wtgt, wkilled, wrongKill, uaf>>

(* The next handler's watchdog.start() arms the timer again.               *)
WdRearm ==
    /\ wpc = "done" /\ wpc' = "idle" /\ wtgt' = None
    /\ UNCHANGED <<wscore, wprev, wptr, wlock>> /\ WUnchanged

Init ==
    /\ rec = [p \in Pids |-> None] /\ slots = [s \in Scores |-> <<>>]
    /\ fdOf = <<>> /\ os = [p \in Pids |-> "alive"] /\ gen = [p \in Pids |-> 0]
    /\ mpc = Idle
    /\ wpc = "idle" /\ wscore = Max(Scores) /\ wprev = None /\ wtgt = None
    /\ wptr = None /\ wlock = FALSE
    /\ wkilled = {} /\ wrongKill = FALSE /\ uaf = FALSE

Next ==
    \/ \E p \in Pids, s \in Scores : RegisterHash(p, s) \/ RegisterMove(p, s)
    \/ RegisterSlot \/ PidRemoveUnslot \/ PidRemoveFree
    \/ \E p \in Pids : PidRemoveUnhash(p) \/ ProcExit(p) \/ PidReuse(p)
    \/ WdFire \/ WdFind \/ WdKill \/ WdLookup \/ WdWrite \/ WdRearm

Spec == Init /\ [][Next]_vars

-----------------------------------------------------------------------------
(* Properties.                                                            *)

(* pid_invalidate never writes a freed record: pid_remove frees only      *)
(* after proc_unslot, which cannot take the lock while pid_invalidate     *)
(* holds it shared.                                                       *)
NoUseAfterFree == ~uaf

(* The watchdog signals only the process whose record it copied in        *)
(* find_victim, although the main thread may close that record's pidfd   *)
(* (and reuse the descriptor number) once the lock is released.           *)
WatchdogKillsTarget == ~wrongKill

(* A record the main thread finds invalid belongs to a process the        *)
(* watchdog killed: pid_invalidate marks the watchdog's victim only (spec *)
(* 4.7: on success it invalidates the victim's record).                   *)
InvalidOnlyKilled ==
    \A p \in Pids : rec[p] # None /\ ~rec[p].valid => <<p, rec[p].gen>> \in wkilled
=============================================================================
