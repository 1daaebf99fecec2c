----------------------------- MODULE KillCount -----------------------------
(***************************************************************************)
(* lmkd's kill counters: killcnt_idx maps an oom_score_adj slot to an      *)
(* entry of the compact uint16_t array killcnt (at most                   *)
(* MAX_DISTINCT_OOM_ADJ entries), killcnt_total is a uint32_t total.      *)
(* inc_killcnt runs after every kill; LMK_GETKILLCNT sums a range.        *)
(* killcnt_idx is a partial function: its domain is the scores whose slot *)
(* no longer holds KILLCNT_INVALID_IDX (the memset at init).  The kill   *)
(* bounds stay far below 2^31, so the uint32_t total never wraps here.    *)
(* A GETKILLCNT changes no state: its reply is cmd_getkillcnt of the     *)
(* state, which ReplyExact checks for every query in every state.         *)
(***************************************************************************)
EXTENDS Integers, FiniteSetsExt, TLC

CONSTANTS
    KillAdjs,       \* oomadj values of the records that are killed
    Queries,        \* <<min_oomadj, max_oomadj>> pairs peers send
    MAX_DISTINCT_OOM_ADJ,
    MaxKillsAt,     \* score -> bound on the number of kills at that score
    JunkCounts      \* what an out-of-bounds read of killcnt_idx may add

OOM_SCORE_ADJ_MIN == -1000
OOM_SCORE_ADJ_MAX == 1000
CNT_MOD == 2^16     \* uint16_t killcnt[]

ASSUME KillAdjs \subseteq OOM_SCORE_ADJ_MIN..OOM_SCORE_ADJ_MAX

VARIABLES killcnt_idx, killcnt, killcnt_free_idx, killcnt_total,
          kills     \* ghost: how many processes were killed at each score

vars == <<killcnt_idx, killcnt, killcnt_free_idx, killcnt_total, kills>>

MaxKills == MapThenSumSet(LAMBDA a : MaxKillsAt[a], KillAdjs)

Idx == 0..(MAX_DISTINCT_OOM_ADJ - 1)

TypeOK ==
    /\ killcnt_idx \in UNION {[D -> Idx] : D \in SUBSET KillAdjs}
    /\ killcnt \in [Idx -> 0..(CNT_MOD - 1)]
    /\ killcnt_free_idx \in 0..MAX_DISTINCT_OOM_ADJ
    /\ killcnt_total \in 0..MaxKills
    /\ kills \in [KillAdjs -> 0..MaxKills]

(* Fault variant: the counter incremented without the uint16_t wrap.     *)
IncKillcntNoWrap(oomadj) ==
    /\ IF oomadj \in DOMAIN killcnt_idx
       THEN /\ killcnt' = [killcnt EXCEPT ![killcnt_idx[oomadj]] = @ + 1]
            /\ UNCHANGED <<killcnt_idx, killcnt_free_idx>>
       ELSE IF killcnt_free_idx < MAX_DISTINCT_OOM_ADJ
       THEN /\ killcnt_idx' = (oomadj :> killcnt_free_idx) @@ killcnt_idx
            /\ killcnt' = [killcnt EXCEPT ![killcnt_free_idx] = 1]
            /\ killcnt_free_idx' = killcnt_free_idx + 1
       ELSE UNCHANGED <<killcnt_idx, killcnt, killcnt_free_idx>>
    /\ killcnt_total' = killcnt_total + 1

(* inc_killcnt: the first kill at a score takes the next free entry; once *)
(* all entries are taken such kills are only counted in the total.        *)
inc_killcnt(oomadj) ==
    /\ IF oomadj \in DOMAIN killcnt_idx
       THEN /\ killcnt' = [killcnt EXCEPT ![killcnt_idx[oomadj]] = (@ + 1) % CNT_MOD]
            /\ UNCHANGED <<killcnt_idx, killcnt_free_idx>>
       ELSE IF killcnt_free_idx < MAX_DISTINCT_OOM_ADJ
       THEN /\ killcnt_idx' = (oomadj :> killcnt_free_idx) @@ killcnt_idx
            /\ killcnt' = [killcnt EXCEPT ![killcnt_free_idx] = 1]
            /\ killcnt_free_idx' = killcnt_free_idx + 1
       ELSE UNCHANGED <<killcnt_idx, killcnt, killcnt_free_idx>>
    /\ killcnt_total' = killcnt_total + 1

(* kill_one_process counts the kill at the record's oomadj.               *)
Kill(oomadj) ==
    /\ kills[oomadj] < MaxKillsAt[oomadj]
    /\ inc_killcnt(oomadj)
    /\ kills' = [kills EXCEPT ![oomadj] = @ + 1]

CountAt(a) == IF a \in DOMAIN killcnt_idx THEN killcnt[killcnt_idx[a]] ELSE 0

(* Fault variant: the range loop stops before max_oomadj.                  *)
GetKillcntExclusive(lo, hi, junk) ==
    IF lo > hi THEN 0
    ELSE IF lo > OOM_SCORE_ADJ_MAX THEN killcnt_total
    ELSE MapThenSumSet(CountAt, DOMAIN killcnt_idx \cap lo..(hi - 1))
         + (IF lo < OOM_SCORE_ADJ_MIN THEN junk ELSE 0)

(* get_killcnt: the loop walks min_oomadj..max_oomadj and stops at the    *)
(* last slot; nothing stops it below the first one, where                 *)
(* killcnt_idx[ADJTOSLOT(min_oomadj)] reads outside the array (junk).     *)
get_killcnt(lo, hi, junk) ==
    IF lo > hi THEN 0
    ELSE IF lo > OOM_SCORE_ADJ_MAX THEN killcnt_total
    ELSE MapThenSumSet(CountAt, DOMAIN killcnt_idx \cap lo..hi)
         + (IF lo < OOM_SCORE_ADJ_MIN THEN junk ELSE 0)

(* ctrl_command_handler, LMK_GETKILLCNT: the count cmd_getkillcnt       *)
(* replies with.                                                          *)
cmd_getkillcnt(q, junk) == get_killcnt(q[1], q[2], junk)

CmdGetKillcnt(q) == UNCHANGED vars

Init ==
    /\ killcnt_idx = <<>>
    /\ killcnt = [i \in Idx |-> 0]
    /\ killcnt_free_idx = 0
    /\ killcnt_total = 0
    /\ kills = [a \in KillAdjs |-> 0]

Next == (\E a \in KillAdjs : Kill(a)) \/ (\E q \in Queries : CmdGetKillcnt(q))

Spec == Init /\ [][Next]_vars

-----------------------------------------------------------------------------
(* Properties.                                                            *)

(* The number of kills in [lo, hi], or of all kills when 1000 < lo <= hi. *)
KillsIn(lo, hi) ==
    IF lo > hi THEN 0
    ELSE IF lo > OOM_SCORE_ADJ_MAX THEN MapThenSumSet(LAMBDA a : kills[a], KillAdjs)
    ELSE MapThenSumSet(LAMBDA a : kills[a], {a \in KillAdjs : lo <= a /\ a <= hi})

(* LMK_GETKILLCNT replies with the number of kills whose score lies in    *)
(* the requested range, and with the total when min_oomadj > 1000.  The  *)
(* per-score counters are uint16_t and the spec lets them wrap, so range *)
(* replies need only agree modulo 2^16.                                   *)
ReplyExact ==
    \A q \in Queries, junk \in JunkCounts :
        IF q[1] > OOM_SCORE_ADJ_MAX
        THEN cmd_getkillcnt(q, junk) = KillsIn(q[1], q[2])
        ELSE cmd_getkillcnt(q, junk) % CNT_MOD = KillsIn(q[1], q[2]) % CNT_MOD

=============================================================================
