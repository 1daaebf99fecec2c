------------------------------ MODULE CtrlConn ------------------------------
(***************************************************************************)
(* lmkd's control-socket server: the MAX_DATA_CONN data_sock slots, the    *)
(* peer pid each slot learns from SCM_CREDENTIALS (data_sock[].pid), the  *)
(* KILL subscription bit of async_event_mask, the epoll event count       *)
(* maxevents, and the claims (reg_pid) that the peers' commands place on  *)
(* records.  Every handler runs to completion on the main thread, so each *)
(* handler is one action.  A peer is a process (its pid) with at most one *)
(* connection open at a time.                                             *)
(***************************************************************************)
EXTENDS Integers, FiniteSets

CONSTANTS
    Peers,          \* pids of peer processes (model values)
    NoPid,          \* reg_pid / data_sock.pid 0
    NoSock,         \* data_sock.sock == -1
    NoRec,          \* no record in pidhash for this pid
    Recs,           \* pids of processes the peers register
    MAX_DATA_CONN,
    BaseEvents,     \* maxevents counted for the other epoll registrations
    AcceptOutcomes, \* results accept() may have
    EpollOutcomes,  \* results epoll_ctl(EPOLL_CTL_ADD) may have
    CredOutcomes    \* whether a message carries SCM_CREDENTIALS

ASSUME MAX_DATA_CONN \in Nat \ {0} /\ BaseEvents \in Nat

VARIABLES
    sock,       \* slot -> the peer whose connection the slot holds
    dpid,       \* slot -> data_sock[].pid, kept after close
    mask,       \* slot -> LMK_ASYNC_EVENT_KILL bit of async_event_mask
    maxevents,
    reg,        \* record -> reg_pid, or NoRec
    subs        \* ghost: peers that subscribed on their current connection

vars == <<sock, dpid, mask, maxevents, reg, subs>>

Slots == 0..(MAX_DATA_CONN - 1)

TypeOK ==
    /\ sock \in [Slots -> Peers \cup {NoSock}]
    /\ dpid \in [Slots -> Peers \cup {NoPid}]
    /\ mask \in [Slots -> BOOLEAN]
    /\ maxevents \in Int
    /\ reg \in [Recs -> Peers \cup {NoPid, NoRec}]
    /\ subs \subseteq Peers

Connected == {sock[i] : i \in Slots} \ {NoSock}

(* Handlers are composed from the functions they call, each a map from a  *)
(* state record to a state record.                                        *)

Cur == [sock |-> sock, dpid |-> dpid, mask |-> mask, maxevents |-> maxevents,
        reg |-> reg, subs |-> subs]

Commit(S) ==
    /\ sock' = S.sock /\ dpid' = S.dpid /\ mask' = S.mask
    /\ maxevents' = S.maxevents /\ reg' = S.reg /\ subs' = S.subs

claim_record(S, r, p) == S.reg[r] \in {p, NoPid}

remove_claims(S, p) ==
    [S EXCEPT !.reg = [r \in Recs |-> IF S.reg[r] = p THEN NoPid ELSE S.reg[r]]]

(* Fault variant: ctrl_data_close without maxevents--.                     *)
CtrlDataCloseNoCount(S, i) ==
    remove_claims([S EXCEPT !.sock[i] = NoSock, !.subs = @ \ {S.sock[i]}],
                  S.dpid[i])

(* EPOLL_CTL_DEL failing is only logged; the claims are dropped by the pid *)
(* the slot last learnt, whoever holds the slot now.                      *)
ctrl_data_close(S, i) ==
    remove_claims([S EXCEPT !.maxevents = @ - 1, !.sock[i] = NoSock,
                            !.subs = @ \ {S.sock[i]}],
                  S.dpid[i])

RECURSIVE CloseAll(_, _)
CloseAll(S, n) == IF n = 0 THEN S ELSE ctrl_data_close(CloseAll(S, n - 1), n - 1)

FreeSlots(S) == {i \in Slots : S.sock[i] = NoSock}

(* get_free_dsock: the lowest free slot, or -1.                            *)
get_free_dsock(S) ==
    IF FreeSlots(S) = {} THEN -1
    ELSE CHOOSE i \in FreeSlots(S) : \A j \in FreeSlots(S) : i <= j

(* Fault variant: accept into a slot without clearing async_event_mask.    *)
AcceptNoMaskReset(S, i, p, epollOk) ==
    IF epollOk THEN [S EXCEPT !.sock[i] = p, !.maxevents = @ + 1]
    ELSE ctrl_data_close([S EXCEPT !.sock[i] = p], i)

AcceptInto(S, i, p, epollOk) ==
    IF epollOk THEN [S EXCEPT !.sock[i] = p, !.mask[i] = FALSE, !.maxevents = @ + 1]
    ELSE ctrl_data_close([S EXCEPT !.sock[i] = p, !.mask[i] = FALSE], i)

(* ctrl_connect_handler: with every slot taken, all connections are       *)
(* dropped and the newcomer takes slot 0; a failed accept leaves the slot *)
(* empty; a failed epoll registration closes the new connection again.    *)
CtrlConnect(p) ==
    /\ p \notin Connected
    /\ \E acceptOk \in AcceptOutcomes, epollOk \in EpollOutcomes :
         LET S == IF get_free_dsock(Cur) < 0 THEN CloseAll(Cur, MAX_DATA_CONN) ELSE Cur
             i == IF get_free_dsock(Cur) < 0 THEN 0 ELSE get_free_dsock(Cur)
         IN  Commit(IF acceptOk THEN AcceptInto(S, i, p, epollOk) ELSE S)

(* First pass of mainloop: EPOLLHUP on a data connection.                  *)
CtrlHup(i) ==
    /\ sock[i] # NoSock
    /\ Commit(ctrl_data_close(Cur, i))

(* Fault variant: ctrl_data_read that does not store the sender's pid.     *)
CtrlDataReadNoPid(S, i, hasCred) ==
    IF hasCred THEN S ELSE ctrl_data_close(S, i)

(* ctrl_data_read: a message without credentials drops the connection;    *)
(* otherwise the sender's pid is stored in the slot.                      *)
ctrl_data_read(S, i, hasCred) ==
    IF hasCred THEN [S EXCEPT !.dpid[i] = S.sock[i]] ELSE ctrl_data_close(S, i)

cmd_procprio(S, r, p) ==
    IF S.reg[r] = NoRec \/ claim_record(S, r, p) THEN [S EXCEPT !.reg[r] = p] ELSE S

cmd_procremove(S, r, p) ==
    IF S.reg[r] # NoRec /\ claim_record(S, r, p) THEN [S EXCEPT !.reg[r] = NoRec] ELSE S

cmd_procpurge(S, p) ==
    [S EXCEPT !.reg = [r \in Recs |->
                         IF S.reg[r] # NoRec /\ claim_record(S, r, p) THEN NoRec
                                                                   ELSE S.reg[r]]]

cmd_subscribe(S, i) == [S EXCEPT !.mask[i] = TRUE, !.subs = @ \cup {S.sock[i]}]

Commands == {"procprio", "procremove", "procpurge", "subscribe"}

(* ctrl_data_handler -> ctrl_command_handler: read one message and         *)
(* dispatch it with the credentials' pid.                                 *)
CtrlCommand(i, cmd, r) ==
    /\ sock[i] # NoSock
    /\ \E hasCred \in CredOutcomes :
         LET p == sock[i]
             S == ctrl_data_read(Cur, i, hasCred)
         IN  Commit(IF ~hasCred THEN S
                    ELSE CASE cmd = "procprio"   -> cmd_procprio(S, r, p)
                           [] cmd = "procremove" -> cmd_procremove(S, r, p)
                           [] cmd = "procpurge"  -> cmd_procpurge(S, p)
                           [] cmd = "subscribe"  -> cmd_subscribe(S, i))

(* The recipients of ctrl_data_write_lmk_kill_occurred.                    *)
KillRecipients == {sock[i] : i \in {j \in Slots : sock[j] # NoSock /\ mask[j]}}

(* A kill removes its record from pidhash, whoever registered it.          *)
KillRecord(r) ==
    /\ reg[r] # NoRec
    /\ reg' = [reg EXCEPT ![r] = NoRec]
    /\ UNCHANGED <<sock, dpid, mask, maxevents, subs>>

Init ==
    /\ sock = [i \in Slots |-> NoSock]
    /\ dpid = [i \in Slots |-> NoPid]
    /\ mask = [i \in Slots |-> FALSE]
    /\ maxevents = BaseEvents
    /\ reg = [r \in Recs |-> NoRec]
    /\ subs = {}

Next ==
    \/ \E p \in Peers : CtrlConnect(p)
    \/ \E i \in Slots : CtrlHup(i)
    \/ \E i \in Slots, cmd \in Commands, r \in Recs : CtrlCommand(i, cmd, r)
    \/ \E r \in Recs : KillRecord(r)

Spec == Init /\ [][Next]_vars

-----------------------------------------------------------------------------
(* Properties.                                                            *)

(* Kill notifications (ctrl_data_write_lmk_kill_occurred) go only to      *)
(* peers that sent LMK_SUBSCRIBE on the connection they hold now, never   *)
(* to a newcomer that inherited a slot's async_event_mask.                *)
KillNotifiesSubscribers == KillRecipients \subseteq subs

(* maxevents, handed to epoll_wait, counts the open data connections on   *)
(* top of the other registrations: ctrl_connect_handler increments it and *)
(* ctrl_data_close decrements it, through overflow and HUP alike.         *)
MaxeventsAccurate == maxevents = BaseEvents + Cardinality(Connected)

(* Once a peer's connection closed, the peer holds no claim: remove_claims *)
(* ran with its pid (spec: on peer disconnect its records are reset to    *)
(* unclaimed).                                                            *)
NoClaimsOfGone == \A r \in Recs : reg[r] \in Peers => reg[r] \in Connected

(* A record claimed by a peer is reset to unclaimed only when that peer's *)
(* connection closes: ctrl_data_close of another slot leaves it alone.    *)
ClaimsKeptWhileConnected ==
    [][\A r \in Recs : reg[r] \in Peers /\ reg'[r] = NoPid => reg[r] \notin Connected']_vars
=============================================================================
