------------------------------- MODULE Sack1Tcp -------------------------------
(***************************************************************************)
(* The sender Agent/TCP/Sack1 (tcp/tcp-sack1.cc) with the parts of         *)
(* TcpAgent (tcp/tcp.cc) it calls: window, scoreboard, fast recovery,      *)
(* response to congestion marks, retransmission timer.  Module Transfer    *)
(* joins it to a network and a sink.                                       *)
(*                                                                         *)
(* One action per branch of recv, one for timeout and one for sendmsg;     *)
(* each ends with the send_much (or output) that the branch calls.         *)
(*                                                                         *)
(* Windows are their integer part, which is what window() and every        *)
(* comparison use: halving and slow start are exact, a step of linear      *)
(* growth either raises it by one or not, and a DCTCP cut takes any value  *)
(* between a half and the whole.                                           *)
(*                                                                         *)
(* The settings are those of ns-default.tcl and the experiments: syn_,     *)
(* delay_growth_, timerfix_, bugFix_, bugfix_ss_, aggressive_maxburst_ and *)
(* restart_bugfix_ on; partial_ack_, LimTransmitFix_, oldCode_,            *)
(* control_increase_, Quick-Start, F-RTO, maxburst_ and overhead_ off.     *)
(***************************************************************************)
EXTENDS Integers, Bags, FiniteSets, FiniteSetsExt

CONSTANTS
  numdupacks_,  \* duplicate ACKs that start a fast retransmit
  maxcwnd_,     \* limit of the congestion window
  wnd_,         \* the advertised window, and the initial ssthresh_
  Settings      \* the kinds of sender

(* size: the segments of the flow; ecn_: it answers congestion marks;      *)
(* dctcp_: by a share of the window; singledup_: limited transmit;         *)
(* slow_start_restart_: an idle sender that times out starts again from a  *)
(* window of one.                                                          *)
AllSettings == [size : Nat \ {0}, ecn_ : BOOLEAN, dctcp_ : BOOLEAN, singledup_ : BOOLEAN,
                slow_start_restart_ : BOOLEAN]

ASSUME SenderAssumption ==
  /\ numdupacks_ \in Nat \ {0}
  /\ maxcwnd_ \in Nat /\ maxcwnd_ >= 2
  /\ wnd_ \in Nat /\ wnd_ >= maxcwnd_
  /\ Settings \subseteq AllSettings

VARIABLES
  curseq_,      \* the segments to send are those below it; 0 is the SYN
  t_seqno_,     \* the next segment to send
  maxseq_,      \* the highest segment sent
  last_ack_,    \* the cumulative ACK, not moved by partial ACKs
  highest_ack_, \* the cumulative ACK
  dupacks_,     \* duplicate ACKs since it moved
  cwnd_, ssthresh_, wnd_init_,
  last_cwnd_action_,
  fastrecov_,   \* in fast recovery
  recover_,     \* where it ends
  pipe_,        \* its estimate of the segments in flight; 0 outside it
  sacked, retran,  \* the scoreboard: reported by SACK, sent again
  timeout_,     \* no new ACK since the last timeout
  rtx_timer_,   \* pending
  closed_,      \* finish() has been called
  conf,         \* the settings of this sender: never changes
  data          \* the bag of segments sent and not yet arrived or lost

windowVars == <<cwnd_, ssthresh_, last_cwnd_action_, recover_>>
senderVars == <<curseq_, t_seqno_, maxseq_, last_ack_, highest_ack_, dupacks_, windowVars,
                wnd_init_, fastrecov_, pipe_, sacked, retran, timeout_, rtx_timer_, closed_,
                conf, data>>

(* reset(); curseq_ is set by the one sendmsg of a flow.                   *)
SenderInit ==
  /\ curseq_ = 0 /\ t_seqno_ = 0 /\ maxseq_ = -1
  /\ last_ack_ = -1 /\ highest_ack_ = -1 /\ dupacks_ = 0
  /\ cwnd_ = 1 /\ ssthresh_ = wnd_ /\ wnd_init_ = 2
  /\ last_cwnd_action_ = "none"
  /\ fastrecov_ = FALSE /\ recover_ = 0 /\ pipe_ = 0
  /\ sacked = {} /\ retran = {}
  /\ timeout_ = FALSE /\ rtx_timer_ = FALSE /\ closed_ = FALSE
  /\ conf \in Settings
  /\ data = EmptyBag

-------------------------------------------------------------------------------
(* The window.                                                             *)

AtLeast(a, b) == IF a >= b THEN a ELSE b
AtMost(a, b) == IF a <= b THEN a ELSE b

window(cwnd) == AtMost(cwnd, wnd_)

(* slowdown() to a window of w and an ssthresh of s.                       *)
Slowed(w, s, action, recover) ==
  [cwnd |-> AtLeast(w, 1), ssthresh |-> AtLeast(s, 2), action |-> action, recover |-> recover]

Halved(now, action, recover) ==
  LET half == window(now.cwnd) \div 2 IN Slowed(half, half, action, recover)

(* What a window may be after ecn() cuts it.                               *)
CutWindows ==
  LET w == window(cwnd_) IN IF conf.dctcp_ THEN w \div 2 .. w ELSE {w \div 2}

Window == [cwnd |-> cwnd_, ssthresh |-> ssthresh_, action |-> last_cwnd_action_,
           recover |-> recover_]

(* ecn(), called for an ACK with the echo before anything else: once for   *)
(* the segments that were outstanding at the last cut.                     *)
AfterEcn(ack) ==
  IF /\ ack.ecnecho /\ conf.ecn_
     /\ ack.seqno > recover_ \/ last_cwnd_action_ = "timeout"
  THEN {Slowed(w, w, "ecn", maxseq_) : w \in CutWindows}
  ELSE {Window}

(* Mutant: the limit of the window is forgotten in slow start.             *)
OpenedBeyond(now, ecnecho) ==
  IF now.cwnd < now.ssthresh THEN {now.cwnd + 1} ELSE {AtMost(now.cwnd + 1, maxcwnd_)}

(* opencwnd(): slow start below ssthresh_, linear growth above.  With the  *)
(* echo, whether it is called depends on the negotiation of ECN (ect_,     *)
(* ecn_burst_), which is not modelled.                                     *)
Opened(now, ecnecho) ==
  LET grown == IF now.cwnd < now.ssthresh THEN {now.cwnd + 1} ELSE {now.cwnd, now.cwnd + 1}
  IN {AtMost(c, maxcwnd_) : c \in grown} \union (IF ecnecho THEN {now.cwnd} ELSE {})

SetWindow(w) ==
  /\ cwnd_' = w.cwnd
  /\ ssthresh_' = w.ssthresh
  /\ last_cwnd_action_' = w.action
  /\ recover_' = w.recover

-------------------------------------------------------------------------------
(* Sending.                                                                *)

(* output() for each segment of two sets: those that recovery resends, and *)
(* those from t_seqno_ on.  The timer is as it is before.                  *)
Output(resent, fresh, timer) ==
  /\ maxseq_' = Max({maxseq_} \union resent \union fresh)
  /\ rtx_timer_' = (timer \/ resent \union fresh # {})
  /\ data' = data (+) SetToBag(resent) (+) SetToBag(fresh)

(* newtimer(): whether the timer is set, or cancelled.                     *)
NewTimer(seqno, t) == t > seqno \/ seqno < maxseq_

(* Mutant: what has been sent again is a hole for ever.                    *)
HolesSentAgain(marked) ==
  {s \in highest_ack_' + 1 .. maxseq_ : s \notin sacked' /\ \E r \in sacked' : r > s}

(* GetNextRetran(), again and again: below a segment reported by SACK,     *)
(* neither acknowledged nor reported nor sent again.                       *)
Holes(marked) ==
  {s \in highest_ack_' + 1 .. maxseq_ :
     s \notin sacked' \union marked /\ \E r \in sacked' : r > s}

(* The first k of a set of numbers. *)
FirstOf(k, S) == {s \in S : Cardinality({r \in S : r < s}) < k}

(* send_much(), from the segment t on.  In recovery the holes come first,  *)
(* then new data, as long as the pipe is open; outside recovery the        *)
(* scoreboard is empty (RecoveryIsSound) and new data fills the            *)
(* window.  A hole sent again takes t_seqno_ above it, should the sender   *)
(* be behind.  It reads the window and the ACKs as the handler leaves them.*)
SendMuch(t, pipe, marked, timer) ==
  LET room   == cwnd_' - pipe
      holes  == IF fastrecov_' THEN Holes(marked) ELSE {}
      resent == IF recover_' > 0 THEN FirstOf(room, holes) ELSE {}
      first  == IF resent = {} THEN t ELSE AtLeast(t, Max(resent) + 1)
      last   == IF fastrecov_'
                THEN AtMost(highest_ack_' + wnd_, first + room - Cardinality(resent) - 1)
                ELSE last_ack_' + window(cwnd_')
      fresh  == IF resent = holes THEN first .. AtMost(last, curseq_ - 1) ELSE {}
  IN
  /\ Output(resent, fresh, timer)
  /\ t_seqno_' = first + Cardinality(fresh)
  /\ pipe_' = IF fastrecov_' THEN pipe + Cardinality(resent) + Cardinality(fresh) ELSE 0
  /\ retran' = marked \union resent

SendNothing ==
  /\ Output({}, {}, rtx_timer_)
  /\ UNCHANGED <<t_seqno_, pipe_, retran>>

(* sendmsg(): the whole flow at once.  The first segment is the SYN, which *)
(* is counted when it is sent; the window of one ends send_much after it.  *)
SendMsg ==
  /\ curseq_ = 0
  /\ curseq_' = conf.size + 1
  /\ Output({}, {0}, FALSE)
  /\ t_seqno_' = 1
  /\ UNCHANGED <<last_ack_, highest_ack_, dupacks_, windowVars, wnd_init_, fastrecov_, pipe_,
                 sacked, retran, timeout_, closed_, conf>>

-------------------------------------------------------------------------------
(* recv().  An ACK is its cumulative seqno, the set of segments above that *)
(* its SACK blocks report, and the congestion echo.                        *)

(* Mutant: done when all but the last segment is acknowledged.             *)
DoneEarly(seqno) == seqno >= curseq_ - 2

(* finish() is called when all segments are acknowledged.                  *)
Done(seqno) == seqno >= curseq_ - 1

(* newack(), and the end of the connection.                                *)
NewAck(seqno) ==
  /\ dupacks_' = 0
  /\ last_ack_' = seqno
  /\ highest_ack_' = seqno
  /\ closed_' = (closed_ \/ Done(seqno))
  /\ timeout_' = FALSE
  /\ sacked' = {}

(* Sends as much as the window allows after newack.                        *)
SendAfterNewAck(seqno) ==
  LET t == AtLeast(t_seqno_, seqno + 1) IN SendMuch(t, 0, {}, NewTimer(seqno, t))

(* UpdateScoreBoard(highest_ack_, ack). *)
Reported(ack) == {s \in sacked \union ack.sacked : s > highest_ack_'}

(* Mutant: any other ACK is taken for a new one.                           *)
IsOther(ack) == ack.seqno # last_ack_

IsNew(ack) == ack.seqno > last_ack_

(* A regular ACK, not in fast recovery.  The ACK of the SYN opens the      *)
(* initial window.                                                         *)
RecvNewAck(ack, w) ==
  /\ ~ fastrecov_
  /\ IsNew(ack)
  /\ NewAck(ack.seqno)
  /\ \E c \in Opened(w, ack.ecnecho) :
       SetWindow([w EXCEPT !.cwnd = IF ack.seqno = 0 THEN wnd_init_ ELSE c])
  /\ UNCHANGED <<curseq_, wnd_init_, fastrecov_, conf>>
  /\ SendAfterNewAck(ack.seqno)

(* An ACK that tells nothing: old, or a duplicate after a timeout or       *)
(* without a SACK of something new.                                        *)
RecvNoNews(ack, w) ==
  /\ ~ fastrecov_
  /\ \/ ack.seqno < last_ack_
     \/ ack.seqno = last_ack_ /\ (timeout_ \/ ack.sacked \subseteq sacked)
  /\ SetWindow(w)
  /\ UNCHANGED <<curseq_, last_ack_, highest_ack_, dupacks_, wnd_init_, fastrecov_, sacked,
                 timeout_, closed_, conf>>
  /\ IF dupacks_ = 0 THEN SendMuch(t_seqno_, pipe_, retran, rtx_timer_) ELSE SendNothing

(* A duplicate ACK whose SACK blocks report something new. *)
DuplicateAck(ack) ==
  /\ ~ fastrecov_
  /\ ack.seqno = last_ack_
  /\ ~ timeout_
  /\ ~ (ack.sacked \subseteq sacked)
  /\ dupacks_' = dupacks_ + 1
  /\ UNCHANGED <<curseq_, last_ack_, highest_ack_, wnd_init_, timeout_, closed_, conf>>
  /\ sacked' = Reported(ack)

(* send_one(): the limited transmit allows a new segment.                  *)
MaySendOne(w) ==
  /\ conf.singledup_ /\ dupacks_' < numdupacks_
  /\ t_seqno_ <= highest_ack_ + wnd_
  /\ t_seqno_ < curseq_
  /\ t_seqno_ <= highest_ack_ + w.cwnd + dupacks_'

LimitedTransmit(ack, w) ==
  /\ DuplicateAck(ack)
  /\ MaySendOne(w)
  /\ SetWindow(w)
  /\ Output({}, {t_seqno_}, rtx_timer_)
  /\ t_seqno_' = t_seqno_ + 1
  /\ UNCHANGED <<fastrecov_, pipe_, retran>>

(* Mutant: without bugFix_.                                                *)
MayAlwaysRecover(w) == TRUE

(* dupack_action() starts a recovery when everything outstanding at the    *)
(* last one, or at the last timeout or cut, has been acknowledged.         *)
MayRecover(w) == highest_ack_ > w.recover \/ highest_ack_ = 0

StartRecovery ==
  /\ fastrecov_' = TRUE
  /\ pipe_' = maxseq_ - highest_ack_ - numdupacks_
  /\ retran' = retran \union {highest_ack_ + 1}
  /\ Output({last_ack_ + 1}, {}, TRUE)
  /\ UNCHANGED t_seqno_

FastRetransmit(ack, w) ==
  /\ DuplicateAck(ack)
  /\ dupacks_' = numdupacks_
  /\ MayRecover(w)
  /\ SetWindow(Halved(w, "dupack", maxseq_))
  /\ StartRecovery

(* The window has just been cut for a mark: it is cut again only under     *)
(* DCTCP, and the recovery ends where that cut said.                       *)
EcnRetransmit(ack, w) ==
  /\ DuplicateAck(ack)
  /\ dupacks_' = numdupacks_
  /\ ~ MayRecover(w)
  /\ conf.ecn_ /\ w.action = "ecn"
  /\ SetWindow(IF conf.dctcp_ THEN Halved(w, "dupack", w.recover)
               ELSE [w EXCEPT !.action = "dupack"])
  /\ StartRecovery

(* The other duplicate ACKs change only the count and the scoreboard.      *)
CountDuplicate(ack, w) ==
  /\ DuplicateAck(ack)
  /\ ~ MaySendOne(w)
  /\ dupacks_' = numdupacks_ => ~ MayRecover(w) /\ ~ (conf.ecn_ /\ w.action = "ecn")
  /\ SetWindow(w)
  /\ UNCHANGED fastrecov_
  /\ SendNothing

(* In fast recovery.  The ACK of everything up to recover_ ends it.        *)
EndRecovery(ack, w) ==
  /\ fastrecov_
  /\ ack.seqno >= w.recover
  /\ fastrecov_' = FALSE
  /\ NewAck(ack.seqno)
  /\ SetWindow([w EXCEPT !.recover = 0])
  /\ UNCHANGED <<curseq_, wnd_init_, conf>>
  /\ SendAfterNewAck(ack.seqno)

(* A partial ACK moves highest_ack_ only, and takes two off the pipe.      *)
PartialAck(ack, w) ==
  /\ fastrecov_
  /\ ack.seqno < w.recover
  /\ ack.seqno > highest_ack_
  /\ highest_ack_' = ack.seqno
  /\ sacked' = Reported(ack)
  /\ SetWindow(w)
  /\ UNCHANGED <<curseq_, last_ack_, dupacks_, wnd_init_, fastrecov_, timeout_, closed_, conf>>
  /\ SendMuch(t_seqno_, pipe_ - 2, retran, NewTimer(ack.seqno, t_seqno_))

RecoveryDupAck(ack, w) ==
  /\ fastrecov_
  /\ ack.seqno < w.recover
  /\ ack.seqno <= highest_ack_
  /\ UNCHANGED <<curseq_, last_ack_, highest_ack_, wnd_init_, fastrecov_, timeout_, closed_,
                 conf>>
  /\ sacked' = Reported(ack)
  /\ dupacks_' = dupacks_ + (IF sacked' \subseteq sacked THEN 0 ELSE 1)
  /\ SetWindow(w)
  /\ SendMuch(t_seqno_, pipe_ - 1, retran, rtx_timer_)

Recv(ack) ==
  \E w \in AfterEcn(ack) :
    \/ RecvNewAck(ack, w)
    \/ RecvNoNews(ack, w)
    \/ LimitedTransmit(ack, w)
    \/ FastRetransmit(ack, w)
    \/ EcnRetransmit(ack, w)
    \/ CountDuplicate(ack, w)
    \/ EndRecovery(ack, w)
    \/ PartialAck(ack, w)
    \/ RecoveryDupAck(ack, w)

-------------------------------------------------------------------------------
(* timeout(TCP_TIMER_RTX): the window after it.  Without outstanding data  *)
(* the window is kept, or is one; after a cut for a mark ssthresh_ stays.  *)
TimedOutWindow ==
  IF highest_ack_ = maxseq_ /\ ~ conf.slow_start_restart_ THEN cwnd_ ELSE 1

TimedOutThresh ==
  IF highest_ack_ = maxseq_ \/ last_cwnd_action_ = "ecn"
  THEN ssthresh_
  ELSE AtLeast(window(cwnd_) \div 2, 2)

TimeoutFrom(t, recover) ==
  /\ rtx_timer_
  /\ dupacks_' = 0
  /\ fastrecov_' = FALSE
  /\ timeout_' = TRUE
  /\ last_ack_' = highest_ack_
  /\ sacked' = {}
  /\ wnd_init_' = IF highest_ack_ = -1 THEN 1 ELSE wnd_init_
  /\ SetWindow([cwnd |-> TimedOutWindow, ssthresh |-> TimedOutThresh,
                action |-> "timeout", recover |-> recover])
  /\ UNCHANGED <<curseq_, highest_ack_, closed_, conf>>
  /\ SendMuch(t, 0, {}, TRUE)

(* Mutant: t_seqno_ is not set back, as in a mild reset of the timer.      *)
MildTimeout == TimeoutFrom(t_seqno_, maxseq_)

(* Mutant: recover_ is left where it was.                                  *)
UnrecordedTimeout == TimeoutFrom(highest_ack_ + 1, recover_)

Timeout == TimeoutFrom(highest_ack_ + 1, maxseq_)

-------------------------------------------------------------------------------
(* Properties.                                                             *)

SenderTypeOK ==
  /\ conf \in Settings
  /\ curseq_ \in {0, conf.size + 1}
  /\ maxseq_ \in -1 .. conf.size /\ maxseq_ < curseq_
  /\ highest_ack_ \in -1 .. maxseq_ /\ last_ack_ \in -1 .. highest_ack_
  /\ t_seqno_ \in last_ack_ + 1 .. maxseq_ + 1
  /\ dupacks_ \in Nat /\ pipe_ \in Int
  /\ cwnd_ \in 1 .. maxcwnd_ /\ ssthresh_ \in 2 .. wnd_ /\ wnd_init_ \in 1 .. 2
  /\ last_cwnd_action_ \in {"none", "ecn", "dupack", "timeout"}
  /\ fastrecov_ \in BOOLEAN /\ timeout_ \in BOOLEAN /\ closed_ \in BOOLEAN
  /\ recover_ \in 0 .. conf.size
  /\ sacked \subseteq 0 .. maxseq_ /\ retran \subseteq 0 .. maxseq_
  /\ rtx_timer_ = (maxseq_ # -1)
  /\ BagToSet(data) \subseteq 0 .. maxseq_

(* Outside a recovery nothing of it is left: both ACK points agree, and    *)
(* with no duplicate counted the scoreboard is empty, so that send_much    *)
(* finds no hole to send.                                                  *)
EmptyOutsideRecovery ==
  ~ fastrecov_ =>
    /\ last_ack_ = highest_ack_
    /\ dupacks_ = 0 => sacked = {} /\ retran = {}

(* A recovery has an end still to reach.  That of a sender that answers    *)
(* marks may have been reached before it began.                            *)
RecoveryHasAnEnd ==
  fastrecov_ =>
    /\ ~ timeout_
    /\ highest_ack_ <= recover_ /\ recover_ <= maxseq_
    /\ ~ conf.ecn_ => highest_ack_ < recover_

(* Without marks the sender is behind what it has sent only after a        *)
(* timeout, and until it has caught up it enters no recovery.              *)
BehindOnlyAfterTimeout ==
  ~ conf.ecn_ /\ t_seqno_ <= maxseq_ =>
    ~ fastrecov_ /\ maxseq_ <= recover_ /\ (highest_ack_ = 0 => timeout_)

(* The recovery point, the scoreboard and the next segment, each of which  *)
(* ACKs, marks and timeouts set on their own, agree (dupack_action, ecn,   *)
(* timeout and the end of recovery in recv).                               *)
RecoveryIsSound == EmptyOutsideRecovery /\ RecoveryHasAnEnd /\ BehindOnlyAfterTimeout
===============================================================================
