# SAPS in TLA+

This directory holds TLA+ models, TLC configurations and TLAPS proofs for the
extended ns-2.34 of SAPS, a size-aware packet spraying scheme for leaf-spine
data centres with failed links. The C++ under `src/code/ns-2.34` replaces
files of ns-2; the Tcl under `src/script` builds the fabric, gives every flow
its settings and schedules the failures.

`Properties` below are TLA+ definitions; the comment above each one says what
it means and which code it is about. `PROJECT.json` maps every definition to
the lines it models.

## 1. The system

The simulator is one thread that runs events in time order. The hard part is
therefore not data races but the order of events: packets of many flows,
timers, route changes, the moments at which a failure happens, is detected and
is repaired, and the state that one event leaves for the next.

```
 scripts ----settings, failures, flow starts----> TcpAgent / Simulator
    |                                                |      ^
    | link down/up                         get-incoming-    | ACKs
    v                                        traffic        |
 routing (ns-2) --install/clear--> MultiPathForwarder       |
                                          ^                 |
 TcpAgent::output --packet(linkID, ...)---+--> RED queue --> TcpSink
```

| Component | State | Operations | Interaction |
|---|---|---|---|
| Receive buffer, `class Acker` (tcp-sink.cc) | `next_`, `maxseen_`, ring `seen_` of `wndmask_ + 1` byte counts, `is_dup_` | `update`, `resize_buffers`, `reset` | called by the sink for each segment |
| TCP sinks, `TcpSink`, `DelAckSink`, `Sacker`, `SackStack` (tcp-sink.cc) | held segment `save_`, delayed-ACK timer, `ecn_unacked_`, history of SACK blocks | `recv`, `ack`, `append_ack`, `timeout`, `reset`, change of `maxSackBlocks_` | receives segments, sends ACKs |
| Spine selection for several failures, `TcpAgent::output`, `nextValidLink` (tcp.cc) | six tables of spines (SVTs), five counters, `svtMapping`, `linkID_`, packet and byte counts | classification, draw of a table, toggle per flowcell, remapping | reads the failure list, the clock and the Simulator's traffic matrix; writes `linkID` into each packet |
| Spine selection of the other schemes (tcp.cc) | weights, `flowCellMod_`, `weakSpines` | UFCS, WFCS, WPS, probabilistic choice, one failure | as above |
| Multipath classifier, `MultiPathForwarder` (classifier-mpath.cc) | slots of next hops, `maxslot_`, `ns_` | `classify`, `add-routes`, `delete-routes` | reads the packet's `linkID`, failure and elephant flags; routing changes the slots |
| TCP sender, `TcpAgent` (tcp.cc) | windows, sequence numbers, timers, DCTCP `alpha`, FlowBender epoch | `output`, `send_much`, `recv`, `timeout`, Quick-Start, ECN | sends segments, receives ACKs |
| SACK sender, `Sack1TcpAgent` (tcp-sack1.cc) | scoreboard, `recover_`, `pipe_`, `fastrecov_` | `recv`, `dupack_action`, `partial_ack_action`, `timeout`, `send_much`, `checkCongestionFB` | reads the SACK blocks of the sinks |
| RED queue with DCTCP marking, `REDQueue` (red.cc) | average, count, idle time, queue | `enque`, `deque` | marks or drops packets of the fabric |
| Simulator (simulator.cc) | node list, matrix of incoming traffic | `init`/`update`/`get-incoming-traffic`, route population | called by the scripts and by senders |
| Agents and headers (agent.cc, flags.h) | per-packet decision fields | copying fields into the packet | |

Hard behaviour, and where it bites, is listed as "hazards" in `PROJECT.json`:
ring entries that several segment numbers share; a SACK history edited by
every ACK; a held segment that races a timer, another segment and a reset; a
list of failures that names a spine several times; mappings made at one packet
and used at another after the failure has been detected, repaired, or after
the flow has grown; remembered slots that routing has emptied since; a loop
whose end depends on a table not being empty.

What makes each part correct:

* *receive buffer* - it reassembles: exactly the received segments count as
  received, each byte is delivered once, in order;
* *sinks* - an ACK tells the truth, newest first, and as much of it as fits;
  every held segment is acknowledged and its congestion mark is echoed;
* *spine selection* - tables and counters agree with the failures; a flowcell
  starts on a spine that can reach the other leaf, and on a bad one only while
  the flow is small; a flowcell is not split; the search for a link ends;
  weak links get the share their ratio says;
* *classifier* - a packet leaves by a link that is up; a flowcell or a flow
  keeps its path while routes stay; spraying is even;
* *senders* - every segment is sent until it is acknowledged, nothing that the
  sink reported is sent again, windows stay within bounds; timeouts are safe,
  and a mark is answered once;
* *queue* - DCTCP marks exactly above its threshold, the limit is never
  exceeded, and an idle queue takes every packet;
* *Simulator* - the matrix counts the flows that are running, under a script that
  keeps it.

## 2. Modules

| Module | Models | State and actions |
|---|---|---|
| `Reassembly` | what a receive buffer promises | a set of received segments; `Recv`, `Reset` |
| `Acker` | `class Acker` | the fields of the class; `Update` is the whole of `update` with the resize it makes, as the operators `TooSmall`, `Resized`, `Cleared`, `Marked`, `Deliver` in the order of the code; `AckerReset` |
| `TcpSink` | `TcpSink`, `DelAckSink`, `Sacker`, `SackStack` | extends `Acker`; `SinkRecv` (hold or `Ack`), `SinkTimeout`, `SinkReset`, `SetMaxSackBlocks`. `Appended` is `append_ack`: DSACK, first block, walk down the history, push |
| `Svt` | the SAPS code of `output` for `numFailures_ > 1`, and `nextValidLink` | arrays of 1 and -1 are sets of spines; `Classify` handles one failed link (`NewDirect`, `WorseDirect`, `NewIndirect`, `Ignored`), `MapFlow` draws the table, `SendUnaware`, `SendFirst`, `SendRest` send a packet, `LoopForEver` is `nextValidLink` on an empty table, `Detect` is the clock passing the detection and repair times |
| `MultiPath` | `MultiPathForwarder::classify` with `add-routes`/`delete-routes` | `slot_`, `maxslot_`, `ns_`; one action per scheme: `Selective`, `RoundRobin`, `FlowcellFullFailure`, `Flowcell`, `Ecmp`, `NoScheme` |
| `Sack1Tcp` | `Sack1TcpAgent` with the parts of `TcpAgent` it calls | the fields of both classes, the scoreboard as the sets `sacked` and `retran`; one action per branch of `recv` (`RecvNewAck`, `RecvNoNews`, `LimitedTransmit`, `FastRetransmit`, `EcnRetransmit`, `CountDuplicate`, `EndRecovery`, `PartialAck`, `RecoveryDupAck`), each with the response to a mark before it (`AfterEcn`) and the `send_much` after it (`SendMuch`); `SendMsg`, `Timeout` |
| `Transfer` | one flow: `Sack1Tcp`, a sink, the paths between them | bags of segments and ACKs on their way; `DeliverData` with the ACK of the sink, `DeliverAck` with the whole of `recv`, `DropData`, `DropAck`, `RtxTimeout` |
| `PathSelection` | `output` under the other schemes (UFCS, WFCS, WPS, the probabilistic ones, and the selective ones with a single failure), and `isSpineFailed` | `FirstPacket` sets weights, `rfactor`, `flowCellMod_` and the first link; then one action per branch: `SendUnaware`, `SendPoor`, `SendSelective`, the five `SendWeighted...`, `SendStatic`, `SendProbabilistic`; `Crash` is a division by zero, `Detect` the clock |
| `RttEstimator` | `rtt_init`, `rtt_update`, `rtt_timeout`, `rtt_backoff` and their callers | the record `Estimates` of the clock's fields in the integer ticks of the code; operators only |
| `Dctcp` | `update_dctcp_alpha`, `checkCongestionFB` and what a timeout does to both | the record `Feedback` of the counters of both; operators only |
| `RedQueue` | `REDQueue` with the link it feeds | `q`, the packet on the `wire`, `v_ave`, `count`, `old`; `Enque` with `DropEarly` and the choice of a victim, `Resume` |
| `Bottleneck` | a flow whose last link is congested | extends `Sack1Tcp`, `RttEstimator`, `Dctcp` and `RedQueue` on one state; `Start`, `RecvAck`, `RtxTimeout`, `FlowBenderTimer`, `Arrive`, `ArriveOther`, `Depart` with the sink's echo |
| `Stream` | what a connection promises | counts of segments submitted, delivered in order and acknowledged; `Submit`, `Deliver`, `Acknowledge`, `Close`, and that the flow is closed in the end |
| `Connection` | one flow from end to end | extends `Sack1Tcp` and `TcpSink`; `DeliverData` is `SinkRecv`, which holds the ACK or sends it, `DelAckTimeout` is `SinkTimeout`, `DeliverAck` the whole of the sender's `recv`; losses as in `Transfer` |
| `TcpSinkProofs`, `SvtProofs`, `MultiPathProofs`, `PathSelectionProofs`, `TransferProofs`, `ConnectionProofs`, `BottleneckProofs` | | the theorems of section 5; `TcpSinkProofs` is about `Acker` too |
| `Sack1TcpProofs` | | lemmas about the sender before any sink that tells the truth, which the last three share |
| `MCAcker`, `MCTcpSink`, `MCSvt`, `MCMultiPath`, `MCTransfer`, `MCPathSelection`, `MCBottleneck`, `MCConnection` | | values of the constants for TLC |

Conventions. A definition has the name of the source's variable or function
where it has one. The operator that a comment calls a *mutant* is a plausible
bug: it takes the place of the definition it precedes to see a property
fail, and is used nowhere else. Variables that never change (`conf`, `flow`,
`failedLinks`) hold the settings of the instance, so one run covers several.

Abstractions:

* A segment is a number, a SACK block the pair of its edges. Segments with a
  timestamp older than the last reset are dropped before they change anything
  and are left out: the segments of the model are the others.
* The uninitialized memory that the code reads (the `ttl` of an ECMP header,
  the slot of an elephant without a scheme) is a choice of any value.
* `Random::integer` is a choice of any value it can return; the answer of
  `get-incoming-traffic` is a choice.
* Time is only the order of `Detect` and the packets.
* `classify` is modelled for `K_ = 0`, the leaf-spine topology of the
  experiments, and while some link is up: with none, `maxslot_` is -1 and every
  scheme divides by zero. `maxslot_` itself is kept by class Classifier of
  ns-2, which is not in the repository, and is modelled by what it means.
* The sender's windows are their integer part, which is what `window()` and the
  comparisons read. Slow start and halving are exact on it; a step of linear
  growth raises it by one or not; a DCTCP cut, by `dctcp_alpha_ / 2`, takes any
  value from a half to the whole. Whether an ACK with the echo opens the window
  depends on `ect_` and `ecn_burst_` and is a choice.
* The scoreboard `ScoreBoardRQ` is a class of ns-2 that is not in the
  repository, modelled by what its operations are for: segments reported
  (`UpdateScoreBoard`), sent again (`MarkRetran`), and the lowest hole below a
  reported segment (`GetNextRetran`).
* In `Transfer` the sink answers every segment with all it holds. That blocks
  are true, disjoint and complete when there is room is what the runs of
  `TcpSink` show; `Connection` has the sink itself, for senders without ECN.

* `PathSelection` takes the counters of the classification for what
  `CountersAreRight` of `Svt` says they are. Whether a flow is from or to a failed
  leaf is a setting of the script; the model derives it from the list of
  failures, as the script does. Bytes are counted up to just above the larger
  threshold.
* Round trip times are choices from the set of the case. `t_srtt_` and `t_rttvar_`
  keep the scale and the shifts of the code; `Short` wraps as the cast of
  `rtt_update` does, at `ShortMax` instead of 32767.
* `dctcp_alpha_` itself, a real number, is left out: what is modelled is when it is
  updated, from which counts, and when they start again. The ttl by which
  FlowBender names a path is kept modulo `Ttls`.
* The average of plain RED is its integer part, which can be any number from
  the old average to the new length; probabilities are choices. With
  `q_weight_` 1, DCTCP's setting, the average is the length. Queues are in packets.
* In `Bottleneck` segments come to the queue in any order; ACKs come back in
  order and are not lost (`Transfer` loses and reorders them). Packets of other
  flows come to the queue at any time up to a bound. `cwr` is the bag of the
  segments on their way that carry `cong_action_`.

## 3. Runs

All of them together take about ten minutes. Deadlock is checked where the
system runs for ever; the bound on the packets stops `Svt` and `PathSelection`,
the bound on the history stops `MultiPath`.

| Run | Instance | What it shows |
|---|---|---|
| `acker` | ring of 2 growing to 16, ten segments in any order with duplicates and resets | the window fits the ring (`WindowFitsRing`), its edges are empty entries (`EdgesAreHoles`), and the ring implements `Reassembly` (`Reassembles`, a refinement) |
| `sack` | ring of 2; six kinds of sink (immediate, delaying, with and without `RFC2581_immediate_ack_` and DSACK) with seven segments and 3 blocks; delaying sinks with three segments in five combinations of ECN flags, one reset, and 2 or 3 blocks as the script has it | blocks are true (`BlocksAreSound`), led by the newest (`FirstBlockIsTrigger`), disjoint (`BlocksAreDisjoint`) and complete (`AllHeldIsReported`); the mark of a held segment is echoed (`HeldMarkIsEchoed`) |
| `svt` | four uplinks; all 1728 lists of three failures of two spines with an HPO flow; five more lists, one of which touches every spine, with 18 kinds of flow; and flows marked `poorPathFlow_` | `TablesAreRight`, `CountersAreRight`, `NextLinkIsFound`, `FlowcellsReachTheirLeaf`, `LargeFlowsAvoidFailures`, `UnmarkedFlowcellHasOneUplink` |
| `multipath` | three links in six slots that come and go in any order, eight schemes, four packets of two flows between changes | `LiveLinkIsTaken`, `SamePathIsKept`, `SprayIsEven` |
| `transfer` | seven kinds of sender of 4 to 6 segments (with and without limited transmit, ECN, DCTCP), 2 duplicates for a fast retransmit, windows up to 4, one or two faults | `RecoveryIsSound`, `AckPointAdvances`, `RecoverySendsOnlyMissing`, `OneCutPerWindow`, `ClosedIsDelivered`, and the liveness `Delivered` |
| `path_selection` | four uplinks; 5 lists of one failure and 8 of several (partial, full, direct, indirect, twice on one spine, on every uplink) under every scheme, static, known from the start, or detected and repaired at any packet; flowcells of 2, up to 30 packets | `CrashIsNamed`, `DeadSpineUseIsNamed`, `WeakShareIsExact` |
| `bottleneck` | eleven cases: senders of 1 to 8 segments with and without ECN, DCTCP and FlowBender; one of them an ECN sender of 6 whose news of a cut its own second copy overtakes, behind three packets of others; queues that mark by their length at 1 and 2 packets, RED on an average with drops from tail, front or middle, a queue with its own choice of thresholds; other packets, timeouts, and a round trip time that jumps | `RtoIsSafe`, `KarnsRule`, `MarksFollowTheQueue`, `FeedbackIsPaced`, `CutAnswersMark` |
| `connection` | senders of 4 segments with two faults and of 5 with one, with and without limited transmit, over an immediate and a delaying sink with room for one block and a ring of 2 | `SenderKnowsTheTruth`, and `KeepsItsPromise`, that the connection implements `Stream`, safety and liveness |
| `sack_reset`, `svt_flowcell`, `multipath_selected`, `transfer_dctcp` | as above; the last a DCTCP sender of 6 segments with two faults | counterexamples, section 4 |

Why the bounds are enough. A ring of 2 with ten segments doubles three times,
once by more than one doubling, and the window goes round every size. In the
`sack` run seven segments make up to three separate runs above a hole, so that
each of the three blocks is used, merged and covered; the ring of 2 must grow
with blocks outstanding. Its sinks with ECN need a segment in order, one that
fills a gap and one above it. In `svt` a spine needs at most three failures to pass
through every branch (indirect, then direct partial, then direct full), and a
second spine shows that the others are untouched; the thresholds 2 and 4 with
up to eight packets of one byte, or none, put every flow below, between and
above them, on every packet of a flowcell of 2. In `multipath` three links
leave and fill slots so that the remembered slot is in use, empty between
links, and beyond the last; six slots are room for the slot after the last.
Four packets go once around three links. In `transfer` a window of 4 with 2
duplicates leaves a segment to send in recovery after the first is sent again,
so that partial ACKs, a second hole, limited transmit and a timeout in the
middle of a recovery all happen (every branch of `recv` is taken). A fault is a
loss, a mark, or a timeout while something is on its way; reordering is free. Two
faults are enough for a loss of what was sent again, for a mark before a loss,
and for a timeout that races late ACKs.

In `path_selection` 30 packets are 15 flowcells: with four uplinks and a ratio of
2 the turn of the weak links comes after at most 6 healthy ones, so that two
turns pass even when three weak links share one; the thresholds 2 and 4 lie
below, between and above the bytes sent. In `bottleneck` a queue of 3 with
thresholds of 1 and 2 is idle, below, at and above the threshold and full; 8
segments with a window of 4 make several windows of alpha, a mark in each, and an
echo that outlives a recovery; five timeouts reach the backoff at which
`rtt_backoff` forgets `t_srtt_`; two intervals are what FlowBender needs to move
(`flowBender_N` 2), and the samples 1, 6 and 14 differ by more and by less than a
`ShortMax` of 7. In `connection` five segments make two runs above a hole, one
more than an ACK has room for; the SYN and the last segment are acknowledged by
the timer alone; and a ring of 2 has to grow.

Fairness. `Transfer` and `Connection` assume `WF_vars(Next)`, that the simulation
goes on as long as an event is pending: the scheduler runs every event it holds.
Which event is next is open, and losses end because they are bounded; in
`Connection` a pending delayed-ACK timer is such an event. `Delivered` and
`KeepsItsPromise` say that there is then no infinite run in which the sender goes
round in circles and no state in which it waits for nothing.

## 4. Findings

1. **`sack_reset`** - `TcpSink::reset` calls `acker_->reset()` through an
   `Acker*`; `Acker::reset` is not virtual, so the `SackStack` of a `Sacker` is
   not emptied. An ACK of the new connection reports blocks of the old one.
2. **`svt_flowcell`** - with several failures the packets inside a flowcell
   run the code for a single failure, where a flow marked `poorPathFlow_` is
   moved to another uplink. The flowcell is split, possibly over a failed link.
3. **`multipath_selected`** - the scan for a packet whose path the sender has
   selected takes `linkID - 1` for its end and does not examine it; a packet
   that asks for the third link of three, while that one is down, is dropped
   although two links are up.
4. **`transfer_dctcp`** - `dupack_action` starts a recovery right after a mark has
   cut the window without setting `recover_`, which can already be
   acknowledged: the test is `highest_ack_ > recover_`, while `recv` ends the
   recovery on `seqno >= recover_`. The next duplicate ACK ends it, the
   scoreboard is cleared, and another fast retransmit can cut the window again.

Met while modelling, and stated in the conditions of the properties:

* With `generate_dsacks_` a DSACK takes one place of the ACK, the walk over the
  history stops early, and a block that the newest one covers stays. A later
  ACK carries both (`BlocksAreDisjoint` is for sinks without DSACK, and
  without a reset, finding 1). In an ACK with room for one block the DSACK is
  all there is (`FirstBlockIsTrigger` leaves it out).
* A sink drops the oldest block of a full history and reports it no more, so
  that an ACK is sure to tell all that is held only while the segments cannot
  make more runs above the first hole than it has blocks
  (`AllHeldIsReported`: no segment above `2 * base_nblocks_`).
* When failures touch every spine, a flow can be mapped to an empty table and
  `nextValidLink` does not return (`NextLinkIsFound` says this is the only way;
  the action `LoopForEver` is reached in the `svt` run).
* A second indirect failure of a spine is ignored, so a partial failure listed
  before a full one leaves the spine among the partial ones
  (`TablesAreRight` says it is in one of the two).
* A partial ACK does not move `t_seqno_`. A sender that answers marks can be in
  recovery while still behind after a timeout, and then sends segments again
  that the partial ACK has covered (`RecoverySendsOnlyMissing` is for senders
  without `ecn_`; there `BehindOnlyAfterTimeout` excludes it). `send_much` does move
  `t_seqno_` past a hole it resends (tcp-sack1.cc:720, `first` in `SendMuch`), which can
  only matter in such a recovery. No run gets there: it takes a longer flow or
  more faults than their bounds. The theorems hold of it all the same.
* With `timerfix_` the retransmission timer is never cancelled (`NewTimer` is
  always true where it is called after `t_seqno_` has been raised), so a finished
  flow times out for ever.
* ECMP without FlowBender hashes an uninitialized `ttl` (`SamePathIsKept` is
  for hashed packets that have one).

Of the other schemes (`PathSelection`):

* `ndatapack_ % flowCellMod_` divides by zero for a selectively sprayed flow
  between good leaves over a static failure, whose `rfactor` is never set, and
  for a weighted flow whose uplinks have all failed (`CrashIsNamed`).
* A flowcell can start on a spine that its pair of leaves is known to have lost.
  `DeadSpineUseIsNamed` names every way, for all schemes and lists, and the run
  reaches each of them:
  - `isSpineFailed` returns the first failure of the list on a spine, so a partial
    one listed before a full one hides it from the schemes that look spines up
    (tcp.cc:2011);
  - no link of the kind looked for is left, and one is taken untried: the turn of
    the weak links when all the failures of the pair are full, a healthy link
    when every uplink has failed, a draw when no link has a weight;
  - the flow is marked for the failed spine: a `poorPathFlow_` until it leaves it,
    and the first packet of a DA flow, which starts on the last link even if that
    is the failed one;
  - selective spraying, `failureCase_` 2 and round robin over a static failure know
    `failedLinks[0]` only, and use the spines of the other failures (tcp.cc:1661,
    where a comment says that several full failures are not implemented);
  - the weighted round robin over a static failure does not ask whether the failure
    is full, and takes the lost spine at its turn, which includes packet 0 of a flow
    that starts before it (tcp.cc:1732).
* With a single failure the turn of the weak link is asked for only when the
  round robin is about to reach that link. If its spine is neither the first nor
  the last the two never meet, and the link is not used at all (`InTheMiddle` in
  `WeakShareIsExact`), although "the turn of the failed link comes after rfactor
  flowcells" (tcp.cc:1263).
* A failure detected late finds a `flowCellMod_` that has not moved, so its turns
  are irregular. `WeakShareIsExact` is for the flows of `Aligned`: WFCS and WPS with
  `failureCase_` 1 that start after the detection, with some partial failure between
  their leaves, no full failure hidden by a partial one listed before it
  (`WorstIsFirst`), and, with several failures, an uplink that has none.

Of the sender and its queue (`Bottleneck`):

* The difference of a sample and the smoothed round trip is a `short`: a jump of
  more than 32767 ticks wraps (`RtoIsSafe` leaves such samples out).
* The holes that a recovery resends leave `rtt_active_` set, so that a segment sent
  twice can be timed (`KarnsRule` leaves recovery out).
* FlowBender's timer is set to `rtt_timeout()`, never less than `minrto_`, where a
  comment says "after every RTT".
* After a second timeout before the sender has caught up, `dctcp_maxseq` is below
  `maxseq_`, and alpha is updated more than once for a window (`behind`).
* The first packet of all to find the queue above the threshold is not marked:
  `old` is still clear (`MarksFollowTheQueue` says so by `curq_`). The SYN of a
  sender with ECN but without DCTCP cannot be marked, and its queue can drop it
  below the limit; that only the limit drops is for DCTCP senders.
* The sink repeats the echo until it sees `cong_action_`. If the segment that
  carries it is lost, or is one sent again that later ones overtake, the same mark
  cuts the window twice; the end of a recovery sets `recover_` to 0 and a timeout
  opens `ecn()` too, so that the next echo, however old, cuts it again; a SYN
  sent again by a sender without DCTCP is answered with an echo that cuts it.
  And a fast retransmit right after a mark (`EcnRetransmit`) can send again,
  without `cong_action_`, the very segment that carries it; the sink then takes the
  copy that comes first, and the other is a duplicate below the echo
  (`due` names all of these).

## 5. Proofs

TLAPS checks every theorem below for every value of the constants that meets
the assumptions in the modules: any initial ring of at least two entries
(`MWSAssumption`; TLC also evaluates that it is a power of two, which no proof needs),
any set of segments with positive sizes (`SeqsAssumption`), any kinds of sink
(`SinkAssumption`) and of sender (`SenderAssumption`: any size, a window of at least 2,
at least one duplicate for a fast retransmit), any bound on the faults
(`FaultsAssumption`), any queue whose thresholds are in order (`QueueAssumption`), a
clock whose timeouts are at least two ticks (`RttAssumption`), any number and share of
congested intervals (`DctcpAssumption`), any fabric of one uplink or, for
`PathSelection`, two (`UplinksAssumption`), flows that know of a failure having one
(`FlowsAssumption`), thresholds and flowcells of any size (`SizesAssumption`), and more
slots than links (`SlotsAssumption`). `ConnectionAssumption` says that the sink numbers
the segments of the flow and that neither ECN nor DSACK is on; `NoneAssumption` that
`None` is no packet. The rest (`CasesAssumption`, `SchemesAssumption`,
`PacketsAssumption`) type the settings. TLC evaluates all of them in the runs.

*Receive buffer* (`TcpSinkProofs`). The inductive invariant is `AckerTypeOK`, the
length of the window against the ring (`WindowLength`), the empty entries at both
edges (`EdgesAreHoles`), and that a mark is the size of its segment. None is
inductive alone: the scan to the right stops in the window only because its edge
is empty; the edge is empty only because the window fits the ring; and after a
resize the entries keep their meaning only because no two segments of the window
shared one. Theorems: `AckerIsTyped`, `AckerWindow`, `AckerEdges`, and
`AckerReassembles`, that the ring implements `Reassembly` under
`received <- Received`: `AckerInit` maps to `Init`, and `Update` and `AckerReset` map to
steps of the abstract buffer with the same duplicate verdict and the same bytes
delivered.

*Sink* (`TcpSinkProofs`). `SinkInv` joins the buffer to the SACK history: as long as
the sink has not been reset, every block of the history is a maximal run of
received segments above the cumulative ACK (`HeldRun`), without DSACK no two are the
same, and a held segment is the last one in order (`HeldIsLast`). A
new segment that joins or extends runs turns the blocks it touches into parts of
the recent one, and the walk of `append_ack` pops them all, because it can only end
early when the ACK is full. Theorems: `SinkIsTyped`, `SinkReportsWhatItHolds`
(`BlocksAreSound`), `SinkReportsTrigger`, `SinkBlocksAreDisjoint`,
`SinkEchoesHeldMark`. `SinkReportsAllItHolds` (`AllHeldIsReported`) needs `CompleteInv`:
every run is in the history and in a current ACK. Runs are apart by a hole, so that
a full ACK has all the runs that there is room for.

*Spine selection for several failures* (`SvtProofs`). The invariant is `TypeOK`,
`TablesAreRight`, `CountersAreRight` and `MappingIsMeant` (a flow is mapped to failed
or asymmetric spines only if it may use them). Counters move by whether a spine *is*
in a table, so they are right only with the tables. Theorems: `SvtTypeOK`,
`SvtTables`, `SvtCounters`, `SvtReachesLeaf` (no flowcell of a detected failure starts
on a spine the pair of leaves has lost), `SvtSizeAware`
(`LargeFlowsAvoidFailures`), `SvtKeepsFlowcells`, and `SvtLinkIsFound`: if some spine is
on no failed link `nextValidLink` ends. The last needs that a draw of a table with
links follows from a counter that is not zero (`MapFlowToLinks`).

*Spine selection of the other schemes* (`PathSelectionProofs`). `PathInv` says that
what the first packet prepared (weights, `rfactor`, the first link) is still what the
settings make of it, and that a division by zero has one of the named causes:
`PathsAreTyped`, `CrashesAreNamed`, and from them `DeadSpineUsesAreNamed`, action by
action. `ShareInv` counts
in whole flowcells: how many have started (`c`), with which the turn of the weak
links comes (`m`), and how many have passed since the last turn. With several
failures `c + rfactor = m + sinceWeak` between turns. With one, first or last, the turn
meets its link because the flowcells since the last are whole rounds of the healthy
links (`SingleShare`). With one in the middle `c` is `q` rounds and `e` links of the next
(`MiddleShare`), and `rfactor` whole rounds: before the failed link the round is
incomplete, so that the turn cannot have come (`NoTurnInRound`). Theorem
`WeakSharesAreExact`, for the flows of `Aligned`.

*Classifier* (`MultiPathProofs`), for any hash. `MultiPathTypeOK` includes that the last
slot in use has a link, which is what lets every scan end. `MultiPathTakesLink`: a
scan of `maxslot_ + 3` slots meets every slot (`ScanFindsLink`), so it ends at a
link. `MultiPathKeepsPath`: the history is what the slots as they are would say
again (`LogIsPath`), and a scan has one end. `MultiPathSprayIsEven`: no two slots hold
one link, and the counts of packets are ordered by the turn in which the scan
comes to a link (`TurnsAreEven`), a link whose turn is later having had as many or one
more.

*Sender* (`Sack1TcpProofs`, lemmas only). `SenderInv` is the typing of the sender,
`RecoveryIsSound`, and three facts it needs:

* `SynIsAlone`: until the SYN is acknowledged nothing else is sent, so the sink has
  segment 0 before any other and the first ACK is not below 0. A timeout keeps
  this only because it finds, or leaves, a window of one.
* `RecoverIsSent`: `recover_` never passes `maxseq_`. With it, an ACK that
  ends a recovery is beyond every partial ACK before it.
* `ClosedIsAcked`: `finish()` follows the ACK of the last segment.

What the sink is and what the network does enter through two operators: the sender
knows only segments that a set `R` holds (`KnowsOnly`), and an ACK, however late, tells
what `R` has (`IsTrueAck`). `SendMuchLeaves` says once what `send_much` leaves,
whichever handler calls it, `Rebuild` derives the invariant from that, and each
branch of `recv` is then a lemma. `HandlesSends` says which segments a whole handler
puts on their way, new ones and those sent again.

*One flow* (`TransferProofs`). `IInv` is `SenderInv`, the typing of the paths,
`KnowsOnly(received)` and `AcksAreTrue`. Theorems: `TransferInvariant`, `TransferTypeOK`,
`TransferRecoverySound`, `TransferClosedIsDelivered`, `TransferAckPoint`
(`AckPointAdvances`), `TransferSendsOnlyMissing` (`RecoverySendsOnlyMissing`), and
`TransferOneCutPerWindow`. The last adds to the invariant that the sender remembers
its last cut, which is not above `recover_` or is acknowledged (`CutIsKnown`), and what
the first window leaves (`FirstWindow`), where a recovery could otherwise start at the
ACK of the SYN with `recover_` still 0.

*End to end* (`ConnectionProofs`). `ConnectionInv` is the sender's invariant and the
sink's with `R` the segments received (`Received`), and that every ACK on its way is true of
them. `ConnectionTellsTheTruth` is `SenderKnowsTheTruth`. `ConnectionIsOrderly` is the
safety part of the refinement, `Spec => Promise!Orderly`: the initial states map to
those of `Stream`, and every step of the connection maps to `Submit`, `Deliver`,
`Acknowledge`, `Close` or a stutter.

*Bottleneck* (`BottleneckProofs`). `BInv` has a part for each component: the flow,
the clock (the segment timed has been sent and is below `t_seqno_`), alpha's window,
FlowBender's intervals, the queue, and the segments with news of a cut. Theorems:
`BottleneckInvariant`, `BottleneckTypeOK`; `BottleneckRto` (`RtoIsSafe`), by the arithmetic
of shifts and of `short`; `BottleneckKarn`; `BottleneckMarks`
(`MarksFollowTheQueue`); `BottleneckFeedback` (`FeedbackIsPaced`). `BottleneckCuts`
(`CutAnswersMark`) follows the news of a cut from the sender to the sink in `CutInv`:
unless another cut is due, no ACK with the echo is above `recover_`, and while the
sink goes on with its echo it lacks segment `recover_ + 1`, whose news waits to be
sent, is on its way to the queue with one copy only, or is in the queue before any
other copy.

Where a proof goes through the numbers, it picks the least one (`WFMin`), as the
provers have no induction over an operator.

Only model-checked: the liveness of `Transfer` (`Delivered`) and of `Connection` (the
`<> closed` of `KeepsItsPromise`), which rest on fairness. Every safety property that
a passing run checks is a theorem.

## 6. Not modelled

* Link state routing (ls.h), wireless MAC and propagation, `ranvar.cc`: files of
  ns-2 with build fixes, which the experiments do not use.
* `agent.cc`, `flags.h`, `ns-default.tcl`: declarations and defaults; the fields
  that matter are inputs of the modules.
* The experiment scripts: the modules take from them which settings and
  events occur. The awk and gnuplot scripts work on traces after the run.
* The fat-tree code of the classifier (`K_` not 0).
* The Simulator's traffic matrix: no script of the repository calls
  `initialize-incoming-traffic-matrix` or `update-incoming-traffic-matrix`, so that
  `numLeafs_` stays 0, `get-incoming-traffic` answers 0, and the tables 10 to 12 of
  `Svt` are drawn only under scripts that do. `Svt` takes the answer as a choice,
  which covers both. The node list and route population are code of ns-2.
* Of the sender: the value of `dctcp_alpha_`, Quick-Start, F-RTO, `partial_ack_`, the
  options of `wnd_option_`, `TcpAgent::reset` after the first packet; all off, or
  not called, in the experiments (the value of alpha is within the cut that
  `Sack1Tcp` allows).
* Of the RED queue: byte mode, adaptive, cautious and gentle RED, which the
  experiments do not set.

## 7. Plan

What is left, the most useful first.

1. An abstract specification of the fabric's promise to a flow (each flowcell on one
   spine that reaches the other leaf), implemented by `Svt` and by `PathSelection`
   under the conditions that their theorems name.
2. The sink with DSACKs: how long a covered block can stay in the history, which
   `BlocksAreDisjoint` leaves out.
3. The hazards that no property covers (in `PROJECT.json`, with the reason): most
   need settings or calls that no script of the repository makes.
