---------------------------- MODULE XFTReceiver ----------------------------
(***************************************************************************)
(* The receiving half of XFileTransfer.  Three threads share the object:   *)
(* the transfer thread it starts (TransferThreadFunc), the IRM thread that *)
(* begins receptions, announces the end of the file and handles stops, and *)
(* the user interface thread that cancels.  A section of code under        *)
(* m_Semaph is one action; so is each access to shared members made        *)
(* outside it, because those are the ones that interleave.                 *)
(* The transport is arbitrary: a packet may be lost, repeated, reordered,  *)
(* damaged, or left over from an earlier transfer.                         *)
(***************************************************************************)
EXTENDS Integers, FiniteSets, VectorT

CONSTANTS
  MaxPkts,     \* largest number of packets of a file
  PtPModes,    \* what BeginReceive is told: point to point mode or not
  Udp,         \* m_bRcvUDP: datagrams (or multicast) rather than a TCP stream
  EofPhases,   \* when NotifyEOF may reach the object, a subset of EofPhase
  Stray,       \* TRUE: datagrams of another transfer may reach the fixed port
  AtomicReset  \* TRUE: nobody comes between Reset's test of m_bResetting and its set

EofPhase == {"settled",    \* the thread runs and is between two packets
             "saving",     \* the thread is inside SaveRcvPkt
             "before"}     \* no reception runs, or its thread has ended

ASSUME ReceiverAssumption ==
  /\ MaxPkts \in Nat \ {0}
  /\ PtPModes \subseteq BOOLEAN /\ Udp \in BOOLEAN /\ Stray \in BOOLEAN /\ AtomicReset \in BOOLEAN
  /\ EofPhases \subseteq EofPhase

Pkts == 1..MaxPkts
Controllers == {"irm", "ui"}
Alien == MaxPkts + 1             \* what a packet of another file holds

VARIABLES
  curSeq, totPkts, nRcvPkts,        \* m_uCurSeq, m_uTotPkts, m_nRcvPkts
  lost, pos,                        \* m_vPktLost and its cursor
  rcvEnabled, receiving, resetting, \* m_bRcvEnabled, m_bReceiving, m_bResetting
  abort, complete, ptp,             \* m_flAbort, m_flRcvComplete, m_flPtP
  sockOpen,                         \* m_pSockRcv can still be read
  block, flen,                      \* the file: what each block holds, blocks in it
  fileOpen, onDisk,                 \* m_hFile is open; the file exists
  tpc, tpkt,                        \* transfer thread: where it is, packet in hand
  pc, req,                          \* controllers; NotifyEOF's pkti, pktf and seq
  asked                             \* packets asked for since the last NotifyEOF

member == <<rcvEnabled, receiving, resetting, abort, complete, ptp, sockOpen>>
file   == <<block, flen, fileOpen, onDisk>>
vector == <<lost, pos>>
thread == <<tpc, tpkt>>
ctrl   == <<pc, req, asked>>
vars   == <<curSeq, totPkts, nRcvPkts, vector, member, file, thread, ctrl>>

NoPkt == [seq |-> 0, data |-> 0]
NoReq == [pkti |-> 0, pktf |-> 0, seq |-> 0]

TypeCounters ==
  /\ curSeq \in 0..MaxPkts /\ totPkts \in 0..MaxPkts /\ nRcvPkts \in Nat
  /\ lost \in Seq(Pkts) /\ pos \in Nat \ {0}

TypeFlags ==
  /\ rcvEnabled \in BOOLEAN /\ receiving \in BOOLEAN /\ resetting \in BOOLEAN
  /\ abort \in BOOLEAN /\ complete \in BOOLEAN /\ ptp \in BOOLEAN /\ sockOpen \in BOOLEAN
  /\ fileOpen \in BOOLEAN /\ onDisk \in BOOLEAN

TypeFile == block \in [Pkts -> 0..Alien] /\ flen \in Nat

TypeThread ==
  /\ tpc \in {"none", "top", "read", "gap", "gapfail", "cmp", "set", "chk", "done"}
  /\ tpkt \in [seq : 0..MaxPkts, data : 0..Alien]

TypeControl ==
  /\ pc \in [Controllers ->
               {"idle", "begun", "eofwait", "eofreq",
                "reset", "join", "wait", "clear"}]
  /\ req \in [pkti : 0..MaxPkts, pktf : 0..MaxPkts, seq : 0..MaxPkts]
  /\ asked \subseteq Pkts

(* Every member has its type; in particular m_uCurSeq and the numbers on the *)
(* lost vector stay within the file.                                         *)
TypeOK == TypeCounters /\ TypeFlags /\ TypeFile /\ TypeThread /\ TypeControl

(* The constructor leaves m_uCurSeq and m_uTotPkts as the allocator left     *)
(* them, and NotifyEOF can read them then; the members that nothing reads    *)
(* before BeginReceive sets them start at zero.                              *)
Init ==
  /\ curSeq \in 0..MaxPkts /\ totPkts \in 0..MaxPkts /\ nRcvPkts = 0
  /\ lost = <<>> /\ pos = 1
  /\ rcvEnabled = FALSE /\ receiving = FALSE /\ resetting = FALSE
  /\ abort = TRUE /\ complete = FALSE /\ ptp = FALSE /\ sockOpen = FALSE
  /\ block = [k \in Pkts |-> 0] /\ flen = 0
  /\ fileOpen = FALSE /\ onDisk = FALSE
  /\ tpc = "none" /\ tpkt = NoPkt
  /\ pc = [c \in Controllers |-> "idle"] /\ req = NoReq /\ asked = {}

Goto(c, label) == pc' = [pc EXCEPT ![c] = label]

-----------------------------------------------------------------------------
(* The IRM thread starts a reception. *)

(* Mutant: m_nRcvPkts keeps the last reception's count. *)
BeginReceiveKeepsCount(n, p, netOk) ==
  /\ pc["irm"] = "idle" /\ ~rcvEnabled
  /\ block' = [k \in Pkts |-> 0] /\ flen' = 0 /\ onDisk' = TRUE /\ ptp' = p
  /\ fileOpen' = TRUE /\ abort' = FALSE
  /\ totPkts' = n /\ complete' = FALSE /\ rcvEnabled' = TRUE /\ sockOpen' = TRUE
  /\ Goto("irm", "begun")
  /\ UNCHANGED <<curSeq, nRcvPkts, vector, receiving, resetting, thread, req, asked>>

(* BeginReceive(): not under the lock; the lost vector and m_uCurSeq keep     *)
(* their values.  When the network cannot be opened the truncated file stays.*)
BeginReceive(n, p, netOk) ==
  /\ pc["irm"] = "idle" /\ ~rcvEnabled
  /\ block' = [k \in Pkts |-> 0] /\ flen' = 0 /\ onDisk' = TRUE /\ ptp' = p
  /\ fileOpen' = netOk /\ abort' = ~netOk
  /\ IF netOk
       THEN /\ totPkts' = n /\ nRcvPkts' = 0 /\ complete' = FALSE
            /\ rcvEnabled' = TRUE /\ sockOpen' = TRUE
            /\ Goto("irm", "begun")
       ELSE UNCHANGED <<totPkts, nRcvPkts, complete, rcvEnabled, sockOpen, pc>>
  /\ UNCHANGED <<curSeq, vector, receiving, resetting, thread, req, asked>>

(* RunRX() with StartTransferThread(): a thread object that was never joined *)
(* keeps a new one from starting.                                            *)
RunRX ==
  /\ pc["irm"] = "begun"
  /\ Goto("irm", "idle")
  /\ IF rcvEnabled /\ ~receiving
       THEN /\ curSeq' = 0
            /\ IF tpc = "none"
                 THEN tpc' = "top" /\ receiving' = TRUE
                 ELSE UNCHANGED <<tpc, receiving>>
       ELSE UNCHANGED <<curSeq, tpc, receiving>>
  /\ UNCHANGED <<totPkts, nRcvPkts, ptp, vector, rcvEnabled, resetting, abort, complete,
                 sockOpen, file, tpkt, req, asked>>

-----------------------------------------------------------------------------
(* The transfer thread. *)

(* One turn of TransferThreadFunc up to ReceivePkt(). *)
ThreadTop ==
  /\ tpc = "top"
  /\ tpc' = IF abort \/ ~receiving THEN "done" ELSE "read"
  /\ UNCHANGED <<curSeq, totPkts, nRcvPkts, vector, member, file, tpkt, ctrl>>

(* ReceivePkt() comes back empty: the abort flag is up, or the read failed.  *)
(* XFTPC_RCVERR ends the thread.                                             *)
ReadFails ==
  /\ tpc = "read"
  /\ tpc' = "done"
  /\ UNCHANGED <<curSeq, totPkts, nRcvPkts, vector, member, file, tpkt, ctrl>>

(* The peer breaks the stream: ReceivePkt() closes the socket and, out of    *)
(* point to point mode, connects again.                                      *)
Reconnect(ok) ==
  /\ tpc = "read" /\ ~Udp /\ ~abort /\ sockOpen
  /\ sockOpen' = (ok /\ ~ptp)
  /\ tpc' = IF ok /\ ~ptp THEN "chk" ELSE "done"
  /\ UNCHANGED <<curSeq, totPkts, nRcvPkts, ptp, vector, rcvEnabled, receiving, resetting,
                 abort, complete, file, tpkt, ctrl>>

(* A packet is read and SaveRcvPkt() runs its first section.  The packet's   *)
(* transfer id is not looked at.                                             *)
Packets == [seq : Pkts, data : Pkts \cup {Alien}]
OnWire(m) == \/ m.data = m.seq /\ m.seq <= totPkts
             \/ m.data = Alien /\ Stray

Reading(m) == tpc = "read" /\ sockOpen /\ ~abort /\ OnWire(m)

(* Mutant: no test of the order in point to point mode. *)
AcceptedAnyOrder(m) == Reading(m) /\ receiving

Accepted(m) == Reading(m) /\ receiving /\ (ptp => m.seq = curSeq + 1)

(* SaveRcvPkt() refuses: not receiving any more, out of order in point to    *)
(* point mode, or a number past the end of the file.                         *)
SaveRefused(m) ==
  /\ Reading(m)
  /\ \/ ~receiving
     \/ ptp /\ m.seq # curSeq + 1
     \/ m.seq > curSeq + 1 /\ m.seq > totPkts
  /\ tpc' = "done"
  /\ UNCHANGED <<curSeq, totPkts, nRcvPkts, vector, member, file, tpkt, ctrl>>

(* Damaged, or at or below m_uCurSeq and not lost: nothing to save. *)
SaveIgnored(m) ==
  /\ Accepted(m)
  /\ tpc' = "chk"
  /\ UNCHANGED <<curSeq, totPkts, nRcvPkts, vector, member, file, tpkt, ctrl>>

(* A gap: the missing numbers join the lost vector and blank blocks are      *)
(* appended for them; the lock is then dropped for XFTPC_RCVP2STATS.  When   *)
(* the disk fails at block k, what was inserted stays inserted.              *)
SaveGap(m, k) ==
  /\ Accepted(m) /\ m.seq > curSeq + 1 /\ m.seq <= totPkts
  /\ k \in (curSeq + 1)..m.seq
  /\ lost' = InsertRun(lost, curSeq + 1, IF k = m.seq THEN k - 1 ELSE k)
  /\ flen' = flen + (k - (curSeq + 1))
  /\ tpkt' = m
  /\ tpc' = IF k = m.seq THEN "gap" ELSE "gapfail"
  /\ UNCHANGED <<curSeq, totPkts, nRcvPkts, pos, member, block, fileOpen, onDisk, ctrl>>

(* The data goes to the file as block number at; a short write is an error.  *)
WriteBlock(data, at, ok) ==
  IF ok
    THEN /\ block' = [block EXCEPT ![at] = data]
         /\ flen' = IF at > flen THEN at ELSE flen
         /\ nRcvPkts' = nRcvPkts + 1
         /\ tpc' = "cmp"
    ELSE /\ tpc' = "done"
         /\ UNCHANGED <<block, flen, nRcvPkts>>

(* Mutants: the packet stays on the lost vector; it is appended. *)
SaveLateStaysLost(m, ok) ==
  /\ Accepted(m) /\ m.seq < curSeq + 1 /\ Search(lost, m.seq) # 0
  /\ nRcvPkts < totPkts
  /\ tpkt' = m
  /\ WriteBlock(m.data, m.seq, ok)
  /\ UNCHANGED <<curSeq, totPkts, vector, member, fileOpen, onDisk, ctrl>>

SaveLateAppends(m, ok) ==
  /\ Accepted(m) /\ m.seq < curSeq + 1 /\ Search(lost, m.seq) # 0
  /\ flen < MaxPkts
  /\ lost' = Remove(lost, Search(lost, m.seq))
  /\ tpkt' = m
  /\ WriteBlock(m.data, flen + 1, ok)
  /\ UNCHANGED <<curSeq, totPkts, pos, member, fileOpen, onDisk, ctrl>>

(* A number at or below m_uCurSeq that is on the lost vector. *)
SaveLate(m, ok) ==
  /\ Accepted(m) /\ m.seq < curSeq + 1 /\ Search(lost, m.seq) # 0
  /\ lost' = Remove(lost, Search(lost, m.seq))
  /\ tpkt' = m
  /\ WriteBlock(m.data, m.seq, ok)
  /\ UNCHANGED <<curSeq, totPkts, pos, member, fileOpen, onDisk, ctrl>>

(* The next number in order: appended at the end of the file.  Nothing       *)
(* compares it with m_uTotPkts.                                              *)
SaveNext(m, ok) ==
  /\ Accepted(m) /\ m.seq = curSeq + 1
  /\ tpkt' = m
  /\ WriteBlock(m.data, flen + 1, ok)
  /\ UNCHANGED <<curSeq, totPkts, vector, member, fileOpen, onDisk, ctrl>>

(* After the gap: the lock is taken again and the packet is written behind   *)
(* the blank blocks, unless an abort came meanwhile.                         *)
SaveAfterGap(ok) ==
  /\ tpc = "gap"
  /\ IF abort
       THEN tpc' = "chk" /\ UNCHANGED <<block, flen, nRcvPkts>>
       ELSE WriteBlock(tpkt.data, flen + 1, ok)
  /\ UNCHANGED <<curSeq, totPkts, vector, member, fileOpen, onDisk, tpkt, ctrl>>

GapFails ==
  /\ tpc = "gapfail"
  /\ tpc' = "done"
  /\ UNCHANGED <<curSeq, totPkts, nRcvPkts, vector, member, file, tpkt, ctrl>>

(* "if ( seq > m_uCurSeq ) m_uCurSeq = seq" after the lock was given back:   *)
(* the test and the assignment are two steps.                                *)
CompareSeq ==
  /\ tpc = "cmp"
  /\ tpc' = IF tpkt.seq > curSeq THEN "set" ELSE "chk"
  /\ UNCHANGED <<curSeq, totPkts, nRcvPkts, vector, member, file, tpkt, ctrl>>

AdvanceSeq ==
  /\ tpc = "set"
  /\ curSeq' = tpkt.seq
  /\ tpc' = "chk"
  /\ UNCHANGED <<totPkts, nRcvPkts, vector, member, file, tpkt, ctrl>>

(* Mutant: one packet too few is enough. *)
CheckCompleteEarly ==
  /\ tpc = "chk"
  /\ IF nRcvPkts + 1 >= totPkts
       THEN complete' = TRUE /\ tpc' = "done"
       ELSE tpc' = "top" /\ UNCHANGED complete
  /\ UNCHANGED <<curSeq, totPkts, nRcvPkts, ptp, vector, rcvEnabled, receiving, resetting,
                 abort, sockOpen, file, tpkt, ctrl>>

(* Back in TransferThreadFunc: all packets counted means success             *)
(* (XFTPC_RCVSUCCESS) and the end of the thread.                             *)
CheckComplete ==
  /\ tpc = "chk"
  /\ IF nRcvPkts = totPkts
       THEN complete' = TRUE /\ tpc' = "done"
       ELSE tpc' = "top" /\ UNCHANGED complete
  /\ UNCHANGED <<curSeq, totPkts, nRcvPkts, ptp, vector, rcvEnabled, receiving, resetting,
                 abort, sockOpen, file, tpkt, ctrl>>

-----------------------------------------------------------------------------
(* NotifyEOF() on the IRM thread. *)

Phase ==
  IF ~receiving \/ tpc \in {"none", "done"} THEN "before"
  ELSE IF tpc \in {"top", "read", "chk"} THEN "settled" ELSE "saving"

(* Mutants: the loop starts one too late; m_uCurSeq is not moved. *)
NotifyEOFSkipsOne ==
  /\ pc["irm"] = "idle" /\ Phase \in EofPhases /\ curSeq < totPkts
  /\ lost' = InsertRun(lost, curSeq + 2, totPkts)
  /\ curSeq' = totPkts
  /\ Goto("irm", "eofwait") /\ asked' = {}
  /\ UNCHANGED <<totPkts, nRcvPkts, pos, member, file, thread, req>>

NotifyEOFKeepsSeq ==
  /\ pc["irm"] = "idle" /\ Phase \in EofPhases /\ curSeq < totPkts
  /\ Len(lost) <= MaxPkts
  /\ lost' = InsertRun(lost, curSeq + 1, totPkts)
  /\ Goto("irm", "eofwait") /\ asked' = {}
  /\ UNCHANGED <<curSeq, totPkts, nRcvPkts, pos, member, file, thread, req>>

(* First section: whatever lies behind m_uCurSeq is lost. *)
NotifyEOF ==
  /\ pc["irm"] = "idle" /\ Phase \in EofPhases
  /\ lost' = InsertRun(lost, curSeq + 1, totPkts)
  /\ curSeq' = IF curSeq < totPkts THEN totPkts ELSE curSeq
  /\ lost' # <<>>
  /\ Goto("irm", "eofwait") /\ asked' = {}
  /\ UNCHANGED <<totPkts, nRcvPkts, pos, member, file, thread, req>>

(* How many items from cursor c on continue the run that starts with x.      *)
RunLength(v, c, x) ==
  CHOOSE k \in 0..Len(v) :
    /\ \A i \in 1..k : c + i - 1 <= Len(v) /\ v[c + i - 1] = x + i
    /\ ~ (c + k <= Len(v) /\ v[c + k] = x + k + 1)

(* One turn of the request loop: the run that starts with x is asked for     *)
(* (XFTPC_PKTREQ, outside the lock); the item behind it is remembered.       *)
RequestRun(x, c) ==
  LET k == RunLength(lost, c, x)
  IN  /\ req' = [pkti |-> x, pktf |-> x + k, seq |-> ItemAt(lost, c + k)]
      /\ pos' = Advance(lost, c + k)
      /\ asked' = asked \cup x..(x + k)

(* After the random wait: first(), or nothing when aborted or emptied. *)
RequestFirst ==
  /\ pc["irm"] = "eofwait"
  /\ IF abort \/ lost = <<>>
       THEN Goto("irm", "idle") /\ UNCHANGED <<pos, req, asked>>
       ELSE RequestRun(lost[1], 2) /\ Goto("irm", "eofreq")
  /\ UNCHANGED <<curSeq, totPkts, nRcvPkts, lost, member, file, thread>>

(* The lock again: on with the remembered item and the shared cursor. *)
RequestNext ==
  /\ pc["irm"] = "eofreq"
  /\ IF abort \/ req.seq = 0
       THEN Goto("irm", "idle") /\ req' = NoReq /\ UNCHANGED <<pos, asked>>
       ELSE RequestRun(req.seq, pos) /\ UNCHANGED pc
  /\ UNCHANGED <<curSeq, totPkts, nRcvPkts, lost, member, file, thread>>

-----------------------------------------------------------------------------
(* Reset() by either controller: OnMediaReceiveStop or a user's cancel. *)

(* The test of m_bResetting. *)
ResetTest(c) ==
  /\ pc[c] = "idle" /\ ~resetting
  /\ AtomicReset => \A d \in Controllers : pc[d] # "reset"
  /\ Goto(c, "reset")
  /\ UNCHANGED <<curSeq, totPkts, nRcvPkts, vector, member, file, thread, req, asked>>

(* Mutant: the socket is not closed. *)
ResetRcvNoClose(c) ==
  /\ pc[c] = "reset"
  /\ IF rcvEnabled
       THEN resetting' = TRUE /\ abort' = TRUE /\ Goto(c, "join")
       ELSE resetting' = FALSE /\ Goto(c, "idle") /\ UNCHANGED abort
  /\ UNCHANGED <<curSeq, totPkts, nRcvPkts, ptp, vector, rcvEnabled, receiving, complete,
                 sockOpen, file, thread, req, asked>>

(* The flag, then ResetRcv() up to the join. *)
ResetRcv(c) ==
  /\ pc[c] = "reset"
  /\ IF rcvEnabled
       THEN /\ resetting' = TRUE /\ abort' = TRUE /\ sockOpen' = FALSE
            /\ Goto(c, "join")
       ELSE /\ resetting' = FALSE
            /\ Goto(c, "idle") /\ UNCHANGED <<abort, sockOpen>>
  /\ UNCHANGED <<curSeq, totPkts, nRcvPkts, ptp, vector, rcvEnabled, receiving, complete,
                 file, thread, req, asked>>

(* EndTransferThread(): with a thread object, the flag again and a wait       *)
(* without limit; the object is then dropped.                                *)
EndTransferThread(c) ==
  /\ pc[c] = "join"
  /\ IF tpc = "none" THEN Goto(c, "clear") /\ UNCHANGED abort
                     ELSE Goto(c, "wait") /\ abort' = TRUE
  /\ UNCHANGED <<curSeq, totPkts, nRcvPkts, ptp, vector, rcvEnabled, receiving, resetting,
                 complete, sockOpen, file, thread, req, asked>>

WaitForMe(c) ==
  /\ pc[c] = "wait" /\ tpc \in {"none", "done"}
  /\ tpc' = "none" /\ Goto(c, "clear")
  /\ UNCHANGED <<curSeq, totPkts, nRcvPkts, vector, member, file, tpkt, req, asked>>

(* Mutants: the vector is not reset; the file is kept. *)
ResetClearKeepsLost(c) ==
  /\ pc[c] = "clear"
  /\ rcvEnabled' = FALSE /\ receiving' = FALSE /\ sockOpen' = FALSE
  /\ fileOpen' = FALSE /\ onDisk' = (onDisk /\ (fileOpen => complete))
  /\ resetting' = FALSE /\ Goto(c, "idle")
  /\ UNCHANGED <<curSeq, totPkts, nRcvPkts, ptp, vector, abort, complete, block, flen,
                 thread, req, asked>>

ResetClearKeepsFile(c) ==
  /\ pc[c] = "clear"
  /\ rcvEnabled' = FALSE /\ receiving' = FALSE /\ sockOpen' = FALSE
  /\ fileOpen' = FALSE /\ lost' = <<>> /\ pos' = 1
  /\ resetting' = FALSE /\ Goto(c, "idle")
  /\ UNCHANGED <<curSeq, totPkts, nRcvPkts, ptp, onDisk, abort, complete, block, flen,
                 thread, req, asked>>

(* The locked end of ResetRcv(): an incomplete file is deleted. *)
ResetClear(c) ==
  /\ pc[c] = "clear"
  /\ rcvEnabled' = FALSE /\ receiving' = FALSE /\ sockOpen' = FALSE
  /\ fileOpen' = FALSE
  /\ onDisk' = (onDisk /\ (fileOpen => complete))
  /\ lost' = <<>> /\ pos' = 1
  /\ resetting' = FALSE /\ Goto(c, "idle")
  /\ UNCHANGED <<curSeq, totPkts, nRcvPkts, ptp, abort, complete, block, flen, thread, req, asked>>

-----------------------------------------------------------------------------
ThreadStep ==
  \/ ThreadTop \/ ReadFails \/ GapFails \/ CompareSeq \/ AdvanceSeq \/ CheckComplete
  \/ \E ok \in BOOLEAN : SaveAfterGap(ok)

Arrival ==
  \/ \E ok \in BOOLEAN : Reconnect(ok)
  \/ \E m \in Packets : SaveRefused(m) \/ SaveIgnored(m)
  \/ \E m \in Packets, ok \in BOOLEAN : SaveLate(m, ok) \/ SaveNext(m, ok)
  \/ \E m \in Packets, k \in Pkts : SaveGap(m, k)

Start == RunRX \/ \E n \in Pkts, p \in PtPModes, netOk \in BOOLEAN : BeginReceive(n, p, netOk)
Eof   == NotifyEOF \/ RequestFirst \/ RequestNext
Stop(c) == ResetTest(c) \/ ResetRcv(c) \/ EndTransferThread(c) \/ WaitForMe(c)
           \/ ResetClear(c)

Next == ThreadStep \/ Arrival \/ Start \/ Eof \/ \E c \in Controllers : Stop(c)

Spec == Init /\ [][Next]_vars

(* The threads run; a read of a closed socket returns; packets, errors and   *)
(* requests to reset come when they come.                                    *)
Fairness ==
  /\ WF_vars(ThreadTop) /\ WF_vars(GapFails) /\ WF_vars(CompareSeq)
  /\ WF_vars(AdvanceSeq) /\ WF_vars(CheckComplete)
  /\ WF_vars(\E ok \in BOOLEAN : SaveAfterGap(ok))
  /\ WF_vars(~sockOpen /\ ReadFails)
  /\ \A c \in Controllers : WF_vars(WaitForMe(c)) /\ WF_vars(ResetClear(c))

FairSpec == Spec /\ Fairness

-----------------------------------------------------------------------------
(* Properties. *)

(* The packets whose own data is in its own place in the file. *)
Saved == {k \in 1..totPkts : block[k] = k}

(* A reception under way, and not one that is being torn down. *)
Active == receiving /\ ~abort /\ tpc \notin {"none", "done", "gapfail"}

(* m_flRcvComplete, and with it XFTPC_RCVSUCCESS, is only ever set for a     *)
(* file every block of which holds its own packet: the count that            *)
(* TransferThreadFunc compares never runs ahead of the data.                 *)
SuccessMeansComplete ==
  (complete /\ rcvEnabled) => Saved = 1..totPkts /\ flen = totPkts

(* What has been passed over is remembered: each number up to m_uCurSeq is   *)
(* in the file or on the lost vector, so NotifyEOF can still ask for it.     *)
NoPacketForgotten ==
  Active => (1..curSeq) \cap (1..totPkts) \subseteq
              Saved \cup Items(lost) \cup (IF tpc = "gap" THEN {tpkt.seq} ELSE {})

(* m_nRcvPkts is the number of packets in the file: one that is resent or    *)
(* duplicated is counted once.                                               *)
CountsExactly == Active => nRcvPkts = Cardinality(Saved)

(* SaveRcvPkt takes only the first occurrence off the lost vector: a packet  *)
(* is on it at most once, and not at all when it is in the file.             *)
LostOnce == Active => Distinct(lost) /\ Items(lost) \cap Saved = {}

(* Packets appended, blank blocks and packets written later at their offset  *)
(* never displace one another.                                               *)
RightPlace == rcvEnabled => \A k \in Pkts : block[k] \in {0, k}

(* A reception starts with nothing on the lost vector: what was lost in an   *)
(* earlier one cannot be mistaken for a late packet of this one.             *)
FreshStart == (pc["irm"] = "begun" /\ rcvEnabled) => lost = <<>>

(* The thread works for a reception: none is left behind by the Reset that   *)
(* waited for it, to stand in the way of the next StartTransferThread.       *)
NoThreadLeftBehind == tpc \notin {"none", "done"} => rcvEnabled

(* Whatever a reception that got under way leaves on disk once it is reset   *)
(* is the whole file: ResetRcv deletes what is incomplete.                   *)
DiskHoldsWholeFiles ==
  (~rcvEnabled /\ onDisk /\ flen > 0) => Saved = 1..totPkts /\ flen = totPkts

(* In point to point mode packets are taken strictly in order and nothing is *)
(* ever lost: SaveRcvPkt gives up at the first gap.                          *)
PtPInOrder == (ptp /\ Active) => lost = <<>> /\ Saved = 1..nRcvPkts

(* EndTransferThread waits without limit: the thread it waits for does end,  *)
(* wherever the reset finds it, because the socket it reads is closed.       *)
ResetEnds ==
  \A c \in Controllers : pc[c] = "wait" ~> pc[c] = "idle"

(* The reception as its user sees it: what FileReception promises. *)
Promise == INSTANCE FileReception WITH
  n     <- IF rcvEnabled THEN totPkts ELSE 0,
  got   <- IF rcvEnabled THEN Saved ELSE {},
  state <- IF ~rcvEnabled THEN "off" ELSE IF complete THEN "success" ELSE "on"

(* Gaps, requests and late packets implement a plain arrival of blocks: a    *)
(* block once in the file is never lost or displaced, no step brings two,    *)
(* and success never comes early.                                            *)
KeepsPromise == Promise!Spec

(* m_bResetting keeps a second Reset out while one is at work.               *)
ResetAlone ==
  ~ \A c \in Controllers : pc[c] \in {"join", "wait", "clear"}

(* A round of NotifyEOF that runs to its end has asked for every packet that *)
(* is still missing.                                                         *)
RoundAsksAll ==
  [][(pc["irm"] = "eofreq" /\ pc'["irm"] = "idle" /\ ~abort)
       => Items(lost) \subseteq asked]_vars
=============================================================================
