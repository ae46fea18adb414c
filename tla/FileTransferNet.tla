-------------------------- MODULE FileTransferNet --------------------------
(***************************************************************************)
(* One sender and one of its receivers: XFTSender and XFTReceiver joined   *)
(* by the two ways they have to reach each other.  Packets go as datagrams *)
(* through the media server, and may be lost or overtake one another.  The *)
(* end of the file (a private message to the channel) and the requests for *)
(* packets go through the IRM server, in order and without loss, and are   *)
(* handed over by each side's IRM thread.                                  *)
(***************************************************************************)
EXTENDS Integers, Sequences

CONSTANTS
  MaxPkts,   \* largest number of packets of a file
  MaxReqs,   \* bound: requests the sender is asked to serve
  Errors     \* TRUE: reads and writes of the files, and the sockets, may fail

ASSUME NetAssumption == MaxPkts \in Nat \ {0} /\ MaxReqs \in Nat /\ Errors \in BOOLEAN

VARIABLES
  \* the sender
  sCurSeq, sTotPkts, sLost, sNTotReq, sNReq, sEof, sSndEnd, sSndEnabled,
  sSending, sResetting, sAbort, sSockOpen, sPaused, sPauseFree, sTpc, sPc,
  sSent, sOutcome, sReqs,
  \* the receiver
  rCurSeq, rTotPkts, rNRcvPkts, rLost, rPos, rRcvEnabled, rReceiving,
  rResetting, rAbort, rComplete, rPtp, rSockOpen, rBlock, rFlen, rFileOpen, rOnDisk,
  rTpc, rTpkt, rPc, rReq, rAsked,
  air,      \* packets under way
  toSnd,    \* requests on their way to the sender: first and last packet
  toRcv     \* number of end of file messages on their way to the receiver

sndVars == <<
  sCurSeq, sTotPkts, sLost, sNTotReq, sNReq, sEof, sSndEnd, sSndEnabled,
  sSending, sResetting, sAbort, sSockOpen, sPaused, sPauseFree, sTpc, sPc,
  sSent, sOutcome, sReqs >>
rcvVars == <<
  rCurSeq, rTotPkts, rNRcvPkts, rLost, rPos, rRcvEnabled, rReceiving,
  rResetting, rAbort, rComplete, rPtp, rSockOpen, rBlock, rFlen, rFileOpen, rOnDisk,
  rTpc, rTpkt, rPc, rReq, rAsked >>
links == <<air, toSnd, toRcv>>
netVars == <<sndVars, rcvVars, links>>

S == INSTANCE XFTSender WITH
  ReqPhases <- {"settled"}, ApiCalls <- FALSE, Overlap <- FALSE, AtomicReset <- TRUE,
  curSeq <- sCurSeq, totPkts <- sTotPkts, lost <- sLost, nTotReq <- sNTotReq,
  nReq <- sNReq, eof <- sEof, sndEnd <- sSndEnd, sndEnabled <- sSndEnabled,
  sending <- sSending, resetting <- sResetting, abort <- sAbort,
  sockOpen <- sSockOpen, paused <- sPaused, pauseFree <- sPauseFree,
  tpc <- sTpc, pc <- sPc, sent <- sSent, outcome <- sOutcome, reqs <- sReqs

R == INSTANCE XFTReceiver WITH
  PtPModes <- {FALSE}, Udp <- TRUE, EofPhases <- {"settled"}, Stray <- FALSE, AtomicReset <- TRUE,
  curSeq <- rCurSeq, totPkts <- rTotPkts, nRcvPkts <- rNRcvPkts,
  lost <- rLost, pos <- rPos, rcvEnabled <- rRcvEnabled,
  receiving <- rReceiving, resetting <- rResetting, abort <- rAbort,
  complete <- rComplete, ptp <- rPtp, sockOpen <- rSockOpen, block <- rBlock,
  flen <- rFlen, fileOpen <- rFileOpen, onDisk <- rOnDisk, tpc <- rTpc,
  tpkt <- rTpkt, pc <- rPc, req <- rReq, asked <- rAsked

NetInit == S!Init /\ R!Init /\ air = {} /\ toSnd = <<>> /\ toRcv = 0

Outcomes == IF Errors THEN BOOLEAN ELSE {TRUE}

-----------------------------------------------------------------------------
(* The session: the sender begins, and the receiver with the packet count    *)
(* that the sender's header gives.  m_tFirstPktTime holds the first packet   *)
(* back until the receivers run.                                             *)

SenderBegins ==
  /\ sOutcome = "none" /\ rComplete = FALSE
  /\ \E n \in 1..MaxPkts : S!BeginSend(n, TRUE)
  /\ UNCHANGED <<rcvVars, links>>

RunTX == S!RunTX(TRUE) /\ UNCHANGED <<rcvVars, links>>

ReceiverBegins ==
  /\ sSndEnabled /\ R!BeginReceive(sTotPkts, FALSE, TRUE)
  /\ UNCHANGED <<sndVars, links>>

RunRX == R!RunRX /\ UNCHANGED <<sndVars, links>>

FirstDelay ==
  /\ rReceiving /\ S!FirstDelay
  /\ UNCHANGED <<rcvVars, links>>

-----------------------------------------------------------------------------
(* The sender's thread. *)

SendPkt ==
  /\ S!SendPkt
  /\ air' = air \cup {S!NextSeq}
  /\ UNCHANGED <<rcvVars, toSnd, toRcv>>

SendFails == Errors /\ S!SendFails /\ UNCHANGED <<rcvVars, links>>

(* Mutant: the end is announced only after the first pass. *)
AnnounceEofOnce ==
  /\ S!AnnounceEof
  /\ sTpc = "eof" => air = {}
  /\ toRcv' = IF sTpc = "eof" THEN toRcv + 1 ELSE toRcv
  /\ UNCHANGED <<rcvVars, air, toSnd>>

(* XFTPC_EOF: OnFileTransferSendEof writes to the channel.  The first one    *)
(* comes SNDEOFDELAY after the last packet, when none is under way any more. *)
AnnounceEof ==
  /\ S!AnnounceEof
  /\ sTpc = "eof" => air = {}
  /\ toRcv' = toRcv + 1
  /\ UNCHANGED <<rcvVars, air, toSnd>>

SenderSteps ==
  /\ S!ThreadTop \/ S!SendNothing \/ S!CheckLast \/ S!ArmFirst \/ S!CheckLost
     \/ S!ArmAgain \/ S!TestEnd \/ S!JudgeEnd
  /\ UNCHANGED <<rcvVars, links>>

(* SNDENDWAITDELAY is far longer than a message takes, and than the random   *)
(* wait NotifyEOF makes before it asks.                                      *)
Expire ==
  /\ toSnd = <<>> /\ toRcv = 0 /\ rPc["irm"] = "idle"
  /\ S!Expire
  /\ UNCHANGED <<rcvVars, links>>

(* OnPacketRequest hands a request to the engine. *)
TakeRequest ==
  /\ toSnd # <<>>
  /\ S!PktRequest(Head(toSnd)[1], Head(toSnd)[2])
  /\ toSnd' = Tail(toSnd)
  /\ UNCHANGED <<rcvVars, air, toRcv>>

-----------------------------------------------------------------------------
(* The receiver's thread. *)

Lose(k) ==
  /\ k \in air /\ air' = air \ {k}
  /\ UNCHANGED <<sndVars, rcvVars, toSnd, toRcv>>

Receive(k) ==
  /\ k \in air /\ air' = air \ {k}
  /\ LET m == [seq |-> k, data |-> k]
     IN  \/ R!SaveIgnored(m) /\ rCurSeq >= k /\ R!Search(rLost, k) = 0
         \/ \E ok \in Outcomes : R!SaveLate(m, ok) \/ R!SaveNext(m, ok)
         \/ \E i \in 1..k : (i # k => Errors) /\ R!SaveGap(m, i)
  /\ UNCHANGED <<sndVars, toSnd, toRcv>>

ReceiverSteps ==
  /\ \/ R!ThreadTop \/ R!GapFails \/ R!CompareSeq \/ R!AdvanceSeq \/ R!CheckComplete
     \/ \E ok \in Outcomes : R!SaveAfterGap(ok)
  /\ UNCHANGED <<sndVars, links>>

(* OnChannelPrivateMessage: NotifyEOF, or nothing to do when nothing is      *)
(* missing or the reception's thread has ended.                              *)
TakeEof ==
  /\ toRcv > 0 /\ toRcv' = toRcv - 1
  /\ \/ R!NotifyEOF
     \/ /\ rPc["irm"] = "idle"
        /\ R!Phase = "before" \/ (R!Phase = "settled" /\ rLost = <<>> /\ rCurSeq >= rTotPkts)
        /\ UNCHANGED rcvVars
  /\ UNCHANGED <<sndVars, air, toSnd>>

(* XFTPC_PKTREQ: OnFileTransferReceivePacketRequest asks for the run.        *)
Ask ==
  /\ R!RequestFirst \/ R!RequestNext
  /\ toSnd' = IF rPc'["irm"] = "eofreq" THEN Append(toSnd, <<rReq'.pkti, rReq'.pktf>>)
                                        ELSE toSnd
  /\ UNCHANGED <<sndVars, air, toRcv>>

-----------------------------------------------------------------------------
SessionBegins == SenderBegins \/ RunTX \/ ReceiverBegins \/ RunRX

SenderThread == FirstDelay \/ SendPkt \/ AnnounceEof \/ SenderSteps

ReceiverThread == ReceiverSteps \/ Ask

NetNext ==
  \/ SessionBegins \/ SenderThread \/ SendFails \/ Expire \/ TakeRequest
  \/ ReceiverThread \/ TakeEof
  \/ \E k \in 1..MaxPkts : Lose(k) \/ Receive(k)

NetSpec == NetInit /\ [][NetNext]_netVars

(* The threads run, time passes, messages arrive; packets need not.  A       *)
(* message waits only for a thread to leave the windows its engine's model   *)
(* keeps it out of, which the thread does again and again: strong fairness.  *)
NetFairSpec ==
  /\ NetSpec
  /\ WF_netVars(SessionBegins) /\ WF_netVars(SenderThread) /\ WF_netVars(Expire)
  /\ WF_netVars(ReceiverSteps) /\ WF_netVars(Ask)
  /\ SF_netVars(TakeRequest) /\ SF_netVars(TakeEof)
  /\ \A k \in 1..MaxPkts : WF_netVars(Lose(k) \/ Receive(k))

-----------------------------------------------------------------------------
(* Properties. *)

ReceiverFailed == rTpc = "done" /\ ~rComplete

(* XFTPC_SNDEND does not abandon a receiver: by then it has the whole file,  *)
(* unless its reception or the sending broke down.                           *)
EndMeansDelivered ==
  sOutcome = "end" => R!Saved = 1..sTotPkts \/ ReceiverFailed

(* What the receiver's user is told is the sender's file, and the sender has *)
(* written each of its packets.                                              *)
SuccessIsTheFile ==
  rComplete => R!Saved = 1..sTotPkts /\ sSent = 1..sTotPkts

(* However packets are lost, asking goes on until the file is there: the two *)
(* sides do not both come to rest before.                                    *)
KeepsAsking ==
  <>(rComplete \/ ReceiverFailed \/ sOutcome = "err" \/ sReqs = MaxReqs)
=============================================================================
