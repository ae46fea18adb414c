----------------------------- MODULE XFTSender -----------------------------
(***************************************************************************)
(* The sending half of XFileTransfer: the transfer thread writes each      *)
(* packet once, announces the end of the file, then writes what receivers  *)
(* ask for again until nobody has asked for a while.  The IRM thread       *)
(* starts transmissions, passes on requests and stops; the user interface  *)
(* thread cancels.  A section of code under m_Semaph is one action, as is  *)
(* each access to shared members outside it.                               *)
(***************************************************************************)
EXTENDS Integers, FiniteSets, VectorT

CONSTANTS
  MaxPkts,     \* largest number of packets of a file
  MaxReqs,     \* bound: PktRequest calls per transmission
  ReqPhases,   \* when PktRequest may reach the object, a subset of ReqPhase
  ApiCalls,    \* TRUE: the host uses SetSndSeq, SndPause and SndResume
  Overlap,     \* TRUE: BeginSend and RunTX may run inside the user's Reset
  AtomicReset  \* TRUE: nobody comes between Reset's test of m_bResetting and its set

ReqPhase == {"settled",   \* the thread is not in one of the windows below
             "arming",    \* between its look at the lost vector and m_tSndEnd being set
             "judging"}   \* between its two reads of m_tSndEnd

ASSUME SenderAssumption ==
  /\ MaxPkts \in Nat \ {0} /\ MaxReqs \in Nat
  /\ ReqPhases \subseteq ReqPhase
  /\ ApiCalls \in BOOLEAN /\ Overlap \in BOOLEAN /\ AtomicReset \in BOOLEAN

Pkts == 1..MaxPkts
Controllers == {"irm", "ui"}

VARIABLES
  curSeq, totPkts,                  \* m_uCurSeq, m_uTotPkts
  lost,                             \* m_vPktLost: the packets to send again
  nTotReq, nReq,                    \* m_nSndTotPktReq, m_nSndPktReq
  eof,                              \* m_flEOF
  sndEnd,                           \* m_tSndEnd: zero, a time to come, a time gone by
  sndEnabled, sending, resetting,   \* m_bSendEnabled, m_bSending, m_bResetting
  abort, sockOpen,                  \* m_flAbort; m_pSockSnd can be written
  paused, pauseFree,                \* m_bSndPaused; m_SemaphSndPause is free
  tpc,                              \* transfer thread: where it is
  pc,                               \* controllers
  sent, outcome, reqs               \* packets written; the thread's last events; bound

counters == <<curSeq, totPkts, nTotReq, nReq>>
flags    == <<sndEnabled, sending, resetting, abort, sockOpen>>
pause    == <<paused, pauseFree>>
history  == <<sent, outcome, reqs>>
vars     == <<counters, lost, eof, sndEnd, flags, pause, tpc, pc, history>>

TypeOK ==
  /\ curSeq \in 0..MaxPkts /\ totPkts \in 0..MaxPkts
  /\ nTotReq \in Nat /\ nReq \in Nat
  /\ lost \in Seq(Pkts)
  /\ eof \in BOOLEAN /\ sndEnd \in {"zero", "ahead", "gone"}
  /\ sndEnabled \in BOOLEAN /\ sending \in BOOLEAN /\ resetting \in BOOLEAN
  /\ abort \in BOOLEAN /\ sockOpen \in BOOLEAN
  /\ paused \in BOOLEAN /\ pauseFree \in BOOLEAN
  /\ tpc \in {"none", "delay", "top", "pkt", "sent", "eof", "arm",
              "resent", "eof2", "arm2", "chk", "judge", "done"}
  /\ pc \in [Controllers -> {"idle", "begun", "pausing", "reset", "resume",
                             "join", "wait", "close", "clear"}]
  /\ sent \subseteq Pkts /\ outcome \in {"none", "end", "err", "both"}
  /\ reqs \in 0..MaxReqs

Init ==
  /\ curSeq = 0 /\ totPkts = 0 /\ nTotReq = 0 /\ nReq = 0
  /\ lost = <<>> /\ eof = FALSE /\ sndEnd = "zero"
  /\ sndEnabled = FALSE /\ sending = FALSE /\ resetting = FALSE
  /\ abort = TRUE /\ sockOpen = FALSE
  /\ paused = FALSE /\ pauseFree = TRUE
  /\ tpc = "none" /\ pc = [c \in Controllers |-> "idle"]
  /\ sent = {} /\ outcome = "none" /\ reqs = 0

Goto(c, label) == pc' = [pc EXCEPT ![c] = label]

-----------------------------------------------------------------------------
(* The IRM thread starts a transmission. *)

(* BeginSend() with the network opened; when that fails only the abort flag  *)
(* is left up.                                                               *)
BeginSend(n, netOk) ==
  /\ pc["irm"] = "idle" /\ ~sndEnabled
  /\ Overlap \/ pc["ui"] # "clear"
  /\ abort' = ~netOk
  /\ IF netOk
       THEN /\ totPkts' = n /\ nTotReq' = 0 /\ nReq' = 0
            /\ sndEnd' = "zero" /\ eof' = FALSE /\ lost' = <<>>
            /\ sndEnabled' = TRUE /\ sockOpen' = TRUE
            /\ sent' = {} /\ outcome' = "none" /\ reqs' = 0
            /\ Goto("irm", "begun")
       ELSE UNCHANGED <<totPkts, nTotReq, nReq, sndEnd, eof, lost, sndEnabled,
                        sockOpen, history, pc>>
  /\ UNCHANGED <<curSeq, sending, resetting, pause, tpc>>

(* RunTX() with StartTransferThread(). *)
RunTX(seekOk) ==
  /\ pc["irm"] = "begun"
  /\ Overlap \/ pc["ui"] # "close"   \* ui has passed the test of m_bSending
  /\ Goto("irm", "idle")
  /\ IF sndEnabled /\ ~sending
       THEN /\ curSeq' = 0
            /\ IF seekOk /\ tpc = "none"
                 THEN tpc' = "delay" /\ sending' = TRUE
                 ELSE UNCHANGED <<tpc, sending>>
       ELSE UNCHANGED <<curSeq, tpc, sending>>
  /\ UNCHANGED <<totPkts, nTotReq, nReq, lost, eof, sndEnd, sndEnabled, resetting,
                 abort, sockOpen, pause, history>>

-----------------------------------------------------------------------------
(* The transfer thread. *)

(* The wait for m_tFirstPktTime. *)
FirstDelay ==
  /\ tpc = "delay" /\ tpc' = "top"
  /\ UNCHANGED <<counters, lost, eof, sndEnd, flags, pause, pc, history>>

(* The top of the loop: through the pause semaphore, then the flags.  With   *)
(* m_bSendEnabled down the thread takes itself for a receiver and fails.     *)
ThreadTop ==
  /\ tpc = "top" /\ pauseFree
  /\ tpc' = IF abort \/ ~sending \/ ~sndEnabled THEN "done" ELSE "pkt"
  /\ UNCHANGED <<counters, lost, eof, sndEnd, flags, pause, pc, history>>

(* SendPkt() picks its packet. *)
NextSeq == IF eof THEN (IF lost = <<>> THEN 0 ELSE lost[1]) ELSE curSeq + 1

(* Nothing to send. *)
SendNothing ==
  /\ tpc = "pkt"
  /\ NextSeq = 0 \/ NextSeq > totPkts
  /\ tpc' = "chk"
  /\ UNCHANGED <<counters, lost, eof, sndEnd, flags, pause, pc, history>>

(* Mutant: no test against m_uTotPkts. *)
SendPktUnbounded ==
  /\ tpc = "pkt" /\ sockOpen /\ NextSeq # 0
  /\ lost' = IF eof THEN Remove(lost, 1) ELSE lost
  /\ curSeq' = NextSeq
  /\ nReq' = IF eof THEN nReq + 1 ELSE nReq
  /\ sent' = sent \cup {NextSeq, NextSeq + 1}
  /\ tpc' = IF eof THEN "resent" ELSE "sent"
  /\ UNCHANGED <<totPkts, nTotReq, eof, sndEnd, flags, pause, pc, outcome, reqs>>

(* A packet is read and written, all under the lock. *)
SendPkt ==
  /\ tpc = "pkt" /\ sockOpen
  /\ NextSeq # 0 /\ NextSeq <= totPkts
  /\ lost' = IF eof THEN Remove(lost, 1) ELSE lost
  /\ curSeq' = IF NextSeq - 1 = curSeq THEN curSeq + 1 ELSE curSeq
  /\ nReq' = IF eof THEN nReq + 1 ELSE nReq
  /\ sent' = sent \cup {NextSeq}
  /\ tpc' = IF eof THEN "resent" ELSE "sent"
  /\ UNCHANGED <<totPkts, nTotReq, eof, sndEnd, flags, pause, pc, outcome, reqs>>

(* The file or the socket fails: XFTPC_SNDERR, and the thread leaves after   *)
(* the test of m_tSndEnd; a requested packet has been taken off the vector.  *)
SendFails ==
  /\ tpc = "pkt"
  /\ NextSeq # 0 /\ NextSeq <= totPkts
  /\ lost' = IF eof THEN Remove(lost, 1) ELSE lost
  /\ tpc' = "chk" /\ outcome' = "err"
  /\ UNCHANGED <<counters, eof, sndEnd, flags, pause, pc, sent, reqs>>

(* Mutants: the last packet but one is taken for the last; the flag is not   *)
(* set.                                                                      *)
CheckLastEarly ==
  /\ tpc = "sent"
  /\ IF curSeq + 1 >= totPkts THEN eof' = TRUE /\ tpc' = "eof"
                              ELSE tpc' = "chk" /\ UNCHANGED eof
  /\ UNCHANGED <<counters, lost, sndEnd, flags, pause, pc, history>>

CheckLastForgetsEof ==
  /\ tpc = "sent"
  /\ tpc' = IF curSeq = totPkts THEN "eof" ELSE "chk"
  /\ UNCHANGED <<counters, lost, eof, sndEnd, flags, pause, pc, history>>

(* After the lock: was that the last packet? *)
CheckLast ==
  /\ tpc = "sent"
  /\ IF curSeq = totPkts THEN eof' = TRUE /\ tpc' = "eof"
                         ELSE tpc' = "chk" /\ UNCHANGED eof
  /\ UNCHANGED <<counters, lost, sndEnd, flags, pause, pc, history>>

(* XFTPC_EOF, after SNDEOFDELAY in the first pass and at once later. *)
AnnounceEof ==
  /\ tpc \in {"eof", "eof2"}
  /\ tpc' = IF tpc = "eof" THEN "arm" ELSE "arm2"
  /\ UNCHANGED <<counters, lost, eof, sndEnd, flags, pause, pc, history>>

(* Mutant: the vector is not looked at. *)
ArmAlways ==
  /\ tpc = "arm"
  /\ sndEnd' = IF ~abort THEN "ahead" ELSE sndEnd
  /\ tpc' = "chk"
  /\ UNCHANGED <<counters, lost, eof, flags, pause, pc, history>>

(* SendPkt (2): with nothing to send again the end is set, under the lock. *)
ArmFirst ==
  /\ tpc = "arm"
  /\ sndEnd' = IF ~abort /\ lost = <<>> THEN "ahead" ELSE sndEnd
  /\ tpc' = "chk"
  /\ UNCHANGED <<counters, lost, eof, flags, pause, pc, history>>

(* SendPkt (3): was that the last of the requests? *)
CheckLost ==
  /\ tpc = "resent"
  /\ tpc' = IF ~abort /\ lost = <<>> THEN "eof2" ELSE "chk"
  /\ UNCHANGED <<counters, lost, eof, sndEnd, flags, pause, pc, history>>

(* Mutant: the end is not set again after the requests are served. *)
NoArmAgain ==
  /\ tpc = "arm2" /\ tpc' = "chk"
  /\ UNCHANGED <<counters, lost, eof, sndEnd, flags, pause, pc, history>>

(* m_tSndEnd is set without the lock, after the event. *)
ArmAgain ==
  /\ tpc = "arm2"
  /\ sndEnd' = "ahead" /\ tpc' = "chk"
  /\ UNCHANGED <<counters, lost, eof, flags, pause, pc, history>>

(* Where the loop goes on: flExit is up after an error. *)
Loop == IF outcome = "none" THEN "top" ELSE "done"

(* "if ( m_tSndEnd && GetTickCount()>m_tSndEnd )": two reads, no lock. *)
TestEnd ==
  /\ tpc = "chk"
  /\ tpc' = IF sndEnd = "zero" THEN Loop ELSE "judge"
  /\ UNCHANGED <<counters, lost, eof, sndEnd, flags, pause, pc, history>>

JudgeEnd ==
  /\ tpc = "judge"
  /\ IF sndEnd = "ahead"
       THEN tpc' = Loop /\ UNCHANGED outcome
       ELSE tpc' = "done" /\ outcome' = IF outcome = "none" THEN "end" ELSE "both"   \* XFTPC_SNDEND
  /\ UNCHANGED <<counters, lost, eof, sndEnd, flags, pause, pc, sent, reqs>>

(* SNDENDWAITDELAY goes by. *)
Expire ==
  /\ sndEnd = "ahead" /\ sndEnd' = "gone"
  /\ UNCHANGED <<counters, lost, eof, flags, pause, tpc, pc, history>>

-----------------------------------------------------------------------------
(* PktRequest() on the IRM thread. *)

Phase == IF tpc \in {"eof2", "arm2"} THEN "arming"
         ELSE IF tpc = "judge" THEN "judging" ELSE "settled"

(* "if ( !search(i) && insert(i) )" for each i in order: the numbers of M    *)
(* are appended in ascending order.                                          *)
InsertSet(v, M) ==
  [j \in 1..(Len(v) + Cardinality(M)) |->
     IF j <= Len(v) THEN v[j]
     ELSE CHOOSE x \in M : Cardinality({y \in M : y < x}) = j - Len(v) - 1]

(* The interval asked for, put right: the end is cut at m_uTotPkts, and an   *)
(* end of zero or before the start means the start alone.                    *)
Wanted(a, b) ==
  LET cut == IF b > totPkts THEN totPkts ELSE b
  IN  a..(IF cut = 0 \/ cut < a THEN a ELSE cut)

Request == pc["irm"] = "idle" /\ Phase \in ReqPhases /\ reqs < MaxReqs

(* Mutants: no search; each request counted; m_tSndEnd kept. *)
PktRequestNoSearch(a, b) ==
  /\ Request /\ sending /\ ~abort /\ a # 0 /\ a <= totPkts
  /\ lost' = InsertSet(lost, Wanted(a, b))
  /\ nTotReq' = nTotReq + Cardinality(Wanted(a, b))
  /\ sndEnd' = IF lost' # <<>> THEN "zero" ELSE sndEnd
  /\ reqs' = reqs + 1
  /\ UNCHANGED <<curSeq, totPkts, nReq, eof, flags, pause, tpc, pc, sent, outcome>>

PktRequestCountsAll(a, b) ==
  /\ Request /\ sending /\ ~abort /\ a # 0 /\ a <= totPkts
  /\ lost' = InsertSet(lost, Wanted(a, b) \ Items(lost))
  /\ nTotReq' = nTotReq + Cardinality(Wanted(a, b))
  /\ sndEnd' = IF lost' # <<>> THEN "zero" ELSE sndEnd
  /\ reqs' = reqs + 1
  /\ UNCHANGED <<curSeq, totPkts, nReq, eof, flags, pause, tpc, pc, sent, outcome>>

PktRequestKeepsEnd(a, b) ==
  /\ Request /\ sending /\ ~abort /\ a # 0 /\ a <= totPkts
  /\ lost' = InsertSet(lost, Wanted(a, b) \ Items(lost))
  /\ nTotReq' = nTotReq + Cardinality(Wanted(a, b) \ Items(lost))
  /\ reqs' = reqs + 1
  /\ UNCHANGED <<curSeq, totPkts, nReq, eof, sndEnd, flags, pause, tpc, pc, sent, outcome>>

PktRequest(a, b) ==
  /\ Request /\ sending /\ ~abort /\ a # 0 /\ a <= totPkts
  /\ LET M == Wanted(a, b) \ Items(lost)
     IN  /\ lost' = InsertSet(lost, M)
         /\ nTotReq' = nTotReq + Cardinality(M)
  /\ sndEnd' = IF lost' # <<>> THEN "zero" ELSE sndEnd
  /\ reqs' = reqs + 1
  /\ UNCHANGED <<curSeq, totPkts, nReq, eof, flags, pause, tpc, pc, sent, outcome>>

-----------------------------------------------------------------------------
(* Calls the library offers its host. *)

SetSndSeq(s) ==
  /\ ApiCalls /\ pc["ui"] = "idle"
  /\ sending /\ ~abort /\ s # 0 /\ s <= totPkts
  /\ curSeq' = s - 1
  /\ UNCHANGED <<totPkts, nTotReq, nReq, lost, eof, sndEnd, flags, pause, tpc, pc, history>>

(* SndPause(): the flag, then the semaphore. *)
SndPause ==
  /\ ApiCalls /\ pc["ui"] = "idle" /\ ~paused /\ sending
  /\ paused' = TRUE /\ Goto("ui", "pausing")
  /\ UNCHANGED <<counters, lost, eof, sndEnd, flags, pauseFree, tpc, history>>

SndPauseWait ==
  /\ pc["ui"] = "pausing" /\ pauseFree
  /\ pauseFree' = FALSE /\ Goto("ui", "idle")
  /\ UNCHANGED <<counters, lost, eof, sndEnd, flags, paused, tpc, history>>

SndResume ==
  /\ ApiCalls /\ pc["ui"] = "idle" /\ paused
  /\ pauseFree' = TRUE /\ paused' = FALSE
  /\ UNCHANGED <<counters, lost, eof, sndEnd, flags, tpc, pc, history>>

-----------------------------------------------------------------------------
(* Reset() by either controller. *)

(* The test of m_bResetting. *)
ResetTest(c) ==
  /\ pc[c] = "idle" /\ ~resetting
  /\ AtomicReset => \A d \in Controllers : pc[d] # "reset"
  /\ Goto(c, "reset")
  /\ UNCHANGED <<counters, lost, eof, sndEnd, flags, pause, tpc, history>>

(* The flag, then ResetSnd() and StopTX() up to the closed socket. *)
ResetSnd(c) ==
  /\ pc[c] = "reset"
  /\ IF ~sndEnabled
       THEN /\ resetting' = FALSE /\ Goto(c, "idle")
            /\ UNCHANGED <<sending, sockOpen>>
       ELSE /\ resetting' = TRUE
            /\ IF sending
                 THEN sending' = FALSE /\ sockOpen' = FALSE /\ Goto(c, "resume")
                 ELSE Goto(c, "close") /\ UNCHANGED <<sending, sockOpen>>
  /\ UNCHANGED <<counters, lost, eof, sndEnd, sndEnabled, abort, pause, tpc, history>>

(* StopTX(): a pause is lifted. *)
StopResume(c) ==
  /\ pc[c] = "resume"
  /\ pauseFree' = (pauseFree \/ paused) /\ paused' = FALSE
  /\ Goto(c, "join")
  /\ UNCHANGED <<counters, lost, eof, sndEnd, flags, tpc, history>>

(* EndTransferThread(). *)
EndTransferThread(c) ==
  /\ pc[c] = "join"
  /\ IF tpc = "none" THEN Goto(c, "close") /\ UNCHANGED abort
                     ELSE Goto(c, "wait") /\ abort' = TRUE
  /\ UNCHANGED <<counters, lost, eof, sndEnd, sndEnabled, sending, resetting, sockOpen,
                 pause, tpc, history>>

WaitForMe(c) ==
  /\ pc[c] = "wait" /\ tpc \in {"none", "done"}
  /\ tpc' = "none" /\ Goto(c, "close")
  /\ UNCHANGED <<counters, lost, eof, sndEnd, flags, pause, history>>

(* Mutant: m_bSendEnabled stays up. *)
CloseFileKeepsEnabled(c) ==
  /\ pc[c] = "close" /\ Goto(c, "clear")
  /\ UNCHANGED <<counters, lost, eof, sndEnd, flags, pause, tpc, history>>

(* The file is closed and m_bSendEnabled cleared, not yet under the lock. *)
CloseFile(c) ==
  /\ pc[c] = "close"
  /\ sndEnabled' = FALSE /\ Goto(c, "clear")
  /\ UNCHANGED <<counters, lost, eof, sndEnd, sending, resetting, abort, sockOpen,
                 pause, tpc, history>>

(* Under the lock: the socket is deleted, the vector reset. *)
ResetClear(c) ==
  /\ pc[c] = "clear"
  /\ sockOpen' = FALSE /\ lost' = <<>>
  /\ resetting' = FALSE /\ Goto(c, "idle")
  /\ UNCHANGED <<counters, eof, sndEnd, sndEnabled, sending, abort, pause, tpc, history>>

-----------------------------------------------------------------------------
Thread == FirstDelay \/ ThreadTop \/ SendNothing \/ SendPkt \/ CheckLast \/ AnnounceEof
          \/ ArmFirst \/ CheckLost \/ ArmAgain \/ TestEnd \/ JudgeEnd

Start == \/ \E n \in Pkts, netOk \in BOOLEAN : BeginSend(n, netOk)
         \/ \E seekOk \in BOOLEAN : RunTX(seekOk)

Api == SndPause \/ SndPauseWait \/ SndResume \/ \E s \in Pkts : SetSndSeq(s)

Stop(c) == ResetTest(c) \/ ResetSnd(c) \/ StopResume(c) \/ EndTransferThread(c)
           \/ WaitForMe(c) \/ CloseFile(c) \/ ResetClear(c)

Next == \/ Thread \/ SendFails \/ Expire \/ Start \/ Api
        \/ \E a, b \in 0..(MaxPkts + 1) : PktRequest(a, b)
        \/ \E c \in Controllers : Stop(c)

Spec == Init /\ [][Next]_vars

(* The thread runs and time passes; errors, requests and resets come when    *)
(* they come, a bounded number of requests.                                  *)
Fairness == WF_vars(Thread) /\ WF_vars(Expire)
            /\ WF_vars(tpc = "pkt" /\ ~sockOpen /\ SendFails)

FairSpec == Spec /\ Fairness

-----------------------------------------------------------------------------
(* Properties. *)

(* The end of the file is announced, and requests are served, only once each *)
(* packet has been written.                                                  *)
EofAfterAll == (sndEnabled /\ eof) => sent = 1..totPkts

(* What XFTPC_SNDP2STATS reports adds up: the packets asked for are the ones *)
(* sent again and the ones still on the vector.                              *)
Accounted ==
  (sending /\ outcome \in {"none", "end"}) => nTotReq = nReq + Len(lost)

(* A packet that several receivers ask for is on the vector once. *)
LostOnce == Distinct(lost)

(* The clock that ends the transmission only runs while nothing is waiting   *)
(* to be sent again.                                                         *)
ClockMeansIdle == (sending /\ sndEnd # "zero") => lost = <<>>

(* XFTPC_SNDEND comes only when nothing is left to be sent and the time for  *)
(* requests is over.                                                         *)
EndWhenServed ==
  [][(outcome \in {"none", "err"} /\ outcome' \in {"end", "both"}) => lost = <<>>]_vars

(* The host comes to rest: it seeks no more and does not leave the thread    *)
(* paused.                                                                   *)
HostRests == <>[][~Api]_vars /\ <>[]pauseFree

(* Each packet asked for is sent again, unless the thread fails or is        *)
(* stopped, and however often the host has sought, paused and resumed.       *)
RequestServed ==
  HostRests => \A i \in Pkts :
    (i \in Items(lost) /\ outcome = "none" /\ sending)
      ~> (i \notin Items(lost) \/ outcome \in {"err", "both"} \/ ~sending)

(* When no more requests come and the host rests, the thread comes to its    *)
(* end.                                                                      *)
SendEnds == HostRests => (tpc = "delay" ~> tpc \in {"none", "done"})

(* The thread works for a transmission. *)
NoThreadLeftBehind == tpc \notin {"none", "done"} => sndEnabled

(* Between BeginSend and the next Reset there is a socket to write to. *)
EnabledHasSocket ==
  (sndEnabled /\ \A c \in Controllers : pc[c] \in {"idle", "begun", "pausing"}) => sockOpen

(* m_bSndPaused tells whether m_SemaphSndPause is blocked. *)
PausedMeansBlocked == pc["ui"] # "pausing" => (paused <=> ~pauseFree)
=============================================================================
