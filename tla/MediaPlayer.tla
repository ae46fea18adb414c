----------------------------- MODULE MediaPlayer -----------------------------
(***************************************************************************)
(* The threads that play one received transmission (CTransmission, CVideo, *)
(* CAudio, IMediaStreaming).  A read thread takes packets out of the       *)
(* jitter buffer and queues them by medium; for each medium a play thread  *)
(* decodes and a write thread shows what is decoded; a buffering thread    *)
(* holds the write threads back when everything has run dry.  They wait    *)
(* for each other on semaphores of one unit, and are woken by a pulse:     *)
(* the unit is given and taken back.  The jitter buffer is external.       *)
(*                                                                         *)
(* A flag a thread lowers when it comes out of a wait goes down with that  *)
(* step, and the flag that keeps a loop going is read with the last step   *)
(* of its body.                                                            *)
(***************************************************************************)
EXTENDS Integers, FiniteSets

CONSTANTS
  Streams,    \* what a transmission may carry: sets of media
  MaxInput,   \* MAX_INPUT_PKT_QUEUE
  MaxFrames,  \* bound: this many decoded frames stand for more, too
  Cases       \* which of the cases below are let in

Media == {"video", "audio"}

Case == {"burst",  \* the queue fills up while the play thread is about to wait
         "pulse",  \* a pulse may be over before the thread it woke has the unit
         "fails",  \* the play thread cannot be created
         "empty"}  \* the transmission may end before its first packet

ASSUME PlayerAssumption ==
  /\ Streams # {} /\ \A s \in Streams : s # {} /\ s \subseteq Media
  /\ MaxInput \in Nat \ {0} /\ MaxFrames \in Nat \ {0} /\ Cases \subseteq Case

VARIABLES
  sent,      \* the media whose packets come
  mediaSet,  \* m_bMediaSet: m_pVideo and m_pAudio are there
  run,       \* m_bRunReadPktThread
  stop,      \* FinishPktProcessing: where it is
  rpc,       \* read thread: where it is
  medium,    \* the medium it is about
  bpc,       \* buffering thread: where it is
  runB,      \* m_bRunBufferThread
  bufferFree,\* m_BufferSemaph can be taken
  initFree,  \* m_InitRebufferSemaph can be taken
  buffering, \* m_bBuffering
  ppc,       \* play threads: where they are
  playing,   \* m_bMediaPlaying
  playFree,  \* m_PlaySemaph can be taken
  wpc,       \* write threads: where they are
  runW,      \* m_bRunWriteVideoThread, m_bRunProcessAudioThread
  writeFree, \* m_WriteSemaph, m_ProcessAudioSemaph can be taken
  packets,   \* CInputPkt: packets queued
  frames,    \* COutputBuffer: frames queued
  late       \* history: frames shown since the buffering began

reader == <<sent, mediaSet, run, rpc, medium>>
buffer == <<bpc, runB, bufferFree, initFree, buffering>>
player == <<ppc, playing, playFree>>
output == <<wpc, runW, writeFree, late>>
vars   == <<reader, stop, buffer, player, output, packets, frames>>

(* Every member has its type. *)
TypeOK ==
  /\ sent \subseteq Media /\ mediaSet \in BOOLEAN /\ run \in BOOLEAN /\ runB \in BOOLEAN
  /\ bufferFree \in BOOLEAN /\ initFree \in BOOLEAN /\ buffering \in BOOLEAN
  /\ stop \in {"no", "join", "done"} /\ medium \in Media
  /\ rpc \in {"none", "start", "top", "rebuffer", "get", "room", "after", "wake",
              "stop", "join", "stopBuffer", "joinBuffer", "wild", "done"}
  /\ bpc \in {"none", "asleep", "check", "init", "slices", "done"}
  /\ ppc \in [Media -> {"none", "start", "loop", "resume", "retake", "wait",
                        "announced", "asleep", "leave", "signal", "lower",
                        "join", "done"}]
  /\ wpc \in [Media -> {"none", "loop", "write", "ends", "announced", "asleep",
                        "held", "done"}]
  /\ playing \in [Media -> BOOLEAN] /\ playFree \in [Media -> BOOLEAN]
  /\ runW \in [Media -> BOOLEAN] /\ writeFree \in [Media -> BOOLEAN]
  /\ packets \in [Media -> 0..MaxInput] /\ frames \in [Media -> 0..MaxFrames]
  /\ late \in [Media -> 0..2]

Init ==
  /\ sent \in Streams
  /\ mediaSet = FALSE /\ run = FALSE /\ stop = "no" /\ rpc = "none" /\ medium = "video"
  /\ bpc = "none" /\ runB = FALSE /\ bufferFree = TRUE /\ initFree = TRUE
  /\ buffering = FALSE
  /\ ppc = [m \in Media |-> "none"] /\ wpc = [m \in Media |-> "none"]
  /\ playing = [m \in Media |-> FALSE] /\ playFree = [m \in Media |-> TRUE]
  /\ runW = [m \in Media |-> FALSE] /\ writeFree = [m \in Media |-> TRUE]
  /\ packets = [m \in Media |-> 0] /\ frames = [m \in Media |-> 0]
  /\ late = [m \in Media |-> 0]

-----------------------------------------------------------------------------
(* A thread that waits to be woken: it takes the unit and gives it back.     *)
(* WaitingData(), WritePaused() and ProcessAudioPaused() say so from the     *)
(* moment it has announced itself.                                           *)
Waits(pc)   == pc \in {"announced", "asleep"}

(* The end of a pulse, after which the unit is gone again.  A thread already *)
(* asleep on it comes first.                                                 *)
PulseOver(free, pc) == free /\ ("pulse" \in Cases \/ pc # "asleep")

-----------------------------------------------------------------------------
(* The thread that owns the transmission. *)

(* CBufferId::StartPktProcessing(). *)
StartPktProcessing ==
  /\ rpc = "none" /\ stop = "no"
  /\ run' = TRUE /\ rpc' = "start"
  /\ UNCHANGED <<sent, mediaSet, medium, stop, buffer, player, output, packets, frames>>

(* CTransmission::SetPacket() with the first packet: InitMedia(). *)
InitMedia ==
  /\ rpc # "none" /\ ~mediaSet /\ stop = "no"
  /\ mediaSet' = TRUE
  /\ UNCHANGED <<sent, run, rpc, medium, stop, buffer, player, output, packets, frames>>

(* CBufferId::FinishPktProcessing(): it stops the jitter buffer and waits    *)
(* for the read thread.                                                      *)
FinishPktProcessing ==
  /\ rpc # "none" /\ stop = "no"
  /\ mediaSet \/ "empty" \in Cases
  /\ run' = FALSE /\ stop' = "join"
  /\ UNCHANGED <<sent, mediaSet, rpc, medium, buffer, player, output, packets, frames>>

WaitForMe ==
  /\ stop = "join" /\ rpc = "done" /\ stop' = "done"
  /\ UNCHANGED <<reader, buffer, player, output, packets, frames>>

-----------------------------------------------------------------------------
(* The read thread, _ReadPkt. *)

StartBufferThread ==
  /\ rpc = "start" /\ bufferFree
  /\ bufferFree' = FALSE /\ runB' = TRUE /\ bpc' = "asleep" /\ rpc' = "top"
  /\ UNCHANGED <<sent, mediaSet, run, medium, stop, initFree, buffering, player, output,
                 packets, frames>>

(* NeedBuffering(), but for the time since the last buffering and the        *)
(* packets left in the jitter buffer: any of both is possible.               *)
NeedBuffering ==
  /\ mediaSet /\ ~buffering
  /\ \E m \in Media : playing[m]
  /\ \A m \in Media : playing[m] => packets[m] = 0 /\ frames[m] = 0

(* NotifyRebuffer(): a pulse of m_BufferSemaph. *)
NotifyRebuffer ==
  /\ rpc = "top" /\ NeedBuffering
  /\ bufferFree' = TRUE /\ rpc' = "rebuffer"
  /\ UNCHANGED <<sent, mediaSet, run, medium, stop, bpc, runB, initFree, buffering,
                 player, output, packets, frames>>

RetakeBuffer ==
  /\ rpc = "rebuffer" /\ PulseOver(bufferFree, bpc)
  /\ bufferFree' = FALSE /\ rpc' = "get"
  /\ UNCHANGED <<sent, mediaSet, run, medium, stop, bpc, runB, initFree, buffering,
                 player, output, packets, frames>>

GoOn ==
  /\ rpc = "top" /\ rpc' = "get"
  /\ UNCHANGED <<sent, mediaSet, run, medium, stop, buffer, player, output, packets, frames>>

(* The jitter buffer has a packet, or has none in time or was stopped. *)
GetPacket(m) ==
  /\ rpc = "get" /\ mediaSet /\ stop = "no" /\ m \in sent
  /\ medium' = m /\ rpc' = "room"
  /\ UNCHANGED <<sent, mediaSet, run, stop, buffer, player, output, packets, frames>>

AfterBody == IF run THEN "top" ELSE "stop"

GetNoPacket ==
  /\ rpc = "get"
  /\ rpc' = AfterBody /\ medium' = IF run THEN medium ELSE "video"
  /\ UNCHANGED <<sent, mediaSet, run, stop, buffer, player, output, packets, frames>>

(* It waits until the queue has room, whether stopped or not. *)
SetPacket ==
  /\ rpc = "room" /\ packets[medium] < MaxInput
  /\ "burst" \in Cases \/ ppc[medium] \notin {"wait", "announced"}
       \/ packets[medium] + 1 < MaxInput
  /\ packets' = [packets EXCEPT ![medium] = @ + 1]
  /\ rpc' = "after"
  /\ UNCHANGED <<sent, mediaSet, run, medium, stop, buffer, player, output, frames>>

(* IMediaStreaming::Play(). *)
Play(ok) ==
  /\ rpc = "after" /\ ~playing[medium] /\ playFree[medium]
  /\ ok \/ "fails" \in Cases
  /\ playFree' = [playFree EXCEPT ![medium] = FALSE]
  /\ playing' = [playing EXCEPT ![medium] = TRUE]
  /\ ppc' = IF ok THEN [ppc EXCEPT ![medium] = "start"] ELSE ppc
  /\ rpc' = AfterBody /\ medium' = IF run THEN medium ELSE "video"
  /\ UNCHANGED <<sent, mediaSet, run, stop, buffer, output, packets, frames>>

(* StopWaitingData(): a pulse of m_PlaySemaph for a play thread that waits. *)
StopWaitingData ==
  /\ rpc = "after" /\ playing[medium]
  /\ IF Waits(ppc[medium]) /\ packets[medium] > 0
       THEN /\ playFree' = [playFree EXCEPT ![medium] = TRUE]
            /\ rpc' = "wake" /\ UNCHANGED medium
       ELSE /\ rpc' = AfterBody /\ medium' = IF run THEN medium ELSE "video"
            /\ UNCHANGED playFree
  /\ UNCHANGED <<sent, mediaSet, run, stop, buffer, ppc, playing, output, packets, frames>>

RetakePlay ==
  /\ rpc = "wake" /\ PulseOver(playFree[medium], ppc[medium])
  /\ playFree' = [playFree EXCEPT ![medium] = FALSE]
  /\ rpc' = AfterBody /\ medium' = IF run THEN medium ELSE "video"
  /\ UNCHANGED <<sent, mediaSet, run, stop, buffer, ppc, playing, output, packets, frames>>

(* Out of the loop: the video is stopped, then the audio, then the buffering *)
(* thread.                                                                   *)
NextStop ==
  /\ rpc' = IF medium = "video" THEN "stop" ELSE "stopBuffer"
  /\ medium' = "audio"

(* Mutant: the play thread is not woken to be stopped. *)
StopAsleep ==
  /\ rpc = "stop"
  /\ IF ~mediaSet THEN rpc' = "wild" /\ UNCHANGED <<medium, playing, playFree>>
     ELSE IF playing[medium] /\ ppc[medium] # "none"
       THEN /\ playing' = [playing EXCEPT ![medium] = FALSE]
            /\ rpc' = "join" /\ UNCHANGED <<medium, playFree>>
       ELSE NextStop /\ UNCHANGED <<playing, playFree>>
  /\ UNCHANGED <<sent, mediaSet, run, stop, buffer, ppc, output, packets, frames>>

(* IMediaStreaming::Stop(), which does nothing without a thread.  Before the *)
(* first packet m_pVideo and m_pAudio hold what memory held.                 *)
Stop ==
  /\ rpc = "stop"
  /\ IF ~mediaSet THEN rpc' = "wild" /\ UNCHANGED <<medium, playing, playFree>>
     ELSE IF playing[medium] /\ ppc[medium] # "none"
       THEN /\ playing' = [playing EXCEPT ![medium] = FALSE]
            /\ playFree' = [playFree EXCEPT ![medium] = TRUE]
            /\ rpc' = "join" /\ UNCHANGED medium
       ELSE NextStop /\ UNCHANGED <<playing, playFree>>
  /\ UNCHANGED <<sent, mediaSet, run, stop, buffer, ppc, output, packets, frames>>

JoinPlay ==
  /\ rpc = "join" /\ ppc[medium] = "done"
  /\ NextStop
  /\ UNCHANGED <<sent, mediaSet, run, stop, buffer, player, output, packets, frames>>

(* StopBufferThread(). *)
SignalBuffer ==
  /\ rpc = "stopBuffer"
  /\ bufferFree' = TRUE /\ runB' = FALSE /\ rpc' = "joinBuffer"
  /\ UNCHANGED <<sent, mediaSet, run, medium, stop, bpc, initFree, buffering, player,
                 output, packets, frames>>

JoinBuffer ==
  /\ rpc = "joinBuffer" /\ bpc = "done"
  /\ rpc' = "done"
  /\ UNCHANGED <<sent, mediaSet, run, medium, stop, buffer, player, output, packets, frames>>

-----------------------------------------------------------------------------
(* The buffering thread, _BufferPkt. *)

(* WaitRebufferNotify(). *)
WaitRebufferNotify ==
  /\ bpc = "asleep" /\ bufferFree
  /\ bpc' = "check"
  /\ UNCHANGED <<reader, stop, runB, bufferFree, initFree, buffering, player, output,
                 packets, frames>>

CheckPlaying ==
  /\ bpc = "check"
  /\ bpc' = IF \E m \in Media : playing[m] THEN "init"
            ELSE IF runB THEN "asleep" ELSE "done"
  /\ UNCHANGED <<reader, stop, runB, bufferFree, initFree, buffering, player, output,
                 packets, frames>>

BeginBuffering ==
  /\ bpc = "init" /\ initFree
  /\ initFree' = FALSE /\ buffering' = TRUE /\ bpc' = "slices"
  /\ late' = [m \in Media |-> 0]
  /\ UNCHANGED <<reader, stop, runB, bufferFree, player, wpc, runW, writeFree, packets,
                 frames>>

(* The slices come to an end by themselves, or with the run flag. *)
EndBuffering ==
  /\ bpc = "slices"
  /\ buffering' = FALSE /\ initFree' = TRUE
  /\ bpc' = IF runB THEN "asleep" ELSE "done"
  /\ UNCHANGED <<reader, stop, runB, bufferFree, player, output, packets, frames>>

-----------------------------------------------------------------------------
(* The play thread of medium m, _PlayVideo and _PlayAudio. *)

PlayUnchanged == UNCHANGED <<reader, stop, buffer>>

(* InitWriteThread(), InitProcessAudioThread(). *)
InitWriteThread(m) ==
  /\ ppc[m] = "start" /\ writeFree[m]
  /\ writeFree' = [writeFree EXCEPT ![m] = FALSE]
  /\ runW' = [runW EXCEPT ![m] = TRUE]
  /\ wpc' = [wpc EXCEPT ![m] = "loop"] /\ ppc' = [ppc EXCEPT ![m] = "loop"]
  /\ PlayUnchanged /\ UNCHANGED <<playing, playFree, late, packets, frames>>

AfterPlay(m) == IF playing[m] THEN "loop" ELSE "leave"

(* PrepareFrame(): a packet that cannot be decoded is lost. *)
PrepareFrame(m, ok) ==
  /\ ppc[m] = "loop" /\ packets[m] > 0
  /\ packets' = [packets EXCEPT ![m] = @ - 1]
  /\ frames' = [frames EXCEPT ![m] = IF ok /\ @ < MaxFrames THEN @ + 1 ELSE @]
  /\ ppc' = [ppc EXCEPT ![m] = "resume"]
  /\ PlayUnchanged /\ UNCHANGED <<playing, playFree, output>>

(* Mutant: the write thread is not woken. *)
ResumeNot(m) ==
  /\ ppc[m] = "resume"
  /\ ppc' = [ppc EXCEPT ![m] = AfterPlay(m)] /\ UNCHANGED writeFree
  /\ PlayUnchanged /\ UNCHANGED <<playing, playFree, wpc, runW, late, packets, frames>>

(* ResumeWrite(), ResumeAudioProcessing(): a pulse for a write thread that   *)
(* is paused.                                                                *)
ResumeWrite(m) ==
  /\ ppc[m] = "resume"
  /\ IF Waits(wpc[m]) /\ frames[m] > 0
       THEN /\ writeFree' = [writeFree EXCEPT ![m] = TRUE]
            /\ ppc' = [ppc EXCEPT ![m] = "retake"]
       ELSE ppc' = [ppc EXCEPT ![m] = AfterPlay(m)] /\ UNCHANGED writeFree
  /\ PlayUnchanged /\ UNCHANGED <<playing, playFree, wpc, runW, late, packets, frames>>

RetakeWrite(m) ==
  /\ ppc[m] = "retake" /\ PulseOver(writeFree[m], wpc[m])
  /\ writeFree' = [writeFree EXCEPT ![m] = FALSE]
  /\ ppc' = [ppc EXCEPT ![m] = AfterPlay(m)]
  /\ PlayUnchanged /\ UNCHANGED <<playing, playFree, wpc, runW, late, packets, frames>>

(* WaitData(): with no packet left it announces itself and waits. *)
NoPacket(m) ==
  /\ ppc[m] = "loop" /\ packets[m] = 0
  /\ ppc' = [ppc EXCEPT ![m] = "wait"]
  /\ PlayUnchanged /\ UNCHANGED <<playing, playFree, output, packets, frames>>

Announce(m) ==
  /\ ppc[m] = "wait"
  /\ ppc' = [ppc EXCEPT ![m] = IF playing[m] THEN "announced" ELSE "leave"]
  /\ PlayUnchanged /\ UNCHANGED <<playing, playFree, output, packets, frames>>

FallAsleep(m) ==
  /\ ppc[m] = "announced"
  /\ ppc' = [ppc EXCEPT ![m] = "asleep"]
  /\ PlayUnchanged /\ UNCHANGED <<playing, playFree, output, packets, frames>>

WakeUp(m) ==
  /\ ppc[m] = "asleep" /\ playFree[m]
  /\ ppc' = [ppc EXCEPT ![m] = AfterPlay(m)]
  /\ PlayUnchanged /\ UNCHANGED <<playing, playFree, output, packets, frames>>

(* StopWriteThread() gives the unit and then lowers the flag;                *)
(* StopProcessAudioThread() the other way around.                            *)
SignalWrite(m) ==
  /\ ppc[m] = IF m = "video" THEN "leave" ELSE "signal"
  /\ writeFree' = [writeFree EXCEPT ![m] = TRUE]
  /\ ppc' = [ppc EXCEPT ![m] = IF m = "video" THEN "lower" ELSE "join"]
  /\ PlayUnchanged /\ UNCHANGED <<playing, playFree, wpc, runW, late, packets, frames>>

LowerWrite(m) ==
  /\ ppc[m] = IF m = "video" THEN "lower" ELSE "leave"
  /\ runW' = [runW EXCEPT ![m] = FALSE]
  /\ ppc' = [ppc EXCEPT ![m] = IF m = "video" THEN "join" ELSE "signal"]
  /\ PlayUnchanged
  /\ UNCHANGED <<playing, playFree, wpc, writeFree, late, packets, frames>>

(* Mutant: the play thread ends without waiting for the write thread. *)
LeaveWrite(m) ==
  /\ ppc[m] = "join"
  /\ ppc' = [ppc EXCEPT ![m] = "done"]
  /\ PlayUnchanged /\ UNCHANGED <<playing, playFree, output, packets, frames>>

JoinWrite(m) ==
  /\ ppc[m] = "join" /\ wpc[m] = "done"
  /\ ppc' = [ppc EXCEPT ![m] = "done"]
  /\ PlayUnchanged /\ UNCHANGED <<playing, playFree, output, packets, frames>>

-----------------------------------------------------------------------------
(* The write thread of medium m, _WriteVideo and _ProcessAudio. *)

WriteUnchanged == UNCHANGED <<reader, stop, buffer, player, runW, writeFree, packets>>

AfterWrite(m) == IF runW[m] THEN "loop" ELSE "done"

(* Mutant: a frame that is ready goes before buffering. *)
LookForFrames(m) ==
  /\ wpc[m] = "loop"
  /\ wpc' = [wpc EXCEPT ![m] = IF frames[m] > 0 THEN "write"
                               ELSE IF buffering THEN "held"
                               ELSE IF m = "video" THEN "announced" ELSE "ends"]
  /\ WriteUnchanged /\ UNCHANGED <<late, frames>>

(* A frame to show, or none; buffering goes before both. *)
Look(m) ==
  /\ wpc[m] = "loop"
  /\ wpc' = [wpc EXCEPT ![m] = IF buffering THEN "held"
                               ELSE IF frames[m] > 0 THEN "write"
                               ELSE IF m = "video" THEN "announced" ELSE "ends"]
  /\ WriteUnchanged /\ UNCHANGED <<late, frames>>

(* SyncStreaming(), SampleBufferFull() and WriteFrame(), which take their    *)
(* time.  As many frames as the bound may be one more.                       *)
WriteFrame(m) ==
  /\ wpc[m] = "write"
  /\ \E n \in {frames[m] - 1} \union ({MaxFrames} \intersect {frames[m]}) :
       frames' = [frames EXCEPT ![m] = n]
  /\ late' = [late EXCEPT ![m] = IF buffering /\ @ < 2 THEN @ + 1 ELSE @]
  /\ wpc' = [wpc EXCEPT ![m] = AfterWrite(m)]
  /\ WriteUnchanged

(* PauseIfBufferEnds(): the audio looks once more before it pauses. *)
PauseIfBufferEnds(m) ==
  /\ wpc[m] = "ends"
  /\ wpc' = [wpc EXCEPT ![m] = IF frames[m] > 0 THEN AfterWrite(m) ELSE "announced"]
  /\ WriteUnchanged /\ UNCHANGED <<late, frames>>

(* PauseWrite(), PauseAudioProcessing(). *)
PauseWrite(m) ==
  /\ wpc[m] = "announced"
  /\ wpc' = [wpc EXCEPT ![m] = "asleep"]
  /\ WriteUnchanged /\ UNCHANGED <<late, frames>>

Resumed(m) ==
  /\ wpc[m] = "asleep" /\ writeFree[m]
  /\ wpc' = [wpc EXCEPT ![m] = AfterWrite(m)]
  /\ WriteUnchanged /\ UNCHANGED <<late, frames>>

(* Held back through m_InitRebufferSemaph. *)
Released(m) ==
  /\ wpc[m] = "held" /\ initFree
  /\ wpc' = [wpc EXCEPT ![m] = AfterWrite(m)]
  /\ WriteUnchanged /\ UNCHANGED <<late, frames>>

-----------------------------------------------------------------------------
Reader == \/ StartBufferThread \/ NotifyRebuffer \/ RetakeBuffer \/ GoOn \/ GetNoPacket
          \/ SetPacket \/ (\E ok \in BOOLEAN : Play(ok)) \/ StopWaitingData \/ RetakePlay
          \/ Stop \/ JoinPlay \/ SignalBuffer \/ JoinBuffer

Buffer == WaitRebufferNotify \/ CheckPlaying \/ BeginBuffering \/ EndBuffering

Player(m) == \/ InitWriteThread(m) \/ PrepareFrame(m, TRUE) \/ PrepareFrame(m, FALSE)
             \/ ResumeWrite(m) \/ RetakeWrite(m) \/ NoPacket(m) \/ Announce(m)
             \/ FallAsleep(m) \/ WakeUp(m) \/ SignalWrite(m) \/ LowerWrite(m)
             \/ JoinWrite(m)

Writer(m) == \/ Look(m) \/ WriteFrame(m) \/ PauseIfBufferEnds(m) \/ PauseWrite(m)
             \/ Resumed(m) \/ Released(m)

Next == \/ StartPktProcessing \/ InitMedia \/ FinishPktProcessing \/ WaitForMe
        \/ Reader \/ Buffer
        \/ \E m \in Media : GetPacket(m) \/ Player(m) \/ Writer(m)

Spec == Init /\ [][Next]_vars

(* The threads run on, and a semaphore keeps none of them waiting for ever   *)
(* that it lets through again and again.                                     *)
FairSpec ==
  /\ Spec /\ WF_vars(WaitForMe) /\ SF_vars(Reader) /\ WF_vars(Buffer)
  /\ \A m \in Media : SF_vars(Player(m)) /\ SF_vars(Writer(m))

(* Besides, the packets of each medium sent keep coming. *)
LiveSpec == FairSpec /\ \A m \in Media : SF_vars(GetPacket(m))

-----------------------------------------------------------------------------
(* Properties. *)

(* When FinishPktProcessing() has come back none of the six threads runs any *)
(* more: the transmission, whose members they use, may be deleted.           *)
NothingLeft ==
  stop = "done" => /\ bpc \in {"none", "done"} /\ rpc = "done"
                   /\ \A m \in Media : {ppc[m], wpc[m]} \subseteq {"none", "done"}

(* While the player buffers, each medium shows at most the one frame that    *)
(* was under way when the buffering began.                                   *)
HeldBack == \A m \in Media : late[m] <= 1

(* The owner of the transmission, who waits for the read thread without      *)
(* limit, comes back, wherever the threads are.                              *)
StopEnds == stop = "join" ~> stop = "done"

(* A thread waiting for work that is there is woken while packets keep       *)
(* coming, pulses lost between announcing and waiting notwithstanding.       *)
KeepsPlaying ==
  \A m \in Media :
    /\ ppc[m] = "asleep" /\ packets[m] > 0 ~> ppc[m] # "asleep"
    /\ wpc[m] = "asleep" /\ frames[m] > 0 ~> wpc[m] # "asleep"

(* A counterexample in case "empty": a transmission that ends before its     *)
(* first packet follows a pointer nothing was ever assigned to.              *)
NoWildRead == rpc # "wild"
=============================================================================
