------------------------- MODULE MediaPlayer_proofs -------------------------
(***************************************************************************)
(* Proofs about MediaPlayer, for every size of the queues, whatever media  *)
(* come and whichever cases are let in: the types, that nothing is left of *)
(* a player that has been stopped, and that buffering holds the output     *)
(* back.                                                                   *)
(***************************************************************************)
EXTENDS MediaPlayer, TLAPS

(* The stop of medium m lies behind the read thread. *)
Stopped(m) ==
  \/ rpc \in {"stopBuffer", "joinBuffer", "done"}
  \/ rpc \in {"stop", "join"} /\ m = "video" /\ medium = "audio"

(* A play thread that leaves was told so, and one that was not told is       *)
(* there as long as its medium plays.                                        *)
PlayInv ==
  \A m \in Media :
    /\ ppc[m] \in {"leave", "signal", "lower", "join", "done"} => ~playing[m]
    /\ Stopped(m) => ppc[m] \in {"none", "done"}
    /\ ~playing[m] /\ ~Stopped(m) /\ rpc # "wild" /\ ~(rpc = "join" /\ medium = m)
         => ppc[m] = "none"

(* A write thread lives within the life of its play thread. *)
WriteInv ==
  \A m \in Media :
    /\ ppc[m] \in {"none", "start"} => wpc[m] = "none"
    /\ ppc[m] = "done" => wpc[m] = "done"
    /\ wpc[m] = "write" => frames[m] > 0

(* The buffering thread lives within the life of the read thread. *)
BufferInv ==
  /\ bpc = "none" => rpc \in {"none", "start"}
  /\ rpc = "done" => bpc = "done"
  /\ stop = "done" => rpc = "done"

(* What is about to be shown was looked for before the buffering began. *)
LateInv ==
  \A m \in Media : late[m] <= 1 /\ (buffering /\ wpc[m] = "write" => late[m] = 0)

(* TypeOK in pieces. *)
ControlType ==
  /\ mediaSet \in BOOLEAN /\ run \in BOOLEAN /\ runB \in BOOLEAN
  /\ bufferFree \in BOOLEAN /\ initFree \in BOOLEAN /\ buffering \in BOOLEAN
  /\ stop \in {"no", "join", "done"} /\ medium \in Media
  /\ rpc \in {"none", "start", "top", "rebuffer", "get", "room", "after", "wake",
              "stop", "join", "stopBuffer", "joinBuffer", "wild", "done"}
  /\ bpc \in {"none", "asleep", "check", "init", "slices", "done"}

ThreadType ==
  /\ ppc \in [Media -> {"none", "start", "loop", "resume", "retake", "wait",
                        "announced", "asleep", "leave", "signal", "lower",
                        "join", "done"}]
  /\ wpc \in [Media -> {"none", "loop", "write", "ends", "announced", "asleep",
                        "held", "done"}]

FlagType ==
  /\ playing \in [Media -> BOOLEAN] /\ playFree \in [Media -> BOOLEAN]
  /\ runW \in [Media -> BOOLEAN] /\ writeFree \in [Media -> BOOLEAN]

QueueType ==
  /\ packets \in [Media -> 0..MaxInput] /\ frames \in [Media -> 0..MaxFrames]
  /\ late \in [Media -> 0..2]

StreamType == sent \subseteq Media

LEMMA TypePieces ==
  TypeOK <=> StreamType /\ ControlType /\ ThreadType /\ FlagType /\ QueueType
  BY DEF TypeOK, StreamType, ControlType, ThreadType, FlagType, QueueType

IInv == ControlType /\ ThreadType /\ FlagType /\ QueueType
        /\ PlayInv /\ WriteInv /\ BufferInv /\ LateInv

-----------------------------------------------------------------------------
LEMMA InitIInv == Init => IInv
<1> SUFFICES ASSUME Init PROVE IInv
  OBVIOUS
<1> USE PlayerAssumption DEF Init, Media
<1>1. ControlType /\ FlagType
  BY DEF ControlType, FlagType
<1>4. ThreadType
  BY DEF ThreadType
<1>5. QueueType
  BY DEF QueueType
<1>2. PlayInv /\ WriteInv
  BY DEF PlayInv, WriteInv, Stopped
<1>3. BufferInv /\ LateInv
  BY DEF BufferInv, LateInv
<1> QED
  BY <1>1, <1>2, <1>3, <1>4, <1>5 DEF IInv

(* What a transmission carries does not change. *)
LEMMA SameStream == [Next]_vars => sent' = sent
<1> SUFFICES ASSUME [Next]_vars PROVE sent' = sent
  OBVIOUS
<1> USE DEF reader
<1>1. CASE \/ StartPktProcessing \/ InitMedia \/ FinishPktProcessing \/ WaitForMe
           \/ Buffer \/ \E m \in Media : GetPacket(m)
  BY <1>1 DEF StartPktProcessing, InitMedia, FinishPktProcessing, WaitForMe, Buffer,
     WaitRebufferNotify, CheckPlaying, BeginBuffering, EndBuffering, GetPacket
<1>2. CASE Reader
  BY <1>2 DEF Reader, StartBufferThread, NotifyRebuffer, RetakeBuffer, GoOn, GetNoPacket,
     SetPacket, Play, StopWaitingData, RetakePlay, Stop, NextStop, JoinPlay, SignalBuffer,
     JoinBuffer
<1>3. CASE \E m \in Media : Player(m)
  BY <1>3 DEF Player, InitWriteThread, PrepareFrame, ResumeWrite, RetakeWrite, NoPacket,
     Announce, FallAsleep, WakeUp, SignalWrite, LowerWrite, JoinWrite, PlayUnchanged
<1>4. CASE \E m \in Media : Writer(m)
  BY <1>4 DEF Writer, Look, WriteFrame, PauseIfBufferEnds, PauseWrite, Resumed, Released,
     WriteUnchanged
<1>5. CASE UNCHANGED vars
  BY <1>5 DEF vars
<1> QED
  BY <1>1, <1>2, <1>3, <1>4, <1>5 DEF Next

LEMMA NextIInv == IInv /\ [Next]_vars => IInv'
<1> SUFFICES ASSUME IInv, [Next]_vars PROVE IInv'
  OBVIOUS
<1> USE PlayerAssumption DEF IInv, ControlType, ThreadType, FlagType, QueueType,
        PlayInv, WriteInv, BufferInv, LateInv,
        Stopped, Media, reader, buffer, player, output
<1>1. CASE StartPktProcessing
  BY <1>1 DEF StartPktProcessing
<1>2. CASE InitMedia
  BY <1>2 DEF InitMedia
<1>3. CASE FinishPktProcessing
  <2>1. ControlType'
    <3>1. run' = FALSE /\ stop' = "join"
          /\ UNCHANGED <<sent, mediaSet, rpc, medium, bpc, runB, bufferFree, initFree, buffering>>
      BY <1>3 DEF FinishPktProcessing
    <3>2. ControlType
      OBVIOUS
    <3> HIDE DEF IInv, ThreadType, FlagType, QueueType, PlayInv, WriteInv, BufferInv, LateInv
    <3> QED
      BY <3>1, <3>2
  <2>7. FlagType'
    BY <1>3 DEF FinishPktProcessing
  <2>2. (ThreadType /\ QueueType)'
    BY <1>3 DEF FinishPktProcessing
  <2>3. PlayInv'
    BY <1>3 DEF FinishPktProcessing
  <2>4. WriteInv'
    BY <1>3 DEF FinishPktProcessing
  <2>5. BufferInv'
    BY <1>3 DEF FinishPktProcessing
  <2>6. LateInv'
    BY <1>3 DEF FinishPktProcessing
  <2> QED
    BY <2>1, <2>2, <2>3, <2>4, <2>5, <2>6, <2>7
<1>4. CASE WaitForMe
  BY <1>4 DEF WaitForMe
<1>5. CASE StartBufferThread
  <2>1. (ControlType /\ FlagType)'
    BY <1>5 DEF StartBufferThread
  <2>2. (ThreadType /\ QueueType)'
    BY <1>5 DEF StartBufferThread
  <2>3. (PlayInv /\ WriteInv)'
    BY <1>5 DEF StartBufferThread
  <2>4. (BufferInv /\ LateInv)'
    BY <1>5 DEF StartBufferThread
  <2> QED
    BY <2>1, <2>2, <2>3, <2>4
<1>6. CASE NotifyRebuffer
  BY <1>6 DEF NotifyRebuffer, NeedBuffering
<1>7. CASE RetakeBuffer
  <2>1. (ControlType /\ FlagType)'
    BY <1>7 DEF RetakeBuffer, PulseOver
  <2>2. (ThreadType /\ QueueType)'
    BY <1>7 DEF RetakeBuffer, PulseOver
  <2>3. PlayInv'
    BY <1>7 DEF RetakeBuffer, PulseOver
  <2>4. WriteInv'
    BY <1>7 DEF RetakeBuffer, PulseOver
  <2>5. BufferInv'
    BY <1>7 DEF RetakeBuffer, PulseOver
  <2>6. LateInv'
    BY <1>7 DEF RetakeBuffer, PulseOver
  <2> QED
    BY <2>1, <2>2, <2>3, <2>4, <2>5, <2>6
<1>8. CASE GoOn
  BY <1>8 DEF GoOn
<1>9. CASE GetNoPacket
  BY <1>9 DEF GetNoPacket, AfterBody
<1>10. CASE SetPacket
  BY <1>10 DEF SetPacket
<1>11. CASE StopWaitingData
  <2>1. ControlType'
    BY <1>11 DEF StopWaitingData, AfterBody, Waits
  <2>7. FlagType'
    <3>1. playFree' = playFree \/ playFree' = [playFree EXCEPT ![medium] = TRUE]
      BY <1>11 DEF StopWaitingData, AfterBody, Waits
    <3>2. UNCHANGED <<playing, runW, writeFree>>
      BY <1>11 DEF StopWaitingData, AfterBody, Waits
    <3>3. FlagType /\ medium \in Media
      OBVIOUS
    <3> HIDE DEF IInv, ControlType, ThreadType, QueueType, PlayInv, WriteInv, BufferInv,
             LateInv, Stopped, reader, buffer, player, output
    <3> QED
      BY <3>1, <3>2, <3>3
  <2>2. (ThreadType /\ QueueType)'
    BY <1>11 DEF StopWaitingData, AfterBody, Waits
  <2>3. PlayInv'
    BY <1>11 DEF StopWaitingData, AfterBody, Waits
  <2>4. WriteInv'
    BY <1>11 DEF StopWaitingData, AfterBody, Waits
  <2>5. BufferInv'
    BY <1>11 DEF StopWaitingData, AfterBody, Waits
  <2>6. LateInv'
    BY <1>11 DEF StopWaitingData, AfterBody, Waits
  <2> QED
    BY <2>1, <2>2, <2>3, <2>4, <2>5, <2>6, <2>7
<1>12. CASE RetakePlay
  BY <1>12 DEF RetakePlay, AfterBody, PulseOver
<1>13. CASE Stop
  <2>1. ControlType'
    BY <1>13 DEF Stop, NextStop
  <2>7. FlagType'
    <3>1. playFree' = playFree \/ playFree' = [playFree EXCEPT ![medium] = TRUE]
      BY <1>13 DEF Stop, NextStop
    <3>2. playing' = playing \/ playing' = [playing EXCEPT ![medium] = FALSE]
      BY <1>13 DEF Stop, NextStop
    <3>3. UNCHANGED <<runW, writeFree>>
      BY <1>13 DEF Stop, NextStop
    <3>4. FlagType /\ medium \in Media
      OBVIOUS
    <3> HIDE DEF IInv, ControlType, ThreadType, QueueType, PlayInv, WriteInv, BufferInv,
             LateInv, Stopped, reader, buffer, player, output
    <3>5. playFree' \in [Media -> BOOLEAN]
      BY <3>1, <3>4
    <3>6. playing' \in [Media -> BOOLEAN]
      BY <3>2, <3>4
    <3> QED
      BY <3>3, <3>4, <3>5, <3>6
  <2>2. (ThreadType /\ QueueType)'
    BY <1>13 DEF Stop, NextStop
  <2>3. PlayInv'
    <3>1. CASE ~mediaSet
      BY <1>13, <3>1 DEF Stop
    <3>2. CASE mediaSet /\ playing[medium] /\ ppc[medium] # "none"
      BY <1>13, <3>2 DEF Stop
    <3>3. CASE mediaSet /\ ~(playing[medium] /\ ppc[medium] # "none")
      BY <1>13, <3>3 DEF Stop, NextStop
    <3> HIDE DEF IInv, PlayInv
    <3> QED
      BY <3>1, <3>2, <3>3
  <2>4. WriteInv'
    BY <1>13 DEF Stop, NextStop
  <2>5. BufferInv'
    BY <1>13 DEF Stop, NextStop
  <2>6. LateInv'
    BY <1>13 DEF Stop, NextStop
  <2> QED
    BY <2>1, <2>2, <2>3, <2>4, <2>5, <2>6, <2>7
<1>14. CASE JoinPlay
  BY <1>14 DEF JoinPlay, NextStop
<1>15. CASE SignalBuffer
  BY <1>15 DEF SignalBuffer
<1>16. CASE JoinBuffer
  BY <1>16 DEF JoinBuffer
<1>17. CASE WaitRebufferNotify
  BY <1>17 DEF WaitRebufferNotify
<1>18. CASE CheckPlaying
  BY <1>18 DEF CheckPlaying
<1>19. CASE BeginBuffering
  <2>1. (ControlType /\ FlagType)'
    BY <1>19 DEF BeginBuffering
  <2>2. (ThreadType /\ QueueType)'
    BY <1>19 DEF BeginBuffering
  <2>3. PlayInv'
    BY <1>19 DEF BeginBuffering
  <2>4. WriteInv'
    BY <1>19 DEF BeginBuffering
  <2>5. BufferInv'
    BY <1>19 DEF BeginBuffering
  <2>6. LateInv'
    BY <1>19 DEF BeginBuffering
  <2> QED
    BY <2>1, <2>2, <2>3, <2>4, <2>5, <2>6
<1>20. CASE EndBuffering
  <2>1. (ControlType /\ FlagType)'
    BY <1>20 DEF EndBuffering
  <2>2. (ThreadType /\ QueueType)'
    BY <1>20 DEF EndBuffering
  <2>3. PlayInv'
    BY <1>20 DEF EndBuffering
  <2>4. WriteInv'
    BY <1>20 DEF EndBuffering
  <2>5. BufferInv'
    BY <1>20 DEF EndBuffering
  <2>6. LateInv'
    BY <1>20 DEF EndBuffering
  <2> QED
    BY <2>1, <2>2, <2>3, <2>4, <2>5, <2>6
<1>21. ASSUME NEW ok \in BOOLEAN, Play(ok) PROVE IInv'
  BY <1>21 DEF Play, AfterBody
<1>22. ASSUME NEW m \in Media, NEW ok \in BOOLEAN, PrepareFrame(m, ok) PROVE IInv'
  BY <1>22 DEF PrepareFrame, PlayUnchanged
<1>23. ASSUME NEW m \in Media, GetPacket(m) PROVE IInv'
  BY <1>23 DEF GetPacket
<1>24. ASSUME NEW m \in Media, InitWriteThread(m) PROVE IInv'
  BY <1>24 DEF InitWriteThread, PlayUnchanged
<1>25. ASSUME NEW m \in Media, ResumeWrite(m) PROVE IInv'
  <2>1. ControlType'
    BY <1>25 DEF ResumeWrite, AfterPlay, Waits, PlayUnchanged
  <2>7. FlagType'
    <3>1. writeFree' = writeFree \/ writeFree' = [writeFree EXCEPT ![m] = TRUE]
      BY <1>25 DEF ResumeWrite, AfterPlay, Waits, PlayUnchanged
    <3>2. UNCHANGED <<playing, playFree, runW>>
      BY <1>25 DEF ResumeWrite, AfterPlay, Waits, PlayUnchanged
    <3>3. FlagType /\ m \in Media
      OBVIOUS
    <3> HIDE DEF IInv, ControlType, ThreadType, QueueType, PlayInv, WriteInv, BufferInv,
             LateInv, Stopped, reader, buffer, player, output
    <3> QED
      BY <3>1, <3>2, <3>3
  <2>2. (ThreadType /\ QueueType)'
    BY <1>25 DEF ResumeWrite, AfterPlay, Waits, PlayUnchanged
  <2>3. PlayInv'
    BY <1>25 DEF ResumeWrite, AfterPlay, Waits, PlayUnchanged
  <2>4. WriteInv'
    BY <1>25 DEF ResumeWrite, AfterPlay, Waits, PlayUnchanged
  <2>5. BufferInv'
    BY <1>25 DEF ResumeWrite, AfterPlay, Waits, PlayUnchanged
  <2>6. LateInv'
    BY <1>25 DEF ResumeWrite, AfterPlay, Waits, PlayUnchanged
  <2> QED
    BY <2>1, <2>2, <2>3, <2>4, <2>5, <2>6, <2>7
<1>26. ASSUME NEW m \in Media, RetakeWrite(m) PROVE IInv'
  BY <1>26 DEF RetakeWrite, AfterPlay, PulseOver, PlayUnchanged
<1>27. ASSUME NEW m \in Media, NoPacket(m) PROVE IInv'
  BY <1>27 DEF NoPacket, PlayUnchanged
<1>28. ASSUME NEW m \in Media, Announce(m) PROVE IInv'
  BY <1>28 DEF Announce, PlayUnchanged
<1>29. ASSUME NEW m \in Media, FallAsleep(m) PROVE IInv'
  BY <1>29 DEF FallAsleep, PlayUnchanged
<1>30. ASSUME NEW m \in Media, WakeUp(m) PROVE IInv'
  BY <1>30 DEF WakeUp, AfterPlay, PlayUnchanged
<1>31. ASSUME NEW m \in Media, SignalWrite(m) PROVE IInv'
  BY <1>31 DEF SignalWrite, PlayUnchanged
<1>32. ASSUME NEW m \in Media, LowerWrite(m) PROVE IInv'
  BY <1>32 DEF LowerWrite, PlayUnchanged
<1>33. ASSUME NEW m \in Media, JoinWrite(m) PROVE IInv'
  BY <1>33 DEF JoinWrite, PlayUnchanged
<1>34. ASSUME NEW m \in Media, Look(m) PROVE IInv'
  BY <1>34 DEF Look, WriteUnchanged
<1>35. ASSUME NEW m \in Media, WriteFrame(m) PROVE IInv'
  BY <1>35 DEF WriteFrame, AfterWrite, WriteUnchanged
<1>36. ASSUME NEW m \in Media, PauseIfBufferEnds(m) PROVE IInv'
  BY <1>36 DEF PauseIfBufferEnds, AfterWrite, WriteUnchanged
<1>37. ASSUME NEW m \in Media, PauseWrite(m) PROVE IInv'
  BY <1>37 DEF PauseWrite, WriteUnchanged
<1>38. ASSUME NEW m \in Media, Resumed(m) PROVE IInv'
  BY <1>38 DEF Resumed, AfterWrite, WriteUnchanged
<1>39. ASSUME NEW m \in Media, Released(m) PROVE IInv'
  BY <1>39 DEF Released, AfterWrite, WriteUnchanged
<1>40. CASE UNCHANGED vars
  BY <1>40 DEF vars
<1> HIDE DEF IInv, ControlType, ThreadType, FlagType, QueueType, PlayInv, WriteInv, BufferInv,
         LateInv, Stopped, reader, buffer, player, output
<1> QED
  BY <1>1, <1>2, <1>3, <1>4, <1>5, <1>6, <1>7, <1>8, <1>9, <1>10, <1>11, <1>12,
     <1>13, <1>14, <1>15, <1>16, <1>17, <1>18, <1>19, <1>20, <1>21, <1>22, <1>23,
     <1>24, <1>25, <1>26, <1>27, <1>28, <1>29, <1>30, <1>31, <1>32, <1>33, <1>34,
     <1>35, <1>36, <1>37, <1>38, <1>39, <1>40
     DEF Next, Reader, Buffer, Player, Writer

-----------------------------------------------------------------------------
(* The types, whatever the sizes of the queues. *)
THEOREM PlayerType == Spec => []TypeOK
<1>1. IInv /\ StreamType => TypeOK
  BY TypePieces DEF IInv
<1>2. Init => StreamType
  BY PlayerAssumption DEF Init, StreamType, PlayerAssumption
<1>3. StreamType /\ [Next]_vars => StreamType'
  BY SameStream DEF StreamType
<1> QED
  BY InitIInv, NextIInv, <1>1, <1>2, <1>3, PTL DEF Spec

(* FinishPktProcessing() leaves none of the threads behind, at whatever      *)
(* point it finds them.                                                      *)
THEOREM PlayerLeavesNothing == Spec => []NothingLeft
<1>1. IInv => NothingLeft
  BY DEF IInv, ThreadType, PlayInv, WriteInv, BufferInv, NothingLeft, Stopped, Media
<1> QED
  BY InitIInv, NextIInv, <1>1, PTL DEF Spec

(* Buffering holds each medium back but for the frame under way.             *)
THEOREM PlayerHoldsBack == Spec => []HeldBack
<1>1. IInv => HeldBack
  BY DEF IInv, LateInv, HeldBack
<1> QED
  BY InitIInv, NextIInv, <1>1, PTL DEF Spec
=============================================================================
