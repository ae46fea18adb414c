-------------------------- MODULE LiveTransmissions --------------------------
(***************************************************************************)
(* What the client shows of the media of others (IPTVClientApp,            *)
(* Transmission, TransmissionManager, TimeoutRegister).  The threads that  *)
(* play a medium report twice a second that it is alive: each report posts *)
(* an event to the user interface and rearms a timeout.  The user          *)
(* interface handles its events in order: it creates transmissions,        *)
(* activates and deactivates them, and deletes those of users who leave.   *)
(* An "alive" event carries a pointer to the transmission.                 *)
(***************************************************************************)
EXTENDS Integers, Sequences, FiniteSets

CONSTANTS
  Ids,       \* media ids, each of one user
  MaxQueue,  \* bound: events posted and not handled yet
  Cases      \* which of the cases below are let in

Case == {"late"}  \* media are heard after the server's word that their user is done

ASSUME LiveAssumption == Ids # {} /\ MaxQueue \in Nat \ {0} /\ Cases \subseteq Case

Kinds  == {"audio", "video"}
Stream == Kinds \X Ids

VARIABLES
  playing,  \* kernel: media that are received and played
  posted,   \* media whose thread has posted its event and not rearmed its timeout
  timers,   \* TimeoutRegister::m_list
  queue,    \* the events of the user interface
  enabled,  \* m_enableTransmissions
  transm,   \* TransmissionManager::m_list
  heard,    \* history: of each transmission, was it deactivated, and heard again after that
  wild      \* history: an event was handled whose transmission is no more

kernel == <<playing, posted>>
app    == <<enabled, transm, heard, wild>>
vars   == <<kernel, timers, queue, app>>

(* Mutant: the constructor forgets a member. *)
NothingButRunning == [exists |-> FALSE, named |-> FALSE, sink |-> FALSE,
                      audio |-> FALSE, video |-> FALSE, active |-> FALSE]

(* MediaVideoSource: "running" is its timer, which asks for frames. *)
Nothing == [exists |-> FALSE, named |-> FALSE, sink |-> FALSE, audio |-> FALSE,
            video |-> FALSE, active |-> FALSE, running |-> FALSE]

Event == [what : {"new", "info", "part", "voice", "join"}, id : Ids]
           \union [what : {"timeout"}, id : Ids, kind : Kinds]
           \union [what : {"alive"}, id : Ids, kind : Kinds, live : BOOLEAN]

(* Every member has its type. *)
TypeOK ==
  /\ playing \subseteq Stream /\ posted \subseteq Stream /\ timers \subseteq Stream
  /\ queue \in Seq(Event) /\ Len(queue) <= MaxQueue
  /\ {enabled, wild} \subseteq BOOLEAN
  /\ transm \in [Ids -> [exists : BOOLEAN, named : BOOLEAN, sink : BOOLEAN,
                         audio : BOOLEAN, video : BOOLEAN, active : BOOLEAN,
                         running : BOOLEAN]]
  /\ heard \in [Ids -> {"first", "ended", "again"}]

Init ==
  /\ playing = {} /\ posted = {} /\ timers = {} /\ queue = <<>>
  /\ enabled = FALSE /\ transm = [i \in Ids |-> Nothing]
  /\ heard = [i \in Ids |-> "first"] /\ wild = FALSE

-----------------------------------------------------------------------------
(* The other threads. *)

Room == Len(queue) < MaxQueue

Quiet(i) == \A k \in Kinds : <<k, i>> \notin playing

Pending(what, i) == \E n \in 1..Len(queue) : queue[n].what = what /\ queue[n].id = i

(* The server's word that the user is done: with it, normally, go the media. *)
Done(i) == Pending("part", i) \/ Pending("voice", i)

StartStream(k, i) ==
  /\ enabled /\ <<k, i>> \notin playing
  /\ "late" \in Cases \/ ~Done(i)
  /\ playing' = playing \union {<<k, i>>}
  /\ UNCHANGED <<posted, timers, queue, app>>

StopStream(k, i) ==
  /\ <<k, i>> \in playing /\ <<k, i>> \notin posted
  /\ playing' = playing \ {<<k, i>>}
  /\ UNCHANGED <<posted, timers, queue, app>>

(* KNC_PRCS_VIDEO_ALIVE, KNC_PRCS_AUDIO_ALIVE: the transmission is looked    *)
(* up here, and its pointer posted; of one that is not known yet, the id     *)
(* without the name.                                                         *)
Alive(k, i) ==
  /\ <<k, i>> \in playing \ posted /\ Room
  /\ queue' = Append(queue, IF transm[i].exists
                              THEN [what |-> "alive", id |-> i, kind |-> k, live |-> TRUE]
                              ELSE [what |-> "new", id |-> i])
  /\ posted' = posted \union {<<k, i>>}
  /\ UNCHANGED <<playing, timers, app>>

(* TimeoutRegister::Register(). *)
Register(k, i) ==
  /\ <<k, i>> \in posted
  /\ posted' = posted \ {<<k, i>>} /\ timers' = timers \union {<<k, i>>}
  /\ UNCHANGED <<playing, queue, app>>

(* KNC_NEW_CONFERENCE_TRANSMISSION: the server says whose a medium is. *)
MediaInfo(i) ==
  /\ enabled /\ Room /\ ~Pending("info", i) /\ ~Done(i)
  /\ queue' = Append(queue, [what |-> "info", id |-> i])
  /\ UNCHANGED <<kernel, timers, app>>

(* The user leaves the channel, or loses voice or collaboration. *)
UserIsDone(what, i) ==
  /\ enabled /\ Room /\ ~Done(i)
  /\ "late" \in Cases \/ Quiet(i)
  /\ queue' = Append(queue, [what |-> what, id |-> i])
  /\ UNCHANGED <<kernel, timers, app>>

(* We are let into a channel. *)
Join ==
  /\ ~enabled /\ Room /\ \A n \in 1..Len(queue) : queue[n].what # "join"
  /\ queue' = Append(queue, [what |-> "join", id |-> CHOOSE i \in Ids : TRUE])
  /\ UNCHANGED <<kernel, timers, app>>

-----------------------------------------------------------------------------
(* Transmission. *)

(* SetAudioAlive(), SetVideoAlive(): the video's frames go with it. *)
SetAlive(t, k, alive) ==
  IF k = "audio" THEN [t EXCEPT !.audio = alive]
  ELSE [t EXCEPT !.video = alive, !.running = IF t.active THEN alive ELSE @]

(* Mutant: the frames come before there is a place for them. *)
ActivateBare(t) == IF t.active THEN t ELSE [t EXCEPT !.running = TRUE]

(* Activate(), after a sink was attached if there is none. *)
Activate(t) ==
  LET s == [t EXCEPT !.sink = TRUE]
  IN  IF t.active THEN s ELSE [s EXCEPT !.active = TRUE, !.running = TRUE]

(* Mutant: the timer goes on. *)
DeactivateOnly(t) == [t EXCEPT !.active = FALSE]

Deactivate(t) ==
  IF t.active THEN [t EXCEPT !.active = FALSE, !.running = FALSE] ELSE t

IsAlive(t, k) == IF k = "audio" THEN t.audio ELSE t.video

Other(k) == IF k = "audio" THEN "video" ELSE "audio"

-----------------------------------------------------------------------------
(* The user interface. *)

(* TimeoutRegister::Check() for one that has expired: media report often     *)
(* enough to keep theirs from expiring, unless they falter.                  *)
Check(k, i) ==
  /\ <<k, i>> \in timers /\ Room
  /\ timers' = timers \ {<<k, i>>}
  /\ queue' = Append(queue, [what |-> "timeout", id |-> i, kind |-> k])
  /\ UNCHANGED <<kernel, app>>

(* The history of it. *)
End(i)  == heard' = [heard EXCEPT ![i] =
                       IF transm[i].active /\ @ = "first" THEN "ended" ELSE @]
Hear(i) == heard' = [heard EXCEPT ![i] = IF @ = "ended" THEN "again" ELSE @]

Next1(what) == queue # <<>> /\ queue[1].what = what

(* OnNewTransmission(). *)
OnNewTransmission ==
  /\ Next1("new") /\ queue' = Tail(queue)
  /\ LET i == queue[1].id
         t == transm[i]
     IN  IF ~enabled THEN UNCHANGED <<transm, heard>>
         ELSE IF t.exists
           THEN transm' = [transm EXCEPT ![i] = Activate(t)] /\ Hear(i)
           ELSE /\ transm' = [transm EXCEPT ![i] = [Nothing EXCEPT !.exists = TRUE, !.sink = TRUE]]
                /\ UNCHANGED heard
  /\ UNCHANGED <<kernel, timers, enabled, wild>>

(* OnMediaInfo(): a transmission that has no name yet gets none. *)
OnMediaInfo ==
  /\ Next1("info") /\ queue' = Tail(queue)
  /\ LET i == queue[1].id
         t == transm[i]
     IN  transm' = IF ~enabled THEN transm
                   ELSE IF t.exists THEN [transm EXCEPT ![i].sink = @ \/ t.active]
                   ELSE [transm EXCEPT ![i] = [Nothing EXCEPT !.exists = TRUE, !.named = TRUE]]
  /\ UNCHANGED <<kernel, timers, enabled, heard, wild>>

(* Mutant: what has been active before is not activated again. *)
OnMediaAliveOnce ==
  /\ Next1("alive") /\ queue' = Tail(queue)
  /\ LET e == queue[1]
     IN  IF ~enabled THEN UNCHANGED <<transm, heard, wild>>
         ELSE IF ~e.live THEN wild' = TRUE /\ UNCHANGED <<transm, heard>>
         ELSE /\ transm' = [transm EXCEPT ![e.id] = SetAlive(@, e.kind, TRUE)]
              /\ UNCHANGED <<heard, wild>>
  /\ UNCHANGED <<kernel, timers, enabled>>

(* OnMediaAudioAlive(), OnMediaVideoAlive(), which trust the pointer. *)
OnMediaAlive ==
  /\ Next1("alive") /\ queue' = Tail(queue)
  /\ LET e == queue[1]
     IN  IF ~enabled THEN UNCHANGED <<transm, heard, wild>>
         ELSE IF ~e.live THEN wild' = TRUE /\ UNCHANGED <<transm, heard>>
         ELSE /\ transm' = [transm EXCEPT ![e.id] = Activate(SetAlive(@, e.kind, TRUE))]
              /\ Hear(e.id) /\ UNCHANGED wild
  /\ UNCHANGED <<kernel, timers, enabled>>

(* Mutant: it is always said to live on with the other medium. *)
OnMediaTimeoutKeeps ==
  /\ Next1("timeout") /\ queue' = Tail(queue)
  /\ LET e == queue[1]
     IN  transm' = IF transm[e.id].exists
                     THEN [transm EXCEPT ![e.id] = SetAlive(@, e.kind, FALSE)] ELSE transm
  /\ UNCHANGED <<kernel, timers, enabled, heard, wild>>

(* OnMediaAudioTimeout(), OnMediaVideoTimeout(): with the other medium       *)
(* alive it lives on without this one.                                       *)
OnMediaTimeout ==
  /\ Next1("timeout") /\ queue' = Tail(queue)
  /\ LET e == queue[1]
         t == transm[e.id]
     IN  IF ~t.exists THEN UNCHANGED <<transm, heard>>
         ELSE IF IsAlive(t, Other(e.kind))
           THEN /\ transm' = [transm EXCEPT ![e.id] = SetAlive(t, e.kind, FALSE)]
                /\ UNCHANGED heard
           ELSE /\ transm' = [transm EXCEPT ![e.id] = Deactivate(t)]
                /\ End(e.id)
  /\ UNCHANGED <<kernel, timers, enabled, wild>>

(* The events that point to it point to nothing now. *)
Dangling(q, S) ==
  [n \in 1..Len(q) |-> IF q[n].what = "alive" /\ q[n].id \in S
                         THEN [q[n] EXCEPT !.live = FALSE] ELSE q[n]]

(* OnChannelPart(), OnUserQuit(): the transmission of that name is deleted. *)
OnChannelPart ==
  /\ Next1("part")
  /\ LET i == queue[1].id
     IN  IF transm[i].exists /\ transm[i].named
           THEN /\ transm' = [transm EXCEPT ![i] = Nothing] /\ heard' = [heard EXCEPT ![i] = "first"]
                /\ queue' = Dangling(Tail(queue), {i})
           ELSE queue' = Tail(queue) /\ UNCHANGED <<transm, heard>>
  /\ UNCHANGED <<kernel, timers, enabled, wild>>

(* OnChannelUserFlags(): without voice or collaboration it is deactivated,   *)
(* and its timeout for audio - named twice - cleared.                        *)
OnChannelUserFlags ==
  /\ Next1("voice") /\ queue' = Tail(queue)
  /\ LET i == queue[1].id
     IN  IF transm[i].exists /\ transm[i].named
           THEN /\ transm' = [transm EXCEPT ![i] = Deactivate(@)] /\ End(i)
                /\ timers' = timers \ {<<"audio", i>>}
           ELSE UNCHANGED <<transm, heard, timers>>
  /\ UNCHANGED <<kernel, enabled, wild>>

(* OnChannelJoin(), for ourselves. *)
OnChannelJoin ==
  /\ Next1("join") /\ queue' = Tail(queue)
  /\ enabled' = TRUE
  /\ UNCHANGED <<kernel, timers, transm, heard, wild>>

(* Mutant: reports are still handled. *)
TerminateLeavesEnabled ==
  /\ enabled /\ UNCHANGED enabled
  /\ transm' = [i \in Ids |-> Nothing] /\ heard' = [i \in Ids |-> "first"]
  /\ queue' = Dangling(queue, Ids)
  /\ playing' = {} /\ posted' = {} /\ timers' = timers \union posted
  /\ UNCHANGED wild

(* TerminateAllConferences(): reports are ignored from now on, the           *)
(* transmissions deleted, the media stopped and their threads waited for.    *)
TerminateAllConferences ==
  /\ enabled /\ enabled' = FALSE
  /\ transm' = [i \in Ids |-> Nothing] /\ heard' = [i \in Ids |-> "first"]
  /\ queue' = Dangling(queue, Ids)
  /\ playing' = {} /\ posted' = {} /\ timers' = timers \union posted
  /\ UNCHANGED wild

-----------------------------------------------------------------------------
Handler == \/ OnNewTransmission \/ OnMediaInfo \/ OnMediaAlive \/ OnMediaTimeout
           \/ OnChannelPart \/ OnChannelUserFlags \/ OnChannelJoin

Next == \/ \E k \in Kinds, i \in Ids : \/ StartStream(k, i) \/ StopStream(k, i)
                                       \/ Alive(k, i) \/ Register(k, i) \/ Check(k, i)
        \/ \E i \in Ids : MediaInfo(i) \/ UserIsDone("part", i) \/ UserIsDone("voice", i)
        \/ Join \/ Handler \/ TerminateAllConferences

Spec == Init /\ [][Next]_vars

(* Media report as long as they play, timeouts expire, events are handled.   *)
FairSpec ==
  /\ Spec /\ WF_vars(Handler)
  /\ \A k \in Kinds, i \in Ids :
       SF_vars(Alive(k, i)) /\ WF_vars(Register(k, i)) /\ SF_vars(Check(k, i))

-----------------------------------------------------------------------------
(* Properties. *)

(* Only an active transmission, which has a place to show them, asks the     *)
(* kernel for frames.                                                        *)
FramesHaveAPlace ==
  \A i \in Ids : transm[i].running => transm[i].active /\ transm[i].sink

(* No handler is given a pointer to a transmission that is deleted.          *)
NoneDangling == ~wild

(* A transmission whose medium is received is shown, unless the medium stops *)
(* or the conference is left.                                                *)
AliveIsShown ==
  \A i \in Ids : ~Quiet(i) ~> transm[i].active \/ Quiet(i) \/ ~enabled

(* "Being active means it is receiving either audio or video alive           *)
(* notifications" (Transmission.cpp): with none coming, a transmission does  *)
(* not stay active.                                                          *)
QuietEnds ==
  \A i \in Ids : Quiet(i) /\ transm[i].active ~> ~transm[i].active \/ ~Quiet(i)

(* The same of a transmission that is not heard again once it was            *)
(* deactivated.                                                              *)
FirstQuietEnds ==
  \A i \in Ids : Quiet(i) /\ transm[i].active
                 ~> ~transm[i].active \/ ~Quiet(i) \/ heard[i] = "again"
=============================================================================
