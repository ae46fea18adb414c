---------------------------- MODULE MoviePlaylist ----------------------------
(***************************************************************************)
(* A playlist of movies that is sent to a channel: the playlist window     *)
(* (PlaylistFrame) on the user interface thread, the kernel's movie        *)
(* session (Movie), whose handlers of the server's messages run on the IRM *)
(* thread, the thread that sends the packets of a file (SimposiumNetwork,  *)
(* ASFFileSourceStream), and the server, which is external.  The window    *)
(* learns from the end of one movie that the next is due, and the end goes *)
(* a long way: sending thread, server, IRM thread, event, timer.           *)
(*                                                                         *)
(* The same session also receives the movies of others, one at a time;     *)
(* what plays them is MediaPlayer's.                                       *)
(***************************************************************************)
EXTENDS Integers, Sequences

CONSTANTS
  Files,       \* the files the list may name
  Items,       \* number of items of the list
  MaxPackets,  \* number of packets of a file
  MaxRounds,   \* bound: times the list is begun from its start
  MaxOffers,   \* bound: movies others offer
  MaxQueue,    \* bound: messages under way when the user presses a button
  Cases        \* which of the cases below are let in

Case == {"hasty",  \* a button is pressed while a movie is on its way out or its
                   \* beginning unanswered, or a movie ends while the timer runs
         "same",   \* a file is sent twice in a row
         "slow",   \* a movie may be stopped before its thread has begun
         "race"}   \* a transmission begins inside the IRM thread's handler

ASSUME PlaylistAssumption ==
  /\ Files # {} /\ Items \in Nat \ {0} /\ MaxPackets \in Nat \ {0}
  /\ MaxRounds \in Nat /\ MaxOffers \in Nat /\ MaxQueue \in Nat
  /\ Cases \subseteq Case

None == "none"
ASSUME NoneAssumption == None \notin Files

Ids == 1..(MaxRounds * (Items + 1) + MaxOffers)

VARIABLES
  item, started,     \* m_itemPlaying, m_wasStarted
  finish, timer,     \* m_finishBtnPressed, m_timer is running
  ui,                \* user interface thread: idle, or inside BeginTransmission
  ends,              \* events posted to it: ends of movies
  state,             \* m_state
  sndId, rcvId,      \* m_transmissionData.m_mediaId, m_receptionData.m_mediaId
  buffer,            \* m_writeBuffer: the medium it was made for
  irm, offer,        \* IRM thread: where it is, and which offer it takes
  file, header, pos, \* m_strFilename, m_bGeneratedHeader, next packet of the file
  sender,            \* the sending thread
  running,           \* m_bThreadRunning
  terminate,         \* m_bTerminate
  toServer, toClient,\* messages under way
  lastId, offers, rounds, \* the server's last medium; bounds
  sent,              \* history: packets of the present movie that were sent
  asked              \* history: the user has pressed a button since it began

window  == <<item, started, finish, timer>>
session == <<state, sndId, rcvId, buffer>>
source  == <<file, header, pos>>
thread  == <<sender, running, terminate>>
counts  == <<lastId, offers, rounds>>
vars    == <<window, ui, ends, session, irm, offer, source, thread, toServer, toClient,
             counts, sent, asked>>

Message == [kind : {"send", "sendstop", "notify", "receivestop"}, id : {0} \union Ids]

(* Every member has its type. *)
TypeOK ==
  /\ item \in -1..Items /\ {started, finish, timer} \subseteq BOOLEAN
  /\ ui \in {"idle", "begin"} /\ ends \in 0..(Items + 1)
  /\ state \in {"idle", "receiving", "transmitting"}
  /\ {sndId, rcvId, buffer, offer} \subseteq {0} \union Ids
  /\ irm \in {"idle", "accept", "join", "notify"}
  /\ file \in Files \union {None} /\ header \in BOOLEAN /\ pos \in 1..(MaxPackets + 1)
  /\ sender \in {"none", "start", "run", "eof", "stopped"}
  /\ {running, terminate, asked} \subseteq BOOLEAN
  /\ toServer \in Seq(Message) /\ toClient \in Seq(Message)
  /\ lastId \in {0} \union Ids /\ offers \in 0..MaxOffers /\ rounds \in 0..MaxRounds
  /\ sent \in 0..MaxPackets

Init ==
  /\ item = 0 /\ started = FALSE /\ finish = FALSE /\ timer = FALSE
  /\ ui = "idle" /\ ends = 0
  /\ state = "idle" /\ sndId = 0 /\ rcvId = 0 /\ buffer = 0 /\ irm = "idle" /\ offer = 0
  /\ file = None /\ header = FALSE /\ pos = 1
  /\ sender = "none" /\ running = FALSE /\ terminate = FALSE
  /\ toServer = <<>> /\ toClient = <<>>
  /\ lastId = 0 /\ offers = 0 /\ rounds = 0 /\ sent = 0 /\ asked = FALSE

-----------------------------------------------------------------------------
(* Movie, called by the user interface thread. *)

Stop(id) == [kind |-> "sendstop", id |-> id]

(* RequestMediaSendStop() does nothing without an id. *)
RequestMediaSendStop(id) ==
  toServer' = IF id = 0 THEN toServer ELSE Append(toServer, Stop(id))

CancelTransmission ==
  IF state = "transmitting" THEN RequestMediaSendStop(sndId) ELSE UNCHANGED toServer

(* Mutant: the header of the last file serves for this one, too. *)
GetHeaderOnce(f) ==
  /\ file' = f /\ header' = TRUE
  /\ pos' = IF header THEN pos ELSE 1

(* SetFilename() and GetHeader(): another file is opened and its header      *)
(* read; the same one is left where it is.                                   *)
GetHeader(f) ==
  /\ "same" \in Cases \/ f # file
  /\ file' = f /\ header' = TRUE
  /\ pos' = IF header /\ f = file THEN pos ELSE 1

(* MovieBeginTransmission(): one that is transmitted is cancelled, and no    *)
(* other begins, then; nor without a header.                                 *)
MovieBeginTransmission ==
  /\ CancelTransmission
  /\ IF state = "idle"
       THEN \E f \in Files, ok \in BOOLEAN :
              /\ GetHeader(f)
              /\ ui' = IF ok THEN "begin" ELSE "idle"
              /\ started' = (ok /\ started)
       ELSE started' = FALSE /\ UNCHANGED <<ui, source>>

(* The rest of BeginTransmission(). *)
SetTransmitting ==
  /\ ui = "begin" /\ (irm = "accept" => "race" \in Cases)
  /\ ui' = "idle" /\ started' = TRUE
  /\ state' = "transmitting" /\ sndId' = 0 /\ rcvId' = 0
  /\ toServer' = Append(toServer, [kind |-> "send", id |-> 0])
  /\ sent' = 0 /\ asked' = FALSE
  /\ UNCHANGED <<item, finish, timer, ends, buffer, irm, offer, source, thread, toClient,
                 counts>>

-----------------------------------------------------------------------------
(* PlaylistFrame. *)

Calm == UNCHANGED <<session, irm, offer, thread, toClient, lastId, offers, sent>>

(* BeginPlayFile(), at item i.  Behind the last one it starts again, or all  *)
(* is over.                                                                  *)
BeginPlayFile(i) ==
  \/ /\ i < Items /\ item' = i
     /\ MovieBeginTransmission /\ UNCHANGED rounds
  \/ /\ i = Items /\ rounds < MaxRounds
     /\ item' = 0 /\ rounds' = rounds + 1
     /\ MovieBeginTransmission
  \/ /\ i = Items /\ item' = i
     /\ CancelTransmission
     /\ started' = FALSE /\ UNCHANGED <<ui, source, rounds>>

Room == Len(toServer) + Len(toClient) < MaxQueue

(* No movie is on its way out, and nothing is due. *)
AtRest == state # "transmitting" /\ irm # "notify" /\ ends = 0 /\ ~timer

(* OnBtnStartClick(), the button saying "Start". *)
StartClick ==
  /\ ui = "idle" /\ ~started /\ rounds < MaxRounds /\ Room
  /\ "hasty" \in Cases \/ AtRest
  /\ item' = 0 /\ rounds' = rounds + 1 /\ asked' = TRUE
  /\ MovieBeginTransmission
  /\ Calm /\ UNCHANGED <<finish, timer, ends>>

(* OnBtnStartClick(), the button saying "Finish": it takes effect when the   *)
(* timer runs out.  But for "hasty", it is pressed while the movie is sent.   *)
FinishClick ==
  /\ ui = "idle" /\ started /\ Room
  /\ "hasty" \in Cases \/ (sender \in {"start", "run"} /\ ~finish)
  /\ finish' = TRUE /\ timer' = TRUE /\ asked' = TRUE
  /\ Calm /\ UNCHANGED <<item, started, ui, ends, source, toServer, rounds>>

(* OnBtnCancelClick(): the window closes.  The next one is a new one, and    *)
(* events for the old one are gone by then.                                  *)
OnBtnCancelClick ==
  /\ ui = "idle" /\ Room
  /\ CancelTransmission
  /\ item' = 0 /\ started' = FALSE /\ finish' = FALSE /\ timer' = FALSE /\ asked' = TRUE
  /\ ends' = 0
  /\ Calm /\ UNCHANGED <<ui, source, rounds>>

(* OpenPlaylist(): another list, from whose first item it is to go on. *)
OpenPlaylist ==
  /\ ui = "idle" /\ started /\ rounds < MaxRounds
  /\ item' = -1 /\ rounds' = rounds + 1
  /\ Calm /\ UNCHANGED <<started, finish, timer, ui, ends, source, toServer, asked>>

(* Mutant: the next item begins at once, while the timer runs on. *)
OnMovieSendEofHasty ==
  /\ ui = "idle" /\ ends > 0 /\ ends' = ends - 1
  /\ finish' = FALSE /\ timer' = TRUE
  /\ IF item < Items THEN BeginPlayFile(item + 1)
     ELSE UNCHANGED <<item, started, ui, source, toServer, rounds>>
  /\ Calm /\ UNCHANGED asked

(* The end of a movie: after "Finish" the next item begins, or the timer     *)
(* sees to it.                                                               *)
OnMovieSendEof ==
  /\ ui = "idle" /\ ends > 0 /\ ends' = ends - 1
  /\ finish' = FALSE
  /\ timer' = (timer \/ ~finish)
  /\ IF finish /\ item < Items THEN BeginPlayFile(item + 1)
     ELSE UNCHANGED <<item, started, ui, source, toServer, rounds>>
  /\ Calm /\ UNCHANGED asked

(* OnTimer(), when it has run out. *)
OnTimer ==
  /\ ui = "idle" /\ timer /\ timer' = FALSE /\ UNCHANGED finish
  /\ IF finish THEN CancelTransmission /\ UNCHANGED <<item, started, ui, source, rounds>>
     ELSE IF item < Items THEN BeginPlayFile(item + 1)
     ELSE UNCHANGED <<item, started, ui, source, toServer, rounds>>
  /\ Calm /\ UNCHANGED <<ends, asked>>

-----------------------------------------------------------------------------
(* The sending thread. *)

Sending == UNCHANGED <<window, ui, ends, session, irm, offer, file, header, running,
                       toClient, counts, asked>>

(* _TransmitMoviePkt() lowers the flag first. *)
ThreadBegins ==
  /\ sender = "start" /\ sender' = "run" /\ terminate' = FALSE
  /\ Sending /\ UNCHANGED <<pos, toServer, sent>>

(* Mutant: the end of the file goes unnoticed. *)
DeliverOn ==
  /\ sender = "run" /\ pos <= MaxPackets + 1
  /\ pos' = pos + 1
  /\ sent' = IF state = "transmitting" THEN sent + 1 ELSE sent
  /\ sender' = IF terminate THEN "stopped" ELSE "run"
  /\ Sending /\ UNCHANGED <<terminate, toServer>>

(* DeliverPacket(), OnPacket(). *)
DeliverPacket ==
  /\ sender = "run" /\ pos <= MaxPackets
  /\ pos' = pos + 1
  /\ sent' = IF state = "transmitting" THEN sent + 1 ELSE sent
  /\ sender' = IF terminate THEN "stopped" ELSE "run"
  /\ Sending /\ UNCHANGED <<terminate, toServer>>

(* Mutant: the server is not told. *)
OnEofSilently ==
  /\ sender = "run" /\ pos > MaxPackets
  /\ sender' = "eof"
  /\ Sending /\ UNCHANGED <<pos, terminate, sent, toServer>>

(* OnEOF(). *)
OnEOF ==
  /\ sender = "run" /\ pos > MaxPackets
  /\ "hasty" \in Cases \/ ~timer
  /\ sender' = "eof"
  /\ RequestMediaSendStop(sndId)
  /\ Sending /\ UNCHANGED <<pos, terminate, sent>>

-----------------------------------------------------------------------------
(* Movie, called by the IRM thread. *)

Handling == UNCHANGED <<window, ui, source, counts, sent, asked>>

Take(kind) ==
  /\ irm = "idle" /\ toClient # <<>> /\ Head(toClient).kind = kind
  /\ toClient' = Tail(toClient)

(* The answer: the buffer is made and the thread created, or the medium      *)
(* given back.                                                               *)
OnMediaSend ==
  /\ Take("send")
  /\ LET id == Head(toClient).id
     IN  IF state # "transmitting" THEN UNCHANGED <<sndId, buffer, sender, running, toServer>>
         ELSE \E ok \in BOOLEAN :
           /\ sndId' = id /\ buffer' = id
           /\ IF ok THEN sender' = "start" /\ running' = TRUE /\ UNCHANGED toServer
                    ELSE RequestMediaSendStop(id) /\ UNCHANGED <<sender, running>>
  /\ Handling /\ UNCHANGED <<ends, state, rcvId, irm, offer, terminate>>

(* The medium has been stopped: so is the thread, which is waited for. *)
OnMediaSendStop ==
  /\ Take("sendstop")
  /\ IF state = "transmitting" /\ Head(toClient).id = sndId
       THEN /\ "slow" \in Cases \/ sender # "start"
            /\ terminate' = TRUE /\ irm' = "join"
       ELSE UNCHANGED <<terminate, irm>>
  /\ Handling /\ UNCHANGED <<ends, session, offer, sender, running, toServer>>

(* Mutant: the thread is not waited for. *)
LeaveThread ==
  /\ irm = "join" /\ irm' = "notify"
  /\ running' = FALSE /\ state' = "idle" /\ sndId' = 0 /\ rcvId' = 0
  /\ Handling /\ UNCHANGED <<ends, buffer, offer, sender, terminate, toServer, toClient>>

(* WaitThread() and Reset(). *)
WaitThread ==
  /\ irm = "join" /\ (running => sender \in {"eof", "stopped"})
  /\ irm' = "notify"
  /\ running' = FALSE /\ state' = "idle" /\ sndId' = 0 /\ rcvId' = 0
  /\ Handling /\ UNCHANGED <<ends, buffer, offer, sender, terminate, toServer, toClient>>

(* The event.  A window where nothing was started, if there is one, hears it *)
(* only in case "hasty".                                                     *)
NotifyEnd ==
  /\ irm = "notify" /\ irm' = "idle"
  /\ ends' \in (IF started \/ "hasty" \in Cases THEN {ends + 1} ELSE {})
               \union (IF started THEN {} ELSE {ends})
  /\ Handling /\ UNCHANGED <<session, offer, thread, toServer, toClient>>

(* OnMediaNotify("SEND"): somebody else begins to send. *)
OnMediaNotify ==
  /\ Take("notify")
  /\ IF state = "idle" THEN irm' = "accept" /\ offer' = Head(toClient).id
                       ELSE UNCHANGED <<irm, offer>>
  /\ Handling /\ UNCHANGED <<ends, session, thread, toServer>>

AcceptOffer ==
  /\ irm = "accept" /\ irm' = "idle"
  /\ state' = "receiving" /\ sndId' = 0 /\ rcvId' = offer
  /\ Handling /\ UNCHANGED <<ends, buffer, offer, thread, toServer, toClient>>

OnMediaReceiveStop ==
  /\ Take("receivestop")
  /\ IF state = "receiving" /\ Head(toClient).id = rcvId
       THEN state' = "idle" /\ sndId' = 0 /\ rcvId' = 0
       ELSE UNCHANGED <<state, sndId, rcvId>>
  /\ Handling /\ UNCHANGED <<ends, buffer, irm, offer, thread, toServer>>

-----------------------------------------------------------------------------
(* The server: it answers in order, and passes on what others do. *)

External == UNCHANGED <<window, ui, ends, session, irm, offer, source, thread, rounds, sent,
                        asked>>

Serve ==
  /\ toServer # <<>> /\ toServer' = Tail(toServer)
  /\ LET m == Head(toServer)
     IN  IF m.kind = "send"
           THEN /\ lastId' = lastId + 1
                /\ toClient' = Append(toClient, [m EXCEPT !.id = lastId'])
           ELSE toClient' = Append(toClient, m) /\ UNCHANGED lastId
  /\ External /\ UNCHANGED offers

Offer ==
  /\ offers < MaxOffers /\ offers' = offers + 1 /\ lastId' = lastId + 1
  /\ toClient' = Append(toClient, [kind |-> "notify", id |-> lastId'])
  /\ External /\ UNCHANGED toServer

Withdraw ==
  /\ state = "receiving" /\ \A n \in 1..Len(toClient) : toClient[n].kind # "receivestop"
  /\ toClient' = Append(toClient, [kind |-> "receivestop", id |-> rcvId])
  /\ External /\ UNCHANGED <<toServer, lastId, offers>>

-----------------------------------------------------------------------------
User == StartClick \/ FinishClick \/ OnBtnCancelClick \/ OpenPlaylist

Ui == SetTransmitting \/ OnMovieSendEof \/ OnTimer

Sender == ThreadBegins \/ DeliverPacket \/ OnEOF

Irm == \/ OnMediaSend \/ OnMediaSendStop \/ WaitThread \/ NotifyEnd
       \/ OnMediaNotify \/ AcceptOffer \/ OnMediaReceiveStop

Next == User \/ Ui \/ Sender \/ Irm \/ Serve \/ Offer \/ Withdraw

Spec == Init /\ [][Next]_vars

(* Threads go on, timers run out, messages arrive. *)
FairSpec == Spec /\ WF_vars(Ui) /\ WF_vars(Sender) /\ WF_vars(Irm) /\ WF_vars(Serve)

-----------------------------------------------------------------------------
(* Properties. *)

(* The sending thread runs for the transmission the session stands for, and  *)
(* writes into the buffer that was made for it: nobody has reset or replaced *)
(* them under it.                                                            *)
SenderServes ==
  sender \in {"start", "run"} =>
    state = "transmitting" /\ sndId # 0 /\ buffer = sndId /\ running

(* A movie that comes to its end by itself was sent whole.                   *)
WholeFile == sender = "eof" /\ state = "transmitting" /\ running => sent = MaxPackets

(* A movie whose packets are still sent is stopped only when a button has    *)
(* been pressed since it began: no timer, event or cancel left over from     *)
(* another movie cuts it off.                                                *)
NobodyCutOff ==
  \A n \in 1..Len(toServer) :
    toServer[n] = Stop(sndId) /\ sender \in {"start", "run"} => asked

(* A counterexample in case "slow": the stop of the sending thread is lost,  *)
(* and the IRM thread waits for the rest of the movie.                       *)
StopIsHeard == irm = "join" /\ sender \in {"start", "run"} => terminate

(* The list goes on: the item that plays is not the last word.               *)
GoesOn == \A k \in -1..Items : started /\ item = k ~> ~started \/ item # k

(* "Finish current movie transmission and begin the next one"                *)
(* (PlaylistFrame.cpp): the button gets the list to its next item.           *)
FinishBeginsNext ==
  \A k \in -1..Items : started /\ finish /\ item = k ~> ~started \/ item # k
=============================================================================
