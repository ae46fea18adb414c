------------------------ MODULE FileTransferSession ------------------------
(***************************************************************************)
(* The kernel's FileTransfer module: one client's session with the IRM     *)
(* server around the transfer engine.  The IRM thread handles the server's *)
(* messages one by one, the user interface thread begins and cancels, the  *)
(* engine's own thread reports the end of a transfer.  The session's       *)
(* members have no lock: where a handler calls out, to the engine or to    *)
(* the server, another thread can come between, and the handler is as many *)
(* actions.                                                                *)
(***************************************************************************)
EXTENDS Integers, Sequences, FiniteSets

CONSTANTS
  Channels,     \* the channels a file can be sent to
  MaxStarts,    \* bound: transmissions the user begins
  MaxOffers,    \* bound: transmissions others offer
  EarlyCancel,  \* TRUE: a transmission may be cancelled before the server answered
  Interleave    \* TRUE: one thread may begin a handler inside another's

ASSUME SessionAssumption ==
  /\ Channels # {} /\ MaxStarts \in Nat /\ MaxOffers \in Nat
  /\ EarlyCancel \in BOOLEAN /\ Interleave \in BOOLEAN

Ids == 1..(MaxStarts + MaxOffers)
Threads == {"irm", "ui"}
None == "none"
ASSUME NoneAssumption == None \notin Channels

VARIABLES
  state,          \* m_state
  rcvId, sndId,   \* m_receptionData.m_mediaId, m_transmissionData.m_mediaId
  sndChannel,     \* m_transmissionData.m_channel
  engine,         \* m_fileTransferProxy: what it is busy with
  toServer,       \* requests under way to the IRM server
  toClient,       \* its messages under way to the client
  pc, arg,        \* each thread: where it is, and for which medium or channel
  mine, joined,   \* the server: media this client sends, media it receives
  offered,        \* the server: media others send
  lastId,         \* the server: the last media id given out
  starts, offers  \* bounds

session == <<state, rcvId, sndId, sndChannel, engine>>
threads == <<pc, arg>>
server  == <<mine, joined, offered, lastId>>
counts  == <<starts, offers>>
vars    == <<session, toServer, toClient, threads, server, counts>>

Messages == [kind : {"send", "sendstop", "receive", "receivestop", "notify"},
             id : {0} \cup Ids, channel : Channels \cup {None}]

Message(kind, id)  == [kind |-> kind, id |-> id, channel |-> None]
Off == [mode |-> "off", id |-> 0, ended |-> FALSE]

TypeOK ==
  /\ state \in {"idle", "receiving", "transmitting"}
  /\ rcvId \in {0} \cup Ids /\ sndId \in {0} \cup Ids
  /\ sndChannel \in Channels \cup {None}
  /\ engine \in [mode : {"off", "rcv", "snd"}, id : {0} \cup Ids, ended : BOOLEAN]
  /\ toServer \in Seq(Messages) /\ toClient \in Seq(Messages)
  /\ pc \in [Threads -> {"idle", "reset", "clear", "state", "request", "accept", "ask",
                         "store", "rcvbegin", "sndbegin"}]
  /\ arg \in [Threads -> [then : {"idle", "state", "accept"}, id : {0} \cup Ids,
                          channel : Channels \cup {None}]]
  /\ mine \subseteq Ids /\ joined \subseteq Ids /\ offered \subseteq Ids
  /\ lastId \in {0} \cup Ids /\ starts \in 0..MaxStarts /\ offers \in 0..MaxOffers

Init ==
  /\ state = "idle" /\ rcvId = 0 /\ sndId = 0 /\ sndChannel = None /\ engine = Off
  /\ toServer = <<>> /\ toClient = <<>>
  /\ pc = [t \in Threads |-> "idle"]
  /\ arg = [t \in Threads |-> [then |-> "idle", id |-> 0, channel |-> None]]
  /\ mine = {} /\ joined = {} /\ offered = {} /\ lastId = 0 /\ starts = 0 /\ offers = 0

Goto(t, label) == pc' = [pc EXCEPT ![t] = label]

(* A thread is free to begin a handler. *)
Free(t) ==
  /\ pc[t] = "idle"
  /\ Interleave \/ \A u \in Threads : pc[u] = "idle"

(* RequestMediaSendStop and RequestMediaReceiveStop do nothing without an id.*)
Request(kind, id) ==
  toServer' = IF id = 0 THEN toServer ELSE Append(toServer, Message(kind, id))

(* Thread t goes into Reset() and then on to label next. *)
GoReset(t, next, id, channel) ==
  /\ Goto(t, "reset")
  /\ arg' = [arg EXCEPT ![t] = [then |-> next, id |-> id, channel |-> channel]]

-----------------------------------------------------------------------------
(* Reset(): the engine, then the session's own members. *)

(* Mutant: the engine is left running. *)
ResetEngineNot(t) ==
  /\ pc[t] = "reset" /\ Goto(t, "clear")
  /\ UNCHANGED <<session, toServer, toClient, arg, server, counts>>

ResetEngine(t) ==
  /\ pc[t] = "reset"
  /\ engine' = Off /\ Goto(t, "clear")
  /\ UNCHANGED <<state, rcvId, sndId, sndChannel, toServer, toClient, arg, server, counts>>

(* Mutants: no medium is -1; the state is left as it is. *)
ResetSessionOtherNone(t) ==
  /\ pc[t] = "clear"
  /\ rcvId' = -1 /\ sndId' = -1 /\ sndChannel' = None /\ state' = "idle"
  /\ Goto(t, arg[t].then)
  /\ UNCHANGED <<engine, toServer, toClient, arg, server, counts>>

ResetSessionKeepsState(t) ==
  /\ pc[t] = "clear"
  /\ rcvId' = 0 /\ sndId' = 0 /\ sndChannel' = None
  /\ Goto(t, arg[t].then)
  /\ UNCHANGED <<state, engine, toServer, toClient, arg, server, counts>>

ResetSession(t) ==
  /\ pc[t] = "clear"
  /\ rcvId' = 0 /\ sndId' = 0 /\ sndChannel' = None /\ state' = "idle"
  /\ Goto(t, arg[t].then)
  /\ UNCHANGED <<engine, toServer, toClient, arg, server, counts>>

-----------------------------------------------------------------------------
(* The user interface thread. *)

BeginTransmission(c) ==
  /\ Free("ui") /\ state = "idle" /\ starts < MaxStarts
  /\ starts' = starts + 1
  /\ GoReset("ui", "state", 0, c)
  /\ UNCHANGED <<session, toServer, toClient, server, offers>>

SetTransmitting ==
  /\ pc["ui"] = "state"
  /\ state' = "transmitting" /\ Goto("ui", "request")
  /\ UNCHANGED <<rcvId, sndId, sndChannel, engine, toServer, toClient, arg, server, counts>>

RequestMediaSend ==
  /\ pc["ui"] = "request"
  /\ sndChannel' = arg["ui"].channel
  /\ toServer' = Append(toServer, [kind |-> "send", id |-> 0, channel |-> arg["ui"].channel])
  /\ Goto("ui", "idle")
  /\ UNCHANGED <<state, rcvId, sndId, engine, toClient, arg, server, counts>>

(* Mutant: the server is not told. *)
CancelTransmissionSilently ==
  /\ Free("ui") /\ state = "transmitting" /\ (EarlyCancel \/ sndId # 0)
  /\ GoReset("ui", "idle", 0, None)
  /\ UNCHANGED <<session, toServer, toClient, server, counts>>

CancelTransmission ==
  /\ Free("ui") /\ state = "transmitting" /\ (EarlyCancel \/ sndId # 0)
  /\ Request("sendstop", sndId)
  /\ GoReset("ui", "idle", 0, None)
  /\ UNCHANGED <<session, toClient, server, counts>>

CancelReception ==
  /\ Free("ui") /\ state = "receiving"
  /\ Request("receivestop", rcvId)
  /\ GoReset("ui", "idle", 0, None)
  /\ UNCHANGED <<session, toClient, server, counts>>

-----------------------------------------------------------------------------
(* The IRM thread: the message at the head of the connection. *)

Take(kind) ==
  /\ Free("irm") /\ toClient # <<>> /\ Head(toClient).kind = kind
  /\ toClient' = Tail(toClient)

(* OnMediaNotify("SEND"): somebody offers a file. *)
OnMediaNotify ==
  /\ Take("notify")
  /\ IF state = "idle" THEN GoReset("irm", "accept", Head(toClient).id, None)
                       ELSE UNCHANGED threads
  /\ UNCHANGED <<session, toServer, server, counts>>

SetReceiving ==
  /\ pc["irm"] = "accept"
  /\ state' = "receiving" /\ Goto("irm", "ask")
  /\ UNCHANGED <<rcvId, sndId, sndChannel, engine, toServer, toClient, arg, server, counts>>

RequestMediaReceive ==
  /\ pc["irm"] = "ask"
  /\ Request("receive", arg["irm"].id) /\ Goto("irm", "store")
  /\ UNCHANGED <<session, toClient, arg, server, counts>>

StoreReception ==
  /\ pc["irm"] = "store"
  /\ rcvId' = arg["irm"].id /\ Goto("irm", "idle")
  /\ UNCHANGED <<state, sndId, sndChannel, engine, toServer, toClient, arg, server, counts>>

(* OnMediaReceive(): the tests, and the notification to the kernel.          *)
OnMediaReceive ==
  /\ Take("receive")
  /\ IF state = "receiving" /\ Head(toClient).id = rcvId
       THEN Goto("irm", "rcvbegin")
       ELSE UNCHANGED pc
  /\ UNCHANGED <<session, toServer, arg, server, counts>>

(* Then BeginReceive and RunRX.  When BeginReceive fails there is            *)
(* "nothing to do".                                                          *)
BeginReceive(ok) ==
  /\ pc["irm"] = "rcvbegin"
  /\ engine' = IF ok /\ rcvId # 0 /\ engine = Off
                 THEN [mode |-> "rcv", id |-> rcvId, ended |-> FALSE]
                 ELSE engine
  /\ Goto("irm", "idle")
  /\ UNCHANGED <<state, rcvId, sndId, sndChannel, toServer, toClient, arg, server, counts>>

OnMediaReceiveStop ==
  /\ Take("receivestop")
  /\ IF state = "receiving" /\ Head(toClient).id = rcvId
       THEN GoReset("irm", "idle", 0, None)
       ELSE UNCHANGED threads
  /\ UNCHANGED <<session, toServer, server, counts>>

(* OnMediaSend(): the server's answer, known by its channel alone. *)
OnMediaSend ==
  /\ Take("send")
  /\ IF state = "transmitting" /\ Head(toClient).channel = sndChannel
       THEN sndId' = Head(toClient).id /\ Goto("irm", "sndbegin")
       ELSE UNCHANGED <<sndId, pc>>
  /\ UNCHANGED <<state, rcvId, sndChannel, engine, toServer, arg, server, counts>>

(* Mutant: the failure is not reported to the server. *)
BeginSendSilently(ok) ==
  /\ pc["irm"] = "sndbegin"
  /\ IF ok /\ sndId # 0 /\ engine = Off
       THEN /\ engine' = [mode |-> "snd", id |-> sndId, ended |-> FALSE]
            /\ Goto("irm", "idle") /\ UNCHANGED <<arg, toServer>>
       ELSE /\ GoReset("irm", "idle", 0, None) /\ UNCHANGED <<engine, toServer>>
  /\ UNCHANGED <<state, rcvId, sndId, sndChannel, toClient, server, counts>>

(* BeginSend and RunTX; without an id, or with a busy engine, that fails,    *)
(* and on failure the server is told and the session reset.                  *)
BeginSend(ok) ==
  /\ pc["irm"] = "sndbegin"
  /\ IF ok /\ sndId # 0 /\ engine = Off
       THEN /\ engine' = [mode |-> "snd", id |-> sndId, ended |-> FALSE]
            /\ Goto("irm", "idle") /\ UNCHANGED <<arg, toServer>>
       ELSE /\ Request("sendstop", sndId)
            /\ GoReset("irm", "idle", 0, None) /\ UNCHANGED engine
  /\ UNCHANGED <<state, rcvId, sndId, sndChannel, toClient, server, counts>>

OnMediaSendStop ==
  /\ Take("sendstop")
  /\ IF state = "transmitting" /\ Head(toClient).id = sndId
       THEN GoReset("irm", "idle", 0, None)
       ELSE UNCHANGED threads
  /\ UNCHANGED <<session, toServer, server, counts>>

-----------------------------------------------------------------------------
(* The engine's thread comes to its end, well or badly. *)

(* Mutant: the server is not told; the session waits for its stop.           *)
TransferEndsSilently ==
  /\ engine # Off /\ ~engine.ended
  /\ engine' = [engine EXCEPT !.ended = TRUE]
  /\ UNCHANGED <<state, rcvId, sndId, sndChannel, toServer, toClient, threads, server, counts>>

(* OnFileTransferSendSuccess, SendError, ReceiveSuccess, ReceiveError: the   *)
(* server is asked to stop; its answer resets the session.                   *)
TransferEnds ==
  /\ engine # Off /\ ~engine.ended
  /\ engine' = [engine EXCEPT !.ended = TRUE]
  /\ IF engine.mode = "snd" /\ state = "transmitting" THEN Request("sendstop", sndId)
     ELSE IF engine.mode = "rcv" /\ state = "receiving" THEN Request("receivestop", rcvId)
     ELSE UNCHANGED toServer
  /\ UNCHANGED <<state, rcvId, sndId, sndChannel, toClient, threads, server, counts>>

-----------------------------------------------------------------------------
(* The IRM server, as far as the client relies on it: it serves requests in  *)
(* order and answers each; a reception that came too late it answers with a  *)
(* stop.  (The answers to MEDIARCVRUN are left out: nothing is done there.)  *)

Serve(kind) ==
  /\ toServer # <<>> /\ Head(toServer).kind = kind
  /\ toServer' = Tail(toServer)
  /\ UNCHANGED <<session, threads, counts>>

ServeSend ==
  /\ Serve("send")
  /\ lastId' = lastId + 1 /\ mine' = mine \cup {lastId'}
  /\ toClient' = Append(toClient, [Head(toServer) EXCEPT !.id = lastId'])
  /\ UNCHANGED <<joined, offered>>

ServeSendStop ==
  /\ Serve("sendstop")
  /\ mine' = mine \ {Head(toServer).id}
  /\ toClient' = Append(toClient, Head(toServer))
  /\ UNCHANGED <<joined, offered, lastId>>

ServeReceive ==
  /\ Serve("receive")
  /\ LET id == Head(toServer).id
     IN  IF id \in offered
           THEN joined' = joined \cup {id} /\ toClient' = Append(toClient, Head(toServer))
           ELSE toClient' = Append(toClient, Message("receivestop", id)) /\ UNCHANGED joined
  /\ UNCHANGED <<mine, offered, lastId>>

ServeReceiveStop ==
  /\ Serve("receivestop")
  /\ joined' = joined \ {Head(toServer).id}
  /\ toClient' = Append(toClient, Head(toServer))
  /\ UNCHANGED <<mine, offered, lastId>>

(* Somebody else begins to send, or stops. *)
Offer ==
  /\ offers < MaxOffers /\ offers' = offers + 1
  /\ lastId' = lastId + 1 /\ offered' = offered \cup {lastId'}
  /\ toClient' = Append(toClient, Message("notify", lastId'))
  /\ UNCHANGED <<session, toServer, threads, mine, joined, starts>>

Withdraw(id) ==
  /\ id \in offered /\ offered' = offered \ {id}
  /\ joined' = joined \ {id}
  /\ toClient' = IF id \in joined THEN Append(toClient, Message("receivestop", id))
                                  ELSE toClient
  /\ UNCHANGED <<session, toServer, threads, mine, lastId, counts>>

-----------------------------------------------------------------------------
Reset(t) == ResetEngine(t) \/ ResetSession(t)

User == CancelTransmission \/ CancelReception \/ \E c \in Channels : BeginTransmission(c)

UiSteps == SetTransmitting \/ RequestMediaSend \/ Reset("ui")

Irm == \/ OnMediaNotify \/ SetReceiving \/ RequestMediaReceive \/ StoreReception
       \/ OnMediaReceive \/ OnMediaReceiveStop \/ OnMediaSend \/ OnMediaSendStop
       \/ \E ok \in BOOLEAN : BeginReceive(ok) \/ BeginSend(ok)
       \/ Reset("irm")

Server == ServeSend \/ ServeSendStop \/ ServeReceive \/ ServeReceiveStop

Next == User \/ UiSteps \/ Irm \/ TransferEnds \/ Server \/ Offer
        \/ \E id \in Ids : Withdraw(id)

Spec == Init /\ [][Next]_vars

(* Threads go on, messages arrive; users and others do as they like.         *)
FairSpec == Spec /\ WF_vars(UiSteps) /\ WF_vars(Irm) /\ WF_vars(Server)

-----------------------------------------------------------------------------
(* Properties. *)

Quiet == \A t \in Threads : pc[t] = "idle"
Settled == Quiet /\ toServer = <<>> /\ toClient = <<>>

(* The engine works only for the transfer the session stands for: an idle    *)
(* session has its engine off, so that the next BeginSend or BeginReceive    *)
(* finds it free.                                                            *)
EngineServesSession ==
  Quiet =>
    /\ state = "idle" => engine = Off
    /\ engine.mode = "rcv" => state = "receiving" /\ engine.id = rcvId
    /\ engine.mode = "snd" => state = "transmitting" /\ engine.id = sndId

(* When a user has cancelled a reception, none goes on. *)
CancelledReceptionStops == Quiet /\ state = "idle" => engine.mode # "rcv"

(* When all messages are through, the server holds for this client only the  *)
(* medium of the session: cancelled and failed transfers are not left behind *)
(* there.                                                                    *)
NoOrphanMedium ==
  Settled =>
    /\ mine \subseteq (IF state = "transmitting" THEN {sndId} ELSE {})
    /\ joined \subseteq (IF state = "receiving" THEN {rcvId} ELSE {})

(* The other way round: a transmission the session stands for is known to    *)
(* the server, so a stop for it will be answered.                            *)
SessionHasMedium ==
  Settled /\ state = "transmitting" => sndId \in mine

(* A transfer that has come to its end leaves the session: the stop is       *)
(* asked for, answered, and resets it.                                       *)
EndedIsLeft == engine.ended ~> ~engine.ended
=============================================================================
