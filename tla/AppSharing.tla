------------------------------ MODULE AppSharing ------------------------------
(***************************************************************************)
(* The reception of a shared application: the kernel's session             *)
(* (ApplicationSharing) and the kernel's part in it (IPTVKernel), the      *)
(* receive library (ASModule, CxReceiveCross, CxReceiveThread), the client *)
(* that shows the frames, and the server, which is external.               *)
(*                                                                         *)
(* Three threads meet: the IRM thread handles the server's messages, the   *)
(* user interface thread leaves the channel and handles the events posted  *)
(* to it, the receive thread reads records and draws them.  A stop, by     *)
(* either of the first two, waits for the third.                           *)
(***************************************************************************)
EXTENDS Integers, Sequences

CONSTANTS
  MaxSharings,  \* bound: sharings others begin
  MaxLeaves,    \* bound: times the user leaves the channel
  MaxEvents,    \* bound: events waiting when a frame is posted
  Cases         \* which of the cases below are let in

Case == {"early",    \* a stop waits for a thread that has not begun yet
         "blank",    \* a screen update comes while there is no frame buffer
         "late",     \* a sharing begins while an earlier one may yet be asked for
         "overlap"}  \* IRM thread and user interface thread work at once

ASSUME SharingAssumption ==
  /\ MaxSharings \in Nat /\ MaxLeaves \in Nat /\ MaxEvents \in Nat \ {0}
  /\ Cases \subseteq Case

Ids == 1..MaxSharings
Controllers == {"irm", "ui"}

VARIABLES
  state, id,          \* m_state, m_receptionData.m_mediaId
  recv,               \* m_pASReceive is there
  frameFree,          \* its m_FrameMutex
  bits, quit,         \* its m_pBits, its thread's m_flQuiting
  rx, rxBuf,          \* the receive thread, and the buffers it reads
  net, aborted,       \* m_sockBuffs (the how manyth, 0 for none), and Abort on it
  pc, task,           \* where the two controllers are, and what they do
  events,             \* events posted to the user interface thread
  source,             \* m_asVideoSource
  toServer, toClient, \* messages under way
  shared,             \* the server: sharings that are on
  lastId, lastNet, leaves, \* counters
  ended               \* history: sharings whose end the client was told

session == <<state, id>>
library == <<recv, frameFree, bits, quit>>
thread  == <<rx, rxBuf>>
network == <<net, aborted, lastNet>>
ctrl    == <<pc, task>>
client  == <<events, source, ended>>
links   == <<toServer, toClient>>
server  == <<shared, lastId>>
vars    == <<session, library, thread, network, ctrl, client, links, server, leaves>>

Kinds == {"none", "notify", "receive", "stop", "leave"}
Event(k, i) == [kind |-> k, id |-> i]

(* Every member has its type. *)
TypeOK ==
  /\ state \in {"idle", "receiving"} /\ id \in {0} \union Ids
  /\ {recv, frameFree, bits, quit, aborted} \subseteq BOOLEAN
  /\ rx \in {"none", "start", "top", "read", "update", "event", "frame", "done"}
  /\ {rxBuf, net} \subseteq 0..lastNet /\ lastNet \in Nat
  /\ pc \in [Controllers -> {"idle", "stop", "reset", "end", "join", "clear",
                             "destroy", "accept", "open", "init", "begin"}]
  /\ task \in [Controllers -> [kind : Kinds, id : {0} \union Ids]]
  /\ events \in Seq([kind : {"begin", "frame", "end"}, id : {0} \union Ids])
  /\ source \in {"closed", "ok", "running"}
  /\ toServer \in Seq({"all", "allstop"})
  /\ toClient \in Seq([kind : {"notify", "receive", "stop"}, id : {0} \union Ids])
  /\ shared \subseteq Ids /\ lastId \in {0} \union Ids
  /\ leaves \in 0..MaxLeaves /\ ended \subseteq Ids

Init ==
  /\ state = "idle" /\ id = 0
  /\ recv = FALSE /\ frameFree = TRUE /\ bits = FALSE /\ quit = FALSE
  /\ rx = "none" /\ rxBuf = 0 /\ net = 0 /\ aborted = FALSE /\ lastNet = 0
  /\ pc = [c \in Controllers |-> "idle"] /\ task = [c \in Controllers |-> Event("none", 0)]
  /\ events = <<>> /\ source = "closed" /\ ended = {}
  /\ toServer = <<>> /\ toClient = <<>> /\ shared = {} /\ lastId = 0 /\ leaves = 0

-----------------------------------------------------------------------------
(* Steps of the two controllers. *)

Goto(c, l) == pc' = [pc EXCEPT ![c] = l]

(* A controller takes up a task; the two exclude each other but for overlap. *)
Begins(c, l, t) ==
  /\ pc[c] = "idle"
  /\ "overlap" \in Cases \/ \A d \in Controllers : pc[d] = "idle"
  /\ Goto(c, l) /\ task' = [task EXCEPT ![c] = t]

Incoming(k) == pc["irm"] = "idle" /\ toClient # <<>> /\ Head(toClient).kind = k
Received == toClient' = Tail(toClient) /\ UNCHANGED toServer

(* A message that finds the session in the wrong state. *)
Ignore ==
  /\ pc["irm"] = "idle" /\ toClient # <<>>
  /\ LET m == Head(toClient)
     IN  CASE m.kind = "notify"  -> state # "idle"
           [] m.kind = "receive" -> state # "receiving"
           [] m.kind = "stop"    -> m.id # id
  /\ Received
  /\ UNCHANGED <<session, library, thread, network, ctrl, client, server, leaves>>

(* OnMediaNotify(): a sharing has begun; the session is reset first. *)
OnMediaNotify ==
  /\ Incoming("notify") /\ state = "idle"
  /\ Begins("irm", "reset", Head(toClient)) /\ Received
  /\ UNCHANGED <<session, library, thread, network, client, server, leaves>>

(* OnMediaReceiveAll(), the answer to the request. *)
OnMediaReceiveAll ==
  /\ Incoming("receive") /\ state = "receiving"
  /\ Begins("irm", "open", Head(toClient)) /\ Received
  /\ UNCHANGED <<session, library, thread, network, client, server, leaves>>

(* Mutant: the client is told of the end at once. *)
OnMediaReceiveStopTellsFirst ==
  /\ Incoming("stop") /\ Head(toClient).id = id
  /\ Begins("irm", "stop", Head(toClient)) /\ Received
  /\ aborted' = (net # 0) /\ ended' = ended \union {id}
  /\ events' = Append(events, Event("end", id))
  /\ UNCHANGED <<session, library, thread, net, lastNet, source, server, leaves>>

(* OnMediaReceiveStop(), to ASNC_RECEIVE_END: AbortReception(). *)
OnMediaReceiveStop ==
  /\ Incoming("stop") /\ Head(toClient).id = id
  /\ Begins("irm", "stop", Head(toClient)) /\ Received
  /\ aborted' = (net # 0)
  /\ UNCHANGED <<session, library, thread, net, lastNet, client, server, leaves>>

(* TerminateAllMediaTransmissions(): the user leaves. *)
TerminateAllMediaTransmissions ==
  /\ leaves < MaxLeaves /\ leaves' = leaves + 1
  /\ Begins("ui", "stop", Event("leave", 0))
  /\ aborted' = (net # 0)
  /\ UNCHANGED <<session, library, thread, net, lastNet, client, links, server>>

(* ASNC_RECEIVE_INIT: the transceiver's InitializeReception(), which begins  *)
(* with DestroyReception(), and CreateAppSharingBuffer().                    *)
OpenReception(ok) ==
  /\ pc["irm"] = "open"
  /\ net' = lastNet + 1 /\ lastNet' = lastNet + 1 /\ aborted' = FALSE
  /\ Goto("irm", IF ok THEN "init" ELSE "stop")
  /\ UNCHANGED <<session, library, thread, task, client, links, server, leaves>>

(* InitializeReception() of session and library: object and thread. *)
InitializeReception ==
  /\ pc["irm"] = "init"
  /\ IF state = "receiving" /\ ~recv
       THEN /\ recv' = TRUE /\ frameFree' = TRUE /\ bits' = FALSE /\ quit' = FALSE
            /\ rx' = "start" /\ rxBuf' = net /\ Goto("irm", "begin")
       ELSE Goto("irm", "idle") /\ UNCHANGED <<library, thread>>
  /\ UNCHANGED <<session, network, task, client, links, server, leaves>>

(* AS_NOTIFY_RECEIVE_START, under the session's lock. *)
OnReceiveStart ==
  /\ pc["irm"] = "begin" /\ rx # "frame" /\ Goto("irm", "idle")
  /\ events' = IF state = "receiving" THEN Append(events, Event("begin", id)) ELSE events
  /\ UNCHANGED <<session, library, thread, network, task, source, ended, links, server, leaves>>

(* Mutant: the buffers are destroyed before the thread is stopped. *)
StopReceptionDestroysFirst(c) ==
  /\ pc[c] = "stop" /\ net' = 0 /\ aborted' = FALSE
  /\ IF state = "receiving"
       THEN toServer' = Append(toServer, "allstop") /\ Goto(c, "reset")
       ELSE /\ Goto(c, IF task[c].kind = "receive" THEN "idle" ELSE "destroy")
            /\ UNCHANGED toServer
  /\ UNCHANGED <<session, library, thread, lastNet, task, client, toClient, server, leaves>>

(* StopReception(). *)
StopReception(c) ==
  /\ pc[c] = "stop"
  /\ IF state = "receiving"
       THEN toServer' = Append(toServer, "allstop") /\ Goto(c, "reset")
       ELSE /\ Goto(c, IF task[c].kind = "receive" THEN "idle" ELSE "destroy")
            /\ UNCHANGED toServer
  /\ UNCHANGED <<session, library, thread, network, task, client, toClient, server, leaves>>

(* Mutant: Reset() does not end the library's reception. *)
ResetSessionOnly(c) ==
  /\ pc[c] = "reset" /\ Goto(c, "clear")
  /\ aborted' = (net # 0)
  /\ UNCHANGED <<session, library, thread, net, lastNet, task, client, links, server, leaves>>

(* Reset() up to the test of m_pASReceive: ASNC_RECEIVE_ABORT. *)
Reset(c) ==
  /\ pc[c] = "reset" /\ Goto(c, IF recv THEN "end" ELSE "clear")
  /\ aborted' = (net # 0)
  /\ UNCHANGED <<session, library, thread, net, lastNet, task, client, links, server, leaves>>

(* Mutant: the thread is not told to quit. *)
EndWithoutQuit(c) ==
  /\ pc[c] = "end" /\ frameFree /\ Goto(c, "join")
  /\ frameFree' = FALSE
  /\ UNCHANGED <<session, recv, bits, quit, thread, network, task, client, links, server, leaves>>

(* End(): m_FrameMutex is taken, and not given back; the thread is to quit. *)
End(c) ==
  /\ pc[c] = "end" /\ frameFree /\ Goto(c, "join")
  /\ frameFree' = FALSE /\ quit' = TRUE
  /\ UNCHANGED <<session, recv, bits, thread, network, task, client, links, server, leaves>>

(* WaitForMe(), which passes when the thread has not taken its event yet;    *)
(* thread and object are deleted, AS_NOTIFY_RECEIVE_STOP does nothing.       *)
WaitForMe(c) ==
  /\ pc[c] = "join" /\ Goto(c, "clear")
  /\ rx = "done" \/ ("early" \in Cases /\ rx = "start")
  /\ rx' = IF rx = "done" THEN "none" ELSE rx
  /\ recv' = FALSE
  /\ UNCHANGED <<session, frameFree, bits, quit, rxBuf, network, task, client, links, server, leaves>>

(* The rest of Reset(). *)
ResetClear(c) ==
  /\ pc[c] = "clear" /\ state' = "idle" /\ id' = 0
  /\ Goto(c, CASE task[c].kind = "notify"  -> "accept"
               [] task[c].kind = "receive" -> "idle"
               [] OTHER                    -> "destroy")
  /\ UNCHANGED <<library, thread, network, task, client, links, server, leaves>>

(* OnMediaNotify() goes on: the offer is stored and asked for. *)
RequestMediaReceiveAll ==
  /\ pc["irm"] = "accept" /\ Goto("irm", "idle")
  /\ id' = task["irm"].id /\ state' = "receiving"
  /\ toServer' = Append(toServer, "all")
  /\ UNCHANGED <<library, thread, network, task, client, toClient, server, leaves>>

(* DestroyReception(); the client is told of the end of a sharing, not of    *)
(* one the user has left.                                                    *)
DestroyReception(c) ==
  /\ pc[c] = "destroy" /\ Goto(c, "idle")
  /\ net' = 0 /\ aborted' = FALSE
  /\ IF task[c].kind = "stop"
       THEN events' = Append(events, Event("end", task[c].id)) /\ ended' = ended \union {task[c].id}
       ELSE UNCHANGED <<events, ended>>
  /\ UNCHANGED <<session, library, thread, lastNet, task, source, links, server, leaves>>

-----------------------------------------------------------------------------
(* The receive thread. *)

At(from, to) == rx = from /\ rx' = to
KeepsFrame == UNCHANGED <<session, quit, recv, rxBuf, network, ctrl, source, ended, links, server, leaves>>

ThreadBegins == At("start", "top") /\ KeepsFrame /\ UNCHANGED <<frameFree, bits, events>>

(* The top of the loop. *)
TestQuiting ==
  /\ At("top", IF quit THEN "done" ELSE "read")
  /\ KeepsFrame /\ UNCHANGED <<frameFree, bits, events>>

(* Read() fails once the buffers are aborted. *)
ReadFails ==
  /\ At("read", "top") /\ aborted
  /\ KeepsFrame /\ UNCHANGED <<frameFree, bits, events>>

(* RDT_BITMAPHEADER or RDT_UPDATE_FRAMESIZE, which gives the frame buffer up *)
(* first: CreateFrameBuffer() makes one, unless the header leaves no room    *)
(* for it.                                                                   *)
ReadHeader ==
  /\ At("read", "top") /\ ~aborted
  /\ bits' \in IF quit THEN {bits} ELSE BOOLEAN
  /\ KeepsFrame /\ UNCHANGED <<frameFree, events>>

(* RDT_UPDATE_SCREEN. *)
ReadUpdate ==
  /\ At("read", IF quit THEN "top" ELSE "update") /\ ~aborted
  /\ bits \/ "blank" \in Cases
  /\ KeepsFrame /\ UNCHANGED <<frameFree, bits, events>>

(* UpdateScreen() draws under m_FrameMutex; without a frame buffer it        *)
(* returns and does not give the mutex back.                                 *)
UpdateScreen ==
  /\ At("update", IF bits THEN "event" ELSE "top") /\ frameFree
  /\ frameFree' = bits
  /\ KeepsFrame /\ UNCHANGED <<bits, events>>

(* OnASEvent(AS_NOTIFY_RECEIVE_NEW_FRAME): it takes the session's lock,      *)
(* which the thread holds while it is at "frame".                            *)
OnASEvent ==
  /\ At("event", IF state = "receiving" THEN "frame" ELSE "top")
  /\ KeepsFrame /\ UNCHANGED <<frameFree, bits, events>>

(* GetFrame() under m_FrameMutex; the frame is posted, the lock given back. *)
GetFrame ==
  /\ At("frame", "top") /\ frameFree /\ Len(events) < MaxEvents
  /\ events' = Append(events, Event("frame", id))
  /\ KeepsFrame /\ UNCHANGED <<frameFree, bits>>

-----------------------------------------------------------------------------
(* The client: OnAppSharingBegin, OnAppSharingNewFrame, OnAppSharingEnd.     *)
HandleEvent ==
  /\ pc["ui"] = "idle" /\ events # <<>>
  /\ events' = Tail(events)
  /\ source' = CASE Head(events).kind = "begin" -> IF source = "closed" THEN "ok" ELSE source
                 [] Head(events).kind = "frame" -> IF source = "ok" THEN "running" ELSE source
                 [] Head(events).kind = "end"   -> "closed"
  /\ UNCHANGED <<session, library, thread, network, ctrl, ended, links, server, leaves>>

-----------------------------------------------------------------------------
(* The server: users share an application and end it; a request for what is  *)
(* shared is answered.                                                       *)

(* A request is under way, or will be: its answer does not say which sharing *)
(* it is for.                                                                *)
Asking == \/ toServer # <<>>
          \/ \E j \in 1..Len(toClient) : toClient[j].kind = "notify"
          \/ task["irm"].kind = "notify" /\ pc["irm"] # "idle"

Share ==
  /\ lastId < MaxSharings /\ ("late" \in Cases \/ ~Asking)
  /\ lastId' = lastId + 1 /\ shared' = shared \union {lastId + 1}
  /\ toClient' = Append(toClient, Event("notify", lastId + 1))
  /\ UNCHANGED <<session, library, thread, network, ctrl, client, toServer, leaves>>

EndShare(i) ==
  /\ i \in shared /\ shared' = shared \ {i}
  /\ toClient' = Append(toClient, Event("stop", i))
  /\ UNCHANGED <<session, library, thread, network, ctrl, client, toServer, lastId, leaves>>

Answer ==
  /\ toServer # <<>> /\ toServer' = Tail(toServer)
  /\ toClient' = IF Head(toServer) = "all" THEN Append(toClient, Event("receive", 0)) ELSE toClient
  /\ UNCHANGED <<session, library, thread, network, ctrl, client, server, leaves>>

-----------------------------------------------------------------------------
Thread == ThreadBegins \/ TestQuiting \/ ReadFails \/ UpdateScreen \/ OnASEvent \/ GetFrame

Records == ReadHeader \/ ReadUpdate

Stops(c) == StopReception(c) \/ Reset(c) \/ End(c) \/ WaitForMe(c) \/ ResetClear(c)
            \/ DestroyReception(c)

Begun == \/ \E ok \in BOOLEAN : OpenReception(ok)
         \/ InitializeReception \/ OnReceiveStart \/ RequestMediaReceiveAll

Handle == Ignore \/ OnMediaNotify \/ OnMediaReceiveAll \/ OnMediaReceiveStop

Server == Share \/ Answer \/ \E i \in Ids : EndShare(i)

Next == \/ Thread \/ Records \/ Begun \/ Handle \/ HandleEvent \/ Server
        \/ TerminateAllMediaTransmissions
        \/ \E c \in Controllers : Stops(c)

Spec == Init /\ [][Next]_vars

(* The operating system runs every thread; records, users and the server's   *)
(* messages come when they come.                                             *)
Fairness == /\ WF_vars(Thread) /\ WF_vars(Begun) /\ WF_vars(HandleEvent)
            /\ \A c \in Controllers : WF_vars(Stops(c))

FairSpec == Spec /\ Fairness

-----------------------------------------------------------------------------
(* Properties. *)

(* No frame of a sharing reaches the client after the end of it, and none    *)
(* that belongs to no sharing: the session's data is cleared by one thread   *)
(* while another fills in a frame's event from it.                           *)
NoFrameAfterEnd ==
  \A j \in 1..Len(events) : events[j].kind = "frame" =>
    /\ events[j].id # 0
    /\ events[j].id \in ended => \E k \in j..Len(events) : events[k] = Event("end", events[j].id)

(* The receive thread works on an object that is there, and reads buffers    *)
(* that have not been deleted.                                               *)
NoDeletedBuffer == rx # "none" => recv /\ (rx = "read" => rxBuf = net)

(* An idle session has left nothing behind: no object, no thread, and a      *)
(* connection only if it has been aborted.                                   *)
IdleMeansGone ==
  (state = "idle" /\ \A c \in Controllers : pc[c] = "idle")
    => ~recv /\ rx = "none" /\ (net # 0 => aborted)

(* A stop that finds the thread outside a frame comes to its end. *)
QuietStopEnds ==
  \A c \in Controllers :
    (pc[c] = "end" /\ rx \in {"start", "top", "read", "done"}) ~> pc[c] = "idle"

(* Every stop comes to its end. *)
StopEnds == \A c \in Controllers : pc[c] = "end" ~> pc[c] = "idle"
=============================================================================
