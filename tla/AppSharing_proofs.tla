-------------------------- MODULE AppSharing_proofs --------------------------
(***************************************************************************)
(* Proofs about AppSharing, for every number of sharings, departures and   *)
(* events: what the client is shown, that the receive thread works on what *)
(* is there, and that an idle session has left nothing behind.             *)
(***************************************************************************)
EXTENDS AppSharing, TLAPS

(* A stop waits for a thread that has begun, a request is answered before    *)
(* the next sharing is told of, and the two controllers take turns.  Updates *)
(* before the first header may come.                                         *)
InTurn == {"early", "late", "overlap"} \intersect Cases = {}

(* What the controllers are about; irm is never at a stop for a notice.      *)
ControlInv ==
  /\ pc["irm"] = "idle" \/ pc["ui"] = "idle"
  /\ pc["ui"] \in {"idle", "stop", "reset", "end", "join", "clear", "destroy"}
  /\ pc["ui"] # "idle" => task["ui"].kind = "leave"
  /\ pc["irm"] # "idle" => task["irm"].kind \in {"notify", "receive", "stop"}
  /\ task["irm"].kind = "notify"
       => pc["irm"] \in {"idle", "reset", "end", "join", "clear", "accept"}
  /\ pc["irm"] = "accept" => task["irm"].kind = "notify"
  /\ pc["irm"] \in {"open", "init", "begin"} => task["irm"].kind = "receive"
  /\ pc["irm"] = "destroy" => task["irm"].kind = "stop"

(* Object, thread and buffers live and die together, within the session.     *)
LifeInv ==
  /\ recv <=> rx # "none"
  /\ recv => state = "receiving" /\ rxBuf = net
  /\ state = "idle" => (net # 0 => aborted)
  /\ pc["irm"] \in {"open", "init"} => ~recv
  /\ pc["irm"] = "open" => state = "receiving"
  /\ \A c \in Controllers :
       /\ pc[c] \in {"end", "join", "clear"} => (net # 0 => aborted)
       /\ pc[c] \in {"clear", "accept", "destroy"} => ~recv
       /\ pc[c] \in {"accept", "destroy"} => state = "idle"

(* The IRM thread is handling a notice. *)
Noticing == pc["irm"] # "idle" /\ task["irm"].kind = "notify"

Requested == \E j \in 1..Len(toServer) : toServer[j] = "all"
IsAt(k, j) == j \in 1..Len(toClient) /\ toClient[j].kind = k
Answered == \E j \in 1..Len(toClient) : IsAt("receive", j)
Noticed == \E j \in 1..Len(toClient) : IsAt("notify", j)

(* There is one request at a time: it waits at the server, its answer is     *)
(* under way, or the reception has been opened for it; and a notice comes    *)
(* behind the answer to the request before it.                               *)
RequestInv ==
  /\ \A i, j \in 1..Len(toServer) : toServer[i] = "all" /\ toServer[j] = "all" => i = j
  /\ \A i, j \in 1..Len(toClient) :
       /\ IsAt("receive", i) /\ IsAt("receive", j) => i = j
       /\ IsAt("notify", i) /\ IsAt("notify", j) => i = j
       /\ IsAt("receive", i) /\ IsAt("notify", j) => i < j
  /\ Requested => ~Answered /\ ~Noticed /\ ~Noticing
  /\ recv \/ pc["irm"] \in {"open", "init"} => ~Requested /\ ~Answered
  /\ Noticing => ~Answered /\ ~Noticed

Told == 1..lastId

(* A sharing whose end the client was told is not the session's any more,    *)
(* nor to become so.                                                         *)
EndInv ==
  /\ ended \subseteq Told /\ shared \subseteq Told
  /\ IF state = "idle" THEN id = 0 ELSE id \in Told \ ended
  /\ Noticing => task["irm"].id \in Told \ ended
  /\ \A j \in 1..Len(toClient) : IsAt("notify", j) =>
       /\ toClient[j].id \in Told \ ended
       /\ toClient[j].id # id
  /\ \A j \in 1..Len(toClient) : IsAt("stop", j) => toClient[j].id \in Told
  /\ pc["irm"] # "idle" /\ task["irm"].kind = "stop" =>
       /\ task["irm"].id \in Told
       /\ \A j \in 1..Len(toClient) : IsAt("notify", j) => toClient[j].id # task["irm"].id

IInv == TypeOK /\ ControlInv /\ LifeInv /\ RequestInv /\ EndInv /\ NoFrameAfterEnd

-----------------------------------------------------------------------------
Message == [kind : {"notify", "receive", "stop"}, id : {0} \union Ids]
Posted == [kind : {"begin", "frame", "end"}, id : {0} \union Ids]

LEMMA First ==
  ASSUME NEW S, NEW q \in Seq(S), q # <<>>
  PROVE  /\ Head(q) = q[1] /\ Head(q) \in S
         /\ Len(q) \in Nat /\ Len(q) >= 1 /\ 1 \in 1..Len(q)
         /\ Tail(q) \in Seq(S) /\ Len(Tail(q)) = Len(q) - 1
         /\ \A i \in 1..Len(Tail(q)) : i + 1 \in 1..Len(q) /\ Tail(q)[i] = q[i + 1]
  OBVIOUS

LEMMA Last ==
  ASSUME NEW S, NEW q \in Seq(S), NEW e \in S
  PROVE  /\ Len(q) \in Nat
         /\ Append(q, e) \in Seq(S) /\ Len(Append(q, e)) = Len(q) + 1
         /\ Append(q, e)[Len(q) + 1] = e
         /\ \A i \in 1..Len(q) : Append(q, e)[i] = q[i]
  OBVIOUS

LEMMA Wider ==
  ASSUME NEW n \in Nat, NEW k \in 0..n
  PROVE  n + 1 \in Nat /\ k \in 0..(n + 1) /\ n + 1 \in 0..(n + 1)
  OBVIOUS

LEMMA TaskId ==
  ASSUME TypeOK, NEW c \in Controllers
  PROVE  task[c].id \in {0} \union Ids
  BY DEF TypeOK

LEMMA Posting ==
  ASSUME TypeOK, NEW k \in {"begin", "frame", "end"}, NEW i \in {0} \union Ids
  PROVE  Append(events, Event(k, i)) \in Seq(Posted)
<1>1. events \in Seq(Posted)
  BY DEF TypeOK, Posted
<1>2. Event(k, i) \in Posted
  BY DEF Event, Posted
<1> QED
  BY <1>1, <1>2, Last

LEMMA StopAsked ==
  ASSUME TypeOK, NEW c \in Controllers, StopReception(c)
  PROVE  toServer' \in Seq({"all", "allstop"})
<1>1. toServer \in Seq({"all", "allstop"})
  BY DEF TypeOK
<1>2. Append(toServer, "allstop") \in Seq({"all", "allstop"})
  BY <1>1, Last
<1> QED
  BY <1>1, <1>2 DEF StopReception

(* Only the IRM thread tells of an end, of a sharing that there was. *)
LEMMA EndTold ==
  ASSUME TypeOK, ControlInv, EndInv, NEW c \in Controllers, DestroyReception(c)
  PROVE  /\ events' \in Seq(Posted) /\ ended' \subseteq Told
         /\ task[c].kind = "stop" => c = "irm"
         /\ task[c].kind = "stop" => task[c].id \in Told
<1>1. pc[c] = "destroy"
  BY DEF DestroyReception
<1>2. task[c].kind = "stop" => c = "irm" /\ task[c].id \in Told
  BY <1>1 DEF ControlInv, EndInv, Controllers
<1>3. Append(events, Event("end", task[c].id)) \in Seq(Posted)
  BY TaskId, Posting
<1>4. events \in Seq(Posted)
  BY DEF TypeOK, Posted
<1>5. events' \in Seq(Posted)
  BY <1>3, <1>4 DEF DestroyReception
<1>6. ended' \subseteq Told
  BY <1>2 DEF DestroyReception, EndInv
<1> QED
  BY <1>2, <1>5, <1>6

LEMMA ToldIds == ASSUME TypeOK PROVE Told \subseteq Ids
  BY SharingAssumption DEF TypeOK, Told, Ids

LEMMA DestroyType ==
  ASSUME TypeOK, ControlInv, EndInv, NEW c \in Controllers, DestroyReception(c)
  PROVE  TypeOK'
<1>1. events' \in Seq(Posted) /\ ended' \subseteq Ids
  BY EndTold, ToldIds
<1>2. lastNet \in Nat /\ rxBuf \in 0..lastNet
  BY DEF TypeOK
<1>3. {rxBuf', net'} \subseteq 0..lastNet' /\ lastNet' \in Nat
  BY <1>2 DEF DestroyReception, thread
<1> QED
  BY <1>1, <1>3 DEF DestroyReception, TypeOK, Posted, Goto, Controllers, session, library,
     thread, links, server

(* The message at the head of the queue, and those behind it. *)
LEMMA HeadMessage ==
  ASSUME TypeOK, toClient # <<>>
  PROVE  /\ Len(toClient) \in Nat /\ 1 \in 1..Len(toClient) /\ Head(toClient) = toClient[1]
         /\ Len(Tail(toClient)) = Len(toClient) - 1
         /\ \A j \in 1..Len(Tail(toClient)) :
              j + 1 \in 1..Len(toClient) /\ Tail(toClient)[j] = toClient[j + 1]
<1>1. toClient \in Seq(Message)
  BY DEF TypeOK, Message
<1> QED
  BY <1>1, First

LEMMA AddedMessage ==
  ASSUME TypeOK, NEW m \in Message
  PROVE  /\ Len(toClient) \in Nat /\ Len(Append(toClient, m)) = Len(toClient) + 1
         /\ Append(toClient, m)[Len(toClient) + 1] = m
         /\ \A j \in 1..Len(toClient) : Append(toClient, m)[j] = toClient[j]
<1>1. toClient \in Seq(Message)
  BY DEF TypeOK, Message
<1> QED
  BY <1>1, Last

(* Messages at their places, when one is taken and when one is added. *)
LEMMA Ahead ==
  ASSUME TypeOK, toClient # <<>>, toClient' = Tail(toClient)
  PROVE  /\ \A k, j : IsAt(k, j)' => IsAt(k, j + 1) /\ toClient'[j] = toClient[j + 1]
         /\ Answered' => Answered
         /\ Noticed' => Noticed
<1>1. \A k, j : IsAt(k, j)' => IsAt(k, j + 1) /\ toClient'[j] = toClient[j + 1]
  BY HeadMessage DEF IsAt
<1>2. (Answered' => Answered) /\ (Noticed' => Noticed)
  <2>1. \A k : (\E j \in 1..Len(toClient') : IsAt(k, j)')
                  => \E j \in 1..Len(toClient) : IsAt(k, j)
    BY <1>1 DEF IsAt
  <2> QED
    BY <2>1 DEF Answered, Noticed
<1> QED
  BY <1>1, <1>2

LEMMA Behind ==
  ASSUME TypeOK, NEW m \in Message, toClient' = Append(toClient, m)
  PROVE  /\ \A k, j : IsAt(k, j)' <=> IsAt(k, j) \/ (m.kind = k /\ j = Len(toClient) + 1)
         /\ \A k, j : IsAt(k, j) => toClient'[j] = toClient[j]
         /\ toClient'[Len(toClient) + 1] = m
         /\ Len(toClient) \in Nat
         /\ Answered' <=> Answered \/ m.kind = "receive"
         /\ Noticed' <=> Noticed \/ m.kind = "notify"
<1>1. \A k, j : IsAt(k, j)' <=> IsAt(k, j) \/ (m.kind = k /\ j = Len(toClient) + 1)
  BY AddedMessage DEF IsAt
<1>2. \A k, j : IsAt(k, j) => toClient'[j] = toClient[j]
  BY AddedMessage DEF IsAt
<1>3. toClient'[Len(toClient) + 1] = m /\ Len(toClient) \in Nat /\ Len(toClient') = Len(toClient) + 1
  BY AddedMessage
<1>4. \A k : (\E j \in 1..Len(toClient') : IsAt(k, j)')
                <=> (\E j \in 1..Len(toClient) : IsAt(k, j)) \/ m.kind = k
  BY <1>1, <1>3 DEF IsAt
<1>5. (Answered' <=> Answered \/ m.kind = "receive") /\ (Noticed' <=> Noticed \/ m.kind = "notify")
  BY <1>4 DEF Answered, Noticed
<1> QED
  BY <1>1, <1>2, <1>3, <1>5

(* A message taken, and not handled as a notice, leaves the requests alone. *)
LEMMA RequestAhead ==
  ASSUME TypeOK, RequestInv, toClient # <<>>, toClient' = Tail(toClient),
         UNCHANGED <<toServer, recv, pc, task>>
  PROVE  RequestInv'
<1>1. Requested' <=> Requested
  BY DEF Requested
<1>2. Noticing' <=> Noticing
  BY DEF Noticing
<1>3. ASSUME NEW i \in 1..Len(toClient'), NEW j \in 1..Len(toClient')
      PROVE  /\ IsAt("receive", i)' /\ IsAt("receive", j)' => i = j
             /\ IsAt("notify", i)' /\ IsAt("notify", j)' => i = j
             /\ IsAt("receive", i)' /\ IsAt("notify", j)' => i < j
  <2>1. \A k : (IsAt(k, i)' => IsAt(k, i + 1)) /\ (IsAt(k, j)' => IsAt(k, j + 1))
    BY Ahead
  <2>2. i + 1 \in 1..Len(toClient) /\ j + 1 \in 1..Len(toClient)
    BY HeadMessage
  <2>3. /\ IsAt("receive", i + 1) /\ IsAt("receive", j + 1) => i + 1 = j + 1
        /\ IsAt("notify", i + 1) /\ IsAt("notify", j + 1) => i + 1 = j + 1
        /\ IsAt("receive", i + 1) /\ IsAt("notify", j + 1) => i + 1 < j + 1
    BY <2>2 DEF RequestInv
  <2>4. i \in Nat /\ j \in Nat
    BY <2>2, HeadMessage
  <2> QED
    BY <2>1, <2>3, <2>4
<1> QED
  BY <1>1, <1>2, <1>3, Ahead DEF RequestInv

LEMMA RequestStop ==
  ASSUME TypeOK, RequestInv, NEW c \in Controllers, StopReception(c), pc["irm"] # "accept",
         Noticing' <=> Noticing
  PROVE  RequestInv'
<1>1. \A j \in 1..Len(toServer') : toServer'[j] = "all" => j \in 1..Len(toServer) /\ toServer[j] = "all"
  <2>1. toServer \in Seq({"all", "allstop"})
    BY DEF TypeOK
  <2>2. CASE toServer' = toServer
    BY <2>2
  <2>3. CASE toServer' = Append(toServer, "allstop")
    BY <2>1, <2>3, Last
  <2> QED
    BY <2>2, <2>3 DEF StopReception
<1>2. Requested' => Requested
  BY <1>1 DEF Requested
<1>3. UNCHANGED <<toClient, recv>> /\ (pc'["irm"] \in {"open", "init"} => pc["irm"] \in {"open", "init"})
  BY DEF StopReception, library, Goto, TypeOK, Controllers
<1>4. (Answered' <=> Answered) /\ (Noticed' <=> Noticed) /\ \A k, j : IsAt(k, j)' <=> IsAt(k, j)
  BY <1>3 DEF Answered, Noticed, IsAt
<1> QED
  BY <1>1, <1>2, <1>3, <1>4 DEF RequestInv

LEMMA RequestShare ==
  ASSUME TypeOK, RequestInv, Share, ~Requested, ~Noticed, ~Noticing
  PROVE  RequestInv'
<1>1. Event("notify", lastId + 1) \in Message /\ Event("notify", lastId + 1).kind = "notify"
  BY SharingAssumption DEF Share, TypeOK, Message, Event, Ids
<1>2. toClient' = Append(toClient, Event("notify", lastId + 1)) /\ UNCHANGED <<toServer, recv, pc, task>>
  BY DEF Share, library, ctrl
<1>3. (Requested' <=> Requested) /\ (Noticing' <=> Noticing)
  BY <1>2 DEF Requested, Noticing
<1>4. /\ \A k, j : IsAt(k, j)' <=> IsAt(k, j) \/ ("notify" = k /\ j = Len(toClient) + 1)
      /\ Len(toClient) \in Nat
      /\ Answered' <=> Answered
  BY <1>1, <1>2, Behind
<1>5. \A j : ~IsAt("notify", j)
  BY DEF Noticed, IsAt
<1>6. \A k, j : IsAt(k, j) => j \in 1..Len(toClient)
  BY DEF IsAt
<1>7. \A i, j : /\ IsAt("receive", i)' /\ IsAt("receive", j)' => i = j
                /\ IsAt("notify", i)' /\ IsAt("notify", j)' => i = j
                /\ IsAt("receive", i)' /\ IsAt("notify", j)' => i < j
  BY <1>4, <1>5, <1>6 DEF RequestInv
<1> QED
  BY <1>2, <1>3, <1>4, <1>7 DEF RequestInv

LEMMA EndAhead ==
  ASSUME TypeOK, EndInv, toClient # <<>>, toClient' = Tail(toClient),
         UNCHANGED <<session, pc, task, ended, server>>
  PROVE  EndInv'
<1>1. ASSUME NEW k, NEW j \in 1..Len(toClient'), IsAt(k, j)'
      PROVE  /\ toClient'[j] = toClient[j + 1] /\ j + 1 \in 1..Len(toClient)
             /\ IsAt(k, j + 1)
  BY <1>1, Ahead DEF IsAt
<1> QED
  BY <1>1 DEF EndInv, session, server, Told, Noticing

(* A stop that is the session's names no sharing that is yet to be noticed. *)
LEMMA EndStop ==
  ASSUME TypeOK, EndInv, ControlInv, OnMediaReceiveStop
  PROVE  EndInv'
<1>1. /\ toClient # <<>> /\ Head(toClient).kind = "stop" /\ Head(toClient).id = id
      /\ toClient' = Tail(toClient) /\ UNCHANGED <<session, ended, server>>
  BY DEF OnMediaReceiveStop, Incoming, Received, client, server
<1>2. pc' = [pc EXCEPT !["irm"] = "stop"] /\ task' = [task EXCEPT !["irm"] = Head(toClient)]
  BY DEF OnMediaReceiveStop, Begins, Goto
<1>3. pc'["irm"] # "idle" /\ task'["irm"].kind = "stop" /\ task'["irm"].id = id
  BY <1>1, <1>2 DEF TypeOK, Controllers
<1>4. ~Noticing'
  BY <1>3 DEF Noticing
<1>5. id \in Told
  BY <1>1, HeadMessage DEF EndInv, IsAt
<1>6. ASSUME NEW k, NEW j \in 1..Len(toClient'), IsAt(k, j)'
      PROVE  /\ toClient'[j] = toClient[j + 1] /\ j + 1 \in 1..Len(toClient)
             /\ IsAt(k, j + 1)
  BY <1>1, <1>6, Ahead DEF IsAt
<1> QED
  BY <1>1, <1>3, <1>4, <1>5, <1>6 DEF EndInv, session, server, Told

(* DestroyReception() tells of the end of what the session has given up. *)
LEMMA EndDestroy ==
  ASSUME TypeOK, EndInv, ControlInv, LifeInv, NEW c \in Controllers, DestroyReception(c)
  PROVE  EndInv'
<1>1. pc[c] = "destroy" /\ state = "idle" /\ UNCHANGED <<session, task, toClient, shared, lastId>>
  BY DEF DestroyReception, LifeInv, links, server
<1>2. pc' = [pc EXCEPT ![c] = "idle"]
  BY DEF DestroyReception, Goto
<1>3. pc["irm"] # "idle" => c = "irm"
  BY <1>1 DEF ControlInv, Controllers
<1>4. pc'["irm"] = "idle"
  BY <1>2, <1>3 DEF TypeOK, Controllers
<1>5. CASE task[c].kind = "stop"
  <2>1. c = "irm" /\ task["irm"].id \in Told
    BY <1>5, EndTold
  <2>2. ended' = ended \union {task["irm"].id}
    BY <1>5, <2>1 DEF DestroyReception
  <2>3. \A j \in 1..Len(toClient) : IsAt("notify", j) => toClient[j].id # task["irm"].id
    BY <1>1, <1>5, <2>1 DEF EndInv
  <2> QED
    BY <1>1, <1>4, <2>1, <2>2, <2>3 DEF EndInv, session, Told, IsAt, Noticing
<1>6. CASE task[c].kind # "stop"
  <2>1. ended' = ended
    BY <1>6 DEF DestroyReception
  <2> QED
    BY <1>1, <1>4, <2>1 DEF EndInv, session, Told, IsAt, Noticing
<1> QED
  BY <1>5, <1>6

(* A sharing that begins has a number of its own. *)
LEMMA EndAdded ==
  ASSUME TypeOK, EndInv, NEW m \in Message, toClient' = Append(toClient, m),
         UNCHANGED <<session, pc, task, ended>>, Told \subseteq Told', shared' \subseteq Told',
         m.kind = "notify" => m.id \in Told' \ Told,
         m.kind = "stop" => m.id \in Told'
  PROVE  EndInv'
<1>1. ASSUME NEW k, NEW j \in 1..Len(toClient'), IsAt(k, j)'
      PROVE  \/ IsAt(k, j) /\ toClient'[j] = toClient[j] /\ j \in 1..Len(toClient)
             \/ m.kind = k /\ toClient'[j] = m
  BY <1>1, Behind DEF IsAt
<1>2. 0 \notin Told'
  BY DEF Told
<1> QED
  BY <1>1, <1>2 DEF EndInv, session, Noticing

LEMMA EndShared ==
  ASSUME TypeOK, EndInv, Share
  PROVE  EndInv'
<1>1. lastId \in Nat
  BY SharingAssumption DEF TypeOK, Ids
<1>5. lastId' = lastId + 1 /\ shared' = shared \union {lastId + 1}
  BY DEF Share
<1>2. Told \subseteq Told' /\ lastId + 1 \in Told' \ Told /\ shared' \subseteq Told'
  <2>1. Told' = 1..(lastId + 1)
    BY <1>5 DEF Told
  <2> QED
    BY <1>1, <1>5, <2>1 DEF Told, EndInv
<1>3. Event("notify", lastId + 1) \in Message /\ Event("notify", lastId + 1).kind = "notify"
      /\ Event("notify", lastId + 1).id = lastId + 1
  BY SharingAssumption DEF Share, TypeOK, Message, Event, Ids
<1>4. toClient' = Append(toClient, Event("notify", lastId + 1)) /\ UNCHANGED <<session, pc, task, ended>>
  BY DEF Share, ctrl, client
<1> QED
  BY <1>2, <1>3, <1>4, EndAdded

LEMMA EndOfShare ==
  ASSUME TypeOK, EndInv, NEW i \in Ids, EndShare(i)
  PROVE  EndInv'
<1>1. Event("stop", i) \in Message /\ Event("stop", i).kind = "stop" /\ Event("stop", i).id = i
  BY DEF Message, Event
<1>2. i \in Told /\ Told' = Told /\ shared' \subseteq Told
  BY DEF EndShare, EndInv, Told
<1>3. toClient' = Append(toClient, Event("stop", i)) /\ UNCHANGED <<session, pc, task, ended>>
  BY DEF EndShare, ctrl, client
<1> QED
  BY <1>1, <1>2, <1>3, EndAdded

LEMMA EndAnswer ==
  ASSUME TypeOK, EndInv, Answer
  PROVE  EndInv'
<1>1. Event("receive", 0) \in Message /\ Event("receive", 0).kind = "receive"
  BY DEF Message, Event
<1>2. UNCHANGED <<session, pc, task, ended, shared, lastId>>
  BY DEF Answer, ctrl, client, server
<1>3. Told' = Told /\ shared' \subseteq Told
  BY <1>2 DEF EndInv, Told
<1>4. CASE toClient' = Append(toClient, Event("receive", 0))
  BY <1>1, <1>2, <1>3, <1>4, EndAdded
<1>5. CASE toClient' = toClient
  BY <1>2, <1>5 DEF EndInv, session, Told, Noticing, IsAt
<1> QED
  BY <1>4, <1>5 DEF Answer

(* A frame handed to the client is of the sharing that is on. *)
LEMMA FramePosted ==
  ASSUME TypeOK, LifeInv, EndInv, NoFrameAfterEnd, GetFrame
  PROVE  NoFrameAfterEnd'
<1> DEFINE e == Event("frame", id)
<1>1. events' = Append(events, e) /\ ended' = ended
  BY DEF GetFrame, KeepsFrame
<1>2. id # 0 /\ id \notin ended
  BY DEF GetFrame, At, LifeInv, EndInv, Told, TypeOK
<1>3. events \in Seq(Posted) /\ e \in Posted /\ e.kind = "frame" /\ e.id = id
  BY DEF TypeOK, Posted, Event
<1> HIDE DEF e
<1>4. /\ Len(events) \in Nat /\ Len(events') = Len(events) + 1
      /\ events'[Len(events) + 1] = e /\ \A i \in 1..Len(events) : events'[i] = events[i]
  BY <1>1, <1>3, Last
<1>5. ASSUME NEW j \in 1..Len(events'), events'[j].kind = "frame"
      PROVE  /\ events'[j].id # 0
             /\ events'[j].id \in ended => \E k \in j..Len(events') : events'[k] = Event("end", events'[j].id)
  <2>1. CASE j = Len(events) + 1
    BY <1>2, <1>3, <1>4, <2>1
  <2>2. CASE j \in 1..Len(events)
    <3>1. events'[j] = events[j]
      BY <1>4, <2>2
    <3>2. /\ events[j].id # 0
          /\ events[j].id \in ended => \E k \in j..Len(events) : events[k] = Event("end", events[j].id)
      BY <1>5, <2>2, <3>1 DEF NoFrameAfterEnd
    <3> QED
      BY <1>4, <2>2, <3>1, <3>2
  <2> QED
    BY <1>4, <2>1, <2>2
<1> QED
  BY <1>1, <1>5 DEF NoFrameAfterEnd

LEMMA EndPosted ==
  ASSUME TypeOK, ControlInv, EndInv, NoFrameAfterEnd, NEW c \in Controllers, DestroyReception(c)
  PROVE  NoFrameAfterEnd'
<1> DEFINE e == Event("end", task[c].id)
<1>1. CASE task[c].kind # "stop"
  BY <1>1 DEF DestroyReception, NoFrameAfterEnd
<1>2. CASE task[c].kind = "stop"
  <2>1. events' = Append(events, e) /\ ended' = ended \union {task[c].id}
    BY <1>2 DEF DestroyReception
  <2>2. events \in Seq(Posted) /\ e \in Posted /\ e.kind = "end"
    BY TaskId DEF TypeOK, Posted, Event
  <2>3. /\ Len(events) \in Nat /\ Len(events') = Len(events) + 1
        /\ events'[Len(events) + 1] = e /\ \A i \in 1..Len(events) : events'[i] = events[i]
    BY <2>1, <2>2, Last
  <2>4. ASSUME NEW j \in 1..Len(events'), events'[j].kind = "frame"
        PROVE  /\ events'[j].id # 0
               /\ events'[j].id \in ended' => \E k \in j..Len(events') : events'[k] = Event("end", events'[j].id)
    <3>1. j \in 1..Len(events) /\ events'[j] = events[j]
      BY <2>2, <2>3, <2>4
    <3>2. /\ events[j].id # 0
          /\ events[j].id \in ended => \E k \in j..Len(events) : events[k] = Event("end", events[j].id)
      BY <2>4, <3>1 DEF NoFrameAfterEnd
    <3>3. CASE events[j].id = task[c].id
      BY <2>3, <3>1, <3>2, <3>3
    <3>4. CASE events[j].id # task[c].id
      BY <2>1, <2>3, <3>1, <3>2, <3>4
    <3> QED
      BY <3>3, <3>4
  <2> QED
    BY <2>4 DEF NoFrameAfterEnd
<1> QED
  BY <1>1, <1>2

LEMMA EventHandled ==
  ASSUME TypeOK, NoFrameAfterEnd, HandleEvent
  PROVE  NoFrameAfterEnd'
<1>1. events' = Tail(events) /\ events # <<>> /\ ended' = ended
  BY DEF HandleEvent
<1>2. events \in Seq(Posted)
  BY DEF TypeOK, Posted
<1>3. /\ Len(events) \in Nat /\ Len(events) >= 1 /\ Len(events') = Len(events) - 1
      /\ \A i \in 1..Len(events') : events'[i] = events[i + 1]
  BY <1>1, <1>2, First
<1>4. ASSUME NEW j \in 1..Len(events'), events'[j].kind = "frame"
      PROVE  /\ events'[j].id # 0
             /\ events'[j].id \in ended => \E k \in j..Len(events') : events'[k] = Event("end", events'[j].id)
  <2>1. j + 1 \in 1..Len(events) /\ events'[j] = events[j + 1]
    BY <1>3
  <2>2. events'[j].id # 0
    BY <1>4, <2>1 DEF NoFrameAfterEnd
  <2>3. ASSUME events'[j].id \in ended
        PROVE  \E k \in j..Len(events') : events'[k] = Event("end", events'[j].id)
    <3>1. PICK m \in (j + 1)..Len(events) : events[m] = Event("end", events'[j].id)
      BY <1>4, <2>1, <2>3 DEF NoFrameAfterEnd
    <3>2. m - 1 \in j..Len(events') /\ m - 1 \in 1..Len(events') /\ (m - 1) + 1 = m
      BY <1>3
    <3>3. events'[m - 1] = events[m]
      BY <1>3, <3>2
    <3> QED
      BY <3>1, <3>2, <3>3
  <2> QED
    BY <2>2, <2>3
<1> QED
  BY <1>1, <1>4 DEF NoFrameAfterEnd

-----------------------------------------------------------------------------
(* The receive thread leaves session, controllers and messages alone. *)
LEMMA ThreadKeeps == Thread \/ Records => KeepsFrame
  BY DEF Thread, Records, ThreadBegins, TestQuiting, ReadFails, ReadHeader, ReadUpdate,
     UpdateScreen, OnASEvent, GetFrame

LEMMA InitIInv == Init => IInv
<1> SUFFICES ASSUME Init PROVE IInv
  OBVIOUS
<1> USE SharingAssumption DEF Init, Controllers, Event, Ids, Kinds
<1>1. TypeOK
  <2>1. /\ events \in Seq([kind : {"begin", "frame", "end"}, id : {0} \union Ids])
        /\ toServer \in Seq({"all", "allstop"})
        /\ toClient \in Seq([kind : {"notify", "receive", "stop"}, id : {0} \union Ids])
    OBVIOUS
  <2>2. task \in [Controllers -> [kind : Kinds, id : {0} \union Ids]]
    OBVIOUS
  <2>3. leaves \in 0..MaxLeaves /\ lastNet \in Nat /\ {rxBuf, net} \subseteq 0..lastNet
    OBVIOUS
  <2>4. {recv, frameFree, bits, quit, aborted} \subseteq BOOLEAN
    OBVIOUS
  <2> QED
    BY <2>1, <2>2, <2>3, <2>4 DEF TypeOK
<1>2. ControlInv /\ LifeInv
  BY DEF ControlInv, LifeInv
<1>3. RequestInv /\ EndInv
  BY DEF RequestInv, EndInv, Noticing, Requested, IsAt, Answered, Noticed, Told
<1>4. NoFrameAfterEnd
  BY DEF NoFrameAfterEnd
<1> QED
  BY <1>1, <1>2, <1>3, <1>4 DEF IInv

(* Every step keeps the types, *)
LEMMA TypeStep == IInv /\ [Next]_vars /\ InTurn => TypeOK'
<1> SUFFICES ASSUME IInv, [Next]_vars, InTurn PROVE TypeOK'
  OBVIOUS
<1> USE SharingAssumption DEF IInv, InTurn, TypeOK, Begins, Goto, Incoming, Received, At, KeepsFrame, session, library,
        thread, network, ctrl, client, links, server, Controllers, Event, Ids, Kinds
<1>1. CASE Ignore
  BY <1>1 DEF Ignore
<1>2. CASE OnMediaNotify
  <2>1. toClient \in Seq(Message) /\ toClient # <<>>
    BY <1>2 DEF OnMediaNotify, Message
  <2>2. Head(toClient) \in Message /\ toClient' \in Seq(Message)
    BY <1>2, <2>1, First DEF OnMediaNotify
  <2> HIDE DEF Message
  <2> QED
    BY <1>2, <2>1, <2>2 DEF OnMediaNotify, Message
<1>3. CASE OnMediaReceiveAll
  <2>1. toClient \in Seq(Message) /\ toClient # <<>>
    BY <1>3 DEF OnMediaReceiveAll, Message
  <2>2. Head(toClient) \in Message /\ toClient' \in Seq(Message)
    BY <1>3, <2>1, First DEF OnMediaReceiveAll
  <2> HIDE DEF Message
  <2> QED
    BY <1>3, <2>1, <2>2 DEF OnMediaReceiveAll, Message
<1>4. CASE OnMediaReceiveStop
  <2>1. toClient \in Seq(Message) /\ toClient # <<>>
    BY <1>4 DEF OnMediaReceiveStop, Message
  <2>2. Head(toClient) \in Message /\ toClient' \in Seq(Message)
    BY <1>4, <2>1, First DEF OnMediaReceiveStop
  <2>3. task' = [task EXCEPT !["irm"] = Head(toClient)] /\ pc' = [pc EXCEPT !["irm"] = "stop"]
    BY <1>4 DEF OnMediaReceiveStop
  <2>4. task' \in [Controllers -> [kind : Kinds, id : {0} \union Ids]]
    BY <2>2, <2>3 DEF Message
  <2> QED
    BY <1>4, <2>2, <2>3, <2>4 DEF OnMediaReceiveStop, Message
<1>5. CASE InitializeReception
  BY <1>5 DEF InitializeReception
<1>6. CASE OnReceiveStart
  <2>1. events' \in Seq(Posted)
    BY <1>6, Last DEF OnReceiveStart, Posted
  <2> QED
    BY <1>6, <2>1 DEF OnReceiveStart, Posted
<1>7. CASE RequestMediaReceiveAll
  BY <1>7 DEF RequestMediaReceiveAll
<1>8. ASSUME NEW ok \in BOOLEAN, OpenReception(ok) PROVE TypeOK'
  <2>1. rxBuf' \in 0..lastNet' /\ net' \in 0..lastNet' /\ lastNet' \in Nat
    BY <1>8, Wider DEF OpenReception
  <2>2. pc' \in [Controllers -> {"idle", "stop", "reset", "end", "join", "clear",
                             "destroy", "accept", "open", "init", "begin"}]
    BY <1>8 DEF OpenReception
  <2> QED
    BY <1>8, <2>1, <2>2 DEF OpenReception
<1>9. ASSUME NEW c \in Controllers, StopReception(c) PROVE TypeOK'
  <2>1. toServer' \in Seq({"all", "allstop"})
    BY <1>9, StopAsked
  <2>2. pc' \in [Controllers -> {"idle", "stop", "reset", "end", "join", "clear",
                             "destroy", "accept", "open", "init", "begin"}]
    BY <1>9 DEF StopReception
  <2> QED
    BY <1>9, <2>1, <2>2 DEF StopReception
<1>10. ASSUME NEW c \in Controllers, Reset(c) PROVE TypeOK'
  BY <1>10 DEF Reset
<1>11. ASSUME NEW c \in Controllers, End(c) PROVE TypeOK'
  BY <1>11 DEF End
<1>12. ASSUME NEW c \in Controllers, WaitForMe(c) PROVE TypeOK'
  BY <1>12 DEF WaitForMe
<1>13. ASSUME NEW c \in Controllers, ResetClear(c) PROVE TypeOK'
  BY <1>13 DEF ResetClear
<1>14. ASSUME NEW c \in Controllers, DestroyReception(c) PROVE TypeOK'
  <2> HIDE DEF IInv, TypeOK, Controllers, Ids, Kinds
  <2> QED
    BY <1>14, DestroyType DEF IInv
<1>15. CASE TerminateAllMediaTransmissions
  BY <1>15 DEF TerminateAllMediaTransmissions
<1>16. CASE HandleEvent
  <2>1. events' \in Seq(Posted) /\ Head(events) \in Posted
    BY <1>16, First DEF HandleEvent, Posted
  <2>2. source' \in {"closed", "ok", "running"}
    BY <1>16, <2>1 DEF HandleEvent, Posted
  <2> QED
    BY <1>16, <2>1, <2>2 DEF HandleEvent, Posted
<1>17. CASE Share
  BY <1>17 DEF Share
<1>18. CASE Answer
  <2>1. toServer' \in Seq({"all", "allstop"})
    BY <1>18, First DEF Answer
  <2>2. toClient' \in Seq(Message)
    BY <1>18, Last DEF Answer, Message
  <2> QED
    BY <1>18, <2>1, <2>2 DEF Answer, Message
<1>19. ASSUME NEW i \in Ids, EndShare(i) PROVE TypeOK'
  BY <1>19 DEF EndShare
<1>20. CASE ThreadBegins
  BY <1>20 DEF ThreadBegins
<1>21. CASE TestQuiting
  BY <1>21 DEF TestQuiting
<1>22. CASE ReadFails
  BY <1>22 DEF ReadFails
<1>23. CASE ReadHeader
  BY <1>23 DEF ReadHeader
<1>24. CASE ReadUpdate
  BY <1>24 DEF ReadUpdate
<1>25. CASE UpdateScreen
  BY <1>25 DEF UpdateScreen
<1>26. CASE OnASEvent
  BY <1>26 DEF OnASEvent
<1>27. CASE GetFrame
  BY <1>27 DEF GetFrame
<1>28. CASE UNCHANGED vars
  BY <1>28 DEF vars
<1> QED
  BY <1>1, <1>2, <1>3, <1>4, <1>5, <1>6, <1>7, <1>8, <1>9, <1>10, <1>11, <1>12, <1>13, <1>14,
     <1>15, <1>16, <1>17, <1>18, <1>19, <1>20, <1>21, <1>22, <1>23, <1>24, <1>25, <1>26, <1>27, <1>28
     DEF Next, Thread, Records, Begun, Handle, Server, Stops

(* the turns the controllers take, *)
LEMMA ControlStep == IInv /\ [Next]_vars /\ InTurn => ControlInv'
<1> SUFFICES ASSUME IInv, [Next]_vars, InTurn PROVE ControlInv'
  OBVIOUS
<1> USE SharingAssumption DEF IInv, InTurn, TypeOK, ControlInv, Begins, Goto, Incoming, Received, At, KeepsFrame, session, library,
        thread, network, ctrl, client, links, server, Controllers, Event, Ids, Kinds
<1>1. CASE Ignore
  BY <1>1 DEF Ignore
<1>2. CASE OnMediaNotify
  BY <1>2 DEF OnMediaNotify
<1>3. CASE OnMediaReceiveAll
  BY <1>3 DEF OnMediaReceiveAll
<1>4. CASE OnMediaReceiveStop
  BY <1>4 DEF OnMediaReceiveStop
<1>5. CASE InitializeReception
  BY <1>5 DEF InitializeReception
<1>6. CASE OnReceiveStart
  BY <1>6 DEF OnReceiveStart
<1>7. CASE RequestMediaReceiveAll
  BY <1>7 DEF RequestMediaReceiveAll
<1>8. ASSUME NEW ok \in BOOLEAN, OpenReception(ok) PROVE ControlInv'
  BY <1>8 DEF OpenReception
<1>9. ASSUME NEW c \in Controllers, StopReception(c) PROVE ControlInv'
  BY <1>9 DEF StopReception
<1>10. ASSUME NEW c \in Controllers, Reset(c) PROVE ControlInv'
  BY <1>10 DEF Reset
<1>11. ASSUME NEW c \in Controllers, End(c) PROVE ControlInv'
  BY <1>11 DEF End
<1>12. ASSUME NEW c \in Controllers, WaitForMe(c) PROVE ControlInv'
  BY <1>12 DEF WaitForMe
<1>13. ASSUME NEW c \in Controllers, ResetClear(c) PROVE ControlInv'
  BY <1>13 DEF ResetClear
<1>14. ASSUME NEW c \in Controllers, DestroyReception(c) PROVE ControlInv'
  BY <1>14 DEF DestroyReception
<1>15. CASE TerminateAllMediaTransmissions
  BY <1>15 DEF TerminateAllMediaTransmissions
<1>16. CASE HandleEvent
  BY <1>16 DEF HandleEvent
<1>17. CASE Share
  BY <1>17 DEF Share
<1>18. CASE Answer
  BY <1>18 DEF Answer
<1>19. ASSUME NEW i \in Ids, EndShare(i) PROVE ControlInv'
  BY <1>19 DEF EndShare
<1>20. CASE Thread \/ Records
  <2>1. KeepsFrame
    BY <1>20, ThreadKeeps
  <2> QED
    BY <2>1
<1>21. CASE UNCHANGED vars
  BY <1>21 DEF vars
<1> QED
  BY <1>1, <1>2, <1>3, <1>4, <1>5, <1>6, <1>7, <1>8, <1>9, <1>10,
     <1>11, <1>12, <1>13, <1>14, <1>15, <1>16, <1>17, <1>18, <1>19, <1>20, <1>21
     DEF Next, Begun, Handle, Server, Stops

(* the life of the object, *)
LEMMA LifeStep == IInv /\ [Next]_vars /\ InTurn => LifeInv'
<1> SUFFICES ASSUME IInv, [Next]_vars, InTurn PROVE LifeInv'
  OBVIOUS
<1> USE SharingAssumption DEF IInv, InTurn, TypeOK, ControlInv, LifeInv, RequestInv,
        Requested, IsAt, Answered, Begins, Goto, Incoming, Received, At, KeepsFrame, session, library,
        thread, network, ctrl, client, links, server, Controllers, Event, Ids, Kinds
<1>1. CASE Ignore
  BY <1>1 DEF Ignore
<1>2. CASE OnMediaNotify
  BY <1>2 DEF OnMediaNotify
<1>3. CASE OnMediaReceiveAll
  <2>1. IsAt("receive", 1)
    BY <1>3, HeadMessage DEF OnMediaReceiveAll
  <2> QED
    BY <1>3, <2>1, HeadMessage DEF OnMediaReceiveAll
<1>4. CASE OnMediaReceiveStop
  BY <1>4 DEF OnMediaReceiveStop
<1>5. CASE InitializeReception
  BY <1>5 DEF InitializeReception
<1>6. CASE OnReceiveStart
  BY <1>6 DEF OnReceiveStart
<1>7. CASE RequestMediaReceiveAll
  BY <1>7 DEF RequestMediaReceiveAll
<1>8. ASSUME NEW ok \in BOOLEAN, OpenReception(ok) PROVE LifeInv'
  BY <1>8 DEF OpenReception
<1>9. ASSUME NEW c \in Controllers, StopReception(c) PROVE LifeInv'
  BY <1>9 DEF StopReception
<1>10. ASSUME NEW c \in Controllers, Reset(c) PROVE LifeInv'
  BY <1>10 DEF Reset
<1>11. ASSUME NEW c \in Controllers, End(c) PROVE LifeInv'
  BY <1>11 DEF End
<1>12. ASSUME NEW c \in Controllers, WaitForMe(c) PROVE LifeInv'
  BY <1>12 DEF WaitForMe
<1>13. ASSUME NEW c \in Controllers, ResetClear(c) PROVE LifeInv'
  BY <1>13 DEF ResetClear
<1>14. ASSUME NEW c \in Controllers, DestroyReception(c) PROVE LifeInv'
  BY <1>14 DEF DestroyReception
<1>15. CASE TerminateAllMediaTransmissions
  BY <1>15 DEF TerminateAllMediaTransmissions
<1>16. CASE HandleEvent
  BY <1>16 DEF HandleEvent
<1>17. CASE Share
  BY <1>17 DEF Share
<1>18. CASE Answer
  BY <1>18 DEF Answer
<1>19. ASSUME NEW i \in Ids, EndShare(i) PROVE LifeInv'
  BY <1>19 DEF EndShare
<1>20. CASE ThreadBegins
  BY <1>20 DEF ThreadBegins
<1>21. CASE TestQuiting
  BY <1>21 DEF TestQuiting
<1>22. CASE ReadFails
  BY <1>22 DEF ReadFails
<1>23. CASE ReadHeader
  BY <1>23 DEF ReadHeader
<1>24. CASE ReadUpdate
  BY <1>24 DEF ReadUpdate
<1>25. CASE UpdateScreen
  BY <1>25 DEF UpdateScreen
<1>26. CASE OnASEvent
  BY <1>26 DEF OnASEvent
<1>27. CASE GetFrame
  BY <1>27 DEF GetFrame
<1>28. CASE UNCHANGED vars
  BY <1>28 DEF vars
<1> QED
  BY <1>1, <1>2, <1>3, <1>4, <1>5, <1>6, <1>7, <1>8, <1>9, <1>10, <1>11, <1>12, <1>13, <1>14,
     <1>15, <1>16, <1>17, <1>18, <1>19, <1>20, <1>21, <1>22, <1>23, <1>24, <1>25, <1>26, <1>27, <1>28
     DEF Next, Thread, Records, Begun, Handle, Server, Stops

(* the one request there is, *)
LEMMA RequestStep == IInv /\ [Next]_vars /\ InTurn => RequestInv'
<1> SUFFICES ASSUME IInv, [Next]_vars, InTurn PROVE RequestInv'
  OBVIOUS
<1> USE SharingAssumption DEF IInv, InTurn, TypeOK, ControlInv, LifeInv, RequestInv,
        Noticing, Requested, IsAt, Answered, Noticed, Begins, Goto, Incoming, Received, At, KeepsFrame, session, library,
        thread, network, ctrl, client, links, server, Controllers, Event, Ids, Kinds
<1>1. CASE Ignore
  <2>1. toClient' = Tail(toClient) /\ toClient # <<>> /\ UNCHANGED <<toServer, recv, pc, task>>
    BY <1>1 DEF Ignore
  <2> HIDE DEF IInv, TypeOK, RequestInv
  <2> QED
    BY <2>1, RequestAhead DEF IInv
<1>2. CASE OnMediaNotify
  BY <1>2, SMTT(40) DEF OnMediaNotify
<1>3. CASE OnMediaReceiveAll
  BY <1>3 DEF OnMediaReceiveAll
<1>4. CASE OnMediaReceiveStop
  BY <1>4 DEF OnMediaReceiveStop
<1>5. CASE InitializeReception
  BY <1>5 DEF InitializeReception
<1>6. CASE OnReceiveStart
  BY <1>6 DEF OnReceiveStart
<1>7. CASE RequestMediaReceiveAll
  BY <1>7 DEF RequestMediaReceiveAll
<1>8. ASSUME NEW ok \in BOOLEAN, OpenReception(ok) PROVE RequestInv'
  BY <1>8 DEF OpenReception
<1>9. ASSUME NEW c \in Controllers, StopReception(c) PROVE RequestInv'
  <2>1. pc["irm"] # "accept" /\ (Noticing' <=> Noticing)
    BY <1>9 DEF StopReception
  <2> HIDE DEF IInv, TypeOK, RequestInv, Noticing, Controllers
  <2> QED
    BY <1>9, <2>1, RequestStop DEF IInv
<1>10. ASSUME NEW c \in Controllers, Reset(c) PROVE RequestInv'
  BY <1>10 DEF Reset
<1>11. ASSUME NEW c \in Controllers, End(c) PROVE RequestInv'
  BY <1>11 DEF End
<1>12. ASSUME NEW c \in Controllers, WaitForMe(c) PROVE RequestInv'
  BY <1>12 DEF WaitForMe
<1>13. ASSUME NEW c \in Controllers, ResetClear(c) PROVE RequestInv'
  BY <1>13 DEF ResetClear
<1>14. ASSUME NEW c \in Controllers, DestroyReception(c) PROVE RequestInv'
  BY <1>14 DEF DestroyReception
<1>15. CASE TerminateAllMediaTransmissions
  BY <1>15 DEF TerminateAllMediaTransmissions
<1>16. CASE HandleEvent
  BY <1>16 DEF HandleEvent
<1>17. CASE Share
  <2>1. ~Requested /\ ~Noticed /\ ~Noticing
    BY <1>17 DEF Share, Asking
  <2> HIDE DEF IInv, TypeOK, RequestInv, Requested, Noticed, Noticing
  <2> QED
    BY <1>17, <2>1, RequestShare DEF IInv
<1>18. CASE Answer
  BY <1>18 DEF Answer
<1>19. ASSUME NEW i \in Ids, EndShare(i) PROVE RequestInv'
  BY <1>19 DEF EndShare
<1>20. CASE Thread \/ Records
  <2>1. KeepsFrame
    BY <1>20, ThreadKeeps
  <2> QED
    BY <2>1, SMTT(40)
<1>21. CASE UNCHANGED vars
  BY <1>21 DEF vars
<1> QED
  BY <1>1, <1>2, <1>3, <1>4, <1>5, <1>6, <1>7, <1>8, <1>9, <1>10,
     <1>11, <1>12, <1>13, <1>14, <1>15, <1>16, <1>17, <1>18, <1>19, <1>20, <1>21
     DEF Next, Begun, Handle, Server, Stops

(* what was told to have ended, *)
LEMMA EndStep == IInv /\ [Next]_vars /\ InTurn => EndInv'
<1> SUFFICES ASSUME IInv, [Next]_vars, InTurn PROVE EndInv'
  OBVIOUS
<1> USE SharingAssumption DEF IInv, InTurn, TypeOK, ControlInv, LifeInv, RequestInv,
        EndInv, Told, Noticing, Requested, IsAt, Answered, Noticed, Begins, Goto, Incoming, Received, At, KeepsFrame, session, library,
        thread, network, ctrl, client, links, server, Controllers, Event, Ids, Kinds
<1>1. CASE Ignore
  <2>1. toClient' = Tail(toClient) /\ toClient # <<>> /\ UNCHANGED <<session, pc, task, ended, server>>
    BY <1>1 DEF Ignore
  <2> HIDE DEF IInv, TypeOK, ControlInv, LifeInv, RequestInv, EndInv, IsAt, Told, Controllers, session, server
  <2> QED
    BY <2>1, EndAhead DEF IInv
<1>2. CASE OnMediaNotify
  BY <1>2 DEF OnMediaNotify
<1>3. CASE OnMediaReceiveAll
  BY <1>3 DEF OnMediaReceiveAll
<1>4. CASE OnMediaReceiveStop
  <2> HIDE DEF IInv, TypeOK, ControlInv, LifeInv, RequestInv, EndInv, IsAt, Told, Controllers
  <2> QED
    BY <1>4, EndStop DEF IInv
<1>5. CASE InitializeReception
  BY <1>5 DEF InitializeReception
<1>6. CASE OnReceiveStart
  BY <1>6 DEF OnReceiveStart
<1>7. CASE RequestMediaReceiveAll
  BY <1>7 DEF RequestMediaReceiveAll
<1>8. ASSUME NEW ok \in BOOLEAN, OpenReception(ok) PROVE EndInv'
  BY <1>8 DEF OpenReception
<1>9. ASSUME NEW c \in Controllers, StopReception(c) PROVE EndInv'
  BY <1>9 DEF StopReception
<1>10. ASSUME NEW c \in Controllers, Reset(c) PROVE EndInv'
  BY <1>10 DEF Reset
<1>11. ASSUME NEW c \in Controllers, End(c) PROVE EndInv'
  BY <1>11 DEF End
<1>12. ASSUME NEW c \in Controllers, WaitForMe(c) PROVE EndInv'
  BY <1>12 DEF WaitForMe
<1>13. ASSUME NEW c \in Controllers, ResetClear(c) PROVE EndInv'
  BY <1>13, SMTT(40) DEF ResetClear
<1>14. ASSUME NEW c \in Controllers, DestroyReception(c) PROVE EndInv'
  <2> HIDE DEF IInv, TypeOK, ControlInv, LifeInv, RequestInv, EndInv, IsAt, Told, Controllers
  <2> QED
    BY <1>14, EndDestroy DEF IInv
<1>15. CASE TerminateAllMediaTransmissions
  BY <1>15 DEF TerminateAllMediaTransmissions
<1>16. CASE HandleEvent
  BY <1>16 DEF HandleEvent
<1>17. CASE Share
  <2> HIDE DEF IInv, TypeOK, ControlInv, LifeInv, RequestInv, EndInv, IsAt, Told, Controllers
  <2> QED
    BY <1>17, EndShared DEF IInv
<1>18. CASE Answer
  <2> HIDE DEF IInv, TypeOK, ControlInv, LifeInv, RequestInv, EndInv, IsAt, Told, Controllers
  <2> QED
    BY <1>18, EndAnswer DEF IInv
<1>19. ASSUME NEW i \in Ids, EndShare(i) PROVE EndInv'
  <2> HIDE DEF IInv, TypeOK, ControlInv, LifeInv, RequestInv, EndInv, IsAt, Told, Controllers, Ids
  <2> QED
    BY <1>19, EndOfShare DEF IInv
<1>20. CASE Thread \/ Records
  <2>1. KeepsFrame
    BY <1>20, ThreadKeeps
  <2> QED
    BY <2>1
<1>21. CASE UNCHANGED vars
  BY <1>21 DEF vars
<1> QED
  BY <1>1, <1>2, <1>3, <1>4, <1>5, <1>6, <1>7, <1>8, <1>9, <1>10,
     <1>11, <1>12, <1>13, <1>14, <1>15, <1>16, <1>17, <1>18, <1>19, <1>20, <1>21
     DEF Next, Begun, Handle, Server, Stops

(* and what is shown. *)
LEMMA FrameStep == IInv /\ [Next]_vars /\ InTurn => NoFrameAfterEnd'
<1> SUFFICES ASSUME IInv, [Next]_vars, InTurn PROVE NoFrameAfterEnd'
  OBVIOUS
<1> USE SharingAssumption DEF IInv, InTurn, TypeOK, ControlInv, LifeInv, EndInv,
        NoFrameAfterEnd, Told, IsAt, RequestInv, Begins, Goto, Incoming, Received, At, KeepsFrame, session, library,
        thread, network, ctrl, client, links, server, Controllers, Event, Ids, Kinds
<1>1. CASE Ignore
  BY <1>1 DEF Ignore
<1>2. CASE OnMediaNotify
  BY <1>2 DEF OnMediaNotify
<1>3. CASE OnMediaReceiveAll
  BY <1>3 DEF OnMediaReceiveAll
<1>4. CASE OnMediaReceiveStop
  BY <1>4 DEF OnMediaReceiveStop
<1>5. CASE InitializeReception
  BY <1>5 DEF InitializeReception
<1>6. CASE OnReceiveStart
  BY <1>6 DEF OnReceiveStart
<1>7. CASE RequestMediaReceiveAll
  BY <1>7 DEF RequestMediaReceiveAll
<1>8. ASSUME NEW ok \in BOOLEAN, OpenReception(ok) PROVE NoFrameAfterEnd'
  BY <1>8 DEF OpenReception
<1>9. ASSUME NEW c \in Controllers, StopReception(c) PROVE NoFrameAfterEnd'
  BY <1>9 DEF StopReception
<1>10. ASSUME NEW c \in Controllers, Reset(c) PROVE NoFrameAfterEnd'
  BY <1>10 DEF Reset
<1>11. ASSUME NEW c \in Controllers, End(c) PROVE NoFrameAfterEnd'
  BY <1>11 DEF End
<1>12. ASSUME NEW c \in Controllers, WaitForMe(c) PROVE NoFrameAfterEnd'
  BY <1>12 DEF WaitForMe
<1>13. ASSUME NEW c \in Controllers, ResetClear(c) PROVE NoFrameAfterEnd'
  BY <1>13 DEF ResetClear
<1>14. ASSUME NEW c \in Controllers, DestroyReception(c) PROVE NoFrameAfterEnd'
  <2> HIDE DEF IInv, TypeOK, ControlInv, LifeInv, RequestInv, EndInv, IsAt, Told, NoFrameAfterEnd, Controllers
  <2> QED
    BY <1>14, EndPosted DEF IInv
<1>15. CASE TerminateAllMediaTransmissions
  BY <1>15 DEF TerminateAllMediaTransmissions
<1>16. CASE HandleEvent
  <2> HIDE DEF IInv, TypeOK, ControlInv, LifeInv, RequestInv, EndInv, IsAt, Told, NoFrameAfterEnd, Controllers
  <2> QED
    BY <1>16, EventHandled DEF IInv
<1>17. CASE Share
  BY <1>17 DEF Share
<1>18. CASE Answer
  BY <1>18 DEF Answer
<1>19. ASSUME NEW i \in Ids, EndShare(i) PROVE NoFrameAfterEnd'
  BY <1>19 DEF EndShare
<1>20. CASE ThreadBegins
  BY <1>20 DEF ThreadBegins
<1>21. CASE TestQuiting
  BY <1>21 DEF TestQuiting
<1>22. CASE ReadFails
  BY <1>22 DEF ReadFails
<1>23. CASE ReadHeader
  BY <1>23 DEF ReadHeader
<1>24. CASE ReadUpdate
  BY <1>24 DEF ReadUpdate
<1>25. CASE UpdateScreen
  BY <1>25 DEF UpdateScreen
<1>26. CASE OnASEvent
  BY <1>26 DEF OnASEvent
<1>27. CASE GetFrame
  <2> HIDE DEF IInv, TypeOK, ControlInv, LifeInv, RequestInv, EndInv, IsAt, Told, NoFrameAfterEnd, Controllers
  <2> QED
    BY <1>27, FramePosted DEF IInv
<1>28. CASE UNCHANGED vars
  BY <1>28 DEF vars
<1> QED
  BY <1>1, <1>2, <1>3, <1>4, <1>5, <1>6, <1>7, <1>8, <1>9, <1>10, <1>11, <1>12, <1>13, <1>14,
     <1>15, <1>16, <1>17, <1>18, <1>19, <1>20, <1>21, <1>22, <1>23, <1>24, <1>25, <1>26, <1>27, <1>28
     DEF Next, Thread, Records, Begun, Handle, Server, Stops

-----------------------------------------------------------------------------
LEMMA NextIInv == IInv /\ [Next]_vars /\ InTurn => IInv'
  BY TypeStep, ControlStep, LifeStep, RequestStep, EndStep, FrameStep DEF IInv

LEMMA Invariance == InTurn => (Spec => []IInv)
<1> SUFFICES ASSUME InTurn PROVE Spec => []IInv
  OBVIOUS
<1>1. Init => IInv
  BY InitIInv
<1>2. IInv /\ [Next]_vars => IInv'
  BY NextIInv
<1> QED
  BY <1>1, <1>2, PTL DEF Spec

(* Every member keeps its type: in particular, no more than one buffer and   *)
(* one thread are ever known to the library.                                 *)
THEOREM SharingType == InTurn => (Spec => []TypeOK)
<1>1. IInv => TypeOK
  BY DEF IInv
<1> QED
  BY <1>1, Invariance, PTL

(* What the client is shown belongs to a sharing whose end it has not been   *)
(* told of, or has still to be told of.                                      *)
THEOREM ShownBeforeEnd == InTurn => (Spec => []NoFrameAfterEnd)
<1>1. IInv => NoFrameAfterEnd
  BY DEF IInv
<1> QED
  BY <1>1, Invariance, PTL

(* The receive thread works on an object and on buffers that are there.      *)
THEOREM ThreadHasBuffers == InTurn => (Spec => []NoDeletedBuffer)
<1>1. IInv => NoDeletedBuffer
  BY DEF IInv, LifeInv, NoDeletedBuffer
<1> QED
  BY <1>1, Invariance, PTL

(* An idle session has neither object nor thread, nor a live connection.     *)
THEOREM IdleIsGone == InTurn => (Spec => []IdleMeansGone)
<1>1. IInv => IdleMeansGone
  BY DEF IInv, LifeInv, IdleMeansGone
<1> QED
  BY <1>1, Invariance, PTL
==============================================================================
