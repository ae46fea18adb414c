--------------------------- MODULE Channel_proofs ---------------------------
(***************************************************************************)
(* What one client sends to the others of its channel.                     *)
(*                                                                         *)
(* MoviePlaylist, for every list, file and server: the sending thread      *)
(* serves the session's transmission, a movie that ends by itself was sent *)
(* whole, and none is cut off by what an earlier one has left behind.      *)
(*                                                                         *)
(* Polls, for every set of users and every number of polls: a poll and its *)
(* statistics are shown as they were sent, to everybody, and each answer   *)
(* is counted once.                                                        *)
(***************************************************************************)
EXTENDS MoviePlaylist, Polls, FunctionTheorems, FiniteSetTheorems, TLAPS

-----------------------------------------------------------------------------
(* The movie session.  Messages are told apart by their kind, and an answer  *)
(* has an id the server has given.                                           *)

Msgs == [kind : {"send", "sendstop", "notify", "receivestop"}, id : Nat]

OnWay(q, m) == \E n \in 1..Len(q) : q[n] = m

Send(id) == [kind |-> "send", id |-> id]

MovieTyped ==
  /\ toServer \in Seq(Msgs) /\ toClient \in Seq(Msgs)
  /\ sndId \in Nat /\ rcvId \in Nat /\ offer \in Nat /\ lastId \in Nat
  /\ ends \in Nat /\ sent \in Nat /\ pos \in 1..(MaxPackets + 1)
  /\ ~OnWay(toClient, Send(0))

Active == sender \in {"start", "run"}

(* A transmission begins, and an offer is taken, only where none is on its   *)
(* way out; what the sending thread works for stands as long as it runs.     *)
ServeInv ==
  /\ SenderServes
  /\ ui = "begin" => state # "transmitting"
  /\ irm = "accept" => ~running /\ ~Active
  /\ irm = "join" => state = "transmitting"
  /\ running => state = "transmitting"

(* The next packet is the one behind those sent, unless the file is resumed. *)
WholeInv ==
  "same" \notin Cases =>
    /\ ui = "begin" => pos = 1
    /\ state = "transmitting" => sent = pos - 1
    /\ sender = "eof" /\ running => pos = MaxPackets + 1

(* The thread notices that it is to stop, unless it had not begun. *)
HeardInv ==
  "slow" \notin Cases /\ irm = "join" /\ Active => sender = "run" /\ terminate

(* A request, or the answer to it, is under way. *)
Asking(q) == \E id \in Nat : OnWay(q, Send(id))

AsksOnce(q) == \A m, n \in 1..Len(q) : q[m].kind = "send" /\ q[n].kind = "send" => m = n

StopOnWay == OnWay(toServer, Stop(sndId)) \/ OnWay(toClient, Stop(sndId))

Calmly == Cases \intersect {"hasty", "race"} = {}

(* Of requests s to the server, messages c of the server and the last medium *)
(* l it has given: one medium at a time is asked for, and what is stopped    *)
(* was given and is not being given.                                         *)
Orderly(s, c, l) ==
  /\ AsksOnce(s) /\ AsksOnce(c) /\ ~(Asking(s) /\ Asking(c))
  /\ \A id \in Nat : OnWay(s, Stop(id)) \/ OnWay(c, Stop(id)) => id \in 1..l
  /\ \A id \in Nat : OnWay(c, Send(id)) =>
       id <= l /\ ~OnWay(s, Stop(id)) /\ ~OnWay(c, Stop(id))

(* A session that asked for a medium waits for it.                           *)
AskInv ==
  /\ Orderly(toServer, toClient, lastId)
  /\ Asking(toServer) \/ Asking(toClient) => state = "transmitting" /\ sndId = 0
  /\ sndId <= lastId /\ (irm = "join" => sndId # 0)
  /\ irm = "accept" => state = "idle"

(* A movie is on its way out, or about to be. *)
Live == state = "transmitting" \/ ui = "begin"

(* The timer, the event and the stop of one movie are used up before the     *)
(* next begins: what is found beside a live one is its own, and asked for.   *)
CutInv ==
  /\ Live /\ timer => finish /\ Active /\ asked /\ ~StopOnWay /\ irm # "join"
  /\ Live /\ Active /\ (StopOnWay \/ irm = "join") => asked /\ (finish \/ ~started)
  /\ Live => irm # "notify" /\ ends = 0
  /\ irm = "notify" => ends = 0 /\ ~timer
  /\ ends <= 1 /\ (ends = 1 => ~timer)
  /\ sender = "run" /\ terminate => irm = "join"

MovieInv ==
  /\ MovieTyped /\ ServeInv /\ WholeInv /\ HeardInv
  /\ Calmly => AskInv /\ CutInv

(* What the window does with the session: it cancels a movie that is on its  *)
(* way out, and begins another only where there is none.                     *)
Turns ==
  /\ toServer' = IF state = "transmitting" /\ sndId # 0
                   THEN Append(toServer, Stop(sndId)) ELSE toServer
  /\ ui' \in {"idle", "begin"} /\ (ui' = "begin" => state = "idle")
  /\ pos' \in {pos, 1} /\ (pos' # pos => state = "idle")
  /\ ui' = "begin" /\ "same" \notin Cases => pos' = 1
  /\ state = "transmitting" => ~started'

LEMMA Turning ==
  ASSUME ui = "idle",
         MovieBeginTransmission \/ \E i : BeginPlayFile(i)
  PROVE  Turns
<1>1. CASE MovieBeginTransmission
  BY <1>1 DEF MovieBeginTransmission, CancelTransmission, RequestMediaSendStop, GetHeader,
    source, Turns
<1>2. ASSUME NEW i, BeginPlayFile(i)
      PROVE  Turns
  <2>1. CASE MovieBeginTransmission
    BY <1>1, <2>1
  <2>2. CASE CancelTransmission /\ started' = FALSE /\ UNCHANGED <<ui, source>>
    BY <2>2 DEF CancelTransmission, RequestMediaSendStop, source, Turns
  <2>3. QED
    BY <1>2, <2>1, <2>2 DEF BeginPlayFile
<1>3. QED
  BY <1>1, <1>2

(* Queues: what is found in one to which a message is appended, and in what  *)
(* is left of one when the first is taken.                                   *)
LEMMA Queued ==
  ASSUME NEW q \in Seq(Msgs), NEW x \in Msgs
  PROVE  /\ Append(q, x) \in Seq(Msgs)
         /\ \A m : OnWay(Append(q, x), m) <=> (OnWay(q, m) \/ x = m)
         /\ Asking(Append(q, x)) <=> (Asking(q) \/ x.kind = "send")
         /\ AsksOnce(q) /\ (x.kind = "send" => ~Asking(q)) => AsksOnce(Append(q, x))
<1> DEFINE p == Append(q, x)
<1>1. /\ p \in Seq(Msgs) /\ Len(p) = Len(q) + 1 /\ Len(q) \in Nat /\ p[Len(q) + 1] = x
      /\ \A n \in 1..Len(q) : q[n] \in Msgs
      /\ \A n \in 1..Len(q) : p[n] = q[n]
  <2>1. p \in Seq(Msgs) /\ Len(p) = Len(q) + 1 /\ Len(q) \in Nat /\ p[Len(q) + 1] = x
    OBVIOUS
  <2>2. \A n \in 1..Len(q) : q[n] \in Msgs
    OBVIOUS
  <2>3. \A n \in 1..Len(q) : p[n] = q[n]
    OBVIOUS
  <2>4. QED
    BY <2>1, <2>2, <2>3
<1>2. ASSUME NEW m
      PROVE  OnWay(p, m) <=> (OnWay(q, m) \/ x = m)
  BY <1>1 DEF OnWay
<1>3. \A m \in Msgs : m.kind = "send" => m = Send(m.id) /\ m.id \in Nat
  BY DEF Msgs, Send
<1>4. Asking(p) <=> (Asking(q) \/ x.kind = "send")
  <2>1. x.kind = "send" => Asking(p)
    BY <1>2, <1>3 DEF Asking
  <2>2. Asking(q) => Asking(p)
    BY <1>2 DEF Asking
  <2>3. Asking(p) => Asking(q) \/ x.kind = "send"
    BY <1>2 DEF Asking, Send
  <2>4. QED
    BY <2>1, <2>2, <2>3
<1>5. ASSUME AsksOnce(q), x.kind = "send" => ~Asking(q)
      PROVE  AsksOnce(p)
  <2>1. \A n \in 1..Len(q) : q[n].kind = "send" => Asking(q)
    BY <1>1, <1>3 DEF Asking, OnWay
  <2>2. QED
    BY <1>1, <1>5, <2>1 DEF AsksOnce
<1>6. QED
  BY <1>1, <1>2, <1>4, <1>5

LEMMA MessageTaken ==
  ASSUME NEW q \in Seq(Msgs), q # <<>>
  PROVE  /\ Tail(q) \in Seq(Msgs) /\ Head(q) \in Msgs
         /\ Head(q) = [kind |-> Head(q).kind, id |-> Head(q).id]
         /\ OnWay(q, Head(q))
         /\ \A m : OnWay(Tail(q), m) => OnWay(q, m)
         /\ Asking(Tail(q)) \/ Head(q).kind = "send" => Asking(q)
         /\ AsksOnce(q) => AsksOnce(Tail(q)) /\ ~(Asking(Tail(q)) /\ Head(q).kind = "send")
<1> DEFINE p == Tail(q)
<1>1. /\ p \in Seq(Msgs) /\ Len(p) = Len(q) - 1 /\ Len(q) \in Nat \ {0} /\ Head(q) = q[1]
      /\ \A n \in 1..Len(q) : q[n] \in Msgs
      /\ \A n \in 1..Len(p) : p[n] = q[n + 1] /\ n + 1 \in 1..Len(q)
  OBVIOUS
<1>2. \A m \in Msgs : m = [kind |-> m.kind, id |-> m.id] /\ m.id \in Nat
  BY DEF Msgs
<1>3. OnWay(q, Head(q)) /\ \A m : OnWay(p, m) => OnWay(q, m)
  BY <1>1 DEF OnWay
<1>4. Head(q) \in Msgs
  BY <1>1
<1>5. Asking(p) \/ Head(q).kind = "send" => Asking(q)
  BY <1>2, <1>3, <1>4 DEF Asking, Send
<1>6. ASSUME AsksOnce(q)
      PROVE  AsksOnce(p) /\ ~(Asking(p) /\ Head(q).kind = "send")
  <2>1. AsksOnce(p)
    BY <1>1, <1>6 DEF AsksOnce
  <2>2. ASSUME Asking(p), Head(q).kind = "send"
        PROVE  FALSE
    <3>1. PICK n \in 1..Len(p) : p[n].kind = "send"
      BY <2>2 DEF Asking, OnWay, Send
    <3>2. QED
      BY <1>1, <1>6, <2>2, <3>1 DEF AsksOnce
  <2>3. QED
    BY <2>1, <2>2
<1>7. QED
  BY <1>1, <1>2, <1>3, <1>4, <1>5, <1>6

LEMMA QueueTypes ==
  /\ \A q \in Seq(Msgs), x \in Msgs : Append(q, x) \in Seq(Msgs)
  /\ \A q \in Seq(Msgs) : q # <<>> => /\ Tail(q) \in Seq(Msgs) /\ Head(q) \in Msgs
                                      /\ Head(q).id \in Nat
  BY Queued, MessageTaken DEF Msgs

(* What the members of the session append is a message. *)
LEMMA Messages ==
  /\ \A id \in Nat : Stop(id) \in Msgs /\ Send(id) \in Msgs
  /\ \A a, b : Stop(a) # Send(b) /\ (Stop(a) = Stop(b) => a = b) /\ (Send(a) = Send(b) => a = b)
  BY DEF Stop, Send, Msgs

(* The invariant is kept, one part after another; the session first. *)
LEMMA MovieServes ==
  ASSUME ServeInv, MovieTyped, [Next]_vars
  PROVE  ServeInv'
<1> USE DEF ServeInv, SenderServes, Active
<1>0. ASSUME Take("send")
      PROVE  Head(toClient).id # 0
  BY <1>0, MessageTaken DEF Take, MovieTyped, Send
<1>1. CASE StartClick
  BY <1>1, Turning DEF StartClick, Calm, session, thread, Turns
<1>2. CASE FinishClick
  BY <1>2 DEF FinishClick, Calm, session, source, thread
<1>3. CASE OnBtnCancelClick
  BY <1>3 DEF OnBtnCancelClick, Calm, CancelTransmission, RequestMediaSendStop, session,
    source, thread
<1>4. CASE OpenPlaylist
  BY <1>4 DEF OpenPlaylist, Calm, session, source, thread
<1>5. CASE SetTransmitting
  BY <1>5 DEF SetTransmitting, source, thread, counts
<1>6. CASE OnMovieSendEof
  BY <1>6, Turning DEF OnMovieSendEof, Calm, session, source, thread, Turns
<1>7. CASE OnTimer
  BY <1>7, Turning DEF OnTimer, Calm, CancelTransmission, RequestMediaSendStop, session,
    source, thread, Turns
<1>8. CASE ThreadBegins
  BY <1>8 DEF ThreadBegins, Sending, window, session, counts
<1>9. CASE DeliverPacket
  BY <1>9 DEF DeliverPacket, Sending, window, session, counts
<1>10. CASE OnEOF
  BY <1>10 DEF OnEOF, Sending, RequestMediaSendStop, window, session, counts
<1>11. CASE OnMediaSend
  BY <1>11, <1>0 DEF OnMediaSend, Take, Handling, RequestMediaSendStop, window, source,
    counts, MovieTyped
<1>12. CASE OnMediaSendStop
  BY <1>12 DEF OnMediaSendStop, Take, Handling, window, session, source, counts
<1>13. CASE WaitThread
  BY <1>13 DEF WaitThread, Handling, window, source, counts
<1>14. CASE NotifyEnd
  BY <1>14 DEF NotifyEnd, Handling, window, session, source, thread, counts
<1>15. CASE OnMediaNotify
  BY <1>15 DEF OnMediaNotify, Take, Handling, window, session, source, thread, counts
<1>16. CASE AcceptOffer
  BY <1>16 DEF AcceptOffer, Handling, window, source, thread, counts
<1>17. CASE OnMediaReceiveStop
  BY <1>17 DEF OnMediaReceiveStop, Take, Handling, window, source, thread, counts
<1>18. CASE Serve
  BY <1>18 DEF Serve, External, window, session, source, thread
<1>19. CASE Offer
  BY <1>19 DEF Offer, External, window, session, source, thread
<1>20. CASE Withdraw
  BY <1>20 DEF Withdraw, External, window, session, source, thread
<1>21. CASE UNCHANGED vars
  BY <1>21 DEF vars, window, session, source, thread, counts
<1>22. QED
  BY <1>1, <1>2, <1>3, <1>4, <1>5, <1>6, <1>7, <1>8, <1>9, <1>10, <1>11, <1>12, <1>13,
    <1>14, <1>15, <1>16, <1>17, <1>18, <1>19, <1>20, <1>21 DEF Next, User, Ui, Sender,
    Irm

LEMMA MovieWhole ==
  ASSUME PlaylistAssumption, MovieTyped, ServeInv, WholeInv, [Next]_vars
  PROVE  WholeInv'
<1> USE DEF WholeInv, ServeInv, SenderServes
<1>1. CASE StartClick
  BY <1>1, PlaylistAssumption, Turning DEF StartClick, Calm, session, thread,
    MovieTyped, Turns
<1>2. CASE FinishClick
  BY <1>2, PlaylistAssumption DEF FinishClick, Calm, session, source, thread, MovieTyped
<1>3. CASE OnBtnCancelClick
  BY <1>3, PlaylistAssumption DEF OnBtnCancelClick, Calm, CancelTransmission,
    RequestMediaSendStop, session, source, thread, MovieTyped
<1>4. CASE OpenPlaylist
  BY <1>4, PlaylistAssumption DEF OpenPlaylist, Calm, session, source, thread,
    MovieTyped
<1>5. CASE SetTransmitting
  BY <1>5, PlaylistAssumption DEF SetTransmitting, source, thread, counts, MovieTyped
<1>6. CASE OnMovieSendEof
  BY <1>6, PlaylistAssumption, Turning DEF OnMovieSendEof, Calm, session, source,
    thread, MovieTyped, Turns
<1>7. CASE OnTimer
  BY <1>7, PlaylistAssumption, Turning DEF OnTimer, Calm, CancelTransmission,
    RequestMediaSendStop, session, source, thread, MovieTyped, Turns
<1>8. CASE ThreadBegins
  BY <1>8, PlaylistAssumption DEF ThreadBegins, Sending, window, session, counts,
    MovieTyped
<1>9. CASE DeliverPacket
  BY <1>9, PlaylistAssumption DEF DeliverPacket, Sending, window, session, counts,
    MovieTyped
<1>10. CASE OnEOF
  BY <1>10, PlaylistAssumption DEF OnEOF, Sending, RequestMediaSendStop, window,
    session, counts, MovieTyped
<1>11. CASE OnMediaSend
  BY <1>11, PlaylistAssumption DEF OnMediaSend, Take, Handling, RequestMediaSendStop,
    window, source, counts, MovieTyped
<1>12. CASE OnMediaSendStop
  BY <1>12, PlaylistAssumption DEF OnMediaSendStop, Take, Handling, window, session,
    source, counts, MovieTyped
<1>13. CASE WaitThread
  BY <1>13, PlaylistAssumption DEF WaitThread, Handling, window, source, counts,
    MovieTyped
<1>14. CASE NotifyEnd
  BY <1>14, PlaylistAssumption DEF NotifyEnd, Handling, window, session, source, thread,
    counts, MovieTyped
<1>15. CASE OnMediaNotify
  BY <1>15, PlaylistAssumption DEF OnMediaNotify, Take, Handling, window, session,
    source, thread, counts, MovieTyped
<1>16. CASE AcceptOffer
  BY <1>16, PlaylistAssumption DEF AcceptOffer, Handling, window, source, thread,
    counts, MovieTyped
<1>17. CASE OnMediaReceiveStop
  BY <1>17, PlaylistAssumption DEF OnMediaReceiveStop, Take, Handling, window, source,
    thread, counts, MovieTyped
<1>18. CASE Serve
  BY <1>18, PlaylistAssumption DEF Serve, External, window, session, source, thread,
    MovieTyped
<1>19. CASE Offer
  BY <1>19, PlaylistAssumption DEF Offer, External, window, session, source, thread,
    MovieTyped
<1>20. CASE Withdraw
  BY <1>20, PlaylistAssumption DEF Withdraw, External, window, session, source, thread,
    MovieTyped
<1>21. CASE UNCHANGED vars
  BY <1>21, PlaylistAssumption DEF vars, window, session, source, thread, counts,
    MovieTyped
<1>22. QED
  BY <1>1, <1>2, <1>3, <1>4, <1>5, <1>6, <1>7, <1>8, <1>9, <1>10, <1>11, <1>12, <1>13,
    <1>14, <1>15, <1>16, <1>17, <1>18, <1>19, <1>20, <1>21 DEF Next, User, Ui, Sender,
    Irm

LEMMA MovieHeard ==
  ASSUME ServeInv, HeardInv, [Next]_vars
  PROVE  HeardInv'
<1> USE DEF HeardInv, ServeInv, SenderServes, Active
<1>1. CASE StartClick
  BY <1>1, Turning DEF StartClick, Calm, session, thread, Turns
<1>2. CASE FinishClick
  BY <1>2 DEF FinishClick, Calm, session, source, thread
<1>3. CASE OnBtnCancelClick
  BY <1>3 DEF OnBtnCancelClick, Calm, CancelTransmission, RequestMediaSendStop, session,
    source, thread
<1>4. CASE OpenPlaylist
  BY <1>4 DEF OpenPlaylist, Calm, session, source, thread
<1>5. CASE SetTransmitting
  BY <1>5 DEF SetTransmitting, source, thread, counts
<1>6. CASE OnMovieSendEof
  BY <1>6, Turning DEF OnMovieSendEof, Calm, session, source, thread, Turns
<1>7. CASE OnTimer
  BY <1>7, Turning DEF OnTimer, Calm, CancelTransmission, RequestMediaSendStop, session,
    source, thread, Turns
<1>8. CASE ThreadBegins
  BY <1>8 DEF ThreadBegins, Sending, window, session, counts
<1>9. CASE DeliverPacket
  BY <1>9 DEF DeliverPacket, Sending, window, session, counts
<1>10. CASE OnEOF
  BY <1>10 DEF OnEOF, Sending, RequestMediaSendStop, window, session, counts
<1>11. CASE OnMediaSend
  BY <1>11 DEF OnMediaSend, Take, Handling, RequestMediaSendStop, window, source, counts
<1>12. CASE OnMediaSendStop
  BY <1>12 DEF OnMediaSendStop, Take, Handling, window, session, source, counts
<1>13. CASE WaitThread
  BY <1>13 DEF WaitThread, Handling, window, source, counts
<1>14. CASE NotifyEnd
  BY <1>14 DEF NotifyEnd, Handling, window, session, source, thread, counts
<1>15. CASE OnMediaNotify
  BY <1>15 DEF OnMediaNotify, Take, Handling, window, session, source, thread, counts
<1>16. CASE AcceptOffer
  BY <1>16 DEF AcceptOffer, Handling, window, source, thread, counts
<1>17. CASE OnMediaReceiveStop
  BY <1>17 DEF OnMediaReceiveStop, Take, Handling, window, source, thread, counts
<1>18. CASE Serve
  BY <1>18 DEF Serve, External, window, session, source, thread
<1>19. CASE Offer
  BY <1>19 DEF Offer, External, window, session, source, thread
<1>20. CASE Withdraw
  BY <1>20 DEF Withdraw, External, window, session, source, thread
<1>21. CASE UNCHANGED vars
  BY <1>21 DEF vars, window, session, source, thread, counts
<1>22. QED
  BY <1>1, <1>2, <1>3, <1>4, <1>5, <1>6, <1>7, <1>8, <1>9, <1>10, <1>11, <1>12, <1>13,
    <1>14, <1>15, <1>16, <1>17, <1>18, <1>19, <1>20, <1>21 DEF Next, User, Ui, Sender,
    Irm

LEMMA MovieTypes ==
  ASSUME PlaylistAssumption, MovieTyped, ServeInv, [Next]_vars
  PROVE  MovieTyped'
<1> USE PlaylistAssumption, Messages DEF MovieTyped
<1>1. CASE StartClick
  <2>1. \/ UNCHANGED toServer
        \/ sndId # 0 /\ toServer' = Append(toServer, Stop(sndId))
    BY <1>1, Turning DEF StartClick, Turns
  <2>2. toServer' \in Seq(Msgs)
    BY <2>1, QueueTypes
  <2>3. QED
    BY <1>1, <2>2, Turning DEF StartClick, Calm, Turns, session, thread
<1>2. CASE FinishClick
  BY <1>2 DEF FinishClick, Calm, session, source, thread
<1>3. CASE OnBtnCancelClick
  <2>1. \/ UNCHANGED toServer
        \/ sndId # 0 /\ toServer' = Append(toServer, Stop(sndId))
    BY <1>3 DEF OnBtnCancelClick, CancelTransmission, RequestMediaSendStop
  <2>2. toServer' \in Seq(Msgs)
    BY <2>1, QueueTypes
  <2>3. QED
    BY <1>3, <2>2 DEF OnBtnCancelClick, Calm, session, source, thread
<1>4. CASE OpenPlaylist
  BY <1>4 DEF OpenPlaylist, Calm, session, source, thread
<1>5. CASE SetTransmitting
  <2>1. toServer' = Append(toServer, Send(0))
    BY <1>5 DEF SetTransmitting, Send
  <2>2. toServer' \in Seq(Msgs)
    BY <2>1, QueueTypes
  <2>3. QED
    BY <1>5, <2>2 DEF SetTransmitting, source, counts
<1>6. CASE OnMovieSendEof
  <2>1. \/ UNCHANGED toServer
        \/ sndId # 0 /\ toServer' = Append(toServer, Stop(sndId))
    BY <1>6, Turning DEF OnMovieSendEof, Turns
  <2>2. toServer' \in Seq(Msgs)
    BY <2>1, QueueTypes
  <2>3. QED
    BY <1>6, <2>2, Turning DEF OnMovieSendEof, Calm, Turns, session, source, thread
<1>7. CASE OnTimer
  <2>1. \/ UNCHANGED toServer
        \/ sndId # 0 /\ toServer' = Append(toServer, Stop(sndId))
    BY <1>7, Turning DEF OnTimer, CancelTransmission, RequestMediaSendStop, Turns
  <2>2. toServer' \in Seq(Msgs)
    BY <2>1, QueueTypes
  <2>3. QED
    BY <1>7, <2>2, Turning DEF OnTimer, Calm, Turns, session, source, thread
<1>8. CASE ThreadBegins
  BY <1>8 DEF ThreadBegins, Sending, window, session, counts
<1>9. CASE DeliverPacket
  BY <1>9 DEF DeliverPacket, Sending, window, session, counts
<1>10. CASE OnEOF
  BY <1>10, QueueTypes DEF OnEOF, Sending, RequestMediaSendStop, window, session, counts
<1>11. CASE OnMediaSend
  <2>1. /\ toClient' \in Seq(Msgs) /\ Head(toClient).id \in Nat
        /\ ~OnWay(toClient', Send(0))
    BY <1>11, MessageTaken, QueueTypes DEF OnMediaSend, Take
  <2>2. \/ UNCHANGED toServer
        \/ toServer' = Append(toServer, Stop(Head(toClient).id))
    BY <1>11 DEF OnMediaSend, RequestMediaSendStop
  <2>3. toServer' \in Seq(Msgs)
    <3>1. Stop(Head(toClient).id) \in Msgs
      BY <2>1
    <3>2. QED
      BY <2>2, <3>1, QueueTypes
  <2>4. sndId' \in Nat
    BY <1>11, <2>1 DEF OnMediaSend
  <2>5. QED
    BY <1>11, <2>1, <2>3, <2>4 DEF OnMediaSend, Handling, source, counts
<1>12. CASE OnMediaSendStop
  BY <1>12, MessageTaken DEF OnMediaSendStop, Take, Handling, window, session, source, counts
<1>13. CASE WaitThread
  BY <1>13 DEF WaitThread, Handling, window, source, counts
<1>14. CASE NotifyEnd
  BY <1>14 DEF NotifyEnd, Handling, window, session, source, thread, counts
<1>15. CASE OnMediaNotify
  <2>1. /\ toClient' \in Seq(Msgs) /\ Head(toClient).id \in Nat
        /\ ~OnWay(toClient', Send(0))
    BY <1>15, MessageTaken, QueueTypes DEF OnMediaNotify, Take
  <2>2. QED
    BY <1>15, <2>1 DEF OnMediaNotify, Handling, session, source, counts
<1>16. CASE AcceptOffer
  BY <1>16 DEF AcceptOffer, Handling, window, source, thread, counts
<1>17. CASE OnMediaReceiveStop
  BY <1>17, MessageTaken DEF OnMediaReceiveStop, Take, Handling, window, source, thread, counts
<1>18. CASE Serve
  <2> DEFINE m == Head(toServer)
  <2>1. m \in Msgs /\ toServer' \in Seq(Msgs)
    BY <1>18, QueueTypes DEF Serve
  <2>2. CASE m.kind = "send"
    <3>1. /\ toClient' = Append(toClient, Send(lastId + 1)) /\ lastId' = lastId + 1
      BY <1>18, <2>1, <2>2, MessageTaken DEF Serve, Send
    <3>2. toClient' \in Seq(Msgs) /\ ~OnWay(toClient', Send(0))
      BY <3>1, Queued
    <3>3. QED
      BY <1>18, <2>1, <3>1, <3>2 DEF Serve, External, session, source
  <2>3. CASE m.kind # "send"
    <3>1. toClient' = Append(toClient, m) /\ lastId' = lastId /\ m # Send(0)
      BY <1>18, <2>3 DEF Serve, Send
    <3>2. toClient' \in Seq(Msgs) /\ ~OnWay(toClient', Send(0))
      BY <2>1, <3>1, Queued
    <3>3. QED
      BY <1>18, <2>1, <3>1, <3>2 DEF Serve, External, session, source
  <2>4. QED
    BY <2>2, <2>3
<1>19. CASE Offer
  <2> DEFINE x == [kind |-> "notify", id |-> lastId + 1]
  <2>1. x \in Msgs /\ toClient' = Append(toClient, x)
    BY <1>19 DEF Offer, Msgs
  <2>2. toClient' \in Seq(Msgs) /\ ~OnWay(toClient', Send(0))
    BY <2>1, Queued DEF Send
  <2>3. QED
    BY <1>19, <2>2 DEF Offer, External, session, source
<1>20. CASE Withdraw
  <2> DEFINE x == [kind |-> "receivestop", id |-> rcvId]
  <2>1. x \in Msgs /\ toClient' = Append(toClient, x)
    BY <1>20 DEF Withdraw, Msgs
  <2>2. toClient' \in Seq(Msgs) /\ ~OnWay(toClient', Send(0))
    BY <2>1, Queued DEF Send
  <2>3. QED
    BY <1>20, <2>2 DEF Withdraw, External, session, source
<1>21. CASE UNCHANGED vars
  BY <1>21 DEF vars, window, session, source, thread, counts
<1>22. QED
  BY <1>1, <1>2, <1>3, <1>4, <1>5, <1>6, <1>7, <1>8, <1>9, <1>10, <1>11, <1>12, <1>13,
    <1>14, <1>15, <1>16, <1>17, <1>18, <1>19, <1>20, <1>21 DEF Next, User, Ui, Sender,
    Irm

(* Of an orderly exchange: what each side adds or takes keeps it so. *)
LEMMA OrderlyStop ==
  ASSUME NEW s \in Seq(Msgs), NEW c \in Seq(Msgs), NEW l \in Nat, Orderly(s, c, l),
         NEW id \in 1..l, ~OnWay(c, Send(id))
  PROVE  /\ Orderly(Append(s, Stop(id)), c, l)
         /\ Asking(Append(s, Stop(id))) <=> Asking(s)
<1> DEFINE p == Append(s, Stop(id))
<1>1. Stop(id) \in Msgs /\ Stop(id).kind = "sendstop"
  BY DEF Stop, Msgs
<1>2. /\ \A m : OnWay(p, m) <=> (OnWay(s, m) \/ Stop(id) = m)
      /\ Asking(p) <=> Asking(s)
      /\ AsksOnce(s) => AsksOnce(p)
  BY <1>1, Queued
<1>3. QED
  BY <1>2, Messages DEF Orderly

LEMMA OrderlySend ==
  ASSUME NEW s \in Seq(Msgs), NEW c \in Seq(Msgs), NEW l \in Nat, Orderly(s, c, l),
         ~Asking(s), ~Asking(c)
  PROVE  Orderly(Append(s, Send(0)), c, l)
<1> DEFINE p == Append(s, Send(0))
<1>1. Send(0) \in Msgs /\ Send(0).kind = "send"
  BY DEF Send, Msgs
<1>2. /\ \A m : OnWay(p, m) <=> (OnWay(s, m) \/ Send(0) = m)
      /\ AsksOnce(s) /\ ~Asking(s) => AsksOnce(p)
  BY <1>1, Queued
<1>3. QED
  BY <1>2, Messages DEF Orderly

LEMMA OrderlyTake ==
  ASSUME NEW s \in Seq(Msgs), NEW c \in Seq(Msgs), NEW l \in Nat, Orderly(s, c, l),
         c # <<>>
  PROVE  /\ Orderly(s, Tail(c), l)
         /\ Asking(Tail(c)) => Asking(c)
         /\ Head(c).kind = "send" =>
              /\ Asking(c) /\ ~Asking(s) /\ ~Asking(Tail(c))
              /\ Head(c).id \in 0..l
              /\ ~OnWay(s, Stop(Head(c).id)) /\ ~OnWay(Tail(c), Stop(Head(c).id))
<1>1. /\ Asking(Tail(c)) \/ Head(c).kind = "send" => Asking(c)
      /\ AsksOnce(c) => AsksOnce(Tail(c)) /\ ~(Asking(Tail(c)) /\ Head(c).kind = "send")
      /\ \A m : OnWay(Tail(c), m) => OnWay(c, m)
  BY MessageTaken
<1>2. Orderly(s, Tail(c), l)
  BY <1>1 DEF Orderly
<1>3. ASSUME Head(c).kind = "send"
      PROVE  OnWay(c, Send(Head(c).id)) /\ Head(c).id \in Nat
  BY <1>3, MessageTaken DEF Send, Msgs
<1>4. QED
  BY <1>1, <1>2, <1>3 DEF Orderly

LEMMA OrderlyServe ==
  ASSUME NEW s \in Seq(Msgs), NEW c \in Seq(Msgs), NEW l \in Nat, Orderly(s, c, l),
         s # <<>>
  PROVE  LET m == Head(s)
             x == IF m.kind = "send" THEN Send(l + 1) ELSE m
             k == IF m.kind = "send" THEN l + 1 ELSE l
         IN  /\ Orderly(Tail(s), Append(c, x), k)
             /\ Asking(Tail(s)) \/ Asking(Append(c, x)) => Asking(s) \/ Asking(c)
<1> DEFINE m == Head(s)
           x == IF m.kind = "send" THEN Send(l + 1) ELSE m
           k == IF m.kind = "send" THEN l + 1 ELSE l
           p == Append(c, x)
<1>1. /\ m \in Msgs /\ OnWay(s, m)
      /\ \A y : OnWay(Tail(s), y) => OnWay(s, y)
      /\ Asking(Tail(s)) \/ m.kind = "send" => Asking(s)
      /\ AsksOnce(s) => AsksOnce(Tail(s)) /\ ~(Asking(Tail(s)) /\ m.kind = "send")
  BY MessageTaken
<1>2. x \in Msgs /\ (x.kind = "send" <=> m.kind = "send")
  <2>1. Send(l + 1) \in Msgs /\ Send(l + 1).kind = "send"
    BY DEF Send, Msgs
  <2>2. QED
    BY <1>1, <2>1
<1>3. /\ \A y : OnWay(p, y) <=> (OnWay(c, y) \/ x = y)
      /\ Asking(p) <=> (Asking(c) \/ x.kind = "send")
      /\ AsksOnce(c) /\ (x.kind = "send" => ~Asking(c)) => AsksOnce(p)
  <2> HIDE DEF x
  <2>1. QED
    BY <1>2, Queued
<1>4. AsksOnce(Tail(s)) /\ AsksOnce(p) /\ ~(Asking(Tail(s)) /\ Asking(p))
  <2> HIDE DEF x
  <2>1. QED
    BY <1>1, <1>2, <1>3 DEF Orderly
<1>5. ASSUME NEW id \in Nat, OnWay(Tail(s), Stop(id)) \/ OnWay(p, Stop(id))
      PROVE  id \in 1..k /\ ((OnWay(s, Stop(id)) \/ OnWay(c, Stop(id))) /\ id \in 1..l)
  <2>1. OnWay(s, Stop(id)) \/ OnWay(c, Stop(id))
    BY <1>1, <1>3, <1>5, Messages
  <2>2. QED
    BY <2>1 DEF Orderly
<1>6. ASSUME NEW id \in Nat, OnWay(p, Send(id))
      PROVE  id <= k /\ ~OnWay(Tail(s), Stop(id)) /\ ~OnWay(p, Stop(id))
  <2>1. CASE OnWay(c, Send(id))
    <3>1. id <= l /\ ~OnWay(s, Stop(id)) /\ ~OnWay(c, Stop(id))
      BY <2>1 DEF Orderly
    <3>2. QED
      BY <1>5, <3>1
  <2>2. CASE x = Send(id)
    <3>1. m.kind = "send" /\ id = l + 1
      BY <1>2, <2>2, Messages DEF Send
    <3>2. QED
      BY <1>5, <3>1
  <2>3. QED
    BY <1>3, <1>6, <2>1, <2>2
<1>7. Orderly(Tail(s), p, k)
  BY <1>4, <1>5, <1>6 DEF Orderly
<1>8. Asking(Tail(s)) \/ Asking(p) => Asking(s) \/ Asking(c)
  BY <1>1, <1>2, <1>3
<1>9. QED
  BY <1>7, <1>8

LEMMA OrderlyOther ==
  ASSUME NEW s \in Seq(Msgs), NEW c \in Seq(Msgs), NEW l \in Nat, Orderly(s, c, l),
         NEW x \in Msgs, x.kind \in {"notify", "receivestop"}, NEW k \in Nat, l <= k
  PROVE  /\ Orderly(s, Append(c, x), k)
         /\ Asking(Append(c, x)) <=> Asking(c)
         /\ \A id : OnWay(Append(c, x), Stop(id)) <=> OnWay(c, Stop(id))
<1> DEFINE p == Append(c, x)
<1>1. \A id : x # Stop(id) /\ x # Send(id)
  BY DEF Stop, Send
<1>2. /\ \A m : OnWay(p, m) <=> (OnWay(c, m) \/ x = m)
      /\ Asking(p) <=> Asking(c)
      /\ AsksOnce(c) => AsksOnce(p)
  BY Queued
<1>3. QED
  BY <1>1, <1>2 DEF Orderly

LEMMA MovieAsks ==
  ASSUME Calmly, MovieTyped, ServeInv, AskInv, [Next]_vars
  PROVE  AskInv'
<1> USE DEF AskInv
<1>0. /\ toServer \in Seq(Msgs) /\ toClient \in Seq(Msgs) /\ lastId \in Nat /\ sndId \in Nat
      /\ rcvId \in Nat
  BY DEF MovieTyped
<1>s. ASSUME sndId # 0, toServer' = Append(toServer, Stop(sndId)), UNCHANGED <<toClient, lastId>>
      PROVE  /\ Orderly(toServer', toClient', lastId')
             /\ Asking(toServer') <=> Asking(toServer)
  <2>1. sndId \in 1..lastId /\ ~OnWay(toClient, Send(sndId))
    BY <1>0, <1>s DEF Asking
  <2>2. QED
    BY <1>0, <1>s, <2>1, OrderlyStop
<1>1. CASE StartClick
  <2>1. \/ UNCHANGED toServer
        \/ sndId # 0 /\ toServer' = Append(toServer, Stop(sndId))
    BY <1>1, Turning DEF StartClick, Turns
  <2>2. UNCHANGED <<toClient, lastId, state, sndId, irm>>
    BY <1>1 DEF StartClick, Calm, session, thread
  <2>3. QED
    BY <1>s, <2>1, <2>2
<1>2. CASE FinishClick
  BY <1>2 DEF FinishClick, Calm, session, source, thread
<1>3. CASE OnBtnCancelClick
  <2>1. \/ UNCHANGED toServer
        \/ sndId # 0 /\ toServer' = Append(toServer, Stop(sndId))
    BY <1>3 DEF OnBtnCancelClick, CancelTransmission, RequestMediaSendStop
  <2>2. UNCHANGED <<toClient, lastId, state, sndId, irm>>
    BY <1>3 DEF OnBtnCancelClick, Calm, session, source, thread
  <2>3. QED
    BY <1>s, <2>1, <2>2
<1>4. CASE OpenPlaylist
  BY <1>4 DEF OpenPlaylist, Calm, session, source, thread
<1>5. CASE SetTransmitting
  <2>1. ~Asking(toServer) /\ ~Asking(toClient) /\ irm \notin {"accept", "join"}
    BY <1>5 DEF SetTransmitting, ServeInv, Calmly
  <2>2. /\ toServer' = Append(toServer, Send(0)) /\ UNCHANGED <<toClient, lastId, irm>>
        /\ state' = "transmitting" /\ sndId' = 0
    BY <1>5 DEF SetTransmitting, Send, counts
  <2>3. QED
    BY <1>0, <2>1, <2>2, OrderlySend
<1>6. CASE OnMovieSendEof
  <2>1. \/ UNCHANGED toServer
        \/ sndId # 0 /\ toServer' = Append(toServer, Stop(sndId))
    BY <1>6, Turning DEF OnMovieSendEof, Turns
  <2>2. UNCHANGED <<toClient, lastId, state, sndId, irm>>
    BY <1>6 DEF OnMovieSendEof, Calm, session, source, thread
  <2>3. QED
    BY <1>s, <2>1, <2>2
<1>7. CASE OnTimer
  <2>1. \/ UNCHANGED toServer
        \/ sndId # 0 /\ toServer' = Append(toServer, Stop(sndId))
    BY <1>7, Turning DEF OnTimer, CancelTransmission, RequestMediaSendStop, Turns
  <2>2. UNCHANGED <<toClient, lastId, state, sndId, irm>>
    BY <1>7 DEF OnTimer, Calm, session, source, thread
  <2>3. QED
    BY <1>s, <2>1, <2>2
<1>8. CASE ThreadBegins
  BY <1>8 DEF ThreadBegins, Sending, window, session, counts
<1>9. CASE DeliverPacket
  BY <1>9 DEF DeliverPacket, Sending, window, session, counts
<1>10. CASE OnEOF
  <2>1. \/ UNCHANGED toServer
        \/ sndId # 0 /\ toServer' = Append(toServer, Stop(sndId))
    BY <1>10 DEF OnEOF, RequestMediaSendStop
  <2>2. UNCHANGED <<toClient, lastId, state, sndId, irm>>
    BY <1>10 DEF OnEOF, Sending, window, session, counts
  <2>3. QED
    BY <1>s, <2>1, <2>2
<1>11. CASE OnMediaSend
  <2> DEFINE id == Head(toClient).id
  <2>1. /\ irm = "idle" /\ toClient # <<>> /\ Head(toClient).kind = "send"
        /\ toClient' = Tail(toClient) /\ UNCHANGED <<state, irm, lastId>>
    BY <1>11 DEF OnMediaSend, Take, Handling, counts
  <2>2. /\ Orderly(toServer, toClient', lastId) /\ ~Asking(toServer) /\ ~Asking(toClient')
        /\ Asking(toClient) /\ id \in 0..lastId
    BY <1>0, <2>1, OrderlyTake
  <2>3. id # 0
    BY <1>0, <2>1, MessageTaken DEF MovieTyped, Send
  <2>4. sndId' = id
    BY <1>11, <2>2 DEF OnMediaSend
  <2>5. CASE UNCHANGED toServer
    BY <2>1, <2>2, <2>4, <2>5
  <2>6. CASE toServer' = Append(toServer, Stop(id))
    <3>1. toClient' \in Seq(Msgs) /\ ~OnWay(toClient', Send(id))
      BY <1>0, <2>1, <2>2, MessageTaken DEF Asking
    <3>2. Orderly(toServer', toClient', lastId) /\ ~Asking(toServer')
      BY <1>0, <2>2, <2>3, <2>6, <3>1, OrderlyStop
    <3>3. QED
      BY <2>1, <2>2, <2>4, <3>2
  <2>7. QED
    BY <1>11, <2>5, <2>6 DEF OnMediaSend, RequestMediaSendStop
<1>12. CASE OnMediaSendStop
  <2>1. /\ toClient # <<>> /\ toClient' = Tail(toClient) /\ UNCHANGED <<toServer, lastId>>
    BY <1>12 DEF OnMediaSendStop, Take, Handling, window, session, source, counts
  <2>2. /\ TRUE /\ UNCHANGED <<state, sndId>>
        /\ irm = "idle" /\ (irm' # "idle" => irm' = "join" /\ Head(toClient) = Stop(sndId))
    BY <1>12, <1>0, MessageTaken DEF OnMediaSendStop, Take, Handling, window, session, source,
      counts, Stop
  <2>3. Orderly(toServer', toClient', lastId') /\ (Asking(toClient') => Asking(toClient))
    BY <1>0, <2>1, OrderlyTake
  <2>4. QED
    BY <1>0, <2>1, <2>2, <2>3, MessageTaken DEF Orderly
<1>13. CASE WaitThread
  BY <1>13, <1>0 DEF WaitThread, Handling, window, source, counts
<1>14. CASE NotifyEnd
  BY <1>14 DEF NotifyEnd, Handling, window, session, source, thread, counts
<1>15. CASE OnMediaNotify
  <2>1. /\ toClient # <<>> /\ toClient' = Tail(toClient) /\ UNCHANGED <<toServer, lastId>>
    BY <1>15 DEF OnMediaNotify, Take, Handling, window, session, source, thread, counts
  <2>2. /\ TRUE /\ UNCHANGED <<state, sndId>>
        /\ irm' # "join" /\ (irm' = "accept" => state = "idle")
    BY <1>15, <1>0 DEF OnMediaNotify, Take, Handling, window, session, source, thread,
      counts
  <2>3. Orderly(toServer', toClient', lastId') /\ (Asking(toClient') => Asking(toClient))
    BY <1>0, <2>1, OrderlyTake
  <2>4. QED
    BY <1>0, <2>1, <2>2, <2>3
<1>16. CASE AcceptOffer
  BY <1>16, <1>0 DEF AcceptOffer, Handling, window, source, thread, counts, ServeInv
<1>17. CASE OnMediaReceiveStop
  <2>1. /\ toClient # <<>> /\ toClient' = Tail(toClient) /\ UNCHANGED <<toServer, lastId>>
    BY <1>17 DEF OnMediaReceiveStop, Take, Handling, window, source, thread, counts
  <2>2. /\ TRUE /\ irm = "idle" /\ irm' = irm
        /\ \/ UNCHANGED <<state, sndId>>
           \/ state = "receiving" /\ sndId' = 0
    BY <1>17, <1>0, MessageTaken DEF OnMediaReceiveStop, Take, Handling, window, source,
      thread, counts
  <2>3. Orderly(toServer', toClient', lastId') /\ (Asking(toClient') => Asking(toClient))
    BY <1>0, <2>1, OrderlyTake
  <2>4. QED
    BY <1>0, <2>1, <2>2, <2>3
<1>18. CASE Serve
  <2>1. UNCHANGED <<state, sndId, irm>> /\ toServer # <<>> /\ lastId' \in {lastId, lastId + 1}
    BY <1>18, <1>0 DEF Serve, External, session
  <2>2. /\ Orderly(toServer', toClient', lastId')
        /\ Asking(toServer') \/ Asking(toClient') => Asking(toServer) \/ Asking(toClient)
    <3>1. CASE Head(toServer).kind = "send"
      <4>1. /\ toServer' = Tail(toServer) /\ lastId' = lastId + 1
            /\ toClient' = Append(toClient, Send(lastId + 1))
        <5> DEFINE m == Head(toServer)
        <5>1. m = [kind |-> "send", id |-> m.id]
          <6>1. toServer \in Seq(Msgs) /\ toServer # <<>>
            BY <1>0, <2>1
          <6>2. m = [kind |-> m.kind, id |-> m.id]
            BY <6>1, MessageTaken
          <6>3. QED
            BY <3>1, <6>2
        <5>2. /\ toServer' = Tail(toServer) /\ lastId' = lastId + 1
              /\ toClient' = Append(toClient, [m EXCEPT !.id = lastId'])
          BY <1>18, <3>1 DEF Serve
        <5> HIDE DEF m
        <5>3. [m EXCEPT !.id = lastId'] = Send(lastId')
          BY <5>1 DEF Send
        <5>4. QED
          BY <5>2, <5>3
      <4>2. QED
        BY <1>0, <2>1, <3>1, <4>1, OrderlyServe
    <3>2. CASE Head(toServer).kind # "send"
      <4>1. /\ toServer' = Tail(toServer) /\ lastId' = lastId
            /\ toClient' = Append(toClient, Head(toServer))
        BY <1>18, <3>2 DEF Serve
      <4>2. QED
        BY <1>0, <2>1, <3>2, <4>1, OrderlyServe
    <3>3. QED
      BY <3>1, <3>2
  <2>3. QED
    BY <1>0, <2>1, <2>2
<1>19. CASE Offer
  <2> DEFINE x == [kind |-> "notify", id |-> lastId + 1]
  <2>1. /\ x \in Msgs /\ x.kind \in {"notify", "receivestop"}
        /\ toClient' = Append(toClient, x) /\ lastId' \in Nat /\ lastId <= lastId'
        /\ UNCHANGED <<toServer, state, sndId, irm>>
    BY <1>19, <1>0 DEF Offer, External, session, Msgs
  <2>2. QED
    BY <1>0, <2>1, OrderlyOther
<1>20. CASE Withdraw
  <2> DEFINE x == [kind |-> "receivestop", id |-> rcvId]
  <2>1. /\ x \in Msgs /\ x.kind \in {"notify", "receivestop"}
        /\ toClient' = Append(toClient, x) /\ lastId' \in Nat /\ lastId <= lastId'
        /\ UNCHANGED <<toServer, state, sndId, irm>>
    BY <1>20, <1>0 DEF Withdraw, External, session, Msgs
  <2>2. QED
    BY <1>0, <2>1, OrderlyOther
<1>21. CASE UNCHANGED vars
  BY <1>21 DEF vars, window, session, source, thread, counts
<1>22. QED
  BY <1>1, <1>2, <1>3, <1>4, <1>5, <1>6, <1>7, <1>8, <1>9, <1>10, <1>11, <1>12, <1>13,
    <1>14, <1>15, <1>16, <1>17, <1>18, <1>19, <1>20, <1>21 DEF Next, User, Ui, Sender,
    Irm

LEMMA MovieCuts ==
  ASSUME Calmly, MovieTyped, ServeInv, AskInv, CutInv, [Next]_vars
  PROVE  CutInv'
<1> USE DEF CutInv, Live, Active
<1>0. /\ Active => state = "transmitting" /\ sndId # 0 /\ running
      /\ ui = "begin" => state # "transmitting"
      /\ irm = "join" => state = "transmitting"
      /\ irm = "accept" => state = "idle"
      /\ ends \in Nat
  BY DEF MovieTyped, ServeInv, SenderServes, AskInv
<1>t. toServer \in Seq(Msgs) /\ toClient \in Seq(Msgs) /\ lastId \in Nat /\ sndId \in Nat
  BY DEF MovieTyped
<1>u. UNCHANGED <<toServer, toClient, sndId>> => StopOnWay' = StopOnWay
  BY DEF StopOnWay
<1>v. toClient # <<>> /\ toClient' = Tail(toClient) /\ UNCHANGED <<toServer, sndId>>
        => (StopOnWay' => StopOnWay)
  BY <1>t, MessageTaken DEF StopOnWay
<1>1. CASE StartClick
  BY <1>1, <1>0, Turning DEF StartClick, Calm, session, thread, Turns, AtRest, Calmly
<1>2. CASE FinishClick
  <2>1. StopOnWay' = StopOnWay
    BY <1>2, <1>u DEF FinishClick, Calm, session
  <2>2. QED
    BY <1>2, <1>0, <2>1 DEF FinishClick, Calm, session, source, thread, Calmly
<1>3. CASE OnBtnCancelClick
  BY <1>3, <1>0 DEF OnBtnCancelClick, Calm, CancelTransmission, RequestMediaSendStop,
    session, source, thread
<1>4. CASE OpenPlaylist
  <2>1. StopOnWay' = StopOnWay
    BY <1>4, <1>u DEF OpenPlaylist, Calm, session
  <2>2. QED
    BY <1>4, <1>0, <2>1 DEF OpenPlaylist, Calm, session, source, thread
<1>5. CASE SetTransmitting
  BY <1>5, <1>0 DEF SetTransmitting, source, thread, counts, Calmly
<1>6. CASE OnMovieSendEof
  <2>1. ends = 1 /\ ~timer /\ ~Live /\ irm # "notify" /\ ~Active
    BY <1>6, <1>0 DEF OnMovieSendEof
  <2>2. ends' = 0 /\ ~Active' /\ (Live' => finish) /\ UNCHANGED <<irm, sender, terminate>>
    BY <1>6, <1>0, <2>1 DEF OnMovieSendEof, Calm, session, thread
  <2>3. timer' <=> ~finish
    BY <1>6, <2>1 DEF OnMovieSendEof
  <2>4. QED
    BY <1>0, <2>1, <2>2, <2>3
<1>7. CASE OnTimer
  <2>1. CASE Live
    <3>1. timer /\ finish /\ asked /\ ends = 0 /\ irm # "notify"
      BY <1>7, <2>1 DEF OnTimer
    <3>2. QED
      BY <1>7, <1>0, <3>1 DEF OnTimer, Calm, session, thread
  <2>2. CASE ~Live
    <3>1. ends = 0 /\ irm # "notify" /\ ~Active
      BY <1>7, <1>0, <2>2 DEF OnTimer
    <3>2. QED
      BY <1>7, <1>0, <2>2, <3>1 DEF OnTimer, Calm, session, thread
  <2>3. QED
    BY <2>1, <2>2
<1>8. CASE ThreadBegins
  <2>1. StopOnWay' = StopOnWay
    BY <1>8, <1>u DEF ThreadBegins, Sending, session, counts
  <2>2. QED
    BY <1>8, <1>0, <2>1 DEF ThreadBegins, Sending, window, session, counts
<1>9. CASE DeliverPacket
  <2>1. StopOnWay' = StopOnWay
    BY <1>9, <1>u DEF DeliverPacket, Sending, session, counts
  <2>2. QED
    BY <1>9, <1>0, <2>1 DEF DeliverPacket, Sending, window, session, counts
<1>10. CASE OnEOF
  BY <1>10, <1>0 DEF OnEOF, Sending, RequestMediaSendStop, window, session, counts,
    Calmly
<1>11. CASE OnMediaSend
  <2> DEFINE id == Head(toClient).id
  <2>1. /\ irm = "idle" /\ toClient # <<>> /\ Head(toClient).kind = "send"
        /\ toClient' = Tail(toClient)
        /\ UNCHANGED <<ui, timer, finish, started, asked, ends, state, irm, terminate>>
    BY <1>11 DEF OnMediaSend, Take, Handling, window
  <2>2. CASE state # "transmitting"
    <3>1. UNCHANGED <<sndId, sender, toServer>>
      BY <1>11, <2>2 DEF OnMediaSend
    <3>2. QED
      BY <1>0, <1>v, <2>1, <2>2, <3>1
  <2>3. CASE state = "transmitting"
    <3>1. Asking(toClient) /\ ~OnWay(toServer, Stop(id)) /\ ~OnWay(toClient', Stop(id))
      BY <1>t, <2>1, OrderlyTake DEF AskInv
    <3>2. ~Active /\ ~timer
      BY <1>0, <2>3, <3>1 DEF AskInv
    <3>3. CASE UNCHANGED sender
      BY <1>0, <2>1, <3>2, <3>3
    <3>4. CASE sender' = "start" /\ UNCHANGED toServer /\ sndId' = id
      <4>1. ~StopOnWay'
        BY <3>1, <3>4 DEF StopOnWay
      <4>2. QED
        BY <1>0, <2>1, <3>2, <3>4, <4>1
    <3>5. QED
      BY <1>11, <2>3, <3>3, <3>4 DEF OnMediaSend
  <2>4. QED
    BY <2>2, <2>3
<1>12. CASE OnMediaSendStop
  <2>1. StopOnWay' => StopOnWay
    BY <1>12, <1>v DEF OnMediaSendStop, Take, session
  <2>2. CASE state = "transmitting" /\ Head(toClient).id = sndId
    <3>1. StopOnWay
      BY <1>12, <1>t, <2>2, MessageTaken DEF OnMediaSendStop, Take, StopOnWay, Stop
    <3>2. QED
      BY <1>12, <1>0, <2>1, <2>2, <3>1 DEF OnMediaSendStop, Take, Handling, window, session
  <2>3. CASE ~(state = "transmitting" /\ Head(toClient).id = sndId)
    BY <1>12, <1>0, <2>1, <2>3 DEF OnMediaSendStop, Take, Handling, window, session
  <2>4. QED
    BY <2>2, <2>3
<1>13. CASE WaitThread
  BY <1>13, <1>0 DEF WaitThread, Handling, window, source, counts
<1>14. CASE NotifyEnd
  <2>1. StopOnWay' = StopOnWay
    BY <1>14, <1>u DEF NotifyEnd, Handling, session, counts
  <2>2. QED
    BY <1>14, <1>0, <2>1 DEF NotifyEnd, Handling, window, session, source, thread,
      counts
<1>15. CASE OnMediaNotify
  <2>1. StopOnWay' => StopOnWay
    BY <1>15, <1>v DEF OnMediaNotify, Take, Handling, window, session, source, thread,
      counts
  <2>2. QED
    BY <1>15, <1>0, <2>1 DEF OnMediaNotify, Take, Handling, window, session, source,
      thread, counts
<1>16. CASE AcceptOffer
  BY <1>16, <1>0 DEF AcceptOffer, Handling, window, source, thread, counts
<1>17. CASE OnMediaReceiveStop
  <2>1. CASE UNCHANGED <<state, sndId>>
    <3>1. StopOnWay' => StopOnWay
      BY <1>17, <1>v, <2>1 DEF OnMediaReceiveStop, Take
    <3>2. QED
      BY <1>17, <1>0, <2>1, <3>1 DEF OnMediaReceiveStop, Take, Handling, window, thread
  <2>2. CASE state = "receiving" /\ state' = "idle"
    BY <1>17, <1>0, <2>2 DEF OnMediaReceiveStop, Take, Handling, window, thread
  <2>3. QED
    BY <1>17, <2>1, <2>2 DEF OnMediaReceiveStop
<1>18. CASE Serve
  <2>1. PICK x \in Msgs : toClient' = Append(toClient, x)
                       /\ (x = Head(toServer) \/ x = Send(lastId + 1))
    <3>1. CASE Head(toServer).kind = "send"
      <4>1. toClient' = Append(toClient, Send(lastId + 1))
        <5>1. /\ toServer # <<>>
              /\ toClient' = Append(toClient, [Head(toServer) EXCEPT !.id = lastId + 1])
          BY <1>18, <3>1 DEF Serve
        <5>2. Head(toServer) = [kind |-> Head(toServer).kind, id |-> Head(toServer).id]
          BY <1>t, <5>1, MessageTaken
        <5>3. [Head(toServer) EXCEPT !.id = lastId + 1] = Send(lastId + 1)
          BY <3>1, <5>2 DEF Send
        <5>4. QED
          BY <5>1, <5>3
      <4>2. Send(lastId + 1) \in Msgs
        BY <1>t, Messages
      <4>3. QED
        BY <4>1, <4>2
    <3>2. CASE Head(toServer).kind # "send"
      BY <1>18, <1>t, <3>2, MessageTaken DEF Serve
    <3>3. QED
      BY <3>1, <3>2
  <2>2. StopOnWay' => StopOnWay
    <3>1. toServer # <<>> /\ toServer' = Tail(toServer) /\ UNCHANGED sndId
      BY <1>18 DEF Serve, External, session
    <3>2. OnWay(toServer', Stop(sndId)) => OnWay(toServer, Stop(sndId))
      BY <1>t, <3>1, MessageTaken
    <3>3. OnWay(toClient', Stop(sndId)) => OnWay(toClient, Stop(sndId)) \/ x = Stop(sndId)
      BY <1>t, <2>1, Queued
    <3>4. x = Stop(sndId) => OnWay(toServer, Stop(sndId))
      BY <1>t, <2>1, <3>1, MessageTaken, Messages
    <3>5. QED
      BY <3>1, <3>2, <3>3, <3>4 DEF StopOnWay
  <2>3. QED
    BY <1>18, <1>0, <2>2 DEF Serve, External, window, session, thread
<1>19. CASE Offer
  <2> DEFINE x == [kind |-> "notify", id |-> lastId + 1]
  <2>1. /\ x \in Msgs /\ x # Stop(sndId) /\ toClient' = Append(toClient, x)
        /\ UNCHANGED <<toServer, sndId>>
    BY <1>19, <1>t DEF Offer, External, session, Msgs, Stop, MovieTyped
  <2>2. StopOnWay' = StopOnWay
    BY <1>t, <2>1, Queued DEF StopOnWay
  <2>3. QED
    BY <1>19, <1>0, <2>2 DEF Offer, External, window, session, thread
<1>20. CASE Withdraw
  <2> DEFINE x == [kind |-> "receivestop", id |-> rcvId]
  <2>1. /\ x \in Msgs /\ x # Stop(sndId) /\ toClient' = Append(toClient, x)
        /\ UNCHANGED <<toServer, sndId>>
    BY <1>20, <1>t DEF Withdraw, External, session, Msgs, Stop, MovieTyped
  <2>2. StopOnWay' = StopOnWay
    BY <1>t, <2>1, Queued DEF StopOnWay
  <2>3. QED
    BY <1>20, <1>0, <2>2 DEF Withdraw, External, window, session, thread
<1>21. CASE UNCHANGED vars
  BY <1>21, <1>0, <1>u DEF vars, window, session, source, thread, counts
<1>22. QED
  BY <1>1, <1>2, <1>3, <1>4, <1>5, <1>6, <1>7, <1>8, <1>9, <1>10, <1>11, <1>12, <1>13,
    <1>14, <1>15, <1>16, <1>17, <1>18, <1>19, <1>20, <1>21 DEF Next, User, Ui, Sender,
    Irm

LEMMA MovieInitially ==
  ASSUME Init
  PROVE  MovieInv
<1>1. \A m : ~OnWay(<<>>, m)
  BY DEF OnWay
<1>2. ~Asking(<<>>) /\ AsksOnce(<<>>)
  BY <1>1 DEF Asking, AsksOnce
<1>3. <<>> \in Seq(Msgs)
  OBVIOUS
<1>4. MovieTyped
  BY <1>1, <1>3, PlaylistAssumption DEF Init, MovieTyped
<1>5. ServeInv /\ WholeInv /\ HeardInv
  BY DEF Init, ServeInv, SenderServes, WholeInv, HeardInv, Active
<1>6. AskInv
  BY <1>1, <1>2 DEF Init, AskInv, Orderly
<1>7. CutInv
  BY DEF Init, CutInv, Live, Active
<1>8. QED
  BY <1>4, <1>5, <1>6, <1>7 DEF MovieInv

LEMMA MovieInvariance == Spec => []MovieInv
<1>1. Init => MovieInv
  BY MovieInitially
<1>2. MovieInv /\ [Next]_vars => MovieInv'
  <2>1. ASSUME MovieInv, [Next]_vars
        PROVE  MovieInv'
    <3>1. MovieTyped /\ ServeInv /\ WholeInv /\ HeardInv
      BY <2>1 DEF MovieInv
    <3>2. MovieTyped' /\ ServeInv'
      BY <2>1, <3>1, MovieTypes, MovieServes, PlaylistAssumption
    <3>3. WholeInv' /\ HeardInv'
      BY <2>1, <3>1, MovieWhole, MovieHeard, PlaylistAssumption
    <3>4. ASSUME Calmly
          PROVE  AskInv' /\ CutInv'
      <4>1. AskInv /\ CutInv
        BY <2>1, <3>4 DEF MovieInv
      <4>2. QED
        BY <2>1, <3>1, <3>4, <4>1, MovieAsks, MovieCuts
    <3>5. Calmly' = Calmly
      BY DEF Calmly
    <3>6. QED
      BY <3>2, <3>3, <3>4, <3>5 DEF MovieInv
  <2>2. QED
    BY <2>1
<1>3. QED
  BY <1>1, <1>2, PTL DEF Spec

(* The sending thread of a movie runs for the transmission the session       *)
(* stands for and writes into the buffer made for it, in every case: neither *)
(* the window nor a handler of the IRM thread resets or replaces them under  *)
(* it (Movie, SimposiumNetwork).                                             *)
THEOREM ThreadServes == Spec => []SenderServes
<1>1. MovieInv => SenderServes
  BY DEF MovieInv, ServeInv
<1>2. QED
  BY <1>1, MovieInvariance, PTL

(* A movie that comes to its end by itself was sent whole, unless a file is  *)
(* sent twice in a row, and then resumed where it was left (GetHeader).      *)
THEOREM SentWhole ==
  ASSUME "same" \notin Cases
  PROVE  Spec => []WholeFile
<1>1. MovieInv => WholeFile
  BY PlaylistAssumption DEF MovieInv, MovieTyped, WholeInv, WholeFile
<1>2. QED
  BY <1>1, MovieInvariance, PTL

(* No movie is cut off but by the user, where no button is pressed while one *)
(* is on its way out or its beginning unanswered, none comes to its end      *)
(* while the timer of Finish runs, and none begins inside a handler of the   *)
(* IRM thread: timer, event and cancel of a movie are used up before the     *)
(* next begins.                                                              *)
THEOREM NoneCutOff ==
  ASSUME Cases \intersect {"hasty", "race"} = {}
  PROVE  Spec => []NobodyCutOff
<1>1. MovieInv => NobodyCutOff
  <2>1. ASSUME MovieInv, NEW n \in 1..Len(toServer),
               toServer[n] = Stop(sndId), sender \in {"start", "run"}
        PROVE  asked
    <3>1. ServeInv /\ CutInv
      BY <2>1 DEF MovieInv, Calmly
    <3>2. StopOnWay
      BY <2>1 DEF StopOnWay, OnWay
    <3>3. QED
      BY <2>1, <3>1, <3>2 DEF ServeInv, SenderServes, CutInv, Live, Active
  <2>2. QED
    BY <2>1 DEF NobodyCutOff
<1>2. QED
  BY <1>1, MovieInvariance, PTL

(* A sending thread that is waited for has been told to stop, and the word   *)
(* is not lost, unless a movie is stopped before its thread has begun        *)
(* (_TransmitMoviePkt() lowers the flag).                                    *)
THEOREM StopHeard ==
  ASSUME "slow" \notin Cases
  PROVE  Spec => []StopIsHeard
<1>1. MovieInv => StopIsHeard
  BY DEF MovieInv, HeardInv, StopIsHeard, Active
<1>2. QED
  BY <1>1, MovieInvariance, PTL

-----------------------------------------------------------------------------
(* The polls.  What a user sends to the channel is one poll or one report,   *)
(* message by message; what comes behind its end begins anew.                *)

Follows(k, m) ==
  IF m.kind \in {"end", "answer"} THEN k.kind \in {"begin", "answer"}
  ELSE /\ k.stats = m.stats /\ k.from = m.from /\ k.poll = m.poll
       /\ m.kind = "begin" => k.kind = "question"
       /\ m.kind # "begin" => k.kind \in {"option", "end"}

InSequence(q) ==
  \A i \in 1..Len(q) : IF i = Len(q) THEN q[i].kind \in {"end", "answer"}
                       ELSE Follows(q[i + 1], q[i])

(* The options from message i to the end of what it belongs to.              *)
Reaches(q, i, k) == \A j \in i..k : q[j].kind \notin {"end", "answer"}

ItemOf(m) == [poll |-> m.poll, index |-> m.index, count |-> m.count]

Coming(q, i) ==
  {ItemOf(q[n]) : n \in {k \in i..Len(q) : q[k].kind = "option" /\ Reaches(q, i, k)}}

(* A poll, or a report, as its starter has sent it.                          *)
AsSent(log, told, stats, p, items) ==
  IF stats THEN [owner |-> log[p], poll |-> p, options |-> items] \in told
           ELSE items = Sent(p)

Links == Users \X Users

(* On a link: who speaks is the starter of the poll, and says all of it.     *)
LinkOk(q, s, log, told) ==
  /\ InSequence(q)
  /\ \A i \in 1..Len(q) :
       /\ q[i].kind # "answer" =>
            q[i].poll \in 1..Len(log) /\ q[i].from = log[q[i].poll] /\ q[i].from = s
       /\ q[i].kind = "begin" => AsSent(log, told, q[i].stats, q[i].poll, Coming(q, i))

Speaks(q) == \E i \in 1..Len(q) : q[i].kind # "answer"

(* One user speaks at a time.                                                *)
SpeechInv ==
  /\ \A l \in Links : LinkOk(link[l], l[1], starters, reports)
  /\ \A k, l \in Links : Speaks(link[k]) /\ Speaks(link[l]) => k[1] = l[1]

Due(w) == \E n \in 1..Len(w) : w[n].what # "answer"

(* What has been collected and what is still to come are the whole.          *)
Collecting(q) == q # <<>> /\ q[1].kind \in {"question", "option", "end"}

Collected(q, d, log, told) ==
  LET m == q[1]
  IN  /\ d.owner = m.from
      /\ m.kind = "question" => d.options = {}
      /\ m.kind # "question" => d.poll = m.poll
      /\ AsSent(log, told, m.stats, m.poll, d.options \union Coming(q, 1))

CollectInv ==
  \A u, v \in Users : Collecting(link[<<v, u>>]) =>
    ~Due(events[u]) /\ Collected(link[<<v, u>>], data[u], starters, reports)

(* One event at most waits for the window, and finds all of what it is about. *)
Waiting(w, d, log, told) ==
  \A n \in 1..Len(w) : w[n].what # "answer" =>
    /\ \A m \in 1..Len(w) : w[m].what # "answer" => m = n
    /\ w[n].poll \in 1..Len(log)
    /\ d.owner = log[w[n].poll] /\ d.poll = w[n].poll
    /\ AsSent(log, told, w[n].what = "stats", w[n].poll, d.options)

WindowInv == \A u \in Users : Waiting(events[u], data[u], starters, reports)

(* A client's poll is named after its starter. *)
Named(t, log) == t.poll # 0 => t.poll \in 1..Len(log) /\ t.starter = log[t.poll]

NamedInv == \A u \in Users : Named(active[u], starters)

(* What the dialog shows is a poll as it was sent. *)
Shown(d, log) ==
  d # Closed => /\ d.poll \in 1..Len(log) /\ d.options = Sent(d.poll)
                /\ d.owner = log[d.poll]

ShownInv == \A u \in Users : Shown(dialog[u], starters)

OneAtATime == PollCases \intersect {"both", "busy", "window"} = {}

PollInv == SpeechInv /\ CollectInv /\ WindowInv /\ NamedInv /\ ShownInv
LEMMA EmptyOf == ASSUME NEW X, NEW q \in Seq(X) PROVE q = <<>> <=> Len(q) = 0
  OBVIOUS

(* Sequences of messages: what is behind the first, and what is added. *)
LEMMA RestOf ==
  ASSUME NEW q \in Seq(PollMessage), q # <<>>, InSequence(q)
  PROVE  /\ Tail(q) \in Seq(PollMessage) /\ InSequence(Tail(q))
         /\ Tail(q) # <<>> => Tail(q)[1] = q[2] /\ Follows(q[2], q[1])
         /\ Tail(q) = <<>> => q[1].kind \in {"end", "answer"}
         /\ Head(q) = q[1] /\ q[1] \in PollMessage /\ 1 \in 1..Len(q)
         /\ \A i \in 1..Len(Tail(q)) : /\ Tail(q)[i] = q[i + 1] /\ i + 1 \in 1..Len(q)
                                       /\ Coming(Tail(q), i) = Coming(q, i + 1)
<1> DEFINE p == Tail(q)
<1>1. /\ p \in Seq(PollMessage) /\ Len(p) = Len(q) - 1 /\ Len(q) \in Nat \ {0}
      /\ Head(q) = q[1] /\ q[1] \in PollMessage
      /\ p = <<>> <=> Len(p) = 0
      /\ \A i \in 1..Len(p) : p[i] = q[i + 1] /\ i + 1 \in 1..Len(q)
  <2>1. /\ p \in Seq(PollMessage) /\ Len(p) = Len(q) - 1 /\ Len(q) \in Nat \ {0}
        /\ Head(q) = q[1] /\ q[1] \in PollMessage
    OBVIOUS
  <2>2. \A i \in 1..Len(p) : p[i] = q[i + 1] /\ i + 1 \in 1..Len(q)
    OBVIOUS
  <2>3. p = <<>> <=> Len(p) = 0
    BY <2>1, EmptyOf
  <2>4. QED
    BY <2>1, <2>2, <2>3
<1> HIDE DEF p
<1>i. \A i \in 1..Len(q) : /\ i = Len(q) => q[i].kind \in {"end", "answer"}
                           /\ i # Len(q) => Follows(q[i + 1], q[i])
  BY DEF InSequence
<1>2. InSequence(p)
  <2>1. ASSUME NEW i \in 1..Len(p)
        PROVE  /\ i = Len(p) => p[i].kind \in {"end", "answer"}
               /\ i # Len(p) => Follows(p[i + 1], p[i])
    <3>1. /\ p[i] = q[i + 1] /\ i + 1 \in 1..Len(q) /\ (i = Len(p) <=> i + 1 = Len(q))
          /\ i # Len(p) => i + 1 \in 1..Len(p)
      BY <1>1
    <3>2. QED
      BY <1>1, <1>i, <3>1
  <2>2. QED
    BY <2>1 DEF InSequence
<1>3. p # <<>> => p[1] = q[2] /\ Follows(q[2], q[1])
  BY <1>1, <1>i
<1>4. p = <<>> => q[1].kind \in {"end", "answer"}
  BY <1>1, <1>i
<1>5. ASSUME NEW i \in 1..Len(p)
      PROVE  Coming(p, i) = Coming(q, i + 1)
  <2>1. ASSUME NEW k \in i..Len(p)
        PROVE  /\ p[k] = q[k + 1] /\ k + 1 \in (i + 1)..Len(q)
               /\ Reaches(p, i, k) <=> Reaches(q, i + 1, k + 1)
    <3>1. p[k] = q[k + 1] /\ k + 1 \in (i + 1)..Len(q)
      BY <1>1
    <3>2. ASSUME Reaches(p, i, k), NEW j \in (i + 1)..(k + 1)
          PROVE  q[j].kind \notin {"end", "answer"}
      <4>1. j - 1 \in i..k /\ p[j - 1] = q[j]
        BY <1>1
      <4>2. QED
        BY <3>2, <4>1 DEF Reaches
    <3>3. ASSUME Reaches(q, i + 1, k + 1), NEW j \in i..k
          PROVE  p[j].kind \notin {"end", "answer"}
      <4>1. j + 1 \in (i + 1)..(k + 1) /\ p[j] = q[j + 1]
        BY <1>1
      <4>2. QED
        BY <3>3, <4>1 DEF Reaches
    <3>4. QED
      BY <3>1, <3>2, <3>3 DEF Reaches
  <2>2. ASSUME NEW x \in Coming(p, i)
        PROVE  x \in Coming(q, i + 1)
    BY <2>1, <2>2 DEF Coming
  <2>3. ASSUME NEW x \in Coming(q, i + 1)
        PROVE  x \in Coming(p, i)
    <3>1. PICK k \in (i + 1)..Len(q) :
            x = ItemOf(q[k]) /\ q[k].kind = "option" /\ Reaches(q, i + 1, k)
      BY <2>3 DEF Coming
    <3>2. k - 1 \in i..Len(p) /\ (k - 1) + 1 = k
      BY <1>1
    <3>3. QED
      BY <2>1, <3>1, <3>2 DEF Coming
  <2>4. QED
    BY <2>2, <2>3
<1>6. QED
  BY <1>1, <1>2, <1>3, <1>4, <1>5 DEF p

LEMMA ComingOf ==
  ASSUME NEW q \in Seq(PollMessage), q # <<>>
  PROVE  /\ q[1].kind = "option" => Coming(q, 1) = {ItemOf(q[1])} \union Coming(q, 2)
         /\ q[1].kind \in {"begin", "question"} => Coming(q, 1) = Coming(q, 2)
         /\ q[1].kind \in {"end", "answer"} => Coming(q, 1) = {}
<1>1. Len(q) \in Nat \ {0}
  OBVIOUS
<1>2. q[1].kind \in {"end", "answer"} => Coming(q, 1) = {}
  BY <1>1 DEF Coming, Reaches
<1>3. ASSUME q[1].kind \notin {"end", "answer"}
      PROVE  \A k \in 2..Len(q) : Reaches(q, 1, k) <=> Reaches(q, 2, k)
  BY <1>1, <1>3 DEF Reaches
<1>4. ASSUME q[1].kind \notin {"end", "answer"}
      PROVE  Reaches(q, 1, 1)
  BY <1>4 DEF Reaches
<1>5. ASSUME q[1].kind = "option"
      PROVE  Coming(q, 1) = {ItemOf(q[1])} \union Coming(q, 2)
  BY <1>1, <1>3, <1>4, <1>5 DEF Coming
<1>6. ASSUME q[1].kind \in {"begin", "question"}
      PROVE  Coming(q, 1) = Coming(q, 2)
  BY <1>1, <1>3, <1>6 DEF Coming
<1>7. QED
  BY <1>2, <1>5, <1>6

(* One sequence behind another, which is over: a poll, a report, an answer.  *)
LEMMA Joined ==
  ASSUME NEW q \in Seq(PollMessage), NEW b \in Seq(PollMessage), b # <<>>,
         InSequence(q), InSequence(b), b[1].kind \in {"begin", "answer"}
  PROVE  /\ q \o b \in Seq(PollMessage) /\ InSequence(q \o b) /\ Len(q \o b) = Len(q) + Len(b)
         /\ \A i \in 1..Len(q) : (q \o b)[i] = q[i] /\ Coming(q \o b, i) = Coming(q, i)
         /\ \A i \in 1..Len(b) : /\ (q \o b)[Len(q) + i] = b[i]
                                 /\ Coming(q \o b, Len(q) + i) = Coming(b, i)
<1> DEFINE p == q \o b
           n == Len(q)
<1>1. /\ p \in Seq(PollMessage) /\ n \in Nat /\ Len(b) \in Nat \ {0} /\ Len(p) = n + Len(b)
      /\ \A i \in 1..n : p[i] = q[i]
      /\ \A i \in 1..Len(b) : p[n + i] = b[i]
  OBVIOUS
<1> HIDE DEF p
<1>q. \A i \in 1..n : /\ i = n => q[i].kind \in {"end", "answer"}
                      /\ i # n => Follows(q[i + 1], q[i])
  BY DEF InSequence
<1>b. \A i \in 1..Len(b) : /\ i = Len(b) => b[i].kind \in {"end", "answer"}
                           /\ i # Len(b) => Follows(b[i + 1], b[i])
  BY DEF InSequence
<1>2. ASSUME NEW i \in 1..Len(p)
      PROVE  IF i = Len(p) THEN p[i].kind \in {"end", "answer"} ELSE Follows(p[i + 1], p[i])
  <2>1. CASE i < n
    <3>1. i \in 1..n /\ i + 1 \in 1..n /\ i # Len(p)
      BY <1>1, <2>1
    <3>2. QED
      BY <1>1, <1>q, <2>1, <3>1
  <2>2. CASE i = n
    <3>1. p[i + 1] = b[1] /\ p[i] = q[n] /\ q[n].kind \in {"end", "answer"} /\ i # Len(p)
      BY <1>1, <2>2 DEF InSequence
    <3>2. QED
      BY <3>1 DEF Follows
  <2>3. CASE i > n
    <3>1. PICK j \in 1..Len(b) : i = n + j
      <4>1. i - n \in 1..Len(b) /\ i = n + (i - n)
        BY <1>1, <2>3
      <4>2. QED
        BY <4>1
    <3>2. p[i] = b[j] /\ (j # Len(b) => p[i + 1] = b[j + 1]) /\ (j = Len(b) <=> i = Len(p))
      <4>1. ASSUME j # Len(b)
            PROVE  p[i + 1] = b[j + 1]
        <5>1. j + 1 \in 1..Len(b) /\ i + 1 = n + (j + 1)
          BY <1>1, <3>1, <4>1
        <5>2. QED
          BY <1>1, <5>1
      <4>2. p[i] = b[j] /\ (j = Len(b) <=> i = Len(p))
        BY <1>1, <3>1
      <4>3. QED
        BY <4>1, <4>2
    <3>3. QED
      BY <1>b, <3>1, <3>2
  <2>4. QED
    BY <1>1, <2>1, <2>2, <2>3
<1>3. ASSUME NEW i \in 1..n
      PROVE  Coming(p, i) = Coming(q, i)
  <2>1. q[n].kind \in {"end", "answer"}
    BY <1>1, <1>3 DEF InSequence
  <2>2. ASSUME NEW k \in i..Len(p), Reaches(p, i, k)
        PROVE  k < n
    <3>1. p[n].kind \in {"end", "answer"}
      BY <1>1, <1>3, <2>1
    <3>2. \A j \in i..k : j # n
      BY <2>2, <3>1 DEF Reaches
    <3>3. QED
      BY <1>1, <1>3, <3>2
  <2>3. \A k \in i..n : Reaches(p, i, k) <=> Reaches(q, i, k)
    <3>1. \A k \in i..n : \A j \in i..k : p[j] = q[j]
      BY <1>1
    <3>2. QED
      BY <3>1 DEF Reaches
  <2>4. \A k \in i..n : k \in i..Len(p) /\ p[k] = q[k]
    BY <1>1
  <2>5. \A k \in i..Len(p) : k < n => k \in i..n
    BY <1>1
  <2>6. QED
    BY <2>2, <2>3, <2>4, <2>5 DEF Coming
<1>4. ASSUME NEW i \in 1..Len(b)
      PROVE  Coming(p, n + i) = Coming(b, i)
  <2>1. ASSUME NEW k \in i..Len(b)
        PROVE  /\ n + k \in (n + i)..Len(p) /\ p[n + k] = b[k]
               /\ Reaches(p, n + i, n + k) <=> Reaches(b, i, k)
    <3>1. n + k \in (n + i)..Len(p) /\ p[n + k] = b[k]
      BY <1>1
    <3>2. ASSUME Reaches(p, n + i, n + k), NEW j \in i..k
          PROVE  b[j].kind \notin {"end", "answer"}
      <4>1. n + j \in (n + i)..(n + k) /\ p[n + j] = b[j]
        BY <1>1
      <4>2. QED
        BY <3>2, <4>1 DEF Reaches
    <3>3. ASSUME Reaches(b, i, k), NEW j \in (n + i)..(n + k)
          PROVE  p[j].kind \notin {"end", "answer"}
      <4>1. j - n \in i..k /\ p[n + (j - n)] = b[j - n] /\ n + (j - n) = j
        BY <1>1
      <4>2. QED
        BY <3>3, <4>1 DEF Reaches
    <3>4. QED
      BY <3>1, <3>2, <3>3 DEF Reaches
  <2>2. ASSUME NEW x \in Coming(b, i)
        PROVE  x \in Coming(p, n + i)
    BY <2>1, <2>2 DEF Coming
  <2>3. ASSUME NEW x \in Coming(p, n + i)
        PROVE  x \in Coming(b, i)
    <3>1. PICK k \in (n + i)..Len(p) :
            x = ItemOf(p[k]) /\ p[k].kind = "option" /\ Reaches(p, n + i, k)
      BY <2>3 DEF Coming
    <3>2. k - n \in i..Len(b) /\ n + (k - n) = k
      BY <1>1
    <3>3. QED
      BY <2>1, <3>1, <3>2 DEF Coming
  <2>4. QED
    BY <2>2, <2>3
<1>5. InSequence(p)
  BY <1>2 DEF InSequence
<1>6. QED
  BY <1>1, <1>3, <1>4, <1>5 DEF p

-----------------------------------------------------------------------------
(* What goes out to the channel. *)

(* b is all of one poll, or of one report, of user u.                        *)
Speech(b, u, stats, p, items) ==
  /\ b \in Seq(PollMessage) /\ b # <<>> /\ b[1].kind = "begin" /\ InSequence(b)
  /\ \A i \in 1..Len(b) : /\ b[i].kind # "answer" /\ (b[i].kind = "begin" => i = 1)
                          /\ b[i].from = u /\ b[i].stats = stats /\ b[i].poll = p
  /\ Coming(b, 1) = items

LEMMA TupleOf ==
  ASSUME NEW X, NEW a \in X, NEW b \in X, NEW c \in X, NEW d \in X, NEW e \in X
  PROVE  <<a, b, c, d, e>> \in Seq(X) /\ \A f \in X : <<a, b, c, d, e, f>> \in Seq(X)
  OBVIOUS

LEMMA PollIsSpeech ==
  ASSUME NEW u \in Users, NEW p \in Polls
  PROVE  Speech(PollMessages(u, p), u, FALSE, p, Sent(p))
<1> DEFINE b == PollMessages(u, p)
<1>1. /\ Len(b) = 5
      /\ b[1] = Msg("begin", FALSE, u, p, Blank, 0)
      /\ b[2] = Msg("question", FALSE, u, p, Blank, 0)
      /\ b[3] = Msg("option", FALSE, u, p, 0, 0) /\ b[4] = Msg("option", FALSE, u, p, 1, 0)
      /\ b[5] = Msg("end", FALSE, u, p, Blank, 0)
  BY DEF PollMessages
<1>2. b \in Seq(PollMessage)
  <2>1. \A k \in Kinds, a \in Answers, c \in Nat : Msg(k, FALSE, u, p, a, c) \in PollMessage
    BY DEF Msg, PollMessage
  <2>2. /\ Msg("begin", FALSE, u, p, Blank, 0) \in PollMessage
        /\ Msg("question", FALSE, u, p, Blank, 0) \in PollMessage
        /\ Msg("option", FALSE, u, p, 0, 0) \in PollMessage
        /\ Msg("option", FALSE, u, p, 1, 0) \in PollMessage
        /\ Msg("end", FALSE, u, p, Blank, 0) \in PollMessage
    BY <2>1 DEF Kinds, Answers, Options, Blank
  <2>3. QED
    BY <2>2, TupleOf DEF PollMessages
<1>n. b # <<>>
  BY DEF PollMessages
<1> HIDE DEF b
<1>3. \A i \in 1..5 : i = 1 \/ i = 2 \/ i = 3 \/ i = 4 \/ i = 5
  OBVIOUS
<1>4. InSequence(b)
  <2>1. /\ Follows(b[2], b[1])
        /\ Follows(b[3], b[2])
        /\ Follows(b[4], b[3])
        /\ Follows(b[5], b[4])
        /\ b[5].kind \in {"end", "answer"}
    BY <1>1 DEF Follows, Msg
  <2>2. ASSUME NEW i \in 1..5
        PROVE  IF i = 5 THEN b[i].kind \in {"end", "answer"} ELSE Follows(b[i + 1], b[i])
    <3>1. CASE i = 1
      <4>1. i + 1 = 2 /\ i # 5
        BY <3>1
      <4>2. QED
        BY <2>1, <3>1, <4>1
    <3>2. CASE i = 2
      <4>1. i + 1 = 3 /\ i # 5
        BY <3>2
      <4>2. QED
        BY <2>1, <3>2, <4>1
    <3>3. CASE i = 3
      <4>1. i + 1 = 4 /\ i # 5
        BY <3>3
      <4>2. QED
        BY <2>1, <3>3, <4>1
    <3>4. CASE i = 4
      <4>1. i + 1 = 5 /\ i # 5
        BY <3>4
      <4>2. QED
        BY <2>1, <3>4, <4>1
    <3>5. CASE i = 5
      BY <2>1, <3>5
    <3>6. QED
      BY <1>3, <3>1, <3>2, <3>3, <3>4, <3>5
  <2>3. QED
    BY <1>1, <2>2 DEF InSequence
<1>5. \A i \in 1..Len(b) : /\ b[i].kind # "answer" /\ (b[i].kind = "begin" => i = 1)
                           /\ b[i].from = u /\ b[i].stats = FALSE /\ b[i].poll = p
  BY <1>1, <1>3 DEF Msg
<1>6. Coming(b, 1) = Sent(p)
  <2>1. Reaches(b, 1, 3) /\ Reaches(b, 1, 4)
    BY <1>1 DEF Reaches, Msg
  <2>2. /\ ItemOf(b[3]) = [poll |-> p, index |-> 0, count |-> 0]
        /\ ItemOf(b[4]) = [poll |-> p, index |-> 1, count |-> 0]
    BY <1>1 DEF ItemOf, Msg
  <2>3. \A k \in 1..5 : b[k].kind = "option" <=> k \in {3, 4}
    BY <1>1, <1>3 DEF Msg
  <2>4. {k \in 1..Len(b) : b[k].kind = "option" /\ Reaches(b, 1, k)} = {3, 4}
    BY <1>1, <2>1, <2>3
  <2>. Coming(b, 1) = {ItemOf(b[3]), ItemOf(b[4])}
    BY <2>4 DEF Coming
  <2>5. QED
    BY <2>2, <2>4 DEF Sent, Options
<1>7. b # <<>> /\ b[1].kind = "begin"
  <2>1. b # <<>>
    BY <1>n
  <2>2. b[1].kind = "begin"
    BY <1>1 DEF Msg
  <2>3. QED
    BY <2>1, <2>2
<1>8. QED
  BY <1>2, <1>4, <1>5, <1>6, <1>7 DEF Speech, b

LEMMA StatsAreSpeech ==
  ASSUME NEW u \in Users, NEW t, t.poll \in Polls, t.votes \in [Answers -> Nat],
         t.starter = u
  PROVE  Speech(StatsMessages(u, t), u, TRUE, t.poll, Report(t).options)
<1> DEFINE b == StatsMessages(u, t)
           p == t.poll
           vote(a) == Msg("option", TRUE, u, p, a, t.votes[a])
<1>1. /\ Len(b) = 6
      /\ b[1] = Msg("begin", TRUE, u, p, Blank, 0)
      /\ b[2] = Msg("question", TRUE, u, p, Blank, 0)
      /\ b[3] = vote(Blank) /\ b[4] = vote(0) /\ b[5] = vote(1)
      /\ b[6] = Msg("end", TRUE, u, p, Blank, 0)
  BY DEF StatsMessages
<1>2. b \in Seq(PollMessage)
  <2>1. \A k \in Kinds, a \in Answers, c \in Nat : Msg(k, TRUE, u, p, a, c) \in PollMessage
    BY DEF Msg, PollMessage
  <2>2. /\ Msg("begin", TRUE, u, p, Blank, 0) \in PollMessage
        /\ Msg("question", TRUE, u, p, Blank, 0) \in PollMessage
        /\ vote(Blank) \in PollMessage /\ vote(0) \in PollMessage /\ vote(1) \in PollMessage
        /\ Msg("end", TRUE, u, p, Blank, 0) \in PollMessage
    BY <2>1 DEF Kinds, Answers, Options, Blank
  <2>3. QED
    BY <2>2, TupleOf DEF StatsMessages
<1>n. b # <<>>
  BY DEF StatsMessages
<1> HIDE DEF b
<1>3. \A i \in 1..6 : i = 1 \/ i = 2 \/ i = 3 \/ i = 4 \/ i = 5 \/ i = 6
  OBVIOUS
<1>4. InSequence(b)
  <2>1. /\ Follows(b[2], b[1])
        /\ Follows(b[3], b[2])
        /\ Follows(b[4], b[3])
        /\ Follows(b[5], b[4])
        /\ Follows(b[6], b[5])
        /\ b[6].kind \in {"end", "answer"}
    BY <1>1 DEF Follows, Msg
  <2>2. ASSUME NEW i \in 1..6
        PROVE  IF i = 6 THEN b[i].kind \in {"end", "answer"} ELSE Follows(b[i + 1], b[i])
    <3>1. CASE i = 1
      <4>1. i + 1 = 2 /\ i # 6
        BY <3>1
      <4>2. QED
        BY <2>1, <3>1, <4>1
    <3>2. CASE i = 2
      <4>1. i + 1 = 3 /\ i # 6
        BY <3>2
      <4>2. QED
        BY <2>1, <3>2, <4>1
    <3>3. CASE i = 3
      <4>1. i + 1 = 4 /\ i # 6
        BY <3>3
      <4>2. QED
        BY <2>1, <3>3, <4>1
    <3>4. CASE i = 4
      <4>1. i + 1 = 5 /\ i # 6
        BY <3>4
      <4>2. QED
        BY <2>1, <3>4, <4>1
    <3>5. CASE i = 5
      <4>1. i + 1 = 6 /\ i # 6
        BY <3>5
      <4>2. QED
        BY <2>1, <3>5, <4>1
    <3>6. CASE i = 6
      BY <2>1, <3>6
    <3>7. QED
      BY <1>3, <3>1, <3>2, <3>3, <3>4, <3>5, <3>6
  <2>3. QED
    BY <1>1, <2>2 DEF InSequence
<1>5. \A i \in 1..Len(b) : /\ b[i].kind # "answer" /\ (b[i].kind = "begin" => i = 1)
                           /\ b[i].from = u /\ b[i].stats = TRUE /\ b[i].poll = p
  BY <1>1, <1>3 DEF Msg
<1>6. Coming(b, 1) = Report(t).options
  <2>1. Reaches(b, 1, 3) /\ Reaches(b, 1, 4) /\ Reaches(b, 1, 5)
    BY <1>1 DEF Reaches, Msg
  <2>2. /\ ItemOf(b[3]) = [poll |-> p, index |-> Blank, count |-> t.votes[Blank]]
        /\ ItemOf(b[4]) = [poll |-> p, index |-> 0, count |-> t.votes[0]]
        /\ ItemOf(b[5]) = [poll |-> p, index |-> 1, count |-> t.votes[1]]
    BY <1>1 DEF ItemOf, Msg
  <2>3. \A k \in 1..6 : b[k].kind = "option" <=> k \in {3, 4, 5}
    BY <1>1, <1>3 DEF Msg
  <2>4. {k \in 1..Len(b) : b[k].kind = "option" /\ Reaches(b, 1, k)} = {3, 4, 5}
    BY <1>1, <2>1, <2>3
  <2>. Coming(b, 1) = {ItemOf(b[3]), ItemOf(b[4]), ItemOf(b[5])}
    BY <2>4 DEF Coming
  <2>5. Report(t).options = {[poll |-> p, index |-> a, count |-> t.votes[a]] : a \in Answers}
    BY DEF Report
  <2>6. QED
    BY <2>2, <2>4, <2>5 DEF Answers, Options, Blank
<1>7. b # <<>> /\ b[1].kind = "begin"
  <2>1. b # <<>>
    BY <1>n
  <2>2. b[1].kind = "begin"
    BY <1>1 DEF Msg
  <2>3. QED
    BY <2>1, <2>2
<1>8. QED
  BY <1>2, <1>4, <1>5, <1>6, <1>7 DEF Speech, b

-----------------------------------------------------------------------------
(* What is kept when a message is taken, when some are added, and when polls *)
(* are sent.                                                                 *)

Grown(log, told, log2, told2) ==
  /\ Len(log) <= Len(log2) /\ \A p \in 1..Len(log) : log2[p] = log[p]
  /\ told \subseteq told2

LEMMA SentGrown ==
  ASSUME NEW log \in Seq(Users), NEW log2 \in Seq(Users), NEW told, NEW told2,
         Grown(log, told, log2, told2)
  PROVE  /\ \A p \in 1..Len(log) : p \in 1..Len(log2)
         /\ \A p \in 1..Len(log) : \A stats, items :
              AsSent(log, told, stats, p, items) => AsSent(log2, told2, stats, p, items)
         /\ \A q, s : LinkOk(q, s, log, told) => LinkOk(q, s, log2, told2)
         /\ \A q, d : Collected(q, d, log, told) /\ q[1].poll \in 1..Len(log)
                        => Collected(q, d, log2, told2)
         /\ \A w, d : Waiting(w, d, log, told) => Waiting(w, d, log2, told2)
         /\ \A t : Named(t, log) => Named(t, log2)
         /\ \A d : Shown(d, log) => Shown(d, log2)
<1>1. ASSUME NEW p \in 1..Len(log)
      PROVE  p \in 1..Len(log2) /\ log2[p] = log[p]
  BY <1>1 DEF Grown
<1>2. ASSUME NEW p \in 1..Len(log), NEW stats, NEW items, AsSent(log, told, stats, p, items)
      PROVE  AsSent(log2, told2, stats, p, items)
  BY <1>1, <1>2 DEF AsSent, Grown
<1>3. ASSUME NEW q, NEW s, LinkOk(q, s, log, told)
      PROVE  LinkOk(q, s, log2, told2)
  BY <1>1, <1>2, <1>3 DEF LinkOk
<1>4. ASSUME NEW q, NEW d, Collected(q, d, log, told), q[1].poll \in 1..Len(log)
      PROVE  Collected(q, d, log2, told2)
  BY <1>1, <1>2, <1>4 DEF Collected
<1>5. ASSUME NEW w, NEW d, Waiting(w, d, log, told)
      PROVE  Waiting(w, d, log2, told2)
  BY <1>1, <1>2, <1>5 DEF Waiting
<1>6. ASSUME NEW t, Named(t, log)
      PROVE  Named(t, log2)
  BY <1>1, <1>6 DEF Named
<1>7. ASSUME NEW d, Shown(d, log)
      PROVE  Shown(d, log2)
  BY <1>1, <1>7 DEF Shown
<1>8. QED
  BY <1>1, <1>2, <1>3, <1>4, <1>5, <1>6, <1>7

LEMMA LinkTail ==
  ASSUME NEW q \in Seq(PollMessage), q # <<>>, NEW s, NEW log, NEW told,
         LinkOk(q, s, log, told)
  PROVE  LinkOk(Tail(q), s, log, told) /\ (Speaks(Tail(q)) => Speaks(q))
<1>1. InSequence(q)
  BY DEF LinkOk
<1>2. /\ InSequence(Tail(q))
      /\ \A i \in 1..Len(Tail(q)) : /\ Tail(q)[i] = q[i + 1] /\ i + 1 \in 1..Len(q)
                                    /\ Coming(Tail(q), i) = Coming(q, i + 1)
  BY <1>1, RestOf
<1>3. QED
  BY <1>2 DEF LinkOk, Speaks

LEMMA LinkJoined ==
  ASSUME NEW q \in Seq(PollMessage), NEW b \in Seq(PollMessage), b # <<>>, NEW s, NEW log,
         NEW told, LinkOk(q, s, log, told), LinkOk(b, s, log, told),
         b[1].kind \in {"begin", "answer"}
  PROVE  /\ LinkOk(q \o b, s, log, told) /\ q \o b \in Seq(PollMessage)
         /\ Speaks(q \o b) => Speaks(q) \/ Speaks(b)
         /\ Collecting(q \o b) => /\ Collecting(q) /\ (q \o b)[1] = q[1]
                                  /\ Coming(q \o b, 1) = Coming(q, 1)
<1> DEFINE p == q \o b
           n == Len(q)
<1>1. InSequence(q) /\ InSequence(b)
  BY DEF LinkOk
<1>2. /\ p \in Seq(PollMessage) /\ InSequence(p) /\ Len(p) = n + Len(b)
      /\ n \in Nat /\ Len(b) \in Nat \ {0}
      /\ \A i \in 1..n : p[i] = q[i] /\ Coming(p, i) = Coming(q, i)
      /\ \A i \in 1..Len(b) : p[n + i] = b[i] /\ Coming(p, n + i) = Coming(b, i)
  <2>1. n \in Nat /\ Len(b) \in Nat \ {0}
    OBVIOUS
  <2>2. QED
    BY <1>1, <2>1, Joined
<1>3. n = 0 => q = <<>>
  BY EmptyOf
<1> HIDE DEF p
<1>4. ASSUME NEW i \in 1..Len(p), i \notin 1..n
      PROVE  \E j \in 1..Len(b) : i = n + j
  <2>1. i - n \in 1..Len(b) /\ i = n + (i - n)
    BY <1>2, <1>4
  <2>2. QED
    BY <2>1
<1>5. LinkOk(p, s, log, told)
  <2>1. ASSUME NEW i \in 1..Len(p)
        PROVE  /\ p[i].kind # "answer" =>
                    p[i].poll \in 1..Len(log) /\ p[i].from = log[p[i].poll] /\ p[i].from = s
               /\ p[i].kind = "begin" => AsSent(log, told, p[i].stats, p[i].poll, Coming(p, i))
    <3>1. CASE i \in 1..n
      BY <1>2, <3>1 DEF LinkOk
    <3>2. CASE i \notin 1..n
      <4>1. PICK j \in 1..Len(b) : i = n + j
        BY <1>4, <3>2
      <4>2. p[i] = b[j] /\ Coming(p, i) = Coming(b, j)
        BY <1>2, <4>1
      <4>3. QED
        BY <4>2 DEF LinkOk
    <3>3. QED
      BY <3>1, <3>2
  <2>2. QED
    BY <1>2, <2>1 DEF LinkOk
<1>6. ASSUME Speaks(p)
      PROVE  Speaks(q) \/ Speaks(b)
  <2>1. PICK i \in 1..Len(p) : p[i].kind # "answer"
    BY <1>6 DEF Speaks
  <2>2. CASE i \in 1..n
    BY <1>2, <2>1, <2>2 DEF Speaks
  <2>3. CASE i \notin 1..n
    <3>1. PICK j \in 1..Len(b) : i = n + j
      BY <1>4, <2>3
    <3>2. QED
      BY <1>2, <2>1, <3>1 DEF Speaks
  <2>4. QED
    BY <2>2, <2>3
<1>7. ASSUME Collecting(p)
      PROVE  Collecting(q) /\ p[1] = q[1] /\ Coming(p, 1) = Coming(q, 1)
  <2>1. n # 0
    <3>1. ASSUME n = 0
          PROVE  FALSE
      <4>1. p[n + 1] = b[1] /\ n + 1 = 1
        BY <1>2, <3>1
      <4>2. QED
        BY <1>7, <4>1 DEF Collecting
    <3>2. QED
      BY <3>1
  <2>2. 1 \in 1..n /\ q # <<>>
    BY <1>2, <2>1
  <2>3. QED
    BY <1>2, <1>7, <2>2 DEF Collecting
<1>8. QED
  BY <1>2, <1>5, <1>6, <1>7 DEF p

LEMMA WindowTail ==
  ASSUME NEW w \in Seq(Event), w # <<>>, NEW d, NEW log, NEW told, Waiting(w, d, log, told)
  PROVE  /\ Tail(w) \in Seq(Event) /\ Waiting(Tail(w), d, log, told) /\ Head(w) = w[1]
         /\ Due(Tail(w)) => Due(w) /\ Head(w).what = "answer"
         /\ 1 \in 1..Len(w) /\ Head(w) \in Event
<1>1. /\ Tail(w) \in Seq(Event) /\ Head(w) = w[1] /\ Head(w) \in Event
      /\ \A i \in 1..Len(Tail(w)) : Tail(w)[i] = w[i + 1] /\ i + 1 \in 1..Len(w) /\ i \in Nat
      /\ 1 \in 1..Len(w)
  OBVIOUS
<1>2. Waiting(Tail(w), d, log, told)
  <2>1. ASSUME NEW n \in 1..Len(Tail(w)), Tail(w)[n].what # "answer"
        PROVE  /\ \A m \in 1..Len(Tail(w)) : Tail(w)[m].what # "answer" => m = n
               /\ Tail(w)[n].poll \in 1..Len(log)
               /\ d.owner = log[Tail(w)[n].poll] /\ d.poll = Tail(w)[n].poll
               /\ AsSent(log, told, Tail(w)[n].what = "stats", Tail(w)[n].poll, d.options)
    <3>1. n + 1 \in 1..Len(w) /\ Tail(w)[n] = w[n + 1] /\ w[n + 1].what # "answer"
      BY <1>1, <2>1
    <3>2. \A m \in 1..Len(w) : w[m].what # "answer" => m = n + 1
      BY <3>1 DEF Waiting
    <3>3. \A m \in 1..Len(Tail(w)) : Tail(w)[m].what # "answer" => m = n
      <4>1. ASSUME NEW m \in 1..Len(Tail(w)), Tail(w)[m].what # "answer"
            PROVE  m = n
        <5>1. m + 1 = n + 1
          BY <1>1, <3>2, <4>1
        <5>2. QED
          BY <5>1
      <4>2. QED
        BY <4>1
    <3>4. QED
      BY <3>1, <3>3 DEF Waiting
  <2>2. QED
    BY <2>1 DEF Waiting
<1>3. ASSUME Due(Tail(w))
      PROVE  Due(w) /\ Head(w).what = "answer"
  <2>1. PICK n \in 1..Len(Tail(w)) : Tail(w)[n].what # "answer"
    BY <1>3 DEF Due
  <2>2. n + 1 \in 1..Len(w) /\ w[n + 1].what # "answer" /\ n + 1 # 1
    BY <1>1, <2>1
  <2>3. QED
    BY <1>1, <2>2 DEF Due, Waiting
<1>4. QED
  BY <1>1, <1>2, <1>3

LEMMA WindowAdded ==
  ASSUME NEW w \in Seq(Event), NEW e \in Event, NEW d, NEW log, NEW told,
         Waiting(w, d, log, told),
         e.what # "answer" =>
           /\ ~Due(w) /\ e.poll \in 1..Len(log)
           /\ d.owner = log[e.poll] /\ d.poll = e.poll
           /\ AsSent(log, told, e.what = "stats", e.poll, d.options)
  PROVE  /\ Append(w, e) \in Seq(Event) /\ Waiting(Append(w, e), d, log, told)
         /\ Due(Append(w, e)) => Due(w) \/ e.what # "answer"
<1> DEFINE x == Append(w, e)
           n == Len(w)
<1>1. /\ x \in Seq(Event) /\ n \in Nat /\ Len(x) = n + 1 /\ x[n + 1] = e
      /\ \A i \in 1..n : x[i] = w[i]
  OBVIOUS
<1> HIDE DEF x
<1>2. \A i \in 1..Len(x) : i \in 1..n \/ i = n + 1
  BY <1>1
<1>3. Due(x) => Due(w) \/ e.what # "answer"
  BY <1>1, <1>2 DEF Due
<1>4. ASSUME NEW i \in 1..Len(x), x[i].what # "answer"
      PROVE  /\ \A m \in 1..Len(x) : x[m].what # "answer" => m = i
             /\ x[i].poll \in 1..Len(log)
             /\ d.owner = log[x[i].poll] /\ d.poll = x[i].poll
             /\ AsSent(log, told, x[i].what = "stats", x[i].poll, d.options)
  <2>1. CASE i \in 1..n
    <3>1. w[i].what # "answer" /\ Due(w) /\ e.what = "answer" /\ x[i] = w[i]
      BY <1>1, <1>4, <2>1 DEF Due
    <3>2. QED
      BY <1>1, <1>2, <2>1, <3>1 DEF Waiting
  <2>2. CASE i = n + 1
    <3>1. e.what # "answer" /\ ~Due(w) /\ x[i] = e
      BY <1>1, <1>4, <2>2
    <3>2. QED
      BY <1>1, <1>2, <2>2, <3>1 DEF Due
  <2>3. QED
    BY <1>2, <1>4, <2>1, <2>2
<1>5. Waiting(x, d, log, told)
  BY <1>4 DEF Waiting
<1>6. QED
  BY <1>1, <1>3, <1>5 DEF x

(* A poll, or a report, is sent to the channel. *)
LEMMA ToldAll ==
  ASSUME PollTypeOK, SpeechInv, NEW u \in Users, NEW b, NEW stats \in BOOLEAN, NEW p, NEW items,
         Speech(b, u, stats, p, items), ToChannel(u, b),
         starters' \in Seq(Users), Grown(starters, reports, starters', reports'),
         p \in 1..Len(starters'), starters'[p] = u,
         AsSent(starters', reports', stats, p, items),
         \A l \in Links : Speaks(link[l]) => l[1] = u
  PROVE  /\ SpeechInv' /\ link' \in [Links -> Seq(PollMessage)]
         /\ \A l \in Links : Collecting(link'[l]) =>
              /\ Collecting(link[l]) /\ link'[l][1] = link[l][1]
              /\ Coming(link'[l], 1) = Coming(link[l], 1)
<1>1. /\ link \in [Links -> Seq(PollMessage)] /\ starters \in Seq(Users)
      /\ \A l \in Links : link[l] \in Seq(PollMessage)
  BY DEF PollTypeOK, Links
<1>2. \A l \in Links : /\ l[1] = u /\ l[2] # u => link'[l] = link[l] \o b
                       /\ ~(l[1] = u /\ l[2] # u) => link'[l] = link[l]
  BY DEF ToChannel, Links
<1>3. /\ b \in Seq(PollMessage) /\ b # <<>> /\ b[1].kind \in {"begin", "answer"}
      /\ LinkOk(b, u, starters', reports')
  BY DEF Speech, LinkOk
<1>4. ASSUME NEW l \in Links
      PROVE  LinkOk(link[l], l[1], starters', reports')
  <2>1. LinkOk(link[l], l[1], starters, reports)
    BY DEF SpeechInv
  <2>2. QED
    BY <1>1, <2>1, SentGrown
<1>5. ASSUME NEW l \in Links
      PROVE  /\ LinkOk(link'[l], l[1], starters', reports') /\ link'[l] \in Seq(PollMessage)
             /\ Speaks(link'[l]) => l[1] = u
             /\ Collecting(link'[l]) => /\ Collecting(link[l]) /\ link'[l][1] = link[l][1]
                                        /\ Coming(link'[l], 1) = Coming(link[l], 1)
  <2>1. CASE l[1] = u /\ l[2] # u
    <3>1. link'[l] = link[l] \o b
      BY <1>2, <2>1
    <3>2. QED
      BY <1>1, <1>3, <1>4, <2>1, <3>1, LinkJoined
  <2>2. CASE ~(l[1] = u /\ l[2] # u)
    <3>1. link'[l] = link[l]
      BY <1>2, <2>2
    <3>2. QED
      BY <1>1, <1>4, <3>1
  <2>3. QED
    BY <2>1, <2>2
<1>6. link' \in [Links -> Seq(PollMessage)]
  <2>1. link' = [l \in Links |-> link'[l]]
    BY DEF ToChannel, Links
  <2>2. QED
    BY <1>5, <2>1
<1>7. QED
  BY <1>5, <1>6 DEF SpeechInv

(* A message is taken. *)
LEMMA Heard ==
  ASSUME PollTypeOK, SpeechInv, NEW u \in Users, NEW v \in Users, Taken(u, v),
         UNCHANGED history
  PROVE  LET q == link[<<v, u>>]
         IN  /\ SpeechInv' /\ link' \in [Links -> Seq(PollMessage)]
             /\ q \in Seq(PollMessage) /\ q # <<>> /\ Head(link[v, u]) = q[1]
             /\ q[1] \in PollMessage /\ LinkOk(q, v, starters, reports) /\ InSequence(q)
             /\ link'[<<v, u>>] = Tail(q)
             /\ \A w, x \in Users : w # v \/ x # u => link'[<<w, x>>] = link[<<w, x>>]
             /\ q[1].kind # "answer" =>
                  \A w \in Users : w # v => ~Collecting(link[<<w, u>>])
<1> DEFINE q == link[<<v, u>>]
<1>1. /\ link \in [Links -> Seq(PollMessage)] /\ starters \in Seq(Users) /\ <<v, u>> \in Links
      /\ \A w, x \in Users : <<w, x>> \in Links /\ <<w, x>>[1] = w
      /\ q \in Seq(PollMessage)
  BY DEF PollTypeOK, Links
<1>2. q # <<>> /\ Head(link[v, u]) = Head(q) /\ link' = [link EXCEPT ![<<v, u>>] = Tail(q)]
  BY DEF Taken
<1>3. LinkOk(q, v, starters, reports) /\ InSequence(q)
  BY <1>1 DEF SpeechInv, LinkOk
<1>4. link'[<<v, u>>] = Tail(q) /\ \A l \in Links : l # <<v, u>> => link'[l] = link[l]
  BY <1>1, <1>2
<1>5. Head(q) = q[1] /\ q[1] \in PollMessage /\ Tail(q) \in Seq(PollMessage) /\ 1 \in 1..Len(q)
  BY <1>1, <1>2, <1>3, RestOf
<1>6. LinkOk(Tail(q), v, starters, reports) /\ (Speaks(Tail(q)) => Speaks(q))
  BY <1>1, <1>2, <1>3, LinkTail
<1>7. link' \in [Links -> Seq(PollMessage)]
  BY <1>1, <1>2, <1>5
<1>8. SpeechInv'
  <2>1. ASSUME NEW l \in Links
        PROVE  LinkOk(link'[l], l[1], starters', reports') /\ (Speaks(link'[l]) => Speaks(link[l]))
    <3>1. CASE l = <<v, u>>
      BY <1>1, <1>4, <1>6, <3>1 DEF history
    <3>2. CASE l # <<v, u>>
      BY <1>4, <3>2 DEF history, SpeechInv
    <3>3. QED
      BY <3>1, <3>2
  <2>2. QED
    BY <2>1 DEF SpeechInv
<1>9. ASSUME q[1].kind # "answer", NEW w \in Users, w # v, Collecting(link[<<w, u>>])
      PROVE  FALSE
  <2>1. Speaks(q)
    BY <1>5, <1>9 DEF Speaks
  <2>2. Speaks(link[<<w, u>>])
    <3>1. 1 \in 1..Len(link[<<w, u>>])
      <4>1. link[<<w, u>>] \in Seq(PollMessage) /\ link[<<w, u>>] # <<>>
        BY <1>1, <1>9 DEF Collecting
      <4>2. QED
        BY <4>1
    <3>2. QED
      BY <1>9, <3>1 DEF Collecting, Speaks
  <2>3. QED
    BY <1>1, <1>9, <2>1, <2>2 DEF SpeechInv
<1>10. \A w, x \in Users : w # v \/ x # u => link'[<<w, x>>] = link[<<w, x>>]
  BY <1>1, <1>4
<1>11. QED
  BY <1>1, <1>2, <1>3, <1>4, <1>5, <1>7, <1>8, <1>9, <1>10

(* An answer is sent. *)
LEMMA Replied ==
  ASSUME PollTypeOK, SpeechInv, NEW u \in Users, NEW s \in Users, NEW m \in PollMessage,
         m.kind = "answer", link' = [link EXCEPT ![<<u, s>>] = Append(@, m)], UNCHANGED history
  PROVE  /\ SpeechInv' /\ link' \in [Links -> Seq(PollMessage)]
         /\ \A l \in Links : Collecting(link'[l]) =>
              /\ Collecting(link[l]) /\ link'[l][1] = link[l][1]
              /\ Coming(link'[l], 1) = Coming(link[l], 1)
<1> DEFINE b == <<m>>
<1>1. /\ link \in [Links -> Seq(PollMessage)] /\ starters \in Seq(Users) /\ <<u, s>> \in Links
      /\ <<u, s>>[1] = u /\ \A l \in Links : link[l] \in Seq(PollMessage)
  BY DEF PollTypeOK, Links
<1>2. /\ link'[<<u, s>>] = link[<<u, s>>] \o b
      /\ \A l \in Links : l # <<u, s>> => link'[l] = link[l]
  <2>1. Append(link[<<u, s>>], m) = link[<<u, s>>] \o b
    BY <1>1
  <2>2. QED
    BY <1>1, <2>1
<1>3. b \in Seq(PollMessage) /\ b # <<>> /\ b[1] = m /\ Len(b) = 1
  OBVIOUS
<1> HIDE DEF b
<1>4. \A i \in 1..Len(b) : b[i].kind = "answer" /\ i = Len(b)
  BY <1>3
<1>5. LinkOk(b, u, starters, reports) /\ ~Speaks(b)
  BY <1>4 DEF LinkOk, InSequence, Speaks
<1>6. ASSUME NEW l \in Links
      PROVE  /\ LinkOk(link'[l], l[1], starters, reports) /\ link'[l] \in Seq(PollMessage)
             /\ Speaks(link'[l]) => Speaks(link[l])
             /\ Collecting(link'[l]) => /\ Collecting(link[l]) /\ link'[l][1] = link[l][1]
                                        /\ Coming(link'[l], 1) = Coming(link[l], 1)
  <2>1. LinkOk(link[l], l[1], starters, reports)
    BY DEF SpeechInv
  <2>2. CASE l = <<u, s>>
    <3>1. link'[l] = link[l] \o b /\ l[1] = u
      BY <1>1, <1>2, <2>2
    <3>2. /\ LinkOk(link[l] \o b, u, starters, reports) /\ link[l] \o b \in Seq(PollMessage)
          /\ Speaks(link[l] \o b) => Speaks(link[l]) \/ Speaks(b)
          /\ Collecting(link[l] \o b) => /\ Collecting(link[l]) /\ (link[l] \o b)[1] = link[l][1]
                                         /\ Coming(link[l] \o b, 1) = Coming(link[l], 1)
      <4>1. b[1].kind \in {"begin", "answer"} /\ LinkOk(link[l], u, starters, reports)
        BY <1>3, <2>1, <3>1
      <4>2. link[l] \in Seq(PollMessage)
        BY <1>1
      <4>3. QED
        BY <1>3, <1>5, <4>1, <4>2, LinkJoined
    <3>3. QED
      BY <1>5, <3>1, <3>2
  <2>3. CASE l # <<u, s>>
    <3>1. link'[l] = link[l]
      BY <1>2, <2>3
    <3>2. QED
      BY <1>1, <2>1, <3>1
  <2>4. QED
    BY <2>2, <2>3
<1>7. link' \in [Links -> Seq(PollMessage)]
  <2>1. link' = [l \in Links |-> link'[l]]
    BY <1>1
  <2>2. QED
    BY <1>6, <2>1
<1>8. SpeechInv'
  BY <1>6 DEF SpeechInv, history
<1>9. QED
  BY <1>6, <1>7, <1>8

-----------------------------------------------------------------------------
(* Types. *)

OfData   == [owner : Users \union {Nobody}, poll : {0} \union Polls, options : SUBSET Item]
OfActive == [starter : Users \union {Nobody, Null}, poll : {0} \union Polls,
             options : SUBSET Item, votes : [Answers -> Nat], given : SUBSET (Users \X Answers)]
OfDialog == [owner : Users \union {Nobody, Null}, poll : {0} \union Polls,
             options : SUBSET Item]

(* A question comes from a user, and so does a poll that has one.            *)
OwnerInv == \A u \in Users : /\ data[u].poll # 0 => data[u].owner \in Users
                             /\ active[u].poll # 0 => active[u].starter \in Users

PollTyped == PollTypeOK /\ OwnerInv

LEMMA SentItems ==
  ASSUME NEW p \in Polls
  PROVE  Sent(p) \subseteq Item
  BY DEF Sent, Item, Options, Answers

LEMMA TypesOf ==
  PollTypeOK <=> /\ data \in [Users -> OfData] /\ active \in [Users -> OfActive]
                 /\ events \in [Users -> Seq(Event)] /\ dialog \in [Users -> OfDialog]
                 /\ link \in [Links -> Seq(PollMessage)]
                 /\ starters \in Seq(Users) /\ Len(starters) <= MaxPolls
  BY DEF PollTypeOK, OfData, OfActive, OfDialog, Links

LEMMA Empties ==
  /\ NoData \in OfData /\ NoPoll \in OfActive /\ Closed \in OfDialog /\ NoVotes \in [Answers -> Nat]
  /\ NoData \in OfDialog /\ NoPoll.poll = 0 /\ NoData.poll = 0
  BY DEF NoData, NoPoll, Closed, NoVotes, OfData, OfActive, OfDialog

(* A message to all others.                                                  *)
LEMMA ChannelType ==
  ASSUME link \in [Links -> Seq(PollMessage)], NEW u, NEW b \in Seq(PollMessage), ToChannel(u, b)
  PROVE  link' \in [Links -> Seq(PollMessage)]
  BY DEF ToChannel, Links

LEMMA TakenType ==
  ASSUME link \in [Links -> Seq(PollMessage)], NEW u \in Users, NEW v \in Users, Taken(u, v)
  PROVE  link' \in [Links -> Seq(PollMessage)] /\ Head(link[v, u]) \in PollMessage
<1>1. <<v, u>> \in Links /\ link[<<v, u>>] \in Seq(PollMessage) /\ link[<<v, u>>] # <<>>
  BY DEF Links, Taken
<1>2. link' = [link EXCEPT ![<<v, u>>] = Tail(link[<<v, u>>])]
  BY DEF Taken
<1>3. Tail(link[<<v, u>>]) \in Seq(PollMessage) /\ Head(link[<<v, u>>]) \in PollMessage
  BY <1>1
<1>4. QED
  BY <1>1, <1>2, <1>3

LEMMA WindowType ==
  ASSUME events \in [Users -> Seq(Event)], NEW u \in Users, NEW what, Next1(u, what)
  PROVE  /\ events' \in [Users -> Seq(Event)] /\ Head(events[u]) \in Event
         /\ events[u] \in Seq(Event) /\ events[u] # <<>> /\ Head(events[u]).what = what
         /\ events'[u] = Tail(events[u])
         /\ \A w \in Users : w # u => events'[w] = events[w]
  BY DEF Next1

LEMMA SentTwo ==
  ASSUME NEW p \in Polls
  PROVE  Cardinality(Sent(p)) = 2 /\ {o \in Sent(p) : o.index >= 0} = Sent(p)
<1> DEFINE x == [poll |-> p, index |-> 0, count |-> 0]
           y == [poll |-> p, index |-> 1, count |-> 0]
<1>1. Sent(p) = {x, y} /\ x.index = 0 /\ y.index = 1
  BY DEF Sent, Options
<1> HIDE DEF x, y
<1>2. x # y
  BY <1>1
<1>3. {x} \union {y} = Sent(p) /\ y \notin {x}
  BY <1>1, <1>2
<1>4. IsFiniteSet({x}) /\ Cardinality({x}) = 1
  BY FS_Singleton
<1>5. Cardinality({x} \union {y}) = 2
  BY <1>3, <1>4, FS_AddElement
<1>6. QED
  BY <1>1, <1>3, <1>5

LEMMA PollInitial == PollInit => PollTyped /\ PollInv
<1> SUFFICES ASSUME PollInit PROVE PollTyped /\ PollInv
  OBVIOUS
<1>1. PollTypeOK
  <2>1. starters \in Seq(Users) /\ Len(starters) <= MaxPolls
    BY PollAssumption DEF PollInit
  <2>2. QED
    BY <2>1, TypesOf, Empties DEF PollInit, Links
<1>2. OwnerInv /\ NamedInv
  BY DEF PollInit, OwnerInv, NamedInv, Named, NoData, NoPoll
<1>3. ShownInv
  BY DEF PollInit, ShownInv, Shown
<1>4. \A l \in Links : link[l] = <<>> /\ Len(link[l]) = 0
  BY DEF PollInit, Links
<1>5. SpeechInv
  BY <1>4 DEF SpeechInv, LinkOk, InSequence, Speaks
<1>6. CollectInv
  BY <1>4 DEF CollectInv, Collecting, Links
<1>7. WindowInv
  <2>1. \A u \in Users : Len(events[u]) = 0
    BY DEF PollInit
  <2>2. QED
    BY <2>1 DEF WindowInv, Waiting
<1>8. QED
  BY <1>1, <1>2, <1>3, <1>5, <1>6, <1>7 DEF PollTyped, PollInv

LEMMA PollTypedStep == PollTyped /\ [PollNext]_pollVars => PollTyped'
<1> SUFFICES ASSUME PollTyped, [PollNext]_pollVars
             PROVE  PollTyped'
  OBVIOUS
<1>t. /\ data \in [Users -> OfData] /\ active \in [Users -> OfActive]
      /\ events \in [Users -> Seq(Event)] /\ dialog \in [Users -> OfDialog]
      /\ link \in [Links -> Seq(PollMessage)]
      /\ starters \in Seq(Users) /\ Len(starters) <= MaxPolls
  BY TypesOf DEF PollTyped
<1>o. OwnerInv
  BY DEF PollTyped
<1> DEFINE Typed == /\ data' \in [Users -> OfData] /\ active' \in [Users -> OfActive]
                    /\ events' \in [Users -> Seq(Event)] /\ dialog' \in [Users -> OfDialog]
                    /\ link' \in [Links -> Seq(PollMessage)]
                    /\ starters' \in Seq(Users) /\ Len(starters') <= MaxPolls
                    /\ OwnerInv'
<1>p. Typed => PollTyped'
  BY DEF PollTyped, PollTypeOK, OfData, OfActive, OfDialog, Links
<1> HIDE DEF Typed
<1>1. ASSUME NEW u \in Users, SendPoll(u)
      PROVE  Typed
  <2> DEFINE p == Len(starters) + 1
  <2>1. p \in Polls /\ starters' = Append(starters, u) /\ Len(starters') = p
        /\ starters' \in Seq(Users)
    BY <1>t, <1>1, PollAssumption DEF SendPoll, Polls
  <2>2. link' \in [Links -> Seq(PollMessage)]
    <3>1. PollMessages(u, p) \in Seq(PollMessage)
      BY <2>1, PollIsSpeech DEF Speech
    <3>2. ToChannel(u, PollMessages(u, p))
      BY <1>1 DEF SendPoll
    <3>3. QED
      BY <1>t, <3>1, <3>2, ChannelType
  <2>3. data' = [data EXCEPT ![u] = NoData] /\ data' \in [Users -> OfData]
    BY <1>t, <1>1, Empties DEF SendPoll
  <2>4. /\ active' = [active EXCEPT ![u] = [starter |-> u, poll |-> p, options |-> Sent(p),
                                            votes |-> NoVotes, given |-> {}]]
        /\ active' \in [Users -> OfActive]
    <3>1. [starter |-> u, poll |-> p, options |-> Sent(p), votes |-> NoVotes, given |-> {}]
            \in OfActive
      BY <2>1, SentItems, Empties DEF OfActive
    <3>2. QED
      BY <1>t, <1>1, <3>1 DEF SendPoll
  <2>5. OwnerInv'
    BY <1>t, <1>o, <2>3, <2>4, Empties DEF OwnerInv
  <2>6. QED
    BY <1>t, <1>1, <2>1, <2>2, <2>3, <2>4, <2>5 DEF Typed, SendPoll, Polls
<1>2. ASSUME NEW u \in Users, SendPollStats(u)
      PROVE  Typed
  <2>1. active[u].poll \in Polls /\ active[u].starter = u /\ active[u].votes \in [Answers -> Nat]
    BY <1>t, <1>2 DEF SendPollStats, IsValid, OfActive
  <2>2. StatsMessages(u, active[u]) \in Seq(PollMessage)
    BY <2>1, StatsAreSpeech DEF Speech
  <2>3. link' \in [Links -> Seq(PollMessage)]
    BY <1>t, <1>2, <2>2, ChannelType DEF SendPollStats
  <2>4. QED
    BY <1>t, <1>o, <1>2, <2>3 DEF Typed, SendPollStats, client, OwnerInv
<1>3. ASSUME NEW u \in Users, OpenWindow(u)
      PROVE  Typed
  <2>1. OwnerInv'
    BY <1>t, <1>o, <1>3, Empties DEF OwnerInv, OpenWindow
  <2>2. QED
    BY <1>t, <1>3, <2>1, Empties DEF Typed, OpenWindow, history
<1>4. ASSUME NEW u \in Users, OnPollAnswerDialogClose(u)
      PROVE  Typed
  BY <1>t, <1>o, <1>4, Empties DEF Typed, OnPollAnswerDialogClose, history, OwnerInv
<1>5. ASSUME NEW u \in Users, NEW a \in Answers, Answer(u, a)
      PROVE  Typed
  <2> DEFINE t == active[u]
             m == Msg("answer", FALSE, u, t.poll, a, 0)
  <2>1. dialog' \in [Users -> OfDialog]
    BY <1>t, <1>5, Empties DEF Answer
  <2>2. CASE UNCHANGED <<link, active>>
    BY <1>t, <1>o, <1>5, <2>1, <2>2 DEF Typed, Answer, history, OwnerInv
  <2>3. CASE /\ IsValid(t)
             /\ link' = [link EXCEPT ![<<u, t.starter>>] = Append(@, m)]
             /\ active' = IF active[t.starter].poll # t.poll THEN active
                          ELSE [active EXCEPT ![t.starter].given = @ \union {<<u, a>>}]
    <3>1. t.poll \in Polls /\ t.starter \in Users /\ t \in OfActive
      BY <1>t, <1>o, <2>3 DEF IsValid, OwnerInv, OfActive
    <3>2. m \in PollMessage
      BY <3>1 DEF Msg, PollMessage, Kinds
    <3>3. link' \in [Links -> Seq(PollMessage)]
      <4>1. <<u, t.starter>> \in Links
        BY <3>1 DEF Links
      <4> HIDE DEF m, t
      <4>2. link' = [link EXCEPT ![<<u, t.starter>>] = Append(link[<<u, t.starter>>], m)]
        BY <2>3
      <4>3. Append(link[<<u, t.starter>>], m) \in Seq(PollMessage)
        BY <1>t, <3>2, <4>1
      <4>4. QED
        BY <1>t, <4>2, <4>3
    <3> HIDE DEF m
    <3>4. active' \in [Users -> OfActive] /\ OwnerInv'
      <4>1. CASE active' = active
        BY <1>t, <1>o, <1>5, <4>1 DEF OwnerInv, Answer
      <4>2. CASE active' = [active EXCEPT ![t.starter].given = @ \union {<<u, a>>}]
        <5> DEFINE s == t.starter
        <5>1. active[s] \in OfActive /\ active[s].given \subseteq Users \X Answers
              /\ <<u, a>> \in Users \X Answers
          BY <1>t, <3>1 DEF OfActive
        <5>2. [active[s] EXCEPT !.given = @ \union {<<u, a>>}] \in OfActive
          BY <5>1 DEF OfActive
        <5>3. active' = [active EXCEPT ![s] = [active[s] EXCEPT !.given = @ \union {<<u, a>>}]]
          BY <4>2
        <5>4. active' \in [Users -> OfActive]
          BY <1>t, <5>2, <5>3
        <5>5. \A w \in Users : /\ active'[w].poll = active[w].poll
                               /\ active'[w].starter = active[w].starter
          BY <1>t, <3>1, <5>3 DEF OfActive
        <5>6. QED
          BY <1>o, <1>5, <5>4, <5>5 DEF OwnerInv, Answer
      <4>3. QED
        BY <2>3, <4>1, <4>2
    <3>5. QED
      BY <1>t, <1>5, <2>1, <3>3, <3>4 DEF Typed, Answer, history
  <2>4. QED
    BY <1>5, <2>2, <2>3 DEF Answer, SendPollAnswer
<1>6. ASSUME NEW u \in Users, NEW v \in Users, Begin(u, v)
      PROVE  Typed
  <2> DEFINE m == Head(link[v, u])
  <2>1. link' \in [Links -> Seq(PollMessage)] /\ m \in PollMessage
    BY <1>t, <1>6, TakenType DEF Begin
  <2>2. [NoData EXCEPT !.owner = m.from] \in OfData
    BY <2>1 DEF NoData, OfData, PollMessage
  <2>3. /\ data' = [data EXCEPT ![u] = [NoData EXCEPT !.owner = m.from]]
        /\ active' = active \/ active' = [active EXCEPT ![u] = NoPoll]
        /\ UNCHANGED <<events, dialog, history>>
    BY <1>6 DEF Begin
  <2> HIDE DEF m
  <2>4. OwnerInv'
    <3>1. [NoData EXCEPT !.owner = m.from].poll = 0
      BY DEF NoData
    <3>2. QED
      BY <1>t, <1>o, <2>3, <3>1, Empties DEF OwnerInv
  <2>5. QED
    BY <1>t, <2>1, <2>2, <2>3, <2>4, Empties DEF Typed, history
<1>7. ASSUME NEW u \in Users, NEW v \in Users, Question(u, v)
      PROVE  Typed
  <2> DEFINE m == Head(link[v, u])
  <2>1. link' \in [Links -> Seq(PollMessage)] /\ m \in PollMessage
    BY <1>t, <1>7, TakenType DEF Question
  <2>2. /\ data' = data \/ (data[u].owner = m.from /\ data' = [data EXCEPT ![u].poll = m.poll])
        /\ UNCHANGED <<active, events, dialog, history>>
    BY <1>7 DEF Question
  <2> HIDE DEF m
  <2>3. [data[u] EXCEPT !.poll = m.poll] \in OfData /\ m.from \in Users
    BY <1>t, <2>1 DEF OfData, PollMessage
  <2>4. CASE data' = data
    BY <1>t, <1>o, <2>1, <2>2, <2>4 DEF Typed, history, OwnerInv
  <2>5. CASE data[u].owner = m.from /\ data' = [data EXCEPT ![u].poll = m.poll]
    <3>1. data' = [data EXCEPT ![u] = [data[u] EXCEPT !.poll = m.poll]]
      BY <2>5
    <3>2. [data[u] EXCEPT !.poll = m.poll].owner \in Users
      BY <1>t, <2>3, <2>5 DEF OfData
    <3>3. data' \in [Users -> OfData] /\ OwnerInv'
      BY <1>t, <1>o, <2>2, <2>3, <3>1, <3>2 DEF OwnerInv
    <3>4. QED
      BY <1>t, <2>1, <2>2, <3>3 DEF Typed, history
  <2>6. QED
    BY <2>2, <2>4, <2>5
<1>8. ASSUME NEW u \in Users, NEW v \in Users, Option(u, v)
      PROVE  Typed
  <2> DEFINE m == Head(link[v, u])
  <2>1. link' \in [Links -> Seq(PollMessage)] /\ m \in PollMessage
    BY <1>t, <1>8, TakenType DEF Option
  <2>2. /\ data' = data \/ data' = [data EXCEPT ![u].options = @ \union {ItemOf(m)}]
        /\ UNCHANGED <<active, events, dialog, history>>
    BY <1>8 DEF Option, ItemOf
  <2> HIDE DEF m
  <2>3. ItemOf(m) \in Item
    BY <2>1 DEF ItemOf, Item, PollMessage
  <2>4. [data[u] EXCEPT !.options = @ \union {ItemOf(m)}] \in OfData
    BY <1>t, <2>3 DEF OfData
  <2>5. CASE data' = data
    BY <1>t, <1>o, <2>1, <2>2, <2>5 DEF Typed, history, OwnerInv
  <2>6. CASE data' = [data EXCEPT ![u].options = @ \union {ItemOf(m)}]
    <3> DEFINE d == [data[u] EXCEPT !.options = @ \union {ItemOf(m)}]
    <3>1. data' = [data EXCEPT ![u] = d]
      BY <2>6
    <3>2. d.owner = data[u].owner /\ d.poll = data[u].poll
      BY <1>t DEF OfData
    <3> HIDE DEF d
    <3>3. data' \in [Users -> OfData] /\ OwnerInv'
      BY <1>t, <1>o, <2>2, <2>4, <3>1, <3>2 DEF OwnerInv, d
    <3>4. QED
      BY <1>t, <2>1, <2>2, <3>3 DEF Typed, history
  <2>7. QED
    BY <2>2, <2>5, <2>6
<1>9. ASSUME NEW u \in Users, NEW v \in Users, Post(u, v)
      PROVE  Typed
  <2> DEFINE m == Head(link[v, u])
             what == IF m.kind = "answer" THEN "answer" ELSE IF m.stats THEN "stats" ELSE "poll"
             e == [what |-> what, poll |-> m.poll, index |-> m.index]
  <2>1. link' \in [Links -> Seq(PollMessage)] /\ m \in PollMessage
    BY <1>t, <1>9, TakenType DEF Post
  <2>2. e \in Event
    BY <2>1 DEF Event, PollMessage
  <2>3. events' = [events EXCEPT ![u] = Append(@, e)] /\ UNCHANGED <<data, active, dialog, history>>
    BY <1>9 DEF Post
  <2> HIDE DEF e
  <2>4. events' \in [Users -> Seq(Event)]
    BY <1>t, <2>2, <2>3
  <2>5. QED
    BY <1>t, <1>o, <2>1, <2>3, <2>4 DEF Typed, history, OwnerInv
<1>10. ASSUME NEW u \in Users, OnPoll(u)
       PROVE  Typed
  <2> DEFINE t == [starter |-> data[u].owner, poll |-> data[u].poll,
                   options |-> {o \in data[u].options : o.index >= 0},
                   votes |-> NoVotes, given |-> {}]
  <2>1. /\ events' \in [Users -> Seq(Event)] /\ active' = [active EXCEPT ![u] = t]
        /\ dialog' = [dialog EXCEPT ![u] = UpdateAnswerArea(t)]
        /\ UNCHANGED <<data, link, history>>
    BY <1>t, <1>10, WindowType DEF OnPoll
  <2>2. t \in OfActive
    BY <1>t, Empties DEF OfActive, OfData
  <2>3. t.poll = data[u].poll /\ t.starter = data[u].owner
    OBVIOUS
  <2> HIDE DEF t
  <2>4. UpdateAnswerArea(t) \in OfDialog
    BY <2>2, Empties DEF UpdateAnswerArea, OfActive, OfDialog
  <2>5. OwnerInv'
    BY <1>t, <1>o, <2>1, <2>3 DEF OwnerInv
  <2>6. QED
    BY <1>t, <2>1, <2>2, <2>4, <2>5 DEF Typed, history
<1>11. ASSUME NEW u \in Users, OnPollAnswer(u)
       PROVE  Typed
  <2> DEFINE i == Head(events[u]).index
  <2>1. /\ events' \in [Users -> Seq(Event)] /\ i \in Answers
        /\ UNCHANGED <<data, dialog, link, history>>
        /\ active' = active \/ active' = [active EXCEPT ![u] = AddVote(active[u], i)]
    <3>1. events' \in [Users -> Seq(Event)] /\ Head(events[u]) \in Event
      BY <1>t, <1>11, WindowType DEF OnPollAnswer
    <3>2. QED
      BY <1>11, <3>1 DEF OnPollAnswer, Event
  <2> HIDE DEF i
  <2>2. AddVote(active[u], i) \in OfActive /\ AddVote(active[u], i).poll = active[u].poll
        /\ AddVote(active[u], i).starter = active[u].starter
    <3>1. active[u] \in OfActive /\ active[u].votes \in [Answers -> Nat]
      BY <1>t DEF OfActive
    <3>2. [active[u].votes EXCEPT ![i] = @ + 1] \in [Answers -> Nat]
      BY <2>1, <3>1
    <3>3. QED
      BY <3>1, <3>2 DEF AddVote, OfActive
  <2>3. active' \in [Users -> OfActive] /\ OwnerInv'
    <3>1. CASE active' = active
      BY <1>t, <1>o, <2>1, <3>1 DEF OwnerInv
    <3>2. CASE active' = [active EXCEPT ![u] = AddVote(active[u], i)]
      BY <1>t, <1>o, <2>1, <2>2, <3>2 DEF OwnerInv
    <3>3. QED
      BY <2>1, <3>1, <3>2
  <2>4. QED
    BY <1>t, <2>1, <2>3 DEF Typed, history
<1>12. ASSUME NEW u \in Users, OnPollStats(u)
       PROVE  Typed
  <2>1. events' \in [Users -> Seq(Event)]
    BY <1>t, <1>12, WindowType DEF OnPollStats
  <2>2. QED
    BY <1>t, <1>o, <1>12, <2>1, Empties DEF Typed, OnPollStats, history, OwnerInv
<1>13. CASE UNCHANGED pollVars
  <2>1. /\ data' = data /\ active' = active /\ events' = events /\ dialog' = dialog
        /\ link' = link /\ starters' = starters
    BY <1>13 DEF pollVars, client, history
  <2>2. OwnerInv'
    BY <1>o, <2>1 DEF OwnerInv
  <2>3. /\ data' \in [Users -> OfData] /\ active' \in [Users -> OfActive]
        /\ events' \in [Users -> Seq(Event)] /\ dialog' \in [Users -> OfDialog]
        /\ link' \in [Links -> Seq(PollMessage)]
    BY <1>t, <2>1
  <2>4. starters' \in Seq(Users) /\ Len(starters') <= MaxPolls
    BY <1>t, <2>1
  <2>5. QED
    BY <1>p, <2>2, <2>3, <2>4 DEF Typed
<1>14. QED
  BY <1>1, <1>2, <1>3, <1>4, <1>5, <1>6, <1>7, <1>8, <1>9, <1>10, <1>11, <1>12, <1>13, <1>p
  DEF PollNext, IrmThread, UiThread

-----------------------------------------------------------------------------
(* The steps. *)

(* Nobody of them speaks, and no window has something to show of his.           *)
LEMMA QuietMeans ==
  ASSUME PollTyped, PollInv, NEW them, Quiet(them)
  PROVE  /\ \A l \in Links : Speaks(link[l]) => l[1] \notin them
         /\ them = Users => \A u \in Users : ~Due(events[u])
<1>1. /\ \A l \in Links : link[l] \in Seq(PollMessage) /\ l[1] \in Users /\ l[2] \in Users
                          /\ l = <<l[1], l[2]>>
      /\ \A u \in Users : events[u] \in Seq(Event)
  BY DEF PollTyped, PollTypeOK, Links
<1>2. /\ \A u, v \in Users : ~Has(link[v, u], LAMBDA m : m.kind # "answer" /\ m.from \in them)
      /\ \A u \in Users : ~Has(events[u], LAMBDA e : e.what # "answer" /\ starters[e.poll] \in them)
  BY DEF Quiet
<1>3. /\ \A u, v \in Users : \A n \in 1..Len(link[<<v, u>>]) :
           ~(link[<<v, u>>][n].kind # "answer" /\ link[<<v, u>>][n].from \in them)
      /\ \A u \in Users : \A n \in 1..Len(events[u]) :
           ~(events[u][n].what # "answer" /\ starters[events[u][n].poll] \in them)
  BY <1>2 DEF Has
<1>4. ASSUME NEW l \in Links, Speaks(link[l])
      PROVE  l[1] \notin them
  <2>1. PICK n \in 1..Len(link[l]) : link[l][n].kind # "answer"
    BY <1>4 DEF Speaks
  <2>2. link[l][n].from = l[1]
    BY <2>1 DEF PollInv, SpeechInv, LinkOk
  <2>3. QED
    BY <1>1, <1>3, <2>1, <2>2
<1>5. ASSUME them = Users, NEW u \in Users, Due(events[u])
      PROVE  FALSE
  <2>1. PICK n \in 1..Len(events[u]) : events[u][n].what # "answer"
    BY <1>5 DEF Due
  <2>2. starters[events[u][n].poll] \in Users
    BY <2>1 DEF PollInv, WindowInv, Waiting, PollTyped, PollTypeOK
  <2>3. QED
    BY <1>3, <1>5, <2>1, <2>2
<1>6. QED
  BY <1>4, <1>5

LEMMA CollectingSpeaks ==
  ASSUME NEW q \in Seq(PollMessage), Collecting(q)
  PROVE  Speaks(q) /\ 1 \in 1..Len(q)
<1>1. q # <<>> /\ q[1].kind # "answer"
  BY DEF Collecting
<1>2. 1 \in 1..Len(q)
  BY <1>1
<1>3. QED
  BY <1>1, <1>2 DEF Speaks

(* What a client has collected stays with what comes, where the first        *)
(* message that waits stays, and so does what comes behind it.               *)
LEMMA CollectedKept ==
  ASSUME PollTyped, PollInv, PollTyped', Grown(starters, reports, starters', reports'),
         NEW u \in Users, NEW v \in Users, Collecting(link'[<<v, u>>]),
         Collecting(link[<<v, u>>]), link'[<<v, u>>][1] = link[<<v, u>>][1],
         Coming(link'[<<v, u>>], 1) = Coming(link[<<v, u>>], 1),
         data'[u] = data[u], Due(events'[u]) => Due(events[u])
  PROVE  ~Due(events'[u]) /\ Collected(link'[<<v, u>>], data'[u], starters', reports')
<1> DEFINE q == link[<<v, u>>]
<1>1. <<v, u>> \in Links /\ q \in Seq(PollMessage)
      /\ starters \in Seq(Users) /\ starters' \in Seq(Users)
  BY DEF PollTyped, PollTypeOK, Links
<1>2. q[1].poll \in 1..Len(starters)
  <2>1. 1 \in 1..Len(q) /\ q[1].kind # "answer"
    BY <1>1, CollectingSpeaks DEF Collecting
  <2>2. LinkOk(q, <<v, u>>[1], starters, reports)
    BY <1>1 DEF PollInv, SpeechInv
  <2>3. QED
    BY <2>1, <2>2 DEF LinkOk
<1>3. ~Due(events[u]) /\ Collected(q, data[u], starters, reports)
  BY DEF PollInv, CollectInv
<1>4. Collected(q, data[u], starters', reports')
  BY <1>1, <1>2, <1>3, SentGrown
<1>5. QED
  BY <1>3, <1>4 DEF Collected

LEMMA GrownSame ==
  ASSUME PollTyped, UNCHANGED history
  PROVE  Grown(starters, reports, starters', reports') /\ starters' = starters /\ reports' = reports
  BY DEF Grown, history, PollTyped, PollTypeOK

(* What does not depend on the links, where nothing is written to it.        *)
LEMMA WindowKept ==
  ASSUME PollTyped, PollTyped', PollInv, Grown(starters, reports, starters', reports'),
         NEW w \in Users
  PROVE  /\ events'[w] = events[w] /\ data'[w] = data[w]
              => Waiting(events'[w], data'[w], starters', reports')
         /\ active'[w].poll = active[w].poll /\ active'[w].starter = active[w].starter
              => Named(active'[w], starters')
         /\ active'[w].poll = 0 => Named(active'[w], starters')
         /\ dialog'[w] = dialog[w] \/ dialog'[w] = Closed => Shown(dialog'[w], starters')
         /\ ~Due(events'[w]) => Waiting(events'[w], data'[w], starters', reports')
<1>1. starters \in Seq(Users) /\ starters' \in Seq(Users)
  BY DEF PollTyped, PollTypeOK
<1>2. /\ Waiting(events[w], data[w], starters, reports)
      /\ Named(active[w], starters) /\ Shown(dialog[w], starters)
  BY DEF PollInv, WindowInv, NamedInv, ShownInv
<1>3. /\ Waiting(events[w], data[w], starters', reports')
      /\ Named(active[w], starters') /\ Shown(dialog[w], starters')
  BY <1>1, <1>2, SentGrown
<1>4. Shown(Closed, starters')
  BY DEF Shown
<1>5. ~Due(events'[w]) => Waiting(events'[w], data'[w], starters', reports')
  BY DEF Due, Waiting
<1>6. active'[w].poll = 0 => Named(active'[w], starters')
  BY DEF Named
<1>7. active'[w].poll = active[w].poll /\ active'[w].starter = active[w].starter
              => Named(active'[w], starters')
  BY <1>3 DEF Named
<1>8. QED
  BY <1>3, <1>4, <1>5, <1>6, <1>7

LEMMA SendPollKeeps ==
  ASSUME PollTyped, PollTyped', PollInv, OneAtATime, NEW u \in Users, SendPoll(u)
  PROVE  PollInv'
<1> DEFINE p == Len(starters) + 1
<1>1. /\ p \in Polls /\ starters \in Seq(Users) /\ starters' = Append(starters, u)
      /\ Len(starters) \in Nat /\ Len(starters') = p /\ starters' \in Seq(Users)
      /\ starters'[p] = u
      /\ \A n \in 1..Len(starters) : starters'[n] = starters[n]
      /\ reports' = reports
  BY PollAssumption DEF SendPoll, PollTyped, PollTypeOK, Polls
<1>2. Grown(starters, reports, starters', reports')
  BY <1>1 DEF Grown
<1>3. /\ \A l \in Links : ~Speaks(link[l])
      /\ \A w \in Users : ~Due(events[w])
  <2>1. Quiet(Users)
    BY DEF SendPoll, OneAtATime
  <2>2. \A l \in Links : l[1] \in Users
    BY DEF Links
  <2>3. QED
    BY <2>1, <2>2, QuietMeans
<1>4. /\ SpeechInv'
      /\ \A l \in Links : Collecting(link'[l]) => Collecting(link[l])
  <2>1. Speech(PollMessages(u, p), u, FALSE, p, Sent(p))
    BY <1>1, PollIsSpeech
  <2>2. ToChannel(u, PollMessages(u, p))
    BY DEF SendPoll
  <2>3. AsSent(starters', reports', FALSE, p, Sent(p))
    BY DEF AsSent
  <2>4. p \in 1..Len(starters')
    BY <1>1
  <2> HIDE DEF p
  <2>5. QED
    BY <1>1, <1>2, <1>3, <2>1, <2>2, <2>3, <2>4, ToldAll DEF PollInv, PollTyped
<1>5. CollectInv'
  <2>1. ASSUME NEW x \in Users, NEW y \in Users, Collecting(link'[<<y, x>>])
        PROVE  FALSE
    <3>1. <<y, x>> \in Links /\ link[<<y, x>>] \in Seq(PollMessage)
      BY DEF Links, PollTyped, PollTypeOK
    <3>2. QED
      BY <1>3, <1>4, <2>1, <3>1, CollectingSpeaks
  <2>2. QED
    BY <2>1 DEF CollectInv
<1>6. events' = events /\ dialog' = dialog
      /\ active' = [active EXCEPT ![u] = [starter |-> u, poll |-> p, options |-> Sent(p),
                                          votes |-> NoVotes, given |-> {}]]
  BY DEF SendPoll
<1>7. WindowInv' /\ ShownInv'
  BY <1>2, <1>3, <1>6, WindowKept DEF WindowInv, ShownInv
<1>8. NamedInv'
  <2>1. ASSUME NEW w \in Users
        PROVE  Named(active'[w], starters')
    <3>0. active \in [Users -> OfActive]
      BY TypesOf DEF PollTyped
    <3>1. CASE w = u
      <4>1. active'[u].poll = p /\ active'[u].starter = u
        BY <1>6, <3>0
      <4>2. p \in 1..Len(starters')
        BY <1>1
      <4>3. QED
        BY <1>1, <3>1, <4>1, <4>2 DEF Named
    <3>2. CASE w # u
      <4>1. active'[w] = active[w]
        BY <1>6, <3>0, <3>2
      <4>2. QED
        BY <1>2, <4>1, WindowKept
    <3>3. QED
      BY <3>1, <3>2
  <2>2. QED
    BY <2>1 DEF NamedInv
<1>9. QED
  BY <1>4, <1>5, <1>7, <1>8 DEF PollInv

LEMMA SendPollStatsKeeps ==
  ASSUME PollTyped, PollTyped', PollInv, OneAtATime, NEW u \in Users, SendPollStats(u)
  PROVE  PollInv'
<1> DEFINE t == active[u]
<1>1. /\ t.poll \in Polls /\ t.votes \in [Answers -> Nat] /\ t.starter = u
      /\ starters \in Seq(Users) /\ starters' = starters
      /\ reports' = reports \union {Report(t)}
      /\ data' = data /\ active' = active /\ events' = events /\ dialog' = dialog
  BY TypesOf DEF SendPollStats, client, IsValid, OfActive, PollTyped
<1>2. Grown(starters, reports, starters', reports')
  BY <1>1 DEF Grown
<1>3. t.poll \in 1..Len(starters') /\ starters'[t.poll] = u
  BY <1>1, PollAssumption DEF PollInv, NamedInv, Named, Polls
<1>4. \A l \in Links : Speaks(link[l]) => l[1] = u
  <2>1. Quiet(Users \ {u})
    BY DEF SendPollStats, OneAtATime
  <2>2. \A l \in Links : l[1] \in Users
    BY DEF Links
  <2>3. QED
    BY <2>1, <2>2, QuietMeans
<1>5. /\ SpeechInv'
      /\ \A l \in Links : Collecting(link'[l]) =>
              /\ Collecting(link[l]) /\ link'[l][1] = link[l][1]
              /\ Coming(link'[l], 1) = Coming(link[l], 1)
  <2>1. Speech(StatsMessages(u, t), u, TRUE, t.poll, Report(t).options)
    BY <1>1, StatsAreSpeech
  <2>2. ToChannel(u, StatsMessages(u, t))
    BY DEF SendPollStats
  <2>3. AsSent(starters', reports', TRUE, t.poll, Report(t).options)
    <3>1. Report(t) = [owner |-> starters'[t.poll], poll |-> t.poll, options |-> Report(t).options]
      BY <1>1, <1>3 DEF Report
    <3>2. QED
      BY <1>1, <3>1 DEF AsSent
  <2> HIDE DEF t
  <2>4. QED
    BY <1>1, <1>2, <1>3, <1>4, <2>1, <2>2, <2>3, ToldAll DEF PollInv, PollTyped
<1>6. CollectInv'
  <2>1. ASSUME NEW x \in Users, NEW y \in Users, Collecting(link'[<<y, x>>])
        PROVE  ~Due(events'[x]) /\ Collected(link'[<<y, x>>], data'[x], starters', reports')
    <3>1. <<y, x>> \in Links
      BY DEF Links
    <3>2. QED
      BY <1>1, <1>2, <1>5, <2>1, <3>1, CollectedKept
  <2>2. QED
    BY <2>1 DEF CollectInv
<1>7. WindowInv' /\ NamedInv' /\ ShownInv'
  BY <1>1, <1>2, WindowKept DEF WindowInv, NamedInv, ShownInv
<1>8. QED
  BY <1>5, <1>6, <1>7 DEF PollInv

LEMMA OpenWindowKeeps ==
  ASSUME PollTyped, PollTyped', PollInv, OneAtATime, NEW u \in Users, OpenWindow(u)
  PROVE  PollInv'
<1>1. /\ events' = events /\ dialog' = dialog /\ link' = link /\ UNCHANGED history
      /\ active' = [active EXCEPT ![u] = NoPoll]
  BY DEF OpenWindow
<1>2. /\ Grown(starters, reports, starters', reports')
      /\ starters' = starters /\ reports' = reports
  BY <1>1, GrownSame
<1>3. /\ \A l \in Links : ~Speaks(link[l])
      /\ \A w \in Users : ~Due(events[w])
  <2>1. Quiet(Users)
    BY DEF OpenWindow, OneAtATime
  <2>2. \A l \in Links : l[1] \in Users
    BY DEF Links
  <2>3. QED
    BY <2>1, <2>2, QuietMeans
<1>4. SpeechInv'
  BY <1>1, <1>2 DEF PollInv, SpeechInv
<1>5. CollectInv'
  <2>1. ASSUME NEW x \in Users, NEW y \in Users, Collecting(link[<<y, x>>])
        PROVE  FALSE
    <3>1. <<y, x>> \in Links /\ link[<<y, x>>] \in Seq(PollMessage)
      BY DEF Links, PollTyped, PollTypeOK
    <3>2. QED
      BY <1>3, <2>1, <3>1, CollectingSpeaks
  <2>2. QED
    BY <1>1, <2>1 DEF CollectInv
<1>6. WindowInv' /\ ShownInv'
  BY <1>1, <1>2, <1>3, WindowKept DEF WindowInv, ShownInv
<1>7. NamedInv'
  <2>1. ASSUME NEW w \in Users
        PROVE  Named(active'[w], starters')
    <3>1. active \in [Users -> OfActive]
      BY TypesOf DEF PollTyped
    <3>2. active'[w] = active[w] \/ active'[w] = NoPoll
      BY <1>1, <3>1
    <3>3. QED
      BY <1>2, <3>2, WindowKept, Empties
  <2>2. QED
    BY <2>1 DEF NamedInv
<1>8. QED
  BY <1>4, <1>5, <1>6, <1>7 DEF PollInv

LEMMA CloseKeeps ==
  ASSUME PollTyped, PollTyped', PollInv, NEW u \in Users, OnPollAnswerDialogClose(u)
  PROVE  PollInv'
<1>1. /\ data' = data /\ events' = events /\ link' = link /\ active' = active /\ UNCHANGED history
      /\ dialog' = [dialog EXCEPT ![u] = Closed]
  BY DEF OnPollAnswerDialogClose
<1>2. /\ Grown(starters, reports, starters', reports')
      /\ starters' = starters /\ reports' = reports
  BY <1>1, GrownSame
<1>3. SpeechInv' /\ CollectInv' /\ WindowInv' /\ NamedInv'
  BY <1>1, <1>2 DEF PollInv, SpeechInv, CollectInv, WindowInv, NamedInv
<1>4. \A w \in Users : dialog'[w] = dialog[w] \/ dialog'[w] = Closed
  BY <1>1, TypesOf DEF PollTyped
<1>5. ShownInv'
  BY <1>2, <1>4, WindowKept DEF ShownInv
<1>6. QED
  BY <1>3, <1>5 DEF PollInv

LEMMA AnswerKeeps ==
  ASSUME PollTyped, PollTyped', PollInv, NEW u \in Users, NEW a \in Answers, Answer(u, a)
  PROVE  PollInv'
<1> DEFINE t == active[u]
           m == Msg("answer", FALSE, u, t.poll, a, 0)
<1>1. /\ data' = data /\ events' = events /\ UNCHANGED history
      /\ dialog' = [dialog EXCEPT ![u] = Closed]
  BY DEF Answer
<1>2. /\ Grown(starters, reports, starters', reports')
      /\ starters' = starters /\ reports' = reports
  BY <1>1, GrownSame
<1>3. \/ link' = link /\ active' = active
      \/ /\ IsValid(t) /\ link' = [link EXCEPT ![<<u, t.starter>>] = Append(@, m)]
         /\ \/ active' = active
            \/ active' = [active EXCEPT ![t.starter].given = @ \union {<<u, a>>}]
  BY DEF Answer, SendPollAnswer
<1>4. \A w \in Users : dialog'[w] = dialog[w] \/ dialog'[w] = Closed
  BY <1>1, TypesOf DEF PollTyped
<1>5. WindowInv' /\ ShownInv'
  BY <1>1, <1>2, <1>4, WindowKept DEF ShownInv, WindowInv
<1>6. NamedInv'
  <2>1. \A w \in Users : active'[w].poll = active[w].poll /\ active'[w].starter = active[w].starter
    <3>1. active \in [Users -> OfActive]
      BY TypesOf DEF PollTyped
    <3>2. CASE active' = active
      BY <3>2
    <3>3. CASE active' = [active EXCEPT ![t.starter].given = @ \union {<<u, a>>}]
      BY <3>1, <3>3 DEF OfActive
    <3>4. QED
      BY <1>3, <3>2, <3>3
  <2>2. QED
    BY <1>2, <2>1, WindowKept DEF NamedInv
<1>7. CASE link' = link
  <2>1. SpeechInv' /\ CollectInv'
    BY <1>1, <1>2, <1>7 DEF PollInv, SpeechInv, CollectInv
  <2>2. QED
    BY <1>5, <1>6, <2>1 DEF PollInv
<1>8. CASE IsValid(t) /\ link' = [link EXCEPT ![<<u, t.starter>>] = Append(@, m)]
  <2>1. t.poll \in Polls /\ t.starter \in Users
    BY <1>8, TypesOf DEF IsValid, PollTyped, OwnerInv, OfActive
  <2>2. m \in PollMessage /\ m.kind = "answer"
    BY <2>1 DEF Msg, PollMessage, Kinds
  <2> HIDE DEF m, t
  <2>3. /\ SpeechInv'
        /\ \A l \in Links : Collecting(link'[l]) =>
              /\ Collecting(link[l]) /\ link'[l][1] = link[l][1]
              /\ Coming(link'[l], 1) = Coming(link[l], 1)
    BY <1>1, <1>8, <2>1, <2>2, Replied DEF PollInv, PollTyped
  <2>4. CollectInv'
    <3>1. ASSUME NEW x \in Users, NEW y \in Users, Collecting(link'[<<y, x>>])
          PROVE  ~Due(events'[x]) /\ Collected(link'[<<y, x>>], data'[x], starters', reports')
      <4>1. <<y, x>> \in Links
        BY DEF Links
      <4>2. QED
        BY <1>1, <1>2, <2>3, <3>1, <4>1, CollectedKept
    <3>2. QED
      BY <3>1 DEF CollectInv
  <2>5. QED
    BY <1>5, <1>6, <2>3, <2>4 DEF PollInv
<1>9. QED
  BY <1>3, <1>7, <1>8

(* Nobody else speaks to u, so that what is left of v's speech is all there  *)
(* is to look at.                                                            *)
LEMMA CollectHeard ==
  ASSUME PollTyped, PollTyped', PollInv, NEW u \in Users, NEW v \in Users, Taken(u, v),
         UNCHANGED history, link[<<v, u>>][1].kind # "answer",
         Collecting(Tail(link[<<v, u>>])) =>
           ~Due(events'[u]) /\ Collected(Tail(link[<<v, u>>]), data'[u], starters, reports),
         \A w \in Users : w # u => data'[w] = data[w] /\ events'[w] = events[w]
  PROVE  CollectInv'
<1>1. /\ Grown(starters, reports, starters', reports')
      /\ starters' = starters /\ reports' = reports
  BY GrownSame
<1>2. /\ link'[<<v, u>>] = Tail(link[<<v, u>>])
      /\ \A w, x \in Users : w # v \/ x # u => link'[<<w, x>>] = link[<<w, x>>]
      /\ \A w \in Users : w # v => ~Collecting(link[<<w, u>>])
  BY Heard DEF PollTyped, PollInv
<1>3. ASSUME NEW x \in Users, NEW y \in Users, Collecting(link'[<<y, x>>])
      PROVE  ~Due(events'[x]) /\ Collected(link'[<<y, x>>], data'[x], starters', reports')
  <2>1. CASE x = u /\ y = v
    BY <1>1, <1>2, <1>3, <2>1
  <2>2. CASE x = u /\ y # v
    BY <1>2, <1>3, <2>2
  <2>3. CASE x # u
    <3>1. link'[<<y, x>>] = link[<<y, x>>]
      BY <1>2, <2>3
    <3>2. QED
      BY <1>1, <1>3, <2>3, <3>1, CollectedKept
  <2>4. QED
    BY <2>1, <2>2, <2>3
<1>4. QED
  BY <1>3 DEF CollectInv

(* What the first message on a link says of what comes behind it.            *)
LEMMA FirstMessage ==
  ASSUME NEW q \in Seq(PollMessage), q # <<>>, NEW s, NEW log, NEW told,
         LinkOk(q, s, log, told)
  PROVE  /\ q[1] \in PollMessage
         /\ q[1].kind # "answer" => q[1].poll \in 1..Len(log) /\ q[1].from = log[q[1].poll]
         /\ q[1].kind \in {"end", "answer"} => ~Collecting(Tail(q))
         /\ q[1].kind \notin {"end", "answer"} =>
              /\ Tail(q) # <<>> /\ Follows(Tail(q)[1], q[1])
              /\ Coming(Tail(q), 1) = Coming(q, 2)
<1>1. InSequence(q)
  BY DEF LinkOk
<1>2. /\ Tail(q) \in Seq(PollMessage)
      /\ Tail(q) # <<>> => Tail(q)[1] = q[2] /\ Follows(q[2], q[1])
      /\ Tail(q) = <<>> => q[1].kind \in {"end", "answer"}
      /\ q[1] \in PollMessage /\ 1 \in 1..Len(q)
      /\ \A i \in 1..Len(Tail(q)) : Coming(Tail(q), i) = Coming(q, i + 1)
  BY <1>1, RestOf
<1>3. Tail(q) # <<>> => 1 \in 1..Len(Tail(q))
  BY <1>2
<1>4. Tail(q) # <<>> => Coming(Tail(q), 1) = Coming(q, 2)
  <2>1. 1 + 1 = 2
    OBVIOUS
  <2>2. QED
    BY <1>2, <1>3, <2>1
<1>5. q[1].kind \in {"end", "answer"} => ~Collecting(Tail(q))
  BY <1>2 DEF Collecting, Follows
<1>6. q[1].kind # "answer" => q[1].poll \in 1..Len(log) /\ q[1].from = log[q[1].poll]
  BY <1>2 DEF LinkOk
<1>7. QED
  BY <1>2, <1>4, <1>5, <1>6

LEMMA PollBeginKeeps ==
  ASSUME PollTyped, PollTyped', PollInv, OneAtATime, NEW u \in Users, NEW v \in Users, Begin(u, v)
  PROVE  PollInv'
<1> DEFINE q == link[<<v, u>>]
           m == Head(link[v, u])
           d == [NoData EXCEPT !.owner = m.from]
<1>1. /\ Taken(u, v) /\ m.kind = "begin" /\ ~Has(events[u], ForWindow)
      /\ data' = [data EXCEPT ![u] = d]
      /\ active' = active \/ active' = [active EXCEPT ![u] = NoPoll]
      /\ events' = events /\ dialog' = dialog /\ UNCHANGED history
  BY DEF Begin, OneAtATime
<1>2. /\ Grown(starters, reports, starters', reports')
      /\ starters' = starters /\ reports' = reports
  BY <1>1, GrownSame
<1>3. /\ SpeechInv' /\ q \in Seq(PollMessage) /\ q # <<>> /\ m = q[1]
      /\ LinkOk(q, v, starters, reports)
  BY <1>1, Heard DEF PollTyped, PollInv
<1>4. /\ d.owner = m.from /\ d.options = {}
      /\ data'[u] = d /\ \A w \in Users : w # u => data'[w] = data[w]
  BY <1>1, TypesOf DEF NoData, PollTyped
<1> HIDE DEF d, m
<1>5. ~Due(events[u])
  BY <1>1 DEF Has, ForWindow, Due
<1>6. Collecting(Tail(q)) => Collected(Tail(q), d, starters, reports)
  <2>1. /\ Tail(q) # <<>> /\ Follows(Tail(q)[1], q[1])
        /\ Coming(Tail(q), 1) = Coming(q, 2)
    BY <1>1, <1>3, FirstMessage
  <2>2. Coming(q, 1) = Coming(q, 2)
    BY <1>1, <1>3, ComingOf
  <2>3. AsSent(starters, reports, q[1].stats, q[1].poll, Coming(q, 1))
    <3>1. 1 \in 1..Len(q)
      BY <1>3
    <3>2. QED
      BY <1>1, <1>3, <3>1 DEF LinkOk
  <2>4. /\ Tail(q)[1].kind = "question" /\ Tail(q)[1].stats = q[1].stats
        /\ Tail(q)[1].from = q[1].from /\ Tail(q)[1].poll = q[1].poll
    BY <1>1, <1>3, <2>1 DEF Follows
  <2>5. {} \union Coming(Tail(q), 1) = Coming(q, 1)
    BY <2>1, <2>2
  <2>6. QED
    BY <1>3, <1>4, <2>3, <2>4, <2>5 DEF Collected
<1>7. CollectInv'
  BY <1>1, <1>3, <1>4, <1>5, <1>6, CollectHeard
<1>8. WindowInv' /\ ShownInv'
  <2>1. ASSUME NEW w \in Users
        PROVE  Waiting(events'[w], data'[w], starters', reports')
    <3>1. CASE w = u
      BY <1>1, <1>2, <1>5, <3>1, WindowKept
    <3>2. CASE w # u
      BY <1>1, <1>2, <1>4, <3>2, WindowKept
    <3>3. QED
      BY <3>1, <3>2
  <2>2. QED
    BY <1>1, <1>2, <2>1, WindowKept DEF WindowInv, ShownInv
<1>9. NamedInv'
  <2>1. ASSUME NEW w \in Users
        PROVE  Named(active'[w], starters')
    <3>1. active \in [Users -> OfActive]
      BY TypesOf DEF PollTyped
    <3>2. active'[w] = active[w] \/ active'[w] = NoPoll
      BY <1>1, <3>1
    <3>3. QED
      BY <1>2, <3>2, WindowKept, Empties
  <2>2. QED
    BY <2>1 DEF NamedInv
<1>10. QED
  BY <1>3, <1>7, <1>8, <1>9 DEF PollInv

LEMMA QuestionKeeps ==
  ASSUME PollTyped, PollTyped', PollInv, NEW u \in Users, NEW v \in Users, Question(u, v)
  PROVE  PollInv'
<1> DEFINE q == link[<<v, u>>]
           m == Head(link[v, u])
<1>1. /\ Taken(u, v) /\ m.kind = "question"
      /\ data' = IF data[u].owner = m.from THEN [data EXCEPT ![u].poll = m.poll] ELSE data
      /\ active' = active /\ events' = events /\ dialog' = dialog /\ UNCHANGED history
  BY DEF Question
<1>2. /\ Grown(starters, reports, starters', reports')
      /\ starters' = starters /\ reports' = reports
  BY <1>1, GrownSame
<1>3. /\ SpeechInv' /\ q \in Seq(PollMessage) /\ q # <<>> /\ m = q[1] /\ <<v, u>> \in Links
      /\ LinkOk(q, v, starters, reports)
  BY <1>1, Heard DEF PollTyped, PollInv, Links
<1> HIDE DEF m
<1>4. ~Due(events[u]) /\ Collected(q, data[u], starters, reports)
  <2>1. Collecting(q)
    BY <1>1, <1>3 DEF Collecting
  <2>2. QED
    BY <2>1 DEF PollInv, CollectInv
<1>5. /\ data'[u] = [data[u] EXCEPT !.poll = m.poll]
      /\ \A w \in Users : w # u => data'[w] = data[w]
      /\ data[u] \in OfData
  <2>1. data[u].owner = m.from
    BY <1>3, <1>4 DEF Collected
  <2>2. data \in [Users -> OfData]
    BY TypesOf DEF PollTyped
  <2>3. QED
    BY <1>1, <2>1, <2>2
<1>6. /\ data'[u].owner = data[u].owner /\ data'[u].options = data[u].options
      /\ data'[u].poll = m.poll
  BY <1>5 DEF OfData
<1>7. Collected(Tail(q), data'[u], starters, reports)
  <2>1. /\ Tail(q) # <<>> /\ Follows(Tail(q)[1], q[1])
        /\ Coming(Tail(q), 1) = Coming(q, 2)
    BY <1>1, <1>3, FirstMessage
  <2>2. Coming(q, 1) = Coming(q, 2)
    BY <1>1, <1>3, ComingOf
  <2>3. /\ Tail(q)[1].kind \in {"option", "end"} /\ Tail(q)[1].stats = q[1].stats
        /\ Tail(q)[1].from = q[1].from /\ Tail(q)[1].poll = q[1].poll
    BY <1>1, <1>3, <2>1 DEF Follows
  <2>4. QED
    BY <1>3, <1>4, <1>6, <2>1, <2>2, <2>3 DEF Collected
<1>8. CollectInv'
  BY <1>1, <1>3, <1>4, <1>5, <1>7, CollectHeard
<1>9. WindowInv' /\ ShownInv' /\ NamedInv'
  <2>1. ASSUME NEW w \in Users
        PROVE  Waiting(events'[w], data'[w], starters', reports')
    <3>1. CASE w = u
      BY <1>1, <1>2, <1>4, <3>1, WindowKept
    <3>2. CASE w # u
      BY <1>1, <1>2, <1>5, <3>2, WindowKept
    <3>3. QED
      BY <3>1, <3>2
  <2>2. QED
    BY <1>1, <1>2, <2>1, WindowKept DEF WindowInv, ShownInv, NamedInv
<1>10. QED
  BY <1>3, <1>8, <1>9 DEF PollInv

LEMMA OptionKeeps ==
  ASSUME PollTyped, PollTyped', PollInv, NEW u \in Users, NEW v \in Users, Option(u, v)
  PROVE  PollInv'
<1> DEFINE q == link[<<v, u>>]
           m == Head(link[v, u])
<1>1. /\ Taken(u, v) /\ m.kind = "option"
      /\ data' = IF data[u].owner = m.from
                   THEN [data EXCEPT ![u].options = @ \union {ItemOf(m)}] ELSE data
      /\ active' = active /\ events' = events /\ dialog' = dialog /\ UNCHANGED history
  BY DEF Option, ItemOf
<1>2. /\ Grown(starters, reports, starters', reports')
      /\ starters' = starters /\ reports' = reports
  BY <1>1, GrownSame
<1>3. /\ SpeechInv' /\ q \in Seq(PollMessage) /\ q # <<>> /\ m = q[1] /\ <<v, u>> \in Links
      /\ LinkOk(q, v, starters, reports)
  BY <1>1, Heard DEF PollTyped, PollInv, Links
<1> HIDE DEF m
<1>4. ~Due(events[u]) /\ Collected(q, data[u], starters, reports)
  <2>1. Collecting(q)
    BY <1>1, <1>3 DEF Collecting
  <2>2. QED
    BY <2>1 DEF PollInv, CollectInv
<1>5. /\ data'[u] = [data[u] EXCEPT !.options = @ \union {ItemOf(m)}]
      /\ \A w \in Users : w # u => data'[w] = data[w]
      /\ data[u] \in OfData
  <2>1. data[u].owner = m.from
    BY <1>3, <1>4 DEF Collected
  <2>2. data \in [Users -> OfData]
    BY TypesOf DEF PollTyped
  <2>3. QED
    BY <1>1, <2>1, <2>2
<1>6. /\ data'[u].owner = data[u].owner /\ data'[u].poll = data[u].poll
      /\ data'[u].options = data[u].options \union {ItemOf(q[1])}
  BY <1>3, <1>5 DEF OfData
<1>7. Collected(Tail(q), data'[u], starters, reports)
  <2>1. /\ Tail(q) # <<>> /\ Follows(Tail(q)[1], q[1])
        /\ Coming(Tail(q), 1) = Coming(q, 2)
    BY <1>1, <1>3, FirstMessage
  <2>2. Coming(q, 1) = {ItemOf(q[1])} \union Coming(q, 2)
    BY <1>1, <1>3, ComingOf
  <2>3. /\ Tail(q)[1].kind \in {"option", "end"} /\ Tail(q)[1].stats = q[1].stats
        /\ Tail(q)[1].from = q[1].from /\ Tail(q)[1].poll = q[1].poll
    BY <1>1, <1>3, <2>1 DEF Follows
  <2>4. data'[u].options \union Coming(Tail(q), 1) = data[u].options \union Coming(q, 1)
    BY <1>6, <2>1, <2>2
  <2>5. QED
    BY <1>1, <1>3, <1>4, <1>6, <2>3, <2>4 DEF Collected
<1>8. CollectInv'
  BY <1>1, <1>3, <1>4, <1>5, <1>7, CollectHeard
<1>9. WindowInv' /\ ShownInv' /\ NamedInv'
  <2>1. ASSUME NEW w \in Users
        PROVE  Waiting(events'[w], data'[w], starters', reports')
    <3>1. CASE w = u
      BY <1>1, <1>2, <1>4, <3>1, WindowKept
    <3>2. CASE w # u
      BY <1>1, <1>2, <1>5, <3>2, WindowKept
    <3>3. QED
      BY <3>1, <3>2
  <2>2. QED
    BY <1>1, <1>2, <2>1, WindowKept DEF WindowInv, ShownInv, NamedInv
<1>10. QED
  BY <1>3, <1>8, <1>9 DEF PollInv

LEMMA PostKeeps ==
  ASSUME PollTyped, PollTyped', PollInv, NEW u \in Users, NEW v \in Users, Post(u, v)
  PROVE  PollInv'
<1> DEFINE q == link[<<v, u>>]
           m == Head(link[v, u])
           what == IF m.kind = "answer" THEN "answer" ELSE IF m.stats THEN "stats" ELSE "poll"
           e == [what |-> what, poll |-> m.poll, index |-> m.index]
<1>1. /\ Taken(u, v) /\ m.kind \in {"end", "answer"}
      /\ events' = [events EXCEPT ![u] = Append(@, e)]
      /\ data' = data /\ active' = active /\ dialog' = dialog /\ UNCHANGED history
  BY DEF Post
<1>2. /\ Grown(starters, reports, starters', reports')
      /\ starters' = starters /\ reports' = reports
  BY <1>1, GrownSame
<1>3. /\ SpeechInv' /\ q \in Seq(PollMessage) /\ q # <<>> /\ m = q[1] /\ <<v, u>> \in Links
      /\ LinkOk(q, v, starters, reports) /\ m \in PollMessage
      /\ link'[<<v, u>>] = Tail(q)
      /\ \A w, x \in Users : w # v \/ x # u => link'[<<w, x>>] = link[<<w, x>>]
  BY <1>1, Heard DEF PollTyped, PollInv, Links
<1>4. /\ e \in Event /\ e.poll = m.poll
      /\ e.what # "answer" => m.kind = "end" /\ ((e.what = "stats") = m.stats)
      /\ e.what = "answer" => m.kind = "answer"
  BY <1>1, <1>3 DEF Event, PollMessage
<1> HIDE DEF m, e
<1>5. /\ events'[u] = Append(events[u], e) /\ events[u] \in Seq(Event)
      /\ \A w \in Users : w # u => events'[w] = events[w]
  BY <1>1, TypesOf DEF PollTyped
<1>6. ~Collecting(Tail(q))
  BY <1>1, <1>3, FirstMessage
<1>7. Waiting(events[u], data[u], starters, reports)
  BY DEF PollInv, WindowInv
<1>8. ASSUME m.kind = "end"
      PROVE  /\ ~Due(events[u]) /\ m.poll \in 1..Len(starters)
             /\ data[u].owner = starters[m.poll] /\ data[u].poll = m.poll
             /\ AsSent(starters, reports, m.stats, m.poll, data[u].options)
  <2>1. Collecting(q)
    BY <1>3, <1>8 DEF Collecting
  <2>2. ~Due(events[u]) /\ Collected(q, data[u], starters, reports)
    BY <2>1 DEF PollInv, CollectInv
  <2>3. Coming(q, 1) = {}
    BY <1>3, <1>8, ComingOf
  <2>4. q[1].poll \in 1..Len(starters) /\ q[1].from = starters[q[1].poll]
    BY <1>3, <1>8, FirstMessage
  <2>5. data[u].options \union Coming(q, 1) = data[u].options
    BY <2>3
  <2>6. QED
    BY <1>3, <1>8, <2>2, <2>4, <2>5 DEF Collected
<1>9. /\ Waiting(events'[u], data[u], starters, reports)
      /\ Due(events'[u]) => Due(events[u]) \/ m.kind = "end"
  <2>1. e.what # "answer" =>
           /\ ~Due(events[u]) /\ e.poll \in 1..Len(starters)
           /\ data[u].owner = starters[e.poll] /\ data[u].poll = e.poll
           /\ AsSent(starters, reports, e.what = "stats", e.poll, data[u].options)
    BY <1>4, <1>8
  <2>2. QED
    BY <1>4, <1>5, <1>7, <2>1, WindowAdded
<1>10. CollectInv'
  <2>1. CASE m.kind # "answer"
    BY <1>1, <1>3, <1>5, <1>6, <2>1, CollectHeard
  <2>2. CASE m.kind = "answer"
    <3>1. ASSUME NEW x \in Users, NEW y \in Users, Collecting(link'[<<y, x>>])
          PROVE  ~Due(events'[x]) /\ Collected(link'[<<y, x>>], data'[x], starters', reports')
      <4>1. link'[<<y, x>>] = link[<<y, x>>]
        BY <1>3, <1>6, <3>1
      <4>2. Due(events'[x]) => Due(events[x])
        BY <1>5, <1>9, <2>2
      <4>3. QED
        BY <1>1, <1>2, <3>1, <4>1, <4>2, CollectedKept
    <3>2. QED
      BY <3>1 DEF CollectInv
  <2>3. QED
    BY <2>1, <2>2
<1>11. WindowInv' /\ ShownInv' /\ NamedInv'
  <2>1. ASSUME NEW w \in Users
        PROVE  Waiting(events'[w], data'[w], starters', reports')
    <3>1. CASE w = u
      BY <1>1, <1>2, <1>9, <3>1
    <3>2. CASE w # u
      BY <1>1, <1>2, <1>5, <3>2, WindowKept
    <3>3. QED
      BY <3>1, <3>2
  <2>2. QED
    BY <1>1, <1>2, <2>1, WindowKept DEF WindowInv, ShownInv, NamedInv
<1>12. QED
  BY <1>3, <1>10, <1>11 DEF PollInv

(* An event is taken by the user interface thread.                           *)
LEMMA EventTaken ==
  ASSUME PollTyped, PollTyped', PollInv, NEW u \in Users, NEW what, Next1(u, what),
         data' = data, link' = link, UNCHANGED history
  PROVE  /\ SpeechInv' /\ CollectInv' /\ WindowInv'
         /\ events[u] \in Seq(Event) /\ events[u] # <<>> /\ 1 \in 1..Len(events[u])
         /\ Head(events[u]) = events[u][1] /\ events[u][1] \in Event
         /\ events[u][1].what = what
<1>1. /\ Grown(starters, reports, starters', reports')
      /\ starters' = starters /\ reports' = reports
  BY GrownSame
<1>2. /\ events[u] \in Seq(Event) /\ events[u] # <<>> /\ events'[u] = Tail(events[u])
      /\ Head(events[u]).what = what /\ \A w \in Users : w # u => events'[w] = events[w]
  BY WindowType, TypesOf DEF PollTyped
<1>3. /\ Waiting(events'[u], data[u], starters, reports) /\ Head(events[u]) = events[u][1]
      /\ Due(events'[u]) => Due(events[u])
      /\ 1 \in 1..Len(events[u]) /\ events[u][1] \in Event
  BY <1>2, WindowTail DEF PollInv, WindowInv
<1>4. SpeechInv'
  BY <1>1 DEF PollInv, SpeechInv
<1>5. CollectInv'
  <2>1. ASSUME NEW x \in Users, NEW y \in Users, Collecting(link'[<<y, x>>])
        PROVE  ~Due(events'[x]) /\ Collected(link'[<<y, x>>], data'[x], starters', reports')
    <3>1. Due(events'[x]) => Due(events[x])
      BY <1>2, <1>3
    <3>2. QED
      BY <1>1, <2>1, <3>1, CollectedKept
  <2>2. QED
    BY <2>1 DEF CollectInv
<1>6. WindowInv'
  BY <1>1, <1>2, <1>3, WindowKept DEF WindowInv
<1>7. QED
  BY <1>2, <1>3, <1>4, <1>5, <1>6

LEMMA OnPollKeeps ==
  ASSUME PollTyped, PollTyped', PollInv, NEW u \in Users, OnPoll(u)
  PROVE  PollInv'
<1> DEFINE t == [starter |-> data[u].owner, poll |-> data[u].poll,
                 options |-> {o \in data[u].options : o.index >= 0},
                 votes |-> NoVotes, given |-> {}]
           e == events[u][1]
<1>1. /\ Next1(u, "poll") /\ data' = data /\ link' = link /\ UNCHANGED history
      /\ active' = [active EXCEPT ![u] = t]
      /\ dialog' = [dialog EXCEPT ![u] = UpdateAnswerArea(t)]
  BY DEF OnPoll
<1>2. /\ Grown(starters, reports, starters', reports')
      /\ starters' = starters /\ reports' = reports
  BY <1>1, GrownSame
<1>3. /\ SpeechInv' /\ CollectInv' /\ WindowInv'
      /\ 1 \in 1..Len(events[u]) /\ e.what = "poll" /\ e \in Event
  BY <1>1, EventTaken
<1>4. /\ e.poll \in 1..Len(starters) /\ e.poll \in Polls
      /\ data[u].owner = starters[e.poll] /\ data[u].poll = e.poll
      /\ AsSent(starters, reports, e.what = "stats", e.poll, data[u].options)
  BY <1>3 DEF PollInv, WindowInv, Waiting, Event
<1>5. /\ t.starter = starters[e.poll] /\ t.poll = e.poll /\ t.options = Sent(e.poll)
  <2>1. data[u].options = Sent(e.poll)
    BY <1>3, <1>4 DEF AsSent
  <2>2. t.options = {o \in Sent(e.poll) : o.index >= 0}
    BY <2>1
  <2>3. QED
    BY <1>4, <2>2, SentTwo
<1>6. /\ active \in [Users -> OfActive] /\ dialog \in [Users -> OfDialog]
  BY TypesOf DEF PollTyped
<1> HIDE DEF t, e
<1>7. IsValid(t)
  BY <1>4, <1>5, SentTwo DEF IsValid, Polls
<1>8. UpdateAnswerArea(t) = [owner |-> t.starter, poll |-> t.poll, options |-> t.options]
  BY <1>7 DEF UpdateAnswerArea
<1>9. ShownInv'
  <2>1. Shown(UpdateAnswerArea(t), starters)
    BY <1>4, <1>5, <1>8 DEF Shown
  <2>2. \A w \in Users : dialog'[w] = IF w = u THEN UpdateAnswerArea(t) ELSE dialog[w]
    BY <1>1, <1>6
  <2>3. QED
    BY <1>2, <2>1, <2>2 DEF ShownInv, PollInv
<1>10. NamedInv'
  <2>1. Named(t, starters)
    BY <1>4, <1>5 DEF Named
  <2>2. \A w \in Users : active'[w] = IF w = u THEN t ELSE active[w]
    BY <1>1, <1>6
  <2>3. QED
    BY <1>2, <2>1, <2>2 DEF NamedInv, PollInv
<1>11. QED
  BY <1>3, <1>9, <1>10 DEF PollInv

LEMMA OnPollAnswerKeeps ==
  ASSUME PollTyped, PollTyped', PollInv, NEW u \in Users, OnPollAnswer(u)
  PROVE  PollInv'
<1>1. /\ Next1(u, "answer") /\ data' = data /\ link' = link /\ dialog' = dialog
      /\ UNCHANGED history
      /\ \/ active' = active
         \/ active' = [active EXCEPT ![u] = AddVote(@, Head(events[u]).index)]
  BY DEF OnPollAnswer
<1>2. Grown(starters, reports, starters', reports')
  BY <1>1, GrownSame
<1>3. SpeechInv' /\ CollectInv' /\ WindowInv'
  BY <1>1, EventTaken
<1>4. ShownInv'
  BY <1>1, <1>2, WindowKept DEF ShownInv
<1>5. NamedInv'
  <2>1. active \in [Users -> OfActive]
    BY TypesOf DEF PollTyped
  <2>2. \A w \in Users : active'[w].poll = active[w].poll /\ active'[w].starter = active[w].starter
    <3>1. \A i : /\ AddVote(active[u], i).poll = active[u].poll
                 /\ AddVote(active[u], i).starter = active[u].starter
      BY <2>1 DEF AddVote, OfActive
    <3>2. QED
      BY <1>1, <2>1, <3>1
  <2>3. QED
    BY <1>2, <2>2, WindowKept DEF NamedInv
<1>6. QED
  BY <1>3, <1>4, <1>5 DEF PollInv

LEMMA OnPollStatsKeeps ==
  ASSUME PollTyped, PollTyped', PollInv, NEW u \in Users, OnPollStats(u)
  PROVE  PollInv'
<1>1. /\ Next1(u, "stats") /\ data' = data /\ link' = link /\ active' = active
      /\ UNCHANGED history /\ dialog' = [dialog EXCEPT ![u] = Closed]
  BY DEF OnPollStats
<1>2. Grown(starters, reports, starters', reports')
  BY <1>1, GrownSame
<1>3. SpeechInv' /\ CollectInv' /\ WindowInv'
  BY <1>1, EventTaken
<1>4. \A w \in Users : dialog'[w] = dialog[w] \/ dialog'[w] = Closed
  BY <1>1, TypesOf DEF PollTyped
<1>5. ShownInv' /\ NamedInv'
  BY <1>1, <1>2, <1>4, WindowKept DEF ShownInv, NamedInv
<1>6. QED
  BY <1>3, <1>5 DEF PollInv

LEMMA PollInvStep ==
  OneAtATime => (PollTyped /\ PollTyped' /\ PollInv /\ [PollNext]_pollVars => PollInv')
<1> SUFFICES ASSUME OneAtATime, PollTyped, PollTyped', PollInv, [PollNext]_pollVars
             PROVE  PollInv'
  OBVIOUS
<1>1. CASE UNCHANGED pollVars
  <2>1. /\ data' = data /\ active' = active /\ events' = events /\ dialog' = dialog
        /\ link' = link /\ starters' = starters /\ reports' = reports
    BY <1>1 DEF pollVars, client, history
  <2>2. SpeechInv' /\ CollectInv'
    BY <2>1 DEF PollInv, SpeechInv, CollectInv
  <2>3. WindowInv' /\ NamedInv' /\ ShownInv'
    BY <2>1 DEF PollInv, WindowInv, NamedInv, ShownInv
  <2>4. QED
    BY <2>2, <2>3 DEF PollInv
<1>2. CASE PollNext
  <2>1. PICK u \in Users :
          \/ SendPoll(u) \/ SendPollStats(u) \/ OpenWindow(u)
          \/ OnPollAnswerDialogClose(u) \/ \E a \in Answers : Answer(u, a)
          \/ IrmThread(u) \/ UiThread(u)
    BY <1>2 DEF PollNext
  <2>2. CASE SendPoll(u) \/ SendPollStats(u) \/ OpenWindow(u)
    BY <2>2, SendPollKeeps, SendPollStatsKeeps, OpenWindowKeeps
  <2>3. CASE OnPollAnswerDialogClose(u) \/ \E a \in Answers : Answer(u, a)
    BY <2>3, CloseKeeps, AnswerKeeps
  <2>4. CASE IrmThread(u)
    BY <2>4, PollBeginKeeps, QuestionKeeps, OptionKeeps, PostKeeps DEF IrmThread
  <2>5. CASE UiThread(u)
    BY <2>5, OnPollKeeps, OnPollAnswerKeeps, OnPollStatsKeeps DEF UiThread
  <2>6. QED
    BY <2>1, <2>2, <2>3, <2>4, <2>5
<1>3. QED
  BY <1>1, <1>2

(* The places of every client keep their types, whatever is sent while       *)
(* something else is on its way: a poll that can be answered has a user for  *)
(* its starter (IPTVClientApp, Poll).                                        *)
THEOREM PollsType == PollSpec => []PollTypeOK
<1>1. PollInit => PollTyped
  BY PollInitial
<1>2. PollTyped => PollTypeOK
  BY DEF PollTyped
<1>3. QED
  BY <1>1, <1>2, PollTypedStep, PTL DEF PollSpec

LEMMA PollInvariance == OneAtATime => (PollSpec => [](PollTyped /\ PollInv))
<1> SUFFICES ASSUME OneAtATime PROVE PollSpec => [](PollTyped /\ PollInv)
  OBVIOUS
<1>1. PollTyped /\ PollInv /\ [PollNext]_pollVars => (PollTyped /\ PollInv)'
  BY PollTypedStep, PollInvStep
<1>2. QED
  BY <1>1, PollInitial, PTL DEF PollSpec

(* A poll is shown as it was sent, by whom, to every user, however the       *)
(* threads of the clients interleave, where nothing is sent while something  *)
(* else is on its way and m_pollData waits for the window (OnPoll).          *)
THEOREM PollsShownAsSent == OneAtATime => (PollSpec => []ShownAsSent)
<1> SUFFICES ASSUME OneAtATime PROVE PollSpec => []ShownAsSent
  OBVIOUS
<1>1. PollInv => ShownAsSent
  BY DEF PollInv, ShownInv, Shown, ShownAsSent
<1>2. QED
  BY <1>1, PollInvariance, PTL

(* So are statistics, count by count (OnPollStats).                          *)
THEOREM CountsShownAsSent == OneAtATime => (PollSpec => []StatsAsSent)
<1> SUFFICES ASSUME OneAtATime PROVE PollSpec => []StatsAsSent
  OBVIOUS
<1>1. PollTyped /\ PollInv => StatsAsSent
  <2> SUFFICES ASSUME PollTyped, PollInv, NEW u \in Users, events[u] # <<>>,
                      Head(events[u]).what = "stats"
               PROVE  data[u] \in reports
    BY DEF StatsAsSent
  <2>1. data \in [Users -> OfData] /\ events[u] \in Seq(Event)
    BY TypesOf DEF PollTyped
  <2>2. 1 \in 1..Len(events[u]) /\ Head(events[u]) = events[u][1]
    BY <2>1
  <2>3. /\ data[u].owner = starters[events[u][1].poll] /\ data[u].poll = events[u][1].poll
        /\ AsSent(starters, reports, TRUE, events[u][1].poll, data[u].options)
    BY <2>2 DEF PollInv, WindowInv, Waiting
  <2>4. data[u] = [owner |-> data[u].owner, poll |-> data[u].poll, options |-> data[u].options]
    BY <2>1 DEF OfData
  <2>5. QED
    BY <2>3, <2>4 DEF AsSent
<1>2. QED
  BY <1>1, PollInvariance, PTL

-----------------------------------------------------------------------------
(* Answers.  Whatever is on its way is about the last poll, whose starter    *)
(* alone speaks and is alone answered, by each of the others once.           *)

Last    == Len(starters)
Speaker == starters[Last]

LinkOfTurn(l, q, p, s) ==
  \A i \in 1..Len(q) : /\ q[i].poll = p
                       /\ q[i].kind = "answer" => Len(q) = 1 /\ l[2] = s /\ l[1] # s
                       /\ q[i].kind # "answer" => l[2] # s

LinkTurn == \A l \in Links : LinkOfTurn(l, link[l], Last, Speaker)

WindowOfTurn(u, w, p, s) ==
  \A n \in 1..Len(w) : w[n].poll = p /\ (w[n].what = "answer" <=> u = s)

WindowTurn == \A u \in Users : WindowOfTurn(u, events[u], Last, Speaker)

DialogTurn ==
  \A u \in Users : dialog[u] # Closed =>
    u # Speaker /\ dialog[u].poll = Last /\ active[u].poll \in {0, Last}

(* Who has started an earlier poll is about to hear of the last one.         *)
IsEnd(m)     == m.kind = "end" /\ ~m.stats
Announces(q) == q # <<>> /\ q[1].kind = "begin" /\ ~q[1].stats

OwnTurn ==
  \A u \in Users : active[u].starter = u =>
    /\ active[u].poll \in 1..Last /\ active[u].options = Sent(active[u].poll)
    /\ active[u].poll # Last => u # Speaker /\ Announces(link[<<Speaker, u>>])

(* The last poll is still to come to v, or to be shown, or to be answered,   *)
(* one of these, and then v has not answered it.                             *)
HasEnd(q)  == \E i \in 1..Len(q) : IsEnd(q[i])
OneEnd(q)  == \A i, j \in 1..Len(q) : IsEnd(q[i]) /\ IsEnd(q[j]) => i = j
HasPoll(w) == \E n \in 1..Len(w) : w[n].what = "poll"

ToCome(v) == HasEnd(link[<<Speaker, v>>])
ToShow(v) == HasPoll(events[v])
Asked(v)  == dialog[v] # Closed
NoWord(v) == /\ link[<<v, Speaker>>] = <<>>
             /\ \A a \in Answers : <<v, a>> \notin active[Speaker].given

OnceInv ==
  \A v \in Users : Last # 0 =>
    /\ OneEnd(link[<<Speaker, v>>])
    /\ ToCome(v) => ~ToShow(v) /\ ~Asked(v)
    /\ ToShow(v) => ~Asked(v)
    /\ ToCome(v) \/ ToShow(v) \/ Asked(v) => NoWord(v)

(* Counted, waiting and under way make up what was given.                    *)
VotesIn(w, a)  == {n \in 1..Len(w) : w[n].what = "answer" /\ w[n].index = a}
Answering(q, a) == q # <<>> /\ q[1].kind = "answer" /\ q[1].index = a
Senders(a)     == {v \in Users : Answering(link[<<v, Speaker>>], a)}
Givers(t, a)   == {v \in Users : <<v, a>> \in t.given}

CountOf(t, w, a) ==
  t.votes[a] + Cardinality(VotesIn(w, a)) + Cardinality(Senders(a)) = Cardinality(Givers(t, a))

CountInv ==
  \A u \in Users : active[u].starter = u => \A a \in Answers :
    IF u = Speaker THEN CountOf(active[u], events[u], a)
                   ELSE active[u].votes[a] = Cardinality(Givers(active[u], a))

TurnInv == LinkTurn /\ WindowTurn /\ DialogTurn /\ OwnTurn /\ OnceInv /\ CountInv

-----------------------------------------------------------------------------
(* Votes counted. *)

LEMMA SmallSets ==
  ASSUME NEW w \in Seq(Event), NEW a
  PROVE  /\ IsFiniteSet(VotesIn(w, a)) /\ Cardinality(VotesIn(w, a)) \in Nat
         /\ IsFiniteSet(Users)
<1>1. Len(w) \in Nat /\ IsFiniteSet(1..Len(w))
  BY FS_Interval
<1>2. VotesIn(w, a) \in SUBSET (1..Len(w))
  BY DEF VotesIn
<1>3. IsFiniteSet(VotesIn(w, a))
  BY <1>1, <1>2, FS_Subset
<1>4. QED
  BY <1>3, FS_CardinalityType, PollAssumption

LEMMA VoteTaken ==
  ASSUME NEW w \in Seq(Event), w # <<>>, NEW a
  PROVE  /\ w[1].what = "answer" /\ w[1].index = a
              => Cardinality(VotesIn(w, a)) = Cardinality(VotesIn(Tail(w), a)) + 1
         /\ ~(w[1].what = "answer" /\ w[1].index = a)
              => Cardinality(VotesIn(w, a)) = Cardinality(VotesIn(Tail(w), a))
<1> DEFINE r == Tail(w)
           A == VotesIn(r, a)
           B == VotesIn(w, a) \ {1}
           f == [n \in A |-> n + 1]
<1>1. /\ r \in Seq(Event) /\ Len(r) = Len(w) - 1 /\ Len(w) \in Nat \ {0}
      /\ \A n \in 1..Len(r) : r[n] = w[n + 1]
  OBVIOUS
<1> HIDE DEF r
<1>2. /\ \A n \in A : n \in 1..Len(r) /\ n + 1 \in B
      /\ \A n \in B : n - 1 \in A /\ n \in Nat
  <2>1. ASSUME NEW n \in A
        PROVE  n \in 1..Len(r) /\ n + 1 \in B
    <3>1. n \in 1..Len(r) /\ n + 1 \in 1..Len(w) /\ n + 1 # 1 /\ r[n] = w[n + 1]
      BY <1>1 DEF VotesIn
    <3>2. QED
      BY <3>1 DEF VotesIn
  <2>2. ASSUME NEW n \in B
        PROVE  n - 1 \in A /\ n \in Nat
    <3>1. n \in 1..Len(w) /\ n # 1
      BY DEF VotesIn
    <3>2. n - 1 \in 1..Len(r) /\ (n - 1) + 1 = n
      BY <1>1, <3>1
    <3>3. r[n - 1] = w[n]
      BY <1>1, <3>2
    <3>4. QED
      BY <3>1, <3>2, <3>3 DEF VotesIn
  <2>3. QED
    BY <2>1, <2>2
<1>3. f \in Bijection(A, B)
  <2>1. f \in [A -> B]
    BY <1>2
  <2>2. \A m, n \in A : f[m] = f[n] => m = n
    BY <1>2
  <2>3. ASSUME NEW n \in B
        PROVE  \E m \in A : f[m] = n
    <3>1. n - 1 \in A /\ f[n - 1] = n
      BY <1>2
    <3>2. QED
      BY <3>1
  <2> HIDE DEF f, A, B
  <2>4. QED
    BY <2>1, <2>2, <2>3, Fun_IsBij
<1>4. IsFiniteSet(A) /\ Cardinality(A) \in Nat
  BY <1>1, SmallSets
<1>5. IsFiniteSet(B) /\ Cardinality(B) = Cardinality(A)
  <2> HIDE DEF f, A, B
  <2>1. ExistsBijection(A, B)
    BY <1>3 DEF ExistsBijection
  <2>2. QED
    BY <1>4, <2>1, FS_Bijection
<1>6. IsFiniteSet(VotesIn(w, a)) /\ Cardinality(VotesIn(w, a)) \in Nat
  BY SmallSets
<1>7. Cardinality(B) = IF 1 \in VotesIn(w, a) THEN Cardinality(VotesIn(w, a)) - 1
                       ELSE Cardinality(VotesIn(w, a))
  BY <1>6, FS_RemoveElement
<1>8. 1 \in VotesIn(w, a) <=> w[1].what = "answer" /\ w[1].index = a
  BY <1>1 DEF VotesIn
<1> HIDE DEF A, B
<1>9. QED
  BY <1>4, <1>5, <1>6, <1>7, <1>8 DEF A, r

LEMMA VotePosted ==
  ASSUME NEW w \in Seq(Event), NEW e \in Event, NEW a
  PROVE  /\ e.what = "answer" /\ e.index = a
              => Cardinality(VotesIn(Append(w, e), a)) = Cardinality(VotesIn(w, a)) + 1
         /\ ~(e.what = "answer" /\ e.index = a)
              => Cardinality(VotesIn(Append(w, e), a)) = Cardinality(VotesIn(w, a))
<1> DEFINE x == Append(w, e)
           n == Len(w)
<1>1. /\ x \in Seq(Event) /\ n \in Nat /\ Len(x) = n + 1 /\ x[n + 1] = e
      /\ \A i \in 1..n : x[i] = w[i]
  OBVIOUS
<1> HIDE DEF x
<1>2. \A i \in 1..Len(x) : i \in 1..n \/ i = n + 1
  BY <1>1
<1>3. IsFiniteSet(VotesIn(w, a))
  BY SmallSets
<1>4. n + 1 \notin VotesIn(w, a)
  BY <1>1 DEF VotesIn
<1>5. CASE e.what = "answer" /\ e.index = a
  <2>1. VotesIn(x, a) = VotesIn(w, a) \cup {n + 1}
    BY <1>1, <1>2, <1>5 DEF VotesIn
  <2>2. QED
    BY <1>3, <1>4, <1>5, <2>1, FS_AddElement DEF x
<1>6. CASE ~(e.what = "answer" /\ e.index = a)
  <2>1. VotesIn(x, a) = VotesIn(w, a)
    BY <1>1, <1>2, <1>6 DEF VotesIn
  <2>2. QED
    BY <1>6, <2>1 DEF x
<1>7. QED
  BY <1>5, <1>6

LEMMA UserSets ==
  ASSUME NEW M \in SUBSET Users, NEW v \in Users
  PROVE  /\ IsFiniteSet(M) /\ Cardinality(M) \in Nat
         /\ v \notin M => Cardinality(M \cup {v}) = Cardinality(M) + 1
         /\ v \in M => Cardinality(M \ {v}) = Cardinality(M) - 1
<1>1. IsFiniteSet(M)
  BY PollAssumption, FS_Subset
<1>2. QED
  BY <1>1, FS_AddElement, FS_RemoveElement, FS_CardinalityType

(* What a message taken, or a poll or report sent, changes of a link.        *)
LEMMA TurnTail ==
  ASSUME NEW l, NEW q \in Seq(PollMessage), q # <<>>, NEW p, NEW s
  PROVE  /\ LinkOfTurn(l, q, p, s) =>
              /\ LinkOfTurn(l, Tail(q), p, s) /\ q[1].poll = p
              /\ q[1].kind = "answer" => Tail(q) = <<>> /\ l[2] = s /\ l[1] # s
              /\ q[1].kind # "answer" => l[2] # s
         /\ HasEnd(Tail(q)) => HasEnd(q)
         /\ HasEnd(q) => IsEnd(q[1]) \/ HasEnd(Tail(q))
         /\ IsEnd(q[1]) => HasEnd(q)
         /\ OneEnd(q) => OneEnd(Tail(q)) /\ (IsEnd(q[1]) => ~HasEnd(Tail(q)))
<1> DEFINE r == Tail(q)
<1>t. /\ r \in Seq(PollMessage) /\ Len(r) = Len(q) - 1 /\ Len(q) \in Nat \ {0}
      /\ \A i \in 1..Len(r) : r[i] = q[i + 1]
  OBVIOUS
<1> HIDE DEF r
<1>1. /\ r \in Seq(PollMessage) /\ Len(r) = Len(q) - 1 /\ Len(q) \in Nat \ {0}
      /\ \A i \in 1..Len(r) : r[i] = q[i + 1] /\ i + 1 \in 1..Len(q) /\ i + 1 # 1
      /\ \A i \in 1..Len(q) : i # 1 => i - 1 \in 1..Len(r) /\ r[i - 1] = q[i]
      /\ 1 \in 1..Len(q) /\ (Len(q) = 1 => r = <<>>)
  <2>1. \A i \in 1..Len(q) : i # 1 => i - 1 \in 1..Len(r) /\ r[i - 1] = q[i]
    <3>1. ASSUME NEW i \in 1..Len(q), i # 1
          PROVE  i - 1 \in 1..Len(r) /\ r[i - 1] = q[i]
      <4>1. i - 1 \in 1..Len(r) /\ (i - 1) + 1 = i
        BY <1>t, <3>1
      <4>2. QED
        BY <1>t, <4>1
    <3>2. QED
      BY <3>1
  <2>2. Len(q) = 1 => r = <<>>
    BY <1>t, EmptyOf
  <2>3. QED
    BY <1>t, <2>1, <2>2
<1>2. ASSUME LinkOfTurn(l, q, p, s)
      PROVE  /\ LinkOfTurn(l, r, p, s) /\ q[1].poll = p
             /\ q[1].kind = "answer" => r = <<>> /\ l[2] = s /\ l[1] # s
             /\ q[1].kind # "answer" => l[2] # s
  <2>1. /\ q[1].poll = p /\ (q[1].kind = "answer" => r = <<>> /\ l[2] = s /\ l[1] # s)
        /\ q[1].kind # "answer" => l[2] # s
    BY <1>1, <1>2 DEF LinkOfTurn
  <2>2. ASSUME NEW i \in 1..Len(r)
        PROVE  /\ r[i].poll = p /\ r[i].kind # "answer"
               /\ l[2] # s
    <3>1. r[i] = q[i + 1] /\ i + 1 \in 1..Len(q) /\ Len(q) # 1
      BY <1>1
    <3>2. QED
      BY <1>2, <3>1 DEF LinkOfTurn
  <2>3. QED
    BY <2>1, <2>2 DEF LinkOfTurn
<1>3. /\ HasEnd(r) => HasEnd(q)
      /\ IsEnd(q[1]) => HasEnd(q)
  BY <1>1 DEF HasEnd
<1>4. HasEnd(q) => IsEnd(q[1]) \/ HasEnd(r)
  <2>1. ASSUME NEW i \in 1..Len(q), IsEnd(q[i]), ~IsEnd(q[1])
        PROVE  HasEnd(r)
    <3>1. i - 1 \in 1..Len(r) /\ r[i - 1] = q[i]
      BY <1>1, <2>1
    <3>2. QED
      BY <2>1, <3>1 DEF HasEnd
  <2>2. QED
    BY <2>1 DEF HasEnd
<1>5. ASSUME OneEnd(q)
      PROVE  OneEnd(r) /\ (IsEnd(q[1]) => ~HasEnd(r))
  <2>1. ASSUME NEW i \in 1..Len(r), NEW j \in 1..Len(r), IsEnd(r[i]), IsEnd(r[j])
        PROVE  i = j
    <3>1. i + 1 = j + 1
      BY <1>1, <1>5, <2>1 DEF OneEnd
    <3>2. QED
      BY <3>1
  <2>2. ASSUME NEW i \in 1..Len(r), IsEnd(r[i]), IsEnd(q[1])
        PROVE  FALSE
    BY <1>1, <1>5, <2>2 DEF OneEnd
  <2>3. QED
    BY <2>1, <2>2 DEF OneEnd, HasEnd
<1>6. QED
  BY <1>2, <1>3, <1>4, <1>5 DEF r

LEMMA WaitTail ==
  ASSUME NEW u, NEW w \in Seq(Event), w # <<>>, NEW p, NEW s
  PROVE  /\ WindowOfTurn(u, w, p, s) => /\ WindowOfTurn(u, Tail(w), p, s)
                                        /\ w[1].poll = p /\ (w[1].what = "answer" <=> u = s)
         /\ HasPoll(Tail(w)) => HasPoll(w)
         /\ w[1].what = "poll" => HasPoll(w)
         /\ HasPoll(w) => Due(w)
<1>1. /\ \A i \in 1..Len(Tail(w)) : Tail(w)[i] = w[i + 1] /\ i + 1 \in 1..Len(w)
      /\ 1 \in 1..Len(w)
  OBVIOUS
<1>2. QED
  BY <1>1 DEF WindowOfTurn, HasPoll, Due

LEMMA WaitAdded ==
  ASSUME NEW u, NEW w \in Seq(Event), NEW e \in Event, NEW p, NEW s
  PROVE  /\ WindowOfTurn(u, w, p, s) /\ e.poll = p /\ (e.what = "answer" <=> u = s)
              => WindowOfTurn(u, Append(w, e), p, s)
         /\ HasPoll(Append(w, e)) <=> HasPoll(w) \/ e.what = "poll"
<1> DEFINE x == Append(w, e)
           n == Len(w)
<1>1. /\ n \in Nat /\ Len(x) = n + 1 /\ x[n + 1] = e
      /\ \A i \in 1..n : x[i] = w[i] /\ i \in 1..Len(x)
      /\ \A i \in 1..Len(x) : i \in 1..n \/ i = n + 1
      /\ n + 1 \in 1..Len(x)
  OBVIOUS
<1> HIDE DEF x
<1>2. WindowOfTurn(u, w, p, s) /\ e.poll = p /\ (e.what = "answer" <=> u = s)
        => WindowOfTurn(u, x, p, s)
  BY <1>1 DEF WindowOfTurn
<1>3. HasPoll(x) <=> HasPoll(w) \/ e.what = "poll"
  BY <1>1 DEF HasPoll
<1>4. QED
  BY <1>2, <1>3 DEF x

(* Types, and who speaks. *)
LEMMA TurnTypes ==
  ASSUME PollTyped
  PROVE  /\ \A v, u \in Users : <<v, u>> \in Links /\ link[<<v, u>>] \in Seq(PollMessage)
         /\ \A l \in Links : l[1] \in Users /\ l[2] \in Users /\ l = <<l[1], l[2]>>
         /\ \A u \in Users : events[u] \in Seq(Event) /\ active[u] \in OfActive
                             /\ dialog[u] \in OfDialog
         /\ Last \in 0..MaxPolls /\ (Last # 0 => Speaker \in Users /\ Last \in Polls)
  BY TypesOf, PollAssumption DEF PollTyped, Links, Last, Speaker, Polls

(* Nobody who hears of a poll has an own one to answer for.                  *)
LEMMA SpeakerHeard ==
  ASSUME PollTyped, PollInv, TurnInv, NEW u \in Users, NEW v \in Users,
         link[<<v, u>>] # <<>>, link[<<v, u>>][1].kind # "answer"
  PROVE  /\ v = Speaker /\ u # Speaker /\ Last # 0 /\ link[<<v, u>>][1].poll = Last
         /\ active[u].starter = u => Announces(link[<<v, u>>])
<1>1. /\ <<v, u>> \in Links /\ link[<<v, u>>] \in Seq(PollMessage)
      /\ <<v, u>>[1] = v /\ <<v, u>>[2] = u
  BY TurnTypes
<1>2. /\ LinkOk(link[<<v, u>>], v, starters, reports) /\ 1 \in 1..Len(link[<<v, u>>])
      /\ LinkOfTurn(<<v, u>>, link[<<v, u>>], Last, Speaker)
  BY <1>1 DEF PollInv, SpeechInv, TurnInv, LinkTurn
<1>3. u # Speaker /\ link[<<v, u>>][1].poll = Last
  BY <1>1, <1>2 DEF LinkOfTurn
<1>4. v = Speaker /\ Last # 0
  BY <1>2, <1>3 DEF LinkOk, Speaker
<1>5. ASSUME active[u].starter = u
      PROVE  Announces(link[<<v, u>>])
  <2>1. active[u].poll \in 1..Last /\ (active[u].poll # Last => Announces(link[<<Speaker, u>>]))
    BY <1>5 DEF TurnInv, OwnTurn
  <2>2. active[u].poll # Last
    <3>1. active[u].poll # 0
      BY <2>1, TurnTypes
    <3>2. active[u].starter = starters[active[u].poll]
      BY <3>1 DEF PollInv, NamedInv, Named
    <3>3. QED
      BY <1>3, <1>5, <3>2 DEF Speaker
  <2>3. QED
    BY <1>4, <2>1, <2>2
<1>6. QED
  BY <1>3, <1>4, <1>5

(* A message to the channel is heard: all that changes for u is that the     *)
(* last poll comes to him, and that he gives an earlier one up.              *)
LEMMA HeardTurn ==
  ASSUME PollTyped, PollTyped', PollInv, TurnInv, NEW u \in Users, NEW v \in Users,
         Taken(u, v), UNCHANGED history, dialog' = dialog,
         link[<<v, u>>][1].kind # "answer",
         \A w \in Users : w # u => active'[w] = active[w] /\ events'[w] = events[w],
         \/ active'[u] = NoPoll
         \/ active'[u] = active[u] /\ ~Announces(link[<<v, u>>]),
         WindowOfTurn(u, events'[u], Last, Speaker),
         HasPoll(events'[u]) => HasPoll(events[u]) \/ IsEnd(link[<<v, u>>][1])
  PROVE  TurnInv'
<1> DEFINE q == link[<<v, u>>]
<1>h. starters' = starters /\ Last' = Last /\ Speaker' = Speaker
  BY DEF history, Last, Speaker
<1>1. /\ q \in Seq(PollMessage) /\ q # <<>> /\ link'[<<v, u>>] = Tail(q)
      /\ \A w, x \in Users : w # v \/ x # u => link'[<<w, x>>] = link[<<w, x>>]
  BY Heard DEF PollTyped, PollInv
<1>2. /\ v = Speaker /\ u # Speaker /\ Last # 0
      /\ active[u].starter = u => Announces(q)
  BY <1>1, SpeakerHeard
<1>3. active'[u].starter # u
  BY <1>2, PollAssumption DEF NoPoll
<1>4. /\ \A w \in Users : /\ link'[<<w, Speaker>>] = link[<<w, Speaker>>]
                          /\ w # u => link'[<<Speaker, w>>] = link[<<Speaker, w>>]
      /\ Speaker \in Users /\ active'[Speaker] = active[Speaker]
  BY <1>1, <1>2
<1>5. LinkTurn'
  <2>1. ASSUME NEW w \in Users, NEW x \in Users
        PROVE  LinkOfTurn(<<w, x>>, link'[<<w, x>>], Last, Speaker)
    <3>1. LinkOfTurn(<<w, x>>, link[<<w, x>>], Last, Speaker)
      BY TurnTypes DEF TurnInv, LinkTurn
    <3>2. CASE w = v /\ x = u
      BY <1>1, <3>1, <3>2, TurnTail
    <3>3. CASE w # v \/ x # u
      BY <1>1, <3>1, <3>3
    <3>4. QED
      BY <3>2, <3>3
  <2>2. QED
    BY <1>h, <2>1 DEF LinkTurn, Links
<1>6. WindowTurn'
  BY <1>h DEF WindowTurn, TurnInv
<1>7. DialogTurn'
  <2>1. NoPoll.poll = 0
    BY Empties
  <2>2. QED
    BY <1>h, <2>1 DEF DialogTurn, TurnInv
<1>8. OwnTurn'
  BY <1>h, <1>3, <1>4 DEF OwnTurn, TurnInv
<1>9. OnceInv'
  <2>1. \A w \in Users : NoWord(w) => NoWord(w)'
    BY <1>h, <1>4 DEF NoWord
  <2>2. ASSUME NEW w \in Users, w # u
        PROVE  /\ link'[<<Speaker, w>>] = link[<<Speaker, w>>] /\ (ToCome(w)' <=> ToCome(w))
               /\ (ToShow(w)' <=> ToShow(w)) /\ (Asked(w)' <=> Asked(w))
    BY <1>h, <1>4, <2>2 DEF ToCome, ToShow, Asked
  <2>3. /\ OneEnd(Tail(q)) /\ (ToCome(u)' => ToCome(u)) /\ (Asked(u)' <=> Asked(u))
        /\ IsEnd(q[1]) => ToCome(u) /\ ~ToCome(u)'
        /\ ToShow(u)' => ToShow(u) \/ IsEnd(q[1])
    <3>1. OneEnd(q) /\ (ToCome(u) <=> HasEnd(q)) /\ (ToCome(u)' <=> HasEnd(Tail(q)))
      BY <1>h, <1>1, <1>2 DEF TurnInv, OnceInv, ToCome
    <3>2. QED
      BY <1>1, <3>1, TurnTail DEF Asked, ToShow
  <2>4. ASSUME NEW w \in Users
        PROVE  /\ OneEnd(link'[<<Speaker, w>>])
               /\ ToCome(w)' => ~ToShow(w)' /\ ~Asked(w)'
               /\ ToShow(w)' => ~Asked(w)'
               /\ ToCome(w)' \/ ToShow(w)' \/ Asked(w)' => NoWord(w)'
    <3>1. CASE w = u
      BY <1>1, <1>2, <2>1, <2>3, <3>1 DEF TurnInv, OnceInv
    <3>2. CASE w # u
      BY <1>2, <2>1, <2>2, <3>2 DEF TurnInv, OnceInv
    <3>3. QED
      BY <3>1, <3>2
  <2>5. QED
    BY <1>h, <2>4 DEF OnceInv
<1>10. CountInv'
  <2>1. \A a : Senders(a)' = Senders(a)
    BY <1>h, <1>4 DEF Senders
  <2>2. ASSUME NEW w \in Users, active'[w].starter = w
        PROVE  w # u /\ active'[w] = active[w] /\ events'[w] = events[w]
    BY <1>3, <2>2
  <2>3. QED
    BY <1>h, <2>1, <2>2 DEF CountInv, CountOf, TurnInv
<1>11. QED
  BY <1>5, <1>6, <1>7, <1>8, <1>9, <1>10 DEF TurnInv

LEMMA BeginTurn ==
  ASSUME PollTyped, PollTyped', PollInv, TurnInv, NEW u \in Users, NEW v \in Users, Begin(u, v)
  PROVE  TurnInv'
<1> DEFINE q == link[<<v, u>>]
           m == Head(link[v, u])
<1>1. /\ Taken(u, v) /\ m.kind = "begin" /\ events' = events /\ dialog' = dialog
      /\ UNCHANGED history
      /\ active' = IF m.stats THEN active ELSE [active EXCEPT ![u] = NoPoll]
  BY DEF Begin
<1>2. q \in Seq(PollMessage) /\ q # <<>> /\ m = q[1]
  BY <1>1, Heard DEF PollTyped, PollInv
<1> HIDE DEF m
<1>3. /\ \A w \in Users : w # u => active'[w] = active[w]
      /\ active'[u] = IF m.stats THEN active[u] ELSE NoPoll
  BY <1>1, TypesOf DEF PollTyped
<1>4. m.stats => ~Announces(q)
  BY <1>2 DEF Announces
<1>5. WindowOfTurn(u, events'[u], Last, Speaker)
  BY <1>1 DEF TurnInv, WindowTurn
<1>6. QED
  BY <1>1, <1>2, <1>3, <1>4, <1>5, HeardTurn

LEMMA CollectTurn ==
  ASSUME PollTyped, PollTyped', PollInv, TurnInv, NEW u \in Users, NEW v \in Users,
         Question(u, v) \/ Option(u, v)
  PROVE  TurnInv'
<1> DEFINE q == link[<<v, u>>]
           m == Head(link[v, u])
<1>1. /\ Taken(u, v) /\ m.kind \in {"question", "option"} /\ events' = events
      /\ dialog' = dialog /\ active' = active /\ UNCHANGED history
  BY DEF Question, Option
<1>2. q \in Seq(PollMessage) /\ q # <<>> /\ m = q[1]
  BY <1>1, Heard DEF PollTyped, PollInv
<1> HIDE DEF m
<1>3. ~Announces(q)
  BY <1>1, <1>2 DEF Announces
<1>4. WindowOfTurn(u, events'[u], Last, Speaker)
  BY <1>1 DEF TurnInv, WindowTurn
<1>5. QED
  BY <1>1, <1>2, <1>3, <1>4, HeardTurn

(* An answer arrives: who gave it waits with it instead of sending it.       *)
LEMMA AnswerHeard ==
  ASSUME PollTyped, PollTyped', PollInv, TurnInv, NEW u \in Users, NEW v \in Users,
         Taken(u, v), UNCHANGED history, dialog' = dialog, active' = active,
         link[<<v, u>>][1].kind = "answer", NEW e \in Event,
         e.what = "answer", e.poll = link[<<v, u>>][1].poll, e.index = link[<<v, u>>][1].index,
         events' = [events EXCEPT ![u] = Append(@, e)]
  PROVE  TurnInv'
<1> DEFINE q == link[<<v, u>>]
<1>h. starters' = starters /\ Last' = Last /\ Speaker' = Speaker
  BY DEF history, Last, Speaker
<1>1. /\ q \in Seq(PollMessage) /\ q # <<>> /\ link'[<<v, u>>] = Tail(q)
      /\ \A w, x \in Users : w # v \/ x # u => link'[<<w, x>>] = link[<<w, x>>]
  BY Heard DEF PollTyped, PollInv
<1>2. /\ u = Speaker /\ v # Speaker /\ link'[<<v, u>>] = <<>> /\ e.poll = Last
      /\ LinkOfTurn(<<v, u>>, Tail(q), Last, Speaker)
  <2>1. LinkOfTurn(<<v, u>>, q, Last, Speaker)
    BY TurnTypes DEF TurnInv, LinkTurn
  <2>2. QED
    BY <1>1, <2>1, TurnTail
<1>3. /\ \A w \in Users : link'[<<Speaker, w>>] = link[<<Speaker, w>>]
      /\ \A w \in Users : w # v => link'[<<w, Speaker>>] = link[<<w, Speaker>>]
  BY <1>1, <1>2
<1>4. /\ events[u] \in Seq(Event) /\ events'[u] = Append(events[u], e)
      /\ \A w \in Users : w # u => events'[w] = events[w]
  BY TypesOf DEF PollTyped
<1>5. LinkTurn'
  <2>1. ASSUME NEW w \in Users, NEW x \in Users
        PROVE  LinkOfTurn(<<w, x>>, link'[<<w, x>>], Last, Speaker)
    <3>1. LinkOfTurn(<<w, x>>, link[<<w, x>>], Last, Speaker)
      BY TurnTypes DEF TurnInv, LinkTurn
    <3>2. QED
      BY <1>1, <1>2, <3>1
  <2>2. QED
    BY <1>h, <2>1 DEF LinkTurn, Links
<1>6. WindowTurn'
  <2>1. ASSUME NEW w \in Users
        PROVE  WindowOfTurn(w, events'[w], Last, Speaker)
    <3>1. WindowOfTurn(w, events[w], Last, Speaker)
      BY DEF TurnInv, WindowTurn
    <3>2. QED
      BY <1>2, <1>4, <3>1, WaitAdded
  <2>2. QED
    BY <1>h, <2>1 DEF WindowTurn
<1>7. DialogTurn' /\ OwnTurn'
  BY <1>h, <1>3 DEF DialogTurn, OwnTurn, TurnInv
<1>8. OnceInv'
  <2>1. ASSUME NEW w \in Users
        PROVE  /\ (ToCome(w)' <=> ToCome(w)) /\ (ToShow(w)' <=> ToShow(w))
               /\ (Asked(w)' <=> Asked(w)) /\ (NoWord(w) => NoWord(w)')
    <3>1. ToShow(w)' <=> ToShow(w)
      <4>1. CASE w = u
        <5>1. HasPoll(Append(events[u], e)) <=> HasPoll(events[u])
          BY <1>4, WaitAdded
        <5>2. QED
          BY <1>4, <4>1, <5>1 DEF ToShow
      <4>2. CASE w # u
        BY <1>4, <4>2 DEF ToShow
      <4>3. QED
        BY <4>1, <4>2
    <3>2. (ToCome(w)' <=> ToCome(w)) /\ (Asked(w)' <=> Asked(w))
      BY <1>h, <1>3 DEF ToCome, Asked
    <3>3. NoWord(w) => NoWord(w)'
      BY <1>h, <1>2, <1>3 DEF NoWord
    <3>4. QED
      BY <3>1, <3>2, <3>3
  <2>2. QED
    BY <1>h, <1>3, <2>1 DEF OnceInv, TurnInv
<1>9. CountInv'
  <2>1. ASSUME NEW a \in Answers
        PROVE  Cardinality(VotesIn(events'[u], a)) + Cardinality(Senders(a)')
                 = Cardinality(VotesIn(events[u], a)) + Cardinality(Senders(a))
    <3>1. Cardinality(VotesIn(events[u], a)) \in Nat
      BY <1>4, SmallSets
    <3>2. /\ Senders(a) \in SUBSET Users
          /\ v \in Senders(a) <=> e.index = a
          /\ Senders(a)' = Senders(a) \ {v}
      BY <1>h, <1>1, <1>2, <1>3 DEF Senders, Answering
    <3> DEFINE A == Senders(a)
               B == Senders(a)'
               x == events[u]
               y == events'[u]
    <3>3. Cardinality(VotesIn(y, a)) = IF e.index = a THEN Cardinality(VotesIn(x, a)) + 1
                                       ELSE Cardinality(VotesIn(x, a))
      BY <1>4, VotePosted
    <3>4. /\ Cardinality(A) \in Nat
          /\ Cardinality(B) = IF e.index = a THEN Cardinality(A) - 1 ELSE Cardinality(A)
      <4>1. e.index # a => B = A
        BY <3>2
      <4>2. QED
        BY <3>2, <4>1, UserSets
    <3> HIDE DEF A, B, x, y
    <3>5. QED
      BY <3>1, <3>3, <3>4 DEF A, B, x, y
  <2>2. ASSUME NEW w \in Users, active'[w].starter = w, NEW a \in Answers
        PROVE  IF w = Speaker THEN CountOf(active[w], events[w], a)'
               ELSE active'[w].votes[a] = Cardinality(Givers(active'[w], a))
    <3>1. active[w].votes[a] \in Nat
      BY TurnTypes DEF OfActive
    <3>2. CASE w = Speaker
      <4>1. CountOf(active[u], events[u], a)
        BY <1>2, <2>2, <3>2 DEF TurnInv, CountInv
      <4>2. /\ Cardinality(VotesIn(events[u], a)) \in Nat /\ Cardinality(Senders(a)) \in Nat
            /\ Cardinality(VotesIn(events'[u], a)) \in Nat /\ Cardinality(Senders(a)') \in Nat
        <5>1. Senders(a) \in SUBSET Users /\ Senders(a)' \in SUBSET Users
          BY DEF Senders
        <5>2. events'[u] \in Seq(Event)
          BY <1>4
        <5>3. QED
          BY <1>4, <5>1, <5>2, SmallSets, UserSets
      <4>3. active[u].votes[a] + Cardinality(VotesIn(events'[u], a)) + Cardinality(Senders(a)')
              = Cardinality(Givers(active[u], a))
        <5> DEFINE c == active[u].votes[a]
                   x == Cardinality(VotesIn(events[u], a))
                   y == Cardinality(Senders(a))
                   x2 == Cardinality(VotesIn(events'[u], a))
                   y2 == Cardinality(Senders(a)')
        <5>1. /\ c \in Nat /\ x \in Nat /\ y \in Nat /\ x2 \in Nat /\ y2 \in Nat
              /\ x2 + y2 = x + y
          BY <1>2, <2>1, <3>1, <3>2, <4>2
        <5>2. c + x + y = Cardinality(Givers(active[u], a))
          BY <4>1 DEF CountOf
        <5> HIDE DEF c, x, y, x2, y2
        <5>3. c + x2 + y2 = c + x + y
          BY <5>1
        <5>4. QED
          BY <5>2, <5>3 DEF c, x2, y2
      <4>4. QED
        BY <1>2, <3>2, <4>3 DEF CountOf
    <3>3. CASE w # Speaker
      BY <2>2, <3>3 DEF TurnInv, CountInv
    <3>4. QED
      BY <3>2, <3>3
  <2>3. QED
    BY <1>h, <2>2 DEF CountInv, CountOf
<1>10. QED
  BY <1>5, <1>6, <1>7, <1>8, <1>9 DEF TurnInv

LEMMA PostTurn ==
  ASSUME PollTyped, PollTyped', PollInv, TurnInv, NEW u \in Users, NEW v \in Users, Post(u, v)
  PROVE  TurnInv'
<1> DEFINE q == link[<<v, u>>]
           m == Head(link[v, u])
           what == IF m.kind = "answer" THEN "answer" ELSE IF m.stats THEN "stats" ELSE "poll"
           e == [what |-> what, poll |-> m.poll, index |-> m.index]
<1>1. /\ Taken(u, v) /\ m.kind \in {"end", "answer"}
      /\ events' = [events EXCEPT ![u] = Append(@, e)]
      /\ active' = active /\ dialog' = dialog /\ UNCHANGED history
  BY DEF Post
<1>2. q \in Seq(PollMessage) /\ q # <<>> /\ m = q[1] /\ m \in PollMessage
  BY <1>1, Heard DEF PollTyped, PollInv
<1>3. /\ e \in Event /\ e.poll = m.poll /\ e.index = m.index
      /\ e.what = IF m.kind = "answer" THEN "answer" ELSE IF m.stats THEN "stats" ELSE "poll"
  BY <1>1, <1>2 DEF Event, PollMessage
<1> HIDE DEF m, e
<1>4. /\ events[u] \in Seq(Event) /\ events'[u] = Append(events[u], e)
      /\ \A w \in Users : w # u => events'[w] = events[w]
  BY <1>1, TypesOf DEF PollTyped
<1>5. CASE m.kind = "answer"
  BY <1>1, <1>2, <1>3, <1>5, AnswerHeard
<1>6. CASE m.kind = "end"
  <2>1. u # Speaker /\ e.poll = Last
    BY <1>2, <1>3, <1>6, SpeakerHeard
  <2>2. /\ ~Announces(q)
        /\ e.what # "answer" /\ (e.what = "poll" => IsEnd(q[1]))
    BY <1>2, <1>3, <1>6 DEF Announces, IsEnd
  <2>3. WindowOfTurn(u, events'[u], Last, Speaker)
    <3>1. WindowOfTurn(u, events[u], Last, Speaker)
      BY DEF TurnInv, WindowTurn
    <3>2. QED
      BY <1>3, <1>4, <2>1, <2>2, <3>1, WaitAdded
  <2>4. HasPoll(events'[u]) => HasPoll(events[u]) \/ IsEnd(q[1])
    <3>1. HasPoll(Append(events[u], e)) => HasPoll(events[u]) \/ e.what = "poll"
      BY <1>3, <1>4, WaitAdded
    <3>2. QED
      BY <1>4, <2>2, <3>1
  <2>5. /\ Taken(u, v) /\ UNCHANGED history /\ dialog' = dialog
        /\ active'[u] = active[u] /\ q[1].kind # "answer"
        /\ \A w \in Users : w # u => active'[w] = active[w] /\ events'[w] = events[w]
    BY <1>1, <1>2, <1>4, <1>6
  <2>6. QED
    BY <2>2, <2>3, <2>4, <2>5, HeardTurn
<1>7. QED
  BY <1>1, <1>5, <1>6

-----------------------------------------------------------------------------
(* The window: an event is taken. *)
LEMMA EventTurn ==
  ASSUME PollTyped, PollTyped', PollInv, TurnInv, NEW u \in Users, NEW what, Next1(u, what),
         data' = data, link' = link, UNCHANGED history
  PROVE  /\ starters' = starters /\ Last' = Last /\ Speaker' = Speaker
         /\ events[u] \in Seq(Event) /\ events[u] # <<>> /\ events[u][1] \in Event
         /\ events[u][1].poll = Last /\ Last # 0 /\ Head(events[u]) = events[u][1]
         /\ what = "answer" <=> u = Speaker
         /\ events[u][1].what = what /\ events'[u] = Tail(events[u])
         /\ \A w \in Users : w # u => events'[w] = events[w]
         /\ LinkTurn' /\ WindowTurn'
         /\ \A w \in Users : (ToCome(w)' <=> ToCome(w)) /\ (ToShow(w)' => ToShow(w))
         /\ what = "poll" => ToShow(u) /\ ~ToShow(u)'
         /\ \A a : Senders(a)' = Senders(a)
<1>h. starters' = starters /\ Last' = Last /\ Speaker' = Speaker
  BY DEF history, Last, Speaker
<1>1. /\ events[u] \in Seq(Event) /\ events[u] # <<>> /\ 1 \in 1..Len(events[u])
      /\ Head(events[u]) = events[u][1] /\ events[u][1] \in Event
      /\ events[u][1].what = what
  BY EventTaken
<1>2. events'[u] = Tail(events[u]) /\ \A w \in Users : w # u => events'[w] = events[w]
  BY WindowType, TypesOf DEF PollTyped
<1>3. /\ WindowOfTurn(u, events'[u], Last, Speaker)
      /\ events[u][1].poll = Last /\ (what = "answer" <=> u = Speaker)
  <2>1. WindowOfTurn(u, events[u], Last, Speaker)
    BY DEF TurnInv, WindowTurn
  <2>2. QED
    BY <1>1, <1>2, <2>1, WaitTail
<1>4. Last # 0
  BY <1>1, <1>3 DEF Event, Polls
<1>5. LinkTurn' /\ WindowTurn'
  BY <1>h, <1>2, <1>3 DEF TurnInv, LinkTurn, WindowTurn
<1>6. \A w \in Users : (ToCome(w)' <=> ToCome(w)) /\ (ToShow(w)' => ToShow(w))
  <2>1. HasPoll(events'[u]) => HasPoll(events[u])
    BY <1>1, <1>2, WaitTail
  <2>2. \A w \in Users : HasPoll(events'[w]) => HasPoll(events[w])
    BY <1>2, <2>1
  <2>3. QED
    BY <1>h, <2>2 DEF ToCome, ToShow
<1>7. what = "poll" => ToShow(u) /\ ~ToShow(u)'
  <2>1. Waiting(events[u], data[u], starters, reports)
    BY DEF PollInv, WindowInv
  <2>2. what = "poll" => ~Due(Tail(events[u])) /\ HasPoll(events[u])
    BY <1>1, <2>1, WindowTail, WaitTail
  <2>3. HasPoll(events'[u]) => Due(events'[u])
    BY <1>1, <1>2 DEF HasPoll, Due
  <2>4. QED
    BY <1>2, <2>2, <2>3 DEF ToShow
<1>8. \A a : Senders(a)' = Senders(a)
  BY <1>h DEF Senders
<1>9. QED
  BY <1>h, <1>1, <1>2, <1>3, <1>4, <1>5, <1>6, <1>7, <1>8

LEMMA OnPollTurn ==
  ASSUME PollTyped, PollTyped', PollInv, PollInv', TurnInv, NEW u \in Users, OnPoll(u)
  PROVE  TurnInv'
<1> DEFINE t == [starter |-> data[u].owner, poll |-> data[u].poll,
                 options |-> {o \in data[u].options : o.index >= 0},
                 votes |-> NoVotes, given |-> {}]
<1>1. /\ Next1(u, "poll") /\ data' = data /\ link' = link /\ UNCHANGED history
      /\ active' = [active EXCEPT ![u] = t]
      /\ dialog' = [dialog EXCEPT ![u] = UpdateAnswerArea(t)]
  BY DEF OnPoll
<1>2. /\ starters' = starters /\ Last' = Last /\ Speaker' = Speaker
      /\ events[u] \in Seq(Event) /\ events[u] # <<>>
      /\ events[u][1].poll = Last /\ Last # 0 /\ u # Speaker /\ events[u][1].what = "poll"
      /\ \A w \in Users : w # u => events'[w] = events[w]
      /\ LinkTurn' /\ WindowTurn'
      /\ \A w \in Users : (ToCome(w)' <=> ToCome(w)) /\ (ToShow(w)' => ToShow(w))
      /\ ToShow(u) /\ ~ToShow(u)'
      /\ \A a : Senders(a)' = Senders(a)
  BY <1>1, EventTurn
<1>3. data[u].owner = Speaker /\ data[u].poll = Last
  <2>1. 1 \in 1..Len(events[u]) /\ Waiting(events[u], data[u], starters, reports)
    BY <1>2 DEF PollInv, WindowInv
  <2>2. QED
    BY <1>2, <2>1 DEF Waiting, Speaker
<1>4. t.starter = Speaker /\ t.poll = Last
  BY <1>3
<1> HIDE DEF t
<1>5. /\ \A w \in Users : w # u => active'[w] = active[w] /\ dialog'[w] = dialog[w]
      /\ active'[u] = t /\ dialog'[u] = UpdateAnswerArea(t)
      /\ Speaker \in Users
  BY <1>1, <1>2, TypesOf, TurnTypes DEF PollTyped
<1>6. dialog'[u].poll = Last
  <2>1. dialog'[u] # Closed => dialog'[u].poll \in 1..Len(starters')
    BY DEF PollInv, ShownInv, Shown
  <2>2. CASE IsValid(t)
    BY <1>4, <1>5, <2>2 DEF UpdateAnswerArea
  <2>3. CASE ~IsValid(t)
    <3>1. dialog'[u] = NoData /\ NoData.poll = 0 /\ NoData # Closed
      BY <1>5, <2>3 DEF UpdateAnswerArea, NoData, Closed, Nobody, Null
    <3>2. QED
      BY <2>1, <3>1
  <2>4. QED
    BY <2>2, <2>3
<1>7. DialogTurn'
  BY <1>2, <1>4, <1>5, <1>6 DEF DialogTurn, TurnInv
<1>8. OwnTurn'
  BY <1>1, <1>2, <1>4, <1>5 DEF OwnTurn, TurnInv
<1>9. OnceInv'
  <2>1. \A w \in Users : NoWord(w)' <=> NoWord(w)
    BY <1>1, <1>2, <1>5 DEF NoWord
  <2>2. \A w \in Users : w # u => (Asked(w)' <=> Asked(w))
    BY <1>5 DEF Asked
  <2>3. QED
    BY <1>1, <1>2, <2>1, <2>2 DEF OnceInv, TurnInv
<1>10. CountInv'
  BY <1>2, <1>4, <1>5 DEF CountInv, CountOf, TurnInv
<1>11. QED
  BY <1>2, <1>7, <1>8, <1>9, <1>10 DEF TurnInv

LEMMA OnPollAnswerTurn ==
  ASSUME PollTyped, PollTyped', PollInv, TurnInv, NEW u \in Users, OnPollAnswer(u)
  PROVE  TurnInv'
<1> DEFINE e == events[u][1]
<1>1. /\ Next1(u, "answer") /\ data' = data /\ link' = link /\ dialog' = dialog
      /\ UNCHANGED history
      /\ active' = IF active[u].starter = Null THEN active
                   ELSE [active EXCEPT ![u] = AddVote(@, Head(events[u]).index)]
  BY DEF OnPollAnswer
<1>2. /\ starters' = starters /\ Last' = Last /\ Speaker' = Speaker
      /\ events[u] \in Seq(Event) /\ events[u] # <<>> /\ Head(events[u]) = e /\ e \in Event
      /\ Last # 0 /\ u = Speaker /\ e.what = "answer" /\ events'[u] = Tail(events[u])
      /\ \A w \in Users : w # u => events'[w] = events[w]
      /\ LinkTurn' /\ WindowTurn'
      /\ \A w \in Users : (ToCome(w)' <=> ToCome(w)) /\ (ToShow(w)' => ToShow(w))
      /\ \A a : Senders(a)' = Senders(a)
  BY <1>1, EventTurn
<1> HIDE DEF e
<1>3. /\ \A w \in Users : w # u => active'[w] = active[w]
      /\ active'[u].starter = active[u].starter /\ active'[u].poll = active[u].poll
      /\ active'[u].options = active[u].options /\ active'[u].given = active[u].given
  <2>1. active \in [Users -> OfActive]
    BY TypesOf DEF PollTyped
  <2>2. \A i : /\ AddVote(active[u], i).starter = active[u].starter
               /\ AddVote(active[u], i).poll = active[u].poll
               /\ AddVote(active[u], i).options = active[u].options
               /\ AddVote(active[u], i).given = active[u].given
    BY <2>1 DEF AddVote, OfActive
  <2>3. QED
    BY <1>1, <2>1, <2>2
<1>4. DialogTurn' /\ OwnTurn'
  <2>1. \A w \in Users : /\ active'[w].starter = active[w].starter
                         /\ active'[w].poll = active[w].poll
                         /\ active'[w].options = active[w].options
    BY <1>3
  <2>2. QED
    BY <1>1, <1>2, <2>1 DEF DialogTurn, OwnTurn, TurnInv
<1>5. OnceInv'
  <2>1. \A w \in Users : (NoWord(w)' <=> NoWord(w)) /\ (Asked(w)' <=> Asked(w))
    BY <1>1, <1>2, <1>3 DEF NoWord, Asked
  <2>2. QED
    BY <1>1, <1>2, <2>1 DEF OnceInv, TurnInv
<1>6. ASSUME active[u].starter = u, NEW a \in Answers
      PROVE  /\ active'[u].votes[a] + Cardinality(VotesIn(events'[u], a))
                  = active[u].votes[a] + Cardinality(VotesIn(events[u], a))
             /\ active[u].votes[a] \in Nat /\ active'[u].votes[a] \in Nat
             /\ Cardinality(VotesIn(events'[u], a)) \in Nat
             /\ Cardinality(VotesIn(events[u], a)) \in Nat
  <2>1. active[u].options = Sent(Last)
    BY <1>2, <1>6 DEF TurnInv, OwnTurn
  <2>2. Cardinality(active[u].options) = 2 /\ e.index \in Answers /\ e.index < 2
    BY <1>2, <2>1, SentTwo, TurnTypes DEF Event, Answers, Options, Blank
  <2>3. u # Null /\ active \in [Users -> OfActive] /\ active[u].votes \in [Answers -> Nat]
    BY TypesOf, PollAssumption DEF PollTyped, OfActive
  <2>4. active'[u].votes = [active[u].votes EXCEPT ![e.index] = @ + 1]
    <3>1. active'[u] = AddVote(active[u], e.index)
      BY <1>1, <1>2, <1>6, <2>3
    <3>2. AddVote(active[u], e.index) = [active[u] EXCEPT !.votes[e.index] = @ + 1]
      BY <2>2 DEF AddVote
    <3>3. QED
      BY <2>3, <3>1, <3>2 DEF OfActive
  <2>5. /\ active[u].votes[a] \in Nat
        /\ active'[u].votes[a] = IF a = e.index THEN active[u].votes[a] + 1
                                 ELSE active[u].votes[a]
    BY <2>2, <2>3, <2>4
  <2>6. /\ e.index = a => Cardinality(VotesIn(events[u], a))
                            = Cardinality(VotesIn(events'[u], a)) + 1
        /\ e.index # a => Cardinality(VotesIn(events[u], a))
                            = Cardinality(VotesIn(events'[u], a))
    BY <1>2, VoteTaken DEF e
  <2>7. /\ Cardinality(VotesIn(events'[u], a)) \in Nat
        /\ Cardinality(VotesIn(events[u], a)) \in Nat
    <3>1. events'[u] \in Seq(Event)
      BY <1>2
    <3>2. QED
      BY <1>2, <3>1, SmallSets
  <2> DEFINE c  == active[u].votes[a]
             c2 == active'[u].votes[a]
             x  == Cardinality(VotesIn(events[u], a))
             x2 == Cardinality(VotesIn(events'[u], a))
  <2>8. /\ c \in Nat /\ x \in Nat /\ x2 \in Nat
        /\ a = e.index => c2 = c + 1 /\ x = x2 + 1
        /\ a # e.index => c2 = c /\ x = x2
    BY <2>5, <2>6, <2>7
  <2> HIDE DEF c, c2, x, x2
  <2>9. c2 + x2 = c + x /\ c2 \in Nat
    BY <2>8
  <2>10. QED
    BY <2>8, <2>9 DEF c, c2, x, x2
<1>7. CountInv'
  <2>1. ASSUME NEW w \in Users, active'[w].starter = w, NEW a \in Answers
        PROVE  IF w = Speaker THEN CountOf(active[w], events[w], a)'
               ELSE active'[w].votes[a] = Cardinality(Givers(active'[w], a))
    <3>1. CASE w = Speaker
      <4>1. CountOf(active[u], events[u], a) /\ active[u].starter = u
        BY <1>2, <1>3, <2>1, <3>1 DEF TurnInv, CountInv
      <4>2. Cardinality(Senders(a)) \in Nat
        <5>1. Senders(a) \in SUBSET Users
          BY DEF Senders
        <5>2. QED
          BY <1>2, <5>1, UserSets
      <4>3. Givers(active'[u], a) = Givers(active[u], a)
        BY <1>3 DEF Givers
      <4>4. active'[u].votes[a] + Cardinality(VotesIn(events'[u], a)) + Cardinality(Senders(a))
              = Cardinality(Givers(active[u], a))
        BY <1>6, <4>1, <4>2 DEF CountOf
      <4>5. QED
        BY <1>2, <3>1, <4>3, <4>4 DEF CountOf
    <3>2. CASE w # Speaker
      BY <1>2, <1>3, <2>1, <3>2 DEF TurnInv, CountInv
    <3>3. QED
      BY <3>1, <3>2
  <2>2. QED
    BY <1>2, <2>1 DEF CountInv
<1>8. QED
  BY <1>2, <1>4, <1>5, <1>7 DEF TurnInv

LEMMA OnPollStatsTurn ==
  ASSUME PollTyped, PollTyped', PollInv, TurnInv, NEW u \in Users, OnPollStats(u)
  PROVE  TurnInv'
<1>1. /\ Next1(u, "stats") /\ data' = data /\ link' = link /\ active' = active
      /\ UNCHANGED history /\ dialog' = [dialog EXCEPT ![u] = Closed]
  BY DEF OnPollStats
<1>2. /\ starters' = starters /\ Last' = Last /\ Speaker' = Speaker
      /\ Last # 0 /\ u # Speaker
      /\ \A w \in Users : w # u => events'[w] = events[w]
      /\ LinkTurn' /\ WindowTurn'
      /\ \A w \in Users : (ToCome(w)' <=> ToCome(w)) /\ (ToShow(w)' => ToShow(w))
      /\ \A a : Senders(a)' = Senders(a)
  BY <1>1, EventTurn
<1>3. \A w \in Users : dialog'[w] = dialog[w] \/ dialog'[w] = Closed
  BY <1>1, TypesOf DEF PollTyped
<1>4. DialogTurn' /\ OwnTurn'
  BY <1>1, <1>2, <1>3 DEF DialogTurn, OwnTurn, TurnInv
<1>5. OnceInv'
  <2>1. \A w \in Users : (NoWord(w)' <=> NoWord(w)) /\ (Asked(w)' => Asked(w))
    BY <1>1, <1>2, <1>3 DEF NoWord, Asked
  <2>2. QED
    BY <1>1, <1>2, <2>1 DEF OnceInv, TurnInv
<1>6. CountInv'
  BY <1>1, <1>2 DEF CountInv, CountOf, TurnInv
<1>7. QED
  BY <1>2, <1>4, <1>5, <1>6 DEF TurnInv

-----------------------------------------------------------------------------
(* The user. *)

LEMMA LeaveTurn ==
  ASSUME PollTyped, PollTyped', PollInv, TurnInv, NEW u \in Users,
         OpenWindow(u) \/ OnPollAnswerDialogClose(u)
  PROVE  TurnInv'
<1>1. /\ events' = events /\ link' = link /\ UNCHANGED history
      /\ \/ active' = [active EXCEPT ![u] = NoPoll] /\ dialog' = dialog
         \/ active' = active /\ dialog' = [dialog EXCEPT ![u] = Closed]
  BY DEF OpenWindow, OnPollAnswerDialogClose
<1>h. starters' = starters /\ Last' = Last /\ Speaker' = Speaker
  BY <1>1 DEF history, Last, Speaker
<1>2. \A w \in Users : /\ active'[w] = active[w] \/ (w = u /\ active'[w] = NoPoll)
                       /\ dialog'[w] = dialog[w] \/ dialog'[w] = Closed
  BY <1>1, TypesOf DEF PollTyped
<1>3. /\ NoPoll.poll = 0 /\ NoPoll.given = {} /\ \A w \in Users : NoPoll.starter # w
  BY PollAssumption DEF NoPoll
<1> HIDE DEF NoPoll
<1>4. LinkTurn' /\ WindowTurn'
  BY <1>h, <1>1 DEF LinkTurn, WindowTurn, TurnInv
<1>5. DialogTurn' /\ OwnTurn'
  BY <1>h, <1>1, <1>2, <1>3 DEF DialogTurn, OwnTurn, TurnInv
<1>6. OnceInv'
  <2>1. ASSUME Last # 0, NEW w \in Users
        PROVE  /\ ToCome(w)' <=> ToCome(w)
               /\ ToShow(w)' <=> ToShow(w)
               /\ (Asked(w)' => Asked(w)) /\ (NoWord(w) => NoWord(w)')
    <3>1. Speaker \in Users
      BY <2>1, TurnTypes
    <3>2. \A b : b \in active'[Speaker].given => b \in active[Speaker].given
      BY <1>2, <1>3, <3>1
    <3>3. (NoWord(w) => NoWord(w)') /\ (Asked(w)' => Asked(w))
      BY <1>h, <1>1, <1>2, <3>2 DEF NoWord, Asked
    <3>4. QED
      BY <1>h, <1>1, <3>3 DEF ToCome, ToShow
  <2>2. QED
    BY <1>h, <1>1, <2>1 DEF OnceInv, TurnInv
<1>7. CountInv'
  <2>1. \A a : Senders(a)' = Senders(a)
    BY <1>h, <1>1 DEF Senders
  <2>2. QED
    BY <1>h, <1>1, <1>2, <1>3, <2>1 DEF CountInv, CountOf, TurnInv
<1>8. QED
  BY <1>4, <1>5, <1>6, <1>7 DEF TurnInv

(* An answer goes to the last speaker: it is the first this user gives him,  *)
(* and nothing else is on its way there.                                     *)
LEMMA AnswerTurn ==
  ASSUME PollTyped, PollTyped', PollInv, TurnInv, NEW u \in Users, NEW a \in Answers,
         Answer(u, a)
  PROVE  TurnInv'
<1> DEFINE t == active[u]
           m == Msg("answer", FALSE, u, t.poll, a, 0)
<1>1. /\ events' = events /\ UNCHANGED history /\ dialog[u] # Closed
      /\ dialog' = [dialog EXCEPT ![u] = Closed] /\ data' = data
      /\ \/ /\ active' = active /\ link' = link
         \/ /\ IsValid(t) /\ link' = [link EXCEPT ![<<u, t.starter>>] = Append(@, m)]
            /\ active' = IF active[t.starter].poll # t.poll THEN active
                         ELSE [active EXCEPT ![t.starter].given = @ \union {<<u, a>>}]
  BY DEF Answer, SendPollAnswer
<1>h. starters' = starters /\ Last' = Last /\ Speaker' = Speaker
  BY <1>1 DEF history, Last, Speaker
<1>2. CASE active' = active /\ link' = link
  <2>1. OnPollAnswerDialogClose(u)
    BY <1>1, <1>2 DEF OnPollAnswerDialogClose, history
  <2>2. QED
    BY <2>1, LeaveTurn
<1>3. CASE /\ IsValid(t) /\ link' = [link EXCEPT ![<<u, t.starter>>] = Append(@, m)]
           /\ active' = IF active[t.starter].poll # t.poll THEN active
                        ELSE [active EXCEPT ![t.starter].given = @ \union {<<u, a>>}]
  <2>1. u # Speaker /\ t.poll = Last /\ t.starter = Speaker /\ Last # 0 /\ Speaker \in Users
    <3>1. u # Speaker /\ t.poll \in {0, Last}
      BY <1>1 DEF TurnInv, DialogTurn
    <3>2. t.poll # 0
      BY <1>3 DEF IsValid
    <3>3. t.starter = Speaker
      BY <3>1, <3>2 DEF PollInv, NamedInv, Named, Speaker
    <3>4. QED
      BY <3>1, <3>2, <3>3, TurnTypes
  <2>2. NoWord(u) /\ ~ToCome(u) /\ ~ToShow(u)
    BY <1>1, <2>1 DEF TurnInv, OnceInv, Asked
  <2>3. m.kind = "answer" /\ m.poll = Last /\ m.index = a
    BY <2>1 DEF Msg
  <2> DEFINE g == IF active[Speaker].poll # Last THEN active[Speaker].given
                  ELSE active[Speaker].given \union {<<u, a>>}
  <2>4. /\ \A w \in Users : w # Speaker => active'[w] = active[w]
        /\ active'[Speaker].starter = active[Speaker].starter
        /\ active'[Speaker].poll = active[Speaker].poll
        /\ active'[Speaker].options = active[Speaker].options
        /\ active'[Speaker].votes = active[Speaker].votes
        /\ active'[Speaker].given = g
    <3>1. active \in [Users -> OfActive]
      BY TypesOf DEF PollTyped
    <3>2. active' = IF active[Speaker].poll # Last THEN active
                    ELSE [active EXCEPT ![Speaker].given = @ \union {<<u, a>>}]
      BY <1>3, <2>1
    <3>3. QED
      BY <2>1, <3>1, <3>2 DEF OfActive
  <2>5. /\ link'[<<u, Speaker>>] = <<m>>
        /\ \A w, x \in Users : w # u \/ x # Speaker => link'[<<w, x>>] = link[<<w, x>>]
    <3>1. link \in [Links -> Seq(PollMessage)] /\ \A w, x \in Users : <<w, x>> \in Links
      BY TypesOf DEF PollTyped, Links
    <3>2. link[<<u, Speaker>>] = <<>>
      BY <2>2 DEF NoWord
    <3> HIDE DEF m, t
    <3>3. \A w, x \in Users : w # u \/ x # Speaker => link'[<<w, x>>] = link[<<w, x>>]
      BY <1>3, <2>1, <3>1
    <3>4. link'[<<u, Speaker>>] = Append(link[<<u, Speaker>>], m)
      BY <1>3, <2>1, <3>1
    <3>5. Append(<<>>, m) = <<m>>
      OBVIOUS
    <3>6. QED
      BY <3>2, <3>3, <3>4, <3>5
  <2>6. /\ Len(<<m>>) = 1 /\ <<m>>[1] = m /\ <<m>> # <<>>
    OBVIOUS
  <2> HIDE DEF m, t, g
  <2>7. LinkTurn'
    <3>1. ASSUME NEW w \in Users, NEW x \in Users
          PROVE  LinkOfTurn(<<w, x>>, link'[<<w, x>>], Last, Speaker)
      <4>1. CASE w = u /\ x = Speaker
        <5>1. /\ <<w, x>>[1] = u /\ <<w, x>>[2] = Speaker /\ link'[<<w, x>>] = <<m>>
              /\ \A i \in 1..Len(<<m>>) : <<m>>[i] = m
          BY <2>5, <4>1
        <5>2. QED
          BY <2>1, <2>3, <2>6, <5>1 DEF LinkOfTurn
      <4>2. CASE w # u \/ x # Speaker
        <5>1. LinkOfTurn(<<w, x>>, link[<<w, x>>], Last, Speaker)
          BY TurnTypes DEF TurnInv, LinkTurn
        <5>2. QED
          BY <2>5, <4>2, <5>1
      <4>3. QED
        BY <4>1, <4>2
    <3>2. QED
      BY <1>h, <3>1 DEF LinkTurn, Links
  <2>8. WindowTurn'
    BY <1>h, <1>1 DEF WindowTurn, TurnInv
  <2>9. /\ \A w \in Users : dialog'[w] = IF w = u THEN Closed ELSE dialog[w]
        /\ \A w \in Users : link'[<<Speaker, w>>] = link[<<Speaker, w>>]
    BY <1>1, <2>1, <2>5, TypesOf DEF PollTyped
  <2>10. \A w \in Users : /\ active'[w].starter = active[w].starter
                          /\ active'[w].poll = active[w].poll
                          /\ active'[w].options = active[w].options
                          /\ active'[w].votes = active[w].votes
    BY <2>4
  <2>11. DialogTurn' /\ OwnTurn'
    BY <1>h, <2>9, <2>10 DEF DialogTurn, OwnTurn, TurnInv
  <2>12. OnceInv'
    <3>1. ASSUME NEW w \in Users
          PROVE  /\ ToCome(w)' <=> ToCome(w)
                 /\ ToShow(w)' <=> ToShow(w)
                 /\ (Asked(w)' => Asked(w)) /\ ~Asked(u)'
                 /\ w # u /\ NoWord(w) => NoWord(w)'
      <4>1. w # u /\ NoWord(w) => NoWord(w)'
        <5>1. \A b \in Answers : w # u /\ <<w, b>> \in g => <<w, b>> \in active[Speaker].given
          BY DEF g
        <5>2. ASSUME w # u, NoWord(w)
              PROVE  /\ link'[<<w, Speaker>>] = <<>>
                     /\ \A b \in Answers : <<w, b>> \notin active'[Speaker].given
          BY <2>1, <2>4, <2>5, <5>1, <5>2 DEF NoWord
        <5>3. QED
          BY <1>h, <5>2 DEF NoWord
      <4>2. QED
        BY <1>h, <1>1, <2>9, <4>1 DEF ToCome, ToShow, Asked
    <3>2. QED
      BY <1>h, <2>1, <2>2, <2>9, <3>1 DEF OnceInv, TurnInv
  <2>13. CountInv'
    <3>1. ASSUME NEW w \in Users, w # Speaker, active'[w].starter = w, NEW b \in Answers
          PROVE  active'[w].votes[b] = Cardinality(Givers(active'[w], b))
      BY <2>4, <3>1 DEF TurnInv, CountInv
    <3>2. ASSUME active'[Speaker].starter = Speaker, NEW b \in Answers
          PROVE  CountOf(active[Speaker], events[Speaker], b)'
      <4>1. CountOf(active[Speaker], events[Speaker], b)
        BY <2>1, <2>4, <3>2 DEF TurnInv, CountInv
      <4>2. active[Speaker].poll = Last
        BY <2>1, <2>4, <3>2 DEF TurnInv, OwnTurn
      <4>3. /\ Senders(b)' = IF b = a THEN Senders(b) \union {u} ELSE Senders(b)
            /\ u \notin Senders(b) /\ Senders(b) \in SUBSET Users
        <5>1. u \notin Senders(b)
          BY <2>2 DEF Senders, Answering, NoWord
        <5>2. \A w \in Users : w # u => (Answering(link'[<<w, Speaker>>], b)
                                          <=> Answering(link[<<w, Speaker>>], b))
          BY <2>1, <2>5
        <5>3. Answering(link'[<<u, Speaker>>], b) <=> b = a
          BY <2>3, <2>5, <2>6 DEF Answering
        <5>4. QED
          BY <1>h, <5>1, <5>2, <5>3 DEF Senders
      <4>4. /\ Givers(active'[Speaker], b) = IF b = a THEN Givers(active[Speaker], b) \union {u}
                                             ELSE Givers(active[Speaker], b)
            /\ u \notin Givers(active[Speaker], b)
            /\ Givers(active[Speaker], b) \in SUBSET Users
        BY <2>2, <2>4, <4>2 DEF Givers, NoWord, g
      <4> DEFINE A == Senders(b)
                 B == Senders(b)'
                 C == Givers(active[Speaker], b)
                 D == Givers(active'[Speaker], b)
                 x == Cardinality(VotesIn(events[Speaker], b))
                 c == active[Speaker].votes[b]
      <4>5. /\ Cardinality(A) \in Nat /\ Cardinality(C) \in Nat
            /\ b = a => Cardinality(B) = Cardinality(A) + 1 /\ Cardinality(D) = Cardinality(C) + 1
            /\ b # a => B = A /\ D = C
        BY <4>3, <4>4, UserSets
      <4>6. x \in Nat /\ c \in Nat
        BY <2>1, TurnTypes, SmallSets DEF OfActive
      <4>7. c + x + Cardinality(A) = Cardinality(C)
        BY <4>1 DEF CountOf
      <4> HIDE DEF A, B, C, D, x, c
      <4>8. c + x + Cardinality(B) = Cardinality(D)
        BY <4>5, <4>6, <4>7
      <4>9. QED
        BY <1>h, <1>1, <2>4, <4>8 DEF CountOf, B, D, x, c
    <3>3. QED
      BY <1>h, <3>1, <3>2 DEF CountInv
  <2>14. QED
    BY <2>7, <2>8, <2>11, <2>12, <2>13 DEF TurnInv
<1>4. QED
  BY <1>1, <1>2, <1>3

(* Statistics are sent by the last speaker, if at all: they change nothing   *)
(* of what comes, is shown and is answered.                                  *)
LEMMA TurnJoined ==
  ASSUME NEW l, NEW q \in Seq(PollMessage), NEW b \in Seq(PollMessage), NEW p, NEW s,
         \A i \in 1..Len(b) : b[i].kind # "answer" /\ b[i].poll = p /\ ~IsEnd(b[i]),
         l[2] # s
  PROVE  /\ LinkOfTurn(l, q, p, s) => LinkOfTurn(l, q \o b, p, s)
         /\ HasEnd(q \o b) <=> HasEnd(q)
         /\ OneEnd(q) => OneEnd(q \o b)
         /\ Announces(q) => Announces(q \o b)
<1> DEFINE x == q \o b
           n == Len(q)
<1>1. /\ n \in Nat /\ Len(b) \in Nat /\ Len(x) = n + Len(b)
      /\ \A i \in 1..n : x[i] = q[i] /\ i \in 1..Len(x)
      /\ \A i \in 1..Len(x) : i > n => x[i] = b[i - n] /\ i - n \in 1..Len(b)
      /\ q # <<>> => 1 \in 1..n /\ x # <<>>
  OBVIOUS
<1> HIDE DEF x
<1>2. \A i \in 1..Len(x) : \/ i \in 1..n /\ x[i] = q[i]
                           \/ x[i].kind # "answer" /\ x[i].poll = p /\ ~IsEnd(x[i])
  <2>1. ASSUME NEW i \in 1..Len(x)
        PROVE  \/ i \in 1..n /\ x[i] = q[i]
               \/ x[i].kind # "answer" /\ x[i].poll = p /\ ~IsEnd(x[i])
    <3>1. CASE i > n
      <4>1. x[i] = b[i - n] /\ i - n \in 1..Len(b)
        BY <1>1, <3>1
      <4>2. QED
        BY <4>1
    <3>2. CASE i <= n
      BY <1>1, <3>2
    <3>3. QED
      BY <1>1, <3>1, <3>2
  <2>2. QED
    BY <2>1
<1>3. LinkOfTurn(l, q, p, s) => LinkOfTurn(l, x, p, s)
  BY <1>2 DEF LinkOfTurn
<1>4. HasEnd(x) <=> HasEnd(q)
  BY <1>1, <1>2 DEF HasEnd
<1>5. OneEnd(q) => OneEnd(x)
  BY <1>1, <1>2 DEF OneEnd
<1>6. Announces(q) => Announces(x)
  BY <1>1 DEF Announces
<1>7. QED
  BY <1>3, <1>4, <1>5, <1>6 DEF x

LEMMA SendPollStatsTurn ==
  ASSUME PollTyped, PollTyped', PollInv, TurnInv, OneAtATime, NEW u \in Users, SendPollStats(u)
  PROVE  TurnInv'
<1> DEFINE t == active[u]
           b == StatsMessages(u, t)
<1>1. /\ t.poll \in Polls /\ t.votes \in [Answers -> Nat] /\ t.starter = u
      /\ starters' = starters /\ active' = active /\ events' = events /\ dialog' = dialog
  BY TypesOf DEF SendPollStats, client, IsValid, OfActive, PollTyped
<1>h. Last' = Last /\ Speaker' = Speaker
  BY <1>1 DEF Last, Speaker
<1>2. t.poll \in 1..Last /\ starters[t.poll] = u /\ Last \in Nat /\ Last # 0 /\ Speaker \in Users
  <2>1. t.poll # 0
    BY <1>1 DEF Polls
  <2>2. t.poll \in 1..Last /\ starters[t.poll] = u
    BY <1>1, <2>1 DEF PollInv, NamedInv, Named, Last
  <2>3. QED
    BY <2>2, TurnTypes
<1>3. u = Speaker /\ t.poll = Last
  <2>1. \A l \in Links : Speaks(link[l]) => l[1] = u
    <3>1. Quiet(Users \ {u})
      BY DEF SendPollStats, OneAtATime
    <3>2. \A l \in Links : l[1] \in Users
      BY TurnTypes
    <3>3. QED
      BY <3>1, <3>2, QuietMeans
  <2>2. t.poll # Last => u # Speaker /\ Announces(link[<<Speaker, u>>])
    BY <1>1 DEF TurnInv, OwnTurn
  <2>3. Announces(link[<<Speaker, u>>]) => Speaker = u
    <3>1. /\ <<Speaker, u>> \in Links /\ link[<<Speaker, u>>] \in Seq(PollMessage)
          /\ <<Speaker, u>>[1] = Speaker
      BY <1>2, TurnTypes
    <3>2. Announces(link[<<Speaker, u>>]) => Speaks(link[<<Speaker, u>>])
      BY <3>1 DEF Announces, Speaks
    <3>3. QED
      BY <2>1, <3>1, <3>2
  <2>4. QED
    BY <1>2, <2>2, <2>3 DEF Speaker
<1>4. /\ b \in Seq(PollMessage)
      /\ \A i \in 1..Len(b) : b[i].kind # "answer" /\ b[i].poll = Last /\ ~IsEnd(b[i])
  <2>1. Speech(b, u, TRUE, t.poll, Report(t).options)
    BY <1>1, StatsAreSpeech
  <2> HIDE DEF b
  <2>2. QED
    BY <1>3, <2>1 DEF Speech, IsEnd
<1>5. ASSUME NEW w \in Users, NEW v \in Users
      PROVE  /\ w = Speaker /\ v # Speaker => link'[<<w, v>>] = link[<<w, v>>] \o b
             /\ ~(w = Speaker /\ v # Speaker) => link'[<<w, v>>] = link[<<w, v>>]
  BY <1>3 DEF SendPollStats, ToChannel
<1> HIDE DEF b, t
<1>6. ASSUME NEW w \in Users, NEW v \in Users
      PROVE  /\ LinkOfTurn(<<w, v>>, link'[<<w, v>>], Last, Speaker)
             /\ HasEnd(link'[<<w, v>>]) <=> HasEnd(link[<<w, v>>])
             /\ OneEnd(link[<<w, v>>]) => OneEnd(link'[<<w, v>>])
             /\ Announces(link[<<w, v>>]) => Announces(link'[<<w, v>>])
  <2>1. /\ LinkOfTurn(<<w, v>>, link[<<w, v>>], Last, Speaker)
        /\ link[<<w, v>>] \in Seq(PollMessage) /\ <<w, v>>[2] = v
    BY TurnTypes DEF TurnInv, LinkTurn
  <2>2. CASE w = Speaker /\ v # Speaker
    <3>1. <<w, v>>[2] # Speaker /\ link'[<<w, v>>] = link[<<w, v>>] \o b
      BY <1>5, <2>1, <2>2
    <3> DEFINE q == link[<<w, v>>]
               l == <<w, v>>
    <3>2. q \in Seq(PollMessage) /\ LinkOfTurn(l, q, Last, Speaker) /\ l[2] # Speaker
      BY <2>1, <3>1
    <3> HIDE DEF q, l
    <3>3. /\ LinkOfTurn(l, q \o b, Last, Speaker) /\ (HasEnd(q \o b) <=> HasEnd(q))
          /\ OneEnd(q) => OneEnd(q \o b)
          /\ Announces(q) => Announces(q \o b)
      BY <1>4, <3>2, TurnJoined
    <3>4. QED
      BY <3>1, <3>3 DEF q, l
  <2>3. CASE ~(w = Speaker /\ v # Speaker)
    BY <1>5, <2>1, <2>3
  <2>4. QED
    BY <2>2, <2>3
<1>7. LinkTurn'
  BY <1>h, <1>6 DEF LinkTurn, Links
<1>8. WindowTurn' /\ DialogTurn'
  BY <1>h, <1>1 DEF WindowTurn, DialogTurn, TurnInv
<1>9. OwnTurn'
  BY <1>h, <1>1, <1>2, <1>6 DEF OwnTurn, TurnInv
<1>10. \A w \in Users : link'[<<w, Speaker>>] = link[<<w, Speaker>>]
  BY <1>2, <1>5
<1>11. OnceInv'
  <2>1. ASSUME NEW w \in Users
        PROVE  /\ ToCome(w)' <=> ToCome(w)
               /\ ToShow(w)' <=> ToShow(w)
               /\ (Asked(w)' <=> Asked(w)) /\ (NoWord(w) => NoWord(w)')
               /\ OneEnd(link[<<Speaker, w>>]) => OneEnd(link'[<<Speaker, w>>])
    BY <1>h, <1>1, <1>2, <1>6, <1>10 DEF ToCome, ToShow, Asked, NoWord
  <2>2. QED
    BY <1>h, <1>2, <2>1 DEF OnceInv, TurnInv
<1>12. CountInv'
  <2>1. \A a : Senders(a)' = Senders(a)
    BY <1>h, <1>10 DEF Senders
  <2>2. QED
    BY <1>h, <1>1, <2>1 DEF CountInv, CountOf, TurnInv
<1>13. QED
  BY <1>7, <1>8, <1>9, <1>11, <1>12 DEF TurnInv

(* A poll is sent when nothing else is under way: it is the last one now,    *)
(* announced to everybody, and all that was given before has been counted.   *)
LEMMA NothingUnderWay ==
  ASSUME PollTyped, PollInv, Quiet(Users), AllAnswered
  PROVE  /\ \A l \in Links : link[l] = <<>>
         /\ \A u \in Users : events[u] = <<>> /\ dialog[u] = Closed
<1>1. /\ \A l \in Links : l[1] \in Users /\ l[2] \in Users /\ l = <<l[1], l[2]>>
                          /\ link[l] \in Seq(PollMessage)
      /\ \A u \in Users : events[u] \in Seq(Event)
  BY TurnTypes
<1>2. /\ \A l \in Links : ~Speaks(link[l])
      /\ \A u \in Users : ~Due(events[u])
  BY <1>1, QuietMeans
<1>3. \A u \in Users : /\ dialog[u] = Closed /\ ~Has(events[u], AnswerDue)
                       /\ \A v \in Users : ~Has(link[<<v, u>>], IsAnswer)
  BY DEF AllAnswered
<1>4. /\ \A u \in Users : \A n \in 1..Len(events[u]) : events[u][n].what # "answer"
      /\ \A u, v \in Users : \A n \in 1..Len(link[<<v, u>>]) : link[<<v, u>>][n].kind # "answer"
  BY <1>3 DEF Has, AnswerDue, IsAnswer
<1>5. ASSUME NEW l \in Links, link[l] # <<>>
      PROVE  FALSE
  <2>1. 1 \in 1..Len(link[l])
    BY <1>1, <1>5
  <2>2. link[l][1].kind # "answer"
    BY <1>1, <1>4, <2>1
  <2>3. QED
    BY <1>2, <2>1, <2>2 DEF Speaks
<1>6. ASSUME NEW u \in Users, events[u] # <<>>
      PROVE  FALSE
  <2>1. 1 \in 1..Len(events[u])
    BY <1>1, <1>6
  <2>2. QED
    BY <1>2, <1>4, <2>1 DEF Due
<1>7. QED
  BY <1>3, <1>5, <1>6

LEMMA SendPollTurn ==
  ASSUME PollTyped, PollTyped', PollInv, TurnInv, PollCases = {}, NEW u \in Users, SendPoll(u)
  PROVE  TurnInv'
<1> DEFINE p == Len(starters) + 1
           b == PollMessages(u, p)
           t == [starter |-> u, poll |-> p, options |-> Sent(p), votes |-> NoVotes, given |-> {}]
<1>1. /\ p \in Polls /\ p = Last + 1 /\ Last \in Nat /\ Last' = p /\ Speaker' = u
      /\ starters' = Append(starters, u) /\ events' = events /\ dialog' = dialog
  BY PollAssumption DEF SendPoll, PollTyped, PollTypeOK, Polls, Last, Speaker
<1>2. /\ \A l \in Links : link[l] = <<>>
      /\ \A w \in Users : events[w] = <<>> /\ dialog[w] = Closed
  <2>1. Quiet(Users) /\ AllAnswered
    BY DEF SendPoll
  <2>2. QED
    BY <2>1, NothingUnderWay
<1>3. /\ Len(b) = 5 /\ b # <<>> /\ Announces(b) /\ OneEnd(b)
      /\ \A i \in 1..Len(b) : b[i].kind # "answer" /\ b[i].poll = p
  <2>1. Speech(b, u, FALSE, p, Sent(p))
    BY <1>1, PollIsSpeech
  <2>2. Len(b) = 5 /\ b # <<>>
    BY DEF PollMessages
  <2>3. \A i \in 1..5 : IsEnd(b[i]) => i = 5
    BY DEF PollMessages, Msg, IsEnd
  <2> HIDE DEF b, p
  <2>4. b[1].kind = "begin" /\ ~b[1].stats
    BY <2>1, <2>2 DEF Speech
  <2>5. QED
    BY <2>1, <2>2, <2>3, <2>4 DEF Speech, Announces, OneEnd
<1>4. \A w, v \in Users : link'[<<w, v>>] = IF w = u /\ v # u THEN b ELSE <<>>
  <2>1. b \in Seq(PollMessage)
    BY <1>1, PollIsSpeech DEF Speech
  <2>2. <<>> \o b = b
    BY <2>1
  <2>3. \A l \in Links : link'[l] = IF l[1] = u /\ l[2] # u THEN link[l] \o b ELSE link[l]
    BY DEF SendPoll, ToChannel, Links
  <2> HIDE DEF b
  <2>4. QED
    BY <1>2, <2>2, <2>3 DEF Links
<1>5. active'[u] = t /\ \A w \in Users : w # u => active'[w] = active[w]
  BY TypesOf DEF SendPoll, PollTyped
<1>6. /\ t.starter = u /\ t.poll = p /\ t.options = Sent(p) /\ t.given = {}
      /\ \A a \in Answers : t.votes[a] = 0
  BY DEF NoVotes
<1>7. Len(<<>>) = 0
  OBVIOUS
<1> HIDE DEF t, b, p
<1>8. LinkTurn'
  <2>1. ASSUME NEW w \in Users, NEW v \in Users
        PROVE  LinkOfTurn(<<w, v>>, link'[<<w, v>>], p, u)
    BY <1>3, <1>4, <1>7 DEF LinkOfTurn
  <2>2. QED
    BY <1>1, <2>1 DEF LinkTurn, Links
<1>9. WindowTurn' /\ DialogTurn'
  BY <1>1, <1>2, <1>7 DEF WindowTurn, WindowOfTurn, DialogTurn
<1>10. OwnTurn'
  <2>1. ASSUME NEW w \in Users, active'[w].starter = w
        PROVE  /\ active'[w].poll \in 1..p /\ active'[w].options = Sent(active'[w].poll)
               /\ active'[w].poll # p => w # u /\ Announces(link'[<<u, w>>])
    <3>1. CASE w = u
      BY <1>1, <1>5, <1>6, <3>1
    <3>2. CASE w # u
      <4>1. active[w].poll \in 1..Last /\ active[w].options = Sent(active[w].poll)
        BY <1>5, <2>1, <3>2 DEF TurnInv, OwnTurn
      <4>2. QED
        BY <1>1, <1>3, <1>4, <1>5, <3>2, <4>1
    <3>3. QED
      BY <3>1, <3>2
  <2>2. QED
    BY <1>1, <2>1 DEF OwnTurn
<1>11. OnceInv'
  <2>1. OneEnd(<<>>)
    BY <1>7 DEF OneEnd
  <2>2. ASSUME NEW w \in Users
        PROVE  OneEnd(link'[<<u, w>>]) /\ ~ToShow(w)' /\ ~Asked(w)' /\ NoWord(w)'
    BY <1>1, <1>2, <1>3, <1>4, <1>5, <1>6, <1>7, <2>1 DEF ToShow, HasPoll, Asked, NoWord
  <2>3. QED
    BY <1>1, <2>2 DEF OnceInv
<1>12. CountInv'
  <2>1. \A a : VotesIn(<<>>, a) = {} /\ ~Answering(<<>>, a)
    BY <1>7 DEF VotesIn, Answering
  <2>2. Cardinality({}) = 0
    BY FS_EmptySet
  <2>3. ASSUME NEW a \in Answers
        PROVE  CountOf(active[u], events[u], a)'
    <3>1. Senders(a)' = {} /\ Givers(active'[u], a) = {} /\ VotesIn(events'[u], a) = {}
      BY <1>1, <1>2, <1>4, <1>5, <1>6, <2>1 DEF Senders, Givers
    <3>2. active'[u].votes[a] = 0
      BY <1>5, <1>6
    <3>3. QED
      BY <2>2, <3>1, <3>2 DEF CountOf
  <2>4. ASSUME NEW w \in Users, w # u, active[w].starter = w, NEW a \in Answers
        PROVE  active[w].votes[a] = Cardinality(Givers(active[w], a))
    <3>1. CASE w = Speaker
      <4>1. CountOf(active[w], events[w], a)
        BY <2>4, <3>1 DEF TurnInv, CountInv
      <4>2. Senders(a) = {} /\ VotesIn(events[w], a) = {}
        BY <1>2, <2>1, <3>1 DEF Senders, Links
      <4>3. active[w].votes[a] \in Nat
        BY TurnTypes DEF OfActive
      <4>4. QED
        BY <2>2, <4>1, <4>2, <4>3 DEF CountOf
    <3>2. CASE w # Speaker
      BY <2>4, <3>2 DEF TurnInv, CountInv
    <3>3. QED
      BY <3>1, <3>2
  <2>5. ASSUME NEW w \in Users, active'[w].starter = w, NEW a \in Answers
        PROVE  IF w = u THEN CountOf(active[w], events[w], a)'
               ELSE active'[w].votes[a] = Cardinality(Givers(active'[w], a))
    BY <1>5, <2>3, <2>4, <2>5
  <2>6. QED
    BY <1>1, <2>5 DEF CountInv
<1>13. QED
  BY <1>8, <1>9, <1>10, <1>11, <1>12 DEF TurnInv

-----------------------------------------------------------------------------
(* Every answer counted. *)

LEMMA TurnInitial == PollInit => TurnInv
<1> SUFFICES ASSUME PollInit PROVE TurnInv
  OBVIOUS
<1>1. /\ \A l \in Links : link[l] = <<>> /\ Len(link[l]) = 0
      /\ \A u \in Users : /\ Len(events[u]) = 0 /\ dialog[u] = Closed
                          /\ active[u].starter # u
      /\ Last = 0
  BY PollAssumption DEF PollInit, Links, NoPoll, Last
<1>2. LinkTurn /\ WindowTurn /\ DialogTurn
  BY <1>1 DEF LinkTurn, LinkOfTurn, WindowTurn, WindowOfTurn, DialogTurn
<1>3. OwnTurn /\ OnceInv /\ CountInv
  BY <1>1 DEF OwnTurn, OnceInv, CountInv
<1>4. QED
  BY <1>2, <1>3 DEF TurnInv

LEMMA TurnStep ==
  PollCases = {} =>
    (/\ PollTyped /\ PollTyped' /\ PollInv /\ PollInv' /\ TurnInv /\ [PollNext]_pollVars
     => TurnInv')
<1> SUFFICES ASSUME PollCases = {}, PollTyped, PollTyped', PollInv, PollInv', TurnInv,
                    [PollNext]_pollVars
             PROVE  TurnInv'
  OBVIOUS
<1>0. OneAtATime
  BY DEF OneAtATime
<1>1. CASE UNCHANGED pollVars
  <2>1. /\ active' = active /\ events' = events /\ dialog' = dialog /\ link' = link
        /\ Last' = Last /\ Speaker' = Speaker
    BY <1>1 DEF pollVars, client, history, Last, Speaker
  <2>2. LinkTurn' /\ WindowTurn' /\ DialogTurn' /\ OwnTurn'
    BY <2>1 DEF TurnInv, LinkTurn, WindowTurn, DialogTurn, OwnTurn
  <2>3. OnceInv' /\ CountInv'
    BY <2>1 DEF TurnInv, OnceInv, ToCome, ToShow, Asked, NoWord, CountInv, CountOf, Senders
  <2>4. QED
    BY <2>2, <2>3 DEF TurnInv
<1>2. CASE PollNext
  <2>1. PICK u \in Users :
          \/ SendPoll(u) \/ SendPollStats(u) \/ OpenWindow(u)
          \/ OnPollAnswerDialogClose(u) \/ \E a \in Answers : Answer(u, a)
          \/ IrmThread(u) \/ UiThread(u)
    BY <1>2 DEF PollNext
  <2>2. CASE SendPoll(u) \/ SendPollStats(u)
    BY <1>0, <2>2, SendPollTurn, SendPollStatsTurn
  <2>3. CASE OpenWindow(u) \/ OnPollAnswerDialogClose(u) \/ \E a \in Answers : Answer(u, a)
    BY <2>3, LeaveTurn, AnswerTurn
  <2>4. CASE IrmThread(u)
    BY <2>4, BeginTurn, CollectTurn, PostTurn DEF IrmThread
  <2>5. CASE UiThread(u)
    BY <2>5, OnPollTurn, OnPollAnswerTurn, OnPollStatsTurn DEF UiThread
  <2>6. QED
    BY <2>1, <2>2, <2>3, <2>4, <2>5
<1>3. QED
  BY <1>1, <1>2

(* What is counted of the last poll is all that waits and is under way, and  *)
(* of an earlier one nothing is.                                             *)
LEMMA UnderWayOf ==
  ASSUME PollTyped, PollInv, TurnInv, NEW u \in Users, NEW p, NEW a
  PROVE  /\ u = Speaker /\ p = Last =>
              UnderWay(u, p, a) = Cardinality(VotesIn(events[u], a)) + Cardinality(Senders(a))
         /\ u # Speaker => UnderWay(u, p, a) = 0
<1>1. /\ \A v \in Users : LinkOfTurn(<<v, u>>, link[<<v, u>>], Last, Speaker)
                          /\ link[<<v, u>>] \in Seq(PollMessage) /\ <<v, u>>[2] = u
      /\ WindowOfTurn(u, events[u], Last, Speaker)
  BY TurnTypes DEF TurnInv, LinkTurn, WindowTurn
<1>2. ASSUME u = Speaker, p = Last
      PROVE  UnderWay(u, p, a) = Cardinality(VotesIn(events[u], a)) + Cardinality(Senders(a))
  <2>1. Waiters(u, p, a) = VotesIn(events[u], a)
    BY <1>1, <1>2 DEF Waiters, AnswerDue, IsVote, VotesIn, WindowOfTurn
  <2> DEFINE A == Senders(a)
             B == Posted(u, p, a)
             f == [v \in A |-> <<v, 1>>]
  <2>2. \A v \in Users : \A n \in 1..Len(link[<<v, u>>]) :
          IsAnswer(link[<<v, u>>][n]) => n = 1
    BY <1>1 DEF LinkOfTurn, IsAnswer
  <2>3. \A v \in Users : Answering(link[<<v, u>>], a) <=>
          /\ 1 \in 1..Len(link[<<v, u>>]) /\ IsAnswer(link[<<v, u>>][1])
          /\ IsVote(link[<<v, u>>][1], p, a)
    <3>1. ASSUME NEW v \in Users
          PROVE  link[<<v, u>>] # <<>> <=> 1 \in 1..Len(link[<<v, u>>])
      BY <1>1
    <3>2. QED
      BY <1>1, <1>2, <3>1 DEF Answering, IsAnswer, IsVote, LinkOfTurn
  <2>4. B = {<<v, 1>> : v \in A}
    <3> DEFINE due(v) == {k \in 1..Len(link[<<v, u>>]) :
                            IsAnswer(link[<<v, u>>][k]) /\ IsVote(link[<<v, u>>][k], p, a)}
    <3>1. B = UNION {{<<v, n>> : n \in due(v)} : v \in Users}
      BY DEF Posted
    <3>2. ASSUME NEW v \in Users
          PROVE  due(v) = IF v \in A THEN {1} ELSE {}
      <4>1. v \in A <=> 1 \in due(v)
        BY <1>2, <2>3 DEF Senders
      <4>2. \A n \in due(v) : n = 1
        BY <2>2
      <4> HIDE DEF due, A
      <4>3. QED
        BY <4>1, <4>2
    <3>3. A \subseteq Users
      BY DEF Senders
    <3> HIDE DEF due, A, B
    <3>4. QED
      BY <3>1, <3>2, <3>3
  <2>5. IsFiniteSet(A)
    <3>1. A \in SUBSET Users
      BY DEF Senders
    <3>2. QED
      BY <3>1, UserSets
  <2> HIDE DEF A, B
  <2>6. f \in Bijection(A, B)
    <3>1. f \in [A -> B]
      BY <2>4
    <3>2. \A v, w \in A : f[v] = f[w] => v = w
      OBVIOUS
    <3>3. \A x \in B : \E v \in A : f[v] = x
      BY <2>4
    <3> HIDE DEF f
    <3>4. QED
      BY <3>1, <3>2, <3>3, Fun_IsBij
  <2>7. Cardinality(A) = Cardinality(B)
    <3> HIDE DEF f
    <3>1. ExistsBijection(A, B)
      BY <2>6 DEF ExistsBijection
    <3>2. QED
      BY <2>5, <3>1, FS_Bijection
  <2>8. QED
    BY <2>1, <2>7 DEF UnderWay, A, B
<1>3. ASSUME u # Speaker
      PROVE  UnderWay(u, p, a) = 0
  <2>1. Waiters(u, p, a) = {}
    BY <1>1, <1>3 DEF Waiters, AnswerDue, WindowOfTurn
  <2>2. Posted(u, p, a) = {}
    BY <1>1, <1>3 DEF Posted, IsAnswer, LinkOfTurn
  <2>3. QED
    BY <2>1, <2>2, FS_EmptySet DEF UnderWay
<1>4. QED
  BY <1>2, <1>3

(* Each answer a user gives, or leaves blank, is counted once, for the poll  *)
(* and the option it was given to, however the threads of the clients        *)
(* interleave, where a poll is sent only when nobody can answer an earlier   *)
(* one any more (SendPollAnswer, OnPollAnswer, PollInfo::AddVote).           *)
THEOREM VotesCountedOnce == PollCases = {} => (PollSpec => []VotesAddUp)
<1> SUFFICES ASSUME PollCases = {} PROVE PollSpec => []VotesAddUp
  OBVIOUS
<1>1. PollSpec => [](PollTyped /\ PollInv)
  BY PollInvariance DEF OneAtATime
<1>2. PollInit => TurnInv
  BY TurnInitial
<1>3. /\ PollTyped /\ PollInv /\ (PollTyped /\ PollInv)' /\ TurnInv /\ [PollNext]_pollVars
      => TurnInv'
  BY TurnStep
<1>4. PollTyped /\ PollInv /\ TurnInv => VotesAddUp
  <2> SUFFICES ASSUME PollTyped, PollInv, TurnInv, NEW u \in Users, active[u].starter = u,
                      NEW a \in Answers
               PROVE  active[u].votes[a] + UnderWay(u, active[u].poll, a)
                        = Cardinality(Givers(active[u], a))
    BY DEF VotesAddUp, Givers
  <2>1. active[u].votes[a] \in Nat
    BY TurnTypes DEF OfActive
  <2>2. CASE u = Speaker
    <3>1. active[u].poll = Last
      BY <2>2 DEF TurnInv, OwnTurn
    <3>2. CountOf(active[u], events[u], a)
      BY <2>2 DEF TurnInv, CountInv
    <3> DEFINE x == Cardinality(VotesIn(events[u], a))
               y == Cardinality(Senders(a))
               c == active[u].votes[a]
               n == Cardinality(Givers(active[u], a))
               w == UnderWay(u, active[u].poll, a)
    <3>3. x \in Nat /\ y \in Nat
      <4>1. events[u] \in Seq(Event) /\ Senders(a) \in SUBSET Users
        BY TurnTypes DEF Senders
      <4>2. QED
        BY <4>1, SmallSets, UserSets
    <3>4. c + x + y = n /\ w = x + y
      BY <2>2, <3>1, <3>2, UnderWayOf DEF CountOf
    <3> HIDE DEF x, y, c, n, w
    <3>5. c \in Nat
      BY <2>1 DEF c
    <3>6. c + w = n
      BY <3>3, <3>4, <3>5
    <3>7. QED
      BY <3>6 DEF c, n, w
  <2>3. CASE u # Speaker
    <3>1. active[u].votes[a] = Cardinality(Givers(active[u], a))
      BY <2>3 DEF TurnInv, CountInv
    <3>2. UnderWay(u, active[u].poll, a) = 0
      BY <2>3, UnderWayOf
    <3>3. QED
      BY <2>1, <3>1, <3>2
  <2>4. QED
    BY <2>2, <2>3
<1>5. QED
  BY <1>1, <1>2, <1>3, <1>4, PTL DEF PollSpec
=============================================================================
