------------------------- MODULE FileTransfer_proofs -------------------------
(***************************************************************************)
(* Proofs about FileTransferSession, for every number of channels,         *)
(* transmissions and offers, when the two threads do not come between the  *)
(* steps of each other's handlers: the engine works for the session, and   *)
(* session and server agree on the media there are.                        *)
(*                                                                         *)
(* Proofs about FileTransferNet, for every length of the file, every       *)
(* number of requests and however packets are lost or overtake each other: *)
(* the composition implements both halves of the engine, success means the *)
(* sender's whole file, and the sender does not end before the receiver    *)
(* has it.  What XFTReceiver_proofs and XFTSender_proofs establish of each *)
(* half is used as it stands, through RP and SP.                           *)
(***************************************************************************)
EXTENDS FileTransferSession, FileTransferNet, SequenceTheorems, TLAPS

(* One handler at a time.  For what the server holds, besides: a             *)
(* transmission is not cancelled before the server has answered.             *)
InTurn  == Interleave = FALSE
Patient == InTurn /\ EarlyCancel = FALSE

(* A message of this kind about this medium is under way. *)
Has(q, kind, id) == \E n \in 1..Len(q) : q[n].kind = kind /\ q[n].id = id

(* There is no such message twice. *)
Once(q, kind) ==
  \A n, m \in 1..Len(q) :
    n < m /\ q[n].kind = kind /\ q[m].kind = kind => q[n].id # q[m].id

(* Nothing about a medium comes ahead of the request to receive it. *)
ReceiveFirst(q) ==
  \A n, m \in 1..Len(q) :
    n < m /\ q[m].kind = "receive" /\ q[n].kind \in {"receive", "receivestop"}
      => q[n].id # q[m].id

(* What is sent goes to this channel. *)
SentTo(q, channel) ==
  \A n \in 1..Len(q) : q[n].kind = "send" => q[n].channel = channel

-----------------------------------------------------------------------------
(* The inductive invariant. *)

Msg == [kind : {"send", "sendstop", "receive", "receivestop", "notify"},
        id : Nat, channel : Channels \union {None}]

Place == {"idle", "reset", "clear", "state", "request", "accept", "ask", "store",
          "rcvbegin", "sndbegin"}

Task == [then : {"idle", "state", "accept"}, id : Nat, channel : Channels \union {None}]

(* Media are numbers: that they keep within Ids is a matter of counting.     *)
LooseType ==
  /\ state \in {"idle", "receiving", "transmitting"}
  /\ rcvId \in Nat /\ sndId \in Nat /\ sndChannel \in Channels \union {None}
  /\ engine \in [mode : {"off", "rcv", "snd"}, id : Nat, ended : BOOLEAN]
  /\ toServer \in Seq(Msg) /\ toClient \in Seq(Msg)
  /\ pc \in [Threads -> Place] /\ arg \in [Threads -> Task]
  /\ lastId \in Nat /\ mine \subseteq Nat /\ joined \subseteq Nat /\ offered \subseteq Nat

IrmAt(labels) == pc["irm"] \in labels
UiAt(labels)  == pc["ui"] \in labels
InReset == IrmAt({"reset", "clear"}) \/ UiAt({"reset", "clear"})

(* Who is where. *)
ControlInv ==
  /\ IrmAt({"idle"}) \/ UiAt({"idle"})
  /\ IrmAt({"idle", "reset", "clear", "accept", "ask", "store", "rcvbegin", "sndbegin"})
  /\ UiAt({"idle", "reset", "clear", "state", "request"})
  /\ IrmAt({"reset", "clear"}) => arg["irm"].then \in {"idle", "accept"}
  /\ UiAt({"reset", "clear"}) => arg["ui"].then \in {"idle", "state"}

(* The engine is off unless the session stands for its transfer. *)
EngineInv ==
  /\ state = "idle" => engine = Off
  /\ IrmAt({"clear", "accept", "ask", "store"}) => engine = Off
  /\ UiAt({"clear", "state", "request"}) => engine = Off
  /\ IrmAt({"accept"}) \/ UiAt({"state"}) => state = "idle"
  /\ IrmAt({"ask", "store", "rcvbegin"}) => state = "receiving"
  /\ IrmAt({"sndbegin"}) \/ UiAt({"request"}) => state = "transmitting"
  /\ engine.mode = "rcv" => state = "receiving" /\ engine.id = rcvId
  /\ engine.mode = "snd" =>
       state = "transmitting" /\ (engine.id = sndId \/ IrmAt({"sndbegin", "reset"}))

(* The IRM thread has taken up the offer of a medium. *)
Accepting ==
  \/ IrmAt({"accept", "ask"})
  \/ (IrmAt({"reset", "clear"}) /\ arg["irm"].then = "accept")
Offered   == arg["irm"].id

Given == 1..lastId

IdInv ==
  /\ lastId \in Nat /\ sndId \in {0} \union Given /\ rcvId \in {0} \union Given
  /\ mine \subseteq Given /\ joined \subseteq Given
  /\ Accepting \/ IrmAt({"store"}) => Offered \in Given
  /\ \A kind \in {"sendstop", "receive", "receivestop"} :
       \A j : Has(toServer, kind, j) => j \in Given
  /\ \A kind \in {"send", "sendstop", "receive", "receivestop", "notify"} :
       \A j : Has(toClient, kind, j) => j \in Given

Asked    == \E j : Has(toServer, "send", j)
Answered == \E j : Has(toClient, "send", j)

(* One transmission is asked for at a time, and nothing else done meanwhile. *)
AskedOnce ==
  /\ Once(toServer, "send") /\ \A j : Has(toServer, "send", j) => j = 0
  /\ Once(toClient, "send")
  /\ \A i, j : Has(toClient, "send", i) /\ Has(toClient, "send", j) => i = j
  /\ ~(Asked /\ Answered)
  /\ Asked \/ Answered => Quiet /\ state = "transmitting" /\ sndId = 0
  /\ SentTo(toServer, sndChannel) /\ SentTo(toClient, sndChannel)

(* What answers and stops say of the server. *)
AnswersKnow ==
  /\ \A j : Has(toClient, "send", j) => j \in mine /\ ~Has(toServer, "sendstop", j)
  /\ \A j : Has(toClient, "sendstop", j) => j \notin mine

(* Each medium the server holds is the session's, or its answer or its stop  *)
(* is under way, ...                                                         *)
MineInv ==
  \A j \in mine : \/ state = "transmitting" /\ ~InReset /\ sndId = j
                  \/ Has(toServer, "sendstop", j) \/ Has(toClient, "send", j)

(* ... and the other way round. *)
KnownInv ==
  /\ IrmAt({"sndbegin"}) => sndId # 0
  /\ UiAt({"state", "request"}) => sndId = 0
  /\ state = "transmitting" /\ ~InReset /\ ~UiAt({"request"}) =>
       IF sndId = 0 THEN Asked \/ Answered
                    ELSE sndId \in mine \/ Has(toClient, "sendstop", sndId)

SendInv == AskedOnce /\ AnswersKnow /\ MineInv /\ KnownInv

(* Nothing has been done about a medium yet. *)
Untouched(j) ==
  /\ j \notin joined /\ rcvId # j
  /\ \A kind \in {"receive", "receivestop"} : ~Has(toServer, kind, j)
  /\ \A kind \in {"receive", "receivestop"} : ~Has(toClient, kind, j)

(* What has been offered and not yet asked for is new. *)
OffersInv ==
  /\ Once(toClient, "notify")
  /\ \A j : Has(toClient, "notify", j) => Untouched(j)
  /\ Accepting => Untouched(Offered)
  /\ IrmAt({"accept", "ask"}) => rcvId = 0
  /\ Accepting \/ IrmAt({"store"}) => ~Has(toClient, "notify", Offered)

(* A medium is asked for once, before the server sends it, and not again     *)
(* after a stop.                                                             *)
RequestsInv ==
  /\ ReceiveFirst(toServer)
  /\ \A j : Has(toServer, "receive", j) => j \notin joined
  /\ \A j : Has(toClient, "receivestop", j) => j \notin joined /\ ~Has(toServer, "receive", j)

(* The session stands for the reception of this medium. *)
Receives(j) ==
  state = "receiving" /\ ~InReset /\ (IF IrmAt({"store"}) THEN Offered = j ELSE rcvId = j)

(* Each medium the server sends, or is asked for, is the session's, or its   *)
(* stop is under way to the server.                                          *)
JoinedInv ==
  \A j : j \in joined \/ Has(toServer, "receive", j)
           => Receives(j) \/ Has(toServer, "receivestop", j)

ReceiveInv == OffersInv /\ RequestsInv /\ JoinedInv

Kind == {"send", "sendstop", "receive", "receivestop", "notify"}

LEMMA MessageType ==
  /\ \A kind \in Kind, id \in Nat, c \in Channels \union {None} :
       [kind |-> kind, id |-> id, channel |-> c] \in Msg
  /\ \A kind \in Kind, id \in Nat : Message(kind, id) \in Msg
  /\ \A m \in Msg, id \in Nat : [m EXCEPT !.id = id] \in Msg
  /\ \A m \in Msg : m.kind \in Kind /\ m.id \in Nat /\ m.channel \in Channels \union {None}
  BY DEF Msg, Message, Kind

LEMMA TailType ==
  ASSUME NEW q \in Seq(Msg), q # <<>>
  PROVE  Head(q) \in Msg /\ Tail(q) \in Seq(Msg)
  BY HeadTailProperties

LEMMA AppendType ==
  ASSUME NEW q \in Seq(Msg), NEW m \in Msg
  PROVE  Append(q, m) \in Seq(Msg)
  BY AppendProperties

(* What is known of a connection when a message is added at its end, ...     *)
Added(q, r, kind, id, channel) ==
  /\ \A k, j : Has(r, k, j) <=> Has(q, k, j) \/ (k = kind /\ j = id)
  /\ \A k : Once(q, k) /\ (k = kind => ~Has(q, k, id)) => Once(r, k)
  /\ ReceiveFirst(q)
       /\ (kind = "receive" => ~Has(q, "receive", id) /\ ~Has(q, "receivestop", id))
     => ReceiveFirst(r)
  /\ \A c : SentTo(q, c) /\ (kind = "send" => channel = c) => SentTo(r, c)

(* ... and when the first is taken. *)
Removed(q, r, kind, id, channel) ==
  /\ \A k, j : Has(q, k, j) <=> Has(r, k, j) \/ (k = kind /\ j = id)
  /\ \A k : Once(q, k) => Once(r, k) /\ (k = kind => ~Has(r, k, id))
  /\ ReceiveFirst(q) =>
       ReceiveFirst(r) /\ (kind \in {"receive", "receivestop"} => ~Has(r, "receive", id))
  /\ \A c : SentTo(q, c) => SentTo(r, c) /\ (kind = "send" => channel = c)

LEMMA AppendAdds ==
  ASSUME NEW q \in Seq(Msg), NEW m \in Msg
  PROVE  Added(q, Append(q, m), m.kind, m.id, m.channel)
<1> DEFINE r == Append(q, m)
<1>1. /\ Len(q) \in Nat /\ Len(r) = Len(q) + 1 /\ r[Len(r)] = m
      /\ \A n \in 1..Len(q) : r[n] = q[n]
  BY AppendProperties, LenProperties
<1> HIDE DEF r
<1>2. \A n \in 1..Len(r) : n \in 1..Len(q) \/ n = Len(q) + 1
  BY <1>1
<1>3. 1..Len(q) \subseteq 1..Len(r) /\ Len(r) \in 1..Len(r)
  BY <1>1
<1>4. \A k, j : Has(r, k, j) <=> Has(q, k, j) \/ (k = m.kind /\ j = m.id)
  BY <1>1, <1>2, <1>3 DEF Has
<1>5. ASSUME NEW k, Once(q, k), k = m.kind => ~Has(q, k, m.id)
      PROVE  Once(r, k)
  BY <1>1, <1>2, <1>5 DEF Once, Has
<1>6. ASSUME ReceiveFirst(q),
             m.kind = "receive" => ~Has(q, "receive", m.id) /\ ~Has(q, "receivestop", m.id)
      PROVE  ReceiveFirst(r)
  BY <1>1, <1>2, <1>6 DEF ReceiveFirst, Has
<1>7. ASSUME NEW c, SentTo(q, c), m.kind = "send" => m.channel = c
      PROVE  SentTo(r, c)
  BY <1>1, <1>2, <1>7 DEF SentTo
<1> QED BY <1>4, <1>5, <1>6, <1>7 DEF Added, r

LEMMA TailRemoves ==
  ASSUME NEW q \in Seq(Msg), q # <<>>
  PROVE  Removed(q, Tail(q), Head(q).kind, Head(q).id, Head(q).channel)
<1> DEFINE r == Tail(q)
           m == Head(q)
<1>1. /\ Len(q) \in Nat \ {0} /\ Len(r) = Len(q) - 1 /\ m = q[1]
      /\ \A n \in 1..Len(r) : r[n] = q[n + 1]
  <2>1. Len(q) \in Nat /\ Len(q) # 0
    BY EmptySeq, LenProperties
  <2>2. Len(r) = Len(q) - 1 /\ m = q[1] /\ \A n \in 1..Len(r) : r[n] = q[n + 1]
    BY HeadTailProperties
  <2> QED BY <2>1, <2>2
<1> HIDE DEF r, m
<1>2. 1 \in 1..Len(q) /\ \A n \in 1..Len(r) : n \in Nat /\ n + 1 \in 1..Len(q) /\ 1 < n + 1
  BY <1>1
<1>3. \A n \in 1..Len(q) : n = 1 \/ (n - 1 \in 1..Len(r) /\ r[n - 1] = q[n])
  BY <1>1
<1>4. \A k, j : Has(q, k, j) <=> Has(r, k, j) \/ (k = m.kind /\ j = m.id)
  BY <1>1, <1>2, <1>3 DEF Has
<1>5. ASSUME NEW k, Once(q, k)
      PROVE  Once(r, k) /\ (k = m.kind => ~Has(r, k, m.id))
  <2>1. \A a, b \in 1..Len(r) : a < b => a + 1 < b + 1
    BY <1>2
  <2>2. Once(r, k)
    BY <1>1, <1>2, <1>5, <2>1 DEF Once
  <2>3. k = m.kind => ~Has(r, k, m.id)
    BY <1>1, <1>2, <1>5 DEF Once, Has
  <2> QED BY <2>2, <2>3
<1>6. ASSUME ReceiveFirst(q)
      PROVE  ReceiveFirst(r)
             /\ (m.kind \in {"receive", "receivestop"} => ~Has(r, "receive", m.id))
  <2>1. \A a, b \in 1..Len(r) : a < b => a + 1 < b + 1
    BY <1>2
  <2>2. ReceiveFirst(r)
    BY <1>1, <1>2, <1>6, <2>1 DEF ReceiveFirst
  <2>3. m.kind \in {"receive", "receivestop"} => ~Has(r, "receive", m.id)
    BY <1>1, <1>2, <1>6 DEF ReceiveFirst, Has
  <2> QED BY <2>2, <2>3
<1>7. ASSUME NEW c, SentTo(q, c)
      PROVE  SentTo(r, c) /\ (m.kind = "send" => m.channel = c)
  BY <1>1, <1>2, <1>7 DEF SentTo
<1> QED BY <1>4, <1>5, <1>6, <1>7 DEF Removed, r, m

LEMMA NoneSent ==
  ASSUME NEW q, \A j : ~Has(q, "send", j)
  PROVE  \A c : SentTo(q, c)
  BY DEF Has, SentTo

-----------------------------------------------------------------------------
(* Types. *)

LEMMA TypeStep == LooseType /\ [Next]_vars => LooseType'
<1> SUFFICES ASSUME LooseType, [Next]_vars PROVE LooseType'
  OBVIOUS
<1> USE SessionAssumption DEF SessionAssumption, LooseType, Place, Task, Threads,
           session, threads, server, counts
<1>1. CASE CancelTransmission
  <2>1. Append(toServer, Message("sendstop", sndId)) \in Seq(Msg)
    BY MessageType, AppendType DEF Kind
  <2> QED BY <1>1, <2>1 DEF CancelTransmission, Goto, GoReset, Request
<1>2. CASE CancelReception
  <2>1. Append(toServer, Message("receivestop", rcvId)) \in Seq(Msg)
    BY MessageType, AppendType DEF Kind
  <2> QED BY <1>2, <2>1 DEF CancelReception, Goto, GoReset, Request
<1>3. ASSUME NEW c \in Channels, BeginTransmission(c) PROVE LooseType'
  BY <1>3 DEF BeginTransmission, Free, GoReset, Goto
<1>4. CASE SetTransmitting
  BY <1>4 DEF SetTransmitting, Goto
<1>5. CASE RequestMediaSend
  <2>1. Append(toServer, [kind |-> "send", id |-> 0, channel |-> arg["ui"].channel])
          \in Seq(Msg)
    BY MessageType, AppendType DEF Kind
  <2> QED BY <1>5, <2>1 DEF RequestMediaSend, Goto
<1>6. ASSUME NEW t \in Threads, ResetEngine(t) PROVE LooseType'
  BY <1>6 DEF ResetEngine, Goto, Off
<1>7. ASSUME NEW t \in Threads, ResetSession(t) PROVE LooseType'
  BY <1>7 DEF ResetSession, Goto
<1>8. CASE OnMediaNotify
  <2>1. Head(toClient) \in Msg /\ Head(toClient).id \in Nat /\ Tail(toClient) \in Seq(Msg)
    BY <1>8, TailType, MessageType DEF OnMediaNotify, Take
  <2> QED BY <1>8, <2>1 DEF OnMediaNotify, Take, GoReset, Goto
<1>9. CASE SetReceiving
  BY <1>9 DEF SetReceiving, Goto
<1>10. CASE RequestMediaReceive
  <2>1. Append(toServer, Message("receive", arg["irm"].id)) \in Seq(Msg)
    BY MessageType, AppendType DEF Kind
  <2> QED BY <1>10, <2>1 DEF RequestMediaReceive, Goto, Request
<1>11. CASE StoreReception
  BY <1>11 DEF StoreReception, Goto
<1>12. CASE OnMediaReceive
  <2>1. Head(toClient) \in Msg /\ Head(toClient).id \in Nat /\ Tail(toClient) \in Seq(Msg)
    BY <1>12, TailType, MessageType DEF OnMediaReceive, Take
  <2> QED BY <1>12, <2>1 DEF OnMediaReceive, Take, GoReset, Goto
<1>13. ASSUME NEW ok \in BOOLEAN, BeginReceive(ok) PROVE LooseType'
  BY <1>13 DEF BeginReceive, Goto
<1>14. CASE OnMediaReceiveStop
  <2>1. Head(toClient) \in Msg /\ Head(toClient).id \in Nat /\ Tail(toClient) \in Seq(Msg)
    BY <1>14, TailType, MessageType DEF OnMediaReceiveStop, Take
  <2> QED BY <1>14, <2>1 DEF OnMediaReceiveStop, Take, GoReset, Goto
<1>15. CASE OnMediaSend
  <2>1. Head(toClient) \in Msg /\ Head(toClient).id \in Nat /\ Tail(toClient) \in Seq(Msg)
    BY <1>15, TailType, MessageType DEF OnMediaSend, Take
  <2> QED BY <1>15, <2>1 DEF OnMediaSend, Take, GoReset, Goto
<1>16. ASSUME NEW ok \in BOOLEAN, BeginSend(ok) PROVE LooseType'
  <2>1. \/ /\ engine' = [mode |-> "snd", id |-> sndId, ended |-> FALSE]
           /\ Goto("irm", "idle") /\ UNCHANGED <<arg, toServer>>
        \/ /\ Request("sendstop", sndId) /\ GoReset("irm", "idle", 0, None)
           /\ UNCHANGED engine
    BY <1>16, Zenon DEF BeginSend
  <2>2. Append(toServer, Message("sendstop", sndId)) \in Seq(Msg)
    BY MessageType, AppendType DEF Kind
  <2>3. UNCHANGED <<state, rcvId, sndId, sndChannel, toClient, server, counts>>
    BY <1>16 DEF BeginSend
  <2>4. CASE engine' = [mode |-> "snd", id |-> sndId, ended |-> FALSE] /\ Goto("irm", "idle")
             /\ UNCHANGED <<arg, toServer>>
    BY <2>3, <2>4 DEF Goto
  <2>5. CASE Request("sendstop", sndId) /\ GoReset("irm", "idle", 0, None)
          /\ UNCHANGED engine
    BY <2>2, <2>3, <2>5 DEF Goto, GoReset, Request
  <2> QED BY <2>1, <2>4, <2>5
<1>17. CASE OnMediaSendStop
  <2>1. Head(toClient) \in Msg /\ Head(toClient).id \in Nat /\ Tail(toClient) \in Seq(Msg)
    BY <1>17, TailType, MessageType DEF OnMediaSendStop, Take
  <2> QED BY <1>17, <2>1 DEF OnMediaSendStop, Take, GoReset, Goto
<1>18. CASE TransferEnds
  <2>1. /\ Append(toServer, Message("sendstop", sndId)) \in Seq(Msg)
        /\ Append(toServer, Message("receivestop", rcvId)) \in Seq(Msg)
    BY MessageType, AppendType DEF Kind
  <2> QED BY <1>18, <2>1 DEF TransferEnds, Request
<1>19. CASE ServeSend
  <2>1. Head(toServer) \in Msg /\ Head(toServer).id \in Nat /\ Tail(toServer) \in Seq(Msg)
    BY <1>19, TailType, MessageType DEF ServeSend, Serve
  <2>2. Append(toClient, [Head(toServer) EXCEPT !.id = lastId'])
          \in Seq(Msg) /\ lastId' \in Nat
    <3>1. lastId' = lastId + 1 /\ lastId' \in Nat
      BY <1>19 DEF ServeSend
    <3>2. [Head(toServer) EXCEPT !.id = lastId'] \in Msg
      BY <2>1, <3>1, MessageType
    <3> QED BY <3>1, <3>2, AppendType
  <2> QED BY <1>19, <2>1, <2>2 DEF ServeSend, Serve
<1>20. CASE ServeSendStop
  <2>1. Head(toServer) \in Msg /\ Head(toServer).id \in Nat /\ Tail(toServer) \in Seq(Msg)
    BY <1>20, TailType, MessageType DEF ServeSendStop, Serve
  <2>2. Append(toClient, Head(toServer)) \in Seq(Msg)
    BY <2>1, AppendType
  <2> QED BY <1>20, <2>1, <2>2 DEF ServeSendStop, Serve
<1>21. CASE ServeReceive
  <2>1. Head(toServer) \in Msg /\ Head(toServer).id \in Nat /\ Tail(toServer) \in Seq(Msg)
    BY <1>21, TailType, MessageType DEF ServeReceive, Serve
  <2>2. /\ Append(toClient, Message("receivestop", Head(toServer).id)) \in Seq(Msg)
        /\ Append(toClient, Head(toServer)) \in Seq(Msg)
    BY <2>1, MessageType, AppendType DEF Kind
  <2> QED BY <1>21, <2>1, <2>2 DEF ServeReceive, Serve
<1>22. CASE ServeReceiveStop
  <2>1. Head(toServer) \in Msg /\ Head(toServer).id \in Nat /\ Tail(toServer) \in Seq(Msg)
    BY <1>22, TailType, MessageType DEF ServeReceiveStop, Serve
  <2>2. Append(toClient, Head(toServer)) \in Seq(Msg)
    BY <2>1, AppendType
  <2> QED BY <1>22, <2>1, <2>2 DEF ServeReceiveStop, Serve
<1>23. CASE Offer
  <2>1. lastId' \in Nat /\ Append(toClient, Message("notify", lastId')) \in Seq(Msg)
    BY <1>23, MessageType, AppendType DEF Kind, Offer
  <2> QED BY <1>23, <2>1 DEF Offer
<1>24. ASSUME NEW id \in Ids, Withdraw(id) PROVE LooseType'
  <2>1. Append(toClient, Message("receivestop", id)) \in Seq(Msg)
    BY MessageType, AppendType DEF Kind, Ids
  <2> QED BY <1>24, <2>1 DEF Withdraw
<1>25. CASE UNCHANGED vars
  BY <1>25 DEF vars
<1> QED
  BY <1>1, <1>2, <1>3, <1>4, <1>5, <1>6, <1>7, <1>8, <1>9, <1>10, <1>11, <1>12, <1>13, <1>14,
     <1>15, <1>16, <1>17, <1>18, <1>19, <1>20, <1>21, <1>22, <1>23, <1>24, <1>25
     DEF Next, User, UiSteps, Irm, Server, Reset

-----------------------------------------------------------------------------
(* The engine. *)

LEMMA ControlStep ==
  InTurn /\ LooseType /\ ControlInv /\ [Next]_vars => ControlInv'
<1> SUFFICES ASSUME InTurn, LooseType, ControlInv, [Next]_vars PROVE ControlInv'
  OBVIOUS
<1> USE DEF InTurn, LooseType, Place, Task, ControlInv, IrmAt, UiAt, Threads, threads
<1>1. CASE CancelTransmission
  BY <1>1 DEF CancelTransmission, Free, Request, GoReset, Goto
<1>2. CASE CancelReception
  BY <1>2 DEF CancelReception, Free, Request, GoReset, Goto
<1>3. ASSUME NEW c \in Channels, BeginTransmission(c) PROVE ControlInv'
  BY <1>3 DEF BeginTransmission, Free, GoReset, Goto
<1>4. CASE SetTransmitting
  BY <1>4 DEF SetTransmitting, Goto
<1>5. CASE RequestMediaSend
  BY <1>5 DEF RequestMediaSend, Goto
<1>6. ASSUME NEW t \in Threads, ResetEngine(t) PROVE ControlInv'
  BY <1>6 DEF ResetEngine, Goto, Off
<1>7. ASSUME NEW t \in Threads, ResetSession(t) PROVE ControlInv'
  BY <1>7 DEF ResetSession, Goto
<1>8. CASE OnMediaNotify
  BY <1>8 DEF OnMediaNotify, Take, Free, GoReset, Goto
<1>9. CASE SetReceiving
  BY <1>9 DEF SetReceiving, Goto
<1>10. CASE RequestMediaReceive
  BY <1>10 DEF RequestMediaReceive, Goto, Request
<1>11. CASE StoreReception
  BY <1>11 DEF StoreReception, Goto
<1>12. CASE OnMediaReceive
  BY <1>12 DEF OnMediaReceive, Take, Free, Goto
<1>13. ASSUME NEW ok \in BOOLEAN, BeginReceive(ok) PROVE ControlInv'
  BY <1>13 DEF BeginReceive, Goto
<1>14. CASE OnMediaReceiveStop
  BY <1>14 DEF OnMediaReceiveStop, Take, Free, GoReset, Goto
<1>15. CASE OnMediaSend
  BY <1>15 DEF OnMediaSend, Take, Free, Goto
<1>16. ASSUME NEW ok \in BOOLEAN, BeginSend(ok) PROVE ControlInv'
  BY <1>16 DEF BeginSend, Goto, GoReset, Request
<1>17. CASE OnMediaSendStop
  BY <1>17 DEF OnMediaSendStop, Take, Free, GoReset, Goto
<1>18. CASE TransferEnds
  BY <1>18 DEF TransferEnds, Request
<1>19. CASE ServeSend
  BY <1>19 DEF ServeSend, Serve
<1>20. CASE ServeSendStop
  BY <1>20 DEF ServeSendStop, Serve
<1>21. CASE ServeReceive
  BY <1>21 DEF ServeReceive, Serve
<1>22. CASE ServeReceiveStop
  BY <1>22 DEF ServeReceiveStop, Serve
<1>23. CASE Offer
  BY <1>23 DEF Offer
<1>24. ASSUME NEW id \in Ids, Withdraw(id) PROVE ControlInv'
  BY <1>24 DEF Withdraw
<1>25. CASE UNCHANGED vars
  BY <1>25 DEF vars
<1> QED
  BY <1>1, <1>2, <1>3, <1>4, <1>5, <1>6, <1>7, <1>8, <1>9, <1>10, <1>11, <1>12, <1>13, <1>14,
     <1>15, <1>16, <1>17, <1>18, <1>19, <1>20, <1>21, <1>22, <1>23, <1>24, <1>25
     DEF Next, User, UiSteps, Irm, Server, Reset

LEMMA EngineStep ==
  InTurn /\ LooseType /\ ControlInv /\ EngineInv /\ [Next]_vars => EngineInv'
<1> SUFFICES ASSUME InTurn, LooseType, ControlInv, EngineInv, [Next]_vars PROVE EngineInv'
  OBVIOUS
<1> USE DEF InTurn, LooseType, Place, Task, ControlInv, EngineInv, IrmAt, UiAt,
           Threads, Off, session, threads
<1>1. CASE CancelTransmission
  BY <1>1 DEF CancelTransmission, Free, Request, GoReset, Goto
<1>2. CASE CancelReception
  BY <1>2 DEF CancelReception, Free, Request, GoReset, Goto
<1>3. ASSUME NEW c \in Channels, BeginTransmission(c) PROVE EngineInv'
  BY <1>3 DEF BeginTransmission, Free, GoReset, Goto
<1>4. CASE SetTransmitting
  BY <1>4 DEF SetTransmitting, Goto
<1>5. CASE RequestMediaSend
  BY <1>5 DEF RequestMediaSend, Goto
<1>6. ASSUME NEW t \in Threads, ResetEngine(t) PROVE EngineInv'
  BY <1>6 DEF ResetEngine, Goto, Off
<1>7. ASSUME NEW t \in Threads, ResetSession(t) PROVE EngineInv'
  BY <1>7 DEF ResetSession, Goto
<1>8. CASE OnMediaNotify
  BY <1>8 DEF OnMediaNotify, Take, Free, GoReset, Goto
<1>9. CASE SetReceiving
  BY <1>9 DEF SetReceiving, Goto
<1>10. CASE RequestMediaReceive
  BY <1>10 DEF RequestMediaReceive, Goto, Request
<1>11. CASE StoreReception
  BY <1>11 DEF StoreReception, Goto
<1>12. CASE OnMediaReceive
  BY <1>12 DEF OnMediaReceive, Take, Free, Goto
<1>13. ASSUME NEW ok \in BOOLEAN, BeginReceive(ok) PROVE EngineInv'
  BY <1>13 DEF BeginReceive, Goto
<1>14. CASE OnMediaReceiveStop
  BY <1>14 DEF OnMediaReceiveStop, Take, Free, GoReset, Goto
<1>15. CASE OnMediaSend
  BY <1>15 DEF OnMediaSend, Take, Free, Goto
<1>16. ASSUME NEW ok \in BOOLEAN, BeginSend(ok) PROVE EngineInv'
  BY <1>16 DEF BeginSend, Goto, GoReset, Request
<1>17. CASE OnMediaSendStop
  BY <1>17 DEF OnMediaSendStop, Take, Free, GoReset, Goto
<1>18. CASE TransferEnds
  BY <1>18 DEF TransferEnds, Request
<1>19. CASE ServeSend
  BY <1>19 DEF ServeSend, Serve
<1>20. CASE ServeSendStop
  BY <1>20 DEF ServeSendStop, Serve
<1>21. CASE ServeReceive
  BY <1>21 DEF ServeReceive, Serve
<1>22. CASE ServeReceiveStop
  BY <1>22 DEF ServeReceiveStop, Serve
<1>23. CASE Offer
  BY <1>23 DEF Offer
<1>24. ASSUME NEW id \in Ids, Withdraw(id) PROVE EngineInv'
  BY <1>24 DEF Withdraw
<1>25. CASE UNCHANGED vars
  BY <1>25 DEF vars
<1> QED
  BY <1>1, <1>2, <1>3, <1>4, <1>5, <1>6, <1>7, <1>8, <1>9, <1>10, <1>11, <1>12, <1>13, <1>14,
     <1>15, <1>16, <1>17, <1>18, <1>19, <1>20, <1>21, <1>22, <1>23, <1>24, <1>25
     DEF Next, User, UiSteps, Irm, Server, Reset
-----------------------------------------------------------------------------
(* What the handlers do to the connections. *)

LEMMA TakeRemoves ==
  ASSUME LooseType, NEW kind, Take(kind)
  PROVE  Removed(toClient, toClient', kind, Head(toClient).id, Head(toClient).channel)
<1>1. toClient \in Seq(Msg)
  BY DEF LooseType
<1> QED BY <1>1, TailRemoves DEF Take

LEMMA ServeRemoves ==
  ASSUME LooseType, NEW kind, Serve(kind)
  PROVE  /\ Removed(toServer, toServer', kind, Head(toServer).id, Head(toServer).channel)
         /\ Head(toServer) \in Msg /\ Head(toServer).kind = kind
<1>1. toServer \in Seq(Msg)
  BY DEF LooseType
<1> QED BY <1>1, TailRemoves, TailType DEF Serve

LEMMA RequestAdds ==
  ASSUME LooseType, NEW kind \in Kind, NEW id \in Nat, Request(kind, id)
  PROVE  IF id = 0 THEN toServer' = toServer ELSE Added(toServer, toServer', kind, id, None)
<1>1. toServer \in Seq(Msg) /\ Message(kind, id) \in Msg
  BY MessageType DEF LooseType
<1>2. /\ Message(kind, id).kind = kind /\ Message(kind, id).id = id
      /\ Message(kind, id).channel = None
  BY DEF Message
<1> QED BY <1>1, <1>2, AppendAdds DEF Request

LEMMA AnswerAdds ==
  ASSUME LooseType, NEW m \in Msg, toClient' = Append(toClient, m)
  PROVE  Added(toClient, toClient', m.kind, m.id, m.channel)
<1>1. toClient \in Seq(Msg)
  BY DEF LooseType
<1> QED BY <1>1, AppendAdds

LEMMA MessageParts ==
  \A kind, id : /\ Message(kind, id).kind = kind /\ Message(kind, id).id = id
                /\ Message(kind, id).channel = None
  BY DEF Message

LEMMA SendAdds ==
  ASSUME LooseType, RequestMediaSend
  PROVE  Added(toServer, toServer', "send", 0, sndChannel')
<1> DEFINE m == [kind |-> "send", id |-> 0, channel |-> arg["ui"].channel]
<1>1. toServer \in Seq(Msg) /\ m \in Msg
  BY MessageType DEF LooseType, Task, Kind, Threads
<1>2. toServer' = Append(toServer, m) /\ sndChannel' = m.channel
  BY DEF RequestMediaSend
<1> QED BY <1>1, <1>2, AppendAdds

LEMMA ServeSendAnswers ==
  ASSUME LooseType, ServeSend
  PROVE  Added(toClient, toClient', "send", lastId', Head(toServer).channel)
<1> DEFINE m == [Head(toServer) EXCEPT !.id = lastId']
<1>1. Head(toServer) \in Msg /\ Head(toServer).kind = "send" /\ lastId' \in Nat
  BY ServeRemoves DEF ServeSend, LooseType
<1>2. m \in Msg /\ m.kind = "send" /\ m.id = lastId' /\ m.channel = Head(toServer).channel
  BY <1>1, MessageType DEF Msg
<1>3. toClient' = Append(toClient, m)
  BY DEF ServeSend
<1> QED BY <1>2, <1>3, AnswerAdds

LEMMA ServeReceiveAnswers ==
  ASSUME LooseType, ServeReceive
  PROVE  Added(toClient, toClient',
               IF Head(toServer).id \in offered THEN "receive" ELSE "receivestop",
               Head(toServer).id,
               IF Head(toServer).id \in offered THEN Head(toServer).channel ELSE None)
<1>1. Head(toServer) \in Msg /\ Head(toServer).kind = "receive" /\ Head(toServer).id \in Nat
  BY ServeRemoves, MessageType DEF ServeReceive
<1>2. Message("receivestop", Head(toServer).id) \in Msg
  BY <1>1, MessageType DEF Kind
<1> QED BY <1>1, <1>2, AnswerAdds, MessageParts DEF ServeReceive


-----------------------------------------------------------------------------
(* Media have been given out. *)

LEMMA IdStep ==
  Patient /\ LooseType /\ ControlInv /\ IdInv /\ [Next]_vars => IdInv'
<1> SUFFICES ASSUME Patient, LooseType, ControlInv, IdInv, [Next]_vars PROVE IdInv'
  OBVIOUS
<1>0. pc \in [Threads -> Place] /\ arg \in [Threads -> Task]
  BY DEF LooseType
<1> USE <1>0 DEF Patient, InTurn, ControlInv, IdInv, Accepting, Offered, Given,
           IrmAt, UiAt, Threads, Added, Removed,
           session, threads, server
<1>1. CASE CancelTransmission
  <2>1. IF sndId = 0 THEN toServer' = toServer
        ELSE Added(toServer, toServer', "sendstop", sndId, None)
    BY <1>1, RequestAdds DEF CancelTransmission, LooseType, Task, Kind, Threads
  <2> QED BY <1>1, <2>1 DEF CancelTransmission, Free, Request, GoReset, Goto
<1>2. CASE CancelReception
  <2>1. IF rcvId = 0 THEN toServer' = toServer
        ELSE Added(toServer, toServer', "receivestop", rcvId, None)
    BY <1>2, RequestAdds DEF CancelReception, LooseType, Task, Kind, Threads
  <2> QED BY <1>2, <2>1 DEF CancelReception, Free, Request, GoReset, Goto
<1>3. ASSUME NEW c \in Channels, BeginTransmission(c) PROVE IdInv'
  BY <1>3 DEF BeginTransmission, Free, GoReset, Goto
<1>4. CASE SetTransmitting
  BY <1>4 DEF SetTransmitting, Goto
<1>5. CASE RequestMediaSend
  <2>1. Added(toServer, toServer', "send", 0, sndChannel')
    BY <1>5, SendAdds
  <2> QED BY <1>5, <2>1 DEF RequestMediaSend, Goto
<1>6. ASSUME NEW t \in Threads, ResetEngine(t) PROVE IdInv'
  BY <1>6 DEF ResetEngine, Goto, Off
<1>7. ASSUME NEW t \in Threads, ResetSession(t) PROVE IdInv'
  BY <1>7 DEF ResetSession, Goto
<1>8. CASE OnMediaNotify
  <2>1. Removed(toClient, toClient', "notify", Head(toClient).id, Head(toClient).channel)
    BY <1>8, TakeRemoves DEF OnMediaNotify
  <2> QED BY <1>8, <2>1 DEF OnMediaNotify, Take, Free, GoReset, Goto
<1>9. CASE SetReceiving
  BY <1>9 DEF SetReceiving, Goto
<1>10. CASE RequestMediaReceive
  <2>1. IF arg["irm"].id = 0 THEN toServer' = toServer
        ELSE Added(toServer, toServer', "receive", arg["irm"].id, None)
    BY <1>10, RequestAdds DEF RequestMediaReceive, LooseType, Task, Kind, Threads
  <2> QED BY <1>10, <2>1 DEF RequestMediaReceive, Goto, Request
<1>11. CASE StoreReception
  BY <1>11 DEF StoreReception, Goto
<1>12. CASE OnMediaReceive
  <2>1. Removed(toClient, toClient', "receive", Head(toClient).id, Head(toClient).channel)
    BY <1>12, TakeRemoves DEF OnMediaReceive
  <2> QED BY <1>12, <2>1 DEF OnMediaReceive, Take, Free, Goto
<1>13. ASSUME NEW ok \in BOOLEAN, BeginReceive(ok) PROVE IdInv'
  BY <1>13 DEF BeginReceive, Goto
<1>14. CASE OnMediaReceiveStop
  <2>1. Removed(toClient, toClient', "receivestop", Head(toClient).id, Head(toClient).channel)
    BY <1>14, TakeRemoves DEF OnMediaReceiveStop
  <2> QED BY <1>14, <2>1 DEF OnMediaReceiveStop, Take, Free, GoReset, Goto
<1>15. CASE OnMediaSend
  <2>1. Removed(toClient, toClient', "send", Head(toClient).id, Head(toClient).channel)
    BY <1>15, TakeRemoves DEF OnMediaSend
  <2> QED BY <1>15, <2>1 DEF OnMediaSend, Take, Free, Goto
<1>16. ASSUME NEW ok \in BOOLEAN, BeginSend(ok) PROVE IdInv'
  <2>1. \/ UNCHANGED <<arg, toServer>> /\ pc' = [pc EXCEPT !["irm"] = "idle"]
        \/ Request("sendstop", sndId) /\ GoReset("irm", "idle", 0, None)
    BY <1>16, Zenon DEF BeginSend, Goto
  <2>2. Request("sendstop", sndId) =>
          IF sndId = 0 THEN toServer' = toServer
                       ELSE Added(toServer, toServer', "sendstop", sndId, None)
    BY RequestAdds DEF LooseType, Kind
  <2>3. pc["irm"] = "sndbegin"
          /\ UNCHANGED <<state, rcvId, sndId, sndChannel, toClient, server>>
    BY <1>16 DEF BeginSend
  <2> QED BY <2>1, <2>2, <2>3 DEF Goto, GoReset
<1>17. CASE OnMediaSendStop
  <2>1. Removed(toClient, toClient', "sendstop", Head(toClient).id, Head(toClient).channel)
    BY <1>17, TakeRemoves DEF OnMediaSendStop
  <2> QED BY <1>17, <2>1 DEF OnMediaSendStop, Take, Free, GoReset, Goto
<1>18. CASE TransferEnds
  <2>1. /\ Request("sendstop", sndId) =>
             IF sndId = 0 THEN toServer' = toServer
                          ELSE Added(toServer, toServer', "sendstop", sndId, None)
        /\ Request("receivestop", rcvId) =>
             IF rcvId = 0 THEN toServer' = toServer
                          ELSE Added(toServer, toServer', "receivestop", rcvId, None)
    BY RequestAdds DEF LooseType, Kind
  <2> QED BY <1>18, <2>1 DEF TransferEnds, Request
<1>19. CASE ServeSend
  <2>1. /\ Removed(toServer, toServer', "send", Head(toServer).id, Head(toServer).channel)
        /\ Head(toServer) \in Msg /\ Head(toServer).kind = "send"
    BY <1>19, ServeRemoves DEF ServeSend
  <2>2. Added(toClient, toClient', "send", lastId', Head(toServer).channel)
    BY <1>19, ServeSendAnswers
  <2>3. lastId' = lastId + 1 /\ Given \subseteq Given' /\ lastId' \in Given' /\ lastId' \in Nat
    BY <1>19 DEF ServeSend
  <2>4. /\ mine' = mine \union {lastId'}
        /\ UNCHANGED <<session, threads, joined, offered>>
    BY <1>19 DEF ServeSend, Serve
  <2> HIDE DEF Given
  <2> QED BY <2>1, <2>2, <2>3, <2>4
<1>20. CASE ServeSendStop
  <2>1. /\ Removed(toServer, toServer', "sendstop",
                  Head(toServer).id, Head(toServer).channel)
        /\ Head(toServer) \in Msg /\ Head(toServer).kind = "sendstop"
    BY <1>20, ServeRemoves DEF ServeSendStop
  <2>2. Added(toClient, toClient', "sendstop", Head(toServer).id, Head(toServer).channel)
    BY <1>20, <2>1, AnswerAdds DEF ServeSendStop
  <2> QED BY <1>20, <2>1, <2>2 DEF ServeSendStop, Serve
<1>21. CASE ServeReceive
  <2>1. /\ Removed(toServer, toServer', "receive",
                  Head(toServer).id, Head(toServer).channel)
        /\ Head(toServer) \in Msg /\ Head(toServer).kind = "receive"
    BY <1>21, ServeRemoves DEF ServeReceive
  <2>2. Added(toClient, toClient',
              IF Head(toServer).id \in offered THEN "receive" ELSE "receivestop",
              Head(toServer).id,
              IF Head(toServer).id \in offered THEN Head(toServer).channel ELSE None)
    BY <1>21, ServeReceiveAnswers
  <2> QED BY <1>21, <2>1, <2>2 DEF ServeReceive, Serve
<1>22. CASE ServeReceiveStop
  <2>1. /\ Removed(toServer, toServer', "receivestop",
                  Head(toServer).id, Head(toServer).channel)
        /\ Head(toServer) \in Msg /\ Head(toServer).kind = "receivestop"
    BY <1>22, ServeRemoves DEF ServeReceiveStop
  <2>2. Added(toClient, toClient', "receivestop",
                  Head(toServer).id, Head(toServer).channel)
    BY <1>22, <2>1, AnswerAdds DEF ServeReceiveStop
  <2> QED BY <1>22, <2>1, <2>2 DEF ServeReceiveStop, Serve
<1>23. CASE Offer
  <2>1. lastId' \in Nat /\ Message("notify", lastId') \in Msg
    <3>1. lastId' = lastId + 1 /\ lastId' \in Nat
      BY <1>23 DEF Offer, LooseType
    <3> QED BY <3>1, MessageType DEF Kind
  <2>2. Added(toClient, toClient', "notify", lastId', None)
    BY <1>23, <2>1, AnswerAdds, MessageParts DEF Offer
  <2> QED BY <1>23, <2>1, <2>2 DEF Offer
<1>24. ASSUME NEW id \in Ids, Withdraw(id) PROVE IdInv'
  <2>1. Message("receivestop", id) \in Msg
    BY MessageType DEF Ids, Kind
  <2>2. id \in joined => Added(toClient, toClient', "receivestop", id, None)
    BY <1>24, <2>1, AnswerAdds, MessageParts DEF Withdraw
  <2> QED BY <1>24, <2>1, <2>2 DEF Withdraw
<1>25. CASE UNCHANGED vars
  BY <1>25 DEF vars
<1> QED
  BY <1>1, <1>2, <1>3, <1>4, <1>5, <1>6, <1>7, <1>8, <1>9, <1>10, <1>11, <1>12, <1>13, <1>14,
     <1>15, <1>16, <1>17, <1>18, <1>19, <1>20, <1>21, <1>22, <1>23, <1>24, <1>25
     DEF Next, User, UiSteps, Irm, Server, Reset

-----------------------------------------------------------------------------
(* What is sent. *)

LEMMA SendStep ==
  ASSUME Patient, LooseType, ControlInv, EngineInv, IdInv, SendInv, [Next]_vars
  PROVE  SendInv'
<1>0. pc \in [Threads -> Place] /\ arg \in [Threads -> Task]
  BY DEF LooseType
<1> USE <1>0, NoneSent DEF Patient, InTurn, ControlInv, EngineInv, IdInv, SendInv,
           AskedOnce, AnswersKnow,
           MineInv, KnownInv, Asked, Answered, Quiet, InReset, Given,
           IrmAt, UiAt, Threads, Added, Removed, session, threads, server
<1>1. CASE CancelTransmission
  <2>1. IF sndId = 0 THEN toServer' = toServer
        ELSE Added(toServer, toServer', "sendstop", sndId, None)
    BY <1>1, RequestAdds DEF CancelTransmission, LooseType, Task, Kind, Threads
  <2> QED BY <1>1, <2>1 DEF CancelTransmission, Free, Request, GoReset, Goto
<1>2. CASE CancelReception
  <2>1. IF rcvId = 0 THEN toServer' = toServer
        ELSE Added(toServer, toServer', "receivestop", rcvId, None)
    BY <1>2, RequestAdds DEF CancelReception, LooseType, Task, Kind, Threads
  <2> QED BY <1>2, <2>1 DEF CancelReception, Free, Request, GoReset, Goto
<1>3. ASSUME NEW c \in Channels, BeginTransmission(c) PROVE SendInv'
  BY <1>3 DEF BeginTransmission, Free, GoReset, Goto
<1>4. CASE SetTransmitting
  BY <1>4 DEF SetTransmitting, Goto
<1>5. CASE RequestMediaSend
  <2>1. Added(toServer, toServer', "send", 0, sndChannel')
    BY <1>5, SendAdds
  <2> QED BY <1>5, <2>1 DEF RequestMediaSend, Goto
<1>6. ASSUME NEW t \in Threads, ResetEngine(t) PROVE SendInv'
  BY <1>6 DEF ResetEngine, Goto, Off
<1>7. ASSUME NEW t \in Threads, ResetSession(t) PROVE SendInv'
  BY <1>7 DEF ResetSession, Goto
<1>8. CASE OnMediaNotify
  <2>1. Removed(toClient, toClient', "notify", Head(toClient).id, Head(toClient).channel)
    BY <1>8, TakeRemoves DEF OnMediaNotify
  <2> QED BY <1>8, <2>1 DEF OnMediaNotify, Take, Free, GoReset, Goto
<1>9. CASE SetReceiving
  BY <1>9 DEF SetReceiving, Goto
<1>10. CASE RequestMediaReceive
  <2>1. IF arg["irm"].id = 0 THEN toServer' = toServer
        ELSE Added(toServer, toServer', "receive", arg["irm"].id, None)
    BY <1>10, RequestAdds DEF RequestMediaReceive, LooseType, Task, Kind, Threads
  <2> QED BY <1>10, <2>1 DEF RequestMediaReceive, Goto, Request
<1>11. CASE StoreReception
  BY <1>11 DEF StoreReception, Goto
<1>12. CASE OnMediaReceive
  <2>1. Removed(toClient, toClient', "receive", Head(toClient).id, Head(toClient).channel)
    BY <1>12, TakeRemoves DEF OnMediaReceive
  <2> QED BY <1>12, <2>1 DEF OnMediaReceive, Take, Free, Goto
<1>13. ASSUME NEW ok \in BOOLEAN, BeginReceive(ok) PROVE SendInv'
  BY <1>13 DEF BeginReceive, Goto
<1>14. CASE OnMediaReceiveStop
  <2>1. Removed(toClient, toClient', "receivestop", Head(toClient).id, Head(toClient).channel)
    BY <1>14, TakeRemoves DEF OnMediaReceiveStop
  <2> QED BY <1>14, <2>1 DEF OnMediaReceiveStop, Take, Free, GoReset, Goto
<1>15. CASE OnMediaSend
  <2>1. Removed(toClient, toClient', "send", Head(toClient).id, Head(toClient).channel)
    BY <1>15, TakeRemoves DEF OnMediaSend
  <2> QED BY <1>15, <2>1 DEF OnMediaSend, Take, Free, Goto
<1>16. ASSUME NEW ok \in BOOLEAN, BeginSend(ok) PROVE SendInv'
  <2>1. \/ UNCHANGED <<arg, toServer>> /\ pc' = [pc EXCEPT !["irm"] = "idle"]
        \/ Request("sendstop", sndId) /\ GoReset("irm", "idle", 0, None)
    BY <1>16, Zenon DEF BeginSend, Goto
  <2>2. Request("sendstop", sndId) =>
          IF sndId = 0 THEN toServer' = toServer
                       ELSE Added(toServer, toServer', "sendstop", sndId, None)
    BY RequestAdds DEF LooseType, Kind
  <2>3. pc["irm"] = "sndbegin"
          /\ UNCHANGED <<state, rcvId, sndId, sndChannel, toClient, server>>
    BY <1>16 DEF BeginSend
  <2> QED BY <2>1, <2>2, <2>3 DEF Goto, GoReset
<1>17. CASE OnMediaSendStop
  <2>1. Removed(toClient, toClient', "sendstop", Head(toClient).id, Head(toClient).channel)
    BY <1>17, TakeRemoves DEF OnMediaSendStop
  <2>2. AskedOnce'
    BY <1>17, <2>1 DEF OnMediaSendStop, Take, Free, GoReset, Goto
  <2>3. AnswersKnow'
    BY <1>17, <2>1 DEF OnMediaSendStop, Take, Free, GoReset, Goto
  <2>4. MineInv'
    BY <1>17, <2>1 DEF OnMediaSendStop, Take, Free, GoReset, Goto
  <2>5. KnownInv'
    BY <1>17, <2>1 DEF OnMediaSendStop, Take, Free, GoReset, Goto
  <2> QED BY <2>2, <2>3, <2>4, <2>5
<1>18. CASE TransferEnds
  <2>1. /\ Request("sendstop", sndId) =>
             IF sndId = 0 THEN toServer' = toServer
                          ELSE Added(toServer, toServer', "sendstop", sndId, None)
        /\ Request("receivestop", rcvId) =>
             IF rcvId = 0 THEN toServer' = toServer
                          ELSE Added(toServer, toServer', "receivestop", rcvId, None)
    BY RequestAdds DEF LooseType, Kind
  <2> QED BY <1>18, <2>1 DEF TransferEnds, Request
<1>19. CASE ServeSend
  <2>1. /\ Removed(toServer, toServer', "send", Head(toServer).id, Head(toServer).channel)
        /\ Head(toServer) \in Msg /\ Head(toServer).kind = "send"
    BY <1>19, ServeRemoves DEF ServeSend
  <2>2. Added(toClient, toClient', "send", lastId', Head(toServer).channel)
    BY <1>19, ServeSendAnswers
  <2>3. /\ lastId' = lastId + 1 /\ lastId' \notin Given /\ lastId' # 0
        /\ mine' = mine \union {lastId'} /\ UNCHANGED <<session, threads, joined, offered>>
    BY <1>19 DEF ServeSend, Serve
  <2>4. AskedOnce'
    BY <2>1, <2>2, <2>3
  <2>5. AnswersKnow'
    BY <2>1, <2>2, <2>3
  <2>6. MineInv'
    BY <2>1, <2>2, <2>3
  <2>7. KnownInv'
    BY <2>1, <2>2, <2>3
  <2> QED BY <2>4, <2>5, <2>6, <2>7
<1>20. CASE ServeSendStop
  <2>1. /\ Removed(toServer, toServer', "sendstop",
                  Head(toServer).id, Head(toServer).channel)
        /\ Head(toServer) \in Msg /\ Head(toServer).kind = "sendstop"
    BY <1>20, ServeRemoves DEF ServeSendStop
  <2>2. Added(toClient, toClient', "sendstop", Head(toServer).id, Head(toServer).channel)
    BY <1>20, <2>1, AnswerAdds DEF ServeSendStop
  <2>3. AskedOnce'
    BY <1>20, <2>1, <2>2 DEF ServeSendStop, Serve
  <2>4. AnswersKnow'
    BY <1>20, <2>1, <2>2 DEF ServeSendStop, Serve
  <2>5. MineInv'
    BY <1>20, <2>1, <2>2 DEF ServeSendStop, Serve
  <2>6. KnownInv'
    BY <1>20, <2>1, <2>2 DEF ServeSendStop, Serve
  <2> QED BY <2>3, <2>4, <2>5, <2>6
<1>21. CASE ServeReceive
  <2>1. /\ Removed(toServer, toServer', "receive",
                  Head(toServer).id, Head(toServer).channel)
        /\ Head(toServer) \in Msg /\ Head(toServer).kind = "receive"
    BY <1>21, ServeRemoves DEF ServeReceive
  <2>2. Added(toClient, toClient',
              IF Head(toServer).id \in offered THEN "receive" ELSE "receivestop",
              Head(toServer).id,
              IF Head(toServer).id \in offered THEN Head(toServer).channel ELSE None)
    BY <1>21, ServeReceiveAnswers
  <2> QED BY <1>21, <2>1, <2>2 DEF ServeReceive, Serve
<1>22. CASE ServeReceiveStop
  <2>1. /\ Removed(toServer, toServer', "receivestop",
                  Head(toServer).id, Head(toServer).channel)
        /\ Head(toServer) \in Msg /\ Head(toServer).kind = "receivestop"
    BY <1>22, ServeRemoves DEF ServeReceiveStop
  <2>2. Added(toClient, toClient', "receivestop",
                  Head(toServer).id, Head(toServer).channel)
    BY <1>22, <2>1, AnswerAdds DEF ServeReceiveStop
  <2> QED BY <1>22, <2>1, <2>2 DEF ServeReceiveStop, Serve
<1>23. CASE Offer
  <2>1. lastId' \in Nat /\ Message("notify", lastId') \in Msg
    <3>1. lastId' = lastId + 1 /\ lastId' \in Nat
      BY <1>23 DEF Offer, LooseType
    <3> QED BY <3>1, MessageType DEF Kind
  <2>2. Added(toClient, toClient', "notify", lastId', None)
    BY <1>23, <2>1, AnswerAdds, MessageParts DEF Offer
  <2> QED BY <1>23, <2>1, <2>2 DEF Offer
<1>24. ASSUME NEW id \in Ids, Withdraw(id) PROVE SendInv'
  <2>1. Message("receivestop", id) \in Msg
    BY MessageType DEF Ids, Kind
  <2>2. id \in joined => Added(toClient, toClient', "receivestop", id, None)
    BY <1>24, <2>1, AnswerAdds, MessageParts DEF Withdraw
  <2> QED BY <1>24, <2>1, <2>2 DEF Withdraw
<1>25. CASE UNCHANGED vars
  BY <1>25 DEF vars
<1> QED
  BY <1>1, <1>2, <1>3, <1>4, <1>5, <1>6, <1>7, <1>8, <1>9, <1>10, <1>11, <1>12, <1>13, <1>14,
     <1>15, <1>16, <1>17, <1>18, <1>19, <1>20, <1>21, <1>22, <1>23, <1>24, <1>25
     DEF Next, User, UiSteps, Irm, Server, Reset

-----------------------------------------------------------------------------
(* What is received. *)

LEMMA ReceiveStep ==
  ASSUME Patient, LooseType, ControlInv, EngineInv, IdInv, ReceiveInv, [Next]_vars
  PROVE  ReceiveInv'
<1>0. pc \in [Threads -> Place] /\ arg \in [Threads -> Task]
  BY DEF LooseType
<1> USE <1>0 DEF Patient, InTurn, ControlInv, EngineInv, IdInv, ReceiveInv, OffersInv,
           RequestsInv, JoinedInv, Untouched, Receives, Accepting, Offered, InReset, Given,
           IrmAt, UiAt, Threads, Added, Removed, session, threads, server
<1>1. CASE CancelTransmission
  <2>1. IF sndId = 0 THEN toServer' = toServer
        ELSE Added(toServer, toServer', "sendstop", sndId, None)
    BY <1>1, RequestAdds DEF CancelTransmission, LooseType, Task, Kind, Threads
  <2> QED BY <1>1, <2>1 DEF CancelTransmission, Free, Request, GoReset, Goto
<1>2. CASE CancelReception
  <2>1. IF rcvId = 0 THEN toServer' = toServer
        ELSE Added(toServer, toServer', "receivestop", rcvId, None)
    BY <1>2, RequestAdds DEF CancelReception, LooseType, Task, Kind, Threads
  <2> QED BY <1>2, <2>1 DEF CancelReception, Free, Request, GoReset, Goto
<1>3. ASSUME NEW c \in Channels, BeginTransmission(c) PROVE ReceiveInv'
  BY <1>3 DEF BeginTransmission, Free, GoReset, Goto
<1>4. CASE SetTransmitting
  BY <1>4 DEF SetTransmitting, Goto
<1>5. CASE RequestMediaSend
  <2>1. Added(toServer, toServer', "send", 0, sndChannel')
    BY <1>5, SendAdds
  <2> QED BY <1>5, <2>1 DEF RequestMediaSend, Goto
<1>6. ASSUME NEW t \in Threads, ResetEngine(t) PROVE ReceiveInv'
  BY <1>6 DEF ResetEngine, Goto, Off
<1>7. ASSUME NEW t \in Threads, ResetSession(t) PROVE ReceiveInv'
  BY <1>7 DEF ResetSession, Goto
<1>8. CASE OnMediaNotify
  <2>1. Removed(toClient, toClient', "notify", Head(toClient).id, Head(toClient).channel)
    BY <1>8, TakeRemoves DEF OnMediaNotify
  <2> QED BY <1>8, <2>1 DEF OnMediaNotify, Take, Free, GoReset, Goto
<1>9. CASE SetReceiving
  BY <1>9 DEF SetReceiving, Goto
<1>10. CASE RequestMediaReceive
  <2>1. IF arg["irm"].id = 0 THEN toServer' = toServer
        ELSE Added(toServer, toServer', "receive", arg["irm"].id, None)
    BY <1>10, RequestAdds DEF RequestMediaReceive, LooseType, Task, Kind, Threads
  <2>2. Added(toServer, toServer', "receive", Offered, None) /\ Untouched(Offered)
    BY <1>10, <2>1 DEF RequestMediaReceive
  <2>3. OffersInv'
    BY <1>10, <2>1, <2>2 DEF RequestMediaReceive, Goto
  <2>4. RequestsInv'
    BY <1>10, <2>1, <2>2 DEF RequestMediaReceive, Goto
  <2>5. JoinedInv'
    BY <1>10, <2>1, <2>2 DEF RequestMediaReceive, Goto
  <2> QED BY <2>3, <2>4, <2>5
<1>11. CASE StoreReception
  BY <1>11 DEF StoreReception, Goto
<1>12. CASE OnMediaReceive
  <2>1. Removed(toClient, toClient', "receive", Head(toClient).id, Head(toClient).channel)
    BY <1>12, TakeRemoves DEF OnMediaReceive
  <2> QED BY <1>12, <2>1 DEF OnMediaReceive, Take, Free, Goto
<1>13. ASSUME NEW ok \in BOOLEAN, BeginReceive(ok) PROVE ReceiveInv'
  BY <1>13 DEF BeginReceive, Goto
<1>14. CASE OnMediaReceiveStop
  <2>1. Removed(toClient, toClient', "receivestop", Head(toClient).id, Head(toClient).channel)
    BY <1>14, TakeRemoves DEF OnMediaReceiveStop
  <2> QED BY <1>14, <2>1 DEF OnMediaReceiveStop, Take, Free, GoReset, Goto
<1>15. CASE OnMediaSend
  <2>1. Removed(toClient, toClient', "send", Head(toClient).id, Head(toClient).channel)
    BY <1>15, TakeRemoves DEF OnMediaSend
  <2> QED BY <1>15, <2>1 DEF OnMediaSend, Take, Free, Goto
<1>16. ASSUME NEW ok \in BOOLEAN, BeginSend(ok) PROVE ReceiveInv'
  <2>1. \/ UNCHANGED <<arg, toServer>> /\ pc' = [pc EXCEPT !["irm"] = "idle"]
        \/ Request("sendstop", sndId) /\ GoReset("irm", "idle", 0, None)
    BY <1>16, Zenon DEF BeginSend, Goto
  <2>2. Request("sendstop", sndId) =>
          IF sndId = 0 THEN toServer' = toServer
                       ELSE Added(toServer, toServer', "sendstop", sndId, None)
    BY RequestAdds DEF LooseType, Kind
  <2>3. pc["irm"] = "sndbegin"
          /\ UNCHANGED <<state, rcvId, sndId, sndChannel, toClient, server>>
    BY <1>16 DEF BeginSend
  <2> QED BY <2>1, <2>2, <2>3 DEF Goto, GoReset
<1>17. CASE OnMediaSendStop
  <2>1. Removed(toClient, toClient', "sendstop", Head(toClient).id, Head(toClient).channel)
    BY <1>17, TakeRemoves DEF OnMediaSendStop
  <2> QED BY <1>17, <2>1 DEF OnMediaSendStop, Take, Free, GoReset, Goto
<1>18. CASE TransferEnds
  <2>1. /\ Request("sendstop", sndId) =>
             IF sndId = 0 THEN toServer' = toServer
                          ELSE Added(toServer, toServer', "sendstop", sndId, None)
        /\ Request("receivestop", rcvId) =>
             IF rcvId = 0 THEN toServer' = toServer
                          ELSE Added(toServer, toServer', "receivestop", rcvId, None)
    BY RequestAdds DEF LooseType, Kind
  <2> QED BY <1>18, <2>1 DEF TransferEnds, Request
<1>19. CASE ServeSend
  <2>1. /\ Removed(toServer, toServer', "send", Head(toServer).id, Head(toServer).channel)
        /\ Head(toServer) \in Msg /\ Head(toServer).kind = "send"
    BY <1>19, ServeRemoves DEF ServeSend
  <2>2. Added(toClient, toClient', "send", lastId', Head(toServer).channel)
    BY <1>19, ServeSendAnswers
  <2>3. UNCHANGED <<session, threads, joined, offered>>
    BY <1>19 DEF ServeSend, Serve
  <2> QED BY <2>1, <2>2, <2>3
<1>20. CASE ServeSendStop
  <2>1. /\ Removed(toServer, toServer', "sendstop",
                  Head(toServer).id, Head(toServer).channel)
        /\ Head(toServer) \in Msg /\ Head(toServer).kind = "sendstop"
    BY <1>20, ServeRemoves DEF ServeSendStop
  <2>2. Added(toClient, toClient', "sendstop", Head(toServer).id, Head(toServer).channel)
    BY <1>20, <2>1, AnswerAdds DEF ServeSendStop
  <2> QED BY <1>20, <2>1, <2>2 DEF ServeSendStop, Serve
<1>21. CASE ServeReceive
  <2>1. /\ Removed(toServer, toServer', "receive",
                  Head(toServer).id, Head(toServer).channel)
        /\ Head(toServer) \in Msg /\ Head(toServer).kind = "receive"
    BY <1>21, ServeRemoves DEF ServeReceive
  <2>2. Added(toClient, toClient',
              IF Head(toServer).id \in offered THEN "receive" ELSE "receivestop",
              Head(toServer).id,
              IF Head(toServer).id \in offered THEN Head(toServer).channel ELSE None)
    BY <1>21, ServeReceiveAnswers
  <2> QED BY <1>21, <2>1, <2>2 DEF ServeReceive, Serve
<1>22. CASE ServeReceiveStop
  <2>1. /\ Removed(toServer, toServer', "receivestop",
                  Head(toServer).id, Head(toServer).channel)
        /\ Head(toServer) \in Msg /\ Head(toServer).kind = "receivestop"
    BY <1>22, ServeRemoves DEF ServeReceiveStop
  <2>2. Added(toClient, toClient', "receivestop",
                  Head(toServer).id, Head(toServer).channel)
    BY <1>22, <2>1, AnswerAdds DEF ServeReceiveStop
  <2> QED BY <1>22, <2>1, <2>2 DEF ServeReceiveStop, Serve
<1>23. CASE Offer
  <2>1. lastId' \in Nat /\ Message("notify", lastId') \in Msg
    <3>1. lastId' = lastId + 1 /\ lastId' \in Nat
      BY <1>23 DEF Offer, LooseType
    <3> QED BY <3>1, MessageType DEF Kind
  <2>2. Added(toClient, toClient', "notify", lastId', None)
    BY <1>23, <2>1, AnswerAdds, MessageParts DEF Offer
  <2> QED BY <1>23, <2>1, <2>2 DEF Offer
<1>24. ASSUME NEW id \in Ids, Withdraw(id) PROVE ReceiveInv'
  <2>1. Message("receivestop", id) \in Msg
    BY MessageType DEF Ids, Kind
  <2>2. id \in joined => Added(toClient, toClient', "receivestop", id, None)
    BY <1>24, <2>1, AnswerAdds, MessageParts DEF Withdraw
  <2> QED BY <1>24, <2>1, <2>2 DEF Withdraw
<1>25. CASE UNCHANGED vars
  BY <1>25 DEF vars
<1> QED
  BY <1>1, <1>2, <1>3, <1>4, <1>5, <1>6, <1>7, <1>8, <1>9, <1>10, <1>11, <1>12, <1>13, <1>14,
     <1>15, <1>16, <1>17, <1>18, <1>19, <1>20, <1>21, <1>22, <1>23, <1>24, <1>25
     DEF Next, User, UiSteps, Irm, Server, Reset

-----------------------------------------------------------------------------
(* Theorems. *)

LocalInv == LooseType /\ ControlInv /\ EngineInv
IInv     == LocalInv /\ IdInv /\ SendInv /\ ReceiveInv

LEMMA InitLocal == Init => LocalInv
<1> SUFFICES ASSUME Init PROVE LocalInv
  OBVIOUS
<1> USE DEF Init, Threads
<1>1. LooseType
  BY DEF LooseType, Place, Task, Off
<1>2. ControlInv
  BY DEF ControlInv, IrmAt, UiAt
<1>3. EngineInv
  BY DEF EngineInv, IrmAt, UiAt, Off
<1> QED BY <1>1, <1>2, <1>3 DEF LocalInv

LEMMA InitIInv == Init => IInv
<1> SUFFICES ASSUME Init PROVE IInv
  OBVIOUS
<1>1. /\ toServer = <<>> /\ toClient = <<>> /\ Len(<<>>) = 0
      /\ mine = {} /\ joined = {} /\ lastId = 0 /\ sndId = 0 /\ rcvId = 0
      /\ pc["irm"] = "idle" /\ pc["ui"] = "idle" /\ state = "idle"
  BY EmptySeq DEF Init, Threads
<1>2. \A n \in 1..0 : FALSE
  OBVIOUS
<1>3. \A k, j : ~Has(<<>>, k, j)
  BY <1>1, <1>2 DEF Has
<1>4. /\ \A k : Once(<<>>, k)
      /\ ReceiveFirst(<<>>) /\ \A c : SentTo(<<>>, c)
  BY <1>1, <1>2 DEF Once, ReceiveFirst, SentTo
<1>5. IdInv
  BY <1>1, <1>3 DEF IdInv, Given, Accepting, IrmAt, UiAt
<1>6. SendInv
  BY <1>1, <1>3, <1>4 DEF SendInv, AskedOnce, AnswersKnow, MineInv, KnownInv, Asked, Answered,
                          IrmAt, UiAt
<1>7. ReceiveInv
  BY <1>1, <1>3, <1>4 DEF ReceiveInv, OffersInv, RequestsInv, JoinedInv, Accepting, IrmAt, UiAt
<1> QED BY <1>5, <1>6, <1>7, InitLocal DEF IInv

LEMMA LocalInvariance == ASSUME InTurn PROVE Spec => []LocalInv
<1>1. LocalInv /\ [Next]_vars => LocalInv'
  BY InTurn, TypeStep, ControlStep, EngineStep DEF LocalInv
<1> QED BY InitLocal, <1>1, PTL DEF Spec

LEMMA Invariance == ASSUME Patient PROVE Spec => []IInv
<1>1. IInv /\ [Next]_vars => IInv'
  <2> SUFFICES ASSUME IInv, [Next]_vars PROVE IInv'
    OBVIOUS
  <2>1. LooseType /\ ControlInv /\ EngineInv /\ IdInv /\ SendInv /\ ReceiveInv /\ InTurn
    BY Patient DEF IInv, LocalInv, Patient
  <2>2. LocalInv'
    BY <2>1, TypeStep, ControlStep, EngineStep DEF LocalInv
  <2>3. IdInv' /\ SendInv' /\ ReceiveInv'
    BY Patient, <2>1, IdStep, SendStep, ReceiveStep
  <2> QED BY <2>2, <2>3 DEF IInv
<1> QED BY InitIInv, <1>1, PTL DEF Spec

(* EngineServesSession, whenever the two threads take turns: the engine runs *)
(* for the transfer of the session and is off when there is none, however    *)
(* BeginSend and BeginReceive fail, transfers end, and users cancel.         *)
THEOREM EngineServes == ASSUME InTurn PROVE Spec => []EngineServesSession
<1>1. LocalInv => EngineServesSession
  BY DEF LocalInv, EngineInv, EngineServesSession, Quiet, Threads, IrmAt
<1> QED BY LocalInvariance, <1>1, PTL

(* NoOrphanMedium, if besides the user waits for the server's answer before  *)
(* cancelling: no medium is left at the server that the session does not     *)
(* stand for, after any failures, cancels and offers.                        *)
THEOREM NoneLeftBehind == ASSUME Patient PROVE Spec => []NoOrphanMedium
<1>1. IInv => NoOrphanMedium
  <2> SUFFICES ASSUME IInv, Settled PROVE NoOrphanMedium
    BY DEF NoOrphanMedium
  <2>1. \A k, j : ~Has(toServer, k, j) /\ ~Has(toClient, k, j)
    <3>1. toServer = <<>> /\ toClient = <<>> /\ Len(<<>>) = 0
      BY EmptySeq DEF Settled
    <3> QED BY <3>1 DEF Has
  <2> QED
    BY <2>1 DEF IInv, SendInv, MineInv, ReceiveInv, JoinedInv, Receives, NoOrphanMedium,
                Settled, Quiet, Threads, IrmAt
<1> QED BY Invariance, <1>1, PTL

(* SessionHasMedium, under the same conditions: the server knows the medium  *)
(* of the session's transmission, so that its stop will be answered.         *)
THEOREM SessionIsKnown == ASSUME Patient PROVE Spec => []SessionHasMedium
<1>1. IInv => SessionHasMedium
  <2> SUFFICES ASSUME IInv, Settled, state = "transmitting" PROVE sndId \in mine
    BY DEF SessionHasMedium
  <2>1. \A k, j : ~Has(toServer, k, j) /\ ~Has(toClient, k, j)
    <3>1. toServer = <<>> /\ toClient = <<>> /\ Len(<<>>) = 0
      BY EmptySeq DEF Settled
    <3> QED BY <3>1 DEF Has
  <2> QED
    BY <2>1 DEF IInv, SendInv, KnownInv, Asked, Answered, InReset, Settled, Quiet, Threads,
                IrmAt, UiAt
<1> QED BY Invariance, <1>1, PTL

-----------------------------------------------------------------------------
(* The network: the two halves of the engine joined.                        *)

SP == INSTANCE XFTSender_proofs WITH
  ReqPhases <- {"settled"}, ApiCalls <- FALSE, Overlap <- FALSE, AtomicReset <- TRUE,
  curSeq <- sCurSeq, totPkts <- sTotPkts, lost <- sLost, nTotReq <- sNTotReq,
  nReq <- sNReq, eof <- sEof, sndEnd <- sSndEnd, sndEnabled <- sSndEnabled,
  sending <- sSending, resetting <- sResetting, abort <- sAbort,
  sockOpen <- sSockOpen, paused <- sPaused, pauseFree <- sPauseFree,
  tpc <- sTpc, pc <- sPc, sent <- sSent, outcome <- sOutcome, reqs <- sReqs

RP == INSTANCE XFTReceiver_proofs WITH
  PtPModes <- {FALSE}, Udp <- TRUE, EofPhases <- {"settled"}, Stray <- FALSE, AtomicReset <- TRUE,
  curSeq <- rCurSeq, totPkts <- rTotPkts, nRcvPkts <- rNRcvPkts,
  lost <- rLost, pos <- rPos, rcvEnabled <- rRcvEnabled,
  receiving <- rReceiving, resetting <- rResetting, abort <- rAbort,
  complete <- rComplete, ptp <- rPtp, sockOpen <- rSockOpen, block <- rBlock,
  flen <- rFlen, fileOpen <- rFileOpen, onDisk <- rOnDisk, tpc <- rTpc,
  tpkt <- rTpkt, pc <- rPc, req <- rReq, asked <- rAsked

-----------------------------------------------------------------------------
(* The inductive invariant. *)

Delivered == R!Saved = 1..sTotPkts
Failed    == ReceiverFailed

(* The end of the file has been announced at least once. *)
Announced == sEof /\ sTpc # "eof"

(* What is under way: packets of the file, requests for packets.             *)
LinkInv ==
  /\ air \subseteq 1..MaxPkts /\ toRcv \in Nat
  /\ toSnd \in Seq((0..MaxPkts) \X (0..MaxPkts))

(* One transmission, which nobody stops, ...                                 *)
SenderLife ==
  /\ sPc["ui"] = "idle" /\ sPc["irm"] \in {"idle", "begun"}
  /\ sPc["irm"] = "begun" => sSndEnabled /\ ~sSending
  /\ sSending => sSndEnabled
  /\ sSndEnabled => ~sAbort /\ sTotPkts \in 1..MaxPkts
  /\ sTpc = "none" <=> ~sSending
  /\ ~sSndEnabled => ~rRcvEnabled

(* ... and one reception, which has begun before the first packet is sent.   *)
ReceiverLife ==
  /\ rPc["ui"] = "idle" /\ rPc["irm"] \in {"idle", "begun", "eofwait", "eofreq"}
  /\ rPc["irm"] = "begun" => rRcvEnabled /\ ~rReceiving
  /\ rRcvEnabled => ~rAbort /\ rTotPkts = sTotPkts
  /\ rTpc = "none" <=> ~rReceiving
  /\ rReceiving => rRcvEnabled
  /\ rComplete => rTpc = "done"
  /\ sTpc \notin {"none", "delay"} => rReceiving

(* Before the first packet nothing has happened. *)
NothingYet == sTpc \in {"none", "delay"} =>
  /\ sSent = {} /\ ~sEof /\ sSndEnd = "zero" /\ sLost = <<>> /\ sOutcome = "none" /\ air = {}
  /\ sTpc = "delay" => sCurSeq = 0

(* The sender's first pass, packet by packet.                                *)
PassInv ==
  /\ sSndEnabled /\ ~sEof /\ sTpc \notin {"none", "delay"} => sSent = 1..sCurSeq
  /\ sSndEnabled /\ sEof => sSent = 1..sTotPkts
  /\ sTpc \in {"eof", "arm", "resent", "eof2", "arm2"} => sEof
  /\ sTpc = "sent" => ~sEof
  /\ sSndEnabled => sSent \subseteq 1..sTotPkts

(* What is under way or in the file has been sent. *)
SentInv ==
  /\ air \subseteq sSent
  /\ rRcvEnabled => R!Saved \subseteq sSent
  /\ rTpc = "gap" => rTpkt.data \in sSent

(* No message about the end of the file before the end.                      *)
EofInv ==
  ~Announced => /\ toRcv = 0 /\ toSnd = <<>> /\ rPc["irm"] \notin {"eofwait", "eofreq"}
                /\ sSndEnd = "zero" /\ sLost = <<>>

(* Once a message about the end has arrived the receiver knows of every      *)
(* packet of the file.                                                       *)
CaughtInv ==
  Announced => \/ toRcv > 0 \/ rTpc = "done"
               \/ rCurSeq = rTotPkts /\ rTpc \notin {"gap", "gapfail"}

(* A round of requests is due or on its way.                                 *)
Pending == toRcv > 0 \/ rPc["irm"] = "eofwait" \/ toSnd # <<>>

(* Where the clock runs, or is about to be set.                              *)
ClockDue == (sTpc = "arm" /\ sLost = <<>>) \/ sTpc = "arm2" \/ sSndEnd # "zero"

ChaseInv ==
  /\ ClockDue => Delivered \/ Failed \/ Pending
  /\ sTpc = "judge" => sSndEnd # "zero"
  /\ sSndEnd = "gone" \/ sOutcome = "end" => Delivered \/ Failed

NetInv ==
  /\ LinkInv /\ SenderLife /\ ReceiverLife /\ NothingYet /\ PassInv /\ SentInv
  /\ EofInv /\ CaughtInv /\ ChaseInv

(* With it, what the proofs of the two halves rest on. *)
HalvesInv == SP!TypeOK /\ SP!ClockInv /\ RP!IInv

NetIInv == HalvesInv /\ NetInv

-----------------------------------------------------------------------------
(* The two halves, as composed here, are the ones proved about. *)

LEMMA SameSender == /\ S!Init <=> SP!Init
                    /\ [S!Next]_(S!vars) <=> [SP!Next]_(SP!vars)
  BY DEF S!Init, S!vars, S!Next, S!Controllers, S!Thread, S!SendFails, S!Expire,
       S!Start, S!Api, S!PktRequest, S!Stop, S!FirstDelay, S!ThreadTop,
       S!SendNothing, S!SendPkt, S!CheckLast, S!AnnounceEof, S!ArmFirst,
       S!CheckLost, S!ArmAgain, S!TestEnd, S!JudgeEnd, S!NextSeq, S!Remove,
       S!counters, S!flags, S!pause, S!history, S!Pkts, S!BeginSend, S!RunTX,
       S!SndPause, S!SndPauseWait, S!SndResume, S!SetSndSeq, S!Request, S!Wanted,
       S!Items, S!InsertSet, S!Cardinality, S!ResetTest, S!ResetSnd, S!StopResume,
       S!EndTransferThread, S!WaitForMe, S!CloseFile, S!ResetClear, S!Loop, S!Goto,
       S!Phase,
       SP!Init, SP!vars, SP!Next, SP!Controllers, SP!Thread, SP!SendFails,
       SP!Expire, SP!Start, SP!Api, SP!PktRequest, SP!Stop, SP!FirstDelay,
       SP!ThreadTop, SP!SendNothing, SP!SendPkt, SP!CheckLast, SP!AnnounceEof,
       SP!ArmFirst, SP!CheckLost, SP!ArmAgain, SP!TestEnd, SP!JudgeEnd, SP!NextSeq,
       SP!Remove, SP!counters, SP!flags, SP!pause, SP!history, SP!Pkts,
       SP!BeginSend, SP!RunTX, SP!SndPause, SP!SndPauseWait, SP!SndResume,
       SP!SetSndSeq, SP!Request, SP!Wanted, SP!Items, SP!InsertSet, SP!Cardinality,
       SP!ResetTest, SP!ResetSnd, SP!StopResume, SP!EndTransferThread, SP!WaitForMe,
       SP!CloseFile, SP!ResetClear, SP!Loop, SP!Goto, SP!Phase

LEMMA SameReceiver == /\ R!Init <=> RP!Init
                      /\ [R!Next]_(R!vars) <=> [RP!Next]_(RP!vars)
                      /\ R!Saved = RP!Saved
  BY DEF R!Init, R!vars, R!Saved, R!Next, R!Pkts, R!NoPkt, R!Controllers, R!NoReq,
       R!ThreadStep, R!Arrival, R!Start, R!Eof, R!Stop, R!ThreadTop, R!ReadFails,
       R!GapFails, R!CompareSeq, R!AdvanceSeq, R!CheckComplete, R!SaveAfterGap,
       R!Reconnect, R!Packets, R!SaveRefused, R!SaveIgnored, R!SaveLate, R!SaveNext,
       R!SaveGap, R!RunRX, R!BeginReceive, R!NotifyEOF, R!RequestFirst,
       R!RequestNext, R!ResetTest, R!ResetRcv, R!EndTransferThread, R!WaitForMe,
       R!ResetClear, R!vector, R!member, R!file, R!ctrl, R!WriteBlock, R!Alien,
       R!Reading, R!Accepted, R!Search, R!Remove, R!InsertRun, R!Goto, R!thread,
       R!Phase, R!RequestRun, R!OnWire, R!RunLength, R!ItemAt, R!Advance,
       RP!Init, RP!vars, RP!Saved, RP!Next, RP!Pkts, RP!NoPkt, RP!Controllers,
       RP!NoReq, RP!ThreadStep, RP!Arrival, RP!Start, RP!Eof, RP!Stop, RP!ThreadTop,
       RP!ReadFails, RP!GapFails, RP!CompareSeq, RP!AdvanceSeq, RP!CheckComplete,
       RP!SaveAfterGap, RP!Reconnect, RP!Packets, RP!SaveRefused, RP!SaveIgnored,
       RP!SaveLate, RP!SaveNext, RP!SaveGap, RP!RunRX, RP!BeginReceive,
       RP!NotifyEOF, RP!RequestFirst, RP!RequestNext, RP!ResetTest, RP!ResetRcv,
       RP!EndTransferThread, RP!WaitForMe, RP!ResetClear, RP!vector, RP!member,
       RP!file, RP!ctrl, RP!WriteBlock, RP!Alien, RP!Reading, RP!Accepted,
       RP!Search, RP!Remove, RP!InsertRun, RP!Goto, RP!thread, RP!Phase,
       RP!RequestRun, RP!OnWire, RP!RunLength, RP!ItemAt, RP!Advance

LEMMA SameRequest == ASSUME NEW a, NEW b PROVE S!PktRequest(a, b) <=> SP!PktRequest(a, b)
  BY DEF S!PktRequest, S!Request, S!Phase, S!Wanted, S!InsertSet, S!Items,
       S!Cardinality, S!flags, S!pause,
       SP!PktRequest, SP!Request, SP!Phase, SP!Wanted, SP!InsertSet, SP!Items,
       SP!Cardinality, SP!flags, SP!pause

LEMMA Premises == RP!Settled /\ SP!Settled
  BY DEF RP!Settled, SP!Settled

(* What the invariants of the two halves say, in the terms of this module. *)
SenderFacts ==
  /\ sCurSeq \in 0..MaxPkts /\ sTotPkts \in 0..MaxPkts /\ sLost \in Seq(1..MaxPkts)
  /\ sEof \in BOOLEAN /\ sSndEnabled \in BOOLEAN /\ sSending \in BOOLEAN
  /\ sAbort \in BOOLEAN /\ sSndEnd \in {"zero", "ahead", "gone"}
  /\ DOMAIN sPc = {"irm", "ui"} /\ sPc = [c \in {"irm", "ui"} |-> sPc[c]]
  /\ sSent \subseteq 1..MaxPkts
  /\ sSndEnd # "zero" \/ sTpc \in {"eof2", "arm2", "judge"} => sLost = <<>>

(* A reception that works, and has not failed inside a gap. *)
Works == rRcvEnabled /\ rTpc \notin {"none", "done", "gapfail"}

ReceiverFacts ==
  /\ rCurSeq \in 0..MaxPkts /\ rTotPkts \in 0..MaxPkts /\ rLost \in Seq(1..MaxPkts)
  /\ rRcvEnabled \in BOOLEAN /\ rReceiving \in BOOLEAN /\ rComplete \in BOOLEAN
  /\ rAbort \in BOOLEAN
  /\ rPc = [c \in {"irm", "ui"} |-> rPc[c]]
  /\ rTpkt.seq \in 0..MaxPkts /\ rReq \in [pkti : 0..MaxPkts, pktf : 0..MaxPkts, seq : 0..MaxPkts]
  /\ rFlen \in Nat
  /\ rComplete /\ rRcvEnabled => R!Saved = 1..rTotPkts
  /\ Works => rCurSeq <= rTotPkts
  /\ Works /\ rTpc = "gap" => rTpkt.data \in 1..MaxPkts
  /\ Works /\ rTpc = "set" => rTpkt.seq > rCurSeq /\ rTpkt.seq <= rTotPkts
  /\ Works /\ rTpc # "gap" /\ rCurSeq = rTotPkts /\ rLost = <<>> => R!Saved = 1..rTotPkts

LEMMA SenderKnown == HalvesInv => SenderFacts
<1>. SUFFICES ASSUME HalvesInv PROVE SenderFacts
  OBVIOUS
<1>1. SP!TypeOK /\ SP!ClockInv
  BY DEF HalvesInv
<1>. QED BY <1>1 DEF SP!TypeOK, SP!ClockInv, SP!Pkts, SP!Controllers, SenderFacts

LEMMA ReceiverKnown == HalvesInv /\ ReceiverLife => ReceiverFacts
<1>. SUFFICES ASSUME HalvesInv, ReceiverLife PROVE ReceiverFacts
  OBVIOUS
<1>1. RP!TypeOK /\ RP!VectorInv /\ RP!SuccessMeansComplete
  BY DEF HalvesInv, RP!IInv, RP!DataInv
<1>2. /\ rCurSeq \in 0..MaxPkts /\ rTotPkts \in 0..MaxPkts /\ rLost \in Seq(1..MaxPkts)
      /\ rRcvEnabled \in BOOLEAN /\ rReceiving \in BOOLEAN /\ rComplete \in BOOLEAN
      /\ rAbort \in BOOLEAN
      /\ rPc = [c \in {"irm", "ui"} |-> rPc[c]]
      /\ rTpkt.seq \in 0..MaxPkts /\ rReq \in [pkti : 0..MaxPkts, pktf : 0..MaxPkts, seq : 0..MaxPkts]
      /\ rFlen \in Nat
  BY <1>1 DEF RP!TypeOK, RP!TypeCounters, RP!TypeFlags, RP!TypeFile, RP!TypeThread,
              RP!TypeControl, RP!Pkts, RP!Controllers
<1>3. rComplete /\ rRcvEnabled => R!Saved = 1..rTotPkts
  BY <1>1, SameReceiver DEF RP!SuccessMeansComplete
<1>4. ASSUME Works
      PROVE  /\ rCurSeq <= rTotPkts
             /\ rTpc = "gap" => rTpkt.data \in 1..MaxPkts
             /\ rTpc = "set" => rTpkt.seq > rCurSeq /\ rTpkt.seq <= rTotPkts
             /\ rTpc # "gap" /\ rCurSeq = rTotPkts /\ rLost = <<>> => R!Saved = 1..rTotPkts
  <2>1. RP!Active
    BY <1>4 DEF Works, RP!Active, ReceiverLife
  <2>2. /\ RP!High <= rTotPkts /\ 1..RP!High \subseteq RP!Items(rLost) \cup RP!Saved
        /\ rTpc = "gap" => rTpkt.seq > rCurSeq + 1 /\ rTpkt.seq <= rTotPkts /\ rTpkt.data = rTpkt.seq
        /\ rTpc = "set" => rTpkt.seq > rCurSeq
    BY <1>1, <2>1 DEF RP!VectorInv
  <2>3. /\ RP!High \in Int /\ rCurSeq <= RP!High
        /\ rTpc = "set" /\ rTpkt.seq > rCurSeq => RP!High = rTpkt.seq
    BY <1>2, <2>2 DEF RP!High
  <2>4. RP!Saved \subseteq 1..rTotPkts
    BY DEF RP!Saved
  <2>5. rLost = <<>> => RP!Items(rLost) = {}
    BY DEF RP!Items
  <2>6. rCurSeq = rTotPkts => RP!High = rTotPkts
    BY <1>2, <2>2, <2>3
  <2>7. rTpc = "gap" => rTpkt.data \in 1..MaxPkts
    BY <1>2, <2>2, NetAssumption DEF NetAssumption
  <2>8. rCurSeq <= rTotPkts /\ (rTpc = "set" => rTpkt.seq > rCurSeq /\ rTpkt.seq <= rTotPkts)
    BY <1>2, <2>2, <2>3
  <2>9. rCurSeq = rTotPkts /\ rLost = <<>> => RP!Saved = 1..rTotPkts
    BY <2>2, <2>4, <2>5, <2>6
  <2>. QED BY <2>7, <2>8, <2>9, SameReceiver
<1>. QED BY <1>2, <1>3, <1>4 DEF ReceiverFacts

-----------------------------------------------------------------------------
(* Every step is a step of each half, or leaves it alone. *)

LEMMA IdleSender == UNCHANGED sndVars => UNCHANGED S!vars
  BY DEF sndVars, S!vars, S!counters, S!flags, S!pause, S!history

LEMMA IdleReceiver == UNCHANGED rcvVars => UNCHANGED R!vars
  BY DEF rcvVars, R!vars, R!vector, R!member, R!file, R!thread, R!ctrl

LEMMA SenderStep ==
  ASSUME LinkInv, NetNext
  PROVE  [S!Next]_(S!vars)
<1>1. CASE SessionBegins
  <2>1. ASSUME NEW n \in 1..MaxPkts, S!BeginSend(n, TRUE) PROVE S!Next
    BY <2>1 DEF S!Next, S!Start, S!Pkts
  <2>2. S!RunTX(TRUE) => S!Next
    BY DEF S!Next, S!Start
  <2>. QED BY <1>1, <2>1, <2>2, IdleSender DEF SessionBegins, SenderBegins, RunTX, ReceiverBegins, RunRX, links
<1>2. CASE SenderThread \/ SendFails \/ Expire
  BY <1>2 DEF SenderThread, FirstDelay, SendPkt, AnnounceEof, SenderSteps, SendFails, Expire,
              S!Next, S!Thread
<1>3. CASE TakeRequest
  <2>1. toSnd # <<>> /\ toSnd \in Seq((0..MaxPkts) \X (0..MaxPkts))
    BY <1>3 DEF TakeRequest, LinkInv
  <2>2. Head(toSnd) \in (0..MaxPkts) \X (0..MaxPkts)
    BY <2>1
  <2>3. Head(toSnd)[1] \in 0..(MaxPkts + 1) /\ Head(toSnd)[2] \in 0..(MaxPkts + 1)
    BY <2>2, NetAssumption DEF NetAssumption
  <2>. QED BY <1>3, <2>3 DEF TakeRequest, S!Next
<1>4. CASE ReceiverThread \/ TakeEof \/ \E k \in 1..MaxPkts : Lose(k) \/ Receive(k)
  <2>. SUFFICES UNCHANGED sndVars
    BY IdleSender
  <2>. QED BY <1>4 DEF ReceiverThread, ReceiverSteps, Ask, TakeEof, Lose, Receive
<1>. QED BY <1>1, <1>2, <1>3, <1>4 DEF NetNext

LEMMA ReceiverStep ==
  ASSUME SenderLife, NetNext
  PROVE  [R!Next]_(R!vars)
<1>1. CASE SessionBegins
  <2>1. R!BeginReceive(sTotPkts, FALSE, TRUE) /\ sSndEnabled => R!Next
    BY DEF R!Next, R!Start, R!Pkts, SenderLife
  <2>2. R!RunRX => R!Next
    BY DEF R!Next, R!Start
  <2>. QED BY <1>1, <2>1, <2>2, IdleReceiver DEF SessionBegins, SenderBegins, RunTX, ReceiverBegins, RunRX, links
<1>2. CASE SenderThread \/ SendFails \/ Expire \/ TakeRequest \/ \E k \in 1..MaxPkts : Lose(k)
  <2>. SUFFICES UNCHANGED rcvVars
    BY IdleReceiver
  <2>. QED BY <1>2 DEF SenderThread, FirstDelay, SendPkt, AnnounceEof, SenderSteps, SendFails, Expire,
                       TakeRequest, Lose
<1>3. CASE ReceiverThread
  <2>1. ASSUME NEW ok \in Outcomes, R!SaveAfterGap(ok) PROVE R!Next
    BY <2>1, NetAssumption DEF R!Next, R!ThreadStep, Outcomes, NetAssumption
  <2>2. ReceiverSteps => R!Next
    BY <2>1 DEF ReceiverSteps, R!Next, R!ThreadStep
  <2>3. Ask => R!Next
    BY DEF Ask, R!Next, R!Eof
  <2>. QED BY <1>3, <2>2, <2>3 DEF ReceiverThread
<1>4. CASE TakeEof
  BY <1>4, IdleReceiver DEF TakeEof, R!Next, R!Eof
<1>5. ASSUME NEW k \in 1..MaxPkts, Receive(k) PROVE R!Next
  <2>. DEFINE m == [seq |-> k, data |-> k]
  <2>1. m \in R!Packets
    BY DEF R!Packets, R!Pkts
  <2>2. \/ R!SaveIgnored(m)
        \/ \E ok \in Outcomes : R!SaveLate(m, ok) \/ R!SaveNext(m, ok)
        \/ \E i \in 1..k : R!SaveGap(m, i)
    BY <1>5 DEF Receive
  <2>. HIDE DEF m
  <2>3. CASE R!SaveIgnored(m)
    BY <2>1, <2>3 DEF R!Arrival, R!Next
  <2>4. ASSUME NEW ok \in Outcomes, R!SaveLate(m, ok) \/ R!SaveNext(m, ok) PROVE R!Next
    <3>1. ok \in BOOLEAN
      BY NetAssumption DEF NetAssumption, Outcomes
    <3>. QED BY <2>1, <2>4, <3>1 DEF R!Arrival, R!Next
  <2>5. ASSUME NEW i \in 1..k, R!SaveGap(m, i) PROVE R!Next
    <3>1. i \in R!Pkts
      BY NetAssumption DEF NetAssumption, R!Pkts
    <3>. QED BY <2>1, <2>5, <3>1 DEF R!Arrival, R!Next
  <2>. QED BY <2>2, <2>3, <2>4, <2>5
<1>. QED BY <1>1, <1>2, <1>3, <1>4, <1>5 DEF NetNext

LEMMA HalvesStep ==
  ASSUME NetIInv, NetNext
  PROVE  HalvesInv'
<1>1. [SP!Next]_(SP!vars) /\ [RP!Next]_(RP!vars)
  BY SenderStep, ReceiverStep, SameSender, SameReceiver DEF NetIInv, NetInv
<1>2. SP!TypeOK' /\ SP!ClockInv'
  BY <1>1, Premises, NetAssumption, SP!TypeStep, SP!ClockStep
     DEF NetIInv, HalvesInv, NetAssumption, SP!ReqPhase
<1>3. RP!IInv'
  BY <1>1, Premises, NetAssumption, RP!NextIInv DEF NetIInv, HalvesInv, NetAssumption, RP!EofPhase
<1>. QED BY <1>2, <1>3 DEF HalvesInv

-----------------------------------------------------------------------------
(* The steps of the two sides, and of the links between them. *)

LEMMA FirstOf == ASSUME NEW T, NEW s \in Seq(T), s # <<>> PROVE s[1] \in T
  OBVIOUS

LEMMA Appended ==
  ASSUME NEW T, NEW s \in Seq(T), NEW e \in T
  PROVE  Append(s, e) \in Seq(T) /\ Append(s, e) # <<>>
<1>1. Append(s, e) \in Seq(T) /\ Len(Append(s, e)) = Len(s) + 1 /\ Len(s) \in Nat
  OBVIOUS
<1>. QED BY <1>1

LEMMA SavedSame == UNCHANGED <<rBlock, rTotPkts>> => R!Saved' = R!Saved
  BY DEF R!Saved

LEMMA SavedNone ==
  ASSUME NEW n \in 1..MaxPkts, R!BeginReceive(n, FALSE, TRUE)
  PROVE  R!Saved' = {}
<1>1. rTotPkts' = n /\ rBlock' = [k \in 1..MaxPkts |-> 0]
  BY DEF R!BeginReceive, R!Pkts
<1>2. \A k \in 1..n : k \in 1..MaxPkts /\ k # 0
  BY NetAssumption DEF NetAssumption
<1>3. \A k \in 1..n : rBlock'[k] # k
  BY <1>1, <1>2
<1>4. QED
  BY <1>1, <1>3 DEF R!Saved

(* The session starts the sender, then the receiver. *)
LEMMA BeginKeeps ==
  ASSUME NetIInv, SessionBegins
  PROVE  NetInv'
<1>0. NetInv /\ SenderFacts /\ ReceiverFacts
  BY SenderKnown, ReceiverKnown DEF NetIInv, NetInv
<1>. USE <1>0, NetAssumption DEF NetAssumption, NetInv, LinkInv, SenderLife, ReceiverLife,
     NothingYet, PassInv, SentInv, EofInv, CaughtInv, ChaseInv, ClockDue, Pending, Announced,
     Delivered, Failed, ReceiverFailed, SenderFacts, ReceiverFacts
<1>1. CASE SenderBegins
  <2>1. PICK n \in 1..MaxPkts : S!BeginSend(n, TRUE) /\ UNCHANGED <<rcvVars, links>>
    BY <1>1 DEF SenderBegins
  <2>2. R!Saved' = R!Saved
    BY <2>1, SavedSame DEF rcvVars
  <2>. QED BY <2>1, <2>2 DEF S!BeginSend, S!Goto, S!pause, rcvVars, links
<1>2. CASE RunTX
  <2>1. S!RunTX(TRUE) /\ UNCHANGED <<rcvVars, links>>
    BY <1>2 DEF RunTX
  <2>2. R!Saved' = R!Saved
    BY <2>1, SavedSame DEF rcvVars
  <2>. QED BY <2>1, <2>2 DEF S!RunTX, S!Goto, S!pause, S!history, rcvVars, links
<1>3. CASE ReceiverBegins
  <2>1. /\ sSndEnabled /\ R!BeginReceive(sTotPkts, FALSE, TRUE)
        /\ UNCHANGED <<sndVars, links>>
    BY <1>3 DEF ReceiverBegins
  <2>2. R!Saved' = {}
    <3>1. sTotPkts \in 1..MaxPkts
      BY <2>1
    <3>2. QED
      BY <2>1, <3>1, SavedNone
  <2>3. /\ ~rRcvEnabled /\ rRcvEnabled' /\ ~rAbort' /\ rTotPkts' = sTotPkts /\ ~rComplete'
        /\ rPc' = [rPc EXCEPT !["irm"] = "begun"]
        /\ UNCHANGED <<rCurSeq, rReceiving, rTpc, rTpkt>>
    BY <2>1 DEF R!BeginReceive, R!Goto, R!vector, R!thread
  <2>4. UNCHANGED <<sndVars, links>>
    BY <2>1
  <2>5. ~rReceiving /\ sTpc \in {"none", "delay"} /\ ~sEof
    BY <2>3
  <2>6. LinkInv' /\ SenderLife' /\ ReceiverLife'
    BY <2>1, <2>3, <2>4, <2>5 DEF sndVars, links
  <2>7. NothingYet' /\ PassInv' /\ SentInv'
    BY <2>2, <2>3, <2>4, <2>5 DEF sndVars, links
  <2>8. EofInv' /\ CaughtInv' /\ ChaseInv'
    BY <2>3, <2>4, <2>5 DEF sndVars, links
  <2>. QED BY <2>6, <2>7, <2>8
<1>4. CASE RunRX
  <2>1. R!RunRX /\ UNCHANGED <<sndVars, links>>
    BY <1>4 DEF RunRX
  <2>2. R!Saved' = R!Saved
    BY <2>1, SavedSame DEF R!RunRX, R!file
  <2>. QED BY <2>1, <2>2
           DEF R!RunRX, R!Goto, R!vector, R!file, sndVars, links
<1>. QED BY <1>1, <1>2, <1>3, <1>4 DEF SessionBegins

(* The sender's thread, and its clock. *)
LEMMA SenderKeeps ==
  ASSUME NetIInv, SenderThread \/ SendFails \/ Expire
  PROVE  NetInv'
<1>0. NetInv /\ SenderFacts /\ ReceiverFacts /\ UNCHANGED <<rcvVars, toSnd>>
  BY SenderKnown, ReceiverKnown
     DEF NetIInv, NetInv, SenderThread, FirstDelay, SendPkt, AnnounceEof, SenderSteps, SendFails,
         Expire, links
<1>1. R!Saved' = R!Saved
  BY <1>0, SavedSame DEF rcvVars
<1>. USE <1>0, <1>1 DEF NetInv, LinkInv, SenderLife, ReceiverLife,
     NothingYet, PassInv, SentInv, EofInv, CaughtInv, ChaseInv, ClockDue, Pending, Announced,
     Delivered, Failed, ReceiverFailed, rcvVars, links,
     S!counters, S!flags, S!pause, S!history
<1>2. CASE FirstDelay
  BY <1>2 DEF FirstDelay, S!FirstDelay
<1>3. CASE SendPkt
  <2>1. /\ sTpc = "pkt" /\ S!NextSeq # 0 /\ S!NextSeq <= sTotPkts
        /\ sCurSeq' = (IF S!NextSeq - 1 = sCurSeq THEN sCurSeq + 1 ELSE sCurSeq)
        /\ sLost' = (IF sEof THEN S!Remove(sLost, 1) ELSE sLost)
        /\ sSent' = sSent \cup {S!NextSeq} /\ air' = air \cup {S!NextSeq}
        /\ sTpc' = (IF sEof THEN "resent" ELSE "sent")
        /\ UNCHANGED <<sTotPkts, sEof, sSndEnd, sSndEnabled, sSending, sAbort, sPc, sOutcome,
                       toSnd, toRcv>>
    BY <1>3 DEF SendPkt, S!SendPkt
  <2>2. sSndEnabled /\ sTotPkts \in 1..MaxPkts
    BY <2>1
  <2>3. S!NextSeq \in 1..sTotPkts /\ (~sEof => S!NextSeq = sCurSeq + 1)
    <3>1. sCurSeq \in Nat /\ sTotPkts \in Nat /\ sLost \in Seq(1..MaxPkts)
      BY NetAssumption DEF NetAssumption, SenderFacts
    <3>2. sLost # <<>> => sLost[1] \in 1..MaxPkts
      BY <3>1, FirstOf
    <3>. QED BY <2>1, <3>1, <3>2, NetAssumption DEF S!NextSeq, NetAssumption
  <2>4. LinkInv' /\ SenderLife' /\ ReceiverLife' /\ NothingYet' /\ EofInv' /\ CaughtInv'
    BY <2>1, <2>2, <2>3, NetAssumption DEF NetAssumption
  <2>5. PassInv' /\ SentInv'
    <3>1. sCurSeq \in Nat /\ sTotPkts \in Nat
      BY NetAssumption DEF NetAssumption, SenderFacts
    <3>2. CASE sEof
      BY <2>1, <2>2, <2>3, <3>1, <3>2
    <3>3. CASE ~sEof
      <4>1. sSent = 1..sCurSeq /\ sCurSeq' = sCurSeq + 1 /\ sSent' = 1..sCurSeq'
        BY <2>1, <2>2, <2>3, <3>1, <3>3
      <4>. QED BY <2>1, <2>2, <2>3, <3>1, <3>3, <4>1
    <3>. QED BY <3>2, <3>3
  <2>6. ChaseInv'
    BY <2>1
  <2>. QED BY <2>4, <2>5, <2>6
<1>4. CASE AnnounceEof
  BY <1>4 DEF AnnounceEof, S!AnnounceEof
<1>5. CASE SenderSteps
  <2>1. CASE S!ThreadTop
    BY <1>5, <2>1 DEF SenderSteps, S!ThreadTop
  <2>2. CASE S!SendNothing
    BY <1>5, <2>2 DEF SenderSteps, S!SendNothing
  <2>3. CASE S!CheckLast
    BY <1>5, <2>3 DEF SenderSteps, S!CheckLast
  <2>4. CASE S!ArmFirst
    BY <1>5, <2>4 DEF SenderSteps, S!ArmFirst
  <2>5. CASE S!CheckLost
    BY <1>5, <2>5 DEF SenderSteps, S!CheckLost
  <2>6. CASE S!ArmAgain
    BY <1>5, <2>6 DEF SenderSteps, S!ArmAgain
  <2>7. CASE S!TestEnd
    BY <1>5, <2>7 DEF SenderSteps, S!TestEnd, S!Loop
  <2>8. CASE S!JudgeEnd
    <3>1. sSndEnd \in {"zero", "ahead", "gone"}
      BY DEF SenderFacts
    <3>. QED BY <1>5, <2>8, <3>1 DEF SenderSteps, S!JudgeEnd, S!Loop
  <2>. QED BY <1>5, <2>1, <2>2, <2>3, <2>4, <2>5, <2>6, <2>7, <2>8 DEF SenderSteps
<1>6. CASE SendFails
  BY <1>6 DEF SendFails, S!SendFails
<1>7. CASE Expire
  BY <1>7 DEF Expire, S!Expire
<1>. QED BY <1>2, <1>3, <1>4, <1>5, <1>6, <1>7 DEF SenderThread

(* A request leaves something to send again, and stops the clock. *)
LEMMA RequestKeeps ==
  ASSUME NetIInv, TakeRequest
  PROVE  NetInv'
<1>0. NetInv /\ SenderFacts /\ ReceiverFacts /\ UNCHANGED <<rcvVars, air, toRcv>>
  BY SenderKnown, ReceiverKnown DEF NetIInv, NetInv, TakeRequest
<1>1. R!Saved' = R!Saved
  BY <1>0, SavedSame DEF rcvVars
<1>. DEFINE a == Head(toSnd)[1]
            b == Head(toSnd)[2]
<1>2. /\ toSnd # <<>> /\ toSnd' = Tail(toSnd) /\ S!PktRequest(a, b)
      /\ toSnd \in Seq((0..MaxPkts) \X (0..MaxPkts))
  BY <1>0 DEF TakeRequest, NetInv, LinkInv
<1>3. a \in 0..MaxPkts /\ b \in 0..MaxPkts /\ toSnd' \in Seq((0..MaxPkts) \X (0..MaxPkts))
  <2>1. Head(toSnd) \in (0..MaxPkts) \X (0..MaxPkts)
    BY <1>2
  <2>. QED BY <1>2, <2>1
<1>4. /\ a # 0 /\ a <= sTotPkts
      /\ sSndEnd' = IF sLost' # <<>> THEN "zero" ELSE sSndEnd
      /\ S!Phase = "settled"
      /\ UNCHANGED <<sCurSeq, sTotPkts, sEof, sSndEnabled, sSending, sAbort, sTpc, sPc,
                     sSent, sOutcome>>
  BY <1>2 DEF S!PktRequest, S!Request, S!flags
<1>5. sLost' # <<>>
  <2>1. SP!TypeOK /\ a \in 0..(MaxPkts + 1) /\ b \in 0..(MaxPkts + 1)
    BY <1>3, NetAssumption DEF NetAssumption, NetIInv, HalvesInv
  <2>2. SP!PktRequest(a, b)
    BY <1>2, SameRequest
  <2>. QED BY <2>1, <2>2, NetAssumption, SP!RequestWaits DEF NetAssumption, SP!ReqPhase
<1>6. sTpc \notin {"eof2", "arm2", "judge"}
  BY <1>4 DEF S!Phase
<1>. QED
  BY <1>0, <1>1, <1>2, <1>3, <1>4, <1>5, <1>6
  DEF NetInv, LinkInv, SenderLife, ReceiverLife,
     NothingYet, PassInv, SentInv, EofInv, CaughtInv, ChaseInv, ClockDue, Pending, Announced,
     Delivered, Failed, ReceiverFailed, SenderFacts, ReceiverFacts, rcvVars

(* A write brings the packet written, or nothing, and displaces none.        *)
LEMMA WriteKeeps ==
  ASSUME NetIInv, HalvesInv', rRcvEnabled', UNCHANGED rTotPkts,
         NEW pkt \in 1..MaxPkts, NEW at \in Nat, NEW ok \in BOOLEAN, R!WriteBlock(pkt, at, ok)
  PROVE  /\ R!Saved \subseteq R!Saved' /\ R!Saved' \subseteq R!Saved \cup {pkt}
         /\ rTpc' \in {"cmp", "done"}
<1>1. RP!TypeOK /\ RP!FileInv'
  BY DEF NetIInv, HalvesInv, RP!IInv, RP!DataInv
<1>2. RP!WriteBlock(pkt, at, ok)
  BY DEF R!WriteBlock, RP!WriteBlock
<1>3. \/ RP!Saved' = RP!Saved
      \/ \E k \in (1..rTotPkts) \ RP!Saved : RP!Saved' = RP!Saved \cup {k}
  BY <1>1, <1>2, NetAssumption, RP!WriteBringsOne DEF NetAssumption, RP!EofPhase, RP!Pkts
<1>4. RP!Saved' \subseteq RP!Saved \cup {pkt}
  <2>1. rBlock \in [1..MaxPkts -> 0..RP!Alien] /\ rTotPkts \in 0..MaxPkts
    BY <1>1 DEF RP!TypeOK, RP!TypeFile, RP!TypeCounters, RP!Pkts
  <2>2. rBlock' = rBlock \/ rBlock' = [rBlock EXCEPT ![at] = pkt]
    BY DEF R!WriteBlock
  <2>. QED BY <2>1, <2>2, NetAssumption DEF RP!Saved, NetAssumption
<1>5. rTpc' \in {"cmp", "done"}
  BY DEF R!WriteBlock
<1>. QED BY <1>3, <1>4, <1>5, SameReceiver DEF R!Saved, RP!Saved

(* A packet is lost. *)
LEMMA LossKeeps ==
  ASSUME NetIInv, NEW k \in 1..MaxPkts, Lose(k)
  PROVE  NetInv'
<1>1. NetInv /\ UNCHANGED <<sndVars, rcvVars, toSnd, toRcv>> /\ air' = air \ {k}
  BY DEF NetIInv, Lose
<1>2. R!Saved' = R!Saved
  BY <1>1, SavedSame DEF rcvVars
<1>. QED BY <1>1, <1>2
  DEF NetInv, LinkInv, SenderLife, ReceiverLife, NothingYet, PassInv, SentInv, EofInv, CaughtInv,
      ChaseInv, ClockDue, Pending, Announced, Delivered, Failed, ReceiverFailed, rcvVars, sndVars

(* What a step of the receiver's thread has to show. *)
LEMMA ThreadKeeps ==
  ASSUME NetInv, UNCHANGED <<sndVars, toSnd, toRcv>>, air' \subseteq air,
         rReceiving, rTpc \notin {"none", "done"},
         UNCHANGED <<rTotPkts, rRcvEnabled, rReceiving, rAbort, rPc>>,
         R!Saved \subseteq R!Saved', R!Saved' \subseteq sSent,
         R!Saved' \subseteq 1..rTotPkts,
         rTpc' # "none", rComplete' => rTpc' = "done",
         rTpc' = "gap" => rTpkt'.data \in sSent,
         rCurSeq = rTotPkts /\ rTpc \notin {"gap", "gapfail"} =>
           rTpc' = "done" \/ (rCurSeq' = rTotPkts /\ rTpc' \notin {"gap", "gapfail"})
  PROVE  NetInv'
<1>1. NetInv
  OBVIOUS
<1>. USE <1>1 DEF NetInv, Announced, Delivered, Failed, ReceiverFailed, sndVars
<1>2. LinkInv' /\ SenderLife' /\ ReceiverLife' /\ NothingYet' /\ PassInv' /\ SentInv'
  BY DEF LinkInv, SenderLife, ReceiverLife, NothingYet, PassInv, SentInv
<1>3. EofInv' /\ CaughtInv'
  BY DEF EofInv, CaughtInv
<1>4. (Delivered => Delivered') /\ UNCHANGED <<Pending, ClockDue>> /\ ~Failed
  <2>1. rTotPkts = sTotPkts
    BY DEF ReceiverLife
  <2>. QED BY <2>1 DEF Pending, ClockDue
<1>5. ChaseInv'
  BY <1>4 DEF ChaseInv
<1>. QED BY <1>2, <1>3, <1>5

LEMMA ReceiveKeeps ==
  ASSUME NetIInv, HalvesInv', NEW k \in 1..MaxPkts, Receive(k)
  PROVE  NetInv'
<1>. DEFINE m == [seq |-> k, data |-> k]
<1>1. NetInv /\ ReceiverFacts
  BY ReceiverKnown DEF NetIInv, NetInv
<1>2. /\ k \in air /\ air' = air \ {k} /\ UNCHANGED <<sndVars, toSnd, toRcv>>
      /\ \/ R!SaveIgnored(m)
         \/ \E ok \in Outcomes : R!SaveLate(m, ok) \/ R!SaveNext(m, ok)
         \/ \E i \in 1..k : R!SaveGap(m, i)
  BY DEF Receive
<1>3. R!Accepted(m) /\ m.seq = k /\ m.data = k
  BY <1>2 DEF R!SaveIgnored, R!SaveLate, R!SaveNext, R!SaveGap
<1>4. rTpc = "read" /\ rReceiving /\ ~rAbort /\ k <= rTotPkts
  BY <1>3 DEF R!Accepted, R!Reading, R!OnWire
<1>5. rRcvEnabled /\ k \in sSent /\ R!Saved \subseteq sSent /\ ~rComplete
  BY <1>1, <1>2, <1>4 DEF NetInv, ReceiverLife, SentInv
<1>6. UNCHANGED <<rTotPkts, rRcvEnabled, rReceiving, rAbort, rPc, rCurSeq, rComplete>>
  BY <1>2 DEF R!SaveIgnored, R!SaveLate, R!SaveNext, R!SaveGap, R!member, R!ctrl
<1>7. R!Saved' \subseteq 1..rTotPkts
  BY <1>6 DEF R!Saved
<1>. HIDE DEF m
<1>8. CASE R!SaveIgnored(m)
  <2>1. rTpc' = "chk" /\ R!Saved' = R!Saved
    BY <1>8, SavedSame DEF R!SaveIgnored, R!file
  <2>. QED BY <1>1, <1>2, <1>4, <1>5, <1>6, <1>7, <2>1, ThreadKeeps
<1>9. ASSUME NEW ok \in Outcomes, R!SaveLate(m, ok) \/ R!SaveNext(m, ok)
      PROVE  NetInv'
  <2>1. PICK at \in Nat : R!WriteBlock(k, at, ok)
    BY <1>1, <1>3, <1>9 DEF R!SaveLate, R!SaveNext, ReceiverFacts
  <2>2. ok \in BOOLEAN
    BY NetAssumption DEF NetAssumption, Outcomes
  <2>3. /\ R!Saved \subseteq R!Saved' /\ R!Saved' \subseteq R!Saved \cup {k}
        /\ rTpc' \in {"cmp", "done"}
    BY <1>5, <1>6, <2>1, <2>2, WriteKeeps
  <2>. QED BY <1>1, <1>2, <1>4, <1>5, <1>6, <1>7, <2>3, ThreadKeeps
<1>10. ASSUME NEW i \in 1..k, R!SaveGap(m, i)
       PROVE  NetInv'
  <2>1. /\ k > rCurSeq + 1 /\ rTpkt' = m /\ rTpc' \in {"gap", "gapfail"} /\ UNCHANGED rBlock
    BY <1>3, <1>10 DEF R!SaveGap
  <2>2. R!Saved' = R!Saved
    BY <1>6, <2>1, SavedSame
  <2>3. rCurSeq # rTotPkts
    BY <1>1, <1>4, <2>1 DEF ReceiverFacts
  <2>. QED BY <1>1, <1>2, <1>3, <1>4, <1>5, <1>6, <1>7, <2>1, <2>2, <2>3, ThreadKeeps
<1>. QED BY <1>2, <1>8, <1>9, <1>10

LEMMA ReceiverKeeps ==
  ASSUME NetIInv, HalvesInv', ReceiverSteps
  PROVE  NetInv'
<1>1. NetInv /\ ReceiverFacts /\ UNCHANGED <<sndVars, links>>
  BY ReceiverKnown DEF NetIInv, NetInv, ReceiverSteps
<1>2. UNCHANGED <<rTotPkts, rRcvEnabled, rReceiving, rAbort, rPc>>
  BY DEF ReceiverSteps, R!ThreadTop, R!GapFails, R!CompareSeq, R!AdvanceSeq, R!CheckComplete,
         R!SaveAfterGap, R!member, R!ctrl
<1>3. rReceiving /\ rRcvEnabled /\ ~rAbort /\ ~rComplete /\ R!Saved \subseteq sSent
      /\ rTpc \notin {"none", "done"} /\ R!Saved' \subseteq 1..rTotPkts
  <2>1. rTpc \notin {"none", "done"}
    BY DEF ReceiverSteps, R!ThreadTop, R!GapFails, R!CompareSeq, R!AdvanceSeq, R!CheckComplete,
           R!SaveAfterGap
  <2>2. R!Saved' \subseteq 1..rTotPkts
    BY <1>2 DEF R!Saved
  <2>. QED BY <1>1, <2>1, <2>2 DEF NetInv, ReceiverLife, SentInv
<1>4. CASE R!ThreadTop \/ R!GapFails \/ R!CompareSeq \/ R!CheckComplete
  <2>1. /\ rTpc' \in {"read", "set", "chk", "top", "done"} /\ rCurSeq' = rCurSeq
        /\ rComplete' => rTpc' = "done"
    BY <1>3, <1>4 DEF R!ThreadTop, R!GapFails, R!CompareSeq, R!CheckComplete, R!member
  <2>2. R!Saved' = R!Saved
    BY <1>4, SavedSame DEF R!ThreadTop, R!GapFails, R!CompareSeq, R!CheckComplete, R!file
  <2>. QED BY <1>1, <1>2, <1>3, <2>1, <2>2, ThreadKeeps DEF links
<1>5. CASE R!AdvanceSeq
  <2>1. rTpc = "set" /\ rTpc' = "chk" /\ UNCHANGED rComplete
    BY <1>5 DEF R!AdvanceSeq, R!member
  <2>2. R!Saved' = R!Saved
    BY <1>5, SavedSame DEF R!AdvanceSeq, R!file
  <2>3. rCurSeq # rTotPkts
    BY <1>1, <1>3, <2>1 DEF ReceiverFacts, Works
  <2>. QED BY <1>1, <1>2, <1>3, <2>1, <2>2, <2>3, ThreadKeeps DEF links
<1>6. ASSUME NEW ok \in Outcomes, R!SaveAfterGap(ok)
      PROVE  NetInv'
  <2>1. rTpc = "gap" /\ R!WriteBlock(rTpkt.data, rFlen + 1, ok) /\ UNCHANGED rComplete
    BY <1>3, <1>6 DEF R!SaveAfterGap, R!member
  <2>2. ok \in BOOLEAN /\ rTpkt.data \in 1..MaxPkts /\ rTpkt.data \in sSent /\ rFlen + 1 \in Nat
    <3>1. ok \in BOOLEAN
      BY NetAssumption DEF NetAssumption, Outcomes
    <3>2. rTpkt.data \in 1..MaxPkts /\ rFlen \in Nat
      BY <1>1, <1>3, <2>1 DEF ReceiverFacts, Works
    <3>3. rTpkt.data \in sSent
      BY <1>1, <2>1 DEF NetInv, SentInv
    <3>. QED BY <3>1, <3>2, <3>3
  <2>3. /\ R!Saved \subseteq R!Saved' /\ R!Saved' \subseteq R!Saved \cup {rTpkt.data}
        /\ rTpc' \in {"cmp", "done"}
    BY <1>2, <1>3, <2>1, <2>2, WriteKeeps
  <2>. QED BY <1>1, <1>2, <1>3, <2>1, <2>2, <2>3, ThreadKeeps DEF links
<1>. QED BY <1>4, <1>5, <1>6 DEF ReceiverSteps

(* Where nothing is missing and everything is known of, the file is whole. *)
LEMMA NothingMissing ==
  ASSUME NetIInv, Announced, rLost = <<>>, toRcv = 0
  PROVE  Delivered \/ Failed
<1>1. NetInv /\ ReceiverFacts
  BY ReceiverKnown DEF NetIInv, NetInv
<1>2. rReceiving /\ rRcvEnabled /\ rTotPkts = sTotPkts /\ rTpc # "none"
  BY <1>1 DEF NetInv, NothingYet, ReceiverLife, Announced
<1>3. rTpc = "done" \/ (rCurSeq = rTotPkts /\ rTpc \notin {"gap", "gapfail"})
  BY <1>1 DEF NetInv, CaughtInv
<1>. QED BY <1>1, <1>2, <1>3 DEF ReceiverFacts, Works, Delivered, Failed, ReceiverFailed

(* The message about the end of the file is taken in. *)
LEMMA EofKeeps ==
  ASSUME NetIInv, TakeEof
  PROVE  NetInv'
<1>1. NetInv /\ ReceiverFacts /\ UNCHANGED <<sndVars, air, toSnd>>
  BY ReceiverKnown DEF NetIInv, NetInv, TakeEof
<1>2. toRcv \in Nat \ {0} /\ toRcv' = toRcv - 1 /\ Announced
  BY <1>1 DEF NetInv, LinkInv, EofInv, TakeEof
<1>3. rReceiving /\ rRcvEnabled /\ rTotPkts = sTotPkts /\ rTpc # "none" /\ ~rAbort
  BY <1>1, <1>2 DEF NetInv, NothingYet, ReceiverLife, Announced
<1>. USE DEF NetInv, LinkInv, SenderLife, ReceiverLife, NothingYet, PassInv, SentInv, EofInv,
             CaughtInv, ChaseInv, ClockDue, Announced, Delivered, Failed, ReceiverFailed, sndVars
<1>4. CASE R!NotifyEOF
  <2>1. /\ rTpc \in {"top", "read", "chk"}
        /\ rCurSeq' = (IF rCurSeq < rTotPkts THEN rTotPkts ELSE rCurSeq)
        /\ rPc' = [rPc EXCEPT !["irm"] = "eofwait"]
        /\ UNCHANGED <<rTotPkts, rRcvEnabled, rReceiving, rAbort, rComplete, rTpc, rTpkt, rBlock>>
    BY <1>4 DEF R!NotifyEOF, R!Phase, R!Goto, R!member, R!file, R!thread
  <2>2. R!Saved' = R!Saved
    BY <2>1, SavedSame
  <2>3. rCurSeq' = rTotPkts /\ rPc'["irm"] = "eofwait" /\ rPc'["ui"] = rPc["ui"]
    BY <1>1, <1>3, <2>1 DEF ReceiverFacts, Works
  <2>. QED BY <1>1, <1>2, <1>3, <2>1, <2>2, <2>3 DEF Pending
<1>5. CASE UNCHANGED rcvVars /\ R!Phase = "before"
  <2>1. rTpc = "done"
    BY <1>3, <1>5 DEF R!Phase
  <2>2. R!Saved' = R!Saved
    BY <1>5, SavedSame DEF rcvVars
  <2>3. Delivered \/ Failed
    BY <1>1, <1>3, <2>1 DEF ReceiverFacts
  <2>. QED BY <1>1, <1>2, <1>3, <1>5, <2>1, <2>2, <2>3 DEF rcvVars
<1>6. CASE UNCHANGED rcvVars /\ R!Phase = "settled" /\ rLost = <<>> /\ rCurSeq >= rTotPkts
  <2>1. rTpc \in {"top", "read", "chk"}
    BY <1>6 DEF R!Phase
  <2>2. R!Saved' = R!Saved
    BY <1>6, SavedSame DEF rcvVars
  <2>3. rCurSeq = rTotPkts /\ Delivered
    BY <1>1, <1>3, <1>6, <2>1 DEF ReceiverFacts, Works
  <2>. QED BY <1>1, <1>2, <1>3, <1>6, <2>1, <2>2, <2>3 DEF rcvVars
<1>. QED BY <1>4, <1>5, <1>6 DEF TakeEof

(* The receiver asks, or has nothing to ask for. *)
LEMMA AskKeeps ==
  ASSUME NetIInv, HalvesInv', Ask
  PROVE  NetInv'
<1>1. NetInv /\ ReceiverFacts /\ UNCHANGED <<sndVars, air, toRcv>>
  BY ReceiverKnown DEF NetIInv, NetInv, Ask
<1>2. /\ UNCHANGED <<rCurSeq, rTotPkts, rLost, rRcvEnabled, rReceiving, rAbort, rComplete, rTpc, rTpkt, rBlock>>
      /\ rPc["irm"] \in {"eofwait", "eofreq"}
      /\ rPc["irm"] = "eofwait" /\ ~rAbort /\ rLost # <<>> => rPc' = [rPc EXCEPT !["irm"] = "eofreq"]
      /\ \/ rPc' = [rPc EXCEPT !["irm"] = "idle"]
         \/ rPc' = [rPc EXCEPT !["irm"] = "eofreq"]
         \/ rPc' = rPc /\ rPc["irm"] = "eofreq"
  BY DEF Ask, R!RequestFirst, R!RequestNext, R!Goto, R!member, R!file, R!thread
<1>3. /\ rPc'["irm"] \in {"idle", "eofreq"} /\ rPc'["ui"] = rPc["ui"]
      /\ rPc["irm"] = "eofwait" /\ ~rAbort /\ rLost # <<>> => rPc'["irm"] = "eofreq"
  BY <1>1, <1>2 DEF ReceiverFacts
<1>4. R!Saved' = R!Saved
  BY <1>2, SavedSame
<1>5. toSnd' \in Seq((0..MaxPkts) \X (0..MaxPkts)) /\ (toSnd # <<>> => toSnd' # <<>>)
      /\ (rPc'["irm"] = "eofreq" => toSnd' # <<>>)
  <2>1. rReq' \in [pkti : 0..MaxPkts, pktf : 0..MaxPkts, seq : 0..MaxPkts]
    BY DEF HalvesInv, RP!IInv, RP!TypeOK, RP!TypeControl
  <2>2. <<rReq'.pkti, rReq'.pktf>> \in (0..MaxPkts) \X (0..MaxPkts)
    BY <2>1
  <2>3. toSnd' = (IF rPc'["irm"] = "eofreq" THEN Append(toSnd, <<rReq'.pkti, rReq'.pktf>>) ELSE toSnd)
        /\ toSnd \in Seq((0..MaxPkts) \X (0..MaxPkts))
    BY <1>1 DEF Ask, NetInv, LinkInv
  <2>4. /\ Append(toSnd, <<rReq'.pkti, rReq'.pktf>>) \in Seq((0..MaxPkts) \X (0..MaxPkts))
        /\ Append(toSnd, <<rReq'.pkti, rReq'.pktf>>) # <<>>
    BY <2>2, <2>3, Appended
  <2>. QED BY <2>3, <2>4
<1>6. Announced /\ rReceiving /\ ~rAbort
  BY <1>1, <1>2 DEF NetInv, EofInv, NothingYet, ReceiverLife, Announced
<1>7. ChaseInv'
  <2>1. Pending \/ Delivered \/ Failed => Pending' \/ Delivered' \/ Failed'
    <3>1. CASE rPc["irm"] = "eofwait" /\ rLost = <<>> /\ toRcv = 0
      BY <1>1, <1>2, <1>4, <1>6, <3>1, NothingMissing DEF Delivered, Failed, ReceiverFailed, sndVars
    <3>2. CASE ~(rPc["irm"] = "eofwait" /\ rLost = <<>> /\ toRcv = 0)
      BY <1>1, <1>2, <1>3, <1>4, <1>5, <1>6, <3>2
         DEF Pending, Delivered, Failed, ReceiverFailed, sndVars, NetInv, LinkInv
    <3>. QED BY <3>1, <3>2
  <2>. QED BY <1>1, <1>2, <1>4, <2>1 DEF NetInv, ChaseInv, ClockDue, Delivered, Failed,
              ReceiverFailed, sndVars
<1>. QED
  BY <1>1, <1>2, <1>3, <1>4, <1>5, <1>6, <1>7
  DEF NetInv, LinkInv, SenderLife, ReceiverLife, NothingYet, PassInv, SentInv, EofInv,
      CaughtInv, Announced, sndVars

-----------------------------------------------------------------------------
(* The theorems. *)

LEMMA NetInitially == NetInit => NetIInv
<1>. SUFFICES ASSUME NetInit PROVE NetIInv
  OBVIOUS
<1>1. SP!TypeOK /\ SP!ClockInv
  BY SameSender, NetAssumption, SP!InitType, SP!ClockInit DEF NetInit, NetAssumption, SP!ReqPhase
<1>2. RP!IInv
  BY SameReceiver, NetAssumption, RP!InitIInv DEF NetInit, NetAssumption, RP!EofPhase
<1>3. NetInv
  <2>. USE DEF NetInit, S!Init, R!Init
  <2>1. LinkInv /\ SenderLife /\ ReceiverLife /\ NothingYet
    BY DEF LinkInv, SenderLife, ReceiverLife, NothingYet, S!Controllers, R!Controllers
  <2>2. PassInv /\ SentInv /\ EofInv /\ CaughtInv
    BY DEF PassInv, SentInv, EofInv, CaughtInv, Announced, R!Controllers
  <2>3. ChaseInv
    BY DEF ChaseInv, ClockDue
  <2>. QED BY <2>1, <2>2, <2>3 DEF NetInv
<1>. QED BY <1>1, <1>2, <1>3 DEF NetIInv, HalvesInv

LEMMA NetStutter == NetIInv /\ UNCHANGED netVars => NetIInv'
<1>. SUFFICES ASSUME NetIInv, UNCHANGED netVars PROVE NetIInv'
  OBVIOUS
<1>1. UNCHANGED <<sndVars, rcvVars, air, toSnd, toRcv>>
  BY DEF netVars, links
<1>2. SP!TypeOK' /\ SP!ClockInv' /\ RP!IInv'
  <2>1. [SP!Next]_(SP!vars) /\ [RP!Next]_(RP!vars)
    BY <1>1, IdleSender, IdleReceiver, SameSender, SameReceiver
  <2>. QED BY <2>1, Premises, NetAssumption, SP!TypeStep, SP!ClockStep, RP!NextIInv
           DEF NetIInv, HalvesInv, NetAssumption, SP!ReqPhase, RP!EofPhase
<1>3. R!Saved' = R!Saved
  BY <1>1, SavedSame DEF rcvVars
<1>4. NetInv'
  BY <1>1, <1>3
  DEF NetIInv, NetInv, LinkInv, SenderLife, ReceiverLife, NothingYet, PassInv, SentInv, EofInv,
      CaughtInv, ChaseInv, ClockDue, Pending, Announced, Delivered, Failed, ReceiverFailed,
      rcvVars, sndVars
<1>. QED BY <1>2, <1>4 DEF NetIInv, HalvesInv

LEMMA NetStep == NetIInv /\ [NetNext]_netVars => NetIInv'
<1>. SUFFICES ASSUME NetIInv, NetNext PROVE NetIInv'
  BY NetStutter
<1>1. HalvesInv'
  BY HalvesStep
<1>2. NetInv'
  BY <1>1, BeginKeeps, SenderKeeps, RequestKeeps, LossKeeps, ReceiveKeeps, ReceiverKeeps,
     EofKeeps, AskKeeps DEF NetNext, ReceiverThread
<1>. QED BY <1>1, <1>2 DEF NetIInv

LEMMA NetInvariance == NetSpec => []NetIInv
<1>. QED BY NetInitially, NetStep, PTL DEF NetSpec

LEMMA NetConsequences == NetIInv => EndMeansDelivered /\ SuccessIsTheFile
<1>. SUFFICES ASSUME NetIInv PROVE EndMeansDelivered /\ SuccessIsTheFile
  OBVIOUS
<1>1. NetInv /\ ReceiverFacts
  BY ReceiverKnown DEF NetIInv, NetInv
<1>2. EndMeansDelivered
  BY <1>1 DEF EndMeansDelivered, NetInv, ChaseInv, Delivered, Failed
<1>3. SuccessIsTheFile
  <2>. SUFFICES ASSUME rComplete PROVE R!Saved = 1..sTotPkts /\ sSent = 1..sTotPkts
    BY DEF SuccessIsTheFile
  <2>1. rRcvEnabled /\ sSndEnabled /\ rTotPkts = sTotPkts
    BY <1>1 DEF NetInv, ReceiverLife, SenderLife
  <2>. QED BY <1>1, <2>1 DEF ReceiverFacts, NetInv, SentInv, PassInv
<1>. QED BY <1>2, <1>3

(* The sending half in the composition behaves as the engine on its own:    *)
(* every step of the two halves, of the server and of the network between    *)
(* them is a step of it, or does not touch it.                               *)
THEOREM ImplementsSender == NetSpec => S!Spec
<1>1. NetInit => S!Init
  BY DEF NetInit
<1>2. NetIInv /\ [NetNext]_netVars => [S!Next]_(S!vars)
  BY SenderStep, IdleSender DEF NetIInv, NetInv, netVars
<1>. QED BY <1>1, <1>2, NetInvariance, PTL DEF NetSpec, S!Spec

(* So does the receiving half, whatever packets the network loses or lets    *)
(* overtake each other.                                                      *)
THEOREM ImplementsReceiver == NetSpec => R!Spec
<1>1. NetInit => R!Init
  BY DEF NetInit
<1>2. NetIInv /\ [NetNext]_netVars => [R!Next]_(R!vars)
  BY ReceiverStep, IdleReceiver DEF NetIInv, NetInv, netVars
<1>. QED BY <1>1, <1>2, NetInvariance, PTL DEF NetSpec, R!Spec

(* What the receiver reports as received is the file: every packet the       *)
(* sender has numbered was written at its place (XFileTransferTCPRX).        *)
THEOREM FileArrives == NetSpec => []SuccessIsTheFile
<1>. QED BY NetInvariance, NetConsequences, PTL

(* A sender whose clock has run out without another request leaves a         *)
(* receiver with the whole file, unless its reception broke down             *)
(* (XFTPC_SNDEND).                                                           *)
THEOREM NotEndedBefore == NetSpec => []EndMeansDelivered
<1>. QED BY NetInvariance, NetConsequences, PTL
=============================================================================
