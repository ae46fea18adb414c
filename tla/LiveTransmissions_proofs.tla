---------------------- MODULE LiveTransmissions_proofs ----------------------
(***************************************************************************)
(* Proofs about LiveTransmissions, for every number of media and of events *)
(* that wait: the types, that frames have a place, and that no handler     *)
(* follows a pointer to a transmission that was deleted.                   *)
(***************************************************************************)
EXTENDS LiveTransmissions, SequenceTheorems, TLAPS

(* An active transmission has a place to show its frames, and only an active *)
(* one asks for frames.                                                      *)
PlaceInv ==
  \A i \in Ids : /\ transm[i].active => transm[i].sink
                 /\ transm[i].running => transm[i].active

Word == {"part", "voice"}
IsWord(e)       == e.what \in Word
Points(e, i)    == e.what = "alive" /\ e.id = i
PointsAstray(e) == e.what = "alive" /\ e.live = FALSE

(* We are let into a channel once, and are not in one meanwhile. *)
JoinsOnce(q, on) ==
  \A m \in 1..Len(q) : q[m].what = "join" =>
    ~on /\ \A n \in 1..Len(q) : q[n].what = "join" => n = m

(* While the server's word about a user waits his media are quiet, and what  *)
(* they have reported comes before it.                                       *)
WordIsLast(q, media) ==
  \A m \in 1..Len(q) : IsWord(q[m]) =>
    /\ \A k \in Kinds : <<k, q[m].id>> \notin media
    /\ \A n \in 1..Len(q) : Points(q[n], q[m].id) => n < m

(* A pointer that has gone astray comes to a handler that is not enabled. *)
AstrayIgnored(q, on) ==
  \A n \in 1..Len(q) : PointsAstray(q[n]) =>
    ~on /\ \A m \in 1..Len(q) : q[m].what = "join" => n < m

Orderly(q, on, media) == JoinsOnce(q, on) /\ WordIsLast(q, media) /\ AstrayIgnored(q, on)

OrderInv == Orderly(queue, enabled, playing) /\ wild = FALSE

-----------------------------------------------------------------------------
(* Sequences of events. *)

(* What is left when the first is taken. *)
LEMMA TailFacts ==
  ASSUME NEW q \in Seq(Event), q # <<>>
  PROVE  /\ q[1] \in Event /\ Tail(q) \in Seq(Event)
         /\ Len(q) \in Nat /\ Len(q) >= 1 /\ Len(Tail(q)) = Len(q) - 1
         /\ \A n \in 1..Len(Tail(q)) : Tail(q)[n] = q[n + 1]
<1>1. Len(q) \in Nat /\ Len(q) >= 1
  BY EmptySeq, LenProperties, SMT
<1>2. q[1] \in Event
  BY <1>1, ElementOfSeq, SMT
<1>3. Tail(q) \in Seq(Event) /\ Len(Tail(q)) = Len(q) - 1
      /\ \A n \in 1..Len(Tail(q)) : Tail(q)[n] = q[n + 1]
  BY HeadTailProperties
<1> QED BY <1>1, <1>2, <1>3

(* What is there when one is posted. *)
LEMMA AppendFacts ==
  ASSUME NEW q \in Seq(Event), NEW e \in Event
  PROVE  /\ Append(q, e) \in Seq(Event)
         /\ Len(q) \in Nat /\ Len(Append(q, e)) = Len(q) + 1
         /\ \A n \in 1..Len(q) : Append(q, e)[n] = q[n]
         /\ Append(q, e)[Len(q) + 1] = e
  OBVIOUS

(* A pointer gone astray is still the pointer of its medium. *)
LEMMA AstrayFacts ==
  ASSUME NEW e \in Event, e.what = "alive"
  PROVE  LET f == [e EXCEPT !.live = FALSE]
         IN  f \in Event /\ f.what = "alive" /\ f.id = e.id /\ f.live = FALSE
<1>1. e \in [what : {"alive"}, id : Ids, kind : Kinds, live : BOOLEAN]
  BY DEF Event
<1> QED BY <1>1 DEF Event

(* The events stay where they are; the pointers to the members of S go astray. *)
LEMMA DanglingFacts ==
  ASSUME NEW q \in Seq(Event), NEW S
  PROVE  /\ Dangling(q, S) \in Seq(Event) /\ Len(Dangling(q, S)) = Len(q)
         /\ \A n \in 1..Len(q) :
              /\ Dangling(q, S)[n].what = q[n].what /\ Dangling(q, S)[n].id = q[n].id
              /\ PointsAstray(Dangling(q, S)[n])
                   => PointsAstray(q[n]) \/ (q[n].what = "alive" /\ q[n].id \in S)
<1> DEFINE d == Dangling(q, S)
<1>1. Len(q) \in Nat /\ \A n \in 1..Len(q) : q[n] \in Event
  BY LenProperties, ElementOfSeq
<1>2. \A n \in 1..Len(q) :
        d[n] = IF q[n].what = "alive" /\ q[n].id \in S
                 THEN [q[n] EXCEPT !.live = FALSE] ELSE q[n]
  BY DEF Dangling
<1>3. ASSUME NEW n \in 1..Len(q)
      PROVE  /\ d[n] \in Event /\ d[n].what = q[n].what /\ d[n].id = q[n].id
             /\ PointsAstray(d[n])
                  => PointsAstray(q[n]) \/ (q[n].what = "alive" /\ q[n].id \in S)
  <2>1. CASE q[n].what = "alive" /\ q[n].id \in S
    <3>1. d[n] = [q[n] EXCEPT !.live = FALSE]
      BY <1>2, <2>1
    <3> QED BY <1>1, <2>1, <3>1, AstrayFacts, Zenon
  <2>2. CASE ~(q[n].what = "alive" /\ q[n].id \in S)
    BY <1>1, <1>2, <2>2
  <2> QED BY <2>1, <2>2
<1>4. d \in Seq(Event) /\ Len(d) = Len(q)
  <2>1. d \in [1..Len(q) -> Event]
    BY <1>3 DEF Dangling
  <2> QED BY <1>1, <2>1, SMT
<1> QED BY <1>3, <1>4

(* One less leaves the others in order. *)
LEMMA TailOrderly ==
  ASSUME NEW q \in Seq(Event), q # <<>>, NEW on, NEW media, Orderly(q, on, media)
  PROVE  Orderly(Tail(q), on, media)
<1> DEFINE t == Tail(q)
<1>1. /\ Len(q) \in Nat /\ Len(q) >= 1 /\ Len(t) = Len(q) - 1
      /\ \A n \in 1..Len(t) : t[n] = q[n + 1]
  BY TailFacts
<1> HIDE DEF t
<1>2. \A n \in 1..Len(t) : n + 1 \in 1..Len(q)
  BY <1>1
<1>3. JoinsOnce(t, on)
  <2>1. JoinsOnce(q, on)
    BY DEF Orderly
  <2>2. SUFFICES ASSUME NEW m \in 1..Len(t), t[m].what = "join"
                 PROVE  ~on /\ \A n \in 1..Len(t) : t[n].what = "join" => n = m
    BY DEF JoinsOnce
  <2>3. ~on /\ \A n \in 1..Len(q) : q[n].what = "join" => n = m + 1
    BY <1>1, <1>2, <2>1, <2>2, Zenon DEF JoinsOnce
  <2>4. ASSUME NEW n \in 1..Len(t), t[n].what = "join" PROVE n = m
    <3>1. n + 1 = m + 1
      BY <1>1, <1>2, <2>3, <2>4, Zenon
    <3> QED BY <3>1, <1>1
  <2> QED BY <2>3, <2>4
<1>4. WordIsLast(t, media)
  <2>1. WordIsLast(q, media)
    BY DEF Orderly
  <2>2. SUFFICES ASSUME NEW m \in 1..Len(t), IsWord(t[m])
                 PROVE  /\ \A k \in Kinds : <<k, t[m].id>> \notin media
                        /\ \A n \in 1..Len(t) : Points(t[n], t[m].id) => n < m
    BY DEF WordIsLast
  <2>3. /\ \A k \in Kinds : <<k, t[m].id>> \notin media
        /\ \A n \in 1..Len(q) : Points(q[n], t[m].id) => n < m + 1
    <3>1. t[m] = q[m + 1] /\ m + 1 \in 1..Len(q)
      BY <1>1, <1>2
    <3>2. IsWord(q[m + 1])
      BY <2>2, <3>1
    <3> QED BY <2>1, <3>1, <3>2, Zenon DEF WordIsLast
  <2>4. ASSUME NEW n \in 1..Len(t), Points(t[n], t[m].id) PROVE n < m
    <3>1. n + 1 < m + 1
      BY <1>1, <1>2, <2>3, <2>4, Zenon
    <3> QED BY <3>1, <1>1
  <2> QED BY <2>3, <2>4
<1>5. AstrayIgnored(t, on)
  <2>1. AstrayIgnored(q, on)
    BY DEF Orderly
  <2>2. SUFFICES ASSUME NEW n \in 1..Len(t), PointsAstray(t[n])
                 PROVE  ~on /\ \A m \in 1..Len(t) : t[m].what = "join" => n < m
    BY DEF AstrayIgnored
  <2>3. ~on /\ \A m \in 1..Len(q) : q[m].what = "join" => n + 1 < m
    <3>1. t[n] = q[n + 1] /\ n + 1 \in 1..Len(q)
      BY <1>1, <1>2
    <3>2. PointsAstray(q[n + 1])
      BY <2>2, <3>1
    <3> QED BY <2>1, <3>1, <3>2, Zenon DEF AstrayIgnored
  <2>4. ASSUME NEW m \in 1..Len(t), t[m].what = "join" PROVE n < m
    <3>1. n + 1 < m + 1
      BY <1>1, <1>2, <2>3, <2>4, Zenon
    <3> QED BY <3>1, <1>1
  <2> QED BY <2>3, <2>4
<1> QED BY <1>3, <1>4, <1>5 DEF Orderly, t

(* So does one more, if it comes when it may. *)
LEMMA AppendOrderly ==
  ASSUME NEW q \in Seq(Event), NEW e \in Event, NEW on, NEW media, Orderly(q, on, media),
         e.what = "join" => ~on /\ \A n \in 1..Len(q) : q[n].what # "join",
         IsWord(e) => \A k \in Kinds : <<k, e.id>> \notin media,
         e.what = "alive" => \A n \in 1..Len(q) : IsWord(q[n]) => q[n].id # e.id,
         ~PointsAstray(e)
  PROVE  Orderly(Append(q, e), on, media)
<1> DEFINE a == Append(q, e)
<1>1. /\ Len(q) \in Nat /\ Len(a) = Len(q) + 1 /\ a[Len(q) + 1] = e
      /\ \A n \in 1..Len(q) : a[n] = q[n]
  BY AppendFacts
<1>2. \A n \in 1..Len(a) : n \in 1..Len(q) \/ (n = Len(q) + 1 /\ a[n] = e)
  BY <1>1
<1> HIDE DEF a
<1>3. JoinsOnce(a, on)
  <2>1. JoinsOnce(q, on)
    BY DEF Orderly
  <2> QED BY <1>1, <1>2, <2>1, Zenon DEF JoinsOnce
<1>4. WordIsLast(a, media)
  <2>1. WordIsLast(q, media)
    BY DEF Orderly
  <2>2. SUFFICES ASSUME NEW m \in 1..Len(a), IsWord(a[m])
                 PROVE  /\ \A k \in Kinds : <<k, a[m].id>> \notin media
                        /\ \A n \in 1..Len(a) : Points(a[n], a[m].id) => n < m
    BY DEF WordIsLast
  <2>3. CASE m \in 1..Len(q)
    <3>1. a[m] = q[m] /\ IsWord(q[m])
      BY <1>1, <2>2, <2>3
    <3>2. /\ \A k \in Kinds : <<k, a[m].id>> \notin media
          /\ \A n \in 1..Len(q) : Points(q[n], a[m].id) => n < m
      BY <2>1, <2>3, <3>1, Zenon DEF WordIsLast
    <3>3. ~Points(e, a[m].id)
      BY <2>3, <3>1 DEF Points
    <3> QED BY <1>1, <1>2, <3>2, <3>3, Zenon
  <2>4. CASE m = Len(q) + 1
    <3>1. a[m] = e
      BY <1>1, <2>4
    <3>2. \A k \in Kinds : <<k, a[m].id>> \notin media
      BY <2>2, <3>1
    <3>3. ~Points(e, e.id)
      BY <2>2, <3>1 DEF Points, IsWord, Word
    <3>4. ASSUME NEW n \in 1..Len(a), Points(a[n], a[m].id) PROVE n < m
      <4>1. n \in 1..Len(q)
        BY <1>2, <3>1, <3>3, <3>4
      <4> QED BY <1>1, <2>4, <4>1
    <3> QED BY <3>2, <3>4
  <2> QED BY <1>2, <2>3, <2>4
<1>5. AstrayIgnored(a, on)
  <2>1. AstrayIgnored(q, on)
    BY DEF Orderly
  <2>2. SUFFICES ASSUME NEW n \in 1..Len(a), PointsAstray(a[n])
                 PROVE  ~on /\ \A m \in 1..Len(a) : a[m].what = "join" => n < m
    BY DEF AstrayIgnored
  <2>3. n \in 1..Len(q) /\ PointsAstray(q[n])
    BY <1>1, <1>2, <2>2
  <2>4. ~on /\ \A m \in 1..Len(q) : q[m].what = "join" => n < m
    BY <2>1, <2>3, Zenon DEF AstrayIgnored
  <2>5. n < Len(q) + 1
    BY <1>1, <2>3
  <2> QED BY <1>1, <1>2, <2>4, <2>5, Zenon
<1> QED BY <1>3, <1>4, <1>5 DEF Orderly, a

(* Pointers may go astray where they will be ignored. *)
LEMMA DanglingOrderly ==
  ASSUME NEW q \in Seq(Event), NEW on, NEW media, Orderly(q, on, media), NEW S,
         \A n \in 1..Len(q) : q[n].what = "alive" /\ q[n].id \in S
            => ~on /\ \A m \in 1..Len(q) : q[m].what = "join" => n < m
  PROVE  Orderly(Dangling(q, S), on, media)
<1> DEFINE d == Dangling(q, S)
<1>1. /\ Len(d) = Len(q)
      /\ \A n \in 1..Len(q) :
           /\ d[n].what = q[n].what /\ d[n].id = q[n].id
           /\ PointsAstray(d[n])
                => PointsAstray(q[n]) \/ (q[n].what = "alive" /\ q[n].id \in S)
  BY DanglingFacts
<1> HIDE DEF d
<1>2. JoinsOnce(d, on)
  BY <1>1 DEF Orderly, JoinsOnce
<1>3. WordIsLast(d, media)
  BY <1>1 DEF Orderly, WordIsLast, IsWord, Points
<1>4. AstrayIgnored(d, on)
  <2>1. AstrayIgnored(q, on)
    BY DEF Orderly
  <2> QED BY <1>1, <2>1, Zenon DEF AstrayIgnored
<1> QED BY <1>2, <1>3, <1>4 DEF Orderly, d

-----------------------------------------------------------------------------
(* Types. *)

Transm == [exists : BOOLEAN, named : BOOLEAN, sink : BOOLEAN, audio : BOOLEAN,
           video : BOOLEAN, active : BOOLEAN, running : BOOLEAN]

(* What Transmission's methods make of a transmission. *)
LEMMA MethodTypes ==
  ASSUME NEW t \in Transm, NEW k \in Kinds, NEW b \in BOOLEAN
  PROVE  /\ SetAlive(t, k, b) \in Transm /\ Activate(t) \in Transm /\ Deactivate(t) \in Transm
         /\ [t EXCEPT !.sink = b] \in Transm
         /\ Nothing \in Transm
         /\ [Nothing EXCEPT !.exists = TRUE, !.sink = TRUE] \in Transm
         /\ [Nothing EXCEPT !.exists = TRUE, !.named = TRUE] \in Transm
  BY DEF Transm, Kinds, SetAlive, Activate, Deactivate, Nothing

(* What the other threads post. *)
LEMMA EventTypes ==
  ASSUME NEW i \in Ids, NEW k \in Kinds
  PROVE  /\ \A w \in {"new", "info", "part", "voice", "join"} : [what |-> w, id |-> i] \in Event
         /\ [what |-> "timeout", id |-> i, kind |-> k] \in Event
         /\ [what |-> "alive", id |-> i, kind |-> k, live |-> TRUE] \in Event
  BY DEF Event

(* An event names a medium; a timeout and a report have their kind. *)
LEMMA EventParts ==
  ASSUME NEW e \in Event
  PROVE  /\ e.id \in Ids
         /\ e.what \in {"alive", "timeout"} => e.kind \in Kinds
         /\ e.what = "alive" => e.live \in BOOLEAN
  BY DEF Event

LEMMA TypeStep ==
  ASSUME TypeOK, [Next]_vars PROVE TypeOK'
<1> USE LiveAssumption
<1>0. /\ playing \subseteq Stream /\ posted \subseteq Stream /\ timers \subseteq Stream
      /\ queue \in Seq(Event) /\ Len(queue) <= MaxQueue /\ Len(queue) \in Nat
      /\ enabled \in BOOLEAN /\ wild \in BOOLEAN
      /\ transm \in [Ids -> Transm] /\ heard \in [Ids -> {"first", "ended", "again"}]
  BY LenProperties DEF TypeOK, Transm
<1>z. SUFFICES /\ playing' \subseteq Stream /\ posted' \subseteq Stream /\ timers' \subseteq Stream
               /\ queue' \in Seq(Event) /\ Len(queue') <= MaxQueue
               /\ enabled' \in BOOLEAN /\ wild' \in BOOLEAN
               /\ transm' \in [Ids -> Transm]
               /\ heard' \in [Ids -> {"first", "ended", "again"}]
  BY DEF TypeOK, Transm
<1>a. ASSUME NEW e \in Event, Len(queue) < MaxQueue
      PROVE  Append(queue, e) \in Seq(Event) /\ Len(Append(queue, e)) <= MaxQueue
  BY <1>0, <1>a, AppendFacts
<1>t. ASSUME queue # <<>>
      PROVE  /\ Tail(queue) \in Seq(Event) /\ Len(Tail(queue)) <= MaxQueue
             /\ queue[1] \in Event /\ queue[1].id \in Ids
             /\ queue[1].what \in {"alive", "timeout"} => queue[1].kind \in Kinds
  <2>1. /\ queue[1] \in Event /\ Tail(queue) \in Seq(Event) /\ Len(Tail(queue)) = Len(queue) - 1
    BY <1>0, <1>t, TailFacts
  <2> QED BY <1>0, <2>1, EventParts
<1>d. ASSUME NEW q \in Seq(Event), Len(q) <= MaxQueue, NEW S
      PROVE  Dangling(q, S) \in Seq(Event) /\ Len(Dangling(q, S)) <= MaxQueue
  BY <1>d, DanglingFacts
<1>e. ASSUME NEW i \in Ids, End(i) \/ Hear(i) \/ UNCHANGED heard
      PROVE  heard' \in [Ids -> {"first", "ended", "again"}]
  BY <1>0, <1>e DEF End, Hear
<1>1. CASE \E k \in Kinds, i \in Ids : StartStream(k, i) \/ StopStream(k, i)
                                       \/ Register(k, i)
  BY <1>0, <1>1 DEF StartStream, StopStream, Register, Stream, kernel, app
<1>2. ASSUME NEW k \in Kinds, NEW i \in Ids, Alive(k, i) PROVE <1>z!1
  <2>1. queue' \in Seq(Event) /\ Len(queue') <= MaxQueue
    BY <1>2, <1>a, EventTypes DEF Alive, Room
  <2> QED BY <1>0, <1>2, <2>1 DEF Alive, Stream, app
<1>3. ASSUME NEW k \in Kinds, NEW i \in Ids, Check(k, i) PROVE <1>z!1
  <2>1. queue' \in Seq(Event) /\ Len(queue') <= MaxQueue
    BY <1>3, <1>a, EventTypes DEF Check, Room
  <2> QED BY <1>0, <1>3, <2>1 DEF Check, Stream, kernel, app
<1>4. ASSUME NEW i \in Ids, MediaInfo(i) \/ UserIsDone("part", i) \/ UserIsDone("voice", i) \/ Join
      PROVE  <1>z!1
  <2>1. queue' \in Seq(Event) /\ Len(queue') <= MaxQueue
    <3>1. ASSUME NEW j \in Ids, NEW w \in {"new", "info", "part", "voice", "join"}
          PROVE  [what |-> w, id |-> j] \in Event
      BY EventTypes DEF Kinds
    <3>2. (CHOOSE j \in Ids : TRUE) \in Ids
      OBVIOUS
    <3>3. Len(queue) < MaxQueue
      BY <1>4 DEF MediaInfo, UserIsDone, Join, Room
    <3>4. \E j \in Ids, w \in {"new", "info", "part", "voice", "join"} :
            queue' = Append(queue, [what |-> w, id |-> j])
      BY <1>4, <3>2 DEF MediaInfo, UserIsDone, Join
    <3> QED BY <1>a, <3>1, <3>3, <3>4
  <2> QED BY <1>0, <1>4, <2>1 DEF MediaInfo, UserIsDone, Join, kernel, app
<1>5. CASE OnNewTransmission
  <2>1. queue[1].id \in Ids /\ queue' \in Seq(Event) /\ Len(queue') <= MaxQueue
    BY <1>5, <1>t DEF OnNewTransmission, Next1
  <2>2. transm' \in [Ids -> Transm]
    <3> DEFINE i == queue[1].id
               fresh == [Nothing EXCEPT !.exists = TRUE, !.sink = TRUE]
    <3>1. Activate(transm[i]) \in Transm /\ fresh \in Transm
      BY <1>0, <2>1, MethodTypes DEF Kinds
    <3>2. \/ transm' = transm \/ transm' = [transm EXCEPT ![i] = Activate(transm[i])]
          \/ transm' = [transm EXCEPT ![i] = fresh]
      BY <1>5, Zenon DEF OnNewTransmission
    <3> QED BY <1>0, <2>1, <3>1, <3>2
  <2>3. heard' \in [Ids -> {"first", "ended", "again"}]
    BY <1>0, <1>5, <1>e, <2>1 DEF OnNewTransmission
  <2> QED BY <1>0, <1>5, <2>1, <2>2, <2>3 DEF OnNewTransmission, kernel
<1>6. CASE OnMediaInfo
  <2>1. queue[1].id \in Ids /\ queue' \in Seq(Event) /\ Len(queue') <= MaxQueue
    BY <1>6, <1>t DEF OnMediaInfo, Next1
  <2>2. transm' \in [Ids -> Transm]
    <3> DEFINE t == transm[queue[1].id]
    <3>1. t \in Transm /\ (t.sink \/ t.active) \in BOOLEAN
      BY <1>0, <2>1 DEF Transm
    <3>2. [t EXCEPT !.sink = @ \/ t.active] \in Transm
      BY <3>1 DEF Transm
    <3> QED BY <1>0, <1>6, <2>1, <3>2, MethodTypes DEF OnMediaInfo, Kinds
  <2> QED BY <1>0, <1>6, <2>1, <2>2 DEF OnMediaInfo, kernel
<1>7. CASE OnMediaAlive
  <2>1. queue[1].id \in Ids /\ queue[1].kind \in Kinds /\ queue' \in Seq(Event) /\ Len(queue') <= MaxQueue
    BY <1>7, <1>t DEF OnMediaAlive, Next1
  <2>2. transm' \in [Ids -> Transm]
    <3>1. Activate(SetAlive(transm[queue[1].id], queue[1].kind, TRUE)) \in Transm
      BY <1>0, <2>1, MethodTypes
    <3> QED BY <1>0, <1>7, <2>1, <3>1 DEF OnMediaAlive
  <2>3. heard' \in [Ids -> {"first", "ended", "again"}]
    BY <1>0, <1>7, <1>e, <2>1 DEF OnMediaAlive
  <2> QED BY <1>0, <1>7, <2>1, <2>2, <2>3 DEF OnMediaAlive, kernel
<1>8. CASE OnMediaTimeout
  <2>1. queue[1].id \in Ids /\ queue[1].kind \in Kinds /\ queue' \in Seq(Event) /\ Len(queue') <= MaxQueue
    BY <1>8, <1>t DEF OnMediaTimeout, Next1
  <2>2. transm' \in [Ids -> Transm]
    <3> DEFINE e == queue[1]
               t == transm[e.id]
    <3>1. SetAlive(t, e.kind, FALSE) \in Transm /\ Deactivate(t) \in Transm
      BY <1>0, <2>1, MethodTypes
    <3>2. \/ transm' = transm \/ transm' = [transm EXCEPT ![e.id] = SetAlive(t, e.kind, FALSE)]
          \/ transm' = [transm EXCEPT ![e.id] = Deactivate(t)]
      BY <1>8, Zenon DEF OnMediaTimeout
    <3> QED BY <1>0, <2>1, <3>1, <3>2
  <2>3. heard' \in [Ids -> {"first", "ended", "again"}]
    BY <1>0, <1>8, <1>e, <2>1 DEF OnMediaTimeout
  <2> QED BY <1>0, <1>8, <2>1, <2>2, <2>3 DEF OnMediaTimeout, kernel
<1>9. CASE OnChannelPart
  <2>1. queue[1].id \in Ids /\ queue' \in Seq(Event) /\ Len(queue') <= MaxQueue
    BY <1>9, <1>t, <1>d DEF OnChannelPart, Next1
  <2>2. transm' \in [Ids -> Transm] /\ heard' \in [Ids -> {"first", "ended", "again"}]
    BY <1>0, <1>9, <2>1, MethodTypes DEF OnChannelPart, Kinds
  <2> QED BY <1>0, <1>9, <2>1, <2>2 DEF OnChannelPart, kernel
<1>10. CASE OnChannelUserFlags
  <2>1. queue[1].id \in Ids /\ queue' \in Seq(Event) /\ Len(queue') <= MaxQueue
    BY <1>10, <1>t DEF OnChannelUserFlags, Next1
  <2>2. transm' \in [Ids -> Transm]
    <3> DEFINE i == queue[1].id
    <3>1. Deactivate(transm[i]) \in Transm
      BY <1>0, <2>1, MethodTypes DEF Kinds
    <3>2. transm' = transm \/ transm' = [transm EXCEPT ![i] = Deactivate(transm[i])]
      BY <1>10, SMT DEF OnChannelUserFlags
    <3> QED BY <1>0, <2>1, <3>1, <3>2
  <2>3. heard' \in [Ids -> {"first", "ended", "again"}]
    BY <1>0, <1>10, <1>e, <2>1 DEF OnChannelUserFlags
  <2> QED BY <1>0, <1>10, <2>1, <2>2, <2>3 DEF OnChannelUserFlags, kernel
<1>11. CASE OnChannelJoin
  <2>1. queue' \in Seq(Event) /\ Len(queue') <= MaxQueue
    BY <1>11, <1>t DEF OnChannelJoin, Next1
  <2> QED BY <1>0, <1>11, <2>1 DEF OnChannelJoin, kernel
<1>12. CASE TerminateAllConferences
  <2>1. queue' \in Seq(Event) /\ Len(queue') <= MaxQueue
    BY <1>0, <1>12, <1>d DEF TerminateAllConferences
  <2>2. transm' \in [Ids -> Transm]
    BY <1>12, MethodTypes DEF TerminateAllConferences, Nothing, Transm
  <2> QED BY <1>0, <1>12, <2>1, <2>2 DEF TerminateAllConferences
<1>13. CASE UNCHANGED vars
  BY <1>0, <1>13 DEF vars, kernel, app
<1> QED
  BY <1>1, <1>2, <1>3, <1>4, <1>5, <1>6, <1>7, <1>8, <1>9, <1>10, <1>11, <1>12, <1>13
  DEF Next, Handler

(* Media, events and transmissions keep their types, and no more than        *)
(* MaxQueue events wait.                                                     *)
THEOREM LiveType == Spec => []TypeOK
<1>1. Init => TypeOK
  <2>1. Nothing \in Transm
    BY DEF Nothing, Transm
  <2>2. <<>> \in Seq(Event) /\ Len(<<>>) <= MaxQueue
    BY LiveAssumption
  <2> QED BY <2>1, <2>2 DEF Init, TypeOK, Transm
<1>2. TypeOK /\ [Next]_vars => TypeOK'
  BY TypeStep
<1> QED BY <1>1, <1>2, PTL DEF Spec

-----------------------------------------------------------------------------
(* Frames. *)

Placed(t) == (t.active => t.sink) /\ (t.running => t.active)

(* What the methods make of a transmission that is placed is placed. *)
LEMMA MethodsPlace ==
  ASSUME NEW t \in Transm, Placed(t), NEW k \in Kinds, NEW b \in BOOLEAN
  PROVE  /\ Placed(SetAlive(t, k, b)) /\ Placed(Activate(t)) /\ Placed(Deactivate(t))
         /\ Placed([t EXCEPT !.sink = @ \/ t.active])
         /\ Placed(Nothing) /\ Placed([Nothing EXCEPT !.exists = TRUE, !.sink = TRUE])
         /\ Placed([Nothing EXCEPT !.exists = TRUE, !.named = TRUE])
  BY DEF Transm, Kinds, SetAlive, Activate, Deactivate, Nothing, Placed

(* Each step makes of each transmission what a method makes of it. *)
LEMMA PlaceStep ==
  ASSUME TypeOK, PlaceInv, [Next]_vars PROVE PlaceInv'
<1>0. /\ transm \in [Ids -> Transm] /\ \A i \in Ids : Placed(transm[i])
      /\ queue \in Seq(Event) /\ enabled \in BOOLEAN
  BY DEF TypeOK, Transm, PlaceInv, Placed
<1>q. ASSUME queue # <<>>
      PROVE  /\ queue[1].id \in Ids
             /\ queue[1].what \in {"alive", "timeout"} => queue[1].kind \in Kinds
  BY <1>0, <1>q, TailFacts, EventParts
<1>p. ASSUME NEW i \in Ids, NEW t, transm' = [transm EXCEPT ![i] = t], Placed(t)
      PROVE  PlaceInv'
  BY <1>0, <1>p DEF PlaceInv, Placed
<1>u. ASSUME transm' = transm PROVE PlaceInv'
  BY <1>u DEF PlaceInv
<1>1. CASE OnNewTransmission
  <2> DEFINE i == queue[1].id
             fresh == [Nothing EXCEPT !.exists = TRUE, !.sink = TRUE]
  <2>1. i \in Ids
    BY <1>1, <1>q DEF OnNewTransmission, Next1
  <2>2. Placed(Activate(transm[i])) /\ Placed(fresh)
    BY <1>0, <2>1, MethodsPlace DEF Kinds
  <2>3. \/ transm' = transm \/ transm' = [transm EXCEPT ![i] = Activate(transm[i])]
        \/ transm' = [transm EXCEPT ![i] = fresh]
    BY <1>1, Zenon DEF OnNewTransmission
  <2> QED BY <1>p, <1>u, <2>1, <2>2, <2>3
<1>2. CASE OnMediaInfo
  <2> DEFINE i == queue[1].id
             t == transm[i]
             fresh == [Nothing EXCEPT !.exists = TRUE, !.named = TRUE]
  <2>1. i \in Ids
    BY <1>2, <1>q DEF OnMediaInfo, Next1
  <2>2. Placed([t EXCEPT !.sink = @ \/ t.active]) /\ Placed(fresh)
    BY <1>0, <2>1, MethodsPlace DEF Kinds
  <2>3. \/ transm' = transm \/ transm' = [transm EXCEPT ![i] = [t EXCEPT !.sink = @ \/ t.active]]
        \/ transm' = [transm EXCEPT ![i] = fresh]
    BY <1>0, <1>2, <2>1 DEF OnMediaInfo
  <2> QED BY <1>p, <1>u, <2>1, <2>2, <2>3
<1>3. CASE OnMediaAlive
  <2> DEFINE e == queue[1]
             s == SetAlive(transm[e.id], e.kind, TRUE)
  <2>1. e.id \in Ids /\ e.kind \in Kinds
    BY <1>3, <1>q DEF OnMediaAlive, Next1
  <2>2. s \in Transm /\ Placed(s)
    BY <1>0, <2>1, MethodsPlace, MethodTypes
  <2>3. Placed(Activate(s))
    BY <2>1, <2>2, MethodsPlace
  <2>4. transm' = transm \/ transm' = [transm EXCEPT ![e.id] = Activate(s)]
    BY <1>3 DEF OnMediaAlive
  <2> QED BY <1>p, <1>u, <2>1, <2>3, <2>4
<1>4. CASE OnMediaTimeout
  <2> DEFINE e == queue[1]
             t == transm[e.id]
  <2>1. e.id \in Ids /\ e.kind \in Kinds
    BY <1>4, <1>q DEF OnMediaTimeout, Next1
  <2>2. Placed(SetAlive(t, e.kind, FALSE)) /\ Placed(Deactivate(t))
    BY <1>0, <2>1, MethodsPlace
  <2>3. \/ transm' = transm \/ transm' = [transm EXCEPT ![e.id] = SetAlive(t, e.kind, FALSE)]
        \/ transm' = [transm EXCEPT ![e.id] = Deactivate(t)]
    BY <1>4, Zenon DEF OnMediaTimeout
  <2> QED BY <1>p, <1>u, <2>1, <2>2, <2>3
<1>5. CASE OnChannelPart
  <2> DEFINE i == queue[1].id
  <2>1. i \in Ids
    BY <1>5, <1>q DEF OnChannelPart, Next1
  <2>2. Placed(Nothing)
    BY DEF Nothing, Placed
  <2>3. transm' = transm \/ transm' = [transm EXCEPT ![i] = Nothing]
    BY <1>5 DEF OnChannelPart
  <2> QED BY <1>p, <1>u, <2>1, <2>2, <2>3
<1>6. CASE OnChannelUserFlags
  <2> DEFINE i == queue[1].id
  <2>1. i \in Ids
    BY <1>6, <1>q DEF OnChannelUserFlags, Next1
  <2>2. Placed(Deactivate(transm[i]))
    BY <1>0, <2>1, MethodsPlace DEF Kinds
  <2>3. transm' = transm \/ transm' = [transm EXCEPT ![i] = Deactivate(transm[i])]
    BY <1>6, SMT DEF OnChannelUserFlags
  <2> QED BY <1>p, <1>u, <2>1, <2>2, <2>3
<1>7. CASE TerminateAllConferences
  BY <1>7 DEF TerminateAllConferences, PlaceInv, Nothing
<1>8. CASE OnChannelJoin \/ Join \/ UNCHANGED vars
  BY <1>8, <1>u DEF OnChannelJoin, Join, vars, app
<1>9. CASE \E k \in Kinds, i \in Ids : \/ StartStream(k, i) \/ StopStream(k, i)
                                       \/ Alive(k, i) \/ Register(k, i) \/ Check(k, i)
  BY <1>9, <1>u DEF StartStream, StopStream, Alive, Register, Check, app
<1>10. CASE \E i \in Ids : MediaInfo(i) \/ UserIsDone("part", i) \/ UserIsDone("voice", i)
  BY <1>10, <1>u DEF MediaInfo, UserIsDone, app
<1> QED
  BY <1>1, <1>2, <1>3, <1>4, <1>5, <1>6, <1>7, <1>8, <1>9, <1>10 DEF Next, Handler

(* Frames are asked for only by a transmission that is active and has a      *)
(* place to show them, whatever the order of reports and timeouts.           *)
THEOREM FramesArePlaced == Spec => []FramesHaveAPlace
<1>1. Init => PlaceInv
  BY DEF Init, PlaceInv, Nothing
<1>2. TypeOK /\ PlaceInv /\ [Next]_vars => PlaceInv'
  BY PlaceStep
<1>3. PlaceInv => FramesHaveAPlace
  BY DEF PlaceInv, FramesHaveAPlace
<1> QED BY <1>1, <1>2, <1>3, LiveType, PTL DEF Spec

-----------------------------------------------------------------------------
(* Pointers. *)

(* The server's word about a user comes when his media have stopped. *)
InTime == "late" \notin Cases

(* Order is kept by each step. *)
LEMMA OrderStep ==
  ASSUME InTime, TypeOK, OrderInv, [Next]_vars PROVE OrderInv'
<1>0. /\ queue \in Seq(Event) /\ Len(queue) \in Nat /\ enabled \in BOOLEAN
      /\ Orderly(queue, enabled, playing) /\ wild = FALSE
      /\ JoinsOnce(queue, enabled) /\ WordIsLast(queue, playing) /\ AstrayIgnored(queue, enabled)
  BY LenProperties DEF TypeOK, OrderInv, Orderly
<1>z. SUFFICES Orderly(queue', enabled', playing') /\ wild' = FALSE
  BY DEF OrderInv
<1>t. ASSUME queue # <<>>
      PROVE  Orderly(Tail(queue), enabled, playing) /\ queue[1] \in Event /\ 1 \in 1..Len(queue)
  BY <1>0, <1>t, TailFacts, TailOrderly
<1>1. CASE \E k \in Kinds, i \in Ids : StartStream(k, i)
  <2>1. PICK k \in Kinds, i \in Ids : StartStream(k, i)
    BY <1>1
  <2>2. \A m \in 1..Len(queue) : IsWord(queue[m]) => queue[m].id # i
    BY <2>1 DEF StartStream, InTime, Done, Pending, IsWord, Word
  <2>3. playing' = playing \union {<<k, i>>} /\ UNCHANGED <<queue, enabled, wild>>
    BY <2>1 DEF StartStream, app
  <2>4. ASSUME NEW m \in 1..Len(queue), IsWord(queue[m]), NEW j \in Kinds
        PROVE  <<j, queue[m].id>> \notin playing'
    <3>1. <<j, queue[m].id>> \notin playing
      BY <1>0, <2>4, Zenon DEF WordIsLast
    <3>2. <<j, queue[m].id>> # <<k, i>>
      BY <2>2, <2>4
    <3> QED BY <2>3, <3>1, <3>2
  <2>5. WordIsLast(queue, playing')
    BY <1>0, <2>4, Zenon DEF WordIsLast
  <2> QED BY <1>0, <2>3, <2>5 DEF Orderly
<1>2. CASE \E k \in Kinds, i \in Ids : StopStream(k, i)
  <2>1. playing' \subseteq playing /\ UNCHANGED <<queue, enabled, wild>>
    BY <1>2 DEF StopStream, app
  <2>2. WordIsLast(queue, playing')
    BY <1>0, <2>1 DEF WordIsLast
  <2> QED BY <1>0, <2>1, <2>2 DEF Orderly
<1>3. CASE \E k \in Kinds, i \in Ids : Alive(k, i)
  <2>1. PICK k \in Kinds, i \in Ids : Alive(k, i)
    BY <1>3
  <2> DEFINE report == [what |-> "alive", id |-> i, kind |-> k, live |-> TRUE]
             new    == [what |-> "new", id |-> i]
  <2>2. \A m \in 1..Len(queue) : IsWord(queue[m]) => queue[m].id # i
    BY <1>0, <2>1, SMT DEF Alive, WordIsLast
  <2>3. UNCHANGED <<playing, enabled, wild>>
        /\ (queue' = Append(queue, report) \/ queue' = Append(queue, new))
    BY <2>1 DEF Alive, app
  <2>4. report \in Event /\ new \in Event
    BY EventTypes
  <2>5. Orderly(Append(queue, report), enabled, playing)
    <3>1. report.what = "alive" /\ report.id = i /\ report.live = TRUE
      OBVIOUS
    <3>2. ~IsWord(report) /\ ~PointsAstray(report)
      BY <3>1 DEF IsWord, Word, PointsAstray
    <3> HIDE DEF report
    <3> QED BY <1>0, <2>2, <2>4, <3>1, <3>2, AppendOrderly
  <2>6. Orderly(Append(queue, new), enabled, playing)
    <3>1. new.what = "new"
      OBVIOUS
    <3>2. ~IsWord(new) /\ ~PointsAstray(new)
      BY <3>1 DEF IsWord, Word, PointsAstray
    <3> HIDE DEF new
    <3> QED BY <1>0, <2>4, <3>1, <3>2, AppendOrderly
  <2> QED BY <1>0, <2>3, <2>5, <2>6
<1>4. CASE \E k \in Kinds, i \in Ids : Check(k, i)
  <2>1. PICK k \in Kinds, i \in Ids : Check(k, i)
    BY <1>4
  <2> DEFINE e == [what |-> "timeout", id |-> i, kind |-> k]
  <2>2. e \in Event /\ e.what = "timeout"
    BY EventTypes
  <2>3. queue' = Append(queue, e) /\ UNCHANGED <<playing, enabled, wild>>
    BY <2>1 DEF Check, kernel, app
  <2> HIDE DEF e
  <2>4. ~IsWord(e) /\ ~PointsAstray(e)
    BY <2>2 DEF IsWord, Word, PointsAstray
  <2> QED BY <1>0, <2>2, <2>3, <2>4, AppendOrderly
<1>5. CASE \E i \in Ids : MediaInfo(i)
  <2>1. PICK i \in Ids : MediaInfo(i)
    BY <1>5
  <2> DEFINE e == [what |-> "info", id |-> i]
  <2>2. e \in Event /\ e.what = "info"
    BY EventTypes DEF Kinds
  <2>3. queue' = Append(queue, e) /\ UNCHANGED <<playing, enabled, wild>>
    BY <2>1 DEF MediaInfo, kernel, app
  <2> HIDE DEF e
  <2>4. ~IsWord(e) /\ ~PointsAstray(e)
    BY <2>2 DEF IsWord, Word, PointsAstray
  <2> QED BY <1>0, <2>2, <2>3, <2>4, AppendOrderly
<1>6. CASE \E i \in Ids : UserIsDone("part", i) \/ UserIsDone("voice", i)
  <2>1. PICK i \in Ids, w \in Word : UserIsDone(w, i)
    BY <1>6 DEF Word
  <2> DEFINE e == [what |-> w, id |-> i]
  <2>2. e \in Event /\ e.what \in Word /\ e.id = i
    BY EventTypes DEF Kinds, Word
  <2>3. queue' = Append(queue, e) /\ UNCHANGED <<playing, enabled, wild>>
        /\ \A k \in Kinds : <<k, i>> \notin playing
    BY <2>1 DEF UserIsDone, InTime, Quiet, kernel, app
  <2> HIDE DEF e
  <2>4. e.what # "join" /\ e.what # "alive" /\ ~PointsAstray(e)
    BY <2>2 DEF Word, PointsAstray
  <2> QED BY <1>0, <2>2, <2>3, <2>4, AppendOrderly
<1>7. CASE Join
  <2> DEFINE e == [what |-> "join", id |-> CHOOSE i \in Ids : TRUE]
  <2>1. (CHOOSE i \in Ids : TRUE) \in Ids
    BY LiveAssumption
  <2>2. e \in Event /\ e.what = "join"
    BY <2>1, EventTypes DEF Kinds
  <2>3. queue' = Append(queue, e) /\ UNCHANGED <<playing, enabled, wild>>
        /\ ~enabled /\ \A n \in 1..Len(queue) : queue[n].what # "join"
    BY <1>7 DEF Join, kernel, app
  <2> HIDE DEF e
  <2>4. ~IsWord(e) /\ ~PointsAstray(e) /\ e.what # "alive"
    BY <2>2 DEF IsWord, Word, PointsAstray
  <2> QED BY <1>0, <2>2, <2>3, <2>4, AppendOrderly
<1>8. CASE OnNewTransmission \/ OnMediaInfo \/ OnMediaTimeout \/ OnChannelUserFlags
  <2>1. queue # <<>> /\ queue' = Tail(queue) /\ UNCHANGED <<playing, enabled, wild>>
    BY <1>8 DEF OnNewTransmission, OnMediaInfo, OnMediaTimeout, OnChannelUserFlags, Next1, kernel
  <2> QED BY <1>0, <1>t, <2>1
<1>9. CASE OnMediaAlive
  <2>1. /\ queue # <<>> /\ queue[1].what = "alive" /\ queue' = Tail(queue)
        /\ UNCHANGED <<playing, enabled>>
    BY <1>9 DEF OnMediaAlive, Next1, kernel
  <2>2. wild' = FALSE
    <3>1. CASE enabled = FALSE
      BY <1>0, <1>9, <3>1 DEF OnMediaAlive
    <3>2. CASE enabled = TRUE
      <4>1. ~PointsAstray(queue[1])
        BY <1>0, <1>t, <2>1, <3>2, Zenon DEF AstrayIgnored
      <4>2. queue[1].live = TRUE
        BY <1>t, <2>1, <4>1, EventParts DEF PointsAstray
      <4> QED BY <1>0, <1>9, <3>2, <4>2 DEF OnMediaAlive
    <3> QED BY <1>0, <3>1, <3>2
  <2> QED BY <1>t, <2>1, <2>2
<1>10. CASE OnChannelPart
  <2> DEFINE i == queue[1].id
             q == Tail(queue)
  <2>1. /\ queue # <<>> /\ queue[1].what = "part" /\ UNCHANGED <<playing, enabled, wild>>
        /\ queue' = q \/ queue' = Dangling(q, {i})
    BY <1>10 DEF OnChannelPart, Next1, kernel
  <2>2. q \in Seq(Event) /\ Orderly(q, enabled, playing)
        /\ Len(q) = Len(queue) - 1 /\ \A n \in 1..Len(q) : q[n] = queue[n + 1]
    BY <1>0, <1>t, <2>1, TailFacts
  <2>3. ASSUME NEW n \in 1..Len(q) PROVE ~(q[n].what = "alive" /\ q[n].id = i)
    <3>1. IsWord(queue[1])
      BY <2>1 DEF IsWord, Word
    <3>2. \A m \in 1..Len(queue) : Points(queue[m], i) => m < 1
      BY <1>t, <1>0, <2>1, <3>1, Zenon DEF WordIsLast
    <3>3. n + 1 \in 1..Len(queue) /\ ~(n + 1 < 1) /\ q[n] = queue[n + 1]
      BY <1>0, <2>2
    <3> QED BY <3>2, <3>3 DEF Points
  <2> HIDE DEF q, i
  <2>4. Orderly(Dangling(q, {i}), enabled, playing)
    BY <2>2, <2>3, DanglingOrderly
  <2> QED BY <1>0, <2>1, <2>2, <2>4
<1>11. CASE OnChannelJoin
  <2>1. /\ queue # <<>> /\ queue[1].what = "join" /\ queue' = Tail(queue) /\ enabled' = TRUE
        /\ UNCHANGED <<playing, wild>>
    BY <1>11 DEF OnChannelJoin, Next1, kernel
  <2> DEFINE q == Tail(queue)
  <2>2. WordIsLast(q, playing)
    BY <1>t, <2>1 DEF Orderly
  <2>3. Len(q) = Len(queue) - 1 /\ \A n \in 1..Len(q) : q[n] = queue[n + 1]
    BY <1>0, <2>1, TailFacts
  <2>4. ASSUME NEW n \in 1..Len(q) PROVE q[n].what # "join" /\ ~PointsAstray(q[n])
    <3>1. n + 1 \in 1..Len(queue) /\ n + 1 # 1 /\ ~(n + 1 < 1) /\ q[n] = queue[n + 1]
      BY <1>0, <2>3
    <3>2. queue[n + 1].what # "join"
      BY <1>0, <1>t, <2>1, <3>1, Zenon DEF JoinsOnce
    <3>3. ~PointsAstray(queue[n + 1])
      BY <1>0, <1>t, <2>1, <3>1, Zenon DEF AstrayIgnored
    <3> QED BY <3>1, <3>2, <3>3
  <2> HIDE DEF q
  <2>5. JoinsOnce(q, TRUE) /\ AstrayIgnored(q, TRUE)
    BY <2>4 DEF JoinsOnce, AstrayIgnored
  <2> QED BY <1>0, <2>1, <2>2, <2>5 DEF Orderly, q
<1>12. CASE TerminateAllConferences
  <2>1. /\ enabled = TRUE /\ enabled' = FALSE /\ playing' = {} /\ UNCHANGED wild
        /\ queue' = Dangling(queue, Ids)
    BY <1>0, <1>12 DEF TerminateAllConferences
  <2>2. \A n \in 1..Len(queue) : queue[n].what # "join" /\ ~PointsAstray(queue[n])
    BY <1>0, <2>1 DEF JoinsOnce, AstrayIgnored
  <2>3. WordIsLast(queue, {})
    BY <1>0 DEF WordIsLast
  <2>4. Orderly(queue, FALSE, {})
    BY <2>2, <2>3 DEF Orderly, JoinsOnce, AstrayIgnored
  <2>5. Orderly(Dangling(queue, Ids), FALSE, {})
    BY <1>0, <2>2, <2>4, DanglingOrderly
  <2> QED BY <1>0, <2>1, <2>5
<1>13. CASE (\E k \in Kinds, i \in Ids : Register(k, i)) \/ UNCHANGED vars
  BY <1>0, <1>13 DEF Register, vars, kernel, app
<1> QED
  BY <1>1, <1>2, <1>3, <1>4, <1>5, <1>6, <1>7, <1>8, <1>9, <1>10, <1>11, <1>12, <1>13
  DEF Next, Handler

(* No handler follows a pointer to a transmission that was deleted, whether  *)
(* its user left or the conference ended, and however many events wait.      *)
THEOREM NobodyFollows == ASSUME InTime PROVE Spec => []NoneDangling
<1>1. Init => OrderInv
  BY DEF Init, OrderInv, Orderly, JoinsOnce, WordIsLast, AstrayIgnored
<1>2. TypeOK /\ OrderInv /\ [Next]_vars => OrderInv'
  BY InTime, OrderStep
<1>3. OrderInv => NoneDangling
  BY DEF OrderInv, NoneDangling
<1> QED BY <1>1, <1>2, <1>3, LiveType, PTL DEF Spec
=============================================================================
