-------------------------- MODULE XFTSender_proofs --------------------------
(***************************************************************************)
(* Proofs about XFTSender, for every size of file and number of requests:  *)
(* the types, that the clock that ends a transmission runs only while      *)
(* nothing is waiting, and that each packet asked for is accounted for.    *)
(***************************************************************************)
EXTENDS XFTSender, FiniteSetTheorems, TLAPS

-----------------------------------------------------------------------------
(* What the operations on the vector leave behind.                           *)

(* remove() takes one item out and keeps the type. *)
LEMMA RemoveType ==
  ASSUME NEW S, NEW v \in Seq(S), NEW k \in 1..Len(v)
  PROVE  Remove(v, k) \in Seq(S)
<1>1. Len(v) \in Nat \ {0}
  OBVIOUS
<1>2. \A j \in 1..(Len(v) - 1) : (IF j < k THEN v[j] ELSE v[j + 1]) \in S
  BY <1>1
<1>. QED BY <1>1, <1>2 DEF Remove

(* The callers' loop "if ( !search(i) && insert(i) )" appends the members of *)
(* M in order: x after those below it.                                       *)
Rank(M, x) == Cardinality({y \in M : y < x})

(* The numbers of a finite set, counted from the smallest. *)
LEMMA RankExists ==
  ASSUME NEW M \in SUBSET Nat, IsFiniteSet(M), NEW k \in 0..(Cardinality(M) - 1)
  PROVE  \E x \in M : Rank(M, x) = k
<1> DEFINE n == Cardinality(M)
           Below(u) == {z \in M : z < u}
           f == [x \in M |-> Rank(M, x)]
<1>1. n \in Nat
  BY FS_CardinalityType
<1>2. ASSUME NEW x \in M
      PROVE  IsFiniteSet(Below(x)) /\ Rank(M, x) \in 0..(n - 1)
  <2>1. Below(x) \in SUBSET M /\ Below(x) # M
    OBVIOUS
  <2>2. IsFiniteSet(Below(x)) /\ Cardinality(Below(x)) <= n /\ Cardinality(Below(x)) # n
    BY <2>1, FS_Subset
  <2>3. Cardinality(Below(x)) \in Nat
    BY <2>2, FS_CardinalityType
  <2> QED
    BY <1>1, <2>2, <2>3 DEF Rank
<1>3. ASSUME NEW x \in M, NEW y \in M, x < y
      PROVE  Rank(M, x) # Rank(M, y)
  <2>1. Below(x) \in SUBSET Below(y) /\ x \in Below(y) /\ x \notin Below(x)
    <3>1. x \in Nat /\ y \in Nat /\ \A z \in M : z \in Nat
      OBVIOUS
    <3>2. \A z \in M : z < x => z < y
      BY <1>3, <3>1
    <3>3. ~(x < x)
      BY <3>1
    <3>4. \A z \in Below(x) : z \in Below(y)
      BY <3>2
    <3>5. x \in Below(y) /\ x \notin Below(x)
      BY <1>3, <3>3
    <3> QED
      BY <3>4, <3>5
  <2>2. IsFiniteSet(Below(y))
    BY <1>2
  <2> HIDE DEF Below
  <2>3. Cardinality(Below(y)) = Cardinality(Below(x)) => Below(y) = Below(x)
    BY <2>1, <2>2, FS_Subset
  <2>4. Cardinality(Below(y)) # Cardinality(Below(x))
    BY <2>1, <2>3
  <2> QED
    BY <2>4 DEF Rank, Below
<1>4. \A x, y \in M : Rank(M, x) = Rank(M, y) => x = y
  BY <1>3
<1>5. f \in Injection(M, 0..(n - 1))
  <2>1. f \in [M -> 0..(n - 1)]
    BY <1>2
  <2>2. \A x, y \in M : f[x] = f[y] => x = y
    BY <1>4
  <2> QED
    BY <2>1, <2>2 DEF Injection, IsInjective
<1>6. IsFiniteSet(0..(n - 1)) /\ Cardinality(0..(n - 1)) = n
  BY <1>1, FS_Interval
<1>7. f \in Surjection(M, 0..(n - 1))
  BY <1>5, <1>6, FS_Injection
<1> QED
  BY <1>7 DEF Surjection

LEMMA InsertSetLen ==
  ASSUME NEW S, NEW v \in Seq(S), NEW M, IsFiniteSet(M)
  PROVE  Len(InsertSet(v, M)) = Len(v) + Cardinality(M) /\ Len(v) + Cardinality(M) \in Nat
<1>1. Len(v) \in Nat /\ Cardinality(M) \in Nat
  BY FS_CardinalityType
<1> QED
  BY <1>1 DEF InsertSet

(* The numbers inserted are the set's, each in a place of its own. *)
LEMMA InsertSetType ==
  ASSUME NEW S \in SUBSET Nat, NEW v \in Seq(S), NEW M \in SUBSET S, IsFiniteSet(M)
  PROVE  /\ InsertSet(v, M) \in Seq(S)
         /\ Distinct(v) /\ Items(v) \intersect M = {} => Distinct(InsertSet(v, M))
<1> DEFINE n == Len(v) + Cardinality(M)
           k(j) == j - Len(v) - 1
           x(j) == CHOOSE z \in M : Rank(M, z) = k(j)
           w == [j \in 1..n |-> IF j <= Len(v) THEN v[j] ELSE x(j)]
<1>1. Len(v) \in Nat /\ Cardinality(M) \in Nat
  BY FS_CardinalityType
<1>2. InsertSet(v, M) = w
  BY DEF InsertSet, Rank
<1>3. ASSUME NEW j \in 1..n, j > Len(v)
      PROVE  x(j) \in M /\ Rank(M, x(j)) = k(j)
  <2>1. k(j) \in 0..(Cardinality(M) - 1)
    BY <1>1, <1>3
  <2>2. \E z \in M : Rank(M, z) = k(j)
    BY <2>1, RankExists
  <2> QED
    BY <2>2
<1> HIDE DEF x
<1>4. \A j \in 1..n : j <= Len(v) => v[j] \in S /\ j \in 1..Len(v)
  BY <1>1
<1>5. \A j \in 1..n : w[j] \in S
  <2> TAKE j \in 1..n
  <2>1. j \in Nat /\ w[j] = IF j <= Len(v) THEN v[j] ELSE x(j)
    BY <1>1
  <2>2. CASE j <= Len(v)
    BY <1>4, <2>1, <2>2
  <2>3. CASE ~(j <= Len(v))
    <3>1. j > Len(v)
      BY <1>1, <2>1, <2>3
    <3>2. x(j) \in M
      BY <1>3, <3>1
    <3> QED
      BY <2>1, <2>3, <3>2
  <2> QED
    BY <2>2, <2>3
<1>6. w \in Seq(S) /\ Len(w) = n
  BY <1>1, <1>5
<1>7. ASSUME Distinct(v), Items(v) \intersect M = {}, NEW i \in 1..n, NEW j \in 1..n, w[i] = w[j]
      PROVE  i = j
  <2>1. CASE i <= Len(v) /\ j <= Len(v)
    BY <1>4, <1>7, <2>1 DEF Distinct
  <2>2. CASE i > Len(v) /\ j > Len(v)
    <3>1. Rank(M, x(i)) = k(i) /\ Rank(M, x(j)) = k(j) /\ x(i) = x(j)
      BY <1>1, <1>3, <1>7, <2>2
    <3> QED
      BY <1>1, <3>1
  <2>3. CASE i <= Len(v) /\ j > Len(v)
    BY <1>1, <1>3, <1>4, <1>7, <2>3 DEF Items
  <2>4. CASE i > Len(v) /\ j <= Len(v)
    BY <1>1, <1>3, <1>4, <1>7, <2>4 DEF Items
  <2> QED
    BY <1>1, <2>1, <2>2, <2>3, <2>4
<1> HIDE DEF w
<1>8. Distinct(v) /\ Items(v) \intersect M = {} => Distinct(w)
  BY <1>6, <1>7 DEF Distinct
<1> QED
  BY <1>2, <1>6, <1>8





-----------------------------------------------------------------------------
(* Every step keeps the types. *)
LEMMA WantedPkts ==
  ASSUME TypeOK, NEW a \in 0..(MaxPkts + 1), NEW b \in 0..(MaxPkts + 1), a # 0, a <= totPkts
  PROVE  Wanted(a, b) \in SUBSET Pkts /\ IsFiniteSet(Wanted(a, b))
<1>1. totPkts \in 0..MaxPkts /\ MaxPkts \in Nat /\ a \in Nat /\ b \in Nat
  BY SenderAssumption DEF TypeOK
<1>2. PICK e \in 0..MaxPkts : Wanted(a, b) = a..e
  BY <1>1 DEF Wanted
<1> QED
  BY <1>1, <1>2, FS_Interval DEF Pkts

(* What a request does to the vector and the count of what was asked for. *)
LEMMA RequestStep ==
  ASSUME TypeOK, NEW a \in 0..(MaxPkts + 1), NEW b \in 0..(MaxPkts + 1), PktRequest(a, b)
  PROVE  /\ lost' \in Seq(Pkts) /\ nTotReq' \in Nat
         /\ nTotReq' - nTotReq = Len(lost') - Len(lost)
         /\ Distinct(lost) => Distinct(lost')
<1> DEFINE M == Wanted(a, b) \ Items(lost)
<1>1. lost' = InsertSet(lost, M) /\ nTotReq' = nTotReq + Cardinality(M) /\ a # 0 /\ a <= totPkts
  BY DEF PktRequest
<1>2. M \in SUBSET Pkts /\ IsFiniteSet(M) /\ Items(lost) \intersect M = {}
  BY <1>1, WantedPkts, FS_Subset
<1> HIDE DEF M
<1>3. lost \in Seq(Pkts) /\ nTotReq \in Nat /\ Pkts \in SUBSET Nat
  BY SenderAssumption DEF TypeOK, Pkts
<1>4. InsertSet(lost, M) \in Seq(Pkts) /\ (Distinct(lost) => Distinct(InsertSet(lost, M)))
  BY <1>2, <1>3, InsertSetType
<1>5. Len(InsertSet(lost, M)) = Len(lost) + Cardinality(M)
  BY <1>2, <1>3, InsertSetLen
<1>6. Len(lost) \in Nat /\ Cardinality(M) \in Nat
  BY <1>2, <1>3, FS_CardinalityType
<1> QED
  BY <1>1, <1>3, <1>4, <1>5, <1>6

(* After a request something waits to be sent again. *)
LEMMA RequestWaits ==
  ASSUME TypeOK, NEW a \in 0..(MaxPkts + 1), NEW b \in 0..(MaxPkts + 1), PktRequest(a, b)
  PROVE  lost' # <<>>
<1> DEFINE M == Wanted(a, b) \ Items(lost)
<1>1. lost' = InsertSet(lost, M) /\ a # 0 /\ a <= totPkts
  BY DEF PktRequest
<1>2. lost \in Seq(Pkts) /\ IsFiniteSet(M)
  BY <1>1, WantedPkts, FS_Subset DEF TypeOK
<1>3. lost = <<>> => M # {}
  <2>1. totPkts \in Nat /\ a \in Wanted(a, b)
    BY <1>1, SenderAssumption DEF SenderAssumption, TypeOK, Wanted
  <2>2. lost = <<>> => Items(lost) = {}
    BY DEF Items
  <2> QED
    BY <2>1, <2>2
<1> HIDE DEF M
<1>4. Len(lost') = Len(lost) + Cardinality(M) /\ Len(lost) \in Nat /\ Cardinality(M) \in Nat
  BY <1>1, <1>2, InsertSetLen, FS_CardinalityType
<1>5. M # {} => Cardinality(M) # 0
  BY <1>2, FS_EmptySet
<1>6. lost # <<>> => Len(lost) # 0
  BY <1>2
<1> QED
  BY <1>3, <1>4, <1>5, <1>6

(* The packet sent again is the first of the vector. *)
LEMMA NextToSend ==
  ASSUME TypeOK, NextSeq # 0, NextSeq <= totPkts
  PROVE  /\ NextSeq \in Pkts
         /\ eof => lost # <<>> /\ Remove(lost, 1) \in Seq(Pkts)
                     /\ Len(Remove(lost, 1)) = Len(lost) - 1 /\ Len(lost) \in Nat \ {0}
<1>1. lost \in Seq(Pkts) /\ curSeq \in Nat /\ totPkts \in 0..MaxPkts /\ MaxPkts \in Nat
  BY SenderAssumption DEF TypeOK
<1>2. CASE ~eof
  BY <1>1, <1>2 DEF NextSeq, Pkts
<1>3. CASE eof
  <2>1. lost # <<>> /\ NextSeq = lost[1]
    BY <1>3 DEF NextSeq
  <2>2. Len(lost) \in Nat \ {0} /\ 1 \in 1..Len(lost)
    BY <1>1, <2>1
  <2>3. Remove(lost, 1) \in Seq(Pkts)
    BY <1>1, <2>2, RemoveType
  <2>4. Len(Remove(lost, 1)) = Len(lost) - 1
    BY <2>2 DEF Remove
  <2> QED
    BY <1>1, <2>1, <2>2, <2>3, <2>4
<1> QED
  BY <1>2, <1>3

(* TypeOK in pieces. *)
NumType == /\ curSeq \in 0..MaxPkts /\ totPkts \in 0..MaxPkts
           /\ nTotReq \in Nat /\ nReq \in Nat /\ reqs \in 0..MaxReqs
           /\ lost \in Seq(Pkts) /\ sent \subseteq Pkts

FlagType == /\ eof \in BOOLEAN /\ sndEnabled \in BOOLEAN /\ sending \in BOOLEAN
            /\ resetting \in BOOLEAN /\ abort \in BOOLEAN /\ sockOpen \in BOOLEAN
            /\ paused \in BOOLEAN /\ pauseFree \in BOOLEAN

PlaceType ==
  /\ sndEnd \in {"zero", "ahead", "gone"} /\ outcome \in {"none", "end", "err", "both"}
  /\ tpc \in {"none", "delay", "top", "pkt", "sent", "eof", "arm",
              "resent", "eof2", "arm2", "chk", "judge", "done"}
  /\ pc \in [Controllers -> {"idle", "begun", "pausing", "reset", "resume",
                             "join", "wait", "close", "clear"}]

LEMMA TypePieces == TypeOK <=> NumType /\ FlagType /\ PlaceType
  BY DEF TypeOK, NumType, FlagType, PlaceType

LEMMA InitType == Init => TypeOK
<1> SUFFICES ASSUME Init PROVE NumType /\ FlagType /\ PlaceType
  BY TypePieces
<1> USE SenderAssumption DEF Init
<1>1. NumType
  BY DEF NumType
<1>2. FlagType
  BY DEF FlagType
<1>3. PlaceType
  BY DEF PlaceType, Controllers
<1> QED
  BY <1>1, <1>2, <1>3

LEMMA TypeStep == TypeOK /\ [Next]_vars => TypeOK'
<1> SUFFICES ASSUME TypeOK, [Next]_vars PROVE NumType' /\ FlagType' /\ PlaceType'
  BY DEF TypeOK, NumType, FlagType, PlaceType
<1>0. NumType /\ FlagType /\ PlaceType
  BY TypePieces
<1> USE <1>0, SenderAssumption DEF Goto, counters, flags, pause, history
<1>1. CASE FirstDelay
  BY <1>1 DEF FirstDelay, NumType, FlagType, PlaceType, Controllers
<1>2. CASE ThreadTop
  BY <1>2 DEF ThreadTop, NumType, FlagType, PlaceType, Controllers
<1>3. CASE SendNothing
  BY <1>3 DEF SendNothing, NumType, FlagType, PlaceType, Controllers
<1>4. CASE SendPkt
  <2>1. NextSeq \in Pkts /\ (eof => Remove(lost, 1) \in Seq(Pkts))
    BY <1>4, NextToSend, TypePieces DEF SendPkt
  <2>2. lost' \in Seq(Pkts)
    BY <1>4, <2>1 DEF SendPkt, NumType
  <2>3. curSeq' \in 0..MaxPkts
    BY <1>4, <2>1 DEF SendPkt, NumType, Pkts
  <2>4. NumType'
    BY <1>4, <2>1, <2>2, <2>3 DEF SendPkt, NumType
  <2>5. FlagType'
    BY <1>4 DEF SendPkt, FlagType
  <2>6. PlaceType'
    BY <1>4 DEF SendPkt, PlaceType
  <2> QED
    BY <2>4, <2>5, <2>6
<1>5. CASE CheckLast
  <2>1. NumType'
    BY <1>5 DEF CheckLast, NumType
  <2>2. FlagType'
    BY <1>5 DEF CheckLast, FlagType
  <2>3. PlaceType'
    BY <1>5 DEF CheckLast, PlaceType, Controllers
  <2> QED
    BY <2>1, <2>2, <2>3
<1>6. CASE AnnounceEof
  BY <1>6 DEF AnnounceEof, NumType, FlagType, PlaceType, Controllers
<1>7. CASE ArmFirst
  BY <1>7 DEF ArmFirst, NumType, FlagType, PlaceType, Controllers
<1>8. CASE CheckLost
  BY <1>8 DEF CheckLost, NumType, FlagType, PlaceType, Controllers
<1>9. CASE ArmAgain
  BY <1>9 DEF ArmAgain, NumType, FlagType, PlaceType, Controllers
<1>10. CASE TestEnd
  <2>1. NumType'
    BY <1>10 DEF TestEnd, Loop, NumType
  <2>2. FlagType'
    BY <1>10 DEF TestEnd, Loop, FlagType
  <2>3. PlaceType'
    BY <1>10 DEF TestEnd, Loop, PlaceType, Controllers
  <2> QED
    BY <2>1, <2>2, <2>3
<1>11. CASE JudgeEnd
  <2>1. NumType'
    BY <1>11 DEF JudgeEnd, Loop, NumType
  <2>2. FlagType'
    BY <1>11 DEF JudgeEnd, Loop, FlagType
  <2>3. PlaceType'
    BY <1>11 DEF JudgeEnd, Loop, PlaceType, Controllers
  <2> QED
    BY <2>1, <2>2, <2>3
<1>12. CASE SendFails
  <2>1. lost' \in Seq(Pkts)
    BY <1>12, NextToSend, TypePieces DEF SendFails, NumType
  <2>2. NumType'
    BY <1>12, <2>1 DEF SendFails, NumType
  <2>3. FlagType'
    BY <1>12 DEF SendFails, FlagType
  <2>4. PlaceType'
    BY <1>12 DEF SendFails, PlaceType
  <2> QED
    BY <2>2, <2>3, <2>4
<1>13. CASE Expire
  BY <1>13 DEF Expire, NumType, FlagType, PlaceType, Controllers
<1>14. CASE SndPause
  BY <1>14 DEF SndPause, NumType, FlagType, PlaceType, Controllers
<1>15. CASE SndPauseWait
  <2>1. NumType'
    BY <1>15 DEF SndPauseWait, NumType
  <2>2. FlagType'
    BY <1>15 DEF SndPauseWait, FlagType
  <2>3. PlaceType'
    BY <1>15 DEF SndPauseWait, PlaceType, Controllers
  <2> QED
    BY <2>1, <2>2, <2>3
<1>16. CASE SndResume
  <2>1. NumType'
    BY <1>16 DEF SndResume, NumType
  <2>2. FlagType'
    BY <1>16 DEF SndResume, FlagType
  <2>3. PlaceType'
    BY <1>16 DEF SndResume, PlaceType, Controllers
  <2> QED
    BY <2>1, <2>2, <2>3
<1>17. ASSUME NEW n \in Pkts, NEW netOk \in BOOLEAN, BeginSend(n, netOk) PROVE NumType' /\ FlagType' /\ PlaceType'
  <2>1. NumType'
    <3>1. n \in 0..MaxPkts /\ <<>> \in Seq(Pkts)
      BY DEF Pkts
    <3>2. CASE netOk
      BY <1>17, <3>1, <3>2 DEF BeginSend, NumType
    <3>3. CASE ~netOk
      BY <1>17, <3>3 DEF BeginSend, NumType
    <3> QED
      BY <3>2, <3>3
  <2>2. FlagType'
    BY <1>17 DEF BeginSend, FlagType
  <2>3. PlaceType'
    BY <1>17 DEF BeginSend, PlaceType, Controllers
  <2> QED
    BY <2>1, <2>2, <2>3
<1>18. ASSUME NEW seekOk \in BOOLEAN, RunTX(seekOk) PROVE NumType' /\ FlagType' /\ PlaceType'
  <2>1. NumType'
    BY <1>18 DEF RunTX, NumType
  <2>2. FlagType'
    BY <1>18 DEF RunTX, FlagType
  <2>3. PlaceType'
    BY <1>18 DEF RunTX, PlaceType, Controllers
  <2> QED
    BY <2>1, <2>2, <2>3
<1>19. ASSUME NEW p \in Pkts, SetSndSeq(p) PROVE NumType' /\ FlagType' /\ PlaceType'
  BY <1>19 DEF SetSndSeq, NumType, Pkts, FlagType, PlaceType, Controllers
<1>20. ASSUME NEW a \in 0..(MaxPkts + 1), NEW b \in 0..(MaxPkts + 1), PktRequest(a, b) PROVE NumType' /\ FlagType' /\ PlaceType'
  <2>1. lost' \in Seq(Pkts) /\ nTotReq' \in Nat
    BY <1>20, RequestStep, TypePieces
  <2>2. NumType'
    BY <1>20, <2>1 DEF PktRequest, Request, NumType
  <2>3. FlagType'
    BY <1>20 DEF PktRequest, FlagType
  <2>4. PlaceType'
    BY <1>20 DEF PktRequest, PlaceType
  <2> QED
    BY <2>2, <2>3, <2>4
<1>21. ASSUME NEW c \in Controllers, ResetTest(c) PROVE NumType' /\ FlagType' /\ PlaceType'
  <2>1. NumType'
    BY <1>21 DEF ResetTest, NumType
  <2>2. FlagType'
    BY <1>21 DEF ResetTest, FlagType
  <2>3. PlaceType'
    BY <1>21 DEF ResetTest, PlaceType, Controllers
  <2> QED
    BY <2>1, <2>2, <2>3
<1>22. ASSUME NEW c \in Controllers, ResetSnd(c) PROVE NumType' /\ FlagType' /\ PlaceType'
  <2>1. NumType'
    BY <1>22 DEF ResetSnd, NumType
  <2>2. FlagType'
    BY <1>22 DEF ResetSnd, FlagType
  <2>3. PlaceType'
    BY <1>22 DEF ResetSnd, PlaceType, Controllers
  <2> QED
    BY <2>1, <2>2, <2>3
<1>23. ASSUME NEW c \in Controllers, StopResume(c) PROVE NumType' /\ FlagType' /\ PlaceType'
  <2>1. NumType'
    BY <1>23 DEF StopResume, NumType
  <2>2. FlagType'
    BY <1>23 DEF StopResume, FlagType
  <2>3. PlaceType'
    BY <1>23 DEF StopResume, PlaceType, Controllers
  <2> QED
    BY <2>1, <2>2, <2>3
<1>24. ASSUME NEW c \in Controllers, EndTransferThread(c) PROVE NumType' /\ FlagType' /\ PlaceType'
  <2>1. NumType'
    BY <1>24 DEF EndTransferThread, NumType
  <2>2. FlagType'
    BY <1>24 DEF EndTransferThread, FlagType
  <2>3. PlaceType'
    BY <1>24 DEF EndTransferThread, PlaceType, Controllers
  <2> QED
    BY <2>1, <2>2, <2>3
<1>25. ASSUME NEW c \in Controllers, WaitForMe(c) PROVE NumType' /\ FlagType' /\ PlaceType'
  <2>1. NumType'
    BY <1>25 DEF WaitForMe, NumType
  <2>2. FlagType'
    BY <1>25 DEF WaitForMe, FlagType
  <2>3. PlaceType'
    BY <1>25 DEF WaitForMe, PlaceType, Controllers
  <2> QED
    BY <2>1, <2>2, <2>3
<1>26. ASSUME NEW c \in Controllers, CloseFile(c) PROVE NumType' /\ FlagType' /\ PlaceType'
  <2>1. NumType'
    BY <1>26 DEF CloseFile, NumType
  <2>2. FlagType'
    BY <1>26 DEF CloseFile, FlagType
  <2>3. PlaceType'
    BY <1>26 DEF CloseFile, PlaceType, Controllers
  <2> QED
    BY <2>1, <2>2, <2>3
<1>27. ASSUME NEW c \in Controllers, ResetClear(c) PROVE NumType' /\ FlagType' /\ PlaceType'
  <2>1. NumType'
    BY <1>27 DEF ResetClear, NumType
  <2>2. FlagType'
    BY <1>27 DEF ResetClear, FlagType
  <2>3. PlaceType'
    BY <1>27 DEF ResetClear, PlaceType, Controllers
  <2> QED
    BY <2>1, <2>2, <2>3
<1>28. CASE UNCHANGED vars
  BY <1>28 DEF vars, NumType, FlagType, PlaceType, Controllers
<1> QED
  BY <1>1, <1>2, <1>3, <1>4, <1>5, <1>6, <1>7, <1>8, <1>9, <1>10, <1>11, <1>12, <1>13, <1>14,
     <1>15, <1>16, <1>17, <1>18, <1>19, <1>20, <1>21, <1>22, <1>23, <1>24, <1>25, <1>26, <1>27, <1>28
     DEF Next, Thread, Start, Api, Stop

-----------------------------------------------------------------------------
(* The clock that ends the transmission. *)

(* Requests keep out of the windows in which m_tSndEnd is used unlocked. *)
Settled == ReqPhases \subseteq {"settled"}

(* Nothing waits while the clock runs, nor where the thread is about to set  *)
(* it or has just found it set.                                              *)
ClockInv ==
  /\ sndEnd # "zero" => lost = <<>>
  /\ tpc \in {"eof2", "arm2", "judge"} => lost = <<>>

LEMMA ClockInit == Init => ClockInv
  BY DEF Init, ClockInv

LEMMA ClockStep == ClockInv /\ [Next]_vars /\ Settled => ClockInv'
<1> SUFFICES ASSUME ClockInv, [Next]_vars, Settled PROVE ClockInv'
  OBVIOUS
<1> USE SenderAssumption DEF ClockInv, Goto, counters, flags, pause, history
<1>1. CASE FirstDelay
  BY <1>1 DEF FirstDelay
<1>2. CASE ThreadTop
  BY <1>2 DEF ThreadTop
<1>3. CASE SendNothing
  BY <1>3 DEF SendNothing
<1>4. CASE SendPkt
  <2>1. eof => lost # <<>>
    BY <1>4 DEF SendPkt, NextSeq
  <2> QED
    BY <1>4, <2>1 DEF SendPkt
<1>5. CASE CheckLast
  BY <1>5 DEF CheckLast
<1>6. CASE AnnounceEof
  BY <1>6 DEF AnnounceEof
<1>7. CASE ArmFirst
  BY <1>7 DEF ArmFirst
<1>8. CASE CheckLost
  BY <1>8 DEF CheckLost
<1>9. CASE ArmAgain
  BY <1>9 DEF ArmAgain
<1>10. CASE TestEnd
  <2>1. Loop \notin {"eof2", "arm2", "judge"}
    BY DEF Loop
  <2> QED
    BY <1>10, <2>1 DEF TestEnd
<1>11. CASE JudgeEnd
  <2>1. Loop \notin {"eof2", "arm2", "judge"}
    BY DEF Loop
  <2> QED
    BY <1>11, <2>1 DEF JudgeEnd
<1>12. CASE SendFails
  <2>1. eof => lost # <<>>
    BY <1>12 DEF SendFails, NextSeq
  <2> QED
    BY <1>12, <2>1 DEF SendFails
<1>13. CASE Expire
  BY <1>13 DEF Expire
<1>14. CASE SndPause
  BY <1>14 DEF SndPause
<1>15. CASE SndPauseWait
  BY <1>15 DEF SndPauseWait
<1>16. CASE SndResume
  BY <1>16 DEF SndResume
<1>17. ASSUME NEW n \in Pkts, NEW netOk \in BOOLEAN, BeginSend(n, netOk) PROVE ClockInv'
  BY <1>17 DEF BeginSend
<1>18. ASSUME NEW seekOk \in BOOLEAN, RunTX(seekOk) PROVE ClockInv'
  BY <1>18 DEF RunTX
<1>19. ASSUME NEW p \in Pkts, SetSndSeq(p) PROVE ClockInv'
  BY <1>19 DEF SetSndSeq
<1>20. ASSUME NEW a \in 0..(MaxPkts + 1), NEW b \in 0..(MaxPkts + 1), PktRequest(a, b) PROVE ClockInv'
  <2>1. tpc \notin {"eof2", "arm2", "judge"}
    BY <1>20 DEF PktRequest, Request, Phase, Settled
  <2> QED
    BY <1>20, <2>1 DEF PktRequest
<1>21. ASSUME NEW c \in Controllers, ResetTest(c) PROVE ClockInv'
  BY <1>21 DEF ResetTest
<1>22. ASSUME NEW c \in Controllers, ResetSnd(c) PROVE ClockInv'
  BY <1>22 DEF ResetSnd
<1>23. ASSUME NEW c \in Controllers, StopResume(c) PROVE ClockInv'
  BY <1>23 DEF StopResume
<1>24. ASSUME NEW c \in Controllers, EndTransferThread(c) PROVE ClockInv'
  BY <1>24 DEF EndTransferThread
<1>25. ASSUME NEW c \in Controllers, WaitForMe(c) PROVE ClockInv'
  BY <1>25 DEF WaitForMe
<1>26. ASSUME NEW c \in Controllers, CloseFile(c) PROVE ClockInv'
  BY <1>26 DEF CloseFile
<1>27. ASSUME NEW c \in Controllers, ResetClear(c) PROVE ClockInv'
  BY <1>27 DEF ResetClear
<1>28. CASE UNCHANGED vars
  BY <1>28 DEF vars
<1> QED
  BY <1>1, <1>2, <1>3, <1>4, <1>5, <1>6, <1>7, <1>8, <1>9, <1>10, <1>11, <1>12, <1>13, <1>14,
     <1>15, <1>16, <1>17, <1>18, <1>19, <1>20, <1>21, <1>22, <1>23, <1>24, <1>25, <1>26, <1>27, <1>28
     DEF Next, Thread, Start, Api, Stop

-----------------------------------------------------------------------------
(* What was asked for. *)

(* Nobody else starts a transmission inside the user's Reset, and no second  *)
(* Reset comes between the first one's test of m_bResetting and its set.     *)
OneAtATime == ~Overlap /\ AtomicReset

Stopping == {"resume", "join", "wait", "close", "clear"}

(* One Reset at a time, and from its StopTX on nothing is being sent.        *)
StopInv ==
  /\ sending => sndEnabled
  /\ pc["irm"] = "begun" => ~sending /\ pc["ui"] \notin {"resume", "join", "wait"}
  /\ pc["ui"] # "begun" /\ pc["irm"] # "pausing"
  /\ \A c \in Controllers :
       /\ pc[c] \in Stopping => resetting /\ ~sending
       /\ pc[c] \in {"resume", "join", "wait", "close"} => sndEnabled
       /\ pc[c] = "clear" => ~sndEnabled
       /\ \A d \in Controllers :
            pc[c] \in Stopping \union {"reset"} /\ pc[d] \in Stopping \union {"reset"} => c = d

AccountInv ==
  (sndEnabled /\ outcome \in {"none", "end"}) => nTotReq = nReq + Len(lost)

LEMMA StopInit == Init => StopInv
  BY DEF Init, StopInv, Stopping, Controllers

LEMMA StopStep == TypeOK /\ StopInv /\ [Next]_vars /\ OneAtATime => StopInv'
<1> SUFFICES ASSUME TypeOK, StopInv, [Next]_vars, OneAtATime PROVE StopInv'
  OBVIOUS
<1> USE SenderAssumption DEF TypeOK, StopInv, OneAtATime, Stopping, Controllers, Goto, counters, flags, pause, history
<1>1. CASE FirstDelay
  BY <1>1 DEF FirstDelay
<1>2. CASE ThreadTop
  BY <1>2 DEF ThreadTop
<1>3. CASE SendNothing
  BY <1>3 DEF SendNothing
<1>4. CASE SendPkt
  BY <1>4 DEF SendPkt
<1>5. CASE CheckLast
  BY <1>5 DEF CheckLast
<1>6. CASE AnnounceEof
  BY <1>6 DEF AnnounceEof
<1>7. CASE ArmFirst
  BY <1>7 DEF ArmFirst
<1>8. CASE CheckLost
  BY <1>8 DEF CheckLost
<1>9. CASE ArmAgain
  BY <1>9 DEF ArmAgain
<1>10. CASE TestEnd
  BY <1>10 DEF TestEnd
<1>11. CASE JudgeEnd
  BY <1>11 DEF JudgeEnd
<1>12. CASE SendFails
  BY <1>12 DEF SendFails
<1>13. CASE Expire
  BY <1>13 DEF Expire
<1>14. CASE SndPause
  BY <1>14 DEF SndPause
<1>15. CASE SndPauseWait
  BY <1>15 DEF SndPauseWait
<1>16. CASE SndResume
  BY <1>16 DEF SndResume
<1>17. ASSUME NEW n \in Pkts, NEW netOk \in BOOLEAN, BeginSend(n, netOk) PROVE StopInv'
  BY <1>17 DEF BeginSend
<1>18. ASSUME NEW seekOk \in BOOLEAN, RunTX(seekOk) PROVE StopInv'
  BY <1>18 DEF RunTX
<1>19. ASSUME NEW p \in Pkts, SetSndSeq(p) PROVE StopInv'
  BY <1>19 DEF SetSndSeq
<1>20. ASSUME NEW a \in 0..(MaxPkts + 1), NEW b \in 0..(MaxPkts + 1), PktRequest(a, b) PROVE StopInv'
  BY <1>20 DEF PktRequest
<1>21. ASSUME NEW c \in Controllers, ResetTest(c) PROVE StopInv'
  BY <1>21 DEF ResetTest
<1>22. ASSUME NEW c \in Controllers, ResetSnd(c) PROVE StopInv'
  BY <1>22 DEF ResetSnd
<1>23. ASSUME NEW c \in Controllers, StopResume(c) PROVE StopInv'
  BY <1>23 DEF StopResume
<1>24. ASSUME NEW c \in Controllers, EndTransferThread(c) PROVE StopInv'
  BY <1>24 DEF EndTransferThread
<1>25. ASSUME NEW c \in Controllers, WaitForMe(c) PROVE StopInv'
  BY <1>25 DEF WaitForMe
<1>26. ASSUME NEW c \in Controllers, CloseFile(c) PROVE StopInv'
  BY <1>26 DEF CloseFile
<1>27. ASSUME NEW c \in Controllers, ResetClear(c) PROVE StopInv'
  BY <1>27 DEF ResetClear
<1>28. CASE UNCHANGED vars
  BY <1>28 DEF vars
<1> QED
  BY <1>1, <1>2, <1>3, <1>4, <1>5, <1>6, <1>7, <1>8, <1>9, <1>10, <1>11, <1>12, <1>13, <1>14,
     <1>15, <1>16, <1>17, <1>18, <1>19, <1>20, <1>21, <1>22, <1>23, <1>24, <1>25, <1>26, <1>27, <1>28
     DEF Next, Thread, Start, Api, Stop

LEMMA AccountInit == Init => AccountInv
  BY DEF Init, AccountInv

LEMMA AccountStep == TypeOK /\ StopInv /\ AccountInv /\ [Next]_vars /\ OneAtATime => AccountInv'
<1> SUFFICES ASSUME TypeOK, StopInv, AccountInv, [Next]_vars, OneAtATime PROVE AccountInv'
  OBVIOUS
<1> USE SenderAssumption DEF TypeOK, StopInv, AccountInv, OneAtATime, Stopping, Controllers, Goto, counters, flags, pause, history
<1>1. CASE FirstDelay
  BY <1>1 DEF FirstDelay
<1>2. CASE ThreadTop
  BY <1>2 DEF ThreadTop
<1>3. CASE SendNothing
  BY <1>3 DEF SendNothing
<1>4. CASE SendPkt
  <2>1. eof => Len(Remove(lost, 1)) = Len(lost) - 1 /\ Len(lost) \in Nat
    BY <1>4, NextToSend DEF SendPkt
  <2>2. CASE eof
    BY <1>4, <2>1, <2>2 DEF SendPkt
  <2>3. CASE ~eof
    BY <1>4, <2>3 DEF SendPkt
  <2> QED
    BY <2>2, <2>3
<1>5. CASE CheckLast
  BY <1>5 DEF CheckLast
<1>6. CASE AnnounceEof
  BY <1>6 DEF AnnounceEof
<1>7. CASE ArmFirst
  BY <1>7 DEF ArmFirst
<1>8. CASE CheckLost
  BY <1>8 DEF CheckLost
<1>9. CASE ArmAgain
  BY <1>9 DEF ArmAgain
<1>10. CASE TestEnd
  BY <1>10 DEF TestEnd
<1>11. CASE JudgeEnd
  BY <1>11 DEF JudgeEnd
<1>12. CASE SendFails
  BY <1>12 DEF SendFails
<1>13. CASE Expire
  BY <1>13 DEF Expire
<1>14. CASE SndPause
  BY <1>14 DEF SndPause
<1>15. CASE SndPauseWait
  BY <1>15 DEF SndPauseWait
<1>16. CASE SndResume
  BY <1>16 DEF SndResume
<1>17. ASSUME NEW n \in Pkts, NEW netOk \in BOOLEAN, BeginSend(n, netOk) PROVE AccountInv'
  <2>1. CASE netOk
    <3>1. nTotReq' = 0 /\ nReq' = 0 /\ Len(lost') = 0
      BY <1>17, <2>1 DEF BeginSend
    <3> QED
      BY <3>1
  <2>2. CASE ~netOk
    BY <1>17, <2>2 DEF BeginSend
  <2> QED
    BY <2>1, <2>2
<1>18. ASSUME NEW seekOk \in BOOLEAN, RunTX(seekOk) PROVE AccountInv'
  BY <1>18 DEF RunTX
<1>19. ASSUME NEW p \in Pkts, SetSndSeq(p) PROVE AccountInv'
  BY <1>19 DEF SetSndSeq
<1>20. ASSUME NEW a \in 0..(MaxPkts + 1), NEW b \in 0..(MaxPkts + 1), PktRequest(a, b) PROVE AccountInv'
  <2>1. nTotReq' - nTotReq = Len(lost') - Len(lost) /\ lost' \in Seq(Pkts) /\ nTotReq' \in Nat
    BY <1>20, RequestStep
  <2>2. Len(lost') \in Nat /\ Len(lost) \in Nat /\ nReq \in Nat /\ nTotReq \in Nat
    BY <2>1
  <2>3. UNCHANGED <<sndEnabled, outcome, nReq>>
    BY <1>20 DEF PktRequest
  <2>4. nTotReq = nReq + Len(lost) => nTotReq' = nReq + Len(lost')
    BY <2>1, <2>2
  <2> HIDE DEF TypeOK, StopInv
  <2> QED
    BY <2>3, <2>4
<1>21. ASSUME NEW c \in Controllers, ResetTest(c) PROVE AccountInv'
  BY <1>21 DEF ResetTest
<1>22. ASSUME NEW c \in Controllers, ResetSnd(c) PROVE AccountInv'
  BY <1>22 DEF ResetSnd
<1>23. ASSUME NEW c \in Controllers, StopResume(c) PROVE AccountInv'
  BY <1>23 DEF StopResume
<1>24. ASSUME NEW c \in Controllers, EndTransferThread(c) PROVE AccountInv'
  BY <1>24 DEF EndTransferThread
<1>25. ASSUME NEW c \in Controllers, WaitForMe(c) PROVE AccountInv'
  BY <1>25 DEF WaitForMe
<1>26. ASSUME NEW c \in Controllers, CloseFile(c) PROVE AccountInv'
  BY <1>26 DEF CloseFile
<1>27. ASSUME NEW c \in Controllers, ResetClear(c) PROVE AccountInv'
  BY <1>27 DEF ResetClear
<1>28. CASE UNCHANGED vars
  BY <1>28 DEF vars
<1> QED
  BY <1>1, <1>2, <1>3, <1>4, <1>5, <1>6, <1>7, <1>8, <1>9, <1>10, <1>11, <1>12, <1>13, <1>14,
     <1>15, <1>16, <1>17, <1>18, <1>19, <1>20, <1>21, <1>22, <1>23, <1>24, <1>25, <1>26, <1>27, <1>28
     DEF Next, Thread, Start, Api, Stop

-----------------------------------------------------------------------------
(* Every member of the sender keeps its type; the vector holds numbers of    *)
(* the file, whatever interval is asked for.                                 *)
THEOREM SenderType == Spec => []TypeOK
  BY InitType, TypeStep, PTL DEF Spec

LEMMA ClockInvariance == Settled => (Spec => []ClockInv)
<1> SUFFICES ASSUME Settled PROVE Spec => []ClockInv
  OBVIOUS
<1>1. ClockInv /\ [Next]_vars => ClockInv'
  BY ClockStep
<1> QED
  BY <1>1, ClockInit, PTL DEF Spec

(* The clock that ends a transmission runs only while nothing is waiting to  *)
(* be sent again.                                                            *)
THEOREM ClockRunsIdle == Settled => (Spec => []ClockMeansIdle)
<1>1. ClockInv => ClockMeansIdle
  BY DEF ClockInv, ClockMeansIdle
<1> QED
  BY <1>1, ClockInvariance, PTL

(* XFTPC_SNDEND comes only when nothing is left to be sent.                  *)
THEOREM EndComesServed == Settled => (Spec => EndWhenServed)
<1> SUFFICES ASSUME Settled PROVE Spec => EndWhenServed
  OBVIOUS
<1> DEFINE Ends == outcome \in {"none", "err"} /\ outcome' \in {"end", "both"}
<1>1. ClockInv /\ [Next]_vars => [Ends => lost = <<>>]_vars
  <2> SUFFICES ASSUME ClockInv, Next, Ends PROVE lost = <<>>
    BY DEF vars, history
  <2>1. CASE JudgeEnd
    BY <2>1 DEF JudgeEnd, ClockInv
  <2>2. CASE UNCHANGED outcome
    BY <2>2
  <2>3. CASE outcome' \in {"none", "err"}
    BY <2>3
  <2>4. JudgeEnd \/ UNCHANGED outcome \/ outcome' \in {"none", "err"}
    <3>1. Thread => JudgeEnd \/ UNCHANGED outcome
      BY DEF Thread, FirstDelay, ThreadTop, SendNothing, SendPkt, CheckLast, AnnounceEof,
         ArmFirst, CheckLost, ArmAgain, TestEnd, history
    <3>2. SendFails => outcome' \in {"none", "err"}
      BY DEF SendFails
    <3>3. Expire => UNCHANGED outcome
      BY DEF Expire, history
    <3>4. Start => UNCHANGED outcome \/ outcome' \in {"none", "err"}
      BY DEF Start, BeginSend, RunTX, history
    <3>5. Api => UNCHANGED outcome
      BY DEF Api, SndPause, SndPauseWait, SndResume, SetSndSeq, history
    <3>6. ASSUME NEW c \in Controllers, Stop(c) PROVE UNCHANGED outcome
      BY <3>6 DEF Stop, ResetTest, ResetSnd, StopResume, EndTransferThread, WaitForMe,
         CloseFile, ResetClear, history
    <3>7. ASSUME NEW a, NEW b, PktRequest(a, b) PROVE UNCHANGED outcome
      BY <3>7 DEF PktRequest
    <3> QED
      BY <3>1, <3>2, <3>3, <3>4, <3>5, <3>6, <3>7 DEF Next
  <2> QED
    BY <2>1, <2>2, <2>3, <2>4
<1> QED
  BY <1>1, ClockInvariance, PTL DEF Spec, EndWhenServed

(* The packets asked for are those sent again and those still waiting.       *)
THEOREM AllAccounted == OneAtATime => (Spec => []Accounted)
<1> SUFFICES ASSUME OneAtATime PROVE Spec => []Accounted
  OBVIOUS
<1> DEFINE Inv == TypeOK /\ StopInv /\ AccountInv
<1>1. Init => Inv
  BY InitType, StopInit, AccountInit
<1>2. Inv /\ [Next]_vars => Inv'
  BY TypeStep, StopStep, AccountStep
<1>3. Inv => Accounted
  BY DEF StopInv, AccountInv, Accounted
<1> QED
  BY <1>1, <1>2, <1>3, PTL DEF Spec
=============================================================================
