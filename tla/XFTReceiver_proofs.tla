------------------------- MODULE XFTReceiver_proofs ------------------------
(***************************************************************************)
(* Theorems about XFTReceiver, for every value of its constants: first the *)
(* types, without any further assumption; then that the file a reception   *)
(* leaves is the file that was sent, for every interleaving of the         *)
(* transfer thread, the IRM thread and the user's cancel, when datagrams   *)
(* of other transfers keep away from the port, the end of the file is      *)
(* announced between two packets, and Reset's test of m_bResetting is      *)
(* atomic; then what is left when the end of the file is announced at any  *)
(* step: no packet is forgotten and none displaced.                        *)
(***************************************************************************)
EXTENDS XFTReceiver, WellFoundedInduction, FiniteSetTheorems, TLAPS

-----------------------------------------------------------------------------
(* What the operations of VectorT do to the items of a vector.              *)

(* insert() in a loop keeps a vector of numbers 1..m one. *)
LEMMA InsertRunType ==
  ASSUME NEW m \in Nat, NEW v \in Seq(1..m), NEW a \in 1..(m+1), NEW b \in 0..m
  PROVE  InsertRun(v, a, b) \in Seq(1..m)
<1>1. CASE a > b
  BY <1>1 DEF InsertRun
<1>2. CASE ~(a > b)
  <2>. DEFINE n == Len(v) + (b + 1 - a)
              f == [j \in 1..n |-> IF j <= Len(v) THEN v[j] ELSE a + (j - Len(v)) - 1]
  <2>1. Len(v) \in Nat /\ n \in Nat
    BY <1>2
  <2>2. \A j \in 1..n : f[j] \in 1..m
    BY <1>2, <2>1
  <2>3. f \in Seq(1..m)
    BY <2>1, <2>2
  <2>. QED BY <1>2, <2>3 DEF InsertRun
<1>. QED BY <1>1, <1>2

(* What a run of insert()s adds. *)
LEMMA InsertRunItems ==
  ASSUME NEW m \in Nat, NEW v \in Seq(1..m), NEW a \in 1..(m+1), NEW b \in 0..m
  PROVE  Items(InsertRun(v, a, b)) = Items(v) \cup a..b
<1>1. CASE a > b
  <2>1. a..b = {}
    BY <1>1
  <2>. QED BY <1>1, <2>1 DEF InsertRun, Items
<1>2. CASE ~(a > b)
  <2>. DEFINE n == Len(v) + (b + 1 - a)
              f == [j \in 1..n |-> IF j <= Len(v) THEN v[j] ELSE a + (j - Len(v)) - 1]
  <2>1. Len(v) \in Nat /\ n \in Nat /\ Len(v) < n
    BY <1>2
  <2>2. InsertRun(v, a, b) = f /\ Len(f) = n
    BY <1>2, <2>1 DEF InsertRun
  <2>3. ASSUME NEW x \in Items(f) PROVE x \in Items(v) \cup a..b
    <3>1. PICK j \in 1..n : x = f[j]
      BY <2>2, <2>3 DEF Items
    <3>2. CASE j <= Len(v)
      BY <3>1, <3>2, <2>1 DEF Items
    <3>3. CASE ~(j <= Len(v))
      BY <3>1, <3>3, <2>1
    <3>. QED BY <3>2, <3>3
  <2>4. ASSUME NEW x \in Items(v) PROVE x \in Items(f)
    <3>1. PICK j \in 1..Len(v) : x = v[j]
      BY <2>4 DEF Items
    <3>2. j \in 1..n /\ f[j] = x
      BY <3>1, <2>1
    <3>. QED BY <3>2, <2>2 DEF Items
  <2>5. ASSUME NEW x \in a..b PROVE x \in Items(f)
    <3>1. (Len(v) + 1 + (x - a)) \in 1..n /\ f[Len(v) + 1 + (x - a)] = x
      BY <2>1, <2>5, <1>2
    <3>. QED BY <3>1, <2>2 DEF Items
  <2>. QED BY <2>2, <2>3, <2>4, <2>5
<1>. QED BY <1>1, <1>2

(* A set of natural numbers has a least element. *)
LEMMA Least ==
  ASSUME NEW T \in SUBSET Nat, T # {}
  PROVE  \E i \in T : \A j \in T : i <= j
<1>. DEFINE R == OpToRel(<, Nat)
<1>1. PICK i \in T : \A j \in T : ~ (<<j, i>> \in R)
  BY NatLessThanWellFounded, WFMin
<1>. HIDE DEF R
<1>2. ASSUME NEW j \in T PROVE i <= j
  <2>1. i \in Nat /\ j \in Nat /\ <<j, i>> \notin R
    BY <1>1
  <2>2. j < i => <<j, i>> \in R
    BY <2>1 DEF R, OpToRel
  <2>3. ~ (j < i)
    BY <2>1, <2>2
  <2>. QED BY <2>1, <2>3
<1>. QED BY <1>1, <1>2

(* search() finds what is there, at the index it returns, and only that. *)
LEMMA SearchFinds ==
  ASSUME NEW S, NEW v \in Seq(S), NEW x
  PROVE  /\ Search(v, x) \in 0..Len(v)
         /\ Search(v, x) # 0 <=> x \in Items(v)
         /\ Search(v, x) # 0 => v[Search(v, x)] = x
<1>. DEFINE First(i) == v[i] = x /\ \A j \in 1..(i-1) : v[j] # x
            T == {i \in 1..Len(v) : v[i] = x}
<1>1. Len(v) \in Nat
  OBVIOUS
<1>2. CASE \E i \in 1..Len(v) : v[i] = x
  <2>1. T \in SUBSET Nat /\ T # {}
    BY <1>2
  <2>2. PICK i \in T : \A j \in T : i <= j
    BY <2>1, Least
  <2>3. i \in 1..Len(v) /\ First(i)
    BY <2>2, <1>1
  <2>4. Search(v, x) = CHOOSE k \in 1..Len(v) : First(k)
    BY <1>2 DEF Search
  <2>5. Search(v, x) \in 1..Len(v) /\ v[Search(v, x)] = x
    <3>. HIDE DEF First
    <3>1. Search(v, x) \in 1..Len(v) /\ First(Search(v, x))
      BY <2>3, <2>4
    <3>. QED BY <3>1 DEF First
  <2>. QED BY <1>1, <1>2, <2>5 DEF Items
<1>3. CASE ~ \E i \in 1..Len(v) : v[i] = x
  <2>1. Search(v, x) = 0
    BY <1>3 DEF Search
  <2>. QED BY <1>1, <1>3, <2>1 DEF Items
<1>. QED BY <1>2, <1>3

(* remove() takes one item out and keeps the type. *)
LEMMA RemoveType ==
  ASSUME NEW S, NEW v \in Seq(S), NEW k \in 1..Len(v)
  PROVE  Remove(v, k) \in Seq(S)
<1>1. Len(v) \in Nat \ {0}
  OBVIOUS
<1>2. \A j \in 1..(Len(v) - 1) : (IF j < k THEN v[j] ELSE v[j + 1]) \in S
  BY <1>1
<1>. QED BY <1>1, <1>2 DEF Remove

(* What is left after remove(): at least everything but the item taken out. *)
LEMMA RemoveItems ==
  ASSUME NEW S, NEW v \in Seq(S), NEW k \in 1..Len(v)
  PROVE  /\ Items(Remove(v, k)) \subseteq Items(v)
         /\ Items(v) \subseteq Items(Remove(v, k)) \cup {v[k]}
<1>. DEFINE n == Len(v) - 1
            f == [j \in 1..n |-> IF j < k THEN v[j] ELSE v[j + 1]]
<1>1. Len(v) \in Nat \ {0} /\ n \in Nat
  OBVIOUS
<1>2. Remove(v, k) = f /\ Len(f) = n
  BY <1>1 DEF Remove
<1>3. ASSUME NEW x \in Items(f) PROVE x \in Items(v)
  <2>1. PICK j \in 1..n : x = f[j]
    BY <1>2, <1>3 DEF Items
  <2>. QED BY <2>1, <1>1 DEF Items
<1>4. ASSUME NEW x \in Items(v), x # v[k] PROVE x \in Items(f)
  <2>1. PICK j \in 1..Len(v) : x = v[j]
    BY <1>4 DEF Items
  <2>2. CASE j < k
    <3>1. j \in 1..n /\ f[j] = x
      BY <1>1, <2>1, <2>2
    <3>. QED BY <3>1, <1>2 DEF Items
  <2>3. CASE j > k
    <3>1. (j-1) \in 1..n /\ f[j-1] = x
      BY <1>1, <2>1, <2>3
    <3>. QED BY <3>1, <1>2 DEF Items
  <2>. QED BY <1>4, <2>1, <2>2, <2>3
<1>. QED BY <1>2, <1>3, <1>4

(* insert() of numbers that are not there yet keeps the items distinct. *)
LEMMA InsertRunDistinct ==
  ASSUME NEW m \in Nat, NEW v \in Seq(1..m), NEW a \in 1..(m+1), NEW b \in 0..m,
         Distinct(v), Items(v) \cap a..b = {}
  PROVE  Distinct(InsertRun(v, a, b))
<1>1. CASE a > b
  BY <1>1 DEF InsertRun
<1>2. CASE ~(a > b)
  <2>. DEFINE n == Len(v) + (b + 1 - a)
              f == [j \in 1..n |-> IF j <= Len(v) THEN v[j] ELSE a + (j - Len(v)) - 1]
  <2>1. Len(v) \in Nat /\ n \in Nat /\ Len(v) < n
    BY <1>2
  <2>2. InsertRun(v, a, b) = f /\ Len(f) = n
    BY <1>2, <2>1 DEF InsertRun
  <2>3. \A j \in 1..n : \/ j <= Len(v) /\ f[j] = v[j] /\ f[j] \notin a..b
                        \/ j > Len(v) /\ f[j] = a + (j - Len(v)) - 1 /\ f[j] \in a..b
    BY <1>2, <2>1 DEF Items
  <2>4. ASSUME NEW i \in 1..n, NEW j \in 1..n, f[i] = f[j] PROVE i = j
    <3>. HIDE DEF f
    <3>1. CASE i <= Len(v) /\ j <= Len(v)
      <4>1. i \in 1..Len(v) /\ j \in 1..Len(v)
        BY <2>1, <3>1
      <4>2. v[i] = v[j]
        BY <2>1, <2>3, <2>4, <3>1
      <4>. QED BY <4>1, <4>2 DEF Distinct
    <3>2. CASE i > Len(v) /\ j > Len(v)
      BY <2>1, <2>3, <2>4, <3>2
    <3>. QED BY <2>1, <2>3, <2>4, <3>1, <3>2
  <2>. QED BY <2>2, <2>4 DEF Distinct
<1>. QED BY <1>1, <1>2

(* remove() from a vector of distinct items takes the item out for good. *)
LEMMA RemoveDistinct ==
  ASSUME NEW S, NEW v \in Seq(S), NEW k \in 1..Len(v), Distinct(v)
  PROVE  /\ Distinct(Remove(v, k))
         /\ Items(Remove(v, k)) = Items(v) \ {v[k]}
<1>. DEFINE n == Len(v) - 1
            f == [j \in 1..n |-> IF j < k THEN v[j] ELSE v[j + 1]]
            At(j) == IF j < k THEN j ELSE j + 1
<1>1. Len(v) \in Nat \ {0} /\ n \in Nat
  OBVIOUS
<1>2. Remove(v, k) = f /\ Len(f) = n
  BY <1>1 DEF Remove
<1>3. \A j \in 1..n : At(j) \in 1..Len(v) \ {k} /\ f[j] = v[At(j)]
  BY <1>1
<1>4. \A i, j \in 1..n : At(i) = At(j) => i = j
  BY <1>1
<1>. HIDE DEF At, f
<1>5. Distinct(f)
  BY <1>2, <1>3, <1>4 DEF Distinct
<1>6. v[k] \notin Items(f)
  BY <1>2, <1>3 DEF Distinct, Items
<1>. QED BY <1>2, <1>5, <1>6, RemoveItems

-----------------------------------------------------------------------------
(* The types.                                                                *)

USE DEF Pkts, Controllers, Alien

LEMMA InitialRecords ==
  /\ NoPkt \in [seq : 0..MaxPkts, data : 0..Alien]
  /\ NoReq \in [pkti : 0..MaxPkts, pktf : 0..MaxPkts, seq : 0..MaxPkts]
  /\ <<>> \in Seq(Pkts)
<1>. QED BY ReceiverAssumption DEF ReceiverAssumption, NoPkt, NoReq

LEMMA InitType == Init => TypeOK
<1>. SUFFICES ASSUME Init PROVE TypeOK
  OBVIOUS
<1>. USE ReceiverAssumption, InitialRecords DEF ReceiverAssumption, Init
<1>1. TypeCounters
  BY DEF TypeCounters
<1>2. TypeFlags
  BY DEF TypeFlags
<1>3. TypeFile
  BY DEF TypeFile
<1>4. TypeThread
  BY DEF TypeThread
<1>5. TypeControl
  BY DEF TypeControl
<1>. QED BY <1>1, <1>2, <1>3, <1>4, <1>5 DEF TypeOK

(* What WriteBlock leaves behind. *)
LEMMA WriteBlockType ==
  ASSUME TypeOK, NEW data \in 0..Alien, NEW at \in Nat, NEW ok \in BOOLEAN,
         WriteBlock(data, at, ok)
  PROVE  /\ TypeFile' /\ nRcvPkts' \in Nat
         /\ tpc' \in {"cmp", "done"}
<1>. USE DEF TypeOK, TypeFile, TypeCounters
<1>1. CASE ok
  BY <1>1 DEF WriteBlock
<1>2. CASE ~ok
  BY <1>2 DEF WriteBlock
<1>. QED BY <1>1, <1>2

(* The run of consecutive numbers behind the cursor: there is one, maybe     *)
(* empty, and each number of it stands on the vector where it is expected.   *)
LEMMA RunLengthType ==
  ASSUME NEW v \in Seq(Pkts), NEW c \in Nat \ {0}, NEW x \in Pkts
  PROVE  /\ RunLength(v, c, x) \in Nat
         /\ x + RunLength(v, c, x) \in Pkts
<1>. USE ReceiverAssumption DEF ReceiverAssumption
<1>. DEFINE On(k) == c + k <= Len(v) /\ v[c + k] = x + k + 1
            T == {k \in Nat : ~On(k)}
            Run(k) == /\ \A i \in 1..k : c + i - 1 <= Len(v) /\ v[c + i - 1] = x + i
                      /\ ~On(k)
<1>1. Len(v) \in Nat /\ Len(v) \in T
  OBVIOUS
<1>2. PICK n \in T : \A j \in T : n <= j
  BY <1>1, Least
<1>3. n \in 0..Len(v)
  BY <1>1, <1>2
<1>4. Run(n)
  <2>1. ASSUME NEW i \in 1..n
        PROVE  c + i - 1 <= Len(v) /\ v[c + i - 1] = x + i
    <3>1. i - 1 \in Nat /\ i - 1 < n
      BY <1>3, <2>1
    <3>2. i - 1 \notin T
      <4>. HIDE DEF T
      <4>. QED BY <1>2, <1>3, <3>1
    <3>3. On(i - 1)
      <4>. HIDE DEF On
      <4>. QED BY <3>1, <3>2
    <3>4. c + (i - 1) = c + i - 1 /\ x + (i - 1) + 1 = x + i
      BY <3>1
    <3>. QED BY <3>3, <3>4
  <2>. QED BY <2>1, <1>2
<1>5. RunLength(v, c, x) = CHOOSE k \in 0..Len(v) : Run(k)
  BY DEF RunLength
<1>. HIDE DEF Run
<1>6. RunLength(v, c, x) \in 0..Len(v) /\ Run(RunLength(v, c, x))
  BY <1>3, <1>4, <1>5
<1>. DEFINE k == RunLength(v, c, x)
<1>7. k \in Nat /\ Run(k)
  BY <1>1, <1>6
<1>. HIDE DEF k
<1>8. CASE k = 0
  BY <1>7, <1>8 DEF k
<1>9. CASE k # 0
  <2>1. k \in 1..k /\ c + k - 1 \in 1..Len(v) /\ v[c + k - 1] = x + k
    BY <1>7, <1>9, <1>1 DEF Run
  <2>2. \A j \in 1..Len(v) : v[j] \in Pkts
    OBVIOUS
  <2>3. x + k \in Pkts
    BY <2>1, <2>2
  <2>. QED BY <1>7, <2>3 DEF k
<1>. QED BY <1>8, <1>9

(* What one turn of the request loop asks for. *)
LEMMA RequestRunType ==
  ASSUME TypeOK, NEW c \in Nat \ {0}, NEW x \in Pkts, RequestRun(x, c)
  PROVE  /\ req' \in [pkti : 0..MaxPkts, pktf : 0..MaxPkts, seq : 0..MaxPkts]
         /\ pos' \in Nat \ {0}
         /\ asked' \subseteq Pkts
<1>. USE ReceiverAssumption DEF ReceiverAssumption
<1>. DEFINE k == RunLength(lost, c, x)
<1>1. lost \in Seq(Pkts) /\ asked \subseteq Pkts
  BY DEF TypeOK, TypeCounters, TypeControl
<1>2. k \in Nat /\ x + k \in Pkts
  BY <1>1, RunLengthType
<1>3. /\ req' = [pkti |-> x, pktf |-> x + k, seq |-> ItemAt(lost, c + k)]
      /\ pos' = Advance(lost, c + k)
      /\ asked' = asked \cup x..(x + k)
  BY DEF RequestRun
<1>. HIDE DEF k
<1>4. ItemAt(lost, c + k) \in 0..MaxPkts
  <2>1. c + k \in Nat \ {0} /\ Len(lost) \in Nat
    BY <1>1, <1>2
  <2>. QED BY <1>1, <2>1 DEF ItemAt
<1>. QED BY <1>1, <1>2, <1>3, <1>4 DEF Advance

(* Each action of Next keeps the types. *)
LEMMA NextType == TypeOK /\ [Next]_vars => TypeOK'
<1>. SUFFICES ASSUME TypeOK, [Next]_vars PROVE TypeOK'
  OBVIOUS
<1>. USE ReceiverAssumption, InitialRecords DEF ReceiverAssumption, TypeOK
<1>1. CASE ThreadStep
  <2>1. CASE ThreadTop
    <3>1. TypeCounters'
      BY <2>1 DEF ThreadTop, vector, member, file, ctrl, TypeCounters
    <3>2. TypeFlags'
      BY <2>1 DEF ThreadTop, vector, member, file, ctrl, TypeFlags
    <3>3. TypeFile'
      BY <2>1 DEF ThreadTop, vector, member, file, ctrl, TypeFile
    <3>4. TypeThread'
      BY <2>1 DEF ThreadTop, vector, member, file, ctrl, TypeThread
    <3>5. TypeControl'
      BY <2>1 DEF ThreadTop, vector, member, file, ctrl, TypeControl
    <3>. QED BY <3>1, <3>2, <3>3, <3>4, <3>5 DEF TypeOK
  <2>2. CASE ReadFails
    <3>1. TypeCounters'
      BY <2>2 DEF ReadFails, vector, member, file, ctrl, TypeCounters
    <3>2. TypeFlags'
      BY <2>2 DEF ReadFails, vector, member, file, ctrl, TypeFlags
    <3>3. TypeFile'
      BY <2>2 DEF ReadFails, vector, member, file, ctrl, TypeFile
    <3>4. TypeThread'
      BY <2>2 DEF ReadFails, vector, member, file, ctrl, TypeThread
    <3>5. TypeControl'
      BY <2>2 DEF ReadFails, vector, member, file, ctrl, TypeControl
    <3>. QED BY <3>1, <3>2, <3>3, <3>4, <3>5 DEF TypeOK
  <2>3. CASE GapFails
    <3>1. TypeCounters'
      BY <2>3 DEF GapFails, vector, member, file, ctrl, TypeCounters
    <3>2. TypeFlags'
      BY <2>3 DEF GapFails, vector, member, file, ctrl, TypeFlags
    <3>3. TypeFile'
      BY <2>3 DEF GapFails, vector, member, file, ctrl, TypeFile
    <3>4. TypeThread'
      BY <2>3 DEF GapFails, vector, member, file, ctrl, TypeThread
    <3>5. TypeControl'
      BY <2>3 DEF GapFails, vector, member, file, ctrl, TypeControl
    <3>. QED BY <3>1, <3>2, <3>3, <3>4, <3>5 DEF TypeOK
  <2>4. CASE CompareSeq
    <3>1. TypeCounters'
      BY <2>4 DEF CompareSeq, vector, member, file, ctrl, TypeCounters
    <3>2. TypeFlags'
      BY <2>4 DEF CompareSeq, vector, member, file, ctrl, TypeFlags
    <3>3. TypeFile'
      BY <2>4 DEF CompareSeq, vector, member, file, ctrl, TypeFile
    <3>4. TypeThread'
      BY <2>4 DEF CompareSeq, vector, member, file, ctrl, TypeThread
    <3>5. TypeControl'
      BY <2>4 DEF CompareSeq, vector, member, file, ctrl, TypeControl
    <3>. QED BY <3>1, <3>2, <3>3, <3>4, <3>5 DEF TypeOK
  <2>5. CASE AdvanceSeq
    <3>1. TypeCounters'
      BY <2>5 DEF AdvanceSeq, vector, member, file, ctrl, TypeThread, TypeCounters
    <3>2. TypeFlags'
      BY <2>5 DEF AdvanceSeq, vector, member, file, ctrl, TypeThread, TypeFlags
    <3>3. TypeFile'
      BY <2>5 DEF AdvanceSeq, vector, member, file, ctrl, TypeThread, TypeFile
    <3>4. TypeThread'
      BY <2>5 DEF AdvanceSeq, vector, member, file, ctrl, TypeThread, TypeThread
    <3>5. TypeControl'
      BY <2>5 DEF AdvanceSeq, vector, member, file, ctrl, TypeThread, TypeControl
    <3>. QED BY <3>1, <3>2, <3>3, <3>4, <3>5 DEF TypeOK
  <2>6. CASE CheckComplete
    <3>1. TypeCounters'
      BY <2>6 DEF CheckComplete, vector, file, ctrl, TypeCounters
    <3>2. TypeFlags'
      BY <2>6 DEF CheckComplete, vector, file, ctrl, TypeFlags
    <3>3. TypeFile'
      BY <2>6 DEF CheckComplete, vector, file, ctrl, TypeFile
    <3>4. TypeThread'
      BY <2>6 DEF CheckComplete, vector, file, ctrl, TypeThread
    <3>5. TypeControl'
      BY <2>6 DEF CheckComplete, vector, file, ctrl, TypeControl
    <3>. QED BY <3>1, <3>2, <3>3, <3>4, <3>5 DEF TypeOK
  <2>7. ASSUME NEW ok \in BOOLEAN, SaveAfterGap(ok) PROVE TypeOK'
    <3>0. /\ nRcvPkts' \in Nat /\ TypeFile'
          /\ tpc' \in {"chk", "cmp", "done"}
      <4>1. CASE abort
        BY <2>7, <4>1 DEF SaveAfterGap, TypeFile, TypeCounters
      <4>2. CASE ~abort
        <5>1. tpkt.data \in 0..Alien /\ flen + 1 \in Nat
          BY DEF TypeThread, TypeFile
        <5>2. WriteBlock(tpkt.data, flen + 1, ok)
          BY <2>7, <4>2 DEF SaveAfterGap
        <5>. QED BY <5>1, <5>2, WriteBlockType
      <4>. QED BY <4>1, <4>2
    <3>1. TypeCounters'
      BY <2>7, <3>0 DEF SaveAfterGap, vector, TypeCounters
    <3>2. TypeFlags'
      BY <2>7 DEF SaveAfterGap, vector, member, ctrl, TypeFlags
    <3>3. TypeFile'
      BY <3>0
    <3>4. TypeThread'
      BY <2>7, <3>0 DEF SaveAfterGap, TypeThread
    <3>5. TypeControl'
      BY <2>7 DEF SaveAfterGap, vector, member, ctrl, TypeControl
    <3>. QED BY <3>1, <3>2, <3>3, <3>4, <3>5 DEF TypeOK
  <2>. QED BY <1>1, <2>1, <2>2, <2>3, <2>4, <2>5, <2>6, <2>7 DEF ThreadStep
<1>2. CASE Arrival
  <2>1. ASSUME NEW ok \in BOOLEAN, Reconnect(ok) PROVE TypeOK'
    <3>1. TypeCounters'
      BY <2>1 DEF Reconnect, vector, file, ctrl, TypeCounters
    <3>2. TypeFlags'
      BY <2>1 DEF Reconnect, vector, file, ctrl, TypeFlags
    <3>3. TypeFile'
      BY <2>1 DEF Reconnect, vector, file, ctrl, TypeFile
    <3>4. TypeThread'
      BY <2>1 DEF Reconnect, vector, file, ctrl, TypeThread
    <3>5. TypeControl'
      BY <2>1 DEF Reconnect, vector, file, ctrl, TypeControl
    <3>. QED BY <3>1, <3>2, <3>3, <3>4, <3>5 DEF TypeOK
  <2>2. ASSUME NEW m \in Packets, SaveRefused(m) PROVE TypeOK'
    <3>1. TypeCounters'
      BY <2>2 DEF SaveRefused, vector, member, file, ctrl, TypeCounters
    <3>2. TypeFlags'
      BY <2>2 DEF SaveRefused, vector, member, file, ctrl, TypeFlags
    <3>3. TypeFile'
      BY <2>2 DEF SaveRefused, vector, member, file, ctrl, TypeFile
    <3>4. TypeThread'
      BY <2>2 DEF SaveRefused, vector, member, file, ctrl, TypeThread
    <3>5. TypeControl'
      BY <2>2 DEF SaveRefused, vector, member, file, ctrl, TypeControl
    <3>. QED BY <3>1, <3>2, <3>3, <3>4, <3>5 DEF TypeOK
  <2>3. ASSUME NEW m \in Packets, SaveIgnored(m) PROVE TypeOK'
    <3>1. TypeCounters'
      BY <2>3 DEF SaveIgnored, vector, member, file, ctrl, TypeCounters
    <3>2. TypeFlags'
      BY <2>3 DEF SaveIgnored, vector, member, file, ctrl, TypeFlags
    <3>3. TypeFile'
      BY <2>3 DEF SaveIgnored, vector, member, file, ctrl, TypeFile
    <3>4. TypeThread'
      BY <2>3 DEF SaveIgnored, vector, member, file, ctrl, TypeThread
    <3>5. TypeControl'
      BY <2>3 DEF SaveIgnored, vector, member, file, ctrl, TypeControl
    <3>. QED BY <3>1, <3>2, <3>3, <3>4, <3>5 DEF TypeOK
  <2>4. ASSUME NEW m \in Packets, NEW ok \in BOOLEAN, SaveLate(m, ok) PROVE TypeOK'
    <3>0. TypeFile' /\ nRcvPkts' \in Nat /\ tpc' \in {"cmp", "done"}
      <4>1. WriteBlock(m.data, m.seq, ok) /\ m.seq \in Nat /\ m.data \in 0..Alien
        BY <2>4 DEF SaveLate, Packets
      <4>. QED BY <4>1, WriteBlockType
    <3>1. TypeCounters'
      <4>1. lost \in Seq(Pkts)
        BY DEF TypeCounters
      <4>2. Search(lost, m.seq) \in 1..Len(lost)
        BY <2>4, <4>1, SearchFinds DEF SaveLate
      <4>3. lost' \in Seq(Pkts)
        BY <2>4, <4>1, <4>2, RemoveType DEF SaveLate
      <4>. QED BY <2>4, <3>0, <4>3 DEF SaveLate, TypeCounters
    <3>2. TypeFlags'
      BY <2>4 DEF SaveLate, member, ctrl, TypeFlags
    <3>3. TypeFile'
      BY <3>0
    <3>4. TypeThread'
      BY <2>4, <3>0 DEF SaveLate, TypeThread, Packets
    <3>5. TypeControl'
      BY <2>4 DEF SaveLate, member, ctrl, TypeControl
    <3>. QED BY <3>1, <3>2, <3>3, <3>4, <3>5 DEF TypeOK
  <2>5. ASSUME NEW m \in Packets, NEW ok \in BOOLEAN, SaveNext(m, ok) PROVE TypeOK'
    <3>0. TypeFile' /\ nRcvPkts' \in Nat /\ tpc' \in {"cmp", "done"}
      <4>1. WriteBlock(m.data, flen + 1, ok) /\ flen + 1 \in Nat /\ m.data \in 0..Alien
        BY <2>5 DEF SaveNext, Packets, TypeFile
      <4>. QED BY <4>1, WriteBlockType
    <3>1. TypeCounters'
      BY <2>5, <3>0 DEF SaveNext, vector, TypeCounters
    <3>2. TypeFlags'
      BY <2>5 DEF SaveNext, member, ctrl, TypeFlags
    <3>3. TypeFile'
      BY <3>0
    <3>4. TypeThread'
      BY <2>5, <3>0 DEF SaveNext, TypeThread, Packets
    <3>5. TypeControl'
      BY <2>5 DEF SaveNext, member, ctrl, TypeControl
    <3>. QED BY <3>1, <3>2, <3>3, <3>4, <3>5 DEF TypeOK
  <2>6. ASSUME NEW m \in Packets, NEW k \in Pkts, SaveGap(m, k) PROVE TypeOK'
    <3>1. TypeCounters'
      <4>. DEFINE b == IF k = m.seq THEN k - 1 ELSE k
      <4>1. /\ b \in 0..MaxPkts /\ curSeq + 1 \in 1..(MaxPkts + 1)
            /\ lost' = InsertRun(lost, curSeq + 1, b) /\ lost \in Seq(Pkts)
        BY <2>6 DEF SaveGap, TypeCounters
      <4>2. lost' \in Seq(Pkts)
        <5>. HIDE DEF b
        <5>. QED BY <4>1, InsertRunType
      <4>. QED BY <2>6, <4>2 DEF SaveGap, TypeCounters
    <3>2. TypeFlags'
      BY <2>6 DEF SaveGap, member, ctrl, TypeFlags
    <3>3. TypeFile'
      <4>1. flen \in Nat /\ curSeq \in Int /\ k \in Int /\ k >= curSeq + 1
        BY <2>6 DEF SaveGap, TypeFile, TypeCounters, Pkts
      <4>2. flen' = flen + (k - (curSeq + 1)) /\ block' = block
        BY <2>6 DEF SaveGap
      <4>. QED BY <4>1, <4>2 DEF TypeFile
    <3>4. TypeThread'
      BY <2>6 DEF SaveGap, TypeThread, Packets
    <3>5. TypeControl'
      BY <2>6 DEF SaveGap, member, ctrl, TypeControl
    <3>. QED BY <3>1, <3>2, <3>3, <3>4, <3>5 DEF TypeOK
  <2>. QED BY <1>2, <2>1, <2>2, <2>3, <2>4, <2>5, <2>6 DEF Arrival
<1>3. CASE Start
  <2>1. CASE RunRX
    <3>1. TypeCounters'
      BY <2>1 DEF RunRX, Goto, vector, file, TypeCounters
    <3>2. TypeFlags'
      BY <2>1 DEF RunRX, Goto, vector, file, TypeFlags
    <3>3. TypeFile'
      BY <2>1 DEF RunRX, Goto, vector, file, TypeFile
    <3>4. TypeThread'
      BY <2>1 DEF RunRX, Goto, vector, file, TypeThread
    <3>5. TypeControl'
      BY <2>1 DEF RunRX, Goto, vector, file, TypeControl
    <3>. QED BY <3>1, <3>2, <3>3, <3>4, <3>5 DEF TypeOK
  <2>2. ASSUME NEW n \in Pkts, NEW p \in PtPModes, NEW netOk \in BOOLEAN, BeginReceive(n, p, netOk) PROVE TypeOK'
    <3>1. TypeCounters'
      BY <2>2 DEF BeginReceive, Goto, vector, thread, TypeCounters
    <3>2. TypeFlags'
      BY <2>2 DEF BeginReceive, Goto, vector, thread, TypeFlags
    <3>3. TypeFile'
      BY <2>2 DEF BeginReceive, Goto, vector, thread, TypeFile
    <3>4. TypeThread'
      BY <2>2 DEF BeginReceive, Goto, vector, thread, TypeThread
    <3>5. TypeControl'
      BY <2>2 DEF BeginReceive, Goto, vector, thread, TypeControl
    <3>. QED BY <3>1, <3>2, <3>3, <3>4, <3>5 DEF TypeOK
  <2>. QED BY <1>3, <2>1, <2>2 DEF Start
<1>4. CASE Eof
  <2>1. CASE NotifyEOF
    <3>1. TypeCounters'
      <4>1. lost' \in Seq(Pkts)
        BY <2>1, InsertRunType DEF NotifyEOF, TypeCounters
      <4>. QED BY <2>1, <4>1 DEF NotifyEOF, TypeCounters
    <3>2. TypeFlags'
      BY <2>1 DEF NotifyEOF, Goto, member, file, thread, TypeFlags
    <3>3. TypeFile'
      BY <2>1 DEF NotifyEOF, Goto, member, file, thread, TypeFile
    <3>4. TypeThread'
      BY <2>1 DEF NotifyEOF, Goto, member, file, thread, TypeThread
    <3>5. TypeControl'
      BY <2>1 DEF NotifyEOF, Goto, member, file, thread, TypeControl
    <3>. QED BY <3>1, <3>2, <3>3, <3>4, <3>5 DEF TypeOK
  <2>2. CASE RequestFirst
    <3>0. /\ pos' \in Nat \ {0} /\ asked' \subseteq Pkts
          /\ req' \in [pkti : 0..MaxPkts, pktf : 0..MaxPkts, seq : 0..MaxPkts]
      <4>1. CASE abort \/ lost = <<>>
        BY <2>2, <4>1 DEF RequestFirst, TypeCounters, TypeControl
      <4>2. CASE ~abort /\ lost # <<>>
        <5>1. lost[1] \in Pkts /\ RequestRun(lost[1], 2)
          BY <2>2, <4>2 DEF RequestFirst, TypeCounters
        <5>. QED BY <5>1, RequestRunType
      <4>. QED BY <4>1, <4>2
    <3>1. TypeCounters'
      BY <2>2, <3>0 DEF RequestFirst, TypeCounters
    <3>2. TypeFlags'
      BY <2>2 DEF RequestFirst, member, file, TypeFlags
    <3>3. TypeFile'
      BY <2>2 DEF RequestFirst, file, TypeFile
    <3>4. TypeThread'
      BY <2>2 DEF RequestFirst, thread, TypeThread
    <3>5. TypeControl'
      BY <2>2, <3>0 DEF RequestFirst, Goto, TypeControl
    <3>. QED BY <3>1, <3>2, <3>3, <3>4, <3>5 DEF TypeOK
  <2>3. CASE RequestNext
    <3>0. /\ pos' \in Nat \ {0} /\ asked' \subseteq Pkts
          /\ req' \in [pkti : 0..MaxPkts, pktf : 0..MaxPkts, seq : 0..MaxPkts]
      <4>1. CASE abort \/ req.seq = 0
        BY <2>3, <4>1 DEF RequestNext, TypeCounters, TypeControl
      <4>2. CASE ~abort /\ req.seq # 0
        <5>1. req.seq \in Pkts /\ pos \in Nat \ {0}
          BY <4>2 DEF TypeControl, TypeCounters
        <5>2. RequestRun(req.seq, pos)
          BY <2>3, <4>2 DEF RequestNext
        <5>. QED BY <5>1, <5>2, RequestRunType
      <4>. QED BY <4>1, <4>2
    <3>1. TypeCounters'
      BY <2>3, <3>0 DEF RequestNext, TypeCounters
    <3>2. TypeFlags'
      BY <2>3 DEF RequestNext, member, file, TypeFlags
    <3>3. TypeFile'
      BY <2>3 DEF RequestNext, file, TypeFile
    <3>4. TypeThread'
      BY <2>3 DEF RequestNext, thread, TypeThread
    <3>5. TypeControl'
      BY <2>3, <3>0 DEF RequestNext, Goto, TypeControl
    <3>. QED BY <3>1, <3>2, <3>3, <3>4, <3>5 DEF TypeOK
  <2>. QED BY <1>4, <2>1, <2>2, <2>3 DEF Eof
<1>5. ASSUME NEW c \in Controllers, Stop(c) PROVE TypeOK'
  <2>1. CASE ResetTest(c)
    <3>1. TypeCounters'
      BY <2>1 DEF ResetTest, Goto, vector, member, file, thread, TypeCounters
    <3>2. TypeFlags'
      BY <2>1 DEF ResetTest, Goto, vector, member, file, thread, TypeFlags
    <3>3. TypeFile'
      BY <2>1 DEF ResetTest, Goto, vector, member, file, thread, TypeFile
    <3>4. TypeThread'
      BY <2>1 DEF ResetTest, Goto, vector, member, file, thread, TypeThread
    <3>5. TypeControl'
      BY <2>1 DEF ResetTest, Goto, vector, member, file, thread, TypeControl
    <3>. QED BY <3>1, <3>2, <3>3, <3>4, <3>5 DEF TypeOK
  <2>2. CASE ResetRcv(c)
    <3>1. TypeCounters'
      BY <2>2 DEF ResetRcv, Goto, vector, file, thread, TypeCounters
    <3>2. TypeFlags'
      BY <2>2 DEF ResetRcv, Goto, vector, file, thread, TypeFlags
    <3>3. TypeFile'
      BY <2>2 DEF ResetRcv, Goto, vector, file, thread, TypeFile
    <3>4. TypeThread'
      BY <2>2 DEF ResetRcv, Goto, vector, file, thread, TypeThread
    <3>5. TypeControl'
      BY <2>2 DEF ResetRcv, Goto, vector, file, thread, TypeControl
    <3>. QED BY <3>1, <3>2, <3>3, <3>4, <3>5 DEF TypeOK
  <2>3. CASE EndTransferThread(c)
    <3>1. TypeCounters'
      BY <2>3 DEF EndTransferThread, Goto, vector, file, thread, TypeCounters
    <3>2. TypeFlags'
      BY <2>3 DEF EndTransferThread, Goto, vector, file, thread, TypeFlags
    <3>3. TypeFile'
      BY <2>3 DEF EndTransferThread, Goto, vector, file, thread, TypeFile
    <3>4. TypeThread'
      BY <2>3 DEF EndTransferThread, Goto, vector, file, thread, TypeThread
    <3>5. TypeControl'
      BY <2>3 DEF EndTransferThread, Goto, vector, file, thread, TypeControl
    <3>. QED BY <3>1, <3>2, <3>3, <3>4, <3>5 DEF TypeOK
  <2>4. CASE WaitForMe(c)
    <3>1. TypeCounters'
      BY <2>4 DEF WaitForMe, Goto, vector, member, file, TypeCounters
    <3>2. TypeFlags'
      BY <2>4 DEF WaitForMe, Goto, vector, member, file, TypeFlags
    <3>3. TypeFile'
      BY <2>4 DEF WaitForMe, Goto, vector, member, file, TypeFile
    <3>4. TypeThread'
      BY <2>4 DEF WaitForMe, Goto, vector, member, file, TypeThread
    <3>5. TypeControl'
      BY <2>4 DEF WaitForMe, Goto, vector, member, file, TypeControl
    <3>. QED BY <3>1, <3>2, <3>3, <3>4, <3>5 DEF TypeOK
  <2>5. CASE ResetClear(c)
    <3>1. TypeCounters'
      BY <2>5 DEF ResetClear, Goto, thread, TypeCounters
    <3>2. TypeFlags'
      BY <2>5 DEF ResetClear, Goto, thread, TypeFlags
    <3>3. TypeFile'
      BY <2>5 DEF ResetClear, Goto, thread, TypeFile
    <3>4. TypeThread'
      BY <2>5 DEF ResetClear, Goto, thread, TypeThread
    <3>5. TypeControl'
      BY <2>5 DEF ResetClear, Goto, thread, TypeControl
    <3>. QED BY <3>1, <3>2, <3>3, <3>4, <3>5 DEF TypeOK
  <2>. QED BY <1>5, <2>1, <2>2, <2>3, <2>4, <2>5 DEF Stop
<1>6. CASE UNCHANGED vars
  BY <1>6 DEF vars, vector, member, file, thread, ctrl, TypeCounters, TypeFlags, TypeFile,
              TypeThread, TypeControl
<1>. QED BY <1>1, <1>2, <1>3, <1>4, <1>5, <1>6 DEF Next

(* m_uCurSeq, the lost vector and the file's blocks stay within the file,    *)
(* whatever packets, end of file notices and resets come, and however they   *)
(* interleave.                                                               *)
THEOREM ReceiverType == Spec => []TypeOK
<1>. QED BY InitType, NextType, PTL DEF Spec

-----------------------------------------------------------------------------
Settled == AtomicReset /\ ~Stray /\ EofPhases \subseteq {"settled"}

InReset == {"reset", "join", "wait", "clear"}
Resting == {"none", "top", "done"}

(* A Reset past its test of m_bRcvEnabled keeps the flags up. *)
FlagsUp == \A c \in Controllers :
  pc[c] \in {"join", "wait", "clear"} => rcvEnabled /\ abort /\ resetting

(* There is one at a time. *)
OneReset == \A c, d \in Controllers : pc[c] \in InReset /\ pc[d] \in InReset => c = d

(* While one clears, or while no reception runs, the thread is not inside a  *)
(* packet.                                                                   *)
ThreadRests ==
  /\ ~receiving => tpc \in Resting
  /\ \A c \in Controllers : pc[c] = "clear" => tpc \in Resting

RunInv == (receiving => rcvEnabled) /\ (pc["irm"] = "begun" => ~receiving)

ControlInv == FlagsUp /\ OneReset /\ ThreadRests /\ RunInv

(* What a reception finds when RunRX starts it, and what ends it. *)
StartInv ==
  /\ ~receiving => lost = <<>>
  /\ rcvEnabled /\ ~receiving =>
       block = [k \in Pkts |-> 0] /\ flen = 0 /\ nRcvPkts = 0 /\ ~complete
  /\ rcvEnabled => fileOpen /\ totPkts \in Pkts
  /\ rcvEnabled /\ complete => tpc \in {"none", "done"}

(* The file: each block empty or its own packet, none behind the end, and    *)
(* as many as were counted.                                                  *)
FileInv == rcvEnabled =>
  /\ \A k \in Pkts : block[k] \in {0, k} /\ (block[k] # 0 => k <= flen)
  /\ flen <= totPkts
  /\ nRcvPkts = Cardinality(Saved)

(* The last number that is in the file or on the lost vector: m_uCurSeq is   *)
(* behind it between the write and the assignment.                           *)
High == IF tpc = "gap" THEN tpkt.seq - 1
        ELSE IF tpc \in {"cmp", "set"} /\ tpkt.seq > curSeq THEN tpkt.seq
        ELSE curSeq

(* Every number up to there is in exactly one of the two, and the file ends  *)
(* there until the end of file is announced.                                 *)
VectorInv == Active =>
  /\ High <= totPkts
  /\ Distinct(lost) /\ Items(lost) \subseteq 1..High
  /\ Items(lost) \cap Saved = {} /\ 1..High \subseteq Items(lost) \cup Saved
  /\ High < totPkts => flen = High
  /\ tpc = "gap" => tpkt.seq > curSeq + 1 /\ tpkt.seq <= totPkts /\ tpkt.data = tpkt.seq
  /\ tpc = "set" => tpkt.seq > curSeq

DataInv == /\ StartInv /\ FileInv /\ VectorInv
           /\ SuccessMeansComplete /\ DiskHoldsWholeFiles

IInv == TypeOK /\ ControlInv /\ DataInv

-----------------------------------------------------------------------------
(* Goto moves one controller. *)
LEMMA GotoMoves ==
  ASSUME TypeOK, NEW c \in Controllers, NEW label, Goto(c, label)
  PROVE  /\ pc'[c] = label
         /\ \A d \in Controllers : d # c => pc'[d] = pc[d]
<1>. QED BY DEF TypeOK, TypeControl, Goto

(* The steps of the threads keep ControlInv. *)
LEMMA ControlStep ==
  ASSUME AtomicReset, TypeOK, ControlInv, Next
  PROVE  ControlInv'
<1>. USE DEF ControlInv, Resting
<1>1. CASE ThreadStep
  <2>1. /\ UNCHANGED <<rcvEnabled, receiving, abort, resetting, pc>>
        /\ tpc = "top" \/ tpc \notin Resting
        /\ tpc = "top" => tpc' \in {"done", "read"} /\ (tpc' = "read" => receiving /\ ~abort)
    BY <1>1 DEF ThreadStep, ThreadTop, ReadFails, GapFails, CompareSeq, AdvanceSeq,
                CheckComplete, SaveAfterGap, WriteBlock, member, ctrl
  <2>2. FlagsUp' /\ OneReset' /\ RunInv'
    BY <2>1 DEF FlagsUp, OneReset, RunInv
  <2>3. ThreadRests'
    BY <2>1 DEF ThreadRests, FlagsUp
  <2>. QED BY <2>2, <2>3
<1>2. CASE Arrival
  <2>1. UNCHANGED <<rcvEnabled, receiving, abort, resetting, pc>> /\ tpc \notin Resting
    BY <1>2 DEF Arrival, Reconnect, SaveRefused, SaveIgnored, SaveLate, SaveNext, SaveGap,
                Accepted, Reading, member, ctrl
  <2>. QED BY <2>1 DEF FlagsUp, OneReset, RunInv, ThreadRests
<1>3. CASE RunRX
  <2>1. /\ UNCHANGED <<rcvEnabled, abort, resetting>>
        /\ \/ UNCHANGED <<receiving, tpc>>
           \/ rcvEnabled /\ tpc' = "top"
    BY <1>3 DEF RunRX
  <2>2. pc'["irm"] = "idle" /\ \A d \in Controllers : d # "irm" => pc'[d] = pc[d]
    <3>1. Goto("irm", "idle") /\ "irm" \in Controllers
      BY <1>3 DEF RunRX
    <3>. QED BY <3>1, GotoMoves
  <2>3. FlagsUp' /\ OneReset'
    BY <2>1, <2>2 DEF FlagsUp, OneReset, InReset
  <2>4. ThreadRests'
    BY <2>1, <2>2 DEF ThreadRests
  <2>5. RunInv'
    BY <2>1, <2>2 DEF RunInv
  <2>. QED BY <2>3, <2>4, <2>5
<1>4. ASSUME NEW n \in Pkts, NEW p \in PtPModes, NEW netOk \in BOOLEAN, BeginReceive(n, p, netOk)
      PROVE  ControlInv'
  <2>1. ~rcvEnabled /\ UNCHANGED <<receiving, resetting, tpc>>
    BY <1>4 DEF BeginReceive, thread
  <2>2. /\ pc'["irm"] \in {"idle", "begun"}
        /\ \A d \in Controllers : d # "irm" => pc'[d] = pc[d]
    BY <1>4 DEF BeginReceive, Goto, TypeOK, TypeControl
  <2>3. \A d \in Controllers : pc'[d] \notin {"join", "wait", "clear"}
    BY <2>1, <2>2 DEF FlagsUp
  <2>4. FlagsUp' /\ OneReset'
    BY <2>2, <2>3 DEF FlagsUp, OneReset, InReset
  <2>5. ThreadRests'
    BY <2>1, <2>3 DEF ThreadRests
  <2>6. RunInv'
    BY <2>1, <2>3 DEF RunInv
  <2>. QED BY <2>4, <2>5, <2>6
<1>5. CASE Eof
  <2>1. UNCHANGED <<rcvEnabled, receiving, abort, resetting, tpc>>
    BY <1>5 DEF Eof, NotifyEOF, RequestFirst, RequestNext, member, thread
  <2>2. /\ pc'["irm"] \in {"idle", "eofwait", "eofreq"}
        /\ \A d \in Controllers : d # "irm" => pc'[d] = pc[d]
    BY <1>5 DEF Eof, NotifyEOF, RequestFirst, RequestNext, Goto, TypeOK, TypeControl
  <2>3. FlagsUp' /\ OneReset'
    BY <2>1, <2>2 DEF FlagsUp, OneReset, InReset
  <2>4. ThreadRests'
    BY <2>1, <2>2 DEF ThreadRests
  <2>5. RunInv'
    BY <2>1, <2>2 DEF RunInv
  <2>. QED BY <2>3, <2>4, <2>5
<1>6. ASSUME NEW c \in Controllers, ResetTest(c) PROVE ControlInv'
  <2>1. /\ UNCHANGED <<rcvEnabled, receiving, abort, resetting, tpc>>
        /\ ~resetting /\ \A d \in Controllers : pc[d] # "reset"
    BY <1>6 DEF ResetTest, member, thread
  <2>2. pc'[c] = "reset" /\ \A d \in Controllers : d # c => pc'[d] = pc[d]
    BY <1>6, GotoMoves DEF ResetTest
  <2>3. FlagsUp' /\ OneReset'
    BY <2>1, <2>2 DEF FlagsUp, OneReset, InReset
  <2>4. ThreadRests'
    BY <2>1, <2>2 DEF ThreadRests
  <2>5. pc'["irm"] = "begun" => pc["irm"] = "begun"
    BY <2>2
  <2>6. RunInv'
    BY <2>1, <2>5 DEF RunInv
  <2>. QED BY <2>3, <2>4, <2>6
<1>7. ASSUME NEW c \in Controllers, ResetRcv(c) PROVE ControlInv'
  <2>1. /\ UNCHANGED <<rcvEnabled, receiving, tpc>> /\ pc[c] = "reset"
        /\ rcvEnabled => resetting' = TRUE /\ abort' = TRUE
        /\ rcvEnabled => Goto(c, "join")
        /\ ~rcvEnabled => Goto(c, "idle")
    BY <1>7 DEF ResetRcv, thread
  <2>2. /\ \/ rcvEnabled /\ pc'[c] = "join"
           \/ ~rcvEnabled /\ pc'[c] = "idle"
        /\ \A d \in Controllers : d # c => pc'[d] = pc[d]
    <3>1. CASE rcvEnabled
      BY <2>1, <3>1, GotoMoves
    <3>2. CASE ~rcvEnabled
      BY <2>1, <3>2, GotoMoves
    <3>. QED BY <3>1, <3>2
  <2>3. FlagsUp'
    BY <2>1, <2>2 DEF FlagsUp
  <2>4. OneReset'
    BY <2>1, <2>2 DEF OneReset, InReset
  <2>5. ThreadRests'
    BY <2>1, <2>2 DEF ThreadRests
  <2>6. pc'["irm"] = "begun" => pc["irm"] = "begun"
    BY <2>2
  <2>7. RunInv'
    BY <2>1, <2>6 DEF RunInv
  <2>. QED BY <2>3, <2>4, <2>5, <2>7
<1>8. ASSUME NEW c \in Controllers, EndTransferThread(c) PROVE ControlInv'
  <2>1. /\ UNCHANGED <<rcvEnabled, receiving, resetting, tpc>> /\ pc[c] = "join"
        /\ abort' = abort \/ abort' = TRUE
        /\ \/ tpc = "none" /\ Goto(c, "clear")
           \/ Goto(c, "wait")
    BY <1>8 DEF EndTransferThread, thread
  <2>2. /\ \/ tpc = "none" /\ pc'[c] = "clear"
           \/ pc'[c] = "wait"
        /\ \A d \in Controllers : d # c => pc'[d] = pc[d]
    <3>1. CASE tpc = "none" /\ Goto(c, "clear")
      BY <3>1, GotoMoves
    <3>2. CASE Goto(c, "wait")
      BY <3>2, GotoMoves
    <3>. QED BY <2>1, <3>1, <3>2
  <2>3. FlagsUp'
    BY <2>1, <2>2 DEF FlagsUp
  <2>4. OneReset'
    BY <2>1, <2>2 DEF OneReset, InReset
  <2>5. ThreadRests'
    BY <2>1, <2>2 DEF ThreadRests
  <2>6. pc'["irm"] = "begun" => pc["irm"] = "begun"
    BY <2>2
  <2>7. RunInv'
    BY <2>1, <2>6 DEF RunInv
  <2>. QED BY <2>3, <2>4, <2>5, <2>7
<1>9. ASSUME NEW c \in Controllers, WaitForMe(c) PROVE ControlInv'
  <2>1. /\ UNCHANGED <<rcvEnabled, receiving, abort, resetting>>
        /\ pc[c] = "wait" /\ tpc' = "none"
    BY <1>9 DEF WaitForMe, member
  <2>2. pc'[c] = "clear" /\ \A d \in Controllers : d # c => pc'[d] = pc[d]
    BY <1>9, GotoMoves DEF WaitForMe
  <2>3. FlagsUp'
    BY <2>1, <2>2 DEF FlagsUp
  <2>4. OneReset'
    BY <2>1, <2>2 DEF OneReset, InReset
  <2>5. ThreadRests'
    BY <2>1, <2>2 DEF ThreadRests
  <2>6. pc'["irm"] = "begun" => pc["irm"] = "begun"
    BY <2>2
  <2>7. RunInv'
    BY <2>1, <2>6 DEF RunInv
  <2>. QED BY <2>3, <2>4, <2>5, <2>7
<1>10. ASSUME NEW c \in Controllers, ResetClear(c) PROVE ControlInv'
  <2>1. /\ UNCHANGED <<abort, tpc>> /\ pc[c] = "clear" /\ ~receiving'
    BY <1>10 DEF ResetClear, thread
  <2>2. pc'[c] = "idle" /\ \A d \in Controllers : d # c => pc'[d] = pc[d]
    BY <1>10, GotoMoves DEF ResetClear
  <2>3. \A d \in Controllers : pc'[d] \notin InReset
    BY <2>1, <2>2 DEF OneReset, InReset
  <2>4. FlagsUp' /\ OneReset'
    BY <2>3 DEF FlagsUp, OneReset, InReset
  <2>5. ThreadRests'
    BY <2>1, <2>3 DEF ThreadRests, InReset
  <2>6. RunInv'
    BY <2>1, <2>3 DEF RunInv, InReset
  <2>. QED BY <2>4, <2>5, <2>6
<1>. QED BY <1>1, <1>2, <1>3, <1>4, <1>5, <1>6, <1>7, <1>8, <1>9, <1>10
         DEF Next, Start, Stop

-----------------------------------------------------------------------------
(* The file. *)

(* Saved is read off the blocks and the number of packets. *)
LEMMA SavedSame ==
  ASSUME UNCHANGED <<block, totPkts>>
  PROVE  Saved' = Saved
<1>. QED BY DEF Saved

(* A file with as many saved packets as packets has them all. *)
LEMMA SavedFinite ==
  ASSUME TypeOK
  PROVE  /\ IsFiniteSet(Saved) /\ Saved \subseteq 1..totPkts
         /\ Cardinality(Saved) = totPkts => Saved = 1..totPkts
<1>1. totPkts \in Nat /\ Saved \in SUBSET (1..totPkts)
  BY DEF TypeOK, TypeCounters, Saved
<1>2. IsFiniteSet(1..totPkts) /\ Cardinality(1..totPkts) = totPkts
  BY <1>1, FS_Interval
<1>. QED BY <1>1, <1>2, FS_Subset

(* A packet written to its own block, which was empty, counts once. *)
LEMMA Written ==
  ASSUME TypeOK, rcvEnabled, StartInv, FileInv, NEW at \in 1..totPkts, at \notin Saved,
         WriteBlock(at, at, TRUE), UNCHANGED <<totPkts, rcvEnabled>>
  PROVE  /\ FileInv' /\ Saved' = Saved \cup {at} /\ tpc' = "cmp"
         /\ flen' = IF at > flen THEN at ELSE flen
<1>0. /\ totPkts \in Pkts /\ flen \in Nat /\ block \in [Pkts -> 0..Alien]
  BY DEF StartInv, TypeOK, TypeFile
<1>1. /\ at \in Pkts /\ flen <= totPkts /\ nRcvPkts = Cardinality(Saved)
      /\ \A k \in Pkts : block[k] \in {0, k} /\ (block[k] # 0 => k <= flen)
  BY <1>0, ReceiverAssumption DEF FileInv, ReceiverAssumption
<1>2. /\ block' = [block EXCEPT ![at] = at] /\ flen' = IF at > flen THEN at ELSE flen
      /\ nRcvPkts' = nRcvPkts + 1 /\ tpc' = "cmp"
  BY DEF WriteBlock
<1>3. Saved' = Saved \cup {at}
  BY <1>0, <1>1, <1>2, ReceiverAssumption DEF Saved, ReceiverAssumption
<1>4. nRcvPkts' = Cardinality(Saved')
  BY <1>0, <1>1, <1>2, <1>3, SavedFinite, FS_AddElement
<1>5. \A k \in Pkts : block'[k] \in {0, k} /\ (block'[k] # 0 => k <= flen')
  BY <1>0, <1>1, <1>2, ReceiverAssumption DEF ReceiverAssumption
<1>6. flen' <= totPkts'
  BY <1>0, <1>1, <1>2, ReceiverAssumption DEF ReceiverAssumption
<1>. QED BY <1>2, <1>3, <1>4, <1>5, <1>6 DEF FileInv

(* A step that leaves file, counters and vector alone, and does not carry    *)
(* High along.                                                               *)
LEMMA Untouched ==
  ASSUME DataInv,
         UNCHANGED <<block, flen, nRcvPkts, totPkts, lost, complete, fileOpen, onDisk,
                     rcvEnabled, receiving>>,
         Active' => Active /\ High' = High /\ tpc' # "gap",
         Active' /\ tpc' = "set" => tpkt'.seq > curSeq',
         rcvEnabled /\ complete => tpc' \in {"none", "done"}
  PROVE  DataInv'
<1>1. Saved' = Saved
  BY SavedSame
<1>2. StartInv'
  BY DEF DataInv, StartInv
<1>3. FileInv'
  BY <1>1 DEF DataInv, FileInv
<1>4. VectorInv'
  <2>. SUFFICES ASSUME Active' PROVE VectorInv'
    BY DEF VectorInv
  <2>1. Active /\ High' = High /\ tpc' # "gap"
    OBVIOUS
  <2>2. Items(lost)' = Items(lost) /\ Distinct(lost)' = Distinct(lost)
    BY DEF Items, Distinct
  <2>. QED BY <2>1, <2>2, <1>1 DEF DataInv, VectorInv
<1>5. SuccessMeansComplete' /\ DiskHoldsWholeFiles'
  BY <1>1 DEF DataInv, SuccessMeansComplete, DiskHoldsWholeFiles
<1>. QED BY <1>2, <1>3, <1>4, <1>5 DEF DataInv

(* Inside a packet the reception runs. *)
LEMMA InsidePacket ==
  ASSUME ControlInv, tpc \notin Resting
  PROVE  receiving /\ rcvEnabled /\ \A c \in Controllers : pc[c] # "clear"
<1>. QED BY DEF ControlInv, RunInv, ThreadRests

(* A packet that continues the file: appended behind High. *)
LEMMA AppendStep ==
  ASSUME TypeOK, DataInv, Active, rcvEnabled, NEW at \in Pkts,
         at = High + 1, at <= totPkts, NEW ok \in BOOLEAN,
         WriteBlock(at, flen + 1, ok), tpkt'.seq = at, at > curSeq,
         UNCHANGED <<curSeq, totPkts, lost, complete, fileOpen, onDisk, rcvEnabled,
                     receiving, abort>>,
         ~complete
  PROVE  DataInv'
<1>. USE ReceiverAssumption DEF ReceiverAssumption
<1>1. /\ totPkts \in Nat /\ curSeq \in Nat /\ flen \in Nat /\ lost \in Seq(Pkts) /\ receiving
      /\ StartInv /\ FileInv /\ VectorInv
  BY DEF TypeOK, TypeCounters, TypeFile, DataInv, Active
<1>2. /\ High <= totPkts /\ flen = High /\ flen + 1 = at /\ Distinct(lost)
      /\ Items(lost) \subseteq 1..High /\ Items(lost) \cap Saved = {}
      /\ 1..High \subseteq Items(lost) \cup Saved
  <2>1. High \in Int
    BY DEF High, TypeOK, TypeThread, TypeCounters
  <2>. QED BY <1>1, <2>1 DEF VectorInv
<1>3. at \notin Saved
  BY <1>1, <1>2 DEF FileInv, Saved
<1>4. at \in 1..totPkts
  OBVIOUS
<1>5. StartInv' /\ SuccessMeansComplete' /\ DiskHoldsWholeFiles'
  BY <1>1 DEF StartInv, SuccessMeansComplete, DiskHoldsWholeFiles
<1>6. CASE ok
  <2>1. /\ FileInv' /\ Saved' = Saved \cup {at} /\ tpc' = "cmp" /\ flen' = at
    <3>1. WriteBlock(at, at, TRUE)
      BY <1>2, <1>6 DEF WriteBlock
    <3>2. FileInv' /\ Saved' = Saved \cup {at} /\ tpc' = "cmp"
      BY <1>1, <1>3, <1>4, <3>1, Written
    <3>3. flen' = at
      BY <1>1, <1>2, <1>6 DEF WriteBlock
    <3>. QED BY <3>2, <3>3
  <2>2. High' = at
    BY <2>1, <1>1 DEF High
  <2>3. Items(lost)' = Items(lost) /\ Distinct(lost)' = Distinct(lost)
    BY DEF Items, Distinct
  <2>4. 1..at = 1..High \cup {at} /\ at \notin 1..High
    BY <1>1, <1>2
  <2>5. VectorInv'
    BY <1>2, <2>1, <2>2, <2>3, <2>4 DEF VectorInv
  <2>. QED BY <1>5, <2>1, <2>5 DEF DataInv
<1>7. CASE ~ok
  <2>1. UNCHANGED <<block, flen, nRcvPkts>> /\ tpc' = "done"
    BY <1>7 DEF WriteBlock
  <2>2. ~Active'
    BY <2>1 DEF Active
  <2>. QED BY <2>1, <2>2, Untouched
<1>. QED BY <1>6, <1>7

(* The transfer thread between two reads keeps DataInv. *)
LEMMA ThreadStepData ==
  ASSUME Settled, TypeOK, ControlInv, DataInv, ThreadStep
  PROVE  DataInv'
<1>1. StartInv /\ VectorInv /\ (rcvEnabled /\ complete => tpc \in {"none", "done"})
  BY DEF DataInv, StartInv
<1>2. CASE ThreadTop
  <2>1. /\ UNCHANGED <<block, flen, nRcvPkts, totPkts, lost, complete, fileOpen, onDisk,
                       rcvEnabled, receiving, abort, curSeq, tpkt>>
        /\ tpc = "top" /\ tpc' \in {"done", "read"}
    BY <1>2 DEF ThreadTop, vector, member, file
  <2>2. Active' => Active /\ High' = High
    BY <2>1 DEF Active, High
  <2>. QED BY <1>1, <2>1, <2>2, Untouched
<1>3. CASE ReadFails \/ GapFails
  <2>1. /\ UNCHANGED <<block, flen, nRcvPkts, totPkts, lost, complete, fileOpen, onDisk,
                       rcvEnabled, receiving>>
        /\ tpc' = "done"
    BY <1>3 DEF ReadFails, GapFails, vector, member, file
  <2>2. ~Active'
    BY <2>1 DEF Active
  <2>. QED BY <2>1, <2>2, Untouched
<1>4. CASE CompareSeq
  <2>1. /\ UNCHANGED <<block, flen, nRcvPkts, totPkts, lost, complete, fileOpen, onDisk,
                       rcvEnabled, receiving, abort, curSeq, tpkt>>
        /\ tpc = "cmp" /\ tpc' = IF tpkt.seq > curSeq THEN "set" ELSE "chk"
    BY <1>4 DEF CompareSeq, vector, member, file
  <2>2. Active' => Active /\ High' = High
    BY <2>1 DEF Active, High
  <2>. QED BY <1>1, <2>1, <2>2, Untouched
<1>5. CASE AdvanceSeq
  <2>1. /\ UNCHANGED <<block, flen, nRcvPkts, totPkts, lost, complete, fileOpen, onDisk,
                       rcvEnabled, receiving, abort, tpkt>>
        /\ tpc = "set" /\ tpc' = "chk" /\ curSeq' = tpkt.seq
    BY <1>5 DEF AdvanceSeq, vector, member, file
  <2>2. Active' => Active /\ High' = High
    BY <1>1, <2>1 DEF Active, High, VectorInv
  <2>. QED BY <1>1, <2>1, <2>2, Untouched
<1>6. CASE CheckComplete
  <2>1. /\ UNCHANGED <<block, flen, nRcvPkts, totPkts, lost, fileOpen, onDisk,
                       rcvEnabled, receiving, abort, curSeq, tpkt>>
        /\ tpc = "chk"
    BY <1>6 DEF CheckComplete, vector, file
  <2>2. receiving /\ rcvEnabled
    BY <2>1, InsidePacket DEF Resting
  <2>3. CASE nRcvPkts = totPkts
    <3>1. complete' = TRUE /\ tpc' = "done"
      BY <1>6, <2>3 DEF CheckComplete
    <3>2. FileInv /\ totPkts \in Pkts /\ nRcvPkts = Cardinality(Saved)
      BY <1>1, <2>2 DEF DataInv, FileInv, StartInv
    <3>3. Saved = 1..totPkts
      BY <2>3, <3>2, SavedFinite
    <3>4. flen = totPkts
      <4>1. block[totPkts] = totPkts /\ flen \in Nat
        BY <3>2, <3>3, ReceiverAssumption DEF Saved, ReceiverAssumption, TypeOK, TypeFile
      <4>. QED BY <2>2, <3>2, <4>1, ReceiverAssumption DEF FileInv, ReceiverAssumption
    <3>5. Saved' = Saved
      BY <2>1, SavedSame
    <3>6. StartInv' /\ FileInv'
      BY <1>1, <2>1, <2>2, <3>1, <3>2, <3>5 DEF StartInv, FileInv
    <3>7. VectorInv'
      BY <3>1 DEF VectorInv, Active
    <3>8. SuccessMeansComplete' /\ DiskHoldsWholeFiles'
      BY <2>1, <2>2, <3>3, <3>4, <3>5 DEF SuccessMeansComplete, DiskHoldsWholeFiles
    <3>. QED BY <3>6, <3>7, <3>8 DEF DataInv
  <2>4. CASE nRcvPkts # totPkts
    <3>1. UNCHANGED complete /\ tpc' = "top"
      BY <1>6, <2>4 DEF CheckComplete
    <3>2. Active' => Active /\ High' = High
      BY <2>1, <3>1 DEF Active, High
    <3>. QED BY <1>1, <2>1, <2>2, <3>1, <3>2, Untouched
  <2>. QED BY <2>3, <2>4
<1>7. ASSUME NEW ok \in BOOLEAN, SaveAfterGap(ok) PROVE DataInv'
  <2>1. /\ UNCHANGED <<totPkts, lost, complete, fileOpen, onDisk,
                       rcvEnabled, receiving, abort, curSeq, tpkt>>
        /\ tpc = "gap"
    BY <1>7 DEF SaveAfterGap, vector, member
  <2>2. receiving /\ rcvEnabled /\ ~complete
    BY <1>1, <2>1, InsidePacket DEF Resting
  <2>3. CASE abort
    <3>1. UNCHANGED <<block, flen, nRcvPkts>> /\ tpc' = "chk"
      BY <1>7, <2>3 DEF SaveAfterGap
    <3>2. ~Active'
      BY <2>1, <2>3 DEF Active
    <3>. QED BY <2>1, <2>2, <3>1, <3>2, Untouched
  <2>4. CASE ~abort
    <3>1. Active
      BY <2>1, <2>2, <2>4 DEF Active
    <3>2. /\ High = tpkt.seq - 1 /\ tpkt.seq > curSeq + 1 /\ tpkt.seq <= totPkts
          /\ tpkt.data = tpkt.seq
      BY <1>1, <2>1, <3>1 DEF VectorInv, High
    <3>3. tpkt.seq \in Nat /\ curSeq \in Nat /\ tpkt.seq \in Pkts
      BY <3>2, ReceiverAssumption DEF TypeOK, TypeThread, TypeCounters, ReceiverAssumption
    <3>4. WriteBlock(tpkt.seq, flen + 1, ok)
      BY <1>7, <2>4, <3>2 DEF SaveAfterGap
    <3>. QED BY <2>1, <2>2, <3>1, <3>2, <3>3, <3>4, AppendStep
  <2>. QED BY <2>3, <2>4
<1>. QED BY <1>2, <1>3, <1>4, <1>5, <1>6, <1>7 DEF ThreadStep

(* Whatever ReceivePkt and SaveRcvPkt do with what arrives keeps DataInv. *)
LEMMA ArrivalData ==
  ASSUME Settled, TypeOK, ControlInv, DataInv, Arrival
  PROVE  DataInv'
<1>. USE ReceiverAssumption DEF ReceiverAssumption
<1>1. tpc = "read" /\ ~abort /\ UNCHANGED <<rcvEnabled, receiving, abort, complete>>
      /\ UNCHANGED <<curSeq, totPkts, fileOpen, onDisk>>
  BY DEF Arrival, Reconnect, SaveRefused, SaveIgnored, SaveLate, SaveNext, SaveGap,
         Accepted, Reading, member, file
<1>2. receiving /\ rcvEnabled
  BY <1>1, InsidePacket DEF Resting
<1>3. Active /\ High = curSeq
  BY <1>1, <1>2 DEF Active, High
<1>4. StartInv /\ FileInv /\ VectorInv /\ ~complete
  BY <1>1, <1>2 DEF DataInv, StartInv
<1>5. /\ totPkts \in Pkts /\ curSeq \in Nat /\ flen \in Nat /\ lost \in Seq(Pkts)
      /\ curSeq <= totPkts /\ (curSeq < totPkts => flen = curSeq)
      /\ Distinct(lost) /\ Items(lost) \subseteq 1..curSeq
      /\ Items(lost) \cap Saved = {} /\ 1..curSeq \subseteq Items(lost) \cup Saved
  BY <1>2, <1>3, <1>4 DEF VectorInv, StartInv, TypeOK, TypeCounters, TypeFile
<1>6. \A m \in Packets : Reading(m) => m.seq \in Pkts /\ m.data = m.seq /\ m.seq <= totPkts
  BY DEF Settled, Reading, OnWire, Packets
<1>7. ASSUME NEW ok \in BOOLEAN, Reconnect(ok) PROVE DataInv'
  <2>1. /\ UNCHANGED <<block, flen, nRcvPkts, lost, tpkt>>
        /\ tpc' \in {"chk", "done"}
    BY <1>7 DEF Reconnect, vector, file
  <2>2. Active' => High' = High
    BY <1>1, <1>3, <2>1 DEF Active, High
  <2>. QED BY <1>1, <1>3, <1>4, <2>1, <2>2, Untouched
<1>8. ASSUME NEW m \in Packets, SaveRefused(m) \/ SaveIgnored(m) PROVE DataInv'
  <2>1. /\ UNCHANGED <<block, flen, nRcvPkts, lost, tpkt>>
        /\ tpc' \in {"chk", "done"}
    BY <1>8 DEF SaveRefused, SaveIgnored, vector, file
  <2>2. Active' => High' = High
    BY <1>1, <1>3, <2>1 DEF Active, High
  <2>. QED BY <1>1, <1>3, <1>4, <2>1, <2>2, Untouched
<1>9. ASSUME NEW m \in Packets, NEW ok \in BOOLEAN, SaveNext(m, ok) PROVE DataInv'
  <2>1. /\ Reading(m) /\ m.seq = curSeq + 1 /\ tpkt' = m /\ UNCHANGED lost
        /\ WriteBlock(m.data, flen + 1, ok)
    BY <1>9 DEF SaveNext, Accepted, vector
  <2>2. m.seq \in Pkts /\ m.data = m.seq /\ m.seq <= totPkts
    BY <1>6, <2>1
  <2>3. WriteBlock(m.seq, flen + 1, ok)
    BY <2>1, <2>2 DEF WriteBlock
  <2>4. m.seq = High + 1 /\ m.seq > curSeq /\ tpkt'.seq = m.seq
    BY <1>3, <1>5, <2>1
  <2>. QED BY <1>1, <1>2, <1>3, <1>4, <2>1, <2>2, <2>3, <2>4, AppendStep
<1>10. ASSUME NEW m \in Packets, NEW ok \in BOOLEAN, SaveLate(m, ok) PROVE DataInv'
  <2>. DEFINE i == Search(lost, m.seq)
  <2>1. /\ Reading(m) /\ m.seq < curSeq + 1 /\ tpkt' = m /\ i # 0
        /\ lost' = Remove(lost, i) /\ WriteBlock(m.data, m.seq, ok)
    BY <1>10 DEF SaveLate, Accepted
  <2>2. m.seq \in 1..totPkts /\ m.data = m.seq
    BY <1>6, <2>1
  <2>3. i \in 1..Len(lost) /\ lost[i] = m.seq /\ m.seq \in Items(lost)
    BY <1>5, <2>1, SearchFinds
  <2>4. Distinct(lost)' /\ Items(lost)' = Items(lost) \ {m.seq}
    <3>1. Distinct(lost') /\ Items(lost') = Items(lost) \ {m.seq}
      <4>. HIDE DEF i
      <4>. QED BY <1>5, <2>1, <2>3, RemoveDistinct
    <3>. QED BY <3>1 DEF Distinct, Items
  <2>5. m.seq \notin Saved
    BY <1>5, <2>3
  <2>6. StartInv' /\ SuccessMeansComplete' /\ DiskHoldsWholeFiles'
    BY <1>1, <1>2, <1>4 DEF StartInv, SuccessMeansComplete, DiskHoldsWholeFiles
  <2>7. CASE ok
    <3>1. WriteBlock(m.seq, m.seq, TRUE)
      BY <2>1, <2>2, <2>7 DEF WriteBlock
    <3>2. /\ FileInv' /\ Saved' = Saved \cup {m.seq} /\ tpc' = "cmp"
          /\ flen' = IF m.seq > flen THEN m.seq ELSE flen
      BY <1>1, <1>2, <1>4, <2>2, <2>5, <3>1, Written
    <3>3. High' = curSeq
      BY <1>1, <1>5, <2>1, <2>2, <3>2 DEF High
    <3>4. curSeq < totPkts => flen' = curSeq
      BY <1>5, <2>1, <2>2, <3>2
    <3>5. VectorInv'
      BY <1>1, <1>5, <2>4, <3>2, <3>3, <3>4 DEF VectorInv
    <3>. QED BY <2>6, <3>2, <3>5 DEF DataInv
  <2>8. CASE ~ok
    <3>1. UNCHANGED <<block, flen, nRcvPkts>> /\ tpc' = "done"
      BY <2>1, <2>8 DEF WriteBlock
    <3>2. FileInv'
      BY <1>1, <1>4, <3>1, SavedSame DEF FileInv
    <3>3. VectorInv'
      BY <3>1 DEF VectorInv, Active
    <3>. QED BY <2>6, <3>2, <3>3 DEF DataInv
  <2>. QED BY <2>7, <2>8
<1>11. ASSUME NEW m \in Packets, NEW k \in Pkts, SaveGap(m, k) PROVE DataInv'
  <2>1. /\ m.seq > curSeq + 1 /\ m.seq <= totPkts /\ m.seq \in Pkts /\ m.data = m.seq
        /\ k \in (curSeq + 1)..m.seq /\ flen' = flen + (k - (curSeq + 1))
        /\ tpkt' = m /\ UNCHANGED <<block, nRcvPkts>>
    BY <1>6, <1>11 DEF SaveGap, Accepted
  <2>2. flen = curSeq /\ flen' = k - 1 /\ k <= totPkts /\ curSeq < totPkts
    BY <1>5, <2>1
  <2>3. Saved' = Saved /\ Saved \subseteq 1..curSeq
    <3>1. Saved' = Saved
      BY <1>1, <2>1, SavedSame
    <3>2. \A j \in Saved : j \in Pkts /\ j <= flen
      BY <1>2, <1>4, <1>5 DEF FileInv, Saved
    <3>. QED BY <2>2, <3>1, <3>2
  <2>4. FileInv'
    BY <1>1, <1>2, <1>4, <1>5, <2>1, <2>2, <2>3 DEF FileInv
  <2>5. StartInv' /\ SuccessMeansComplete' /\ DiskHoldsWholeFiles'
    BY <1>1, <1>2, <1>4 DEF StartInv, SuccessMeansComplete, DiskHoldsWholeFiles
  <2>6. CASE k = m.seq
    <3>1. lost' = InsertRun(lost, curSeq + 1, m.seq - 1) /\ tpc' = "gap"
      BY <1>11, <2>6 DEF SaveGap
    <3>2. /\ lost \in Seq(1..MaxPkts) /\ curSeq + 1 \in 1..(MaxPkts + 1)
          /\ m.seq - 1 \in 0..MaxPkts /\ Items(lost) \cap (curSeq + 1)..(m.seq - 1) = {}
      BY <1>5, <2>1
    <3>3. Distinct(lost)' /\ Items(lost)' = Items(lost) \cup (curSeq + 1)..(m.seq - 1)
      <4>1. /\ Distinct(lost')
            /\ Items(lost') = Items(lost) \cup (curSeq + 1)..(m.seq - 1)
        BY <1>5, <3>1, <3>2, InsertRunDistinct, InsertRunItems
      <4>. QED BY <4>1 DEF Distinct, Items
    <3>4. High' = m.seq - 1
      BY <2>1, <3>1 DEF High
    <3>5. 1..(m.seq - 1) = 1..curSeq \cup (curSeq + 1)..(m.seq - 1)
      BY <1>5, <2>1
    <3>6. Items(lost)' \cap Saved' = {}
      BY <1>5, <2>3, <3>3
    <3>7. VectorInv'
      <4>1. High' <= totPkts' /\ flen' = High'
        BY <1>1, <1>5, <2>1, <2>2, <2>6, <3>4
      <4>2. Items(lost)' \subseteq 1..High' /\ 1..High' \subseteq Items(lost)' \cup Saved'
        BY <1>5, <2>3, <3>3, <3>4, <3>5
      <4>3. tpkt'.seq > curSeq' + 1 /\ tpkt'.seq <= totPkts' /\ tpkt'.data = tpkt'.seq
        BY <1>1, <1>5, <2>1
      <4>. QED BY <3>1, <3>3, <3>6, <4>1, <4>2, <4>3 DEF VectorInv
    <3>. QED BY <2>4, <2>5, <3>7 DEF DataInv
  <2>7. CASE k # m.seq
    <3>1. tpc' = "gapfail"
      BY <1>11, <2>7 DEF SaveGap
    <3>2. VectorInv'
      BY <3>1 DEF VectorInv, Active
    <3>. QED BY <2>4, <2>5, <3>2 DEF DataInv
  <2>. QED BY <2>6, <2>7
<1>. QED BY <1>7, <1>8, <1>9, <1>10, <1>11 DEF Arrival

(* BeginReceive and RunRX keep DataInv. *)
LEMMA StartData ==
  ASSUME Settled, TypeOK, ControlInv, DataInv, Start
  PROVE  DataInv'
<1>. USE ReceiverAssumption DEF ReceiverAssumption
<1>1. StartInv /\ FileInv /\ VectorInv /\ RunInv
  BY DEF DataInv, ControlInv
<1>2. CASE RunRX
  <2>1. /\ UNCHANGED <<block, flen, nRcvPkts, totPkts, lost, complete, fileOpen, onDisk,
                       rcvEnabled, abort, tpkt>>
        /\ ~receiving
    BY <1>1, <1>2 DEF RunRX, RunInv, vector, file
  <2>2. CASE rcvEnabled /\ tpc = "none"
    <3>1. receiving' /\ tpc' = "top" /\ curSeq' = 0
      BY <1>2, <2>1, <2>2 DEF RunRX
    <3>2. /\ lost = <<>> /\ block = [k \in Pkts |-> 0] /\ flen = 0 /\ nRcvPkts = 0
          /\ ~complete /\ fileOpen /\ totPkts \in Pkts
      BY <1>1, <2>1, <2>2 DEF StartInv
    <3>3. Saved = {} /\ Saved' = {}
      BY <2>1, <3>2 DEF Saved
    <3>4. StartInv' /\ FileInv'
      BY <1>1, <2>1, <2>2, <3>1, <3>2, <3>3 DEF StartInv, FileInv
    <3>5. High' = 0
      BY <3>1 DEF High
    <3>6. Items(lost)' = {} /\ Distinct(lost)'
      BY <2>1, <3>2 DEF Items, Distinct
    <3>7. VectorInv'
      BY <2>1, <3>1, <3>2, <3>3, <3>5, <3>6 DEF VectorInv
    <3>8. SuccessMeansComplete' /\ DiskHoldsWholeFiles'
      BY <2>1, <2>2, <3>2 DEF SuccessMeansComplete, DiskHoldsWholeFiles
    <3>. QED BY <3>4, <3>7, <3>8 DEF DataInv
  <2>3. CASE ~(rcvEnabled /\ tpc = "none")
    <3>1. UNCHANGED <<receiving, tpc>>
      BY <1>2, <2>1, <2>3 DEF RunRX
    <3>2. ~Active'
      BY <2>1, <3>1 DEF Active
    <3>. QED BY <1>1, <2>1, <3>1, <3>2, Untouched DEF StartInv
  <2>. QED BY <2>2, <2>3
<1>3. ASSUME NEW n \in Pkts, NEW p \in PtPModes, NEW netOk \in BOOLEAN, BeginReceive(n, p, netOk) PROVE DataInv'
  <2>1. /\ ~rcvEnabled /\ ~receiving /\ lost = <<>> /\ UNCHANGED <<receiving, lost>>
        /\ block' = [k \in Pkts |-> 0] /\ flen' = 0
    BY <1>1, <1>3 DEF BeginReceive, StartInv, RunInv, vector
  <2>2. VectorInv'
    BY <2>1 DEF VectorInv, Active
  <2>3. CASE netOk
    <3>1. nRcvPkts' = 0 /\ complete' = FALSE /\ rcvEnabled' = TRUE /\ totPkts' = n
          /\ fileOpen' = TRUE
      BY <1>3, <2>3 DEF BeginReceive
    <3>2. Saved' = {}
      BY <2>1, <3>1 DEF Saved
    <3>3. StartInv' /\ FileInv'
      BY <2>1, <3>1, <3>2, FS_EmptySet DEF StartInv, FileInv
    <3>4. SuccessMeansComplete' /\ DiskHoldsWholeFiles'
      BY <3>1 DEF SuccessMeansComplete, DiskHoldsWholeFiles
    <3>. QED BY <2>2, <3>3, <3>4 DEF DataInv
  <2>4. CASE ~netOk
    <3>1. ~rcvEnabled'
      BY <1>3, <2>1, <2>4 DEF BeginReceive
    <3>2. StartInv' /\ FileInv' /\ SuccessMeansComplete' /\ DiskHoldsWholeFiles'
      BY <2>1, <3>1 DEF StartInv, FileInv, SuccessMeansComplete, DiskHoldsWholeFiles
    <3>. QED BY <2>2, <3>2 DEF DataInv
  <2>. QED BY <2>3, <2>4
<1>. QED BY <1>2, <1>3 DEF Start

(* NotifyEOF and its requests keep DataInv. *)
LEMMA EofData ==
  ASSUME Settled, TypeOK, ControlInv, DataInv, Eof
  PROVE  DataInv'
<1>. USE ReceiverAssumption DEF ReceiverAssumption
<1>1. StartInv /\ FileInv /\ VectorInv /\ RunInv
  BY DEF DataInv, ControlInv
<1>2. CASE RequestFirst \/ RequestNext
  <2>1. UNCHANGED <<curSeq, totPkts, nRcvPkts, lost, member, file, thread>>
    BY <1>2 DEF RequestFirst, RequestNext
  <2>2. /\ UNCHANGED <<block, flen, nRcvPkts, totPkts, lost, complete, fileOpen, onDisk,
                       rcvEnabled, receiving, abort, curSeq, tpkt, tpc>>
    BY <2>1 DEF member, file, thread
  <2>3. Active' = Active /\ High' = High
    BY <2>2 DEF Active, High
  <2>4. CASE tpc = "gap" /\ Active
    <3>1. Items(lost)' = Items(lost) /\ Distinct(lost)' = Distinct(lost) /\ Saved' = Saved
      BY <2>2 DEF Items, Distinct, Saved
    <3>2. VectorInv'
      BY <1>1, <2>2, <2>3, <3>1 DEF VectorInv
    <3>3. StartInv' /\ FileInv' /\ SuccessMeansComplete' /\ DiskHoldsWholeFiles'
      BY <2>2, <3>1 DEF DataInv, StartInv, FileInv, SuccessMeansComplete,
                        DiskHoldsWholeFiles
    <3>. QED BY <3>2, <3>3 DEF DataInv
  <2>5. CASE ~(tpc = "gap" /\ Active)
    BY <1>1, <2>2, <2>3, <2>5, Untouched DEF StartInv, VectorInv
  <2>. QED BY <2>4, <2>5
<1>3. CASE NotifyEOF
  <2>1. /\ UNCHANGED <<block, flen, nRcvPkts, totPkts, complete, fileOpen, onDisk,
                       rcvEnabled, receiving, abort, tpkt, tpc>>
        /\ lost' = InsertRun(lost, curSeq + 1, totPkts)
        /\ curSeq' = IF curSeq < totPkts THEN totPkts ELSE curSeq
    BY <1>3 DEF NotifyEOF, member, file, thread
  <2>2. receiving /\ rcvEnabled /\ tpc \in {"top", "read", "chk"}
    BY <1>1, <1>3 DEF NotifyEOF, Phase, Settled, RunInv
  <2>3. Saved' = Saved
    BY <2>1, SavedSame
  <2>4. StartInv' /\ FileInv' /\ SuccessMeansComplete' /\ DiskHoldsWholeFiles'
    BY <2>1, <2>2, <2>3 DEF DataInv, StartInv, FileInv, SuccessMeansComplete,
                            DiskHoldsWholeFiles
  <2>5. CASE abort
    <3>1. ~Active'
      BY <2>1, <2>5 DEF Active
    <3>. QED BY <2>4, <3>1 DEF DataInv, VectorInv
  <2>6. CASE ~abort
    <3>1. Active /\ High = curSeq /\ High' = curSeq'
      BY <2>1, <2>2, <2>6 DEF Active, High
    <3>2. /\ totPkts \in Pkts /\ curSeq \in Nat /\ flen \in Nat /\ lost \in Seq(1..MaxPkts)
          /\ curSeq <= totPkts /\ (curSeq < totPkts => flen = curSeq)
          /\ Distinct(lost) /\ Items(lost) \subseteq 1..curSeq
          /\ Items(lost) \cap Saved = {} /\ 1..curSeq \subseteq Items(lost) \cup Saved
      BY <1>1, <2>2, <3>1 DEF VectorInv, StartInv, TypeOK, TypeCounters, TypeFile
    <3>3. curSeq' = totPkts /\ curSeq + 1 \in 1..(MaxPkts + 1) /\ totPkts \in 0..MaxPkts
      BY <2>1, <3>2
    <3>4. Items(lost) \cap (curSeq + 1)..totPkts = {}
      BY <3>2
    <3>5. /\ Distinct(lost)' /\ Items(lost)' = Items(lost) \cup (curSeq + 1)..totPkts
      <4>1. /\ Distinct(lost') /\ Items(lost') = Items(lost) \cup (curSeq + 1)..totPkts
        BY <2>1, <3>2, <3>3, <3>4, InsertRunDistinct, InsertRunItems
      <4>. QED BY <4>1 DEF Distinct, Items
    <3>6. Saved \cap (curSeq + 1)..totPkts = {}
      <4>1. \A j \in Saved : j \in Pkts /\ j <= flen
        BY <1>1, <2>2, <3>2 DEF FileInv, Saved
      <4>. QED BY <3>2, <4>1
    <3>7. 1..totPkts = 1..curSeq \cup (curSeq + 1)..totPkts
      BY <3>2
    <3>8. /\ Items(lost)' \cap Saved' = {} /\ 1..totPkts \subseteq Items(lost)' \cup Saved'
          /\ Items(lost)' \subseteq 1..totPkts
      BY <2>3, <3>2, <3>5, <3>6, <3>7
    <3>9. VectorInv'
      BY <2>1, <2>2, <3>1, <3>2, <3>3, <3>5, <3>8 DEF VectorInv
    <3>. QED BY <2>4, <3>9 DEF DataInv
  <2>. QED BY <2>5, <2>6
<1>. QED BY <1>2, <1>3 DEF Eof

(* A Reset keeps DataInv at each of its steps. *)
LEMMA StopData ==
  ASSUME Settled, TypeOK, ControlInv, DataInv, NEW c \in Controllers, Stop(c)
  PROVE  DataInv'
<1>1. StartInv /\ FileInv /\ VectorInv /\ SuccessMeansComplete /\ DiskHoldsWholeFiles
  BY DEF DataInv
<1>2. CASE ResetClear(c)
  <2>1. /\ UNCHANGED <<block, totPkts, complete, flen>> /\ ~rcvEnabled' /\ ~receiving'
        /\ lost' = <<>> /\ onDisk' = (onDisk /\ (fileOpen => complete))
    BY <1>2 DEF ResetClear
  <2>2. StartInv' /\ FileInv' /\ VectorInv' /\ SuccessMeansComplete'
    BY <2>1 DEF StartInv, FileInv, VectorInv, Active, SuccessMeansComplete
  <2>3. Saved' = Saved
    BY <2>1, SavedSame
  <2>4. onDisk' => onDisk /\ (rcvEnabled => complete)
    BY <1>1, <2>1 DEF StartInv
  <2>5. DiskHoldsWholeFiles'
    BY <1>1, <2>1, <2>3, <2>4 DEF SuccessMeansComplete, DiskHoldsWholeFiles
  <2>. QED BY <2>2, <2>5 DEF DataInv
<1>3. CASE ResetTest(c) \/ ResetRcv(c) \/ EndTransferThread(c) \/ WaitForMe(c)
  <2>1. /\ UNCHANGED <<block, flen, nRcvPkts, totPkts, lost, complete, fileOpen, onDisk,
                       rcvEnabled, receiving, curSeq, tpkt>>
        /\ abort' = abort \/ abort' = TRUE
        /\ tpc' = tpc \/ tpc' = "none"
    BY <1>3 DEF ResetTest, ResetRcv, EndTransferThread, WaitForMe, vector, member, file,
                thread
  <2>2. Active' => Active /\ tpc' = tpc /\ High' = High
    BY <2>1 DEF Active, High
  <2>3. CASE tpc = "gap" /\ Active'
    <3>1. Items(lost)' = Items(lost) /\ Distinct(lost)' = Distinct(lost) /\ Saved' = Saved
      BY <2>1 DEF Items, Distinct, Saved
    <3>2. VectorInv'
      BY <1>1, <2>1, <2>2, <2>3, <3>1 DEF VectorInv
    <3>3. StartInv' /\ FileInv' /\ SuccessMeansComplete' /\ DiskHoldsWholeFiles'
      BY <1>1, <2>1, <2>2, <2>3, <3>1 DEF StartInv, FileInv, SuccessMeansComplete,
                                 DiskHoldsWholeFiles
    <3>. QED BY <3>2, <3>3 DEF DataInv
  <2>4. CASE ~(tpc = "gap" /\ Active')
    BY <1>1, <2>1, <2>2, <2>4, Untouched DEF StartInv, VectorInv
  <2>. QED BY <2>3, <2>4
<1>. QED BY <1>2, <1>3 DEF Stop

-----------------------------------------------------------------------------
(* The invariant. *)

(* The object as it is constructed. *)
LEMMA InitIInv == Init => IInv
<1>. SUFFICES ASSUME Init PROVE IInv
  OBVIOUS
<1>1. TypeOK
  BY InitType
<1>2. ControlInv
  BY DEF Init, ControlInv, FlagsUp, OneReset, ThreadRests, RunInv, InReset, Resting
<1>3. DataInv
  BY DEF Init, DataInv, StartInv, FileInv, VectorInv, Active, SuccessMeansComplete,
         DiskHoldsWholeFiles
<1>. QED BY <1>1, <1>2, <1>3 DEF IInv

(* A stuttering step keeps the invariant. *)
LEMMA StutterIInv == IInv /\ UNCHANGED vars => IInv'
<1>. SUFFICES ASSUME IInv, UNCHANGED vars PROVE IInv'
  OBVIOUS
<1>. USE DEF vars, vector, member, file, thread, ctrl
<1>1. TypeOK'
  BY NextType DEF IInv
<1>2. ControlInv'
  BY DEF IInv, ControlInv, FlagsUp, OneReset, ThreadRests, RunInv, InReset
<1>3. Saved' = Saved /\ Active' = Active /\ High' = High
  BY DEF Saved, Active, High
<1>4. Items(lost)' = Items(lost) /\ Distinct(lost)' = Distinct(lost)
  BY DEF Items, Distinct
<1>5. DataInv'
  BY <1>3, <1>4 DEF IInv, DataInv, StartInv, FileInv, VectorInv, SuccessMeansComplete,
                    DiskHoldsWholeFiles
<1>. QED BY <1>1, <1>2, <1>5 DEF IInv

(* The invariant is inductive. *)
LEMMA NextIInv == Settled /\ IInv /\ [Next]_vars => IInv'
<1>. SUFFICES ASSUME Settled, IInv, Next PROVE IInv'
  BY StutterIInv
<1>1. TypeOK /\ ControlInv /\ DataInv
  BY DEF IInv
<1>2. TypeOK'
  BY <1>1, NextType
<1>3. ControlInv'
  BY <1>1, ControlStep DEF Settled
<1>4. DataInv'
  BY <1>1, ThreadStepData, ArrivalData, StartData, EofData, StopData DEF Next
<1>. QED BY <1>2, <1>3, <1>4 DEF IInv

(* What the invariant implies. *)
LEMMA Consequences ==
  IInv => /\ SuccessMeansComplete /\ DiskHoldsWholeFiles /\ FreshStart
          /\ CountsExactly /\ LostOnce
<1>. SUFFICES ASSUME IInv
              PROVE  /\ SuccessMeansComplete /\ DiskHoldsWholeFiles
                     /\ FreshStart /\ CountsExactly /\ LostOnce
  OBVIOUS
<1>1. TypeOK /\ RunInv /\ StartInv /\ FileInv /\ VectorInv
  BY DEF IInv, ControlInv, DataInv
<1>2. SuccessMeansComplete /\ DiskHoldsWholeFiles
  BY DEF IInv, DataInv
<1>3. FreshStart
  BY <1>1 DEF FreshStart, RunInv, StartInv
<1>4. CountsExactly
  BY <1>1 DEF CountsExactly, Active, RunInv, FileInv
<1>5. LostOnce
  BY <1>1 DEF LostOnce, VectorInv
<1>. QED BY <1>2, <1>3, <1>4, <1>5

-----------------------------------------------------------------------------
(* The promise: every step is one of FileReception's, or none. *)

(* One write brings at most one packet and takes none away. *)
LEMMA WriteBringsOne ==
  ASSUME TypeOK, FileInv', rcvEnabled', UNCHANGED totPkts,
         NEW data \in Pkts, NEW at \in Nat, NEW ok \in BOOLEAN, WriteBlock(data, at, ok)
  PROVE  \/ Saved' = Saved
         \/ \E k \in (1..totPkts) \ Saved : Saved' = Saved \cup {k}
<1>. USE ReceiverAssumption DEF ReceiverAssumption
<1>1. block \in [Pkts -> 0..Alien] /\ totPkts \in 0..MaxPkts
  BY DEF TypeOK, TypeFile, TypeCounters
<1>2. CASE ~ok
  BY <1>2, SavedSame DEF WriteBlock
<1>3. CASE ok
  <2>1. block' = [block EXCEPT ![at] = data]
    BY <1>3 DEF WriteBlock
  <2>2. CASE at \in 1..totPkts
    <3>1. block'[at] = at
      BY <1>1, <2>1, <2>2 DEF FileInv
    <3>2. Saved' = Saved \cup {at}
      BY <1>1, <2>1, <2>2, <3>1 DEF Saved
    <3>. QED BY <2>2, <3>2
  <2>3. CASE at \notin 1..totPkts
    <3>1. Saved' = Saved
      BY <1>1, <2>1, <2>3 DEF Saved
    <3>. QED BY <3>1
  <2>. QED BY <2>2, <2>3
<1>. QED BY <1>2, <1>3

(* A step that leaves what the user sees alone, or brings one packet.        *)
LEMMA SeenSave ==
  ASSUME IInv, rcvEnabled, ~complete, UNCHANGED <<rcvEnabled, complete, totPkts>>,
         \/ Saved' = Saved
         \/ \E k \in (1..totPkts) \ Saved : Saved' = Saved \cup {k}
  PROVE  [Promise!Next]_(Promise!vars)
<1>1. CASE Saved' = Saved
  BY <1>1 DEF Promise!vars
<1>2. ASSUME NEW k \in (1..totPkts) \ Saved, Saved' = Saved \cup {k}
      PROVE  Promise!Next
  <2>1. k \in 1..MaxPkts
    BY ReceiverAssumption DEF ReceiverAssumption, IInv, TypeOK, TypeCounters
  <2>2. Promise!Save(k)
    BY <1>2 DEF Promise!Save
  <2>. QED BY <2>1, <2>2 DEF Promise!Next
<1>. QED BY <1>1, <1>2

(* A step that changes none of what the user sees.                         *)
LEMMA SeenNothing ==
  ASSUME UNCHANGED <<rcvEnabled, complete, totPkts, block>>
  PROVE  UNCHANGED Promise!vars
<1>. QED BY SavedSame DEF Promise!vars

(* Every step of the receiver maps to a step of FileReception or to none.  *)
LEMMA PromiseStep ==
  ASSUME Settled, IInv, IInv', Next
  PROVE  [Promise!Next]_(Promise!vars)
<1>. USE ReceiverAssumption DEF ReceiverAssumption
<1>1. /\ TypeOK /\ ControlInv /\ StartInv /\ FileInv /\ FileInv'
      /\ rcvEnabled /\ complete => tpc \in {"none", "done"}
  BY DEF IInv, DataInv, StartInv
<1>2. CASE ThreadTop \/ ReadFails \/ GapFails \/ CompareSeq \/ AdvanceSeq
  BY <1>2, SeenNothing DEF ThreadTop, ReadFails, GapFails, CompareSeq, AdvanceSeq, member,
                           file
<1>3. CASE CheckComplete
  <2>1. UNCHANGED <<rcvEnabled, totPkts, block>> /\ tpc = "chk"
    BY <1>3 DEF CheckComplete, file
  <2>2. rcvEnabled /\ ~complete
    BY <1>1, <2>1, InsidePacket DEF Resting
  <2>3. CASE nRcvPkts = totPkts
    <3>1. complete' = TRUE /\ Saved = 1..totPkts /\ Saved' = Saved
      BY <1>1, <1>3, <2>1, <2>2, <2>3, SavedFinite, SavedSame DEF CheckComplete, FileInv
    <3>2. Promise!Succeed
      BY <2>1, <2>2, <3>1 DEF Promise!Succeed
    <3>. QED BY <3>2 DEF Promise!Next
  <2>4. CASE nRcvPkts # totPkts
    BY <1>3, <2>1, <2>4, SeenNothing DEF CheckComplete
  <2>. QED BY <2>3, <2>4
<1>4. ASSUME NEW ok \in BOOLEAN, SaveAfterGap(ok)
      PROVE  [Promise!Next]_(Promise!vars)
  <2>1. UNCHANGED <<rcvEnabled, complete, totPkts>> /\ tpc = "gap"
    BY <1>4 DEF SaveAfterGap, member
  <2>2. rcvEnabled /\ ~complete /\ receiving
    BY <1>1, <2>1, InsidePacket DEF Resting
  <2>3. CASE abort
    BY <1>4, <2>1, <2>3, SeenNothing DEF SaveAfterGap
  <2>4. CASE ~abort
    <3>1. tpkt.data \in Pkts /\ flen + 1 \in Nat
      <4>1. VectorInv /\ Active
        BY <2>1, <2>2, <2>4 DEF IInv, DataInv, Active
      <4>2. tpkt.data = tpkt.seq /\ tpkt.seq > curSeq + 1 /\ tpkt.seq <= totPkts
        BY <2>1, <4>1 DEF VectorInv
      <4>. QED BY <1>1, <4>2 DEF TypeOK, TypeCounters, TypeThread, TypeFile
    <3>2. WriteBlock(tpkt.data, flen + 1, ok)
      BY <1>4, <2>4 DEF SaveAfterGap
    <3>3. \/ Saved' = Saved
          \/ \E k \in (1..totPkts) \ Saved : Saved' = Saved \cup {k}
      BY <1>1, <2>1, <2>2, <3>1, <3>2, WriteBringsOne
    <3>. QED BY <2>1, <2>2, <3>3, SeenSave
  <2>. QED BY <2>3, <2>4
<1>5. CASE Arrival
  <2>1. UNCHANGED <<rcvEnabled, complete, totPkts>> /\ tpc = "read"
    BY <1>5 DEF Arrival, Reconnect, SaveRefused, SaveIgnored, SaveLate, SaveNext, SaveGap,
                Accepted, Reading, member
  <2>2. rcvEnabled /\ ~complete
    BY <1>1, <2>1, InsidePacket DEF Resting
  <2>3. CASE UNCHANGED block
    BY <2>1, <2>3, SeenNothing
  <2>4. ASSUME NEW m \in Packets, NEW ok \in BOOLEAN, SaveLate(m, ok) \/ SaveNext(m, ok)
        PROVE  [Promise!Next]_(Promise!vars)
    <3>1. m.data \in Pkts /\ m.seq \in Nat /\ flen + 1 \in Nat
      BY <1>1, <2>4 DEF SaveLate, SaveNext, Accepted, Reading, OnWire, Packets, Settled,
                        TypeOK, TypeFile
    <3>2. WriteBlock(m.data, m.seq, ok) \/ WriteBlock(m.data, flen + 1, ok)
      BY <2>4 DEF SaveLate, SaveNext
    <3>3. \/ Saved' = Saved
          \/ \E k \in (1..totPkts) \ Saved : Saved' = Saved \cup {k}
      BY <1>1, <2>1, <2>2, <3>1, <3>2, WriteBringsOne
    <3>. QED BY <2>1, <2>2, <3>3, SeenSave
  <2>5. \/ UNCHANGED block
        \/ \E m \in Packets, ok \in BOOLEAN : SaveLate(m, ok) \/ SaveNext(m, ok)
    BY <1>5 DEF Arrival, Reconnect, SaveRefused, SaveIgnored, SaveGap, file
  <2>. QED BY <2>3, <2>4, <2>5
<1>6. CASE RunRX \/ Eof
  BY <1>6, SeenNothing DEF RunRX, Eof, NotifyEOF, RequestFirst, RequestNext, member, file
<1>7. ASSUME NEW n \in Pkts, NEW p \in PtPModes, NEW netOk \in BOOLEAN, BeginReceive(n, p, netOk)
      PROVE  [Promise!Next]_(Promise!vars)
  <2>1. ~rcvEnabled /\ block' = [k \in Pkts |-> 0]
    BY <1>7 DEF BeginReceive
  <2>2. CASE netOk
    <3>1. rcvEnabled' = TRUE /\ complete' = FALSE /\ totPkts' = n
      BY <1>7, <2>2 DEF BeginReceive
    <3>2. Saved' = {}
      BY <2>1, <3>1 DEF Saved
    <3>3. Promise!Begin
      BY <2>1, <3>1, <3>2 DEF Promise!Begin
    <3>. QED BY <3>3 DEF Promise!Next
  <2>3. CASE ~netOk
    <3>1. rcvEnabled' = rcvEnabled
      BY <1>7, <2>3 DEF BeginReceive
    <3>. QED BY <2>1, <3>1 DEF Promise!vars
  <2>. QED BY <2>2, <2>3
<1>8. ASSUME NEW c \in Controllers, Stop(c)
      PROVE  [Promise!Next]_(Promise!vars)
  <2>1. CASE ResetClear(c)
    <3>1. rcvEnabled' = FALSE
      BY <2>1 DEF ResetClear
    <3>2. CASE rcvEnabled
      <4>1. Promise!End
        BY <3>1, <3>2 DEF Promise!End
      <4>. QED BY <4>1 DEF Promise!Next
    <3>3. CASE ~rcvEnabled
      BY <3>1, <3>3 DEF Promise!vars
    <3>. QED BY <3>2, <3>3
  <2>2. CASE ~ResetClear(c)
    BY <1>8, <2>2, SeenNothing DEF Stop, ResetTest, ResetRcv, EndTransferThread, WaitForMe,
                                   member, file
  <2>. QED BY <2>1, <2>2
<1>. QED BY <1>2, <1>3, <1>4, <1>5, <1>6, <1>7, <1>8 DEF Next, ThreadStep, Start

(* The initial states map to the initial state. *)
LEMMA PromiseInit == Init => Promise!Init
<1>. QED BY DEF Init, Promise!Init

-----------------------------------------------------------------------------
(* Each of the theorems is about every number of packets, every transport    *)
(* and mode, and every interleaving that its assumption leaves.              *)

LEMMA Invariance == Settled => (Spec => []IInv)
<1>. SUFFICES ASSUME Settled PROVE Spec => []IInv
  OBVIOUS
<1>1. IInv /\ [Next]_vars => IInv'
  BY NextIInv
<1>. QED BY <1>1, InitIInv, PTL DEF Spec

(* m_flRcvComplete is only set for a file all of whose blocks hold their own *)
(* packets: m_nRcvPkts never runs ahead of the data.                         *)
THEOREM SuccessIsComplete == Settled => (Spec => []SuccessMeansComplete)
<1>. QED BY Invariance, Consequences, PTL

(* m_nRcvPkts counts the packets in the file, each once. *)
THEOREM CountIsExact == Settled => (Spec => []CountsExactly)
<1>. QED BY Invariance, Consequences, PTL

(* No number is on m_vPktLost twice, and none that is in the file. *)
THEOREM LostIsMissing == Settled => (Spec => []LostOnce)
<1>. QED BY Invariance, Consequences, PTL

(* RunRX, which does not reset m_vPktLost, never finds anything on it. *)
THEOREM StartsFresh == Settled => (Spec => []FreshStart)
<1>. QED BY Invariance, Consequences, PTL

(* What ResetRcv leaves on disk after a reception that saved something is    *)
(* the whole file.                                                           *)
THEOREM DiskIsWhole == Settled => (Spec => []DiskHoldsWholeFiles)
<1>. QED BY Invariance, Consequences, PTL

(* Gaps, requests and late packets implement the plain arrival of blocks of  *)
(* FileReception.                                                            *)
THEOREM ReceiverRefines == Settled => (Spec => KeepsPromise)
<1>. SUFFICES ASSUME Settled PROVE Spec => KeepsPromise
  OBVIOUS
<1>1. IInv /\ IInv' /\ [Next]_vars => [Promise!Next]_(Promise!vars)
  <2>1. CASE Next
    BY <2>1, PromiseStep
  <2>2. CASE UNCHANGED vars
    BY <2>2, SeenNothing DEF vars, member, file
  <2>. QED BY <2>1, <2>2
<1>2. Spec => []IInv
  BY Invariance
<1>. QED BY <1>1, <1>2, PromiseInit, PTL DEF Spec, KeepsPromise, Promise!Spec

-----------------------------------------------------------------------------
(* The end of the file announced at any step, inside SaveRcvPkt and between  *)
(* receptions too.  The count and the completion flag may go wrong then; that *)
(* a number is in the file or on the vector, and that a block holds its own  *)
(* packet, may not.                                                          *)

OwnPackets == AtomicReset /\ ~Stray

Known == Items(lost) \cup Saved

(* Where the file ends as long as something of it is missing: m_uCurSeq, or  *)
(* what AdvanceSeq is about to set it to.                                    *)
FileEnd == IF tpc = "gap" THEN tpkt.seq - 1
           ELSE IF tpc = "set" \/ (tpc = "cmp" /\ tpkt.seq > curSeq) THEN tpkt.seq
           ELSE curSeq

(* The file while a reception runs, and what RunRX finds of it. *)
PlaceInv ==
  /\ RightPlace
  /\ rcvEnabled => totPkts \in Pkts
  /\ rcvEnabled /\ ~receiving => flen = 0

(* Up to FileEnd and up to m_uCurSeq everything is known.  m_uCurSeq can be   *)
(* ahead of the packet in hand, when NotifyEOF has come in between: it is at *)
(* the end of the file then.                                                 *)
KnownInv == Active =>
  /\ FileEnd < totPkts => flen = FileEnd
  /\ (1..FileEnd) \cap (1..totPkts) \subseteq Known
  /\ (1..curSeq) \cap (1..totPkts) \subseteq Known
  /\ tpc = "gap" => /\ tpkt.seq \in 1..totPkts /\ tpkt.data = tpkt.seq
                    /\ curSeq < tpkt.seq \/ curSeq >= totPkts

AnyInv == TypeOK /\ ControlInv /\ PlaceInv /\ KnownInv

(* A step that leaves file, counters and vector alone. *)
LEMMA KnownSame ==
  ASSUME PlaceInv, KnownInv,
         UNCHANGED <<block, flen, totPkts, lost, rcvEnabled, receiving>>,
         Active' => /\ Active /\ FileEnd' = FileEnd /\ tpc' # "gap"
                    /\ curSeq' \in {curSeq, FileEnd}
  PROVE  PlaceInv' /\ KnownInv'
<1>1. Known' = Known
  BY DEF Known, Saved, Items
<1>2. PlaceInv'
  BY DEF PlaceInv, RightPlace
<1>3. KnownInv'
  BY <1>1 DEF KnownInv
<1>. QED BY <1>2, <1>3

(* A packet written to its own block. *)
LEMMA WriteKnown ==
  ASSUME TypeOK, PlaceInv, Active, rcvEnabled, NEW at \in 1..totPkts,
         WriteBlock(at, at, TRUE), UNCHANGED <<totPkts, rcvEnabled, receiving>>
  PROVE  /\ PlaceInv' /\ Saved' = Saved \cup {at} /\ tpc' = "cmp"
         /\ flen' = IF at > flen THEN at ELSE flen
<1>1. /\ block \in [Pkts -> 0..Alien] /\ totPkts \in Pkts /\ MaxPkts \in Nat
      /\ \A k \in Pkts : block[k] \in {0, k}
  BY ReceiverAssumption DEF ReceiverAssumption, TypeOK, TypeFile, PlaceInv, RightPlace
<1>2. /\ block' = [block EXCEPT ![at] = at] /\ tpc' = "cmp"
      /\ flen' = IF at > flen THEN at ELSE flen
  BY DEF WriteBlock
<1>3. at \in Pkts /\ Saved' = Saved \cup {at}
  <2>1. \A k \in 1..totPkts : k \in Pkts
    BY <1>1
  <2>2. \A k \in 1..totPkts : block'[k] = IF k = at THEN at ELSE block[k]
    BY <1>1, <1>2, <2>1
  <2>. QED BY <2>1, <2>2 DEF Saved
<1>4. \A k \in Pkts : block'[k] \in {0, k}
  BY <1>1, <1>2, <1>3
<1>5. PlaceInv'
  BY <1>1, <1>4 DEF PlaceInv, RightPlace, Active
<1>. QED BY <1>2, <1>3, <1>5

(* A packet appended behind the end of the file. *)
LEMMA AppendKnown ==
  ASSUME TypeOK, PlaceInv, KnownInv, Active, rcvEnabled, NEW at \in 1..totPkts,
         at = FileEnd + 1, curSeq < at \/ curSeq >= totPkts, NEW ok \in BOOLEAN,
         WriteBlock(at, flen + 1, ok), tpkt'.seq = at,
         UNCHANGED <<curSeq, totPkts, lost, rcvEnabled, receiving>>
  PROVE  PlaceInv' /\ KnownInv'
<1>1. curSeq \in Nat /\ flen \in Nat /\ totPkts \in Nat /\ FileEnd = at - 1
  <2>1. FileEnd \in Int
    BY DEF FileEnd, TypeOK, TypeThread, TypeCounters
  <2>. QED BY <2>1 DEF TypeOK, TypeCounters, TypeFile
<1>2. /\ flen + 1 = at
      /\ (1..(at - 1)) \cap (1..totPkts) \subseteq Known
      /\ (1..curSeq) \cap (1..totPkts) \subseteq Known
  BY <1>1 DEF KnownInv
<1>3. CASE ok
  <2>1. WriteBlock(at, at, TRUE)
    BY <1>2, <1>3
  <2>2. PlaceInv' /\ Saved' = Saved \cup {at} /\ tpc' = "cmp" /\ flen' = at
    <3>1. /\ PlaceInv' /\ Saved' = Saved \cup {at} /\ tpc' = "cmp"
          /\ flen' = IF at > flen THEN at ELSE flen
      BY <2>1, WriteKnown
    <3>. QED BY <1>1, <1>2, <3>1
  <2>3. Known' = Known \cup {at}
    BY <2>2 DEF Known, Items
  <2>4. FileEnd' = IF at > curSeq THEN at ELSE curSeq
    BY <2>2 DEF FileEnd
  <2>5. (1..FileEnd') \cap (1..totPkts) \subseteq Known'
    BY <1>1, <1>2, <2>3, <2>4
  <2>6. KnownInv'
    BY <1>1, <1>2, <2>2, <2>3, <2>4, <2>5 DEF KnownInv
  <2>. QED BY <2>2, <2>6
<1>4. CASE ~ok
  <2>1. UNCHANGED <<block, flen>> /\ tpc' = "done"
    BY <1>4 DEF WriteBlock
  <2>2. ~Active'
    BY <2>1 DEF Active
  <2>. QED BY <2>1, <2>2, KnownSame
<1>. QED BY <1>3, <1>4

(* The transfer thread between two reads. *)
LEMMA ThreadKnown ==
  ASSUME TypeOK, ControlInv, PlaceInv, KnownInv, ThreadStep
  PROVE  PlaceInv' /\ KnownInv'
<1>1. CASE ThreadTop \/ ReadFails \/ GapFails \/ CheckComplete \/ CompareSeq \/ AdvanceSeq
  <2>1. /\ UNCHANGED <<block, flen, totPkts, lost, rcvEnabled, receiving, abort, tpkt>>
        /\ tpc \notin {"none", "done"} /\ tpc' # "gap"
        /\ Active' => Active /\ tpc # "gap"
    BY <1>1 DEF ThreadTop, ReadFails, GapFails, CheckComplete, CompareSeq, AdvanceSeq,
                vector, member, file, Active
  <2>2. CASE ThreadTop \/ ReadFails \/ GapFails \/ CheckComplete
    <3>1. UNCHANGED curSeq /\ (Active' => tpc \in {"top", "chk"} /\ tpc' \in {"read", "top"})
      BY <2>2 DEF ThreadTop, ReadFails, GapFails, CheckComplete, Active
    <3>2. Active' => FileEnd' = FileEnd
      BY <2>1, <3>1 DEF FileEnd
    <3>. QED BY <2>1, <3>1, <3>2, KnownSame
  <2>3. CASE CompareSeq
    <3>1. /\ UNCHANGED curSeq /\ tpc = "cmp"
          /\ tpc' = IF tpkt.seq > curSeq THEN "set" ELSE "chk"
      BY <2>3 DEF CompareSeq
    <3>2. FileEnd' = FileEnd
      BY <2>1, <3>1 DEF FileEnd
    <3>. QED BY <2>1, <3>1, <3>2, KnownSame
  <2>4. CASE AdvanceSeq
    <3>1. curSeq' = tpkt.seq /\ tpc = "set" /\ tpc' = "chk"
      BY <2>4 DEF AdvanceSeq
    <3>2. FileEnd' = FileEnd /\ curSeq' = FileEnd
      BY <2>1, <3>1 DEF FileEnd
    <3>. QED BY <2>1, <3>1, <3>2, KnownSame
  <2>. QED BY <1>1, <2>2, <2>3, <2>4
<1>2. ASSUME NEW ok \in BOOLEAN, SaveAfterGap(ok) PROVE PlaceInv' /\ KnownInv'
  <2>1. /\ tpc = "gap" /\ receiving /\ rcvEnabled
        /\ UNCHANGED <<curSeq, totPkts, lost, rcvEnabled, receiving, abort, tpkt>>
    BY <1>2, InsidePacket DEF SaveAfterGap, Resting, vector, member
  <2>2. CASE abort
    <3>1. UNCHANGED <<block, flen>> /\ ~Active'
      BY <1>2, <2>1, <2>2 DEF SaveAfterGap, Active
    <3>. QED BY <2>1, <3>1, KnownSame
  <2>3. CASE ~abort
    <3>1. Active /\ WriteBlock(tpkt.data, flen + 1, ok)
      BY <1>2, <2>1, <2>3 DEF SaveAfterGap, Active
    <3>2. /\ tpkt.seq \in 1..totPkts /\ tpkt.data = tpkt.seq /\ tpkt.seq = FileEnd + 1
          /\ curSeq < tpkt.seq \/ curSeq >= totPkts
      BY <2>1, <3>1 DEF KnownInv, FileEnd, TypeOK, TypeThread
    <3>. QED BY <2>1, <3>1, <3>2, AppendKnown
  <2>. QED BY <2>2, <2>3
<1>. QED BY <1>1, <1>2 DEF ThreadStep

(* What arrives. *)
LEMMA ArrivalKnown ==
  ASSUME ~Stray, TypeOK, ControlInv, PlaceInv, KnownInv, Arrival
  PROVE  PlaceInv' /\ KnownInv'
<1>. USE ReceiverAssumption DEF ReceiverAssumption
<1>1. tpc = "read" /\ receiving /\ rcvEnabled /\ FileEnd = curSeq
  <2>1. tpc = "read"
    BY DEF Arrival, Reconnect, SaveRefused, SaveIgnored, SaveLate, SaveNext, SaveGap,
           Accepted, Reading
  <2>. QED BY <2>1, InsidePacket DEF Resting, FileEnd
<1>2. /\ curSeq \in Nat /\ totPkts \in Nat /\ flen \in Nat /\ lost \in Seq(Pkts)
      /\ totPkts <= MaxPkts
  BY DEF TypeOK, TypeCounters, TypeFile
<1>3. CASE \/ \E ok \in BOOLEAN : Reconnect(ok)
           \/ \E m \in Packets : SaveRefused(m) \/ SaveIgnored(m)
  <2>1. /\ UNCHANGED <<block, flen, totPkts, lost, rcvEnabled, receiving, abort, curSeq, tpkt>>
        /\ tpc' \in {"chk", "done"}
    BY <1>3 DEF Reconnect, SaveRefused, SaveIgnored, vector, member, file
  <2>2. Active' => Active /\ FileEnd' = FileEnd /\ tpc' # "gap"
    BY <1>1, <2>1 DEF Active, FileEnd
  <2>. QED BY <2>1, <2>2, KnownSame
<1>4. ASSUME NEW m \in Packets, Accepted(m)
      PROVE  Active /\ m.data = m.seq /\ m.seq \in 1..totPkts
  BY <1>1, <1>2, <1>4 DEF Accepted, Reading, OnWire, Packets, Active
<1>5. ASSUME NEW m \in Packets, NEW ok \in BOOLEAN, SaveNext(m, ok)
      PROVE  PlaceInv' /\ KnownInv'
  <2>1. /\ Active /\ m.data = m.seq /\ m.seq \in 1..totPkts /\ m.seq = FileEnd + 1
        /\ curSeq < m.seq
    BY <1>1, <1>2, <1>4, <1>5 DEF SaveNext
  <2>2. /\ WriteBlock(m.seq, flen + 1, ok) /\ tpkt'.seq = m.seq
        /\ UNCHANGED <<curSeq, totPkts, lost, rcvEnabled, receiving>>
    BY <1>5, <2>1 DEF SaveNext, vector, member
  <2>. QED BY <1>1, <2>1, <2>2, AppendKnown
<1>6. ASSUME NEW m \in Packets, NEW ok \in BOOLEAN, SaveLate(m, ok)
      PROVE  PlaceInv' /\ KnownInv'
  <2>1. /\ Active /\ m.seq \in 1..totPkts /\ m.seq <= curSeq
        /\ Search(lost, m.seq) # 0 /\ lost' = Remove(lost, Search(lost, m.seq))
        /\ WriteBlock(m.seq, m.seq, ok) /\ tpkt' = m
        /\ UNCHANGED <<curSeq, totPkts, rcvEnabled, receiving>>
    BY <1>1, <1>2, <1>4, <1>6 DEF SaveLate, member
  <2>2. Items(lost) \subseteq Items(lost') \cup {m.seq}
    <3>1. Search(lost, m.seq) \in 1..Len(lost) /\ lost[Search(lost, m.seq)] = m.seq
      BY <1>2, <2>1, SearchFinds
    <3>. QED BY <1>2, <2>1, <3>1, RemoveItems
  <2>3. CASE ok
    <3>1. /\ PlaceInv' /\ Saved' = Saved \cup {m.seq} /\ tpc' = "cmp"
          /\ flen' = IF m.seq > flen THEN m.seq ELSE flen
      BY <1>1, <2>1, <2>3, WriteKnown
    <3>2. Known \subseteq Known'
      BY <2>2, <3>1 DEF Known, Items
    <3>3. FileEnd' = curSeq
      BY <1>2, <2>1, <3>1 DEF FileEnd
    <3>4. curSeq < totPkts => flen' = curSeq
      BY <1>1, <1>2, <2>1, <3>1 DEF KnownInv
    <3>5. KnownInv'
      BY <1>1, <2>1, <3>1, <3>2, <3>3, <3>4 DEF KnownInv
    <3>. QED BY <3>1, <3>5
  <2>4. CASE ~ok
    <3>1. UNCHANGED <<block, flen>> /\ tpc' = "done"
      BY <2>1, <2>4 DEF WriteBlock
    <3>2. PlaceInv'
      BY <2>1, <3>1 DEF PlaceInv, RightPlace
    <3>3. KnownInv'
      BY <3>1 DEF KnownInv, Active
    <3>. QED BY <3>2, <3>3
  <2>. QED BY <2>3, <2>4
<1>7. ASSUME NEW m \in Packets, NEW k \in Pkts, SaveGap(m, k) PROVE PlaceInv' /\ KnownInv'
  <2>1. /\ Active /\ m.data = m.seq /\ m.seq \in 1..totPkts
        /\ m.seq > curSeq + 1 /\ k \in (curSeq + 1)..m.seq
        /\ lost' = InsertRun(lost, curSeq + 1, IF k = m.seq THEN k - 1 ELSE k)
        /\ flen' = flen + (k - (curSeq + 1)) /\ tpkt' = m
        /\ tpc' = IF k = m.seq THEN "gap" ELSE "gapfail"
        /\ UNCHANGED <<curSeq, totPkts, block, rcvEnabled, receiving>>
    BY <1>4, <1>7 DEF SaveGap, member
  <2>2. PlaceInv'
    BY <1>1, <2>1 DEF PlaceInv, RightPlace
  <2>3. CASE k = m.seq
    <3>1. FileEnd' = m.seq - 1 /\ flen = curSeq /\ flen' = m.seq - 1
      BY <1>1, <1>2, <2>1, <2>3 DEF FileEnd, KnownInv
    <3>2. Items(lost') = Items(lost) \cup (curSeq + 1)..(m.seq - 1)
      <4>1. curSeq + 1 \in 1..(MaxPkts + 1) /\ m.seq - 1 \in 0..MaxPkts
        BY <1>2, <2>1
      <4>. QED BY <1>2, <2>1, <2>3, <4>1, InsertRunItems
    <3>3. Known' = Known \cup (curSeq + 1)..(m.seq - 1)
      BY <2>1, <3>2 DEF Known, Saved, Items
    <3>4. (1..curSeq) \cap (1..totPkts) \subseteq Known
      BY <2>1 DEF KnownInv
    <3>5. (1..(m.seq - 1)) \cap (1..totPkts) \subseteq Known'
      BY <1>2, <2>1, <3>3, <3>4
    <3>6. KnownInv'
      BY <1>2, <2>1, <2>3, <3>1, <3>3, <3>4, <3>5 DEF KnownInv
    <3>. QED BY <2>2, <3>6
  <2>4. CASE k # m.seq
    <3>1. ~Active'
      BY <2>1, <2>4 DEF Active
    <3>. QED BY <2>2, <3>1 DEF KnownInv
  <2>. QED BY <2>3, <2>4
<1>. QED BY <1>3, <1>5, <1>6, <1>7 DEF Arrival

(* A reception begins. *)
LEMMA StartKnown ==
  ASSUME TypeOK, ControlInv, PlaceInv, KnownInv, Start
  PROVE  PlaceInv' /\ KnownInv'
<1>. USE ReceiverAssumption DEF ReceiverAssumption
<1>1. CASE RunRX
  <2>1. UNCHANGED <<block, flen, totPkts, lost, rcvEnabled, abort, tpkt>>
    BY <1>1 DEF RunRX, file, vector
  <2>2. CASE UNCHANGED <<curSeq, tpc, receiving>>
    <3>1. Active' = Active /\ FileEnd' = FileEnd /\ Known' = Known
      BY <2>1, <2>2 DEF Active, FileEnd, Known, Saved, Items
    <3>2. PlaceInv'
      BY <2>1, <2>2 DEF PlaceInv, RightPlace
    <3>3. KnownInv'
      BY <2>1, <2>2, <3>1 DEF KnownInv
    <3>. QED BY <3>2, <3>3
  <2>3. CASE rcvEnabled /\ ~receiving /\ curSeq' = 0
    <3>1. \/ receiving' /\ tpc' = "top"
          \/ ~receiving'
      BY <1>1, <2>3 DEF RunRX
    <3>2. totPkts \in Nat /\ flen = 0
      BY <2>3 DEF PlaceInv
    <3>3. PlaceInv'
      BY <2>1, <3>2 DEF PlaceInv, RightPlace
    <3>4. KnownInv'
      <4>1. CASE receiving' /\ tpc' = "top"
        BY <2>1, <2>3, <3>2, <4>1 DEF KnownInv, FileEnd
      <4>2. CASE ~receiving'
        BY <4>2 DEF KnownInv, Active
      <4>. QED BY <3>1, <4>1, <4>2
    <3>. QED BY <3>3, <3>4
  <2>. QED BY <1>1, <2>2, <2>3 DEF RunRX
<1>2. ASSUME NEW n \in Pkts, NEW p \in PtPModes, NEW netOk \in BOOLEAN, BeginReceive(n, p, netOk)
      PROVE  PlaceInv' /\ KnownInv'
  <2>1. /\ ~receiving' /\ block' = [k \in Pkts |-> 0] /\ flen' = 0
        /\ rcvEnabled' => totPkts' = n
    BY <1>2 DEF BeginReceive, ControlInv, RunInv
  <2>. QED BY <2>1 DEF PlaceInv, RightPlace, KnownInv, Active
<1>. QED BY <1>1, <1>2 DEF Start

(* The end of the file is announced. *)
LEMMA EofKnown ==
  ASSUME TypeOK, PlaceInv, KnownInv, Eof
  PROVE  PlaceInv' /\ KnownInv'
<1>. USE ReceiverAssumption DEF ReceiverAssumption
<1>1. /\ UNCHANGED <<block, flen, totPkts, rcvEnabled, receiving, abort, tpc, tpkt>>
      /\ PlaceInv' /\ Active' = Active /\ Saved' = Saved
  <2>1. UNCHANGED <<block, flen, totPkts, rcvEnabled, receiving, abort, tpc, tpkt>>
    BY DEF Eof, NotifyEOF, RequestFirst, RequestNext, file, member, thread
  <2>. QED BY <2>1 DEF PlaceInv, RightPlace, Active, Saved
<1>2. CASE RequestFirst \/ RequestNext
  <2>1. UNCHANGED <<curSeq, lost>>
    BY <1>2 DEF RequestFirst, RequestNext
  <2>2. FileEnd' = FileEnd /\ Known' = Known
    BY <1>1, <2>1 DEF FileEnd, Known, Items
  <2>. QED BY <1>1, <2>1, <2>2 DEF KnownInv
<1>3. CASE NotifyEOF
  <2>1. /\ curSeq \in Nat /\ totPkts \in Nat /\ lost \in Seq(Pkts) /\ tpkt.seq \in Nat
        /\ curSeq <= MaxPkts /\ totPkts <= MaxPkts
        /\ curSeq' = IF curSeq < totPkts THEN totPkts ELSE curSeq
        /\ lost' = InsertRun(lost, curSeq + 1, totPkts)
    BY <1>3 DEF NotifyEOF, TypeOK, TypeCounters, TypeThread
  <2>2. Known' = Known \cup (curSeq + 1)..totPkts
    <3>1. curSeq + 1 \in 1..(MaxPkts + 1) /\ totPkts \in 0..MaxPkts
      BY <2>1
    <3>2. Items(lost') = Items(lost) \cup (curSeq + 1)..totPkts
      BY <2>1, <3>1, InsertRunItems
    <3>. QED BY <1>1, <3>2 DEF Known, Items
  <2>. SUFFICES ASSUME Active PROVE KnownInv'
    BY <1>1 DEF KnownInv
  <2>3. /\ FileEnd < totPkts => flen = FileEnd
        /\ (1..FileEnd) \cap (1..totPkts) \subseteq Known
        /\ (1..curSeq) \cap (1..totPkts) \subseteq Known
        /\ tpc = "gap" => /\ tpkt.seq \in 1..totPkts /\ tpkt.data = tpkt.seq
                          /\ curSeq < tpkt.seq \/ curSeq >= totPkts
    BY DEF KnownInv
  <2>4. 1..totPkts \subseteq Known' /\ curSeq' >= totPkts
    BY <2>1, <2>2, <2>3
  <2>5. FileEnd' = FileEnd \/ FileEnd' >= totPkts
    BY <1>1, <2>1 DEF FileEnd
  <2>6. FileEnd' < totPkts => flen' = FileEnd'
    BY <1>1, <2>1, <2>3, <2>5 DEF FileEnd
  <2>. QED BY <1>1, <2>3, <2>4, <2>6 DEF KnownInv
<1>. QED BY <1>2, <1>3 DEF Eof

(* A Reset. *)
LEMMA StopKnown ==
  ASSUME TypeOK, ControlInv, PlaceInv, KnownInv, NEW c \in Controllers, Stop(c)
  PROVE  PlaceInv' /\ KnownInv'
<1>1. CASE ResetTest(c) \/ ResetRcv(c) \/ EndTransferThread(c) \/ WaitForMe(c)
  <2>1. UNCHANGED <<block, flen, totPkts, lost, rcvEnabled, receiving, curSeq, tpkt>>
    BY <1>1 DEF ResetTest, ResetRcv, EndTransferThread, WaitForMe, member, file, vector, thread
  <2>2. (UNCHANGED <<abort, tpc>>) \/ ~Active'
    BY <1>1 DEF ResetTest, ResetRcv, EndTransferThread, WaitForMe, Active, member, thread
  <2>3. CASE UNCHANGED <<abort, tpc>>
    <3>1. Active' = Active /\ FileEnd' = FileEnd /\ Known' = Known
      BY <2>1, <2>3 DEF Active, FileEnd, Known, Saved, Items
    <3>2. PlaceInv'
      BY <2>1 DEF PlaceInv, RightPlace
    <3>3. KnownInv'
      BY <2>1, <2>3, <3>1 DEF KnownInv
    <3>. QED BY <3>2, <3>3
  <2>4. CASE ~Active'
    BY <2>1, <2>4 DEF PlaceInv, RightPlace, KnownInv
  <2>. QED BY <2>2, <2>3, <2>4
<1>2. CASE ResetClear(c)
  <2>1. ~rcvEnabled' /\ ~receiving'
    BY <1>2 DEF ResetClear
  <2>. QED BY <2>1 DEF PlaceInv, RightPlace, KnownInv, Active
<1>. QED BY <1>1, <1>2 DEF Stop

(* The invariant. *)
LEMMA InitAny == Init => AnyInv
<1>. SUFFICES ASSUME Init PROVE AnyInv
  OBVIOUS
<1>1. TypeOK /\ ControlInv
  BY InitIInv DEF IInv
<1>2. PlaceInv /\ KnownInv
  BY DEF Init, PlaceInv, RightPlace, KnownInv, Active
<1>. QED BY <1>1, <1>2 DEF AnyInv

LEMMA NextAny == OwnPackets /\ AnyInv /\ [Next]_vars => AnyInv'
<1>. SUFFICES ASSUME OwnPackets, AnyInv, [Next]_vars PROVE AnyInv'
  OBVIOUS
<1>1. AtomicReset /\ ~Stray /\ TypeOK /\ ControlInv /\ PlaceInv /\ KnownInv
  BY DEF OwnPackets, AnyInv
<1>2. TypeOK'
  BY <1>1, NextType
<1>3. CASE Next
  <2>1. ControlInv'
    BY <1>1, <1>3, ControlStep
  <2>2. PlaceInv' /\ KnownInv'
    BY <1>1, <1>3, ThreadKnown, ArrivalKnown, StartKnown, EofKnown, StopKnown DEF Next
  <2>. QED BY <1>2, <2>1, <2>2 DEF AnyInv
<1>4. CASE UNCHANGED vars
  <2>. USE <1>4 DEF vars, vector, member, file, thread, ctrl
  <2>1. ControlInv'
    BY <1>1 DEF ControlInv, FlagsUp, OneReset, ThreadRests, RunInv, InReset
  <2>2. Active' = Active /\ FileEnd' = FileEnd /\ Known' = Known
    BY DEF Active, FileEnd, Known, Saved, Items
  <2>3. PlaceInv' /\ KnownInv'
    BY <1>1, <2>2 DEF PlaceInv, RightPlace, KnownInv
  <2>. QED BY <1>2, <2>1, <2>3 DEF AnyInv
<1>. QED BY <1>3, <1>4

LEMMA AnyInvariance == OwnPackets => (Spec => []AnyInv)
<1>. SUFFICES ASSUME OwnPackets PROVE Spec => []AnyInv
  OBVIOUS
<1>1. AnyInv /\ [Next]_vars => AnyInv'
  BY NextAny
<1>. QED BY <1>1, InitAny, PTL DEF Spec

(* A number that SaveRcvPkt or NotifyEOF has passed over is in the file or on *)
(* m_vPktLost, whenever the end of the file is announced.                    *)
THEOREM NothingForgotten == OwnPackets => (Spec => []NoPacketForgotten)
<1>1. AnyInv => NoPacketForgotten
  BY DEF AnyInv, KnownInv, Known, NoPacketForgotten
<1>. QED BY <1>1, AnyInvariance, PTL

(* Blank blocks, appended packets and late ones never displace one another,  *)
(* whenever the end of the file is announced.                                *)
THEOREM BlocksInPlace == OwnPackets => (Spec => []RightPlace)
<1>1. AnyInv => RightPlace
  BY DEF AnyInv, PlaceInv
<1>. QED BY <1>1, AnyInvariance, PTL

-----------------------------------------------------------------------------
(* Point to point mode. *)

InOrderMode == Settled /\ PtPModes = {TRUE} /\ EofPhases = {}

InOrderInv == lost = <<>> /\ (rcvEnabled => ptp)

(* With no end of file notice nothing is ever put on m_vPktLost: SaveRcvPkt  *)
(* refuses before it comes to a gap.                                         *)
LEMMA NothingLost ==
  ASSUME InOrderMode, TypeOK, RunInv, InOrderInv, [Next]_vars
  PROVE  InOrderInv'
<1>. USE DEF InOrderInv
<1>1. CASE ThreadStep
  BY <1>1 DEF member, ThreadStep, ThreadTop, ReadFails, GapFails, CompareSeq, AdvanceSeq,
              CheckComplete, SaveAfterGap, vector
<1>2. ASSUME NEW m \in Packets, NEW ok \in BOOLEAN, SaveLate(m, ok)
      PROVE  FALSE
  BY <1>2 DEF SaveLate, Search
<1>3. ASSUME NEW m \in Packets, NEW k \in Pkts, SaveGap(m, k)
      PROVE  FALSE
  BY <1>3 DEF SaveGap, Accepted, InOrderMode, TypeOK, TypeCounters, Packets, RunInv
<1>4. CASE Arrival
  BY <1>2, <1>3, <1>4 DEF Arrival, Reconnect, SaveRefused, SaveIgnored, SaveNext, vector, member
<1>5. CASE Start
  <2>1. ASSUME NEW n \in Pkts, NEW p \in PtPModes, NEW netOk \in BOOLEAN,
               BeginReceive(n, p, netOk)
        PROVE  lost' = lost /\ ptp'
    <3>1. lost' = lost /\ ptp' = p
      BY <2>1 DEF BeginReceive, vector
    <3>2. p = TRUE
      BY DEF InOrderMode
    <3>. QED BY <3>1, <3>2
  <2>2. CASE RunRX
    BY <2>2 DEF RunRX, vector
  <2>. QED BY <1>5, <2>1, <2>2 DEF Start
<1>6. CASE Eof
  BY <1>6 DEF Eof, NotifyEOF, RequestFirst, RequestNext, InOrderMode, member
<1>7. ASSUME NEW c \in Controllers, Stop(c) PROVE InOrderInv'
  BY <1>7 DEF Stop, ResetTest, ResetRcv, EndTransferThread, WaitForMe, ResetClear, vector,
              member
<1>8. CASE UNCHANGED vars
  BY <1>8 DEF vars, vector, member
<1>. QED BY <1>1, <1>4, <1>5, <1>6, <1>7, <1>8 DEF Next

(* An empty vector leaves nothing but the packets up to High. *)
LEMMA InOrder == IInv /\ lost = <<>> => PtPInOrder
<1>. SUFFICES ASSUME IInv, lost = <<>>, Active PROVE Saved = 1..nRcvPkts
  BY DEF PtPInOrder
<1>1. /\ VectorInv /\ FileInv /\ rcvEnabled /\ TypeOK
  BY DEF IInv, DataInv, ControlInv, RunInv, Active
<1>2. /\ totPkts \in Nat /\ flen \in Nat /\ curSeq \in Nat
      /\ nRcvPkts = Cardinality(Saved) /\ Items(lost) = {}
  BY <1>1 DEF TypeOK, TypeCounters, TypeFile, FileInv, Items
<1>3. High \in Nat /\ High <= totPkts /\ 1..High \subseteq Saved /\ (High < totPkts => flen = High)
  <2>1. High <= totPkts /\ 1..High \subseteq Saved /\ (High < totPkts => flen = High)
    BY <1>1, <1>2 DEF VectorInv
  <2>2. High \in Nat
    BY <1>1 DEF VectorInv, High, TypeOK, TypeCounters, TypeThread
  <2>. QED BY <2>1, <2>2
<1>4. Saved = 1..High
  <2>1. \A k \in Saved : k \in 1..totPkts /\ k \in Pkts /\ k <= flen
    BY <1>1, <1>2, ReceiverAssumption
       DEF FileInv, Saved, ReceiverAssumption, TypeOK, TypeCounters
  <2>2. \A k \in Saved : k \in 1..High
    BY <1>2, <1>3, <2>1
  <2>. QED BY <1>3, <2>2
<1>5. nRcvPkts = High
  BY <1>2, <1>3, <1>4, FS_Interval
<1>. QED BY <1>4, <1>5

(* Point to point: packets are taken strictly in order and nothing is lost.  *)
THEOREM TakenInOrder == InOrderMode => (Spec => []PtPInOrder)
<1>. SUFFICES ASSUME InOrderMode PROVE Spec => []PtPInOrder
  OBVIOUS
<1>1. Spec => []IInv
  BY Invariance DEF InOrderMode
<1>2. IInv /\ InOrderInv /\ [Next]_vars => InOrderInv'
  BY NothingLost DEF IInv, ControlInv
<1>3. Init => InOrderInv
  BY DEF Init, InOrderInv
<1>4. IInv /\ InOrderInv => PtPInOrder
  BY InOrder DEF InOrderInv
<1>. QED BY <1>1, <1>2, <1>3, <1>4, PTL DEF Spec
=============================================================================
