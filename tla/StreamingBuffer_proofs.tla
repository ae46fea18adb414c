----------------------- MODULE StreamingBuffer_proofs -----------------------
(***************************************************************************)
(* The stream buffer is a queue, for every number of bytes and size of     *)
(* packets and reads, when no packet comes while m_uReadPos stands at the  *)
(* buffer's end; and then what the writer knows of a waiting reader is     *)
(* true, and no reader gets less than it waited for while the transmission *)
(* lasts, wherever threads go first, fail or are stopped.                  *)
(***************************************************************************)
EXTENDS StreamingBuffer, TLAPS

Rings == [len : 0..MaxBytes, writePos : 0..MaxBytes, readPos : 0..MaxBytes,
          totalWrite : 0..MaxBytes, totalRead : 0..MaxBytes,
          cell : [Cells -> 0..MaxBytes]]

(* Bytes that have come and not gone. *)
Held(r) == r.totalWrite - r.totalRead

(* The write position follows from the read position and what is held.       *)
Placed(r) ==
  /\ r.len <= r.totalWrite
  /\ Held(r) \in 0..r.len
  /\ r.readPos <= r.len
  /\ r.len > 0 /\ r.readPos = r.len => Held(r) < r.len
  /\ r.writePos = Wrap(r, r.readPos + Held(r))

(* What is held lies from the read position on, in the order it came.        *)
Ordered(r) == \A i \in 1..Held(r) : r.cell[Wrap(r, r.readPos + i - 1)] = r.totalRead + i

RingInv(r) == r \in Rings /\ Placed(r) /\ Ordered(r)

-----------------------------------------------------------------------------
(* The members of a ring. *)
LEMMA RingFields ==
  ASSUME NEW r \in Rings
  PROVE  /\ r.len \in 0..MaxBytes /\ r.writePos \in 0..MaxBytes /\ r.readPos \in 0..MaxBytes
         /\ r.totalWrite \in 0..MaxBytes /\ r.totalRead \in 0..MaxBytes
         /\ r.cell \in [Cells -> 0..MaxBytes]
<1>. QED BY DEF Rings

(* What is assigned to keeps its type. *)
LEMMA RingType ==
  ASSUME NEW r \in Rings, NEW l \in 0..MaxBytes, NEW w \in 0..MaxBytes, NEW p \in 0..MaxBytes,
         NEW tw \in 0..MaxBytes, NEW c \in [Cells -> 0..MaxBytes]
  PROVE  /\ [r EXCEPT !.len = l, !.writePos = w, !.readPos = p, !.cell = c] \in Rings
         /\ [r EXCEPT !.writePos = w, !.totalWrite = tw, !.cell = c] \in Rings
<1>. QED BY DEF Rings

(* What is read from keeps its type. *)
LEMMA RingReadType ==
  ASSUME NEW r \in Rings, NEW p \in 0..MaxBytes, NEW tr \in 0..MaxBytes
  PROVE  [r EXCEPT !.readPos = p, !.totalRead = tr] \in Rings
<1>. QED BY DEF Rings

(* Used() and Free() tell what is held and what is not. *)
LEMMA UsedIsHeld ==
  ASSUME NEW r, RingInv(r)
  PROVE  Used(r) = Held(r) /\ Free(r) = r.len - Held(r)
<1>1. r \in Rings /\ Placed(r)
  BY DEF RingInv
<1>2. /\ r.len \in Nat /\ r.writePos \in Nat /\ r.readPos \in Nat
      /\ r.totalWrite \in Nat /\ r.totalRead \in Nat
  BY <1>1, RingFields, StreamAssumption
<1>3. /\ Held(r) >= 0 /\ Held(r) <= r.len /\ r.readPos <= r.len
      /\ r.len > 0 /\ r.readPos = r.len => Held(r) < r.len
      /\ r.writePos = IF r.readPos + Held(r) < r.len THEN r.readPos + Held(r)
                      ELSE r.readPos + Held(r) - r.len
  BY <1>1, <1>2 DEF Placed, Wrap
<1>4. r.totalWrite = r.totalRead <=> Held(r) = 0
  BY <1>2 DEF Held
<1>5. Held(r) \in Int
  BY <1>2 DEF Held
<1>. QED BY <1>2, <1>3, <1>4, <1>5 DEF Used, Free

(* The places of what is held are cells. *)
LEMMA PlacesAreCells ==
  ASSUME NEW r, RingInv(r), NEW i \in 1..Held(r)
  PROVE  Wrap(r, r.readPos + i - 1) \in Cells /\ Wrap(r, r.readPos + i - 1) < r.len
<1>1. r \in Rings /\ Placed(r)
  BY DEF RingInv
<1>2. /\ r.len \in 0..MaxBytes /\ r.readPos \in 0..r.len /\ Held(r) \in 0..r.len
      /\ r.readPos = r.len => Held(r) < r.len
  BY <1>1, RingFields, StreamAssumption DEF Placed
<1>3. i \in Int /\ 1 <= i /\ i <= Held(r)
  BY <1>2
<1>. QED BY <1>2, <1>3, StreamAssumption DEF Wrap, Cells

(* The contents are the numbers of the bytes held. *)
LEMMA ContentsAre ==
  ASSUME NEW r, RingInv(r)
  PROVE  Contents(r) = [i \in 1..Held(r) |-> r.totalRead + i]
<1>1. Used(r) = Held(r)
  BY UsedIsHeld
<1>2. \A i \in 1..Held(r) : r.cell[Wrap(r, r.readPos + i - 1)] = r.totalRead + i
  BY DEF RingInv, Ordered
<1>. QED BY <1>1, <1>2 DEF Contents

(* A larger buffer holds the same. *)
LEMMA SetBufferHolds ==
  ASSUME NEW r, RingInv(r), r.readPos < r.len \/ r.len = 0,
         NEW n \in 1..MaxBytes, n > r.len
  PROVE  LET s == SetBuffer(r, n)
         IN  /\ s \in Rings /\ s.len = n
             /\ s.totalWrite = r.totalWrite /\ s.totalRead = r.totalRead
             /\ s.readPos < n /\ s.writePos = Wrap(s, s.readPos + Held(r))
             /\ Ordered(s)
<1>. DEFINE s == SetBuffer(r, n)
<1>. USE StreamAssumption
<1>1. r \in Rings /\ Placed(r)
  BY DEF RingInv
<1>2. Used(r) = Held(r) /\ Held(r) \in 0..r.len /\ Held(r) < n
  BY <1>1, UsedIsHeld, RingFields DEF Placed
<1>3. /\ s.len = n /\ s.totalWrite = r.totalWrite /\ s.totalRead = r.totalRead
      /\ s.writePos = IF Held(r) > 0 THEN Held(r) ELSE r.writePos
      /\ s.readPos = IF Held(r) > 0 THEN 0 ELSE r.readPos
      /\ s.cell = [c \in Cells |-> IF c < Held(r) THEN Contents(r)[c + 1] ELSE 0]
  BY <1>1, <1>2 DEF SetBuffer, Rings
<1>4. s.cell = [c \in Cells |-> IF c < Held(r) THEN r.totalRead + c + 1 ELSE 0]
  <2>1. \A c \in Cells : c < Held(r) => Contents(r)[c + 1] = r.totalRead + c + 1
    <3>. SUFFICES ASSUME NEW c \in Cells, c < Held(r)
                  PROVE  Contents(r)[c + 1] = r.totalRead + c + 1
      OBVIOUS
    <3>1. c + 1 \in 1..Held(r) /\ c \in Int /\ r.totalRead \in Int
      BY <1>1, <1>2, RingFields DEF Cells
    <3>2. Contents(r) = [i \in 1..Held(r) |-> r.totalRead + i]
      BY ContentsAre
    <3>3. Contents(r)[c + 1] = r.totalRead + (c + 1)
      BY <3>1, <3>2
    <3>. QED BY <3>1, <3>3
  <2>. QED BY <1>3, <2>1
<1>5. s.cell \in [Cells -> 0..MaxBytes]
  <2>1. /\ r.totalRead \in Int /\ r.totalWrite \in Int /\ r.totalRead >= 0
        /\ r.totalWrite <= MaxBytes /\ Held(r) = r.totalWrite - r.totalRead
    BY <1>1, RingFields DEF Held
  <2>2. ASSUME NEW c \in Cells, c < Held(r)
        PROVE  r.totalRead + c + 1 \in 0..MaxBytes
    <3>1. c \in Int /\ c >= 0
      BY DEF Cells
    <3>. QED BY <2>1, <2>2, <3>1
  <2>3. 0 \in 0..MaxBytes
    OBVIOUS
  <2>. HIDE DEF s
  <2>. QED BY <1>4, <2>2, <2>3
<1>6. s.readPos \in 0..MaxBytes /\ s.writePos \in 0..MaxBytes
  <2>1. r.readPos \in 0..MaxBytes /\ r.writePos \in 0..MaxBytes /\ Held(r) \in 0..MaxBytes
    BY <1>1, <1>2, RingFields
  <2>. HIDE DEF s
  <2>. QED BY <2>1, <1>3
<1>7. s \in Rings
  <2>. DEFINE w == s.writePos
              p == s.readPos
              c == s.cell
  <2>1. n \in 0..MaxBytes
    OBVIOUS
  <2>2. s = [r EXCEPT !.len = n, !.writePos = w, !.readPos = p, !.cell = c]
    BY <1>1, <1>2, <1>3 DEF SetBuffer
  <2>3. w \in 0..MaxBytes /\ p \in 0..MaxBytes /\ c \in [Cells -> 0..MaxBytes]
    BY <1>5, <1>6
  <2>. HIDE DEF s, w, p, c
  <2>4. [r EXCEPT !.len = n, !.writePos = w, !.readPos = p, !.cell = c] \in Rings
    BY <1>1, <2>1, <2>3, RingType
  <2>. QED BY <2>2, <2>4
<1>8. s.readPos < n /\ s.writePos = Wrap(s, s.readPos + Held(r))
  <2>1. /\ r.readPos \in 0..MaxBytes /\ r.len \in 0..MaxBytes
        /\ Held(r) \in 0..r.len /\ r.readPos <= r.len
        /\ r.readPos < r.len \/ r.len = 0
        /\ r.writePos = IF r.readPos + Held(r) < r.len THEN r.readPos + Held(r)
                        ELSE r.readPos + Held(r) - r.len
    BY <1>1, <1>2, RingFields DEF Placed, Wrap
  <2>2. s.readPos < n /\ s.readPos + Held(r) < n
    <3>. HIDE DEF s
    <3>. QED BY <2>1, <1>2, <1>3
  <2>3. s.writePos = s.readPos + Held(r)
    <3>. HIDE DEF s
    <3>. QED BY <2>1, <1>2, <1>3
  <2>. QED BY <2>2, <2>3, <1>3 DEF Wrap
<1>9. Ordered(s)
  <2>1. Held(s) = Held(r)
    BY <1>3 DEF Held
  <2>2. ASSUME NEW i \in 1..Held(r)
        PROVE  s.cell[Wrap(s, s.readPos + i - 1)] = s.totalRead + i
    <3>1. Held(r) > 0 /\ i \in Nat /\ i - 1 < Held(r) /\ i - 1 >= 0 /\ i - 1 \in Cells
      BY <1>1, <1>2, RingFields DEF Cells
    <3>2. s.readPos = 0 /\ Wrap(s, s.readPos + i - 1) = i - 1
      BY <3>1, <1>2, <1>3 DEF Wrap
    <3>3. s.cell[i - 1] = r.totalRead + (i - 1) + 1
      BY <3>1, <1>4
    <3>. QED BY <3>1, <3>2, <3>3, <1>1, <1>3, RingFields
  <2>. QED BY <2>1, <2>2 DEF Ordered
<1>. QED BY <1>3, <1>7, <1>8, <1>9

(* A write of bytes there is room for appends them. *)
LEMMA WriteHolds ==
  ASSUME NEW r \in Rings, Held(r) \in 0..r.len, r.readPos < r.len,
         r.writePos = Wrap(r, r.readPos + Held(r)), Ordered(r),
         NEW n \in 1..MaxBytes, n <= r.len - Held(r),
         r.totalWrite + n <= MaxBytes, r.len <= r.totalWrite + n
  PROVE  LET s == Write(r, n)
         IN  /\ RingInv(s) /\ s.len = r.len /\ s.readPos = r.readPos
             /\ s.totalWrite = r.totalWrite + n /\ s.totalRead = r.totalRead
<1>. DEFINE s == Write(r, n)
            len == r.len
            wp == r.writePos
            rp == r.readPos
            h == Held(r)
<1>1. /\ len \in 0..MaxBytes /\ wp \in 0..MaxBytes /\ rp \in 0..MaxBytes
      /\ r.totalWrite \in 0..MaxBytes /\ r.totalRead \in 0..MaxBytes
      /\ r.cell \in [Cells -> 0..MaxBytes]
  BY RingFields
<1>2. /\ h \in 0..len /\ rp < len /\ n <= len - h /\ n >= 1 /\ n \in Int /\ MaxBytes \in Nat
      /\ wp = IF rp + h < len THEN rp + h ELSE rp + h - len
      /\ h = r.totalWrite - r.totalRead
  <2>1. h \in 0..len /\ rp < len /\ n <= len - h
    OBVIOUS
  <2>2. n >= 1 /\ n \in Int /\ MaxBytes \in Nat
    <3>. HIDE DEF s, len, wp, rp, h
    <3>. QED BY StreamAssumption
  <2>3. wp = IF rp + h < len THEN rp + h ELSE rp + h - len
    <3>1. rp \in Int /\ h \in Int /\ len \in Int
      BY <1>1, <2>1
    <3>. QED BY <3>1 DEF Wrap
  <2>4. h = r.totalWrite - r.totalRead
    BY DEF Held
  <2>. QED BY <2>1, <2>2, <2>3, <2>4
<1>3. /\ s.len = len /\ s.readPos = rp
      /\ s.totalWrite = r.totalWrite + n /\ s.totalRead = r.totalRead
      /\ s.writePos = IF wp + n < len THEN wp + n ELSE wp + n - len
      /\ s.cell = [c \in Cells |-> IF c < len /\ Behind(r, c) < n
                                    THEN r.totalWrite + 1 + Behind(r, c) ELSE r.cell[c]]
  BY DEF Write, Wrap, Rings
<1>4. s.writePos \in 0..MaxBytes /\ s.totalWrite \in 0..MaxBytes
  <2>. HIDE DEF s, len, wp, rp, h
  <2>. QED BY <1>1, <1>2, <1>3
<1>5. \A c \in Cells : Behind(r, c) = (IF c < wp THEN c - wp + len ELSE c - wp)
  BY DEF Behind
<1>6. s.cell \in [Cells -> 0..MaxBytes]
  <2>1. \A c \in Cells : c < len /\ Behind(r, c) < n =>
          r.totalWrite + 1 + Behind(r, c) \in 0..MaxBytes
    <3>. HIDE DEF s, len, wp, rp, h
    <3>. SUFFICES ASSUME NEW c \in Cells, c < len, Behind(r, c) < n
                  PROVE  r.totalWrite + 1 + Behind(r, c) \in 0..MaxBytes
      OBVIOUS
    <3>1. c \in Int /\ 0 <= c
      BY <1>2 DEF Cells
    <3>2. Behind(r, c) \in Int /\ Behind(r, c) >= 0
      BY <1>1, <1>2, <1>5, <3>1
    <3>. QED BY <1>1, <1>2, <3>2
  <2>. QED BY <1>1, <1>3, <2>1
<1>7. s \in Rings
  <2>. DEFINE w == s.writePos
              tw == s.totalWrite
              c == s.cell
  <2>1. s = [r EXCEPT !.writePos = w, !.totalWrite = tw, !.cell = c]
    BY <1>3 DEF Write
  <2>2. w \in 0..MaxBytes /\ tw \in 0..MaxBytes /\ c \in [Cells -> 0..MaxBytes]
    BY <1>4, <1>6
  <2>. HIDE DEF s, w, tw, c
  <2>3. [r EXCEPT !.writePos = w, !.totalWrite = tw, !.cell = c] \in Rings
    BY <1>1, <2>2, RingType
  <2>. QED BY <2>1, <2>3
<1>8. Held(s) = h + n
  BY <1>1, <1>2, <1>3 DEF Held
<1>9. Placed(s)
  <2>1. /\ len <= r.totalWrite + n /\ h + n \in 0..len
        /\ (IF wp + n < len THEN wp + n ELSE wp + n - len)
             = (IF rp + (h + n) < len THEN rp + (h + n) ELSE rp + (h + n) - len)
    <3>1. len <= r.totalWrite + n
      OBVIOUS
    <3>. HIDE DEF s, len, wp, rp, h
    <3>. QED BY <1>1, <1>2, <3>1
  <2>2. s.writePos = Wrap(s, s.readPos + Held(s))
    <3>1. Wrap(s, s.readPos + Held(s)) = Wrap(s, rp + (h + n))
      BY <1>3, <1>8
    <3>2. Wrap(s, rp + (h + n))
            = IF rp + (h + n) < s.len THEN rp + (h + n) ELSE rp + (h + n) - s.len
      <4>1. s.len \in Int /\ rp \in Int /\ h \in Int /\ n \in Int
        BY <1>1, <1>2, <1>3
      <4>. HIDE DEF s, rp, h
      <4>. QED BY <4>1 DEF Wrap
    <3>. HIDE DEF s, len, wp, rp, h
    <3>. QED BY <1>3, <2>1, <3>1, <3>2
  <2>. HIDE DEF s, len, wp, rp, h
  <2>. QED BY <1>1, <1>2, <1>3, <1>8, <2>1, <2>2 DEF Placed
<1>10. Ordered(s)
  <2>1. ASSUME NEW i \in 1..(h + n)
        PROVE  s.cell[Wrap(s, s.readPos + i - 1)] = s.totalRead + i
    <3>. DEFINE c == IF rp + i - 1 < len THEN rp + i - 1 ELSE rp + i - 1 - len
    <3>1. i \in Int /\ 1 <= i /\ i <= h + n
      <4>. HIDE DEF s, len, wp, rp, h
      <4>. QED BY <1>2
    <3>2. Wrap(s, s.readPos + i - 1) = c /\ Wrap(r, rp + i - 1) = c
      <4>1. s.readPos = rp /\ s.len = len /\ len \in Int /\ rp \in Int /\ i \in Int
        BY <1>1, <1>3, <3>1
      <4>. HIDE DEF s
      <4>. QED BY <4>1 DEF Wrap
    <3>3. c \in Cells /\ c < len
      <4>1. c \in Int /\ 0 <= c /\ c < len
        <5>. HIDE DEF s, len, wp, rp, h
        <5>. QED BY <1>1, <1>2, <3>1
      <4>2. len \in Int /\ len <= MaxBytes /\ MaxBytes \in Int
        BY <1>1, <1>2
      <4>. HIDE DEF s, len, wp, rp, h, c
      <4>. QED BY <4>1, <4>2 DEF Cells
    <3>4. CASE i <= h
      <4>1. Behind(r, c) >= n
        <5>1. (IF c < wp THEN c - wp + len ELSE c - wp) >= n
          <6>. HIDE DEF s, len, wp, rp, h
          <6>. QED BY <1>1, <1>2, <3>1, <3>4
        <5>. QED BY <5>1, <1>5, <3>3
      <4>2. s.cell[c] = r.cell[c]
        <5>1. Behind(r, c) \in Int /\ ~(Behind(r, c) < n)
          <6>1. Behind(r, c) \in Int
            <7>. HIDE DEF s, len, wp, rp, h, c
            <7>. QED BY <1>1, <1>5, <3>3 DEF Cells
          <6>. HIDE DEF s, len, wp, rp, h, c
          <6>. QED BY <4>1, <6>1, <1>2
        <5>. HIDE DEF s, len, wp, rp, h, c
        <5>. QED BY <5>1, <1>3, <3>3
      <4>3. r.cell[c] = r.totalRead + i
        <5>1. i \in 1..Held(r)
          BY <3>1, <3>4, <1>2
        <5>2. r.cell[Wrap(r, r.readPos + i - 1)] = r.totalRead + i
          BY <5>1 DEF Ordered
        <5>. QED BY <5>2, <3>2
      <4>. HIDE DEF s, len, wp, rp, h, c
      <4>. QED BY <3>2, <4>2, <4>3, <1>3
    <3>5. CASE i > h
      <4>1. Behind(r, c) = i - h - 1
        <5>1. (IF c < wp THEN c - wp + len ELSE c - wp) = i - h - 1
          <6>. HIDE DEF s, len, wp, rp, h
          <6>. QED BY <1>1, <1>2, <3>1, <3>5
        <5>. QED BY <5>1, <1>5, <3>3
      <4>. HIDE DEF s, len, wp, rp, h, c
      <4>2. s.cell[c] = r.totalWrite + 1 + (i - h - 1)
        <5>1. Behind(r, c) < n
          BY <4>1, <3>1, <1>2, <1>1
        <5>. QED BY <5>1, <4>1, <1>3, <3>3
      <4>. QED BY <4>2, <3>2, <3>1, <1>1, <1>2, <1>3
    <3>. QED BY <3>1, <3>4, <3>5, <1>1, <1>2
  <2>. QED BY <2>1, <1>8 DEF Ordered
<1>. QED BY <1>3, <1>7, <1>9, <1>10 DEF RingInv

(* WriteData() appends the packet, making room if it must.                   *)
LEMMA StoreHolds ==
  ASSUME NEW r, RingInv(r), r.readPos < r.len \/ r.len = 0,
         NEW n \in 1..MaxBytes, r.totalWrite + n <= MaxBytes
  PROVE  LET s == Store(r, n)
         IN  /\ RingInv(s) /\ s.readPos < s.len
             /\ s.totalWrite = r.totalWrite + n /\ s.totalRead = r.totalRead
<1>1. r \in Rings /\ Placed(r) /\ Ordered(r)
  BY DEF RingInv
<1>2. /\ r.len \in Nat /\ r.readPos \in Nat /\ r.totalWrite \in Nat /\ r.totalRead \in Nat
      /\ MaxBytes \in Nat /\ n \in Nat /\ n >= 1
  BY <1>1, RingFields, StreamAssumption
<1>3. Held(r) \in Nat /\ Held(r) <= r.len /\ r.len <= r.totalWrite /\ Held(r) <= r.totalWrite
  BY <1>1, <1>2 DEF Placed, Held
<1>4. Free(r) = r.len - Held(r)
  BY UsedIsHeld
<1>5. CASE n > Free(r)
  <2>. DEFINE m == r.len + n - Free(r)
              b == SetBuffer(r, m)
  <2>1. m = Held(r) + n /\ m \in 1..MaxBytes /\ m > r.len
    BY <1>2, <1>3, <1>4, <1>5
  <2>2. /\ b \in Rings /\ b.len = m
        /\ b.totalWrite = r.totalWrite /\ b.totalRead = r.totalRead
        /\ b.readPos < m /\ b.writePos = Wrap(b, b.readPos + Held(r)) /\ Ordered(b)
    BY <2>1, SetBufferHolds
  <2>3. Held(b) = Held(r)
    BY <2>2 DEF Held
  <2>. HIDE DEF b
  <2>4. /\ Held(b) \in 0..b.len /\ b.readPos < b.len /\ n <= b.len - Held(b)
        /\ b.totalWrite + n <= MaxBytes /\ b.len <= b.totalWrite + n
        /\ b.writePos = Wrap(b, b.readPos + Held(b))
    BY <2>1, <2>2, <2>3, <1>2, <1>3
  <2>5. LET s == Write(b, n)
        IN  /\ RingInv(s) /\ s.len = b.len /\ s.readPos = b.readPos
            /\ s.totalWrite = b.totalWrite + n /\ s.totalRead = b.totalRead
    BY <2>2, <2>4, WriteHolds
  <2>6. Store(r, n) = Write(b, n)
    BY <1>5 DEF Store, b
  <2>. HIDE DEF m
  <2>. QED BY <2>2, <2>4, <2>5, <2>6
<1>6. CASE ~(n > Free(r))
  <2>1. /\ Held(r) \in 0..r.len /\ n <= r.len - Held(r) /\ r.readPos < r.len
        /\ r.len <= r.totalWrite + n
    BY <1>2, <1>3, <1>4, <1>6
  <2>2. r.writePos = Wrap(r, r.readPos + Held(r))
    BY <1>1 DEF Placed
  <2>3. LET s == Write(r, n)
        IN  /\ RingInv(s) /\ s.len = r.len /\ s.readPos = r.readPos
            /\ s.totalWrite = r.totalWrite + n /\ s.totalRead = r.totalRead
    BY <1>1, <2>1, <2>2, WriteHolds
  <2>4. Store(r, n) = Write(r, n)
    BY <1>6 DEF Store
  <2>. QED BY <2>1, <2>3, <2>4
<1>. QED BY <1>5, <1>6

(* A read takes the first bytes off. *)
LEMMA ReadHolds ==
  ASSUME NEW r, RingInv(r), NEW n \in 1..Held(r)
  PROVE  LET s == Read(r, n)
         IN  /\ RingInv(s) /\ s.len = r.len
             /\ s.totalWrite = r.totalWrite /\ s.totalRead = r.totalRead + n
<1>. DEFINE s == Read(r, n)
            len == r.len
            wp == r.writePos
            rp == r.readPos
            h == Held(r)
<1>1. r \in Rings /\ Placed(r) /\ Ordered(r)
  BY DEF RingInv
<1>2. /\ len \in Nat /\ rp \in Nat /\ wp \in Nat /\ h \in Int /\ n \in Int /\ MaxBytes \in Nat
      /\ len <= MaxBytes /\ r.totalWrite \in 0..MaxBytes /\ r.totalRead \in 0..MaxBytes
      /\ h = r.totalWrite - r.totalRead
  BY <1>1, RingFields, StreamAssumption DEF Held
<1>3. /\ 1 <= n /\ n <= h /\ h <= len /\ rp <= len /\ len <= r.totalWrite
      /\ rp = len => h < len
      /\ wp = IF rp + h < len THEN rp + h ELSE rp + h - len
  <2>1. h \in 0..len /\ rp <= len /\ len <= r.totalWrite
    BY <1>1 DEF Placed
  <2>2. 1 <= n /\ n <= h
    <3>. HIDE DEF h, len
    <3>1. n \in 1..h
      BY DEF h
    <3>. QED BY <1>2, <3>1
  <2>3. len > 0 /\ rp = len => h < len
    BY <1>1 DEF Placed
  <2>4. wp = IF rp + h < len THEN rp + h ELSE rp + h - len
    BY <1>1, <1>2 DEF Placed, Wrap
  <2>. HIDE DEF s, len, wp, rp, h
  <2>. QED BY <1>2, <2>1, <2>2, <2>3, <2>4
<1>4. /\ s.len = len /\ s.writePos = wp
      /\ s.totalWrite = r.totalWrite /\ s.totalRead = r.totalRead + n
      /\ s.readPos = IF n <= len - rp THEN rp + n ELSE n - (len - rp)
      /\ s.cell = r.cell
  BY <1>1 DEF Read, Rings
<1>5. s \in Rings
  <2>. DEFINE q == s.readPos
              tr == s.totalRead
  <2>1. s = [r EXCEPT !.readPos = q, !.totalRead = tr]
    BY <1>4 DEF Read
  <2>2. q \in 0..MaxBytes /\ tr \in 0..MaxBytes
    <3>. HIDE DEF s, len, wp, rp, h
    <3>. QED BY <1>2, <1>3, <1>4
  <2>. HIDE DEF s, q, tr
  <2>3. [r EXCEPT !.readPos = q, !.totalRead = tr] \in Rings
    BY <1>1, <2>2, RingReadType
  <2>. QED BY <2>1, <2>3
<1>6. Held(s) = h - n
  <2>1. Held(s) = s.totalWrite - s.totalRead
    BY DEF Held
  <2>. HIDE DEF s, h
  <2>. QED BY <2>1, <1>2, <1>4
<1>7. Placed(s)
  <2>1. /\ s.len <= s.totalWrite /\ Held(s) \in 0..s.len /\ s.readPos <= s.len
        /\ s.readPos = s.len => Held(s) < s.len
        /\ s.len \in Int /\ s.readPos \in Int /\ Held(s) \in Int
    <3>. HIDE DEF s, len, wp, rp, h
    <3>. QED BY <1>2, <1>3, <1>4, <1>6
  <2>2. s.writePos = IF s.readPos + Held(s) < s.len THEN s.readPos + Held(s)
                     ELSE s.readPos + Held(s) - s.len
    <3>. HIDE DEF s, len, wp, rp, h
    <3>. QED BY <1>2, <1>3, <1>4, <1>6
  <2>. HIDE DEF s
  <2>. QED BY <2>1, <2>2 DEF Placed, Wrap
<1>8. Ordered(s)
  <2>1. ASSUME NEW i \in 1..(h - n)
        PROVE  s.cell[Wrap(s, s.readPos + i - 1)] = s.totalRead + i
    <3>1. i \in Int /\ 1 <= i /\ i + n <= h /\ i + n \in 1..h
      <4>. HIDE DEF s, len, wp, rp, h
      <4>. QED BY <1>2, <1>3
    <3>2. r.cell[Wrap(r, rp + (i + n) - 1)] = r.totalRead + (i + n)
      BY <3>1, <1>1 DEF Ordered
    <3>3. Wrap(s, s.readPos + i - 1) = Wrap(r, rp + (i + n) - 1)
      <4>1. s.readPos \in Int /\ s.len \in Int
        <5>. HIDE DEF s, len, wp, rp, h
        <5>. QED BY <1>2, <1>4
      <4>2. Wrap(s, s.readPos + i - 1)
              = IF s.readPos + i - 1 < s.len THEN s.readPos + i - 1 ELSE s.readPos + i - 1 - s.len
        <5>. HIDE DEF s
        <5>. QED BY <3>1, <4>1 DEF Wrap
      <4>3. Wrap(r, rp + (i + n) - 1)
              = IF rp + (i + n) - 1 < len THEN rp + (i + n) - 1 ELSE rp + (i + n) - 1 - len
        BY <1>2, <3>1 DEF Wrap
      <4>. HIDE DEF s, len, wp, rp, h
      <4>. QED BY <1>2, <1>3, <1>4, <3>1, <4>1, <4>2, <4>3
    <3>. HIDE DEF s, len, wp, rp, h
    <3>. QED BY <1>2, <1>4, <3>1, <3>2, <3>3
  <2>. QED BY <2>1, <1>6 DEF Ordered
<1>. QED BY <1>4, <1>5, <1>7, <1>8 DEF RingInv

-----------------------------------------------------------------------------
(* Runs of consecutive numbers. *)
Run(t, h) == [i \in 1..h |-> t + i]

(* A run has the length it says. *)
LEMMA RunLength ==
  ASSUME NEW t \in Nat, NEW h \in Nat
  PROVE  Run(t, h) \in Seq(Nat) /\ Len(Run(t, h)) = h
<1>. QED BY DEF Run

(* A run falls into two. *)
LEMMA RunParts ==
  ASSUME NEW t \in Nat, NEW h \in Nat, NEW k \in 0..h
  PROVE  /\ SubSeq(Run(t, h), 1, k) = Run(t, k)
         /\ SubSeq(Run(t, h), k + 1, h) = Run(t + k, h - k)
<1>1. SubSeq(Run(t, h), 1, k) = Run(t, k)
  BY DEF Run
<1>2. SubSeq(Run(t, h), k + 1, h) = Run(t + k, h - k)
  BY DEF Run
<1>. QED BY <1>1, <1>2

(* Two runs that follow one another make one. *)
LEMMA RunJoins ==
  ASSUME NEW t \in Nat, NEW k \in Nat
  PROVE  Run(0, t) \o Run(t, k) = Run(0, t + k)
<1>. QED BY DEF Run

(* The contents are a run. *)
LEMMA ContentsRun ==
  ASSUME NEW r, RingInv(r)
  PROVE  /\ Contents(r) = Run(r.totalRead, Held(r))
         /\ Used(r) = Held(r) /\ Held(r) \in Nat /\ r.totalRead \in Nat /\ r.totalWrite \in Nat
<1>1. r \in Rings /\ Placed(r)
  BY DEF RingInv
<1>2. Held(r) \in Nat /\ r.totalRead \in Nat /\ r.totalWrite \in Nat
  BY <1>1, RingFields, StreamAssumption DEF Placed
<1>. QED BY <1>2, ContentsAre, UsedIsHeld DEF Run

-----------------------------------------------------------------------------
(* What is between the threads: nobody changes the ring behind a packet's    *)
(* back, and what was given out is what was read.                            *)
Given == received = Run(0, ring.totalRead)

PacketInv ==
  /\ header \in 0..MaxPiece /\ want \in 0..MaxPiece
  /\ header = 0 => ring.totalWrite = 0 /\ wpc = "idle"
  /\ wpc # "idle" => ring.readPos < ring.len
  /\ wpc \in {"start", "create", "flag", "write"} =>
       packet \in Pieces /\ ring.totalWrite + packet <= MaxBytes

QueueInv == RingInv(ring) /\ Given /\ PacketInv

EndNotRead == "endread" \notin Cases

(* The empty buffer. *)
LEMMA QueueInit == Init => QueueInv
<1>. SUFFICES ASSUME Init PROVE QueueInv
  OBVIOUS
<1>. USE StreamAssumption DEF Init
<1>1. ring \in Rings
  BY DEF Rings, Cells
<1>2. Held(ring) = 0
  BY DEF Held
<1>3. Placed(ring) /\ Ordered(ring)
  BY <1>2 DEF Placed, Ordered, Wrap
<1>4. Given
  BY DEF Given, Run
<1>5. PacketInv
  BY DEF PacketInv
<1>. QED BY <1>1, <1>3, <1>4, <1>5 DEF QueueInv, RingInv

(* Out of ReadData with k bytes. *)
LEMMA TakeStep ==
  ASSUME QueueInv, EndNotRead, NEW k \in 0..Held(ring), Take(k),
         want' \in 0..MaxPiece, UNCHANGED <<wpc, packet, header>>
  PROVE  /\ QueueInv'
         /\ ring'.totalWrite = ring.totalWrite /\ ring'.totalRead = ring.totalRead + k
         /\ Held(ring') = Held(ring) - k
<1>1. RingInv(ring) /\ Given /\ PacketInv
  BY DEF QueueInv
<1>2. Contents(ring) = Run(ring.totalRead, Held(ring)) /\ Held(ring) \in Nat
      /\ ring.totalRead \in Nat /\ ring.totalWrite \in Nat
  BY <1>1, ContentsRun
<1>3. /\ RingInv(ring') /\ ring'.len = ring.len
      /\ ring'.totalWrite = ring.totalWrite /\ ring'.totalRead = ring.totalRead + k
  <2>1. CASE k = 0
    BY <2>1, <1>1, <1>2 DEF Take
  <2>2. CASE k # 0
    <3>1. k \in 1..Held(ring) /\ ring' = Read(ring, k)
      BY <2>2, <1>2 DEF Take
    <3>. QED BY <3>1, <1>1, ReadHolds
  <2>. QED BY <2>1, <2>2
<1>4. Held(ring') = Held(ring) - k
  BY <1>2, <1>3 DEF Held
<1>5. Given'
  <2>1. SubSeq(Contents(ring), 1, k) = Run(ring.totalRead, k) /\ k \in Nat
    <3>1. k \in Nat
      BY <1>2
    <3>2. SubSeq(Run(ring.totalRead, Held(ring)), 1, k) = Run(ring.totalRead, k)
      BY <1>2, RunParts
    <3>. QED BY <1>2, <3>1, <3>2
  <2>2. received' = Run(0, ring.totalRead) \o Run(ring.totalRead, k)
    BY <1>1, <2>1 DEF Take, Given
  <2>3. received' = Run(0, ring.totalRead + k)
    BY <1>2, <2>1, <2>2, RunJoins
  <2>. QED BY <1>3, <2>3 DEF Given
<1>6. PacketInv'
  <2>1. wpc # "idle" => ring'.readPos < ring'.len
    BY <1>1, <1>3 DEF Take, EndNotRead
  <2>. QED BY <1>1, <1>3, <2>1 DEF PacketInv
<1>. QED BY <1>1, <1>3, <1>4, <1>5, <1>6 DEF QueueInv

(* A packet, or the header, in. *)
LEMMA StoreStep ==
  ASSUME QueueInv, NEW n \in Pieces, ring' = Store(ring, n), UNCHANGED <<received, want>>,
         ring.readPos < ring.len \/ ring.len = 0, ring.totalWrite + n <= MaxBytes,
         header' \in 1..MaxPiece, wpc' \in {"idle", "retake"}
  PROVE  /\ QueueInv' /\ Held(ring') = Held(ring) + n /\ ring'.totalRead = ring.totalRead
<1>1. RingInv(ring) /\ Given /\ PacketInv /\ n \in 1..MaxBytes
  BY StreamAssumption DEF QueueInv, Pieces
<1>2. /\ RingInv(ring') /\ ring'.readPos < ring'.len
      /\ ring'.totalWrite = ring.totalWrite + n /\ ring'.totalRead = ring.totalRead
  BY <1>1, StoreHolds
<1>3. Given' /\ PacketInv'
  BY <1>1, <1>2, StreamAssumption DEF Given, PacketInv
<1>4. Held(ring') = Held(ring) + n
  BY <1>1, <1>2, ContentsRun DEF Held
<1>. QED BY <1>2, <1>3, <1>4 DEF QueueInv

(* The steps that leave the ring alone. *)
LEMMA RingRests ==
  ASSUME QueueInv, UNCHANGED <<ring, received>>, PacketInv'
  PROVE  QueueInv' /\ UNCHANGED Promise!vars
<1>1. RingInv(ring)' /\ Given'
  BY DEF QueueInv, RingInv, Placed, Ordered, Held, Wrap, Given
<1>2. UNCHANGED Contents(ring)
  BY DEF Contents, Used, Wrap
<1>. QED BY <1>1, <1>2 DEF QueueInv, Promise!vars

(* Bytes come to the queue when a packet is stored, and leave it when they   *)
(* are read.                                                                 *)
LEMMA StorePuts ==
  ASSUME QueueInv, NEW n \in Pieces, ring' = Store(ring, n), UNCHANGED <<received, want>>,
         ring.readPos < ring.len \/ ring.len = 0, ring.totalWrite + n <= MaxBytes,
         header' \in 1..MaxPiece, wpc' \in {"idle", "retake"}
  PROVE  QueueInv' /\ Promise!Put
<1>1. QueueInv' /\ Held(ring') = Held(ring) + n /\ ring'.totalRead = ring.totalRead
  BY StoreStep
<1>2. /\ Contents(ring) = Run(ring.totalRead, Held(ring)) /\ Held(ring) \in Nat
      /\ ring.totalRead \in Nat
  BY ContentsRun DEF QueueInv
<1>3. Contents(ring') = Run(ring.totalRead, Held(ring) + n)
  BY <1>1, ContentsRun DEF QueueInv
<1>4. n \in Nat /\ n >= 1
  BY StreamAssumption DEF Pieces
<1>5. /\ Len(Run(ring.totalRead, Held(ring))) = Held(ring)
      /\ Len(Run(ring.totalRead, Held(ring) + n)) = Held(ring) + n
  <2>1. Held(ring) + n \in Nat
    BY <1>2, <1>4
  <2>. QED BY <1>2, <2>1, RunLength
<1>6. Len(received) = ring.totalRead
  <2>1. 0 \in Nat /\ received = Run(0, ring.totalRead)
    BY DEF QueueInv, Given
  <2>. QED BY <1>2, <2>1, RunLength
<1>7. Len(Contents(ring')) > Len(Contents(ring))
  BY <1>2, <1>3, <1>4, <1>5
<1>8. Contents(ring') = [i \in 1..Len(Contents(ring')) |-> Len(received) + i]
  BY <1>3, <1>5, <1>6 DEF Run
<1>. QED BY <1>1, <1>7, <1>8 DEF Promise!Put

LEMMA TakeGets ==
  ASSUME QueueInv, EndNotRead, NEW k \in 0..Held(ring), Take(k),
         want' \in 0..MaxPiece, UNCHANGED <<wpc, packet, header>>
  PROVE  QueueInv' /\ (Promise!Get \/ UNCHANGED Promise!vars)
<1>1. QueueInv' /\ ring'.totalRead = ring.totalRead + k /\ Held(ring') = Held(ring) - k
  BY TakeStep
<1>2. /\ Contents(ring) = Run(ring.totalRead, Held(ring)) /\ Held(ring) \in Nat
      /\ ring.totalRead \in Nat
  BY ContentsRun DEF QueueInv
<1>3. CASE k = 0
  <2>1. UNCHANGED ring /\ received' = received
    <3>1. received' = Run(0, ring'.totalRead) /\ received = Run(0, ring.totalRead)
      BY <1>1 DEF QueueInv, Given
    <3>. QED BY <1>1, <1>2, <1>3, <3>1 DEF Take
  <2>2. PacketInv'
    BY <1>1 DEF QueueInv
  <2>. QED BY <1>1, <2>1, <2>2, RingRests
<1>4. CASE k # 0
  <2>1. k \in 1..Held(ring)
    BY <1>2, <1>4
  <2>2. Len(Contents(ring)) = Held(ring)
    BY <1>2, RunLength
  <2>3. received' = received \o SubSeq(Contents(ring), 1, k)
    BY DEF Take
  <2>4. Contents(ring') = Run(ring.totalRead + k, Held(ring) - k)
    BY <1>1, ContentsRun DEF QueueInv
  <2>5. SubSeq(Run(ring.totalRead, Held(ring)), k + 1, Held(ring))
          = Run(ring.totalRead + k, Held(ring) - k)
    BY <1>2, RunParts
  <2>6. Contents(ring') = SubSeq(Contents(ring), k + 1, Len(Contents(ring)))
    BY <1>2, <2>2, <2>4, <2>5
  <2>. QED BY <1>1, <2>1, <2>2, <2>3, <2>6 DEF Promise!Get
<1>. QED BY <1>3, <1>4

(* Every step keeps the order, and puts, gets or stutters. *)
LEMMA QueueNext ==
  ASSUME QueueInv, EndNotRead, [Next]_vars
  PROVE  QueueInv' /\ [Promise!Next]_(Promise!vars)
<1>. DEFINE Kept == QueueInv' /\ [Promise!Next]_(Promise!vars)
<1>. USE DEF writer, reader, buffer
<1>0. PacketInv /\ RingInv(ring) /\ ring \in Rings /\ Placed(ring)
  BY DEF QueueInv, RingInv
<1>1. ASSUME NEW n \in Pieces, SetDemuxStreamHeader(n)
      PROVE  Kept
  <2>1. /\ ring' = Store(ring, n) /\ UNCHANGED <<received, want, wpc>> /\ header = 0 /\ header' = n
    BY <1>1 DEF SetDemuxStreamHeader
  <2>2. ring.totalWrite = 0 /\ wpc = "idle" /\ ring.len = 0
    BY <2>1, <1>0, RingFields, StreamAssumption DEF PacketInv, Placed
  <2>3. ring.totalWrite + n <= MaxBytes /\ header' \in 1..MaxPiece /\ wpc' \in {"idle", "retake"}
    BY <2>1, <2>2, StreamAssumption DEF Pieces
  <2>. QED BY <2>1, <2>2, <2>3, StorePuts DEF Promise!Next
<1>2. ASSUME NEW n \in Pieces, SetPacket(n)
      PROVE  Kept
  <2>1. UNCHANGED <<ring, received>> /\ PacketInv'
    BY <1>0, <1>2, StreamAssumption DEF SetPacket, PacketInv, EndNotRead
  <2>. QED BY <2>1, RingRests
<1>3. CASE WriteData
  <2>1. /\ wpc = "write" /\ ring' = Store(ring, packet) /\ UNCHANGED <<received, want, header>>
        /\ wpc' \in {"idle", "retake"}
    BY <1>3 DEF WriteData
  <2>2. /\ packet \in Pieces /\ ring.readPos < ring.len /\ ring.totalWrite + packet <= MaxBytes
        /\ header' \in 1..MaxPiece
    BY <2>1, <1>0, StreamAssumption DEF PacketInv
  <2>. QED BY <2>1, <2>2, StorePuts DEF Promise!Next
<1>4. CASE SetWriteMutexOwner \/ (\E ok \in BOOLEAN : CreateThread(ok)) \/ RaiseFlag \/ RetakeOwner
  <2>1. UNCHANGED <<ring, received>> /\ PacketInv'
    BY <1>0, <1>4 DEF SetWriteMutexOwner, CreateThread, RaiseFlag, RetakeOwner, PacketInv
  <2>. QED BY <2>1, RingRests
<1>5. ASSUME NEW n \in Pieces, ReadData(n)
      PROVE  Kept
  <2>1. CASE n > Used(ring)
    <3>1. UNCHANGED <<ring, received, header, wpc, packet>> /\ want' = n
      BY <1>5, <2>1 DEF ReadData
    <3>2. n \in 0..MaxPiece
      BY StreamAssumption DEF Pieces
    <3>. QED BY <3>1, <3>2, <1>0, RingRests DEF PacketInv
  <2>2. CASE ~(n > Used(ring))
    <3>1. n \in 0..Held(ring) /\ n \in 0..MaxPiece
      BY <2>2, <1>0, ContentsRun, StreamAssumption DEF Pieces
    <3>2. Take(n) /\ want' \in 0..MaxPiece /\ UNCHANGED <<wpc, packet, header>>
      BY <1>5, <2>2, <3>1 DEF ReadData
    <3>. QED BY <3>1, <3>2, TakeGets DEF Promise!Next
  <2>. QED BY <2>1, <2>2
<1>6. CASE ReadAfterWait
  <2>. DEFINE k == IF want > Used(ring) THEN Used(ring) ELSE want
  <2>1. Take(k) /\ want' = want /\ UNCHANGED <<wpc, packet, header>>
    BY <1>6 DEF ReadAfterWait
  <2>2. k \in 0..Held(ring) /\ want \in 0..MaxPiece
    BY <1>0, ContentsRun, StreamAssumption DEF PacketInv
  <2>. HIDE DEF k
  <2>. QED BY <2>1, <2>2, TakeGets DEF Promise!Next
<1>7. CASE WaitsForWriter \/ WaitForWriter \/ DemuxerReady \/ CodecFails \/ DemuxFails
           \/ LoopEnds \/ OnAbort \/ ReleaseWriteMutexOwner \/ WaitForMe \/ UNCHANGED vars
  <2>1. UNCHANGED <<ring, received, want, header, wpc, packet>>
    BY <1>7 DEF WaitsForWriter, WaitForWriter, DemuxerReady, CodecFails, DemuxFails, LoopEnds,
                OnAbort, ReleaseWriteMutexOwner, WaitForMe, vars
  <2>. QED BY <2>1, <1>0, RingRests DEF PacketInv
<1>. QED BY <1>1, <1>2, <1>3, <1>4, <1>5, <1>6, <1>7 DEF Next, Network, Demuxer, Stopper

(* Nothing is held or given at first. *)
LEMMA PromiseInit == Init => Promise!Init
<1>. SUFFICES ASSUME Init PROVE Promise!Init
  OBVIOUS
<1>1. Used(ring) = 0
  BY DEF Init, Used
<1>. QED BY <1>1 DEF Init, Contents, Promise!Init

(* Growing, wrapping around and running empty, the buffer is a plain queue,  *)
(* when no packet comes while the read position is at the buffer's end.      *)
THEOREM BufferIsQueue == EndNotRead => (Spec => KeepsOrder)
<1>. SUFFICES ASSUME EndNotRead PROVE Spec => KeepsOrder
  OBVIOUS
<1>1. QueueInv /\ [Next]_vars => QueueInv' /\ [Promise!Next]_(Promise!vars)
  BY QueueNext
<1>. QED BY <1>1, QueueInit, PromiseInit, PTL DEF Spec, KeepsOrder, Promise!Spec

-----------------------------------------------------------------------------
(* The threads around the buffer. *)
ThreadType ==
  /\ waiting \in 0..MaxPiece /\ want \in 0..MaxPiece /\ packet \in 0..MaxPiece
  /\ ownedFree \in BOOLEAN /\ run \in BOOLEAN /\ ready \in BOOLEAN
  /\ header \in 0..MaxPiece
  /\ wpc \in {"idle", "start", "create", "flag", "write", "retake"}
  /\ rpc \in {"none", "idle", "announced", "asleep", "again", "fail", "done"}
  /\ stop \in {"no", "release", "join", "done"}

(* The threads start with the types they keep. *)
LEMMA ThreadTypeInit == Init => ThreadType
<1>1. 0 \in 0..MaxPiece
  BY StreamAssumption
<1>. QED BY <1>1 DEF Init, ThreadType

(* Every step keeps the types of the threads. *)
LEMMA ThreadTypeNext == ThreadType /\ [Next]_vars => ThreadType'
<1>. SUFFICES ASSUME ThreadType, [Next]_vars PROVE ThreadType'
  OBVIOUS
<1>0. Pieces \subseteq 0..MaxPiece /\ 0 \in 0..MaxPiece
  BY StreamAssumption DEF Pieces
<1>. USE <1>0 DEF ThreadType, writer, reader, buffer
<1>1. ASSUME NEW n \in Pieces, SetDemuxStreamHeader(n) \/ SetPacket(n)
      PROVE  ThreadType'
  BY <1>1 DEF SetDemuxStreamHeader, SetPacket
<1>2. ASSUME NEW n \in Pieces, ReadData(n)
      PROVE  ThreadType'
  <2>1. rpc' \in {"announced", "fail", "idle"} /\ waiting' \in {n, waiting} /\ want' = n
    BY <1>2 DEF ReadData, Take
  <2>. QED BY <1>2, <2>1 DEF ReadData
<1>3. ASSUME SetWriteMutexOwner \/ RaiseFlag \/ RetakeOwner PROVE ThreadType'
  BY <1>3 DEF SetWriteMutexOwner, RaiseFlag, RetakeOwner
<1>4. ASSUME NEW ok \in BOOLEAN, CreateThread(ok) PROVE ThreadType'
  BY <1>4 DEF CreateThread
<1>5. ASSUME WriteData PROVE ThreadType'
  BY <1>5 DEF WriteData
<1>6. ASSUME ReadAfterWait PROVE ThreadType'
  <2>1. rpc' \in {"fail", "idle"}
    BY <1>6 DEF ReadAfterWait, Take
  <2>. QED BY <1>6, <2>1 DEF ReadAfterWait
<1>7. ASSUME WaitsForWriter \/ WaitForWriter \/ DemuxerReady PROVE ThreadType'
  BY <1>7 DEF WaitsForWriter, WaitForWriter, DemuxerReady
<1>8. ASSUME CodecFails \/ LoopEnds PROVE ThreadType'
  BY <1>8 DEF CodecFails, LoopEnds
<1>9. ASSUME DemuxFails PROVE ThreadType'
  BY <1>9 DEF DemuxFails
<1>10. ASSUME OnAbort PROVE ThreadType'
  BY <1>10 DEF OnAbort
<1>11. ASSUME ReleaseWriteMutexOwner \/ WaitForMe PROVE ThreadType'
  BY <1>11 DEF ReleaseWriteMutexOwner, WaitForMe
<1>12. ASSUME UNCHANGED vars PROVE ThreadType'
  BY <1>12 DEF vars
<1>. QED BY <1>1, <1>2, <1>3, <1>4, <1>5, <1>6, <1>7, <1>8, <1>9, <1>10,
            <1>11, <1>12 DEF Next, Network, Demuxer, Stopper

(* Every member has its type, and the positions stay within the buffer.      *)
THEOREM StreamType == EndNotRead => (Spec => []TypeOK)
<1>. SUFFICES ASSUME EndNotRead PROVE Spec => []TypeOK
  OBVIOUS
<1>1. Init => QueueInv /\ ThreadType
  BY QueueInit, ThreadTypeInit
<1>2. QueueInv /\ ThreadType /\ [Next]_vars => (QueueInv /\ ThreadType)'
  BY QueueNext, ThreadTypeNext
<1>3. QueueInv /\ ThreadType => TypeOK
  <2>. SUFFICES ASSUME QueueInv, ThreadType PROVE TypeOK
    OBVIOUS
  <2>1. ring \in Rings /\ Placed(ring)
    BY DEF QueueInv, RingInv
  <2>2. ring.writePos <= ring.len
    <3>1. /\ ring.len \in Nat /\ ring.readPos \in Nat /\ Held(ring) \in Nat
          /\ Held(ring) <= ring.len /\ ring.readPos <= ring.len
          /\ ring.len > 0 /\ ring.readPos = ring.len => Held(ring) < ring.len
          /\ ring.writePos = IF ring.readPos + Held(ring) < ring.len
                             THEN ring.readPos + Held(ring)
                             ELSE ring.readPos + Held(ring) - ring.len
      BY <2>1, RingFields, StreamAssumption DEF Placed, Wrap
    <3>. QED BY <3>1
  <2>3. received \in Seq(0..MaxBytes)
    <3>1. ring.totalRead \in 0..MaxBytes
      BY <2>1, RingFields
    <3>. QED BY <3>1, StreamAssumption DEF QueueInv, Given, Run
  <2>. QED BY <2>1, <2>2, <2>3 DEF TypeOK, ThreadType, Rings, Placed
<1>. QED BY <1>1, <1>2, <1>3, PTL DEF Spec

(* What the wake-up of a reader rests on, while the transmission lasts.      *)
(* There is one thread for the stream, started once;                         *)
StartsOnce ==
  /\ wpc = "start" => rpc \in {"none", "done"} /\ ~run
  /\ wpc = "create" => rpc = "none" /\ ~run /\ ~ownedFree
  /\ header = 0 => rpc = "none"
  /\ rpc \in {"none", "done"} \/ wpc = "flag" \/ run

Waits == rpc \in {"announced", "asleep"}

(* m_WriteOwned is free only for a moment, to let in a reader who is off the *)
(* record; and a reader who waits is on record or his bytes are there.       *)
WokenForBytes ==
  /\ Waits \/ rpc = "again" => want \in Pieces
  /\ rpc = "again" => want <= Held(ring)
  /\ rpc # "none" /\ ownedFree => wpc = "retake" /\ waiting = 0
  /\ waiting > 0 => Waits
  /\ Waits => \/ waiting = want /\ Held(ring) < want
              \/ waiting = 0 /\ want <= Held(ring)

WakeInv == QueueInv /\ ThreadType /\ (stop = "no" => StartsOnce /\ WokenForBytes)

(* No reader waits at first. *)
LEMMA WakeInit == Init => WakeInv
<1>1. ASSUME Init PROVE StartsOnce /\ WokenForBytes
  BY <1>1 DEF Init, StartsOnce, WokenForBytes, Waits
<1>. QED BY <1>1, QueueInit, ThreadTypeInit DEF WakeInv

(* A read that has waited, while the transmission lasts, gets what it asked  *)
(* for.                                                                      *)
LEMMA WaitedRead ==
  ASSUME WakeInv, stop = "no", rpc = "again"
  PROVE  /\ want \in Pieces /\ want <= Used(ring) /\ want \in 0..Held(ring)
         /\ Used(ring) = Held(ring)
<1>1. RingInv(ring) /\ WokenForBytes
  BY DEF WakeInv, QueueInv
<1>2. Used(ring) = Held(ring) /\ Held(ring) \in Nat
  BY <1>1, ContentsRun
<1>. QED BY <1>1, <1>2, StreamAssumption DEF WokenForBytes, Pieces

(* Every step keeps what the wake-up rests on. *)
LEMMA WakeNext ==
  ASSUME WakeInv, EndNotRead, [Next]_vars
  PROVE  WakeInv'
<1>. DEFINE Kept == StartsOnce' /\ WokenForBytes'
<1>0. QueueInv /\ ThreadType /\ PacketInv /\ RingInv(ring)
  BY DEF WakeInv, QueueInv
<1>1. Pieces \subseteq Int /\ 0 \notin Pieces /\ waiting \in Int /\ want \in Int
  BY <1>0, StreamAssumption DEF Pieces, ThreadType
<1>2. Used(ring) = Held(ring) /\ Held(ring) \in Nat
  BY <1>0, ContentsRun
<1>3. QueueInv' /\ ThreadType'
  BY <1>0, <1>1, QueueNext, ThreadTypeNext
<1>4. Used(ring') = Held(ring') /\ Held(ring') \in Int
  BY <1>3, UsedIsHeld DEF QueueInv, RingInv, Placed, Ordered, Held, Wrap
<1>. SUFFICES ASSUME stop' = "no" PROVE Kept
  BY <1>3 DEF WakeInv
<1>01. stop = "no"
  <2>1. stop # "no" => stop' # "no"
    BY DEF Next, SetDemuxStreamHeader, SetPacket, Network, SetWriteMutexOwner, CreateThread,
           RaiseFlag, WriteData, RetakeOwner, Demuxer, ReadData, WaitsForWriter, WaitForWriter,
           ReadAfterWait, DemuxerReady, DemuxFails, LoopEnds, CodecFails, OnAbort, Stopper,
           ReleaseWriteMutexOwner, WaitForMe, vars
  <2>. QED BY <2>1
<1>02. StartsOnce /\ WokenForBytes
  BY <1>01 DEF WakeInv
<1>. USE DEF writer, reader, buffer, Waits
<1>5. ASSUME NEW n \in Pieces, SetDemuxStreamHeader(n)
      PROVE  Kept
  BY <1>0, <1>02, <1>1, <1>5 DEF SetDemuxStreamHeader, StartsOnce, WokenForBytes, PacketInv
<1>6. ASSUME NEW n \in Pieces, SetPacket(n)
      PROVE  Kept
  BY <1>0, <1>02, <1>6 DEF SetPacket, StartsOnce, WokenForBytes, Held
<1>7. ASSUME SetWriteMutexOwner \/ (\E ok \in BOOLEAN : CreateThread(ok)) \/ RaiseFlag
      PROVE  Kept
  <2>1. ASSUME SetWriteMutexOwner PROVE Kept
    BY <1>0, <1>02, <2>1 DEF SetWriteMutexOwner, StartsOnce, WokenForBytes, Held
  <2>2. ASSUME NEW ok \in BOOLEAN, CreateThread(ok) PROVE Kept
    BY <1>0, <1>02, <1>1, <2>2 DEF CreateThread, StartsOnce, WokenForBytes, Held, PacketInv
  <2>3. ASSUME RaiseFlag PROVE Kept
    BY <1>0, <1>02, <2>3 DEF RaiseFlag, StartsOnce, WokenForBytes, Held
  <2>. QED BY <1>7, <2>1, <2>2, <2>3
<1>8. ASSUME WriteData PROVE Kept
  <2>1. /\ wpc = "write" /\ ring' = Store(ring, packet) /\ UNCHANGED <<received, want, header>>
        /\ wpc' \in {"idle", "retake"}
    BY <1>8 DEF WriteData
  <2>2. /\ packet \in Pieces /\ ring.readPos < ring.len /\ ring.totalWrite + packet <= MaxBytes
        /\ header' \in 1..MaxPiece
    BY <2>1, <1>0, StreamAssumption DEF PacketInv
  <2>3. Held(ring') = Held(ring) + packet
    BY <1>0, <2>1, <2>2, StoreStep
  <2>4. packet \in Int /\ packet > 0
    BY <2>2, StreamAssumption DEF Pieces
  <2>5. StartsOnce'
    BY <1>0, <1>02, <1>8 DEF WriteData, StartsOnce
  <2>6. CASE Waits \/ rpc = "again"
    BY <1>0, <1>02, <1>1, <1>2, <1>4, <1>8, <2>3, <2>4, <2>5, <2>6
       DEF WriteData, StartsOnce, WokenForBytes
  <2>7. CASE ~(Waits \/ rpc = "again")
    BY <1>0, <1>02, <1>1, <1>8, <2>5, <2>7 DEF WriteData, StartsOnce, WokenForBytes
  <2>. QED BY <2>6, <2>7
<1>9. ASSUME RetakeOwner PROVE Kept
  BY <1>0, <1>02, <1>9 DEF RetakeOwner, StartsOnce, WokenForBytes, Held
<1>10. ASSUME NEW n \in Pieces, ReadData(n)
       PROVE  Kept
  <2>1. CASE n > Used(ring)
    BY <1>0, <1>02, <1>1, <1>2, <1>10, <2>1
       DEF ReadData, LockFree, StartsOnce, WokenForBytes, Held
  <2>2. CASE ~(n > Used(ring))
    BY <1>0, <1>02, <1>1, <1>10, <2>2 DEF ReadData, Take, LockFree, StartsOnce, WokenForBytes
  <2>. QED BY <2>1, <2>2
<1>11. ASSUME WaitsForWriter \/ WaitForWriter PROVE Kept
  BY <1>0, <1>02, <1>1, <1>2, <1>11
     DEF WaitsForWriter, WaitForWriter, StartsOnce, WokenForBytes, Held
<1>12. ASSUME ReadAfterWait PROVE Kept
  <2>1. want <= Used(ring) /\ want # 0
    BY <1>01, <1>1, <1>12, WaitedRead DEF ReadAfterWait
  <2>2. Take(want)
    BY <1>1, <1>2, <1>12, <2>1 DEF ReadAfterWait
  <2>. QED BY <1>0, <1>02, <1>12, <2>1, <2>2
           DEF ReadAfterWait, Take, LockFree, StartsOnce, WokenForBytes
<1>13. ASSUME DemuxerReady \/ CodecFails \/ DemuxFails \/ LoopEnds PROVE Kept
  <2>1. ASSUME DemuxerReady \/ CodecFails PROVE Kept
    BY <1>0, <1>02, <2>1 DEF DemuxerReady, CodecFails, StartsOnce, WokenForBytes, Held
  <2>2. ASSUME DemuxFails PROVE Kept
    BY <1>0, <1>02, <2>2 DEF DemuxFails, StartsOnce, WokenForBytes, Held, ThreadType
  <2>3. ASSUME LoopEnds PROVE Kept
    BY <1>0, <1>02, <2>3 DEF LoopEnds, StartsOnce, WokenForBytes, Held
  <2>. QED BY <1>13, <2>1, <2>2, <2>3
<1>14. ASSUME OnAbort \/ ReleaseWriteMutexOwner \/ WaitForMe PROVE Kept
  BY <1>01, <1>14 DEF OnAbort, ReleaseWriteMutexOwner, WaitForMe
<1>15. ASSUME UNCHANGED vars PROVE Kept
  BY <1>0, <1>02, <1>15 DEF vars, StartsOnce, WokenForBytes, Held
<1>. QED BY <1>5, <1>6, <1>7, <1>8, <1>9, <1>10, <1>11, <1>12, <1>13, <1>14, <1>15
         DEF Next, Network, Demuxer, Stopper

(* When no packet comes while the read position is at the buffer's end, what *)
(* the writer is told of the reader is true, in all the other cases.         *)
THEOREM ReaderIsKnown == EndNotRead => (Spec => []ReaderOnRecord)
<1>. SUFFICES ASSUME EndNotRead PROVE Spec => []ReaderOnRecord
  OBVIOUS
<1>1. WakeInv /\ [Next]_vars => WakeInv'
  BY WakeNext
<1>2. WakeInv => ReaderOnRecord
  <2>1. ASSUME WakeInv, stop = "no" PROVE ReaderOnRecord
    <3>1. Used(ring) = Held(ring) /\ Held(ring) \in Nat
      BY <2>1, ContentsRun DEF WakeInv, QueueInv
    <3>. QED BY <2>1, <3>1 DEF WakeInv, WokenForBytes, Waits, ReaderOnRecord
  <2>. QED BY <2>1 DEF ReaderOnRecord
<1>. QED BY <1>1, <1>2, WakeInit, PTL DEF Spec

(* When no packet comes while the read position is at the buffer's end, a    *)
(* read that had to wait gets all it asked for while the transmission lasts, *)
(* in all the other cases.                                                   *)
THEOREM ShortReadsAtStop == EndNotRead => (Spec => ShortReadMeansStop)
<1>. SUFFICES ASSUME EndNotRead PROVE Spec => ShortReadMeansStop
  OBVIOUS
<1>. DEFINE Full == rpc = "again" /\ rpc' # "again"
                      => stop # "no" \/ Len(received') = Len(received) + want
<1>1. WakeInv /\ [Next]_vars => WakeInv'
  BY WakeNext
<1>2. WakeInv /\ [Next]_vars => [Full]_vars
  <2>. SUFFICES ASSUME WakeInv, Next, rpc = "again", rpc' # "again", stop = "no"
                PROVE  Len(received') = Len(received) + want
    OBVIOUS
  <2>1. ReadAfterWait
    BY DEF Next, SetDemuxStreamHeader, SetPacket, Network, SetWriteMutexOwner, CreateThread,
           RaiseFlag, WriteData, RetakeOwner, Demuxer, ReadData, WaitsForWriter, WaitForWriter,
           DemuxerReady, DemuxFails, LoopEnds, CodecFails, OnAbort, Stopper,
           ReleaseWriteMutexOwner, WaitForMe, WakeInv, StartsOnce, reader, writer, buffer
  <2>2. want \in Pieces /\ want <= Used(ring) /\ want \in 0..Held(ring)
    BY WaitedRead
  <2>3. Take(want) /\ want' = want /\ UNCHANGED <<wpc, packet, header>>
    <3>1. want \in Int /\ Used(ring) \in Int
      BY <2>2, ContentsRun, StreamAssumption DEF WakeInv, QueueInv, Pieces
    <3>2. (IF want > Used(ring) THEN Used(ring) ELSE want) = want
      BY <2>2, <3>1
    <3>. QED BY <2>1, <3>2 DEF ReadAfterWait, writer
  <2>4. QueueInv /\ want' \in 0..MaxPiece /\ EndNotRead
    BY <2>3 DEF WakeInv, ThreadType
  <2>5. QueueInv' /\ ring'.totalRead = ring.totalRead + want
    BY <2>2, <2>3, <2>4, TakeStep
  <2>6. received = Run(0, ring.totalRead) /\ received' = Run(0, ring'.totalRead)
    BY <2>4, <2>5 DEF QueueInv, Given, Run
  <2>7. ring.totalRead \in Nat /\ want \in Nat
    BY <2>2, <2>4, ContentsRun, StreamAssumption DEF QueueInv, Pieces
  <2>8. Len(received) = ring.totalRead
    BY <2>6, <2>7, RunLength
  <2>9. Len(received') = ring.totalRead + want
    <3>1. ring.totalRead + want \in Nat /\ received' = Run(0, ring.totalRead + want)
      BY <2>5, <2>6, <2>7
    <3>. QED BY <3>1, RunLength
  <2>. QED BY <2>8, <2>9
<1>. QED BY <1>1, <1>2, WakeInit, PTL DEF Spec, ShortReadMeansStop
=============================================================================
