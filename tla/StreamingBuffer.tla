-------------------------- MODULE StreamingBuffer --------------------------
(***************************************************************************)
(* The bytes of a multiplexed stream on their way from the network to the  *)
(* demultiplexer: a circular buffer that grows instead of filling up, and  *)
(* the threads around it.  The network thread hands over packets           *)
(* (CTransmission::SetPacket), starting the demultiplexer's thread with    *)
(* the first; that thread reads, and waits on m_WriteOwned for bytes that  *)
(* are not there yet; the jitter buffer's abort stops it.  A section of    *)
(* code under m_StreamBufSemaph is one action.  The codec library, which   *)
(* calls ReadASF, is external: it reads any number of bytes at any time.   *)
(***************************************************************************)
EXTENDS Integers, Sequences

CONSTANTS
  MaxBytes,   \* bound: bytes written in all
  MaxPiece,   \* bound: bytes of a packet, and of a read
  Cases       \* which of the cases below are let in

Case == {"endread",  \* packets come after a read that ended exactly at the buffer's end
         "pulse",    \* the writer may take m_WriteOwned back before a reader asleep on it has it
         "fails",    \* the thread cannot be created, or the codec library fails in the stream
         "endall"}   \* the transmission may be stopped in the midst of a SetPacket

ASSUME StreamAssumption ==
  MaxBytes \in Nat \ {0} /\ MaxPiece \in 1..MaxBytes /\ Cases \subseteq Case

Cells  == 0..(MaxBytes - 1)
Pieces == 1..MaxPiece

VARIABLES
  ring,         \* m_uBufLen, m_uWritePos, m_uReadPos, m_uTotalWrite, m_uTotalRead, m_pBuf
  waiting,      \* m_uReadWaitingBytes while m_bReadWaiting, else zero
  ownedFree,    \* m_WriteOwned can be taken
  header,       \* bytes of the stream's header, zero before there is one
  run,          \* m_bRunDemuxThread
  wpc, packet,  \* network thread: where it is, bytes of the packet in hand
  rpc, want,    \* demultiplexer's thread: where it is, bytes it has asked for
  ready,        \* Demuxer::Init has succeeded
  stop,         \* StopDemuxThread: where it is
  received      \* the bytes ReadData has given out

buffer == <<ring, waiting>>
writer == <<wpc, packet>>
reader == <<rpc, want, ready, received>>
vars   == <<buffer, ownedFree, header, run, writer, reader, stop>>

(* Every member has its type; the positions stay within the buffer. *)
TypeOK ==
  /\ ring \in [len : 0..MaxBytes, writePos : 0..MaxBytes, readPos : 0..MaxBytes,
               totalWrite : 0..MaxBytes, totalRead : 0..MaxBytes,
               cell : [Cells -> 0..MaxBytes]]
  /\ ring.writePos <= ring.len /\ ring.readPos <= ring.len
  /\ waiting \in 0..MaxPiece /\ want \in 0..MaxPiece /\ packet \in 0..MaxPiece
  /\ ownedFree \in BOOLEAN /\ run \in BOOLEAN /\ ready \in BOOLEAN
  /\ header \in 0..MaxPiece
  /\ wpc \in {"idle", "start", "create", "flag", "write", "retake"}
  /\ rpc \in {"none", "idle", "announced", "asleep", "again", "fail", "done"}
  /\ stop \in {"no", "release", "join", "done"}
  /\ received \in Seq(0..MaxBytes)

Init ==
  /\ ring = [len |-> 0, writePos |-> 0, readPos |-> 0, totalWrite |-> 0,
             totalRead |-> 0, cell |-> [c \in Cells |-> 0]]
  /\ waiting = 0 /\ want = 0 /\ packet = 0 /\ ownedFree = TRUE /\ header = 0
  /\ run = FALSE /\ ready = FALSE
  /\ wpc = "idle" /\ rpc = "none" /\ stop = "no" /\ received = <<>>

-----------------------------------------------------------------------------
(* The circular buffer.  Bytes are numbered in the order they are written;   *)
(* zero is what memory holds before that.                                    *)

Used(r) ==
  IF r.readPos < r.writePos THEN r.writePos - r.readPos
  ELSE IF r.readPos > r.writePos THEN r.len - r.readPos + r.writePos
  ELSE IF r.totalWrite = r.totalRead THEN 0 ELSE r.len

Free(r) ==
  IF r.readPos < r.writePos THEN r.len - r.writePos + r.readPos
  ELSE IF r.readPos > r.writePos THEN r.readPos - r.writePos
  ELSE IF r.totalWrite = r.totalRead THEN r.len ELSE 0

(* A position past the end goes on at the start. *)
Wrap(r, p) == IF p < r.len THEN p ELSE p - r.len

(* What is in it, from m_uReadPos on. *)
Contents(r) == [i \in 1..Used(r) |-> r.cell[Wrap(r, r.readPos + i - 1)]]

(* Mutant: the bytes are copied as they lie, without unrolling. *)
SetBufferAsIs(r, n) ==
  [r EXCEPT !.len = n,
            !.writePos = IF Used(r) > 0 THEN Used(r) ELSE @,
            !.readPos  = IF Used(r) > 0 THEN 0 ELSE @,
            !.cell = [c \in Cells |-> IF c < Used(r) THEN r.cell[c] ELSE 0]]

(* SetBuffer() to more room: what is there moves to the front.  With nothing *)
(* there the positions stay where they are.                                  *)
SetBuffer(r, n) ==
  [r EXCEPT !.len = n,
            !.writePos = IF Used(r) > 0 THEN Used(r) ELSE @,
            !.readPos  = IF Used(r) > 0 THEN 0 ELSE @,
            !.cell = [c \in Cells |-> IF c < Used(r) THEN Contents(r)[c + 1] ELSE 0]]

(* How far behind m_uWritePos a cell lies. *)
Behind(r, c) == IF c < r.writePos THEN c - r.writePos + r.len ELSE c - r.writePos

(* Write(): a write that reaches the end of the buffer goes on at its start. *)
Write(r, n) ==
  [r EXCEPT !.writePos = Wrap(r, @ + n),
            !.totalWrite = @ + n,
            !.cell = [c \in Cells |-> IF c < r.len /\ Behind(r, c) < n
                                       THEN r.totalWrite + 1 + Behind(r, c) ELSE @[c]]]

(* WriteData() up to the waiting reader: room is made when there is too      *)
(* little of it.                                                             *)
Store(r, n) ==
  Write(IF n > Free(r) THEN SetBuffer(r, r.len + n - Free(r)) ELSE r, n)

(* Read(): a read that ends at the end of the buffer leaves m_uReadPos       *)
(* there.                                                                    *)
Read(r, n) ==
  [r EXCEPT !.readPos = IF n <= r.len - @ THEN @ + n ELSE n - (r.len - @),
            !.totalRead = @ + n]

-----------------------------------------------------------------------------
(* The network thread.  It holds m_StreamBufSemaph while it waits to have    *)
(* m_WriteOwned back.                                                        *)

LockFree == wpc # "retake"

(* The header comes with the transmission, before there is a thread. *)
SetDemuxStreamHeader(n) ==
  /\ header = 0 /\ header' = n
  /\ ring' = Store(ring, n)
  /\ UNCHANGED <<waiting, ownedFree, run, writer, reader, stop>>

(* CTransmission::SetPacket(). *)
SetPacket(n) ==
  /\ wpc = "idle" /\ header > 0 /\ stop = "no"
  /\ "endread" \in Cases \/ ring.readPos < ring.len
  /\ ring.totalWrite + n <= MaxBytes
  /\ packet' = n
  /\ wpc' = IF run THEN "write" ELSE "start"
  /\ UNCHANGED <<buffer, ownedFree, header, run, reader, stop>>

(* StartDemuxThread(): m_WriteOwned, the thread, then its flag. *)
SetWriteMutexOwner ==
  /\ wpc = "start" /\ ownedFree
  /\ ownedFree' = FALSE /\ wpc' = "create"
  /\ UNCHANGED <<buffer, header, run, packet, reader, stop>>

CreateThread(ok) ==
  /\ wpc = "create"
  /\ IF ok THEN rpc' = "idle" /\ ready' = FALSE /\ wpc' = "flag"
           ELSE "fails" \in Cases /\ wpc' = "idle" /\ UNCHANGED <<rpc, ready>>
  /\ UNCHANGED <<buffer, ownedFree, header, run, packet, want, received, stop>>

RaiseFlag ==
  /\ wpc = "flag" /\ run' = TRUE /\ wpc' = "write"
  /\ UNCHANGED <<buffer, ownedFree, header, packet, reader, stop>>

(* Mutants: any byte wakes the reader; the reader is never woken. *)
WriteDataWakesEarly ==
  /\ wpc = "write" /\ ring' = Store(ring, packet)
  /\ IF waiting > 0
       THEN waiting' = 0 /\ ownedFree' = TRUE /\ wpc' = "retake"
       ELSE wpc' = "idle" /\ UNCHANGED <<waiting, ownedFree>>
  /\ UNCHANGED <<header, run, packet, reader, stop>>

WriteDataWakesLate ==
  /\ wpc = "write" /\ ring' = Store(ring, packet)
  /\ IF waiting > 0 /\ Used(ring') > waiting
       THEN waiting' = 0 /\ ownedFree' = TRUE /\ wpc' = "retake"
       ELSE wpc' = "idle" /\ UNCHANGED <<waiting, ownedFree>>
  /\ UNCHANGED <<header, run, packet, reader, stop>>

(* StreamingBuffer::WriteData(): a reader whose bytes are there now is woken *)
(* with m_WriteOwned.                                                        *)
WriteData ==
  /\ wpc = "write" /\ ring' = Store(ring, packet)
  /\ IF waiting > 0 /\ Used(ring') >= waiting
       THEN waiting' = 0 /\ ownedFree' = TRUE /\ wpc' = "retake"
       ELSE wpc' = "idle" /\ UNCHANGED <<waiting, ownedFree>>
  /\ UNCHANGED <<header, run, packet, reader, stop>>

(* It has m_WriteOwned back: from a reader who was asleep on it, or at once  *)
(* when the reader is still on its way there, who then sleeps on beside its  *)
(* bytes.                                                                    *)
RetakeOwner ==
  /\ wpc = "retake" /\ ownedFree
  /\ "pulse" \in Cases \/ rpc # "asleep"
  /\ ownedFree' = FALSE /\ wpc' = "idle"
  /\ UNCHANGED <<buffer, header, run, packet, reader, stop>>

-----------------------------------------------------------------------------
(* The demultiplexer's thread. *)

(* Out of ReadData with k bytes; with none ReadASF returns -1. *)
Take(k) ==
  /\ ring' = IF k = 0 THEN ring ELSE Read(ring, k)
  /\ "endread" \in Cases \/ ring'.readPos < ring.len \/ wpc = "idle"
  /\ received' = received \o SubSeq(Contents(ring), 1, k)
  /\ rpc' = IF k = 0 THEN "fail" ELSE "idle"

(* Mutant: m_bReadWaiting is not raised. *)
ReadDataUntold(n) ==
  /\ rpc = "idle" /\ LockFree
  /\ want' = n
  /\ IF n > Used(ring)
       THEN rpc' = "announced" /\ UNCHANGED <<waiting, ring, received>>
       ELSE Take(n) /\ UNCHANGED waiting
  /\ UNCHANGED <<ownedFree, header, run, writer, ready, stop>>

(* StreamingBuffer::ReadData(): with too few bytes the reader says how many  *)
(* it waits for and gives the lock back.  Reads are of a byte at least: for  *)
(* none ReadData() returns with the lock held.                               *)
ReadData(n) ==
  /\ rpc = "idle" /\ LockFree
  /\ want' = n
  /\ IF n > Used(ring)
       THEN waiting' = n /\ rpc' = "announced" /\ UNCHANGED <<ring, received>>
       ELSE Take(n) /\ UNCHANGED waiting
  /\ UNCHANGED <<ownedFree, header, run, writer, ready, stop>>

(* It comes to m_WriteOwned.Wait(), and meanwhile a packet may have come.    *)
WaitsForWriter ==
  /\ rpc = "announced" /\ rpc' = "asleep"
  /\ UNCHANGED <<buffer, ownedFree, header, run, writer, want, ready, received, stop>>

(* Mutant: it is not given back. *)
WaitForWriterKeeps ==
  /\ rpc = "asleep" /\ ownedFree
  /\ rpc' = "again" /\ ownedFree' = FALSE
  /\ UNCHANGED <<buffer, header, run, writer, want, ready, received, stop>>

(* Through m_WriteOwned: taken and given back. *)
WaitForWriter ==
  /\ rpc = "asleep" /\ ownedFree
  /\ rpc' = "again"
  /\ UNCHANGED <<buffer, ownedFree, header, run, writer, want, ready, received, stop>>

(* The lock again, and whatever is there by now. *)
ReadAfterWait ==
  /\ rpc = "again" /\ LockFree
  /\ Take(IF want > Used(ring) THEN Used(ring) ELSE want)
  /\ UNCHANGED <<waiting, ownedFree, header, run, writer, want, ready, stop>>

(* Demuxer::Init succeeds; a read error, or a stream it does not know, makes *)
(* it fail.                                                                  *)
DemuxerReady ==
  /\ rpc = "idle" /\ ~ready /\ ready' = TRUE
  /\ UNCHANGED <<buffer, ownedFree, header, run, writer, rpc, want, received, stop>>

CodecFails ==
  /\ rpc = "idle" /\ (ready => "fails" \in Cases)
  /\ rpc' = "fail"
  /\ UNCHANGED <<buffer, ownedFree, header, run, writer, want, ready, received, stop>>

(* Out of _DemuxStream: a thread whose Init failed leaves the flag up. *)
DemuxFails ==
  /\ rpc = "fail" /\ rpc' = "done"
  /\ run' = (run /\ ~ready)
  /\ UNCHANGED <<buffer, ownedFree, header, writer, want, ready, received, stop>>

(* A frame is done, which takes more than the header; the flag is down. *)
LoopEnds ==
  /\ rpc = "idle" /\ ready /\ ring.totalRead > header /\ ~run
  /\ rpc' = "done"
  /\ UNCHANGED <<buffer, ownedFree, header, run, writer, want, ready, received, stop>>

-----------------------------------------------------------------------------
(* OnAbort() and StopDemuxThread(), on the thread that ends the              *)
(* transmission.  EndTransmission holds m_MediaSemaph, and so does a         *)
(* SetPacket under way; EndAllTransmissions does not.                        *)
OnAbort ==
  /\ stop = "no" /\ header > 0
  /\ wpc = "idle" \/ "endall" \in Cases
  /\ stop' = IF run THEN "release" ELSE "done"
  /\ run' = FALSE
  /\ UNCHANGED <<buffer, ownedFree, header, writer, reader>>

(* Mutant: m_WriteOwned is kept. *)
ReleaseNothing ==
  /\ stop = "release" /\ stop' = "join"
  /\ UNCHANGED <<buffer, ownedFree, header, run, writer, reader>>

ReleaseWriteMutexOwner ==
  /\ stop = "release" /\ stop' = "join"
  /\ ownedFree' = TRUE
  /\ UNCHANGED <<buffer, header, run, writer, reader>>

WaitForMe ==
  /\ stop = "join" /\ rpc = "done" /\ stop' = "done"
  /\ UNCHANGED <<buffer, ownedFree, header, run, writer, reader>>

-----------------------------------------------------------------------------
Network == SetWriteMutexOwner \/ (\E ok \in BOOLEAN : CreateThread(ok)) \/ RaiseFlag
           \/ WriteData \/ RetakeOwner

Demuxer == (\E n \in Pieces : ReadData(n)) \/ WaitsForWriter \/ WaitForWriter
           \/ ReadAfterWait \/ DemuxerReady \/ DemuxFails \/ LoopEnds

Stopper == ReleaseWriteMutexOwner \/ WaitForMe

Next == \/ \E n \in Pieces : SetDemuxStreamHeader(n) \/ SetPacket(n)
        \/ Network \/ Demuxer \/ CodecFails \/ OnAbort \/ Stopper

Spec == Init /\ [][Next]_vars

(* The threads run on; packets, failures and the stop come when they come.   *)
FairSpec == Spec /\ WF_vars(Network) /\ WF_vars(Demuxer) /\ WF_vars(Stopper)

-----------------------------------------------------------------------------
(* Properties. *)

(* Growing, wrapping around and running empty, the buffer is a plain queue:  *)
(* the demultiplexer gets every byte once and in order.                      *)
Promise == INSTANCE ByteQueue WITH queue <- Contents(ring), delivered <- received

KeepsOrder == Promise!Spec

(* What the writer is told of the reader is true, though the reader acts on  *)
(* it after the lock is given back: while the transmission lasts, one that   *)
(* has yet to go through m_WriteOwned is either on record with the bytes it  *)
(* misses, or off it and its bytes are there; nobody else is on record.      *)
ReaderOnRecord ==
  stop = "no" =>
    /\ waiting > 0 => rpc \in {"announced", "asleep"}
    /\ rpc \in {"announced", "asleep"} =>
         \/ waiting = want /\ Used(ring) < want
         \/ waiting = 0 /\ Used(ring) >= want

(* A reader asleep on m_WriteOwned goes on when the bytes it misses come.    *)
Missing == want - Used(ring)

SleeperWakes ==
  (rpc = "asleep" /\ wpc = "write" /\ Missing \in 1..packet) ~> rpc = "again"

(* A reader sleeps on m_WriteOwned, which the writer has, only for want of   *)
(* bytes.                                                                    *)
NoReaderForgotten ==
  (stop = "no" /\ rpc = "asleep" /\ ~ownedFree) => Used(ring) < want

(* While the transmission lasts, ReadData gives what it was asked for: the   *)
(* demultiplexer, to which a short read is the end of the stream, sees that  *)
(* only when it is stopped.                                                  *)
ShortReadMeansStop ==
  [][rpc = "again" /\ rpc' # "again"
       => stop # "no" \/ Len(received') = Len(received) + want]_vars

(* A packet handed over is taken: the network thread, which holds            *)
(* m_MediaSemaph meanwhile, always comes back.                               *)
PacketTaken == wpc # "idle" ~> wpc = "idle"

(* StopDemuxThread, which waits without limit, comes to its end, wherever it *)
(* finds the demultiplexer.                                                  *)
StopEnds == stop = "release" ~> stop = "done"
=============================================================================
