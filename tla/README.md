# MultiTV: specifications and proofs

TLA+ modules of parts of MultiTV, the client of a multi-user television and
conference system: a kernel of media sessions around an IRM server, a file
transfer engine, a media player, and their user interfaces. This file says what
the program consists of, which parts are modelled and how, what the TLC runs
check, what TLAPS proves, and what is left.

Paths are relative to `src/iptv_root/`. `XFileTransfer.cpp` stands for
`iptv_xfiletransfer/xfiletransfer/XFileTransfer.cpp`, `FileTransfer.cpp`,
`Movie.cpp`, `ApplicationSharing.cpp` and `Poll.cpp` for the files of that name
in `iptv_kernel/src/`, `IPTVClientApp.cpp`, `Transmission.cpp`,
`TransmissionManager.cpp` and `TimeoutRegister.cpp` for those in
`iptv_client/src/iptv_client/`.

Contents: 1 the system, 2 modules, 3 runs, 4 assumptions about time and
fairness, 5 where the code differs from what it says, 6 proofs, 7 what is not
modelled, 8 plan.

## 1. The system

### 1.1 Parts and how they interact

    user interface (skin_lite)
        |  events                         ^ events
    client application (iptv_client)      |
        |  calls                          |
    kernel (iptv_kernel): IrmQuery, one media module per kind of session
        |            |                  |              |
        |       file transfer        player         application sharing,
        |       engine               (iptv_media3)  whiteboard, capture
        |       (iptv_xfiletransfer)    |
    server stub, chat library       byte queue, demultiplexer, decoders
        |                               |
    IRM server  <---- messages     media server  <---- packets

Everything meets in threads. The *IRM thread* delivers the server's messages to
the kernel's modules one by one. The *user interface thread* begins and cancels
sessions, at any moment, and handles the events that the other threads post to
it, in order. The file transfer engine has a *transfer thread* of its
own, which reports back by events. The media network has a *receive thread*
that hands packets to the player, whose transmissions each have threads to
demultiplex, read, buffer, play and write. A movie that is sent has a *sending
thread*, an application that is received a *receive thread*. Most members are shared between two
or three of these threads and only part of the accesses are under a lock.

### 1.2 Inventory

| part | state | operations | hard behaviour | correct when |
|---|---|---|---|---|
| engine, receiving (`XFileTransfer.cpp`) | `m_uCurSeq`, `m_nRcvPkts`, `m_vPktLost` and its cursor, flags, the file | BeginReceive, RunRX, ReceivePkt, SaveRcvPkt, NotifyEOF, Reset | three threads, packets lost, repeated and reordered, disk and socket failures, a reset at any step | a success is the whole file; a missing packet is known to be missing; a reset ends |
| engine, sending (`XFileTransfer.cpp`) | `m_uCurSeq`, `m_vPktLost`, `m_flEOF`, `m_tSndEnd`, flags | BeginSend, RunTX, SendPkt, PktRequest, SetSndSeq, SndPause, SndResume, Reset | requests while others are served, an end decided by a clock that is read without the lock | all is sent before the end is announced, each request is served, the thread ends when and only when nothing is left |
| vector (`iptv_shared/shared/VectorT.h`) | items, one cursor for all readers | insert, search, remove, first, next | a removal under a reader's cursor | no number twice, removal takes one item |
| sender and receiver over the network | datagrams and messages under way | send, lose, request, announce | two ways of delivery that overtake each other | nobody gives up while the other still needs him |
| file transfer session (`FileTransfer.cpp`, `IPTVMediaModule.cpp`) | `m_state`, two media ids, a channel, the engine | BeginTransmission, Cancel..., six handlers of server messages, six of engine events | late answers, cancels inside a handler, failures half way | session, engine and server agree on which transfer exists |
| byte queue (`iptv_media_util/streamingBuffer.cpp`), with `CTransmission` and the demultiplexer's thread around it | a circular buffer, two semaphores, who waits | WriteData, ReadData, Set/ReleaseWriteMutexOwner, Start/StopDemuxThread | growth, wrap-around, a wake-up by handing a semaphore over, a thread that ends by itself | bytes in order, nobody asleep beside his bytes, the stop comes to its end |
| player (`CTransmission`, `CMedia`, `CVideo`, `CAudio`, `IMediaStreaming`) | run flags, semaphores of one unit, queues of packets and frames | start and stop of six threads, play, write, buffer, rebuffer | pulses (a unit given and taken back), joins without limit, a queue that fills up | the stop comes to its end and leaves no thread, nobody sleeps beside his work |
| packet buffers (`CBufferId`, `CBufferMedia`, `COutputBuffer`) | ordered packets, frames | SetPacket, GetPacket, Abort | order by sequence number, limits | frames in order, each once |
| media of others in the client (`IPTVClientApp.cpp`, `Transmission.cpp`, `TransmissionManager.cpp`, `TimeoutRegister.cpp`, `MediaVideoSource.cpp`) | transmissions with alive flags, armed timeouts, posted events | alive, timeout, new transmission, user leaves, conference ends | reports and expiries posted and not yet handled, pointers inside events | what plays is shown, what is silent is not, no pointer outlives its transmission |
| movie playlist (`PlaylistFrame.cpp`, `Movie.cpp`, `SimposiumNetwork.cpp`, `ASFFileSourceStream.cpp`) | the item that plays, a timer, the session, a sending thread, a header kept between transmissions | start, finish, cancel, end of a movie, timer, stop | the end of a movie travels through four threads and the server; a button meets it on the way | each movie is sent whole unless the user stops it, and the list goes on |
| application sharing (`ApplicationSharing.cpp`, `iptv_appsharing/src`) | `m_state`, the receive object, its mutex, its thread, its network buffers | notice, request, answer, stop, leave; read, draw, hand on a frame | two threads that stop a third, a mutex held while waiting for it | no frame after the end, no buffer deleted under the thread, a stop ends |
| polls (`Poll.cpp`, `IPTVClientApp.cpp`, `PollInfo.cpp`) | `m_pollData`, one place for all polls and statistics; `m_activePoll` | send, collect, show, answer, count, statistics | filled by one thread message by message, read by another; an answer names no poll | each vote counted once, a poll shown as it was sent |
| media network (`MediaNetwork.cpp`) | socket, receive thread | connect, receive, stop | stop against a blocked read | the thread ends |
| connection to the server (`IrmQuery.cpp`, `IrmUser.cpp`, `IrmMode.cpp`) | log-in state, channels, users | log-in, join, leave, and the server's messages | modules told before the object's own lock is taken | the channel list is the server's |
| live, conference and whiteboard sessions | `m_state`, media id | receive, send, reconnect, stop | as the file transfer session | as the file transfer session |
| chat library, server stub | one connection, pending commands | connect, send, receive | text protocol | a proxy |
| encoders, sound, ASF, capture, drawing, windows, codecs, tools | devices, formats | library calls | data | out of reach here |

`PROJECT.json` lists each part with its files and status, and under `hazards`
the places where each could go wrong, with the properties that would show it.

## 2. Modules

| module | models | uses |
|---|---|---|
| `VectorT` | the vector template as the engine uses it (operators only) | |
| `FileReception` | abstract: what a reception promises its user | |
| `XFTReceiver` | engine, receiving half | `VectorT`, instance of `FileReception` |
| `XFTSender` | engine, sending half | `VectorT` |
| `FileTransferNet` | one sender and one receiver, datagrams and messages between them | instances of `XFTSender`, `XFTReceiver` |
| `FileTransferSession` | the kernel's session, its threads, the server | |
| `ByteQueue` | abstract: a first-in first-out queue | |
| `StreamingBuffer` | the byte queue and the threads around it | instance of `ByteQueue` |
| `MediaPlayer` | the threads that play one received transmission | |
| `LiveTransmissions` | what the client shows of the media of others, its timeouts and events | |
| `MoviePlaylist` | the playlist window, the movie session, the sending thread, the server | |
| `AppSharing` | the reception of a shared application, from the server to the client | |
| `Polls` | polls between the clients of a channel | |
| `XFTReceiver_proofs` | type correctness, safety and refinement of the receiver, lemmas about the vector | `XFTReceiver` |
| `XFTSender_proofs` | type correctness and safety of the sender | `XFTSender` |
| `FileTransfer_proofs` | safety of the session; of the network, which implements both halves of the engine | `FileTransferSession`, `FileTransferNet`, instances of `XFTSender_proofs`, `XFTReceiver_proofs` |
| `StreamingBuffer_proofs` | type correctness, refinement and wake-up of the byte queue | `StreamingBuffer` |
| `MediaPlayer_proofs` | type correctness and safety of the player | `MediaPlayer` |
| `LiveTransmissions_proofs` | type correctness and safety of the live transmissions | `LiveTransmissions` |
| `AppSharing_proofs` | type correctness and safety of the reception of an application | `AppSharing` |
| `Channel_proofs` | safety of the playlist and of the polls | `MoviePlaylist`, `Polls` |

Each specification takes its small constants directly from the `.cfg` files;
no definition is replaced there. Definitions named as mutants (`...KeepsCount`,
`...Early`) are altered forms of the one that follows them; the specifications
never use them. They show that a property notices the fault.

Several modules have a constant `Cases` (`PollCases` in `Polls`): a set of the situations that the code
admits and that break one of the module's properties. A passing run has none of
them, a configuration of section 5 lets one in, and a theorem names those it
leaves out. So each property is stated together with what it depends on.

### 2.1 Granularity

A section of code under a lock is one action. So is each access to shared
members that is made outside the lock, because these are what interleaves. A
thread's place in its code is a program counter (`tpc` for the engine's thread,
`pc[c]` for a controller, `wpc` and `rpc` for the two ends of the byte queue).
Payloads are reduced to which packet they belong to (`block[k]` holds the number
of the packet whose data lies there, zero for a blank block); bytes of a stream
are numbered in the order they are written.

### 2.2 XFTReceiver

Variables carry the members' names (`curSeq` is `m_uCurSeq`). Three threads:
the transfer thread (`ThreadTop`, `ReadFails`, `Reconnect`, the `Save...`
actions, `CompareSeq`, `AdvanceSeq`, `CheckComplete`), the IRM thread
(`BeginReceive`, `RunRX`, `NotifyEOF` and its request loop, Reset) and the user
interface thread (Reset). `SaveRcvPkt` is split where it gives the lock back:
a packet is written and counted under the lock, compared with `m_uCurSeq`
outside it, and `m_uCurSeq` is assigned outside it. A gap writes blank blocks
in one section and the packet in the next. NotifyEOF fills the vector under the
lock and then asks for one run of packets after another, giving the lock up in
between while the cursor stays in the vector. Reset is five steps: test of
`m_bResetting`, its set with `ResetRcv`, the test for a thread, the wait for it,
and the clearing under the lock.

The constructor does not initialise `m_uCurSeq` and `m_uTotPkts`; `Init` lets
them have any value, because NotifyEOF can read them before BeginReceive.

Constants choose the environment: `PtPModes` the modes a reception may be begun
in (BeginReceive chooses, `ptp` is what it was told), `Udp` the transport,
`EofPhases` when the end of file message may reach the object, `Stray` whether
datagrams of another transfer may reach the port, `AtomicReset` whether a second
thread may come between the test and the set of `m_bResetting`.

### 2.3 XFTSender

The transfer thread sends each packet once (`SendPkt`, `CheckLast`), announces
the end (`AnnounceEof`), starts the clock (`ArmFirst`), then serves requests
(`CheckLost`, `ArmAgain`) until the clock has run out (`TestEnd`, `JudgeEnd`).
`m_tSndEnd` has three values: zero, a time ahead, a time gone by; `Expire` takes
it from the second to the third. `PktRequest` corrects the interval asked for as
the code does and appends what is not on the vector. `SetSndSeq`, `SndPause` and
`SndResume` are calls that the library offers and the kernel never makes
(`ApiCalls`); with them, progress is claimed of a host that comes to rest and
has not paused the transmission for good (`HostRests`). `ReqPhases` says whether a request may fall into one of the two
windows in which `m_tSndEnd` is used without the lock; `Overlap` whether
BeginSend may run inside the user's Reset.

### 2.4 FileTransferNet

Instances of both halves with their own variables (`s...`, `r...`), joined by
`air` (datagrams, a set: they are lost by `Lose` and overtake each other),
`toSnd` and `toRcv` (messages through the IRM server, which keeps their order
and loses none). Duplicates come from packets sent again. The events of the
engine that become messages in the session (`XFTPC_EOF`, `XFTPC_PKTREQ`) are
parts of the actions that raise them. The names of the specification begin with
`Net` (`NetInit`, `NetNext`, `NetSpec`, and `NetFairSpec` with its fairness), so
that the module can be extended together with others. `Polls` does the same.

### 2.5 FileTransferSession

One action per handler where nothing can come in between; a handler that calls
the server or the engine is split at these calls (`GoReset`, `ResetEngine`,
`ResetSession`, `SetReceiving`, `RequestMediaReceive`, `StoreReception`...), so
that with `Interleave` another thread's handler can run inside. Messages are
records of kind, medium and channel; the engine is reduced to off, receiving or
sending for which medium, and whether it has ended. The server is external and
modelled from the requests and answers that the client's code shows.

### 2.6 StreamingBuffer

`ring` holds length, both positions, both totals and the cells. `SetBuffer`,
`Write`, `Read`, `Used` and `Free` are the code's functions on it; positions and
totals are treated exactly as there, a position at the end included. The network
thread's way is `SetPacket`, if there is no thread `SetWriteMutexOwner`,
`CreateThread` and `RaiseFlag`, then `WriteData`, and `RetakeOwner` when it has
woken the reader. The demultiplexer's thread reads at any time any number of
bytes (`ReadData`, `WaitsForWriter`, `WaitForWriter`, `ReadAfterWait`) and is initialised, fails
or ends (`DemuxerReady`, `CodecFails`, `DemuxFails`, `LoopEnds`). `OnAbort`,
`ReleaseWriteMutexOwner` and `WaitForMe` are StopDemuxThread.

A reader that misses bytes says so and gives `m_StreamBufSemaph` back (`ReadData`,
then `rpc` is `announced`), calls Wait on `m_WriteOwned` (`WaitsForWriter`, `asleep`)
and gets it (`WaitForWriter`). The network thread may come between the first two
steps: `RetakeOwner` then takes `m_WriteOwned` back at once, and the reader sleeps on
although its bytes are there. Only a reader that is `asleep` goes before it.

A read of no bytes, or into no buffer, returns with `m_StreamBufSemaph` taken
(`streamingBuffer.cpp:309-310`), and everything that needs it stands still from then
on. The one caller hands on what the codec library asks for (`Demuxer.cpp:279`); the
model's reads are of one byte at least.

`Cases`:

- `endread`: a packet comes after a read that ended exactly at the end of the
  buffer. Read leaves `m_uReadPos` at `m_uBufLen` there while Write would go to
  zero.
- `pulse`: WriteData takes `m_WriteOwned` back before a reader that is already
  asleep gets it.
- `fails`: the thread cannot be created, or the codec library fails in the
  middle of the stream.
- `endall`: the transmission is stopped in the midst of a SetPacket, as
  EndAllTransmissions may do, which holds no lock.

### 2.7 MediaPlayer

One transmission and its threads after the demultiplexer. `sent` is the set of
media it carries, one of `Streams`. The read thread (`rpc`) takes packets from
the jitter buffer and queues them by medium, a play thread (`ppc[m]`) decodes
and starts a write thread (`wpc[m]`) that shows frames, the buffering thread
(`bpc`) holds both write threads back when everything has run dry. `bufferFree`,
`initFree`, `playFree` and `writeFree` are semaphores of one unit; a pulse is
two steps (the unit is given, and taken back: `RetakeBuffer`, `RetakePlay`,
`RetakeWrite`). A thread that is to wait first announces it (`Announce`,
`PauseWrite`) and then falls asleep, and a pulse may fall between.
`StartPktProcessing` and `FinishPktProcessing` are the owner's; the stop goes
through play threads, write threads and the buffering thread in the order of the
code, each with its join. `Cases`:

- `burst`: the queue of packets fills up while the play thread has announced
  that it will wait and does not wait yet.
- `pulse`: the waker takes the unit back before the woken thread has it.
- `fails`: a play thread cannot be created.
- `empty`: the transmission ends before its first packet.

### 2.8 LiveTransmissions

The threads that play a medium report that it is alive in two steps: an event is
posted (`Alive`), then the timeout is armed again (`Register`). `Check` is the
timeout thread's look at one timeout, which posts when it has run out. The user
interface takes events off `queue`: `OnNewTransmission`, `OnMediaInfo`,
`OnMediaAlive`, `OnMediaTimeout`, `OnChannelPart`, `OnChannelUserFlags`,
`OnChannelJoin`; `TerminateAllConferences` is the user leaving the channel.
`live` in an alive event says whether the transmission it points to is still
there; deleting one turns it (`Dangling`). `transm[i].running` is the timer of
`MediaVideoSource` that asks for frames. In the case `late`, media of a user are
still heard when the server says that the user is done.

### 2.9 MoviePlaylist

The window (`StartClick`, `FinishClick`, `OnBtnCancelClick`, `OpenPlaylist`,
`OnMovieSendEof`, `OnTimer`), BeginTransmission in two steps (`BeginPlayFile`
inside the handlers and `SetTransmitting`, with the IRM thread in between), the
sending thread (`ThreadBegins`, `DeliverPacket`, `OnEOF`), the IRM thread
(`OnMediaSend`, `OnMediaSendStop` with its wait for the thread, `OnMediaNotify`
with `AcceptOffer`, `OnMediaReceiveStop`) and the server (`Serve`, `Offer`,
`Withdraw`), which is external. `header` and `pos` are what
`ASFFileSourceStream` keeps from one transmission to the next. `Cases`:

- `hasty`: a button is pressed while the end of a movie is on its way; Finish is
  pressed while the server has not answered the request to send the movie, or its
  thread has already ended, or a second time; a movie ends while the timer of
  Finish, or that of the movie before, runs; the end of a movie reaches a window that was
  opened after the one it was sent from.
- `same`: a file follows itself.
- `slow`: a movie is stopped before its sending thread has begun.
- `race`: BeginTransmission's second half runs inside the handler of an offer.

### 2.10 AppSharing

The session's handlers on the IRM thread (`OnMediaNotify`, `OnMediaReceiveAll`,
`OnMediaReceiveStop`), the user's leaving (`TerminateAllMediaTransmissions`),
the start of a reception (`OpenReception`, `InitializeReception`,
`OnReceiveStart`) and a stop that either of the two threads runs in steps:
`StopReception`, `Reset`, `End` (which takes `m_FrameMutex`), `WaitForMe`,
`ResetClear`, `DestroyReception`. The receive thread reads a header or an update
(`ReadHeader`, `ReadUpdate`), draws it under the mutex (`UpdateScreen`) and hands
it on (`OnASEvent`, `GetFrame`). `Cases`:

- `early`: a stop waits for a thread that has not taken its end event yet.
- `blank`: an update comes while there is no frame buffer: before the first
  header, or after one for which CreateFrameBuffer has failed (`ReadHeader`, which
  deletes the old buffer first).
- `late`: a sharing begins while the request for an earlier one is unanswered.
- `overlap`: the IRM thread and the user interface thread stop at once.

### 2.11 Polls

Every user's client, with both its threads. The starter sends a poll as a run of
messages (`SendPoll`), the statistics likewise (`SendPollStats`). The IRM thread
of each other client puts them into `data` one at a time (`Begin`, `Question`,
`Option`) and posts an event at the end (`Post`); the user interface reads
`data` when it comes to the event (`OnPoll`, `OnPollStats`). `Answer` and
`OnPollAnswerDialogClose` send an answer; `OnPollAnswer` counts it in the
starter's `active`, for an option the poll has or for none (`AddVote`).
`UnderWay` counts the answers that are on a link to the starter (`Posted`) or
wait for his window (`Waiters`). `PollCases`:

- `both`: a poll is sent while another is on its way.
- `late`: a poll is sent while an earlier one may yet be answered.
- `busy`: the next messages come before the window has shown the last.
- `window`: the poll window is opened while a poll is on its way.

## 3. Runs

### 3.1 Passing runs

| run | module, constants | distinct states | shows |
|---|---|---|---|
| `rcv_main` | XFTReceiver, 3 packets, both modes, a stream that reconnects, end of file between two packets | 41 253 | `SuccessMeansComplete`, `NoPacketForgotten`, `CountsExactly`, `DiskHoldsWholeFiles`, `ResetEnds`, and `KeepsPromise`: it implements `FileReception` |
| `snd_main` | XFTSender, 2 packets, 3 requests, a host that seeks, pauses and resumes | 105 938 | `ClockMeansIdle`, `Accounted`, `EndWhenServed`, `RequestServed`, `SendEnds` |
| `net` | FileTransferNet, 3 packets, 3 requests, failures | 204 789 | `EndMeansDelivered`, `SuccessIsTheFile`, `KeepsAsking` |
| `ses_main` | FileTransferSession, 2 channels, 2 transmissions, 2 offers | 36 248 | `EngineServesSession`, `NoOrphanMedium`, `SessionHasMedium`, `EndedIsLeft` |
| `str_main` | StreamingBuffer, 8 bytes, pieces up to 3 | 121 490 | `KeepsOrder` (it implements `ByteQueue`), `ReaderOnRecord`, `ShortReadMeansStop`, `SleeperWakes`, `PacketTaken`, `StopEnds` |
| `player` | MediaPlayer, a transmission of audio or of video, 2 packets queued, 1 frame | 29 690 | `NothingLeft`, `HeldBack`, `StopEnds`, `KeepsPlaying` |
| `live_main` | LiveTransmissions, 1 user, 3 events | 81 178 | `NoneDangling`, `AliveIsShown`, `FirstQuietEnds` |
| `movie_main` | MoviePlaylist, 2 files, 2 items, 2 packets each, 2 rounds, 1 offer | 30 190 | `SenderServes`, `WholeFile`, `NobodyCutOff`, `GoesOn` |
| `as_main` | AppSharing, 2 sharings, 1 departure, 2 events | 64 139 | `NoFrameAfterEnd`, `NoDeletedBuffer`, `QuietStopEnds` |
| `polls_main` | Polls, 3 users (symmetric), 2 polls, 1 report of statistics | 123 275 | `VotesAddUp`, `ShownAsSent` |

The properties, in words, stand before their definitions. The ones that tie most
of the system together:

- `SuccessMeansComplete`, `DiskHoldsWholeFiles`: a count (`m_nRcvPkts`) decides
  whether a file is complete. It is right only if each path that counts has put
  one new block into place, through gaps, repeats, late packets and rounds of
  requests.
- `NoPacketForgotten`: each number up to `m_uCurSeq` is in the file or on the
  vector. The run has the end of file announced between two packets. That the
  property also holds when the end is announced at any step, inside SaveRcvPkt and
  between receptions, is the theorem `NothingForgotten` (section 6.1).
- `KeepsPromise`: every step of the receiver is an arrival of one block, the
  success, the end, or invisible.
- `EndWhenServed`, `ClockMeansIdle`: the end decided by a clock does not cut off
  requests.
- `KeepsAsking`: sender and receiver never both come to rest before the file is
  there, whatever is lost, up to the bound on requests.
- `NoOrphanMedium`, `SessionHasMedium`, `EngineServesSession`: after any mix of
  begin, offer, cancel, failure and end, nothing is left at the server that the
  session does not know, and nothing in the session that the server does not.
- `ReaderOnRecord`, `ShortReadMeansStop`, `SleeperWakes`: a reader and a writer hand
  one semaphore to each other while both need a second one. Wherever the writer
  comes in, a reader on its way or waiting is on the writer's record with what it
  misses, or its bytes are there; what wakes it before the stop is all its bytes; and
  once they are there, a reader that is asleep wakes. What is not kept is that
  a reader still on its way wakes (`NoReaderForgotten`, section 5).
- `KeepsOrder`: growing, wrapping and running empty, the circular buffer is a
  queue.
- `StopEnds` and `KeepsPlaying` of the player: six threads that wake each other
  by pulses never leave one asleep beside its work, and a stop comes back from
  wherever they are.
- `NoneDangling`: an event with a pointer in it may wait in the queue while the
  transmission it points to is deleted, and is then not followed.
- `GoesOn`, `NobodyCutOff`: the end of a movie goes through the sending thread,
  the server, the IRM thread, an event and a timer; the list moves on, and no
  leftover of one movie stops another.
- `NoFrameAfterEnd`: a session without a lock is cleared by one thread while
  another fills in an event from it.
- `VotesAddUp`, `ShownAsSent`: one place per client, filled by one thread and read
  by the other, shows what was sent, and no vote is lost or counted twice.

The type invariants of the receiver, the sender, the byte queue, the player, the
live transmissions, the sharing and the polls are theorems (section 6). TLC checked all of
them, those of the other modules included. Some invariants are theorems and stand in no
run's list, `IdleMeansGone`, `StatsAsSent` and `RightPlace` among them; TLC checked
them with the constants of `as_main`, `polls_main` and `rcv_main`.

### 3.2 Bounds

`MaxPkts` 3: a gap, a packet inside it, and one behind it need three numbers; a
late packet that empties the vector while another follows needs no more. Five
are used where a round of requests has to step over one of several runs
(`rcv_round`). A stream that breaks and is connected again loses packets, as
datagrams do, and its arrivals in `rcv_main` are in any order: it has all that
datagrams have and the reconnection besides. The theorems of section 6 hold for
every number and transport. `MaxReqs` 3: a request served, a request for a packet
already waiting, and one after the clock has been started again; two packets
are enough for that, and `net` has three. `MaxStarts` and
`MaxOffers` 2: a late answer needs a transfer it belongs to and one it is taken
for. `MaxBytes` 8, `MaxPiece` 3: the buffer is created by the header, grows
twice, wraps around and runs empty, and a read of three waits for two packets.

`player`: both media have their threads, and each behaviour is a transmission that
carries one of them (`Streams`). Two packets fill a queue and leave it, and the frames
beyond the first are not told apart. The two write threads run different code: that of
video pauses as soon as no frame is ready (`PauseWrite`), that of audio first waits for
the sound to run out (`PauseIfBufferEnds`). With both media in one transmission and a
queue of one packet, TLC found `NothingLeft` and `HeldBack` to hold in all 2 535 040
states; the liveness properties take it longer than five minutes there. The theorems of
section 6.3 hold for any `Streams`. `live_main`: the two
media of one user share the transmission and its flags, which is where things
go wrong; users meet in the queue only. Three events let a report, a timeout and
a departure wait for each other in every order. `movie_main`: an item that
follows another and one that follows the last, a list begun again, a movie
offered by someone else in between. `as_main`: one sharing, its end, and the next;
a departure at any point. `polls_main`: a starter and two who answer, then another
starter or the same.

Deadlock is checked in `live_main`. Elsewhere it is not: a reception nobody
feeds, a session nobody uses, a stream that has been stopped, a list at its end
come to rest. What must go on is stated as a liveness property instead.

## 4. Time and fairness

Time is abstracted by guards, each from a delay in the code:

- `FileTransferNet!FirstDelay`: `m_tFirstPktTime` (`FIRSTPKTDELAY`,
  `XFileTransfer.cpp:1320-1325`) holds the first packet back until the receivers
  run.
- `FileTransferNet!AnnounceEof`: the first announcement comes `SNDEOFDELAY`
  (8 s, `XFileTransfer.cpp:23`) after the last packet, when no datagram is under
  way any more. Later announcements come at once, and there packets may be
  overtaken.
- `FileTransferNet!Expire`: `SNDENDWAITDELAY` (8 s, `XFileTransfer.cpp:24`) is
  longer than a message takes together with the random wait before a request
  (`MAXPKTREQDELAY`, 1 s, `XFileTransfer.cpp:22`).

- `MoviePlaylist`: a movie does not reach the end of its file within the 18 s
  that the timer of Finish or of the movie before runs (`OnEOF`); `hasty` lets it.

Where a network breaks the first three, the phases `saving` and `before` of
`EofPhases` come in: `NoPacketForgotten` and `RightPlace` still hold then (theorems
`NothingForgotten`, `BlocksInPlace`), and `CountsExactly` and `SuccessMeansComplete` do not.

Fairness belongs to threads, which the operating system schedules, and is weak
wherever a thread is not waiting for something that comes and goes: the transfer
thread's steps, a controller inside Reset, the clock, the session's threads, both
ends of the byte queue, the handlers of the user interface, the sending thread,
the receive thread of a sharing and both threads that stop it. A read of a closed socket returns
(`ResetEnds`, `SendEnds` need it). No fairness is assumed of packets, failures,
users, offers or cancels. Only in `FileTransferNet` is the handing over of a
message strongly fair: the engine's models keep it out of certain windows of the
thread, which the thread leaves and enters again and again, and a message that
waits for the same lock gets it eventually. In `MediaPlayer` the read, play and
write threads are strongly fair, because the semaphore one of them waits for is
given and taken back again and again; `KeepsPlaying` also assumes that packets of
the media that are sent keep coming (`LiveSpec`). In `LiveTransmissions` a medium
that plays reports again and again and the timeout thread looks again and again;
both are strongly fair, because a full queue keeps them out for a while.
`RequestServed` and `SendEnds` are claimed under `HostRests`. `Polls` has safety
properties only: users answer when they like.

In `StreamingBuffer` and `MediaPlayer` one assumption is about the semaphores
themselves: without `pulse`, a thread that waits for one goes before the one that
has just given it back. It is about threads that are asleep in the wait. One that has
only announced that it will wait has no such claim, in either module.

## 5. Where the code differs from what it says

Two runs are expected to end in a counterexample. Each is a comment of the code
that the code does not keep (quoted under `findings` in `PROJECT.json`):

| run | violated | what happens |
|---|---|---|
| `live_revive` | `QuietEnds` | the first timeout of a transmission deactivates it without lowering its alive flag; heard again by its other medium, it stays active after that medium has fallen silent |
| `as_stop` | `StopEnds` | `End` waits for the receive thread with `m_FrameMutex` held, and the thread waits for the mutex: the stop hangs |

`FirstQuietEnds` and `QuietStopEnds` say, in passing runs, what is left of the two
properties.

Further configurations also end in counterexamples. They explain why the passing
runs exclude a case, and each is named in the note of its hazard:

| configuration | module | violated | case |
|---|---|---|---|
| `rcv_begin_cancel` | XFTReceiver | `NoThreadLeftBehind` | a cancel between BeginReceive and RunRX |
| `rcv_eof_before` | XFTReceiver | `SuccessMeansComplete` | NotifyEOF works on an object that receives nothing and leaves numbers on the vector that the next reception starts with |
| `rcv_stray` | XFTReceiver | `SuccessMeansComplete` | datagrams of another transfer (the id is not compared) |
| `rcv_reset` | XFTReceiver | `ResetAlone` | two threads pass the test of `m_bResetting` |
| `rcv_round` | XFTReceiver | `RoundAsksAll` | a packet arrives during a round of requests, the cursor steps over another |
| `snd_judging` | XFTSender | `EndWhenServed` | `m_tSndEnd` is read twice; a request in between makes the second read compare with zero |
| `snd_arming` | XFTSender | `EndWhenServed` | a request while the thread announces that all is served |
| `snd_begin_cancel` | XFTSender | `NoThreadLeftBehind` | a cancel between BeginSend and RunTX |
| `snd_overlap` | XFTSender | `EnabledHasSocket` | BeginSend inside ResetSnd |
| `ses_early` | FileTransferSession | `NoOrphanMedium` | a transmission cancelled before the server has answered stops nothing there |
| `ses_threads` | FileTransferSession | `CancelledReceptionStops` | a cancel inside a handler of the IRM thread |
| `str_endread` | StreamingBuffer | `KeepsOrder` | a packet after a read that ended at the buffer's end |
| `str_window` | StreamingBuffer | `NoReaderForgotten` | the writer comes between a reader's giving back `m_StreamBufSemaph` and its wait on `m_WriteOwned`: it takes the reader off its record and the semaphore back, and the reader sleeps beside its bytes until the transmission is stopped. `SleeperWakes` in `str_main` is what is left |
| `str_fails` | StreamingBuffer | `PacketTaken` | a packet after the demultiplexer's thread has ended by itself |
| `str_endall` | StreamingBuffer | `StopEnds` | EndAllTransmissions beside a SetPacket |
| `player_burst` | MediaPlayer | `StopEnds` | the read thread waits for room in a full queue and never looks at its run flag |
| `player_fails` | MediaPlayer | `StopEnds` | the same, with no play thread to make room |
| `player_pulse` | MediaPlayer | `KeepsPlaying` | a sleeping thread is passed over by every pulse |
| `player_empty` | MediaPlayer | `NoWildRead` | the stop follows a pointer that only the first packet assigns |
| `live_late` | LiveTransmissions | `NoneDangling` | a report comes behind the word that its user has left |
| `movie_hasty` | MoviePlaylist | `FinishBeginsNext` | Finish is pressed while the end of the movie is on its way: the list stands still |
| `movie_cutoff` | MoviePlaylist | `NobodyCutOff` | the timer of Finish cuts off the item after the one it was started for |
| `movie_same` | MoviePlaylist | `WholeFile` | a file sent twice in a row starts at its end the second time |
| `movie_slow` | MoviePlaylist | `StopIsHeard` | the sending thread lowers the stop flag as its first act |
| `movie_race` | MoviePlaylist | `GoesOn` | the IRM thread and the user interface take the session from each other |

Other cases have no configuration of their own; a constant changed in the one
named gives the counterexample (`IdleMeansGone` and `StatsAsSent` have to be added to
its invariants):

| constant | in | violated |
|---|---|---|
| `EofPhases` with `saving` | `rcv_main` | `CountsExactly`: a packet written and not yet counted in `m_uCurSeq` is taken for lost, sent again, and counted twice |
| `Cases` with `pulse` | `str_main` | `SleeperWakes` |
| `Cases` with `early` or `late` | `as_main` | `NoDeletedBuffer` |
| `Cases` with `blank` | `as_main` | `QuietStopEnds` |
| `Cases` with `overlap` | `as_main` | `IdleMeansGone` |
| `PollCases` with `both` | `polls_main` | `ShownAsSent`, `VotesAddUp`, `StatsAsSent` |
| `PollCases` with `late` | `polls_main` | `VotesAddUp` |
| `PollCases` with `busy` | `polls_main` | `ShownAsSent` |
| `PollCases` with `window` | `polls_main` | `ShownAsSent`, `StatsAsSent` |

`XFTSender!PausedMeansBlocked`, checked with `snd_main`'s constants, fails too: a
stop between the two steps of SndPause lifts a pause that is not there yet.

## 6. Proofs

TLAPS checks the theorems for every value of the constants that satisfies the
named assumptions of their modules (`ReceiverAssumption`, `SenderAssumption`,
`NetAssumption`, `SessionAssumption`, `NoneAssumption`, `StreamAssumption`,
`PlayerAssumption`, `LiveAssumption`, `PlaylistAssumption`, `SharingAssumption`,
`PollAssumption`).

### 6.1 The engine

`ReceiverType` (`XFTReceiver_proofs`): `Spec => []TypeOK`, without any further
assumption, for every transport, timing of the end of file message and
interleaving of resets. One step per action; the lemmas it rests on say that the
vector's operators stay within their types.

Two theorems assume `OwnPackets`: Reset's test of `m_bResetting` is atomic, and no
datagrams of another transfer come. The end of file may be announced at any step.

| theorem | property |
|---|---|
| `NothingForgotten` | `NoPacketForgotten` |
| `BlocksInPlace` | `RightPlace` |

The others assume `Settled`: `OwnPackets`, and the end of file announced only
between two packets. Section 5 shows what happens without each of the three.

| theorem | property |
|---|---|
| `SuccessIsComplete` | `SuccessMeansComplete` |
| `CountIsExact` | `CountsExactly` |
| `LostIsMissing` | `LostOnce` |
| `StartsFresh` | `FreshStart` |
| `DiskIsWhole` | `DiskHoldsWholeFiles` |
| `ReceiverRefines` | `KeepsPromise`: XFTReceiver implements FileReception |
| `TakenInOrder` | `PtPInOrder`, in point to point mode without end of file messages (`InOrderMode`) |

None of these invariants is inductive. Under `Settled` the strengthening is `IInv`, of
three parts:

- `TypeOK`.
- `ControlInv`, about who is where: a Reset past its test keeps the flags up
  (`FlagsUp`), there is one at a time (`OneReset`), while it clears the thread
  is not inside a packet (`ThreadRests`), and a running reception is enabled
  (`RunInv`).
- `DataInv`, about the file. The key is `High`, the last number that is in the
  file or on the vector. It runs ahead of `m_uCurSeq` while a packet is written
  and not yet assigned. `VectorInv` says that each number up to `High` is in
  exactly one of file and vector and that the file ends at `High` until the end
  is announced; `FileInv` that the count is the number of blocks in place;
  `StartInv` what RunRX finds.

TLC checked `IInv` first. `InitIInv`, `NextIInv` and `Consequences` are the
three facts; `NextIInv` is split by thread (`ThreadStepData`, `ArrivalData`,
`StartData`, `EofData`, `StopData`), and `AppendStep`, `Written`,
`InsidePacket` are shared by the paths that write a block. The refinement
(`PromiseInit`, `PromiseStep`) is proved from the same invariant.
Under `OwnPackets` it is `AnyInv`: the types, `ControlInv`, `PlaceInv` about the file,
and `KnownInv`, which needs less than `VectorInv` and says it of `FileEnd`. A
NotifyEOF inside SaveRcvPkt moves `m_uCurSeq` to the end while the packet in hand
goes where the file ends; what is known then reaches as far as either. A number may
be in the file and on the vector, and counted twice. TLC checked `AnyInv` too.
`TakenInOrder` adds that the vector stays empty (`InOrderInv`); it is proved and
not among the runs.

The lemmas on the vector come first in that module: what an inserted run contains
(`InsertRunItems`), that search finds the first place (`SearchFinds`), and that
removal leaves all but the item taken out (`RemoveItems`) and, without repeats, no
more of that (`RemoveDistinct`).

`SenderType` (`XFTSender_proofs`) needs no further assumption. The others do:

| theorem | property | assumed |
|---|---|---|
| `ClockRunsIdle` | `ClockMeansIdle` | `Settled`: requests keep out of the two windows of `m_tSndEnd` |
| `EndComesServed` | `EndWhenServed` | `Settled` |
| `AllAccounted` | `Accounted` | `OneAtATime`: no BeginSend inside the user's Reset, and the test of `m_bResetting` atomic |

`ClockInv` says at which places of the thread the clock may run and when the
vector may hold something; `EndComesServed` is an action property that follows
from it. `AccountInv` ties the number of requests, those still to serve and the
length of the vector together and needs `StopInv`, where a Reset stands, since
BeginSend resets the one and the last step of Reset the others. The lemma both rest
on is `InsertSetLen`: the callers' loop appends as many numbers as are not on
the vector yet. It counts the members of a finite set through an injection
(`RankExists`).

### 6.2 The two halves joined

`FileTransfer_proofs`, for every length of the file, every number of requests and
however packets are lost or overtake each other, disks and sockets fail:

| theorem | says |
|---|---|
| `ImplementsSender` | `NetSpec => S!Spec`: joined, the sending half is the engine of `XFTSender` |
| `ImplementsReceiver` | `NetSpec => R!Spec`: the receiving half is that of `XFTReceiver` |
| `FileArrives` | `SuccessIsTheFile` |
| `NotEndedBefore` | `EndMeansDelivered` |

The first two are what makes the composition more than a third model: each of its
steps is a step of either half under its own guards or leaves it alone, so what
section 6.1 proves holds here. The invariant `NetIInv` uses it: `HalvesInv` is the
inductive invariants of the two halves as they stand, taken through instances of
their proof modules (`SP`, `RP`; `SenderKnown` and `ReceiverKnown` say what is used
of them), and `NetInv` is what ties the two together:

- `SenderLife`, `ReceiverLife`: one transmission that nobody stops, and a
  reception that has begun before the first packet.
- `PassInv`, `SentInv`: what has been sent so far; nothing is in the air, in the
  file or about to be written that has not.
- `EofInv`: no message about the end, no request and no clock before the end has
  been announced. `CaughtInv`: once it has, the receiver knows of each packet,
  or a message that tells him is under way. Both need that the first announcement
  finds no datagram under way (section 4).
- `ChaseInv`: where the clock runs or is about to be set, the file has been
  delivered, or the receiver has failed, or a round of requests is on its way. That
  a clock cannot run out while one is (`Expire`, section 4) gives
  `EndMeansDelivered`.

### 6.3 Session, byte queue, player, client, sharing

The theorems of `StreamingBuffer_proofs` hold for every number of bytes and size
of packets and reads.

| theorem | property | cases left out |
|---|---|---|
| `BufferIsQueue` | `KeepsOrder`: StreamingBuffer implements ByteQueue | `endread` |
| `StreamType` | `TypeOK` | `endread` |
| `ReaderIsKnown` | `ReaderOnRecord` | `endread` |
| `ShortReadsAtStop` | `ShortReadMeansStop` | `endread` |

The invariant of the first two is `QueueInv`. `Placed`: the write position
follows from the read position and what is held. `Ordered`: what is held lies
from the read position on, with consecutive numbers. `PacketInv`: the read
position is below the end of the buffer while a packet is under way, which is
what `endread` breaks (section 5). `StoreHolds` (growth and write) and
`ReadHolds` carry it over the two operations of the ring; after that bytes are
runs of numbers (`Run`), which are cut and joined.

The last two need `WakeInv`, which adds who may hold `m_WriteOwned`: while the
transmission lasts it is free only between the writer's Signal and its Wait, with no
reader on the record any more, and a reader who waits or is about to is on the record
or his bytes are there (`WokenForBytes`). No order in which waiting threads are
served is assumed, and a packet may come before a reader that has announced itself
waits. TLC checked `WakeInv` first.

The theorems of `FileTransfer_proofs` about the session hold for every set of channels and
every number of transmissions and offers.

| theorem | property | assumed |
|---|---|---|
| `EngineServes` | `EngineServesSession` | `InTurn`: no thread begins a handler inside another's |
| `NoneLeftBehind` | `NoOrphanMedium` | `Patient`: in turn, and no transmission is cancelled before the server has answered |
| `SessionIsKnown` | `SessionHasMedium` | `Patient` |

`EngineServes` needs where the handlers stand (`ControlInv`) and that the engine
is off from the cancel inside Reset until the handler begins the next transfer
(`EngineInv`). The other two are about messages on the way: `MineInv` and
`JoinedInv` say that each medium the server holds is the session's, or its answer
or its stop is under way; `KnownInv` says the same from the session's side. They
need an order. A transmission is asked for once and nothing else is done
meanwhile (`AskedOnce`), which is what an early cancel breaks; nothing about a
medium comes ahead of the request to receive it (`RequestsInv`), and an offered
medium is new (`OffersInv`). `SendStep` and `ReceiveStep` carry the two halves over
each handler; what a handler does to a queue is put in as one message `Added` or
`Removed`. The proofs take media as natural numbers (`LooseType`): that they stay
within `Ids`, a matter of the bounds `MaxStarts` and `MaxOffers`, is not proved.

The theorems of `MediaPlayer_proofs` hold for every size of the queues, whatever
media are sent, and with every one of the `Cases`: what goes wrong there is that
a stop does not end, never that one ends and leaves a thread.

| theorem | property |
|---|---|
| `PlayerType` | `TypeOK` |
| `PlayerLeavesNothing` | `NothingLeft` |
| `PlayerHoldsBack` | `HeldBack` |

`IInv` adds to the types that each thread lives within the life of the one that
started it (`PlayInv`, `WriteInv`, `BufferInv`), which is what makes the chain
of joins complete, and `LateInv`: a frame about to be shown while the player
buffers was looked for before, and none has been shown since.

`LiveTransmissions_proofs`, for every set of media and every bound on the queue:
`LiveType`, and `FramesArePlaced` (`FramesHaveAPlace`: only an active transmission
that has a sink asks for frames), both in every order of events, `late` included;
and `NobodyFollows` (`NoneDangling`) without `late` (`InTime`). The invariant of the
last, `OrderInv`, is about the order of events in the queue: the event that lets
the client into a channel is there once and not while it is in one
(`JoinsOnce`), a user's departure comes behind everything that user's media have
reported (`WordIsLast`), and a pointer that has gone astray is ahead of the next
join, so that the handler is not enabled when it comes (`AstrayIgnored`). Taking
an event, posting one and deleting a transmission keep that order
(`TailOrderly`, `AppendOrderly`, `DanglingOrderly`).

`AppSharing_proofs`, for every number of sharings, departures and events, without
`early`, `late` and `overlap` (`InTurn`): `SharingType`, `ShownBeforeEnd`
(`NoFrameAfterEnd`), `ThreadHasBuffers` (`NoDeletedBuffer`) and `IdleIsGone`
(`IdleMeansGone`). `IInv` says which of the two controllers is where
(`ControlInv`), that object, thread and buffers live together (`LifeInv`), that
there is one request at a time, at the server, answered or opened
(`RequestInv`), and which sharings have ended for whom (`EndInv`).

### 6.4 The playlist

`Channel_proofs`, for every list, every length of file, any number of rounds and of
movies offered by others:

| theorem | property | cases left out |
|---|---|---|
| `ThreadServes` | `SenderServes` | none |
| `SentWhole` | `WholeFile` | `same` |
| `NoneCutOff` | `NobodyCutOff` | `hasty`, `race` |
| `StopHeard` | `StopIsHeard` | `slow` |

Each leaves out only the cases that break it, so that `movie_main`, which has none,
is not all that is known: `ThreadServes` holds with all four. `MovieInv` has a part
per property. `ServeInv` says where a transmission may begin and an offer be taken.
`WholeInv` ties the position in the file to the packets sent. `NoneCutOff` takes two
parts, since a movie is cut off by what an earlier one has left in some queue:
`AskInv`, an order of the messages (`Orderly`: a medium is asked for once at a time,
what is being stopped has been given, and is not being given any more), and `CutInv`,
that the timer, the event and the stop of a movie are used up before the next one
begins. `OrderlyTake`, `OrderlySend`, `OrderlyStop` and `OrderlyServe` carry the order
over what the handlers do to the queues.

### 6.5 The polls

`Channel_proofs`, for every set of users and any number of polls and reports:

| theorem | property | cases left out |
|---|---|---|
| `PollsType` | `PollTypeOK` | none |
| `PollsShownAsSent` | `ShownAsSent` | `both`, `busy`, `window` |
| `CountsShownAsSent` | `StatsAsSent` | `both`, `busy`, `window` |
| `VotesCountedOnce` | `VotesAddUp` | all four |

A poll is five messages, a report six, that reach each client one by one, and its
window reads what they have left when it comes to the event. `SpeechInv`: every link holds whole
polls and reports, one behind the other, or the rest of one, each as its starter
has sent it, and one user speaks at a time. `CollectInv`: what a client has
collected and what is still to come to it are together what was sent, and its
window has nothing else to show. `WindowInv`: an event that waits finds what it is
about. `Coming` is what the rest of a link will add; `ComingOf` and `Joined` say
how it changes when a message is taken and when something is sent behind it, and
the steps follow from these two. `late` is not among the cases left out: which poll
an answer is counted for has no part in what is shown.

`VotesCountedOnce` needs it left out (section 5 has what happens otherwise), and a
second invariant, `TurnInv`, about the user who sent the last poll, `Speaker`.
`LinkTurn`, `WindowTurn`, `DialogTurn`: whatever is on its way, waits or is asked is
about the last poll; answers, one on a link at most, go to its starter and wait at
his window alone. `OwnTurn`: whoever has started an earlier poll and still has it
as his own is about to hear of the last one, so he has no answers left to count.
`OnceInv`: for every other user the last poll is still to come, or waits to be
shown, or is being asked, one of these at most, and as long as one is, he has given
no answer: an answer that is posted is thus a new member of `given` and the only
message on its link. `CountInv` is what `VotesAddUp` says, with the answers under
way counted as the users whose link holds one; it changes by one on both sides, or
moves one from a link to the window and on to the count (`VotePosted`, `VoteTaken`).
`SendPoll` alone needs that nobody can answer any more (`NothingUnderWay`): then the
old starter's count is complete, and stays so. `UnderWayOf` says that those users
are as many as the answers `VotesAddUp` counts.

### 6.6 Only model-checked

Every invariant and every action property of the passing runs has a theorem above.
What is left to TLC is liveness, which is out of the prover's reach (it needs
ENABLED): `ResetEnds` of the receiver, `RequestServed` and `SendEnds` of the sender,
`KeepsAsking`, `EndedIsLeft`, `SleeperWakes`, `PacketTaken`, `StopEnds` of the byte queue and of the
player, `KeepsPlaying`, `AliveIsShown`, `FirstQuietEnds`, `GoesOn` and
`QuietStopEnds`, each under the fairness of section 4.

## 7. What is not modelled

- Contents of messages and packets, logging, statistics, formatting.
- Memory that cannot be allocated: the vector's insert, the buffer's growth. A
  thread that cannot be created is modelled for the demultiplexer and for the play
  threads (the cases `fails`).
- A read of no bytes from the byte queue (section 2.6).
- More than one receiver. Requests of several receivers reach the sender like
  those of one that asks at any time, which `snd_main` has.
- `XFileTransferDll.cpp` (a table of objects), the live, conference and
  whiteboard sessions, the server connection, the media network: see the plan.
- Several transmissions in the list of `CMedia`, and the jitter buffer, which
  is external to `MediaPlayer`.
- Live transmissions: the removal of a sink by the user, transmissions nobody has
  named yet, the race on the list of `TimeoutRegister` (undefined behaviour; each
  call of the register is whole in the model). The run has one user, the theorems
  any number.
- Playlist: editing and saving a list, an empty list, the nested event loops of
  modal dialogs, several channels, and `~Movie`, which deletes `m_writeBuffer`
  before it joins the sending thread.
- Application sharing: the sending half. A departure posts the client no end, so
  `m_asVideoSource` keeps running, and `OnAppSharingEnd` calls Stop before Close, so
  that `NotifyDeactivateAll` is never reached; the model does both as the code
  does, and no property is about the source. A frame may be posted before the
  beginning of its sharing.
- Polls: texts and their form on the wire (counts from 100 000 on are sent as
  zero), the number of users a poll was sent to, a change of channel or a loss
  of media voice between two messages. The IRM thread can delete `m_activePoll`
  under a handler of the user interface; handlers are whole in the model.
- Codecs, devices, windows, drawing, third-party libraries and tools: data and
  library calls without protocol of their own.
- A demultiplexer whose initialisation fails leaves its run flag up, and the
  buffer then grows with each packet. The model has that behaviour; a property
  against it would be about memory, which it does not have.

The repository holds two copies of a codec library, sound libraries, charting
and scripting, which make up nearly all of its lines. The modules are about the
program's own code, a small part of it.

## 8. Plan

Done, in this order: the receiving engine (the program's most delicate
concurrency, and the part whose result a user can check), its proofs, the
sending engine, the two joined, the session around them, the byte queue and its
proofs, the player and its proofs, the live transmissions with their timeouts,
the movie playlist, the sender's proofs, the reception of a shared application
and its proofs, polls, the proofs about the live transmissions and about the
session, those about the network, the playlist and the polls.

Next, most important first:

1. The host of the transmissions: several of them in the list of `CMedia`,
   EndTransmission and EndAllTransmissions beside SetPacket, over `StreamingBuffer`
   and `MediaPlayer`.
2. `IrmLogin`: the states of `IrmQuery` with the chat connection beneath.
3. The live media sessions and the whiteboard, which share the handlers of the
   file transfer session.
4. `PacketBuffer`: `CBufferId` and `COutputBuffer`, packets put in order and
   handed on, against a sequence of frames.
5. The media network: connect, receive thread, stop.
6. The sending half of application sharing.
