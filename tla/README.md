# Verification of the video stream server

The server under `src/Server` is an RTSP/RTP server in C, about 1,800 lines:
one process, one thread for `accept()`, one thread for each RTSP connection and
one for each media track that is being streamed. It reads an `.264`, `.aac` or
`.mp4` request, loads whole files into memory, and sends NAL units and ADTS
frames as RTP packets over UDP. `src/Client` is third-party code, a vendored
MPlayer with live555 that serves as a player; nothing of it is modelled.

This directory holds TLA+ models of the server, TLC configurations that check
them on small instances, and proofs for TLAPS that hold for every value of the
constants. `PROJECT.json` connects each definition with the lines it models.

## 1. Inventory

### Components

| Component | Source | State | Operations |
|---|---|---|---|
| Accept loop and client registry | `main.c`, `Server_Client.c`, `list.h` | `client_list` (links in every `Client`), `client_num`, the accepted sockets | `client_locate`, `client_init`, `client_realease` |
| RTSP session | `RTSP_Session.c`, `RTSP_Session_tools.c` | `Client`: request fields, state Birth/Init/Ready/Playing, medium, session id; `media_class_t` of each track | `recv`, `parse_RTSP_packet`, five handlers, error replies, `wash_client` |
| Media loading | `readFile`, `readFile_internal`, `loading_media` | `media_buf`, `media_size` of a track | DESCRIBE |
| UDP transport | `Network.c` | `RTP_fd`, ports, destination; the static counter of `find_port` | `udpInit`, `udpSendto` |
| H.264 stream | `H264_transport.c`, `RTP_header.c`, `RTP_SendDate.c` | `RTP_buf`, `load`, header, `Timestamp`; the position in the file | `H264_Entrance`, `H264_LoadNAL`, `rtp_SendData` |
| AAC stream | `AAC_transport.c` | the same, of the other track | `AAC_Entrance`, frame length and sync word |
| Start codes | `AVC.c` | none | `ff_avc_find_startcode` |
| SDP | `SDP_setLines.c`, `H264_sdpline.c`, `AAC_sdpline.c` | `framerate`, `sample_rate` of a track | parameter sets, emulation bytes, rates |
| Base64 | `Base64.c` | none | encode, decode |
| Media types | `Media_type.c` | constant table | none |
| Static variables | `RTSP_Session_tools.c`, `Network.c` | the place `strtok` goes on from, the counter of `find_port`, the text of `dateHeader`; one each for all sessions | every walk of `strtok` calls, `find_port` |

### How they interact

`main()` puts a `Client` into the list and starts a session thread with a pointer
to it. The session thread owns the `Client`, except for its links, which `main()`
and the other sessions read and write. PLAY starts a streaming thread for each
track with the same pointer; streaming threads and session share `media_class_t`
and `RTP_class_t` without a lock. The session cancels a streaming thread
(`pthread_cancel`, deferred) when it starts the next one for the track and when
it releases the client, and never waits for it. Sessions share `client_list`,
`client_num`, the port counter of `find_port`, and the static buffers behind
`strtok` and `dateHeader`. No mutex is ever initialised.

### Hard behaviours, and what should hold of each component

* **Session.** A request arrives in pieces, cut at any byte, and two may come in one
  packet, while the parser keeps what it has found in the `Client`. A handler may be
  reached in any order of requests, and each may fail half way. Correct: a reply
  answers the request whose CSeq was read and replies keep the order of requests; PLAY
  finds everything SETUP granted; a track has one stream; a request is answered. The
  first and the last are false of a request that a `recv()` tears inside its method, its
  URI, its CSeq header or, at the start of a session, its request line: the parser takes
  what is there for the whole text, or never finds it. Which requests these are is
  part of the properties.
* **Streaming thread.** Cancellation takes effect at the next `usleep()` or
  `sendto()`, so the old thread and the new one overlap on one buffer. The cutting of
  NAL units into packets has its boundaries. Correct: packets fit, carry the file
  whole and in order, numbers and times advance by what they should, only the
  latest thread sends, a stream ends.
* **Registry.** Lock-free by omission. Correct: the list is exact, no address
  served twice, no freed client reached, the counter right. All this holds until two
  operations overlap, and the point is to know that nothing else can break it. That a
  lookup ends, and does not go round in what two releases have left of the list, holds
  also when they overlap.
* **Algorithms** (start codes, emulation bytes, Base64, ADTS length): pure, with
  boundaries at the end of the input, and one that overwrites what it reads.
* **Static variables.** Correct: a walk finds the tokens of its own text, and no
  two tracks are announced with ports that overlap, as long as no other thread
  is in the same walk.

`PROJECT.json` lists the hazards one by one, at their lines.

## 2. Plan

| | Module | Kind | State |
|---|---|---|---|
| 1 | `RtspSession` | one session, one byte stream | checked; safety proved |
| 2 | `H264Stream` | the video threads of one client | checked; safety proved |
| 3 | `ClientRegistry` | accept loop, list, counter | checked; safety proved |
| 4 | `AacStream` | the audio threads of one client | checked; safety proved |
| 5 | `AnnexB`, `H264Lines` | start codes and their two callers; the SDP of a video, emulation bytes, frame rate, Base64 | checked; safety proved, from the search to what the SDP says |
| 6 | `SessionLifecycle` | abstract specification of a session, implemented by `RtspSession` | refinement checked and proved |
| 7 | `SharedStatics` | any number of sessions over one `strtok` place and one port counter | checked; safety proved |

`SharedStatics` stands where a composition of whole sessions was planned:
two `RtspSession`s side by side are out of reach of TLC, and all that they share
besides the registry are those two variables. Every safety property of the passing
runs is proved. Left to do: a composition of the registry with the release of a
session's streams, and an abstract specification of the registry.

## 3. Modules

### RtspSession

One connection. A request is a sequence of pieces, one for each text that the server
looks for: method, URI, version, CSeq, for SETUP also RTP/AVP and client_port, and the
rest. `recv()` takes any number of pieces in `RecvSizes`, or all there are, and may end
inside the last one (`Ending`): `strstr()` then finds the text (`"whole"`), does not
(`"lost"`), or finds it with too short a value (`"cut"`: the first digits of a number, one of the
`Beginnings` of a URI). The other half comes with the next `recv()` and says
nothing. `torn` are the requests that were cut where the parser cannot put them together
again: its method is then `notSupported`, or `BAD` if no RTSP/1.0 has come on this
connection, and kept until the next answer; or its URI or CSeq is cut off or lost. What a
request says is a record `Ask` (method, URI, version, CSeq, RTP/AVP, client_port, Session id).

| State | Code |
|---|---|
| `nreq`, `inbox`, `peer` | what the client sent, the socket buffer, the client's end |
| `method`, `uri`, `version`, `cseq`, `income` | `RTSP_class_t`; `cseq` is the CSeq header the number was read from, `income` is `income_packet` |
| `state`, `loading`, `alloc`, `sid` | `Client.state`, `loading_media`, the non-NULL `media_class`, `OurSessionId` |
| `buf`, `init`, `dest`, `fd`, `sockets` | of each track: file in `media_buf`, `init_done`, destination, `RTP_fd`, open sockets |
| `tid`, `live` | `RTP_tid`, and the threads nobody has cancelled |
| `pc` | place of the session thread |
| `reply`, `granted`, `described` | the last reply, and what the replies have promised (history) |
| `quiet`, `fresh`, `torn` | whether the last request came to an idle session, and which requests were torn (history) |

A reply knows the request whose CSeq header was read (`req`) and what it quotes of the
number: all of it, its first digits, or, of `handle_BAD`, nothing.

`Receive` is `recv()` with `parse_RTSP_packet`; `Reject`, `Describe`, `Setup`,
`Play`, `Teardown` are the handlers with their early returns as disjuncts;
`Disconnect`, `Release` and `Stop` are the ends of a session; `BrokenPipe` is a
reply to a connection that has been reset. A `Crash` ends the process.

### SessionLifecycle

What a session promises in five steps on five variables (`phase`, `medium`,
`port`, `stream`, `id`): `Describe` chooses a medium, `Draw` a session id,
`Prepare` gives one track the port it keeps, `Play` replaces the stream of every
track of the medium, `End` stops them. `RtspSession` instantiates it as `Lifecycle`:
the phase is `state` while the thread serves, a port counts once `init_done` is set,
a stream until it is cancelled or the process ends. Everything else (packets in
pieces, files and sockets that fail, handlers that return early) is a stutter.

### H264Stream

The threads that PLAY starts for the video track, and the session's side of
what they share. Thread `t` is the one of the `t`-th PLAY. Its places are those
between accesses to shared state; `Timestamp` is read and written in two steps
(`NextNal`, `SetTimestamp`); the packet is built, given a header and sent in three, and
after `sendto()` the buffer is cleared in a step of its own (`ClearBuffer`: memset, load
and S), between which and the sending a PLAY or a release may come. A
cancelled thread may die (`Die`) only where it waits. Reading freed memory, or one
file's bytes with another file's length, ends a thread in `"wild"`
(`RunWild`); the code gives no meaning to what follows, and the properties say
nothing of it. A unit is `[size, slice, last]`: whether it is a slice, which is all the code looks at, and
whether it is the last of its frame. Bytes are counted, so that
the packets of a unit can be laid end to end (`load.from`). `overlap` says that a
cancelled thread has touched the buffer after the next one was started: what packets hold
and which numbers they carry is stated only until then, because the code promises
nothing of it then. Who sends, and that a stream ends, is stated without that guard.

### ClientRegistry

`main()` and the session threads on `client_list` and `client_num`. A step is one
access: the three stores of a link are one step where no reader can tell them
apart (`AddHead`) and two where it matters (`UnlinkNext`, `UnlinkPrev`); the walk
of `client_locate` ends at a client with the address (`Found`), and the writes to that client
(`Known`) come later, when it may have been freed. `port` is `RTSP_port`, `born`
`creation_time` as a number;
`client_num = client_num ? --client_num : 0` is five accesses in the code the
Makefile's options produce (no `-O`): test, read, write, read, write. `raced`
and `numRaced` record that a step of one operation came between two steps of another.
`pthread_mutex_lock` of the uninitialised local either passes, and then excludes
nobody, or hangs. `pthread_create` may fail (`"unserved"`).

### AacStream

The audio track, laid out as `H264Stream`: thread `t` is that of the `t`-th PLAY, its
places are `start`, `next` (sync word and frame length), `copy`, `count` (the
Timestamp, in two accesses), `head`, `send`, `clear`, `sleep`. A file is where its sync
words are, for each the length its header gives (`len`, bytes 3 to 5), what the same bits say two
bytes further on (`later`), whether it has no CRC (`absent`), and the sample rate.
`get_frame_len` reads `later` where the first header of the file has a CRC: `LenRead` is
what the code reads, `len` what the file says, and the properties compare the two. Two
things are not
as in the video. DESCRIBE stores the size, the media and the rate at three moments
(`ReadFile`, `FileRead`, `SetAacLines`), and may stop before the last. And `load` is a
pointer that each thread advances past the AU header and puts back, so that an old thread
and a new one move it together. Leaving `RTP_buf` or the file is `"wild"`,
dividing by a rate of zero `"fault"`.

### AnnexB, H264Lines

`AnnexB` is `ff_avc_find_startcode`, one iteration of its three loops a step (byte by
byte to an aligned address, word by word, byte by byte; a file starts at an aligned
address, a unit anywhere), with the two loops that call it: `H264_Entrance` cuts a file into
units, `find_sps_pps` looks for the two sets. `H264Lines` EXTENDS it with
`set_H264_Lines`: `remove_Emulation_Bytes` one byte a step over the array it
overwrites, `get_framerate` at the fixed places it looks at, the profile, both
sets in Base64, and then the division by the frame rate in the first slice that is
streamed. A missing set leaves a pointer uninitialised (`"wild"`). Each text goes to an
array of as many characters as its set has bytes, which no text fits (`Overruns`).
What that spoils is the compiler's choice, so `SetLine` is free: nothing, the text of the sequence set,
which then ends as the picture set's does (`ReadBehind`), or the frame of the function
(`"wild"`).

### SharedStatics

The walks of `strtok` calls that `parse_RTSP_packet` and the handlers make (`Walk`,
with the number of calls of each and those whose result is used without a test) and
the three accesses of `find_port`, by any number of session threads. A text is
known by thread and walk, a token by its number in the text; `met` records that
another thread was in a walk at the same time, `clean` that none was in `find_port`.

### MC and proof modules

Each `MC` module gives the constants their values: `MCRtspSession`, `MCH264Stream`,
`MCClientRegistry`, `MCAacStream`, `MCH264Lines` (with it `AnnexB`) and
`MCSharedStatics`. The theorems are in eight modules: `RtspSessionProofs`,
`H264StreamProofs`, `H264ContentProofs`, `ClientRegistryProofs`, `AacStreamProofs`,
`AnnexBProofs`, `H264LinesProofs` and `SharedStaticsProofs`.

## 4. Runs

| Run | Question | Bounds, and why they are enough |
|---|---|---|
| `session_packets` | does a reply answer its request, and is a request answered, wherever packets are cut and joined? | 2 requests out of 7, with what can be missing or malformed; a `recv()` of 1 to 3 pieces or all, ending in each way. What the parser keeps of a request can spoil the next, and `wash_client` leaves nothing but the version for a third. A SETUP is 7 pieces; the buffer holds 10. |
| `session_life` | what do the states promise, and is the session a `SessionLifecycle`? | 6 well-formed requests in any order, over three media kinds and all failures of files and sockets. DESCRIBE, SETUP, PLAY twice over, of different media, is six. |
| `session_id_quoted` | is the Session id checked? (violated) | 3 requests: DESCRIBE, SETUP, PLAY. |
| `session_leaves` | does a client that leaves end only its own session? (violated) | 3 requests; it takes a disconnection before any DESCRIBE. |
| `h264_stream` | packets, numbers, threads | 2 PLAYs (the session allows the video track no more: of a `.264`, then of a container), two files, of different frame rates, with an empty unit, units at the limit and one byte over, and three fragments; numbers wrap at 16, times at 8. |
| `h264_marker` | is the marker where a frame ends? (violated) | the same, of a file with a frame of two slices. |
| `h264_first_seq` | does the first packet carry the announced number? (violated) | the same. |
| `client_registry` | list, counter and lookup | 3 connections, two of one address: a list with a first, a middle and a last client, and two leaving while one is added. Two releases that overlap can leave any link there can be between three. The counter wraps at 4, just above the number of clients. |
| `registry_dropped` | is a known address served? (violated) | the same. |
| `aac_stream` | frames, numbers, threads; what does it take to leave the buffer? | 2 PLAYs and one DESCRIBE behind the first, three files: sound (with bytes before and between the frames, and a frame that just fits), sound with CRC (where the lengths are looked for is once, by accident, the right one), and wrong: cut off, with a rate of 0. Room for four bytes of a frame; headers of 2 and 3 bytes; numbers wrap at 16, times at 8. |
| `h264_lines` | are units and sets found, does the SDP say what the encoder coded? | all files of zeros and ones of 0, 3, 4, 7, 8 and 12 bytes: every place of a start code on three words; 190 coded files, the sets in both orders, with and without emulation bytes, doubled or missing, at rates of less than a frame a second too. The timing is one byte wide behind the third. The arrays lie every distance apart at which one text can reach the other. |
| `shared_statics` | what can a thread rely on that no other has met? | 2 threads, 3 walks each, of one, two and three calls; ports wrap at 8, after three calls of `find_port`. Threads are symmetric. |

Deadlock is not checked: a session that has ended, a stream that is over, and a
server whose connections have all come and gone rightly stop.

The largest run, `session_life`, has 3.2 million states; `h264_stream` 780,000,
`client_registry` and `aac_stream` 670,000 each, `h264_lines` 360,000, `session_packets` 230,000.

What the violated runs show is recorded under "findings" with the line of the code
and the comment it contradicts: the Session id of a PLAY is compared with nothing; a client
that leaves before DESCRIBE ends the process; the marker is at the end of every slice,
where the comment has the end of a frame; the first packet carries the announced sequence number
with its bytes swapped, plus one; a connection from a known address is left alone.

### What the guards leave out

Where two threads write one thing without a lock, the models have the behaviours and the
properties stop. `ListExact`, `OneServedPerIp`, `DroppedOnlyIfKnown` and `UseAfterFreeNeedsRace` hold
until two operations on the list overlap, `CountExact` until two changes of the counter do,
`WalkIsOwn` of walks that no other has met, the contents and numbers of packets until a
cancelled thread touches the buffer of the next (`overlap`). They show that it takes an
overlap, and which, to break what they say; what is broken then is no property's subject.
`OnlyLatestStreams`, `StreamEnds`, `LookupEnds`, the types and the half of
`PortPairsApart` that keeps pairs from overlapping half have no such guard.

### Fairness

Only the server's own threads are fair, and only weakly: the scheduler runs a
thread that can run. In `RtspSession` it is the session's thread (`Session`);
clients need not send. In `H264Stream` each streaming thread; not the session, which may
never PLAY. In `AacStream` the same. In `ClientRegistry` `main()` and a release that has begun; a
client need not leave. In `H264Lines` the one thread there is (`LinesNext`). The scheduler does nothing
more than that: no `recv()` is assumed to return all of a request.
`FreshRequestIsAnswered`, `StreamEnds` (of both streams), `LookupEnds` and
`DescribeEnds` are the liveness properties.

## 5. Proofs

Assumptions are those of the modules, named after them: the constants have their
types (`SessionAssumption`, `StreamAssumption`, `AacAssumption`, `AnnexBAssumption`,
`LinesAssumption`, `StaticsAssumption`), the connections are finitely many and
`client_num` is wide enough to count them (`RegistryAssumption`), ports start even and
their range is even (`StaticsAssumption`), and `None` is no packet and no place
(`NoneAssumption`, `AacNoneAssumption`, `NonePlace`). They bound no number of requests, files, units,
plays, threads or clients.

**Session** (`RtspSessionProofs`). `TypeInv` is `TypeOK` and inductive as it
stands. `ReadyHasTransport` is not: that PLAY finds a file and a socket
rests on what SETUP checked, on a socket that is open for every granted track, and on
no handler taking either back. `SessionInv` says so in parts:
`TransportAsGranted`, `Backed` (an initialised track is allocated and has a
file), `ReadySetUp`, `PlayingStreams`, `StreamsNamed` (a live thread is the one
`RTP_tid` names) and `GoneSilent`. From it follow `ReadyIsComplete`, `GrantKept`,
`OneStream`; `DescribedLoaded`, `Stuck` and `SessionIdStays` add an argument
about one step. `AnswersInOrder` rests on an invariant of its own, `InOrder`: the
CSeq headers in the field, the packet and the socket buffer are in the order in which they were sent.
`AnswersItsRequest` has `FreshInv`: of a request `r` that came to an empty buffer either
nothing is read (`Unread`); or its method is taken in (`Taken`), the fields are its `Own`, and, unless it is
torn, they and the buffer together still have all that it said (`Whole`); or it is
answered, and what is left of it has neither method nor URI and so calls no
handler (`Rest`). `Sent` says that what is torn or in the buffer was sent before.

**Refinement** (`RtspSessionProofs`). `ImplementsLifecycle` goes action by
action: each is a step of `SessionLifecycle` under the mapping or leaves the mapped
variables alone. It rests on `TypeInv`, `SessionInv` and `InOrder`, and on `Older`:
the threads that run are older than the next, so that PLAY starts new ones.

**Stream** (`H264StreamProofs`). `ThreadInv` says where a thread is in its unit
(`AtNal`, `Rest`, `Whole`, `Cut`, `Piece`): that offset and rest add up to the
unit, and that what is in the packet is what the place requires. With the types this
gives `PacketsFit`. `Silenced` (every thread but the latest is cancelled or has
ended) and `FreedGone` give `LatestStreams`: deferred cancellation is enough,
since `sendto()` is itself a cancellation point.

**Content** (`H264ContentProofs`). `PacketsWellFormed` and `NalsAreWhole` compare a
packet with the one before. `ContentInv` holds for the latest thread as long as no
cancelled thread has touched the buffer (`overlap`): what is in `RTP_buf` is what
the place says (`Opened`, `Filled`, `Headed`), also between `sendto()` and the clearing of
the buffer (`Handed`), and the last packet is the one before this (`Follows`, `NotAhead`,
`Fresh`, `Long`).

`HeadersDoAdvance` adds `HeadInv`: at each place the Timestamp, the sum a thread has
read and not stored, and the header are what the last packet and the slice in hand make
them (`Stamped`), so are the numbers (`Numbered`), as long as no PLAY has drawn a new
Timestamp in between, which the numbers of the draws tell (`Drawn`).

**Audio** (`AacStreamProofs`). The same argument for the other track. `Silenced` leaves a
thread that is not the latest nothing but to die, or to disturb (`OthersDie`). Until
that happens `Content` says what is in the buffer at each place: a frame at the first
sync word behind the last packet (`Follows`, `Between`, `Opened`, `Filled`); `Stamped`,
`Numbered` and `Drawn` are as above. `PacketAsRead` is about the length the code read;
that it is the one the header gives, `PacketIsFrame`, is shown of files without CRC, and so is
where the next frame is looked for. For `TroubleHasCause`, `CauseInv` says that
only a DESCRIBE behind a PLAY takes size and media from under a thread, and
`StaysInside` that the thread of a sound file without CRC then has no step into `"wild"`. A file with CRC
may be sound and stray all the same.

**Registry** (`ClientRegistryProofs`). `TypeInv` has the places of the connections
(`Held`, `Ordered`). `CountInv`, for `CountIsExact`: until two changes of `client_num`
race, at most one is under way, and what it has read is still there. `ListInv`, for the
others, holds until two operations race: at most one operation is under way
(`Alone`), the links are those of the clients in order but for the ones that
operation is about to store (`Links`), and addresses differ, main's walk having seen
none of its own behind it (`Addresses`). `LeadInv` holds with races as well: every link,
also that of a client taken out and one that a release read long ago, leads from an older client
to a younger one or to the head (`LeadsOn`), and to none that is still to be linked (`LinkedOnly`,
`Births`). `list_del` joins a client older than its own to one younger, whenever it read them, so
that no order of the stores turns a link round.

**Start codes** (`AnnexBProofs`). `Finding`: no start code between the unit and the
pointer, wherever the three loops stand. `Calling`: the callers come from behind a start
code and the next. `Kept`: a set that was found is the first of its type, and
one that was not has none behind it. From these follow `FindsTheFirst`, `SkipIsSafe`,
`SetsAreTheFirst`, `UnitsAreInOrder`. **Lines** (`H264LinesProofs`). `LinesKeepSearch`
carries them over to `H264Lines` (its steps are steps or stutters of `AnnexB`);
`RemovalInPlace` shows that the index written never overtakes the one read, so that the
tests see bytes of the file; `Base64RoundTrip` is about functions on sequences of every
length, four characters for three bytes. That is one more than fits: `TextsOverrun`.
`LineIsAsCoded` and `RateIsAsCoded` compare what comes out with what the encoder had: the bytes that
go into Base64 are the encoder's; of a function that outlives its overrun, the text of the picture
set decodes to it, and that of the sequence set does, or is the end of the other; the rate
is that of the set, rounded down, and the process ends by it only where that is 0. The encoder is a recursive function over the places
of the set (`Escaping`); that it is defined everywhere, and lays the bytes out with a 3
behind every two zeros that need one, are inductions over places, done for sets of places
(`NoHole`: a set of numbers with 0 that goes on from each place to the next has no
hole), since the library's induction takes an operator. `ContentInv` then says of each
step of the removal that what it has written is the set up to some place, and what it
is about to read is the coded set from there on (`Restoring`, `InStep`), and later that
what has been restored is in the line, the profile and the rate.

**Statics** (`SharedStaticsProofs`). `WalkInv`: a thread in a walk that none has met is
alone in one, and the place kept, or the one its call has taken, is its own.
`PortInv`: the counter is even, and above every port that a call none has met was given,
so that those numbers increase; `EvenRemainder` keeps what is announced even, so that pairs never half overlap.

**Coming to an end.** A liveness property says that the scheduler runs a thread and
that what the thread does leads somewhere. The second half is safety, and proved for each
of the five. `RequestsGoOn`: a well-formed request that waits in an idle session has all its
fields to itself (`WaitingIsComing`, from `FreshInv`), and each step of the session's thread
takes it on. Until its CSeq is read it is `Coming`: the buffer has nothing but its pieces
in front of that header (`Heading`), and their number, a cut one counting for less, goes down; then it is
`Complete`, then answered, in at most nine steps, unless a cut tears it or the
session ends; what others do leaves it where it is.
`StreamsComeToEnd` (of both streams): each step of a streaming thread brings it nearer the
end of the file (`Nearer`: a later unit or frame, less of the same one, or a later place in
its round; a fragment is never empty, an empty frame still moves the pointer), the
others at most cancel it, and a cancelled thread has only so many steps to its next
cancellation point (`UntilDead`). `LookupGoesOn`: nobody is made while `main()` walks, and each step of the walk goes to a
client made later than the one before, or to the head, raced or not (`LeadInv`). `SearchEnds` and `LinesEnd`: a count of the iterations left
(`StepsLeft`, `LinesLeft`), linear in the length of the file, goes down with each; between
two searches this needs `Turning`: the search has stopped at the end or at a start code, and
the caller's pointer is inside that code until it has skipped it.

**Only model-checked.** That under the fairness stated these steps are taken, that is
`FreshRequestIsAnswered`, `StreamEnds` of both streams, `LookupEnds` and `DescribeEnds` as they
stand: liveness and ENABLED are beyond the prover.

## 6. Not modelled, and why

* The wording of replies and the fixed lines of the SDP: no property is about it.
* The bits of an ADTS header: a frame is its sync word, `protection_absent` and its length,
  where it is and where the code looks for it.
* What the texts of `set_H264_Lines` overwrite beyond the two arrays: that depends on the
  layout of the stack and is `"wild"`.
* The length of a packet: `recv()` may fill `income_packet` to its last byte, and the copy
  of it then has no NUL. Headers in another order than CSeq, Transport, User-Agent; a text that
  is cut more than once, which says what one says that is cut once; texts that
  `strstr()` finds inside other words.
* STAP-A aggregation in `H264_LoadNAL`: it needs `aggregation`, which nothing sets.
* `server_init` (runs once, alone), `client_realeaseAll` (called by nothing).
* Failing `calloc`: where the code does not check, the process ends.
* `tcpInit` (runs once), the static text of `dateHeader` (every thread writes the same
  date), the division `random() % tv_usec` (a divisor of 0 once in a million).
* A weaker memory order than that of the accesses: the models interleave accesses.
* `src/Client`: a vendored MPlayer and live555, third-party code that the server was
  tried with; it holds nearly all lines of the repository. Build files and logs.
