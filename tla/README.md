# A verification of boost.asio.study in TLA+

The repository is a collection of network programs on Boost.Asio: a chat, a
multicast sender, a ping, an http server and two http clients, echoes over tcp
and udp, a daytime client, and some samples that call the library once.  This
directory holds TLA+ models of the ones that have a logic of their own, the TLC
runs that check them on small instances, and proofs, checked by TLAPS, of what
they promise for every value of their constants.

1. [The system](#the-system)
2. [How the models are written](#how-the-models-are-written)
3. [The models](#the-models)
4. [The runs and their bounds](#the-runs-and-their-bounds)
5. [Fairness](#fairness)
6. [What is proved](#what-is-proved)
7. [What is only model-checked](#what-is-only-model-checked)
8. [What the code does that a reader may not expect](#what-the-code-does-that-a-reader-may-not-expect)
9. [What is not modelled](#what-is-not-modelled)
10. [Plan](#plan)

To check: `tlc -config <X>.cfg <M>` for the pairs of the table of runs, and
`tlapm <M>_proof.tla`.

## The system

There is no common program.  Each part below is a program or a pair of them;
only the http server is spread over several files.  Paths are from `src/`.

| part | sources | state | operations |
|---|---|---|---|
| chat server | `examples/chat/server.cc` | the room: participants and recent messages; per session the read under way, the queue of messages to write and the write under way | accept; read header, read body; deliver to the room; write; leave |
| chat client | `examples/chat/client.cc` | socket, queue of lines, message being read; a main thread and an io thread | post a line, post the close, join; connect, read, write |
| chat message codec | `examples/chat/msg.hpp` | a header of four bytes and a body | encode, decode, limit the length |
| multicast sender | `examples/multicast/sender.cc` | one message counter behind a lock, a sender per thread, one io_context | send, wait, go on or stop |
| multicast receiver | `examples/multicast/receiver.cpp` | a socket | receive, print |
| ping | `examples/ping/ping.cpp` | a socket, one timer, the last sequence number, when it was sent, how many replies it had | send and wait for the timeout, wait for the next second, receive and print |
| ping packet headers | `examples/ping/ipv4.hpp` | none | decode a header |
| http connection and request parser | `examples/server/3/connection.*`, `request_parser.*` | buffer, parser state, request, reply | read, consume a byte, answer |
| http request handler | `examples/server/file_handler.*` (the same code in `1/request_handler.*`) | none between calls | decode the uri, check it, read the file |
| http reply and mime types | `examples/server/reply.*`, `mime_types.*` | none | stock replies, buffers of a reply, type of an extension |
| http server | `examples/server/server.*`, `main.cpp` | acceptor, signals, thread pool | accept, stop, join |
| http connection manager | `examples/server/1/connection_manager.*` | a set of connections | start, stop, stop all |
| http client | `examples/http_client.cc` | two streambufs, a socket | resolve, connect, write, read line, read headers, read content |
| echo server | `echo_server.cc` | per session one buffer | accept, read some, write all |
| echo client | `echo_client.cc` | a request and how much came back | connect, write, read some |
| echo server's tracking twin | `examples/server.cc` | as the echo server, and one block of handler memory | as the echo server, allocate, deallocate |
| http stream client | `examples/http.cc` | one `tcp::iostream` with an expiry | connect, read line, read headers, read the rest |
| udp echo | `examples/udp` | one buffer | send to, receive from |
| futures | `examples/future/client.cc` | a future, an io_context on a thread | a chain of operations, get, stop, join |
| daytime over tcp | `examples/future/server.cc`, `time_client.cc` | none | accept, write a line; connect, read it |
| timers | `timer.cc`, `examples/deferred` | a timer, a counter | wait, wait again |
| one-shot samples | `examples/buffer.cc`, `showip.cc`, `socket.cc` | none | one call |
| documents | `README.md`, `boost.asio.md`, `examples/server/README.md`, `index.html` | none | none |

How the parts interact, which behaviours are hard, and what makes each correct:

| part | talks to | hard because | correct when |
|---|---|---|---|
| chat server | clients, by messages; sessions with each other, by `chat_room` | every socket completes in its own order, and one operation of a session fails while the other is under way | one write at a time per socket; nobody in the room is forgotten; everybody reads one unbroken piece of one log |
| chat client | the server; its two threads with each other, by `post` | lines come while it connects, writes, closes or has stopped; a handler runs later than its operation ends | no line is lost from its place; closing is final; the program ends |
| chat message codec | server and client, as the format between them | four bytes are read for a number whatever they are | the reader is never out of step and never reads more than its buffer holds |
| multicast sender | its threads, by a counter that is read without its lock | every thread may see an old value; a sender lives on the stack of one thread and is run by others | no more than n messages, and not fewer than were due; an end |
| ping | a host and its network, by packets | the timer's handlers cannot tell a wait that was cancelled from one that ran out; replies come late, twice, or never | a reply is matched with its request; requests keep their distance; a timeout is one |
| http connection, parser | a client, by chunks cut anywhere | state must survive between chunks; folded headers | it says good of requests and bad of what can no longer be one |
| http request handler, reply | the connection, by a call | encodings at the end of a uri, a check before or after decoding, the last piece of a file | the path opened is the path meant, and the file is answered whole |
| http client, stream client | a server, by pieces cut anywhere | what one read leaves in the buffer is the next one's; a minute that runs out under any read | exactly the content is shown, and the program ends |
| ping packet headers | ping, by a packet | a length that the packet itself gives; a packet that is cut | the reply is read from where it begins |
| http server | connections, signals, threads | accepting stops for errors; stopping races handlers | it goes on accepting until it is stopped, and then all threads end |
| echo server and client | each other | one buffer both ways; each may wait for the other | bytes come back in order, and both end unless the line is longer than they can hold, or none comes |
| tracking twin | as the echo server | one block for many allocations | a block in use is not given twice |
| udp echo | each other, by datagrams | datagrams are lost, doubled, overtaken, forged | what is shown is what was sent, unless a stranger sent it; the wait has an end |
| futures | a service, by datagrams; its two threads, by futures | the second thread has nothing to run between two operations | the program ends unless a datagram is lost |

Everything in this code that is hard to test is listed, by its line, under
`hazards` in `PROJECT.json`, with the properties that would catch it.

## How the models are written

**A handler is an action.**  Asio programs are handlers; where one thread runs
the io_context (chat server, chat client's io thread, ping, http client, echo
server) a handler runs alone to its end, so it is one action with everything it
calls.  What interleaves is the order in which operations complete, and with
which outcome.  An operation under way is a piece of state (`reading[s]`,
`inflight[s]`, `op[t]`, `stage`): the call that starts it sets it, and the
action that is its handler is enabled by it.  Every handler has its error
outcome at any moment its operation is under way.

Four programs need more, and two less:

* In the chat client, what a second thread posts and what was already in the
  queue run between the completion of an operation and its handler.  There the
  io_context's queue `ready` is modelled, first in first out, and a completion
  and its handler are two actions.
* The multicast sender has several threads in `run()`.  `do_send` is atomic by
  its lock; the rest of a handler touches its own sender only, but for the
  counter read without the lock.  That read is undefined behaviour, taken as a
  choice of any value from the one this sender left there to the one that is
  there now.
* The http server runs handlers on several threads at once.  There a handler is
  taken from the queue, uses what it is called for, starts the next operation
  and returns, each an action: the operation it starts can complete, and its
  handler run and end, on another thread before the first has returned.  In
  the daytime client `main` and the io thread are two processes.
* The http connection has one operation under way at a time and shares nothing,
  so a turn of the parser's loop can be an action: nothing else could see
  whether its turns come together or apart.  The same is true of a call of the
  http request handler.

**Names** are those of the source without the trailing underscore; where a name
would clash with TLA+ or with its own members the underscore stays.

**Data** is abstracted to what is told apart: a chat message is a model value,
where order and loss matter, and only a length, where framing does; a byte is a
class of bytes that the parser treats alike; a status line is one token.
Variables and fields marked *history* in the modules are not in the program: no
action's guard tests them, but for bounds that are named so.

**Asio's own behaviour** is taken as the code relies on it: an `async_write` is
done when its whole buffer is, or fails; closing a socket aborts what is under
way and starts fail at once; `async_connect` over endpoints closes and reopens
the socket for each and goes on only while it is open; `run()` returns for ever
when there is no handler and no operation left; `async_read_until` reads past
what it looks for.  These definitions are in the modules that use them.

**Several programs in one run.**  Programs that belong together (the two http
clients, the three echoes, the two programs that join threads) are modules of
their own, and their `MC` module lets a behaviour choose one of them; the
others rest in their initial states.  A program's fairness asks nothing of one
that rests, or is stated for the program chosen.

**Mutants.**  Definitions preceded by the comment `Mutant` are not part of a
model.  Each is what a mapped definition would be with a plausible bug; put in
its place it makes TLC find the property that is to catch it violated.  They
show that the properties say something about the code.

## The models

### ChatServer and ChatBroadcast: the chat server

`ChatBroadcast` is what the server promises, with no queue, socket or handler:
a growing log; a session that joins is promised the last `MaxRecent` entries
and then all that is posted while it is a member; it sees what it is promised
in order; a session whose connection breaks sees nothing more; one that leaves
still gets what it was owed.

`ChatServer` is the program:

| code | model |
|---|---|
| `chat_server::do_accept` and its handler; `chat_session::start` | `Accept`, `AcceptError`; `accepting` and `backlog` |
| `chat_room::join`, `leave`, `deliver`, `recent_msgs_` | `Join`, `Leave`, `Deliver`, `Recent` |
| `chat_session::deliver`, `write_msgs_` | `Queued`, `Writing`, `write_msgs` |
| `do_read_header`, `do_read_body` | `ReadHeader`, `ReadBody`, `ReadError`; `reading` |
| `do_write` | `WriteDone`, `WriteError`; `inflight` |

`inflight[s]` is a sequence, not a flag: nothing in the model forbids two
writes on one socket, so that there is at most one is a theorem.  `Connect` is
a client.  `base`, `log` and `sent` are history.

`ImplementsBroadcast` is the refinement: members are the participants, a
session is broken when its queue is not empty and nothing writes it, it was
promised what was sent and queued, and has seen what was sent.

### ChatClient: the chat client

Two threads.  `TypeLine`, `EndInput` and `Join` are `main`; `ConnectCompletes`,
`ReadCompletes` and `WriteCompletes` are the network, which ends operations and
puts their handlers at the end of `ready`; `HandleWrite`, `HandleClose`,
`HandleConnect`, `HandleRead`, `HandleWritten` are the handlers, and `Return`
is the return of `run()`.  A socket is *connecting*, *connected*, *refused*
(open, but its attempt failed: what is written to it fails) or *closed*.
Lines may be typed from the first moment, as `main` does not wait for the
connection; then the write fails with the attempt.

### ChatFrame: the message codec

`Encode` is `sprintf("%4d")`, `Decoded` is `strncat`, `atoi` (`Number`, a
recursive function of the digits) and the conversion to `size_t` in
`decode_header`, with a word of 16 bits in place of 64: four bytes hold no
number below -999, so either turns a negative number into one far above the
limit.  The byte between `sprintf`'s blanks and digits is `"blank"`.  `frames`
is history: what was written, each with where it is `from` in the stream.  The
writer is the client's `main` (which cuts nothing: a line longer than 512 ends
its input), or any other program that sends four bytes of its own.  The reader
is the pair of reads that server and client share.  ChatServer and ChatClient
stand on this: their messages are whole.  Its initial states, steps and
behaviours are `FrameInit`, `FrameNext` and `FrameSpec`, for it shares a module
of proofs with the client.

### MulticastSender: the multicast sender

`main` makes `thread_num` threads (the square root of n, rounded down) and
joins them.  `Start` is the thread's function up to `run()`; `Sent` and
`Timeout` are the handlers of a sender, `Fail` either with an error; `Finish`
stops the io_context when the last sender waits for nothing; `Return` is the
end of a thread, its sender destroyed with its stack.  A thread that starts
after the context has stopped sends its one message and returns.

### Pinger and Ipv4Header: ping and the header before its packets

`Ipv4Header` is the class of `ipv4.hpp`: a header is a sequence of bytes, and
each accessor takes its field from them; reading it fails where the source sets
the stream's failbit, or the packet ends too soon.

Time passes in ticks (`Tick`), and handlers may run any number of ticks late.
The timer's handlers take no error code, so a wait that was cancelled and one
that ran its time end alike: `cancelled` makes the handler due at once.
`HandleReceive` is the handler of a packet, which has one of `Forms`: a reply
with options in its header or without, one cut within the reply's own header,
one to another process, and the request itself, which who pings its own host
receives too.  From the bytes it decides where the reply begins, what it prints,
and whether it is the reply that is expected; what is not changes nothing.
`ReceiveFails` is the handler of a receive that fails, which the code takes for
an empty packet.  The reply's own header is its fields, for `icmp_header.hpp` is
not in the repository.  A reply in `net` has its number and its age; the network
loses and duplicates it and delivers none older than `Life`.  Sequence numbers
come round at `SeqMod`.

### HttpConnection and HttpGrammar: connection and request parser

`Goto` is the switch of `request_parser::consume`, a byte that has no case
being bad; `Store` is what the same switch appends to the request.  `Receive`,
`Consume` and `Finish` are a read, the turns of `parse`'s loop and the rest of
the handler; `Written` ends the connection.  Of the version's numbers the
digits are kept, not the arithmetic, which nothing reads.  The result of the
request handler is a choice; `FileHandler` is the module about it.

`HttpGrammar` says which texts are requests, by lines and not by bytes, and
what request a text makes.  It is the reference the parser is compared with.
A blank is the byte `"space"`, and the headers of a text are a recursive
function of the place in it (`TheHeaders`), one line at a time (`WithLine`).

### FileHandler and Reply: request handler and reply

`Reply` has the two tables of `reply.cpp` as they are written: the status lines
and the stock pages of each status, with `stock_reply` and `to_buffers`.  A line is
its number and its words; a page is its title, with its number, and its heading.

A uri is a sequence of units, each one way of writing a byte of a path, and a
tail that may be broken (a blank is the byte `"space"`).  `Decode` is a turn of
`url_decode`, with what `istringstream >> hex` makes of one, two or no digits
and of a sign; then the checks (`IsProper`, `Completed`), the opening of the file
that `c_str()` names (`CString`: it ends at the first zero byte, which a uri can
encode), the loop over the file, which a read that fails ends (`ReadFails`), the
type by its extension, and the reply.  `HandlerInit`, `HandlerNext`
and `HandlerSpec` are its initial states, steps and behaviours.

### HttpClient and HttpStream: the two http clients

`ClientSpec` is the client of `http_client.cc`.  `stage` is the operation under
way.  The server sends a response of its choice,
in pieces, and closes after any byte of it.  `response_` is the streambuf and
what is left in it between handlers.  `muted` is `cout`'s failbit: writing an
empty streambuf sets it, and everything after is lost.

`HttpStream` (`StreamSpec`) is the client of `http.cc` with the same server: one
thread, one `tcp::iostream` read with `>>`, `getline` and `rdbuf`, and 60
seconds for all of it.  The expiry closes the socket under whatever read is
under way, and every read after it finds the end of the stream (`StreamEnds`).

### Echo and EchoTwin: the echo servers and their client

Clients are `main` of `echo_client.cc`, each blocking in one call at a time; with
the connection made it asks for a line until one is not empty (`Types`), or for
ever when its input has ended (`EndOfInput`, "spinning").  Sessions are the
server's, `buffer` their one buffer.  A connection holds `UpWindow` bytes to the
session that it has not read, and `DownWindow` to the client.  `Stuck` is the
deadlock of the two: both directions are full and both write.

`EchoTwin` adds what `examples/server.cc` has besides: each session's
`memory` is `handler_memory`, from which the operations of `async_write` take
theirs, each `write_some` anew and of a size that fits or not; it accepts once,
and when that session has ended `run()` has nothing left and the program exits
(`Exit`), which ends the connections that wait.

### UdpEcho: the udp echo

`Serve` is a turn of the server's loop, `SendRequest` and `ReceiveReply` the two
calls of a client, `SendThrows` and `ReceiveThrows` their exceptions.  `net` is the set of datagrams
under way: any may be lost, read before an older one, or read and found again;
a stranger may send one to a client that waits.  `reply_length` is not
initialized when it limits the client's buffer, so the limit is any length.

### HttpServer: the http server's threads

`Spawn` and `Join` are `server::run`, `Take`, `Use`, `Start`, `Leave` and
`Return` a thread in `io_context::run`.  `outstanding` has the operations under
way, of the signals, the acceptor and each connection; `Complete` puts their
handlers in `ready`.  `todo` is what the handler on each thread has still to do
(`Does`): use what it is called for – the bytes read, the parser, the reply, the
new socket – and then start the next operation, in that order.  With the last
of a connection's operations and handlers its socket is closed (`Held`).  What a
connection reads is `HttpConnection`'s matter: here it is enough for an answer,
or not.

### FutureClient: the daytime client

`caller` is what `main` waits for, `promise` the state of the future it waits
on, `worker` the thread in `run()`.  `Work` counts the operation under way and
the work guard.

## The runs and their bounds

All runs pass but the one marked so.  States are distinct states.

| run | instance | checks | states |
|---|---|---|---|
| chat_server_safety | 3 sessions, 2 bodies, symmetric; 2 recent messages; 3 posted | one write per socket, from the front of its queue; participants are read from and written to; recent messages; each session is sent an unbroken piece of the log; a broken session stays out | 100,659 |
| chat_server_live | 2 sessions, 2 bodies, 1 recent message, 3 posted | every connection is served; the server implements `ChatBroadcast`, with its delivery of what is promised | 29,431 |
| chat_client | 2 lines, 3 typed; 2 endpoints; 2 messages read | every line in its place; one operation of a kind; closed for good; `join` returns; lines go out | 69,095 |
| chat_frame | lines of 0–12, 95–105 and 500–515; 4096 headers of others; 2 messages | no header asks for more than the buffer; reader and writer are in step | 19,018 |
| multicast_sender | n = 10, 3 threads | at most n; enough sent; an end | 26,643 |
| ping | timeout 3, gap 1, 5 numbers, replies live 4, 4 forms of header | no reply mistaken, and printed as it came; gap kept; timeouts real; goes on for ever | 5,495 |
| http_connection | buffer 2, texts to 25 bytes, parts of 1 byte out of 4 classes, 2 headers | good, bad and the request against the grammar; `headers.back()` defined; answers only what it knows | 64,193 |
| http_client | both clients; 0 (stream client) or 2 headers, content to 4, pieces to 7 | all content that came is shown and nothing else; an end | 276,209 |
| http_client_no_headers | no headers | **violated**: the blank line ends the headers | – |
| file_handler | paths to 4 bytes, files to 5, buffer 2; every status | decoding; the path opened; files answered whole, or as far as they were read; a reply's line, headers and page agree | 1,128,072 |
| echo | 2 clients each; tcp: lines of 4 and 5, buffer 2, windows 2 and 1, operations that fit the memory or not; udp: lines of 0 and 1, buffer 2 | every byte in one place and in order; only a long line makes client and session wait for each other; memory goes back; a reply is the client's own text or a stranger's; clients and sessions end but for the exceptions named | 125,732 |
| threads | 2 threads, 2 connections; the daytime client | nothing of a connection is touched by two at a time; connections are accepted; all threads end and are joined | 69,412 |

Why the bounds are enough:

* *Chat server.*  With three messages and a limit of two or one,
  `recent_msgs_` is below, at and above its limit, and a queue holds up to
  three messages with a write under way.  Three sessions: one to post, one to
  join late, one to fail.  What needs more of either is covered by the proofs,
  which have no bound on sessions or limit and any bound on the log.
* *Chat client.*  Three lines: one being written, one queued, one posted and
  not yet run.  Two endpoints: one failure that goes on, and a last one.
* *Chat frame.*  The lengths are those about which the number of digits and the
  limit change.  The header bytes are one of each kind `atoi` tells apart, with
  the digits that make the numbers at zero, the limit and above.
* *Multicast.*  Three threads is the first number with a middle one, and n = 10
  is between two squares, so rounding matters.
* *Ping.*  The forms of a header are those the code treats differently, and the
  identifier has two different bytes.  The order of the constants is what matters (gap < timeout; a reply
  outlives a timeout; the numbers come round later than a reply lives), and
  they keep the code's.  A reply lives longer than a timeout, so late replies
  meet the next requests.
* *Http connection.*  A buffer of two cuts texts at every place.  25 bytes hold
  the shortest request with a header and its continuation; that a continuation
  is put behind a value that is not empty takes more, and is covered by the
  proofs (`AnswersAreRight`).  The bytes
  within a part are a digit (a token's byte like a letter), a separator with a
  role, a blank and a byte above 127; all 14 classes are tried at every place,
  and those outside the sample are followed where they lead to bad or to the
  next part.
* *Http client.*  Pieces of seven bytes hold a line and part of what follows;
  content of four holds a blank line inside the content.
* *File handler.*  Four bytes hold `/..`, each byte encoded or not, and one more,
  a zero byte before or behind a slash, and a name with an extension behind a
  dot or behind a zero byte.  Files of none, less than, exactly and more than
  two buffers.  No uri holds `0x` after a percent.
* *Http server.*  Two threads: one that has started an operation and has still to
  return, and one that takes that operation's handler; or one that runs the
  signal's handler, and one in the middle of another or not yet begun.  The
  proof is for any number.
* *Echo.*  Over udp two clients are enough for an answer to go to the wrong one.
  An operation's memory is below or at the size of the block.  Over tcp, with
  two bytes held one way and one the other, a line of four never makes client
  and session wait for each other and a line of five may.

`CHECK_DEADLOCK FALSE` is said where the program may stop: the chat client, the
codec and the http clients end, and so do the file handler, the echo clients, the
server that is told to and the daytime client.

## Fairness

Weak fairness only, and only of what the program or its environment really
keeps doing.

* *Chat server:* the accept handler of a waiting connection, and a write's end
  (the peer reads, or its connection fails: TCP does not leave it open for
  ever).  Nothing makes a client connect, send or close, and accepting may fail
  any number of times in between.
* *ChatBroadcast:* what is pending is seen, or the connection breaks.
* *Chat client:* both threads run, and an attempt to connect and a write end.
  No line need be typed and no message need come; a read need not end.
* *Multicast:* threads run, sends complete, timers expire.
* *Ping:* time passes, and the timer's handlers run.  Replies need not come.
* *Http client:* an operation ends.  The server sends what it sends and closes.
* *Http stream client:* a read ends, at the latest when its 60 seconds do.
* *Echo:* a client that has its line runs, the accept handler runs, the
  server's handlers run; the twin exits when it has nothing left.  Nobody need
  start a client or type a line.
* *Udp echo:* the server serves the datagrams of each client, and a client that
  waits receives one that comes.  The network may lose any.
* *Http server:* handlers end; some thread that is free takes the next handler,
  not each (the context's concurrency hint is 1, so it wakes no second thread
  for it), and `stop` wakes all; a waiting connection is accepted.
* *Daytime client:* both threads run, an operation ends, the service answers or
  a datagram is lost.
* *Http connection, file handler, codec:* none; their properties are safety.

## What is proved

For every value of the constants under the assumptions named, by TLAPS.  All
safety invariants and action properties of the runs are theorems.

| module | theorem | of the runs' properties |
|---|---|---|
| ChatServer_proof | NoOverlappingWrites, NobodyForgotten, RecentCorrect, UnbrokenPieces | OneWriteFromFront, ParticipantsServed, RecentIsEndOfLog, PieceOfLog |
| | TypeCorrect | only proved |
| | BrokenStaysBroken | BrokenForGood (an action property) |
| | Refinement | `SafetySpec => Broadcast!SafetySpec`, the safety part of ImplementsBroadcast |
| ChatBroadcast_proof | EverybodySeesTheSame, NobodyLeftBehind | only proved, of every behaviour the server's refines |
| ChatClient_proof | OneOperationOfEach, LinesKeepTheirPlaces | OneOfEach, EveryLineInItsPlace |
| | ClosingIsFinal | ClosedForGood (an action property) |
| | TypeCorrect | only proved |
| | EveryHeaderFits, ReaderKeepsStep (of `ChatFrame`) | FitsBuffer, InStep |
| | DecodedIsEncoded (of `ChatFrame`) | only proved: every length to 512 is decoded as it was encoded |
| MulticastSender_proof | NoMoreThanN, NoFewerThanTotal, SendersOverrunOnce | AtMostN, EnoughSent; the last is only proved |
| Pinger_proof | RequestsKeepTheirDistance, TimeoutsAreReal | NoLessThanGapApart, TimedOutRightly (action properties) |
| | NoReplyIsMistaken | NotMistaken |
| | FirstReplyInterrupts, FieldsAsLaidOut | only proved |
| HttpExchange_proof | HeadersBackIsDefined | BackIsDefined |
| | GoodIsRight, BadIsRight, AnswersAreRight | GoodIsARequest, BadIsHopeless, AnswersWhatWasSaid, for texts of any length |
| | ClientShowsWhatCame, StreamShowsWhatCame | ShownIsWhatCame, of the two clients |
| HttpServer_proof | NeverTwoAtATime | OneAtATime |
| | TypeCorrect | only proved |
| | UrisAreDecoded, OnlyProperPaths, FilesAreAnsweredWhole, RepliesSayWhatTheyAre (of `FileHandler`) | DecodedRight, OpensProperPath, WholeFile, RepliesAgree |
| Echo_proof | EchoesAreExact, TwinEchoesAreExact | EchoIsExact, of the echo server and of its twin |
| | OnlyLongLinesDeadlock | OnlyLongLinesStick |
| | EveryWriteReturnsItsMemory | MemoryIsReturned |
| | RepliesAreEchoes | ReplyIsAnEcho |
| | TypeCorrect, TwinTypeCorrect, UdpTypeCorrect | only proved |

A module of proofs is about programs that belong together; `ChatClient_proof`
is about the client and the codec it writes through, `HttpServer_proof` about
the server's threads and the request handler they run, `HttpExchange_proof`
about the parser at one end and the clients at the other.

**Assumptions.**  All are about constants and are evaluated by TLC in every run.

* `MaxRecentAssumption`, `MaxLogAssumption`, `MaxLengthAssumption`, the
  `BoundsAssumption`s and `ConstantsAssumption`s: the bounds are naturals, and
  what is a size is not zero (the broadcast's theorems have the first as a
  hypothesis).
* `SqrtAssumption`: `thread_num` is the square root of n rounded down, and n > 0.
* `TimesAssumption`: gap < timeout (1 and 5 seconds in the code), and a reply
  lives less than it takes the numbers to come round (65,536 seconds).  The last
  is the one thing assumed of the network, and only `NoReplyIsMistaken` rests on
  it: a number of 16 bits can do no more.
* `FormsAssumption`: the packets are laid out from fields within their widths.
* `EndpointsAssumption`: a resolver that succeeds gives at least one endpoint.
* `WindowAssumption`: a line, the buffer and what a connection holds each way
  are not zero.
* `SizesAssumption`: the sizes of operations and of the block are naturals.
* `ThreadAssumption`, `PeerAssumption`, `EndpointAssumption`: finitely many
  threads, and names that are not each other's.

**Chat server.**  The properties are the invariant: type correctness,
`OneWriteFromFront`, `ParticipantsServed`, `RecentIsEndOfLog` and `PieceOfLog`,
with two facts that make it inductive: a connection that was not accepted has
no operation and no message (`Untouched`), and none is both waiting and
accepted (`BacklogIsNew`).  They need each other: that a participant with a
queue has a write under way is what makes it right that `deliver` starts a
write on an empty queue only; that the recent messages are the end of the log
is what makes the replay to a new member a piece of the log.  One lemma per
conjunct, one step per action.

**Refinement.**  `Accept` is `Join`, `ReadBody` is `Post`, `ReadError` of a
member is `Leave`, `WriteDone` is `See`, `WriteError` is `Break`, all else
changes nothing that the broadcast has.  Each case rests on the invariant: that
what is written next is the log's next entry, that a failed write breaks a
session that was not broken.

**Broadcast.**  What was seen is the log from `base` on, and never more than was
promised; two sessions then agree where they overlap because each agrees with
the log.

**Chat client.**  `OneWrite` counts what stands for a write: the operation, or
its handler in `ready`, is one when the queue is not empty and the socket was
not closed under it, and none else; it says too which line it carries, the
front's.  `OneChain` does the same of connect and read.  `InPlace` names what is
between the queue and the keyboard, the lines the posted handlers carry in
their order in `ready`; the queue counts without its front while the handler of
a write that succeeded waits, for that line is on the wire already.  `Carry` is
said by a placement of the handlers and not by a filter of `ready`, so that a
handler added behind or taken from the front moves every place by one.

**Codec.**  That a length comes back from four bytes is arithmetic on one, two
and three digits behind their blanks.  The invariant for the whole stream is
that the frames lie without gaps (`WithoutGaps`) and that the reader is at the
beginning of a frame, or of a body whose length is the one it decoded
(`Reads`).  `EveryHeaderFits` asks nothing of who writes.

**Multicast.**  A sender whose number reached `total_cnt` has left a counter
above it, and cannot see less: it does not go on.  So above the limit the
counter is `total_cnt` plus the number of senders that are over it
(`Cardinality(Over)`), and there are `thread_num` of them.  `StopInv` says
when the context stops, and gives `EnoughSent`.

**Ping.**  The wait for the next request was armed either after a reply, and
then `num_replies` is not zero and no later reply cancels it, or after the
whole timeout, and then the gap is long past (`PatientUnlessLate`).  That a reply
is heard whatever its header's length, so that no request times out that was
answered, rests on `FieldsAsLaidOut`: the accessors of the header give back
every field that was laid out in it (`PacketIsHeard`).  For `NoReplyIsMistaken`
each reply under way has a k, how many requests were sent after the one it
answers (`AgesTell`): its number is k behind, and it is at least k gaps old.
That requests keep their distance is what makes k grow no faster than ages do,
and so too small for the numbers to have come round.

**Parser.**  Every state from which a header is appended to is reached through
`header_line_start` with a letter, which begins a header, or with a blank,
which the guard `Continues` lets pass only when there is one.

**Parser and grammar.**  The parser goes byte by byte and the grammar cuts
whole texts in lines, so neither can be followed by the other; they meet in the
places of a text: where the method ends, the uri, the two numbers of the version,
the request line (`RequestAt`), and in each header line the colon (`FieldAt`) or
the end of the blanks (`FoldAt`).  The grammar's operators are said by places
once (`RequestLineIs`, `FieldLineIs`, `FoldedLineIs`).  `Parsed` says of each
state but bad which places the text has so far, and what was stored; of whole
header lines it says by a function h what the headers were up to each place
(`Whole`), since the grammar's `TheHeaders` is not yet defined of a text
that has no end.  The invariant is that, with what the text is once the parser
said bad (`Hopeless`: no text that begins so is a request), and that an answer
needs a result.

* Any byte that is not refused keeps `Parsed` (`ByteIsParsed`): one lemma per
  state, on one table of where a byte leads (`GotoTable`) and one of what is
  stored (`StoreTable`).
* A text that is good has all its places, so it is a request, and h at its end is
  `TheHeaders` (`EndIs`, `GoodIsComplete`).
* A request that begins with the text has its own places; they are the text's as
  far as it goes, for a place is unique (`OneRequest`, `OneColon`, `OneUnfold`),
  and so its next byte is one the parser takes (`ReadyForMore`).  A byte that is
  refused therefore begins none (`BadEndsHope`), and what is not done is no
  request yet (`MoreIsNoRequest`).
* From every other state one of the grammar's `Endings` makes a request: backwards
  from good along `Shortest` and `OneHeader`, a state has a good ending when its
  next byte leads to one that has (`Onward`, `MoreIsViable`).  It is here that
  `BackIsDefined` is needed: a line can only go on when there is a header.

**Http clients.**  `response_` always holds the bytes of the response from some
place to what came last (`IsFrom`).  Each reading stage fixes the place: behind
the status line, behind j header lines, behind what was shown.  That the text
has no line end but where one belongs (`TextLaidOut`) makes the next one found
the right one (`FirstLine`, `BlankLine`); the two clients share all but the
stage of the headers, which one reads whole and the other by lines.

**Http server.**  Whoever may touch a connection or the acceptor is an operation
in `outstanding`, a handler in `ready`, or one that has still to use it or to
start its next operation (`Touches`).  The invariant is that there is one of
them at most (`Single`: any two in one place are the same, and no two of the
places have one), that a connection that is not open has none (`OnlyOpen`), and
that a thread that rests runs nothing (`Resting`).  A handler that has only to
return touches nothing: any number of a connection's may be about to.  That a
handler starts its next operation as the last thing it does is a hypothesis of
`RunStep`, the lemma of its steps.  `NeverTwoAtATime` turns it into the count.

**File handler.**  The handler's place in the uri is always the end of a unit,
with the path so far what those units mean, or it stands before the tail
(`LaidOut`, `Decoding`); three lemmas say what a turn makes of each way to write
a byte and of each broken tail (`NextUnit`, `NextTail`).  `FromFile` is the
reply while the file is read: what was taken is the content, and it has headers
once something was.  The path that passed the checks is remembered as one
(`IsProper`), so that appending `index.html`, taking the extension and cutting at
a zero byte are reasoned about once (`CompletedIs`, `ExtensionIs`, `CStringIs`).
The tables of `reply.cpp` are compared status by status, numbers and words
(`TablesAgree`).

**Echoes.**  Of each client, what was shown, what is on its way back, what is in
the session's buffer and what is on its way there, put together, is 1, 2, 3 up
to what was sent (`ComesInOrder`), and no byte is missing while the connection
is whole (`NothingIsLost`); every action moves a piece from one of the four to the
next (`Moved`).  The buffer is free whenever the session reads (`BufferIsFree`).
The twin adds that a write's memory is held only while it is under way.  Over
udp, what is under way to the server comes from a client and is its text, and
what is under way to a client is its own or a stranger's (`Honest`).

A client still writes only while its line is longer than what it sent
(`LineFirst`).  When it is stuck all it sent is in the two directions and the
session's buffer (`EchoIsExact`), and that buffer is not empty: its line is
longer than the three can hold.  Nothing is assumed of the sizes for it.

**Induction.**  The library's induction theorems take an operator as a parameter
and the provers cannot use them.  What the decoding of digits and the text of a
uri need is proved by sets in their place: a set of naturals that is not empty
has a least member (`Least`, from the well-foundedness of < on Nat), and a
bounded one a greatest (`Greatest`).  The recursive functions of `Number` and of
the community module's `FlattenSeq` are shown to exist that way (`ValueExists`,
`FlatExists`), and that of `TheHeaders` (`HeadersAre`); the first place of a byte
in a text is a least one (`Split`).

## What is only model-checked

* *Liveness* (`Served`, the liveness of `ImplementsBroadcast`,
  `JoinReturns`, `LinesGoOut`, `Ends`, `KeepsPinging`, `EverybodyEnds`,
  `ThreadsEnd`): the prover does not reason about fairness and `ENABLED`.
* *The violated claim* of `http_client_no_headers`, which is a counterexample.

## What the code does that a reader may not expect

*A response without headers is not shown* (`http_client_no_headers`).  The
comment at `examples/http_client.cc:102` says that the headers are "terminated
by a blank line"; the client looks for `\r\n\r\n` after it has taken the status
line with its `\r\n`, so the blank line of a response without headers is never
found, and the client ends in an error when the stream does.  The repository's
own request handler sends such a response for an empty file: its headers are
set in the loop over the file's pieces, which has no turn (`WholeFile`).

These the models have as the code has them, and no line of the source says
otherwise:

* The chat client closes behind its lines but does not wait for their writes:
  what is queued at the end of the input is lost (`LinesGoOut` says what holds).
* A line typed while the client connects to a host of several endpoints is
  written to a socket that is not connected; the write fails with the first
  attempt, and its handler closes the socket although another endpoint might
  have answered.
* A line of more than 512 bytes makes `getline` fail and ends the client's
  input.
* A session that left the room after a failed write still reads, and what its
  client sends is posted to the room.
* The queue of a participant that does not read grows without limit.
* The multicast sender's second argument is called `<threads>` in its usage
  line; it is the number of messages, and its square root the number of threads.
* A percent followed by one digit and something else in a uri is decoded from
  the one digit.
* The http server does not accept again after an accept that failed
  (`server.cpp:60`), and `examples/server.cc` accepts only once.
* The echo client writes its whole request before it reads, and the session
  writes back before it reads on.  A line of at most 1023 bytes fits what any
  real connection holds; one longer than both directions and a byte can leave
  the two waiting for each other for ever (`OnlyLongLinesStick`).
* The echo client at the end of its input asks for a line for ever, for
  `getline` fails at once and leaves its line empty; it keeps its connection and
  its session, and with the twin the program (`EverybodyEnds` leaves it out).
* A uri with an encoded zero byte opens another file than the one checked, for
  `c_str()` ends there: `/%00` opens the directory, which cannot be read and is
  answered with a status line alone, and `/foo.gif%00.html` answers `foo.gif` as
  `text/html` (`OpensProperPath` says what holds).
* A file whose reading fails in the middle is answered as far as it was read,
  as good, with the length of that part (`WholeFile`).
* The block in `examples/server.cc` is 1024 bytes, and `allocate` gives it only
  for less: an operation of exactly that size comes from the heap.
* The udp client shows the first datagram that comes, whoever sent it, cut to a
  length that was never set.
* The http stream client that loses its connection within the headers ends
  without an error, with nothing shown.
* The page of the stock reply 204 is headed "204 Content" (`reply.cpp:112`)
  where its status line (23) and its title (111) say "No Content": it is the one
  place where the tables disagree, and `RepliesAgree` names it.
* The block of `examples/server.cc` is never asked for while it is in use: a
  write has one operation at a time, whose memory goes back before the next is
  made.  The branch of `allocate` for that is never taken.
* The http server's context is made with a concurrency hint of 1 although many
  threads run it.

## What is not modelled

* *Http server, in part* – `main.cpp`, which calls a constructor `server.hpp`
  does not have and a class `file_handler` that no file defines; and a thread
  that cannot be made, which ends the program.
* *Http connection manager* – nothing uses it, and the `connection.hpp` it
  includes is not in the repository.
* *Multicast receiver* – one receive at a time, printed and forgotten.
* *`icmp_header.hpp`* – not in the repository: `Pinger` takes the fields that ping
  reads from it.
* *Class `Client` of `echo_client.cc`* – `main` does not use it.  It would start
  two attempts to connect on one socket.
* *Daytime over tcp* – a server that writes one line to each that connects, and a
  client that reads it: one thread each, and nothing kept.
* *Timers, one-shot samples, documents* – one handler at a time or straight
  lines; nothing interleaves and no state is to relate.
* `request_parser::reset`, which nothing calls; what is printed, where no property
  is about it.

## Plan

Done: the chat, first because it is the part where most actors meet; then the
programs whose timing or threads are hard; then the http parts and the echoes;
then the rest of what has state; then the proofs of every safety property, the
grammar's last, since they needed the most.  What is left:

* **A composition** of the chat server with clients over connections that hold a
  few messages.  It would say to a user what `PieceOfLog`, `InStep` and
  `EveryLineInItsPlace` say of its parts.
