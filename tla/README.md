# Verification of the MiniGUI live demo server

TLA+ models of `wdserver`, the WebSocket server that launches one MiniGUI program for every page a
visitor opens, passes the visitor's input to it and shows its frame buffer in the page.  The models are
checked with TLC on small instances; the safety properties and refinements are proved with TLAPS for all instances.
Paths are those of the repository; `websocket.c` is `src/src/websocket.c`, and so on.

Contents: [inventory](#inventory) · [plan](#plan) · [modules](#the-modules) · [runs](#the-runs) ·
[proofs](#the-proofs) · [findings](#findings) · [not modelled](#what-is-not-modelled)

## Inventory

One process, one thread, one `select()` loop.  All concurrency is between that loop and its environment:
browsers, children, the kernel's socket buffers, time and signals.

| Component | State | Operations | Modelled in |
|---|---|---|---|
| **Select loop, accepts, children** `websocket.c` 2117–2780, `us_accept`, `us_on_connected` of `unixsocket.c`, `wd_onopen` | `colist`, `closing`, `fdstate`; per client `status`, `status_buddy`, `pid_buddy`, `launched_time_buddy`, `us_buddy` | `ws_start`, `set_rfds_wfds`, `check_rfds_wfds`, `handle_ws_accept`, `handle_us_accept`, `handle_ws_reads`, `handle_ws_writes`, `handle_us_reads`, `handle_tcp_close`, `handle_ws_read_close`, `check_buddy_client`, `check_dirty_pixels` | `EventLoop` |
| **Send path of a client** `websocket.c` 398–452, 540–570, 1170–1330 | `sockqueue`, `status` | `ws_respond` (data, cache, append), `ws_clear_queue`, `ws_set_status`, `ws_queue_sockbuf`, `chop_nchars` | `WsClient`, `Connection` |
| **Frame reader** `websocket.c` 1610–2115 | `frame`, `message` | `ws_get_frm_header`, `ws_get_frm_payload`, `ws_manage_payload_opcode`, handlers of text/binary, continuation, ping, pong, close | `FrameReader` (data), `WsClient` (status) |
| **Handshake** `websocket.c` 600–1170, 1433–1597, `onopen` of `wdserver.c` | `headers`: `buf`, `buflen`, `reading`, the parsed fields | `ws_get_handshake`, `parse_headers` and below, `ws_verify_req_headers`, 101 response, HTTP errors, `onopen` | `Handshake`; what the answers do to the socket in `WsClient` |
| **UNIX socket channel** `unixsocket.c` | `us_buddy`: descriptor, shadow frame buffer, dirty rectangle | `us_listen`, `us_accept`, `us_on_connected`, `us_on_client_data`, `us_send_event`, `us_ping_client`, `us_client_cleanup` | `UsChannel`; which child for which page in `EventLoop`, the pixels in `DirtyPixels` |
| **Dirty rectangles** `ws_send_dirty_info`, `check_dirty_pixels`, `us_on_client_data` | `rc_dirty`, `last_flush_time`, the PNG files | `us_on_client_data`, `us_check_dirty_pixels`, `save_dirty_pixels_to_png`, `ws_send_dirty_info`, `us_reset_dirty_pixels` | `DirtyPixels`; the frames sent also in `Connection` |
| **Launching, event messages** `wdserver.c` 170–278 | `pid_buddy` | `onopen`, `wd_launch_client`, `onmessage` | `EventLoop`, `Handshake`; `onmessage` in `UsChannel` |
| **Options, daemon, signals** `wdserver.c` 111–158, 280–423, `ws_init` | `wsconfig` | `read_option_args`, `wd_daemon`, `setup_signals`, `ws_init`, `handle_signal_action`, `ws_stop` | `Startup`; SIGINT in `ClientList`, SIGCHLD in `UsChannel` |
| **TLS** (`HAVE_LIBSSL`) | `ssl`, `sslstatus` | pending accept, read, write, shutdown | no |
| **Client list** `gslist.c` and its uses | nodes and clients in memory | `list_insert_prepend`, `list_remove_node`, `list_foreach`, `list_remove_nodes` | `ClientList`, a set in `ClientSet` and `EventLoop` |
| **Pure functions** UTF-8, SHA-1, base64, pixel and byte-order conversions | – | – | UTF-8 and masking are parameters of `FrameReader` |
| **Web page** `webdisplay.js` | canvas, image loads, `mousedown` | `onmessage`, `image.onload`, mouse and key handlers | `DirtyPixels`, `UsChannel` |
| **Sample producers and pages**, **logging**, **allocation wrappers** | – | – | no |

How they interact.  A page connects (`handle_ws_accept`); its handshake completes in `ws_get_handshake`,
which calls `onopen`, and that forks the child.  The child connects to the UNIX socket from a file named
after its pid; `handle_us_accept` finds the page by that pid and blocks in `us_on_connected` until the child
has described its frame buffer.  From then on the walk of each pass reads the page *or* writes its queue,
then reads the child.  When `select()` times out the loop closes the pages whose child is more than ten
seconds late, and announces what the children have drawn.  Every close goes through `handle_tcp_close`;
a close that finds bytes queued is deferred, and for as long as one is deferred the whole server stops reading
(`server->closing`).

What is hard here, and what each component must do to be right:

- *Send path.* `send()` takes any part of a frame, or nothing, or fails; more frames are appended meanwhile.
  The bytes on the wire must be a prefix of the bytes undertaken, the queue of a slow client must be bounded,
  and what is queued must be attempted again.  The trap is that `status` carries both the state of the
  connection and that of the queue, and is assigned by handlers that mean only the former.
- *Loop.* Handlers free list nodes during a walk over the list; a global flag defers closes; accepts,
  reads and closes exclude each other in a pass.  A walk must never visit a freed client, a deferred close must
  end, and everyone else must go on being served.
- *Children.* A child may connect early, late, after its page has gone, never; it may exit at any time.
  A page must only ever get the child launched for it; a page whose child is late or has exited must go.
- *Frame reader.* Three functions share two counters (`frame->buflen`, `message->buflen`) over reads that stop
  anywhere; control frames come between fragments and their payload is read into the same buffer; each fragment
  has its own mask.  The messages must be those the peer sent, and the buffer must always have room.
- *Dirty rectangles and page.*  Rectangles are merged while they wait, flushed by the clock and by an idle loop only, dropped for
  the throttle, and loaded by the page in any order.  What the child drew must get to the canvas, or it must be
  known why not.
- *Channel.*  Both ends block, each may wait for the other to read; a read or write may be cut by a signal or by the child's
  exit, and neither side resumes it.  Frames must be handled whole and in order, and events must arrive whole.
- *Handshake.*  The request comes in any pieces and is searched with string functions; 101 goes out before the child is launched.
  The answer must not depend on the pieces, and a page must be open just when its child runs.
- *Options.*  They are read before `ws_init`, which has defaults of its own.  The server must run with what it was told.
- *Client list.*  Nodes are freed under a walk and used again for the next client, and SIGINT frees the list from wherever the loop is.
  A walk must visit everyone once; nothing may be freed twice or left behind.

`PROJECT.json` lists the hazards one by one, at their lines, with the properties that cover them.

## Plan

In order of importance; the first eight are done.

1. **Connection** (done): `ByteStream` (abstract), `WsClient` (handlers as operators), `Connection`, `MCConnection`,
   proofs in `ConnectionProofs`.
2. **EventLoop** (done): `Pairing` (abstract), `StatusEffects` (the interface to 1), `EventLoop`, `MCEventLoop`,
   proofs in `EventLoopProofs`; that the interface is right is proved in `ConnectionProofs`.
3. **FrameReader** (done): `MessageStream` (abstract), `FrameReader`, `MCFrameReader`, proofs in `FrameReaderProofs`.
4. **DirtyPixels** (done): the shadow frame buffer, the union of rectangles, flush interval, throttled announcement, PNG
   failure and the page's canvas; proofs in `DirtyPixelsProofs`.
5. **UsChannel** (done): the two blocking streams between server and child, greeting, pixels and events, with every read and write
   that may be cut; the page's input handlers; who may wait for whom; proofs in `UsChannelProofs`.
6. **Handshake** (done): the request in any pieces, the parser, the checks, the answers and the launch; proofs in `HandshakeProofs`.
7. **Startup** (done): defaults, options, daemon, `ws_init`; `Handshake` extends it, and `HandshakeProofs` proves about it.
8. **ClientList** (done): the list as nodes in memory, SIGINT; `ClientSet` (abstract) is what `EventLoop` has instead; proofs in
   `ClientListProofs`, which with `HandshakeProofs` needs induction over numbers (`SetInduction`).
9. **Pure functions**: UTF-8 automaton, base64, SHA-1, pixel conversion.  No order of events can go wrong in them, a table tests
   them better; left out.
10. **TLS**: the pending read and write states.  Not compiled in the repository's configuration; left out.

Every safety invariant, every action property and every refinement of the passing runs is proved, for every value of the
constants; the liveness properties stay with TLC.

## The modules

| Module | Code | Role |
|---|---|---|
| `WsClient` | `ws_respond` and below; `read_client_data` and below | operators: each handler is the *set of its results* on one client, one for each outcome of its system calls |
| `Connection` | one client under the loop | state machine over `WsClient` |
| `ByteStream` | – | abstract: the wire is a prefix of what was undertaken |
| `StatusEffects` | – | the values of the two bits (`CLOSE`, `SENDING`) handlers may leave |
| `EventLoop` | `ws_start` and below, with all clients and children | state machine |
| `Pairing` | – | abstract: a child waits, serves one session, is never adopted again |
| `FrameReader` | `ws_get_frm_header`, `ws_get_frm_payload`, opcode handlers | state machine |
| `MessageStream` | – | abstract: fragments joined in the clear, pings answered |
| `DirtyPixels` | `us_on_client_data`, `check_dirty_pixels` and below, `webdisplay.js` | state machine |
| `UsChannel` | `unixsocket.c`, `onmessage` of `wdserver.c`, the input handlers of `webdisplay.js` | state machine |
| `ClientList` | `gslist.c`, the walks and removals of `websocket.c`, `ws_stop` | state machine |
| `ClientSet` | – | abstract: a walk visits each client that was there when it began, once |
| `Startup` | `main` up to the loop, `ws_init` | state machine, extended by `Handshake` |
| `Handshake` | `ws_get_handshake` and below, `onopen` | state machine |
| `MC*` | – | constants for TLC |
| `*Proofs` | – | theorems |
| `SetInduction` | – | lemmas: induction over natural numbers, stated of sets |

Mutant operators (`…_Skips`, `…_Eagerly`, …) stand before the definition they vary; each is a plausible bug, and
there is one for every checked property that the property is there to detect.

### WsClient and Connection

`client` is the C struct, reduced: `status` is the set of bits of `WSStatus`; `sockqueue` whether the queue exists and
`queued` its bytes; `stage` which reader the next event is for; `sock` and `eof` the kernel's side of the socket.
`open` is membership of `server->colist`, `closing` is `server->closing`, `dirty` whether the child has drawn something to announce,
and `others` whether there are other clients, which does not change.  `log`, `wire` and `lost` are history.

| Action | Code |
|---|---|
| `handle_ws_reads` | `handle_ws_reads` → `read_client_data` → `handle_read_close`; enabled while not `closing` |
| `handle_ws_writes` | `handle_ws_writes` → `ws_respond(NULL)` → `handle_write_close`; enabled while `SENDING` |
| `handle_us_reads` | the child has drawn: `dirty`; enabled while not `closing`, as the child's descriptor is watched only then (`set_rfds_wfds`) |
| `check_dirty_pixels` | the frame of `ws_send_dirty_info`, only with something to announce; nobody looks at the status afterwards |
| `BuddyGone` | `check_buddy_client` and `handle_us_reads` when the child is late or gone |
| `OtherClient` | another client's deferral or close sets or resets `server->closing`, if there are others |
| `PeerCloses` | environment: the peer shuts its side down |

What the model keeps of the send path is exact: the order of status assignment and sending, `chop_nchars` returning
length 0 when nothing is chopped, `ECONNRESET` reaching it as the size −1, `ws_clear_queue` removing `SENDING` only
together with `CLOSE`, the throttle test after the append, and a throttled client without a queue being sent to all the same.  What it leaves out: contents of frames (a frame is a short
sequence of bytes that tell it apart) and TLS.

### EventLoop

A client is the two bits the loop looks at, `buddy` (`status_buddy`), `pid` (`pid_buddy`) and `late`.  That two bits
are enough is not an assumption: `EffectsCovered` in `Connection` says that every handler of `WsClient` leaves them
within `StatusEffects`, and `EffectsHold` proves it for all clients.  `pc` is where the loop stands (`select`, the
accept, blocked in `us_on_connected`, the walk), `rfds`/`wfds` what `select()` left, `todo` the rest of the walk, `kid`
and `backlog` the children.

| Action | Code |
|---|---|
| `Select` | `set_rfds_wfds`, `select()` with a ready descriptor |
| `handle_ws_accept`, `handle_us_accept`, `NoAccept` | the first half of `check_rfds_wfds`: at most one accept, pages first |
| `us_on_connected` | end of the blocking greeting |
| `Visit` | one step of the walk: overdue → close; read, else write; then the child; with the whole close |
| `EndWalk` | back to `select()`, `FD_ZERO` |
| `Timeout` | `select()` returned 0: `check_buddy_client`, then `check_dirty_pixels` |
| `KidConnects`, `KidTalks`, `KidExits`, `TimePasses` | environment |
| `Dead` | a process that has crashed stays so |

Abstractions.  The list is a set and a walk visits in any order, which has more behaviours than the code.
`ReadFate` and friends say whether a handler closes, defers or keeps.  A freed node's `next` (the walks read it after
`handle_tcp_close`) is undefined behaviour: a choice between going on and `crashed`.  A bit of `rfds`/`wfds` is dropped
once nobody will look at it, which merges states and changes nothing.  A pid is used once: a reused pid would need
a page that outlives its own child's exit by a full wrap of the pid counter.  `KidExits` stands for exit with everything
read.  `WS_BUDDY_EXITED` is not a state: nothing assigns it.

### FrameReader

`wire` is the frame being received, `taken` how much of it has been read; `frame` and `message` are the C structs
(`WSFrame`, `WSMessage`) with their counters; `delivered` is what `onmessage` has got, `pongs` what pings were answered
with; `peer` remembers what the peer meant, for `EndToEnd` and `ConformingServed`.

`ws_get_frm_header(n)` and `ws_get_frm_payload(n)` are one `recv()` of `n` bytes each with everything the code does until
the next one; `PeerSends` brings a frame; `ReadFails` is a failing `recv()` or `realloc()`, and the end of the input.
After the first status that ends the connection the model stops reading.  (That the code reads on in one case, an end
of input inside a payload, is a matter of the status: `WsClient` has it.)  Text is
valid UTF-8 or not by a constant predicate, and masking is a constant function; the theorems hold for all of both.
Left out: echo mode and what `onmessage` makes of a message.

### DirtyPixels

One child and its page.  `vfb` is what the child has drawn, `pipe` the rectangles in its socket; `shadow_fb`, `rc_dirty` and
`throttled` are the fields of `us_client` and `ws_client`; `due` is the outcome of the comparison with `last_flush_time`; `coming`,
`loading` and `canvas` are the announcements on the connection, the images being loaded and the page.  `sent`, `newest`
and `missed` are history: what was last announced of each pixel, the newest image drawn at it, and whether its last
announcement was dropped.

| Action | Code |
|---|---|
| `Draws` | environment: the child draws and sends a rectangle with its pixels |
| `us_on_client_data` | the same: reads, converts, copies, merges; each row may be read short |
| `ClientDataFails` | its early returns |
| `handle_tcp_close` | read of 0 at the child's exit, or the end of the page's connection |
| `TimePasses` | environment: the 50 ms of `MAX_FLUSH_PIXELS_TIME`, or a new second |
| `Flush` | `select()` times out, `us_check_dirty_pixels` says yes |
| `SaveFails`, `Continue` | `save_dirty_pixels_to_png` fails; `continue` in `check_dirty_pixels` |
| `Announce` | the file is saved; `ws_send_dirty_info` is `Undertaken`, `Dropped` or finds the connection `Broken`; `us_reset_dirty_pixels` in each case |
| `Throttling` | the other frames and reads of the client set and reset `WS_THROTTLING` |
| `onmessage`, `onload` | the page |

Abstractions.  A rectangle and its pixels are read in one step, which is what the blocking reads of one call amount to.
After a short read the server takes pixels for headers; the model then reads nothing more (`instep`), and the properties speak of
a server in step.  That announcements arrive in order and whole is `ByteStream`'s result; when the client is throttled
is `Connection`'s, here a choice.  The pixel conversion is a constant function, and a PNG file has the pixels of
the rectangle; files are numbered as they are named, by time.  Image loads succeed, in any order.  The rectangles are
on the child's screen, as a MiniGUI child's are; `save_dirty_pixels_to_png` refuses others, but only after
`us_on_client_data` has used them.

### UsChannel

One child that has connected, its page, and the two directions of the UNIX socket between them.  What the child writes is a
stream of units, two to a struct, each marked with the place of its frame that it was written for; so a read may end inside a struct,
and what the server takes for a header may have been written as something else.  `pc` is the system call the server is in.  `sent`,
`handled`, `undertaken` and `received` are history; `mishap`, `torn` and `early` remember that a read was cut, that a write was cut, that
an event came before the child.

| Action | Code |
|---|---|
| `handle_us_accept` | `us_accept`; the server goes into `us_on_connected` |
| `ReadGreeting`, `ReadDescription` | the two reads of `us_on_connected`, the shadow frame buffer and its error path |
| `ReadHeader`, `ReadRectangle`, `ReadRow` | the reads of `us_on_client_data`, `n < sizeof` with an unsigned size; a read of 0 closes the page |
| `onmessage` | one message of the page becomes one event, or is dropped for want of a child |
| `Write`, `WriteFails` | the two writes of `us_send_event`, header and event, whose results do not stop the second |
| `KidGreets`, `KidDraws`, `KidWrites`, `KidReads`, `KidExits` | environment: a child with one thread and a blocking socket |
| `onmousedown`, `onmouseup`, `onmousemove`, `sendkeyevent` | the page; it sends a movement only while the button is down |

A system call is interrupted by the SIGCHLD of any child, since `setup_signals` does not ask for `SA_RESTART`; a read with data in the
socket returns what there is.  When a child exits with events unread its connection is reset, and the next read fails once.  After the first
read that is cut the server reads anything as anything; the histories stop there, and the safety properties speak of the time before it.
`us_ping_client` is never called, and out of memory is left to `DirtyPixels`' early returns.

### ClientList and ClientSet

Nodes and clients are addresses with memory behind them; freed memory keeps its contents until it is allocated again, and reading it is a
choice between going on and a crash, freeing it again a crash.  A client's memory is its headers and its send queue: the two blocks of the
queue (`sockqueue` and, behind it, `queued`) are what `ws_clear_queue` frees, in the loop and in the signal handler.  `cursor`, `target` and `saved` are the local pointers of the walk, of the insertion or removal, and of
`list_remove_node`; `p` is the handler's.

| Action | Code |
|---|---|
| `StartPass`, `EndWalk`, `Advance` | the walks of `check_rfds_wfds` and `check_buddy_client` |
| `accept_client`, `Link`, `Accepted`, `NoAccept` | allocation and `list_insert_prepend`; the assignment to `colist`; the limit |
| `Keep`, `Close` | a visit that leaves the client, or closes it |
| `ws_queue_sockbuf` | in a visit: bytes that could not be sent are queued (in `Accepted` too, for the page that is one too many) |
| `MoveQueued`, `SetQueued` | `ws_realloc_send_buf`: `realloc()` moves the buffer; then `queue->queued` is set |
| `FreeQueued`, `ResetQueued`, `FreeQueue`, `ResetQueue` | `ws_clear_queue`, statement by statement |
| `RemoveHeaders`, `FreeData`, `FreeNode`, `Unlink` | `ws_remove_client_from_list` and `list_remove_node`, one step for each `free()` |
| `SIGINT` | `handle_signal_action`, between any two of these steps; the loop does not go on, so its local pointers are forgotten |
| `Dangling`, `DanglingEnds`, `list_remove_nodes`, `Exit` | `ws_stop`: `list_foreach` over headers and queues, then the list |

The searches for a node (`list_find`, the loop of `list_remove_node`) end at the node that is there.  `ImplementsClientSet` maps the list to the set
of clients reachable from `colist`, and the rest of a walk to those reachable from `cursor`: it justifies the sets `colist` and `todo` of
`EventLoop`.  `hit` keeps the statement SIGINT has come at, where that is in an insertion, a removal or the queue.  `Torn` are the places between a
`free()`, or the part of a `realloc()` that frees, and what takes the pointer away: two of them in `ws_clear_queue`, one in
`ws_realloc_send_buf`, three in a removal.  `CrashCause` says that there and nowhere else the handler may free a thing again.  The fields of the headers
count as part of them.  A SIGINT inside the allocator (where its own data are inconsistent) is not modelled; neither is the queue that
`handle_tcp_close` leaves behind for a client without an error, which is a leak.

### Startup and Handshake

`Startup` has the fields of `wsconfig` as `NULL`, default or given, and the steps of `main` in their order.  A request of `Handshake` is
a sequence of tokens: parts of lines, CR, LF and NUL, so that a read can end anywhere, a line can be bad in each way that the parser
tells apart, and a blank line can be cut in the middle.  `parse_headers` is the parser's loop, a recursive function of the place where a line begins
and the headers so far.  `Acceptable` says of a whole request what it is worth, without that loop.  `HeadHasCome` says that the
blank line has come and nothing behind it that the string functions see: what follows a NUL right behind the blank line is dropped, and the request answered.

| Action | Code |
|---|---|
| `Defaults`, `read_option_args`, `wd_daemon`, `setup_signals`, `ws_init`, `ws_start` | `main` |
| `Connect`, `Leave` | environment: a client with a request, which may go at any time |
| `Receive` | `ws_get_handshake` with a read that returns data: append, search for the blank line, `parse_headers`, `ws_verify_req_headers`, `Open` or `Refuse` |
| `ReadFails` | the read returns 0 or fails; with no room left it asks for 0 bytes and gets 0 |
| `TryAgain` | `EAGAIN` |

`Open` is the answer 101 and then `onopen`: no such demo (400), no process (505), or the pid of a child.  SHA-1 and base64 stand as the key
itself.  The answers go to `ws_respond`, which may find the connection broken.

## The runs

| Run | Question | Answer |
|---|---|---|
| `Connection` | Does the byte stream survive partial sends, errors and appends?  Do throttle and deferred close do their work?  Are `StatusEffects` right? | yes: `NothingLost`, `ThrottleLimits`, `FlushedBeforeWriteClose`, `DeferredCloseEnds`, `EffectsCovered`, refinement of `ByteStream` |
| `EventLoop` | Is a freed client ever visited, does a page ever get another's child?  Does a launch that fails end, does an exit close the page, is a child that connects accepted? | no: `WalkIsLive`, `Paired`, refinement of `Pairing`; yes, unless the process crashes or reading is suspended: `LaunchEnds`, `ExitEnds`, `ChildAccepted` |
| `FrameReader` | Is every message handed over as it was sent, however `recv()` cuts it, with control frames anywhere? | yes, but for a pong inside a message: `InStep`, `Fits`, `EndToEnd`, refinement of `MessageStream` |
| `DirtyPixels` | Does every pixel the child draws get to the canvas? | it does, or it was dropped for the throttle or overtaken by an older image: `UnsentIsKnown`, `Accounted`, `Settles` |
| `UsChannel` | Are frames and events whole and in order, until a call is cut?  Can a child bring the server down, or make it wait for ever? | yes: `HandledAsSent`, `EventsWhole`, `GesturesMakeSense`; only with a frame buffer the server does not support, or after a cut read: `NoCrash`; only if both wait with both sockets full: `ServerReturns`; and its exit is seen: `ExitSeen` |
| `ClientList` | Is a set of clients a faithful list?  What does SIGINT leave? | yes, refinement of `ClientSet`, and walks end: `WalkEnds`; nothing, unless it comes where something is torn or in an insertion: `CleanStop`, `CrashCause` |
| `Handshake` | Does the answer depend on how the request is cut?  Is a page open just when its child runs?  Do options count? | no: `VerdictOfRequest`; yes: `OpenWithChild`; all but three: `OptionsInForce`; and a request that is complete or too long is answered: `HandshakeEnds` |
| `QueueIsLimited`, `ReadsUnlessClosing`, `ConformingServed`, `NotSentIsDirty`, `OriginEnsured` | Do the repository's comments and its help hold? | no: see [findings](#findings) |

Deadlock is checked for `EventLoop` and `ClientList`, whose process goes on or is explicitly dead; in the others the modelled connection may end.

Bounds, and why they are enough.

- *Connection* (1.06 million states): frames of one byte, and a Pong of two, so that a frame can be sent in part; six bytes in all
  (`MaxLog`), which is a greeting and enough announcements or Pongs to pass the threshold by a whole frame: without the throttle
  `ThrottleLimits` would fail.  The threshold (`Thld`) is three: more than any frame, as 2 MiB are in the code, and more than the frame that a deferred
  close waits for with the one announcement that can still come (the child is not read meanwhile), so that a close that waits is not throttled
  where the code could not be.  `MaxLog` is the only bound of the state machine and is a guard of `Record`.
- *EventLoop* (104,500 states): two descriptors with a limit of one make a page beyond the limit and the reuse of a descriptor; two
  children make a child orphaned while another connects.  No symmetry, which is unsound for liveness.  Three descriptors with a limit of two
  and one child (158,000 states, two pages at once) and, under symmetry, three with two children (517,000) have been tried for the safety properties,
  with the same result, and the safety properties are proved for every number.  `Pids` is the bound: the number of launches.
- *FrameReader* (172,000 states): sixteen frames, of each opcode, fragment position, wrong kind and header length class;
  five frames in a row make a fragmented message with a ping in each of two gaps.  Bytes have two bits, so that a
  mask applied twice, not at all or shifted is noticed.  `max_frm_size` is 5 and the control limit 2.  `MaxFrames` (five; four
  where the counterexample is shorter) is the only bound.
- *DirtyPixels* (96,000 states): a screen of two by two, so that rectangles overlap, touch or have a corner between them that
  neither covers; six rectangles, among them one pixel and a line without width; two colours.  Two drawings (`MaxDraws`) and room for both in
  the socket (`PipeLimit`) make a merge, a flush between them, a dropped announcement after a sent one and images that overtake
  each other; a third (`MaxDraws` 3: 1.8 million states) has been tried for the invariants with the same result, and is left out for the time it takes.
- *UsChannel* (656,000 states): a greeting and one rectangle of up to two rows (`MaxFrames`, `MaxRows` 2), sockets that hold one struct in
  each direction (`PipeLimit` two units, `EventLimit` 1), two messages of the page (`MaxInputs`, `InputLimit` 2), which are four structs: a
  frame is written and read in parts, a write finds the socket full, and both sides wait at once.
- *ClientList* (956,000 states): three nodes and three clients, so a node can be removed at the head, in the middle and at the
  end, and one freed in a walk is used again before the next.  Memory is finite; the bound is `Slow`, the
  clients that are ever sent more than the kernel takes: one of the three, as queues do not touch each other.
- *Handshake* (131,000 states): 169 requests: a good one, and those that differ from it by a line less, a line more (a second
  key or request line, an origin, each way to be malformed, a NUL, nothing) or both, or by their end: no blank line, a NUL in it, a frame behind it, one that begins with a NUL.
  `MaxHead` 20 tokens is less than the longest of them and more than the good one.  One option (`MaxOptions`), each in turn.

Fairness.

- `Connection`: `WF(WriteProgress)`, as `select()` returns a writable descriptor and the loop writes it, and a peer either
  takes bytes or its connection breaks; a peer that keeps its window shut for ever is the one case that this
  excludes, and TCP keeps it for as long as the peer answers probes.  `WF(ReadEnd)`, as a socket at its end of input is readable for
  good; weak fairness gives nothing while `closing`.  `WF(SocketDies)`: after a failed `send()`, `recv()` ends too.
- `EventLoop`: `WF(Loop)`, the process runs.  `SF(QuietPass)`: again and again `select()` finds no new page, without which children
  starve, because the walk accepts one page *or* one child, pages first.  `WF(KidTalks)`: a connected child writes its
  greeting, without which `us_on_connected` blocks the server for ever.  The last two are assumptions about the
  environment and the code cannot enforce them; the hazards list says so.
- `DirtyPixels`: `FairSpec` has weak fairness of the loop's steps (the server reads what is there, a pass goes on), of time
  and of the page's browser.  `WF(Flush)` assumes that `select()` times out again and again, which a page that never stops sending would
  prevent.  `HealthySpec` adds `SF(Announce)`: files cannot be unwritable for ever.  Without it the pass repeats the
  same client and the server does nothing else.
- `UsChannel`: the server's system calls return when they can, and a child greets, ends the frame it has begun and reads its events when it
  can.  Nothing makes a child do so; a child that does not stops the server.  No fairness for drawing, exits, input or cut calls.
- `ClientList`: the process runs, and a visit, whose handlers send a few frames at most, ends (`SF(Visit)`: it could end whenever no statement
  of the queue is under way).  `Handshake`: `WF(ws_get_handshake)`, the loop reads what there is, which holds while no
  other client's close is deferred; nothing is assumed of the client, and a silent one is not promised an end (there is no timeout).

## The proofs

All are for every value of the constants under the modules' assumptions: frames are non-empty and
shorter than the threshold, descriptors, pids and `NoPid` are apart, addresses of nodes and clients and `NULL` are, nodes are finitely many, payload bytes stay
bytes under the mask, applying a mask's byte twice gives the byte back, a request is a finite sequence of tokens, and the buffer for it is not empty.

| Theorem | Says | By |
|---|---|---|
| `TypeCorrect`, `NoByteLost`, `ThrottleBoundsQueue` | `TypeOK`, `NothingLost`, `ThrottleLimits` of `Connection` | `ConnectionInv` |
| `RefinesByteStream` | `Connection` implements `ByteStream` | `ConnectionInv` |
| `WriteCloseFlushes` | `FlushedBeforeWriteClose` of `Connection` | `ConnectionInv`, `EndOfSending` |
| `EffectsHold` | `EffectsCovered`: the two-bit reduction of `EventLoop` is sound | `ConnectionInv`, one lemma per handler |
| `LoopTypeCorrect`, `WalkOnLiveClients`, `OnlyOwnChild` | `TypeOK`, `WalkIsLive`, `Paired` of `EventLoop` | `Inv` |
| `RefinesPairing` | `EventLoop` implements `Pairing` | `Inv` |
| `ReaderTypeCorrect`, `ReaderInStep`, `BufferFits` | `TypeOK`, `InStep`, `Fits` of `FrameReader` | `ReaderInv` |
| `MessagesAsMeant` | `EndToEnd` of `FrameReader` | `ReaderInv` and `Agrees` |
| `RefinesMessages` | `FrameReader` implements `MessageStream` | `ReaderInv` |
| `PixelsTypeCorrect`, `NothingForgotten`, `EveryPixelAccounted` | `TypeOK`, `UnsentIsKnown`, `Accounted` of `DirtyPixels`, for any screen, colours and rectangles | `PixelInvariant` |
| `ChannelTypeCorrect`, `FramesHandledAsSent`, `EventsArriveWhole`, `PixelsFindTheirPlace` | `TypeOK`, `HandledAsSent`, `EventsWhole`, `NoCrash` of `UsChannel`, for any frames and any sockets | `Inv` |
| `GesturesArriveInOrder` | `GesturesMakeSense` of `UsChannel`, for any number of messages | `Inv` and `Gestures` |
| `HeapTypeCorrect`, `CrashOnlyStale`, `StopFreesAll` | `TypeOK`, `CrashCause`, `CleanStop` of `ClientList`, for any number of nodes and clients | `Inv` |
| `RefinesClientSet` | `ClientList` implements `ClientSet` | `WalkInv`, induction along the list |
| `OptionsStayInForce` | `OptionsInForce` of `Startup`, for any number of options | `OptionsInv` |
| `HandshakeTypeCorrect`, `LaunchedWhenOpen` | `TypeOK`, `OpenWithChild` of `Handshake`, for any requests | `HandshakeInv` |
| `VerdictIsDeserved` | `VerdictOfRequest` of `Handshake`, for any requests | `HandshakeInv`, induction along the lines |

The inductive invariants.

- `ConnectionInv` = `TypeOK` ∧ `ClientInv` ∧ `StreamInv`.  `NothingLost` alone is not inductive: a throttled client without a queue, or
  a queue that does not exist but has bytes, would break the next `ws_respond`.  `ClientInv` says that bytes are queued only if there is
  a queue, that a throttled client has one, and that a queue being sent (`SENDING`) is below the threshold or throttled, and in any case less than a frame
  above it: a bound alone is not inductive, since what may be appended depends on the throttle.  The lemmas about `WsClient` say of each operator of the send path and then of
  each read handler that its results keep `ClientInv` and extend log and wire consistently.
- `Inv` of `EventLoop` adds to the type: the walk is over connected clients (`WalkIsLive`) and there is nothing to walk while the loop
  is in `select()` or an accept (`Resting`); a descriptor not in use holds `new_wsclient` (`Slots`); a page that is not `UNKNOWN` has a
  child that was launched (`Children`) and shares it with no other page (`Unshared`); connected pages have a child
  that has connected and is out of the backlog (`Connected`), and the backlog holds children that have connected (`Queued`).  `Paired`
  is `Unshared` and `Connected`; the first needs `Children`, since a launch takes a pid that nobody has, and `Slots`, since a new page
  must bring no child along.
- `ReaderInv` = `TypeOK` ∧ `Synced`: between frames the counters are zero; while the header is read nothing of the payload
  is counted; while the payload is read, the last `buflen` bytes of the message are exactly the masked bytes of the frame that have been
  taken.  `InStep` alone is not inductive for want of the contents, which the refinement needs too: unmasking from
  `mask_offset` gives back the frame's bytes just because those are the last `buflen`.  `Agrees`, for `EndToEnd`, compares the two sides in the
  middle of a frame: what the peer has meant so far is what the server has, with the step of `MessageStream` that the frame on the wire will
  be.  The handlers' lemmas therefore say which step they take, and that a refusal had a reason the RFC gives.
- `Inv` of `DirtyPixels` follows a pixel along its way.  `PipeIsCurrent`: the last rectangle in the socket that has it has the
  child's colour.  `ShadowFollows`: if none has it, the shadow frame buffer has that colour, and it was announced last, is in the dirty
  rectangle, or was dropped.  `Numbered`: an image under way is older than the last announcement of a pixel, or is that announcement.
  `OnItsWay`: the last announcement is on the canvas, under way, or was there and has been drawn over.  `UnsentIsKnown` follows from the
  first two, `Accounted` from all.  The key lemma is `MergedCovers`: the union has both rectangles, though one that is empty both ways is dropped.
- `Inv` of `UsChannel`.  Where the server stands in a frame is in its program counter, `rows` and `buffer`, and where the child stands is in
  what it has still to write; between them are the units in the socket.  `Line` says of the units on their way that each follows
  the one before it, within a frame or from the last of one to the first of the next, and that a child that is there has the last
  of its latest frame at the end.  `Place` and `InStep` say that the line begins where the server stands: at a header in the loop, at
  a rectangle with two units taken, at the row that `rows` counts.  So a struct is read from where it was written
  (`WholeStruct`), the length the server reads up to is the frame's, and it ends at a header again (`ReadInStep`).  `Line` holds after a
  cut read, too; the other two hold until then.  `Gestures`, for `GesturesMakeSense`, is about what has been passed on and the page's messages
  behind it as one line: a movement anywhere in it has the button down before it, and the page's `mousedown` is what the line ends with.
- `Inv` of `ClientList`.  That `list_remove_nodes` gets to every node is a fact about chains of any length, which would ask for
  induction.  `Chain` avoids it: the nodes of the list can be *numbered* so that each node's `next` has the greatest number below its own
  and the head has the greatest of all.  Each step keeps such a numbering: a prepended node gets a number above the rest
  (`ChainPrepend`), a removed one leaves its number free (`ChainRemove`, `ChainBehead`).  When the handler's pointer is `NULL` no number is left,
  so no node is.  `Owned` says that each node in use owns a client in use and shares it with no other, and that
  the pointers to its headers and its queue are good, but at the places of `Torn`, and there for one client; `Ahead` that
  nothing of the clients which `list_foreach` has yet to come to has been freed, queues included; `InHand` what the local pointers of the loop point to at
  each place a signal can come.  All three hold unless SIGINT has come where something is torn (`Sound`).
- `WalkInv` of `ClientList`, for the refinement, adds `Newest`: the node being inserted is the head, and a handler that removes one in
  a walk removes a node whose client it has freed.  `ClientSet` has as `colist` and `todo` what can be reached from the head and from the
  walk's pointer in some number of steps.  In a `Chain` that is the nodes with at most the start's number (`ReachedBelow`): down the numbers no
  node comes twice, so as many steps as there are nodes get to every one of them.  So a prepended node, whose number is the
  greatest, is no part of the rest of a walk, and a removed one leaves the rest as it is.
- `OptionsInv` of `Startup`: until `ws_init` the fields that were given are just those whose options have been read, since no two options set
  one field; after it, all but the three.
- `HandshakeInv` of `Handshake`: during the handshake the buffer is exactly what has been taken of the request, no blank line is in
  its string, and nothing has been answered or launched; before `serving` there is no client.  From this each answer is looked at once, where
  it is given.
- `VerdictOfRequest` compares the loop of `parse_headers` with `Acceptable`, which quantifies over lines.  `StringIsPrefix` and `BlankHasCome` say what the
  string in the buffer is, and that its first blank line is the request's (`HeadEnd`); `SameLine` and `SameStarts`, that up to it the
  string and the request have the same lines.  `ParserDef` shows that the recursive definition has a solution, by as many approximations as there
  are places in the string.  `Told` is what the headers tell of the lines before a place: whether all are fine, whether one is a
  request line, and for each name the last value.  `ToldNext` is one turn of the loop; `ParsedFrom` goes from the blank line back to the first
  line, with `BadStays` for what comes behind a blank line that is not the string's end; `WorthOfHead` turns what is told into `Acceptable`.
  A NUL right behind the blank line hides what follows it, so `HeadHasCome` cannot ask for a buffer that ends there.

Induction.  The library's induction theorems take an operator as a parameter, which the provers cannot instantiate.  `SetInduction` states
them of a set instead, the set of the numbers that have the property: `Upwards`, `Downwards`, and the least and the
greatest of a set.  They rest on the library's `NatLessThanWellFounded` and `WFMin`.

Only model-checked: the liveness properties (`DeferredCloseEnds`, `LaunchEnds`, `ExitEnds`, `ChildAccepted`, `Settles`, `ServerReturns`, `ExitSeen`,
`WalkEnds`, `HandshakeEnds`), which are beyond the prover, as fairness and ENABLED are; and the violated claims.

## Findings

Each is a run that TLC ends with a counterexample; the text of the claim is quoted in `PROJECT.json`.

1. `QueueIsLimited` – a comment says that queueing stops when a client is too slow.  `ws_set_status` assigns the status, so that the next frame header
   that is read takes the throttle away: the Pongs of a client that pings and does not read are queued past the threshold, without bound.
2. `ReadsUnlessClosing` – a page refused as one too many is answered without `WS_CLOSE`; when the answer does not go out at once,
   `server->closing` is set; when the answer has gone out, no client is closing any more and none is read.
3. `ConformingServed` – a pong between fragments frees the message so far; the next fragment is then a protocol error.
4. `NotSentIsDirty` – the dirty rectangle of a throttled client is reset although its announcement was dropped: the page keeps
   the old picture there until the child draws again.
5. `OriginEnsured` – the help says that `--origin` ensures that clients send it.  `ws_init` runs after the options are read and sets
   it back to `NULL`, so it is never compared.

More is visible as the exceptions that the properties of the passing runs make, or as the outcomes their actions have:

- `ws_set_status` assigns: a read takes `SENDING` from the status, so that queued bytes wait for a later frame (`Sending` in `ThrottleLimits`).
- An end of input inside a payload is a return value of 0, for which `ws_get_frm_payload` leaves `READING`; the descriptor is then
  readable for ever (`WsClient`).
- When a PNG file cannot be written, `continue` in `check_dirty_pixels` repeats the same client (`SaveFails`; `Settles` needs `HealthySpec`).
- Both walks take `client_node->next` after the node may have been freed (`Stale`, `crashed`); in `ClientList` going on is right only because freed
  memory still has it, or the node has been used again for the head of the list.
- Of two images the older may be drawn last (`Behind` in `DirtyPixels`).
- A read from a child that is cut leaves the channel out of step, and a read of −1 passes the comparison with an unsigned size (`mishap`).
- The server, writing an event, and its child, writing pixels, may wait for each other for ever (`MutualWait`), and a child with a pixel format that
  the server does not support crashes it with its first rectangle (`NoCrash`).
- SIGINT inside a removal, inside `ws_clear_queue` or where `realloc()` has moved a queue frees twice, and inside an insertion leaves the new client (`CrashCause`, `CleanStop`).

Seen on the way: `--addr` sets nothing, `parse_long_opt` knows `--unixsocket` but `getopt_long` does not; `--access-log` and `--max-frame-size` are
reset as `--origin` is; a handshake has no timeout; 400 and 505 may follow a 101; a frame sent right behind the request is answered by 400, or lost if its first byte is 0;
SIGINT between `setup_signals` and `ws_init` would use a server that is not there; an empty text message reaches `strncasecmp()` as `NULL`.

## What is not modelled

- TLS (`HAVE_LIBSSL`): off in the repository's configuration, and a second set of read and write states beside those of `WsClient`.
- Pure functions (UTF-8, SHA-1, base64, pixel and byte-order conversion): parameters or stand-ins in the models; no order of events is in them.
- The sample producers and pages, logging, allocation wrappers: no state that matters here.  Out of memory in `xmalloc` ends the process.
- Widths of integers: a 64-bit payload length is cut to `int`, and the sum of fragments is an `int`.  They are hazards with a note.
- `us_accept` failing, and a child with an unknown pid, which leave a descriptor open that belongs to nobody.
- SIGINT before `ws_init` or inside the allocator; the memory of frames, messages and `us_buddy`, which the handler does not come to; SIGPIPE, which only prints.
- Text of messages, coordinates of events, names of files.

The component list in `PROJECT.json` has the status of each.
