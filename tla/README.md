# A TLA+ model of the InnovationLab DevKit v2 (modular passive matrix)

Two programs talk over a USB serial line.  The **firmware**
(`ArduinoSketch/modularPassiveMatrix`, one Arduino sketch) scans a passive
sensor matrix and sends frames.  The **console client** (`ConsoleClient/Project`,
a Linux program) configures the board, starts the scan, buffers frames and
serves each one as JSON to whoever connects to its TCP port.  Paths below are
relative to `src/`.

## 1. Inventory

| Component | State | Operations | Talks to |
|---|---|---|---|
| Client main loop, command table (`application.cpp`) | `m_applicationState`, `m_baudState`, `m_scanState`, one `CommandState` and one timeout counter per command | `run`, `getBaudRate`, `poll`, `commandsTimeoutTick`, `switchExecuteCommand`, `checkErrorCommand`, the five request functions | board over the line |
| Client answer parser, frame buffer | `m_boardSettings`, `m_scanSettings`, `m_pFrameBuffer` (at most 3 frames, one mutex), input `deque` | `dataParser`, `answerParser`, `frameParser`, `clearFrameBuffer` | main loop; handler threads take frames |
| JSON conversion table | `m_jsonTable`, `m_jsonPresent` | `loadJson`, `jsonConvert` | parser (mismatch test, pixel mapping) |
| HTTP answer | none of its own | `message`, `prepareData` on a thread per connection | frame buffer under the mutex, `m_scanSettings` without it |
| TCP server | status, socket, list of handler threads, list of ended ones; a descriptor per connection | `start`, `handlingLoop`, `stop`, `joinLoop` | one accept thread, one thread per client |
| Shutdown | - | `signalHandler`, `Application::stop` | main loop, TCP server |
| Serial port, discovery (`usbclient.cpp`, unused `tcpclient.cpp`) | file descriptor | `detectDevice`, `readData`, `writeData`, `setupPort` | tty |
| Firmware control (`Application.cpp`) | `m_scanning`, `m_doStop`, `m_scanSettings`, `m_pFilter`, `m_filterWindowSize`, trigger flag; the locals of each `scan` activation | `checkCommand`, `scan` (each calls the other) | receiver, filters, storage, line |
| Firmware receiver | `m_pRxBuffer`, `m_rxIndex` | `getCommand` | line |
| Settings storage (`NanoBLEFlashPrefs.cpp`) | flash records, queued writes | `writePrefs`, `readPrefs` | asynchronous flash data storage of the SDK |
| Filters | sample rows, insertion index | `insertData`, `getData`, `free` | `scan` |
| Multiplexers (`MAX14661.cpp`, `ADG732.cpp`) | `m_pData`, the chain, `m_activeChnlA`; the cached address `m_channel` | `setAllToB`, `switchChnlA`, `nextChnlA`, `channel` | `scan`, `doSample` |
| ADC, DAC, LED, CRC | - | reading, levels | `scan`, `doSample` |

What makes this system hard to test:

* **Timeouts are not time.**  A command's counter is advanced once per loop
  iteration, whose length is whatever `read` takes, and it is cleared only when
  it runs out.  A command may therefore be repeated although its answer is on
  the way, and one of the commands, START_NO_PARAMS, is not idempotent.
* **A re-entrant single thread.**  `scan` is called from `checkCommand` and
  calls `checkCommand`, so the settings a scan runs by can change under it and a
  second scan can be nested in it by the trigger pin.
* **Unsolicited messages.**  Frames stream while commands are exchanged, the
  board stops by itself after a number of samples, the trigger starts scans that
  the client did not ask for.
* **Asynchronous storage.**  A flash write is answered when it is queued.
* **Loss, restart.**  Commands that arrive together are dropped but for the
  first, answers can be cut, the client can be killed while the board goes on.
* **Threads** in the client: handlers take frames while the main loop replaces
  the settings by which they are read; the accept loop hands its own variable to
  the thread it starts; descriptors are closed twice and given out again; stop()
  joins all of it from a signal handler.
* **Bytes.**  Either receiver must find messages in a stream that reads cut
  anywhere, that lacks bytes and carries others; an answer longer than the
  transmit buffer is cut.
* **What nobody checks**: the filter byte of a configuration, the coordinates of a
  conversion file, the end of a TCP client that has gone.
* **Buffers that change as they are sent** (the multiplexer's), windows that keep
  no order of time (the median's), tables of coordinates that nothing bounds.

What makes each component correct:

* command table: one command in flight, nothing requested that cannot be sent,
  a failed command requested again, the exchange always leads back to a scan;
* parser and buffer: a buffered frame has the size by which it will be read, the
  buffer is bounded, a configuration written covers the JSON matrix;
* firmware control: everything a scan switches on is off when it has ended,
  however it ended; a scan that samples has supply and filter; a stop ends it;
  the sample count is respected, whoever changes it; a start reported is a start;
* receivers: messages are handed over in order, each once and whole; what is
  passed over was cut, or excused by a known weakness of the parser; buffers fit;
* TCP server: every client is accepted and, while no handler takes another's
  descriptor, gets its own answer; nothing is left running or open;
* scan: one drive line is on A, the point sampled is the one meant; filters send
  what their window holds, and nothing of before the scan;
* conversion table: frames are rearranged within their memory, no pixel the table
  names is lost;
* storage: what was acknowledged is what is stored;
* both together: when the exchange is over the client believes what is true.

`PROJECT.json` lists the hazards one by one, at their lines, with the properties
that cover them or the reason why none does yet.

## 2. Modules

```
SerialLink            the two message queues, codes, configurations
  HostCommands        the client's main loop      (+ HostSpec: client || any board)
    HostCommands_proofs   theorems
  BoardFirmware       checkCommand and scan       (+ BoardSpec: board || any client)
    BoardFirmware_proofs  theorems
    DevkitSystem      HostCommands || BoardFirmware || lossy line || restarts
      DevkitSystem_proofs   theorems, and that each side does what its open
                            specification allows
FrameQueue            what the frame buffer promises
  FrameServer         the client's threads around the buffer, implements FrameQueue
    FrameServer_proofs    theorems
WholeMessages         what a receiver of bytes promises
  ByteStream            the bytes of one direction of the line
    StreamParser          the client's receiver, implements WholeMessages
    BoardReceiver         the board's receiver, implements WholeMessages
      Receivers_proofs      theorems about both
TcpServer             accept loop, handlers, descriptors, stop
  TcpServer_proofs      theorems
Sampling              multiplexers, column loop, doSample
Filters               moving averages and median over a window
  Scan_proofs           theorems about both
JsonTable             loadJson and jsonConvert
  JsonTable_proofs      theorems
MCHost MCBoard MCSystem MCServer MCTcp MCFrameJson MCParts   constants for TLC
```

**SerialLink** carries whole messages, `[code, conf, status]`.  Every way in
which bytes fail to become a message at the other end (cut, resynchronised
over, CRC, refused by the port) is the loss of that message, bounded by
`MaxLosses`.  `MaxLink` bounds a queue: a writer whose peer does not read
waits (board) or fails (client).  A configuration keeps the fields that control
depends on, x and y size, sample number, filter type; shift, frame rate, delay
and voltages are pass-through data.

**HostCommands**: one iteration of `main`'s loop is one step, because an
iteration reads the line once, parses at most one answer and writes at most one
command, and no other thread touches the command table.  `IterateAnswer` parses
the oldest answer, `IterateSilent` finds none; both end with `Rest`, which is
the remainder of `poll` or `getBaudRate`.

| Code | Definition |
|---|---|
| `Command::timerTick`, `commandsTimeoutTick` | `timerTick(t, expired)`; the counters are the set `expired` of waiting commands that run out now |
| `switchExecuteCommand` | `FollowUp`, `EmptyBranches`, `switchExecuteCommand` - including that an empty branch hides all later ones |
| `answerParser` | `answerParser` with one operator per case that changes state, and `Answered` for the table |
| `poll`'s switch, request functions | `ServeRequest`, `SendCommand`, `Request` |
| `prepareData` (its effect on the buffer) | `TakeFrame` |
| `serverStart`, `loadJson`, `detectDevice` | actions of the same names; their failures are a retry after a second, a stutter |

The client's table has 16 more codes (`commands.hpp`), which no path requests
and the board never answers; `Codes` is the set the board knows.
`m_requestStatus` is stored by the code and never read, so it has no variable.

`HostSpec` composes this with `BoardActs`: a board and a line that take any
number of commands at once, write any answer of `AnyAnswer` at any moment and
lose what they like.  Theorems and the MCHost run are about this open system,
so they hold beside any board.

**BoardFirmware**: the control state is `stack`, the activations of `scan`; the
empty stack is `loop()`.  Each case of `checkCommand` is an action
(`HandleStart` ... `HandleRead`), fed by the line (`ReceiveCommand`) or by the
trigger pin (`TriggerStart`, `TriggerStop`).  A case that starts a scan pushes an
activation; what the code does after `scan` has returned is `EndScan`.  An
iteration of the loop is `NoCommand`/a command, then `AbortScan` or
`SampleAndFilter`.  `Overruns` names the conditions under which the code writes
out of bounds; from then on the board may go on (`fault = "overrun"`) or hang
(`Crash`), as undefined behaviour allows.  `writePrefs` queues; `FlashDone` is
the completion, which reads the *live* settings because `p_data` points to them.
`KnownFilters` are the filters of the switch in `scan`; a configuration may have any
other byte, as `WRITE_CONFIG` stores what it gets, and the scan then has no filter:
its first samples go to a null pointer (`Crash`).  `FrameOf` cuts a frame at
`TX_POINTS`, the points for which the transmit buffer has room (2034 in the code);
the client finds the length wrong and drops it (`Expected` in HostCommands).
`copied` is the copy in `m_data` that the comment speaks of.

`BoardSpec` composes this with `ClientActs`, any client that sends commands of
`AnyCommand`, reads several answers at a time, and any loss.

**DevkitSystem** puts both on one line, adds `LineLoses` and `ClientRestarts`.
The timers are the code's: a counter may run out at any iteration.  What client and
board do not recover from is named, event by event, and remembered in the history
variable `mishap`; the properties that both sides agree hold *up to the first
mishap*, and nothing restricts what a behaviour does before or after it.  The mishaps
are

* `Premature`: the counter of START_NO_PARAMS runs out while the command or its
  answer is under way.  The repetition stops the scan (finding 1).
  READ_FIRMWARE_VERSION counts as well: TLC finds the properties true without it,
  but the proof uses that its answer tells a restarted client that the board is done
  with the commands of the client before it;
* `Unrepeated`: the answer to START_NO_PARAMS or to STOP is lost.  A start whose answer
  is lost is repeated as a start, and a scan that ended by itself sends a STOP
  answer that nobody repeats;
* `Unannounced`: the board does something it does not answer.  The trigger pin is
  low, the configuration is empty (such a start is answered and not carried out), or
  the running scan has a median with window 0, which refuses and ends it in silence;
* a second restart of the client: what the client before the last left on the line is
  answered to the present one.

Every other loss, every other premature counter and one restart at any moment are
allowed to happen and are recovered from.  `BeyondMishaps` says whether TLC follows a
behaviour beyond its first mishap.

**FrameServer** looks at the frame buffer at a finer grain than HostCommands: the
main thread in `answerParser` and `frameParser`, and a thread per TCP client in
`message` and `prepareData`.  What the code does under `m_FrameBufferLock` in the
main thread is one step (`clearFrameBuffer`, `PushFrame`); a handler's critical
section is `TakeFrame`, `ReadSizeX`, `ReadSizeY`, `PopFrame`, since in it the
handler reads `m_scanSettings`, which the lock does not guard; the two writes of
those sizes, the size test of `frameParser` and that of `message` are steps
outside the lock.  A frame is its number and its pixel count.  Each of these
accesses is taken as atomic and done once: they are data races in C++, but each
reads or writes one word, once, in a function that calls others around it.
`HostCommands!TakeFrame` is the joint effect of `TakeFrame` ... `PopFrame`.
**FrameQueue** is the abstract specification: `Put`, `Take`, `Clear`; frames come
out in order, each at most once, never more than `Size` wait.

**ByteStream** reduces a stream to positions: where headers start, how many bytes
the receiver will wait for, whether it knows the code.  What lies between is
noise, and a message may be cut short by the next.  **StreamParser** is one
iteration of the client's input: `ReadAndParse` reads any number of bytes and runs
`dataParser`; `ParseAnswer` has the three ways a recognised header goes (handled,
given up for a second preamble, left in front).  **BoardReceiver** is one
`getCommand`: `Fails`, `Takes`, `FailsChecksum` and `Waits` are the ways it ends,
`NothingAvailable` the call that finds no byte, which also empties the buffer.
Both implement **WholeMessages**, which is what SerialLink takes for granted: so
the whole-message queues of the other modules rest on something checked.
`NoAnswerLost` names the reasons for which the parser may pass an answer over;
the third, a read that ends seven or eight bytes after its beginning, is the
weakness of `application.cpp:1279`.

**TcpServer** has the threads of `tcpServer.cpp` as they run on Linux: the loop
(`LoopTests`, `Accept`, `Reap`), a handler per connection (`CopySocket` ...
`Report`, with the two closes of the two `Client` objects), the main thread in
`signalHandler` (`Signal`, `CloseServer`, `JoinLoop`, `JoinHandlers`, `JoinAgain`).
The kernel is external: it queues connections and gives out the lowest free
descriptor.  `Accept` and the start of the thread are one step, `CopySocket` is
the later moment at which the thread reads the loop's variable; a thread may be
delayed anywhere, and so between its two closes.  Both races do hit other clients, and
the history variable `astray` holds those they hit: the clients whose handler took a
descriptor that was not theirs, and those whose connection another handler closed.
The properties about answers are about all others.  `accept` fails when no descriptor
is left or the socket is closed already (`AcceptFails`), and the loop goes round.
`send` returns when the kernel has taken the answer: for a client in `Readers`, which
stays and reads, it does so in the end; for any other it may wait for ever, so
`SendData` is fair only where `MaySend` says.  When the client has broken the
connection off, `send` fails, or raises SIGPIPE and ends the process (`BrokenPipe`).
A thread's append to `m_clientHandlingEnd` is one step, although the list has no lock.

**Sampling** follows one scan over the matrix: `StartScan`, `FirstColumn`,
`SelectRow`, `Convert`, `NextColumn`, `EndScan`.  Chip registers are the sets of
lines connected to A and to B; `setData` exchanges buffer and chain, which is what
an SPI transfer from and into the same memory does.  Configurations change between
frames, as a command may do that.  `CHIP`, `CHAIN`, `SCAN_LINES` and `INT8_LIMIT`
stand for 16, 2, 32 and 128.

**Filters** takes one point of the matrix, since points do not influence each
other, through `insertData`, `getData` and the warm-up of `scan`.  `recent` and
`measured` are history variables.  `std::sort` is what its result is, by ranks
(`Sorted`).  A rounded half of the weighted average may go
either way, as its weights are floats.

**JsonTable** starts where `loadJson` has found its tokens: sizes, coordinates cut
to a byte, the test of the extents, then the sizes taken from a start answer and
the conversion of every frame.  A pixel is represented by its position in
the frame received, so that `shown` says which pixel appears where.  Nothing is
assumed of a file's coordinates.  `Origin` is the position of the table's first
point and `Stretch` the positions a table without repetitions can name; both
properties are stated by them, so they cover tables that do not count from zero, as
the delivered `ConsoleClient/frame.json` (columns 12 to 31).

**MCParts** puts the modules that share no variable into one specification for
TLC: a behaviour belongs to one of them (`part`) and leaves the others where they
began.  Each has its own actions, fairness and properties, as if run alone.

## 3. Runs

| Run | Question | Bounds, and why they suffice |
|---|---|---|
| `host_any_board` | Does the client keep its table, buffer and settings consistent whatever the board does? | One slot per direction, one loss, one buffered frame; sizes {0,1,2} with one JSON matrix that fits the answers' and one that does not. The properties relate at most two commands or a frame and the settings; a second slot adds no new pair, and the proofs cover every bound. |
| `board_any_client` | Does every path through `checkCommand` and `scan` leave the board consistent? | Every command, empty flash, endless and finite scans, a matrix written with a zero size, a larger one than the running scan's (overrun), flash queue of 1, moving average of window 1 and a filter byte (6) that names no filter; one point fits the transmit buffer. Two activations (never reached without trigger). |
| `board_trigger` | The same with the trigger pin moving and every window filter. | Two activations: the nested scan and the one it is nested in; windows 0 (refusal, overrun) and 2 (a warm-up longer than an iteration). `ScanReady` is not claimed here, see finding 3. |
| `system` | Up to the first mishap, do the two agree when the exchange is over, and do they always come back to scanning? Is every step of either side one that its own open specification allows? | One loss, one restart, two slots, a flash queue of one write, finite scans of two points, and a JSON file that does not fit, so that WRITE_CONFIG is sent, its queueing may be refused, and the new matrix is too large for the transmit buffer. Counters run out at any iteration. A loss and a restart may fall anywhere in the exchange; the proofs cover any number of losses, any line and any configuration. |
| `parts` | Seven questions, one for each module that MCParts takes in; below. | Below. |

The parts of `parts`:

| Part | Question | Bounds, and why they suffice |
|---|---|---|
| FrameServer | Is the buffer a queue for its threads, and can one of them keep the lock for ever? | Two handlers that come again and again, two buffered frames, three frames in all; every start answer brings one matrix, the JSON file another of equal pixel count (`server_walk` has two in the answers). A third handler adds no new pair of accesses; the proofs cover any number. |
| TcpServer | Is every client accepted and served by its own handler, whatever others leave undone, and is nothing left behind? | Two clients, two descriptors: one reads, the other may never read, hang up or break off; one descriptor reused, or none left. The proofs cover any number. |
| StreamParser | Which answers can the parser lose? | Up to three messages of five kinds: shortest, long behind noise, cut before the code, cut shortly and long before the end. Reads of 0 to 20 bytes. Resynchronisation involves a message, the one behind it and one cut by it; proved for every stream. |
| BoardReceiver | Which commands does the board take? | Up to two of six kinds: shortest, behind noise, WRITE_FLTR_CONF, unknown, longest whole and cut. Reads of 1 to 26 bytes. |
| Sampling | Is every value taken at its point? | Two chips of two lines, two scan lines, rows negative from 4; sizes 1, 5 and 6, shifts that cross the chips' border and the chain's end. |
| Filters | Do frames hold what the window says? | Windows of 1 to 4 (odd, even, trivial), values 0, 1, 2, 4, any memory before the scan. |
| JsonTable | Can a conversion leave its frames or lose pixels? | All files for a 2 x 1 matrix with coordinates up to 5 (a byte holds 4 values), so also those that count from 1 or 2; all permutations and repetitions for 2 x 2; boards as large, larger, and turned. `json_default` has the delivered file at full size. |

The violation runs show disagreements between the code and its own comments or
messages; each checks one property.

1. `system_retry`: a start repeated by a premature timeout toggles the scan
   off (`Application.cpp:578-580`); the client takes either answer for a start
   and shows SCANNING for ever.
2. `system_mismatch`: "mismatch. Stop scan" (`application.cpp:1499`) stops nothing.
3. `board_nested_scan`: a trigger start in a scan; the nested scan's exit powers
   off and frees the filter of the outer one.
4. `board_flash_copy`: `writePrefs` copies the settings and then stores the
   original.
5. `server_walk`: `prepareData` reads the sizes while the main thread replaces
   them, before it clears the buffer; the frame is walked by wrong sizes.
6. `tcp_handled`: two connections before the first thread has read its
   descriptor; both threads serve the second client and the first is never handled,
   against the comment on the constructor (`tcpServer.cpp:4-5`).
7. `json_default`: the delivered `ConsoleClient/frame.json` has 20 x 12 points with
   the columns 12 to 31.  The extents fit the sizes (`application.cpp:898`), so it is
   used, and a frame of its own 240 pixels is read at positions up to 383
   (`application.cpp:931`); README.md:33 calls it the default conversion.

`CHECK_DEADLOCK FALSE` in the MCBoard configurations: a board hung by undefined
behaviour with a full line has no further step; in MCParts, MCTcp and MCFrameJson: streams end,
clients connect once, a server that has been stopped is done, a conversion file that
does not load is tried for ever.  The other runs check deadlock.

### Fairness

`SysFairSpec`: weak fairness of the client's iterations and of its start-up and
weak fairness of the scan's own steps, since both programs are endless loops
that nothing blocks for ever; weak fairness of `FlashDone`, as the flash storage works
its queue off; strong fairness of `ReceiveCommand`, because
it is enabled only at the one point of the scan loop where the port is looked
at, and the loop comes by that point again and again with the command still
there.  No fairness for losses, restarts, the trigger or TCP clients.
`BoardFairSpec`: weak fairness of the scan and of the client reading the port;
without the reader the board waits in `Serial.write`.
`ServerFairSpec`: weak fairness of each handler's own steps, since the operating
system runs every thread, but not of `SendAnswer`, which a client that does not
read blocks, and not of waiting clients.
`TcpFairSpec`: weak fairness of the loop, of the stopping thread and of what each
handler does by itself, for the same reason; of `send` only where it returns without
the client's doing (`MaySend`: the client reads, or has gone).  None of other clients,
of the signal and of the board.
`ParserSpec`: weak fairness of `ReadAndParse`, an iteration of the endless main loop.

## 4. Proofs

`HostCommands_proofs` proves for `HostSpec`, for every set of sizes, every link
capacity, every frame buffer size and every set of answers of the board:

| Theorem | Property |
|---|---|
| `HostTypeCorrect` | `HostTypeInvariant` |
| `HostSingleOutstanding` | at most one command in state WAIT |
| `HostOnlySendableRequested` | only sendable commands leave NONE/SUCCES |
| `HostBufferedFramesFit` | each buffered frame has the points of `scanSettings` |
| `HostWrittenConfigCoversJson` | each WRITE_CONFIG on the line covers the JSON matrix |

Assumptions: `LinkAssumption`, `HostAssumption`, `AnswerAssumption`, that is
the constants are of the kinds their comments say.

The inductive invariant is `HostInv`.  Two of its parts are there only to make
it inductive.  *A pending write has scan settings that cover the JSON matrix*
(`WritePending(cmd) => Covers(scanSettings)`): the configuration is read from
`scanSettings` when the write is served, which can be many iterations after the
mismatch; a start answer between them replaces the settings, but by settings
that `SettingsOf` has widened again.  *Before the JSON file is read nothing is
requested or on the line*: otherwise reading it could break `Covers`.  The step
proof follows the code: `TickOK`, `AnsweredOK`, `SwitchOK`, `SendOK`, `ServeOK`
and `RestOK` each say that one stage of an iteration keeps a command table
within `TableOK`, `AnswerOK` that parsing keeps the rest, and `IterateOK` joins
them; `HostInvNext` has one step per action.

`FrameServer_proofs` proves for `ServerSpec`, from `ServerAssumption` alone, so for any
number of handlers, any sizes and any limit:

| Theorem | Property |
|---|---|
| `ServerTypeCorrect` | `ServerTypeOK`, with `Len(buffer) =< FRAME_BUFFER_SIZE` |
| `ServerWalkedFrameStays` | the frame a handler walks stays at the front |
| `ServerImplementsQueue` | `FrameServer` implements `FrameQueue` |

The invariant `ServerInv` adds that the handler in the critical section is the one
that has the lock (`LockHeld`), that what it has taken is the front of the buffer or
the empty frame (`TakenIsHead`, so `PopFrame` removes what was sent), that the room
`frameParser` saw without the lock is still there when it pushes (`RoomLeft`: only
the main thread adds), and that numbers grow along the buffer (`InOrder`).  `IdsAppend`
and `IdsTail` carry `push_back` and `pop_front` over to the sequence of numbers, which
is the refinement mapping.

`Receivers_proofs` proves for `ParserSpec` and `ReceiverSpec`, for every set of
streams, however reads cut them and however much one read brings:

| Theorem | Property |
|---|---|
| `ParserInvariant`, `ReceiverInvariant` | `ParserInv`, `ReceiverInv` |
| `ParserImplements`, `ReceiverImplements` | both implement `WholeMessages` |
| `ParserLosesNoAnswer` | `NoAnswerLost` |
| `ReceiverRxFits` | `RxFits`, from `RX_COMMAND_SIZE >= LONGEST_NEEDS + SERIAL_BUFFER` |
| `ReceiverOneReadSuffices` | `OneReadSuffices` |

The invariants checked are the inductive ones: the buffer lies behind what was
handed over, and what waits in `m_pRxBuffer` begins with a header (`Waiting`).
`NoAnswerLost` follows from what `dataParser` does between the two values of
`front`: the loop that drops bytes stops at each header of which nine are there.

`TcpServer_proofs` proves for `TcpSpec`, for any number of clients and descriptors:
`TcpTypes` (`TcpTypeOK`), `TcpStopJoinsAll` (`StopJoinsAll`), `TcpSentToOwnClient`
(`SentToOwnClient`).  The type invariant carries what `Reap` relies on, that only
threads in the list have reported their end; the first property needs that a thread
not in the list is over, the second that the descriptor of a handler that is about to
send stands for its own client unless that client is in `astray`.

`Scan_proofs` proves for `SamplingSpec`, for chips, chains, scan lines and
matrices of any size: `SamplingTypes`, `SamplingDrivesOneLine`,
`SamplingAtRightPoint`.  The invariant relates the chain to `activeChnlA` and this
to `shiftX + col`, and says that the address latched is the cached one unless
power has come since.

And for `FiltersSpec`, for windows of every size and whatever the ADC measures:

| Theorem | Property |
|---|---|
| `FiltersTypes` | `FiltersTypeOK`, with the median's cells in order |
| `FiltersSendAverage` | `SentIsAverage` |
| `FiltersSendSteady` | `SteadyIsSent` |
| `FiltersSendMeasured` | `MedianWasMeasured` |

`FiltersInv`, which stands in Filters (TLC finds it true within the bounds of the
run `parts`), relates the cells to the measurements.  Nothing is sent before
`recent` is full (`SentFromWindow`), and the n-th newest value is in the n-th cell of
the weighted average and in cell `CellOf(n)` of the ring of the other.  So the cells
are the measurements, rotated or reversed, and `AverageTotal` and `TotalReversed` say
that a sum does not mind.  The median keeps no order of time, and two facts take its
place.  `Reached`: a value that came n times in a row is in the middle, or fills n
cells from that end of the window at which it lies; after a window's length it cannot
but be in the middle.  And as long as a zero is in the middle and none was measured,
each frame of the warm-up has put another value behind it, so the warm-up ends with
no zero in the middle.  Both need what sorting does to a window of which an end was
replaced, and that is proved from the ranks that `Sorted` is defined by.  The lemmas
about sums are inductions over lengths; they are carried out on the set of the lengths
for which the statement holds (`NatSet`, from the well-foundedness of `<` on Nat),
because the library's induction theorems take an operator as a parameter.

`BoardFirmware_proofs` proves for `BoardSpec`, so beside any client, any line, any
configuration, any flash queue and any nesting of scans:

| Theorem | Property |
|---|---|
| `BoardTypeCorrect` | `BoardTypeInvariant` |
| `BoardIdleIsOff` | `IdleIsOff` |
| `BoardCountKept` | `CountKept` |
| `BoardScanReady` | `ScanReady`, if `ExternalTrigger = FALSE`; for every filter byte |
| `BoardNoNesting` | `Len(stack) =< 1`, if `ExternalTrigger = FALSE` |

`BoardInv` adds three facts to what is checked.  `Suspended`: a scan that another
one interrupted was itself at its column loop when it took the command, so it goes
on there.  `StopPending`: `m_doStop` is only ever set for the scan that runs and is
taken by it before anything else, which is why none is left for a later scan; it
is what makes `IdleIsOff` inductive.  `CheckScans`: a scan that looks for commands has
`m_scanning` set.  Without the trigger that means that every start meets a running
scan and stops it, and this is what `UntriggeredInv` needs for `Len(stack) =< 1` and
from it for `ScanReady`: no inner scan is there to switch the supply off.  With the
trigger the property is false (run `board_nested_scan`), so the hypothesis is the
real condition and not a convenience.

`JsonTable_proofs` proves for `JsonSpec`, for any set of files and boards of any size:

| Theorem | Property |
|---|---|
| `JsonTypes` | `JsonTypeOK` |
| `JsonConvertsInside` | `ConvertsInside` |
| `JsonAllPixelsShown` | `AllPixelsShown` |

Neither has a hypothesis on the file.  A table in use fits its sizes (`Spans`), so its
coordinates are the `jsonX` and `jsonY` lines that begin with the smallest
(`SpansFromStart`), and each position that `jsonConvert` reads lies in the stretch
(`SourceInStretch`).  If that begins at zero, `JsonInv` has the rest: the client never
expects a scan smaller than its table in either direction (`TableFitsScan`), so the
frame is at least as large as the table.  `AllPixelsShown` needs that positions
determine pixels and that an injection into a finite set of the same size is onto.

`DevkitSystem_proofs` proves for `SysSpec`, the two programs on one line:

| Theorem | Property | Hypotheses on the constants |
|---|---|---|
| `SystemAgrees` | `AgreeUnlessMishap` | none |
| `SystemFramesExpected` | `FramesExpected` | none |
| `SystemRefinesBoard` | `BoardSpec` | `AnyCommand` holds every sendable message |
| `SystemRefinesHost` | `ImplementsHost` | the same; `AnyAnswer = Messages` |

The hypotheses of the last two say that the partner of the open specification may be
any at all.  Capacity, losses, configurations, sizes, samples, filter windows and the
JSON file are arbitrary in all four.  Of the mishaps of
DevkitSystem a lost start or stop answer, an empty configuration, a refused window and
a premature counter of START_NO_PARAMS each lead TLC to a disagreement when they are
not counted.  With the trigger the exchange is never over: the answer to START_CAN stays
in the command table for ever and hides what follows, so the properties would hold for
a client that has come to a stop.  READ_FIRMWARE_VERSION: see above.  With more restarts
TLC finds no disagreement up to five on a line that loses nothing, and one at six,
where enough has gone stale to have a second start sent while the first is on its way.
With one restart the client that is killed has had an exact account of what is on the line
(`restarts = 0` in `StartsMatched`), and that is what the proof uses.

The invariant is `SysInvUnlessMishap`.  Its `SysInv` joins those of the two programs and
four parts that relate them.
`StartsMatched`: there is one start on the line at most, as a command or as its
answer, and the client waits for it, unless a killed client left it (`Outdated`): then
it is ahead of the version request of the new one, which therefore cannot be
answered, and nothing is started, before the old start is out of the way.
`StartsAgain`: a client that shows no scan has a command pending that ends in a start,
and one that does not know has a stop pending.  `AnswersTell`: if the client reads all
answers that are on the line, it believes what is true; the last start answer
behind all stop answers (`LastStart`) carries the points of the running scan.
`ScansAnswered`: scans do not nest, run by a configuration that is not empty, and end
with an answer.  The step of the client is cut in two, as the code does it: the
answer is parsed (`SilentEntered`, `AnswerEntered`: what the command table is then),
and the rest of the iteration changes the table and writes at most one command
(`RestEffect`, `IterationOK`).  That of the board is cut by what it means for the client:
it goes on as before, a scan starts and says so, or ends and says so (`BoardCases`);
`TakenQueue` and `LineKeepsMatch` show that a command taken, and the others dropped
with it, leave the line in order.

The two refinement theorems are what makes the theorems about the open
systems theorems about the product: every step of the composition is a step of
the board or one that `ClientActs` allows (`SystemIsBoard`), and likewise a step of the
client or one that `BoardActs` allows (`SystemIsHost`).  They hold
across mishaps, with premature timeouts, with the trigger and with any loss.  A restart
is no step of the client; `ImplementsHost` says so.

Only model-checked:

* Liveness (`StopEnds`, `KeepsScanning`, `LockReleased`, `AcceptsDespiteStuck`,
  `RequestsEnd`, `AnswersGetHandled`): the prover has no ENABLED.

## 5. What is not modelled, and why

* The byte layout of answers and frames (the fields of `frameParser`), the CRC, the text of the JSON file: conversions without state.
* The exit of `scan` after a refusal of `getData` (`Application.cpp:231-234`): the
  filters' `getData` refuse for null pointers only, and `insertData` has refused the
  same ones just before.  Failing allocations.
* The cumulative average and the Kalman filter: recurrences in floating point.
* A signal that interrupts `poll` in the middle: TcpServer takes it between two
  iterations.  The broken list that unsynchronised appends may leave.
* Whether stop() ends: it need not (`close` does not wake `accept`, nothing
  asks the board to stop, a handler may wait for ever, the second join throws).
  TcpServer has all these behaviours; no line promises that they do not occur.
* B-side channels of the MAX14661, restart and setPort of the server: never called.
* Drivers of ADC, DAC and LED, serial port set-up, the discovery client that is
  never called, option parsing: I/O without control state.
* `deletePrefs`, `garbageCollection`: never called.  `START` from the client:
  never requested (`startComm`), though the board's case for it is modelled.
* Windows variants of the TCP server.

## 6. Plan

1. *(done)* SerialLink, HostCommands, its proofs; BoardFirmware; DevkitSystem.
2. *(done)* FrameServer, FrameQueue and the proof that one implements the other.
3. *(done)* TcpServer and shutdown; StreamParser and BoardReceiver; Sampling;
   proofs of the first four.  Filters, JsonTable.
4. FlashPrefs: abstract specification "acknowledged settings are the stored
   ones", refinement by queued writes; what reloading does to it.
5. *(done)* Proofs about BoardFirmware, JsonTable, Filters and DevkitSystem: each invariant
   that a passing run checks is a theorem.
6. The trigger in DevkitSystem; the byte layout of frames, the CRC.
