# lumweb: a verification project

lumweb is the firmware of a small board (LM3S9B96, FreeRTOS V6.0.0, lwIP 1.3.1)
that puts a web interface and a touch display in front of a machine.  The
machine hangs on a serial line; pages and configuration lie on an SD card.  A
browser and the display both read and set the machine's parameters through the
board's web server: the display is itself a client of that server.

This directory holds TLA+ modules that model parts of the firmware, TLC
configurations that check them on small instances, and proofs that TLAPS checks
for all values of the constants.  Paths below are relative to
`src/src/uInterface/` unless they begin with `src/`.

## 1. Inventory

| Component | Code | State | Operations |
|---|---|---|---|
| Com task | `communication/comTask.c`, `impl/UARTImpl.c` | `xComQueue`, `xHttpdQueue`, its message | receive a request, GET and answer, SET, resume |
| CGI and reads | `ethernet/httpd/cgi/io.c` | one static message, the request's parameters | `SetCGIHandler`, `io_get_value_from_comtask` |
| Page sender | `ethernet/httpd/httpd.c` 589-1275 | `struct http_state` of a connection | `send_data`, `http_sent`, `http_poll`, `close_conn` |
| Connection and request | `ethernet/httpd/httpd.c` 301-403, 1279-1634 | the pcb's argument and callbacks | `http_accept`, `http_recv`, `conn_err`, `get_404_file` |
| SSI parameters | `ethernet/httpd/cgi/ssiparams.c` | linked list, its root pointer | add, get, delete all |
| Tag handlers | `ethernet/httpd/cgi/cgifuncs.c`, `taglib/tags/*.c` | none of their own | render a tag, load it for the display |
| Ethernet driver | `ethernet/ETHIsr.c`, `ethernet/LWIPStack.c` | interrupt mask and status, RX and TX semaphores, TX mutex | interrupt handler, `ethernetif_input`, `low_level_output` |
| Link monitor | `ethernet/LWIPStack.c` 554-770 | link state, IP configuration | poll the link every second, reload the page on link-up |
| Configuration | `configuration/configloader.c` | file, read buffer, line position | `loadFromConfig`, `paramAndValueFound` |
| DHCP client | `src/src/external/ethernet/lwip131/src/core/dhcp.c` | state, tries, lease timers | discover, request, check, bind, renew, refuse |
| Serial line | `communication/impl/UARTImpl.c`, `uart/uartstdio.c` | the two receive FIFOs, the line being read | print, read a line, echo |
| Display pages | `graphic/gui/*.c`, `graphic/httpc/webClient.c`, `taglib/taglib.c` | `xDisplayRoot`: list of lines, first line shown, widgets | load a page, draw, page up/down, follow a link, open the editor |
| Value editor | `graphic/gui/valueEditor.c` | the line being edited | increase, decrease, store, cancel |
| Clock | `realtime.c` | a struct of fields | count, set |
| Start-up, log | `main.c`, `setup.c`, `timer.c`, `log/`, `src/src/startup.c` | none that matters | create tasks and queues |
| Machine simulator | `src/src/maschinen_simulation` | its parameters, its panel | read a command, set, answer, draw |
| Vendored code | `src/src/external` | ready lists, queues, pcbs | the kernel's and lwIP's services |

How they interact:

* All HTTP work runs in lwIP's **tcpip thread**: callbacks of `httpd.c` call the
  CGI handler and the tag handlers, which call `io_get_value_from_comtask`.
* The tcpip thread and the **com task** talk through two queues of six messages
  (`queueConfig.h`), neither side waiting for room.  A read also *suspends the link
  monitor* (`xLwipTaskHandle`), which com resumes with the answer.
* The **Ethernet handler** wakes ETH_INPUT (highest priority) and the sending task
  by semaphores; it, ETH_INPUT and the senders all change the controller's
  interrupt mask.
* The **graphic task** loads pages over the loop-back of the same web server, and
  draws them; on link-up the **link monitor** loads a page too.
* The **link monitor** is also the task that starts the network: it reads the
  configuration from the card, starts lwIP's DHCP client, and renews its lease
  while the tcpip thread's timers and the server's messages drive the same client.
* The **machine** is a second program.  Board and machine echo each character they
  read; commands, answers, echoes and the board's log share one serial line.  The
  console takes no lock: com, any task that prints, and the Ethernet handler itself
  (`ETHIsr.c` 188, 195) send on it, and the handler's switch of tasks (210) comes in the middle
  of whatever com prints or reads, so that their texts mix character by character.
* The kernel does not preempt (`configUSE_PREEMPTION` 0): a task runs until it
  blocks or yields, except that two interrupt handlers end with a switch of
  tasks - the Ethernet handler is one.

What is hard: the order in which a task is woken, suspended and resumed; waits
that end just before the answer comes; queues that are full; an interrupt mask
that three parties change without a lock; a tag scanner whose state survives
from call to call while blocks end anywhere and TCP takes as little as it
wants; connections that fail at every point where memory is needed; two tasks
that fill and draw one list of lines in memory that is used again at once; a
configuration cut into blocks; several tasks that print on one line without a
lock; two programs on that line that lose characters when their receivers are full.  The list of hazards in `PROJECT.json` names the lines.

## 2. The modules

| Module | What it is |
|---|---|
| `ReadyList` | one list of FreeRTOS: who runs next, what removing or appending does to the others |
| `ComProtocol` | kernel, tcpip thread, com task, link monitor and Ethernet interrupt, with the two queues |
| `MachineAccess` | what the queues are for: ordered sets and reads of the machine's parameters (abstract) |
| `MCComProtocol` | instances for TLC |
| `ComProtocol_proofs` | theorems about `ComProtocol`: types and the resume; what reads return, in time and late |
| `EthDriver`, `MCEthDriver` | interrupt handler, ETH_INPUT, sending tasks and the controller |
| `SsiPage`, `MCSsiPage` | one connection of the web server sending a page with tags |
| `HttpConn`, `MCHttpConn` | all connections of the web server: callbacks, memory, files, lwIP's closing states |
| `Display`, `MCDisplay` | pages on the display: two loading tasks, lines, widgets, paint and press |
| `Console` | what `UARTprintf`, `usprintf` and `atoi` make of their arguments, for both programs |
| `MachineScreen` | the simulator's panel and its controller |
| `SerialLine`, `MCSerialLine` | board and machine on the serial line (extends `Console`, `MachineScreen`) |
| `ConfigFile` | `loadFromConfig` as a function of the file's text |
| `DhcpClient` | lwIP's DHCP client, its timers, and a server |
| `NetSetup`, `MCNetSetup` | the boot task and link monitor (extends `ConfigFile`, `DhcpClient`) |
| `ParamForms`, `MCParamForms` | parameters on their way to a page and back: tags, browser, display, editor, `SetCGIHandler` |
| `ParamForms_proofs`, `NetSetup_proofs` | theorems about the editor and `SetCGIHandler`, and about the address |
| `SsiPage_proofs` | theorems about the counters of `send_data` and the data TCP keeps |
| `SerialLine_proofs` | theorems about the lines that the machine reads, and its panel |
| `Display_proofs` | theorems about the display's tree of widgets, the memory of its lines and what it shows of a page |
| `EthDriver_proofs`, `HttpConn_proofs` | theorems about the interrupt mask and the transmitter, and about the connections' memory and answers |

### ComProtocol

`state` and `order` are the kernel's ready list (`ReadyList`), `running` is the
task on the processor.  The tcpip thread's `tcpip_pc` and com's `com_pc` name the
kernel call each will do next; everything between two kernel calls is one
action, since nothing preempts.  `phase` tells whether the tcpip thread is in
`SetCGIHandler` (set, read back, compare) or in an SSI tag's handler (read one
field).  `xComQueue` and `xHttpdQueue` hold the messages; a field `fresh` marks, as
history, the request of the current wait, and `owned` that the request into which the
item's name points is still held (the name is never copied: `io.c` 233 sets `freeItem`
to `pdFALSE`, and 235 takes the pointer).

| Action | Code |
|---|---|
| `SetParam`, `RereadParam`, `SendGet`, `SuspendLwip` | `io.c` 178-387, 556-576 |
| `AwaitAnswer`, `ReceiveAnswer`, `GiveUp`, `AnswerTimeout` | `io.c` 581-590, the 10 ticks of the wait |
| `ReadField` | a field's `...RenderSSI`, e.g. `taglib/tags/IntegerInputField.c` 107-133 |
| `AwaitRequest`, `HandleGet`, `HandleSet`, `ResumeLwip`, `RequestTimeout` | `comTask.c` 46-88 |
| `LwipRound`, `DelayOver` | the link monitor's loop, `LWIPStack.c` 719-769 |
| `EthernetInterrupt` | the handler's switch of tasks, `ETHIsr.c` 140-211 |

A point that decides much: FreeRTOS' `vListInsertEnd` puts a woken task just
behind the one that the list's index points to, so that com, woken by the
request, runs only *after* the tcpip thread blocks.  Therefore the suspend in
`io.c` 576 is done before com's resume although nothing guards it - unless the
Ethernet handler switches tasks between 572 and 576 (the history variable `cut`).

### EthDriver

`RIS`, `IM`, `NP`, `NEWTX` are the controller's registers, `RxSem`, `TxSem`, `mutex` the
kernel objects.  A change of the interrupt mask is a read (the value goes to `im`)
and a write, two steps, as in the driver library.  Frames arrive, and
transmissions end, at any time; the controller may drop frames and report
errors.  The handler is one action; `cpu` says who runs after it.  The cable may
change at any time: its event (`PHY`) makes the handler read the PHY and set `link`, and
while `link` is down nothing is sent.  Whether the PHY raises it depends on the PHY's
own mask, whose write is commented out (`ETHIsr.c` 343); the model takes it as possible.

### SsiPage

One byte is one token; a parameter `name=value` is one token.  `send_data` is
split into steps (`pc`), between which no other action is enabled.  The counters
have the widths of the code (`u8_t`, `u32_t`, scaled down to 8 and 64 values).
`queue` is what TCP holds unacknowledged, with how it was handed over; `out` is
all that was handed over.  Memory for the buffer is granted in one of `BufSizes`
or not at all, a read of the card may fail, `tcp_write` may have no memory.
`block_ends` is history: a tag of the page has ended with a block.  A parameter's own
memory may be refused too (`ssiparams.c` 77-94), and the list of parameters may be rendered after it was
freed (`freed`, behind a tag in the same call that rendered to nothing): `spoiled` is
history of either.

### ParamForms

`store` is the machine.  `form` is a page in the browser, `lines` the same page on
the display (`xDisplayRoot.entities`), `aktElement` the line in the editor.  `request`
holds the parameters of set.cgi, `i` and `value` are locals of the handler.  A text
is what the handler's own functions make of it: the pieces between its points,
each a number or none (`CheckDecimalParam`, `strtok`).

| Action | Code |
|---|---|
| `LoadForm`, `LoadLines` | `...RenderSSI` and `...OnLoad` of the four input tags, `taglib/tags/` |
| `Enter` | the browser's user |
| `SubmitForm` | a plain form, or the script `get_form_values`, `funcs_c.js` 42-76 |
| `CheckboxAction`, `OpenEditor`, `IncreaseValue`, `DecreaseValue`, `ExitEditor` | `touchActions.c` 83-110, `valueEditor.c` |
| `TouchStoreValues` | `touchActions.c` 36-45, the request built in `webClient.c` 48-70 |
| `IgnoreParam`, `SetCheckbox`, `SetFloat`, `SetTime`, `SetInteger`, `Finish` | one round of `SetCGIHandler`'s loop, `io.c` 219-416 |

`means` of a field, `asked`, `regular` and `before` are history: what the user of a
field means by its text, the pairs that the sender of a request means, whether the
request is one that the code carries as it was meant, and the machine
before it.  Here the machine answers in time and in order; what happens
otherwise is `ComProtocol`.

### HttpConn

A callback of `httpd.c` is one action, since the tcpip thread runs one at a time; a
received segment calls up to three (`todo`: sent, recv, recv with NULL).  `pcb`,
`hs`, `files` are what lwIP, the heap and the file system give out; `Luck` chooses
for each call what is refused: a state, a buffer, a FIN, a block, a write.  An
operation of the code that several callbacks share (`SendData`, `CloseConn`,
`FreeState`) is an operator from worlds to worlds.  The data of a page is its
number of blocks; `SsiPage` has its contents.

| Action | Code |
|---|---|
| `Accept` | `http_accept`, `httpd.c` 1589-1614 |
| `Sent`, `Poll`, `PollNull`, `PollUnclosed` | `http_sent`, `http_poll`, 1204-1275 |
| `RecvIgnored`, `RecvInvalid`, `RecvGet`, `RecvFin` | `http_recv`, 1279-1580 |
| `RemovePcb` | `conn_err`, 301-321, or the end of a closed connection |
| `Segment`, `TimeOut` | what lwIP's TCP does to its control blocks |

### Display

`display` is `xDisplayRoot` with its list of lines, the pool its memory comes from, and
the widget tree as the code's pointers make it: `chain` is what a walk from the
root finds, `loose` the next-pointers of widgets outside it.  heap_2 gives a line
the block that was freed last.  `load[t]` is task `t` in `webClient.c`: connecting,
receiving a segment and parsing it (`Parse`), closing and drawing.  What the server may
render of a page is `Pages`: an input is missing when the machine does not answer
for it (`io_get_value_from_comtask` returns -1, and `vFloatRenderSSI` and its like
write no tag).  Painting and
pressing walk over `chain`; a walk that meets a cleared pointer, or a freed line
that is read, sets `fault`.  `overlap` and `paged` are history: the two tasks were at
work together; a page button was pressed.

### SerialLine

A side's `pc` says whether it is printing (`out`), reading (`buf`) or has a line; the
board's side is com.  One character of the line is one token: a word of the
protocol, a digit, a minus, CR, LF.  Each token that is read is echoed before the
next one.  `talk` is what the others on the board have yet to send: a task's log line
(`Log`), a text without an end of line (`LogPiece`, as `LWIPStack.c` 744 and 764 print), or
the two lines of the interrupt handler (`Interrupt`), during which no task runs.  All of
them send token by token, in any order, also while com is in `UARTgets`.  A full
receiver loses the token, and both programs go on.

| Action | Code |
|---|---|
| `GetFormMachine`, `SendToMachine`, `LogLine` | `UARTImpl.c`, as com calls it |
| `BoardPut`, `MachinePut`, `TalkPut` | a turn of `UARTwrite`'s loop, `uartstdio.c` 447-547 |
| `BoardGets`, `MachineGets` | a turn of `UARTgets`' loop, `uartstdio.c` 741-863 |
| `Log`, `LogPiece`, `Interrupt` | `printf` in other tasks, e.g. `httpd.c` 1310; `ETHIsr.c` 188-196 |
| `HandleGet`, `HandleSet`, `HandleOther` | the loop of `simulation.c` |

`owed` is history: the lines that the board sent or echoed and the machine has not
handled, each with its text and with how it ends.  An end of line that the board
echoes ends two, the one it echoed so far with CR and an empty one with CRLF.  `unset`
are the SETs among them.  `torn` is history as well: it becomes "now" when a text
is begun in the middle of another's, has no end of line, or meets the machine's full
receiver.  Then nothing is said of the lines under way (`owed` and `unset` are
emptied), until a text begins on a line that is quiet, with the machine waiting for it ("over").

### ConfigFile, DhcpClient, NetSetup

`LoadFromConfig` folds `Character` over the blocks of a text, with the buffer that
keeps the rest of the block before.  It is evaluated once for each file, as a
function.  In `NetSetup` an action is what the boot task runs between two
delays; in `DhcpClient` it is a time-out of the client, a lease's timer, a message
that arrives, or the server's answer.  `wire` is the one message under way: it can
be lost, and an answer to it comes only if board and server still agree.

| Action | Code |
|---|---|
| `ReadMode`, `StartNetwork`, `BootRenew`, `StartServices` | `LWIPServiceTaskInit`, `LWIPStack.c` 567-717; `utils.c` 70-130 |
| `LinkFound`, `MenuLoaded`, `LinkRenew`, `LinkGone` | its endless loop, 719-769 |
| `Timeout`, `LeaseTimer`, `Receive`, `Decline` | `dhcp_timeout`, `dhcp_t1_timeout`, `dhcp_t2_timeout`, `dhcp_recv`, `dhcp_arp_reply` |

## 3. Runs

| Run | Bounds | What it shows |
|---|---|---|
| `late` | 2 items, 2 values of which one is refused for one item, one other task of the same priority, queues of 7 and 3, one late wait | until a wait is late, reads are in step, what is confirmed is stored, a SET is for its own name; afterwards reads lag by exactly one; the link monitor's resume is on its way |
| `overflow` | queues of one place, 1 item, two late waits | requests and answers get dropped; every read returns, and the link monitor lives |
| `access` | CGI requests, 2 items and values | `ComProtocol` implements `MachineAccess` |
| `eth_safety` | 2 senders, receive FIFO of 2, all faults, a cable that comes and goes | no wake-up is lost; the transmitter is idle when written, but for leftovers |
| `eth_live` | 1 sender, FIFO of 1, no faults | frames are read, sends return |
| `ssi_page` | six kinds of pages and those with an empty insert, buffers of 24 and 6 bytes, 48 bytes of send buffer | the stream is the page with every insert behind its tag; calls end; plain data is safe from the next block |
| `http_conn` | 2 connections, 2 states and files, pages of 1 and 2 blocks, 2 receive buffers, 2 blocks of send buffer, 4 retries | every piece of memory has one owner, the answer fits the request, connections end |
| `forms` | three pages of two and three tags, days of 12 minutes, longs of 1024 values, 5 parameters in a request, numbers of 2 characters in the display's | what is answered with ok is stored, nothing else is set, the editor keeps limits and its buttons undo each other |
| `forms_checkbox` (violation) | as `forms` | a box that is ticked and stored is answered with "not ok" |
| `display` | three pages, one of them with and without its inputs, 2 lines in view, memory for 8 lines, segments of 4 tokens or the rest, 2 loads of each task | lines and widgets stay together; what is shown was received, and is what a press opens |
| `serial` | one parameter, set to -16, start 12, FIFOs of 24, lines of 8, 4 columns, com, one other task and the handler, 2 commands or log texts | lines arrive unless texts meet, and again afterwards; echoes do no harm, a SET is carried out, a GET returns, the panel shows the values |
| `network` | 54 configuration files, blocks of 7 bytes, one address, 1 try in each state, 2 faults | the file is obeyed, DHCP's address is a granted one, the cable is followed, the board gets its address |

Why the bounds are enough.  A late wait leaves one answer behind, and the lag it
causes is the same for the second one; queues of 7 and 3 hold what one late wait
can leave (`LagIsBounded`), queues of one place overflow at
once.  Two items tell an answer for the wrong item from the right one.  Two
senders are what the mutex, and the third party at the interrupt mask, need.
The pages have two tags with parameters in one block, tags that straddle two
and more blocks, text that looks like a lead-in, an unknown tag, more bytes
than the send buffer holds, and a tag that renders to nothing in front of another.  In `ParamForms` there are numbers with a sign, with
limits and without, a step that is longer than one, a value outside its limits,
a refused value before and behind others, a refused tick, nonsense, numbers beyond a long and
beyond the display's buffer, and requests that are cut.  One client has a
page at a time, since what it has loaded does not change when the other stores.
In `HttpConn` the second connection competes for states and files with the first, which
makes two requests; a file of two blocks has a block in TCP's hands when the
next one is read.  In `Display` a page has more lines than the view, so that it
scrolls, a segment ends inside a tag, and a page comes with a save button but no line; two
loads of each task overlap in every way.  On the serial line two texts are enough that an echo, read back as a
line and sent again, meets the next command, that a log text or the handler's cuts a command or the line
of a GET at every token, and that a command follows on a line that was torn.  The lines of the configuration files are as long as a block or
nearly so, hence cut at every place as the lines before them change; two faults lose
a message and then its repetition, or forget a lease while it is renewed.

Fairness.  The kernel runs the ready task whose turn it is, so the steps of
tasks are weakly fair, and the controller, the timers and the poll timer do go
on; nothing is assumed of the browser, of the machine's values, of late answers
or of the Ethernet interrupt cutting in.  In `EthDriver` the switches of tasks
need strong fairness: each task gets its turn again and again but is
interrupted in between.  In `HttpConn` lwIP's poll timer and its time-outs of closing
states are strongly fair, for other segments come in between; a client need never
answer.  In `SerialLine` com, the interrupt handler and the machine go on; nothing is assumed of those who
give commands, nor of the other tasks, which may wait in the middle of a text until com has its
line, and the machine need not be switched on.  In `NetSetup` receiving and the server's answers are strongly fair
per kind of message: an exchange takes milliseconds and the check of an address
one second, while the boot task renews every five, so that a renewal cannot
interrupt each one; the number of faults is bounded.

What the properties leave out, because the code does otherwise:

* `LinkMonitorLives` and `ResumeIsComing` except the interrupt between request and
  suspend (`cut`): there the code does lose the resume until the next read.
* `SendsPageInOrder` holds for pages whose tags *fit* (`TagsFit`; an insert may be empty), until
  the list of parameters is `spoiled`: one that finds no memory is left out, and after a
  tag that rendered to nothing the next one in the same call is rendered from the list freed with it
  (its root is cleared only when a call begins, `httpd.c` 595).
  An insert of 256 bytes or more is cut to its length modulo 256; the insert of a
  tag that ends the file is never sent; one that ends a block is sent only if another
  block follows, and parameters are lost over the end of a block.
* `CountersAgree` lets the two pairs of pointer and counter part once a tag has ended with
  a block (`block_ends`).  Its bytes are sent, so the next block is read, but `tag_end` still
  points to the end of the buffer (`httpd.c` 1104): as many bytes of the new block are sent
  unparsed, its tags with them. `file` is ahead of `parsed`, and `left` wraps below 0 when the new block
  is shorter, as the last one is.  Run `ssi_page` finds this without the
  exception (`EndingPage`); all counters stay within their types even so.
* `SendDataReturns` excepts one loop (`Spinning`): called from the poll timer with the
  send buffer full, a tag ending in the block just read, `send_data` writes 0 bytes
  for ever.
* `PlainDataIntact` is about pages without tags.  Pages with tags are handed to TCP by
  reference (`httpd.c` 803) and the next block is read over them.
* `AnswerIsTrue` and `SetsOnlyAsked` speak of *regular* requests.
  Irregular are those that the code carries wrongly: a checkbox that is not
  ticked (a browser cannot clear one: the script sends "on" for every box, a form
  sends nothing), a text in another notation than the page's (a float "-1.5" is
  read as -0.5, "1.25" as 3.5, "2" reads behind the text), nonsense (skipped, and answered
  with ok, though `io.c` 356 says "ERROR"), numbers that are cut or overflow, and requests
  with more parameters than fit.  "ok" is not claimed of a request that asks for two
  values of one parameter (`Contradictory`), nor of one with a tick that the machine
  rejects (`TickRefused`): `io.c` 389 compares what it reads back with the value of the
  parameter before, and takes the rejected tick for stored when they happen to be equal
  (a box that was 0, behind a parameter set to 0 or in front of all; without this
  exception run `forms` finds it).  On the display every checkbox is loaded as
  not ticked (`LoadedValue`), so that storing a page clears it.
* `LimitsKept` and `StepsCancel` speak of values that were within their limits when they
  were loaded: nothing in the code keeps the machine, or a browser, whose button
  steps the hour up to 24 (`funcs_c.js` 25), from others.
* `MemoryIsOwned` counts apart the requests for which neither the file nor the 404 page could
  be opened: `httpd.c` 1500-1505 does not give their buffer back, so that after as many
  requests without a card as the pool has buffers the board hears nothing more.
* `AnswersRequest` asks only for the first of the default files: the loop at 1399 appends
  each name to the one before, so that no other can be found ("/" answers 404 when
  only `index.ssi` is there).
* `ConnectionEnds` excepts a write through NULL in `http_poll` (`PollNull`: the poll of a
  connection whose state was taken away, 1233), and a close that fails in CLOSE_WAIT.
* `TreeIsIntact` and `PressOpensShownLine` are for displays on which no page button was
  pressed (`paged`). Page down with more lines left links the button and then clears its
  pointers (`touchActions.c` 63): the walk leaves the tree. With one line left there is no
  fault, but the line that was scrolled out stays first on its row and takes the press.
* `TreeIsIntact` also excepts tasks that overlapped. When both draw a page, a line or a button
  that is linked is initialised again: what is behind it is cut off, still linked to
  each other, and comes back with the first of them that is added, in front of
  widgets that are there by then; three loads of the link monitor are enough for a ring.
* `PageIsShown`: a page with more than one title shows the last that was parsed, so only the
  title of a page that has a single one is asked for.
* `StaleLinesNeedMonitor`: the link monitor's load frees lines that the editor holds, or
  that Store is about to send.  It excepts one case without it: `vTouchStoreValues` takes
  `entities` whether or not `displayEntities` says that it is valid (`touchActions.c`
  41).  When the machine answers for none of the inputs of a page, the page has a save button
  and no line, and pressing it sends the list that `vDeleteDisplayLines` freed.
* `LinesArrive` and `SetsArrive` except the lines under way when texts meet on the line,
  one has no end, or the machine's receiver is full (`torn = "now"`).  Nothing in the code
  prevents it: "!s:kurve=" cut by a log text sets 0, which nobody sent (`atoi` of a text that is no
  number), a name with a piece of log inside is no parameter's, and the SET is lost though com
  takes it for sent.  Both hold again from the first text that begins on a quiet line.
* `SetsOnlyIssued` holds until texts meet or the board loses a token: an
  echo of "!s:kurve=2" that lost its value sets 0 as well.
* `GetReturns` excepts full receivers: after the board lost the end of a line it waits in
  `UARTgets` for ever.  Texts that meet do not keep it from returning.  What a GET returns is
  `atoi` of whatever line comes first, often its own echo: no property claims the value.
* `PanelShowsStore` is for values at least as wide as all before: the panel is not
  cleared (`simulation.c` 86).
* `ConfigIsObeyed` leaves out parameters that no line sets in a file that is not whole
  blocks: the scan covers the whole buffer, so that the rest of an earlier block is
  read as text, without the start of its comment.  A comment that ends with a block
  makes the loop read one byte behind the buffer (`beyond`); that this may be a line
  end is left out as well.  A last line without an end is not found.
* Without `USE_DHCP` (or a card) the mode is AUTOIP, which is compiled out; the boot task
  then renews for a client that does not exist, and writes to address 0 ("dead").  The
  interface never comes up, so that `LinkIsFollowed` holds.
* `LinkIsFollowed` excepts a menu that got lost with the cable: `netconn_recv` has no
  time-out, and the task that follows the link waits in it.
* `GetsAddress` is for servers that refuse what they do not know.  With one that keeps
  silent, the renewal that ends each discovery is never answered, and the board
  can stay without an address.  `DhcpAddressIsGranted` is for interfaces that DHCP
  brought up: the link monitor brings one up with whatever address it has.

## 4. Proofs

The theorems about `ComProtocol` hold for any items, values, queue sizes
(under the named assumptions), other tasks and number of late waits, those about
`ParamForms` for any pages, limits, increments, texts that users type, rejected values,
lengths of an hour and a day and widths of numbers, as long as a number cut by ten
digits fits the display's buffer (`FormsAssumption`), those about `NetSetup` for any configuration files, numbers of
tries and faults, and any addresses but the three special ones (`DhcpAssumption`),
those about `EthDriver` for any senders, FIFO and faults (`EthAssumption`), those about
`SsiPage` for any pages, inserts, buffers, widths of the counters and window, as long as a
lead-in and the longest name of a tag can be counted and no buffer is longer than what is sent at once
(`SsiAssumption`), those about `HttpConn` for any connections, states, open files and pages, any names in the two
lists of file names, and any limits (`HttpConnAssumption`; the states are finitely many,
for they are in memory), those about `Display` for any pages, tags, segments, lines, presses and loads, as long
as the server answers a set with a page without a save button (`DisplayAssumption`),
those about `SerialLine` for any parameters, values, tasks that print, FIFOs, lines, widths of
the panel and number of commands (`SerialAssumption`), and numbers of up to 32 bits
(`WordAssumption`: ten digits are enough for them).

| Theorem | Property | Argument |
|---|---|---|
| `TypeCorrect` | `TypeOK` | inductive as it stands, one lemma per kernel operation on the ready list |
| `ResumeAlwaysComing` | `ResumeIsComing` | strengthened by *where com is in the ready list*: while the tcpip thread is between request and suspend, com is not the one that ran before it |
| `InStep` | `InStepUnlessLate` | strengthened by the content of both queues for each `tcpip_pc` (`Asked`, `Answered`): with no late wait there is at most one request and one answer |
| `Verified` | `VerifiedUnlessLate` | from the same invariant: when the answer is taken, no SET is in between |
| `SetsOwnItem` | `SetsOwnItemUnlessLate` | from the same invariant |
| `ImplementsAccess` | `AccessSpec` without its fairness | step refinement from the same invariant: the sets under way are the requests before the GET, which is the last (`PendingFits`); sending appends one, carrying out takes the head, and every step of the kernel is a stutter |
| `LagBounded` | `LagIsBounded` | counts the GETs and answers under way, waited for and left behind (`LagInv`): a return moves the former to the latter, and only a late one adds one. A SET is followed by its GET as long as none was dropped (`Paired`), so that few GETs are few requests (an injection, `FewRequests`); where requests may be dropped the bound is above the queue's size |
| `LimitsAlwaysKept` | `LimitsKept` | lines have their fields and numbers for limits (`LinesInv`); the buttons keep a value that is within, by arithmetic (`NumberSteps`, `TimeSteps`) |
| `StepsAlwaysCancel` | `StepsCancel` | from the same invariant and lemmas: up, then down, meets the other limit's correction by one |
| `FormsTypeCorrect` | `TypeOK` | fields, lines and requests have their types (`ClientTypes`, `HandlerTypes`); what is read from a text is wrapped to a long |
| `OnlyAskedIsSet`, `AnswersAreTrue` | `SetsOnlyAsked`, `AnswerIsTrue` | the handler knows parameters, the properties the values meant. A request is cut into pieces that each ask for one of them (`Splits`). What a field in the notation of the page, or a line, sends is such a piece (`FieldRegular`, `LineRegular`: a float comes back from its two numbers with signs, a time from hours and minutes), two requests behind each other are one (`RegularConcat`), and so is the whole page (`RegularFlat`, over the recursion of `FlattenSeq`). The handler is always at the begin of a piece, and those before it are done or were rejected (`HandledSoFar`) |
| `NetTypeCorrect` | `TypeOK` | part of `IInv`; a try is counted up to `MAX_TRIES` whatever ends or renews a request |
| `AddressAlwaysGranted` | `DhcpAddressIsGranted` | strengthened by two relations: what is under way was asked for in the state the client is in, and an acknowledgement is for a confirmed address (`WireFits`); an address on the interface is the client's own, confirmed, and only there while it is bound, renewing or rebinding (`OfferFits`). One lemma per operation of the client, then one per action |
| `DriverTypeCorrect` | `TypeOK` | part of `IInv` |
| `WakeUpsAreKept` | `NoWakeUpIsLost` | a mask that was read and is not yet written is part of the state: who may hold one without the receive interrupt is bounded by who has the processor (`MasksFit`, `HandlerFits`); with it, whoever blocks has its interrupt enabled and raised, or its semaphore given (`ReceiveArmed`, `TransmitArmed`) |
| `TransmitsWhenIdle` | `IdleUnlessLeftover` | the mutex (`MutexHeld`), and: a signal that is there when a sender looks means that its own transmission ended (`SignalIsFresh`) |
| `MemoryAlwaysOwned` | `MemoryIsOwned` | the operators of `HttpConn` take a world to a world, so the lemmas do as well: `Owned` says who owns what in a world, `Ends`, `Adjusts` and `Sends` what closing, writing and sending may do to it. The callbacks of a segment that are still to come (`TodoFits`) own its receive buffer (`PbufsOwned`) |
| `CountersAlwaysAgree` | `CountersAgree` | strengthened by: an insert is dealt with in the block its tag ended in, with bytes left to parse, so that nothing behind `parsed` is sent (`CountersFit`). Each step that sends is an instance of one lemma (`TagSend`), each step of the parser of another (`ParserMoves`) |
| `PlainDataStaysIntact` | `PlainDataIntact` | a page without tags never reaches the steps that send by reference (`CallFits`, `PlainFits`) |
| `SerialTypeCorrect` | `TypeOK` | part of `SerialFits`. `atoi` yields a long for every text: its recursive function exists (`ReadsExist`) and its clamps bound it |
| `LinesAlwaysArrive` | `LinesArrive` | see below (`LinesFit`) |
| `PanelAlwaysTells` | `PanelShowsStore` | a row holds the name and the value, and blanks behind the longest value shown so far (`RowFits`), so that the text behind the name is the one `usprintf` made; `atoi` of it is the value, since the digits of `Numerals` make it up again, power by power (`AtoiUndoes`) |
| `TreeStaysIntact` | `TreeIsIntact` | see below (`Sound`, `QuietFits`) |
| `StaleNeedsMonitor` | `StaleLinesNeedMonitor` | from the same invariant: a list that is valid holds exactly the lines in use (`Listed`), and it is valid again as soon as one line of the page came (`Shows`); the save button of the last page is gone as soon as a load begins |
| `PagesAreShown` | `PageIsShown` | see below (`PInv`) |
| `RequestsAnswered` | `AnswersRequest` | the path noted for a request is the first that can be opened, and a connection's file is the one of that path until either goes (`RequestsFit`); the other steps keep a connection's file (`Keeps`) |

`LinesArrive` is not inductive: it says nothing of a line that is half read.  While the line is
not torn (`Whole`), one talks at a time (`Alone`), and `LinesFit` relates
the places that tokens can be in.  What the machine has read of a line (all of it,
also what its full buffer dropped), with what is in its FIFO and still to be put by the one who talks (`Going`), is
the tokens of the lines owed, with what the board has echoed of a line it has not
finished - but for the LF of an end of line whose CR was taken as the end: that LF may come late,
and then `bLastWasCR` is set and nothing else is read.  A step that sends adds the same
tokens on both sides; a step that moves a token changes neither; and a step that
ends a line is right because a line's text has no CR or LF inside (`FirstEnd`,
`FirstLine`), whatever is behind it.  A torn line owes nothing (`TornFits`); a text that begins
when all is sent and the machine waits with nothing read makes it whole again (`SaidFits`, `EmptyFits`).

`TreeStaysIntact` needs to know what hangs where.  Two things hold whatever the tasks do
(`Sound`).  The children have no repetition, and the `pNext` of widgets outside them, which
neither removal nor a second initialisation clears, lead from one to the next without a cycle
(`NoCycle`), so that what hangs behind a widget is a finite list, which is what the recursion of
`Hanging` computes (`Hangs`, `Tails`).  And the lines in use are those of the list, if it is
valid, the pool holds only others, and a link's handler is only on a link's line.  The rest holds while the tasks do not overlap and no page button is pressed
(`QuietFits`): no `pNext` leads from outside the tree (`Simple`), all that is in the tree has its
parent and belongs to a drawn line (`Live`), pages are loaded one at a time into a display without
drawn lines, and the editor is alone on the screen with a line in use.  The steps of a load
need one fact about the parser (`FirstPass`): what it has in its buffer is the part of the page
behind the last delimiter, so that each tag of a first pass is parsed once, and only tags of the page.

`PagesAreShown` adds a second invariant on top (`PInv`), which page buttons do not disturb. While
a page comes in, the list is the one of the tags so far, `LinesOf` them (`Whole`): a token
that is no delimiter changes neither, one tag adds its line to both (`TagReceived`), and memory
that is given out again is never that of a line in the list (`Listed`). `httpclient` then
parses the last segment once more: that only appends lines of the same page (`Grown`) and sets
a title and the save button only as the page has them (`WholeIsAll`).  Drawing, page buttons and
the editor keep list, title and button; opening the next page begins anew.

`InStep`, `Verified` and `SetsOwnItem` need `COM_QUEUE_SIZE >= 2`: with one place the
reread is dropped behind its SET. `ImplementsAccess` also needs `MaxLate = 0` and
`PageItems = {}`: after a late wait a read returns an older answer, and the id of an
input field is freed memory by the time it is read, so neither is what `MachineAccess`
promises. `LagBounded` has no assumption but the module's own.

Only model-checked: everything temporal but the safety above (liveness is out of
the prover's reach), which includes that of `MachineAccess`; `ConfigIsObeyed`
(the text is parsed by folds), `SendsPageInOrder` (what a page is rendered to is a
recursion over its parts, what is sent of it one over its bytes), `SetsOnlyIssued` (which of its
own lines a board sends back as commands), and of `Display` what a press opens
(`PressOpensShownLine`: it speaks of overlapping tasks too, which put the widgets in an order
for which no inductive invariant was found).  Inductions
over data are turned into a least counterexample, by the library's well-founded
minimum: the first path that can be opened (`LeastElement`), the first step
at which `FlattenSeq` would go wrong (`FlattenExists`), the first length for which there is
no reading of digits (`ReadsExist`), and the first tag at which `LinesOf` would (`LinesAre`).

## 5. Not modelled

* Clock (`realtime.c`): one task adds a second to a struct.  What could go wrong, a
  setter at the same time, has no caller (`ENABLE_SNTP` is 0).
* Log (`log/logging.c`) is compiled out; the watchdog's handler only clears its
  interrupt; `setup.c`, `timer.c` and `startup.c` configure the chip.
* `sdCardImpl.c` and `canBusImpl.c` are not built.
* The handlers of time and date in `io.c`, the com task's answers that no client waits
  for, `IPConfigGet`, `MACGet` and `lwIPNetworkConfigChange`, which nobody calls.
* Memory errors whose outcome the compiler decides: lines of the configuration longer
  than the buffer, the end of an address's last number written behind its array
  (`utils.c` 120), the HTTP client's request sent from a stack buffer that is parsed into
  (`webClient.c`), the text that com writes through NULL when the machine answers -999
  (`comTask.c` 54, 62), an SSI parameter whose own element finds no memory
  (`ssiparams.c` 41), strings that every load of a page leaks until the heap is empty.
* The whole board standing still: `low_level_init` waits for the cable with the
  scheduler suspended.  In the model nothing else runs before `StartNetwork` either.
* Of DHCP: wrapping of the lease's timers, infinite leases, `dhcp_start` without memory,
  and a renewal that waits for the transmitter while the thread's time-out builds
  its own message in the same buffer.
* Of the console: backspace and escape, the buffered build, `%u` and `%x`, a transmitter's FIFO that is full
  (two tasks that both saw its last place would lose a token), an interrupt in the interrupt handler.  Of the
  panel: images, power, characters outside the font.
* The pointer's capture in grlib: when a widget is removed, a further walk (`widget.c` 603) looks for the one
  that holds the pointer, from the root on, and at most takes the capture away; the
  buttons act on the press, and releases are not modelled.
* Drawing and text of the display, its start-up screens, the checkbox widget's value.
* FAT, grlib, and lwIP but for what is named above.

## 6. Plan

1. Proofs: `PressOpensShownLine` in `Display`; `SetsOnlyIssued`.
2. `SerialLine` below `ComProtocol`: an answer that is the echo of an earlier command.
