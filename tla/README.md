# A formal model of the rehab phone-box system

The repository holds the programs of a small Raspberry Pi system: RFID slots
that report how long a phone was handed in, a server that credits the time to
users, a box that locks a phone in for a time, a menu terminal and two small
displays. This directory holds TLA+ specifications of it, instances for the
model checker TLC, and proofs checked by TLAPS.

## The system

| Part | Source | State | Operations | Interacts by |
|---|---|---|---|---|
| User server, tables | `final/server_1.c`, `server_1.h` | `users[]`, `user_count`, `admins[]`, `admin_count`, one mutex | save a session, query a user, list users, add and delete an administrator | called by a thread per request |
| User server, UDP | `final/server_1.c` `client_handler`, `main` | receive buffer, `tid`, a heap buffer per thread | receive, start a detached thread, decode, reply | datagrams |
| User server, TCP | `server/server.c` | the same tables, a socket per thread | accept, decode, reply, close | TCP |
| Phone box | `final/rasp_4.c` | `timer_minutes`, `is_timer_running`, `start_time`, servo, LCD, one mutex | start, increase, decrease, count down, open, invite | four threads, buttons, clock |
| Phone box, polling | `slot1/timer.c` | the same, in one loop | the same | buttons, clock |
| Menu terminal | `final/terminal_2.c`, `menu.json` | menu tree, `currentNode`, `currentIndex` | up, down, left, right; parse the menu | four unlocked button threads, I2C LCD |
| LCD driver | `slot1/lcd.c` | position in the half-byte protocol | clear, move, print | I2C |
| Clock and sensor display | `final/tempandlcd_3.c`, `slot2/LCDnTnH.c` | `data[5]`, LCD | show time, decode the DHT sensor | two unlocked threads; one thread |
| User list | `slot1/button.c` | `userList[]`, `numUsers`, `currentUserIndex`, LCD | next, previous, delete, time | four unlocked threads |
| RFID slot | `slot(deprecated)/slot.c`, `server.c`, the `.py` readers | `record_instance`, `isPresent`, one mutex | tag seen, tag gone, send record | pipe to the reader, TCP |
| Message protocol | `final/protocol.c` | heap messages | create, free | no caller |
| Hello pair | `etc/client.c`, `etc/server.c` | a buffer each | send, read once, print | TCP |

What is hard in it: threads that share tables or displays (some with, some
without a lock), a mutex held while waiting for a person or a peer, datagrams
that are lost, doubled or overtaken, tables at their limit, values read before
a wait and used after it, failing calls whose failure is noticed but not
handled. `PROJECT.json` lists each at its line, with the properties that cover
it.

What makes each part correct:

- *tables*: one entry per user; no credit lost; a list is one moment's tables;
  administrators keep their order; every request is served;
- *transports*: points are neither lost nor made up between messages and
  tables; every message's thread ends; replies go to the sender;
- *phone boxes*: a phone stays in for the time chosen and then gets out; a
  press counts once; the LCD agrees with the box;
- *menu terminal*: the tree is the menu of the file; the position is always one
  that exists in it, and each press moves it once;
- *user list*: each press deletes one user, nobody else is lost or mixed up;
- *LCD*: what is on the display was written, whole, by somebody;
- *sensor*: a train that ends early, or of which one pulse is misjudged or
  missed by the loop that waits for it, does not make a wrong reading;
- *slot*: each time a tag was there makes one record at most, and the mutex is
  given back on every path but one, the wait for a server that says nothing.

`final/server_1.c` uses names (`M_TEXT`, `msg.type`, `msg.body`) that today's
`final/protocol.h` does not declare; the precompiled header beside it is an
older one that had such fields. The model takes the code as written: a type, a
body, and three kinds of message.

## Modules

| Module | What it is |
|---|---|
| `UserData` | ids, requests, entries of the tables, `calculate_mileage` |
| `UserLedger` | **abstract**: requests that each take effect at one instant |
| `UserStore` | the tables, the mutex and the three functions, one step per loop round, table write and `sendto` |
| `UserStoreProps` | invariants of `UserStore` and its refinement of `UserLedger` |
| `ServerThreads` | what both servers have in common: creating, detaching and leaving a thread |
| `UdpServer` | `main` and `client_handler` of `final/server_1.c` around `UserStore` |
| `Detention` | **abstract**: what a phone box promises |
| `BoxPanel` | buttons, clock, servo and timer, common to both boxes |
| `PhoneBox` | the four threads of `final/rasp_4.c` |
| `PollingBox` | the loop of `slot1/timer.c` |
| `TcpServer` | `main` and `client_handler` of `server/server.c` around `UserStore` |
| `MenuDocument` | what a menu is: items with ordered lists, parents and siblings |
| `MenuTree` | `read_json`, `parse_json`, `add_sub_item` of `final/terminal_2.c` |
| `MenuCursor` | **abstract**: a position in a menu moved by four buttons |
| `Menu` | `main` and the button threads of `final/terminal_2.c` around `MenuTree`, load by load |
| `Lcd` | the LCD controller (external) and the six writes of `lcd_byte` |
| `Dht` | the sensor (external) and `read_dht_data`, edge by edge |
| `ClockDisplay` | both displays and the driver `slot1/lcd.c`, on `Lcd` and `Dht` |
| `Roster` | **abstract**: a list that loses one user per press |
| `UserList` | the four threads of `slot1/button.c`, load by load |
| `Presence` | **abstract**: a tag is there or not, one record per stay |
| `Slot` | the threads of `slot(deprecated)/slot.c`, its reader and its server |
| `MC...` | requests, menus, texts and sensors of the instances |
| `...Proofs` | TLAPS proofs about `UserStore`, `UdpServer` and `TcpServer` (`TransportProofs`), `PhoneBox`, `PollingBox`, `Menu`, `UserList`, `Slot` and `ClockDisplay` (`DisplayProofs`) |

Definitions called faulty in a comment are variants that stand for a
plausible slip in the code. Nothing uses them; putting one in the place of the
definition after it must break the property `PROJECT.json` names, which shows
that the property depends on that code.

### User server

`UserStore` has one thread per request. `pc[t]` is the point in the function
the thread is in: `lock`, then the points of `Critical` (the loop of a search
is `find`, `find_admin`; `interval` and `credit` are the two writes of
`save_user_data`, `append` its third; `reply`, `list` the `sendto` calls;
`add`, `shift` the writes of `handle_admin_request`), `unlock`, `done`.
`cursor[t]` is the loop index, `outbox[t]` what was sent. Between two points
any other thread may move, so that only the mutex keeps them apart.

- The slots 1..9 of a new user's interval list are whatever the stack held
  (`AppendUser` chooses): free, or used. That is all the program asks of them.
- A user stored past the end of `users[]` is undefined behaviour: `Overrun`
  ends the model there, and no property speaks of what follows.
- The abstract `UserLedger` has accounts (id and mileage), an ordered list of
  administrators, and for each request a call, an effect and an answer. The
  effect of a save is its last write; that of a deletion is the moment the
  entry is found, since the moves that follow only shift a hole, which the
  mapping `AdminList` leaves out. Intervals are not in the ledger: the code
  drops them when the list is full and still credits the points.

`UdpServer` adds the transport. The network may lose, double and reorder, so
`main` may receive any datagram at any time. Thread creation may fail each time
(`Discard`). `client_handler` finds the right address only behind a full
buffer; of a shorter datagram it takes any. `Accounted` ties datagram, call and
address of a thread together; it fails when threads share `main`'s buffer, say.

Left out: ids that are not NUL-terminated, overflow of `mileage` (2^31 points
are four hundred years of minutes for one user, more only by forged times),
sessions that start at time 0 (1970), failing `malloc`, datagrams shorter than
a `Message`, `recvfrom` errors (the loop goes on).

`TcpServer` puts `server/server.c` around the same store: its three functions
are line by line those of `final/server_1.c`. A connection is named after its
thread. `Read` is what the one `read` may leave in `msg`: the message if it has
arrived whole, anything if it came in part or the client closed first.
`arrived` says which of these it was. A write to a client that has gone may kill
the process (`Serve`).

### Menu terminal

`MenuTree` runs `parse_json` with its stack of calls; `Room` is how many
pointers the chunk of `subItems` really holds, `file` becomes `"overrun"` at a
write past it. `fopen` or the parser may fail at the start.

`Menu` extends it: `main` builds the tree (`BuildMenu`, `ReadMenu`) while the
button threads are already running, and moves and lines are looked up in that
tree, so that a wrong link would show. Each load and store of `currentNode` and
`currentIndex` is a step, `node[t]` and `index[t]` the values a thread has in
hand. Up and down load what their statement names from left to right, as the code
is written: `LoadIndex`, for up `LoadCount` (the items to be added), `LoadModulus`
(the items to divide by). Between the two counts left or right may store another
menu, and then up may store a negative index (`Rem`, C's remainder); a compiler
that loads `currentNode` once for both gives the behaviours in which nobody does.
In left and right the second mention of `currentNode` may give another node or the
same (`LoadTarget`). Undefined operations end the model in a `status` of their own.

`Haste` bounds, for each menu, how often the user presses a button while the
terminal is not `Ready`: menu read, all threads at rest, all buttons up. `hasty`
counts it. `MenuCursor` promises something to a user who has always waited, and
in terms of the document, not of the tree; `MenuTypeOK` and `OneMovePerPress` hold
whatever is pressed. `owed` is a history variable: pressed, not acted on, not let
go unseen. `display_thread` is left out since nobody sets `buttonEvent`; it sleeps
until the process ends, and `main`, which joins it, with it.

### LCD, sensor and displays

`Lcd` has the controller as the programs use it: it latches a half byte when
enable falls, is in 8- or 4-bit mode, and points to a cell. Commands the programs
never send do nothing. `ClockDisplay` sends each byte as `lcd_byte` does, in
six writes. It starts from any state of the LCD, since a program may have been
stopped between two writes. `program` says which one runs: `"loop"`
(`slot2/LCDnTnH.c`), `"threads"` (`final/tempandlcd_3.c`) or `"driver"`
(`slot1/lcd.c`, called for clears and prints at any column). `shown` is a
history variable, the rows as the calls of the program describe them, rests of
older texts included; `ShowsText` compares it with the cells of the controller.

`Dht` has the sensor's train of pulses and the loop of `read_dht_data` on it.
The type of sensor and what it measures are chosen anew for each train, and
each train may suffer `MaxFaults` faults: a pulse taken for the other length
(`Misread`), the middle of three pulses missed in the waiting loop (`Lost`), a
pulse missed after the loop and before `laststate` is read again (`Slip`), a pulse
cut in three or two by the line (`Glitch`), silence (`Dead`). The loop takes every
second pulse for a bit and does not know which of them are high: after a slip it
goes on with the low ones. How long these look is a constant, `LowIsLong`, since
it depends on how many rounds of the waiting loop 50 microseconds are. `j`, `i` and
`data` are the variables of the code, `data[5]` the word behind the array.

`ReadsTrain` says that an undisturbed train is read, and that a train that ends
early, or has one pulse misread or lost, is refused or gives what was measured. Of
slips and glitches it says nothing, because it would be false of them. After a
slip at the 28th bit a DHT22 at 47.9 % and 1.6 degrees is read as 3.1 degrees: the
bytes are 01 DF 00 1F, and their sum is the FF that was counted. Were the low
pulses short, a slip before the first bit would make 0 % and 0 degrees of any
train. The line on the display is shortened to the whole degrees.

### User list

In `UserList` each load, store and drawing of one of the four threads is a step;
`i[b]` is the index a thread has in hand, `pc` the place in `button_handler` or
`delete_current_user`. An entry has its two fields because a deletion copies it
in two writes. `Roster` is what remains true without a lock: the list loses one
user per press, in one instant, the one the cursor was on. The mapping `Users`
leaves out the hole the deletion shifts. The cursor of the roster is only
bounded by the array: presses at the same time undo each other's moves. The LCD
is one level above `Lcd`: each drawing begins with `lcd_init`, after which one
thread's writes are in step (`InStep`, which starts from any state); when two
drawings overlap, the model knows nothing of it but `Garbled`, until a drawing
starts that nobody disturbs.

### RFID slot

`Slot` has `t_RFID_handler` and `t_screen_handler` with the mutex, the pipe from
the reader process and the connection to the server. The reader is either script
of the repository: `final/rfid_reader.py` prints one id and ends,
`etc/rfid_reader_slot.py` goes on, with a greeting and "notag" lines. A read may
take some lines at once. The server need not do anything (`Accept`, `Answer`,
`HangUp` are not fair): the one of `slot(deprecated)/server.c` accepts, and neither
reads, answers nor closes, and with it both threads stand still after the first
tag, `sendRecord` with the mutex held. The run has that server and the one
`slot.c` is written for, which sends one of `Answers` or closes. It may also stop and
start at any moment: then the connect fails and the process ends, a write
raises SIGPIPE, or the read returns nothing and `msg` has what the stack had.
`MutexGivenBack` says what is true all the same: whoever takes the mutex gives it
back, unless the server is silent (`WaitsForServer`) or the process has ended.
`Presence` says that a stay makes at most one record, of the text read first.

### Phone boxes

`Detention` is the promise: the time is set only while the door is open, the
door closes only on a positive time, which nothing changes until it opens, and
it opens only when `minutes * Minute` seconds have passed since it was shut.
`BoxPanel` holds the user and the clock: a button goes down or up at any
moment. `elapsed` stands for `time(NULL) - start_time`; it stops at the end of
the time since more seconds make no difference. Both assume that nobody sets
the clock while a phone is in.

In `PhoneBox` every thread has its own program counter and there is the one
mutex. `Start` and `Arm` are the two halves of the start handler around the two
seconds the servo takes, `Open`, `Reset` and `Invite` the parts of main's branch
for the end of the time, all with the mutex held. At boot the pins are not
configured before they are read, so `Boot` may happen with no button pressed.
`fresh[b]` is a history variable: button b went down since the program last
acted on it.

`PollingBox` keeps what the loop has read in `seen` and acts on it in the
order of the code.

## Runs

| Run | Instance | Shows |
|---|---|---|
| `store` | 4 threads, 3 ids, 2 entries, 2 administrators, 3 intervals; 10 requests; symmetric in the threads | `TypeOK`, `LockHeld`, `OneEntryPerUser`, `SessionsRecorded`, `ImplementsLedger` |
| `udp` | 3 datagrams of 8 kinds, 2 terminals; symmetric | `UdpTypeOK`, `PointsConserved` |
| `tcp` | 2 connections of any kind, 3 requests and unknown types | `TcpTypeOK`, `PointsAsSent`, and that threads end: `EverySocketClosed` |
| `box` | at most 2 minutes of 2 seconds | `TypeOK`, `DisplayAgrees`, `PressCountsOnce`, `KeepsPromise` with liveness |
| `polling` | the same | `TypeOK`, `PressCountsOnce`, `KeepsPromise` with liveness |
| `menu` | the 18 items of `final/menu.json` and all menus of at most 5 items and lists of 4; in one of 4 items two hasty presses | `TreeTypeOK`, `LinksAgree`, `TreeIsMenu`, `MenuTypeOK`, `ShowsMenuTop`, `OneMovePerPress`, `ImplementsCursor` with liveness |
| `lcd` | loop and driver; 3 columns, every state of the LCD at start; one fault per train | `DisplayTypeOK`, `InStep`, `ShowsText`, `ReadsTrain` |
| `userlist` | 3 users, two buttons at any time | `ListTypeOK`, `ShowsUser`, `ImplementsRoster` with liveness |
| `slot` | 2 tags, 2 lines in the pipe, 3 seconds, one failing read | `SlotTypeOK`, `ScreenSeesOpenRecord`, `ImplementsPresence`, and that the mutex is given back: `MutexGivenBack` |
| `udp_reply`, `lcd_race`, `menu_lines` | 2 datagrams; two threads; the menus of `menu` | refute `ReplyReachesTerminal`, `ShowsText`, `LinesShowCurrent` |

*Bounds.* Four requests are enough for two saves that race for the first entry
of a user, a third that finds a full interval list, an administrator added
twice and deleted, and a list or query in between; three ids against two
entries reach the overrun, and a list of three intervals has room for two
sessions and a free slot. Three datagrams are two sessions of one user and one
of another, or one datagram received three times. Two minutes reach a decrease
that leaves a time and one that does not, and two seconds per minute a
countdown that is neither full nor over. `MaxMinutes` is a bound on the user
(the increase button is left alone from there on), `Threads` one on the
requests, `Hands` one on the buttons of the user list used at a time, `Haste` one
on the presses at a terminal that is not ready, `Columns` one on the cells of
a line, `Offsets` on the columns printed at, `MaxFaults`, `MaxPipe`, `MaxNow` and
`MaxErrors` on what they are named for; nothing else is bounded. Five items make every shape of menu with three
levels and a list of four, one more than there is room for; the small menu of the
hasty user has lists of different length and items without a list,
which is what an index of the wrong menu takes. Two and three characters per
text are enough for the bytes of two lines to mix, and one of them is the byte that
switches the LCD to 8-bit mode when taken for a command. A text printed at column
2 leaves two cells of the text before, and may go on past the last cell looked at.
The two sensors are one of each type; 31.0 degrees has bytes whose sum stays right by
chance when one bit is missed. Two hasty presses and one that is not in haste let
three threads act on one position. Measurements below 5 degrees (DHT11) and below 0
(DHT22) are left out, since the code takes them for the other type. Three users (the code has four) are the fewest with
a deletion in the middle; two hands let every pair of threads race, a deletion
with a deletion being one thread. Three seconds and two lines reach a stay that begins
and ends at different times, a second stay, and a read that takes two lines.

*Fairness.* `WF(Run(t))`: the scheduler runs each thread of the server, and one
that waits for the mutex gets it when it stays free. As each thread of the
model serves one request, a thread can be overtaken only finitely often; for an
endless stream of requests one would have to trust the mutex to be fair. For
the box, every thread is weakly fair, and main's lock strongly: the button
threads sleep 50 ms outside the mutex after each use, so main finds it free
over and over. Users and network are never fair: nobody has to press or send.

The threads of the menu terminal and of the user list are weakly fair,
`WF(Run(t))`: none of them waits for another. In the slot both threads are weakly
fair, and nothing else is: nothing of the server, which may be silent, and nothing of
which thread gets the mutex when both want it, which neither the code nor a pthread
mutex settles. That the screen thread gets it between the rounds of the other one is
therefore not claimed, only that each round gives it back. The screen thread inside
the mutex is fair (`Screen`), its lock (`ScreenLock`) is not.

*Deadlock* is checked everywhere but in `Menu`, which ends at an undefined
operation, and `Slot`, whose process ends at a failed connect or SIGPIPE; `Rest`,
`UdpRest` and `TcpRest` are the server waiting in `recvfrom` or `accept`, all
requests of the instance served.

## Proofs

Eight modules hold theorems that TLAPS checks for every
value of the constants. All come from an inductive invariant, called `IInv` where
there is one only: it holds at the start, no step breaks it (one lemma per
action, `...Keeps`), and it implies the property. A refinement is a second round
over the actions, with the invariant as a hypothesis (`...InLedger`,
`...Implements`, `...InRoster`, `...Moves`).

| Theorem | Property | In words |
|---|---|---|
| `UserStoreProofs`: `TypeCorrect`, `MutexHeld` | `TypeOK`, `LockHeld` | counters stay in the arrays; one thread at the tables |
| `NoSecondEntry` | `OneEntryPerUser` | no interleaving of saves makes a second entry |
| `NoSessionLost` | `SessionsRecorded` | while a user's list has a free slot, every session saved is in it |
| `PointsAddUp` | | the mileages in `users[]` are what the sessions credited so far earned |
| `ServesOneAtATime` | `ImplementsLedger` | every request takes effect in one instant |
| `TransportProofs`: `UdpTypeCorrect` | `UdpTypeOK` | each thread makes the one call its own datagram asks for, or none, and knows the sender of a full one |
| `TcpTypeCorrect` | `TcpTypeOK` | the open sockets are those of threads that have not closed, and of failed creations |
| `UdpServesStore`, `TcpServesStore` | | each server is a `UserStore`; hence the five properties above hold in both (`UdpTables`, `TcpTables`) |
| `PointsKept`, `TcpPointsKept` | `PointsConserved`, `PointsAsSent` | no points are lost or made up between the messages and the tables |
| `FullDatagramAnswered` | | the reply to a full datagram goes to its sender |
| `PhoneBoxProofs`: `BoxTypeCorrect`, `DisplayIsTrue`, `PressCounts` | `TypeOK`, `DisplayAgrees`, `PressCountsOnce` | the LCD agrees with the box; a press counts once |
| `PollingBoxProofs`: `PollingTypeCorrect`, `PollingCounts` | `TypeOK`, `PressCountsOnce` | the same of the loop |
| `NeverOutEarly`, `PollingNeverEarly` | | both boxes implement the safety part of `Detention` |
| `MenuProofs`: `TreeTypeCorrect`, `LinksAlwaysAgree`, `TreeBuilt` | `TreeTypeOK`, `LinksAgree`, `TreeIsMenu` | for any menu, the links agree at every moment and the tree built is the menu of the file |
| `MenuTypeCorrect`, `OneMove` | `MenuTypeOK`, `OneMovePerPress` | whatever buttons are pressed together, the index stays less than `Room` away from 0, and no press moves twice |
| `LcdShowsMenu` | `ShowsMenuTop` | to a user who waits the LCD shows the first two items of the menu he is in |
| `ButtonsMoveCursor` | | and the buttons move him as `MenuCursor` says (safety) |
| `UserListProofs`: `ListTypeCorrect`, `LcdShowsUser` | `ListTypeOK`, `ShowsUser` | drawings that nobody disturbs are right |
| `NoUserLost` | | the four unlocked threads implement `Roster` (safety) |
| `SlotProofs`: `SlotTypeCorrect`, `ScreenTellsTruth` | `SlotTypeOK`, `ScreenSeesOpenRecord` | the screen reads no half-made record |
| `OneRecordPerStay` | `ImplementsPresence` | a stay makes at most one record, of its own text and times |
| `DisplayProofs`: `DisplayTypeCorrect` | `DisplayTypeOK` | the decoder stays within its bits, controller and rows within theirs |
| `SensorRead` | `ReadsTrain` | a train is read as measured; one that ends early, or with one pulse misread or missed in the waiting loop, is refused or right |
| `LcdInStep` | `InStep` | `lcd_init` finds the beginning of a byte whatever the LCD was left in |
| `LinesShowTexts` | `ShowsText` | both lines show what is printed |

The assumptions are those on the constants, named in the module that declares
them: `DataAssumption` (positive capacities, requests well formed, the empty id
is no RFID), `ThreadAssumption` (nobody is not a thread), `UdpAssumption`,
`BoxAssumption` (a minute has seconds), `NullAssumption`, `TreeAssumption`
(`subItems` holds a pointer; the file holds menus), `MenuAssumption`,
`ListAssumption`, `SlotAssumption` (room for two lines in the pipe, no text is no
tag), `LcdAssumption` (at most 20 of the 40 addresses of a line are looked at),
`DhtAssumption`, `DisplayAssumption` (no text is longer than the cells looked at).
Three theorems assume more, without which they are false:

- `LcdInStep` and `LinesShowTexts` assume that `final/tempandlcd_3.c`, with its
  two threads, is not among the programs: `lcd_race` is the counterexample;
- `SensorRead` assumes `Plain`: no DHT11 measures 1 to 3 percent or 1 to 4 degrees,
  and its values are whole numbers, as that sensor sends them. The code takes such a
  DHT11 for the other type, and TLC finds the counterexample when `Measured` has one.

`LcdShowsMenu` and `ButtonsMoveCursor` hold of every user, but what they say ends with
the first press made before the terminal was ready (`hasty`): two buttons at once break
it. `SensorRead` says nothing of slips and glitches, which break it too.

What the instances bound, numbers of threads, users, minutes, items, tags, columns,
texts, faults of a train, is not bounded here.

What the invariants add to the properties:

- *`UserStore`.* Whether appending an entry makes a second one depends on what
  the search before has seen. `Found` says what each thread has found out so far:
  no entry below the cursor has the id while it searches, none at all when it
  appends, the entry at the cursor has it while the thread writes or sends it.
  It survives the steps of others because a thread that has found out anything
  is inside the mutex (lemma `OthersKeep`). `LInv` adds, for the ledger, what
  each thread has been served with already (`Served`), `SInv`, for the sessions,
  that the saves of a user that are through, and have room, are at most the slots
  that hold them (`NoneLost`), and that every saved user is known. `PInv` adds, for
  the points, that at every moment the mileages and the earnings of the saves past
  their last write have the same sum (`Balanced`). The sums are folds in an unknown
  order; `SubsetInduction`, the smallest subset for which a claim fails, takes the
  place of an induction theorem, and gives that any member may be added last
  (`SumTake`), on which `SumGrows` (an entry is credited) and `SumAdds` (an entry or
  a save is new) rest.
- *Transports.* Only a thread that was created and has decoded its message calls
  a function of the store, and only once; `Accounted` (part of `UdpTypeOK`) and `Heard`
  add that the call is the one the datagram, or the message that came whole, asks
  for, and `Accounted` that a full buffer gives the thread the right address. That
  needs `CallGoesOn`: no step of the store unmakes a call.
- *Phone boxes.* `PressPending`: a thread that has seen its button down, and not
  acted on it, has a press nobody acted on. `Turning`: timer, servo and LCD
  agree but in the two seconds the servo takes, and what is true in these: the
  time is positive while the door shuts, and over when it opens. In `PhoneBox`
  also `LockHeld`, and `Born`, that main creates the threads before they run.
- *Menu terminal.* `TreeInv`, of the construction: the running calls of
  `parse_json` lie on a path from the root, and each has linked the items it has
  taken (`Path`, `Counted`); an item no list has taken yet has no links
  (`Unlinked`). `DeskInv`, of any user: a thread is at a point of its own, and
  about to store only for a press not acted on (`Places`, `Owing`); what up has added
  and divided by, in whatever menus, is less than `Room` away from 0. `CalmInv`, of a
  user who has always waited: one thread at work at a time (`Alone`), what it has loaded is
  what is there (`LoadedAt`, `Steady`), and the LCD is as far as it has drawn
  (`DrawnAt`). That the tree built is the menu needs `IsMenu`, which says of the
  file that some list leads into each set of items with lists from outside: this
  excludes lists that hang in a circle, without recursion.
- *User list.* `Owing` as above; `Deleting`: between its two writes the entry
  being copied has the new name and the old mileage, and the hole is at the end
  when the list shrinks, which makes the shifting invisible to `Roster`; `Drawn`:
  what the lone drawing has written so far.
- *RFID slot.* `LockHeld`; `RecordKept`: the record belongs to the tag that is
  there, from the first reading until it is sent, and its end is not before its
  start; `ConnKept`: where in `sendRecord` there is a connection and of which kind.
- *Displays.* `DhtInv`, of the decoder: each byte has the bits that have come, in
  the places they were sent for (`Shifted`), one round of the loop per pulse
  (`Counted`), and one bit misread makes a difference of at most 128 to one byte
  (`Wrong`), which the sum cannot hide. With two edges lost fewer than 40 bits
  come. `SyncInv`, of one thread: what is queued is a tail of `lcd_init` or
  commands that leave the mode alone (`InOrder`), the bus has the last write
  (`OnBus`), and what is known of the controller at each half byte of `lcd_init`
  (`Halves`): nothing at first, 8-bit mode after the third. `Rows`: the line
  being printed shows what is called for up to the character under way, the other
  line all of it; while the LCD is being cleared nothing is claimed.

Only model-checked is everything about liveness, which the prover does not handle: the fair parts of
`KeepsPromise`, `ImplementsCursor` and `ImplementsRoster` (their safety parts are
proved), `MutexGivenBack`, `EverySocketClosed`.

## Where the code differs from its comments

| Run | Source | What |
|---|---|---|
| `udp_reply` | `final/server_1.c:100` | the client's address is read where it was not put |
| `lcd_race` | `final/tempandlcd_3.c:112-131` | two threads mix their half bytes |
| `menu_lines` | `final/terminal_2.c:458-465` | up and down draw nothing: the lines are not the current and the next item, as the comments in lines 511 and 514 say |

Other weaknesses met while modelling have no run of their own. They are outcomes
of the models, which the properties allow for:

| In the model | Source | What |
|---|---|---|
| `Overrun` | `final/server_1.c:47` | the user after the last that fits is written past `users[]` |
| `AppendUser` | `final/server_1.c:42-47` | uninitialised interval slots look used, sessions are dropped |
| `DeleteAdmin` | `final/server_1.c:77-90` | an administrator added twice survives the deletion |
| `DetachStale` | `final/server_1.c:178-184`, `server/server.c:173-176` | a stale thread id is detached; the socket stays open |
| `Read` | `server/server.c:87-95` | a message in pieces is completed from the stack |
| `add_sub_item` | `final/terminal_2.c:270` | `subItems` has room for one child |
| `status` of `Menu` | `final/terminal_2.c:456-485`, `97-106` | two buttons at once read past `subItems`, or before it; up and down divide by 0 in an item without a list; a button before the menu is read uses NULL |
| `LoadCount`, `LoadModulus` | `final/terminal_2.c:460` | up stores -1 when left stores the parent between its two loads of `currentNode` |
| `ShowsText` | `final/tempandlcd_3.c:131` | a shorter text leaves the end of a longer one |
| `Measured` | `final/tempandlcd_3.c:181-187` | a DHT11 at 1 to 4 degrees, or 1 to 3 percent, and a DHT22 below 0 are taken for the other type: 4 degrees are shown as 102.4 |
| `Slip` | `final/tempandlcd_3.c:166`, `slot2/LCDnTnH.c:147` | `laststate` is read a second time: a pulse missed in between makes bits of the low pulses, 40 of them are still taken, and a wrong reading with a matching sum is accepted |
| `Glitch` | `final/tempandlcd_3.c:172-179` | an extra bit in front halves the bytes, and the sum may still be right; a 41st bit goes past the array |
| `Step`, `Delete` of `Roster` | `slot1/button.c:60-66`, `86-100` | the cursor runs over deleted entries; deleting there removes the last user |
| `Garbled` | `slot1/button.c:104-164` | two drawings mix |
| `WaitsForServer` | `slot(deprecated)/server.c:17-20`, `slot.c:69` | the server prints that it has received, reads and answers nothing: the slot waits for ever, with the mutex held |
| `Reply` | `slot(deprecated)/slot.c:69` | the answer is compared even when nothing was read |
| `Detected` | `slot(deprecated)/slot.c:132` | a greeting or "notag" counts as a tag, the end of the script as its removal |
| `Connect`, `Broken` | `slot(deprecated)/slot.c:61-71` | without a server the process ends, and the record with it |

## Plan

Done: every component with state of its own, and a proof of every safety property
the passing runs check. What is left is more of what the models show in passing, for
example how many drawings may overlap in the user list before one of them is right
again.

## Not modelled, and why

- GPIO export and direction files, I2C and socket set-up: I/O without state of
  their own.
- In the menu terminal `socket_thread`, which is never started, `display_thread`,
  which is never woken, and `free_tree`, which is never reached.
- `final/protocol.c`: `createMessage` and `freeMessage` have no caller, the
  handlers are empty, nothing is kept.
- `etc/client.c` and `etc/server.c`: `create_message`, `print_message` and the
  message fields they use are declared nowhere in the repository. They cannot be
  built, and what they make of a message is not known.
- Writes to the I2C bus that fail, and a clock that is set while a phone is in:
  the code has nothing against either.
- `server/server.c:95` copies as many bytes as `read` returned, up to `BUFFER_SIZE`,
  into a `Message`; the model's messages are no longer than one. `slot(deprecated)/slot.c:66`
  writes `MSG_SIZE` (256) bytes from the 7 bytes of `"RECORD"`: what follows the literal
  in memory goes to the server, which the model's `WriteRequest` does not look at.
- `terminal/` is a build description whose sources are not in the repository,
  `build/` and `terminal/build/` are generated.

## Running

    tlc -workers 2 -config store.cfg MCUserStore.tla
    tlapm UserStoreProofs.tla       # and the other ...Proofs modules
