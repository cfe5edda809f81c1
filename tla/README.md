# Verification of the vd store-and-forward core

`vd` is the main daemon of a traffic camera built on a TI DSP. The DSP finds vehicles;
`vd` takes each result, turns it into a record (a picture and its information), reports
it to the platforms the device is configured for, keeps what could not be reported on
disk, and sends it later. Around that core are the drivers of gates, lights and panels,
the configuration, and a dozen third-party platform protocols.

This directory holds TLA+ models of the parts that must not lose, repeat or mix up
records, TLC configurations that check them on small instances, and TLAPS proofs of the
central results for all values of the constants. `PROJECT.json` maps every definition to
the lines it models and lists the hazards that the properties are aimed at. All paths
below are relative to `src/`.

## 1. Inventory

| Part | State it keeps | Operations | Talks to |
|---|---|---|---|
| Result dispatch (`toggle/dsp`, `topic_process.cpp`) | DSP shared memory | one call per DSP result | the record handlers below, in the result thread |
| Passing-vehicle store (`storage/traffic_records_process.cpp`, `data_process_traffic.cpp`, `data_process.cpp`, `upload.cpp`, `database_mng.cpp`) | one SQLite file per hour, an index of these files (`DB_files`), pictures, a static copy of an index row, `ID_record_last` | `process_vm_records_*`, `save_traffic_records_info`, `traffic_record_reupload`, `db_delete_DB_file`, `db_record_clr` | FTP and MQ clients; the index is shared with the other record stores under `mutex_db_files` |
| Violation, parking, event and flow stores (`storage/`) | the same kind of files, with several pictures, a clip, or none | the same loops | FTP, MQ, parking platforms |
| History export (`storage/data_process*.cpp`) | a flag and a query | start, stop, export thread | the record stores |
| Disk management (`storage/disk_*.cpp`, `partition_func.cpp`, `file_system_server.cpp`) | partitions, free space | mount, choose partition, clean | every store |
| FTP and MQ clients (`ftp/`, `mq/`) | a connection and its state | send, reconnect, status | servers |
| bitcom uplink (`ve/platform/bitcom/record.cpp`, `thread.cpp`) | a System V queue, the descriptor of a long http connection, `ghttplong_rcvd`, an array of MQ texts | `process_rg_mq`, `process_rg_records_motor_vehicle`, `pfm_thread`, `lhttp_thread`, `mq_send_thread`, `heartbeat_thread` | retransmission tables, platform |
| bitcom retransmission (`ve/platform/bitcom/*_resend*.c`, `sqlite_util.c`) | three SQLite tables (http, ftp, mq), picture files, back-off position | `*_resend_put`, one thread per table | the same senders as the uplink |
| bitcom control link (`thread.cpp`: `ltcp_thread`, `chk_status_thread`) | a send list, a receive time, the roadgate mailbox | receive, reply, poll | `pfm_thread`, road gates |
| Road gates, LED, lights, speech (`ve/dev`, `dev`) | gate state machines, command queues | commands, GPIO | control link |
| zehin parking platform (`tpi/park/zehin`, `sqlite3/park/zehin`) | one global buffer for records, two System V queues, the tables `msgreget`, `picreget` and `alarmreget` | `record_notify`, `info_notify`, main thread, record thread, reget thread | results of the camera, platform, file server of the pictures |
| Parking space light (`light_ctl.c`) | the light asked for by each priority, the list of flashing lamps, lamps and switch | control thread, flash thread | camera, zehin platform (its queue) |
| Other parking platforms (`tpi/park`), lock and space status (`park_status`) | login state, tables, lock state | heartbeat, record with acknowledgement | parking queue |
| Other platforms (`tpi/vp`) | connection | push | result handlers |
| H.264 buffer (`h264/`) | ring of frames with readers | write, record | violation store |
| Configuration, XML, hardware, helpers | parameters | get, set | everyone |

What is hard in this code:

* **Two threads, several resources.** A record is a row, a picture file and an index row,
  and the result thread and the upload (or retransmission) thread change the three in
  opposite order, with a mutex around some of the steps.
* **Copies in memory.** The result thread caches an index row the upload thread changes;
  the upload thread keeps the last row ID across rounds while SQLite reuses IDs.
* **Half-done work.** Picture sent and information not; row deleted and picture not; a
  `DELETE` that fails because another connection holds the file; a restart in between.
* **One thread for many duties.** `pfm_thread` sends records, with waits of seconds, and
  carries out the server's gate commands.
* **Announcements without content.** The zehin threads tell each other that there is a
  record, and read it later from a buffer that may hold another one by then; a table's id
  stands for a record after the row is gone.
* **Pointers into shared tables.** The flash thread reads lights through pointers that the
  control thread overwrites without the mutex.
* **Bounded stores.** Table limits, slot arrays, a message queue, a full disk.

What makes the parts correct: nothing that was accepted disappears without a reason the
code intends (sent, evicted as oldest, disk full); nothing is reported twice in one run;
the information never precedes its picture; a record's name never gets another record's
picture; history is not touched by retransmission; queues drain once the links are back,
and commands are carried out.

## 2. Modules

| Module | Models | State and actions |
|---|---|---|
| `BitcomResend` | the three retransmission tables, their put functions and threads | `table[k]`, `file[k]`, `mutex[k]`, `backoff[k]`, program counters of the put in progress and of the thread; `SendNew`, `PutEvict/Remove/Insert/Write`, `ThrSelect/Send/Delete/Remove`, `LinkChange`, `Restart` |
| `BitcomUplink` | http path: result thread, System V queue, `pfm_thread`, retransmission thread, `lhttp_thread` | `queue`, `pc`/`msg` of the two senders, `sock`, `alive`, `rcvd`, `table` as a set; `Simple`, `Full`, `Post`, `Refuse`, `FtpPicture`, `PostControl`, `PostBeat`, `Take`, `Send`, `Clear`, `Wait`, `Retry`, `GiveUp`, `NoText`, `Finish`, `Pick`, `Unreadable`, `RoundOver`, `Connect`, `Receive`, `Close`, `Drop` |
| `BitcomMq` | MQ path: slot array, `mq_send_put`, `mq_send_thread` | `slots`, `scan`, `text`; `Put`, `Scan`, `MqSend` |
| `TrafficStore` | passing-vehicle store and forward, disk cleaning | rows (`rowId`, `rowSend`, `rowStore`), `index`, `pics`, `dbFiles`, the cached index row, program counters of both threads; `Picture`, `Info`, `Access`, `InsertIndex`, `FirstRead`, `UpdateSend`, `UpdateStore`, `WriteRow`, `Poll`, `Select`, `SendPicture`, `SendInfo`, `Delete`, `Drop`, `Clr`, `ClrRow`, `ClrDrop`, `Environment`, `Restart` |
| `BitcomDown` | control link: `ltcp_thread`, `dts_recv`, the reply list, `tabitcom_control`, `chk_status_thread` and the roadgate mailbox | `stream`, the frame being put together (`data`, `buf`, `info`), `queue`, `sendLs`, `valid`/`mail`, `quiet`, program counters of three threads; `Command`, `PeerClose`, `Tick`, `Connect`, `Recv`, `Post`, `Timeout`, `Closed`, `GetHead`, `SendItem`, `Del`, `Beat`, `Take`, `GateFlag`, `GateFields`, `Reply`, `ChkPoll/Clear/Read/Act` |
| `Outbox` | abstract: what a retransmission store promises | `held`, `entering`, `done`, `torn`; `Offer`, `Evict`, `Store`, `Deliver`, `Retire`, `Crash` |
| `BitcomOutbox` | the refinement mapping of `BitcomResend` to `Outbox` | `Held`, `Torn`, `IsOutbox` |
| `Zehin` | zehin platform: result thread, main thread, record thread, reget thread | `field`/`picture` (the buffer), `park`/`zq` (the queues), `msgs`/`pics` (the tables), program counters `post`, `rpc`, `gpc`; `Notify`, `Post`, `Dispatch`, `Take`, `Lock`, `Check`, `Send`, `SendPicture`, `Store`, `StoreFails`, `Newest`, `RotatePics`, `InsertPic`, `InsertPicFails`, `MsgSelect/Answered/Unanswered/Update/Delete`, `PicSelect/Send/Delete`, `LinkChange`, `Restart` |
| `LightCtl` | control thread and flash thread of the light | `queue`, `list` (the table of lights), `nodes` (pointers into it), `lamp`, `pwm`; `TakeGet`, `Answer`, `TakeSet`, `Copied`, `FlashStop`, `TurnOn`, `TurnOff`, `FlashOn`, `FlashOff` |
| `ParkLight` | `LightCtl` together with its clients | `car`, `lastIn`, `file`, `flag`, `hpc`; `CameraLight`, `Result`, `ResultStop`, `ResultLast`, `FlashCommand/Start/Flag`, `ResetCommand/Done`, `FirstStatus`, `Resent` |
| `MC…` | instances for TLC | configurations only |
| `BitcomResendProofs`, `BitcomOutboxProofs`, `BitcomUplinkProofs`, `BitcomMqProofs`, `BitcomDownProofs`, `TrafficStoreProofs`, `ZehinProofs`, `ParkLightProofs` | theorems | – |

`BitcomUplink` sees the http table of `BitcomResend` as a set that may give a row up
(evicted, unreadable); `BitcomResend` sees the uplink as `SendNew`. `BitcomUplink` and
`BitcomDown` share `pfm_thread` and the System V queue: the first has a command as one
step of a busy thread, the second opens that step up and leaves the records out. A step of a model is
one mutex section, one system call with an effect others see, or one network call.

What the models make of the code:

* Records are numbers in order of arrival; messages, texts and pictures are the number of
  their record. Picture names are unique in the code (time and plate), so a file is found
  by its record.
* The three bitcom tables live in one SQLite file opened through separate connections, so
  any statement can fail with a lock: `DbMayFail`. Nobody checks `fopen` and `fwrite` of
  a picture: `FsMayFail`.
* `picinfo.size` and `buf` in `ftp_resend_pthread`, and `text.valid` in `mq_send_thread`,
  are read before they are set. Their first value is a nondeterministic choice.
* `*_resend_set_switch` and `*_resend_set_record_num` are exported but have no caller:
  the switch is on, and the limit changes only with a restart.
* A frame of the control link has three parts, two halves of its head and its data, and
  `recv` returns any piece of the stream: a piece may hold two frames, end inside a head,
  or begin where a connection that is gone broke off. A sum over the data that does not
  belong to the head is taken to differ from the announced one.
* The roadgate mailbox is written by one `memcpy` of a flag and its fields, which C does not
  order: the flag and the fields are two steps in either order (`GateFlag`, `GateFields`),
  and a reader in between gets any mixture of the old and the new fields (`ChkRead`).
* A result that `process_rg_records_motor_vehicle` cannot copy (`malloc`) or post
  (`vmq_sendto`) is gone: `Refuse`. After three failed attempts `pfm_thread` waits for the
  table's mutex and stores the record, and the INSERT may fail under the mutex (`GiveUp`);
  a message whose text cannot be cut out is dropped without the mutex (`NoText`).
* `record_is_locked` always returns false (its test is compiled out), so the lock is not
  in `BitcomUplink`. `send()` may fail at any time, which covers a descriptor that was
  closed after it was read.
* The hourly tables are created with `ID INTEGER PRIMARY KEY` without `AUTOINCREMENT`:
  SQLite hands out one above the largest ID in the table, so an ID comes back when the
  last row is deleted (`NextId`).
* `flag_send` is the set of its bits. Whole `db_*` calls that open the hourly file create
  it, also when they only read.
* `Zehin` numbers records by their notification and messages by their construction; the
  record id the platform answers with is the number of the message. Both queues carry
  other messages too, so a `msgsnd` with `IPC_NOWAIT` may find them full at any time.
  `msgreget` and `picreget` reuse ids like the hourly tables. Their INSERTs may fail, which
  nobody notices (`StoreFails`, `InsertPicFails`); UPDATE and DELETE are assumed to succeed.
  Whether retransmission is on is chosen at the start and kept over a reboot, because the
  reget thread is only created at a start; the code reads the option again for every
  record, and what a change in between does is not covered.
* `LightCtl` gives a colour off, on or flash. A `memcpy` into the table is two steps, the
  read of a node in between yields the old or the new identifier and brightness, and a
  deleted entry reads as red. The flash thread holds the mutex for whole intervals, the
  control thread for moments, so "held" is the program counter `fpc`. `light_ctl.h` is not
  in the repository: a light has two priorities, those its clients use. The answer to a
  request for the state takes a place in the queue of the requests, and the control thread
  waits for it (`Answer`). A reboot is an initial state of `ParkLight`: the disk may hold
  `light.txt` and any last record. The first status after it is compared with the last
  record by the plate alone, so `FirstStatus` may light the space with a car in it or not.
* The counter of repeated plates in the result handlers is never read and is left out.

What the models assume of calls whose results the code ignores, or leave out:

* `BitcomResend`: a picture is written whole or not at all; `fwrite` may fail
  (`FsMayFail`), but a write cut short and taken for good, or by a crash in its middle, is
  left out. `remove()` succeeds, and `HttpAtMostOnce` rests on it: a sent record whose row
  and whose picture both stay goes out again. A restart finds the directory it left; the
  choice between the SD card and RAM at the start (`thread.cpp:973`) is left out.
* The back-off after a failure is a step without a length, in `BitcomResend` and `Zehin`:
  `Drained` and `MessagesDrain` say that everything goes out, not when.
* `TrafficStore`: the column check of old files at the start (`data_process.cpp:146`) is
  left out. While the disk is away the upload thread skips its rounds, which is the same as
  not taking a step.
* `LightCtl`: `malloc` of a node of the flash list succeeds (without it a lamp that should
  flash would stay as it was, and `Settled` would not hold), and the list head is initialised
  before the first request, though the flash thread does it on its own time
  (`light_ctl.c:558`).
* `ParkLight`: the reget thread's test of the flag and its request are one step (`Resent`).

## 3. Runs

| Run | Expect | Shows | Bounds and why |
|---|---|---|---|
| `resend` | pass | `TypeOK`, `TableBounded`, `RowsMatchFiles`, `NewestKept`, `Drained`, `IsOutbox` | ftp table, 4 records, limits 0 to 2, so that each put may evict and each limit is reached; the link fails and recovers freely, a restart at any point may lower the limit below the number of rows; 2 back-off positions, so that the position wraps |
| `resend_faults` | pass | `HttpAtMostOnce`, `RightPicture` | http and mq tables, 2 records; any SQLite statement and any file write may fail, the link may be half open |
| `traffic_forward` | pass | `TypeOK`, `InfoAfterPicture`, `InfoOncePerRun`, `Drains` | 2 records in 2 hours, so that two index rows and two records of one hour occur; links flip freely, the disk may fill at every round, one restart anywhere |
| `traffic_history` | pass | `HistoryKept` | 2 records of one hour; every SQLite, disk and send call may fail, immediate upload is switched on and off |
| `traffic_id_reuse`, `traffic_mq_down`, `traffic_clr` | violation | `DroppedAtItsEnd`, `NotDeletedBeforeInfo`, `ClrEnds` | see findings |
| `uplink` | pass | `TypeOK`, `FullAccounted`, `ControlHandled` | 2 records, 2 commands, a queue of 2 so that senders block; any number of heartbeats, breaks and reconnections |
| `mq` | pass | `TypeOK`, `MqOnce`, `MqTextHandled` | 5 texts, 3 slots, so that the array fills and slots are refilled on both sides of the pointer |
| `down` | pass | `TypeOK`, `FramesWhole`, `RepliesInOrder`, `RepliesLeave`, `GateActs` | 2 commands in every division into pieces, a queue of 1 so that `ltcp_thread` blocks, one close by the server and any number of heartbeat time-outs, so that the second command meets the half of the first one |
| `zehin` | pass | `TypeOK`, `NoMessageLost`, `PicturesBounded`, `PictureOfItsRecord`, `BufferAnnounced`, `MessagesInOrder`, `PictureLeaves`, `MessagesDrain` | 2 records of 2 pictures and room for 2 pictures, so that rotation, reused ids and a picture stored after its message was sent all occur; queues of 1 so that announcements are dropped; 2 attempts; answers get lost and INSERTs fail; platform and file server come and go; one reboot anywhere |
| `light` | pass | `TypeOK`, `Settled`, `LightRestored` | a steady, a flashing and a dark light from the camera and the platform's blue one; a queue of 2; any number of results, commands and retransmissions; every content of the disk at the start |

Every property of a passing run has a mutant in `PROJECT.json`: a small change of a
modelled definition, of the kind a programming error would be, that TLC shows to violate it.

### What the violations show

* `traffic_id_reuse`: after the last row of an hour was sent and deleted, the next record
  of the hour gets the same ID, which is not above `ID_record_last`; the thread finds
  nothing, takes the file for done and removes it with the new record in it.
* `traffic_mq_down`: FTP up, MQ down. The picture is sent and removed and the flag is
  changed in memory only; the next round reads "picture missing" and deletes the record,
  whose information was never sent.
* `traffic_clr`: `db_record_clr` removes "the oldest record" in a loop, but a record kept
  as history only loses its flag, so the loop reads it for ever.

`RightPicture` is a property of the http table only. When the file of a selected row
cannot be opened, the ftp thread deletes the row and goes on with the size and buffer of
an earlier round (`ThrSelect`), and another record's picture arrives under this name.

### What the exceptions in the properties say

* `PictureOfItsRecord` excludes runs in which `msgreget` was empty and gave out an id that
  waiting pictures name: then the later message's record id is written over theirs.
  `PictureLeaves` needs `rotate_count` of at least 2; with 1 the reget thread deletes the
  picture that took the place of the one it was sending.
* `LightRestored` excludes a command that overlaps the result of the car's leaving: the
  flag is read before the last record says that the space is empty and set after the light
  was switched on, so the light stays on in an empty space until the next car. It also
  excludes a first status that lights an empty space: one that waited in the queue while
  the car left, or one without a plate after a last record without one. Both end with the next car's
  leaving, which `LightRestored` covers again.
* `FullAccounted` counts a record as refused when there was no memory for it or the queue
  did not take it: the code frees it and says nothing.
* `GateActs` excludes a command whose flag was cleared before its fields were in the mailbox
  (`missed`), and one for which `chk_status_thread` found no memory (`rg_new_ctrl_alloc`),
  after it had cleared the flag.
* `NoMessageLost` excludes a message whose INSERT into `msgreget` failed, and
  `PictureOfItsRecord` the pictures of such a message, which are filed under the newest row
  of another one.
* `BufferAnnounced` excludes the announcement dropped at a full queue (`crowded`).
* `Settled` says nothing of a dark light. While one is active, or none is, nodes of the
  light before may stay in the list and switch all lamps off, which the comment in
  `put_current_light_state` wants to avoid; the next light that is shown removes them.

### Behaviour of the code that no property rules out

The models reproduce these, and nothing in the repository says what should happen instead:

* a second result overwrites the zehin buffer before the record thread has read the first;
  a record followed by a leave info sends the record's pictures under the info's record id
  with empty names;
* a picture stored after its message was delivered keeps record id 0 and waits for
  rotation; with an http file server a picture counts as delivered although announcing its
  URL failed;
* offline and with retransmission off, messages are stored and never sent; retransmission
  that is switched on at run time has no reget thread until the next boot;
* any retransmitted message cancels the platform's light, a drive-in record too;
  `light.txt` outlives the car it was written for;
* a `bf` command while the coloured lamps are off stores a light without brightness under
  the higher priority, which hides every later light of the camera until it is stopped;
* a flashing lamp blinks the steady ones with it, as they share one switch.

Outside the models: a result lost by an MQ send that fails although the connection was
found good (`traffic_records_process.cpp:1317`), the uninitialised ID in the first query of
the history export (`data_process_traffic.cpp:448`) and its start and stop that share one
flag (`data_process.cpp:884`), `send_s` returning the full length on a time-out
(`thread.cpp:354`), a descriptor closed between its read and its use (`thread.cpp:1079`).

### The abstract outbox

`Outbox` says what a retransmission store does, seen from outside: records are offered,
the oldest ones may be evicted to make room for a new one, what is stored is delivered
and retired, and a crash may tear the one record that is being put. `IsOutbox` says that
every step of one table of `BitcomResend`, with its row, file and mutex steps, is one of
these or changes nothing visible. It needs SQLite and file writes that succeed.

### Fairness

Threads are POSIX threads that the system schedules, so each thread's next step is weakly
fair. Steps that need a mutex of a thread that sleeps for seconds between its critical
sections (`ThrSelect` of `BitcomResend`, `GiveUp` of `BitcomUplink`) are strongly fair:
the sleep lets the other side in. `send()` on a dead connection returns after TCP's own
limit at the latest; the MQ connection attempt has a time-out of one second. Nothing is
assumed of links, servers, the operator or the disk; a liveness property that needs a link
says so in its premise (`Drained`, `Drains`, `MessagesDrain`). `MessagesDrain` also assumes
that a platform that stays reachable does not lose every answer (`SF(MsgAnswered)`). The one exception is `BitcomDown`, where
`ltcp_thread` is always connected again, as it tries every second: `RepliesLeave` is about
a server that can be reached.

`CHECK_DEADLOCK` is left on in the passing runs but `light`, in which the control thread
may crash and all of `vd` with it (a request for the state when no light was ever set), or
wait for ever to answer into a queue that its clients have filled.

## 4. Proofs

Proved with TLAPS for all values of the constants, under the assumptions named in the
modules (`BoundsAssumption`, and that bounds are natural numbers and not zero where the
code has an array or a table).

* `BitcomResendProofs!TypeCorrect` and `TablesBounded`. `TableBounded` alone is not
  inductive: a put inserts its row two steps after it evicted. The invariant `Room` adds
  that a put that has evicted and not yet inserted leaves its table strictly below the
  largest limit. That eviction makes room rests on `OldestDeletes`: `order by id asc
  limit n` with n > 0 deletes at least one row of a nonempty table.
* `BitcomResendProofs!PicturesAreRight`, for the http and mq tables and with every fault
  allowed: the thread's buffer holds the record it is about to send (`OwnBuf`). The ftp
  table is left out because its thread does go on with an old buffer (section 3).
* `BitcomResendProofs!RowsHavePictures`, without faults. `RowsMatchFiles` speaks of a free
  mutex only. `Match` says at every step which row and which picture may be alone: pictures
  whose rows were just evicted, the record that is being put, the record that was just
  sent. `Locked` ties each program counter to the owner of the mutex, so that a put and a
  thread are never in the middle of one table together.
* `BitcomResendProofs!HttpOnce`, with every fault, until the first restart. A row may
  outlive its sending when its deletion fails, so "it has arrived" does not exclude "it is
  in the table"; `Once` says that a record that has arrived has no complete picture left,
  or is the one whose picture the thread is about to remove. `Future` says that a record
  still to come has left no trace.
* `BitcomResendProofs!NewestRecordsKept`, without faults and half-open links, until the
  first restart. What may be evicted is decided by counting: `EvictedIsOld` (from
  `OldestOlder`, `OldestFew` and `RedundantRows`) says that a row that `del_redundant` takes
  has at least `nr` younger ones. `Orderly` places the record being put above all others and
  the record being sent in the table until it has arrived.
* `BitcomOutboxProofs!TableIsOutbox`, the refinement: `RunInv` (`TypeOK`, `Locked`, `Future`,
  `Orderly`) holds in every run without faults and half-open links, restarts included, and
  each action has a lemma that says which step of `Outbox` it is: `SendNew` offers or
  delivers, `PutEvict` evicts, `PutInsert` or `PutWrite` stores, `ThrSend` delivers,
  `ThrDelete` retires, `Restart` crashes, the others change nothing visible.
* `BitcomUplinkProofs!UplinkTypeCorrect` and `FullRecordsAccounted`. The invariant `Held`
  adds what the senders hold: an idle `pfm_thread` holds no message, a full record it is
  done with is reported, in the table, refused or given up, a row of a finished round counts as
  sent before it is deleted, and numbers in flight belong to records that were made.
  `AppendKeeps` and `TailKeeps` say which records wait in the queue after `msgsnd` and
  `msgrcv`.
* `BitcomMqProofs!MqTypeCorrect` and `MqSentOnce`. The invariant `Pending` says where a
  text is before it is sent: in at most one slot or in the copy, not in both, not sent
  yet, and not before it was put.
* `BitcomDownProofs!DownTypeCorrect`, `FramesAreWhole` and `RepliesAreInOrder`.
  `FramesWhole` needs what the stream and the static frame of `dts_recv` are in between
  (`FInv`): parts come in the order they were sent and a part that is not the last is
  followed by the next one (`StreamOk`); between two calls `dts_recv` has nothing or
  exactly the head that `info` names (`AsmOk`). From that, `FilledWhole` says what a piece
  with a head leaves, and `FilledRest` why a head cut off at the end of a piece, which may
  have changed `info`, never makes foreign data pass the checksum: the data would come
  before its own head in the stream. `RepliesInOrder` needs the whole way of a command:
  numbers rise from the replies sent over the list, `pfm_thread` and the queue to the frame
  under way and the stream (`PassOk`, `ReplyOk`), and the item that is sent is the head of
  the list until it is deleted (`WorkOk`). The conjunction `RInv` was checked with TLC for
  three commands before it was proved.
* `ParkLightProofs!LightTypeCorrect`, `LampsSettled` and `LightIsRestored`, for any set of
  lights and any length of the queue. `Settled` speaks of the moments between two requests
  only; the invariant `Showing` says what the lamps and the flash list are at every point of
  the loop over the colours: the colours it has passed (`Done`) are shown, `hasFlash` is set
  whenever the list holds a node, and so the loop starts with an empty list. While a light is
  shown the node that the flash thread reads belongs to that light and nobody overwrites it
  (`NodeShown`), so that both of its steps touch a flashing lamp only. For `LightRestored`
  the light has to be followed through the queue: `WillBeOn` is what the platform's light
  becomes when the control thread has read everything, and `Owned` says that it will be on
  only if the flag says so or is about to, and not after a car has left with no command at
  work and no first status since. `Showing` and `Owned` were checked with TLC for the instance of the run `light`
  before they were proved. The case that both leave out is the one the run leaves out: a
  dark light is not shown, and a command that overlaps the result, or a first status that
  lights an empty space, is excluded (`raced`).
* `TrafficStoreProofs!TypeCorrect`. SQLite uses row numbers again, so the bound on them is
  not a count of insertions: `Numbered` says that a row's number is at most the number of
  its record, that index rows number at most as many as there are records, and strictly
  fewer while a record without a row is about to insert one, and that the record the upload
  thread works on has its row. `NextIdFacts` says what SQLite hands out.
* `TrafficStoreProofs!InfoFollowsPicture`, with every fault and restarts, for configurations
  that agree on uploading. `Uploaded` follows the claim "the picture is there already" (a
  flag set of information only) from the result thread through the rows on disk to the
  upload thread. The assumption is needed: a record whose picture step ran with uploading
  off and whose information step ran with it on is announced without a picture.
* `TrafficStoreProofs!ToldOncePerRun`, while SQLite statements succeed. `Untold` says that a
  record with a flag left, in a row or with the result thread, has not been announced more
  often than there were restarts, except while the upload thread is about to remove its row.
* `TrafficStoreProofs!HistoryIsKept`, an action property, with failing calls and restarts,
  for configurations that keep history and a disk that does not fill. `Archived` says that
  everything on disk and in the hands of both threads is marked kept, the upload thread's
  copy of an index row included. Both assumptions are needed: the flags of a row say what
  was intended when it was written, one record that is not kept lets the file go with all
  others in it, and `db_record_clr` frees space at the expense of history.
* `ZehinProofs`, no assumptions beyond the bounds. `TypeCorrect` counts: a message is built
  from an announcement, so those built and those announced on their way are at most as many
  as there were notifications (`Flow`); ids of `msgreget` are in the order of messages and
  at most their number (`MsgOrder`). `BufferIsAnnounced` follows directly.
  `MessagesKept` (a message whose INSERT failed is excepted) rests on `Account`: the reget thread deletes only rows of messages that
  arrived, and the row it works on is the oldest until then (`Getting`).
  `ArrivalsInOrder`, an action property, rests on `Direct`, that the record thread sends
  past an empty table only, and `Order`, that nothing in the table is older than what
  arrived. `PicturesStayBounded` needs the room that rotation leaves before an insertion
  (`Room`). `PicturesFiledRight` needs `Filed`: as long as no id was used again, a picture
  of a message that has a row is named by that row or by none. `PicturesLeaveInTurn`, an action property,
  needs `OwnPic`: while the reget thread is at a picture, a row with its id or a larger one
  stays, so the record thread cannot be given that id.

The invariants that these theorems rest on were checked with TLC on the instances of the
runs before they were proved, and every invariant and action property of a passing run is
now stated by a theorem.

Only model-checked: the liveness properties `Drained`, `Drains`, `ControlHandled`,
`MqTextHandled`, `RepliesLeave`, `GateActs` and `MessagesDrain`, as the prover handles
neither fairness nor ENABLED. The three violations are counterexamples and need no proof.

## 5. Plan

1. Done: `BitcomResend`, `TrafficStore`, `BitcomUplink`, `BitcomMq`, `BitcomDown`, `Zehin`,
   `LightCtl` with `ParkLight`, and `Outbox`, with the runs and proofs above.
2. More proofs: the safety half of the liveness properties (what a sent or waiting item can
   still become), and the theorems under weaker assumptions where the code allows it, such
   as `NewestRecordsKept` and `RowsHavePictures` after a restart.
3. Alarms of the zehin platform (one table, the same scheme). The parking store
   (`park_records_process.cpp`, `data_process_park.cpp`) and the history export with its
   start and stop flag.
4. The gate state machines behind the mailbox; the short-link mode of the uplink.
5. The violation store with clips, the H.264 ring, the FTP
   command exchange, the choice of partitions.

Not modelled and not planned: formatting and parsing of XML, JSON and http, hardware
access, vendored libraries, and third-party protocols that only push data. The reasons are
in `PROJECT.json`, component by component.
