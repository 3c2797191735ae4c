# Rivendell: a TLA+ development

Rivendell is a radio automation system: a set of C++/Qt programs that play, record, schedule and
log audio for a station. Its applications do not touch the sound cards themselves. They talk to
`caed`, the core audio engine daemon, over a TCP protocol of short text commands; they talk to
each other and to switchers through `ripcd`; and they keep everything else in a MySQL database.

This directory models the playout and capture path: the daemon, the client library, and three of its
clients: sound panels, RDAirPlay's log machine and the recording daemon `rdcatchd`; and, below the daemon, the
ring buffer its threads share. It starts there because that is where Rivendell is concurrent: a real-time
thread, two event loops, a pair of TCP streams and several timers act on the same playout, and a
mistake is heard on air.

## 1. The system

### Components, their state and their operations

| Component | State it keeps | Operations | Talks to |
|---|---|---|---|
| `caed` server, `cae/cae.cpp` | socket table and authentication, table of 256 play handles (card, stream, owner), owner of every play stream and capture port | LP UP PP PY SP (playback), LR UR RD SR (capture), PW DC, mixer and clock commands, metering tick | clients by TCP, drivers by calls, drivers call back with state updates |
| ALSA driver, `cae/cae_alsa.cpp` | per stream: ring buffer, wave file, playing/stopping/eof flags, stop timer; per port: recording flags, record timer | load, unload, position, play, stop; a play and a capture thread per card; `AlsaClock()` on the tick | the server; the threads share flags and rings with the main thread |
| JACK and HPI drivers, `cae/cae_jack.cpp`, `cae/cae_hpi.cpp` | the same, in their own terms | the same | the server |
| `RDCae`, `lib/rdcae.cpp` | socket, parser state, replies put aside while a load waits | one method per command; `loadPlay()` waits for its answer; `readyData()` every 50 ms | `caed`; signals to decks |
| `RDPlayDeck`, `lib/rdplay_deck.cpp` | handle, state (Stopped, Stopping, Playing, Paused), pending pause or stop, point, fade and stop timers | setCart, play, pause, stop, faded stop, clear, reset | `RDCae`; signals to its user |
| `RDSoundPanel`, `lib/rdsound_panel.cpp` | buttons, the deck of each active button | play, pause, stop of a button, by click or RML | decks |
| `RDCartSlot`, `lib/rdcartslot.cpp` | a loaded cart, its deck and stop action (unload, recue, loop) | load, unload, play, stop, breakaway | a deck |
| RDAirPlay's log machine, `rdairplay/log_play.cpp` | the running log: status of each line, next line, decks, transition and grace timers | play, stop, pause, makeNext, hard starts, segues, refresh, chain | decks, macro events, ripcd |
| `RDMacroEvent`, `RDEventPlayer` | a list of RMLs, the current line | exec, sleep, stop | ripcd |
| `rdcatchd` | recording and playout events, their timers and decks, client connections | record, playout, macro, switch, download and upload events, GPI windows | `caed`, ripcd, the database |
| `ripcd` | connections, the current user, on-air flag, GPIO state, switcher drivers | RML routing, user changes, switching | all programs; other stations by UDP |
| `rdrepld` | replication state of carts | export to replicators | the database, files |
| carts, cuts, rotation: `lib/rdcart.cpp`, `lib/rdcut.cpp` | SQL rows | `selectCut()`, length and validity rules | the database |
| log generation: `lib/rdsvc.cpp`, `lib/rdclock.cpp`, `lib/rdevent_line.cpp` | SQL rows | import, generate, link | the database |
| `RDRingBuffer`, `lib/rdringbuffer.cpp` | a buffer, a read and a write pointer | read, write, the two spaces, reset | the main thread and the play or capture thread of `caed`, without a lock |
| `RDTimeEngine`, `RDOneShot` | a day of events; timers | next event; one shots | their users |
| applications (rdadmin, rdlibrary, rdlogedit, ...), web CGIs, utilities, RLM plugins, importers | dialogs and SQL rows | - | the database, files |

### What is hard

* **Threads.** The play thread of a card reads `alsa_playing`, the ring and `alsa_eof` one after
  the other; the main thread writes all three, and deletes the ring, without a lock. Within the ring
  each thread loads the other's pointer, which is stored unmasked first, and `reset()` stores both.
* **Messages that cross.** A stop report and the command it makes obsolete cross on the wire. A
  deck changes its state when it sends a command, not when `caed` confirms.
* **Waiting inside an event loop.** `RDCae::loadPlay()` polls the socket until the answer to LP
  comes; every other reply is put aside and dispatched later, after the load has returned.
* **Timers that outlive their purpose.** The stop and record timers of `caed` and the fade timer of a
  deck are not cancelled on every path that ends what they were started for.
* **Re-entrance.** A load may be called from inside the dispatch of a reply, with the parser in the middle
  of it; a log line that needs no time starts the next from inside its own start.
* **Positions that move.** Decks, timers and the macro deck of a log machine know their line by its number,
  and the log is edited while they run. `rdcatchd` keeps indices into a list it purges.
* **Failure.** Clients die with streams loaded; loads are refused; the table of handles is finite.

`PROJECT.json` lists each of these at its line, with the properties that answer for it.

### What makes the parts correct

* `caed`: streams, handles and owners correspond one to one; no client touches another's playout;
  every stop is reported to its owner; no reply is written to a closed socket; every playout ends.
* client and `caed` together: no stream is lost to a running client, no deck outlives its stream,
  both sides agree whenever nothing is in flight, every wait and every playout comes to an end.
* the ring buffer: what is read is what was written, in order and once; no copy leaves the buffer; all that is
  written is read.
* the client library: no reply is lost on its way through the parser and the queue of delayed replies.
* log machine: decks and lines correspond, an event on air is faded or stopped when another starts, hard
  starts are met once, no line hangs, and the log goes on by itself.
* `rdcatchd`: a recording is credited to the event it was made for, deck and port agree at rest, a deck
  always comes back, and no message makes either daemon follow an invalid index or pointer.

## 2. The modules

    PlayoutPool      what caed promises: a bounded pool of owned playouts       (abstract)
        ^ implements (proved and model-checked)
    Caed             the server and the ALSA driver
        ^ EXTENDS                ^ EXTENDS                                ^ EXTENDS
    CaedProofs  MC_Caed      SoundPanel   panel, decks, RDCae, TCP     Catch     rdcatchd, RDCae, TCP
                                 ^ EXTENDS                                ^ EXTENDS
                             MC_SoundPanel  SoundPanelProofs          MC_Catch  CatchProofs

    LogPlay      log machine, its decks and its macro deck              <- MC_LogPlay, LogPlayProofs
    CaeReader    the reply parser of RDCae, below what SoundPanel shows <- MC_CaeReader, CaeReaderProofs

    ByteQueue    a count of bytes, as Caed takes a ring to be (abstract)
        ^ implements (proved and model-checked)
    RingBuffer   RDRingBuffer, load by load and store by store          <- MC_RingBuffer, RingBufferProofs

    StreamLemmas sequences used as TCP streams, for SoundPanelProofs and CatchProofs

A proof module extends the module it is about; `SoundPanelProofs` and `CatchProofs` also extend `CaedProofs`, whose
invariants of `caed` they use. `SoundPanel` and `Catch` run the handlers of `Caed` itself. `LogPlay` and `CaeReader` reduce `caed` to what
they need of it (a playout ends, a load is granted or refused, commands are answered in order), which is
what `PlayoutPool` and `StopsAreReported` promise.

### Caed

The state carries the names of the code (`play_handle`, `play_owner`, `alsa_playing` as
`playing`, ...). A (card, stream) pair is one number, as in the driver's own timers
(`card * RD_MAX_STREAMS + stream`). There is one action per command and outcome, one for each timer, and:

* `updateMeters` starts a metering tick and `AlsaClockStop`/`Fill`/`Skip` visit the interfaces
  one at a time, so that the play thread can act between two visits. Commands and timers wait
  for the end of the tick (`MainThread`), as the handlers of one Qt event loop do. The tick is
  left out when there is nothing for it to do.
* `RtCheck`, `RtRead` and `RtEof` are the three unprotected accesses of the play thread to a stream. A
  ring that was deleted between the first two is read with an arbitrary result.
* Audio is counted in chunks. `FillAlsaOutputStream` reads what the ring has room for; the end
  of the file is a read that comes back short, so a file that fits exactly ends one fill later.
* `sent` holds the replies of the last step: the protocol's output, and what `SoundPanel` puts on
  the wire. Refusals that no client acts on are not told apart.
* A timer is off, `armed`, or `stale`, which means still running although what it was started for has ended.
  The code cannot tell the last two apart and no action does; only `StopsAreDue` looks.

Two sizes differ from the code in a way that matters, and are assumptions: there are more handles than
streams (`HandlesAssumption`; in the code 256 against 8 cards of 16 streams), and a ring holds at
least one chunk.

Left out of the module: volumes, fades, modes, clock sources, passthrough, meters, codecs, the 32-bit
loop of the play thread (which also empties the ring at the end of the file), the JACK and HPI
drivers. UR of a port that is not loaded, where the driver follows null pointers, is excluded by
the guard of `UnloadRecord`; `Catch` shows when `rdcatchd` could send it.

### PlayoutPool

A handle is free or held by one client; `Acquire`, `Release`, `Start`, `Halt` and `Drop` (the client goes
away). `Caed` maps a live handle to its owner and a live handle whose stream plays to a running
one; rings, files, flags, timers, threads and ports disappear.

### SoundPanel

Clients come (`connectHost`) and go (`Exit` at any moment, `connectionClosed` when `caed` notices).
Between a client and `caed` there is one FIFO in each direction. `Serve` runs the handler of
`Caed` that the oldest command names, with all its outcomes; `CaedRuns` lets `caed`'s timers and
threads act. A button's deck is a record of the fields of `RDPlayDeck` that decide what it does.

* `PlayAudio` is the click up to the LP command; the client then stands still (`loading`) until
  `PlayAudioLoaded` takes the answer, and `Defer` puts other replies aside meanwhile.
* `Drain` dispatches those replies in one go; `readyData` dispatches replies from the stream.
* `PlayButton`, `PauseButton`, `StopButton` and `StopTimer` are the rest of the deck's life. With
  `Macros` false only clicks act, which pause a button unless it shows Paused; with `Macros` true the RMLs PP and
  PU play and pause it in any state.

Positions within a cut, ports, volumes, hooks and segues are left out, and so are replies that
`RDCae` does not act on. A deck of a panel is used for one cut and then deleted, so `reset()` and
reloading do not occur here.

### LogPlay

A log is a sequence of lines, each with its type (cart, macro, or something passed over at once), its
transition, its hard start and grace, whether `setEvent()` finds audio, whether it takes time, its status and
its deck. Positions count from 1. There is one action per slot of the operator's interface, one per timer and
one per report of a deck.

* `StartEvent()` and `FinishEvent()` call each other, once per line that needs no time. The recursion is
  unrolled: `call` is the call that is still to be made, and nothing else happens meanwhile (`Idle`). What the
  frames below would do on their return is kept in the call: which timers to rearm (`rearm`, `always`)
  and whether a `macroFinishedData()` is under way (`unwind`); `Return` does it.
* `GetNextPlayable` is the scan of the code as a minimum over a set: the first line that blocks (a Stop
  transition, or any in LiveAssist) or can be played.
* A deck keeps the fields of `RDPlayDeck` that decide, and `air`, its stream at `caed`: a playout ends
  (`caedEnds`), its report arrives later (`playStoppedData`).
* `DeckRefused` is a load that `caed` refuses (`Refusals`): `loadPlay()` reports success, `play()` returns.
* The guards on what an operator may edit come from `list_log.cpp` and `rdairplay.cpp`. `EditsCross` false keeps
  two kinds of edits out: any edit while a macro sleeps (`insert()` and `remove()` shift the line of the macro deck wherever
  the edit is) and moves across a paused line (`move()` does not renumber its deck). With it true,
  `NothingHangs` and `DecksTrackLines` do not hold.
* `runningEvents()` truncates at `MaxPlays`, which is as large as the logs in the runs; with `MaxPlays` 2 in
  `LogEdits.cfg` a third running line is not renumbered by an edit, and `DecksTrackLines` does not hold.

Left out: `load()`, `append()`, `clear()` and `refresh()` of a running log, chains, channels and their RMLs,
start time estimates, auditioning, asynchronous macros, and the two clicks of a move.

### Catch

`rdcatchd` as connection 0 of `Caed`, and any other client as connection 1, with a FIFO in each direction.
Methods that call each other are operators on a record of what they change (`Daemon`); a handler is an
action that makes that record the new state (`Become`). `tape` is the event whose cut `caed` records, which
`rdcatchd` does not know; `wild` is set when the code would use an index or pointer that is not valid, and nothing happens after.

Nothing in the code keeps two uses of a record deck apart in time. `Overlap` says which may meet:

| In `Overlap` | What may meet | Then |
|---|---|---|
| `"messages"` | a new use of a deck, or the record timer, with messages about it under way | an abort that crosses the timer gives two stop reports, two URs, and the second ends `caed`; two events due at once both start |
| `"windows"` | an event with the open GPI window of another on its deck | closing the one idles a deck that records for the other |
| `"rml"` | a recording by RML with a window, or with another one | `GetNextDynamicId()` reads past the list |
| `"edits"` | an edit with an event that waits | its timer fires for an event that is gone |

One coincidence is in the schedule itself: a one-shot event that is purged passes its index on, and `recordUnloadedData()` opens the
window of the event that then has it, if that is one to restart. With `Overlap` empty and a schedule without that mix, which is an
operation without these coincidences, the properties hold, and they are not
obvious: another client stops ports at any time, `rdcatchd` is killed and started at any time,
recordings are aborted, restarted, queued behind aborts, purged and edited while they run, and the record timer of
a stopped recording runs on. The violations in the other regimes are listed as hazards at their lines.

Left out: playout, macro, switch and transfer events, batches, exit codes, meters, monitors, the client
protocol. A record timer runs for every recording.

### CaeReader

`RDCae` at the level of its parser. A reply is two pieces, so that a block may end inside it; `args` is what
the shared word buffer holds, and a reply parsed behind words that were not cleared takes their name. `mode` is how far the
outer `readyData()` is, so that a load called from inside a dispatch (`Reloads`) suspends it. `delayed` is
the queue of replies put aside. `Setups` are the ways a client may be set up: which decks are used and
which load again when they stop.

### RingBuffer

One thread writes and one reads; the writer's also calls `reset()`, as `caed` does with its play rings
(the rings for capture are reset only when they are new). Both pointers are `volatile`, so every load and store of the
source is one of the program, and each is a step of its own where the other thread can tell:

* `WriteStart` loads the reader's pointer; `WriteByte` is a byte of `memcpy()`; `WriteAdvance` and `WriteMask` are the two stores. A
  call that wraps has two parts, each with both stores. Nobody else stores `write_ptr` while the writer is in `write()`, so its loads of it
  need no step.
* `ReadEnter` loads the writer's pointer. `read()` then loads its own pointer several times, and a `reset()` may come before any of
  them: `ReadStart` takes for each of the first three either the value `read()` knows or the present one, and never the old one
  after the new; `ReadReload` is the load at the beginning of a copy; `ReadAdvance` and `ReadMask` store what follows from
  the value loaded before, so that a `reset()` in between is lost.
* `ResetRead` and `ResetWrite` are the two stores of `reset()`.

Bytes are numbered as they are written, so that order, loss and repetition can be seen. `adrift` is history: the reader has left the
stream, because a `reset()` moved its pointer or because the two pointers promised it more than there was; a `reset()`
that meets no `read()` brings it back. `Masked(x)` is `x & size_mask` for the values that occur, all less than twice the size.

Left out: `readAdvance()`, `writeAdvance()`, the vectors and `mlock()`, which nothing calls, and the order in which a processor makes
stores visible (the code has no barriers; on x86 stores are seen in program order).

### ByteQueue

A number of bytes: `Put` some, within the size less one, `Take` one, `Lose` the stream, `Clear` the queue. `Caed` keeps no more of a
ring than this.

## 3. What TLC checks

| Run | Instance | Distinct states | Shows |
|---|---|---|---|
| `caed_server` | 2 clients, 1 stream, 2 handles, file of 2 chunks, ring of 1, positions inside, at and past the end | 22,058 | `TypeOK`, `PlayingIsLoaded`; `HandleOwners`, `RepliesReachOpenSockets`: a live handle belongs to the open connection that owns its stream, and no closed socket is written to; `PlaybackIsolated`, `StopsAreReported`; `ImplementsPool`: caed refines PlayoutPool; `PlayoutEnds`: a playout not repositioned for ever stops by itself |
| `caed_streams` | 1 client, 2 streams, 3 handles, 1 port | 996,717 | `StreamsAccounted`, `HandleAvailable`, `PortsAccounted`: whatever the order of loads, failures, unloads and lost connections, nothing leaks, nothing is shared, and the search for a handle ends; timed and VOX recordings |
| `panel_streams` | 1 client of 1 button, 1 stream, RMLs, up to 2 messages in flight when the user acts | 86,042 | `PanelTypeOK`, `StreamsReturned` (no stream is lost to a running client), `DecksHoldStreams` (no deck outlives its stream), `AgreeAtRest` (with nothing in flight, what a deck shows is what caed does), `ButtonsSettle`, `LoadsAnswered` |
| `log_auto` | 8 logs of 3 lines in Auto and LiveAssist: hard starts out of order and of each grace, segues, Stop transitions, macros, markers, events without audio; the operator plays and stops | 90,865 | `HardStartsMet` (no hard start is missed), `OneOnAir` (every start stops or fades what was on air), `AutoGoesOn` (the next event is started in its turn) |
| `log_edits` | a cart with segue points and a macro that sleeps, growing to 3 lines; Auto and Manual, all operations | 852,259 | `LogTypeOK`, `DecksTrackLines` (decks and lines correspond one to one under all renumberings), `NothingHangs` (no line plays with nothing to end it) |
| `catch_decks` | 1 deck, a GPI event that restarts itself and a hard start event, RML recordings, another client, restarts | 21,052 | `CatchTypeOK`, `NoWildAccess`, `RecordingsCredited` (what is recorded is checked in to its own event), `DecksAgree` (at rest deck, event and port agree), `DeckComesBack`, `PendingRuns` (a recording queued behind an abort is started) |
| `cae_reader` | 2 decks started by the user, or 1 that loops; 4 loads | 11,192 | `ReaderTypeOK`, `StopsKept` (an unreported stop is somewhere in socket, block or queue), `StopsSeen` (it is dispatched), `LoadEnds` |
| `ring_buffer` | a ring of 4 bytes, 7 bytes written in calls of 1 to 4, resets at any time | 1,315,707 | `RingTypeOK`, `CopiesInside` (no copy leaves the buffer), `ReadsInOrder` (while the reader is in the stream it gets each byte once and in order, and no unread byte is overwritten), `LeavesOnlyAtWrap` (how the reader may leave the stream), `ReadsAsAsked` (no read longer than asked for), `RingIsQueue`: the ring refines ByteQueue; `AllRead` |

**Why these bounds.** With three handles for two streams the cyclic search wraps, skips live entries and
reuses a handle; the statements about the table are proved for all sizes (section 4). Two clients are the
fewest that can disturb each other. A ring of one chunk and a file of two make every fill, the exact fit at
the end of the file, and the underrun happen. In the panel run one button stops, fades, restarts and crashes with two messages under way, so that a late report meets the
next load of the same deck, and loads fail at random. What several buttons do to each other is left to the proofs, which are for any number of them
(TLC also finds no violation of the invariants with two buttons and `MaxQueue = 1`, 339,760 states).
`MaxQueue` bounds how many messages may be under way when the user acts; beyond it he waits.
Liveness with two buttons goes past what TLC finishes in minutes, and needs fairness of the 50 ms read timer for itself: a user who keeps loading
the other button must not hold it up.
Three lines are the fewest with something before and something after an event, and two hard starts out
of order; the log of two lines in `log_edits` grows to three and shrinks to none, so that every edit happens
before, at and after each running line. One deck with two events of different kinds is what `rdcatchd` has to keep apart; decks
share nothing but the event list. In `cae_reader` four loads let a deck loop while a stop, an unload and a load are all
in the socket. Seven bytes take both pointers of a ring of four past its end, with calls in one and in two parts, and fill and empty it on
both sides of the wrap; sizes are open in the proofs.

**Fairness.** `Fairness` in `Caed` asks that the play thread of a card keeps cycling over its
streams (it is a loop that never blocks on the main thread; strong fairness, because a stream may be
stopped and started between two passes) and that Qt delivers the metering tick, which is a
periodic timer. Nothing is asked of clients or of the stop timers. `PanelFairness` adds that TCP
delivers and that neither event loop starves an event that keeps coming back (Qt serves
its sources in turn; strong fairness, because a handler of another source may come first). `FairLogSpec` asks that calls return, that Qt delivers
signals and the sleep timer, and that `caed` ends what it plays (`PlayoutEnds`); it asks nothing of hard start timers or
operators. `FairCatchSpec` asks that TCP delivers to both daemons and that a running record timer fires (strong,
since a stop on its way holds the modelled timer back for a while). `FairReaderSpec` asks that `caed` answers, that the
50 ms read timer goes on, that a busy wait runs until it returns, and that data which keeps being there is read (strong, because
the reader may find the socket empty in between). `RingFairSpec` asks that a thread inside a call goes on and that the reader
keeps calling `read()`; it does not ask for writes. Users
owe nothing: `ButtonsSettle` says what holds once a user stops restarting a button that is already active.

Deadlock is checked in every run but those of `LogPlay`: a log that has been played to its end stops there.

### Where the code and its documents disagree

| Run | Property | What happens |
|---|---|---|
| `caed_stale_stop` | `StopsAreDue` | a timed playout is unloaded, its stop timer runs on and stops the next, untimed, playout of the stream. (The same property also fails for `AlsaClock()`: the play thread marks the end of the file, a PP moves the playout back, and the next tick ends it there) |
| `log_hard_twice` | `HardStartsOnce` | an event without audio is passed over, the one behind it starts early, the timer of its hard start is not rearmed, and the event on air is started again |
| `log_no_stream` | `AutoGoesOn` | caed refuses a load, `loadPlay()` returns true all the same, the line is shown as playing and the log stops there |
| `cae_lost_stop` | `StopsKept` | a looping deck loads from inside the dispatch of its stop; the stop of another deck that arrives next is parsed behind the words of the first and lost |

`PROJECT.json` quotes the lines these contradict. `lib/rdringbuffer.h:3` calls the ring "lock-free", but `write()` stores its pointer unmasked before it stores it masked
(`lib/rdringbuffer.cpp:185`): a reader at 0 on an empty ring that loads it in between reads the whole buffer again. `LeavesOnlyAtWrap` states that this
and `reset()` are all that can go wrong, so it is part of a passing run.

## 4. What is proved

### caed (`CaedProofs`)

Proved for every number of connections, cards, streams, ports and handles, every file
length and ring size, from `SizesAssumption` and `HandlesAssumption` only:

* `TypeCorrect`, `PlayingLoaded`: from `TypeInv`, the conjunction of the two. Neither is
  inductive alone: the refill of `AlsaClock()` keeps a ring level in range only because a stream that plays has a
  ring.
* `StreamsNeverLeak`, `HandlesHaveOwners`: from `TableInv`, the conjunction of the two, on top of
  `TypeInv`. They need each other: KillSocket() clears entries by the owner a handle records and streams by the
  owner of the stream, and only the agreement of the two makes it clear the same ones.
* `HandleAlwaysAvailable`: counting. Live handles map one to one to streams (`StreamsAccounted`), of which there are
  fewer than handles (`HandlesAssumption`). This is the reason why LP returns.
* `PortsNeverLeak`, `RepliesReach`: replies go to the client that asked, or to the owner of
  a stream or a port, which is an open connection.
* `StopsReported`, `ConnectionsIsolated`: action properties, from `TypeInv` and `TableInv`; a stop reaches its
  owner because a playing stream is loaded, hence named by exactly one handle.
* `PoolImplemented`: every step of `Caed` is a step of `PlayoutPool` or leaves the mapped
  variables alone; the bound of the pool is the same counting argument.

### The panel (`SoundPanelProofs`)

For any number of clients, buttons, cards, streams and messages under way:

* `PanelTypeCorrect`, and `PanelDrivesCaed`: `PanelSpec` implies `Spec` of `Caed`, so that everything proved of `caed` holds
  beneath the panels. Needed for both: what the streams may carry (`Carried`), and that a client that runs has its socket.
* `StreamsComeBack` and `DecksKeepStreams`: from `PanelInv`, which says of each client (`Good`) how its decks, its
  commands and its replies share the handles `caed` holds for it. Each live handle is with exactly one deck, or in one LP reply, or in a
  UP command. Two facts make that inductive: a load is the last command of a client that then stands still (`LoadLast`), so that
  the reply is never overtaken; and a deck that plays is not in a pause (`DeckSane`).
* `DecksAgreeAtRest` (`AgreeAtRest`): from `AgreeInv`, which adds `DecksInStep` to `PanelInv`. `AgreeAtRest` speaks only of clients with nothing
  in flight, and the steps that lead there begin with something in flight; `InStep` therefore says of each deck what its state will
  be matched by once the streams have been worked off. A deck that plays has its stream playing at the end of the commands under way, or
  a stop report on its way (`WillPlay`, `Told`); one that is paused has it at rest (`WillRest`); one that awaits a stop will get
  the report of it (`WillEnd`), or its fade timer runs. `caed` ends playouts by itself at any moment between; each such end puts a report into the
  stream, which is `StopsReported` of `CaedProofs`.

### The log machine (`LogPlayProofs`)

For all logs of scheduled lines, any number of decks, all operations:

* `LogTypeCorrect` and `HardStartsKept` (the action property `HardStartsMet`), from `LogInv`: the type invariant and `Armed`, which
  says that the transition timer is on whenever a hard start is still to come, and set for none later than the first of them, after every
  handler, although only some call `SetTransTimer()`.
* `DecksFollowLines` (`DecksTrackLines`), from `TrackInv`: deck by deck the correspondence itself (`Tracked`), that a macro
  that sleeps names a macro line, and that the call still to be made names a line that is not on air.
* `NothingStaysOn` (`NothingHangs`) and `OnlyOneOnAir` (`OneOnAir`), from `AirInv` on top of it: the state of a deck
  fits the status of its line (`Fit`), and one deck at most is in state Playing.

Their hypotheses are what the code does not ensure. `~EditsCross`: edits that cross a sleeping macro or a paused line renumber wrongly
(section 2). `[]AllShown`: `runningEvents()` truncates, and what it leaves out is neither stopped nor renumbered. `HardStartsOnce`: a hard
start of an event on air takes its deck away from it (run `log_hard_twice`). For `NothingHangs` also `~Refusals` (run
`log_no_stream`) and no Manual mode, in which two macros can be started and the second takes the one macro deck from the first;
`OneOnAir` is not meant for Manual, where the operator may start what he likes. `log_auto` and
`log_edits` satisfy them in every reachable state (found with TLC, though not one of the listed runs), apart from Manual in `log_edits`, whose logs have one macro.

### The reply parser (`CaeReaderProofs`)

For every set of client set-ups: `ReaderTypeCorrect`, and `StopsNeverLost`: in every behaviour whose set-up has no deck that loads from
inside a dispatch, `StopsKept` holds. The strengthening (`Plain`) says that without such nesting the words the parser keeps are
those of the reply whose second piece comes next. With nesting it is false (run `cae_lost_stop`).

### rdcatchd (`CatchProofs`)

For any schedule, any number of ports and messages under way:

* `CatchTypeCorrect` and `CatchDrivesCaed`, whatever `Overlap` is: ids in the event list stay unique through purges, edits and recordings by RML,
  and the composition makes only steps of `Caed`.
* `NoWildUse`, `CutsCredited` and `DecksAgreeAtRest` (`NoWildAccess`, `RecordingsCredited`, `DecksAgree`) under `Timely`: `Overlap` is
  empty, and the schedule does not have both one-shot events and GPI events that open their window again (after a purge
  `recordUnloadedData()` reads the entry that then has the index, and opens the window of another event, whose deck may be in use:
  TLC then finds `RecordingsCredited` violated, even with a deck for each event).
  `DecksAgree` also needs `FALSE \notin Timed`, a length for every recording: `rdcatchd` is not told when another client stops its port,
  and only the record timer ends such a recording.

The inductive invariant, `CatchInv`, has two halves. `StreamsInv` is about ports: which messages about a port may be under way in each
direction and in which order (`CaedPairs`, `CatchPairs`), which owner at `caed` and which deck status go with each combination
(`CaedFine`, `CatchFine`), that the record timer runs when nothing else will end the recording, and that the cuts named in the
messages are the deck's. `EventsFine` is about events: each is an entry of the schedule or the one made for an RML; an open window, a delay or a timer that
outlived its event claims a deck, at most one claim per deck and none on a port in use; what a deck in use
names is an event of that deck. The two meet in `Busy`, the ports in use. The proof has one lemma about the ports and one about the
events for every kind of change (`StartKeeps` and `EvStart`, `DeckKeeps` and `EvClose`, ...) and puts them together handler by handler.

### The ring buffer (`RingBufferProofs`)

For every size of the ring, of the calls and of what is written, from `RingAssumption` (a size of at least two) only. That the size is a power of
two is not used: `Masked` needs only values below twice the size.

* `RingTypeCorrect`, `CopiesStayInside` and `ReadsNoMoreThanAsked` hold whatever `reset()` does. They rest on `CallsSane`: in the middle of a
  `read()` its pointer is where the call left it or at 0, and from either both parts of the copy end within the buffer.
* `BytesComeInOrder` (`ReadsInOrder`), from `InStream`: masked, the pointers are as far apart as bytes are
  between them (`PointersApart`), each call keeps to its side even where it saw the other's pointer before it was masked (`WriterKeeps`,
  `ReaderKeeps`), and every byte between them is in its place (`BytesInPlace`). `RingInv` joins the three: types, `CallsSane`, and
  `adrift \/ InStream`.
* `OnlyWrapLosesReader` (`LeavesOnlyAtWrap`): the unmasked pointer misleads the other side in one case only, a writer at the
  end of the buffer and a reader at 0. The writer is never misled: it may see the reader's pointer unmasked, but never more space than there is.
* `RingImplementsQueue` (`RingIsQueue`): every step is one of `ByteQueue` or leaves the count alone.

### Only model-checked

* The liveness properties (`PlayoutEnds`, `ButtonsSettle`, `LoadsAnswered`, `AutoGoesOn`, `DeckComesBack`, `PendingRuns`, `StopsSeen`, `LoadEnds`, `AllRead`): they need
  fairness and ENABLED, which the prover does not handle.
* The violations of section 3.

The proofs come to 15,887 obligations; tlapm checks them from nothing in about half an hour, of which `CatchProofs` takes eleven
minutes.

## 5. Plan

Done: `Caed`, `PlayoutPool`, `SoundPanel`, `LogPlay`, `Catch`, `CaeReader`, `RingBuffer`, `ByteQueue`, and the theorems of section 4: every
invariant, action property and refinement that a run checks is stated by one. To prove next, `CaeReader`: that a reply is
dispatched at most once and in the order of its handle.

Modules that would come next: `RDTimeEngine`;
`refresh()` of a running log; playout events of `rdcatchd`; cut rotation as a pure operator; `ripcd`'s routing of RMLs; the JACK driver
as a variant of `Caed`.

## 6. Not modelled

The applications, web scripts and utilities are dialogs and batch programs over the database; the
switcher drivers keep their state in external devices; audio conversion is signal processing; the
HPI driver forwards to a vendor library. `PROJECT.json` lists them all with the reason.
They make up most of the quarter of a million lines of the repository, which is why the modelled part is
a small share of it: dialogs, SQL and file formats have no protocol between concurrent parts to get wrong.

Weak points met while reading that the models do not reach, because they lie below their level or in a part
left out:

* `lib/rdcae.cpp:386`: a read of 256 bytes is terminated one byte past the buffer; `lib/rdcae.cpp:380`: a load from
  inside a delayed dispatch may move the vector that holds the command being dispatched.
* `rdairplay/log_play.cpp:2400`: of several hard starts at the same time only the last is armed. `:1410`: the line of the grace timer is not renumbered by edits.
  `:1594`: `play_macro_running` is not reset by a stopped macro.
* `rdairplay/rdairplay.cpp:1643`: a move is two clicks, and the log may change in between.
* `rdcatchd/rdcatchd.cpp:1039`: a playout keeps the index of its event while events are removed; `:1214`: a
  hard end after midnight gives a negative length, for which `caed` starts no timer.

## 7. Running it

    tlc -config CaedServer.cfg MC_Caed           (and the other Caed*.cfg)
    tlc -config PanelStreams.cfg MC_SoundPanel
    tlc -config LogAuto.cfg MC_LogPlay           (and the other Log*.cfg)
    tlc -config CatchDecks.cfg MC_Catch
    tlc -config CaeReader.cfg MC_CaeReader       (and CaeLostStop.cfg)
    tlc -config RingBuffer.cfg MC_RingBuffer
    tlapm CaedProofs.tla                         (and the other *Proofs.tla, StreamLemmas.tla)

Definitions whose comment begins with "Mutation:" are wrong variants of the definition that
follows. `PROJECT.json` pairs each property with one that breaks it, to show that the property sees
such a fault.
