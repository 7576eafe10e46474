# A verification development for PaRappaWin

PaRappaWin runs the original program of *PaRappa the Rapper* natively: the
game's own functions, translated one by one, call libraries that drive native
devices with the original register interfaces, and a host loop gives those
devices their turns. The Stage 2 runtime (`src/src/pr/pr_stage2_*`) is the
part where this is done in earnest. Nothing in it is a thread of its own, yet
almost everything is concurrent: the game runs on a fiber that gives way
wherever it waits, interrupts run on that same fiber, interrupt callbacks may
give way too, and the drive, the DMA channels, the GPU and the audio queue
move on between any two of its steps. This directory holds TLA+ models of that
machine, TLC runs over small instances, and TLAPS proofs for instances of any
size.

- [The system](#the-system)
- [Modules](#modules), and how each corresponds to the code
- [Runs](#runs): what each checks, its bounds, the fairness it assumes
- [Findings](#findings)
- [Proofs](#proofs)
- [What is not modelled](#what-is-not-modelled)
- [Plan](#plan)

`PROJECT.json` lists components, runs, the line range behind every definition,
one mutated definition per property (a plausible bug that the property
detects), the hazards, and the theorems.

## The system

### Parts and their state

| part | files (`src/src/pr/`) | state it keeps | operations |
| --- | --- | --- | --- |
| frame task | `pr_stage2_frame_task` | fiber state, ticket of the pending wait, cancel flag | Start, Resume(ticket), Suspend, Cancel |
| scene session | `pr_stage2_loading_device_session` | edges sampled and not yet delivered, `irqActive_`, presentation edge | Poll, Events, DispatchIrq, PresentIfReady, Cancel |
| interrupt controller | `pr_stage2_interrupt_device` | I_STAT, I_MASK, line levels, DICR enables and flags | register writes, SetLine, NotifyDma |
| interrupt library | `pr_stage2_callback_init_direct`, `pr_stage2_irq_direct` | callback tables, VBlank counter 80057034, mask words | DispatchInterrupts, DispatchDmaInterrupt, SetCallback |
| CD command device | `pr_stage2_cd_command_device` | latched command, queued reply, reply in the flags, reading/starting/held, the sector in the buffer | TryWrite, Service, Execute, Publish, HoldStreamStart, ReleaseStreamStart |
| CD library | `pr_stage2_cd_command_direct`, `pr_stage2_movie_cd_direct` | Status byte 8005724C, last command, response bytes, deadline | Sync, CommandParameters, Interrupt, Timeout/Reset, OpenStream, Ready, StopStream |
| location query | `pr_stage2_movie_foreground_direct` | the one pending request | Request, Service, RefreshLocation |
| stream library | `pr_stage2_cd_stream_direct` | stream registers, completion callback | Start, Dma80039318, Stop |
| ring | `pr_stage2_ring_direct`, `pr_stage2_ring_acquire_direct` | slot headers and payloads, tail/start/read, expected part, busy flag, seek flag | Receive80039670, Acquire, ReleaseFrame |
| ring DMA (channel 3) | `pr_stage2_ring_dma_device` | the transfer in progress | StartDma, Service |
| movie session, codec output | `pr_stage2_vlc_session.h`, `pr_stage2_movie_codec_bridge`, `pr_stage2_movie_setup_direct` | configured flag, pending job and its phase, media deadline, control block of the decoder | readiness gate, Input, Request, Service, setup and stop |
| lifecycle program | `pr_stage2_lifecycle_direct`, `pr_stage2_transition_direct` | the game's own memory | RunScene, RunMovie, RunGame, GameClock, transitions |
| OTC, GPU, MDEC, SPU, XA devices | `pr_stage2_otc_device`, `_gpu_device`, `_mdec_tables_device`, `_spu_device`, `_xa_device` | one transfer each; GPU fence and pages; the sample queue | register writes, Service, Render (audio thread) |
| GPU command queue | `pr_stage2_gpu_direct` | 64 slots, head, tail, saved masks, deadline | Enqueue, DrainQueue, SyncQueue, CheckTimeout |
| product runtime | `pr_stage2_product_runtime` | phase, held game stream, reveal and transition fences, media deadline | Begin, Tick, Pump, the host's frame callbacks |
| Stage 1 save screen and card check | `pr_stage1_save_ui_direct`, `pr_stage1_lifecycle_host_adapter_801c81ec` | screen state, card check, directory, image, published list, the write in progress | one tick: poll, write, format, screen, observe |
| card image storage | `pr_ss0_card_image_storage_direct` | the card file, its media snapshot | read, change poll, atomic replacement |
| Stage 1, title, Stage 2 memory card, audio engine, renderer, debug server, shell | `pr_stage1_*`, `pr_ss0_*`, `pr_memcard_backend`, `audio_*`, `d3d11_*`, `debug_server`, `main` | see `PROJECT.json` | |

### How they interact

One host thread calls `Session::Poll`. If the game's fiber waits, Poll resumes
it with an *event*: on the fiber's own stack, `Session::Events` makes one pass
over the machine. The pass samples the scanout clock, services the ordering
table and graphics transfers, delivers at most one VBlank edge and dispatches
its interrupt, services the remaining devices (location query, CD drive, ring
DMA, movie decoder) and dispatches again. Then the wait rechecks its
condition and either gives way again or lets the game go on.

An interrupt runs `DispatchInterrupts800359B8` to its end on that stack. It
acknowledges each source *before* calling its callback, and the callbacks do
the real work: count the VBlank and run the game clock, read the drive's reply
and receive a sector, drain the graphics queue, announce a finished frame. The
VBlank callback draws, and may itself wait for a device: for the clearing of its
ordering table, or for a slot of the full command ring (`AwaitDeviceProgress`).
Then the pass is left half done, with `irqActive_` set and the other sources
still in the dispatcher's copy; later passes run nested above it, serve devices
and sample edges, but deliver and dispatch nothing until the callback returned.
While the game waits for a page to be shown, the host makes its passes on its own
stack (`Events(false)`): they leave the edges pending.

Devices report only by raising a line or by clearing a busy bit. The DMA
source is one level for all channels: a completion behind an unserved one
makes no new edge. The drive reports through one flag register, so a second
report has to wait until the first is acknowledged; replies of commands,
sectors and the host's answers to location requests share one response buffer
and one Status byte in the library.

### Hard behaviours, and what makes each part correct

- **Ring.** Drive, receiver, DMA and decoder share the slots with no lock. The
  decoder must get each frame whole and in order; no live slot may be
  overwritten; no slot may be lost when a frame wraps or a sector is rejected;
  the receiver's busy flag must stand exactly for a completion that is owed.
- **Interrupts.** No completion, response or edge may be lost or counted
  twice, whatever arrives while the dispatcher or a waiting callback runs, and
  the dispatcher must give the game its turn back.
- **Commands.** A command may reach the drive only when the previous one has
  no reply left to give. The library knows this only through one byte that
  timeouts, resets, two-part replies and the location query all write.
- **Location query.** It is answered by an event pass, and asked for both by
  the foreground and inside an interrupt that no pass can interrupt.
- **Streams.** Opening retries, stopping repeats its pause, and a game holds
  its first sector back until the start-up page is on the screen.
- **Graphics queue.** Filled by the foreground or by the VBlank callback,
  drained by a DMA callback, with a shared packet, two ordering tables and a
  timeout that resets it; no command may be lost, overtaken or left behind.
- **Fiber.** A wait must resume the code that made it, and end; a failure, a
  cancellation and the destruction of the runtime may come at any wait.
- **Presentation.** A transition may go on only after its last page was shown
  and another edge of the display passed; a game's first sector may come only
  after the first page without tiles was shown.
- **Movies.** A stop gives memory back that a DMA transfer and a decoding job
  may still aim at; a picture may be written only when the one before it was
  copied to a page.
- **Save screen.** The card exists four times (file, image, directory, list); a
  save changes three of them, each attempt can fail, the card can be exchanged
  under it, and a name may be compared with a list of another visit or card.
- **Sample queue.** Bounded, filled by the drive, emptied by a real thread.

`PROJECT.json` lists these as hazards at the lines where they bite, with the
properties that cover them, or the reason why none does yet.

## Modules

| module | about |
| --- | --- |
| `FrameFifo` | abstract: what the movie stream promises to its decoder |
| `StrRing` | ring, receiver, drive as a sector source, DMA channel 3, decoder; implements `FrameFifo` |
| `InterruptDevice` | the interrupt controller as operators on a record |
| `IrqDispatch` | event pass, controller, dispatcher, VBlank callbacks that wait, passes without edges |
| `CdCommand` | source program, command library, drive, location query, event pass, game clock |
| `GpuQueue` | frame code, command ring, linked-list DMA consumer, VBlank callback, the host's poll and presentation |
| `MovieSession` | the movies of a session: setup, play and stop, ring DMA, codec jobs, media deadline, blit |
| `SceneSession` | the product runtime, its tasks, the scene's program of frames, the host's poll, presentation |
| `CardSave` | the save screen, the card check, the host's adapter, the card file |
| `MCStrRing`, `MCIrqDispatch`, `MCCdCommand`, `MCGpuQueue`, `MCMovieSession`, `MCSceneSession`, `MCCardSave` | the instances TLC checks |
| `StrRing_proofs`, `StrRingOrder_proofs`, `IrqDispatch_proofs`, `CdCommand_proofs`, `GpuQueue_proofs`, `MovieSession_proofs`, `SceneSession_proofs`, `CardSave_proofs` | theorems and their proofs |

The Stage 2 systems overlap where they meet, and each takes the others at their
interface. `StrRing` lets an interrupt come at any time, which includes every
order `IrqDispatch` can produce. `IrqDispatch` knows of the drive only that it
publishes replies and sectors, and of the callbacks only what they do to the
controller and the channels. `CdCommand` fixes the order of a pass exactly,
because its properties depend on it, and keeps of the receiver only that it
may hold a sector back. `GpuQueue` does the same for presentation, and keeps of
the controller one flag, channel 2's: the masks and the other channels cannot
delay it, which is what `IrqDispatch` shows. `SceneSession` makes a frame of
`GpuQueue` one entry of its ring, and of `CdCommand` keeps whether the drive is
held. `MovieSession` makes the ring of `StrRing` one bit, whether a frame may be
complete, and keeps the transfer by the movie it belongs to. `CardSave` shares
nothing with the others.

### StrRing

`state`, `head`, `data` are the slot headers' first halfword, the sector
headers and the payloads; `tail`, `start`, `read`, `expected`, `frame`,
`lastInFlight`, `seek` are the words 80095C50, -54, -58, 8008ECD4, 8008ECA4,
80092858 and 800965A4. `cd` says what the drive holds: nothing, a sector kept
back (`held`), one announced by INT1 (`ready`), or one whose data the receiver
has requested (`owned`). The actions are the foreground's `SetStream`,
`Acquire`, `ReleaseFrame`; the drive's `ReadSector`, `PublishVideo`;
`Receive`, with one disjunct per return value of `Receive80039670`; and the
DMA's `DmaService` and `DmaCallback`. A payload is identified by the sector it
came from, so `decoded`, the history of what the decoder was given, tells a
torn, stale or missing sector apart.

The variable `session` is the session the movie runs in, one of the constant
`Sessions`: `readiness` says whether the session has bound the predicate that
keeps a sector in the drive while the ring cannot take it (`vlc_session.h`
`EnableMovieForeground`), `earlier` whether a movie already ran in it. Time is
not modelled: a sector may be due at any pass. The film is well formed; the
stream mode is the asynchronous one the only `SetStream` call of the product
selects, which makes the outcomes 5, 7 and 8 of the receiver unreachable.

### InterruptDevice, IrqDispatch

`ctl` is the controller: I_STAT, line levels, DICR's master, enables and
flags. `phase` is where the host's pass is (`begin` before the edge, `devices`
between the two dispatches, `last` from the second dispatch to the clearing of
a late table, `FinishPass`), `screen` whether the task waits for a page to be
shown, when passes deliver no edge (`NoEdge`). `irq` is where the dispatcher is:
`scan` its loop over sources, `dma` its loop over channels, `channel` inside a
DMA callback, `source` inside the CD callback, `vblank` inside the VBlank
callback, and `table` and `full` where that callback has given way, for its
ordering table or for a slot of the queue (`Waiting`). `left` is what the callback may still submit.
`pending` and `chans` are the dispatcher's local copies. While the callback
waits, `SampleEdge`, `Complete` and `CdReply` go on, as in the nested passes.
The timeout that discards a full queue is in `GpuQueue`.
No DMA or CD callback waits that way: a DMA callback drains the queue as far as
it goes, and the CD callback waits for a transfer on the spot. One action is
one step between two points where something else can happen: acknowledging a
source, a submission, serving a channel, a return, a re-read. Registers are sets. All
sections of the code that mask interrupts restore the mask before anything can
wait, so they are atomic steps and the mask is left out.

### CdCommand

`turn` says who has the processor: the source, or one of the stations of an
event pass in the order of `Session::Events` (`blank`, then `clock` and
`clockwait` if the game clock runs, `location`, `drive`, `irq`). `stage` is the
program counter of the source among the commands and loops of `OpenStream`,
the ready loops, `RunMovie`, `RunGame` and `StopStream`; `call` is the helper
`Command` it is inside of, with its step and its retries. `status`, `last`,
`reply`, `left` are the library's Status byte, last command, response bytes
(as the command they answer) and deadline. `pending`, `queued`, `response`
are the drive's command, second reply, and the reply in its flags.
`query`/`asked` are the location query; `failed` is the exception that ended
the task, kept as a state so that its absence is a property.

Movies and games follow one another in any order, each with a valid or an
invalid record; this is a superset of what `RunScene` does.

### GpuQueue

`queue` is the ring with its head and tail, whether the DMA-2 callback is
installed, and the transfer in flight; `flag` is DICR's flag of channel 2.
`env` is the one packet in which every draw environment is built, `table` the
two ordering tables, by the command or frame they hold, so that a command can
be compared with what the consumer finds when it is begun. `buffer` and
`shown` are the page drawn and the page the display registers select, `draw`
and `todo` where the frame code is and what it has still to submit, `at` where
the foreground is, `phase` where `Poll` is. Code runs until it waits
(`Suspend`), then the host presents or not (`Show`), samples an edge or not,
services the device, delivers an edge, dispatches, and the code goes on. While
the VBlank callback waits (`irq`) there is no delivery and no dispatch.

While `Loading`, frames are drawn by `LoadingFrame8001537C` inside the VBlank
interrupt, alternately preparing and presenting one; afterwards, or from the
start, by the scene: `Prepare8001EA74`, `VSync(2)`, `Present8001EBF4`; then
`DrawSync(0)` hands the device back. What a frame submits is the constant
`Frame`, the order of kinds of command. The timeout is its VBlank limit; the
limit on the number of polls (0xF0000, more than four hours at one poll a frame) is left
out.

### MovieSession

`at` is where the source is among its waits: `away` from movies, `tables` and
`opening` during the setup (`Decoder80027288`, `OpenStream`), `between` setup and
play, then per iteration `top`, `prepare` (the page's ordering table), `blank`
(VSync(2)), `query` (the location), and `drain` before the stop. What the source
does between two waits is one action. `wait` and `since` count VBlanks, `due` is
`movieCallbackVblank_` as the blanks left. `owned` is the movie's memory,
`listening` the ready callback, `transfer` the movie in whose ring channel 3 is
writing. `job`, `phase` are the codec's pending job and `Output::Phase`; `busy`,
`held`, `count` are the control block's +32, +28 and 8006ED88. `image` is the
movie whose picture is in the image buffer, and `fresh`, a history variable,
whether it still has to be blitted. A pass may come at every wait, with or without an
edge; it completes channel 3, serves the codec and may start the next payload.
`phase = "faulted"` stands for the three `logic_error`s of the codec, kept as a
state so that its absence is a property.

### SceneSession

`runtime` is the product's phase, `host` where its pass is (`sample` to
`dispatch` are `Events`, `fence` the quiet branch of `Poll` for a wait for the
screen, `show` `PresentIfReady`, `after` and `pumped` what `Pump` does with the
poll's result), `state` and `kind` the task and its wait. `at` and `step` are the
scene's program: transitions, movie, entry of the game, pre-loop, play, and the
last drain. A frame is drawn, waits for its VBlanks, flips the page and submits;
`pages`, `front` and `screen` are what is on the two pages, the page selected
and the picture presented last. `stream` is the game's stream (`armed`, `held`,
`running`), `revealed` and `fence` are `clearRevealFrames_` and
`transitionPresentationCompleted_`; `requested`, `acknowledged`, `due` the three
flags of the presentation protocol, and `fenced` its history. The task may fail
and the runtime be destroyed at every wait.

### CardSave

`pc` is the step of the host's tick: poll the card file, write, format, the
screen's own step, observe its requests. `file` is the card in the slot, `seen`
whether the snapshot describes it, `sink` the image read from it, `dir` the
directory, `rows` the published list. `io` is the card check (its step `E8`, its
answer `F0`), `sw` and `armed` the software events it waits for. `ui` is the
screen's state, numbered as in the code, `name` the name to save, `pend` a name
typed before the list came, `confirmed` that the user agreed to overwrite; `req`
and `fb` are the requests and answers that the screen and the adapter exchange;
`w` is the save in progress with its attempt, its wait and what it keeps to undo.
The card may be exchanged between any two steps.

## Runs

| run | configuration | states | checks |
| --- | --- | --- | --- |
| `str_ring` | `StrRing.cfg`: 4 slots, every film of up to 5 frames that fit; the first movie with readiness bound, and a later movie without it | 364,644 | TypeOK, NoRejection, NeverTorn, NoOrphanSlot, CompletionOwed, NoLiveOverwrite, FilmDecoded, ImplementsFifo |
| `str_ring_later_movie` | `StrRingLater.cfg`: readiness bound, a later movie | violated | DeliveryAfterSetStream |
| `irq_dispatch` | `IrqDispatch.cfg`: channels 2, 3, 6; queue of 1; 2 edges; 1 submission by each VBlank callback | 381,526 | TypeOK, NothingStranded, CompletionServed, EveryEdgeCounted |
| `cd_command` | `CdCommand.cfg`: scenes of 3 streams, 2 turns, timeout 1 | 18,330 | TypeOK, ReplyIsLast, SourceNeverTimesOut, ClockQueryServed, StreamEnds |
| `cd_impatient` | `CdImpatient.cfg`: the same with a timeout of 0 | 66,980 | NoDeviceRejection |
| `cd_request` | `CdRequest.cfg`: as `cd_command` | violated | NoDoubleRequest |
| `gpu_loading` | `GpuLoading.cfg`: 6 slots, frames of 4 commands, 6 edges, timeout 2, loading first | 26,386 | TypeOK, NoLostWakeup, DrawnAsSubmitted, TableOneBehind, InOrder, QuietPresentsFinished, CommandsBegun |
| `gpu_present_loading` | `GpuPresent.cfg`: 8 slots, 8 edges, loading first | violated | PresentsFinishedPage |
| `movie_session` | `MovieSession.cfg`: 3 movies, 2 blanks between stop and setup, device waits of at most 1 blank | 2,712 | TypeOK, CodecNeverRefuses, TransfersLandInOwnRing, ScreenFollows, PictureDelivered |
| `scene_run` | `SceneRun.cfg`: ring of 2 frames, transitions of 1 + 2 frames, 1 frame of tiles, pre-loop of 3, 2 undelivered edges | 27,634 | TypeOK, StreamAfterReveal, AwaitedPictureShown, SessionEnds |
| `card_save` | `CardSave.cfg`: 2 rows, 6 cards, 3 attempts, waits of 4, 1 exchange, 2 visits | 642,994 | TypeOK, MirrorsAgree, NoUnconfirmedOverwrite, SaveKeepsOthers, SaveEnds, ScreenCloses |
| `card_second_entry` | `CardSecondEntry.cfg`: a card that begins with another game's entry | violated | SaveWritesNamedEntry |

What they show.

- `str_ring`: in the session's first movie, with the host's gate, the receiver
  never rejects a sector, the decoder gets the film whole and in order, and the
  ring implements `FrameFifo` under the mapping `taken <- Len(decoded)`,
  `complete <- Len(decoded)` plus the slots announced or acquired,
  `Capacity <- Slots - 1`. Left to itself, without the gate and with sectors that come
  before `SetStream`, the receiver may lose frames and, once it refuses a sector
  whose data it has requested, stops the drive for good; but what it delivers is
  never torn, no live slot is overwritten, and every slot in use has somebody who
  will free it. The run allows deadlock because that stop is what the code does.
- `irq_dispatch`: completions, replies and edges in any order around a
  dispatcher whose VBlank callback may give way while CD and DMA sources are
  still in its copy, and around passes that deliver no edge. Whatever is owed can
  be seen by somebody who has not finished, and is served; every edge sampled
  meanwhile is counted in the end.
- `cd_command`: no wait of the source can reach the library timeout; commands
  and replies pair up; each stream with a valid record comes to its stop.
- `cd_impatient`: with a timeout of one pass every timeout, reset and retry of
  the library is taken, at moments the real one never reaches. Even then no
  command is written over a reply the drive still owes; the proofs say the same
  of every timeout.
- `gpu_loading`: commands are begun once each, in order, all of them, and with
  the packets they were submitted with, whoever begins them and however slow
  the device is; an ordering table is overwritten before it is drawn only if the
  device is two frames behind; a page is presented with drawing left to do only
  while a callback waits.
- `movie_session`: a movie may be stopped at any iteration, with a payload on
  its way and a job pending; the drain and the time until the next setup keep
  both from the next movie, every job is delivered, and of the pictures
  published once blitting has begun each is blitted before the next is written.
- `scene_run`: a wait for the screen ends with the wait's own picture on it and
  an edge behind it, whoever presented it; the drive is released only when no
  page with tiles can be seen any more, before the pre-loop gives up; and the
  scene gets to its end.
- `card_save`: whatever attempts fail and whenever the card is exchanged, the
  copies of the card agree again where the user can see or choose; a save leaves
  the rest of an unexchanged card alone, and replaces an entry only if the user
  was asked; saves end and the screen closes.

The conditions in three properties of `CardSave` mark what the code does not
promise. A second visit shows the list of the first until the card is read
again, so a name is compared with an old list (`pr_stage1_lifecycle_host_adapter_801c81ec.cpp:1933`);
the card of `NoUnconfirmedOverwrite` therefore is that of the first visit,
unexchanged. The same old list may promise an unused row that the first visit's
save has taken since: the write is then refused for a full directory at each of
its steps (:2186-2291), answers nothing, and the screen waits for it for good, so
`SaveEnds` leaves that case of a second visit out. A card change noticed at another step of the check than the first
leaves the check without an answer (same file, line 1370), so `ScreenCloses` and
`SaveEnds` ask for a card that stays. No document of the repository says
otherwise, so these are observations and not findings.

Bounds. Four slots are the smallest ring in which a frame can wrap, leave a
marker and meet a live frame; five frames let the ring go around twice.
Frames of one, two and three sectors cover first = last, and a middle part.
The two sessions are the extremes: the others allow no behaviour that one of
these does not. Two free DMA channels beside the ring's suffice for a completion
behind a completion and a callback that starts another transfer; two edges for
one sampled while the callback of another waits, and one submission for each way
of waiting (a table, or a ring that the foreground has filled). Three streams let a third one meet what the
first two left in the drive, the query and the configured flag; two turns let a
ready loop both succeed late and run out. A ring of six slots is full within the
second frame of four commands; a timeout of two VBlanks expires before a slow
device answers; six edges make three frames, enough for a device to fall two
behind and catch up. Three movies let one meet what two earlier ones left; two
blanks are the least a transition leaves between movies, and one the most a device
may take: an iteration (the page's table, VSync(2), the location query) then takes at
most the four blanks of a picture. With two (`DeviceBlanks = 2`) `ScreenFollows`
is violated. Two frames fill the ring of
`scene_run` as three fill that of a scene; one frame of tiles and a pre-loop of
three keep the order of its three limits. Two rows hold an entry of the game and
one of another in either order, one row free that a save fills, or both; attempts and waits
are those of the code.

Fairness. `StrRing`: every actor is polled (`Events` services every device on
every pass, the movie loop polls for a frame on every iteration), so weak
fairness of each action. `IrqDispatch`: the host polls and each pass runs to
its end, so weak fairness of `Pass` and of `Dispatcher`; a callback only waits for
the ordering-table and the graphics channel, which every nested pass serves: weak
fairness of their completions while one waits (`ServeWaiting`). A wait for the
screen ends (`SessionEnds` of `SceneSession` is about that), between two passes:
strong fairness of `ScreenShown`. There is nothing for the other devices and the
foreground. `CdCommand`: weak fairness of the whole
machine, and strong fairness of two of its choices: VBlank edges keep coming,
and a reading drive reaches the next sector. `GpuQueue`: weak fairness
of the code and the host together, and strong fairness of the completion: the
device polls its fence at every pass, so a completion is possible again and
again rather than continuously. `MovieSession`: weak fairness of the source, which
goes on when its wait is over, and strong fairness of passes with an edge.
`SceneSession`: weak fairness of code and host; strong fairness of edges, of
completions, of the product's `Tick`, and of the ends of what is modelled by its
outcome only (a movie, a loading, a stream's opening, a game). `CardSave`: weak
fairness of the host's tick; nothing for the user and the card.

## Findings

- `str_ring_later_movie`: `movieStreamConfigured_` is set when a movie's
  decoder is initialised and never reset. The comment in `vlc_session.h` says
  that `SetStream` and decoder initialisation complete before the host starts
  delivering optical data. That holds for the first movie of a session only;
  from the second on, the drive may deliver as soon as it reads.
- `cd_request`: `RunGame801C6D58` requests the disc position and installs the
  game clock as VBlank callback with no wait in between. If the next pass has
  an edge to deliver, its interrupt comes before the query is answered; the
  clock requests again; its own wait cannot be answered inside an interrupt,
  gives up, and `LocationQuery::Request` throws.
- `gpu_present_loading`: `PresentIfReady` presents a page when no transfer is in
  flight; its comment says that a batch of commands submitted but not finished
  must not be exposed. While the loading callback waits, the interrupt that
  would start the next queued command is held back, so the device can be idle
  in the middle of a batch. If it has fallen a frame behind, the page the
  registers select is presented with its drawing still queued.
- `card_second_entry`: the serializer of a save writes to the first directory
  row in use, not to the row made or found for the name. With another entry
  before it, that entry is overwritten and the save's own row gets no data. A
  test expects the entry of the name, on a directory without another one.

One observation without a run: a movie stopped with an output pending publishes
it after the stop, when the callback is gone, so the deadline that the output
got is not cleared (`OnMovieFrameDelivered` is not called). The next movie's
first picture then comes without the startup edge that the comment at
`pr_stage2_product_runtime.cpp:330` describes. `ScreenFollows` holds all the same.

## Proofs

All theorems hold for every value of the constants that satisfies the named
assumptions: `SlotsAssumption`, `FilmsAssumption`, `SessionsAssumption` (at least
two slots, frames that fit); `IrqAssumption` (three channels of their own, one slot); `KindsAssumption`,
`BoundsAssumption`; `GpuAssumption` (at least two slots); `MoviesAssumption`,
`BlanksAssumption` (at least two blanks between movies); `SceneAssumption` (a pre-loop
longer than its tiles, a last picture of at least two frames);
`ConstantsAssumption` of the card. TLC evaluates them in the runs. Five theorems
assume more of the constants, which their statements say: `ScreenIsFollowed`,
`SourceIsPatient`, `TimeoutIsDoubleRequest`, `OnlyBadRecordsRetry` and
`MoviesNeverFail`.

**StrRing_proofs.** `RingInv` is the type invariant with three parts.
`DeviceInv` relates drive, DMA and busy flag: the DMA writes to the slot
before `tail`, the busy flag is a last transfer or an interrupt owed.
`ReceiverInv` says that `start .. tail-1` are the slots of the frame being
received, and where it lies. `LiveInv` says where announced and acquired
frames lie, and that they are disjoint from that range. None of the
properties is inductive without these: `CompletionOwed` needs that a completion
is never overtaken by another transfer, `NoLiveOverwrite` that `tail` is never
inside a live frame. From it: `TypeCorrect`, `CompletionIsOwed`,
`LiveFramesKept`. `OrderInv` adds that the receiver is in step with the
drive when the gate is bound: the sector to come next is the one expected.
With it, `NeverRejects`: the session's first movie never meets a rejection.

**StrRingOrder_proofs.** What the decoder gets, on top of `RingInv`. `StreamInv`
has five parts: a sector being received is behind the drive (`DriveInv`); every
live slot, and every slot of the frame being received, holds its own sector, or
the transfer in flight brings it (`DataInv`); the occupied slots are either one
run of frames from `read` to `start`, or two runs with a wrap marker after the
first (`ShapeInv`); along the ring the frames ascend (`OrderedInv`); and what was
decoded is whole, ascending and older than all that is in the ring
(`DecodedInv`). The shape is the part that is easy to miss: the order of the frames
and the owner of a marker both depend on there being at most one marker, and on
`read` reaching it before the younger frames. Theorems: `FramesNeverTorn` and
`EverySlotOwned`, for every session, also one whose receiver rejects sectors.
`CountInv` adds, for the first movie with the gate bound, how many frames were
announced; `RingIsFrameQueue` is the refinement of `FrameFifo` without its
fairness: each step announces one more frame, hands over the oldest, or stutters.
`FilmIsWhole` says more of the first movie than "in order": frame *k* is the
*k*-th one decoded, none is skipped. Of the frames announced and not released
there are exactly as many as lie between the decoder's and the receiver's count, and
no two are alike, so by the pigeonhole principle the oldest is the next one
(`OldestIsNext`). `FirstDelivery` shows of the first movie what the finding refutes of
later ones. `RingNeverStuck` excludes the one deadlock the ring invites: as long as
the film is not decoded, the movie loop finds a frame or a marker, or the drive
finds room, or a transfer or interrupt is under way. It needs that a film's frames
fit the ring, and that a live frame or a marker in front of one is what the movie
loop looks at (`LiveAtRead`).

**IrqDispatch_proofs.** `IrqInv` is the type invariant, `LinesOK` (the DMA
line is up exactly when a flag is, the CD line exactly when the drive holds a
report), `DispatchOK` (what the dispatcher's position, the host's pass and the
wait for the screen say of its copies and of a latched edge), and the three
properties. The lines are what the properties miss: a latched source
is cleared by acknowledgement while its line stays up, and only the level
tells whether another edge can come. Each controller operator has a lemma that
says what it does to each field. Theorems: `DispatchTypes`,
`NothingIsStranded`, and `EveryEdgeCountedOnce` (the game's VBlank counter is
behind the delivered edges by at most the latched one), which no run repeats.
Two more are the safety core of `CompletionServed` and `EveryEdgeCounted`.
`PassServesAll`: when the game's code goes on after a pass, the dispatcher has
served all that was latched (`PassInv`), hence no response and no edge is left
over, and of the completions at most that of a table which the last dispatch
began to clear: the pass clears it after that dispatch, and its interrupt is
latched for the next pass. `DispatcherReturns`: although both loops read their
registers again, the VBlank callback submits and waits, and nested passes complete
transfers meanwhile, every step of a dispatch lowers `Work`, which weighs what
the callback of this edge or of a latched one may submit, the requests
queued, the channels busy, the replies due, what is latched and flagged, and the
place in the loops. `WaitsOnFiber`: the VBlank callback, the only one that gives
way, is never dispatched while the task waits for the screen, when passes run on
the host's stack: no edge is latched when such a wait begins, and none is delivered
until it ends.

**CdCommand_proofs.** `CdInv` is `Parts \/ Ended`: either the task runs and
all parts of the invariant hold, or it ended in the one way it can, the double
request of the finding. The parts say, for a command not yet executed, a reply
queued, a reply in the flags and a query open, what Status, the last command,
the step of the source's call and the deadline are (`DriveInv`, `StatusInv`,
`PendingInv`, `QueuedInv`, `CallInv`), where the game clock may run
(`ClockInv`), when the drive is stopped or held (`HoldInv`), whose reply the
buffer holds (`ReplyInv`). The argument that no command is written too early,
even by a library that times out at once, is that a reply takes one pass, that
a pass takes at most one VBlank from the deadline, and that every command
re-arms it. There is one lemma for each of the 33 actions. Theorems:
`ProtocolTypes`, `DriveNeverRejects`, `AnsweredIsIdle`, `RepliesNeverCross`,
`PositionIsReal`, `ClockNeverWaitsForSector`, `ClockServedInPass`. They
assume nothing of the timeout. `AnsweredIsIdle`, `PositionIsReal` and
`ClockNeverWaitsForSector` are proved only; no run repeats them.
Four theorems carry an assumption of their own. `SourceIsPatient`,
`TimeoutIsDoubleRequest` and `OnlyBadRecordsRetry` assume `TimeoutBlanks >= 1` (the library's is 960): the wait
that the source gives way to has its whole deadline (`FreshWait`), the pass
takes at most one VBlank of it, and it is answered after the pass; the one
timeout that can ever expire is the game clock's in the double request of the
finding (`ClockOnly`), so that no reset ever works behind the source's back.
From both, `TryInv`: a call is at its first try and will be answered with success unless it
is the `Setloc` of a record the drive refuses, so that `OnlyBadRecordsRetry`: the loops
that open, play and stop a valid stream never go round a second time. That is the safety
core of `StreamEnds`.
`MoviesNeverFail` assumes that no stream is a game: then there is no game clock, and
no exception ends the task.

**GpuQueue_proofs.** `GpuInv` is the type invariant, `QueueOK` (the ring holds
the last `Depth` of the commands issued, in order and each with its packet
intact), `Awake` (a command in the ring implies an installed callback, and a
transfer or a flagged completion), and three small parts: `Covered`, which says
that outside the callback and the delivery of an edge no command waits behind
an idle device; `FullInv`, for the frame code that waits for a slot; and
`PlaceInv`. Lemmas say what pushing, draining and enqueueing do to any ring;
each action then has one lemma, which also shows the step's `Progress`: one
more command begun, the next one, or none. The discard on timeout is shown
unreachable from `Covered` and because no time passes inside the callback.
Theorems: `QueueTypes`, `WakeupNeverLost`, `PacketsDrawnAsSubmitted`,
`HandoffIsDrained` (proved only), `DeviceIsFed` (`Covered` itself, the safety core
of `CommandsBegun`), `CommandsInOrder` and `PresentsFinished`: outside
a waiting callback the host presents finished pages only, which follows from
`Covered` at the moment `Show` looks at the device. `TablesOneBehind` needs more:
`PageInv` says where the frame code is between `Prepare8001EA74`, which leaves page
and buffer in step, and `Present8001EBF4`, which turns the page before it submits,
and `TablesHeld` that the table of every queued command younger than two frames
is still in its buffer.

**MovieSession_proofs.** `IInv` is the type invariant, `RingOwned` (the drive
writes only while the ready callback is installed, which is between the opening of
a movie and its stop) and `JobKnown` (a queued job belongs to the movie set up,
whose control block says so; none is left during a setup, because the first pass
after a stop gives it a deadline and the next edge serves it, two blanks that
`BlanksAssumption` grants). Theorems: `MovieTypes`, `RingIsOwned`,
`CodecIsNeverRefused`. For the screen, `SInv` adds `ImageKnown` (once two frames were
taken the first was published), `FreshKnown` (where a picture can be waiting) and
`Timely`, the argument of the deadline: wherever the source is, its way to the blit
is shorter than what the deadline has left, because a publication sets it to four
and no way is longer than three if a device wait takes at most one blank. Theorem
`ScreenIsFollowed`, which assumes `DeviceBlanks <= 1`, shows `ScreenFollows` for
every number of movies.

**SceneSession_proofs.** Everything rests on two pictures, the last one submitted
and the one before (`Newest`, `Second`): whatever the device has drawn of them so
far, once the ring is empty they are what is on the two pages, and the display
shows the older one except between swap and submission. `QueueInv` says that the
frames in the ring alternate between the pages and that an idle device has
drawn them all; `TurnInv` and `PlaceInv` where the host, the task and the program
are; `TransitionInv` and `PreLoopInv` which pictures the frames counted so far
have submitted, so that a transition's wait and the reveal each have two frames of
their own picture behind them and the pre-loop has frames left for it;
`RunningInv` that the drive runs only on game pictures; `AwaitInv` what a wait has
reached. Theorems: `SceneTypes`, `StreamRunsAfterReveal`, `WaitsSeeTheirPicture`.
`SceneNeverRefused` is the safety core of `SessionEnds`: `CallInv` adds that the drive
is off outside the game and that a wait for the screen, and so the scene, ends with
nothing left to draw; hence the running program always has a step to take: no
stream start is refused and the hand-off's drain finds an idle device.

**CardSave_proofs.** `IInv` is the type invariant with `AnswerFits` and `Requests`
(when the write request stands and what its answer means), `MissingForgets`
(a missing card is forgotten by the check that reports it), `Mirrors` (where directory and
image agree, and how a write in progress has changed them) and `Kept` (what a write
keeps is what undoing it restores). `MirrorsAgree` speaks only of the states in
which the user chooses; it is not inductive without knowing how a save in
progress, or a check in progress, has left them. Theorems: `CardTypes`,
`CardMirrorsAgree`, for every card size, set of names, number of attempts,
exchanges and visits.
What a save writes needs to know where its names and rows come from. `OInv` says
how the check's steps and requests fit together (`CheckFits`), that a name to save
was compared with the list and has a row there (`NameCompared`, `RoomCompared`),
and, for a card that stays (`Untouched`), that what was read is the card, that memory
is the card but for the entry being written, and that the list of the first
visit is the card's (`ListIsCard`). Theorems: `OverwriteConfirmed` and
`OthersKept`, whose attempts each begin with what the last one left in memory;
`FirstVisitHasRoom`, which says that the blocked write described above needs a second
visit or an exchange. `CheckRuns` pairs each request of the check with the event
it waits for; from it `CheckNeverStops` and `LeavingCloses`, the safety core of
`ScreenCloses`. `SaveIsBounded` is that of `SaveEnds`: each step of a write raises
its attempt, or shortens the wait of the same attempt, or reports.

Only model-checked: the liveness properties, which are beyond TLAPS here, and of
`ImplementsFifo` the fairness half. For several of them the part that is not
fairness is proved, as said above: for `FilmDecoded` that no frame is skipped and
nobody waits for ever (`FilmIsWhole`, `RingNeverStuck`); for `CompletionServed` and
`EveryEdgeCounted` that a dispatch is bounded and leaves nothing (`DispatcherReturns`,
`PassServesAll`); for `ScreenCloses` and `SaveEnds` that the check answers and a save
has a bounded number of steps (`CheckNeverStops`, `LeavingCloses`,
`SaveIsBounded`); for `SessionEnds` that no call stops the scene
(`SceneNeverRefused`); for `StreamEnds` that nothing but a bad record is retried
(`OnlyBadRecordsRetry`); for `CommandsBegun` that the device is fed and the order kept
(`DeviceIsFed`, `CommandsInOrder`). `PictureDelivered` rests on the invariants of its
module alone. The properties of the runs that expect a
violation are refuted there, so there is nothing to prove of them.

## What is not modelled

Within the modelled parts: the receiver's memory-source branches and range
limit (outcomes 5, 7, 8), the eight-word header transfer as a step of its own,
seek times and sector timing, FIFO and data ports of the drive, XA delivery
and its back-pressure, the extra `Nop` of the library on a media error (bit
0x10, which the drive never sets), the table branch for `Setloc` the program
does not reach, the dispatcher's stuck-interrupt counter (unreachable: every
callback acknowledges its device), masked sections as separate steps (no wait
inside), the graphics library's query mode, its image copies and movie pages, the
GPU's control registers and the drawing itself. `Vsync`'s elapsed-line results and
its own timeout are left out. The models bound the number of edges, so they
cannot show how often the pages of a scene that never leaves the ring empty are presented.

`MovieSession`: errors of the VLC decoder and of the codec, the wait for the
codec's tables, geometry checks, captions and the de-duplication of pages; the
gate that an audio stream opens (`vlc_session.h:143`); memory reused within the two
blanks after a stop; and callbacks held back, since none of a movie waits.
`SceneSession`: one command stands for the batch of a frame; the 240-blank
timeouts, critical sections, callbacks that wait on the host's stack (`GpuQueue`
has them), copies of the movie page, the frames of the retry menu and the save
screen, edges beyond `MaxEdges`, and the tickets of the task: its one owner asks
for the pending ticket at each poll and resumes that one. The switch of the display
is part of the readiness of the graphics. `CardSave`: the keyboard's grid, the
ranking and the title of an entry, reading an entry, and the layout of blocks.

Whole parts: `PROJECT.json` names each with its reason. In short, the parts in
the plan below are still to come; decoding, drawing, mixing and parsing are
pure transforms whose tests compare data; the rest of Stage 1 and the title screen
are an older design with no fiber and no interrupts.

## Plan

Done, in this order: the ring (what the viewer sees if it breaks), the
interrupts everything rests on, the command protocol, the graphics queue, the
save screen and its card, the session with its presentation, the movies' ends.

1. `SpuQueue` and `SpuEvents`: the bounded sample queue with the audio
   thread, back-pressure on the drive, the SPU's transfer and events.
2. `CardBackend`: the chain of blocks of a Stage 2 entry, the write to a
   temporary file and its rename, a crash between the two.
3. The composition of `MovieSession` with `StrRing`: a movie from its opening to
   the release of its ring, instead of one bit for the ring.
4. A proof of the bound behind `CommandsBegun`: how many passes a queued command
   can wait.
