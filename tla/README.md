# Ouroboros in TLA+

A TLA+ verification project for Ouroboros, an AArch64 microkernel operating
system written in Rust: a small kernel (tasks, scheduling on several cores,
messages, capabilities, a keyboard, spawning, USB) and user-space servers (`fsd`
files, `netd` network, `cond` console, `accountd` accounts) that programs and
the shell reach by message. Programs are in Rust over `ulib`, or in C over the
repository's own `libc`.

Paths below are relative to `src/`. `PROJECT.json` maps every definition that
models code to its lines, and lists the runs, the mutants that break each
property, the hazards and the theorems.

## 1. The system

Every entry into the kernel (a system call, a fault, an interrupt) takes the
one kernel lock (`kernel/src/lock.rs`) and holds it until it returns to user
mode, so the kernel's tables change one whole entry at a time. What is hard is
what happens *between* entries: a server answers after its caller was
interrupted, a slot is reaped and filled again while somebody still names it,
a core is running the task another core has just killed, a ping is answered
after its timeout.

A server is one thread: it takes a request, works on it and answers. What is
hard there is what lies below and around one request: a disk that refuses the
third write of five, a file server that is restarted under an open session, a
packet that comes late or twice, a tool that is killed between two of its
calls.

## 2. Modules

| part | source | module | state and actions |
|---|---|---|---|
| tasks, messages, calls | `kernel/src/tasks.rs`, MSG_*, WAIT, EXIT, KILL, SPAWN arms of `syscall.rs` | `TaskIpc` | `STATES`, `GENERATIONS`, `MAILBOXES`, `CURRENT_CALLS`; an action is one kernel entry |
| what a call promises | the same, seen by the caller | `SyncCall` | one call in progress, ended once; `TaskIpc` implements it |
| scheduling, SMP | `tasks.rs`, `smp.rs`, `exceptions.rs` | `Scheduler` | `CURRENT`, `ROUND`, `DOOMED`, `KICKS`, `SECONDARIES_UP`; an action is one entry on one core, ending in `kick_idle_cores` |
| supervision | `supervisor.rs`, `on_tick` | `Supervisor` | the fields of `Entry`, the servers' mailboxes; the tick's loop visits one server a step with nothing in between |
| keyboard ownership | `tasks.rs`, keyboard arms of `syscall.rs` | `KeyboardOwner` | `INPUT_OWNER`, `PREVIOUS_OWNERS`, `PENDING_KILL`, `KBD_RAW` |
| keyboard queue | `keyseq/src/queue.rs`, `lib.rs` | `KeyQueue` | the queue, the parser of keys, both devices' bytes |
| rights, identities | `tasks.rs`, SPAWN, DELEGATE, SET_ID arms | `TaskRights` | `DELEGATED_SEND`, `STDOUT_TARGET`, `PARENTS`, `IDS`, `SAVED_IDS`, `GROUPS` |
| staging, regions | the *_STAGE and SPAWN arms, the region allocator | `SpawnStaging` | the staging buffers and latches, `SPAWN_STAGER`, `NEXT_RUNTIME_REGION_TOP` |
| USB | `kernel/src/xhci.rs`, `usb_msd.rs` | `UsbRings`, `UsbDevices` | rings of transfer blocks and disk commands; slots, contexts and the scan of ports |
| disk formats | `fsd/src/fat32.rs`, `exfat.rs`, `ext2.rs` | `Fat32`, `Exfat`, `Ext2` | one mounted volume, every operation of `vfs.rs`, write by write |
| what a volume promises | `fsd/src/vfs.rs` | `Volume` | a tree; the three formats implement it |
| file server | `fsd/src/main.rs`, `vfs.rs`, `parttable/` | `FileServer` | mounts, fids; access checks; partition tables and the choice of a root |
| network server, serving | `netd/src/main.rs` | `TcpServer`, `NetExport`, `NetAuth`, `held.rs` in `HeldKeys` | a served connection; exported sessions; whom it serves; held keys |
| network server, calling | `netd/src/main.rs` | `Wire`, `RemoteCalls`, `Dials`, `NetFetch` | outgoing connections; parked remote calls; `/net/tcp`; ping, lookup, fetch |
| accounts | `accounts/`, `accountd`, `useradd`, `usermod`, `groupadd`, `passwd`, `login.rs` | `Accounts` | the three files as lines, the tools step by step |
| shell | `programs/shell/src/main.rs` | `ShellPipeline`, `SpawnClient`, `ShellState`, `Matchers` | pipelines and redirects; reading and staging a program; bindings and variables; wildcards and Tab |
| tools on files | `programs/fileutils/*`, `ulib`, `ninep-abi` | `FileTools` | cp, mv, write and the rest call by call; chmod, chown; ls and tree over the pages of a listing |
| tools on text | `programs/textutils/*`, `fileutils/more`, `regex/` | `TextTools`, `Matchers` | the filters byte by byte; sort, with its heapsort; more; the regular expressions' parser, compiler and matcher |
| C library | `libc/src/file.c`, `stdio.c`, `os.c` | `CLibrary` | descriptors against a server that restarts; the two output buffers |

`SpawnClient` composes the shell's and netd's starting of programs with the
kernel's `SpawnStaging`; `RemoteCalls` and `Dials` are both built on `Wire`.
Between the other modules the boundary is an input: `Scheduler` lets any
handler wake any blocked task (why is `TaskIpc`'s), `FileServer` takes the
verdict of an access check and what an engine finds (`Volume`); the checks are
the operators in front of its requests.

Data is abstract throughout: a message is its sender and call number, a byte of
a stream is its position, a byte of an image is the generation that wrote it, a
TRB is its cycle bit and number, a signature is whether it verifies. History
variables (`line`, `cut`, `refused`, `crossed`, `leaks`, `stray` ...) are marked
as such where they are declared and guard nothing.

## 3. Runs

A run of several parts (`input`, `disk_formats`, `network`, `userland`) is a
sum: `which` says which part a behaviour is about and never changes, so each
part is searched through on its own instance.

| run | module | what it shows |
|---|---|---|
| `task_ipc` | `MCTaskIpc` | a blocked caller's request is queued at, or in the hands of, a live server (`CallIsAtItsServer`); an answer is to the call its receiver made (`AnswerIsToItsCall`); mail is read by the occupant it was sent to; no receiver sleeps beside mail; `TaskIpc` implements `SyncCall` (`CallsKeepTheirPromise`) |
| `scheduler` | `Scheduler` | one core per task, only runnable tasks resumed, placement, doomed tasks are on a core (`SchedInv`); no secondary idles beside waiting programs without enough kicks (`WorkHasBeenKicked`) |
| `scheduler_fair` | `Scheduler` | a doomed task ends; a runnable task comes round, with a core that halts and kicks that cannot be sent |
| `keyboard` | `KeyboardOwner` | the owner lives and the chain behind it leads to the boot shell without a cycle (`KeyboardInv`); a program marked by Ctrl+C reads nothing more; Ctrl+\\ takes the keyboard; the boot shell's wait stays interruptible |
| `supervisor` | `Supervisor` | a live server can still be caught by the detectors; an idle server trips only over a ping it never saw; a stuck server is replaced; every call ends, mutual calls included |
| `supervisor_idle` | `Supervisor` | **violated**: a healthy idle server can be restarted (section 7) |
| `input` | `MCInput` | keys stay whole in the queue, only keys already cut lose bytes, type-ahead survives a change of owner; the USB rings and the port scan (`UsbIsSound`) |
| `task_rights` | `MCTaskRights` | a right names the occupant it was granted for; rights flow down from a boot task; output is reachable; no user's program becomes root; rights to servers outlive restarts |
| `spawn_staging` | `MCSpawnStaging` | a child is made of its spawner's bytes only; the staging's holder is alive; regions are disjoint |
| `disk_formats` | `MCDiskFormats` | the three formats implement `Volume`: a request answered as done did what it was asked to the names it was given, one is refused only when the tree does not allow it (`KeepsItsTree`); no name leads to free space, tables agree but for what section 6 says ext2 leaks (`TablesAgree`); exFAT undoes or completes an operation a write of which was refused (`AllOrNothing`) |
| `network` | `MCNetwork` | a stream delivers a prefix of what was sent, in order, once, both ways of a dialled connection; a parked call gets the reply to that call; handles, keys and rights stay their owners'; every request ends |
| `userland` | `MCUserland` | programs answer as their command line asks at the limits of their buffers (`AnswersAreRight`); nothing reported is lost when a later step fails (`NothingIsLost`); a change touches what was named, and one that failed says so (`OnlyTheNamedChanges`); `ls` ends (`ListingEnds`) |

Deadlock is checked where the code never stops (`scheduler`, `keyboard`,
`spawn_staging`, `disk_formats`); in the other instances a bound (calls,
generations, key presses, requests) may be used up, or a program is done.

### Bounds

Every bound is a constant named in the module and set in the `.cfg` or in the
`INSTANCE` of the MC module.

* `task_ipc`: five slots (boot shell, idle, a supervised server, two programs),
  mailboxes of one message, two call numbers, five generations: a server
  restart, a reaped slot filled again, and a late answer to the first of two
  calls all fit in one behaviour.
* `scheduler`: five slots and three cores, so two secondaries compete for two
  programs; `scheduler_fair`: two cores, one of which may halt.
* `keyboard`: a shell and a program, a queue of one byte, two bytes on the
  line; three generations, so the program's slot is used again.
* `supervisor`: two servers that may call each other, mailboxes of one, one
  restart before giving up, wedge after two ticks, ping every tick.
* `input`: a queue of three bytes, the length of the longest key; four key
  presses. USB rings of three blocks, so that requests wrap, with
  budgets of commands, timeouts and faults (`RiBudgets`); data of two units, so
  that a read can end in its middle; two root ports, a hub of two ports,
  a pool of three, four faults, two rescans.
* `task_rights`, `spawn_staging`: enough generations for a slot to be used
  twice; images of two bytes, memory of three regions.
* `disk_formats`: volumes of four to nine clusters, two names and
  two levels (A), and contents that straddle clusters, FAT sectors and the
  direct/indirect/double-indirect ranges (B); a refusal at any write. exFAT (B)
  begins with a file another system left as a run with less valid content than
  size, and (C) with a directory that is a run, one slot from full, or that has
  no cluster at all. ext2 has a volume with a hard link (C), on which only the
  tables are checked, and one that is soon full (D). The run has a `VIEW` that
  leaves out the last request and the tree read back from the disk: nothing that
  follows depends on them, and every request is checked on the step that
  carries it out.
* `network`: one loss or fault, one restart of each kind, windows and buffers
  of one to six units; sequence numbers start below 2^5 = `SEQ` and wrap.
  Remote calls are searched through in four instances (fids, path verbs, runs,
  and how each ends), dials in two: one way with a loss, both ways without.
* `userland`: see the `INSTANCE`s of `MCUserland`; buffers hold two to six
  units, one fault (two for accounts), one interfering program. `sort` has room
  for five lines and eleven bytes, and inputs that fill either exactly, overrun
  it, and end without a line end there. A group is given by name or as a number
  no group has. The shell has two slots for its stages, mailboxes of one message,
  a capture of two, and three lines (`PlLines`): enough for a line to find
  the slots taken by the stages of one whose wait was interrupted, and for
  such a stage to send into the next line's redirect. The file server has two
  disks, one with overlapping partitions and one with no table, and a disk may
  be mounted once after the boot mount, which has a number of its own.

### Fairness

* `scheduler_fair`, `keyboard`, `supervisor`: weak fairness of the ticks only.
  The timer is armed again at each tick of each core that is up
  (`timer.rs`, `exceptions.rs`), whatever tasks do. In `keyboard` the entry
  that ends a doomed task is strongly fair: its own core's tick comes again
  and again, but may find the lock held by the boot core's tick. Nothing is
  assumed of any server or program.
* `network`: netd's loop comes round and time passes. netd is a program whose
  loop has no other exit; if it does wedge, the supervisor replaces it.
* `userland`: `ls` goes on with its own next call. Nothing is assumed of the server but that it
  answers, rightly or wrongly, or fails.

## 4. Proofs

Eight modules hold theorems, each for *every* value of the constants its
assumptions allow: any number of slots, cores, servers, connections, any
mailbox depth and buffer size. The bounds on counters (`MaxCall`,
`MaxGeneration`, `MaxOpens` ...) are constants too, so the theorems hold for
all of them.

| module | main results | from |
|---|---|---|
| `TaskIpcProofs` | `IpcSafety`, and from it `CallsAreServed`, `AnswersMatch`, `MailStays`, `ReceiversAreWoken`; `CallsImplementPromise`: `Spec => SyncCall!Spec` under the refinement mapping | `SlotsAssumption`, `RightsAssumption`, `BoundsAssumption` |
| `SchedulerProofs` | `SchedSafety`, and from it `TaskOnOneCore`, `ResumedTaskMayRun`, `Placement`, `KillsReachTheirTask`; `KicksAreSent` | `SlotsAssumption`, `CoresAssumption`; `KicksAreSent` also `Started \subseteq Kickable` |
| `KeyboardOwnerProofs` | `KeyboardSafety`, and from it `WayHome`, `WalkEnds`, `OwnerLives`, `LinksLive`; `MarkedTasksReadNothing` (an action property) | `SlotsAssumption`, `BoundsAssumption` |
| `SupervisorProofs` | `SupervisorSafety`, `LiveAreWatched`, `CalledAreAlive`; `IdleTripsAreUnseen` (an action property) | `SupervisorAssumption` |
| `TaskRightsProofs` | `RightsSafety`, and from it `NoStrangersRights`, `RightsFlowDown`, `OutputReaches`, `UsersStayUsers`, `FamiliesTalk`; `ServersStayReachable` (an action property) | `SlotsAssumption`, `IdsAssumption` |
| `SpawnStagingProofs` | `StagingSafety`, and from it `ChildrenAreTheirSpawners`, `StagersLive`, `MemoryApart` | `SlotsAssumption`, `BuffersAssumption` |
| `NetExportProofs` | `HandlesStayTheirs` | `ExportConstants`: finitely many connections, fids from 1 |
| `NetServerProofs` | `KeysStayTheirs`, `FailuresClose`, `FetchesArePrefixes` | the first two none: the models' own types; the last `FetchConstants`: a buffer of some size, a page of any length, segments that carry something |

The arguments:

* **Calls** (`IpcInv`). That a caller's request is at its server is not
  inductive alone: it needs that every call number anyone holds was issued
  (`CallNumbersIssued`), that `CURRENT_CALLS` names a call exactly while its
  task is blocked in it and names the one made last (`CallNumberWhileCalling`),
  and that a call in progress is known to nobody but the server it named
  (`LiveCallOnlyAtItsServer`). Then a late or repeated reply finds no caller.
  The refinement `CallsImplementPromise` takes one step per action: MSG_CALL
  maps to `Call`, MSG_REPLY to `Answered`, a full mailbox to `Refused`, deaths,
  restarts and interrupts to `Ended`, everything else to a stutter.
* **Scheduling** (`Kept`). A handler threads the kernel's tables through
  several operators, so the invariant is one of tables: `Sound(k)` for all
  cores, `Others(k, c)` while core c is between two tasks; a switch to a task
  c may run turns the second back into the first. `KicksAreSent` adds what
  `kick_idle_cores` leaves behind at the end of each entry (`Leave`): cardinalities of
  the waiting programs and of the kicked cores, and `Settled`, that a core
  which has just picked goes idle only with no program waiting. It assumes that
  the interrupt controller reaches every started core. Where it does not
  (`Kickable` smaller), the code falls back to the tick, and that is `RunnableComesRound`'s.
* **Keyboard** (`KInv`). Reachability along the chain of owners is spoken of
  through closed sets, and the absence of cycles through "every non-empty set
  of slots has a member with no link inside it", so no induction along the
  chain is needed.
* **Supervision** (`SupervisorInv`). The detectors are sound because a server
  in its receive has an empty mailbox and nothing in hand, and an outstanding
  ping is in the mailbox or in hand unless it was refused.
* **Rights** (`Sound`). A generation names one occupant; a child is of its
  parent's line; a right held is to this occupant, and entitled by the line.
* **Staging** (`Sound`). The latched prefix of each buffer holds the holder's
  bytes; nothing is latched without a holder; regions lie above the cursor.
* **Exported sessions** (`ExportInv`). All handles of all connections form one
  table `H` beside the file server's; `Agree(H, fsd, lost)` says a handle of
  the running file server is the open it was made for, no two share one, and at
  most one fid of netd's is unnamed, after a restart in the middle of an open.
  Every action is one of a few changes of that table (`Releases`, `Opens`,
  `ChangesLocally`, a restart), each shown to keep `Agree`.
* **Held keys**. An owner is a slot and a generation; a new task in the slot
  is another owner, so a key left behind is nobody's who runs.
* **Whom netd serves** (`AuthInv`). What netd believes of its three files is
  never more than they say (`Trust`): a read that failed for good leaves a file
  believed to be the one that closes. A verdict of "ok" is reached from what is
  believed, so it is one the files allow.
* **Fetches** (`FetchInv`). What has been taken is the page's first units, and
  while the buffer has room `rcv_nxt` is the number of the next; so a segment
  that is taken continues the page, and any other changes nothing.

### Only model-checked, and why

* `DoomedEnds`, `RunnableComesRound`, `QuitTakesTheKeyboard`,
  `BootWaitIsInterruptible`, `StuckIsReplaced`, `CallsEnd`, `EveryRequestEnds`,
  `ListingEnds`: liveness under fairness, out of the prover's reach.
* `KeysStayWhole`, `OnlyCutKeysAreDropped`, `TypeAheadStays`: what they say of
  the queue is about runs of bytes inside sequences, cut, dropped and appended;
  a proof needs induction over those sequences.
* `UsbIsSound`: compares the walk a controller makes round a ring with a queue;
  the walk is a recursion over data.
* `TablesAgree`, `KeepsItsTree`, `AllOrNothing`: chains of clusters and trees
  of directories are recursive data, and the modules compute with RECURSIVE
  operators.
* `StreamsIntact`, `CallersGetTheirOwn`: streams and replies are
  sequences built over many steps by two parties. Of `StreamsIntact` the part
  about fetches is a theorem (`FetchesArePrefixes`). `HoldingsAreTheirs` speaks
  of three machines in one model; each of its parts is a theorem about its own
  machine (`HandlesStayTheirs`, `KeysStayTheirs`, `FailuresClose`).
* `AnswersAreRight`, `NothingIsLost`, `OnlyTheNamedChanges`: pure algorithms
  and tools compared with reference definitions over bounded inputs.

## 5. What the models leave out

* **Kernel**: page tables, the ELF loader, boot, ACPI and the device tree, the
  other drivers, the framebuffer console, clocks and entropy; the safe copies
  (GRANT, SAFECOPY). The kernel lock itself is taken as given.
* **Disk formats**: exFAT sets have no vendor secondaries, and no directory's
  chain disagrees with its size (`room` refuses a create there); on ext2 a block is one write, a name takes one place whatever its
  length, and there is one group. A FAT32 or ext2 volume is not used after a
  refused write. FAT32's rm, rmdir and write_file free the chain before the
  entry, so `Sound` of FAT32 is claimed only while the disk takes writes.
* **Network**: the path from client to server keeps its order (a late SYN or RST
  is left out); timers are abstract and the round-trip estimate is left out;
  streams longer than 2^32 bytes are not modelled. In `RemoteCalls` our frames to
  the peer arrive at once or are lost; in `Dials` a frame in flight may be
  overtaken in either direction. ARP, DHCP, message layouts and checksums are left out.
  A request refused by the peer's authentication is left out on the calling side.
* **USB**: controller bring-up, descriptors' bytes and timings. A ring has no
  check for being full: as many unanswered transfers in a row as a ring has
  blocks would overrun it, so the model allows `RingLen - 2` timeouts.
* **Userland**: line editing and history, messages' wording, `cond`, `man`,
  the probes and demos, `/proc` texts, cryptography, C strings and formatting.
  One account tool runs at a time, as the shell waits for the program that has
  the keyboard. The builtins that collect a stage left behind (`wait`, `kill`)
  are left out of `ShellPipeline`, so such a stage's slot stays taken there.

## 6. Behaviour a reader should know

These follow from the models and are what the code does; none contradicts a
property.

* A core that dies with its kick pending loses it until the next kernel entry.
* netd finds a remote fid by peer address, port and user, so a stale number can
  meet a new session of the same user; an open across a restart of `fsd` leaks
  one fid, which the comment at `netd/src/main.rs:6230` accepts.
* In libc, after a restart of the server an old descriptor reaches nothing until
  its number is given out again; then it reaches that open, and closing it takes
  the fid away from it (`crossed` in `CLibrary`). A console call that fails
  after printing prints twice.
* In the USB disk driver, a short data stage that is not a stall is taken for a
  whole one: the residue in the status block is not read. A read the disk ended
  early is reported as done, and the rest of its buffer is what was there
  (`DoneIsDone` claims no more). `activate_keyboard` records the keyboard before
  Configure Endpoint has succeeded, and a keyboard whose transfer failed is not
  armed again: its endpoint is not reset.
* On ext2, a `touch` or `mkdir` that has taken an inode and then finds no room
  for the name does not give it back: the inode, and for `mkdir` the group's
  count of directories and at most one block, are lost until an fsck
  (`fsd/src/ext2.rs`, `touch`, `mkdir`; `leaks` counts them, `Sound` bounds
  the loss by them).
* A write to a dialled connection that netd has closed of itself (idle, or
  unanswered) is still accepted; what is written past the FIN may arrive twice
  or not at all. `StreamsAgree` speaks of what was written before.
* A fetch takes a FIN whose sequence number is ahead as the end of the page: a
  page whose last segments are lost comes back short and is not reported so.
  `FetchIntact` claims the whole page only when its end came in its turn.
* The shell takes whatever comes into its mailbox while it captures a redirect
  for the line's own output: the sender is not compared (`shell/src/main.rs`,
  `capture_program_output`). A stage of an earlier line, left running by an
  interrupted wait, can so write into a later file or end it early (`stray`).
  A stage whose reader lets its mailbox stay full for 150 ticks drops the
  message and goes on.
* A redirect that fails in the middle leaves the file cut, and says so.
* `usermod -g` and `useradd -g` take a number without looking whether a group
  has it (`byGid` in `Accounts`). A password overwritten in place by a write
  that was cut leaves a secret no password matches (`Damaged`).
* A call whose answer is lost may have been carried out: `chmod` and `chown`
  then report an error over a change that was made.

## 7. Where code and documentation differ

`supervisor_idle` shows the one difference kept as a run. The comment on
`PING_TIMEOUT` (`kernel/src/supervisor.rs:110`) says that "a healthy idle server
never trips". A ping that finds the mailbox full is dropped, but counts as
outstanding (`tasks.rs:3280`): a server that then drains its mailbox and blocks
in its receive is restarted (`HealthyIdleNeverTrips`). `IdleTripsAreUnseen`
proves that this is the only way a server in its receive is.

Met while reading, without a run of their own:

* `PENDING_KILL` is one cell (`tasks.rs:929`): a second interrupt before the
  tick overwrites the first mark.
* A ping is sent again while an earlier one is still queued
  (`supervisor.rs:405`, comment at 399).
* A wedge past the cap is killed, not "simply left looping"
  (`supervisor.rs:88`).
* `park_run`'s comment says `MAX_REMOTE` is 2; the constant is 3.
* A second `bind` of a prefix is ignored (`shell/src/main.rs:2056`,
  `docs/shell-commands.md:112`): `resolve_ns` takes a later binding only when it
  is longer. The target of a `bind` is taken in the boot volume as it is
  written, not through the other bindings.
* `sort` drops an unterminated last line without saying so when the index is
  exactly full (`sort/src/main.rs:105`), though "a final line with no newline
  still counts" (`:86`); `SortedAndWhole` names this one case (`LastHasNoPlace`).
* libc sends the end-of-stream marker with one try (`file.c:953`), while
  `ulib` retries and says "as the C library's `_exit` does" (`ulib/src/lib.rs:697`).
* A read of fd 0 and a write to fd 2 flush the write buffer, not stdio's: a
  prompt made with `printf` and no line end is not out when the program waits
  (`stdio.c:42`, `file.c:1264`), while the comment at `file.c:903` counts on
  it. `PromptIsOut` speaks of what `write` was given.

## 8. Running

    tlc -config MCTaskIpc.cfg MCTaskIpc     # and the other runs of PROJECT.json
    tlapm TaskIpcProofs.tla                 # and the other *Proofs modules

Every property has a mutant in `PROJECT.json`: a definition of the model changed
the way a plausible bug would change the code, under which TLC finds the
property violated. Mutants stand before the definition they replace and are
marked as such.
