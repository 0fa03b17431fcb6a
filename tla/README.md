# predOS: specification, model checking and proofs

predOS is a small operating system for the Raspberry Pi (ARMv6): a
non-preemptive kernel with processes, signals and a shell on a serial console,
and a FAT16 file system on an SD card. This directory holds TLA+ models of its
kernel, its UART driver, its file system, its SD card driver and its programs,
TLC configurations that check them, and proofs, checked by the TLA+ proof
system, of what holds for every number of processes, frames, clusters, blocks
and bytes.

`PROJECT.json` lists the components, the runs, the lines of code each
definition stands for, the hazards and the properties that watch them, and the
theorems. All paths below are relative to the repository (`src/...`, `docs/...`).

## 1. Inventory

| part | state | operations | who calls it |
|---|---|---|---|
| kernel core, `src/kernel/kernel.c` | `pcb_list`, `pcb_curr`, `read_queue`, `wait_queue` | fork, execv, wait, exit, yield, usleep, read, signal, raise, kill, ps; open, close, lseek, write passed on to the file system; `kernel_read_queue_update` | `svc.c` for a program; the receive interrupt for the last one |
| processes, `src/kernel/proc/proc.c` | frames and mapping in a pcb | `proc_create`, `proc_destroy`, `proc_frame_map`, `proc_frame_write_enable/disable` | kernel core |
| memory, `src/kernel/mmu/` | frame table, page table, root coarse table | allocate and free a frame, map a section | `proc.c`, boot |
| entry, `src/kernel/isr/` | saved registers on the program's stack | `svc_X` stores the result in `sp[0]`; `isr.S` saves and switches the context and enables interrupts in a system call | hardware |
| file system, `src/kernel/fat/fat.c` | cluster table in memory, `system_inode_table`, directory and blocks on the card | open, close, read, write, seek | kernel core |
| UART, `src/drivers/uart/uart.c` | two rings | `uart_print`, `uart_read`, `uart_irq_handler` | logging, `kernel_read`, hardware |
| SD card, `src/drivers/emmc/emmc.c` | controller registers; the host's buffer, the card | `emmc_init`, `emmc_read_block`, `emmc_write_block` | file system |
| ELF, `src/kernel/elf/elf.c` | none | read headers | `kernel_execv` |
| GPIO, timers, power, boot, `common` | registers | single accesses | all |
| programs, `src/apps/` | their own; `blink.io` on the card, shared by blink and blinkd | system calls | the shell starts them |

What is hard, and hard to test on the board:

* **The receive interrupt against everything else.** `software_interrupt_handler`
  enables interrupts first thing, so the interrupt can serve a reader - map it,
  write its stack, make it READY, map `pcb_curr` again - between any two
  instructions of a system call.
* **`pcb_curr` moves in the middle of a call**, and the call's result is stored
  afterwards through whatever mapping is in force.
* **Names that outlive things**: `parent_pid`, entries of the queues, directory
  entries copied into descriptors, the program's text and stack mapped at
  addresses of another process between fork and exec.
* **Rings without locks** between the interrupt and the kernel.
* **A host controller and a card that go on by themselves** while the driver
  polls, with bits left over from one command to the next and transfers that
  outlive the call that was given up.
* **A pid in a file**: blink signals whom `blink.io` names, at any point of that
  process's life.
* **Chains of clusters** that grow block by block, with off-by-one arithmetic at
  block, cluster and chain boundaries, on a card that can fill up or fail.

What makes each part correct: *kernel* - one process runs, everybody is
scheduled in the end, wait and fork return the right values to the right
process, nothing wakes up too early or never, a handler returns to what it
interrupted; *memory* - a frame has one owner, programs find their own memory
and nobody else's, the kernel's sections stay mapped; *UART* - bytes come out
and in once and in order, the rings do not overflow, a wakeup is not lost;
*file system* - what is read is what was written, files do not share clusters,
sizes are backed by clusters, a failure spoils nothing; *SD card* - a call that
succeeds has moved its blocks, all of them and no others, whatever happened to
earlier calls, and the polling ends; *programs* - a command line ends in the
prompt, a signal goes to a process that handles it, a new period arrives.

## 2. Modules

```
Mmu <- Kernel <- KernelProperties <- MCKernel
                 KernelProperties <- Programs: the programs composed with the kernel
                 KernelProperties <- KernelProofs <- KernelHabitsProofs
                 Programs, KernelHabitsProofs <- ProgramsProofs
Uart <- MCUart, UartProofs
Fat <- FatProperties <- MCFat         (FatProperties instantiates FileStore,
       FatProperties <- FatProofs                          the abstract store)
                     <- FatSizeProofs <- FatStoreProofs
Emmc <- EmmcProperties <- MCEmmc      (EmmcProperties instantiates BlockDevice,
        EmmcProperties <- EmmcProofs                        the abstract card)
```

| module | models | in short |
|---|---|---|
| `Mmu` | `mmu.c`, mapping in `proc.c` | the frame table as a set, the page table as a function from sections to frames, `FAULT` or `COARSE`; one operator per mapping function |
| `Kernel` | `kernel.c`, `svc.c`, the interrupt | one action per system call, split where the interrupt can change its outcome |
| `KernelProperties` | | the promises, the inductive invariants, fairness |
| `Uart` | `uart.c` | one action per load or store of a shared field |
| `Fat` | `fat.c` | one action per file call, a write one per block |
| `FileStore` | | what the file calls promise: files are sequences of bytes |
| `FatProperties` | | the promises, and the refinement mapping to `FileStore` |
| `Emmc` | `emmc.c` | one action per register access the host or the card can come between; the host and the card with actions of their own |
| `BlockDevice` | | what the driver promises: exact transfers until a call fails, no block in a wrong place ever |
| `EmmcProperties` | | the refinement mapping to `BlockDevice`, and what `BlockDevice` does not say |
| `Programs` | `apps/*/main.c` | one action per step of a program up to and with its next kernel call |
| `MC*` | | what TLC needs: sets of flags, symmetry, a view |
| `*Proofs` | | theorems |

Definitions marked *Mutant* are faulty variants of the definition below them (a
dropped guard, an off-by-one, a missing reset). They are used nowhere;
`PROJECT.json` says which property fails if one takes the other's place, which
shows that the property can fail.

### Kernel

`pcb`, `read_queue`, `wait_queue` are the arrays of `kernel.c`; `pcb_curr` is
the pid it points to. An address is abstracted to the section it lies in and
the number of signal frames above it on that stack; of the saved registers only
`r0` is kept, as `saved_r0[frame][level]`, which is where results, the 0 of fork
and the pid of wait go. `rx_size` is the driver's count of received bytes,
`sys` the call in progress (`at` says where it stands). Time is relative:
`timer` is how far a sleeper's timestamp lies ahead.

A call such as fork is `Fork` (slot, frames, identity mapping), `ForkCopy`
(copies, the child's 0), `Return` (result to `sp[0]`, context switch); `Receive`
or `Serve` may come in between, as may `Tick`. A call that reschedules passes
through `Schedule`, which waits, with interrupts on, until somebody is runnable.

`crash` is an absorbing value of `sys.at`: the kernel has faulted (the abort
handlers loop) or has written over memory that is not its target. Nothing is
claimed after it; `NoAbort` says that it is not reached, in the runs whose
programs keep to what those runs assume.

Programs are arbitrary up to `CALLS` and `RULES`. `CALLS` are the calls an
instance makes. A rule is a habit of programs, which the kernel does not enforce
and, where the code needs it, silently relies on:

| rule | says | the programs of `src/apps` |
|---|---|---|
| `spawn` | between fork and exec a child does nothing else, but exit if exec fails | keep it |
| `init`, `idle` | process 0 does not exit; it does not wait or read | keep them |
| `wait` | wait is called for a child that has not exited | the shell keeps it |
| `handler`, `handled` | a handler makes no call that reschedules; signals go to processes with a handler | blinkd and blink; the second is what `Programs` shows |
| `orphan`, `reap` | nobody exits before its children have exited / have executed their program | blink breaks both: it exits while blinkd is still to be executed |
| `ps` | ps runs when every process has executed its program | keep it by the order in which the round robin runs them |
| `reader` | one process reads the console | the shell |
| `console` | who has had to wait for a byte does not exit (its transaction stays); a read is made when every process has executed its program | the shell, unless a read returns -1, upon which it ends (`shell/main.c:45`) |
| `typist` | about the user, not a program: no byte a reader may take comes in the copies of fork, in the load of exec, on the way into a child that has not executed its program, and from exit until the next process is found | left to luck: run `CoarseTableLost` shows what such a byte does |

`console` does not stop the shell from forking and waiting after it has read:
that is what `Console` checks, with the interrupt at all other steps of the
calls. `AnyCalls` has only the rules `handler` and `reader`. `Programs` has no
rules: there the real programs take the place of arbitrary ones, blink included.
A theorem names the rules it needs (section 4).

Abstractions to know of. The receive interrupt is not split, and the context
switch, the scan of `kernel_schedule` and the stores of `kernel_raise` and
`kernel_kill` (`Raised`) are one step each. `MAX_LEVEL` bounds the frames of
handlers on a stack. Counting and taking
received bytes is atomic here; `Uart` looks into it. A read is of one byte or
more and less than the size of the ring (a read of none returns at once, a
longer one never). A buffer lies on the caller's stack. The pid of kill is a
valid index, which the kernel does not check. The -1 that `svc_execv` stores
after a successful exec lands in the discarded part of the old stack and is left
out, as is the exit status and everything that is only logged.

### Uart

The build does not optimise (`-O0`), so `tx_size += len` really is a load, an
addition and a store; the interrupt handler runs in one step, with interrupts
masked. The wire is the sequence `sent`; a byte is its number in the order of
printing. `raced` records that a byte was sent between the loads that place an
element of a print, or between the load and the store of `tx_size`; `disturbed`
that a read left bytes behind, or that a byte came in the middle of it. These are
the windows in which the code is not safe, and `SentInOrder` and `ReadInOrder`
promise nothing after that: what they show is that there is *no other* window.
The receive handler does not wrap where it stores: a byte placed behind the ring
overwrites the two counters that lie there, with any values. One placed yet
further behind would overwrite the field `state`, which is left out: the bound
`MAX_AHEAD` on how far a typist gets ahead stands for that.
A print may be of any length, as `kernel_write` passes it on; one longer than
the ring finds no room and spins for ever at `uart.c:187`, in the model too;
`PrintEnds` therefore speaks of messages that fit. After `uart_read` has copied
its bytes (`Read`) the load of `rx_size` and the store of `rx_indx` computed from it
are a step each, and so are the load and the store of `rx_size -= len`
(`ReadFront`, `ReadWrap`, `ReadLoad`, `ReadStore`); `READ_LENGTHS` are the
lengths of the reads made, `kernel_read` passes any.
Receiving takes the code as it is: `uart_read` sets `rx_indx` from `rx_size`
instead of advancing it by `len`, so order is promised only for readers that
take all there is. `uart_handle_command`, the only way into the image-loading
states, has no caller.

### Fat

`dir` and `data` are on the card, `table` (the cluster table) and `inode` (the
descriptors with their copies of directory entries) in memory. Names are model
values: the string is valid and converted. A byte is its number in the order of
writing, so that reads that return stale, zeroed or foreign bytes are told
apart from right ones. The kernel runs one call at a time and the file system
does not wait, so a call is atomic for everybody else; a write is nevertheless
one step per block, since each can fail and leaves a state behind.
`Absolute`, `Linked`, `AppendBlock`, `WriteBlock`, `Transfer` and `ReadBuffer`
are the arithmetic of the corresponding functions; an unsigned subtraction that
wraps leads out of every chain, and the cluster 0xffff behind a chain is an
address outside the data area. `strayed` is the set of clusters outside it to
which blocks have gone.

`Spec` lets programs make any call on open descriptors. `CarefulSpec` excludes
what the code does not do right, so that one can say what it does: one
descriptor at a time for a file (each has its own copy of the directory entry),
one close (a second one zeroes the directory entry), no seek or read beyond the
end, no empty write (at the end of a block it goes to cluster 0xffff), and
overwrites inside one block (`fat.c:704` compares `file_offset` with itself, so
the rest of the last block is zeroed; an overwrite that ends with the file
appends a block instead).

Left out: reads and writes through closed descriptors (they go to cluster 0, in
the root directory); reads the card fails; seeks to negative offsets; table
reads past the end of the table are taken as the end of a chain; writes outside
the data area change nothing that is modelled. A read of a request that spans
several runs of clusters is modelled as the code does it (`Transfer`), which
transfers too much once there is more than one run of several clusters
(run `LongReads`). `StoreKept` therefore promises nothing of a read whose whole
blocks lie in several runs (`OneRun`), and nothing after a block has gone behind
the data area, on a card with fewer clusters than its table (`Promised`). Reads
within one run are promised in any length, as `kernel_execv` makes them.

### Emmc

`at` is where the driver stands in its call, `cmd` and `request` what it is
about; `INTERRUPT` is the set of bits of that register, `count` the block count
in `BLOCK_SIZE_COUNT`, which the driver or-s and never clears (the host counts
it down). A block is the address it was written for and the number of the call,
so that a block in a wrong place, or of an old call, shows. `Clear`, `Send` and
`CommandFails` are `emmc_issue_command`, whose bits are cleared, then written
after a sleep; `SeeReady` to `TakeBlock`, `SeeWriteReady` to `PutBlock` the loops
over blocks; `TransferDone` and `GiveUp` the last poll, the only one that is
bounded (half a second). A card that powers up late, a lost command or answer,
and an aborted transfer are the faults.

The host and the card are not code of the repository. They are taken to behave
as the driver expects and the standards that `docs/emmc.md` names say: a host in
a transfer ignores or refuses another one and ignores writes of the block count;
a command is answered, or lost, before the next call; an aborted transfer empties
the host's buffer; the host has room for the blocks the driver puts.

`Fat` assumes of the card that a write either is done or fails without effect.
`DeviceKept` says what the driver gives: a write that fails may still reach the
card, later, but only in its own place. After a failed call a read may return
garbage as a success; this is in the code (the block count of the failed call
counts into the next) and excluded from `ReadDone` by `failed`.

### Programs

`mem` is what a process has in its memory: which program it executes, where it
stands, the result of its last call (`r0`), the command line or arguments, and
blinkd's flag and period. `io` is `blink.io`: nothing, a pid, or a pid and a
period. `open` counts descriptors; `kernel_execv` opens a file and never closes
it. Each action is a step of a program followed by the action of `Kernel` for
its call, so that all interleavings of calls, ticks and interrupts of the kernel
are in it. The user types whole lines: one received byte makes a command.

The user types while the shell is blocked, in read or in wait (that is
type-ahead, while a command runs). Left out: bytes in the middle of a kernel
call, with which the kernel can be lost (run `CoarseTableLost`) or the count that
the interrupt has stored be overwritten by the -1 of `svc.c:27`, upon which the
shell ends; a typist so fast that the shell never blocks, who starves blinkd; a
period of 0, with which blinkd's loop never sleeps and nobody runs again; blink
without an argument; a shell inside the shell; a restart, after which `blink.io`
names a process of the time before; the editing and splitting of lines.

## 3. Runs

All passing runs are exhaustive. Three processes are enough for the kernel: every
interaction is between the current process, one other (parent, child, target,
reader) and one bystander. `FRAME_TABLE_SIZE` gives every process its two
frames, except in `AnyCalls`, where they run out.

| run | bounds | shows |
|---|---|---|
| `AnyCalls` | 3 processes, frames for two and a half, 1 signal; yield, fork, exec, exit, signal, kill, and one process that reads, in any order; a handler makes no call that reschedules | who runs and who owns a frame is never confused, also by fork in a child that has not executed a program, an interrupt in the middle of its exec, a signal to anybody, and exit inside a handler; the kernel's sections stay mapped until control is lost |
| `Lifecycle` | 3 processes, timers of one tick | fork, exec, wait, exit, ps of programs with the usual habits: no abort, isolation, right results, no lost wakeup, no deadlock; every ready process and every sleeper runs, every wait ends if programs end |
| `Signals` | 3 processes, 1 signal | handlers on top of any state, also of a wait, and of the sender itself |
| `Console` | 3 processes, reads of one byte | a shell that reads and goes on forking, waiting and reading, children that execute a program and exit, the interrupt at every step but those `typist` names: everybody finds its own memory and the kernel is not lost (that would be a deadlock); the wait of a process that has not had to wait for a byte ends by the exit of a child; every read ends while somebody types |
| `CoarseTableLost` (fails) | 3 processes | a byte received while a process exits clears the descriptor of the page tables' own section |
| `Serial` | transmit ring of 2, 3 bytes printed in messages of 1 to 3: wraps, and never ends; receive ring of 5, 3 bytes typed, a typist up to two ahead, reads of 1 to 3 | prints, the interrupt between any two loads and stores; a message that fits the ring is printed in the end; a reader that takes all there is gets everything in order |
| `AnyFiles` | 2 files, 2 descriptors, 2 clusters, a table for 3, a failing card | any calls: no shared clusters, no name twice, no write to another file |
| `Files` | 3 files opened in turn with all flags, 2 clusters of 2 blocks of 2 bytes, a table with one cluster more, 6 bytes written and read in calls of up to 6 | the file system implements the abstract store, until the table's extra cluster is taken; no block leaves the data area but for that one; sizes are backed by clusters |
| `LongReads` (fails) | 8 clusters | a file appended to three times, read in one call, comes out wrong |
| `Card` | 3 blocks, reads of 1 and 2, 2 writes of 1, 2 faults, a card that needs 1 to 4 polls of the 3 | the driver implements `BlockDevice`; a write that reports done is on the card; without a fault nothing fails and no loop hangs |
| `SlowCard` (fails) | 10 polls, a card that needs 11 | a card without a fault that is still powering up is given up |
| `Programs` | 4 processes, echo, ps, blink with two periods, a word that is no command, 6 descriptors | SIGUSR1 only goes to a blinkd that has its handler; every line ends in the prompt, also when descriptors have run out; every new period gets to blinkd |

`Card` writes single blocks only, as `fat.c` does (the one caller that writes
more, `save_fat`, is called by nobody): after a failed call a write of several
blocks may report done with blocks missing. Three blocks and calls of two let a
transfer with a stale count run past its end, onto a block of another call and
past the card; two faults let a call fail while the host still holds the block
of one that failed before.

`Programs` has 6 descriptors for the kernel's 253, enough for init's exec of the
shell, blinkd's and four commands', after which every exec fails; four processes
are init, the shell, blinkd and one command, the most there ever are.

The file runs identify states that differ in the last result only, which no
action reads; the properties that look at it are action properties.

The failing runs are findings; each quotes the comment or test it contradicts.
Further behaviour of the code that is surprising, modelled as it is and kept out
of the runs by a rule or by `CarefulSpec`:

* fork in a child that has not executed a program stores its child's 0 relative
  to the wrong frame, `kernel.c:373` ("set r0" of the child): rule `spawn`;
* a served read stays in `read_queue` and later bytes wake its process whatever it
  is doing, also out of a wait (`kernel.c:77`): `Console` has this, and
  `WaitReturnsChild` speaks of processes without such a transaction;
* `svc_read` stores the -1 of a read that was queued, also over the count of a
  byte that has come in the meantime (`svc.c:27`): no property about the result of
  a read holds;
* a child whose parent exits first belongs to whoever gets the parent's pid next;
  two processes can thus be parent of each other and wait for each other for
  ever. `WaiterRuns` therefore asks that no program leaves an orphan;
* a read longer than the rest of the file succeeds if it is not longer than
  offset and size together (`fat.c:626`), although the message of the check says
  it compares with the size of the file: `ReadPastEnd`;
* descriptors leak with every exec, and when they are gone no program starts
  (`kernel.c:224`): `Programs`, `open`;
* a call of the SD card that is given up leaves the host in its transfer and its
  count in the register (`emmc.c:254`): a later read of another size may succeed
  with garbage, a later write report done early;
* the cluster right behind a chain is 0xffff with success (`fat.c:436`):
  `Absolute`, `StraysOnlyBehind`;
* a table that fills whole sectors has entries for clusters that the card has not;
  the code takes them when the others are taken and writes behind the data area
  (`fat.c:382`): `strayed`.

A block of one or two bytes and clusters of one or two blocks are
the smallest in which a call can start in the middle of a block, cover a whole
one, end in the middle, cross a cluster and end with one; real blocks differ only
in size.

Deadlock checking is off where the system may stop: after control is lost, or
at the bound on the bytes printed, typed or written.

**Fairness.** The kernel goes on with a call (`WF` of `KernelStep`: its code
waits for nothing but the scheduler) and the clock runs (`WF` of `Tick`).
Programs are not preempted, so fairness between them rests on their giving up
the processor: `SF` of `Reschedules`, without which one program may starve all
others. `TypingSpec` adds a typist; that programs end is a premise of
`WaiterRuns`. In
`Programs` a program goes on, the kernel goes on and the clock runs (`WF` each);
no strong fairness is needed, since the real programs give the processor up. In
`Emmc` the driver polls on and a host that has something to do does it (`WF` of
`DriverStep` and of `HostStep`); nothing makes a card answer that has lost a
command. In `Uart`
the wire takes bytes (`WF` of `TransmitInterrupt`) and the kernel runs on (`WF`
of `PrintStep`).

## 4. Theorems

All hold for every value of the constants that satisfies the assumptions of the
modules (sizes positive, the kernel's sections distinct from those of init, the
cluster table smaller than 0xffff entries, an or that is one) and those stated
with the theorem, of which some run's constants are an instance. Behind each
stands an inductive invariant that TLC checked before it was proved.

**Kernel.** The first five hold for programs without any rule. The others need
rules, which are the operators of `KernelProperties` named here: each says "this
call is not made, or this rule is kept". `Lifecycle` and `Signals` satisfy all of
them, `Console` all but `NoReads` and `WaitsForChild`, `AnyCalls` only
`HandlersRunThrough` and `WaitsForChild`. What speaks of memory and frames speaks of the time until control
is lost, and `ControlIsKept` says when it is not.

| theorem | assumes | says |
|---|---|---|
| `TypeCorrect`, `CurrentRuns` | | types; at most the current process is RUNNING |
| `FramesOwned`, `KernelStaysMapped` | | the frame table is exact, the kernel's sections stay mapped |
| `SignalFrames` | `HandlersRunThrough`, `NoReads` | `HandlerOnTop` |
| `WaitersQueued` | and `SignalsHandled` | `WaitQueueExact` |
| `NoWaitInVain` | and `WaitsForChild` | `WaiterHasChild`: no wakeup of a parent is lost |
| `SomebodyRuns` | and `InitStays` | `SomebodyRunnable`: the scheduler does not search for ever |
| `FindsItsMemory`, `ResultsFindTheirCaller`, `ForkReturnsZero` | `Habits` | own text and stack; results and the 0 of fork to the right process |
| `SeesNoOtherMemory`, `WaitsForExit` | `Habits`, `NoReads` | nobody else's memory; wait ends with the exit of a child, whose pid it returns |
| `ControlIsKept` | `Habits`, `InitStays`, `Roomy` | `NoAbort` |

`Habits` is `HandlersRunThrough`, `SignalsHandled` and `ProgramsFirst`: the rules
`spawn`, `reap`, `ps`, `console` and `typist`, the last two if anybody reads. So
the rows with `Habits` but without `NoReads` are about systems whose shell reads
and goes on forking, with a user whose bytes miss the moments in which a process is
started or ended; a byte in such a moment loses control (`CoarseTableLost`). Of
the programs of `src/apps`, blink breaks `reap`, so these theorems are about
systems without it; `Programs` checks it with the kernel as it is.

* `CurrentRuns` is not inductive alone: a handler's return restores
  `prev_state`, so `RunningInv` adds that it is never RUNNING, which is what
  `kernel_raise` ensures by saving READY instead.
* `FrameInv` adds to the frame table what the mapping functions rely on:
  processes that hold frames are mapped outside the kernel, a free slot holds
  none (so that the interrupt can tell a stale reader), a handler's return never
  makes a slot free, and the current process exists.
* `SignalInv` says where a process in a handler stands and what was saved for
  it; `WaitInv` what blocked means under a handler as well. Both end with the
  first queued reader (`Quiet`), because from then on the interrupt may make a
  process READY that waits, which is why the theorems assume `NoReads`. What is
  left of them for the processes that have no transaction is `HeldInv`: they are
  in a handler only while they run, and blocked as long as the wait queue names
  them. `ParentInv` is what is left of the tree of processes. The theorems that
  allow reads rest on these two.
* `NoWaitInVain`: a child ends by `Exit` only, which finds its parent in the
  queue because the queue is exact. `SomebodyRuns` is a counting argument: if
  nobody could run everybody would wait, each would have a child that waits, and
  choosing one for each would map the waiting processes one to one to themselves
  without init, which is nobody's child.
* `MemoryInv` carries the six theorems about memory. `Layout` says where stacks
  are, with the child between fork and exec, which sees its own at its parent's
  address; `Mapped` what the page table holds in user mode and in each call;
  `CallInv` what a call knows of its caller when another process has become
  current; `ReadInv` what the queue of readers relies on when the interrupt maps
  a reader in the middle of anything. `ControlIsKept` goes through every copy,
  load and store and finds its section in `Mapped`; that a fork finds two frames
  (`Roomy`) is counted.

**Programs.** `OnlyBlinkdIsKilled` is `KillReachesBlinkd`, and `ProgramsUseKernel`
says that `ProgramsSpec` implements `Spec` of `Kernel`, so that its theorems
without rules hold of the real programs. Both assume `Sizes`: more than three
slots (`kernel.c` has them), a ring of more than one byte, and that nobody types the
name of a shell or of blinkd, which the model leaves out; the periods, the
descriptors, the commands, the frames and the rules are arbitrary.
`ProgramsInv` says of a kernel that is not lost that it is in one of two phases.
Until blinkd first sleeps (`Orderly`) every process has a part: 0 is init, 1 the
shell, 2 the command, 3 what blink has started (`Cast`). What makes that true
is the order in which they run (`Family`): a parent goes on from its fork to its
next stop, then its child is the next in the round and finds the 0 of fork,
which no result stored on the way has reached (`Misses`), then nobody else runs
until the child sleeps or ends. `Queues` adds that only the shell waits and reads,
so that whoever exits wakes the shell or nobody, `Stacks` where the saved r0 of
a process is, and `Notes` that the pid in the file is 3 and has been written before
process 3 runs. In this phase a blink that looks at the file finds nobody at pid 3.
From then on (`Serving`) process 3 sleeps, has its handler and never ends, and
as the file is not empty nobody forks another blinkd: one step is
checked against process 3 alone, whatever the other processes do.

**UART.** `NoOverrun`, `NoLostWakeup`, `NothingWithheld`: the transmit ring of any
size. `TxInv` says what a print has found out stays true while it goes on, because
the interrupt only ever decreases `tx_size`. `TypeCorrect`: indices stay in the
rings. `BytesInOrder` and `ReadsInOrder` state `SentInOrder` and `ReadInOrder`
for rings, prints and reads of any size; their invariants say which byte each
element of a ring holds, also while a print or a read is between two of its
loads and stores. `ReadsInOrder` assumes `RoomAhead`, a ring more than twice as
long as a typist gets ahead: `uart_read` leaves `rx_indx` as far on as the longest
read was, and the handler does not wrap where it stores.

**File system**, for every geometry.

* `FileTypes`: the work is in the arithmetic of block indices.
* `NoSharedClusters`: `LinkInv` is `NoCrossLinks`, types, and that cluster 0 is
  never free. The proof needs nothing about where chains lead: whatever cluster
  a new one is linked to, it was free, so nothing referred to it before and one
  thing does now.
* `OneEntryPerName`: `NameInv` adds that what close writes back has the name it
  looks for, or none.
* `FilesKeepApart`: `FilesApart`, for any programs and cards of fewer than 65534
  clusters. A chain is followed link by link, so what is true of it needs
  induction on how far; the induction principle cannot be instantiated by the
  provers, but that numbers do not descend for ever can be used for a set, and
  gives induction by a least counterexample (`AllNumbers`). With it: the
  recursive function in `Absolute` follows one link more with each number, two
  chains have no cluster in common, and a chain does not come back to a cluster.
* `SizesAreBacked`: `SizeBacked` for careful programs, also on a card that fails.
  `SizeInv` adds that a file is open once, its descriptor knows more than the
  directory, and that between two blocks of a call the file ends with the last
  of them; so a file that takes a new cluster consists of whole blocks, and the
  last of them is in the last cluster of its chain.
* `WritesFollowTheTable`: `StraysOnlyBehind` for careful programs, for every card
  and table: a block goes to a cluster the table has an entry for, never to the
  cluster 0xffff or to the reserved ones. A FAT16 table fills whole sectors and
  may have more entries than the card has clusters; the code takes a cluster from
  them (`fat.c:382`) and writes behind the data area, there and nowhere else.
* `FilesAreStored`: `StoreKept`, that the file system of careful programs
  implements `FileStore`, in files and calls of any length, but for the steps that
  `Promised` excludes (section 2). It assumes that the
  card works (a close whose directory entry is not written goes unnoticed, and the
  file is then as it was when it was opened: `fat_set_dir_entry`) and has fewer
  than 65534 clusters, 0xffff being the end of a chain. `StoreInv` adds to
  the invariant of `WritesFollowTheTable` what a call has done between two of its
  blocks, as long as nothing has strayed: it is at the end of its file, and what
  the file has grown by is the beginning of what is to be written (`CallStored`).
  A read of several blocks gathers its run by a scan of the chain: by induction
  on how far it has come, the scan ends at the end of the request when the chain
  goes on without a gap, and the blocks transferred are then those of the file
  (`TransferScans`, `RunTransferred`). The store is not told of a
  write before the call returns; then all its blocks become one `Write`, or a
  part of them when the card is full. The bytes of a file are one function of its
  position in the chain; that a write changes them in one block only, and those
  of other files not at all, is `NoSharedClusters` again.

**SD card**, for cards and calls of any size and any number of faults.

* `EmmcProofs.TypeCorrect` and `DeviceImplemented`: the driver, its host and its
  card implement `BlockDevice`. `IInv` has, besides types, where a call stands
  (`Shape`), which
  command may be pending (`Commands`: a command for data never meets a
  transfer), which place a block is for (`Places`: a block in the host's buffer,
  the place the host has come to and the driver's loop counter agree even when
  everything else has failed), and how far a transfer has come (`Exact`: until a
  call fails, blocks moved and the block count add up to the call). `Places`
  gives that blocks only land where they are meant to, `Exact` that success
  means success; every action is then a step of `BlockDevice` or is not seen.
* `HealthyCardWorks`: `HealthyWorks` for any number of polls. On top of `IInv`,
  `Health` says that as long as nothing has gone wrong the card is in a state in
  which it takes the command that is to come, the driver's count of polls is the
  card's own, and a transfer that is not over ends by itself. Every failing
  action of the driver then contradicts its own guard.
* `WritesComplete`: `WriteComplete`, if the driver is asked to write single
  blocks, as `fat.c` asks; of several blocks some may be missing after a failed
  call.

**Only model-checked**: everything under fairness (`NobodyStarves`, `WaiterRuns`,
`ReaderServed`, `PrintEnds`, `CallsReturn`, `PromptReturns`, `UpdateReaches`), which
is out of the provers' reach.

## 5. Not modelled, and the plan

Not modelled: `fat_init`'s geometry checks and the conversion of names; a restart;
reads and writes through closed descriptors; descriptor encodings and cache
maintenance; the ELF fields; the shell's line editing; `emmc_write_word` and the
image loader, which nothing calls; boot, GPIO, timers and power (single register
accesses without state); the system-call stubs (one instruction each); scripts
and documents.

Done: `Mmu`, `Kernel`, `Uart`, `Fat`, `Emmc` and `Programs` with their runs and
the theorems above. What is left, in this order:

1. Restart of `Fat`: the cluster table is read again and was never written back;
   which files survive. Then `fat_init`'s geometry and the conversion of names as
   operators checked against reference definitions.
2. `Fat` on top of `BlockDevice` in place of a card whose failed writes have no
   effect.
3. Logging: `uart_print` from inside interrupt handlers, where the wait for room
   cannot end.
