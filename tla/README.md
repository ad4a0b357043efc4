# W2kx86_x64 in TLA+

The repository translates Windows 2000 x86 images to x64 (`x86_x64.py`,
`x86x64/`), supplies the run-time the translated program needs
(`w2kseh64.py`, packed into `w2kshim64.dll` by `x86x64/shim/builder.py`), and
debugs the result with Win32 debug loops (`dbg_*.py`). This directory holds
TLA+ models of the parts where the order of steps matters, the TLC instances
that check them, and proofs for every value of the constants.

## 1. Inventory

| Component | State it keeps | Operations | What is hard | What makes it correct | Status |
|---|---|---|---|---|---|
| Critical-section wrappers (`w2kseh64.py` 557-756) | a table of 64 slots, guest address + host `CRITICAL_SECTION` | Init, Enter, Leave, Delete | unsynchronised scans and stores of many threads; full table; holes | implements the Win32 lock; no scan misses its slot | modelled |
| setjmp/longjmp (`w2kseh64.py` 87-204) | a jump buffer, and one process-wide slot for r12/r14/r15 | setjmp, longjmp, unwind | nested and concurrent setjmp share the slot | a longjmp restores what its setjmp saved | modelled |
| SEH dispatch (`w2kseh64.py` 206-555) | the guest registration chain at `gs:[0]`, try levels | vectored handler, `_except_handler3`, unlinking | scope tables read beyond their end; frames taken out by handler and epilogue | inner scopes first, search ends, chain stays the list of live frames | partly |
| Step-over tracer (`dbg_trace.py`) | one one-shot breakpoint, entry breakpoint, flags, module list, instruction ring, heap ledger | one handler per debug event | events of several threads answered on the context of one; callbacks; trap flag cleared by the CPU; return values read a step late | nothing planted is forgotten; the program is not lost; what ring and ledger miss is known | partly |
| Root-cause daemon (`dbg_root.py` 234-810) | probes, `_stuck` counters, exception count, ring, verdict | debug loop, jump-through, probes | a fault continued three times; one-shot probes; context of the main thread for everybody | probes reported before their instruction runs; every fault ends in a verdict | partly |
| Pass pipeline (`x86x64/pipeline/`) | cached order, artifact store, records | select, order, run, view access | cached order with another context; failing pass; cycles | every read after the writes that supply it | modelled |
| Linker core (`x86x64/core/`) | sections, symbols, layout, IAT | merge, lay out, bind, relocate, relink | order of objects; tails and alignment; repeated link | references lead to what they name; relinking is rebasing | partly |
| PE writer/reader (`x86x64/pe/`) | the image bytes | lay out, write, parse, fix up | `.reloc` is sized after the layout that places it | what `validate_pe` demands of an image | partly |
| Translator (`x86_x64.py`, `x86x64/translator`) | code buffers, fix-up lists, deferred pushes | one pass after another | x86 semantics | the translated code behaves as the source | not modelled |
| Import dispatch, ABI (`x86x64/dispatch`, `x86x64/abi`) | import table, frame layout | declare, lookup | slot arithmetic | each import one slot | not modelled |
| Syscall tables, SSDT (`x86x64/syscall`, `x86x64/kernel`) | two lookup tables | resolve | two resolvers that differ | both agree | not modelled |
| Analysis, encoding, shipped passes | none that outlives a call | pure functions | -- | -- | not modelled |
| Emulation layer (`ring0_emu.py`) | a Unicorn engine | emulate, hook | engine external | -- | not modelled |
| Crash monitor, debuggers (`dbg_fault.py`, `dbg_break.py`, `dbg_compare.py`) | as the daemon and the tracer | debug loop | as the daemon and the tracer | as the tracer | not modelled |
| Tests, tools, 1164 one-off debug scripts, CLI | -- | -- | -- | not part of the running system | not modelled |

How they interact: the translator emits code whose imports of the four
critical-section calls, of `setjmp`/`longjmp` and of the SEH handlers are bound
to `w2kshim64.dll`, so wrappers and SEH code run inside the translated process
on its own threads, and share with it only memory (the guest objects, the TEB,
the shim's `.data`). The debug loops run in another process and share with the
debuggee its memory (`ReadProcessMemory`, `WriteProcessMemory`), the context of
its main thread, and the stream of debug events. The pipeline runs the passes
of the new translator, which exchange data only through its artifact store and
end in the linker and the PE writer.

## 2. Modules

| Module | Kind | About |
|---|---|---|
| `CriticalSections` | abstract specification | what the Win32 lock promises: `ready`, `held` |
| `CritSecShim` | component | the four wrappers, instruction by instruction |
| `MCCritSec` + 3 cfg | instance | runs `critsec`, `critsec_overflow`, `critsec_race` |
| `CritSecProofs` | proofs | seven theorems about `CritSecShim` |
| `StepTracer` | component | the tracer's event handlers and the debuggee they drive |
| `HeapGuard` | composition | `StepTracer` with the heap of the debuggee and the ledger of `--heapguard` |
| `MCTracer` + 3 cfg | instance | runs `tracer_threads`, `tracer_foreign`, and one of section 6 |
| `MCHeapGuard` + 1 cfg | instance | run `tracer` |
| `TracerProofs` | proofs | eight theorems about `StepTracer` |
| `HeapGuardProofs` | proofs | three theorems about `HeapGuard`, on top of those about `StepTracer` |
| `SetJmp` | component | `_setjmp3`, `longjmp`, `_seh_longjmp_unwind` and the calls of the program around them |
| `MCSetJmp` + 2 cfg | instance | runs `setjmp`, `setjmp_nested` |
| `SetJmpProofs` | proofs | five theorems about `SetJmp` |
| `SehDispatch` | component | the vectored handler, `_except_handler3`, and the frames of the program |
| `MCSehDispatch` + 5 cfg | instance | run `seh`, and four of section 6 |
| `SehProofs` | proofs | four theorems about `SehDispatch` |
| `RootDaemon` | component | the root-cause daemon and the process it debugs |
| `MCRootDaemon` + 4 cfg | instance | run `root`, and three of section 6 |
| `RootDaemonProofs` | proofs | five theorems about `RootDaemon` |
| `Dataflow` | abstract specification | what the pipeline promises: a pass runs once, after what it needs |
| `Pipeline` | component | selection, order, runs, views |
| `MCPipeline` + 3 cfg | instance | run `pipeline`, and two of section 6 |
| `PipelineProofs` | proofs | eight theorems about `Pipeline` |
| `Linker` | component | `Linker.link` over object files, and a driver that links again |
| `PEWriter` | composition | `Linker` with the PE64 writer behind it |
| `MCObjects`, `MCPEWriter` + 5 cfg | instance | small object files; run `linker`, and four of section 6 |
| `LinkerProofs` | proofs | seven theorems about `Linker`, four about `PEWriter` |

Operators whose comment starts with "Mutant:" are deliberate bugs. They stand
before the definition they would replace, no action uses them, and each is
there to show that a property notices that bug.

### 2.1 CritSecShim

State: `key[s]` is the guest address in slot `s` (0 is `Free`), `owner`,
`depth` and `hostInit` are the host section beside it. Of a thread's registers
only rcx (`arg`), rsi (`idx`) and the label it is at (`pc`) matter. `life` and
`held` are what the callers believe. `seen` and `others` are history variables
for the proof; no guard reads them.

One action is one instruction that touches the table: the compare with rcx
(`InitCompare`, and `Match`/`Skip` in the scans), the compare with 0
(`InitTestEmpty`), the store of the key (`InitClaim`), the host call
(`InitHost`, `EnterHost`, `LeaveHost`, `DeleteHost`) and the store that frees a
slot (`DeleteClear`). The loop tail (`add rsi; dec; jnz`) works on registers and
belongs to the compare before it. Two compares of one slot are two steps, so
another thread may change the slot in between.

The callers are external. They keep the Win32 rules (initialise before use,
leave what one entered, delete what nobody uses). Two rules that Win32 does not
ask for are constants: `SerialInit` (calls of Init do not overlap) and
`WithinCapacity` (no more sections than slots). The runs and theorems say
which one they need; `critsec_race` shows that the first is needed, and
`critsec_overflow` what is left without the second.

### 2.2 StepTracer

The image is the addresses `1 .. MainSize`; a DLL is a pair `<<lo, hi>>` whose
code is at `lo`. Debuggee state: `rip`, `stack` (return addresses), `tf` and a
pending `event` per thread, `mem` (the first byte of each instruction: its own
or INT3), the mapped DLLs, and `boot`, how far the process start has come.
Tracer state has the names of the source: `bp_addr`, `bp_orig`, `entry_bp`,
`tracing`, `first_bp_seen`, `modules`, `ring`. `verdict` is why the loop ended.
`trail` is history: every instruction of the image that the main thread came to, the
entry and the first after each call out included, and whether it came there from
inside the image.

The code takes `base .. base + 0x200000` for the image (`dbg_trace.py` 480). The model
has the image only: it maps nothing into the room behind it.

The branches of the loop in `main()` are the actions from `CreateProcess` to
`RealException`, in the order of the code: the guards of a later branch repeat
the negated tests of the earlier ones. Each takes the event of one thread and
releases that thread (`ContinueDebugEvent`) or ends the loop. Context reads and
writes go to `Main` whichever thread raised the event, because the code uses
`pi.hThread` for all of them. `Timeout` is the clock test at the head of the
loop. The processor and the DLLs are external: jumps, calls, returns, DLL code
that calls back or unwinds (`Reentrant`), the loader, exceptions, exit. With the
trap flag on an instruction clears the flag and raises a single-step event, and
on an INT3 a thread stops one byte past it (`Skid`).

Left out of `StepTracer`: `--watch`, `--guardrva`, everything it prints, and
debuggee memory that cannot be read or written.

### 2.3 SetJmp

A VC6 jump buffer has room for rbp, rbx, rdi, rsi, RSP, RIP and `gs:[0]`; the shim
puts r13 into its last word, and r12, r14 and r15 into 24 bytes of its `.data`
that all buffers and threads share. `buf[b]` is a buffer (`depth` stands for RSP
and RIP, `link` for `gs:[0]`; rbx stands for rbp, rdi and rsi too, which are
treated alike), `slot` the shared bytes, `regs` the nonvolatile registers,
`frames` what each active function will restore, `chain` the list at `gs:[0]` as
the depths of the registered frames. `saved` and `alone` are history: what the
thread had when it set the buffer, and whether another setjmp ran since or beside
that one.

`Setjmp` is the stores to the buffer, which only its thread looks at; then each
store to the slot is a `SpillStore`. `Longjmp` is the loads from the buffer, then
each load from the slot is a `SpillLoad`, and `Jump` is the rest: `gs:[0]`, the
test for a buffer of zeros, the nonzero result, RSP and RIP. The order is that of
the code, so a buffer that was never set clears `gs:[0]` before it is trapped.
`Unwind` is the whole loop of `_seh_longjmp_unwind`, which touches nothing but its
thread's own list. The program (`Compute`, `Enter`, `Leave`, `Resume`) is external.
It keeps the rules of C: a buffer belongs to one thread and is jumped to while the
function that set it has not returned.

### 2.4 HeapGuard

Extends `StepTracer` by what `--heapguard` reads and keeps. `heap` is the heap of
the debuggee, `request` what the DLL call under way asks of it, `rax` the value of
the last call; `live_allocs`, `freed_blocks` and `pending_alloc` have the names of
the source. Each action is one or several of `StepTracer` and what they do to the
heap or the ledger beside it: `CallOut` makes a request, `ReturnIn` serves it,
`StepOut` is a single step outside the image with the names the code looks up
(`Record`), `StepIn` one inside it, which reads rax (`Capture`).

The heap is not changed by calls of the image only. `DllHeap` is a DLL that was called
for something else and allocates or frees by itself, which the tracer does not see;
`Refused` is an allocation or reallocation that returns NULL. The ledger is kept from
two moments that are not those of the call: the arguments are read at the first step
outside, the result one instruction after the return site, because the one-shot
breakpoint that ends the step-over only turns the trap flag on. That instruction may
change rax or leave the image. Two history variables say how far the ledger can be
right: `due` is the block of an allocation between its return and that step, `unseen`
the blocks of which the tracer missed something. A block leaves `unseen` when the image
frees it, or when an allocation of it is noted.

One thread and no callbacks: a limit of this module. Sizes are names: what the guard
does with them (`ptr + size`) is arithmetic on what the ledger holds. The bound of 128
freed blocks is above the number of blocks of the instance and left out.

### 2.5 SehDispatch

State: `stack` is the activations (function, address, try level, and the chain
each found when it was entered), `chain` is `gs:[0]`, `mode`, `frame`, `count`
and `scope` are the place in the dispatch and r14/rdx, r13 and r12 there.
`onStack` tells whether RSP points into the stack, `asked` and `spent` are
history. Scope tables are words of memory and are read as the code reads them, at
`table + 4 + 16*level`, whatever lies there.

`Visit` and `GiveUp` are the loop of the vectored handler, `PassOver`, `NoFilter`,
`CallFilter`, `Answer` and `NextFrame` the scope loop of `_except_handler3`,
`Execute` its `execute_handler`: it unlinks the frame, lowers the try level and
puts handler and RSP into the context. `Leave` is the epilogue of a translated
function. The restore that `_seh.py` injects (`"head"`) takes out the frame that `gs:[0]`
points to, and goes into every epilogue of the form it looks for: the test at line 602
compares the place of insertion with the restore, finds the pops there, and is always
true. So a function that restores the chain itself (`"own"`) may have both, and the run
has functions with the one, the other and both.

The program (`Move`, `Call`, `Leave`, `Fault`) is external: one thread, try levels
as the compiler sets them. Filters return and leave r8 and r10 alone. Not
modelled: `DllMain`, which installs the handler, and the checks that skip frames
which translated prologues never build (misaligned, off the stack, linked to
themselves). `SetJmp` models the same chain under longjmp; the two are not composed.

### 2.6 RootDaemon

Process: `rip`, `stack`, trap flag and pending event of each thread, and `planted`,
the instructions whose first byte is a probe's INT3. An instruction is one address;
a thread in `skid` has stopped one byte behind the first of its own. Daemon:
the fields of `RootCauseDaemon` under their names. The branches of `run()` are
`CreateProcess` to `OtherFault`; `ProbeBreak` is `_handle_probe_break`, `Recorded`
is `_record_step`, `MayJump` the test before a fault is jumped through, and
`Analyze` the site a verdict may name. As in the tracer, contexts are those of
`Main` whichever thread raised the event.

What a thread left inside an instruction would run is not modelled: it stops, and
`Transparent` counts it. Which frames of the ring look like a transfer through a
bad register is left open (`BadIndirect`). Disassembly, reports, execution on the
stack, `__chkstk` cliffs and the probe presets are left out.

Every thread runs, meets probes and faults, while the daemon reads and sets the context
of the main thread only. `ProbesAccounted`, `NeverHitIsTrue`, `MainWhole` and `FaultEnds`
hold nevertheless. `Transparent` and `HitOnce` do not: a probe that another thread runs
into throws the main thread to the address of the probe and leaves the other one byte
behind it (`dbg_root.py` 738). That is a bug, of the same cause as finding 2.

### 2.7 Dataflow and Pipeline

State: `decl` is what the passes declare (any member of `Catalog`), `passes`,
`order`, `edges` and `remaining` are the pipeline and the variables of its sort,
`store` says of every artifact who wrote it, `cause` is the exception of a failed
run. `seeded`, `got` and `done` are history of the run.

`NewContext` and `Build` are the caller, `Start` the head of `run()` with the test
for unsatisfied reads, `Place`, `Stuck` and `Sorted` the loop of `_toposort`, one
pass at a time, with the cycle that `_find_cycle` names. `Read`, `Write`, `Raise`
and `Return` are what a pass does with its view, in any order and number; what a
pass computes is external. `Reuse` says that callers keep one pipeline for several
contexts: `for_context` builds one for each, so the run has it `FALSE`, and section
6 shows what happens otherwise. A pipeline without passes is left out.

`Dataflow` is the promise: `done` grows by a pass whose `need` has run. The refinement
maps `need` to the dependencies of the context at hand, so it says that the cached
order, the seeds, the phases and the stop pass never let a pass run early or twice.

### 2.8 Linker and PEWriter

Object files are records of sections, symbols and relocations; bytes are sizes and
the fields that relocations fill. `MergeSection` and `MergeSymbol` take one section
or symbol, so every error leaves what had been merged until then; `ReserveIat`,
`PlaceSection`, `Bind` and `Apply` are the later parts of `link()`. `Relink` starts
again from the objects, at any base, whatever the last link left; `AddObject` adds
one in between. `Max16`, `Max32` and `Max64` stand for the largest values of fields of these
widths. The `more` of a symbol is its size and origin, which `define` compares too.

`Write` is `PE64Writer.build`: the headers, file ranges, the `.reloc` section that
is made up or replaced, the image size. Page, alignment and header sizes are small
numbers in the instance.

Left out: the bytes between fields, building an object (`patch`, `emit`), the
implicit symbols (`__image_base__`, `__image_end__`, `__section_start__`), header
fields and data directories, the readers and the fix-up scanner. `LayoutError`
cannot be raised: `ObjectFile.define` rules its cause out. An object is added once.

## 3. Runs

| Run | Question | Result |
|---|---|---|
| `critsec` | two threads, three sections, two slots, serial Inits, within capacity: do the wrappers implement the Win32 calls? | pass, 12442 states |
| `critsec_overflow` | more sections than slots: are the sections that found a slot still right, and does every scan end? | pass, 50668 states |
| `critsec_race` | overlapping Inits: is a section still exclusive? | violated: finding 1 |
| `tracer` | one thread, DLLs that do not call back but use the heap, `--apilog`, `--heapguard`: is the thread followed, and what do ring and ledger miss? | pass, 5536928 states |
| `tracer_threads` | two threads in the image, callbacks, unwinding: is what is planted accounted for, and the main thread kept whole? | pass, 887068 states |
| `tracer_foreign` | the same: is no thread left inside an instruction? | violated: finding 2 |
| `setjmp` | one thread, calls three deep, two buffers: does a longjmp come back as it left? | pass, 902758 states |
| `setjmp_nested` | the same: are all nonvolatile registers restored? | violated: finding 3 |
| `seh` | four functions, nested scopes, a foreign frame, all kinds of epilogue, two faults: is the search in order, and the chain free of dead frames? | pass, 1127047 states |
| `root` | two threads, two probes, faults in and outside the image, `--trace`: are probes reported in time, and do faults end? | pass, 526156 states |
| `pipeline` | every way to give three passes one of six declarations: do runs obey the declarations? | pass, 56586 states |
| `linker` | up to three of seven objects in any order, linked twice at three bases and written: are references and layout right? | pass, 92586 states |

`critsec` checks `MutualExclusion`, `MapCoherent` (sections and slots correspond
one to one), `ScanFinds` (a scan of a live section always has its slot ahead of it),
`HostAgrees` (callers and host agree on owner and depth) and `ImplementsWin32`
(refinement of `CriticalSections`, where `ready` is the live sections). With
overflow `MutualExclusion` is gone, because the section without a slot is not locked
at all; `critsec_overflow` checks `HostCallsLegal` (kernel32 is never called out of
order) and `ScansEnd`.

`tracer` checks `NeverLost` (after every answer the trap flag or a breakpoint brings the
main thread back when it is in or just below the image), `RingFaithful` (what the main
thread reached from inside the image is in the ring, in order and without a gap),
`LowCallCaught` (a bad call below every module is reported where it lands, before it
faults) and `LedgerErrsPerBlock` (inside the image the ledger is wrong only about a block
of which it missed something, and is right about it again from the next allocation or
free of that block that it sees, whatever became of others). The docstring and the
comments promise more of the last three, and section 6 has what the code does
instead:

* `RingFaithful` leaves out the instructions at which the image is entered. The trap
  flag reports the instruction *after* the one that ran, so the entry and each return
  site run without being recorded; the docstring (`dbg_trace.py` 9) says "record each
  instruction" (`EachRecorded`).
* `LowCallCaught` leaves out bad addresses above the base of a module: `modules` holds
  `(lo, hi)` and the test reads it as `(base, size)` (line 797). Of the two wild addresses
  of the run one is below the DLLs and one between them (`WildCaught`).
* `LedgerErrsPerBlock` leaves out the blocks in `unseen` (`LedgerFaithful`).

When `pefile` cannot say where the entry is (`entry_rva` is `Absent`; both cases are
initial states), tracing begins inside ntdll, whose first single step finds no return
address in the image and ends the tracing for good (`RunFree`). These properties are
therefore stated for a known entry.

`tracer_threads` checks `BytesAccounted` (every INT3 in the image is one the tracer knows
of, and it has the byte), `OneWayBack` (no unfired breakpoint is overwritten) and
`MainWhole` (the main thread is never left inside an instruction, although breakpoints
of every thread are answered on its context). The other thread is: `tracer_foreign`
shows it for `Transparent`. With callbacks `NeverLost`, `RingFaithful` and `LowCallCaught`
fail as well: a callback entered while the tracer runs free brings the main thread
into the image unwatched (section 6).

`setjmp` checks `FrameRestored` (the frame, `gs:[0]`, the registers of the buffer,
r13 among them, and a nonzero result), `AloneRestored` (r12, r14 and r15 too, if no
other setjmp wrote the slot), `ChainLive` (`gs:[0]` lists exactly the frames of
functions that have not returned, also after a longjmp that skipped their
epilogues) and `UnwindEnds` (the unwinding loop meets the frame it looks for).

`seh` checks `ChainSound` (`gs:[0]` never leads to the frame of a function that has
returned, or to one that has handled something or was cut off by a handler),
`AskedOnce` (no filter is asked twice about one exception), `SearchInOrder` (the search
goes through the frames of `gs:[0]` and their scopes from the inside out, leaves none
out, enters a handler only where the filter has answered 1 or there is none, and gives
up only when every filter has answered another thing) and `DispatchEnds`. What it
does not say is that the search should go on after the answer -1: that is
`ContinueEndsSearch` of section 6, as is `ChainComplete`, that live frames stay in.

`root` checks `ProbesAccounted` (the INT3s in the image are the probes not yet
reported, and the daemon has their bytes), `NeverHitIsTrue` (a probe that the exit
report calls never hit was executed by no thread), `MainWhole` (as for the tracer) and
`FaultEnds` (no thread stays for ever at a fault that no handler of the program takes,
though the faults of all threads are counted at the RIP of the main one). What becomes
of an exception that the program would have handled is `VerdictIsFatal` of section 6.

`pipeline` checks `ReadsAfterWrites`, `CycleIsReal` (the passes of a
`CyclicDependency` do depend on each other in a circle), `MissingMeansUnwritten` (a
missing artifact is the fault of a pass that returned without writing it, never of
the order), `NoStaleRead` (what a pass has read nobody replaces later in the run),
`ImplementsDataflow` and `RunsEnd`.

`linker` checks `BytesApart` (the bytes that objects put into one section do not overlap,
are in the order of the objects, and are aligned as asked), `AddressesHold` (what the
program reads at a field that holds an address is a place that some object, or the
driver, calls by that name, told from the objects and not from the symbol table),
`RebaseIsRelink` (the base relocations turn an image into the one that is linked at the
other base), `GlobalsUnique` (no link goes on with two different globals of one name,
whatever locals and imports come between them), and of the file `PETypeOK`, `RawKept`,
`EntriesApart` and `SectionsTile`, the rules of `validate.py`. The pool has zero-filled
tails in one section, and locals and globals of one name, so the stronger forms
of the first two and the fourth fail in it: `ContributionsApart` (tails too),
`ReferencesHold` (the meaning in the object of the reference) and `DuplicateIsGlobal` (a
link fails for a duplicate only if there is one); see section 6. Of the fields that
`AddressesHold` is not about, those relative to a section, `SectionRelative` says what they
should be, and the code gets it wrong.

### Bounds

* `critsec`: three sections over two slots, so slots are freed, leave a hole in
  front of a live one, and are taken again by another section; two threads are
  enough for every pairwise race; nesting to 2 tells a recursive lock from a
  plain one. The theorems lift this to any numbers.
* `tracer`: two instructions give an entry, which is a call site, and its return
  site; two DLLs give a module list that is complete or not, and a bad address
  between them; a stack of 2 lets a DLL call be made from a nested function, a ring
  of 2 overflows at once. Two blocks
  and two sizes let a freed address be handed out again with another size, and a
  reallocation move or stay.
* `tracer_threads`: a stack of 2 is the smallest on which a callback returns
  into a DLL and an unwind skips a frame; one DLL and a ring of 1 keep the state
  space small, and neither matters to the properties. `tracer_foreign` has the same
  bounds.
* `setjmp`: depth 3 lets a function with a frame in the chain call one that sets a
  buffer and one that jumps; two buffers let an inner setjmp overwrite the slot of
  an outer one; two register values tell restored from not restored. One thread:
  the interleavings of several threads on the slot are left to the theorems, which
  hold for any number.
* `seh`: of the four functions one has nested scopes and both restores, one a single
  scope and the injected restore only, one a foreign frame; four activations hold
  these and main; two faults let the second find a chain that a handler has cut;
  `MaxWalk` 2 (64 in the code) lets the walk run out before the chain does. The filters
  answer -1, 0 or 1.
* `root`: five instructions give probes on the entry and on its successor, one that
  raises an exception the program handles, an INT3 of the program, and one that
  raises another exception, besides those of a wild jump and of a DLL; two threads
  reach them in any order; `max_exc` 4 is past the third repetition that ends a fault;
  a ring of 1 overflows at once; a stack of 1 is enough for a return out of the image.
* `pipeline`: three passes are the fewest with a cycle and a pass outside it, six
  kinds of declaration hold readers, writers, one that edits in place, an optional
  read and an explicit order; a bare and a seeded context; two runs let one follow
  another that failed.
* `linker`: three objects give a reference over a third, two links give a relink
  after an addition. The seven objects of the pool refer to each other, put bytes into the
  same sections with different alignments, have imports, zero-filled tails in one
  section, two globals, two locals and a global of one name, base relocations on two
  pages, and a `.reloc` of their own. Not in it, because the code gets them wrong:
  section-relative fields, references to absolute symbols, sections of size 0, a section
  behind `.reloc` (section 6).

### Fairness

`CritSecShim!FairSpec` has weak fairness of `ScanStep(t)`: a thread the
scheduler runs executes its next instruction. It leaves out `EnterHost`, which
may block, and the callers, who may stop. `ScansEnd` says that a scan ends
whatever the others do. `SehDispatch!FairSpec` has weak fairness of `Dispatch`: the
two handlers are loops that nothing interrupts, and the filters they call return.
The program is not fair. `RootDaemon!FairSpec` has weak fairness of `Answer(t)`, as
the daemon answers each event it waits for, and of `Faulting(t)`: a thread that is
continued at a faulting instruction executes it again. Nothing else of the process
is fair, and the process may run on without ever faulting.
`Pipeline!FairSpec` has weak fairness of the sort, a loop without a wait, and of the
end of a pass; the caller need not start anything. `StepTracer` and `HeapGuard` claim
no liveness and have no fairness: a debuggee may stop at any time, and the tracer
has a timeout. Nor do `SetJmp`, whose stubs are straight-line code but for the
unwinding loop, and that is one action, and `Linker`, whose loops are over lists.

`CHECK_DEADLOCK FALSE` is set in all configurations: callers that deadlock on two
sections or are done, a verdict, a trapped longjmp, an ended process, and the bounds
on runs and links stop the models.

## 4. Theorems

Every invariant and every action property that a passing run checks is also a theorem
for all values of the constants; only the four liveness properties are not. What a
theorem assumes beyond the named assumptions of its module (`ConstAssumption`,
`HeapAssumption`, `LinkerAssumption`, `WriterAssumption`, which the runs evaluate) is in
its statement, as a condition on the constants. The instance of the run that checks
the property satisfies it, and where the code can leave the condition, section 6 or a
finding shows what happens there; the table at the end of this section pairs them.

No induction theorem of the library can be used (they take an operator), so where a
proof needs induction over numbers it takes the least counterexample of a set
(`LeastElement`, from the well-foundedness of `<`). Recursive functions are first
shown to exist and to be unique that way, and then unfolded.

### 4.1 `CritSecProofs`, for any finite set of sections and any threads, slots and nesting bound

* `Typing`: `Spec => []TypeOK`.
* `HostFaithful` and `HostNeverMisused`: with `SerialInit`, `[]HostAgrees` and
  `[]HostCallsLegal`, whether or not the table is full.
* `Exclusion`, `TableFaithful`, `NoScanMisses`, `Refinement`: with `SerialInit` and
  `WithinCapacity`, `MutualExclusion`, `MapCoherent`, `ScanFinds` and `ImplementsWin32`.

None of these properties is inductive. The invariant has three layers.
`Contract` is what the callers' rules mean for a thread inside a wrapper: whose
section is in which state, and that nobody else works on one being initialised
or deleted. `Table` says of every slot what host state goes with its key, that
keys are distinct, and where a scan stands relative to the slot it looks for.
`Room` needs the history variables: an Init that has passed the slots of `seen`
has passed only sections of `others`, of which there are fewer than slots, so by
counting (`FiniteSetTheorems`) it meets an empty slot. The refinement maps each
step to the Win32 call that takes effect in it (the host call or, for Init and
Delete, the step that makes the section live or stops it being live), or to a
stutter.

### 4.2 `TracerProofs` and `HeapGuardProofs`, for any image, DLLs, ring size and bounds

* `Typing`, `Accounted` (`[]BytesAccounted`), `OneWay` (`[]OneWayBack`) and `MainIsWhole`
  (`[]MainWhole`), for any threads, callbacks and unwinding included.
* `Unnoticed`, `Followed`, `RingHasInner` and `LowCallReported`: `[]Transparent`,
  `[]NeverLost`, `[]RingFaithful` and `[]LowCallCaught`, for one thread and DLLs that do
  not call back. `Transparent` needs that condition: finding 2.
* `TracerWithLedger`: `HeapSpec => Spec`, so all of these hold beside the ledger.
* `HeapTyping`, and `LedgerErrs`: `[]LedgerErrsPerBlock`, whatever the DLLs do with the
  heap, whatever is refused, and whatever becomes of rax.

The inductive invariant `IInv` of the first four adds that only the main thread is
ever stepped (`OnlyMain`), that nothing is stepped or planted beside the entry
breakpoint before it has fired (`Early`), and that the create event comes before
anything moves. `ArmBp` reads the byte it will restore, so it must never run while a
breakpoint is planted; it runs only in answer to a single step, and while the main
thread is watched there is no breakpoint.

For one thread `LInv` says where the way back is. `Underneath`: the thread is behind
an INT3 only while a breakpoint of the tracer is being reported. `Nested`: only the
outermost frame returns to a DLL. `Following`, from the entry on: in the image the
trap flag is on or the thread stands on the one-shot breakpoint, below it the
breakpoint is at the return address, and the ring has what was reached from inside but
for the place that is being reported. `GInv` adds the ledger: between a return and the
step behind it the ledger knows the size of the block that is `due` (`Owing`), and
during a call it is ahead of the heap by what the call will free (`Noted`); both say
nothing of the blocks in `unseen`.

### 4.3 `SetJmpProofs`, for any threads, buffers, register contents and depths

* `Typing`, `FramesRestored` (`[]FrameRestored`) and `AloneFaithful` (`[]AloneRestored`).
* `ChainsLive` (`[]ChainLive`) and `UnwindsEnd` (`[]UnwindEnds`).

The invariant says what is in flight. `BufferOK`: a live buffer holds what its
thread had and is no deeper than the stack. `StubOK` and `LoadedOK`: a thread in a
stub works on a buffer of its own and has loaded what its label says. `SlotOK`:
while a buffer is alone, no other thread is storing, and the slot holds its
registers as far as its own stores have come; `SpilledOK` is the same of the
loads. A step changes only what belongs to its thread, except the slot and
`alone`, so one lemma (`OthersKept`) covers the other threads for all ten actions.

Between an unwinding and the end of the longjmp after it `gs:[0]` is ahead of the
stack, so `ChainLive` is not inductive. The invariant `CInv` speaks of a list `C` that
exists in every state: it has the registered frames of the thread, innermost first,
each frame will restore the rest of `C` behind it, and each live buffer holds the
rest that begins at the frames that were there when it was set. Outside that window
`gs:[0]` is `C`. A return and a longjmp cut `C` the same way (`FullCut`).

### 4.4 `SehProofs`, for any functions, scope tables, filters, answers and bounds

* `Typing`, `FiltersAskedOnce` (`[]AskedOnce`), `ChainIsSound` (`[]ChainSound`) and
  `ScopesInOrder` (`SearchInOrder`), if every function that registers a frame has an
  epilogue that takes one out, its own, the injected one or both (`EpiloguesUnlink`).
  `TypeOK` says that `gs:[0]`, and the frame of a search, are never above the stack.

`AskedOnce` needs to know where the search stands: what has been asked lies in an
inner frame, or in the same frame at a higher scope (`AskedOK`), and links lead to
lower frames (`LinksOK`), so the search never comes by again (`SearchOK`).

`ChainSound` compares with a list that a recursive function collects; `LinkedFunction`
shows that the function exists, and `LinkedIn` that it collects live frames only, as no
link and not `gs:[0]` leads to one that is out (`NotSpent`). `Met` says that all scopes
before the place of the search have given another answer than 1, and that `count` is
the number of frames passed, so that running out of `MaxWalk` is seen as what it is.

### 4.5 `RootDaemonProofs`, for any image, probes, faults and options

* `Typing`, `Accounted` (`[]ProbesAccounted`) and `NeverHit` (`[]NeverHitIsTrue`), for
  any number of threads.
* `MainIsWhole` (`[]MainWhole`), for any number of threads, if no probe is on the
  breakpoint of the loader.
* `ReportedOnce` (`[]HitOnce`), for one thread and no probe on an INT3 of the program
  or of the loader (`Alone`).

`BootOK` says what is planted in each phase of the process start and that a create
event comes only once; `WholeOK` that the main thread stands inside an instruction only
while a probe of its own waits for its answer, by which time the breakpoint of ntdll
has been answered and cannot be confused with it.

### 4.6 `PipelineProofs`, for any passes, declarations and contexts

* `Typing`, and `NamedCycleIsReal`: `[]CycleIsReal`.
* `ReadsOrdered`, `MissingExplained`, `NoStale` and `Refinement`: `ReadsAfterWrites`,
  `MissingMeansUnwritten`, `NoStaleRead` and `ImplementsDataflow`, while a pipeline
  serves one context (`Reuse = FALSE`).
* `OrderDecided`: under the same condition the order is the one that phase and name
  decide (`Deterministic`), and `PureRuns`: with quirks off no quirk pass runs
  (`PureMeansNoQuirk`).

The invariant is `TypeOK`, `SortOK` (what the sort has placed needs only what was
placed before it), `OrderOK` (a kept order stays right, because the seeds of one
context only grow and so its dependencies only shrink) and `RunOK` (the passes that
are done are those before `at`). `MissOK` is added for a run that has failed. The
cycle is that of a walk from pass to pass that waits: each pass left waits for one
that is left, so the walk goes on, and by the pigeonhole principle it comes back
within as many steps as passes are left.

### 4.7 `LinkerProofs`, for any object files, alignments, symbols and bases

Of `Linker`:

* `Typing`, and `Placement`: `[]SectionsApart`: no two sections share an address or a
  byte of the file, zero-filled tails and sections of size 0 included.
* `Separation` (`[]BytesApart`) and `OneGlobal` (`[]GlobalsUnique`).
* `SlotSeparation` (`[]SlotsApart`): `ImportsBare`.
* `ReferencesLead` (`[]AddressesHold`): `FieldsAlone`.
* `LoaderMoves` (`[]RebaseIsRelink`): `AbsolutesUnused` and `FieldsAlone`.

Of the file that `PEWriter` makes:

* `WriterTyping` (`[]PETypeOK`): `AlignmentsNest`.
* `BytesKept` (`[]RawKept`): `BssEmpty`.
* `ImageApart` (`[]EntriesApart`): `RelocLast` and `HeadersFit`.
* `NoHoles` (`[]SectionsTile`): `AlignmentsSmall`, `NoEmpty` and `RelocLast`.

`IInv` is `InputsOK`, `SectionsOK`, `PartsOK` (each contribution lies within its
section, and of two the later begins where the bytes of the earlier have ended) and
`LayoutOK` (placed sections end before the next address and offset); `SlotsOK` is added
for the import slots. `NamesOK` says of every table entry and every field which
object, symbol and relocation it comes from (`Originates`, `FieldsCarried`). On it rest
`GlobalsOK` (globals that have been entered agree, and the table has them, or what took
their place) and `LinkedOK` (when values are computed, every section is placed and
every name bound). `PartsInOrder` is `BytesApart` between the objects.
`SectionsKnown` and `PlacedKnown` say the same of sizes: sections hold what some object
brought, they are placed in their order, each at the first page behind the last. The
offsets in the file are a sum over the sections before, which a recursive function
adds up.

`RebaseIsRelink` compares two links, of which only the result of the first is kept.
The proof writes a step of `link()` as a function `After` of a record of its variables,
in which the base does not occur (`MergeFollows` to `BindFollows`: the actions are that
function). `RebaseOK` says that `link()` has come to where it is from `Begin` by `After`,
and so had the link before when it made its result. Two such ways over the same
objects are the same step by step (`OnePath`), so both images are made of one record,
and it remains to compare `Value` at two bases (`ValueMoves`). To take the definitions
of `Linker` at another base and state, the proof instantiates the module with
parameters (`At`).

### 4.8 What the conditions exclude

| Condition | Says | Without it |
|---|---|---|
| `SerialInit` | calls of Init do not overlap | finding 1 |
| `WithinCapacity` | no more sections than slots | `critsec_overflow` checks what is left |
| `Threads = {Main}`, `~Reentrant` | one thread, no callbacks | finding 2, and section 6 |
| `EpiloguesUnlink` | who registers a frame has an epilogue that unlinks | a dead frame stays in the chain |
| `LoaderSite \notin Watch` | no probe on the breakpoint of the loader | the breakpoint of ntdll would be taken for the probe |
| `Alone` | one thread, no probe on an INT3 that is there already | section 6 |
| `Reuse = FALSE` | a pipeline serves one context | `MCPipelineReuse` |
| `ImportsBare` | `.idata` has no zero-filled tail | slots would lie in it, as contributions do in section 6 |
| `BssEmpty` | no bytes in a zero-filled section | the writer leaves them out of the file |
| `FieldsAlone` | no two relocations for one field | the later one wins |
| `AbsolutesUnused` | no reference to an absolute symbol | `MCLinkerAbsolute` |
| `AlignmentsNest`, `AlignmentsSmall` | alignments divide a page or are multiples of it; at most a page | sections off the page grid; pages between sections |
| `NoEmpty` | no section of size 0 | `MCPEWriterEmpty` |
| `RelocLast` | no section is placed behind `.reloc` | `MCPEWriterReloc` |
| `HeadersFit` | the header area holds the headers | headers over the first section |

### 4.9 Only model-checked

The liveness properties `ScansEnd`, `DispatchEnds`, `FaultEnds` and `RunsEnd`, which need
fairness and `ENABLED`, are out of reach of the prover.

## 5. Findings

1. `w2kseh64.py` 639-647: test and store of a slot are two plain instructions,
   so two overlapping Inits take the same slot, and Enter on the loser returns
   without locking.
2. `dbg_trace.py` 532 and 544: a breakpoint of the tracer is answered on the context of
   the main thread, whichever thread ran onto it. When it was another one, the main
   thread is thrown to the address of the breakpoint, and the other goes on one byte
   inside the instruction whose byte has been restored, where line 545 says "rewind
   past int3" and line 15 "we restore the byte, re-arm TF and continue". `dbg_root.py`
   738 answers probes in the same way.
3. `w2kseh64.py` 115-119: r12, r14 and r15 of all buffers share one slot, so after a
   setjmp in a called function a longjmp to the caller restores the wrong ones,
   where README line 55 promises register preservation.

## 6. Further deviations

What the code does other than its comments or its callers expect. Some of it shows under
the configuration of a passing run, others need a configuration of their own, which
isolates one premise. Every property named here is stated in the module, and fails when
TLC checks it.

To see one of the first kind, put the property in the place of the properties of the
configuration (and leave out its `SYMMETRY`):

| Configuration | Violated | What the code does |
|---|---|---|
| `MCHeapGuard` | `EachRecorded` | `dbg_trace.py` 528-562: the trap flag reports the instruction after the one that ran, so the entry and the instruction at every return site never come into the ring. Line 9 says "record each instruction". |
| `MCHeapGuard` | `WildCaught` | `dbg_trace.py` 797: `(lo, hi)` is read as `(base, size)`, so every address from the base of a module to nearly twice as far counts as part of it, and a call of an address between two DLLs is stepped over. |
| `MCHeapGuard` | `LedgerFaithful` | `dbg_trace.py` 630: rax is read one instruction after the return site, which may have changed it. 763: a reallocation that returns NULL leaves its block in use, and the ledger has already moved it to the freed ones. 629-638 and 756-771: what a DLL allocates or frees by itself is not seen. |
| `MCTracerThreads` | `NeverLost`, `RingFaithful`, `LowCallCaught` | `dbg_trace.py` 814-826: while a DLL runs free the only way back is the breakpoint at the return address, so what a callback runs in the image is not followed, and an unwinding that skips the return address ends the tracing. |
| `MCRootDaemon` | `Transparent`, `HitOnce` | `dbg_root.py` 738: as finding 2; the main thread, thrown to the address of the probe, or two threads in front of it, report it again. |
| `MCSehDispatch` | `ChainComplete` | `_seh.py` 575 and 602: the injected epilogue takes out the frame at `gs:[0]`. Where the function has restored the chain itself, or a handler has taken its frame out, that is the frame of a caller, which then handles nothing. |
| `MCPEWriter` | `ContributionsApart` | `linker.py` 204: a contribution starts at the length of the raw data, so a second `.bss` lies inside the tail of the first. |
| `MCPEWriter` | `ReferencesHold` | `linker.py` 231: all symbols go into one table, so a reference is bound to the local of another object; `symbols.py` 26 says a local is visible only in its own. |
| `MCPEWriter` | `DuplicateIsGlobal` | `symbols.py` 120: a global after a local of the same name in another object is a duplicate; the other way round the local replaces it. |

Those of the second kind violate their one property as they are: `tlc -config <cfg>
<module>`, where the module is the `MC` module of section 2 with that configuration.

| Configuration | Violated | What the code does |
|---|---|---|
| `MCTracerWild` | `WildOnlyIfUnmapped` | `dbg_trace.py` 797: without `--apilog` the module list stays empty, so the first call of a DLL is reported as a wild branch and ends the process. Line 794 says "if RIP is in NO loaded module". |
| `MCSehMoved` | `HandlerHasStack` | `w2kseh64.py` 333: RSP for a handler is loaded from rbp-0x18, but in the 32-byte record that is the handler field, and the translator keeps the saved RSP at rbp-0x28 (`_seh.py` 22), so the handler runs with RSP pointing into code. |
| `MCSehResume` | `ContinueEndsSearch` | `w2kseh64.py` 308: only the answer 1 is told from others, so -1 (continue execution) goes on searching, though the comment at 307 names all three. |
| `MCSehCallee` | `CallerCovers` | `w2kseh64.py` 287: a scope takes only a fault between its own begin and end, so one in a function that the try block calls ends the process; under VC6 the try level of the caller decides. |
| `MCSehSynth` | `MatchInTable` | `_seh.py` 213: a synthesized table has one record and a record of zeros, but the search starts at the try level of the frame; level 4 reads the words of later tables, matches every address and calls code as a filter. |
| `MCRootHandled` | `VerdictIsFatal` | `dbg_root.py` 785: a jumped fault is answered with `DBG_CONTINUE`, which runs the instruction again and asks no handler, so the third time is a verdict about an exception the program would have handled. Line 6 says that handled ones are jumped through. |
| `MCRootTail` | `FaultRecorded` | `dbg_root.py` 291: a frame outside the image is kept only behind another such frame, and the first is always one of the image, so a fault in a DLL leaves none. Line 290 says "Keep external tail". |
| `MCRootPlaceholder` | `HitOnce` | `dbg_root.py` 505: for a probe on an INT3 of the program the saved byte is an INT3 too, and the probe is reported without end. |
| `MCPipelineReuse` | `ReadsAfterWrites` | `pipeline.py` 123: the cached order is returned before the seeds are looked at, so in a later context without the seed a reader runs before its writer. |
| `MCPipelineInPlace` | `InPlaceRuns` | `pipeline.py` 141: two passes that each edit one artifact in place get an edge both ways, and the run fails for a cycle; `registry.py` 93 allows such passes. |
| `MCLinkerSections` | `SectionRelative` | `relocs.py` 127: `SECREL32` and `SECTION16` use the section that holds the field, where line 51 says the section of the target. |
| `MCLinkerAbsolute` | `RebaseIsRelink` | `linker.py` 354: a field with the value of an absolute symbol gets a base relocation and moves with the image. |
| `MCPEWriterEmpty` | `SectionsTile` | `linker.py` 265: a section of size 0 takes a page, so the next one begins a page too late. |
| `MCPEWriterReloc` | `EntriesApart` | `pe64.py` 132: the relocation directory replaces the bytes of an own `.reloc` after the layout is fixed; if it is larger, it overlaps the section behind. |

## 7. Not modelled

* The translator (`x86_x64.py`, `x86x64/translator`), most of the code, and of it mostly
  tables of byte patterns and their replacements. That one of them is right is a
  statement about the semantics of x86 and x64 machine code, which no finite model
  holds. The part with a state of its own, the deferred pushes that become the
  arguments of a call, is the candidate for a model.
* `ring0_emu.py`: its behaviour is that of the Unicorn engine, a whole processor.
* `dbg_fault.py` and `dbg_break.py`: the debug loop of the daemon, without anything
  planted in the process. `dbg_compare.py` is a second step-over tracer that writes the
  breakpoints of `StepTracer` out again, and is to be modelled next to it.
* `x86x64/dispatch`, `x86x64/abi`, `x86x64/syscall`, `x86x64/kernel`: constant tables, lookups and
  closed formulas without state; a model would copy them.
* `x86x64/analysis`, `x86x64/encoding`, `x86x64/passes`: pure functions over bytes.
* The PE readers and the fix-up scanner: parsing, without an order of steps.
* The command line, tests, tools and one-off debug scripts: not part of the running
  system.

## 8. What is left

1. The action properties behind the liveness ones: that each step of a scan, of a
   dispatch and of the sort lowers a bound.
2. `dbg_compare.py` as a second instance of the tracer's properties.
3. The deferred pushes of the translator: that each call takes the arguments pushed
   for it, across branches.
4. `SetJmp` and `SehDispatch` over one chain: a longjmp out of a handler.
5. `HeapGuard` with callbacks and several threads.
