# A verification of gothird in TLA+

gothird is Buzzard's FIRST and THIRD, a small Forth, in Go: a virtual machine with 17 codes
whose dictionary, return stack and registers lie in its own memory, a command that runs a
program on it, and a log that can be wrapped in scanners which mark the trace of a run. The
modules here model that code, TLC checks them on small instances, and TLAPS proves theorems
about seven of the components for every size, program and failure.

`PROJECT.json` names for every definition the lines of the source that it models, for every
property a mutant of the code that breaks it, and the hazards that the properties are for.

## The system

| component | source | state | operations | modelled by |
|---|---|---|---|---|
| Paged memory | `internal/mem/int.go`, `core.go` | page size, limit, three parallel slices of pages | Size, Load, LoadInto, Stor (findPage, allocPage, grow) | `FlatMem`, `PagedInts`; `PagedIntsProofs` |
| FIRST machine | `first.go` | memory, program counter, last word, stack, string storage | 17 codes, init, compileEntry, compileBuiltins, step, run | `FirstVM`, `FirstVMProofs`, `WellBracketedProofs` |
| Symbols | `core.go:113-143` | strings and their indices | string, symbol, symbolicate | in `FirstVM` |
| Input | `internal/fileinput/input.go`, `scan`, `readRune` | queue of streams, line being read, line before it | ReadRune, nextLine, nextIn | `FileInput`, `FileInputProofs` |
| Life of a run | `api.go`, `core.go`, `internal/panicerr`, `internal/flushio` | channel of Recover, outputs and their buffers, the pipe of WithInputWriter, the context | Run, run's loop, halt, write, flush, Close | `VMRun`, `VMRunProofs` |
| Log and its workers | `internal/logio/logger.go`, `scanner.go` | mutex, output, output before wrapping, buffer, exit code; per worker a pipe and the line kept back | Printf, ErrorIf, Errorf, Wrap, Unwrap, Close, ExitCode; Scan, Flush, Close | `TraceLog`, `TraceLogProofs`, `TraceLogLinesProofs` |
| main | `main.go` | none of its own | the order of the calls, the program before standard input | `MCTraceLog`, `MCVMRun`, `ThirdSession` |
| Options | `api.go` | none of their own | New, With… | by the states they leave behind |
| Fold marks | `scanner.go:107-242`, `main.go:139-189` | text, level and opened of the line kept back; the last place and return stack | openMark, closeMark, the two line scanners, Scan, Next, Flush, Close | `FoldMarks`, `FoldMarksProofs` |
| THIRD kernel | `third.go` | a program: words in the dictionary, variables in cells 3, 4, 5, 8 and 9 | `]`, `;`, branches, loops, `:`, execute, command, `[` | `ThirdKernel`, `ThirdSession` |
| Trace of the machine | `first.go:504-598` | none; reads the machine | checkFlag, wordOf, codeName, rstack | `TracedVM`, `WellBracketedProofs` |
| Dump | `dumper.go` | list of words, place in it | scanWords, dumpMem, formatMem, formatCode | `Dumper` |
| Line writer, rune conversion, test generator | `internal/logio/writer.go`, `internal/runeio`, `scripts` | | | not modelled |

How they interact. `main` makes a machine with options, which store layout cells in the
memory, push streams on the input's queue and stack the outputs. `VM.Run` runs the machine
on a goroutine of its own and waits for what it sends on a channel. Each step of the machine
loads and stores in the paged memory; `scan` and `readRune` flush the outputs and then read
runes from the input; errors are panics with a `haltError`, made in `halt` after a flush. The
log is written to by the machine (trace and debug output) and by `main`; wrapped, its output
is a pipe to a worker goroutine that marks lines and writes them to what was the output
before. `main` unwraps the log, dumps the machine and exits in deferred calls.

What is hard about it, and what makes each part correct:

- **Memory.** Stores in any order leave holes; a page is cut to fit between its neighbours;
  a binary search depends on that; addresses are unsigned 64-bit numbers compared as signed
  ones in places; `PageSize` may be set between calls. Correct: it is one flat array.
- **Machine.** Everything shares one memory without protection: registers in cells 0, 1, 10
  and 11, the return stack right below the dictionary, headers next to code. Methods halt in
  the middle. `immediate` moves the last cell whatever it is. The main loop calls itself.
  Searches and `compileit` loop without a bound. Correct: well bracketed programs keep their
  return stack and dictionary; arbitrary ones can do damage through `!` only.
- **Input.** The end of a stream looks like a rune 0; a word is logged with its line after
  the rune behind it was read. Correct: nothing is lost or joined, the location is true.
- **Run.** Three goroutines, outputs that fail or panic, a context that is looked at only
  between steps, a deferred send that races with the receive. Correct: no error means that
  everything was written; the machine is still when Run has returned.
- **Log.** Workers keep lines back, fail, and are closed while the log's mutex is held.
  Correct: lines in order, none lost, errors shown, no deadlock, no goroutine left behind.
- **Fold marks.** A mark put on the line kept back may be taken back by cutting the line;
  a failed write is tried again. Correct: nothing but marks changes, folds are closed.
- **THIRD.** Each word is compiled by the ones before it; control words move frames of the
  return stack, on which their own helpers stand too. Correct: what is typed at the prompt is
  computed, and nothing piles up.
- **Trace and dump.** Both follow the dictionary without a bound, in whatever memory a
  program left. Correct: for a dictionary in order, they tell the truth and end.

## The modules

An operator marked *mutant* stands right before the definition it varies. It has the same
parameters and is that definition with a plausible bug in it. Nothing uses it, except that
the property it is listed with in `PROJECT.json` is violated when it takes the definition's
place.

**`FlatMem`** is the abstract specification of the memory: one array over all addresses, a
call that takes effect when it is made, and its answer. **`PagedInts`** is the code, one
action per loop iteration: `EnterLoad`, `EnterLoadInto` and `EnterStor` are what the three
methods do before `findPage`; `FindStep` is one turn of its binary search; `LoadPage`,
`LoadIntoPage` and `StorPage` are one turn of the walks over the pages, the last with
`allocPage` in it. Addresses are unsigned modulo `2 * Half`, and `Signed` is the difference
of two of them as the code's `int` has it. `FlatView` maps the pages to the array: what a
`Stor` under way has still to copy counts as stored, since nobody can look before it returns.

**`FirstVM`** has one action per primitive and one per loop iteration of the methods that
loop or may halt half way. Such a method leaves in `todo` what is still to be done; while
`todo` is not empty nothing else can happen, and when a part halts, what came before it
remains. `compileHeader`, for example, is four compiles and the assignment of `last`.
Memory is flat here, which is what `PagedInts` is shown to provide, with the code's
comparison to the limit and its wrap at the last address. The input is a sequence of sets:
`Input[i]` holds the tokens that may come i-th; after any of them the input may end. Which
tokens are literals, and their words, is a given function: the conversions of `runeio` and
`strconv` are outside of the module. The variables `form`, `calls` and `defs` are history
that the code does not have: where in a definition the program is, the return addresses
that were pushed and not popped, and the words in their order of definition. `form` limits
the programs to well bracketed ones when `Disciplined` is true: ":" only outside of a
definition, `immediate` only right after the name.

**`TracedVM`** extends `FirstVM` with the trace that `step` logs before each step while the
flag below the return stack is odd. `WordOf` is the walk of `wordOf`, `CodeName` and
`RStackFault` are what the other two read; `TraceHalts` is the step that never happens because
one of them halted. `highest` is a history of stores, from which `Dumper` has the memory's
`Size`. **`Dumper`** is the dump of a halted machine as functions of its state: `ScanWords`
follows the dictionary down, `DumpMem` goes up and shows, for each word it meets, the
addresses of its codes.

**`ThirdKernel`** is the text of the kernel as the tokens its machine asks for, in the groups
of the source, without comments and the words that nothing uses. **`ThirdSession`** runs it as
`main` does, on `FirstVM`, followed by `[` and a session. `Apply` says what the words of a
session mean; `SessionComputes` compares the machine at each prompt with that. Words of the
kernel are no operators here: the machine compiles and runs them, code by code.

**`FileInput`** is `ReadRune` as a function of the input's state and `scan` and `readRune`
as one action per rune they read. A rune is 0, a line feed, another blank or printable.
`heard` records the words and keys with the place they began at, `logged` the messages of
`scan`'s deferred log, as they are when the trace is on: one for each word, and one without a
word when `scan` halts, whether its read ended or failed or the flush before it did.

**`VMRun`** sees a program only by what it does to the world: compute, loop, echo, read, halt,
panic. A step need not end: `lookup`, `compileit` and `wordOf` follow a chain in memory, of
which `!` can make a circle, and none of them looks at the context (`Loop`). Nor need a write
to an output return (`Blocks`), nor the input writer write on (`WriterStalls`).
`writeFlushers` is in `Write` and `Flush`: a write stops at the first output that
fails, a flush goes on to all of them unless one panics. `Return`, `RecoverPanic`,
`RecoverExit` and `CloseChannel` are the end of the goroutine in `panicerr.Recover`, with
its deferred calls in the order in which they run.

**`TraceLog`** models any number of goroutines that call the log, with the steps of a call
listed in `todo` (`Body` gives them, a part that calls another puts its steps in front) and
the mutex held from `Lock` to `Unlock`. A worker goes through "scan", "read", the flushes of
the line kept back, "close" and "send". A write to a pipe blocks until it was read or an
end of the pipe is closed.

**`FoldMarks`** is one worker alone: its buffer with the marks, `markScanner` and the two line
scanners, over lines whose kind says which of the patterns matches. `ms` is the state of the
scanner as one record, and what the methods do are functions of it with the outcome of a
write as an argument. In `TraceLog`, where the worker is a goroutine, which lines are marked
is a free choice; here the marks are the subject.

**Composition.** `ThirdSession` composes the kernel with the machine, `Dumper` and `TracedVM`
the trace and dump with it. `FirstVM` uses what `PagedInts` promises, `FlatMem`; `VMRun`'s program is
any sequence of what steps of `FirstVM` do to the world, and its reads are those of
`FileInput`, whose reads always return. Each of the four abstracts from the other's state.
`PagedInts!ImplementsFlatMem` is the refinement that is checked, and proved.

## The runs

| run | configuration | shows | states |
|---|---|---|---|
| `paged` | `MCPagedInts` | over the whole address space, with holes, pages of one size (3 cells, or the default chosen by the first store) or of a size that is halved between calls are a flat array; no pages overlap, and every call returns | 814,204 |
| `paged_grow` | `MCPagedIntsGrow` | under a limit, the page size also grows, to no multiple of the old one as well, while no hole lies between pages; Size is past every cell in use, and the limit holds | 266,625 |
| `vm_define` | `MCFirstVM` | well bracketed programs that define, redefine and call a word, which may call itself or read, traced or not, up to and over the end of the return stack: dictionary and return stack keep their shape, names mean their latest definition, finished words never change, only code is run, the machine ends, and its trace and dump tell the truth | 202,570 |
| `vm_any` | `MCFirstVMAny` | arbitrary programs, which overwrite the registers of the machine and may turn its trace on, with layouts that `init` accepts or refuses, under a limit: what holds of every program | 1,359,701 |
| `third` | `MCThird` | the kernel compiles itself; three words of arithmetic at the prompt, a word with a loop that is compiled and called, and back: the stack is what the words mean, and return stack and dictionary are as they were | 107,525 |
| `marks` | `MCFoldMarks` | up to six lines of two places and three return stacks, with marks of their own or none, one scanner or both, and an output that may fail | 1,530,795 |
| `input` | `MCFileInput` | words and keys in any alternation from up to three streams, with an output whose flush may fail: nothing is lost or joined, and what `scan` logs is true, also when it halts | 780,815 |
| `run` | `MCVMRun` | a run with three outputs that may fail, panic or block at any time, steps that may never end, a context that may expire, an input that may end, break or stay silent | 1,440,816 |
| `log` | `MCTraceLog` | two goroutines log while one of them wraps the log twice and unwraps it, with an output and workers that may fail | 27,298 |

Three runs show where the code does something else than its comments say:

| run | violated | what happens |
|---|---|---|
| `run_limit` | `TimeLimitHolds` | the time limit is looked at between steps only, so a machine that waits for its input, for a write to an output or for the end of a step that has none outlives it |
| `log_main` | `ExitTellsErrors` | `defer os.Exit(log.ExitCode())` takes the exit code when it is deferred, before anything was logged |
| `third_colon` | `ColonInvokesBracket` | the `dec` in the kernel's `:` drops its own frame and returns for `:`, which never gets to `]`; at the prompt the body of a definition is then executed instead of compiled |

### Bounds

- Memory: 16 addresses, pages of 2 to 4 cells. Stores of up to 5 (in `paged_grow` 7) cells
  cover three or more pages, and start and end inside and at the ends of pages; the addresses
  leave holes of less than, exactly and more than a page; 3 does not divide 16. In
  `paged_grow` all stores overlap or adjoin, and the limit of 7 lies inside a page and below
  the end of the longest store. The requests of both runs stay below the last address
  and no load lies exactly half the address space above a page,
  see below. `SizeIsPastEverything` is checked under the limit only: the size of a memory
  whose last page ends at the end of the address space is 0.
- Machine: 128 words (`Half = 64`), a return stack of 4 to 15 cells and a dictionary above it.
  The literal of `vm_define` is -1, which is no code of a primitive and no address of a word,
  so a machine that took literal data for code would be seen. The builtins take about 70
  cells, so programs of up to 10 tokens fit, and `init`, `compileEntry` and `compileBuiltins`
  are run in full unless the input ends before. In `vm_define` the fixed tokens begin a
  definition of `f`, the six that follow are free, and two calls come last: that is a
  definition that is left open, a body with a call of itself or a read and a call of it, or a
  word that is redefined. Of its two return stacks, the one of 4 cells runs out within the
  tokens and the one of 15 holds them; and since the flags of the trace are the cell below the
  stack, where `memBase` is, the second machine is traced and the first is not. In `vm_any`
  three tokens of every kind make up an immediate word, followed by two that may run it.
  `Limit = 104` is above the builtins of a machine with its dictionary at 24, and below what
  its programs compile; with the default layout (dictionary at 64) it is met by `init` and the
  builtins. `MostCells = 64` stands for the slice that Go cannot make.
- THIRD: 760 words hold the kernel and what a session defines. The traces are 30,000 states
  long, since every code of the kernel's own compilation is a step. Three free words between
  the prompt and the definition reach every depth of the stack from underflow to three; `f`,
  a loop, is called with what they left, and what it leaves may be subtracted below zero.
- Marks: six lines suffice for two changes of place with lines between them, and for a fold
  to be closed, opened and taken back. Any write may fail.
- Input: streams of up to three runes over two letters, a line feed, a blank and 0, so that
  a word, a line and a stream can end in each order; a second stream of up to two, a third.
  A stream of a queue may end with an error, which the reader must not pass.
  The flush before a read may fail at any time.
- Run: buffers of one rune, three echoes, so that every output has been through a full
  buffer; the kinds of outputs alternate, since a write stops at the first that fails. The
  writer of the pipe makes one write, which is followed by its end.
- Log: two clients with three calls between `Wrap` and `Exit`, two workers, one inside of
  the other. A worker keeps one line back; two lines are enough to hold one and flush one.

`CHECK_DEADLOCK FALSE` is set where the program ends: a machine that has halted, a reader
that has met the end, a run that has returned, a program that has exited. That these ends are
reached, and that nothing else stops for ever, is said by `ProgramsEnd`, `InputIsConsumed`,
`ExpiredMachineReturns`, `CallsReturn` and `WorkersEnd`. The memory's
runs check for deadlock.

### Fairness

- `PagedInts`: weak fairness of `Step`, the body of a call, in `paged`. A call has no
  wait in it. The caller need not call.
- `FirstVM` (with its trace in `vm_define`) and `FileInput`: weak fairness of `Next`. The
  machine is a loop on one goroutine. Its input comes or ends; a read that never returns is
  the subject of `VMRun`.
- `VMRun`: weak fairness of the machine's goroutine, of the receive and of the goroutine of
  the input writer, since the Go scheduler runs every goroutine that can run. None for the
  world: the context need not expire, standard input may stay silent, the caller need not
  close the machine (`main` never does), outputs need not fail. Nor does this fairness end a
  step or a write: whether a step is `Compute` or `Loop`, a write returns or blocks, and the
  input writer stalls is a free choice each time, and what loops, blocks or stalls stays so.
  `ExpiredMachineReturns` names these waits and says that there are no others.
- `TraceLog`: weak fairness of every client and worker. Weak fairness of a client gives it
  the mutex, since the other clients make finitely many calls. Go's mutexes starve nobody.

## The proofs

Each module of theorems proves about one component, for every value of its constants that
meets the assumptions stated beside them; TLC evaluates those assumptions in each run. Every
theorem is of the same shape: an invariant that is stronger than the property and inductive,
a lemma for each action, and a last step that puts them together.

### `FirstVMProofs`

For every number of words above 32, every limit, page size, layout and finite input, well
bracketed or not:

- `TypeCorrect`: words stay words, the registers stay words, and what methods leave to do is
  always well formed, through every primitive and every halt in the middle of a method.
- `StoresStayInFootprint`: every step but that of `!` changes cells only in its footprint:
  the registers `h` and `r`, the next cell of the return stack if that lies between its
  bounds, the ends of the dictionary, and the code field of the word under definition.

The assumptions are `WordAssumption` (more than 32 words), `LimitAssumption` (a limit is
above cell 16, so that the registers and what follows them can be stored to),
`PageSizeAssumption`, `PresetsAssumption` (the layout cells are words) and `InputAssumption`
(there are fewer tokens than words; literals and runes are words).

The inductive invariant is `IInv`: `TypeOK`, no name twice, and that there are no more
strings than tokens were read, `Len(strings) <= pos /\ pos <= Len(Input)`. `TypeOK` alone is
not inductive: `compileHeader` compiles the index of a name, which is a word only if the
storage is not longer than there are words, and that follows from the number of tokens.
`NextKeepsIInv` has one step per group of actions, `StartType`, `MoreType`,
`NameActionsKeepIInv`, `CodeStepType` and `StackStepType`; under each, one per action. The
lemmas before them say what the methods do: `StoredType`, `CallType`, `ExitType`,
`CompileType`, `ImmediateType`, `HeaderType`, `BuiltinType`. The footprint theorem needs
`TypeOK` only for the addresses to be words and has one step per method that stores.

### `WellBracketedProofs`

For every well bracketed program that does not use `!`, of any length, in any layout that
keeps its parts apart, under any limit:

- `ReturnsAreKept`: the return stack in memory is exactly the calls that have not returned.
- `DictionaryKept`: the dictionary in memory is the list of what was defined, in descending
  addresses, so that every search in it ends.
- `LatestIsFound`: a look up that finds a word finds the latest of that name.
- `CodeIsRun`: what is run next, and all that will be returned to, is a primitive or a call.
- `LoopIsNeverLeft`: the program never exits by returning from its main loop, never pops more
  than it pushed and never panics.
- `FinishedWordsStay`, an action property: what was compiled is never changed again, but for
  the code field of the latest word, while `immediate` or a builtin's code is put there. So an
  `immediate` never moves the code of a word, be it the latest.
- `TraceIsTold`: what the trace names for the machine's place and for a call is the latest word
  that is defined below it, and its search goes past no limit and round in no circle.
- `TraceChangesNothing`: a traced machine does nothing that it would not do without, so all of
  the above holds of it too.

The hypothesis is `WellBracketed`, in `FirstVM`. The input is `Disciplined` (":" outside of a
definition only, `immediate` right after the name) and starts with the thirteen names of the
builtins, the first three of which are told from all others; none of the thirteen is defined
again, and no token is the empty string. A program compiles only words that it names, so
`OpSet \notin UsedOps` says that `!` is not in it: with it, a program may store anywhere, and
none of this is sure. `LayoutFits` is that the cells of the machine, the return stack and the
dictionary do not overlap, that codes are no addresses of words, that `r` is not preset, and
that the words hold what the input compiles, or the limit ends it first. The default layout
does all that. TLC evaluates the hypothesis on the instance of `vm_define`
(`ProgramsAssumption` of `MCFirstVM`), and `RStackFits` with it, so programs that satisfy it
exist, and those runs are some of them. THIRD itself uses `!` and is outside of it.
`LoopIsNeverLeft` has the further hypothesis that the program does not divide, since a
division by 0 is a panic.

The invariant is `IInv /\ Behaves`. A machine that runs is `Booting` or `Working`. While it
boots it is at one of the stages of `init`: `Entering` (compileEntry is under way), `Between`
two builtins, or `Making` one, each with the cells that are made by then and what is left to
do. When it works, `Base` is the layout with the return stack, `Words` the dictionary, in
order and with its names, and the main loop. The rest is about code. It exists for some set
`C` of cells that is closed (`CellOk`): each is a primitive or a call of a word, and the next
belongs to `C` too unless it was `exit`; and the machine is in one of the phases of what it
does with it: `Idle`, `LookingUp`, `AtHead`, a literal, `Calling`, `Copying`, `Returning` or
`Defining`. The set makes the proof possible without an induction over a word's cells: it says
that code is followed by code, not how long a word is. The word that is being defined is the
one part of the code that is not closed; it ends at `h`, and `Defining` says what of it is
there. None of the first six properties is inductive without this: that a return address
survives needs that no header is compiled at it, that needs `h` above the stack, and that a
call pushes an address of code needs that what is run is code.

The two theorems about the trace have the further hypothesis `RStackFits`: the cells between
`retBase` and `memBase` are no more than the longest slice there can be, since `rstack` copies
them. Their invariant, `TracedInv`, adds two facts. `LayoutInv`: the two cells of the layout
still hold what the options or the defaults gave, so that the copy is as long as assumed. And
`InMemory`: the dictionary ends within the limit, except before a cell is compiled there, so
that every word is where it can be read. `wordOf`'s loop is a recursive function of the word
it is at and the turns it took. That a function exists which satisfies such an equation has to
be shown; `SearchExists` makes it one more turn at a time. The induction is `AllNumbers`, over
a set of numbers, which follows from the well-foundedness of their order. By the same one,
`WordOfIsLatest` shows that the search ends at the latest word below the address, since the
dictionary is the list of the definitions.

The second half of `FirstVMProofs` has the lemmas for each step of a machine that works,
`WellBracketedProofs` those of a machine that boots, and the theorems.

### `PagedIntsProofs`

For every width of an address, limit, set of page sizes and set of requests:

- `TypesHold`: the three slices keep one length, every page is as long as `sizes` says, and
  no index is out of its range. It needs no hypothesis.
- `LimitIsKept`: a `Load`, `LoadInto` or `Stor` that asks for a cell past the limit is
  answered with an error. Hypothesis `Proper`: a request ends below the last address (and a
  load brings no values). It is needed, since the code adds the length to the
  address before it compares, and the sum wraps around.
- `SizeIsPast`: `Size` is past every cell that holds something, even when the page size grows
  and pages overlap. Hypothesis `Limited`: there is a limit with room for a page above it.
  Without one, a page may end at the end of the address space, where `Size` is 0.
- `PagesNeverOverlap`: pages are in the order of their addresses and none overlaps the next.
  Hypothesis `DividingResizes`: a page size is only ever replaced by a divisor of it. The
  program sets it once; after it grew, `allocPage` makes pages that overlap.
- `PagesAreFlat`: `PagedInts` implements `FlatMem`: the initial state maps to an initial
  state, and each step of a call to `Call`, `Return` or a stutter. Hypotheses
  `DividingResizes`, `Proper` and `SmallDistances`: pages are no longer than half of the
  address space, and `LoadInto` stays in its lower half. The last is what `int` differences
  need; a page and a load exactly half the space apart are taken for neighbours in the wrong
  order. The run `paged` goes further than the theorem in that its loads also lie in the upper
  half, none of them exactly half the space above a page.

`TypeInv` adds to the types how far a call has come: its page exists or is the next one, its
address lies between that of the request and its end. `DisjointInv` is three facts that hold
only together. `AlignedPages`: every page starts and ends at a multiple of the page size, as
it is now. `OrderedPages` is the property. `SearchInv`: the pages that the binary search has
ruled out lie on the right side of the address, and the walk has passed only pages behind it.
A new page is cut at the next one, and is in order only if it also starts past the one before;
that is alignment, and that the next and the one before are those of the address is the
search. `ContentInv` says what of a call is done: the buffer of a `LoadInto` holds the cells
up to the address that it has reached. The refinement maps a `Stor` to the step that makes the
call, so the view counts what is still to be copied; `StorPage` is then a stutter, as the
lemmas about `ViewOf` show for pages that were there, were cut and are new.

### `FileInputProofs`

For every queue of streams, of any number and length, with the line feeds, blanks, zeros and
ends that they have, in every alternation of words and keys:

- `NothingIsMisheard`: what `scan` and `readRune` return are pieces of streams, in order, none
  over the end of a stream; what nobody hears is blank.
- `NothingIsLeftOver`: the machine sees the end only after the last rune of the last stream.
- `LoggedIsTheWordsLine`, an action property: the message that `scan` logs for a word names
  it, with the line that it is on, which holds it. When `scan` halts its message names no word,
  and the line is the one where the read failed, or one of the last stream at the end.

The inductive invariant is `TypeInv`, which says where the input stands and that the number
of its line is that of the line feeds before it; `WordInv`, that a word under way ends where
the input stands and ends the line being read; `EndInv`; and `Heard`, the parts of
`HeardIsTheText`. The logged line needs all of `WordInv`: the rune behind the word has been
read when it is logged, and has begun a new line if it was a line feed.

### `VMRunProofs`

For every list of outputs, buffer size, program and writer of the pipe, with outputs that
fail, panic or block at any time and steps that may never end:

- `TypesHold`: the channel of `Recover` holds one value at most, a buffer no more than its
  size, and no output gets more than was echoed.
- `MachineStaysStill`: when `Run` has returned, the goroutine of its machine has only the last
  steps of `Recover` left: the caller may look at the machine.
- `OutcomeIsReported`: `Run` returns how its machine ended, although the deferred recovery
  tries to send as well.
- `NilIsHonest`: a `Run` that returns nil has written all that was echoed to every output,
  unless one panics.
- `HaltWritesAll`: however a program halts, what it echoed is written if the outputs work.

The invariant `IInv` follows the machine: `SinksInv` (an error of a buffer stays), `OutputInv`
(while the machine runs nothing is lost or repeated, it reads with empty buffers, and what it
halts with says whether a write failed), `ValInv` (how it ends) and `ChannelInv` (until the
caller takes it, the channel holds the machine's own value, so the second send finds it full).

### `TraceLogProofs`

For any goroutines that log, any calls that they make in any order, any number of workers,
each inside of the one before, and failures anywhere:

- `TypesHold`: one client at a time, no wrapper without an output to go back to, and no data
  in a pipe whose writer has gone.
- `NobodyIsLeftBehind`: when nobody is in a call and the log is not wrapped, every worker
  that was started has ended.
- `FailuresTold`: if a worker has failed, the exit code says so by then.

The assumptions are `ScriptAssumption`, `WorkersAssumption` (workers are distinct) and
`NamesAssumption` (clients, workers and the log's output are different things). `Types` holds
the shapes of the variables and of what is left of a call: `WellFormed` says which step may
follow which. `Chain` is the heart: workers start and end in the order of their numbers
(`OrderOfWorkers`), each writes to the one before until that has gone (`TargetInv`), there are
workers only while the log is wrapped or being unwrapped (`LiveInv`), the log writes to the
last of them (`OutInv`), which is the one that is closed (`ClosingInv`), and errors are
reported after that (`EarlyInv`). None of these is inductive alone: that closing the last
worker ends all of them needs that each closes the one before, and that this is still there.
`Blocked` says who waits in a pipe. `ErrorInv` follows an error until it is told: in the exit
code, in a worker that still runs, or in the steps of the call that is being made.

### `TraceLogLinesProofs`

What becomes of the lines, under the same assumptions and for as many clients and workers:

- `LinesStayInOrder`: lines come out in the order in which they were logged, none twice.
- `NothingIsKeptBack`: when nobody is in a call and the log is not wrapped, all lines have come
  out, if neither the output nor a worker has failed.
- `ErrorsComeOut`: when the exit code of an error is set, the error is the last line of the
  output, unless that is broken.

A line is in one of several places: the output, the workers in the order of their start, the
buffer of the log. In a worker it is kept back, scanned, or read and not scanned, and a write
that waits in a pipe has a copy of it there: `HeldAt` and `BufAt` count a line where it comes
from until the pipe was read, then it is in what the reader has read. `Contents` says what a
worker can hold, and that a pipe holds a copy of what its writer is writing. `Flow` is the
order: positions are those of the log (`KnownInv`), all lines of a place precede all of the
next (`AcrossInv`), and each place is in order in itself (`InnerInv`). Only a worker that does
not end, or ends with a flush, counts as a place, so a failure drops lines and never swaps them.
That none is dropped without a failure takes `EndingInv`, that a worker ends when it has
read its pipe to the end, and `ClosedInv`, that a pipe is closed only when its writer has
nothing left to write; then every line of the log is in one of the places (`KeptInv`), and they
are empty, but for the output, when nobody is in a call. `LastInv` follows the error from the
buffer to the output; no worker runs in between, since errors are logged to the output itself.

### `FoldMarksProofs`

For every set of lines, with marks of their own or none, every number of lines and choice of
scanners, and writes that fail at any time:

- `FoldsAreClosed`: the worker leaves no fold open, unless a write failed or the log had marks
  of its own.
- `PlacesAreFollowed`: in the trace of a machine that steps the folds are its places.
- `TextStays`: each line that was taken is in the text, after a line feed and with nothing but
  marks behind it, and nothing else is added.

The assumptions are `LinesAssumption`, the shapes of the lines, and `ScanningsAssumption`.
`TypeInv` ties the scanner to what was read: the line kept back is the last one. `FoldInv` is
that the depth of the text is at most the level while nothing failed. It is at most and not
equal since `closeMark` on an opened line takes back the mark and not the level; `Close` goes
down to level 0 all the same, so nothing stays open. `PlaceInv` holds where every scan is
followed by a step: then depth and level are equal (`Balanced`) and at most two (`TwoDeep`),
the last place is that of the last scan but the one kept back, and each line that was written
begins in the place that it should. `TextInv` takes the text apart at its line feeds. What was
written is whole lines (`Whole`), each carrying one that was read; what is kept back is the
last line with marks behind it (`Back`), or, after a write failed, that and a line feed and
marks (`Torn`). A mark that is taken back is cut out of the text kept back only, which is why
`closeMark` never cuts into a line that was written. The counts are cardinalities of sets of
positions and the cuts are least positions, so `CountConcat`, `FeedAtConcat` and `SubSeqConcat`
say what happens to them when text is appended.

### What is model-checked only

- `DumpShowsEveryWord`: its walk up is a fold over the words, which needs an induction of the
  kind of `WordOfIsLatest`, and besides that the code of a finished word ends where the next
  one begins, also in a machine that has halted.
- What the kernel computes (`ThirdSession`), which is one program, and finite.
- Every liveness property: the prover has no rules for fairness and ENABLED.

Recursion is avoided in all modules that have theorems, so that they stay within its reach.

## What the modules leave out

- The text of the trace: `TracedVM` has what is read for it and what that can do to the
  machine, not how it is laid out (`withLogPrefix`, widths, `logf` of the primitives).
- Of the dump: the lines of single numbers, section headers, the raw code of words, the data
  stack, and a dump that is halted by the limit (see below).
- Of the kernel: comments and the words that nothing in it uses (`mod`, `printnum`, `.`, `nl`,
  `>`, `<=`, `>=`, `loopexit`, `flags!`, `tron`, `troff`), and `Open`, which is not called.
- Options as such. They are functions that set fields, called once and in the order main gives;
  the states they leave are initial states here. That order matters is noted below.
- The line writer (`logio.Writer`): sequential, a buffer cut at line feeds. The conversions of
  `runeio`: tables and encodings without state. The generator of test expectations is no part of
  the program.
- Partial writes: an output takes all of a write or nothing. The whole of a write to the pipe
  of `WithInputWriter` is read at once. `bufio`'s flush of a full buffer before a write that
  is larger than it cannot occur with runes.
- A log line of more than 64 KiB. It ends `bufio.Scanner`, and with it the worker, in the middle
  of the write that the line is part of, which fails; in `TraceLog` a worker fails between
  lines or with one that it has read whole. No property tells the two apart.
- What `Core.Close` closes besides the pipe, `nextIn`'s Close (the wrapped readers are no
  closers), `SetOutput` on a wrapped log (the program calls it once, before wrapping).
- Formatting of messages, of the dump and of locations.

## Seen in the code while modelling

- `first.go:249-251` says that a program left running "will eventually trash things" as the
  main loop uses up the return stack; `pushr` halts it with `retOver` first, as `vm_define`
  shows.
- `init` refuses a preset `r` of `retBase - 1`, the value that it chooses itself, and accepts
  `r = memBase`, with which the first call halts.
- The sample program in the comment at `first.go:367` names the builtins in the order
  `: immediate _read … exit …`, but `compileBuiltins` gives the first name to `exit` and the
  second to `:`, as `third.go` has them.
- `LoadInto` compares addresses as `int`. A load exactly half the address space above a page
  takes the difference for negative and copies that page's cells.
- `compile` moves `h` before it stores; at the limit `h` is left past the last cell.
- A second `immediate` in one definition overwrites the header of the word.
- `run` returns the context's error, and a run time panic passes, without a flush: what was
  echoed last stays in the buffer. `HaltsWithAllWritten` says so in its guard.
- `WithInputWriter` drops the error of `WriteTo`, and its goroutine waits for ever in the
  pipe if the machine stops reading and is never closed.
- The options `WithMemLayout` store before `init` has chosen a page size, so the memory has
  pages of `DefaultIntsPageSize`, 255, not of the 256 that `init` means to set.
- `WithOutput` after `WithTee` drops the tee.
- `Stor` and `LoadInto` add the length to the address before they compare it to the limit; at
  the last addresses the sum wraps around, and the call succeeds without storing anything.
- With a `PageSize` that grew before a hole was left, `allocPage` makes a page over the end of
  another one, and loads find the new, empty page. The program sets the size once.
- `closeMark` on an opened mark takes the mark back but not its level, so `Close` may close
  more folds than were opened: `EveryFoldIsClosed` says that none is left open, and
  `FoldsFollowPlaces` that they balance if the trace does not end with a scan. A mark in the
  text of a line is taken for the worker's own, and the line is cut there.
- The worker's output begins with an empty line, since `Next` flushes the line kept back
  before there is one. A line of more than 64 KiB ends `bufio.Scanner`, and with it the worker.
- A dump with `-mem-limit` inside of a page ends at the limit with a panic on main's goroutine
  (`dumper.go:56` goes up to `Size`), and the deferred `os.Exit` makes that an exit with 0.
- `drop` is `0 * +`, so it needs an element below the one that it drops.
- No word can be defined at the prompt with `:` (`third_colon`); `exit` leaves command mode first.

## Plan

Done, in this order: `FlatMem` and `PagedInts`; `FirstVM`; `FirstVMProofs`; `FileInput`;
`VMRun`; `TraceLog`; `FoldMarks`; `TracedVM`; `Dumper`; `ThirdKernel` and `ThirdSession`;
`VMRunProofs`; `PagedIntsProofs`; `FileInputProofs`; `TraceLogProofs` and
`TraceLogLinesProofs`; `WellBracketedProofs`; `FoldMarksProofs`.

Proofs that are left: `DumpShowsEveryWord`, from the invariant of `WellBracketedProofs`.

Models that are left: the options in any order, over the memory, the outputs and the queue; an
abstract run, "the machine ends, then its caller knows how", that `VMRun` implements.
