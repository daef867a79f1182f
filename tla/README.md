# Verification of the hotel elevator kernel module

TLA+ models of the elevator of `src/part3`, of the clock module of `src/part2` and
of the course examples both were written after, checked with TLC on small
instances. Their safety properties are proved with TLAPS for all instances.

## The system

**Elevator thread** (`part3/elevator/elevator.c`, `runElevator`; helpers in
`elevator.h`). One kernel thread loops over a *loading* phase and a *moving*
phase. Each phase takes the mutex `e_tp.mutx`, works on the globals `e`
(elevator) and `b` (building), releases the mutex and sleeps. Its state is
`e.status`, `_current`, `next`, `direction`, `shutdown`, the ten lists `e.p[d]`
of passengers aboard by destination, the ten queues `b.f[i].waiting`, and load
counters for the elevator and each floor. The elevator sweeps: it goes from end
to end as long as there is somebody to serve.

**System calls** (`elevator.c`, called through the stubs of `part3/SystemCalls`).
`issue_request` checks its arguments and `e.shutdown`, allocates a passenger and
queues it under the mutex. `start_elevator` puts an OFFLINE elevator back on
floor 1. `stop_elevator` sets `e.shutdown`. Any process may call them at any time.

**The lock** (`e_tp.mutx`). Every region, of the thread, of the system calls and of
`elevator_open`, has the form

    if (mutex_lock_interruptible(&e_tp.mutx) == 0) { ... }
    mutex_unlock(&e_tp.mutx);

so that a process interrupted by a signal skips the region and unlocks all the same.

**/proc/elevator** (`elevator_open`, `elevator_read`, `elevator_release`,
`printStats`). Opening it formats the counters under the mutex into a buffer kept
in one global, `message`; the reads of all readers share it and the flag `read_p`,
which makes every other read report the end of the file.

**Module lifecycle** (`elevator_init`, `elevator_exit`, `link_syscalls`,
`unlink_syscalls`, the stubs of `part3/SystemCalls`). The stubs call through
function pointers that the module sets and clears.

**/proc/timed** (`part2/my_xtime.c`). Prints the kernel's clock and the time since
the previous read. The global `prev_t` is the time of the last read between
reads, and the difference during one.

**Course examples** (`course_materials/Project2_Examples`). Example 2 is the
pattern of every /proc entry here. Example 4 keeps a list of animals that grows
with every open. Examples 6 and 7 have a thread that increments an array while
opens print it, without and with a mutex; the elevator takes its thread, its
mutex and its way of locking from example 7.

**The rest**: two programs for `strace` (`part1`), the test programs
`producer.c`, `consumer.c` and `driver.c`, and the handouts. They have no state of
their own. `course_materials/Project2_Description.pdf` and the slides say what the
programs are meant to do and are quoted where the code disagrees.

### What is hard here

* System calls interleave with the thread between any two of its locked regions,
  and `issue_request` reads `e.shutdown` outside of one.
* A signal makes a process unlock a mutex somebody else holds.
* Loops unlink nodes from the list they walk.
* The capacity test trusts running counters that three functions update.
* The turns at the ends compare `next` for equality; arrays are indexed by it.
* A restart changes the position but not the lists and not the direction.
* Eventual service depends on the sweep, on the direction test and on the queue
  not being blocked by its first passenger; going out of service depends on the
  order of two tests in the moving phase.
* What a read of a /proc entry returns depends on the reads before it, also on
  those of another reader, or of one that has closed the entry early.
* `kmalloc` fails; `elevator_open` and example 7 use the result before, or
  without, testing it.
* insmod and rmmod run beside calls and opens that are already under way.

The list `hazards` of `PROJECT.json` places each of these at its line, with the
properties that watch it.

## The modules

| Module | Models |
|---|---|
| `Passenger` | passenger types, weights, the capacity test `canFit`, the load counters; `Tally`, the reference the counters are compared with |
| `Elevator` | the thread, the lists, the mutex and the three system calls |
| `ElevatorService` | abstract specification: what passengers may rely on, with no thread, lock, counter or direction |
| `KernelMutex` | the kernel's mutex, as the code uses it (external) |
| `ElevatorLock` | the locked regions step by step, with signals and a failing `kmalloc` |
| `ProcEntry` | open, read and release of a /proc entry, after example 2 |
| `ElevatorProc` | the readers of /proc/elevator |
| `ElevatorModule` | insmod, rmmod, the stubs and the calls under way |
| `MyXtime` | /proc/timed |
| `ThreadExample` | examples 6 and 7 |
| `AnimalList` | example 4 |
| `MCElevator`, `MCElevatorLock`, `MCElevatorProc`, `MCElevatorModule`, `MCMyXtime`, `MCThreadExample`, `MCAnimalList` | instances for TLC |
| `PassengerTheorems` | lemmas about lists and counters |
| `ElevatorProofs` | the safety theorems of `Elevator`, and that it implements `ElevatorService` |
| `ElevatorLockProofs`, `ElevatorProcProofs`, `ElevatorModuleProofs`, `MyXtimeProofs`, `ThreadExampleProofs`, `AnimalListProofs` | the inductive invariant and the safety theorems of each module |

`Elevator` extends `Passenger` and instantiates `ElevatorService` as `Service`.
`ElevatorLock` extends `Passenger` and `KernelMutex`; `ElevatorProc`, `MyXtime`,
`ThreadExample` and `AnimalList` extend `ProcEntry`; `ElevatorModule` and
`ThreadExample` extend `KernelMutex`.

The elevator is modelled three times over, each time with what the others leave
out. `Elevator` has the whole algorithm and takes a system call's region for one
step. `ElevatorLock` takes the regions apart and leaves out which passengers board
and where the elevator is; its properties say that treating a region as one step
is right until a signal interrupts somebody. `ElevatorModule` has only the
lifetime of the things the regions use.

Much of this code is right only as long as something does not happen: a signal, a
second reader, a call during rmmod, a `kmalloc` that fails. The models let it happen,
and record it in a history variable (`disturbed`, `shared`, `failed`, `overlap`,
`late`). A property that holds only until then says so, and says nothing of what comes
after: that is in the findings. A property that names an exception, as
`NeverLeftLocked` does, still catches every other way to violate it. One that has
neither holds throughout.

### Elevator: state

`waiting[i]` is `b.f[i].waiting`, `riding[i]` is `e.p[i]`; both are sequences of
passenger structs. `pass[p]` is the contents of a struct, `node[p]` where it is in
its life: *unused*, *private* to an `issue_request` that has not locked yet,
*listed*, *freed*. `hall[i]`, `car` and `serviced[i]` are the counters. `status`,
`current`, `next`, `direction` and `shutdown` are the fields of `e`. `mutx` is
"held" while the thread is in a loop, `pc` says where the thread is, and `ptr` is
the position of its `list_for_each_safe` loop.

Weights are in half units, as in the code. Floors are array indices, 0 to
`MAX_FLOOR - 1`; requests are numbered from 1 as in user space, and
`IssueRequestCheck` converts them.

### Elevator: actions

| Code | Actions |
|---|---|
| loading phase, nothing to do | `PassFloor` |
| loading phase, doors open | `BeginLoading`, then `Unload` per rider, `BeginBoarding`, `Board` per passenger, `EndLoading` |
| moving phase | `StayOffline`, `GoIdle`, `GoOffline` or `MoveFloor` |
| `issue_request` | `IssueRequestCheck` up to the lock, `IssueRequestAdd` in it |
| `start_elevator`, `stop_elevator` | `StartElevator`, `StopElevator` |

A system call's locked region is one step, enabled while the mutex is free. Calls
that only return an error change nothing and have no action. `printk`, and the
branches of `addPass`, `movePass` and `delPass` for a type out of range, are left
out: `issue_request` admits only valid types. The scan of the lists in the moving
phase is within one locked region and is one step with the decision it feeds.

`kmalloc` hands out the members of the constant `Passengers`, each once, so the
size of the pool bounds the requests of a behaviour. The definitions named after
another one with a suffix (`movePassKeepsNode`, `DrainedAnyway`, ...) are
plausible mistakes in that definition; each shows that a property would notice.

### ElevatorService

Floors are lines; `Board` takes the head of the current floor's line, only while
the elevator is `taking` passengers and only if the load stays within the limits;
`Leave` is possible only at the destination; `Travel` goes to a neighbouring floor
that is on everyone's way; `Restart` needs an empty elevator. The mapping reads
`line` from `waiting`, `aboard` from the lists `e.p`, `served` from the freed
structs, `trip` from the structs once they are on a list, and `taking` from
`shutdown`.

### ElevatorLock

`at[t]` says where a task is: idle, waiting for the mutex, in a region or about to
unlock; `op[t]` which call, or which phase of the thread, it executes. `Lock`,
`Skip` (the signal) and `Leave` are the idiom above. Inside, `DelPassOut`,
`DelPassIn`, `MovePassOut` and `MovePassIn` are the two halves of `delPass` and
`movePass`; `TestStatus` and `Restart`, `TestShutdown` and `SetShutdown`, `MoveScan`
and `GoOffline` separate a test from what is done about it; `PrintLine` prints one
line of the page, with the conversion of half units to a whole number and ".5".
`buffer` says whether `message` points to memory; each `ElevatorOpen` sets it, for
itself and for the opens that have not called `printStats` yet. Without memory
`printStats` follows NULL (`PrintOopses`): the process is killed where it is, and the
mutex stays locked. The loop of `elevator_open` is `AfterUnlock`. The strings of
`getState` and the lines for the current and the next floor are left out. A half of
`delPass` or `movePass`, and a line of the page, is several memory accesses in one step.

The mutex behaves as the kernel's does in a normal build: `mutex_unlock` frees it
whoever calls, and only a task that has to wait looks at its signals. What a
corrupted list does, once two tasks are in a region at the same time, is not
modelled: a passenger is in one place at a time even then.

### ProcEntry and ElevatorProc

A reader goes from "closed" through the handlers back to "closed", and may close
the entry at any time between two reads, or read on after the end of file.
`message`, `read_p` and the set `live` of allocated buffers are shared; `text` is
what a buffer holds, also after it was freed. In `ElevatorProc` the state of the elevator is a version number, so that a
page tells when it was printed. `OpenGetsNull` is a `kmalloc` that fails: the open
prints through NULL in the locked region (`OpenOopses`), the reader is killed there,
and nobody gets the mutex again. `BufferLive` covers the printing too: the NULL of
an open's own `kmalloc`, in the open that is to be killed for it, is its one
exception.

### ElevatorModule

`loader` is the last step of `elevator_init` or `elevator_exit`; `STUB`, `entry`,
`lists` and `mutex` are what they set up and take away. A caller passes from its stub
(`StubTests`, `StubCalls`: the pointer is tested and then called) into the module
(`Prepare`, `LockRegion`, `Body`, `Return`). A task that jumps to code that is gone,
or uses a list head that is not initialised, is killed ("oops"), and the kernel goes
on. The thread tests for the stop (`ThreadTests`), and then waits for the mutex twice
(`ThreadLocks`, `ThreadWorks`) before it comes to the next test, so that it may wait
for a mutex somebody keeps while rmmod waits for it. An open may be killed with the
mutex, as above (`OpenOopses`). `RemoveProcEntry` takes the entry away, and
`ExitReturns` waits for the opens that are under way; nothing waits for system calls.
A mutex that is all zeros, or was destroyed, still works in a normal build.
There are no signals here.

### MyXtime, ThreadExample, AnimalList

`MyXtime` has `myxtime_proc_read` in five steps, because another reader's step
may come between any two. Times are numbers of units, split into seconds and
nanoseconds as `timespec` does, and `timespec_sub` borrows. `ThreadExample` is both
examples, `locked` says which. An open prints its headline (`OpenHeads`) and then
appends one number at a time to what `message` points to, the counters or, when it was
interrupted, -1 (`OpenPrints`). Either `kmalloc` of an open may fail; example 7 does not
look at `buf`, and the open is killed (`OpenOopses`).

`AnimalList` keeps the number of animals of each type in place of the list. No lock
protects anything in example 4, so an open is in steps, and those of another may
come between any two: the test for a full list (`add_animal`), `list_add_tail`
(`AddInserts`), the three `+=`, each of which may use the total as it was read before
(`AddCounts`), the `strcpy` (`print_animals`), the totals (`PrintHead`) and the names
(`PrintNames`). The last three go to `message` as it is by then, and append to what they
find there. In these modules a failing `proc_create` or `kthread_run` leaves nothing
behind and has no action, and animals are not added before `animal_init` has returned.

## What is checked

| Run | Shows |
|---|---|
| `elevator_safety` | lists, counters, limits, parking, heading and course stay consistent; no overtaking, no boarding after a stop, no jump with someone aboard; `Elevator` implements `ElevatorService` |
| `elevator_liveness` | riders are delivered; requests are served unless the elevator is stopped; a stop with passengers waiting completes |
| `elevator_stop` | violated: a stop with nobody waiting never completes |
| `elevator_ground_floor` | violated: a trip from floor 1 to floor 1 starves itself and its queue |
| `lock_regions` | until a signal interrupts somebody, pages are snapshots, counters are exact whenever the mutex is free and no region acts on a stale test; signals or not, nobody leaves the mutex locked but an open killed for want of a buffer |
| `lock_calls` | every system call and every open returns, unless an open was killed with the mutex or is interrupted at every try |
| `lock_request` | violated: an interrupted `issue_request` answers 0 and forgets its passenger |
| `proc_readers` | readers one after the other use and free their own buffer, get exactly one fresh page, again if they read on, and come to an end |
| `module_lifecycle` | while no call overlaps with insmod or rmmod, nobody uses what is not initialised and all passengers are freed, and, while no insmod fails either, nobody runs without the module's code; rmmod ends, with calls and opens under way too, unless an open was killed with the mutex |
| `xtime_reader` | a page of /proc/timed shows the time since the page before it; the buffers are accounted for |
| `thread_examples` | until two readers use one buffer, no number on a page is more than one cycle behind those before it, signals or not; example 7 shows equal ones until its mutex is freed under its holder |
| `animal_list` | while opens come one after the other, totals match the list on every page, pages fit into their buffer, and the exit frees what was there when it began |

**Bounds.** The elevator's passing runs have four floors: two ends, where the
elevator turns, and two floors between them, so that one can stop, turn and pass.
Three passengers are enough for a queue whose head is blocked by room or by
direction while others wait behind and aboard. The limits are 9 half units and 3
passenger units, so each binds without the other: a bellhop and an adult (10 and
3) are too heavy, two of room service (8 and 4) are too many. The requests go up,
down, to both ends, to the start floor, and out of range. The passengers of the
pool are interchangeable and the safety run uses that symmetry; the liveness runs
do not. Stops and restarts are unbounded.

`lock_regions` has the thread and two callers, because a stray unlock needs a
holder, an interrupted process and, to do harm, a third party or a later call; two
floors and two passengers, one of them a child with a half unit. `lock_calls` has one
passenger, as liveness is costlier to check. `proc_readers` has two readers, two
buffers and three versions of the elevator, so that a page may be older than a
reader and newer. `module_lifecycle` has the thread, two callers, and one passenger
on each of two floors. `xtime_reader` scales a second to 100 units and `unsigned
long` to 1000; the five times of the clock make differences above and below a second
and of exactly one, with and without a borrow, and negative ones. `thread_examples` has
two readers, two buffers, an array of three and `MaxCycles` = 2. `animal_list` has two
readers, two buffers, and 6 animals and 150 bytes in place of 50 and 1000: the page is
a fixed part and at most nine bytes per animal, and 150 is the least that
`AnimalAssumption` allows for 6. The theorem `MessagesFit` covers the sizes of the
code. `ProcEntry` remembers the last `MaxPages` = 2 pages of a reader.

In the last two runs an open that overlaps another is the last (`FirstOverlap`), and in
`animal_list` it comes before any animal is counted (`MaxShared` = 0). No property of the
two modules speaks of what follows an overlap, so nothing they say is checked less; the
bounds only keep TLC from going on long after it, and the overlap itself is there, with
all its interleavings.

Deadlock is not checked in the three lock runs, `proc_readers`, `module_lifecycle` and
`thread_examples`, where a process that was killed with the mutex stops everyone for
good. It is checked in the others.

**Fairness.** `Elevator!FairSpec` adds weak fairness of the thread,
`WF_vars(RunElevator)`. The thread sleeps for bounded times and the system calls
hold the mutex for a bounded time, so a step of the thread that is possible is
taken. Nothing obliges a process to make, or to finish, a system call.
`RequestsServed` is about finitely many requests: with an endless supply the
elevator may be full on every visit to some floor, and the code has no remedy
against that. It is checked for the requests `producer.c` makes, whose start and
destination differ.

In `ElevatorLock` whoever is in a region goes on (weak fairness), and
`mutex_lock_interruptible` returns in the end if the mutex is freed again and again
(strong fairness of `Lock(t) \/ Skip(t)`). The kernel's mutex queues its waiters and
hands over to the first; a task with a signal pending does not stay in the queue, so
all that is sure of it is that the call returns, with the mutex or interrupted. A system
call returns either way. `elevator_open` tries again, and `CallsReturn` therefore excepts
one that is interrupted for ever. In `ElevatorProc` a reader goes on reading, and one that
comes to the end of file again and again closes in the end, as `cat` does the first
time. In `ElevatorModule` rmmod, the calls and the thread go on once begun (weak
fairness), and the thread and the calls get a mutex that is freed again and again
(strong fairness of `ThreadLocks` and `LockRegion`): there are no signals in that module,
and its waiters stay queued.

**Findings.** The first three are runs.

1. `elevator.c:107`. The moving phase tests for IDLE before it tests for OFFLINE,
   so an elevator stopped when nobody waits stays IDLE with `shutdown` set:
   `start_elevator` returns 1, `issue_request` returns 1, for good. The handout
   (page 4) lets the stop complete once the elevator is empty.
   `StopCompletesIfWaiting` is what does hold.
2. `elevator.h:430`. A trip to its own start floor counts as going down. On floor
   1 a running elevator always goes up, so that passenger never boards, and the
   loop breaks there, so nobody behind it does. The only way out is a stop and a
   restart from a descent. On the other floors the passenger is taken for a ride
   and brought back.
3. `elevator.c:175`. A signal that interrupts `issue_request` makes it return 0
   without having added its passenger, whose struct is lost.

The others are the conditions in the properties: leave one out, and TLC shows the
behaviour.

4. `elevator.c:177` and everywhere a region ends (`~disturbed`). The interrupted
   process unlocks the mutex of the thread. A page printed then counts a passenger
   twice, and two `start_elevator` may both find the elevator OFFLINE. The slides on
   locking name the danger: "The elevator might update it's state in the middle of
   /proc/elevator being read". Example 7, where the idiom comes from, has it too:
   after a signal its pages differ in their numbers, although the slides say
   "Shows values in array are always the same when read".
5. `elevator.c:255` (`~shared`). Two readers share `message` and `read_p`. One can be
   shown nothing, or two pages, or keep the other reading for ever; buffers are
   freed twice and lost. `src/README.md:75` suggests two readers.
6. `elevator.c:267` (`MutexUsable`, and the exceptions of `NeverLeftLocked`,
   `CallsReturn`, `BufferLive` and `ExitEnds`). `message` is tested for NULL after
   `printStats` has written through it; the reader dies with the mutex. The system
   calls and the thread then wait for it until a signal ends their wait, and rmmod
   waits for the thread, which gets none, for ever. Example 7 does the same with `buf`,
   which it never tests (`07_threading_and_locking/thread.c:79`).
7. `elevator.c:315` (`~failed`). An insmod that fails leaves the stubs pointing
   into memory that is freed.
8. `elevator.c:302` and `:337` (`~overlap`). Calls are let in before the lists and the
   mutex are initialised, and `mutex_init` frees a mutex an early open holds; at
   rmmod a call that has passed its stub adds a passenger nobody frees, or runs on
   without its code. Example 7 also calls `mutex_init` after `proc_create`
   (`thread.c:124`), although the slides say "Call before using to setup".
9. `random_animals.c:228` (`late`). An open during rmmod adds an animal that is never
   freed, and its page shows totals that do not match the list. Opens that overlap
   (`~shared`) have nothing to keep them apart: with a list that is almost full, each
   appends its page to the one buffer and overruns it, several pass the test at line 51,
   and the additions to the totals get lost.
10. `my_xtime.c:53` (`~shared`, `diff >= 0`). A second reader subtracts the first one's
    difference from the time, and a clock that was set back gives a negative
    difference; both are printed as huge numbers.
11. `my_xtime.c:54`. "%lu.%lu" prints no leading zeros: 7495999 ns after 1 s appear as
    1.7495999, where the handout (page 2) shows 1.007495999. No property is about it.
12. `elevator.c:199`. `start_elevator` leaves `direction` alone. After a stop on a
    descent the elevator restarts on floor 1 heading for floor 2 with direction
    down, leaves the passengers of floor 1 behind on that visit, and turns round
    at floor 2, whatever `elevator.h:48` says of `direction`. `HeadingConsistent`
    states the exact exception.

The comment on `start_elevator` (`elevator.c:185`) says "if elevator is offline,
return 1"; the code does the opposite, as the handout asks.

## What is proved

`ElevatorProofs` proves, for every finite pool of passengers, every set of
requests, any number of floors from 2 up and all limits, that `Spec` implies
`[]TypeOK`, `[]ListsSound`, `[]LoadAccounting`, `[]CapacityRespected`,
`[]EmptyWhenParked`, `[]HeadingConsistent`, `[]OnTheWay`, and the action
properties `FifoBoarding`, `NoBoardingAfterStop` and `NoTeleport`.

Assumptions: `LimitsAssumption` (at least two floors, limits are naturals),
`PassengersAssumption` (finitely many structs) and `RequestsAssumption` (arguments
are integers). TLC evaluates them in every run.

The invariant `Inv` adds two parts to the properties:

* `LockDiscipline`: the thread holds the mutex exactly in its loops, is LOADING
  there, boards only with `shutdown` clear, and its loops are always at the head
  of their list. The last point is why `FifoBoarding` holds although the loop
  would walk on past a node it does not move: by `ListsSound` there is none.
* `Course`: a rider going up is below its floor with the elevator ascending, or
  has arrived and is about to be let out; likewise going down. `OnTheWay` alone is
  not inductive, as it does not say that the elevator stays on course.

The parts need each other. `ListsSound` finds riders on the list of their
destination, so an elevator that leaves a floor has nobody bound for it;
`HeadingConsistent` then makes the next floor the next one on the rider's course;
`EmptyWhenParked` makes a restart harmless. `LoadAccounting` rests on
`TallyAdd` and `TallyRemove`, which say that one passenger more or less changes
the tally of a finite set by what `CountIn` and `CountOut` do, and
`CapacityRespected` on `canFit` being applied to counters that are exact.

The last part of `ElevatorProofs` proves `Spec => ImplementsService` from the same invariant:
`Init` maps to the service's `Init`; `IssueRequestAdd`, `Board`, `Unload`,
`MoveFloor`, `StopElevator` and `StartElevator` map to `Arrive`, `Board`, `Leave`,
`Travel`, `Stop` and `Restart`; every other step leaves the service's variables as
they are. `CapacityRespected` gives the guard of `Board`, `OnTheWay` in the next
state the guard of `Travel`, and `EmptyWhenParked` the guard of `Restart`.

The other components have an invariant and a proof module each. All of them hold for
any sets of tasks, readers, buffers and passengers.

**`ElevatorLockProofs`** proves `NeverLeftLocked`, with its exception, `DecisionsFresh`, `CountersExact`,
`PageIsSnapshot`, and that `NoRequestLost`, which the run `lock_request` refutes, holds
until a signal interrupts somebody (`OnlySignalsLoseRequests`). `LockAssumption` says
that the thread is a task that gets no signals and that the passengers are finitely
many. The centre of the invariant `LockInv` is `Exclusive`: until the first interrupted
call, a task in a region owns the mutex. Two tasks in a region are then one task, so
nothing a region has tested (`DecisionsFresh`) or printed (`PageCurrent`) changes
before it is done. `CountersExact` speaks only of moments when the mutex is free and is
not inductive; `CountersInv` says what the counters are at every moment, when a
passenger between the two halves of `delPass` or `movePass` is counted nowhere, and
`OneInTransit` that there is one such passenger at most and only in the thread's loops.
`OwnStruct` and `PrivateHeld` follow a struct from `kmalloc` to the list. A page is
turned back into numbers by `ReadBack`, which is shown to undo the printing of half
units. `OpenBuffer` says that an open under way has a buffer unless a `kmalloc` has failed:
the exception in `NeverLeftLocked` is reached in no other way.

**`ElevatorProcProofs`** proves `BufferLive`, `NothingLeaked` and `CatShowsPage`. Without
a second reader (`OneReader`), `message` is the only buffer there is (`OneBuffer`), and
`ReaderProgress` says for each step what `read_p`, the buffer and the pages read so far
are: `read_p` is 1 until the page has been read.

**`ElevatorModuleProofs`** proves `CodePresent`, `ReadyWhenUsed` and `NodesFreed`, for any
number of floors. `StageInv` says what exists at each stage of insmod and rmmod,
whatever the callers do; `CallsApart` that calls which do not overlap with them are in the
module only between the two; `RegionOwned` that the regions exclude each other;
`StructInv` that no struct is listed behind the loop that frees the lists.

**`MyXtimeProofs`** proves `ElapsedIsDifference`, `BufferLive` and `NothingLeaked`, for any
clock, any length of a second and any range of `unsigned long`: `ElapsedShown` says that
`timespec_sub` with its borrow, printed with "%lu", shows the difference also when the
seconds wrap around. `prev_t` holds two things in turn, the last time and a difference.
`PrevInv` says that between the reads it is the time of the last page, and `ReadInv`
carries that through the steps of a read.

**`ThreadExampleProofs`** proves `LagAtMostOne` and `ValuesSame`, for an array of any
length. `CounterShape` says that the counters before the thread's loop variable are one
ahead of the others; with it, `PrintedAhead` says that no counter is more than one
behind a number the only open has already printed, signals or not. For `ValuesSame`,
`Guarded` adds that the loops of thread and open exclude each other, and `WholeInv` that
what has been printed so far is the value the counters have.

**`AnimalListProofs`** proves `MessageFits`, `TotalsMatch` and `AnimalsFreed`.
`AnimalAssumption` asks for 95 bytes and 9 per animal, which 1000 bytes for 50 animals
are, and for weights of nine digits at most. The invariant holds until two opens
overlap (`AnimalInv`). `CountInv` says that the list is never longer than `total_cnt`,
but for the one animal that is still to be counted; nothing decreases that counter and
`add_animal` tests it, and that is why the page fits during the exit too, when counter
and list differ. `PrintInv` follows the page through `print_animals`: empty, then headed
with 94 bytes at most and the totals as they are, then with the names. `ReadInv` says
that nobody changes the totals between the read and the write of `AddCounts`; `SoundInv`
that they are those of the list whenever the last animal has been counted. `ExitInv` says
which types the exit has done with.

The history variables are conditions of the theorems as they are of the properties,
and the runs show that neither side of them is empty: what happens after a signal or
with a second reader is in the findings.

**Only model-checked:** the liveness properties `RidersDelivered`, `RequestsServed`,
`StopCompletesIfWaiting`, `CallsReturn`, `CatEnds` and `ExitEnds`, since the prover
treats neither fairness nor ENABLED. Every invariant and every action property of the
passing runs is proved. The service has no fairness, and the refinement is one of
safety.

## Not modelled

* `part1`, the system call table, the prototypes of `syscalls.h`, examples 1, 3 and 5
  and the test programs: no behaviour, or none that another module does not have.
* `kmalloc` failing in `issue_request` (`elevator.c:167`): the call is killed
  before it has locked anything, and nothing else is affected.
* `hasSpace` and `find`, which nothing calls; the wording of the pages and of the log.
* Corruption of a list by two tasks in it at a time (`list_add_tail` of two opens of
  example 4, or of one and the exit, among them), and what a killed task does to memory
  it had half changed. What a buffer holds once it is freed is what it held before, or
  in `ThreadExample` and `AnimalList` nothing in particular.

## Plan

The modules cover the code that has behaviour, and what the runs check of its safety
is proved. What is left, in this order:

1. The regions of `ElevatorLock` as steps of `Elevator`: its counters and lists, read
   when the mutex is free, make the moves of `addPass`, `movePass` and `delPass` in one
   step until the first signal. The two modules name their state differently, so this
   needs a small abstract specification of the counters that both implement.
2. Action properties that follow from the invariants: a struct is freed once and never
   used again, and `serviced` never decreases.
3. Safety facts that the liveness arguments rest on: while somebody is waiting or riding,
   a cycle of the thread ends with the elevator loading or on its way to another floor.
