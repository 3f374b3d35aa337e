# B3L in TLA+

B3L is a Windows x64 library for intercepting functions of the process it is loaded into: it swaps
function pointers, overwrites the first instructions of functions, generates machine code and frees
all of that again in destructors.  This directory is a formal model of it: TLA+ modules translated
from the source, TLC configurations that check them on small instances, and proofs that TLAPS checks
for every value of the constants.

Lines and files below are relative to the repository.  `PROJECT.json` names, for every definition
that models code, the lines it stands for; for every property, a plausible slip in the code that
breaks it; and every hazard with the properties that guard against it.

- [The system](#the-system)
- [Modules and the code they model](#modules-and-the-code-they-model)
- [What the runs check](#what-the-runs-check)
- [What the code does that its documentation does not say](#what-the-code-does-that-its-documentation-does-not-say)
- [What is proved](#what-is-proved)
- [What is only model-checked](#what-is-only-model-checked)
- [What is not modelled](#what-is-not-modelled)
- [Plan](#plan)

## The system

### Parts, their state and their operations

| part | state | operations | correct if |
|---|---|---|---|
| `IatHook`, `VftHook` (`Hook.h`) | slot, original, detour of each object; the slot itself is shared with other hooks and other libraries | construct, enable, disable, isEnabled, isValid, move, assign, destroy | no slot ever leads to the detour of a dead hook; releasing never diverts somebody else's hook and never traps |
| `Memory::writeProtectedMemory` (`Memory.h`) | the protection of pages, shared by all threads | unprotect, copy, reprotect | pages get their protection back; the copy never faults |
| `InlineDetour` | a function's first instructions, the trampoline page | construct, move, assign, destroy | no function starts with a jmp to freed memory; every trampoline has one owner |
| `InlinePatch`, `InlineCallback` | detour, code page and heap flag of each object | construct, enable, disable, move, assign, destroy; and what callers execute | every call runs the displaced instructions once and what is enabled, from live memory only |
| `VirtualAllocAllocator` (`Allocator.h`) | the address space | allocate near a hint, deallocate | the memory is as near as can be; the search ends |
| `BinaryPatch` | a function's first bytes, the saved ones | construct, isEnabled, move, assign, destroy | releases never divert the function to something that is gone, and never end the process |
| `PrologHook` | a detour and a thunk | construct, invokeOriginal, destroy | a call never leaves live code; the original runs whole |
| generated code (`InlineDetour.cpp`, `InlinePatch.cpp`, `InlineCallbackHook.h`, `PrologHook.cpp`, `Thunk.h`) | registers, flags, stack of whoever runs it | jmp, trampoline, patch page, callback frame, thunk | neither the caller nor the function called can tell that it is there |
| `Disassembler` | one engine and one instruction buffer for the process; three fields per stream | read, peek, disassemble a block | a call returns the instructions its own stream was at, with details; no array is left behind |
| `Assembler` | staged text; the engine, opened lazily | push_back, addresses, clear, assemble | everything staged is assembled once, whatever failed before; an address that does not fit is refused |
| `bindInstance` (`MemberFunctionCalllback.h`) | a static delegate per ID | bind, call back | a callback reaches the instance it was bound to |
| `Unique` | a static mutex per class, a lock per object | construct, move, assign, destroy | at most one object; another can be made after the last is gone |
| `DeepPointer` | base and offsets; follows memory it does not control | get, set, assign | touches only an address the chain led to; never ends the process |
| `Thunk` | a page of code per object | construct, copy, move, assign, destroy | calls its own instance from its own page; leaks none |
| `ImageView` | none after validation | createFromMappedImage, the accessors of headers and sections, the import iterator, the import lookup | what the accessors lead to is there; lookup and iteration agree |
| `ScopeExit`, `ScopeSuccess`, `ScopeFailure` | exceptions in flight when a guard was made | make, destroy | the way a scope is left decides which guards run |
| `AOBPattern`, `AOBScanner`, `StringUtil` | none | parse, find; replace, trim, removeWhitespace, iequal | agree with what their texts say |

### How they interact

Everything that intercepts goes through page protection: hooks, detours and binary patches all
unprotect, copy and reprotect, and nothing locks a page between these steps.  `InlinePatch` owns an
`InlineDetour`, `InlineCallback` an `InlinePatch`, and `PrologHook` is one; all of them, and
`BinaryPatch`, overwrite the same kind of place, so several objects of several classes may be stacked
on one function, each having saved what the one before had written.  The detour asks the disassembler
how many instructions it must displace, the assembler for the jmp, the allocator for a page within its
reach.  `IatHook` asks `ImageView` for its slot.  The rest of the parts share no state.

### What is hard here

- *Stacking and order.*  Each object restores what it found.  Released in any order but the nested
  one, restoring resurrects a jmp to freed memory.
- *Moves.*  All classes are movable, most by hand-written move operations that transfer the duty to
  restore; what a moved-from object's destructor does, and assignment over an object that still owns
  something, decide whether memory is leaked, freed twice or restored twice.
- *Failure half way.*  `VirtualProtect` may fail before or after the bytes were written, in
  constructors (which throw) and in destructors and assignments (which are `noexcept`: the process ends).
- *Other threads* run the functions that are being patched, write memory on the same pages, change
  the pointers a `DeepPointer` follows, take the memory the allocator is about to probe.
- *Shared buffers:* the process has one instruction buffer and one assembler engine.

## Modules and the code they model

| module | models | state |
|---|---|---|
| `InterceptPoint` | nothing: the abstract promise of all interception classes | where each point leads, which handlers have an owner |
| `PointerHook` | `Hook.h` | `slot`, and the three pointers of each object in `hook` |
| `ProtectedMemory` | `Memory.h`, `Memory.cpp` | `home` and `prot` of each page; what each writing thread remembers |
| `InlineDetour` | `InlineDetour.h/.cpp` | `head` of each function, `mapped` trampolines, the fields of each object |
| `InlinePatch` | `InlinePatch.h/.cpp`, the objects of `InlineCallbackHook` (`callbacks`), which hold their patch through a pointer and assign it differently | `head`, flags and memory of each patch; the steps left of the owner's operation in `job`; where each caller is |
| `NearAllocator` | `Allocator.h` | `busy` granules; hint and displacement of each search |
| `BinaryPatch` | `BinaryPatch.h/.cpp` | saved bytes and entrypoint of each object |
| `PrologHook` | `PrologHook.h/.cpp` over the detour it derives from | stage and saved instructions of each hook; where each caller is |
| `SharedEntrypoint` | composes `PrologHook` and `BinaryPatch`: one function's bytes are the `head` of both | their state |
| `DeepPointer` | `DeepPointer.h` | the cells of memory and their rights; where each walk is |
| `Disassembler` | `Disassembler.h/.cpp` | engine, buffer, the fields of each stream, the array of each block |
| `MemberFunctionCallback` | `MemberFunctionCalllback.h` | the delegate of each ID; what each binding thread found |
| `Unique` | `Unique.h` | the mutex, the lock of each object |
| `Thunk` | the pages of `Thunk.h` | page and content of each object |
| `GeneratedCode` | the machine code of detours, patches, callbacks, prolog hooks and thunks | registers, flags, stack, the instruction about to run |
| `ScopeGuards` | `ScopeExit.h` | the scopes a thread is in and their guards; exceptions in flight |
| `StringUtil`, `AOBScanner` | `StringUtil`, `AOBScanner.h/.cpp` | a text, a pattern, bytes |
| `ImageHeaders`, `ImageImports` | the two halves of `ImageView` | an image, the view of it, what an accessor led to; where a walk is |
| `Assembler` | `Assembler.h/.cpp`, `domain_cast` | staged text, engine |
| `Tools` | composes everything above from `DeepPointer` on | `tool` and theirs |
| `MC*` | nothing: values of constants and symmetry for TLC | |
| `*Proofs` | nothing: theorems about the module of the same name; `InductionProofs` has those about the parts of `Tools` with recursive definitions or sequences | |

**Operations are actions.**  A constructor, destructor, assignment or call is one action that makes
every state change of the function, its early returns and its outcomes when a system call fails.
It is split into several actions only where another thread can see the steps in between, and only
where the module has such threads: `ProtectedMemory` (between the protection calls), `InlinePatch` and
`PrologHook` (step by step against callers; `InlinePatch` keeps the steps left as a sequence, so that
the order in which members are destroyed or assigned is data one can read), `NearAllocator` (between
probes), `DeepPointer` (between a check and the read after it), `Disassembler` (between the look at the
engine, opening it, setting its option, decoding and copying), `MemberFunctionCallback` (between check
and bind), `ScopeGuards` (between the callables of a scope, which open scopes of their own), and
`GeneratedCode`, where a step is one instruction.

**Composition.**  `SharedEntrypoint` composes two classes that write the same bytes.  `Tools` puts
parts side by side that share nothing; a variable `tool` says which one a behaviour uses, and the
others keep their initial state, so that the states of the parts add up instead of multiplying.
Nothing is lost by that: no step of one can enable, disable or be seen by another.  (An object of
`Disassembler` and one of `Assembler` share nothing either: one decodes, the other encodes, each with an
engine of its own.)

**Abstraction.**  A function's first instructions are a value: what it came with, what a foreign
library wrote, or "the jmp of this object".  Trampolines, pages and code are model values.  Instruction
bytes appear only as what the code distinguishes: the shape of the displaced instructions in
`PrologHook`, lengths in `Disassembler`, and the operations on registers and stack in `GeneratedCode`,
where a register holds a name of what it came with.  Addresses are counted in pages in `ProtectedMemory` and in
allocation granules in `NearAllocator`.  Text is a sequence over a few characters that stand for their
classes (space, digits, question mark, other).

**Client promises.**  The library leaves duties to its client, some in TODO comments (suspending
threads: `InlineDetour.cpp`), some silently (releasing in nested order, not using moved-from objects).
Each module has a constant `ClientRules`, the set of promises the client keeps, each documented at the
module's beginning and used as a guard of the action it restricts.  Every promise of a run is
necessary: without it some property of that run fails.  The promises a theorem needs are its hypotheses.

**History variables** (commented as such) record what a property talks about and the program does not
store: who was moved from, what a call's patches were, which pages were disturbed.  No guard of an
operation of the code reads one, except to bound the state space (`InlinePatch.used`,
`Assembler.pushed`) or to state a client promise (`MemberFunctionCallback.bound`,
`DeepPointer.changed`).

**Seeded faults** are operators beside the definitions they vary, each commented; no specification uses
them.  `PROJECT.json` says which definition each replaces and which property then fails.

## What the runs check

Each run explores its instance completely.  Distinct states: hook_nested 222,198, memory_writers
304,388, detour_nested 36,519, patch_calls 728,854, allocator_near 23,029, entrypoint_jumps 28,268,
tools 378,514 (up to symmetry where the configuration names one; symmetry is used only where the
properties are safety properties).

| run | bounds | checks |
|---|---|---|
| `hook_nested` | two `IatHook` and two `VftHook` objects, one slot, two detours, one foreign function, `assert` compiled in | `TypeOK`, `NoDanglingDetour`, `OriginalsOutlive`, `MovedFromInert`, `ReleaseNeverTraps`, and that `PointerHook` implements `InterceptPoint` (`IsInterceptPoint`) |
| `hook_vft_moved` | two `VftHook`s, no failures | a finding, below |
| `memory_writers` | three pages, two threads, regions of up to two pages, every assignment of four protections | `CopyNeverFaults`, `ProtectionRestored`, `OnlyLoosened`, `WindowCloses` |
| `detour_nested` | three objects, two functions, three trampolines, one foreign prolog, all four failing steps | `NoDanglingJump`, `OneOwnerPerTrampoline`, `ReleaseDivertsOnlyOwn`, and that `InlineDetour` implements `InterceptPoint` (`IsInterceptPoint`) |
| `patch_calls` | two objects, both `InlinePatch` or both `InlineCallback`, two patches, two callers, constructors failing at any step before the jmp is written | `NoWildExecution`, `DisplacedRunOnce`, `EnabledPatchesRun`, `MemoryFollowsOwners`, `CallsReturn` |
| `patch_dtor` | one object, one caller | a finding, below |
| `allocator_near` | four granules, one searching thread, other code taking and releasing any of them | `NearestFree`, `AllocateReturns` |
| `entrypoint_jumps` | three prolog hooks, two binary patches, two callers, four shapes of prolog, three contents | `NoWildCall`, `OriginalRunsWhole`, `JumpsLeadToLive`, `PatchReleaseInert` |
| `prolog_original` | one hook, one caller | a finding, below |
| `tools` | addresses 0–3 and three offset lists; three bytes of code, blocks of up to two; two IDs and instances, two threads; three objects, four pages; three scopes of two guards; strings of up to four of five characters; haystacks of up to three bytes; images of four pages and up to two sections; import tables of up to two descriptors with up to two imports; three staged instructions, addresses of one bit; every piece of code with every flag, arity and stack parity | `NoTornChain`, `NeverTerminates`, `ReturnsOwn`, `OneInstance`, `ThunkCallsItsOwn`, `NoPageLeaked`, `GuardsFollowExit`, `ParsersAgree`, `PatternMeansString`, `ReplacesAllMatches`, `ReadsAreThere`, `SearchAgreesWithWalk`, `EmittedOnce`, `CodeTransparent`, `CallbackReachesBound` |
| `callback_registers` | the same, smaller where other tools are concerned | a finding, below |
| `string_trim` | the same, smaller where other tools are concerned | a finding, below |

**Why the bounds are enough.**  Stacking needs two objects on one place, and a third for a move to and
from a stack of two; a page protection conflict needs two writers and, for partial overlap, regions of
two pages on three; a race needs two threads.  Trampolines and pages are handed out again after they
are freed, so that a dangling jump that happens to lead to somebody else's page is a state of its own
(`detour_nested`, `tools`).  Patches of `InlinePatch` are not reused: each stands for three
allocations, and an access to a freed one is recognised by its name.  Four granules have room for a
hint with neighbours on both sides at different distances.  Scopes are three deep so that a callable run while one exception
unwinds can enter a scope that throws and catches another.  The generated code is finite: `tools` runs
all of it, and the two ways a stack can be aligned stand for all stacks.  The pure algorithms look at neighbouring
characters, bytes, pages or list elements, and the bounds contain every combination of two of them
with something before or behind.

**What the runs show, promise by promise.**  Removing one promise from a configuration makes TLC find
the behaviour the promise excludes:

| run | promise | without it |
|---|---|---|
| `hook_nested` | `nested` | a hook's saved original is the detour of a hook that is gone (`OriginalsOutlive`) |
| | `assign_owning` | `ReleaseNeverTraps` fails (the first finding) |
| `memory_writers` | `uniform` | one writer of pages of different protections gives all of them that of the first: `VirtualProtect` reports no other (`ProtectionRestored`) |
| `detour_nested` | `nested`, `no_self_move` | a release takes out the jmp of another detour (`ReleaseDivertsOnlyOwn`, `IsInterceptPoint`) |
| `patch_calls` | `suspended` | callers run half written jmps and freed memory (`NoWildExecution`) |
| | `nested`, `no_self_move` | an enabled patch does not run (`EnabledPatchesRun`) |
| | `fits_page` | the constructor does not look at what `assemble()` returns: code that takes more than a page is not written, and the function leads to a page of zeros (`NoWildExecution`) |
| | `call_owning` | `enable()` of a moved-from patch writes through null; the process stops |
| `entrypoint_jumps` | `suspended`, `nested`, `jump_entries` | `NoWildCall`, `JumpsLeadToLive` and `OriginalRunsWhole` fail |
| | `assign_owning` | assigning over a patch without bytes ends the process (`VirtualProtect` of no bytes fails in a `noexcept` function), over one moved from reads through null (`PatchReleaseInert`) |
| `tools` | `one_link` | a chain changed in two places is followed half old, half new (`NoTornChain`) |
| | `no_guards` | a guard page's exception is not one the handlers take (`NeverTerminates`) |
| | `one_reader` | an instruction is copied out of the shared buffer after somebody else decoded into it, or decoded without details by an engine whose option is not set yet (`ReturnsOwn`) |
| | `one_binder`, `outlives` | a callback reaches an instance it was not bound to, or a dead one (`CallbackReachesBound`) |
| | `no_self_copy` | a thunk assigned to itself becomes an empty page (`ThunkCallsItsOwn`) |
| | `quiet_callables` | an exception out of a callable leaves a destructor and ends the process (`GuardsFollowExit`) |
| | `page_aligned` | the last page of a section that does not begin with one is not looked at (`ReadsAreThere`) |
| | `mapped_headers` | headers are read where there is no memory: the state of their region is not looked at (`ReadsAreThere`) |
| | `valid_index` | a negative index passes the check against the number of sections and leads in front of them (`ReadsAreThere`) |
| | `no_empty_lists` | the iterator steps on an import of a descriptor that has none |
| | `prefix_only` | the postfix increment returns the end: a walk that uses it sees none of the imports (`SearchAgreesWithWalk`) |
| | `big_buffers` | a buffer that is too small loses the text (`EmittedOnce`; the TODO of `Assembler.cpp`) |
| | `scalar_results` | a result of class type is passed as one argument more, behind `this`: all arguments of the member function are off by one (`CodeTransparent`) |
| | `no_rip` | displaced instructions that address relative to `rip` read elsewhere in the page (`CodeTransparent`) |
| | `aligned` | the callback is called with a stack that is not aligned, as at every function's entry (`CodeTransparent`) |

**Deadlock** is checked in `allocator_near`, `patch_calls` and `patch_dtor`.  The other configurations say
`CHECK_DEADLOCK FALSE`, because there the process may end (a `noexcept` destructor that throws, an
assertion, a faulting copy) or a pure computation is finished.

**Fairness.**  `memory_writers`: a thread that has unprotected a page is scheduled again (weak fairness
of its copy and its reprotection; nothing in the function blocks).  `patch_calls`: the owner's operation
and each call, once begun, go on when they may run; callers never wait for the owner except while it has them
suspended.  `allocator_near`: the searching thread is scheduled; that it *succeeds* is not assumed.
`AllocateReturns` therefore says: as long as some granule stays free, the search ends.  No run assumes
fairness of a client: nobody needs to enable, release or destroy anything.

**What the properties except.**  `NoDanglingJump` excepts functions whose detour's constructor threw
because giving the page its protection back failed, *after* the jmp was written: the code does leave a
jmp to a freed trampoline there (history variable `spoiled`).  `patch_calls` leaves the same failure out
(`Failing` does not contain `jump`): with it, `NoWildExecution` fails.  `ReleaseDivertsOnlyOwn` excepts functions
other libraries wrote, which an unconditional restore overwrites.  `IsInterceptPoint` of the detours sees both kinds of function
as outside code from then on (`Seen`); of their trampolines it still says who owns them.  `ProtectionRestored` and
`CopyNeverFaults` except pages two threads wrote at once (`disturbed`), for which `OnlyLoosened` says
what still holds: pages may stay writable, but never lose a right.  `CodeTransparent` excepts the
flags behind a patch, which are not saved, and xmm0, xmm1 and xmm14 behind a callback, which
`RegistersRestored` is about.  `GuardsFollowExit` counts a scope entered while an exception is in
flight as left by one: the guards ask `std::uncaught_exceptions()` for any exception of the thread, so a
`ScopeSuccess` in a function that a destructor calls during unwinding does not run (`ScopeExit.h:35`).

## What the code does that its documentation does not say

Five runs are expected to find a violation.

- `hook_vft_moved`: `VftHook::operator=` calls `disable()` without asking `isValid()` (`Hook.h:239`), so
  assigning to a moved-from hook reads a null pointer; `IatHook::operator=` asks (`Hook.h:133`).
- `patch_dtor`: the members of `InlinePatch` are destroyed in reverse order, so code and flag are freed
  while the function still leads to them (`InlinePatch.h:27`); a caller that is not suspended by the
  client runs freed memory.
- `prolog_original`: the thunk of `PrologHook` runs the displaced instructions only through a jmp
  (`PrologHook.cpp:26`): for any other prolog `invokeOriginal` leaves them out.
- `callback_registers`: `popAll` loads xmm14 a second time from the slot of xmm11, which nothing restores
  (`InlineCallbackHook.h:49`); and the callback is called without the home space its convention lets it
  write, so that it may change what xmm0 and xmm1 are restored from.
- `string_trim`: `trim()` cuts one character too many, and leaves a string of whitespace as it is
  (`StringUtil.cpp:21`).

More that no run reports:

- The postfix `ImportIterator::operator++` returns an end iterator instead of the old value, although the
  class asserts that it is a forward iterator (`ImageView.h:218`); it does advance.  The promise
  `prefix_only` is about it.
- A `BinaryPatch` whose bytes took effect is never taken back, as `isEnabled()` compares the function with
  the bytes *before* the patch (`BinaryPatch.cpp:44`; `PatchReleaseInert` holds because of it).
- `InlinePatch` ignores that its code did not fit into the page (`InlinePatch.cpp:50`), which
  `InlineDetour` looks at for its trampoline (`InlineDetour.cpp:67`).
- At the entry of a function the stack is not aligned as the convention requires for calls, and the
  callback frame does not align it: the promise `aligned` excludes the usual place for a callback.
- `Instruction` copies the opcode up to its first zero byte, which `add` and the escape `0F 00` have themselves
  (`Instruction.cpp:26`); and the comment over `createFromMappedImage` speaks of throwing where it returns
  no value.

## What is proved

Every theorem holds for any number of objects, slots, functions, pages, threads, callers and granules, and
for data of any length.  Its hypotheses are the client promises it names, no others, and the named
assumptions on constants: that the kinds of values are disjoint and numbers are naturals
(`HookAssumption`, `MemoryAssumption`, `AllocatorAssumption`, `DetourAssumption`, `PatchAssumption`,
`PrologAssumption`, `BytesAssumption`), and `ToolsAssumption`, which also gives the data of the pure parts
the types the code gives them: texts are sequences, a digit has a value below 16 and "?" is none, sections lie
on pages, the region of the headers is not empty and the fixed part of the NT headers no longer than all of
them, and a walked image has at least one import descriptor.

Of the properties of passing runs, the liveness properties alone have no theorem.

| module | theorems | promises needed |
|---|---|---|
| `PointerHookProofs` | `TypeOK`, `MovedFromInert` | none |
| | `NoDanglingDetour`, `OriginalsOutlive`, `IsInterceptPoint` | `nested` |
| | `ReleaseNeverTraps` | no `VftHook`s, or `assign_owning` |
| `ProtectedMemoryProofs` | `CopyNeverFaults` | none |
| | `ProtectionRestored`, `OnlyLoosened` | `uniform` |
| `NearAllocatorProofs` | `NearestFree` | none |
| `InlineDetourProofs` | `OneOwnerPerTrampoline` | none |
| | `NoDanglingJump` | `nested` |
| | `ReleaseDivertsOnlyOwn`, `IsInterceptPoint` | `nested`, `no_self_move` |
| `SharedEntrypointProofs` | `JumpsLeadToLive` | `nested` |
| | `OriginalRunsWhole` | `jump_entries` |
| | `NoWildCall` | `suspended`, `nested`, `jump_entries` |
| | `PatchReleaseInert` | `assign_owning` |
| `InlinePatchProofs` | `MemoryFollowsOwners`, `DisplacedRunOnce` | none |
| | `NoWildExecution` | `suspended`, `nested`, `fits_page`, and `jump` does not fail |
| | `EnabledPatchesRun` | these and `no_self_move` |
| `ToolsProofs` | `OneInstance`, `NoPageLeaked` | none |
| | `ThunkCallsItsOwn` | `no_self_copy` |
| | `CallbackReachesBound` | `one_binder`, `outlives` |
| | `NeverTerminates` | `no_guards` |
| | `EmittedOnce` | `big_buffers` |
| | `CodeTransparent` | `scalar_results`, `no_rip`, `aligned` |
| `InductionProofs` | `NoTornChain` | `one_link` |
| | `ReturnsOwn` | `one_reader` |
| | `ReadsAreThere` | `page_aligned`, `mapped_headers`, `valid_index` |
| | `GuardsFollowExit` | `quiet_callables` |
| | `SearchAgreesWithWalk` | `no_empty_lists`, `prefix_only` |
| | `PatternMeansString`, `ParsersAgree`, `ReplacesAllMatches` | none |

Four theorems more say that the state of `ProtectedMemory`, `InlineDetour`, `SharedEntrypoint` and `InlinePatch` is
well typed.

### Along which argument

**Hooks** (`PointerHookProofs`).  `Shape` (types, moved-from objects own no slot, owners have all pointers)
needs no promise.  `NoDanglingDetour` is not inductive: a release writes what the hook *saved*, so `HookInv`
adds `OriginalsOutlive`, what each hook saved is outside code or the detour of *another* live hook of the
slot.  The work is in `ReleaseKeeps` (giving up a hook restores something still answered for, and nobody else
saved its detour) and in the moves, which must carry the duty without breaking the witnesses of others.
`ImplementsInterceptPoint` maps a slot to a point and the owners of detours to the handlers of `InterceptPoint`:
every step of the hooks is one of its steps or is not seen by it.

**Page protection** (`ProtectedMemoryProofs`).  A writer's copy is inside its region (`WriterInv`); an undisturbed
region is writable and has one writer, and a region is disturbed as a whole or not at all (`WindowInv`); what
a writer saved of an undisturbed page is the page's own protection (`SavedInv`), and of any page that or the
window's (`LoosenedInv`).

**The allocator** (`NearAllocatorProofs`).  The displacements 0, 1, -1, 2, -2 ... are given a rank that each probe
raises by one (`ProbeOrder`), that is injective (`RankInjective`) and monotone in the distance
(`RankDistance`); `SearchedInv` says that nothing that stayed free has a lower rank than the next probe.

**Detours** (`InlineDetourProofs`).  `Shape` says that an object holds saved instructions exactly if it holds a
trampoline, and that trampolines have one owner; it survives every failing step, so memory is never leaked or
freed twice.  `JumpInv` adds what a release will write back (`SavedOutlive`), as for hooks.  For
`ReleaseDivertsOnlyOwn` the opposite direction is needed as well: *every* live trampoline is reached, from the
function's start or from what another detour saved (`EveryJumpKept`), so that the only detour nested order lets
go is the one the function starts with.

`DetoursImplementInterceptPoint` maps functions to points and the owners of trampolines to the owners of
handlers.  There are three kinds of step: nothing happens to where functions lead and to what is owned, one function is
led elsewhere, a trampoline loses its owner.  The last is the hard one, and needs both sides: a release writes without
looking, so that it is a step of `InterceptPoint` only because the released jmp is the one on top
(`ReleasedIsOnTop`, from `StackInv`) and what it uncovers has an owner besides (`SavedOutlive`, from `JumpInv`).  A
release that ends the process on the way is a step of its own (`InterruptedMaps`).  No step need succeed: no hypothesis is
about `Failures` or `Foreign`.

**Prolog hooks and binary patches on one function** (`SharedEntrypointProofs`).  `LiveInv`: no other hook displaced the
jmp of one that is being made or destroyed (`BusyUncovered`).  `RunInv`: what was displaced is a jmp the
thunk follows, and a call that is not at the bottom of the stack has run nothing.  `CallInv`: hooks come and go only
while no call is on its way.  `PatchReleaseInert` needs
only `Shape`, and that a patch compares the function with the bytes it saved before it writes those back.

**Inline patches** (`InlinePatchProofs`).  Here an operation is a sequence of steps between which calls run, so the
invariant talks about the steps *left*.  `Shape`: which remainders there are, that the operation's patch has an owner
unless the operation ends with its memory gone, and that memory is mapped exactly if its patch has an owner who
has not yet to allocate it, or it is still to be freed (`MappedAsLeft`).  `WildInv` adds that what the function
starts with and what every patch displaced stands for something owned (`SavedStand`, `HeadStands`, `NewIsUnseen`),
and that calls are inside generated code only while no operation is in progress (`CallersSafe`).
`EnabledInv` adds a ghost: there *is* a sequence of patches, the stack a call goes down through (`StackInv`), of
which a call at a patch has passed exactly those above, with an effect of each that was enabled all along and of none
that was never enabled (`OnItsWay`, `FlagsKnown`).  The steps that push, pop, rename or toggle each provide
the new sequence.

**The parts of `Tools`.**  A behaviour uses one part, so a step is a step of one part or leaves it alone
(`OneToolAtATime`), and each part has an invariant of its own.  `ToolsProofs` has those without data of unbounded length:
the objects that own the lock are those not moved from, at most one, and it is locked exactly if there is one
(`UniqueInv`); the mapped pages are the thunks' pages, each with one owner (`PagesOwned`); at most one thread is between
check and bind, and then its delegate is still free (`CallbackInv`); what was pushed and not cleared is what was
emitted, followed by what is staged (`AssemblerInv`).

**Machine code** (`ToolsProofs`).  The code is followed symbolically: `CodeInv` says, for each place and in front of each
instruction there, what every register and every place of the stack holds, in terms of what was there at the beginning
(`Depth`, `SameBut`, `Jumping`, `OnPage`, `Shifted`).  A page of an `InlineCallback` is put together from lists of
different origin, more than seventy instructions; lemmas on concatenations (`JoinedListing`, `PatchPage`, `CallbackPage`)
say which instruction is where.  `Executed` gives each operation's effect once, `JumpStep` the four instructions by
which every piece of code leaves, and one lemma per section of the code (`SavingStep`, `StoringStep`, `CallingStep`,
`LoadingStep`, `PoppingStep`, `ShiftStep` and others) takes the invariant on by one instruction.  That pushes and pops
pair up, that slots are loaded into the registers they were stored from (all but the three the property excepts), and
that arguments move before they are overwritten, is what these steps consist of.

**Recursion and sequences** (`InductionProofs`).  The library's induction principles take a predicate, which the
installed provers cannot choose.  Two lemmas replace them, with *sets* for predicates: `LeastNatural` (every
non-empty set of naturals has a least element, from the well-foundedness of `<`) and `Induction` (a set with 0
that is closed under successor contains all naturals).  `Recursion` then shows that a function given by a first value and
a step exists, so that each recursive definition of the models satisfies its own equation, and `Staying` what its
values have in common.  With these:

- *Deep pointers.*  A walk is on the chain as it is now, or on an old way that agrees with the present one but for the
  cell that changed behind it (`WalkInv`).
- *Disassembler.*  An instruction run is consecutive, detailed, and begins where the stream was (`IsRun`); the shared
  buffer holds one for as long as its one reader copies it (`StreamInv`).
- *Image view.*  A section that passed the walk over memory regions has committed pages all along: by the walk, each
  region accounts for its part of the section, however regions are cut (`MappedIsThere`).
- *Scope guards.*  Which guards are still to run is a function of how the scope is left only if the count of exceptions
  in flight is right; `GuardInv` counts it over the stack of scopes (`Flies`), and says that each scope inside another is
  a callable exactly if that one is being left, and that an exception thrown will be stopped (`Orderly`).
- *Imports.*  The walk has passed exactly the places before the one it is at, in order (`ImportInv`), and the search
  goes over the same places.
- *Strings.*  Texts stay sequences of letters through every edit (`TextInv`), and validity of a pattern string, which
  the code decides letter by letter, is validity pair by pair (`ValidPairs`).  `replace()` is a loop whose invariant relates
  the length of what is written to the number of matches so far (`Searched`, `Written`): text between matches has
  moved by that number times the difference in length (`ShiftIs`).

## What is only model-checked

- Liveness: `WindowCloses`, `CallsReturn`, `AllocateReturns`.  TLAPS does not reason about fairness.
- The five findings, which are counterexamples.

## What is not modelled

- `Process`, `Exception`, `Debug`, `Define`, `Unreachable`, `LambdaTraits`: single calls to Windows, texts,
  macros and compile-time types, without state or order.  Of `Cast` and `Numeric` only `domain_cast`, as the
  assembler uses it; `sign_cast` and `negate` are an expression each, the others casts of the compiler.
- Of `Disassembler`: the text of an `Instruction`.  Of `Assembler`: encodings and the formatting of
  immediates; a staged instruction is what it is.
- Of the generated code: the instructions inside what it calls, and the widths of operands.
- Of `Allocator`: sizes above a granule.  Of `BinaryPatch`: patches of different lengths on one function.
- Instruction caches and the tearing of a jmp below the level "part of it is written".

## Plan

1. Inline patches and prolog hooks on the same function in one module, with the abstract promise of
   `InterceptPoint` for the function, as `PointerHook` has it for a slot.
2. Prove safety while protection calls fail in the middle of `InlinePatch`'s operations, for the states where the code is
   right (`Failing` containing `jump`).
