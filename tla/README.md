# TLA+ models of uefi-rs: device paths, their text conversion, the test disk

This directory holds TLA+ models of three parts of the repository, with
model-checking configurations for TLC and TLAPS proofs:

- the device-path subsystem of `uefi`, `src/uefi/src/proto/device_path/mod.rs`, with its unit tests;
- the text conversion of device paths in the same file, and the `crate::Error` it returns (`src/uefi/src/result/error.rs`);
- the MBR test disk of the xtask runner, `src/xtask/src/disk.rs`.

Every definition was written from those files. A few things live outside
`src/` and were taken from the UEFI specification instead:

- the tag values of `uefi-raw`'s `DeviceType` and `DeviceSubType`;
- the firmware's boot services and the DevicePathToText protocol;
- the test runner that changes the test disk. It is modelled from what `check_mbr_test_disk` requires of it.

All of these are marked `spec_modelled` in `PROJECT.json`.

## The system

A device path is a packed run of nodes in memory. Each node starts with a
4-byte header: a `u8` type, a `u8` sub type and a `u16` little-endian
length that counts the header. The payload follows. An END node
(type `0x7F`) ends an *instance*. Sub type `0x01` (END_INSTANCE) means
more instances follow, and `0xFF` (END_ENTIRE) ends the whole path. The
code has these parts:

| Part | Code (mod.rs) | What it does |
|---|---|---|
| Header Reader | `DevicePathHeader`, its `try_from` (110–133) | reads a header if 4 bytes are there |
| Node View | `DevicePathNode`, `from_ffi_ptr`, accessors, `try_from` (159–280) | a node of `length - 4` payload bytes |
| Path View: size | `size_in_bytes_from_ptr` (383–397), `size_in_bytes_from_slice` (408–426), `try_from` (515–525), `ProtocolPointer` (369–377, 670–681) | walks node to node to find the path's extent |
| Path View: iteration | `node_iter`, `instance_iter` (447–465), `DevicePathInstance::node_iter` (296–310) | entry points |
| Iteration Engine | `DevicePathInstanceIterator::next` (544–586), `DevicePathNodeIterator::next` (605–635), `StopCondition` | one stepping algorithm under three stop policies |
| Owned copies | `as_bytes`, `to_boxed`, `ToOwned`, `PartialEq` (467–534) | a byte copy of the extent, transmuted to `Box<DevicePath>` |
| Text conversion | `to_string` (231–250, 482–501), `open_text_protocol` (726–746), `DevicePathToTextError` (692–724) | three firmware calls, with the first failure mapped to an error variant |

The parts interact in this order:

1. A path is built in one of two ways:
   - the *trusted* way, from a firmware pointer, which walks until END_ENTIRE with no bound;
   - the *safe* way, from a byte slice, which walks with bounds checks and returns `Err(InvalidLength)` on bad input.
2. Iterators are then taken over the path's bytes:
   - `DevicePath::node_iter` stops at END_ENTIRE (`EndEntireNode`);
   - the instance iterator measures each instance with a `NoMoreNodes` node iterator, up to and including the first END-type node, and then calls `split_at`;
   - `DevicePathInstance::node_iter` stops at any END node (`AnyEndNode`).

   Each iterator keeps its own cursor over the same immutable bytes, so a
   caller may interleave them in any order.

   None of the iterators re-checks lengths. They call the unchecked
   `from_ffi_ptr`, and they rely on the earlier walk.
3. `to_string` on a node or a path does not read its bytes. It calls, in order:
   - `locate_handle_buffer(ByProtocol(DevicePathToText))`;
   - `open_protocol(GetProtocol)` on the first handle;
   - the protocol's conversion function.

   It returns at the first failure. The firmware is shared with other images
   (drivers, event notifications), which may install or uninstall the protocol
   between any two of these calls.

The xtask test disk is a separate host-side program. `cargo xtask run`:

1. creates a 10 MiB image with an MBR and a FAT partition holding
   `test_dir/test_input.txt` (`create_mbr_test_disk`);
2. boots the test runner in a VM, and the runner creates
   `new_test_file.txt` and deletes the input file;
3. reads the image back (`check_mbr_test_disk`).

## Modules

| Module | Models | State |
|---|---|---|
| `DevicePathHeader` | Header Reader and Node View as operators over `buf` (the memory; offset `o` is `buf[o+1]`). Constants: `Inputs` (the memories), `OverflowChecks` (debug or release build) | `buf` |
| `DevicePathSafeSize` | `size_in_bytes_from_slice` and `try_from`; one action per loop exit: `SafeReject` (either `Err` return), `SafePanic` (underflow at line 178 in a debug build), `SafeEnd` (break at END_ENTIRE), `SafeAdvance` (re-slice) | `safe = [st, pos, total]` |
| `DevicePathTrustedSize` | `size_in_bytes_from_ptr`: `TrustedOutOfBounds` (header read outside the memory, undefined behaviour), `TrustedPanic`, `TrustedEnd`, `TrustedAdvance` | `trusted = [st, ptr, total]` |
| `DevicePathSize` | the two walks over the same memory, interleaved | `buf, safe, trusted` |
| `DevicePathChain` | the reference reading of a window as nodes laid end to end (`Chain`), used by the properties; not a translation of the code | |
| `DevicePathTryFrom` | abstract specification of `try_from`: one step from pending to the `Outcome` the reference chain decides (`Ok` at the first end-entire node, `Err` at the first misfit, a trap at the first underflow), no step when the chain ends in an accepted zero-length node | `res` |
| `DevicePathTryFromRefinement` | the refinement mapping `SafeResult` (pending while the loop runs, then its result) and `TryFromRefinement == TryFrom!TryFromSpec` | |
| `DevicePathView` | the safe walk, then `PathNodeIter`, `InstanceIter`, `PathNodeNext`, `InstanceNext`, `InstanceNodeNext(k)` | `pn`, `inst`, `inodes` (records of window, policy and what has been yielded) |
| `DevicePathUnitTests` | the unit tests of mod.rs: `add_node`, `create_raw_device_path`, `check_node`, the nodes `test_device_path_nodes` and `test_device_path_instances` expect, and the slices of `test_device_path_node_from_bytes`. Each test's assertions are a property over the state of `DevicePathView` | (that of `DevicePathView`) |
| `DevicePathToText` | text conversion. Actions: `NodeToString`, `PathToString` (entry), `LocateHandleBuffer`, `OpenProtocol` (the two calls of `open_text_protocol`), `ConvertNode`, `ConvertPath` (the conversion and `map_err`). Firmware actions: `Install`, `Uninstall`. The refinement mapping `CallPending` (the conversion asked for while a call runs) and `ToStringRefinement == TextCall!CallSpec`. Constant: `Handles` | `providers` (handles with the protocol), `call` (`pc`, target, located handle, a history of the firmware's answers), `result` |
| `DevicePathToTextError` | the values `to_string` returns: `Error::new`, `status`, `split`, `From<Status>`, the `DevicePathToTextError` variants with `source`, and `Ok` | |
| `DevicePathToTextCall` | abstract specification of a `to_string` call: `CallStart`, then one `CallReturn` step with a value of `Replies` (the text asked for, `OutOfMemory`, `CantLocateHandleBuffer` with `NOT_FOUND` exactly when no handle has the protocol, `CantOpenProtocol` only while some handle lacks it), and `ProvidersChange` for other images | `providers`, `pending`, `result` |
| `XtaskTestDisk` | `create_mbr_test_disk` with `init_fat_test_partition`, `check_mbr_test_disk` (`CheckVerdict`: the `?`s and `assert_eq!`s in order), the runner's four steps, `VmExit` (unflushed FAT data is lost), `NextRun`. Constant: `MaxRuns` | `disk` (partition entry 1, FAT range, label, files, contents of the new file), `xtask` (run, pc, result), `cache`, `done` |
| `DevicePathSafeSizeProofs`, `DevicePathSizeProofs`, `DevicePathToTextProofs`, `XtaskTestDiskProofs` | TLAPS proofs about `DevicePathSafeSize`, `DevicePathSize`, `DevicePathToText` and `XtaskTestDisk` | |
| `MC_DevicePathInputs`, `MC_DevicePathSize`, `MC_DevicePathSafeSize`, `MC_DevicePathView`, `MC_DevicePathToText` | inputs and instances for TLC | |

Notes on the modelling:

- Conversions are modelled by what they do:
  - the `u16` length is `lo + 256*hi`;
  - the payload length of `from_ffi_ptr` underflows below 4, and either panics (debug) or wraps (release; `OverflowChecks = FALSE`);
  - an iterator's step is the whole `next()` call: header read, stop test, re-slice, and the panic of `nodes[node_size..]` when the node runs past the window.
- The instance size loop (550–564) is a recursive function over the cursor, `InstanceScan`. It reuses the same `NodeIterNext` step with `NoMoreNodes`.
- An unchecked header read is undefined behaviour when it falls outside `buf` (the trusted walk) or past the end of the slice the iterator borrows (`nodes`, the path or the instance). It is a state of its own (`"ub"`) and is never given a value.
- The text conversion keeps all of `open_text_protocol`'s control: each `?`, the `.first().ok_or(NoHandle)`, and which `map_err` applies. The converted path is abstracted to which function is called (`"NodeText"`/`"PathText"`). A `Status` is its name. The `CString16` copy is the text it copies. The firmware answers as the UEFI specification says:
  - `LocateHandleBuffer` gives `NOT_FOUND` when no handle has the protocol, and never an empty buffer. It may also fail with `OUT_OF_RESOURCES`, and it returns the matching handles in any order;
  - `OpenProtocol(GET_PROTOCOL)` fails with `UNSUPPORTED` exactly when the handle lacks the protocol. A handle whose last protocol was uninstalled no longer exists, and UEFI then answers `INVALID_PARAMETER`; `OpenAnswer` gives `UNSUPPORTED` for it as well. This changes only the status inside `CantOpenProtocol`, never which variant `open_text_protocol` returns or whether it returns early, so the properties of the text conversion are not affected;
  - a conversion may return NULL.
- The code's checks in sequence (`if`, `?`, `match` arms tried in order) are written as `IF ... ELSE IF`, in the code's order. A TLA+ `CASE` whose arms overlap would choose among the true arms, which the code does not.
- The test disk is abstracted to what the two xtask functions read and write: partition entry 1 (`starting_lba`, `sectors`), the byte range it gives, the FAT volume's range and label, the set of files, and the new file's contents. `mbrman` and `fatfs` are taken to do what their calls say. The arithmetic of the byte range is kept, in unbounded integers, as on a 64-bit host.

## Runs

| Run | Cfg | Checks | Result |
|---|---|---|---|
| size_debug | `MC_DevicePathSize.cfg` | `SafeSizeWellFormed`, `SizesAgree`, `SafeExtentHoldsTerminator`, `TryFromRefinement` | passes, about 490k distinct states |
| size_release | `MC_DevicePathSize_release.cfg` | `TypeOK`, `SizesAgree`, `TryFromRefinement` | passes, about 574k distinct states |
| safe_panics_debug | `MC_SafePanics.cfg` | `SafeNeverPanics` | **violated**: `<<1,1,0,0>>` panics |
| safe_hangs_release | `MC_SafeHangs.cfg` | `SafeTerminates` (under weak fairness) | **violated**: the same bytes loop forever |
| view_debug | `MC_DevicePathView_debug.cfg` | `PathNodeIterSound`, `InstancesPartitionPath`, `InstanceNodeIterSound`, `TestDevicePathNodes`, `TestDevicePathInstances`, `TestNodeFromBytes` | passes, about 34k distinct states |
| view_release | `MC_DevicePathView_release.cfg` | the same | passes, about 65k distinct states |
| view_short_end_release | `MC_ViewShortEnd.cfg` | `PathNodeIterSound` | **violated**: the path from `try_from(&[0x7F,0xFF,2,0])` is 2 bytes long (TLC's trace takes `[0x7F,0xFF,1,0]`, a 1-byte path) and `node_iter` reads a 4-byte header from it |
| view_spec_nodes | `MC_ViewSpecNodes.cfg` | `PathNodesExcludeTerminators` | **violated**: END_INSTANCE is yielded |
| to_text | `MC_DevicePathToText.cfg` | `TypeOK`, `ToStringReportsFirstFailure`, `ReturnedValueKept`, `ToStringRefinement` | passes, 252 distinct states |
| to_text_no_handle | `MC_ToTextNoHandle.cfg` | `NoProviderGivesNoHandle` | **violated**: with no provider the result is `CantLocateHandleBuffer(NOT_FOUND)` |
| to_text_cant_open | `MC_ToTextCantOpen.cfg` | `CantOpenOnSupportingHandle` | **violated**: the located handle is uninstalled before `open_protocol` |
| test_disk | `XtaskTestDisk.cfg` | `TestDiskVerdict` | passes, 121 distinct states |

What the properties say:

- `SafeSizeWellFormed`: when the safe walk returns `Ok(total)`:
  - its last node starts inside the slice;
  - that node is END/END_ENTIRE;
  - it ends exactly at `total`, and `total` is at most the slice length.
- `SafeExtentHoldsTerminator`: the extent returned holds the END_ENTIRE node's whole header. It holds in a debug build only.
- `TryFromRefinement`: the loop implements the one-step `DevicePathTryFrom` specification under the mapping `SafeResult`. This is checked in both builds. Trusted-walk steps are stutters of it.
- `SizesAgree`: when both walks have returned, the safe one succeeds exactly when the trusted one does and stays in the memory, and then both give the same size.
- `PathNodeIterSound` and `InstanceNodeIterSound`: an iterator never panics or reads past the slice it borrows. What it has yielded is a prefix of the reference chain (`Chain`: nodes laid end to end by their declared lengths) without its terminator. Once it returns `None` it has yielded all of it.
- `InstancesPartitionPath`: the yielded instances are:
  - adjacent windows from offset 0;
  - each non-empty, each ending at its first END-type node;
  - when `remaining_path` is `None`, their chains put together give the path's chain.

- `TestDevicePathNodes`, `TestDevicePathInstances`, `TestNodeFromBytes`: the assertions of the unit tests of the same names, on `create_raw_device_path` built as `add_node` builds it. The model's walk and iterators agree with the code on the examples the code was tested with.
- `ToStringReportsFirstFailure`: every value `to_string` returns names the first firmware call that failed:
  - `CantLocateHandleBuffer` and `CantOpenProtocol` carry that call's status (through `source()` and `split`/`status`), and no later call was made;
  - `NoHandle` follows a successful locate;
  - `OutOfMemory` follows a successful open;
  - `Ok` holds the text of what the caller passed, node or path.
- `ReturnedValueKept` (an action property): a value `to_string` returned is never changed by a later firmware call, install or uninstall. Only the start of the next call clears it. So each `?` of `open_text_protocol` really ends the call.
- `ToStringRefinement`: `to_string` implements `DevicePathToTextCall` under the mapping `CallPending`. The first line of a call is the abstract start. The step where a firmware call fails, or the conversion answers, is the abstract return. The two firmware calls that succeed are stutters. So a call returns exactly once, with a value the current providers allow, and it never returns `NoHandle`.
- `NoProviderGivesNoHandle` and `CantOpenOnSupportingHandle` state the doc comments of `DevicePathToTextError::NoHandle` and `CantOpenProtocol`. Both are violated (findings 5 and 6).
- `TestDiskVerdict`: in every xtask run, `create_mbr_test_disk` never panics (the partition lies inside the image). `check_mbr_test_disk` passes exactly when this run's runner created, wrote and closed the new file and deleted the input file. So a runner stopped half-way, or data left in the FAT driver's cache, is caught, and no run passes on an earlier run's image.

Each property of a passing run has a mutant in `PROJECT.json`, a plausible
bug that TLC catches. The mutants:

- ending at any END node;
- forgetting the end node's length;
- summing payload lengths;
- swapping stop-policy arms;
- testing END before adding its length;
- a wrapping payload-length subtraction in a debug build;
- `try_from` rejecting a node that fills the slice exactly;
- the node's `to_string` calling the path conversion;
- `OutOfMemory` carrying a status (caught by `TypeOK` and by `ToStringRefinement`);
- the error of `locate_handle_buffer` not returned early, so that `open_protocol` still runs;
- `check_mbr_test_disk` skipping the check that the input was deleted.

### Bounds and inputs

- `MC_DevicePathInputs` gives every prefix of every concatenation of up to 3 nodes:
  - types: END, 1;
  - sub types: END_INSTANCE, END_ENTIRE;
  - declared lengths: 0, 2, 4, 6;
  - payload: none, or two bytes that read as an END_ENTIRE header when a wrong length lands on them.

  That covers truncated headers, truncated nodes, lengths below the header size, lengths past the slice, misaligned successors and memories with no end node (72,935 memories).
- `MC_DevicePathView` takes up to three pieces followed by one of two END_ENTIRE nodes (4 or 6 bytes), plus an optional trailing byte. The pieces are:
  - a plain node;
  - a node whose payload looks like an end node;
  - END_INSTANCE;
  - END with an unknown sub type;
  - a blob declaring length 2, whose successor's header overlaps it (accepted only in a release build).

  That gives up to three instances, and instance windows that end before the buffer does. `view_debug` adds the unit tests' fixture, a 36-byte path of two instances of two nodes each.
- `MC_DevicePathToText` has three handles, as model values under symmetry, and any initial set of providers. Three is the least number with which a located buffer can list two providers while a third handle is installed or uninstalled during the call. Calls repeat without bound, so every interleaving of one call's three steps with installs and uninstalls is explored.
- `XtaskTestDisk` runs `MaxRuns = 4` xtask runs. In each, the runner stops after any prefix of its steps. Runs after the first start on the previous run's image, which is what `TestDiskVerdict`'s clause on earlier runs is about.

Each walk step consumes at least one node, so 3 nodes cover every branch of
each loop: first node, middle node, end node, and a failure after progress.

### Fairness

Only `safe_hangs_release` uses fairness: `WF` on the walk's steps. The walk
is a plain loop on the caller's thread with nothing to wait for, so it keeps
stepping while it can. The iterator runs have no fairness, because a caller
may stop calling `next()` at any time. The text conversion has no fairness either,
since nothing in it is required to happen. Deadlock checking is off in the
runs where the system really stops: both walks have returned, every iterator
is exhausted, or xtask has checked its last run. It stays on for the text
model, where another call can always start.

## What is proved (TLAPS)

`DevicePathSafeSizeProofs` proves three theorems for every set of memories
(`InputsAssumption`):

- `SafeTypeCorrect`: `SafeSpec => []SafeTypeOK`, for either build;
- `SafeSizeCorrect`: `SafeSpec => []SafeSizeWellFormed`, for either build;
- `SafeTerminatorInExtent`: `OverflowChecks => (SafeSpec => []SafeExtentHoldsTerminator)`, for the debug build.

`SafeSizeWellFormed` alone is not inductive, because it says nothing while
the loop runs. The inductive invariant `SafeInv` adds `LoopOffsetIsTotal`:
while the loop runs, the remaining slice starts exactly `total` bytes into
the original (`pos = total`).

With that, a node accepted against the remaining slice has
`pos + length <= Len(buf)`, by lemma `AcceptedNodeFits`. That lemma rests on
`LengthAtNat`, that a header inside the memory has a natural-number length.
So the new total stays in the slice, and an END_ENTIRE step closes the
extent exactly.

The step proof has one case per action. The first two theorems follow by
PTL from `SafeInitInv` and `SafeNextInv`.

`DevicePathSizeProofs` proves `SizeTypeCorrect`: `Spec => []TypeOK` for
`DevicePathSize`, the two walks interleaved, for every memory and either
build. This is the `TypeOK` that `size_release` checks. The inductive
invariant is `SizeInv == SafeInv /\ TrustedTypeOK`:

- a safe step is a step of `SafeNext`, so `SafeNextInv` applies;
- a trusted step leaves `safe` and `buf` alone, which is a stutter of the
  safe walk. It keeps `TrustedTypeOK` (lemma `TrustedStepTypeOK`) because it
  only adds the length of a header it has just read inside the memory, and
  `LengthAtNat` makes that a natural number. The lemma needs
  `buf \in Seq(Byte)`, which comes from `SafeInv`.

For the debug build, `SafeInv` is conjoined with `TerminatorLength`: when
the loop has returned `Ok`, the closing node declares at least 4 bytes.
`TerminatorLengthStep` shows it is preserved. Only `SafeEnd` can establish
it, and that step required `~FromFfiPtrPanics`, which in a debug build is
`LengthAt >= 4`. Then `pos + length = total` from `SafeSizeWellFormed`
gives the theorem.

`DevicePathSizeProofs` also proves `SizesAgreeCorrect`:
`Spec => []SizesAgree`, for every memory in `Inputs` and either build. This
is the `SizesAgree` that `size_debug` and `size_release` check.
`SizesAgree` speaks only of two finished walks, and the walks advance
independently: either may be any number of nodes ahead of the other. The
inductive invariant `AgreeInv` relates them without `Chain`:

- `WalksInStep`: there is a run `s` of offsets, each node starting where the
  last one's declared length ends (`NodeRun`), from the walk behind to the
  walk ahead. The walk ahead has gone past every node of the run but the
  last: `TrustedPasses` (a header inside the memory, no trap, not
  END_ENTIRE) when the trusted walk leads, `SafePasses` (accepted, no trap,
  not END_ENTIRE) when the safe walk leads. A run of one node means both
  stand at the same node;
- `SafeDecided` and `TrustedDecided`: a walk that has returned did so
  because of the node where it stands, and the trusted total equals the
  pointer while that walk runs;
- `SizeInv`.

A walk's advance shortens the run by one node when that walk is behind
(the witness is `Tail(s)`, or a two-node run the other way round when they
stood together). It lengthens the run by one node when that walk is ahead
(`Append`). Lemmas `SafeAdvanceInStep` and `TrustedAdvanceInStep` do this,
and `SafeLeadsAfter` and `TrustedLeadsAfter` carry a run across a step on
the same memory. The other steps keep both positions (`WalksKept`). The
answer follows in `AgreeWhenReturned`:

- at the same node, both walks judge the same header (`AgreeAtSameNode`);
- with the safe walk behind by two or more nodes, it stopped at a node the
  trusted walk passed. That is possible only if the safe walk returned
  `Err` because the node's length runs past the memory. The next node then
  starts past the end, so the run has exactly two nodes, and the trusted
  walk stopped with `"ub"` reading there;
- with the trusted walk behind, it stopped at a node the safe walk
  accepted, which has its header in the memory. That is impossible.

Before it was proved, `AgreeInv` was checked by TLC as an invariant of both
size instances. The run there was found by a bounded walk from one
position to the other.

`DevicePathToTextProofs` proves, for every finite set of handles and every
handle database:

- `TextTypeCorrect`: `Spec => []TypeOK`;
- `ToStringCorrect`: `Spec => []ToStringReportsFirstFailure`;
- `ReturnedKeptCorrect`: `Spec => ReturnedValueKept`;
- `ToStringRefines`: `Spec => ToStringRefinement`, that `to_string` implements `DevicePathToTextCall`.

`ToStringReportsFirstFailure` is not inductive. It speaks only of returned
values and relates them to the history of answers (`call.answers`), but
says nothing of a call in progress. From a state where the call is in
`"open"` with a failed locate recorded, `OpenProtocol` would return a
`CantOpenProtocol` that breaks it. The inductive invariant `TextInv` adds
`CallPhases`:

- a call in progress has not returned anything yet;
- it is working on a node or a path;
- in each phase the answers recorded are exactly those of the calls
  already made: none at `"locate"`; a successful locate and nothing after at
  `"open"`; a successful locate and open at `"convert"`.

TLC checks `TextInv` as an invariant of the to_text instance before it is
proved. The step proof has one lemma per action:

- `StartCallInv`;
- `LocateInv`, with one case per early return. Lemma
  `FirstHandleInDatabase` gives that a handle buffer of a non-empty
  database is non-empty and starts with a handle;
- `OpenInv`. Lemma `OpenAnswersType` keeps the recorded answers typed;
- `ConvertedInv`;
- `FirmwareInv`. Installs and uninstalls change only the database, and no
  conjunct of `TextInv` reads it.

`ReturnedKeptCorrect` follows from `TextInv` by lemma `KeptStep`. A
returned value means the call is idle (by `CallPhases`). From idle, only
`NodeToString` or `PathToString` changes `result`, and they clear it.

`ToStringRefines` is proved step by step. `Init` maps to `CallInit`, and
every step maps to an abstract step or a stutter (lemma `RefStep`). There
is one lemma per code step:

- `StartRefines`: the first line of a call is `CallStart`;
- `LocateRefines`: a failed `locate_handle_buffer` is `CallReturn`, because
  `LocateAnswers` gives `NOT_FOUND` exactly when no handle has the
  protocol. An empty buffer is impossible (`FirstHandleInDatabase`). A
  success is a stutter;
- `OpenRefines`: a failed `open_protocol` is `CallReturn` with
  `CantOpenProtocol(UNSUPPORTED)` for a handle that lacks the protocol. A
  success is a stutter;
- `ConvertedRefines`: the conversion is `CallReturn` with the text asked
  for or `OutOfMemory`;
- `FirmwareRefines`: `Install` and `Uninstall` are `ProvidersChange`.

The invariant is `RefInv == TextInv /\ HandleCopied`. `HandleCopied`
records that the handle copied out of the buffer is one of the database's.
Without it, the failed open could not be shown to name a handle of
`Handles \ providers`.

`XtaskTestDiskProofs` proves `TestDiskCorrect`: `Spec => []TestDiskVerdict`
for every number of xtask runs (`MaxRunsAssumption`). The verdict of
`check_mbr_test_disk` depends on the whole image, so the inductive
invariant `DiskInv` states the image from the VM's start on. It is
`DiskAfter(done)`: the disk `create_mbr_test_disk` wrote, plus the files and
the new file's contents that this run's runner steps put there. `DiskInv`
also says:

- the steps happen in order (`write` after `create`, `close` after `write`);
- the FAT driver's cache holds the data exactly between write and close
  while the VM runs;
- a checked run's verdict is `CheckVerdict` of the disk.

Lemma `TestPartitionFits` does the arithmetic: 10 MiB is 20480 sectors, so
partition 1 ends at the image's last byte and creating the disk never
panics. Lemma `VerdictOfDisk` evaluates `CheckVerdict` on every
`DiskAfter(ds)`: it is `"ok"` exactly when `ds` holds all four steps.

## Only model-checked

These are checked by TLC only:

- the liveness property `SafeTerminates`;
- the refinement `TryFromRefinement`;
- all iterator properties, the unit-test properties among them;
- `NoProviderGivesNoHandle` and `CantOpenOnSupportingHandle`. These are
  violated, so there is nothing to prove.

`TryFromRefinement` and the iterator properties are stated over `Chain`, a
recursive function of the memory. Using its definition in a proof needs
the theorem that such a function exists, and that theorem takes an operator
parameter, which none of the installed provers can instantiate. So what
`Chain` computes for every input is out of reach, and those properties stay
with TLC. The unit tests use
`FoldLeft` from the community modules, which reaches RECURSIVE operators,
so no theorem can be stated in their module. The liveness property and
`ENABLED` are beyond TLAPS's backends, so they stay with TLC as well.

## Not modelled

- **Owned copies** (`as_bytes`, `to_boxed`/`to_owned`, `PartialEq` of `DevicePath`, and the instance and node versions, 467–534): they copy or compare the bytes of an extent the model already computes. On the model's single byte sequence the copy is the identity and the comparison is equality, so a property about them would only restate the extent properties (`SafeExtentHoldsTerminator`, `InstancesPartitionPath`). A faithful model needs the copy as a second allocation (see the plan below).
- **`Display`/`Debug`** of every type: formatting.
- **`Error::data`** returns a field. `split` and `status` are modelled.
- **Specific node types** (`as_enum`, `end::Instance`): generated code outside `src/`, so `test_specific_node_from_device_path_node` is left out too.
- **`debug/context.rs`, `pxe.rs`**: `repr(C)` data layouts with no operation that changes state.
- **`usb/host_controller.rs`**: a stateless wrapper that passes each call to one firmware function pointer, so a model would restate the firmware. It also does not parse (unfinished `pub fn control`, line 94).
- **The file I/O of `disk.rs`**: `fs_err::write`/`read` are taken to store and return the image, and the FAT cluster counts that `init_fat_test_partition` asserts (10183/10181) are `fatfs`'s.

## Findings

1. `<&DevicePath>::try_from(&[1,1,0,0])` panics in a debug build (mod.rs:178, reached from 412). spec.md says a bad header is a decode error, never a panic.
2. In a release build the same input makes `size_in_bytes_from_slice` loop forever (mod.rs:422). The length is 0, so the slice never advances.
3. In a release build, `try_from(&[0x7F,0xFF,2,0])` returns a 2-byte `&DevicePath`: the wrapped underflow lets an END_ENTIRE node declaring 2 bytes through. A declared length of 1 (`[0x7F,0xFF,1,0]`, the input of TLC's trace; both are in `MCShortEndInputs`) does the same with a 1-byte path. `node_iter().next()` on it reads a 4-byte header from a 2-byte object (mod.rs:614), and `to_boxed` copies only the 2 bytes, so that read runs past the heap allocation. This is undefined behaviour reached from safe calls.
4. `DevicePath::node_iter` yields END_INSTANCE nodes (mod.rs:619). spec.md's two-instance scenario says whole-list node iteration gives the four non-terminator elements. The code's own test expects five.
5. `DevicePathToTextError::NoHandle` is documented as "no handle supporting the protocol", but `open_text_protocol` never returns it in that case (mod.rs:733). `LocateHandleBuffer` reports no handles with `NOT_FOUND`, which becomes `CantLocateHandleBuffer(NOT_FOUND)`.
6. `CantOpenProtocol` is documented as meaning the supporting handle exists but could not be opened. When another image uninstalls the protocol between line 730 and line 736, it is returned for a handle that no longer has the protocol, and no other handle is tried.

## Plan for later sittings

- Prove that the iterator never fails, over a non-recursive chain characterisation.
- Prove `TryFromRefinement` on a bounded characterisation of the chain.
- Model the owned copy (`to_boxed`) as a second memory, so the over-read in finding 3 shows as a read past a separate allocation.
- Prove an action property of the disk: a verdict, once given, is kept until the next run.
