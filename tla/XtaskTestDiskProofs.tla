------------------------- MODULE XtaskTestDiskProofs -------------------------
(***************************************************************************)
(* TestDiskVerdict for every number of xtask runs.  It is not inductive:   *)
(* the verdict of check_mbr_test_disk depends on the whole image, so the   *)
(* invariant DiskInv says what the image is while the VM runs and after:   *)
(* the disk create_mbr_test_disk wrote, with the files and the data of the *)
(* new file that the runner's steps of this run (done) put there, and the  *)
(* driver's cache holding the written data exactly between write and       *)
(* close.  Creating the disk never panics because the partition, from LBA  *)
(* 1 to the last of 20480 sectors, ends at the image's last byte.          *)
(***************************************************************************)
EXTENDS XtaskTestDisk, TLAPS

RunnerSteps == {"create", "write", "close", "delete"}
Phases == {"create", "vm", "check", "checked"}
Verdicts == {"none", "ok", "err", "panic"}

TestMbr == [starting_lba |-> 1, sectors |-> 20479]

\* The image after the runner's steps ds of the current run.
DiskAfter(ds) ==
  [mbr |-> TestMbr, len |-> size_in_bytes, fat |-> GetPartitionByteRange(TestMbr),
   label |-> "MbrTestDisk",
   files |-> {"test_dir"}
             \cup (IF "create" \in ds THEN {"new_test_file.txt"} ELSE {})
             \cup (IF "delete" \in ds THEN {} ELSE {"test_dir/test_input.txt"}),
   newData |-> IF "close" \in ds THEN "test output data"
               ELSE IF "create" \in ds THEN "" ELSE "none"]

\* What the FAT driver has cached and not flushed.
CacheAfter(pc, ds) ==
  IF pc = "vm" /\ "write" \in ds /\ "close" \notin ds THEN "test output data" ELSE "none"

DiskInv ==
  /\ xtask \in [run : 1 .. MaxRuns, pc : Phases, result : Verdicts]
  /\ done \subseteq RunnerSteps
  /\ "write" \in done => "create" \in done
  /\ "close" \in done => "write" \in done
  /\ cache = CacheAfter(xtask.pc, done)
  /\ xtask.pc \in {"vm", "check", "checked"} => disk = DiskAfter(done)
  /\ xtask.pc = "checked" => xtask.result = CheckVerdict(disk)

\* Partition entry 1 of create_mbr_test_disk lies inside the 10 MiB image:
\* it starts at byte 512 and ends at the image's last byte.
LEMMA TestPartitionFits ==
  /\ size_in_bytes \div SECTOR_SIZE = 20480
  /\ SliceFits(GetPartitionByteRange(TestMbr), size_in_bytes)
BY DEF size_in_bytes, SECTOR_SIZE, SliceFits, GetPartitionByteRange, TestMbr

\* check_mbr_test_disk on the image the runner's steps ds left: it accepts
\* exactly when the runner took all four.
LEMMA VerdictOfDisk ==
  ASSUME NEW ds \in SUBSET RunnerSteps,
         "write" \in ds => "create" \in ds, "close" \in ds => "write" \in ds
  PROVE  /\ CheckVerdict(DiskAfter(ds)) \in Verdicts
         /\ CheckVerdict(DiskAfter(ds)) = "ok" <=> ds = RunnerSteps
<1>1. SliceFits(GetPartitionByteRange(DiskAfter(ds).mbr), DiskAfter(ds).len)
  BY TestPartitionFits DEF DiskAfter
<1>2. CheckVerdict(DiskAfter(ds)) =
        IF "new_test_file.txt" \notin DiskAfter(ds).files THEN "err"
        ELSE IF DiskAfter(ds).newData # "test output data" THEN "panic"
        ELSE IF "test_dir/test_input.txt" \in DiskAfter(ds).files THEN "panic"
        ELSE "ok"
  BY <1>1 DEF CheckVerdict, DiskAfter
<1>3. /\ "new_test_file.txt" \in DiskAfter(ds).files <=> "create" \in ds
      /\ DiskAfter(ds).newData = "test output data" <=> "close" \in ds
      /\ "test_dir/test_input.txt" \in DiskAfter(ds).files <=> "delete" \notin ds
  BY DEF DiskAfter
<1> QED
  BY <1>2, <1>3 DEF RunnerSteps, Verdicts

\* Before the first xtask run there is no image, and DiskInv holds.
THEOREM DiskInitInv == Init => DiskInv
BY MaxRunsAssumption
DEF Init, DiskInv, Phases, Verdicts, CacheAfter

\* create_mbr_test_disk writes the image DiskAfter({}) and starts the VM.
LEMMA CreateInv ==
  ASSUME DiskInv, CreateMbrTestDisk
  PROVE  DiskInv'
<1>0. /\ size_in_bytes \div SECTOR_SIZE >= 1
      /\ [starting_lba |-> 1, sectors |-> size_in_bytes \div SECTOR_SIZE - 1] = TestMbr
  BY TestPartitionFits DEF TestMbr
<1>1. /\ disk' = DiskAfter({})
      /\ xtask' = [xtask EXCEPT !.pc = "vm"]
      /\ done' = {} /\ cache' = "none"
  BY <1>0, TestPartitionFits DEF CreateMbrTestDisk, DiskAfter
<1>2. xtask' \in [run : 1 .. MaxRuns, pc : Phases, result : Verdicts] /\ xtask'.pc = "vm"
  BY <1>1 DEF DiskInv, Phases
<1>3. cache' = CacheAfter(xtask'.pc, done')
  BY <1>1 DEF CacheAfter
<1> QED
  BY <1>1, <1>2, <1>3 DEF DiskInv, RunnerSteps

\* A runner step turns the image of done into the image of done'.
LEMMA RunnerInv ==
  ASSUME DiskInv,
         RunnerCreateFile \/ RunnerWriteFile \/ RunnerCloseFile \/ RunnerDeleteInput
  PROVE  DiskInv'
<1>0. xtask.pc = "vm" /\ disk = DiskAfter(done)
  BY DEF DiskInv, RunnerCreateFile, RunnerWriteFile, RunnerCloseFile, RunnerDeleteInput
<1>1. CASE RunnerCreateFile
  <2>1. "create" \notin done /\ "write" \notin done /\ "close" \notin done
    BY <1>0, <1>1 DEF DiskInv, RunnerCreateFile, DiskAfter
  <2>2. disk' = DiskAfter(done \cup {"create"})
    BY <1>0, <1>1, <2>1 DEF RunnerCreateFile, DiskAfter
  <2> QED
    BY <1>1, <2>1, <2>2 DEF DiskInv, RunnerCreateFile, RunnerSteps, CacheAfter
<1>2. CASE RunnerWriteFile
  <2>1. "close" \notin done
    BY <1>2 DEF DiskInv, RunnerWriteFile
  <2>2. disk' = DiskAfter(done \cup {"write"})
    BY <1>0, <1>2 DEF RunnerWriteFile, DiskAfter
  <2> QED
    BY <1>0, <1>2, <2>1, <2>2 DEF DiskInv, RunnerWriteFile, RunnerSteps, CacheAfter
<1>3. CASE RunnerCloseFile
  <2>1. cache = "test output data"
    BY <1>0, <1>3 DEF DiskInv, RunnerCloseFile, CacheAfter
  <2>2. disk' = DiskAfter(done \cup {"close"})
    BY <1>0, <1>3, <2>1 DEF RunnerCloseFile, DiskAfter
  <2> QED
    BY <1>3, <2>2 DEF DiskInv, RunnerCloseFile, RunnerSteps, CacheAfter
<1>4. CASE RunnerDeleteInput
  <2>1. "delete" \notin done
    BY <1>0, <1>4 DEF RunnerDeleteInput, DiskAfter
  <2>2. disk' = DiskAfter(done \cup {"delete"})
    BY <1>0, <1>4, <2>1 DEF RunnerDeleteInput, DiskAfter
  <2> QED
    BY <1>4, <2>2 DEF DiskInv, RunnerDeleteInput, RunnerSteps, CacheAfter
<1> QED
  BY <1>1, <1>2, <1>3, <1>4

\* The VM exit, the check and the next run.
LEMMA XtaskInv ==
  ASSUME DiskInv, VmExit \/ CheckMbrTestDisk \/ NextRun
  PROVE  DiskInv'
<1>1. CASE VmExit
  BY <1>1 DEF DiskInv, VmExit, Phases, CacheAfter
<1>2. CASE CheckMbrTestDisk
  <2>1. disk = DiskAfter(done) /\ done \in SUBSET RunnerSteps
        /\ ("write" \in done => "create" \in done)
        /\ ("close" \in done => "write" \in done)
    BY <1>2 DEF DiskInv, CheckMbrTestDisk
  <2>2. CheckVerdict(disk) \in Verdicts
    BY <2>1, VerdictOfDisk
  <2> QED
    BY <1>2, <2>2 DEF DiskInv, CheckMbrTestDisk, Phases, CacheAfter
<1>3. CASE NextRun
  <2>1. xtask' \in [run : 1 .. MaxRuns, pc : Phases, result : Verdicts] /\ xtask'.pc = "create"
    BY <1>3, MaxRunsAssumption DEF DiskInv, NextRun, Phases, Verdicts
  <2>2. cache' = CacheAfter(xtask'.pc, done')
    BY <1>3, <2>1 DEF DiskInv, NextRun, CacheAfter
  <2> QED
    BY <1>3, <2>1, <2>2 DEF DiskInv, NextRun
<1> QED
  BY <1>1, <1>2, <1>3

\* Every step of xtask, the runner or the VM keeps DiskInv.
THEOREM DiskNextInv == DiskInv /\ [Next]_vars => DiskInv'
<1> SUFFICES ASSUME DiskInv, [Next]_vars PROVE DiskInv'
  OBVIOUS
<1>1. CASE CreateMbrTestDisk
  BY <1>1, CreateInv
<1>2. CASE RunnerCreateFile \/ RunnerWriteFile \/ RunnerCloseFile \/ RunnerDeleteInput
  BY <1>2, RunnerInv
<1>3. CASE VmExit \/ CheckMbrTestDisk \/ NextRun
  BY <1>3, XtaskInv
<1>4. CASE UNCHANGED vars
  BY <1>4 DEF DiskInv, vars
<1> QED
  BY <1>1, <1>2, <1>3, <1>4 DEF Next

(***************************************************************************)
(* For every number of xtask runs: create_mbr_test_disk never panics, and  *)
(* check_mbr_test_disk accepts exactly when this run's test runner         *)
(* created, wrote, closed the new file and deleted the input file.         *)
(***************************************************************************)
THEOREM TestDiskCorrect == Spec => []TestDiskVerdict
<1>1. DiskInv => TestDiskVerdict
  <2> SUFFICES ASSUME DiskInv PROVE TestDiskVerdict
    OBVIOUS
  <2>1. xtask.pc # "stopped"
    BY DEF DiskInv, Phases
  <2>2. ASSUME xtask.pc = "checked"
        PROVE  xtask.result = "ok" <=> done = {"create", "write", "close", "delete"}
    BY <2>2, VerdictOfDisk DEF DiskInv, RunnerSteps
  <2> QED
    BY <2>1, <2>2 DEF TestDiskVerdict
<1> QED
  BY <1>1, DiskInitInv, DiskNextInv, PTL DEF Spec

=============================================================================
