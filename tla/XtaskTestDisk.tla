---------------------------- MODULE XtaskTestDisk ----------------------------
(***************************************************************************)
(* The MBR test disk of xtask/src/disk.rs.  An xtask run creates the disk  *)
(* image (create_mbr_test_disk), boots the test runner in a VM with the    *)
(* image attached, and then verifies what the runner changed               *)
(* (check_mbr_test_disk).  The runner is outside this repository; what it  *)
(* must do is read off the checks: create new_test_file.txt holding "test  *)
(* output data" and delete test_dir/test_input.txt.  It does so in steps   *)
(* through the firmware's FAT driver, which keeps written data in its      *)
(* cache until the file is closed, and the VM may stop after any step.     *)
(*                                                                         *)
(* The image is abstracted to its MBR partition entry 1, where a FAT       *)
(* volume was formatted, its label and the files the checks look at.       *)
(* mbrman and fatfs are taken to do what their calls say.                  *)
(***************************************************************************)
EXTENDS Naturals, FiniteSets

CONSTANT MaxRuns
ASSUME MaxRunsAssumption == MaxRuns \in Nat \ {0}

VARIABLES
  disk,   \* the image file: NoDisk or [mbr, fat, label, files, newData]
  xtask,  \* [run, pc, result]: the current run and where it is
  cache,  \* data the runner wrote that the FAT driver has not yet flushed
  done    \* the runner's steps in the current run (a history variable)

vars == <<disk, xtask, cache, done>>

SECTOR_SIZE == 512
NoDisk == [mbr |-> "none"]

\* The range of bytes of partition entry 1, as [start, end).
GetPartitionByteRange(mbr) ==
  [start |-> mbr.starting_lba * SECTOR_SIZE,
   end   |-> mbr.starting_lba * SECTOR_SIZE + mbr.sectors * SECTOR_SIZE]

\* &disk[range] and &mut disk[range]: in bounds, or a panic.
SliceFits(r, len) == r.start <= r.end /\ r.end <= len

(***************************************************************************)
(* create_mbr_test_disk: a zeroed 10 MiB image, an MBR whose disk_size is  *)
(* the number of whole sectors, partition 1 from LBA 1 to the last sector, *)
(* then init_fat_test_partition: format the partition as FAT labelled      *)
(* MbrTestDisk, create test_dir/test_input.txt with "test input data" and  *)
(* fixed timestamps, assert the label and that only two clusters are used. *)
(* The image is written to its path at the end, replacing any old file.    *)
(***************************************************************************)
size_in_bytes == 10 * 1024 * 1024

CreateMbrTestDisk ==
  /\ xtask.pc = "create"
  /\ LET diskSize == size_in_bytes \div SECTOR_SIZE
         mbr == [starting_lba |-> 1, sectors |-> diskSize - 1]
         r == GetPartitionByteRange(mbr)
     IN  IF diskSize >= 1 /\ SliceFits(r, size_in_bytes)
         THEN /\ disk' = [mbr |-> mbr, len |-> size_in_bytes, fat |-> r,
                          label |-> "MbrTestDisk",
                          files |-> {"test_dir", "test_dir/test_input.txt"},
                          newData |-> "none"]
              /\ xtask' = [xtask EXCEPT !.pc = "vm"]
         ELSE /\ xtask' = [xtask EXCEPT !.pc = "stopped", !.result = "create panicked"]
              /\ UNCHANGED disk
  /\ done' = {}
  /\ cache' = "none"

(* The runner's steps on the attached disk (each once, in any order). *)
RunnerCreateFile ==
  /\ xtask.pc = "vm" /\ "new_test_file.txt" \notin disk.files
  /\ disk' = [disk EXCEPT !.files = @ \cup {"new_test_file.txt"}, !.newData = ""]
  /\ done' = done \cup {"create"}
  /\ UNCHANGED <<xtask, cache>>

RunnerWriteFile ==
  /\ xtask.pc = "vm" /\ "write" \notin done /\ "create" \in done
  /\ cache' = "test output data"
  /\ done' = done \cup {"write"}
  /\ UNCHANGED <<disk, xtask>>

\* Closing the file flushes the driver's cache to the disk.
RunnerCloseFile ==
  /\ xtask.pc = "vm" /\ "write" \in done /\ "close" \notin done
  /\ disk' = [disk EXCEPT !.newData = cache]
  /\ cache' = "none"
  /\ done' = done \cup {"close"}
  /\ UNCHANGED xtask

RunnerDeleteInput ==
  /\ xtask.pc = "vm" /\ "test_dir/test_input.txt" \in disk.files
  /\ disk' = [disk EXCEPT !.files = @ \ {"test_dir/test_input.txt"}]
  /\ done' = done \cup {"delete"}
  /\ UNCHANGED <<xtask, cache>>

\* The VM exits: the runner finished, failed or was stopped; unflushed data
\* is lost.
VmExit ==
  /\ xtask.pc = "vm"
  /\ xtask' = [xtask EXCEPT !.pc = "check"]
  /\ cache' = "none"
  /\ UNCHANGED <<disk, done>>

(***************************************************************************)
(* check_mbr_test_disk: read the image and its MBR, open the FAT volume at *)
(* partition 1, then the ? and assert_eq! in order: new_test_file.txt must *)
(* open and hold "test output data", test_dir must open and hold only "."  *)
(* and "..".                                                               *)
(***************************************************************************)
\* A plausible bug: the check that the input file was deleted left out.
CheckVerdictNoDeleteCheck(d) ==
  LET r == GetPartitionByteRange(d.mbr) IN
  IF ~SliceFits(r, d.len) THEN "panic"
  ELSE IF d.fat # r THEN "err"
  ELSE IF "new_test_file.txt" \notin d.files THEN "err"
  ELSE IF d.newData # "test output data" THEN "panic"
  ELSE IF "test_dir" \notin d.files THEN "err"
  ELSE "ok"

CheckVerdict(d) ==
  LET r == GetPartitionByteRange(d.mbr) IN
  IF ~SliceFits(r, d.len) THEN "panic"
  ELSE IF d.fat # r THEN "err"
  ELSE IF "new_test_file.txt" \notin d.files THEN "err"
  ELSE IF d.newData # "test output data" THEN "panic"
  ELSE IF "test_dir" \notin d.files THEN "err"
  ELSE IF "test_dir/test_input.txt" \in d.files THEN "panic"
  ELSE "ok"

CheckMbrTestDisk ==
  /\ xtask.pc = "check"
  /\ xtask' = [xtask EXCEPT !.pc = "checked", !.result = CheckVerdict(disk)]
  /\ UNCHANGED <<disk, cache, done>>

\* The next `cargo xtask` run starts over from creating the disk.
NextRun ==
  /\ xtask.pc = "checked" /\ xtask.run < MaxRuns
  /\ xtask' = [run |-> xtask.run + 1, pc |-> "create", result |-> "none"]
  /\ UNCHANGED <<disk, cache, done>>

Init ==
  /\ disk = NoDisk
  /\ xtask = [run |-> 1, pc |-> "create", result |-> "none"]
  /\ cache = "none"
  /\ done = {}

Next ==
  \/ CreateMbrTestDisk \/ VmExit \/ CheckMbrTestDisk \/ NextRun
  \/ RunnerCreateFile \/ RunnerWriteFile \/ RunnerCloseFile \/ RunnerDeleteInput

Spec == Init /\ [][Next]_vars

-----------------------------------------------------------------------------
(***************************************************************************)
(* The test disk does what the test needs, in every xtask run: creating it *)
(* never fails (the partition lies inside the image), and                  *)
(* check_mbr_test_disk accepts exactly when the runner of this run         *)
(* created, wrote and closed the new file and deleted the input file; a    *)
(* runner stopped half-way, data left in the driver's cache among it, is   *)
(* caught, and no run passes on an earlier run's changes.                  *)
(***************************************************************************)
TestDiskVerdict ==
  /\ xtask.pc # "stopped"
  /\ xtask.pc = "checked" =>
       (xtask.result = "ok" <=> done = {"create", "write", "close", "delete"})

=============================================================================
