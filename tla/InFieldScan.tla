----------------------------- MODULE InFieldScan -----------------------------
(***************************************************************************)
(* The In-Field Scan tests (tests/ifs), which have the kernel scan one     *)
(* core after the other with a test image: the driver's files, the choice  *)
(* of the image when a test begins, and the scan of the cores.  A test is  *)
(* run again and again, and retried when it failed; each time is a new     *)
(* process.                                                                *)
(*                                                                         *)
(* Images are numbers; 0 is "none", NotApplicable is "NA" and Junk is      *)
(* what cannot be read as a number.                                        *)
(***************************************************************************)
EXTENDS Integers, Sequences

CONSTANTS
  ScanMachines,   \* the driver and its images: see machine
  ThreadIds       \* of the CPUs in order: cpu_info[].thread_id

DEFAULT_TEST_ID == 1
NotApplicable == -1
Junk == -2

VARIABLES
  machine,    \* [loadable, root : BOOLEAN, batches : BOOLEAN, images : SUBSET Nat]
  driver,     \* [loaded : BOOLEAN, current_batch : Nat, status : {"untested", "pass", "fail"}]
  stage,      \* of the test process
  attempt,    \* [retry : BOOLEAN, enforce_run, test_file : Int]; -1 is a knob that is not set
  errno,      \* of the thread that runs test_init()
  ifs_info,   \* [image_support, image_id]
  scanning,   \* CPU whose turn it is
  \* history
  failed_image,  \* the image the last attempt failed with, 0 if it did not
  probed         \* this attempt had to load the driver

scanVars == <<machine, driver, stage, attempt, errno, ifs_info, scanning, failed_image, probed>>

ScanInit ==
  /\ machine \in ScanMachines
  /\ driver \in [loaded : BOOLEAN, current_batch : {0, Junk}, status : {"untested"}]
  /\ stage = "idle"
  /\ attempt = [retry |-> FALSE, enforce_run |-> -1, test_file |-> -1]
  /\ errno = "none" /\ ifs_info = [image_support |-> FALSE, image_id |-> NotApplicable]
  /\ scanning = 1 /\ failed_image = 0 /\ probed = FALSE

\* the framework starts the test, or tries it again after a failure
BeginTest(a) ==
  /\ stage = "idle"
  /\ a.retry => failed_image # 0
  /\ attempt' = a /\ stage' = "open" /\ errno' = "none" /\ scanning' = 1 /\ probed' = FALSE
  /\ failed_image' = IF a.retry THEN failed_image ELSE 0
  /\ UNCHANGED <<machine, driver, ifs_info>>

\* open_sysfs_ifs_base(); modprobe succeeds or not
OpenBase ==
  /\ stage = "open"
  /\ driver' = [driver EXCEPT !.loaded = @ \/ machine.loadable]
  /\ errno' = IF driver.loaded THEN errno ELSE "ENOENT"
  /\ probed' = ~driver.loaded
  /\ stage' = IF driver'.loaded THEN "status" ELSE "idle"
  /\ UNCHANGED <<machine, attempt, ifs_info, scanning, failed_image>>

EnforceRun == IF attempt.enforce_run = -1 THEN attempt.retry ELSE attempt.enforce_run = 1

CheckStatus ==
  /\ stage = "status"
  /\ stage' = IF (driver.status = "fail" /\ ~EnforceRun) \/ ~machine.root THEN "idle" ELSE "batch"
  /\ UNCHANGED <<machine, driver, attempt, errno, ifs_info, scanning, failed_image, probed>>

(***************************************************************************)
(* The code looks at errno whether openat() failed or not, so an error of  *)
(* OpenBase counts as well.                                                *)
(***************************************************************************)
OpenBatch ==
  LET saved_errno == IF ~machine.batches THEN "ENOENT" ELSE errno
      support == saved_errno # "ENOENT"
  IN
  /\ stage = "batch"
  /\ ifs_info' = [image_support |-> support, image_id |-> IF support THEN ifs_info.image_id ELSE NotApplicable]
  /\ stage' = IF support THEN "load" ELSE "run"
  /\ UNCHANGED <<machine, driver, attempt, errno, scanning, failed_image, probed>>

NextTest ==
  IF attempt.test_file # -1 THEN attempt.test_file
  ELSE IF driver.current_batch = 0 THEN DEFAULT_TEST_ID
  ELSE IF driver.status = "untested" THEN driver.current_batch
  ELSE driver.current_batch + 1

\* a write to current_batch: what it may leave there
Written(image, works) ==
  IF works /\ image \in machine.images THEN {image} ELSE {0, driver.current_batch}

\* load_test_file() without a retry; an error other than ENOENT when works is FALSE
LoadTestFile(works) ==
  LET start_over == works /\ NextTest \notin machine.images /\ NextTest # DEFAULT_TEST_ID
      image == IF start_over THEN DEFAULT_TEST_ID ELSE NextTest
  IN
  /\ stage = "load" /\ ~attempt.retry
  /\ IF driver.current_batch = Junk /\ attempt.test_file = -1
     THEN stage' = "idle" /\ UNCHANGED <<driver, ifs_info>>
     ELSE /\ \E b \in Written(image, works) : driver' = [driver EXCEPT !.current_batch = b]
          /\ ifs_info' = [ifs_info EXCEPT !.image_id = image]
          /\ stage' = IF works /\ image \in machine.images THEN "run" ELSE "idle"
  /\ UNCHANGED <<machine, attempt, errno, scanning, failed_image, probed>>

\* mutant: a retry takes the next image too
KeepTestFile_next ==
  /\ stage = "load" /\ attempt.retry
  /\ \E b \in Written(driver.current_batch + 1, TRUE) \ {0} :
       driver' = [driver EXCEPT !.current_batch = b] /\ ifs_info' = [ifs_info EXCEPT !.image_id = b]
  /\ stage' = "run"
  /\ UNCHANGED <<machine, attempt, errno, scanning, failed_image, probed>>

\* load_test_file() on a retry
KeepTestFile ==
  /\ stage = "load" /\ attempt.retry
  /\ ifs_info' = [ifs_info EXCEPT !.image_id = driver.current_batch]
  /\ stage' = "run"
  /\ UNCHANGED <<machine, driver, attempt, errno, scanning, failed_image, probed>>
-----------------------------------------------------------------------------
(***************************************************************************)
(* scan_run() for one CPU after the other.  The driver has no image to     *)
(* scan with, cannot start, or gives an outcome and a code.                *)
(***************************************************************************)
Outcomes == {"pass", "fail", "untested"}
Codes == {"timeout", "unread", "other"}

CanScan == ~machine.batches \/ driver.current_batch # 0

Advance == IF scanning = Len(ThreadIds) THEN stage' = "idle" /\ scanning' = 1
           ELSE stage' = "run" /\ scanning' = scanning + 1

SkipCpu ==
  /\ stage = "run"
  /\ Advance
  /\ UNCHANGED <<machine, driver, attempt, errno, ifs_info, failed_image, probed>>

\* IFS_SW_TIMEOUT, IFS_SW_PARTIAL_COMPLETION and a status that cannot be read are no failures
ScanFails(outcome, code) == outcome = "fail" /\ code = "other"

\* 0 is no image, so that of a device without images is 1
Image == IF ~machine.batches THEN 1 ELSE driver.current_batch

ScanRun(outcome, code) ==
  /\ stage = "run" /\ ThreadIds[scanning] = 0 /\ CanScan
  /\ driver' = [driver EXCEPT !.status = outcome]
  /\ failed_image' = IF ScanFails(outcome, code) THEN Image ELSE failed_image
  /\ Advance
  /\ UNCHANGED <<machine, attempt, errno, ifs_info, probed>>

\* the test takes too long and is killed; the scan of this core still ends
ScanKilled(outcome) ==
  /\ stage = "run" /\ ThreadIds[scanning] = 0 /\ CanScan
  /\ driver' = [driver EXCEPT !.status = outcome]
  /\ failed_image' = Image
  /\ stage' = "idle" /\ scanning' = 1
  /\ UNCHANGED <<machine, attempt, errno, ifs_info, probed>>

Attempts == [retry : BOOLEAN, enforce_run : {-1, 0, 1}, test_file : {-1, 2}]

ScanNext ==
  \/ \E a \in Attempts : BeginTest(a)
  \/ OpenBase \/ CheckStatus \/ OpenBatch \/ KeepTestFile
  \/ \E works \in BOOLEAN : LoadTestFile(works)
  \/ SkipCpu
  \/ \E o \in Outcomes : ScanKilled(o) \/ \E c \in Codes : ScanRun(o, c)

ScanSpec == ScanInit /\ [][ScanNext]_scanVars
-----------------------------------------------------------------------------

(***************************************************************************)
(* The image that the cores are scanned with is the one that the test      *)
(* names in the log, and on a retry the one that the failure was seen      *)
(* with: also when the list of images starts over, and when the driver     *)
(* refused one.  Not in a test that had to load the driver first (see      *)
(* OpenBatch).                                                             *)
(***************************************************************************)
ImageAsNamed ==
  stage = "run" /\ ~probed =>
    /\ machine.batches =>
         ifs_info.image_support /\ ifs_info.image_id = driver.current_batch /\ driver.current_batch # 0
    /\ attempt.retry => Image = failed_image
=============================================================================
