-------------------------------- MODULE Drives --------------------------------
(***************************************************************************)
(* The drives of the machine as cSystem reports them, and the test the     *)
(* drive-searching thread of cEngine makes before it searches a drive.     *)
(***************************************************************************)
EXTENDS Naturals, Sequences

CONSTANTS
  Drives,     \* roots of the logical drives, in the order of their letters
  Root,       \* root of the drive Windows is installed on
  Letter,     \* drive letter of a root: 1 for A:, 2 for B:, ...
  DriveType,  \* what GetDriveType says of a root
  Media       \* what the media-types ioctl says of a letter's device

nd == Len(Drives)

DriveTypes == {"fixed", "removable", "remote", "cdrom", "ramdisk", "unknown"}
MediaTypes == {"floppy5", "floppy3", "removable", "fixed", "none"}

\* No drive has letter number 0, the character '@'.
ASSUME DrivesAssumption ==
  /\ nd \in Nat
  /\ \A i \in 1..nd : /\ Letter[Drives[i]] \in 1..26
                      /\ DriveType[Drives[i]] \in DriveTypes
  /\ \A n \in 0..26 : Media[n] \in MediaTypes
  /\ Media[0] = "none"

\* GetDriveType("<letter>:\\"), unknown when no drive has that letter.
DriveTypeOfLetter(n) ==
  IF \E i \in 1..nd : Letter[Drives[i]] = n
  THEN DriveType[Drives[CHOOSE i \in 1..nd : Letter[Drives[i]] = n]]
  ELSE "unknown"

\* The device's own answer (Windows NT branch), 0 when the ioctl fails.
FormFactorOfMedia(m) ==
  CASE m = "floppy5"   -> 525
    [] m = "floppy3"   -> 350
    [] m = "removable" -> 2
    [] m = "fixed"     -> 1
    [] OTHER           -> 0

\* 1 for a hard drive, 2 for another device, 350 and 525 for a floppy, 0 on
\* error.  iDrive is a letter number: "1 for drive A:, 2 for drive B:".
GetDriveFormFactor(iDrive) ==
  IF FormFactorOfMedia(Media[iDrive]) # 0
  THEN FormFactorOfMedia(Media[iDrive])
  ELSE CASE DriveTypeOfLetter(iDrive) = "fixed"   -> 1
         [] DriveTypeOfLetter(iDrive) = "unknown" -> 0
         [] OTHER                                 -> 2

\* The test of thread 1 on the j-th drive, j counted from 0.  The form factor
\* is asked for the letter number j, whatever the letter of that drive is.
DriveSearched(j) ==
  LET drive == Drives[j + 1]
      type  == GetDriveFormFactor(j)
  IN  /\ drive # Root
      /\ \/ DriveType[drive] = "removable" /\ type > 0 /\ type < 350
         \/ DriveType[drive] = "fixed"
================================================================================
