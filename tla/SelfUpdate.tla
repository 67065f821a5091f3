------------------------------ MODULE SelfUpdate ------------------------------
(***************************************************************************)
(* tdl update (app/update): the release is fetched, its archive downloaded *)
(* and compared with its checksum, the binary in it staged beside the      *)
(* executable and renamed over it.  On Windows the running executable is   *)
(* first renamed away, and back again if the second rename fails.  Every   *)
(* call may fail, and the process may be killed between any two.  One      *)
(* process updates at a time.                                              *)
(***************************************************************************)
EXTENDS Naturals

CONSTANTS
  MaxVersion, \* (bound) the releases are 1..MaxVersion; a development build is 0
  MaxUpdates  \* (bound) runs

ASSUME SelfUpdateAssumption == MaxVersion \in Nat \ {0} /\ MaxUpdates \in Nat

\* What a file is: absent, broken (cut short or altered), or all of some version.
Absent == <<"absent", 0>>
Broken == <<"broken", 0>>
All(v) == <<"all", v>>
Built  == {All(v) : v \in 0..MaxVersion}

VARIABLES
  suOS,      \* "windows" or "unix"
  suExe,     \* the executable
  suBak,     \* <name>.old
  suStaged,  \* .<name>.update
  suArchive, \* what was downloaded, and what is extracted from it
  suPc, suRuns,
  suFlags,   \* target 0 is the latest release
  suTag      \* the version of the release

suDisk == <<suExe, suBak, suStaged>>
suVars == <<suOS, suDisk, suArchive, suPc, suRuns, suFlags, suTag>>

SuFlags == [dry : BOOLEAN, force : BOOLEAN, target : 0..MaxVersion]

SuInit ==
  /\ suOS \in {"windows", "unix"} /\ suExe \in Built
  /\ suBak = Absent /\ suStaged = Absent /\ suArchive = Absent
  /\ suPc = "idle" /\ suRuns = 0 /\ suTag = 0
  /\ suFlags = [dry |-> FALSE, force |-> FALSE, target |-> 0]

SuGoes(p) == suPc' = p
\* The call fails: Run returns, and its temporary directory is removed.
SuReturns == SuGoes("idle") /\ suArchive' = Absent

SuStart ==
  /\ suPc = "idle" /\ suRuns < MaxUpdates /\ suExe \in Built
  /\ suRuns' = suRuns + 1 /\ suFlags' \in SuFlags /\ SuGoes("fetch")
  /\ UNCHANGED <<suOS, suDisk, suArchive, suTag>>

\* needsUpdate: a development build is always updated.
NeedsUpdate(tag) == suExe = All(0) \/ \E v \in 1..MaxVersion : suExe = All(v) /\ v < tag

\* fetchRelease: the latest release, or the one asked for.
Releasable == IF suFlags.target = 0 THEN 1..MaxVersion ELSE {suFlags.target}

\* There may be no such release, no archive for this platform, or no checksums; without
\* --yes the user may decline.
SuFetch ==
  /\ suPc = "fetch"
  /\ suTag' \in Releasable
  /\ \/ (NeedsUpdate(suTag') \/ suFlags.force) /\ ~suFlags.dry
        /\ SuGoes("download") /\ UNCHANGED suArchive
     \/ SuReturns
  /\ UNCHANGED <<suOS, suDisk, suRuns, suFlags>>

SuDownload ==
  /\ suPc = "download"
  /\ \/ suArchive' \in {All(suTag), Broken} /\ SuGoes("verify")
     \/ SuReturns
  /\ UNCHANGED <<suOS, suDisk, suRuns, suFlags, suTag>>

\* Wrong on purpose: an archive without a checksum is taken as it is.
VerifiedLax == TRUE
\* verifyChecksum, against the sums of the same release.
Verified == suArchive = All(suTag)

\* The sums cannot be had, or do not match.
SuVerify ==
  /\ suPc = "verify"
  /\ \/ Verified /\ SuGoes("extract") /\ UNCHANGED suArchive
     \/ SuReturns
  /\ UNCHANGED <<suOS, suDisk, suRuns, suFlags, suTag>>

\* extractBinary: the archive has no binary, or it cannot be written; what is extracted is
\* of the version of the archive.
SuExtract ==
  /\ suPc = "extract"
  /\ \/ SuGoes("stage") /\ UNCHANGED suArchive
     \/ SuReturns
  /\ UNCHANGED <<suOS, suDisk, suRuns, suFlags, suTag>>

SuStage ==
  /\ suPc = "stage"
  /\ \/ suStaged' = Broken /\ SuGoes("copy") /\ UNCHANGED suArchive
     \/ SuReturns /\ UNCHANGED suStaged
  /\ UNCHANGED <<suOS, suExe, suBak, suRuns, suFlags, suTag>>

\* A copy that failed is left beside the executable.
SuCopy ==
  /\ suPc = "copy"
  /\ \/ suStaged' = suArchive /\ SuGoes("replace") /\ UNCHANGED suArchive
     \/ SuReturns /\ UNCHANGED suStaged
  /\ UNCHANGED <<suOS, suExe, suBak, suRuns, suFlags, suTag>>

\* A removal whose error is dropped.
MayGo(file) == {file, Absent}

SuRename ==
  /\ suPc = "replace" /\ suOS = "unix"
  /\ \/ suExe' = suStaged /\ suStaged' = Absent
     \/ suStaged' \in MayGo(suStaged) /\ UNCHANGED suExe
  /\ SuReturns
  /\ UNCHANGED <<suOS, suBak, suRuns, suFlags, suTag>>

\* An executable that has been running since another update cannot be removed; nor can it
\* be renamed over.
SuBackup ==
  /\ suPc = "replace" /\ suOS = "windows"
  /\ \/ suBak' = suExe /\ suExe' = Absent
        /\ SuGoes("place") /\ UNCHANGED <<suStaged, suArchive>>
     \/ suBak' \in MayGo(suBak) /\ suStaged' \in MayGo(suStaged)
        /\ SuReturns /\ UNCHANGED suExe
  /\ UNCHANGED <<suOS, suRuns, suFlags, suTag>>

\* Wrong on purpose: the backup is removed whatever has become of the rollback.
RolledBackOrNot == suBak' = Absent /\ suExe' \in {suBak, Absent}
\* The rollback may fail too, and then the backup stays.
RolledBack == \/ suExe' = suBak /\ suBak' = Absent
              \/ UNCHANGED <<suExe, suBak>>

SuPlace ==
  /\ suPc = "place"
  /\ \/ suExe' = suStaged /\ suStaged' = Absent
        /\ SuGoes("clean") /\ UNCHANGED <<suBak, suArchive>>
     \/ RolledBack /\ SuReturns /\ UNCHANGED suStaged
  /\ UNCHANGED <<suOS, suRuns, suFlags, suTag>>

SuClean ==
  /\ suPc = "clean"
  /\ suBak' \in MayGo(suBak) /\ SuReturns
  /\ UNCHANGED <<suOS, suExe, suStaged, suRuns, suFlags, suTag>>

SuKill ==
  /\ suPc # "idle"
  /\ SuReturns
  /\ UNCHANGED <<suOS, suDisk, suRuns, suFlags, suTag>>

SuSteps ==
  \/ SuStart \/ SuFetch \/ SuDownload \/ SuVerify \/ SuExtract \/ SuStage \/ SuCopy
  \/ SuRename \/ SuBackup \/ SuPlace \/ SuClean \/ SuKill

SuSpec == SuInit /\ [][SuSteps]_suVars

-----------------------------------------------------------------------------
\* The types; a file is absent, broken, or all of some version.
SuTypeOK ==
  /\ suOS \in {"windows", "unix"} /\ suRuns \in 0..MaxUpdates
  /\ {suExe, suBak, suStaged, suArchive} \subseteq Built \union {Absent, Broken}
  /\ suPc \in {"idle", "fetch", "download", "verify", "extract", "stage", "copy",
             "replace", "place", "clean"}
  /\ suFlags \in SuFlags /\ suTag \in 0..MaxVersion

\* Whatever fails, and wherever an update is killed, the executable is all of one version;
\* on Windows it may be gone, and then <name>.old is all of one version.
ExecutableKept ==
  \/ suExe \in Built
  \/ suOS = "windows" /\ suExe = Absent /\ suBak \in Built
===============================================================================
