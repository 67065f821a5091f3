------------------------------ MODULE Extensions ------------------------------
(***************************************************************************)
(* tdl extension: programs kept one directory each under the extension     *)
(* directory (pkg/extensions, app/extension).  One that comes from GitHub  *)
(* has a manifest beside its binary; every other directory counts as a     *)
(* local one.  install, upgrade and remove work on the files step by step, *)
(* any step may fail, and the process may be killed before the next one.   *)
(* GitHub is external: a new release may appear at any time.               *)
(***************************************************************************)
EXTENDS Naturals, FiniteSets, Lists, SequencesExt

CONSTANTS
  ExtDirs,   \* directories (GitHub repositories have their names), as ReadDir sorts them
  Stem,      \* Stem[d]: the directory of the name the extension in d has
  Scripts,   \* directories a local file with an extension is installed in
  Releases,  \* their tags
  NoAsset,   \* tags without a binary for this platform
  MaxExRuns  \* (bound) commands, of one target each but for "upgrade" with none

ExDirs == Range(ExtDirs)

ASSUME ExtensionsAssumption ==
  /\ ExtDirs \in Seq(ExDirs) /\ ExtDirs # <<>>
  /\ Stem \in [ExDirs -> ExDirs] /\ Scripts \subseteq ExDirs /\ NoAsset \subseteq Releases
  /\ Releases \intersect {"none", "part", "local"} = {} /\ MaxExRuns \in Nat

Files   == {"bin", "script", "manifest"}
Content == {"none", "part", "local"} \union Releases
Empty   == [f \in Files |-> "none"]

VARIABLES
  exThere,  \* directories that exist
  exDisk,   \* what their files hold
  exLatest, \* the latest release of each repository, if it has one (external)
  exRuns, exPc,
  exOp, exForce, exDry, \* the command and its flags
  exTodo,   \* targets left
  exFound,  \* extMap: for a name, the directory of its extension
  exCache,  \* the manifests read and the releases looked up so far
  exDir,    \* the directory worked on, and what the release in hand is
  exTag,
  exTorn    \* directories whose removal did not go through (history)

exFiles == <<exThere, exDisk, exTorn>>
exCmd   == <<exOp, exForce, exDry, exFound>>
exVars  == <<exFiles, exLatest, exRuns, exPc, exCmd, exTodo, exCache, exDir, exTag>>

\* What a target stands for: a repository, or a local file, whose directory has its name
\* without the extension.
ExTargets == [dir : ExDirs, file : {"bin"}, local : {FALSE}]
             \union [dir : {d \in ExDirs : Stem[d] = d}, file : {"bin"}, local : {TRUE}]
             \union [dir : Scripts, file : {"script"}, local : {TRUE}]
NoTarget  == [dir |-> ExtDirs[1], file |-> "bin", local |-> FALSE]

Unread == [mf |-> "unread", latest |-> "unread"]

ExInit ==
  /\ exThere = {} /\ exDisk = [d \in ExDirs |-> Empty] /\ exTorn = {}
  /\ exLatest = [d \in ExDirs |-> "none"]
  /\ exRuns = 0 /\ exPc = "idle"
  /\ exOp = "install" /\ exForce = FALSE /\ exDry = FALSE /\ exTodo = <<>>
  /\ exFound = [n \in ExDirs |-> {}] /\ exCache = [d \in ExDirs |-> Unread]
  /\ exDir = ExtDirs[1] /\ exTag = "none"

ExGoes(p) == exPc' = p
Target == Head(exTodo)
\* The error or the success is printed, and the next target is taken.
NextTarget == ExGoes("next") /\ exTodo' = Tail(exTodo)

-----------------------------------------------------------------------------
(* List.                                                                   *)

ExGithub(d) == exDisk[d]["manifest"] # "none"

\* Of two extensions of one name the later directory is the one found.
FoundOf(n) ==
  LET of == {i \in DOMAIN ExtDirs : ExtDirs[i] \in exThere /\ Stem[ExtDirs[i]] = n}
  IN {ExtDirs[i] : i \in {k \in of : \A j \in of : j =< k}}

\* What GitHub answers when asked for the latest release.
Answer(d) == IF exLatest[d] \in Releases THEN exLatest[d] ELSE "unread"

ExStart ==
  /\ exPc = "idle" /\ exRuns < MaxExRuns
  /\ exRuns' = exRuns + 1
  /\ exOp' \in {"install", "upgrade", "remove"} /\ exDry' \in BOOLEAN
  /\ exForce' \in (IF exOp' = "install" THEN BOOLEAN ELSE {FALSE})
  /\ exTodo' \in {<<t>> : t \in IF exOp' = "install" THEN ExTargets
                                ELSE [dir : ExDirs, file : {"bin"}, local : {FALSE}]}
  /\ exFound' = [n \in ExDirs |-> FoundOf(n)]
  /\ exCache' = [d \in ExDirs |-> Unread] /\ ExGoes("next")
  /\ UNCHANGED <<exFiles, exLatest, exDir, exTag>>

\* populateLatestVersions: the manifests are read, and the releases asked for at once; some
\* of the requests are answered.
Populated(reached) ==
  [d \in ExDirs |->
     IF d \in exThere /\ ExGithub(d)
     THEN [mf |-> exDisk[d]["manifest"],
           latest |-> IF d \in reached /\ exDisk[d]["manifest"] # "part"
                      THEN Answer(d) ELSE "unread"]
     ELSE Unread]

\* upgrade with no target upgrades them all, by name.
ExUpgradeAll ==
  /\ exPc = "idle" /\ exRuns < MaxExRuns /\ exThere # {}
  /\ exRuns' = exRuns + 1
  /\ exOp' = "upgrade" /\ exDry' \in BOOLEAN /\ exForce' = FALSE
  /\ exFound' = [n \in ExDirs |-> FoundOf(n)]
  /\ LET there == Only(ExtDirs, {i \in DOMAIN ExtDirs : ExtDirs[i] \in exThere})
     IN exTodo' = [i \in DOMAIN there |-> [NoTarget EXCEPT !.dir = Stem[there[i]]]]
  /\ \E reached \in SUBSET exThere : exCache' = Populated(reached)
  /\ ExGoes("next")
  /\ UNCHANGED <<exFiles, exLatest, exDir, exTag>>

-----------------------------------------------------------------------------
(* Each target in turn.                                                    *)

ExEnds ==
  /\ exPc = "next" /\ exTodo = <<>>
  /\ ExGoes("idle")
  /\ UNCHANGED <<exFiles, exLatest, exRuns, exCmd, exTodo, exCache, exDir, exTag>>

ExInstall ==
  /\ exPc = "next" /\ exTodo # <<>> /\ exOp = "install"
  /\ exDir' = Target.dir /\ ExGoes("exist")
  /\ UNCHANGED <<exFiles, exLatest, exRuns, exCmd, exTodo, exCache, exTag>>

ExNotFound ==
  /\ exPc = "next" /\ exTodo # <<>> /\ exOp # "install" /\ exFound[Target.dir] = {}
  /\ NextTarget
  /\ UNCHANGED <<exFiles, exLatest, exRuns, exCmd, exCache, exDir, exTag>>

ExFind ==
  /\ exPc = "next" /\ exTodo # <<>> /\ exOp # "install"
  /\ \E d \in ExDirs : d \in exFound[Target.dir] /\ exDir' = d
  /\ ExGoes(IF exOp = "upgrade" THEN "check" ELSE "remove")
  /\ UNCHANGED <<exFiles, exLatest, exRuns, exCmd, exTodo, exCache, exTag>>

\* UpdateAvailable: the manifest and the release are read once, and kept; if one of them
\* cannot be had the extension counts as up to date.  A local one is not upgraded.
ExCheckUpdate ==
  LET mf   == IF exCache[exDir].mf # "unread" THEN exCache[exDir].mf
              ELSE exDisk[exDir]["manifest"]
  IN
  /\ exPc = "check"
  /\ \E latest \in IF exCache[exDir].latest # "unread" THEN {exCache[exDir].latest}
                   ELSE {Answer(exDir), "unread"} :
       /\ exCache' = [exCache EXCEPT ![exDir] = [mf |-> mf, latest |-> latest]]
       /\ IF mf \in Releases /\ latest \notin {"unread", mf} /\ ~exDry
          THEN ExGoes("remove") /\ UNCHANGED exTodo
          ELSE NextTarget
  /\ UNCHANGED <<exFiles, exLatest, exRuns, exCmd, exDir, exTag>>

-----------------------------------------------------------------------------
(* Removing a directory, and what comes after.                             *)

Vanish(d) ==
  /\ exThere' = exThere \ {d} /\ exDisk' = [exDisk EXCEPT ![d] = Empty]
  /\ exTorn' = exTorn \ {d}

\* os.RemoveAll fails or is interrupted when some of the files are gone.
VanishPartly(d) ==
  /\ \E gone \in SUBSET Files :
       exDisk' = [exDisk EXCEPT ![d] = [f \in Files |-> IF f \in gone THEN "none" ELSE @[f]]]
  /\ exTorn' = exTorn \union {d} /\ UNCHANGED exThere

\* Manager.Remove goes by the name of the extension, not by its directory.
ExRemove ==
  LET d == Stem[exDir] IN
  /\ exPc = "remove"
  /\ \/ d \in exThere /\ (IF exDry THEN UNCHANGED exFiles ELSE Vanish(d))
        /\ IF exOp = "upgrade" THEN ExGoes("exist") /\ UNCHANGED exTodo ELSE NextTarget
     \/ d \in exThere /\ ~exDry /\ VanishPartly(d) /\ NextTarget
     \/ d \notin exThere /\ NextTarget /\ UNCHANGED exFiles
  /\ UNCHANGED <<exLatest, exRuns, exCmd, exCache, exDir, exTag>>

ExLocal == exOp = "install" /\ Target.local
ExFile  == IF exOp = "install" THEN Target.file ELSE "bin"
ExNext  == IF ~ExLocal THEN ExGoes("release") /\ UNCHANGED exTodo
           ELSE IF exDry THEN NextTarget ELSE ExGoes("make") /\ UNCHANGED exTodo

\* maybeExist looks for the file it is going to write.
ExExist ==
  /\ exPc = "exist"
  /\ \/ exDisk[exDir][ExFile] = "none" /\ ExNext /\ UNCHANGED exFiles
     \/ exDisk[exDir][ExFile] # "none" /\ ~exForce /\ NextTarget /\ UNCHANGED exFiles
     \/ exDisk[exDir][ExFile] # "none" /\ exForce /\ ExNext
        /\ (IF exDry THEN UNCHANGED exFiles ELSE Vanish(exDir))
     \/ exDisk[exDir][ExFile] # "none" /\ exForce /\ ~exDry
        /\ VanishPartly(exDir) /\ NextTarget
  /\ UNCHANGED <<exLatest, exRuns, exCmd, exCache, exDir, exTag>>

-----------------------------------------------------------------------------
(* installGitHub and installLocal.                                         *)

Write(f, what) == exDisk' = [exDisk EXCEPT ![exDir][f] = what]

\* GitHub does not answer, or the release has nothing for this platform.
ExRelease ==
  /\ exPc = "release"
  /\ exTag' = exLatest[exDir]
  /\ \/ NextTarget
     \/ exLatest[exDir] \in Releases \ NoAsset
        /\ IF exDry THEN NextTarget ELSE ExGoes("make") /\ UNCHANGED exTodo
  /\ UNCHANGED <<exFiles, exLatest, exRuns, exCmd, exCache, exDir>>

ExMake ==
  /\ exPc = "make"
  /\ exThere' = exThere \union {exDir} /\ ExGoes("open")
  /\ UNCHANGED <<exDisk, exTorn, exLatest, exRuns, exCmd, exTodo, exCache, exDir, exTag>>

\* The binary is opened for writing, and emptied; unless the asset cannot be had.
ExOpen ==
  /\ exPc = "open"
  /\ \/ Write(ExFile, "part") /\ ExGoes("copy") /\ UNCHANGED exTodo
     \/ NextTarget /\ UNCHANGED exDisk
  /\ UNCHANGED <<exThere, exTorn, exLatest, exRuns, exCmd, exCache, exDir, exTag>>

\* Wrong on purpose: a download that broke off is taken for a whole one.
CopiedAnyway == ExGoes("manifest") /\ UNCHANGED <<exTodo, exDisk>>
\* What has been written of it stays.
CopyBroken == NextTarget /\ UNCHANGED exDisk

ExCopy ==
  /\ exPc = "copy"
  /\ \/ CopyBroken
     \/ ~ExLocal /\ Write("bin", exTag) /\ ExGoes("manifest") /\ UNCHANGED exTodo
     \/ ExLocal /\ Write(ExFile, "local") /\ NextTarget
  /\ UNCHANGED <<exThere, exTorn, exLatest, exRuns, exCmd, exCache, exDir, exTag>>

\* The manifest is written last, over one that may be left.
ExManifest ==
  /\ exPc = "manifest"
  /\ \E what \in {exDisk[exDir]["manifest"], "part", exTag} : Write("manifest", what)
  /\ exTorn' = IF exDisk'[exDir]["manifest"] = exTag THEN exTorn \ {exDir} ELSE exTorn
  /\ NextTarget
  /\ UNCHANGED <<exThere, exLatest, exRuns, exCmd, exCache, exDir, exTag>>

\* The process is killed.
ExKill ==
  /\ exPc # "idle"
  /\ ExGoes("idle") /\ exTodo' = <<>>
  /\ \/ UNCHANGED exFiles
     \/ \E d \in exThere : /\ ~exDry
                           /\ \/ exPc = "remove" /\ d = Stem[exDir]
                              \/ exPc = "exist" /\ exForce /\ d = exDir
                           /\ VanishPartly(d)
  /\ UNCHANGED <<exLatest, exRuns, exCmd, exCache, exDir, exTag>>

\* A repository publishes another release (external).
ExPublish ==
  /\ \E d \in ExDirs, tag \in Releases : exLatest' = [exLatest EXCEPT ![d] = tag]
  /\ UNCHANGED <<exFiles, exRuns, exPc, exCmd, exTodo, exCache, exDir, exTag>>

ExSteps ==
  \/ ExStart \/ ExUpgradeAll \/ ExEnds \/ ExInstall \/ ExNotFound \/ ExFind \/ ExCheckUpdate
  \/ ExRemove \/ ExExist \/ ExRelease \/ ExMake \/ ExOpen \/ ExCopy \/ ExManifest
  \/ ExKill \/ ExPublish

ExSpec == ExInit /\ [][ExSteps]_exVars

-----------------------------------------------------------------------------
\* The types; a directory that is not there has no files.
ExTypeOK ==
  /\ exThere \subseteq ExDirs /\ exTorn \subseteq exThere
  /\ exDisk \in [ExDirs -> [Files -> Content]]
  /\ \A d \in ExDirs \ exThere : exDisk[d] = Empty
  /\ exLatest \in [ExDirs -> Releases \union {"none"}] /\ exRuns \in 0..MaxExRuns
  /\ exPc \in {"idle", "next", "check", "remove", "exist", "release", "make", "open", "copy",
               "manifest"}
  /\ exOp \in {"install", "upgrade", "remove"} /\ exForce \in BOOLEAN /\ exDry \in BOOLEAN
  /\ exTodo \in Seq(ExTargets) /\ exFound \in [ExDirs -> SUBSET ExDirs]
  /\ exCache \in [ExDirs -> [mf : Content \union {"unread"},
                             latest : Releases \union {"unread"}]]
  /\ exDir \in ExDirs /\ exTag \in Content

\* A manifest names the release whose binary lies beside it, whole, whatever failed and
\* wherever the process was killed, since it is written last and goes with the directory;
\* only a removal that did not go through may keep the one without the other.
ManifestIsTrue ==
  \A d \in ExDirs \ exTorn :
    exDisk[d]["manifest"] \in Releases => exDisk[d]["bin"] = exDisk[d]["manifest"]
===============================================================================
