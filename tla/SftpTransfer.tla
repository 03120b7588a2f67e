---------------------------- MODULE SftpTransfer ----------------------------
(***************************************************************************)
(* Download and Upload of the ssh connector: a first pass over sftp, and,  *)
(* when sudo may be tried, a second one through "sudo sftp-server" for the *)
(* files that were denied (Download) or for all of them (Upload).          *)
(***************************************************************************)
EXTENDS Naturals, FiniteSets

CONSTANTS Files,      \* requested files
          Dir,        \* the one requested directory
          InDir,      \* its files
          Recurse,    \* the directory is walked
          SudoTry     \* SFTPSudoTry was called

VARIABLES plain, sudo,  \* what a pass without / with sudo gets of each file
          dirStat,      \* what a pass without / with sudo gets of Dir
          op, pc, pass, \* the call, its step, its pass: "plain" or "sudo"
          todo,         \* what the pass still has to treat
          res,          \* entries of the result: a partial function
          firstFailed,  \* the client of the first pass could not be made
          clients,      \* sftp clients that are open
          written, ret

env == <<plain, sudo, dirStat, op>>
vars == <<env, pc, pass, todo, res, firstFailed, clients, written, ret>>

All == Files \cup InDir
Outcomes == {"data", "denied", "error"}
\* Stat fails, or the directory cannot be listed, or it can.
DirOutcomes == {"denied", "error", "unlistable", "listed"}

Init ==
  /\ op = "none" /\ dirStat = <<>> /\ plain = <<>> /\ sudo = <<>>
  /\ pc = "start" /\ pass = "plain" /\ todo = {} /\ res = <<>>
  /\ firstFailed = FALSE /\ clients = 0 /\ written = {} /\ ret = "none"

\* A call, and what the server will say: sudo never gets less.
Call ==
  /\ pc = "start" /\ pc' = "client"
  /\ op' \in {"download", "upload"}
  /\ plain' \in [All -> Outcomes] /\ sudo' \in [All -> Outcomes]
  /\ \A f \in All : plain'[f] # "denied" => sudo'[f] = plain'[f]
  /\ dirStat' \in [{"plain", "sudo"} -> DirOutcomes]
  /\ CASE dirStat'["plain"] = "denied" -> TRUE
       [] dirStat'["plain"] = "unlistable" ->
            dirStat'["sudo"] \in {"unlistable", "listed"}
       [] OTHER -> dirStat'["sudo"] = dirStat'["plain"]
  /\ UNCHANGED <<pass, todo, res, firstFailed, clients, written, ret>>

Get(f) == IF pass = "plain" THEN plain[f] ELSE sudo[f]
Return(r) == pc' = "done" /\ ret' = r

\* Put(f, o): o is the entry of f in the result.
Put(f, o) ==
  res' = [g \in DOMAIN res \cup {f} |-> IF g = f THEN o ELSE res[g]]

\* What a pass is given: everything, or what the first one was denied.
Denied == {f \in DOMAIN res : res[f] = "denied"}
Given ==
  IF op = "upload" THEN All
  ELSE IF pass = "plain" \/ firstFailed THEN Files \cup {Dir}
  ELSE Denied

ClientOk ==
  /\ pc = "client" /\ clients' = clients + 1 /\ todo' = Given
  /\ pc' = "each"
  /\ UNCHANGED <<env, pass, res, firstFailed, written, ret>>

\* makeSftpClient closes its session when it fails.  A download whose first
\* client fails is done again with sudo as a whole, and so is an upload.
ClientFails ==
  /\ pc = "client"
  /\ IF pass = "plain" /\ SudoTry
     THEN pass' = "sudo" /\ firstFailed' = TRUE /\ UNCHANGED <<pc, ret>>
     ELSE Return("error") /\ UNCHANGED <<pass, firstFailed>>
  /\ UNCHANGED <<env, todo, res, clients, written>>

DownloadFile ==
  /\ pc = "each" /\ op = "download"
  /\ \E f \in todo \ {Dir} : todo' = todo \ {f} /\ Put(f, Get(f))
  /\ UNCHANGED <<env, pc, pass, firstFailed, clients, written, ret>>

\* Stat of the requested directory fails, or directories are not wanted: its
\* entry is the error.
StatFails == dirStat[pass] \in {"denied", "error"}

DirectoryFails ==
  /\ pc = "each" /\ op = "download" /\ Dir \in todo /\ todo' = todo \ {Dir}
  /\ IF StatFails THEN Put(Dir, dirStat[pass])
     ELSE ~Recurse /\ Put(Dir, "error")
  /\ UNCHANGED <<env, pc, pass, firstFailed, clients, written, ret>>

\* The walk finds the files.  A directory that cannot be listed is skipped in
\* silence; nothing takes back an entry that an earlier pass has made of it.
Walked == IF dirStat[pass] = "listed" THEN InDir ELSE {}

WalkDirectory ==
  /\ pc = "each" /\ op = "download" /\ Dir \in todo /\ Recurse /\ ~StatFails
  /\ todo' = (todo \ {Dir}) \cup Walked
  /\ UNCHANGED <<res, env, pc, pass, firstFailed, clients, written, ret>>

DownloadPassLenient ==
  /\ pc = "each" /\ op = "download" /\ todo = {} /\ clients' = clients - 1
  /\ IF pass = "sudo" \/ Denied = {} \/ ~SudoTry
     THEN Return("ok") /\ UNCHANGED pass
     ELSE pc' = "client" /\ pass' = "sudo" /\ UNCHANGED ret
  /\ UNCHANGED <<env, todo, res, firstFailed, written>>

\* The end of a download pass: stop(), then the second pass if files were
\* denied, or the error that sudo would have been needed.
DownloadPassEnds ==
  /\ pc = "each" /\ op = "download" /\ todo = {} /\ clients' = clients - 1
  /\ IF pass = "sudo" \/ Denied = {}
     THEN Return("ok") /\ UNCHANGED pass
     ELSE IF SudoTry THEN pc' = "client" /\ pass' = "sudo" /\ UNCHANGED ret
     ELSE Return("error") /\ UNCHANGED pass
  /\ UNCHANGED <<env, todo, res, firstFailed, written>>

\* MkdirAll, Create, Write, Chmod and Chown of one file.
UploadFile ==
  /\ pc = "each" /\ op = "upload"
  /\ \E f \in todo :
       /\ Get(f) = "data" /\ todo' = todo \ {f}
       /\ written' = written \cup {f}
  /\ UNCHANGED <<env, pc, pass, res, firstFailed, clients, ret>>

\* The first failure ends the pass; with sudo everything is written again.
UploadFails ==
  /\ pc = "each" /\ op = "upload" /\ clients' = clients - 1
  /\ \E f \in todo : Get(f) # "data"
  /\ IF pass = "plain" /\ SudoTry
     THEN pc' = "client" /\ pass' = "sudo" /\ UNCHANGED ret
     ELSE Return("error") /\ UNCHANGED pass
  /\ UNCHANGED <<env, todo, res, firstFailed, written>>

UploadPassEnds ==
  /\ pc = "each" /\ op = "upload" /\ todo = {} /\ clients' = clients - 1
  /\ Return("ok")
  /\ UNCHANGED <<env, pass, todo, res, firstFailed, written>>

Next ==
  \/ Call \/ ClientOk \/ ClientFails
  \/ DownloadFile \/ DirectoryFails \/ WalkDirectory \/ DownloadPassEnds
  \/ UploadFile \/ UploadFails \/ UploadPassEnds

Spec == Init /\ [][Next]_vars

---------------------------------------------------------------------------

\* What a download should say of a file, and of the directory.
Best(f) ==
  IF (firstFailed \/ plain[f] = "denied") /\ SudoTry THEN sudo[f]
  ELSE plain[f]

BestStat ==
  dirStat[IF (firstFailed \/ dirStat["plain"] = "denied") /\ SudoTry
          THEN "sudo" ELSE "plain"]

\* A download that succeeds has an entry for every file it was asked for and,
\* if either pass could list the directory, for those in it, each with the
\* best that the two passes could get, whichever files the passes met first
\* and whichever pass failed to start.
DownloadIsBest ==
  (op = "download" /\ ret = "ok") =>
    /\ Files \subseteq DOMAIN res
    /\ Recurse /\ BestStat = "listed" => InDir \subseteq DOMAIN res
    /\ \A f \in DOMAIN res \ {Dir} : res[f] = Best(f)

\* A directory that neither pass could look at is in the result, with the
\* last error.  One that the second pass could walk is there only if the
\* first was denied it: that entry stays, beside the files.
DirectoryIsSaid ==
  (op = "download" /\ ret = "ok" /\ Recurse) =>
    /\ BestStat \in {"denied", "error"} =>
         Dir \in DOMAIN res /\ res[Dir] = BestStat
    /\ BestStat \notin {"denied", "error"} =>
         (Dir \in DOMAIN res <=> dirStat["plain"] = "denied" /\ ~firstFailed)

\* Nothing is reported as denied without sudo having been tried.
DeniedOnlyAfterSudo ==
  (op = "download" /\ ret = "ok") => \A f \in Denied : pass = "sudo"

\* An upload that succeeds has written every file, also when the first pass
\* stopped half way.
UploadIsComplete == (op = "upload" /\ ret = "ok") => written = All

\* Every client that was made is stopped, on every path out of a call.
ClientsStopped == clients <= 1 /\ (pc = "done" => clients = 0)
=============================================================================
