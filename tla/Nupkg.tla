------------------------------- MODULE Nupkg -------------------------------
(***************************************************************************)
(* nupkg (main.c), which rc runs on every NuGet package it finds on the    *)
(* card: open the package, clear the application's directory, copy what is *)
(* wanted one file after the other, write the helper script.  It stops     *)
(* half-way only where the code calls exit(); every other failure is a     *)
(* message on the console, and some are not even that.                     *)
(*                                                                         *)
(* A file name is a sequence of parts, so that taking the application's    *)
(* name from it is what the code does: up to the first dot or the          *)
(* canonical ending.                                                       *)
(***************************************************************************)
EXTENDS ZipReader, Faults, Functions

CONSTANTS
  Packages,  \* file names on the card
  None

VARIABLES
  card,      \* file name |-> what the card holds under it, or None
  files,     \* path |-> what nupkg has written there (in RAM)
  dirs,      \* the application directories that exist
  job,       \* the nupkg that is running, or NoJob
  reported,  \* <<file name, entry>> pairs an error message names
  abandoned  \* applications whose directory an nupkg cleared and then gave up

nupkgVars == <<files, dirs, job, reported, abandoned>>

Canonical == "-muntsos-all.nupkg"
Endings == {".nupkg", Canonical}

ExtractAppName(name) ==
  LET stops == {i \in DOMAIN name : name[i] \in {"."} \cup Endings}
  IN  SubSeq(name, 1, (CHOOSE i \in stops : \A j \in stops : i <= j) - 1)

NoJob == [file |-> None, step |-> "idle", reader |-> Closed]

NupkgInit ==
  /\ files = <<>> /\ dirs = {} /\ job = NoJob
  /\ reported = {} /\ abandoned = {}

App == ExtractAppName(job.file)
Image == card[job.file]
Entry == CurrentFileInfo(Image, job.reader)

AppPath(app, base) == <<"lib", app, base>>
LibPath(base) == <<"lib", base>>
ScriptPath(base) == <<"rc.d", base>>
HelperPath(app) == <<"bin", app>>

\* exit(1) after the directory was cleared, exit(0), and going on
GiveUp == job' = NoJob /\ abandoned' = abandoned \cup {App}
Exit == job' = NoJob /\ abandoned' = abandoned \ {App}
GoTo(s) == job' = [job EXCEPT !.step = s] /\ UNCHANGED abandoned
-----------------------------------------------------------------------------
(* main() up to the loop. *)

NupkgStart(f) ==
  /\ job = NoJob
  /\ job' = [NoJob EXCEPT !.file = f, !.step = "open"]
  /\ UNCHANGED <<files, dirs, reported, abandoned, faults>>

\* unzOpen64 and unzGoToFirstFile
OpenPackage ==
  /\ job.step = "open"
  /\ LET r == UnzOpen(Image)
     IN  job' = IF r.open /\ r.ok
                THEN [job EXCEPT !.step = "mkdir", !.reader = r] ELSE NoJob
  /\ UNCHANGED <<files, dirs, reported, abandoned, faults>>

Below(app) == {p \in DOMAIN files : Len(p) = 3 /\ p[2] = app}

CreateDestinationDirectory ==
  /\ job.step = "mkdir"
  /\ files' = Restrict(files, DOMAIN files \ Below(App))
  /\ \/ /\ dirs' = dirs \cup {App}
        /\ GoTo("lib")
        /\ UNCHANGED faults
     \/ /\ Fault
        /\ dirs' = dirs \ {App}
        /\ GiveUp
  /\ UNCHANGED reported
-----------------------------------------------------------------------------
(* The loop: three tests of each entry, then the next entry. *)

Content(len) ==
  [from |-> job.file, of |-> Image, entry |-> Entry,
   good |-> AsPacked(Image, Entry) /\ len = Image.entries[Entry].usize]

With(path, content) ==
  [p \in DOMAIN files \cup {path} |-> IF p = path THEN content ELSE files[p]]

Put(path, len) == files' = With(path, Content(len))

Complain == reported' = reported \cup {<<job.file, Entry>>}

\* The body of CopyFile and of CopyStartupScript.  The file cannot be opened
\* in the package; or created; or a write comes up short; or the reads go as
\* they go, and of those only the checksum of a file read to its end leads to
\* a message.
CopyTo(path, after) ==
  /\ GoTo(after)
  /\ \/ /\ ~ CanOpen(Image, job.reader)
        /\ Complain /\ UNCHANGED <<files, faults>>
     \/ /\ CanOpen(Image, job.reader)
        /\ Put(path, Delivered(Image, Entry))
        /\ IF CrcError(Image, Entry, Delivered(Image, Entry))
           THEN Complain ELSE UNCHANGED reported
        /\ UNCHANGED faults
     \/ /\ CanOpen(Image, job.reader)
        /\ Fault /\ Complain
        /\ \/ UNCHANGED files
           \/ Put(path, 0)

Skip(after) ==
  /\ GoTo(after)
  /\ UNCHANGED <<files, reported, faults>>

Destination(e) == IF e.so THEN LibPath(e.base) ELSE AppPath(App, e.base)

Current == Image.entries[Entry]

CopyLibFile ==
  /\ job.step = "lib"
  /\ IF Current.dir = "lib/net" THEN CopyTo(Destination(Current), "script")
     ELSE Skip("script")
  /\ UNCHANGED dirs

CopyStartupScript ==
  /\ job.step = "script"
  /\ IF Current.dir = "rc.d" THEN CopyTo(ScriptPath(Current.base), "so")
     ELSE Skip("so")
  /\ UNCHANGED dirs

CopySharedObject ==
  /\ job.step = "so"
  /\ IF Current.so THEN CopyTo(Destination(Current), "next") ELSE Skip("next")
  /\ UNCHANGED dirs

NextFile ==
  /\ job.step = "next"
  /\ LET n == GoToNextFile(Image, job.reader)
     IN  \/ /\ n.status = "ok"
            /\ job' = [job EXCEPT !.step = "lib", !.reader = n.reader]
            /\ UNCHANGED abandoned
         \/ n.status = "end of list" /\ GoTo("helper")
         \/ n.status = "error" /\ GiveUp
  /\ UNCHANGED <<files, dirs, reported, faults>>

Helper(len) == With(HelperPath(App),
  [from |-> job.file, of |-> Image, entry |-> 0, good |-> len = 1])

\* CreateHelperScript; then the directory goes if nothing was put in it.
CreateHelperScript ==
  /\ job.step = "helper"
  /\ \/ /\ files' = Helper(1)
        /\ dirs' = IF Below(App) = {} THEN dirs \ {App} ELSE dirs
        /\ Exit
        /\ UNCHANGED faults
     \/ /\ Fault
        /\ files' \in {files, Helper(0)}
        /\ GiveUp
        /\ UNCHANGED dirs
  /\ UNCHANGED reported

NupkgStep ==
  \/ OpenPackage
  \/ CreateDestinationDirectory
  \/ CopyLibFile
  \/ CopyStartupScript
  \/ CopySharedObject
  \/ NextFile
  \/ CreateHelperScript
=============================================================================
