------------------------------ MODULE FlightLog ------------------------------
(***************************************************************************)
(* How a flight is recorded and uploaded: fmulink/flightsaver.go writes    *)
(* the vehicle's packets to a file while it is armed, and                  *)
(* cloudlink/flightsyncer.go uploads the files of the same directory and   *)
(* removes them.  The FMU reader (fmulink.go:600-645) drives the saver and *)
(* tells the syncer which file to leave alone.                             *)
(*                                                                         *)
(* Three goroutines: the FMU reader, the saver's throttler and the         *)
(* syncer's listener.  The syncer's RWMutex is modelled by its two users:  *)
(* the listener holds it for reading while it deals with one file, the FMU *)
(* reader asks for it for writing.  The syncer is running (module          *)
(* CloudLink starts and stops it).                                         *)
(***************************************************************************)
EXTENDS Integers

CONSTANTS
    MsgId,          \* MAVLink message ids
    MaxTime,        \* bound: seconds, the resolution of a file's name
    MaxFlight,      \* bound: flights recorded
    MaxRecord,      \* bound: records in a file
    MaxUpload,      \* MAX_UPLOAD_SIZE, in records
    MaxCrash        \* bound: restarts of the program

Name == 1..MaxTime
NoName == 0                             \* "" in the source
NoFile == [flight |-> 0, len |-> 0]     \* flights are counted from 1

ASSUME FlightAssumption ==
    /\ MaxTime \in Nat \ {0} /\ MaxFlight \in Nat /\ MaxRecord \in Nat /\ MaxCrash \in Nat
    /\ MaxUpload \in Nat

VARIABLES
    now,              \* the wall clock
    disk,             \* the files of the flight directory, by name
    flights, crashes, \* how many flights were begun, and restarts
    svPc,             \* the FMU reader
    isLogging, fname, msgSet,
    throttler,        \* is the throttler goroutine running
    lockname,
    lsPc, todo, cur, snap, \* the listener: files left, the file, what was read
    cloud             \* the uploads the server has accepted

saverVars == <<svPc, isLogging, fname, msgSet, throttler>>
syncVars == <<lsPc, todo, cur, snap>>
envVars == <<now, flights, crashes>>
vars == <<envVars, disk, saverVars, lockname, syncVars, cloud>>

Upto(n, m) == IF n < m THEN n ELSE m

-----------------------------------------------------------------------------
Init ==
    /\ now = 1
    /\ disk = [f \in Name |-> NoFile]
    /\ flights = 0 /\ crashes = 0
    /\ svPc = "run"
    /\ isLogging = FALSE /\ fname = NoName /\ msgSet = {}
    /\ throttler = FALSE
    /\ lockname = NoName
    /\ lsPc = "wait" /\ todo = {} /\ cur = NoName /\ snap = NoFile
    /\ cloud = {}

-----------------------------------------------------------------------------
(* The FMU reader.  A heartbeat with the armed bit starts a recording, one *)
(* without it ends it.                                                     *)

\* Start: the file is created (or truncated) before the syncer is told.
StartLog ==
    /\ svPc = "run" /\ ~isLogging
    /\ flights < MaxFlight
    /\ flights' = flights + 1
    /\ fname' = now
    /\ disk' = [disk EXCEPT ![now] = [flight |-> flights + 1, len |-> 0]]
    /\ msgSet' = {}
    /\ throttler' = TRUE
    /\ isLogging' = TRUE
    /\ svPc' = "created"
    /\ UNCHANGED <<now, crashes, lockname, syncVars, cloud>>

\* os.Create fails; the error is ignored and the name is locked all the same.
StartFails ==
    /\ svPc = "run" /\ ~isLogging
    /\ fname' = now
    /\ msgSet' = {}
    /\ svPc' = "created"
    /\ UNCHANGED <<envVars, disk, isLogging, throttler, lockname, syncVars, cloud>>

\* SendSyncLock: Lock() announces a writer and waits for the listener.
SyncLock ==
    /\ svPc = "created"
    /\ svPc' = "lockWait"
    /\ UNCHANGED <<envVars, disk, isLogging, fname, msgSet, throttler, lockname, syncVars, cloud>>

ListenerIn == lsPc \in {"open", "garbage", "post", "put", "remove"}

\* MUTANT: Lock(name) writes the name without taking the mutex.
SyncLockedAnyway ==
    /\ svPc = "lockWait"
    /\ lockname' = fname
    /\ svPc' = "run"
    /\ UNCHANGED <<envVars, disk, isLogging, fname, msgSet, throttler, syncVars, cloud>>

SyncLocked ==
    /\ svPc = "lockWait"
    /\ ~ListenerIn
    /\ lockname' = fname
    /\ svPc' = "run"
    /\ UNCHANGED <<envVars, disk, isLogging, fname, msgSet, throttler, syncVars, cloud>>

\* One message of every id per throttling interval is written.  The file may
\* have been removed under its name: then the record goes nowhere.
Persist(m) ==
    /\ svPc = "run" /\ isLogging
    /\ m \notin msgSet
    /\ msgSet' = msgSet \cup {m}
    /\ IF disk[fname] = NoFile THEN UNCHANGED disk
       ELSE /\ disk[fname].len < MaxRecord
            /\ disk' = [disk EXCEPT ![fname].len = @ + 1]
    /\ UNCHANGED <<envVars, svPc, isLogging, fname, throttler, lockname, syncVars, cloud>>

\* MUTANT: the throttler returns after it has emptied the set once.
ThrottleOnce ==
    /\ throttler
    /\ msgSet # {}
    /\ msgSet' = {}
    /\ throttler' = FALSE
    /\ UNCHANGED <<envVars, disk, svPc, isLogging, fname, lockname, syncVars, cloud>>

Throttle ==
    /\ throttler
    /\ msgSet # {}
    /\ msgSet' = {}
    /\ UNCHANGED <<envVars, disk, svPc, isLogging, fname, throttler, lockname, syncVars, cloud>>

EndLog ==
    /\ svPc = "run" /\ isLogging
    /\ isLogging' = FALSE /\ fname' = NoName
    /\ svPc' = "stopping"
    /\ UNCHANGED <<envVars, disk, msgSet, throttler, lockname, syncVars, cloud>>

\* quit is unbuffered: End waits for the throttler to take it.
EndThrottler ==
    /\ svPc = "stopping"
    /\ throttler
    /\ throttler' = FALSE
    /\ svPc' = "unlockWait"
    /\ UNCHANGED <<envVars, disk, isLogging, fname, msgSet, lockname, syncVars, cloud>>

SyncUnlocked ==
    /\ svPc = "unlockWait"
    /\ ~ListenerIn
    /\ lockname' = NoName
    /\ svPc' = "run"
    /\ UNCHANGED <<envVars, disk, isLogging, fname, msgSet, throttler, syncVars, cloud>>

-----------------------------------------------------------------------------
(* The listener.                                                           *)

Glob ==
    /\ lsPc = "wait"
    /\ todo' = {f \in Name : disk[f] # NoFile}
    /\ todo' # {}
    /\ lsPc' = "scan"
    /\ UNCHANGED <<envVars, disk, saverVars, lockname, cur, snap, cloud>>

CanRLock == svPc \notin {"lockWait", "unlockWait"}

\* MUTANT: every file is uploaded, the saver's too.
CheckIgnoresLock(f) ==
    /\ lsPc = "scan"
    /\ f \in todo
    /\ CanRLock
    /\ todo' = todo \ {f}
    /\ cur' = f /\ lsPc' = "open"
    /\ UNCHANGED <<envVars, disk, saverVars, lockname, snap, cloud>>

\* "verify the saver currently doesn't have the file"
Check(f) ==
    /\ lsPc = "scan"
    /\ f \in todo
    /\ CanRLock
    /\ todo' = todo \ {f}
    /\ IF lockname # f THEN cur' = f /\ lsPc' = "open"
       ELSE UNCHANGED cur /\ lsPc' = IF todo' = {} THEN "wait" ELSE "scan"
    /\ UNCHANGED <<envVars, disk, saverVars, lockname, snap, cloud>>

\* MUTANT: checker is not reset after the last file.
ReturnNoReset ==
    /\ cur' = NoName /\ snap' = NoFile
    /\ lsPc' = IF todo = {} THEN "stopped" ELSE "scan"
    /\ UNCHANGED todo

\* upload returns and the read lock is released.
Return ==
    /\ cur' = NoName /\ snap' = NoFile
    /\ lsPc' = IF todo = {} THEN "wait" ELSE "scan"
    /\ UNCHANGED todo

\* Nobody is logged in, or the file cannot be opened.
UploadRefused ==
    /\ lsPc = "open"
    /\ Return
    /\ UNCHANGED <<envVars, disk, saverVars, lockname, cloud>>

ReadEmpty ==
    /\ lsPc = "open"
    /\ disk[cur].len = 0
    /\ lsPc' = "garbage"
    /\ UNCHANGED <<envVars, disk, saverVars, lockname, todo, cur, snap, cloud>>

\* What one Read of at most MAX_UPLOAD_SIZE bytes returns.
Uploadable(f) == [flight |-> disk[f].flight, len |-> Upto(disk[f].len, MaxUpload)]

Read ==
    /\ lsPc = "open"
    /\ disk[cur].len > 0
    /\ snap' = Uploadable(cur)
    /\ lsPc' = "post"
    /\ UNCHANGED <<envVars, disk, saverVars, lockname, todo, cur, cloud>>

Post ==
    /\ lsPc = "post"
    /\ cloud' = cloud \cup {snap}
    /\ lsPc' = "put"
    /\ UNCHANGED <<envVars, disk, saverVars, lockname, todo, cur, snap>>

\* An error, a refusal, or an answer that was lost on its way back.
PostFails(accepted) ==
    /\ lsPc = "post"
    /\ cloud' = IF accepted THEN cloud \cup {snap} ELSE cloud
    /\ Return
    /\ UNCHANGED <<envVars, disk, saverVars, lockname>>

Put ==
    /\ lsPc = "put"
    /\ lsPc' = "remove"
    /\ UNCHANGED <<envVars, disk, saverVars, lockname, todo, cur, snap, cloud>>

PutFails ==
    /\ lsPc = "put"
    /\ Return
    /\ UNCHANGED <<envVars, disk, saverVars, lockname, cloud>>

Remove ==
    /\ lsPc \in {"garbage", "remove"}
    /\ disk' = [disk EXCEPT ![cur] = NoFile]
    /\ Return
    /\ UNCHANGED <<envVars, saverVars, lockname, cloud>>

RemoveFails ==
    /\ lsPc \in {"garbage", "remove"}
    /\ Return
    /\ UNCHANGED <<envVars, disk, saverVars, lockname, cloud>>

-----------------------------------------------------------------------------
Tick ==
    /\ now < MaxTime
    /\ now' = now + 1
    /\ UNCHANGED <<flights, crashes, disk, saverVars, lockname, syncVars, cloud>>

\* The program dies and starts again: the files stay, the rest is forgotten.
Crash ==
    /\ crashes < MaxCrash
    /\ crashes' = crashes + 1
    /\ svPc' = "run"
    /\ isLogging' = FALSE /\ fname' = NoName /\ msgSet' = {}
    /\ throttler' = FALSE
    /\ lockname' = NoName
    /\ lsPc' = "wait" /\ todo' = {} /\ cur' = NoName /\ snap' = NoFile
    /\ UNCHANGED <<now, flights, disk, cloud>>

Saver == SyncLock \/ SyncLocked \/ EndThrottler \/ SyncUnlocked
CloudAnswers == Post \/ PostFails(TRUE) \/ PostFails(FALSE) \/ Put \/ PutFails
Listener ==
    \/ Glob \/ (\E f \in Name : Check(f))
    \/ UploadRefused \/ ReadEmpty \/ Read \/ Remove \/ RemoveFails

Next ==
    \/ StartLog \/ StartFails \/ EndLog \/ Throttle
    \/ \E m \in MsgId : Persist(m)
    \/ Saver \/ Listener \/ CloudAnswers
    \/ Tick \/ Crash

Spec == Init /\ [][Next]_vars

\* Goroutines that can run do run; the server need not answer.
FairSpec == Spec /\ WF_vars(Saver) /\ WF_vars(Listener)

\* And the server answers every request, and what is tried again and again
\* (opening a file, having it accepted, removing it) succeeds some time.
OnlineSpec ==
    /\ FairSpec
    /\ WF_vars(CloudAnswers)
    /\ SF_vars(Read) /\ SF_vars(ReadEmpty) /\ SF_vars(Post) /\ SF_vars(Put)
    /\ SF_vars(Remove)
    /\ \A f \in Name : SF_vars(Check(f))

-----------------------------------------------------------------------------
File == [flight : 1..MaxFlight, len : 0..MaxRecord]

\* The types of the variables.
TypeOK ==
    /\ now \in Name /\ flights \in 0..MaxFlight /\ crashes \in 0..MaxCrash
    /\ disk \in [Name -> File \cup {NoFile}]
    /\ svPc \in {"run", "created", "lockWait", "stopping", "unlockWait"}
    /\ isLogging \in BOOLEAN /\ fname \in Name \cup {NoName}
    /\ msgSet \subseteq MsgId /\ throttler \in BOOLEAN
    /\ lockname \in Name \cup {NoName}
    /\ lsPc \in {"wait", "scan", "open", "garbage", "post", "put", "remove"}
    /\ todo \subseteq Name /\ cur \in Name \cup {NoName}
    /\ snap \in File \cup {NoFile} /\ cloud \subseteq File

\* Once Lock(name) has returned (flightsyncer.go:52-57) and until Unlock, the
\* listener neither uploads nor removes that file, however long an upload that
\* began before took.
LockedIsLeftAlone == ListenerIn => cur # lockname

\* A file that disappears (flightsyncer.go:166, 237) was empty, or the server
\* has accepted what it holds at that moment, up to MAX_UPLOAD_SIZE: nothing was
\* written to it since it was read, and no file took its place.
RemovesWhatWasUploaded ==
    [][\A f \in Name : disk[f] # NoFile /\ disk'[f] = NoFile /\ disk[f].len > 0 =>
          Uploadable(f) \in cloud]_vars

\* A file that is not being recorded and is not locked is uploaded and removed
\* in the end (flightsyncer.go:89-135), through failures, restarts and other
\* recordings, if the server accepts uploads again and again.
FilesAreSynced ==
    \A f \in Name :
        (disk[f] # NoFile /\ lockname # f /\ fname # f)
            ~> (disk[f] = NoFile \/ lockname = f \/ fname = f)

\* The FMU reader always gets the syncer's lock and the throttler's attention
\* (fmulink.go:634-641) as long as the server answers.
ReaderGoesOn == svPc # "run" ~> svPc = "run"

-----------------------------------------------------------------------------
(* The inductive invariant.                                                *)

\* The file the FMU reader writes to is locked, and has a name before that.
RecorderOK ==
    /\ isLogging \/ svPc \in {"created", "lockWait"} => fname \in Name
    /\ isLogging /\ svPc = "run" => lockname = fname
    /\ svPc \in {"stopping", "unlockWait"} => ~isLogging

\* What the listener has read is what its file still holds, unless a new flight
\* has emptied it; what it is about to remove, the server has or is empty.
ListenerOK ==
    /\ ListenerIn => cur \in Name
    /\ lsPc \in {"post", "put", "remove"} => snap = Uploadable(cur) \/ disk[cur].len = 0
    /\ lsPc \in {"post", "put", "remove"} => snap \in File
    /\ lsPc \in {"put", "remove"} => snap \in cloud
    /\ lsPc = "garbage" => disk[cur].len = 0

\* The read lock held from the check (flightsyncer.go:106) to the removal keeps
\* the recorder away from the listener's file.
IInv == TypeOK /\ RecorderOK /\ ListenerOK /\ LockedIsLeftAlone

=============================================================================
