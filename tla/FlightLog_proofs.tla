--------------------------- MODULE FlightLog_proofs ---------------------------
(***************************************************************************)
(* For any number of flights, restarts and seconds, and for files of any   *)
(* length: the syncer leaves a locked file alone, and what it removes was  *)
(* empty or is on the server.                                              *)
(***************************************************************************)
EXTENDS FlightLog, TLAPS

-----------------------------------------------------------------------------
\* The bounds are natural numbers.
LEMMA Bounds ==
    /\ MaxTime \in Nat \ {0} /\ MaxFlight \in Nat /\ MaxRecord \in Nat
    /\ MaxCrash \in Nat /\ MaxUpload \in Nat
  BY FlightAssumption

\* Seconds begin at 1: no file has the empty name.
LEMMA NoNameIsNone == NoName \notin Name
  BY Bounds DEF Name, NoName

\* One Read (flightsyncer.go:160) returns at most MAX_UPLOAD_SIZE bytes of a file.
LEMMA UploadableIsFile ==
    ASSUME disk \in [Name -> File \cup {NoFile}], NEW f \in Name, disk[f].len > 0
    PROVE  Uploadable(f) \in File
<1>1. disk[f] \in File
  BY DEF NoFile
<1>2. disk[f].flight \in 1..MaxFlight /\ disk[f].len \in 0..MaxRecord
  BY <1>1 DEF File
<1>3. Upto(disk[f].len, MaxUpload) \in 0..MaxRecord
  BY <1>2, Bounds DEF Upto
<1>4. QED
  BY <1>2, <1>3 DEF Uploadable, File

\* What is being uploaded is a part of a file, never the empty file.
LEMMA SnapIsFile ==
    ASSUME IInv, lsPc \in {"post", "put", "remove"}
    PROVE  snap \in File
  BY DEF IInv, ListenerOK

-----------------------------------------------------------------------------
(* Which handler writes which state.                                       *)

\* Besides the saver (flightsaver.go:66-127) only the listener's Remove writes
\* to the disk.
LEMMA DiskFrame ==
    ASSUME Next
    PROVE  disk' = disk \/ StartLog \/ Remove \/ \E m \in MsgId : Persist(m)
<1>1. CASE StartFails \/ EndLog \/ Throttle \/ Saver
  BY <1>1 DEF StartFails, EndLog, Throttle, Saver, SyncLock, SyncLocked, EndThrottler, SyncUnlocked
<1>2. CASE Glob \/ UploadRefused \/ ReadEmpty \/ Read \/ RemoveFails \/ \E f \in Name : Check(f)
  BY <1>2 DEF Glob, Check, UploadRefused, ReadEmpty, Read, RemoveFails
<1>3. CASE CloudAnswers \/ Tick \/ Crash
  BY <1>3 DEF CloudAnswers, Post, PostFails, Put, PutFails, Tick, Crash
<1>4. QED
  BY <1>1, <1>2, <1>3 DEF Next, Listener

-----------------------------------------------------------------------------
\* The program starts with nothing recorded, locked or read
\* (NewFlightSaver, NewFlightSyncer).
LEMMA InitOK == Init => IInv
<1> SUFFICES ASSUME Init PROVE IInv
  OBVIOUS
<1>1. TypeOK
  <2>1. now \in Name /\ flights \in 0..MaxFlight /\ crashes \in 0..MaxCrash
    BY Bounds DEF Init, Name
  <2>2. disk \in [Name -> File \cup {NoFile}] /\ snap \in File \cup {NoFile}
    BY DEF Init
  <2>3. QED
    BY <2>1, <2>2 DEF Init, TypeOK
<1>2. RecorderOK /\ ListenerOK /\ LockedIsLeftAlone
  BY DEF Init, RecorderOK, ListenerOK, LockedIsLeftAlone, ListenerIn
<1>3. QED
  BY <1>1, <1>2 DEF IInv

\* Every handler keeps the types.
LEMMA TypeStep ==
    ASSUME IInv, Next
    PROVE  TypeOK'
<1> USE DEF IInv, TypeOK
<1>1. CASE StartLog
  BY <1>1, Bounds DEF StartLog, File, syncVars
<1>2. CASE StartFails
  BY <1>2 DEF StartFails, envVars, syncVars
<1>3. CASE SyncLock \/ SyncLocked
  BY <1>3 DEF SyncLock, SyncLocked, envVars, syncVars
<1>4. ASSUME NEW m \in MsgId, Persist(m) PROVE TypeOK'
  <2>1. fname \in Name
    BY <1>4 DEF Persist, RecorderOK
  <2>2. disk' \in [Name -> File \cup {NoFile}]
    <3>1. CASE disk[fname] = NoFile
      BY <1>4, <3>1 DEF Persist
    <3>2. CASE disk[fname] # NoFile
      <4>1. disk[fname] \in File /\ disk[fname].len < MaxRecord
        BY <1>4, <2>1, <3>2 DEF Persist
      <4>2. [disk[fname] EXCEPT !.len = @ + 1] \in File
        BY <4>1, Bounds DEF File
      <4>3. disk' = [disk EXCEPT ![fname] = [disk[fname] EXCEPT !.len = @ + 1]]
        BY <1>4, <3>2 DEF Persist
      <4>4. QED
        BY <4>2, <4>3
    <3>3. QED
      BY <3>1, <3>2
  <2>3. QED
    BY <1>4, <2>2 DEF Persist, envVars, syncVars
<1>5. CASE EndLog \/ Throttle
  BY <1>5 DEF EndLog, Throttle, envVars, syncVars
<1>6. CASE EndThrottler \/ SyncUnlocked
  BY <1>6 DEF EndThrottler, SyncUnlocked, envVars, syncVars
<1>7. CASE Glob
  BY <1>7 DEF Glob, envVars, saverVars
<1>8. ASSUME NEW f \in Name, Check(f) PROVE TypeOK'
  BY <1>8 DEF Check, envVars, saverVars
<1>9. CASE UploadRefused \/ ReadEmpty
  BY <1>9 DEF UploadRefused, ReadEmpty, Return, envVars, saverVars
<1>10. CASE Read
  <2>1. cur \in Name /\ disk[cur].len > 0
    BY <1>10 DEF Read, ListenerOK, ListenerIn
  <2>2. Uploadable(cur) \in File
    BY <2>1, UploadableIsFile
  <2>3. QED
    BY <1>10, <2>2 DEF Read, envVars, saverVars
<1>11. CASE Post \/ PostFails(TRUE) \/ PostFails(FALSE)
  BY <1>11, SnapIsFile DEF Post, PostFails, Return, envVars, saverVars
<1>12. CASE Put \/ PutFails
  BY <1>12 DEF Put, PutFails, Return, envVars, saverVars
<1>13. CASE Remove \/ RemoveFails
  BY <1>13 DEF Remove, RemoveFails, Return, ListenerOK, ListenerIn, envVars, saverVars
<1>14. CASE Tick
  BY <1>14, Bounds DEF Tick, Name, saverVars, syncVars
<1>15. CASE Crash
  <2>1. crashes' \in 0..MaxCrash
    BY <1>15, Bounds DEF Crash
  <2>2. UNCHANGED <<now, flights, disk, cloud>> /\ snap' = NoFile
    BY <1>15 DEF Crash
  <2>3. QED
    BY <1>15, <2>1, <2>2 DEF Crash
<1>16. QED
  BY <1>1, <1>2, <1>3, <1>4, <1>5, <1>6, <1>7, <1>8, <1>9, <1>10, <1>11, <1>12, <1>13,
     <1>14, <1>15 DEF Next, Saver, Listener, CloudAnswers

\* While the listener holds its read lock, the recorder stands still at Lock or
\* writes to another file (flightsyncer.go:106-117).
LEMMA RecorderStep ==
    ASSUME IInv, Next
    PROVE  RecorderOK' /\ LockedIsLeftAlone'
<1> USE DEF IInv, RecorderOK, LockedIsLeftAlone
<1>1. CASE StartLog
  BY <1>1 DEF StartLog, TypeOK, syncVars, ListenerIn
<1>2. CASE StartFails
  BY <1>2 DEF StartFails, TypeOK, syncVars, ListenerIn
<1>3. CASE SyncLock \/ SyncLocked
  BY <1>3 DEF SyncLock, SyncLocked, syncVars, ListenerIn
<1>4. ASSUME NEW m \in MsgId, Persist(m) PROVE RecorderOK' /\ LockedIsLeftAlone'
  BY <1>4 DEF Persist, syncVars, ListenerIn
<1>5. CASE EndLog \/ Throttle
  BY <1>5 DEF EndLog, Throttle, syncVars, ListenerIn
<1>6. CASE EndThrottler \/ SyncUnlocked
  BY <1>6 DEF EndThrottler, SyncUnlocked, syncVars, ListenerIn
<1>7. CASE Glob
  BY <1>7 DEF Glob, saverVars, ListenerIn
<1>8. ASSUME NEW f \in Name, Check(f) PROVE RecorderOK' /\ LockedIsLeftAlone'
  BY <1>8 DEF Check, saverVars, ListenerIn
<1>9. CASE UploadRefused \/ PostFails(TRUE) \/ PostFails(FALSE) \/ PutFails \/ Remove \/ RemoveFails
  BY <1>9 DEF UploadRefused, PostFails, PutFails, Remove, RemoveFails, Return, saverVars, ListenerIn
<1>10. CASE ReadEmpty \/ Read \/ Post \/ Put
  BY <1>10 DEF ReadEmpty, Read, Post, Put, saverVars, ListenerIn
<1>11. CASE Tick
  BY <1>11 DEF Tick, saverVars, syncVars, ListenerIn
<1>12. CASE Crash
  BY <1>12 DEF Crash, ListenerIn
<1>13. QED
  BY <1>1, <1>2, <1>3, <1>4, <1>5, <1>6, <1>7, <1>8, <1>9, <1>10, <1>11, <1>12
     DEF Next, Saver, Listener, CloudAnswers

-----------------------------------------------------------------------------
\* The listener's knowledge of its file survives what the recorder does: only a
\* new flight of the same second (flightsaver.go:74-76) can touch that file.
LEMMA ListenerKeeps ==
    ASSUME IInv, Next, UNCHANGED <<lsPc, cur, snap>>, cloud \subseteq cloud',
           ListenerIn => disk'[cur] = disk[cur] \/ disk'[cur].len = 0
    PROVE  ListenerOK'
<1>1. lsPc \in {"post", "put", "remove"} =>
          snap = [flight |-> disk'[cur].flight, len |-> Upto(disk'[cur].len, MaxUpload)]
              \/ disk'[cur].len = 0
  BY DEF IInv, ListenerOK, ListenerIn, Uploadable
<1>2. lsPc = "garbage" => disk'[cur].len = 0
  BY DEF IInv, ListenerOK, ListenerIn
<1>3. QED
  BY <1>1, <1>2 DEF IInv, ListenerOK, ListenerIn, Uploadable

\* Every handler keeps it.
LEMMA ListenerStep ==
    ASSUME IInv, Next
    PROVE  ListenerOK'
<1>1. CASE StartLog
  <2>1. disk' = [disk EXCEPT ![now] = [flight |-> flights + 1, len |-> 0]]
        /\ UNCHANGED <<lsPc, cur, snap, cloud>>
    BY <1>1 DEF StartLog, syncVars
  <2>2. disk \in [Name -> File \cup {NoFile}] /\ (ListenerIn => cur \in Name)
    BY DEF IInv, TypeOK, ListenerOK
  <2>3. ListenerIn => disk'[cur] = disk[cur] \/ disk'[cur].len = 0
    BY <2>1, <2>2
  <2>4. QED
    BY <2>1, <2>3, ListenerKeeps
<1>2. ASSUME NEW m \in MsgId, Persist(m) PROVE ListenerOK'
  <2>1. UNCHANGED <<lsPc, cur, snap, cloud>> /\ lockname = fname
        /\ (disk' = disk \/ disk' = [disk EXCEPT ![fname].len = @ + 1])
    BY <1>2 DEF Persist, syncVars, IInv, RecorderOK
  <2>2. disk \in [Name -> File \cup {NoFile}] /\ (ListenerIn => cur \in Name /\ cur # fname)
    BY <2>1 DEF IInv, TypeOK, ListenerOK, LockedIsLeftAlone
  <2>3. ListenerIn => disk'[cur] = disk[cur]
    BY <2>1, <2>2
  <2>4. QED
    BY <2>1, <2>3, ListenerKeeps
<1>3. CASE StartFails \/ EndLog \/ Throttle \/ Saver \/ Tick
  <2>1. UNCHANGED <<lsPc, cur, snap, cloud, disk>>
    BY <1>3 DEF StartFails, EndLog, Throttle, Saver, SyncLock, SyncLocked, EndThrottler,
                SyncUnlocked, Tick, syncVars
  <2>2. QED
    BY <2>1, ListenerKeeps
<1>4. CASE Glob \/ UploadRefused \/ PutFails \/ Remove \/ RemoveFails \/ Crash
           \/ PostFails(TRUE) \/ PostFails(FALSE)
  <2>1. lsPc' \in {"wait", "scan"}
    BY <1>4 DEF Glob, UploadRefused, PutFails, Remove, RemoveFails, Crash, PostFails, Return
  <2>2. QED
    BY <2>1 DEF ListenerOK, ListenerIn
<1>5. ASSUME NEW f \in Name, Check(f) PROVE ListenerOK'
  <2>1. lsPc' \in {"wait", "scan", "open"} /\ (lsPc' = "open" => cur' \in Name)
    BY <1>5 DEF Check
  <2>2. QED
    BY <2>1 DEF ListenerOK, ListenerIn
<1>6. CASE ReadEmpty
  <2>1. lsPc = "open" /\ lsPc' = "garbage" /\ UNCHANGED <<cur, disk>> /\ disk[cur].len = 0
    BY <1>6 DEF ReadEmpty
  <2>2. QED
    BY <2>1 DEF ListenerOK, ListenerIn, IInv
<1>7. CASE Read
  <2>1. lsPc = "open" /\ lsPc' = "post" /\ UNCHANGED <<cur, disk>>
        /\ snap' = Uploadable(cur) /\ disk[cur].len > 0
    BY <1>7 DEF Read
  <2>2. cur \in Name /\ disk \in [Name -> File \cup {NoFile}]
    BY <2>1 DEF IInv, ListenerOK, ListenerIn, TypeOK
  <2>3. snap' \in File
    BY <2>1, <2>2, UploadableIsFile
  <2>4. QED
    BY <2>1, <2>2, <2>3 DEF ListenerOK, ListenerIn, Uploadable
<1>8. CASE Post \/ Put
  <2>1. lsPc \in {"post", "put"} /\ lsPc' \in {"put", "remove"} /\ UNCHANGED <<cur, snap, disk>>
        /\ cloud \subseteq cloud' /\ (lsPc = "post" => snap \in cloud')
    BY <1>8 DEF Post, Put
  <2>2. QED
    BY <2>1 DEF ListenerOK, ListenerIn, Uploadable, IInv
<1>9. QED
  BY <1>1, <1>2, <1>3, <1>4, <1>5, <1>6, <1>7, <1>8 DEF Next, Saver, Listener, CloudAnswers

-----------------------------------------------------------------------------
\* Every handler keeps the invariant.
LEMMA IInvStep == IInv /\ [Next]_vars => IInv'
<1> SUFFICES ASSUME IInv, [Next]_vars PROVE IInv'
  OBVIOUS
<1>1. CASE Next
  BY <1>1, TypeStep, RecorderStep, ListenerStep DEF IInv
<1>2. CASE UNCHANGED vars
  <2>1. UNCHANGED <<now, flights, crashes, disk, svPc, isLogging, fname, msgSet, throttler,
                    lockname, lsPc, todo, cur, snap, cloud>>
    BY <1>2 DEF vars, envVars, saverVars, syncVars
  <2>2. QED
    BY <2>1 DEF IInv, TypeOK, RecorderOK, ListenerOK, LockedIsLeftAlone, ListenerIn, Uploadable
<1>3. QED
  BY <1>1, <1>2

\* The recorder's and the listener's knowledge of each other's files holds in
\* every reachable state (flightsaver.go, flightsyncer.go, fmulink.go:632-642).
THEOREM InductiveInvariant == Spec => []IInv
<1>1. Init => IInv
  BY InitOK
<1>2. IInv /\ [Next]_vars => IInv'
  BY IInvStep
<1>3. QED
  BY <1>1, <1>2, PTL DEF Spec

\* The variables keep their types.
THEOREM TypeCorrect == Spec => []TypeOK
<1>1. IInv => TypeOK
  BY DEF IInv
<1>2. QED
  BY <1>1, InductiveInvariant, PTL

\* From Lock(name) (flightsyncer.go:52-57) until Unlock the listener neither
\* uploads nor removes the recorder's file.
THEOREM LockedLeftAlone == Spec => []LockedIsLeftAlone
<1>1. IInv => LockedIsLeftAlone
  BY DEF IInv
<1>2. QED
  BY <1>1, InductiveInvariant, PTL

\* A file removed by the syncer (flightsyncer.go:164, 228) was empty or is on
\* the server as it was when it was removed.
THEOREM RemovesUploaded == Spec => RemovesWhatWasUploaded
<1> DEFINE A == \A f \in Name : disk[f] # NoFile /\ disk'[f] = NoFile /\ disk[f].len > 0 =>
                    Uploadable(f) \in cloud
<1>1. IInv /\ [Next]_vars => [A]_vars
  <2> SUFFICES ASSUME IInv, Next, NEW f \in Name, disk[f] # NoFile, disk'[f] = NoFile,
                      disk[f].len > 0
               PROVE  Uploadable(f) \in cloud
    OBVIOUS
  <2>1. CASE disk' = disk
    BY <2>1
  <2>2. CASE StartLog
    <3>1. disk \in [Name -> File \cup {NoFile}] /\ flights + 1 # 0
      BY DEF IInv, TypeOK
    <3>2. disk' = [disk EXCEPT ![now] = [flight |-> flights + 1, len |-> 0]]
      BY <2>2 DEF StartLog
    <3>3. [flight |-> flights + 1, len |-> 0] # NoFile
      BY <3>1 DEF NoFile
    <3>4. QED
      BY <3>1, <3>2, <3>3
  <2>3. ASSUME NEW m \in MsgId, Persist(m) PROVE FALSE
    <3>1. disk \in [Name -> File \cup {NoFile}]
      BY DEF IInv, TypeOK
    <3>2. disk' = disk \/ disk' = [disk EXCEPT ![fname].len = @ + 1]
      BY <2>3 DEF Persist
    <3>3. disk'[f] = [disk[f] EXCEPT !.len = @ + 1]
      BY <3>1, <3>2
    <3>4. disk[f] \in File
      BY <3>1
    <3>5. disk'[f].len # 0
      BY <3>3, <3>4 DEF File
    <3>6. QED
      BY <3>5 DEF NoFile
  <2>4. CASE Remove
    <3>1. disk \in [Name -> File \cup {NoFile}] /\ cur \in Name
      BY <2>4 DEF IInv, TypeOK, ListenerOK, ListenerIn, Remove
    <3>2. disk' = [disk EXCEPT ![cur] = NoFile] /\ lsPc \in {"garbage", "remove"}
      BY <2>4 DEF Remove
    <3>3. f = cur
      BY <3>1, <3>2
    <3>4. lsPc = "remove" /\ disk[cur].len # 0
      BY <3>1, <3>2, <3>3 DEF IInv, ListenerOK
    <3>5. QED
      BY <3>3, <3>4 DEF IInv, ListenerOK
  <2>5. QED
    BY <2>1, <2>2, <2>3, <2>4, DiskFrame
<1>2. QED
  BY <1>1, InductiveInvariant, PTL DEF Spec, RemovesWhatWasUploaded

=============================================================================
