------------------------------ MODULE CloudLink ------------------------------
(***************************************************************************)
(* The session with Dronesmith Cloud (cloudlink/cloudlink.go) and how it   *)
(* starts and stops the flight syncer (cloudlink/flightsyncer.go).         *)
(*                                                                         *)
(* Goroutines: the main loop, which sends a status message every second    *)
(* and notices that the server is silent; the reader of the server's       *)
(* messages; the syncer's listeners, one per Start; and the HTTP handlers  *)
(* in which a user logs out.  sessionId, messageCnt and most of the        *)
(* syncer's fields are shared without a lock: a read and a write of them   *)
(* are steps of their own.  quit is unbuffered: Stop waits until a         *)
(* listener takes it.                                                      *)
(*                                                                         *)
(* What a listener does with one file is module FlightLog's.  A listener's *)
(* timer takes 15 seconds; one that sits in its select takes a waiting     *)
(* quit before that.                                                       *)
(***************************************************************************)
EXTENDS Sequences, Integers

CONSTANTS
    Session,        \* the session ids of the server
    Account,        \* the (user, drone) pairs of its status messages
    Listener,       \* the listener goroutines
    TimeOut,        \* TIME_OUT_CNT
    MaxFiles,       \* bound: files one search finds
    MaxLogout,      \* bound: users who log out at once
    NoAccount       \* the empty user and drone id

NoSession == 0

ASSUME CloudAssumption ==
    /\ NoSession \notin Session
    /\ NoAccount \notin Account
    /\ TimeOut \in Nat \ {0} /\ MaxFiles \in Nat /\ MaxLogout \in Nat

VARIABLES
    session, count,     \* sessionId and messageCnt
    silent,             \* history: ticks since the last message was handled
    logouts,            \* how many are in the middle of Logout
    overtaken,          \* history: one of these met a message's session
    mPc, mCount,        \* the main loop, its copy of messageCnt
    rPc, rSes, rAcc,    \* the reader, its message's session and account
    isRunning, account, \* the syncer
    quits,              \* who waits in Stop for quit to be taken, in order
    writer,             \* does Start wait for the syncer's write lock
    lPc, lLeft, lAcc    \* the listeners: files left, ids copied

mainVars == <<mPc, mCount>>
readerVars == <<rPc, rSes, rAcc>>
listenerVars == <<lPc, lLeft, lAcc>>
logoutVars == <<logouts, overtaken>>
vars == <<session, count, silent, logoutVars, mainVars, readerVars, isRunning, account,
          quits, writer, listenerVars>>

Live(l) == lPc[l] # "none"
Uploading(l) == lPc[l] \in {"check", "copy", "upload"}  \* holds the read lock
QuitPending == quits # <<>>

-----------------------------------------------------------------------------
Init ==
    /\ session = NoSession /\ count = TimeOut /\ silent = 0
    /\ logouts = 0 /\ overtaken = FALSE
    /\ mPc = "select" /\ mCount = 0
    /\ rPc = "read" /\ rSes = NoSession /\ rAcc = NoAccount
    /\ isRunning = FALSE /\ account = NoAccount /\ quits = <<>>
    /\ writer = FALSE
    /\ lPc = [l \in Listener |-> "none"]
    /\ lLeft = [l \in Listener |-> 0]
    /\ lAcc = [l \in Listener |-> NoAccount]

-----------------------------------------------------------------------------
(* The main loop: sendStatus, then checkOnline.                            *)

MainTick ==
    /\ mPc = "select"
    /\ silent' = IF silent > TimeOut THEN silent ELSE silent + 1
    /\ mPc' = IF session = NoSession THEN "running" ELSE "send"
    /\ UNCHANGED <<session, count, logoutVars, mCount, readerVars, isRunning,
                   account, quits, writer, listenerVars>>

MainIsRunning ==
    /\ mPc = "running"
    /\ ~writer
    /\ mPc' = IF isRunning THEN "stop" ELSE "send"
    /\ UNCHANGED <<session, count, silent, logoutVars, mCount, readerVars,
                   isRunning, account, quits, writer, listenerVars>>

\* Stop clears the ids and the flag with no lock, then waits at quit.
ClearSyncer == isRunning' = FALSE /\ account' = NoAccount

\* Mutant: Stop does not wait for a listener to take quit.
MainStopNoQuit ==
    /\ mPc = "stop"
    /\ ClearSyncer
    /\ mPc' = "send"
    /\ UNCHANGED <<session, count, silent, logoutVars, mCount, readerVars, quits,
                   writer, listenerVars>>

MainStop ==
    /\ mPc = "stop"
    /\ ClearSyncer
    /\ mPc' = "quit" /\ quits' = Append(quits, "main")
    /\ UNCHANGED <<session, count, silent, logoutVars, mCount, readerVars, writer,
                   listenerVars>>

\* messageCnt-- reads, then writes.
MainSend ==
    /\ mPc = "send"
    /\ mCount' = count
    /\ mPc' = "store"
    /\ UNCHANGED <<session, count, silent, logoutVars, readerVars, isRunning,
                   account, quits, writer, listenerVars>>

MainStore ==
    /\ mPc = "store"
    /\ count' = mCount - 1
    /\ mPc' = "check"
    /\ UNCHANGED <<session, silent, logoutVars, mCount, readerVars, isRunning,
                   account, quits, writer, listenerVars>>

\* checkOnline, "No response from server.": two more writes.
MainCheck ==
    /\ mPc = "check"
    /\ mPc' = IF count = 0 THEN "reset" ELSE "select"
    /\ UNCHANGED <<session, count, silent, logoutVars, mCount, readerVars, isRunning,
                   account, quits, writer, listenerVars>>

\* Mutant: the session is not reset.
MainResetNoSession ==
    /\ mPc = "reset"
    /\ mPc' = "recount"
    /\ UNCHANGED <<session, count, silent, logoutVars, mCount, readerVars, isRunning,
                   account, quits, writer, listenerVars>>

MainReset ==
    /\ mPc = "reset"
    /\ session' = NoSession
    /\ mPc' = "recount"
    /\ UNCHANGED <<count, silent, logoutVars, mCount, readerVars, isRunning, account,
                   quits, writer, listenerVars>>

MainRecount ==
    /\ mPc = "recount"
    /\ count' = TimeOut
    /\ mPc' = "select"
    /\ UNCHANGED <<session, silent, logoutVars, mCount, readerVars, isRunning,
                   account, quits, writer, listenerVars>>

Main ==
    \/ MainTick \/ MainIsRunning \/ MainStop \/ MainSend \/ MainStore
    \/ MainCheck \/ MainReset \/ MainRecount

-----------------------------------------------------------------------------
(* The reader: handleMessage.                                              *)

\* A status message names an account; the other messages do not.
Receive(s, a) ==
    /\ rPc = "read"
    /\ count' = TimeOut /\ silent' = 0 /\ overtaken' = FALSE
    /\ rSes' = s /\ rAcc' = a
    /\ rPc' = "session"
    /\ UNCHANGED <<session, logouts, mainVars, isRunning, account, quits,
                   writer, listenerVars>>

ReadError ==
    /\ rPc = "read"
    /\ session' = NoSession
    /\ UNCHANGED <<count, silent, logoutVars, mainVars, readerVars, isRunning,
                   account, quits, writer, listenerVars>>

SetSession ==
    /\ rPc = "session"
    /\ session' = rSes /\ silent' = 0 /\ overtaken' = FALSE
    /\ rPc' = IF rAcc = NoAccount THEN "read" ELSE "running"
    /\ UNCHANGED <<count, logouts, mainVars, rSes, rAcc, isRunning, account,
                   quits, writer, listenerVars>>

\* "avoid sending to the wrong person"
IsRunning ==
    /\ rPc = "running"
    /\ rPc' = IF isRunning THEN "compare" ELSE "again"
    /\ UNCHANGED <<session, count, silent, logoutVars, mainVars, rSes, rAcc,
                   isRunning, account, quits, writer, listenerVars>>

Compare ==
    /\ rPc = "compare"
    /\ rPc' = IF account # rAcc THEN "stop" ELSE "again"
    /\ UNCHANGED <<session, count, silent, logoutVars, mainVars, rSes, rAcc,
                   isRunning, account, quits, writer, listenerVars>>

\* Mutant: Stop does not wait for a listener to take quit.
StopNoQuit ==
    /\ rPc = "stop"
    /\ ClearSyncer
    /\ rPc' = "again"
    /\ UNCHANGED <<session, count, silent, logoutVars, mainVars, rSes, rAcc,
                   quits, writer, listenerVars>>

Stop ==
    /\ rPc = "stop"
    /\ ClearSyncer
    /\ rPc' = "quit" /\ quits' = Append(quits, "reader")
    /\ UNCHANGED <<session, count, silent, logoutVars, mainVars, rSes, rAcc,
                   writer, listenerVars>>

\* Start checks isRunning once more; only this goroutine sets it.
Again ==
    /\ rPc = "again"
    /\ rPc' = IF isRunning THEN "read" ELSE "start"
    /\ writer' = ~isRunning
    /\ UNCHANGED <<session, count, silent, logoutVars, mainVars, rSes, rAcc,
                   isRunning, account, quits, listenerVars>>

Start ==
    /\ rPc = "start"
    /\ \A l \in Listener : ~Uploading(l)
    /\ isRunning' = TRUE /\ account' = rAcc
    /\ writer' = FALSE
    /\ rPc' = "spawn"
    /\ UNCHANGED <<session, count, silent, logoutVars, mainVars, rSes, rAcc,
                   quits, listenerVars>>

Spawn(l) ==
    /\ rPc = "spawn"
    /\ ~Live(l)
    /\ lPc' = [lPc EXCEPT ![l] = "select"]
    /\ rPc' = "read"
    /\ UNCHANGED <<session, count, silent, logoutVars, mainVars, rSes, rAcc,
                   isRunning, account, quits, writer, lLeft, lAcc>>

Reader ==
    \/ SetSession \/ IsRunning \/ Compare \/ Stop \/ Again \/ Start
    \/ \E l \in Listener : Spawn(l)

-----------------------------------------------------------------------------
(* The listeners.                                                          *)

\* The goroutine that waits longest goes on (a channel's senders queue up).
QuitTaken ==
    /\ QuitPending
    /\ quits' = Tail(quits)
    /\ IF Head(quits) = "main" THEN mPc' = "send" /\ UNCHANGED rPc
                               ELSE rPc' = "again" /\ UNCHANGED mPc

TakeQuit(l) ==
    /\ lPc[l] = "select"
    /\ QuitTaken
    /\ lPc' = [lPc EXCEPT ![l] = "none"]
    /\ UNCHANGED <<session, count, silent, logoutVars, mCount, rSes, rAcc,
                   isRunning, account, writer, lLeft, lAcc>>

Search(l) ==
    /\ lPc[l] = "select"
    /\ ~QuitPending
    /\ \E n \in 0..MaxFiles : lLeft' = [lLeft EXCEPT ![l] = n]
    /\ lPc' = [lPc EXCEPT ![l] = "file"]
    /\ UNCHANGED <<session, count, silent, logoutVars, mainVars, readerVars,
                   isRunning, account, quits, writer, lAcc>>

NextFile(l) ==
    /\ lPc[l] = "file"
    /\ IF lLeft[l] = 0
       THEN lPc' = [lPc EXCEPT ![l] = "select"] /\ UNCHANGED lLeft
       ELSE /\ ~writer
            /\ lPc' = [lPc EXCEPT ![l] = "check"]
            /\ lLeft' = [lLeft EXCEPT ![l] = @ - 1]
    /\ UNCHANGED <<session, count, silent, logoutVars, mainVars, readerVars,
                   isRunning, account, quits, writer, lAcc>>

\* Mutant: a return without the RUnlock.
CheckIdsLocked(l) ==
    /\ lPc[l] = "check"
    /\ account # NoAccount
    /\ lPc' = [lPc EXCEPT ![l] = "copy"]
    /\ UNCHANGED <<session, count, silent, logoutVars, mainVars, readerVars,
                   isRunning, account, quits, writer, lLeft, lAcc>>

\* "Cannot sync. User Id or Drone Id nil"
CheckIds(l) ==
    /\ lPc[l] = "check"
    /\ lPc' = [lPc EXCEPT ![l] = IF account = NoAccount THEN "file" ELSE "copy"]
    /\ UNCHANGED <<session, count, silent, logoutVars, mainVars, readerVars,
                   isRunning, account, quits, writer, lLeft, lAcc>>

CopyIds(l) ==
    /\ lPc[l] = "copy"
    /\ lAcc' = [lAcc EXCEPT ![l] = account]
    /\ lPc' = [lPc EXCEPT ![l] = "upload"]
    /\ UNCHANGED <<session, count, silent, logoutVars, mainVars, readerVars,
                   isRunning, account, quits, writer, lLeft>>

\* The file is uploaded and associated with the ids, or something fails: which,
\* is FlightLog's.
Upload(l) ==
    /\ lPc[l] = "upload"
    /\ lAcc' = [lAcc EXCEPT ![l] = NoAccount]
    /\ lPc' = [lPc EXCEPT ![l] = "file"]
    /\ UNCHANGED <<session, count, silent, logoutVars, mainVars, readerVars,
                   isRunning, account, quits, writer, lLeft>>

Listens(l) == TakeQuit(l) \/ NextFile(l) \/ CheckIds(l) \/ CopyIds(l) \/ Upload(l)

-----------------------------------------------------------------------------
(* A user logs out (an HTTP request): two writes, and no lock.             *)

Logout ==
    /\ logouts < MaxLogout
    /\ session' = NoSession
    /\ logouts' = logouts + 1
    /\ UNCHANGED <<count, silent, overtaken, mainVars, readerVars, isRunning, account,
                   quits, writer, listenerVars>>

\* The session of a message that came between the two writes, and of which
\* nothing has been heard since the last tick, is given a whole countdown.
LogoutCount ==
    /\ logouts > 0
    /\ count' = TimeOut
    /\ logouts' = logouts - 1
    /\ overtaken' = (overtaken \/ (session # NoSession /\ silent > 0))
    /\ UNCHANGED <<session, silent, mainVars, readerVars, isRunning, account, quits,
                   writer, listenerVars>>

Next ==
    \/ Main
    \/ \E s \in Session, a \in Account \cup {NoAccount} : Receive(s, a)
    \/ ReadError \/ Reader
    \/ \E l \in Listener : Search(l) \/ Listens(l)
    \/ Logout \/ LogoutCount

Spec == Init /\ [][Next]_vars

\* Goroutines that can run do run, the ticker ticks, and uploads return.  An
\* RWMutex lets in the readers that waited for a writer before the next writer.
FairSpec ==
    /\ Spec
    /\ WF_vars(Main) /\ SF_vars(MainIsRunning)
    /\ WF_vars(Reader)
    /\ \A l \in Listener : WF_vars(Listens(l)) /\ SF_vars(NextFile(l))

-----------------------------------------------------------------------------
ListenerPc == {"none", "select", "file", "check", "copy", "upload"}

\* The types of the variables.
TypeOK ==
    /\ session \in Session \cup {NoSession} /\ count \in 0..TimeOut
    /\ silent \in 0..TimeOut + 1
    /\ logouts \in 0..MaxLogout /\ overtaken \in BOOLEAN
    /\ mPc \in {"select", "running", "stop", "quit", "send", "store", "check",
                "reset", "recount"}
    /\ mCount \in 0..TimeOut
    /\ rPc \in {"read", "session", "running", "compare", "stop", "quit", "again",
                "start", "spawn"}
    /\ rSes \in Session \cup {NoSession} /\ rAcc \in Account \cup {NoAccount}
    /\ isRunning \in BOOLEAN /\ account \in Account \cup {NoAccount}
    /\ quits \in {<<>>, <<"main">>, <<"reader">>,
                  <<"main", "reader">>, <<"reader", "main">>}
    /\ writer \in BOOLEAN
    /\ lPc \in [Listener -> ListenerPc] /\ lLeft \in [Listener -> 0..MaxFiles]
    /\ lAcc \in [Listener -> Account \cup {NoAccount}]

\* Once Stop has returned (flightsyncer.go:82-87) and until the next Start, no
\* listener is left to upload, although two goroutines stop the syncer
\* (cloudlink.go:357, 397) and any listener may take either's quit.
StoppedIsSilent ==
    ~isRunning /\ ~QuitPending => \A l \in Listener : ~Live(l)

\* "do this sequentially for now" (flightsyncer.go:110-111): no two listeners
\* are busy with files, however often the syncer was stopped and started.
UploadsAreSequential ==
    \A l, k \in Listener :
        lPc[l] \notin {"none", "select"} /\ lPc[k] \notin {"none", "select"} => l = k

\* A session whose server is silent ends after TimeOut ticks (cloudlink.go:
\* 444-451), although messageCnt is counted down and reset by the main loop, the
\* reader and those who log out (379, 106); unless the session is one that
\* slipped in between the two writes of a Logout (105-106).
SilentSessionEnds ==
    session # NoSession /\ mPc = "select" /\ ~overtaken => silent < TimeOut

\* More Stops wait than there are listeners to take their quit.
Overstopped == QuitPending /\ rPc # "spawn" /\ \A l \in Listener : ~Live(l)

\* The main loop comes back to its select and the reader to its socket
\* (cloudlink.go:188-289), unless the syncer was stopped twice.
BothGoOn ==
    /\ mPc # "select" ~> (mPc = "select" \/ Overstopped)
    /\ rPc # "read" ~> (rPc = "read" \/ Overstopped)

-----------------------------------------------------------------------------
(* The inductive invariant.                                                *)

\* quits lists the goroutines that are inside Stop; only the reader starts.
QuitsOK ==
    /\ mPc = "quit" <=> quits \in {<<"main">>, <<"main", "reader">>, <<"reader", "main">>}
    /\ rPc = "quit" <=> quits \in {<<"reader">>, <<"main", "reader">>, <<"reader", "main">>}
    /\ isRunning => rPc \notin {"start", "quit"}

\* Every listener, and the one about to be started, is wanted or has a quit
\* waiting for it: two of them are one more than wanted, and never three.
Wanted == isRunning \/ QuitPending
BothWanted == Len(quits) = 2 \/ (isRunning /\ QuitPending)

ListenersOK ==
    /\ rPc = "spawn" => Wanted
    /\ \A l \in Listener :
          Live(l) => /\ Wanted
                     /\ rPc = "spawn" => BothWanted
    /\ \A l, k \in Listener :
          Live(l) /\ Live(k) /\ l # k =>
              /\ BothWanted
              /\ rPc # "spawn"
              /\ \A j \in Listener : Live(j) => j = l \/ j = k

\* messageCnt bounds what is left of the server's time, the pending decrement
\* included.  A session that is set again while checkOnline ends it is new.
CountOK ==
    /\ mPc \notin {"check", "reset", "recount"} => count >= 1
    /\ mPc = "store" => mCount >= 1
    /\ session # NoSession /\ ~overtaken =>
          CASE mPc \in {"select", "check", "reset"} -> silent + count <= TimeOut
            [] mPc = "store" -> silent + mCount <= TimeOut + 1
            [] mPc = "recount" -> silent = 0
            [] OTHER -> silent + count <= TimeOut + 1

\* Stops, Starts and listeners are in balance (cloudlink.go:352-404), and the
\* countdown bounds the silence.
IInv ==
    /\ TypeOK /\ QuitsOK /\ ListenersOK /\ CountOK
    /\ StoppedIsSilent /\ UploadsAreSequential /\ SilentSessionEnds

=============================================================================
