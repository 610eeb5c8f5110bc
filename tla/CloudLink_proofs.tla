--------------------------- MODULE CloudLink_proofs ---------------------------
(***************************************************************************)
(* For any number of listeners, accounts, sessions and files, and any      *)
(* time-out: a stopped syncer is silent, no two listeners are busy, and a  *)
(* session whose server is silent ends, unless a logout was overtaken by   *)
(* the message that brought it.                                            *)
(***************************************************************************)
EXTENDS CloudLink, TLAPS

-----------------------------------------------------------------------------
\* The program starts with no session and no listener (NewCloudLink, Serve).
LEMMA InitOK == Init => IInv
<1> SUFFICES ASSUME Init PROVE IInv
  OBVIOUS
<1>1. TypeOK
  <2>1. /\ count \in 0..TimeOut /\ silent \in 0..TimeOut + 1 /\ mCount \in 0..TimeOut
        /\ logouts \in 0..MaxLogout
    BY CloudAssumption DEF Init
  <2>2. lLeft \in [Listener -> 0..MaxFiles]
    BY CloudAssumption DEF Init
  <2>3. QED
    BY <2>1, <2>2 DEF Init, TypeOK, ListenerPc
<1>2. QuitsOK /\ ListenersOK /\ StoppedIsSilent /\ UploadsAreSequential
  BY DEF Init, QuitsOK, ListenersOK, StoppedIsSilent, UploadsAreSequential, Live
<1>3. CountOK /\ SilentSessionEnds
  BY CloudAssumption DEF Init, CountOK, SilentSessionEnds
<1>4. QED
  BY <1>1, <1>2, <1>3 DEF IInv

-----------------------------------------------------------------------------
\* A sequence of two is its two elements.
LEMMA Pair ==
    ASSUME NEW S, NEW s \in Seq(S), Len(s) = 2
    PROVE  s = <<s[1], s[2]>>
OBVIOUS

\* One that stops waits behind the other (quit <- true, flightsyncer.go:86).
LEMMA InLine ==
    ASSUME NEW g, NEW h
    PROVE  Append(<<g>>, h) = <<g, h>>
<1> DEFINE s == Append(<<g>>, h)
<1>1. <<g>> \in Seq({g, h})
  OBVIOUS
<1>2. s \in Seq({g, h}) /\ Len(s) = 2
  BY <1>1
<1>3. s[1] = g /\ s[2] = h
  BY <1>1
<1> HIDE DEF s
<1>4. s = <<s[1], s[2]>>
  BY <1>2, Pair
<1>5. s = <<g, h>>
  BY <1>3, <1>4
<1>6. QED
  BY <1>5 DEF s

\* The main loop stops the syncer (cloudlink.go:357) when it is not stopping it.
LEMMA MainStops ==
    ASSUME IInv, MainStop
    PROVE  /\ mPc' = "quit" /\ rPc' = rPc /\ lPc' = lPc
           /\ isRunning' = FALSE
           /\ \/ quits = <<>> /\ quits' = <<"main">>
              \/ quits = <<"reader">> /\ quits' = <<"reader", "main">>
<1>1. mPc # "quit" /\ quits' = Append(quits, "main")
  BY DEF MainStop
<1>2. quits = <<>> \/ quits = <<"reader">>
  BY <1>1 DEF IInv, QuitsOK, TypeOK
<1>3. mPc' = "quit" /\ rPc' = rPc /\ lPc' = lPc /\ isRunning' = FALSE
  BY DEF MainStop, ClearSyncer, readerVars, listenerVars
<1>4. quits = <<>> => quits' = <<"main">>
  BY <1>1
<1>5. quits = <<"reader">> => quits' = <<"reader", "main">>
  BY <1>1, InLine
<1>6. QED
  BY <1>2, <1>3, <1>4, <1>5

\* The reader stops the syncer (cloudlink.go:397) when it is not stopping it.
LEMMA ReaderStops ==
    ASSUME IInv, Stop
    PROVE  /\ rPc = "stop" /\ rPc' = "quit" /\ mPc' = mPc /\ lPc' = lPc
           /\ isRunning' = FALSE
           /\ \/ quits = <<>> /\ quits' = <<"reader">>
              \/ quits = <<"main">> /\ quits' = <<"main", "reader">>
<1>1. rPc = "stop" /\ quits' = Append(quits, "reader")
  BY DEF Stop
<1>2. quits = <<>> \/ quits = <<"main">>
  BY <1>1 DEF IInv, QuitsOK, TypeOK
<1>3. rPc' = "quit" /\ mPc' = mPc /\ lPc' = lPc /\ isRunning' = FALSE
  BY DEF Stop, ClearSyncer, mainVars, listenerVars
<1>4. quits = <<>> => quits' = <<"reader">>
  BY <1>1
<1>5. quits = <<"main">> => quits' = <<"main", "reader">>
  BY <1>1, InLine
<1>6. QED
  BY <1>1, <1>2, <1>3, <1>4, <1>5

-----------------------------------------------------------------------------
(* Types, a lemma per goroutine.                                           *)

\* The main loop (cloudlink.go:352-376, 444-451) keeps the types.
LEMMA MainType ==
    ASSUME IInv, Main
    PROVE  TypeOK'
<1> USE DEF TypeOK
<1>0. TypeOK /\ TimeOut \in Nat \ {0}
  BY CloudAssumption DEF IInv
<1>1. CASE MainTick
  BY <1>0, <1>1 DEF MainTick, readerVars, listenerVars, logoutVars
<1>2. CASE MainIsRunning
  BY <1>0, <1>2 DEF MainIsRunning, readerVars, listenerVars, logoutVars
<1>3. CASE MainStop
  <2>1. quits' = <<"main">> \/ quits' = <<"reader", "main">>
    BY <1>3, MainStops
  <2>2. QED
    BY <1>0, <1>3, <2>1 DEF MainStop, ClearSyncer, readerVars, listenerVars, logoutVars
<1>4. CASE MainSend
  BY <1>0, <1>4 DEF MainSend, readerVars, listenerVars, logoutVars
<1>5. CASE MainStore
  <2>1. mCount >= 1
    BY <1>5 DEF MainStore, IInv, CountOK
  <2>2. QED
    BY <1>0, <1>5, <2>1 DEF MainStore, readerVars, listenerVars, logoutVars
<1>6. CASE MainCheck \/ MainReset \/ MainRecount
  BY <1>0, <1>6 DEF MainCheck, MainReset, MainRecount, readerVars, listenerVars, logoutVars
<1>7. QED
  BY <1>1, <1>2, <1>3, <1>4, <1>5, <1>6 DEF Main

\* The reader (cloudlink.go:378-404) keeps the types.
LEMMA ReaderType ==
    ASSUME IInv, Reader
    PROVE  TypeOK'
<1> USE DEF TypeOK
<1>0. TypeOK /\ TimeOut \in Nat \ {0}
  BY CloudAssumption DEF IInv
<1>1. CASE SetSession
  <2>1. silent' \in 0..TimeOut + 1
    BY <1>0, <1>1 DEF SetSession
  <2>2. overtaken' \in BOOLEAN
    BY <1>1 DEF SetSession
  <2>3. QED
    BY <1>0, <1>1, <2>1, <2>2 DEF SetSession, mainVars, listenerVars
<1>2. CASE IsRunning \/ Compare
  BY <1>0, <1>2 DEF IsRunning, Compare, mainVars, listenerVars, logoutVars
<1>3. CASE Stop
  <2>1. quits' = <<"reader">> \/ quits' = <<"main", "reader">>
    BY <1>3, ReaderStops
  <2>2. QED
    BY <1>0, <1>3, <2>1 DEF Stop, ClearSyncer, mainVars, listenerVars, logoutVars
<1>4. CASE Again
  BY <1>0, <1>4 DEF Again, mainVars, listenerVars, logoutVars
<1>5. CASE Start
  BY <1>0, <1>5 DEF Start, mainVars, listenerVars, logoutVars
<1>6. ASSUME NEW l \in Listener, Spawn(l) PROVE TypeOK'
  BY <1>0, <1>6 DEF Spawn, mainVars, logoutVars, ListenerPc
<1>7. QED
  BY <1>1, <1>2, <1>3, <1>4, <1>5, <1>6 DEF Reader

\* A quit that is taken leaves the other one.
LEMMA QuitTail ==
    ASSUME TypeOK, QuitTaken
    PROVE  /\ quits' \in {<<>>, <<"main">>, <<"reader">>}
           /\ quits = <<"main">> => quits' = <<>> /\ mPc' = "send" /\ rPc' = rPc
           /\ quits = <<"reader">> => quits' = <<>> /\ rPc' = "again" /\ mPc' = mPc
           /\ quits = <<"main", "reader">> =>
                  quits' = <<"reader">> /\ mPc' = "send" /\ rPc' = rPc
           /\ quits = <<"reader", "main">> =>
                  quits' = <<"main">> /\ rPc' = "again" /\ mPc' = mPc
<1>1. CASE quits = <<"main">>
  BY <1>1 DEF QuitTaken
<1>2. CASE quits = <<"reader">>
  BY <1>2 DEF QuitTaken
<1>3. CASE quits = <<"main", "reader">>
  BY <1>3 DEF QuitTaken
<1>4. CASE quits = <<"reader", "main">>
  BY <1>4 DEF QuitTaken
<1>5. QED
  BY <1>1, <1>2, <1>3, <1>4 DEF TypeOK, QuitTaken, QuitPending

\* A listener (flightsyncer.go:89-149) keeps the types.
LEMMA ListenerType ==
    ASSUME IInv, NEW l \in Listener, Search(l) \/ Listens(l)
    PROVE  TypeOK'
<1> USE DEF TypeOK
<1>0. TypeOK
  BY DEF IInv
<1>1. CASE TakeQuit(l)
  <2>1. QuitTaken
    BY <1>1 DEF TakeQuit
  <2>2. quits' \in {<<>>, <<"main">>, <<"reader">>} /\ mPc' \in {mPc, "send"}
        /\ rPc' \in {rPc, "again"}
    BY ONLY <1>0, <2>1, QuitTail DEF QuitTaken
  <2>3. QED
    BY <1>0, <1>1, <2>2 DEF TakeQuit, logoutVars, ListenerPc
<1>2. CASE Search(l)
  <2>1. lLeft' \in [Listener -> 0..MaxFiles]
    BY <1>0, <1>2 DEF Search
  <2>2. QED
    BY <1>0, <1>2, <2>1 DEF Search, mainVars, readerVars, logoutVars, ListenerPc
<1>3. CASE NextFile(l)
  <2>1. lLeft' \in [Listener -> 0..MaxFiles]
    <3>1. CASE lLeft[l] = 0
      BY <1>0, <1>3, <3>1 DEF NextFile
    <3>2. CASE lLeft[l] # 0
      <4>1. lLeft[l] - 1 \in 0..MaxFiles
        BY <1>0, <3>2, CloudAssumption
      <4>2. QED
        BY <1>0, <1>3, <3>2, <4>1 DEF NextFile
    <3>3. QED
      BY <3>1, <3>2
  <2>2. QED
    BY <1>0, <1>3, <2>1 DEF NextFile, mainVars, readerVars, logoutVars, ListenerPc
<1>4. CASE CheckIds(l)
  BY <1>0, <1>4 DEF CheckIds, mainVars, readerVars, logoutVars, ListenerPc
<1>5. CASE CopyIds(l) \/ Upload(l)
  BY <1>0, <1>5 DEF CopyIds, Upload, mainVars, readerVars, logoutVars, ListenerPc
<1>6. QED
  BY <1>1, <1>2, <1>3, <1>4, <1>5 DEF Listens

\* Every handler keeps the types.
LEMMA TypeStep ==
    ASSUME IInv, Next
    PROVE  TypeOK'
<1>0. TypeOK /\ TimeOut \in Nat \ {0}
  BY CloudAssumption DEF IInv
<1>1. ASSUME NEW s \in Session, NEW a \in Account \cup {NoAccount}, Receive(s, a)
      PROVE  TypeOK'
  <2>1. count' \in 0..TimeOut /\ silent' \in 0..TimeOut + 1
    BY <1>0, <1>1 DEF Receive
  <2>2. overtaken' \in BOOLEAN
    BY <1>1 DEF Receive
  <2>3. QED
    BY <1>0, <1>1, <2>1, <2>2 DEF Receive, TypeOK, mainVars, listenerVars
<1>2. CASE ReadError \/ Logout \/ LogoutCount
  <2>1. MaxLogout \in Nat /\ logouts \in 0..MaxLogout
    BY <1>0, CloudAssumption DEF TypeOK
  <2>2. logouts' \in 0..MaxLogout
    BY <1>2, <2>1 DEF ReadError, Logout, LogoutCount, logoutVars
  <2>3. overtaken' \in BOOLEAN
    BY <1>0, <1>2 DEF ReadError, Logout, LogoutCount, logoutVars, TypeOK
  <2>4. QED
    BY <1>0, <1>2, <2>2, <2>3 DEF ReadError, Logout, LogoutCount, TypeOK, mainVars, readerVars,
                                  listenerVars
<1>3. QED
  BY <1>1, <1>2, MainType, ReaderType, ListenerType DEF Next

-----------------------------------------------------------------------------
(* Stops, starts and listeners.                                            *)

\* Only Stop, Start, the spawn and a taken quit change who wants listeners.
LEMMA ListenersFrame ==
    ASSUME IInv, Next
    PROVE  \/ MainStop \/ Stop \/ Start \/ \E l \in Listener : Spawn(l) \/ TakeQuit(l)
           \/ /\ UNCHANGED <<isRunning, quits>>
              /\ mPc' = "quit" <=> mPc = "quit"
              /\ rPc' = "quit" <=> rPc = "quit"
              /\ rPc' = "spawn" <=> rPc = "spawn"
              /\ rPc' = "start" => rPc = "start" \/ ~isRunning
              /\ \A j \in Listener : lPc'[j] # "none" <=> lPc[j] # "none"
<1>1. CASE \/ MainTick \/ MainIsRunning \/ MainSend \/ MainStore
           \/ MainCheck \/ MainReset \/ MainRecount
           \/ Logout \/ LogoutCount \/ ReadError
  BY <1>1 DEF MainTick, MainIsRunning, MainSend, MainStore, MainCheck, MainReset, MainRecount,
              Logout, LogoutCount, ReadError, mainVars, readerVars, listenerVars
<1>2. ASSUME NEW s \in Session, NEW a \in Account \cup {NoAccount}, Receive(s, a)
      PROVE  /\ UNCHANGED <<isRunning, quits, mPc, lPc>>
             /\ rPc = "read" /\ rPc' = "session"
  BY <1>2 DEF Receive, mainVars, listenerVars
<1>3. CASE SetSession \/ IsRunning \/ Compare \/ Again
  BY <1>3 DEF SetSession, IsRunning, Compare, Again, mainVars, listenerVars
<1>4. ASSUME NEW l \in Listener,
             Search(l) \/ NextFile(l) \/ CheckIds(l) \/ CopyIds(l) \/ Upload(l)
      PROVE  /\ UNCHANGED <<isRunning, quits, mPc, rPc>>
             /\ \A j \in Listener : lPc'[j] # "none" <=> lPc[j] # "none"
  <2>1. lPc \in [Listener -> ListenerPc]
    BY DEF IInv, TypeOK
  <2>2. lPc[l] # "none"
    BY <1>4 DEF Search, NextFile, CheckIds, CopyIds, Upload
  <2>3. UNCHANGED <<isRunning, quits, mPc, rPc>>
    BY <1>4 DEF Search, NextFile, CheckIds, CopyIds, Upload, mainVars, readerVars
  <2>4. \E p \in {"file", "select", "check", "copy", "upload"} : lPc' = [lPc EXCEPT ![l] = p]
    BY <1>4 DEF Search, NextFile, CheckIds, CopyIds, Upload
  <2>5. QED
    BY <2>1, <2>2, <2>3, <2>4
<1>5. QED
  BY <1>1, <1>2, <1>3, <1>4 DEF Next, Main, Reader, Listens

\* quits keeps listing the goroutines inside Stop.
LEMMA QuitsStep ==
    ASSUME IInv, Next
    PROVE  QuitsOK'
<1> USE DEF QuitsOK
<1>0. TypeOK /\ QuitsOK
  BY DEF IInv
<1>1. CASE MainStop
  BY <1>0, <1>1, MainStops
<1>2. CASE Stop
  BY <1>0, <1>2, ReaderStops
<1>3. CASE Start
  BY <1>0, <1>3 DEF Start, mainVars
<1>4. ASSUME NEW l \in Listener, Spawn(l) PROVE QuitsOK'
  BY <1>0, <1>4 DEF Spawn, mainVars
<1>5. ASSUME NEW l \in Listener, TakeQuit(l) PROVE QuitsOK'
  <2>1. QuitTaken /\ isRunning' = isRunning
    BY <1>5 DEF TakeQuit
  <2>2. quits # <<>>
    BY <2>1 DEF QuitTaken, QuitPending
  <2>3. QED
    BY <1>0, <2>1, <2>2, QuitTail DEF TypeOK
<1>6. QED
  BY <1>0, <1>1, <1>2, <1>3, <1>4, <1>5, ListenersFrame

\* Two wait in Stop, or none, or one of the two.
LEMMA LenTwo ==
    ASSUME NEW q \in {<<>>, <<"main">>, <<"reader">>,
                      <<"main", "reader">>, <<"reader", "main">>}
    PROVE  Len(q) = 2 <=> q \in {<<"main", "reader">>, <<"reader", "main">>}
<1>1. q \in {<<>>, <<"main">>, <<"reader">>} => Len(q) # 2
  OBVIOUS
<1>2. q \in {<<"main", "reader">>, <<"reader", "main">>} => Len(q) = 2
  OBVIOUS
<1>3. QED
  BY <1>1, <1>2

\* Stop (flightsyncer.go:82-87): one more quit for one that is wanted no more.
LEMMA StopsKeepListeners ==
    ASSUME IInv, MainStop \/ Stop
    PROVE  ListenersOK'
<1>0. TypeOK /\ QuitsOK /\ ListenersOK
  BY DEF IInv
<1>1. CASE MainStop
  <2>1. /\ quits' # <<>> /\ rPc' = rPc /\ lPc' = lPc
        /\ \/ quits = <<>>
           \/ quits = <<"reader">> /\ rPc = "quit" /\ ~isRunning
    BY <1>0, <1>1, MainStops DEF QuitsOK
  <2>2. ~BothWanted
    <3>1. quits \notin {<<"main", "reader">>, <<"reader", "main">>}
      BY <2>1
    <3>2. QED
      BY ONLY <1>0, <2>1, <3>1, LenTwo DEF BothWanted, QuitPending, TypeOK
  <2>3. rPc = "spawn" => \A l \in Listener : ~Live(l)
    BY <1>0, <2>2 DEF ListenersOK
  <2>4. \A l, k \in Listener : ~(Live(l) /\ Live(k) /\ l # k)
    BY <1>0, <2>2 DEF ListenersOK
  <2>5. QED
    BY <2>1, <2>3, <2>4 DEF ListenersOK, Live, Wanted, QuitPending
<1>2. CASE Stop
  <2>1. /\ quits' # <<>> /\ rPc' # "spawn" /\ lPc' = lPc
        /\ \/ quits = <<>>
           \/ quits = <<"main">> /\ quits' = <<"main", "reader">>
    BY <1>0, <1>2, ReaderStops
  <2>2. BothWanted => BothWanted'
    BY <2>1 DEF BothWanted, QuitPending
  <2>3. QED
    BY <1>0, <2>1, <2>2 DEF ListenersOK, Live, Wanted, QuitPending
<1>3. QED
  BY <1>1, <1>2

\* Start (flightsyncer.go:71-79) comes after every Stop of the reader's, so that
\* at most one listener is still there, with a quit of the main loop's for it.
LEMMA StartKeepsListeners ==
    ASSUME IInv, Start
    PROVE  ListenersOK'
<1>0. TypeOK /\ QuitsOK /\ ListenersOK
  BY DEF IInv
<1>1. /\ rPc = "start" /\ rPc' = "spawn" /\ isRunning' = TRUE
      /\ quits' = quits /\ lPc' = lPc
  BY DEF Start, listenerVars
<1>2. ~isRunning /\ quits \in {<<>>, <<"main">>}
  BY <1>0, <1>1 DEF QuitsOK, TypeOK
<1>3. ~BothWanted
  BY <1>2 DEF BothWanted
<1>4. \A l \in Listener : Live(l) => QuitPending
  BY <1>0, <1>2 DEF ListenersOK, Wanted
<1>5. \A l, k \in Listener : ~(Live(l) /\ Live(k) /\ l # k)
  BY <1>0, <1>3 DEF ListenersOK
<1>6. QED
  BY <1>1, <1>4, <1>5 DEF ListenersOK, Live, Wanted, BothWanted, QuitPending

\* The new goroutine (flightsyncer.go:77) joins at most one other.
LEMMA SpawnKeepsListeners ==
    ASSUME IInv, NEW l \in Listener, Spawn(l)
    PROVE  ListenersOK'
<1>0. lPc \in [Listener -> ListenerPc] /\ ListenersOK
  BY DEF IInv, TypeOK
<1>1. /\ rPc = "spawn" /\ rPc' = "read" /\ ~Live(l)
      /\ UNCHANGED <<isRunning, quits>> /\ lPc' = [lPc EXCEPT ![l] = "select"]
  BY DEF Spawn
<1>2. Wanted /\ Wanted'
  BY <1>0, <1>1 DEF ListenersOK, Wanted, QuitPending
<1>3. BothWanted <=> BothWanted'
  BY <1>1 DEF BothWanted, QuitPending
<1>4. \A j \in Listener : lPc'[j] # "none" <=> Live(j) \/ j = l
  BY <1>0, <1>1 DEF Live
<1>5. \A j \in Listener : Live(j) => BothWanted
  BY <1>0, <1>1 DEF ListenersOK
<1>6. \A j, k \in Listener : Live(j) /\ Live(k) => j = k
  BY <1>0, <1>1 DEF ListenersOK
<1>7. QED
  BY <1>1, <1>2, <1>3, <1>4, <1>5, <1>6 DEF ListenersOK, Live

\* A listener that takes a quit (flightsyncer.go:95-97) leaves at most one, and
\* that one is wanted or has a quit of its own.
LEMMA TakeQuitKeepsListeners ==
    ASSUME IInv, NEW l \in Listener, TakeQuit(l)
    PROVE  ListenersOK'
<1>0. TypeOK /\ ListenersOK /\ lPc \in [Listener -> ListenerPc]
  BY DEF IInv, TypeOK
<1>1. /\ Live(l) /\ QuitTaken /\ isRunning' = isRunning
      /\ lPc' = [lPc EXCEPT ![l] = "none"]
  BY DEF TakeQuit, Live
<1>2. rPc' = "spawn" => rPc = "spawn"
  BY <1>1 DEF QuitTaken
<1>3. BothWanted => Wanted'
  <2>1. CASE isRunning
    BY <1>1, <2>1 DEF Wanted
  <2>2. CASE ~isRunning
    <3>1. BothWanted => quits \in {<<"main", "reader">>, <<"reader", "main">>}
      BY <1>0, <2>2, LenTwo DEF BothWanted, TypeOK
    <3>2. quits \in {<<"main", "reader">>, <<"reader", "main">>} => quits' # <<>>
      BY <1>0, <1>1, QuitTail
    <3>3. QED
      BY <3>1, <3>2 DEF Wanted, QuitPending
  <2>3. QED
    BY <2>1, <2>2
<1>4. \A j \in Listener : lPc'[j] # "none" <=> Live(j) /\ j # l
  BY <1>0, <1>1 DEF Live
<1>5. \A j \in Listener : Live(j) /\ j # l => BothWanted /\ rPc # "spawn"
  BY <1>0, <1>1 DEF ListenersOK
<1>6. \A j, k \in Listener : Live(j) /\ Live(k) /\ j # l /\ k # l => j = k
  BY <1>0, <1>1 DEF ListenersOK
<1>7. rPc = "spawn" => BothWanted
  BY <1>0, <1>1 DEF ListenersOK
<1>8. QED
  BY <1>2, <1>3, <1>4, <1>5, <1>6, <1>7 DEF ListenersOK, Live

\* Stops, starts and listeners stay in balance.
LEMMA ListenersStep ==
    ASSUME IInv, Next
    PROVE  ListenersOK'
<1>0. ListenersOK
  BY DEF IInv
<1>1. CASE MainStop \/ Stop \/ Start \/ \E l \in Listener : Spawn(l) \/ TakeQuit(l)
  BY <1>1, StopsKeepListeners, StartKeepsListeners, SpawnKeepsListeners,
     TakeQuitKeepsListeners
<1>2. CASE /\ UNCHANGED <<isRunning, quits>>
           /\ rPc' = "spawn" <=> rPc = "spawn"
           /\ \A j \in Listener : lPc'[j] # "none" <=> lPc[j] # "none"
  <2>1. Wanted' = Wanted /\ BothWanted' = BothWanted
    BY <1>2 DEF Wanted, BothWanted, QuitPending
  <2>2. QED
    BY <1>0, <1>2, <2>1 DEF ListenersOK, Live
<1>3. QED
  BY <1>1, <1>2, ListenersFrame

-----------------------------------------------------------------------------
(* Uploads.                                                                *)

\* A listener that sees no quit is alone (flightsyncer.go:95-102); only it goes
\* to work on files.
LEMMA SequentialStep ==
    ASSUME IInv, Next
    PROVE  UploadsAreSequential'
<1> DEFINE Busy(p) == p \notin {"none", "select"}
<1>0. /\ lPc \in [Listener -> ListenerPc]
      /\ \A l, k \in Listener : Busy(lPc[l]) /\ Busy(lPc[k]) => l = k
  BY DEF IInv, TypeOK, UploadsAreSequential
<1>1. CASE \A j \in Listener : Busy(lPc'[j]) => Busy(lPc[j])
  BY <1>0, <1>1 DEF UploadsAreSequential
<1>2. ASSUME NEW l \in Listener, Search(l) PROVE UploadsAreSequential'
  <2>1. Live(l) /\ quits = <<>> /\ lPc' = [lPc EXCEPT ![l] = "file"]
    BY <1>2 DEF Search, Live, QuitPending
  <2>2. ~BothWanted
    BY <2>1 DEF BothWanted, QuitPending
  <2>3. \A j \in Listener : Live(j) => j = l
    BY <2>1, <2>2 DEF IInv, ListenersOK
  <2>4. \A j \in Listener : j # l => lPc'[j] = "none"
    BY <1>0, <2>1, <2>3 DEF Live
  <2>5. QED
    BY <2>4 DEF UploadsAreSequential
<1>3. ASSUME NEW l \in Listener,
             Spawn(l) \/ TakeQuit(l) \/ NextFile(l) \/ CheckIds(l) \/ CopyIds(l) \/ Upload(l)
      PROVE  \A j \in Listener : Busy(lPc'[j]) => Busy(lPc[j])
  <2>1. CASE Busy(lPc[l])
    <3>1. \E p \in ListenerPc : lPc' = [lPc EXCEPT ![l] = p]
      BY <1>3 DEF Spawn, TakeQuit, NextFile, CheckIds, CopyIds, Upload, ListenerPc
    <3>2. QED
      BY <1>0, <2>1, <3>1
  <2>2. CASE ~Busy(lPc[l])
    <3>1. \E p \in {"none", "select"} : lPc' = [lPc EXCEPT ![l] = p]
      BY <1>3, <2>2 DEF Spawn, TakeQuit, NextFile, CheckIds, CopyIds, Upload
    <3>2. QED
      BY <1>0, <3>1
  <2>3. QED
    BY <2>1, <2>2
<1>4. CASE Main \/ ReadError \/ Logout \/ LogoutCount
  <2>1. lPc' = lPc
    BY <1>4 DEF Main, MainTick, MainIsRunning, MainStop, MainSend, MainStore, MainCheck,
                MainReset, MainRecount, ReadError, Logout, LogoutCount, listenerVars
  <2>2. QED
    BY <1>1, <2>1
<1>5. CASE SetSession \/ IsRunning \/ Compare \/ Stop \/ Again \/ Start
  <2>1. lPc' = lPc
    BY <1>5 DEF SetSession, IsRunning, Compare, Stop, Again, Start, listenerVars
  <2>2. QED
    BY <1>1, <2>1
<1>6. ASSUME NEW s \in Session, NEW a \in Account \cup {NoAccount}, Receive(s, a)
      PROVE  lPc' = lPc
  BY <1>6 DEF Receive, listenerVars
<1> HIDE DEF Busy
<1>7. QED
  BY <1>1, <1>2, <1>3, <1>4, <1>5, <1>6 DEF Next, Reader, Listens

-----------------------------------------------------------------------------
(* The countdown.                                                          *)

\* The steps that leave the countdown and the session alone; the main loop goes
\* on towards its sendStatus.
CountAlone ==
    /\ UNCHANGED <<session, count, silent, overtaken, mCount>>
    /\ \/ mPc' = mPc
       \/ mPc \in {"running", "stop", "quit"} /\ mPc' \in {"stop", "quit", "send"}

\* The syncer and its callers (cloudlink.go:354-357, 394-404).
LEMMA CountFrame ==
    ASSUME IInv, Next
    PROVE  \/ MainTick \/ MainSend \/ MainStore \/ MainCheck \/ MainReset \/ MainRecount
           \/ \E s \in Session, a \in Account \cup {NoAccount} : Receive(s, a)
           \/ ReadError \/ SetSession \/ Logout \/ LogoutCount
           \/ CountAlone
<1> USE DEF CountAlone
<1>1. CASE MainIsRunning \/ MainStop
  BY <1>1 DEF MainIsRunning, MainStop, logoutVars
<1>2. CASE IsRunning \/ Compare \/ Stop \/ Again \/ Start
  BY <1>2 DEF IsRunning, Compare, Stop, Again, Start, mainVars, logoutVars
<1>3. ASSUME NEW l \in Listener,
             Spawn(l) \/ Search(l) \/ NextFile(l) \/ CheckIds(l) \/ CopyIds(l) \/ Upload(l)
      PROVE  CountAlone
  BY <1>3 DEF Spawn, Search, NextFile, CheckIds, CopyIds, Upload, mainVars, logoutVars
<1>4. ASSUME NEW l \in Listener, TakeQuit(l)
      PROVE  CountAlone
  <2>1. UNCHANGED <<session, count, silent, overtaken, mCount>> /\ QuitTaken /\ TypeOK /\ QuitsOK
    BY <1>4 DEF TakeQuit, IInv, logoutVars
  <2>2. quits # <<>>
    BY <2>1 DEF QuitTaken, QuitPending
  <2>3. mPc' = mPc \/ (mPc = "quit" /\ mPc' = "send")
    BY <2>1, <2>2, QuitTail DEF TypeOK, QuitsOK
  <2>4. QED
    BY <2>1, <2>3
<1> HIDE DEF CountAlone
<1>5. QED
  BY <1>1, <1>2, <1>3, <1>4 DEF Next, Main, Reader, Listens

\* messageCnt is counted down once per tick, and a message that is lost to the
\* race at messageCnt-- still resets what is left (cloudlink.go:379, 444-451).
LEMMA CountStep ==
    ASSUME IInv, Next
    PROVE  CountOK'
<1> DEFINE Left == CASE mPc \in {"select", "check", "reset"} -> silent + count <= TimeOut
                     [] mPc = "store" -> silent + mCount <= TimeOut + 1
                     [] mPc = "recount" -> silent = 0
                     [] OTHER -> silent + count <= TimeOut + 1
<1>0. /\ TimeOut \in Nat \ {0} /\ count \in 0..TimeOut /\ mCount \in 0..TimeOut
      /\ silent \in Nat
      /\ mPc \notin {"check", "reset", "recount"} => count >= 1
      /\ mPc = "store" => mCount >= 1
      /\ session # NoSession /\ ~overtaken => Left
  BY CloudAssumption DEF IInv, TypeOK, CountOK
<1>1. CASE MainTick
  <2>1. /\ mPc = "select" /\ mPc' \in {"running", "send"}
        /\ silent' = silent + 1 \/ silent > TimeOut
        /\ UNCHANGED <<session, count, overtaken, mCount>>
    BY <1>1 DEF MainTick, logoutVars
  <2>2. session # NoSession /\ ~overtaken => silent + count <= TimeOut
    BY <1>0, <2>1
  <2>3. session' # NoSession /\ ~overtaken' => silent' + count' <= TimeOut + 1
    BY <1>0, <2>1, <2>2
  <2>4. QED
    BY <1>0, <2>1, <2>3 DEF CountOK
<1>2. CASE MainSend
  <2>1. mPc = "send" /\ mPc' = "store" /\ mCount' = count
        /\ UNCHANGED <<session, count, overtaken, silent>>
    BY <1>2 DEF MainSend, logoutVars
  <2>2. QED
    BY <1>0, <2>1 DEF CountOK
<1>3. CASE MainStore
  <2>1. mPc = "store" /\ mPc' = "check" /\ count' = mCount - 1
        /\ UNCHANGED <<session, overtaken, mCount, silent>>
    BY <1>3 DEF MainStore, logoutVars
  <2>2. QED
    BY <1>0, <2>1 DEF CountOK
<1>4. CASE MainCheck
  <2>1. /\ mPc = "check" /\ UNCHANGED <<session, count, overtaken, mCount, silent>>
        /\ mPc' = "reset" \/ (mPc' = "select" /\ count # 0)
    BY <1>4 DEF MainCheck, logoutVars
  <2>2. QED
    BY <1>0, <2>1 DEF CountOK
<1>5. CASE MainReset
  <2>1. mPc' = "recount" /\ session' = NoSession
    BY <1>5 DEF MainReset
  <2>2. QED
    BY <2>1 DEF CountOK
<1>6. CASE MainRecount
  <2>1. /\ mPc = "recount" /\ mPc' = "select" /\ count' = TimeOut
        /\ UNCHANGED <<session, overtaken, silent>>
    BY <1>6 DEF MainRecount, logoutVars
  <2>2. QED
    BY <1>0, <2>1 DEF CountOK
<1>7. CASE SetSession \/ \E s \in Session, a \in Account \cup {NoAccount} : Receive(s, a)
  <2>1. /\ silent' = 0 /\ UNCHANGED <<mPc, mCount>>
        /\ count' = TimeOut \/ count' = count
    BY <1>7 DEF SetSession, Receive, mainVars
  <2>2. QED
    BY <1>0, <2>1 DEF CountOK
<1>8. CASE ReadError \/ Logout
  <2>1. session' = NoSession /\ UNCHANGED <<mPc, mCount, count>>
    BY <1>8 DEF ReadError, Logout, mainVars
  <2>2. QED
    BY <1>0, <2>1 DEF CountOK
<1>9. CASE LogoutCount
  <2>1. /\ UNCHANGED <<session, silent, mPc, mCount>> /\ count' = TimeOut
        /\ session # NoSession /\ ~overtaken' => ~overtaken /\ ~(silent > 0)
    BY <1>9 DEF LogoutCount, mainVars
  <2>2. session # NoSession /\ ~overtaken' => silent = 0
    BY <1>0, <2>1
  <2>3. QED
    BY <1>0, <2>1, <2>2 DEF CountOK
<1>10. CASE CountAlone
  BY <1>0, <1>10 DEF CountOK, CountAlone
<1>11. QED
  BY <1>1, <1>2, <1>3, <1>4, <1>5, <1>6, <1>7, <1>8, <1>9, <1>10, CountFrame

-----------------------------------------------------------------------------
(* The theorems.                                                           *)

\* What is left of the countdown is at least one.
LEMMA Below ==
    ASSUME NEW a \in Int, NEW b \in Int, NEW c \in Int, a + b <= c, b >= 1
    PROVE  a < c
OBVIOUS

\* Every step of every goroutine keeps the invariant.
LEMMA IInvStep == IInv /\ [Next]_vars => IInv'
<1> SUFFICES ASSUME IInv, [Next]_vars PROVE IInv'
  OBVIOUS
<1>1. CASE Next
  <2>1. TypeOK' /\ QuitsOK' /\ ListenersOK' /\ CountOK' /\ UploadsAreSequential'
    BY <1>1, TypeStep, QuitsStep, ListenersStep, CountStep, SequentialStep
  <2>2. StoppedIsSilent'
    BY <2>1 DEF ListenersOK, StoppedIsSilent, Wanted
  <2>3. SilentSessionEnds'
    <3>1. count' \in Int /\ silent' \in Int /\ TimeOut \in Int
      BY <2>1, CloudAssumption DEF TypeOK
    <3>2. ASSUME session' # NoSession, mPc' = "select", ~overtaken' PROVE silent' < TimeOut
      <4>1. silent' + count' <= TimeOut /\ count' >= 1
        BY <2>1, <3>2 DEF CountOK
      <4>2. QED
        BY ONLY <3>1, <4>1, Below
    <3>3. QED
      BY <3>2 DEF SilentSessionEnds
  <2>4. QED
    BY <2>1, <2>2, <2>3 DEF IInv
<1>2. CASE UNCHANGED vars
  <2>1. UNCHANGED <<session, count, silent, logouts, overtaken, mPc, mCount, rPc, rSes, rAcc, isRunning, account,
                    quits, writer, lPc, lLeft, lAcc>>
    BY <1>2 DEF vars, logoutVars, mainVars, readerVars, listenerVars
  <2>2. TypeOK' /\ QuitsOK' /\ UploadsAreSequential' /\ SilentSessionEnds'
    BY <2>1 DEF IInv, TypeOK, QuitsOK, UploadsAreSequential, SilentSessionEnds
  <2>3. CountOK'
    BY <2>1 DEF IInv, CountOK
  <2>4. ListenersOK' /\ StoppedIsSilent'
    <3>1. Wanted' = Wanted /\ BothWanted' = BothWanted
      BY <2>1 DEF Wanted, BothWanted, QuitPending
    <3>2. QED
      BY <2>1, <3>1 DEF IInv, ListenersOK, StoppedIsSilent, Live, QuitPending
  <2>5. QED
    BY <2>2, <2>3, <2>4 DEF IInv
<1>3. QED
  BY <1>1, <1>2

\* Stops, Starts and listeners are in balance and the countdown bounds the
\* silence (cloudlink.go:352-451, flightsyncer.go:46-135), in every behaviour.
THEOREM InductiveInvariant == Spec => []IInv
<1>1. QED
  BY InitOK, IInvStep, PTL DEF Spec

\* The variables keep their types; at most two goroutines wait in Stop.
THEOREM TypeCorrect == Spec => []TypeOK
<1>1. IInv => TypeOK
  BY DEF IInv
<1>2. QED
  BY <1>1, InductiveInvariant, PTL

\* After Stop has returned no listener is left (flightsyncer.go:82-97), whichever
\* goroutines stopped and started the syncer, and however often.
THEOREM Stopped == Spec => []StoppedIsSilent
<1>1. IInv => StoppedIsSilent
  BY DEF IInv
<1>2. QED
  BY <1>1, InductiveInvariant, PTL

\* No two listeners work on files at once (flightsyncer.go:110-111).
THEOREM Sequential == Spec => []UploadsAreSequential
<1>1. IInv => UploadsAreSequential
  BY DEF IInv
<1>2. QED
  BY <1>1, InductiveInvariant, PTL

\* A session ends when its server is silent for TimeOut ticks (cloudlink.go:444-
\* 451), although the count is not synchronised, unless a logout was overtaken by
\* the message that set the session (105-106).
THEOREM SilentEnds == Spec => []SilentSessionEnds
<1>1. IInv => SilentSessionEnds
  BY DEF IInv
<1>2. QED
  BY <1>1, InductiveInvariant, PTL
=============================================================================
