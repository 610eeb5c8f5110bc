------------------------ MODULE VehicleParams_proofs ------------------------
(***************************************************************************)
(* For any number of parameters and clients: a vehicle that was not forced *)
(* is served with all its parameters, and parameters are reported missing  *)
(* only for a start that was forced.                                       *)
(***************************************************************************)
EXTENDS VehicleParams, FiniteSetTheorems, TLAPS

-----------------------------------------------------------------------------
\* What is complete by its count (len(foundSet)-1 == total, vehicle.go:235) is
\* the whole list and the hash.
LEMMA CountedIsFound ==
    ASSUME NEW S \in SUBSET (Index \cup {Hash}), NEW n \in {0, NumParams},
           InStep(S, n), Cardinality(S) - 1 = n
    PROVE  Index \subseteq S
<1> DEFINE All == Index \cup {Hash}
<1>0. NumParams \in Int /\ 0 <= NumParams - 1 /\ NumParams - 1 < Hash
  BY ParamsAssumption DEF Hash
<1>1. IsFiniteSet(Index) /\ Cardinality(Index) = NumParams
  <2>1. 0 \in Int /\ NumParams - 1 \in Int
    BY <1>0
  <2>2. IsFiniteSet(0..NumParams - 1)
    BY <2>1, FS_Interval
  <2>3. Cardinality(0..NumParams - 1) = NumParams - 1 - 0 + 1
    BY <1>0, <2>1, FS_Interval
  <2>4. NumParams - 1 - 0 + 1 = NumParams
    BY <1>0
  <2>5. QED
    BY <2>2, <2>3, <2>4 DEF Index
<1>2. Hash \notin Index
  BY <1>0 DEF Index, Hash
<1>3. IsFiniteSet(All) /\ Cardinality(All) = NumParams + 1
  BY <1>1, <1>2, FS_AddElement
<1>4. IsFiniteSet(S) /\ (Cardinality(All) = Cardinality(S) => All = S)
  BY <1>3, FS_Subset
<1>5. Cardinality(S) \in Nat
  BY <1>4, FS_CardinalityType
<1>6. CASE n = 0
  <2>1. S = {}
    BY <1>6 DEF InStep
  <2>2. Cardinality(S) = 0
    BY <2>1, FS_EmptySet
  <2>3. QED
    BY <1>6, <2>2
<1>7. CASE n = NumParams
  <2>1. Cardinality(S) = NumParams + 1
    BY <1>0, <1>5, <1>7
  <2>2. QED
    BY <1>3, <1>4, <2>1
<1>8. QED
  BY <1>6, <1>7

-----------------------------------------------------------------------------
\* The program starts with nothing loaded (NewVehicle, NewVehicleApi).
LEMMA InitOK == Init => IInv
<1> SUFFICES ASSUME Init PROVE IInv
  OBVIOUS
<1>1. 0 \in 0..MaxPolls + 1
  BY ParamsAssumption
<1>2. TypeOK
  BY <1>1 DEF Init, TypeOK, HandlerPc
<1>3. HandlerOK /\ ListOK /\ MissingOnlyForced
  BY DEF Init, HandlerOK, ListOK, MissingOnlyForced, InStep
<1>4. ClientsOK
  BY ParamsAssumption DEF Init, ClientsOK
<1>5. QED
  BY <1>2, <1>3, <1>4 DEF IInv

-----------------------------------------------------------------------------
\* What the handler says is missing is part of the list (vehicle.go:241-246).
LEMMA MissingType ==
    ASSUME TypeOK
    PROVE  (0..hTotal - 1) \ hFound \in SUBSET Index
<1>1. hTotal = 0 \/ hTotal = NumParams
  BY DEF TypeOK
<1>2. hTotal = 0 => 0..hTotal - 1 = {}
  OBVIOUS
<1>3. QED
  BY <1>1, <1>2 DEF Index

\* The handler's steps.
LEMMA HandlerType ==
    ASSUME IInv, Handler
    PROVE  TypeOK'
<1>0. TypeOK
  BY DEF IInv
<1> USE <1>0 DEF TypeOK, HandlerPc, listVars, clientVars
<1>1. CASE ReadOnline
  BY <1>1 DEF ReadOnline
<1>2. CASE ReadCaps
  BY <1>2 DEF ReadCaps
<1>3. CASE Scrub
  BY <1>3 DEF Scrub
<1>4. CASE ParamsInit
  BY <1>4 DEF ParamsInit
<1>5. CASE GetParams
  BY <1>5 DEF GetParams
<1>6. CASE CheckParams
  BY <1>6 DEF CheckParams
<1>7. CASE Decide
  <2>1. hPc' \in {"serve", "late"}
    BY <1>7 DEF Decide
  <2>2. QED
    BY <1>7, <2>1 DEF Decide
<1>8. CASE Serve
  BY <1>8 DEF Serve, Forget
<1>9. CASE CheckTimer
  BY <1>9 DEF CheckTimer
<1>10. CASE SetMissing
  BY <1>10, MissingType DEF SetMissing
<1>11. CASE ForceParamInit
  BY <1>11 DEF ForceParamInit
<1>12. CASE RequestParams
  BY <1>12 DEF RequestParams, Forget
<1>13. QED
  BY <1>1, <1>2, <1>3, <1>4, <1>5, <1>6, <1>7, <1>8, <1>9, <1>10, <1>11, <1>12 DEF Handler

\* The packets' steps, and time's.
LEMMA ReaderType ==
    ASSUME IInv, Reader \/ CheckSysOnline \/ FiveSecondsSilent \/ TenSecondsLoading
    PROVE  TypeOK'
<1>0. TypeOK
  BY DEF IInv
<1> USE <1>0 DEF TypeOK, listVars, clientVars, handlerVars
<1>1. CASE Receive
  BY <1>1 DEF Receive
<1>2. CASE SetSystemId
  BY <1>2 DEF SetSystemId
<1>3. CASE Heartbeat
  BY <1>3 DEF Heartbeat
<1>4. CASE AutopilotVersion
  BY <1>4 DEF AutopilotVersion
<1>5. CASE Telemetry
  BY <1>5 DEF Telemetry
<1>6. ASSUME NEW i \in Index \cup {Hash}, ParamValue(i)
      PROVE  TypeOK'
  BY <1>6 DEF ParamValue
<1>7. CASE CheckSysOnline
  BY <1>7 DEF CheckSysOnline
<1>8. CASE FiveSecondsSilent
  BY <1>8 DEF FiveSecondsSilent
<1>9. CASE TenSecondsLoading
  BY <1>9 DEF TenSecondsLoading
<1>10. QED
  BY <1>1, <1>2, <1>3, <1>4, <1>5, <1>6, <1>7, <1>8, <1>9 DEF Reader, Handle

\* A client polls no more than its bound allows.
LEMMA ClientType ==
    ASSUME IInv, NEW c \in Client, Refreshes(c)
    PROVE  TypeOK'
<1>0. TypeOK
  BY DEF IInv
<1> USE <1>0 DEF TypeOK, listVars, handlerVars
<1>1. CASE RefreshBegin(c)
  BY <1>1 DEF RefreshBegin
<1>2. CASE ResetParams(c)
  BY <1>2 DEF ResetParams
<1>3. CASE AllParams(c)
  BY <1>3 DEF AllParams
<1>4. CASE Poll(c)
  <2>1. cPolls[c] \in 0..MaxPolls + 1 /\ cPolls[c] <= MaxPolls /\ MaxPolls \in Nat
    BY <1>4, ParamsAssumption DEF Poll, IInv, ClientsOK
  <2>2. cPolls[c] + 1 \in 0..MaxPolls + 1
    BY <2>1
  <2>3. cPc' \in [Client -> {"start", "reset", "poll", "count", "ok", "failed"}]
    BY <1>4 DEF Poll
  <2>4. cPolls' \in [Client -> 0..MaxPolls + 1]
    BY <1>4, <2>2 DEF Poll
  <2>5. QED
    BY <1>4, <2>3, <2>4 DEF Poll
<1>5. QED
  BY <1>1, <1>2, <1>3, <1>4 DEF Refreshes

-----------------------------------------------------------------------------
\* The handler's copies of the list and its total agree (CheckParams), and what
\* is missing is set only when no refresh is under way (vehicle.go:248-251).
LEMMA HandlerStep ==
    ASSUME IInv, Handler
    PROVE  HandlerOK' /\ ListOK' /\ ClientsOK' /\ MissingOnlyForced'
<1>0. TypeOK /\ HandlerOK /\ ListOK /\ ClientsOK /\ MissingOnlyForced
  BY DEF IInv
<1>1. cPc' = cPc /\ cPolls' = cPolls
  BY DEF Handler, ReadOnline, ReadCaps, Scrub, ParamsInit, GetParams, CheckParams, Decide, Serve,
         CheckTimer, SetMissing, ForceParamInit, RequestParams, clientVars
<1>2. ClientsOK'
  BY <1>0, <1>1 DEF ClientsOK
<1>3. HandlerOK'
  <2> USE <1>0 DEF HandlerOK, ListOK, InStep, listVars, Forget
  <2>1. CASE ReadOnline \/ ReadCaps \/ Scrub \/ ParamsInit \/ GetParams
    BY <2>1 DEF ReadOnline, ReadCaps, Scrub, ParamsInit, GetParams
  <2>2. CASE CheckParams
    BY <2>2 DEF CheckParams
  <2>3. CASE Decide \/ CheckTimer \/ SetMissing \/ ForceParamInit
    BY <2>3 DEF Decide, CheckTimer, SetMissing, ForceParamInit
  <2>4. CASE Serve \/ RequestParams
    BY <2>4 DEF Serve, RequestParams
  <2>5. QED
    BY <2>1, <2>2, <2>3, <2>4 DEF Handler
<1>4. ListOK'
  <2> USE <1>0, <1>1 DEF ListOK, InStep, listVars
  <2>1. CASE Scrub
    BY <2>1 DEF Scrub
  <2>2. CASE SetMissing
    BY <2>2 DEF SetMissing, CanLock
  <2>3. CASE ~Scrub /\ ~SetMissing
    <3>1. UNCHANGED <<params, total, requested, missing>>
      BY <2>3 DEF Handler, ReadOnline, ReadCaps, ParamsInit, GetParams, CheckParams, Decide,
                  Serve, CheckTimer, ForceParamInit, RequestParams
    <3>2. QED
      BY <3>1
  <2>4. QED
    BY <2>1, <2>2, <2>3
<1>5. MissingOnlyForced'
  <2> USE <1>0 DEF MissingOnlyForced, listVars
  <2>1. CASE SetMissing
    BY <2>1 DEF SetMissing
  <2>2. CASE ForceParamInit
    BY <2>2 DEF ForceParamInit
  <2>3. CASE ~SetMissing /\ ~ForceParamInit
    <3>1. UNCHANGED <<missing, forced>> /\ hPc # "force"
      BY <2>3 DEF Handler, ReadOnline, ReadCaps, Scrub, ParamsInit, GetParams, CheckParams,
                  Decide, Serve, CheckTimer, RequestParams
    <3>2. QED
      BY <3>1
  <2>4. QED
    BY <2>1, <2>2, <2>3
<1>6. QED
  BY <1>2, <1>3, <1>4, <1>5

\* A parameter value sets the list, its total and paramsRequested together
\* (api.go:932-960); the other packets, and time, leave them.
LEMMA ReaderStep ==
    ASSUME IInv, Reader \/ CheckSysOnline \/ FiveSecondsSilent \/ TenSecondsLoading
    PROVE  HandlerOK' /\ ListOK' /\ ClientsOK' /\ MissingOnlyForced'
<1>0. HandlerOK /\ ListOK /\ ClientsOK /\ MissingOnlyForced
  BY DEF IInv
<1>1. UNCHANGED <<hPc, hOnline, hTotal, hFound, cPc, cTotal, cPolls, missing, forced>>
  BY DEF Reader, Handle, Receive, SetSystemId, Heartbeat, AutopilotVersion, Telemetry, ParamValue,
         CheckSysOnline, FiveSecondsSilent, TenSecondsLoading, handlerVars, clientVars, listVars
<1>2. HandlerOK' /\ ClientsOK' /\ MissingOnlyForced'
  BY <1>0, <1>1 DEF HandlerOK, ClientsOK, MissingOnlyForced, InStep
<1>3. ListOK'
  <2>1. ASSUME NEW i \in Index \cup {Hash}, ParamValue(i)
        PROVE  ListOK'
    <3>1. requested' /\ total' = NumParams /\ params' # {} /\ NumParams # 0
      BY <2>1, ParamsAssumption DEF ParamValue
    <3>2. QED
      BY <1>0, <1>1, <3>1 DEF ListOK, InStep
  <2>2. CASE UNCHANGED <<params, total, requested>>
    BY <1>0, <1>1, <2>2 DEF ListOK, InStep
  <2>3. UNCHANGED <<params, total, requested>> \/ \E i \in Index \cup {Hash} : ParamValue(i)
    BY DEF Reader, Handle, Receive, SetSystemId, Heartbeat, AutopilotVersion, Telemetry,
           CheckSysOnline, FiveSecondsSilent, TenSecondsLoading, listVars
  <2>4. QED
    BY <2>1, <2>2, <2>3
<1>4. QED
  BY <1>2, <1>3

\* A refresh empties what is missing before it takes back the force, under the
\* read lock that keeps the handler out (vehicle.go:658-663).
LEMMA ClientStep ==
    ASSUME IInv, NEW c \in Client, Refreshes(c)
    PROVE  HandlerOK' /\ ListOK' /\ ClientsOK' /\ MissingOnlyForced'
<1>0. TypeOK /\ HandlerOK /\ ListOK /\ ClientsOK /\ MissingOnlyForced
  BY DEF IInv
<1>1. UNCHANGED <<hPc, hOnline, hTotal, hFound>>
  BY DEF Refreshes, RefreshBegin, ResetParams, AllParams, Poll, handlerVars
<1>2. HandlerOK'
  BY <1>0, <1>1 DEF HandlerOK, InStep
<1>3. cPc \in [Client -> {"start", "reset", "poll", "count", "ok", "failed"}]
      /\ cPolls \in [Client -> 0..MaxPolls + 1] /\ MaxPolls \in Nat
  BY <1>0, ParamsAssumption DEF TypeOK
<1>4. CASE RefreshBegin(c)
  <2>1. missing' = {} /\ UNCHANGED <<params, total, requested, cPolls>>
        /\ cPc' = [cPc EXCEPT ![c] = "reset"] /\ cPc[c] = "start"
    BY <1>4 DEF RefreshBegin, listVars
  <2>2. QED
    BY <1>0, <1>2, <1>3, <2>1 DEF ListOK, ClientsOK, MissingOnlyForced, InStep
<1>5. CASE ResetParams(c)
  <2>1. /\ params' = {} /\ total' = 0 /\ requested' = FALSE
        /\ UNCHANGED <<missing, cPolls>> /\ missing = {}
        /\ cPc' = [cPc EXCEPT ![c] = "poll"] /\ cPc[c] = "reset"
    BY <1>0, <1>5 DEF ResetParams, ListOK
  <2>2. QED
    BY <1>0, <1>2, <1>3, <2>1 DEF ListOK, ClientsOK, MissingOnlyForced, InStep
<1>6. CASE AllParams(c)
  <2>1. UNCHANGED <<params, total, requested, forced, missing, cPolls>>
        /\ cPc' = [cPc EXCEPT ![c] = "count"] /\ cPc[c] = "poll"
    BY <1>6 DEF AllParams, listVars
  <2>2. QED
    BY <1>0, <1>1, <1>2, <1>3, <2>1 DEF ListOK, ClientsOK, MissingOnlyForced, InStep
<1>7. CASE Poll(c)
  <2>1. UNCHANGED <<params, total, requested, forced, missing>> /\ cPc[c] = "count"
    BY <1>7 DEF Poll, listVars
  <2>2. \A d \in Client : cPc'[d] = "reset" => cPc[d] = "reset"
    BY <1>3, <1>7 DEF Poll
  <2>3. ClientsOK'
    <3>1. CASE Current(c) >= cTotal[c]
      BY <1>0, <1>3, <1>7, <3>1 DEF Poll, ClientsOK
    <3>2. CASE ~(Current(c) >= cTotal[c])
      <4>1. cPolls' = [cPolls EXCEPT ![c] = cPolls[c] + 1]
            /\ cPc' = [cPc EXCEPT ![c] = IF cPolls[c] >= MaxPolls THEN "failed" ELSE "poll"]
        BY <1>7, <3>2 DEF Poll
      <4>2. cPc'[c] # "failed" => cPolls'[c] <= MaxPolls
        BY <1>3, <4>1
      <4>3. \A d \in Client \ {c} : cPc'[d] = cPc[d] /\ cPolls'[d] = cPolls[d]
        BY <1>3, <4>1
      <4>4. QED
        BY <1>0, <4>2, <4>3 DEF ClientsOK
    <3>3. QED
      BY <3>1, <3>2
  <2>4. QED
    BY <1>0, <1>1, <1>2, <2>1, <2>2, <2>3 DEF ListOK, MissingOnlyForced, InStep
<1>8. QED
  BY <1>4, <1>5, <1>6, <1>7 DEF Refreshes

\* Every step keeps the invariant.
LEMMA IInvStep == IInv /\ [Next]_vars => IInv'
<1> SUFFICES ASSUME IInv, [Next]_vars PROVE IInv'
  OBVIOUS
<1>1. CASE Handler
  BY <1>1, HandlerType, HandlerStep DEF IInv
<1>2. CASE Reader \/ CheckSysOnline \/ FiveSecondsSilent \/ TenSecondsLoading
  BY <1>2, ReaderType, ReaderStep DEF IInv
<1>3. ASSUME NEW c \in Client, Refreshes(c)
      PROVE  IInv'
  BY <1>3, ClientType, ClientStep DEF IInv
<1>4. CASE UNCHANGED vars
  BY <1>4 DEF vars, listVars, handlerVars, clientVars, IInv, TypeOK, HandlerOK, ListOK, ClientsOK,
              MissingOnlyForced, InStep
<1>5. QED
  BY <1>1, <1>2, <1>3, <1>4 DEF Next

\* The list, its copies and what is said to be missing agree (vehicle.go:218-
\* 279, api.go:330-358, 886-960), in every behaviour.
THEOREM InductiveInvariant == Spec => []IInv
<1>1. QED
  BY InitOK, IInvStep, PTL DEF Spec

\* The variables keep their types.
THEOREM TypeCorrect == Spec => []TypeOK
<1>1. IInv => TypeOK
  BY DEF IInv
<1>2. QED
  BY <1>1, InductiveInvariant, PTL

\* Parameters are reported missing only for a start that was forced without
\* them (vehicle.go:248-251), whatever clients refresh the list.
THEOREM MissingIsForced == Spec => []MissingOnlyForced
<1>1. IInv => MissingOnlyForced
  BY DEF IInv
<1>2. QED
  BY <1>1, InductiveInvariant, PTL

\* A vehicle is served when the count of what was found is right (vehicle.go:
\* 235), and then every parameter was found, or when it was forced.
THEOREM ServedIsLoaded == Spec => ServesLoaded
<1> DEFINE Serves == hPc # "serve" /\ hPc' = "serve" => forced \/ Index \subseteq hFound
<1>1. IInv /\ [Next]_vars => [Serves]_vars
  <2> SUFFICES ASSUME IInv, Next, hPc # "serve", hPc' = "serve", ~forced
               PROVE  Index \subseteq hFound
    OBVIOUS
  <2>1. Decide
    BY DEF Next, Handler, Reader, Handle, Refreshes, ReadOnline, ReadCaps, Scrub, ParamsInit,
           GetParams, CheckParams, Serve, CheckTimer, SetMissing, ForceParamInit, RequestParams,
           Receive, SetSystemId, Heartbeat, AutopilotVersion, Telemetry, ParamValue,
           CheckSysOnline, FiveSecondsSilent, TenSecondsLoading, RefreshBegin, ResetParams,
           AllParams, Poll, handlerVars
  <2>2. Complete
    BY <2>1 DEF Decide
  <2>3. QED
    BY <2>2, CountedIsFound DEF Complete, IInv, TypeOK, HandlerOK
<1>2. QED
  BY <1>1, InductiveInvariant, PTL DEF Spec, ServesLoaded
=============================================================================
