--------------------------- MODULE VehicleParams ---------------------------
(***************************************************************************)
(* How the vehicle comes online and its parameters are loaded (vehicle/    *)
(* vehicle.go, vehicle/api/api.go), and how a client refreshes the list    *)
(* (apiservice/apiservice.go).                                             *)
(*                                                                         *)
(* Goroutines: the state handler, which asks for what it lacks every half  *)
(* second; the reader of the vehicle's packets; checkOnline, which notices *)
(* silence; and the HTTP requests that refresh the parameters.  Each       *)
(* method of VehicleApi is one critical section: one step.                 *)
(*                                                                         *)
(* A parameter is its index.  PX4 also sends a hash of all parameters as   *)
(* one more, with an index outside the list.  A request of the handler to  *)
(* the vehicle changes nothing here; any packet may come at any time, the  *)
(* answers to earlier requests and to other ground stations among them.    *)
(***************************************************************************)
EXTENDS Integers, FiniteSets

CONSTANTS
    NumParams,      \* the vehicle's param_count
    VehicleId,      \* its MAVLink system id
    Client,         \* the refreshing HTTP requests, one refresh each
    MaxPolls,       \* bound: stands for the 21 polls of a refresh
    UintSize        \* stands for 2^64, at which a Go uint wraps

Index == 0..NumParams - 1
Hash == 65535

ASSUME ParamsAssumption ==
    /\ NumParams \in 1..Hash
    /\ VehicleId \in Nat \ {0}
    /\ MaxPolls \in Nat /\ UintSize \in Nat /\ UintSize > NumParams

VARIABLES
    sysId, online, update,      \* the vehicle; age of its last update
    gotCaps,
    params, total,              \* the indices that came, param_count
    requested, forced,          \* paramsRequested, paramForceInit
    missing,                    \* missingParams
    timer,                      \* age of ParamsTimer
    hPc, hOnline, hTotal, hFound,   \* the state handler
    pPc,                        \* the packet reader
    cPc, cTotal, cPolls         \* the clients

listVars == <<params, total, requested, forced>>
handlerVars == <<hPc, hOnline, hTotal, hFound>>
clientVars == <<cPc, cTotal, cPolls>>
vars == <<sysId, online, update, gotCaps, listVars, missing, timer, handlerVars, pPc,
          clientVars>>

\* paramsLock is read-locked by the clients that are inside RefreshParams.
CanLock == \A c \in Client : cPc[c] # "reset"

-----------------------------------------------------------------------------
Init ==
    /\ sysId = 0 /\ online = FALSE /\ update = "old" /\ gotCaps = FALSE
    /\ params = {} /\ total = 0 /\ requested = FALSE /\ forced = FALSE
    /\ missing = {} /\ timer = "old"
    /\ hPc = "online" /\ hOnline = FALSE /\ hTotal = 0 /\ hFound = {}
    /\ pPc = "read"
    /\ cPc = [c \in Client |-> "start"]
    /\ cTotal = [c \in Client |-> 0] /\ cPolls = [c \in Client |-> 0]

-----------------------------------------------------------------------------
(* The state handler.                                                      *)

\* What it read of the list is forgotten at the end of a round.
Forget == hTotal' = 0 /\ hFound' = {}

ReadOnline ==
    /\ hPc = "online"
    /\ hOnline' = online
    /\ hPc' = "caps"
    /\ UNCHANGED <<sysId, online, update, gotCaps, listVars, missing, timer, hTotal,
                   hFound, pPc, clientVars>>

\* Without capabilities it asks for them and the round is over.
ReadCaps ==
    /\ hPc = "caps"
    /\ hPc' = IF ~hOnline THEN "scrub" ELSE IF gotCaps THEN "init" ELSE "online"
    /\ hOnline' = FALSE
    /\ UNCHANGED <<sysId, online, update, gotCaps, listVars, missing, timer, hTotal,
                   hFound, pPc, clientVars>>

\* Mutant: capabilities outlive the vehicle.
ScrubNotCaps ==
    /\ hPc = "scrub"
    /\ sysId' = 0
    /\ params' = {} /\ total' = 0 /\ requested' = FALSE
    /\ hPc' = "online"
    /\ UNCHANGED <<online, update, gotCaps, forced, missing, timer, hOnline, hTotal,
                   hFound, pPc, clientVars>>

\* paramForceInit and missingParams stay as they are.
Scrub ==
    /\ hPc = "scrub"
    /\ sysId' = 0 /\ gotCaps' = FALSE
    /\ params' = {} /\ total' = 0 /\ requested' = FALSE
    /\ hPc' = "online"
    /\ UNCHANGED <<online, update, forced, missing, timer, hOnline, hTotal, hFound,
                   pPc, clientVars>>

ParamsInit ==
    /\ hPc = "init" /\ requested
    /\ hPc' = "check"
    /\ UNCHANGED <<sysId, online, update, gotCaps, listVars, missing, timer, hOnline,
                   hTotal, hFound, pPc, clientVars>>

GetParams ==
    /\ hPc = "init" /\ ~requested
    /\ timer' = "fresh"
    /\ hPc' = "online"
    /\ UNCHANGED <<sysId, online, update, gotCaps, listVars, missing, hOnline, hTotal,
                   hFound, pPc, clientVars>>

CheckParams ==
    /\ hPc = "check"
    /\ hTotal' = total /\ hFound' = params
    /\ hPc' = "complete"
    /\ UNCHANGED <<sysId, online, update, gotCaps, listVars, missing, timer, hOnline,
                   pPc, clientVars>>

\* Mutant: the hash is taken for a parameter of the list.
CompleteWithHash == Cardinality(hFound) = hTotal

\* len(foundSet)-1 == int(total)
Complete == Cardinality(hFound) - 1 = hTotal

\* Mutant: nothing but a complete list is served.
DecideComplete ==
    /\ hPc = "complete"
    /\ hPc' = IF Complete THEN "serve" ELSE "late"
    /\ UNCHANGED <<sysId, online, update, gotCaps, listVars, missing, timer, hOnline,
                   hTotal, hFound, pPc, clientVars>>

\* sysOnlineHandler, which works on the command queue, is module
\* VehicleCommands'.
Decide ==
    /\ hPc = "complete"
    /\ hPc' = IF Complete \/ forced THEN "serve" ELSE "late"
    /\ UNCHANGED <<sysId, online, update, gotCaps, listVars, missing, timer, hOnline,
                   hTotal, hFound, pPc, clientVars>>

Serve ==
    /\ hPc = "serve"
    /\ hPc' = "online" /\ Forget
    /\ UNCHANGED <<sysId, online, update, gotCaps, listVars, missing, timer, hOnline,
                   pPc, clientVars>>

CheckTimer ==
    /\ hPc = "late"
    /\ hPc' = IF timer = "old" THEN "missing" ELSE "request"
    /\ UNCHANGED <<sysId, online, update, gotCaps, listVars, missing, timer, hOnline,
                   hTotal, hFound, pPc, clientVars>>

\* Mutant: paramsLock is not taken.
SetMissingUnlocked ==
    /\ hPc = "missing"
    /\ missing' = (0..hTotal - 1) \ hFound
    /\ hPc' = "force"
    /\ UNCHANGED <<sysId, online, update, gotCaps, listVars, timer, hOnline, hTotal,
                   hFound, pPc, clientVars>>

SetMissing ==
    /\ hPc = "missing"
    /\ CanLock
    /\ missing' = (0..hTotal - 1) \ hFound
    /\ hPc' = "force"
    /\ UNCHANGED <<sysId, online, update, gotCaps, listVars, timer, hOnline, hTotal,
                   hFound, pPc, clientVars>>

ForceParamInit ==
    /\ hPc = "force"
    /\ forced' = TRUE
    /\ hPc' = "request"
    /\ UNCHANGED <<sysId, online, update, gotCaps, params, total, requested, missing,
                   timer, hOnline, hTotal, hFound, pPc, clientVars>>

\* Asks for each parameter it has not found.
RequestParams ==
    /\ hPc = "request"
    /\ hPc' = "online" /\ Forget
    /\ UNCHANGED <<sysId, online, update, gotCaps, listVars, missing, timer, hOnline,
                   pPc, clientVars>>

Handler ==
    \/ ReadOnline \/ ReadCaps \/ Scrub \/ ParamsInit \/ GetParams \/ CheckParams
    \/ Decide \/ Serve \/ CheckTimer \/ SetMissing \/ ForceParamInit \/ RequestParams

-----------------------------------------------------------------------------
(* The reader of packets: processPacket.                                   *)

\* Mutant: the id is taken from a vehicle that comes online only.
ReceiveOffline ==
    /\ pPc = "read"
    /\ pPc' = IF sysId = 0 /\ ~online THEN "identify" ELSE "handle"
    /\ UNCHANGED <<sysId, online, update, gotCaps, listVars, missing, timer,
                   handlerVars, clientVars>>

Receive ==
    /\ pPc = "read"
    /\ pPc' = IF sysId = 0 THEN "identify" ELSE "handle"
    /\ UNCHANGED <<sysId, online, update, gotCaps, listVars, missing, timer,
                   handlerVars, clientVars>>

SetSystemId ==
    /\ pPc = "identify"
    /\ sysId' = VehicleId
    /\ pPc' = "handle"
    /\ UNCHANGED <<online, update, gotCaps, listVars, missing, timer, handlerVars,
                   clientVars>>

Heartbeat ==
    /\ pPc = "handle"
    /\ online' = TRUE /\ update' = "fresh"
    /\ pPc' = "read"
    /\ UNCHANGED <<sysId, gotCaps, listVars, missing, timer, handlerVars, clientVars>>

AutopilotVersion ==
    /\ pPc = "handle"
    /\ gotCaps' = TRUE /\ update' = "fresh"
    /\ pPc' = "read"
    /\ UNCHANGED <<sysId, online, listVars, missing, timer, handlerVars, clientVars>>

\* Any of the list, or the hash.
ParamValue(i) ==
    /\ pPc = "handle"
    /\ requested' = TRUE /\ total' = NumParams /\ params' = params \cup {i}
    /\ update' = "fresh"
    /\ pPc' = "read"
    /\ UNCHANGED <<sysId, online, gotCaps, forced, missing, timer, handlerVars,
                   clientVars>>

\* Telemetry, and the messages that do not count as an update (COMMAND_ACK,
\* STATUSTEXT, DISTANCE_SENSOR, OPTICAL_FLOW_RAD, unknown ones).
Telemetry ==
    /\ pPc = "handle"
    /\ update' \in {update, "fresh"}
    /\ pPc' = "read"
    /\ UNCHANGED <<sysId, online, gotCaps, listVars, missing, timer, handlerVars,
                   clientVars>>

Handle ==
    \/ SetSystemId \/ Heartbeat \/ AutopilotVersion \/ Telemetry
    \/ \E i \in Index \cup {Hash} : ParamValue(i)

Reader == Receive \/ Handle

-----------------------------------------------------------------------------
(* Silence and time.                                                       *)

CheckSysOnline ==
    /\ online /\ update = "old"
    /\ online' = FALSE
    /\ UNCHANGED <<sysId, update, gotCaps, listVars, missing, timer, handlerVars, pPc,
                   clientVars>>

FiveSecondsSilent ==
    /\ update = "fresh"
    /\ update' = "old"
    /\ UNCHANGED <<sysId, online, gotCaps, listVars, missing, timer, handlerVars, pPc,
                   clientVars>>

TenSecondsLoading ==
    /\ timer = "fresh"
    /\ timer' = "old"
    /\ UNCHANGED <<sysId, online, update, gotCaps, listVars, missing, handlerVars, pPc,
                   clientVars>>

-----------------------------------------------------------------------------
(* The clients: handleRefreshParams.                                       *)

\* RefreshParams, under a read lock, empties the one list and then the other.
RefreshBegin(c) ==
    /\ cPc[c] = "start"
    /\ missing' = {}
    /\ cPc' = [cPc EXCEPT ![c] = "reset"]
    /\ UNCHANGED <<sysId, online, update, gotCaps, listVars, timer, handlerVars, pPc,
                   cTotal, cPolls>>

ResetParams(c) ==
    /\ cPc[c] = "reset"
    /\ params' = {} /\ total' = 0 /\ requested' = FALSE /\ forced' = FALSE
    /\ cPc' = [cPc EXCEPT ![c] = "poll"]
    /\ UNCHANGED <<sysId, online, update, gotCaps, missing, timer, handlerVars, pPc,
                   cTotal, cPolls>>

AllParams(c) ==
    /\ cPc[c] = "poll"
    /\ cTotal' = [cTotal EXCEPT ![c] = total]
    /\ cPc' = [cPc EXCEPT ![c] = "count"]
    /\ UNCHANGED <<sysId, online, update, gotCaps, listVars, missing, timer,
                   handlerVars, pPc, cPolls>>

\* uint(int(total) - len(v.missingParams))
Current(c) == (cTotal[c] - Cardinality(missing)) % UintSize

\* Mutant: polls are not counted.
PollForever(c) ==
    /\ cPc[c] = "count"
    /\ cPc' = [cPc EXCEPT ![c] = IF Current(c) >= cTotal[c] THEN "ok" ELSE "poll"]
    /\ UNCHANGED <<sysId, online, update, gotCaps, listVars, missing, timer,
                   handlerVars, pPc, cTotal, cPolls>>

Poll(c) ==
    /\ cPc[c] = "count"
    /\ IF Current(c) >= cTotal[c]
       THEN cPc' = [cPc EXCEPT ![c] = "ok"] /\ UNCHANGED cPolls
       ELSE /\ cPolls' = [cPolls EXCEPT ![c] = @ + 1]
            /\ cPc' = [cPc EXCEPT ![c] = IF cPolls[c] >= MaxPolls THEN "failed" ELSE "poll"]
    /\ UNCHANGED <<sysId, online, update, gotCaps, listVars, missing, timer,
                   handlerVars, pPc, cTotal>>

Refreshes(c) == RefreshBegin(c) \/ ResetParams(c) \/ AllParams(c) \/ Poll(c)

-----------------------------------------------------------------------------
Next ==
    \/ Handler \/ Reader
    \/ CheckSysOnline \/ FiveSecondsSilent \/ TenSecondsLoading
    \/ \E c \in Client : Refreshes(c)

Spec == Init /\ [][Next]_vars

\* The goroutines run and clocks move on.
FairSpec ==
    /\ Spec
    /\ WF_vars(Handler)
    /\ WF_vars(Handle)
    /\ WF_vars(CheckSysOnline) /\ WF_vars(TenSecondsLoading)
    /\ \A c \in Client : WF_vars(Refreshes(c))

\* A vehicle that is online sends packets (its heartbeats), and answers when it
\* is asked again and again.
Answers == online /\ \/ ~gotCaps /\ AutopilotVersion
                     \/ gotCaps /\ ~requested /\ \E i \in Index : ParamValue(i)

AnsweringSpec == FairSpec /\ WF_vars(online /\ Receive) /\ SF_vars(Answers)

-----------------------------------------------------------------------------
HandlerPc == {"online", "caps", "scrub", "init", "check", "complete", "serve", "late",
              "missing", "force", "request"}

\* The types of the variables.
TypeOK ==
    /\ sysId \in {0, VehicleId} /\ online \in BOOLEAN /\ update \in {"fresh", "old"}
    /\ gotCaps \in BOOLEAN
    /\ params \in SUBSET (Index \cup {Hash}) /\ total \in {0, NumParams}
    /\ requested \in BOOLEAN /\ forced \in BOOLEAN
    /\ missing \in SUBSET Index /\ timer \in {"fresh", "old"}
    /\ hPc \in HandlerPc /\ hOnline \in BOOLEAN
    /\ hTotal \in {0, NumParams} /\ hFound \in SUBSET (Index \cup {Hash})
    /\ pPc \in {"read", "identify", "handle"}
    /\ cPc \in [Client -> {"start", "reset", "poll", "count", "ok", "failed"}]
    /\ cTotal \in [Client -> {0, NumParams}] /\ cPolls \in [Client -> 0..MaxPolls + 1]

\* "3, have all the vehicle params" (vehicle.go:211-216): without the force,
\* the handler serves commands only when it has found every parameter of the
\* list, although it only counts (vehicle.go:235) and a refresh, a scrub and
\* the packets come at any time.
ServesLoaded == [][hPc # "serve" /\ hPc' = "serve" => forced \/ Index \subseteq hFound]_vars

\* Parameters are reported missing (GetAllParams, MissingParams) only for a
\* start that was forced without them, a refresh at any moment included
\* (vehicle.go:248-251, 658-663).
MissingOnlyForced == missing # {} => forced \/ hPc = "force"

\* A vehicle that stays online and answers is served in the end (vehicle.go:
\* 218-279), however often it went offline before.
InitDone == online ~> (hPc = "serve" \/ ~online)

\* Its system id is known in the end, although Scrub may come between the
\* reader's check and its message (vehicle.go:291-293).
OnlineIsKnown == online ~> (sysId = VehicleId \/ ~online)

\* Every refresh is answered (apiservice.go:323-344), whatever the loader does.
RefreshEnds == \A c \in Client : cPc[c] = "reset" ~> cPc[c] \in {"ok", "failed"}

\* Of a vehicle that has fallen silent, no capability or parameter is kept
\* (vehicle.go:270-274).
Forgotten == ~online /\ ~gotCaps /\ params = {} /\ total = 0
SilentIsForgotten == <>[](update = "old") => <>[]Forgotten

-----------------------------------------------------------------------------
(* The inductive invariant.                                                *)

\* A list and its total are empty together.
InStep(list, count) == (list = {} <=> count = 0)

\* Where the handler stands, and what it has read of the list.
HandlerOK ==
    /\ InStep(hFound, hTotal)
    /\ hPc \in {"online", "caps", "scrub", "init", "check"} => hFound = {}

\* paramsRequested, totalParams and the list are set and reset together; what
\* is missing is not set between a refresh's two steps.
ListOK ==
    /\ InStep(params, total) /\ (requested <=> params # {})
    /\ \A c \in Client : cPc[c] = "reset" => missing = {}

\* A client that is not done has polls left.
ClientsOK == \A c \in Client : cPc[c] # "failed" => cPolls[c] <= MaxPolls

\* The list, its copies and what is said to be missing agree (vehicle.go:218-
\* 279, api.go:330-358, 886-960).
IInv == TypeOK /\ HandlerOK /\ ListOK /\ ClientsOK /\ MissingOnlyForced

=============================================================================
