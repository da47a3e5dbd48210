---------------------------- MODULE IxiaRecovery ----------------------------
(***************************************************************************)
(* Soft restarts of the IxNetwork REST tier of one chassis by several test *)
(* runs: src/taac/ixia/recovery.py and its callers in                      *)
(* src/taac/ixia/ixia.py (the @external_api wrapper, connect() and the     *)
(* gate between playbooks).                                                *)
(*                                                                         *)
(* A run that meets a 5xx restarts the tier unless the host's cooldown     *)
(* file is younger than the cooldown or other users have sessions, waits   *)
(* until the tier answers steadily and tries once more.  The runs share    *)
(* nothing else: each host has a cooldown file of its own.                 *)
(*                                                                         *)
(* Under TAAC_OSS _attempt_inband_recovery and the gate return at once:    *)
(* the model is the other build, where scubadata can be imported.          *)
(*                                                                         *)
(* Time passes in ticks.  The requests between two reads or writes of the  *)
(* file take less than a tick, a restart of the tier at most RestartTicks. *)
(***************************************************************************)
EXTENDS Integers, FiniteSetsExt

CONSTANTS
    Runs,          \* test runs that use the chassis
    Hosts,         \* the machines they run on
    Host,          \* the machine of each run
    NoHost,        \* nobody has restarted the tier yet
    Nesting,       \* @external_api calls inside one another, for each run
    Required,      \* DEFAULT_CONSECUTIVE_200_REQUIRED
    Cooldown,      \* cooldown_minutes, in ticks
    RestartTicks,  \* external: the longest restart of the tier
    Faults,        \* external: {"disk"} if the cooldown file may not be writable
    Skew           \* external: how far in the future an old timestamp may be

ASSUME HostsAssumption == Host \in [Runs -> Hosts] /\ NoHost \notin Hosts
ASSUME TimesAssumption ==
    /\ Nesting \in [Runs -> Nat \ {0}] /\ Required \in Nat \ {0}
    /\ Cooldown \in Nat /\ RestartTicks \in Nat /\ Skew \in Nat

VARIABLES
    pc,         \* where each run is
    via,        \* what it called: "api" or "gate"
    level,      \* the level of the wrapped call that is executed or handled
    retried,    \* the levels whose one retry is being executed
    polls,      \* consecutive_200 of _wait_for_api_alive
    slow,       \* runs in a request that have seen a tick
    file,       \* <chassis>.last_attempt of each host: "none", "empty", "written"
    age,        \* of its timestamp; negative: in the future
    tier,       \* external: the REST tier
    since,      \* history: ticks since the last restart, up to Cooldown
    lastHost,   \* history: the host that made it
    unrecorded, \* history: hosts whose last restart is not in the file
    raced       \* history: runs whose attempt crossed one the file does not show

callVars == <<pc, via, level, retried, polls, slow, raced>>
fileVars == <<file, age>>
restartVars == <<since, lastHost, unrecorded>>
vars == <<callVars, fileVars, tier, restartVars>>

Restarting == tier = "restarting"

\* A restarting tier may answer for a moment.
MayAnswer == tier # "wedged"
MayFail == tier # "up"

\* Where a run is inside restart_ixnetwork, before it waits for the tier.
Brief == {"cooldown", "guard", "stamp", "stamped", "post"}

Goto(r, where) ==
    /\ pc' = [pc EXCEPT ![r] = where]
    /\ slow' = IF where \in Brief THEN slow ELSE slow \ {r}
    /\ raced' = IF where \in Brief THEN raced ELSE raced \ {r}
    /\ polls' = [polls EXCEPT ![r] = 0]

\* The call is over, by returning or raising.
End(r) ==
    /\ Goto(r, "idle")
    /\ via' = [via EXCEPT ![r] = "api"]
    /\ level' = [level EXCEPT ![r] = 1]
    /\ retried' = [retried EXCEPT ![r] = {}]

\* A 5xx reaches the wrapper of level n: the first one outward from there that is
\* not in its retry calls restart_ixnetwork, else the 5xx leaves the call.
Catch(r, n) ==
    LET free == (1..n) \ retried[r]
    IN  IF free = {} THEN End(r)
        ELSE /\ pc' = [pc EXCEPT ![r] = "cooldown"]
             /\ level' = [level EXCEPT ![r] = Max(free)]
             /\ retried' = [retried EXCEPT ![r] = @ \cap 1..Max(free)]
             /\ raced' = raced \ {r}
             /\ polls' = [polls EXCEPT ![r] = 0]
             /\ UNCHANGED <<via, slow>>

\* restart_ixnetwork refused or failed: the gate goes on, a wrapper raises the 5xx.
Refused(r) == IF via[r] = "gate" THEN End(r) ELSE Catch(r, level[r] - 1)

(***************************************************************************)
(* The callers                                                             *)
(***************************************************************************)

StartCall(r, v) ==
    /\ pc[r] = "idle"
    /\ Goto(r, IF v = "gate" THEN "probe" ELSE "call")
    /\ via' = [via EXCEPT ![r] = v]
    /\ UNCHANGED <<level, retried, fileVars, tier, restartVars>>

\* A request fails with a 502 or 503, in the wrapped method or in the ones it
\* calls. connect() has one level, retries once too and also counts a 504.
RpcFails(r) ==
    /\ pc[r] \in {"call", "rest"}
    /\ \E n \in level[r] .. (IF pc[r] = "call" THEN Nesting[r] ELSE level[r]) :
         Catch(r, n)
    /\ UNCHANGED <<fileVars, tier, restartVars>>

\* Its requests are answered: the method that called it goes on.
RpcDone(r) ==
    /\ pc[r] \in {"call", "rest"}
    /\ IF level[r] > 1
       THEN /\ Goto(r, "rest")
            /\ level' = [level EXCEPT ![r] = level[r] - 1]
            /\ retried' = [retried EXCEPT ![r] = @ \ {level[r]}]
            /\ UNCHANGED via
       ELSE End(r)
    /\ UNCHANGED <<fileVars, tier, restartVars>>

\* Any other error, a 504 of an RPC included, leaves the call.
RpcRaises(r) ==
    /\ pc[r] \in {"call", "rest"}
    /\ End(r)
    /\ UNCHANGED <<fileVars, tier, restartVars>>

\* ensure_ixia_alive: only a tier that is down on a chassis that is up is restarted.
Probe(r) ==
    /\ pc[r] = "probe"
    /\ \/ MayFail /\ Catch(r, 1)
       \/ End(r)
    /\ UNCHANGED <<fileVars, tier, restartVars>>

(***************************************************************************)
(* restart_ixnetwork                                                       *)
(***************************************************************************)

\* _read_local_attempt_age clamps an age below 0 to 0.
InCooldown(h) ==
    file[h] = "written" /\ (IF age[h] < 0 THEN 0 ELSE age[h]) < Cooldown

\* Mutant of CheckCooldown: a refusal counts as an attempt.
MutantRefusalStamps(r) ==
    /\ pc[r] = "cooldown"
    /\ IF InCooldown(Host[r])
       THEN Refused(r) /\ age' = [age EXCEPT ![Host[r]] = 0]
       ELSE Goto(r, "guard") /\ UNCHANGED <<age, via, level, retried>>
    /\ UNCHANGED <<file, tier, restartVars>>

\* The attempts of the same host under way that the file does not show.
Crossed(r) ==
    {q \in Runs \ {r} :
       /\ Host[q] = Host[r]
       /\ \/ pc[q] \in {"guard", "stamp", "stamped"}
          \/ pc[q] = "post" /\ Host[q] \in unrecorded}

\* _check_cooldown; a file that cannot be read is no cooldown.
CheckCooldown(r) ==
    /\ pc[r] = "cooldown"
    /\ IF InCooldown(Host[r]) THEN Refused(r)
       ELSE /\ pc' = [pc EXCEPT ![r] = "guard"]
            /\ raced' = raced \cup Crossed(r)
                         \cup {q \in {r} : Crossed(q) # {} \/ Host[q] \in unrecorded}
            /\ UNCHANGED <<via, level, retried, polls, slow>>
    /\ UNCHANGED <<fileVars, tier, restartVars>>

\* _check_session_guard and authenticate: other users' sessions refuse the restart
\* if they can be listed, and so does a missing password or API key.
CheckSessionGuard(r) ==
    /\ pc[r] = "guard"
    /\ \/ Refused(r)
       \/ Goto(r, "stamp") /\ UNCHANGED <<via, level, retried>>
    /\ UNCHANGED <<fileVars, tier, restartVars>>

\* _write_local_attempt: makedirs may raise, which fails the recovery; opening
\* truncates the file; an OSError of open() or write() is only logged.
TruncateStamp(r) ==
    /\ pc[r] = "stamp"
    /\ \/ "disk" \in Faults /\ Refused(r) /\ UNCHANGED <<file, unrecorded>>
       \/ /\ Goto(r, "stamped")
          /\ file' = [file EXCEPT ![Host[r]] = "empty"]
          /\ UNCHANGED <<via, level, retried, unrecorded>>
       \/ /\ "disk" \in Faults
          /\ Goto(r, "post")
          /\ unrecorded' = unrecorded \cup {Host[r]}
          /\ UNCHANGED <<via, level, retried, file>>
    /\ UNCHANGED <<age, tier, since, lastHost>>

\* Mutant of WriteStamp: an earlier timestamp stays the first of the file.
MutantAppends(r) ==
    /\ pc[r] = "stamped"
    /\ Goto(r, "post")
    /\ file' = [file EXCEPT ![Host[r]] = "written"]
    /\ unrecorded' = unrecorded \ {Host[r]}
    /\ UNCHANGED <<age, via, level, retried, tier, since, lastHost>>

WriteStamp(r) ==
    /\ pc[r] = "stamped"
    /\ Goto(r, "post")
    /\ \/ /\ file' = [file EXCEPT ![Host[r]] = "written"]
          /\ age' = [age EXCEPT ![Host[r]] = 0]
          /\ unrecorded' = unrecorded \ {Host[r]}
       \/ /\ "disk" \in Faults
          /\ unrecorded' = unrecorded \cup {Host[r]}
          /\ UNCHANGED <<file, age>>
    /\ UNCHANGED <<via, level, retried, tier, since, lastHost>>

\* No restart link, or the POST is not accepted.
PostFails(r) ==
    /\ pc[r] = "post"
    /\ Refused(r)
    /\ UNCHANGED <<fileVars, tier, restartVars>>

\* The chassis restarts the tier; its answer may be lost.
Post(r) ==
    /\ pc[r] = "post"
    /\ tier' = "restarting"
    /\ since' = 0 /\ lastHost' = Host[r]
    /\ \/ Goto(r, "poll") /\ UNCHANGED <<via, level, retried>>
       \/ Refused(r)
    /\ UNCHANGED <<fileVars, unrecorded>>

\* Mutant of Recovered: the retry goes through the wrapper again.
MutantRetryWrapped(r) ==
    IF via[r] = "gate" THEN End(r)
    ELSE Goto(r, "call") /\ UNCHANGED <<via, level, retried>>

\* The tier is up: the gate ends, a wrapper makes its one retry.
Recovered(r) ==
    IF via[r] = "gate" THEN End(r)
    ELSE /\ Goto(r, "call")
         /\ retried' = [retried EXCEPT ![r] = @ \cup {level[r]}]
         /\ UNCHANGED <<via, level>>

\* _wait_for_api_alive: a 200, and the one that completes the row.
PollAnswered(r) ==
    /\ pc[r] = "poll" /\ MayAnswer
    /\ IF polls[r] + 1 >= Required THEN Recovered(r)
       ELSE /\ polls' = [polls EXCEPT ![r] = polls[r] + 1]
            /\ UNCHANGED <<pc, via, level, retried, slow, raced>>
    /\ UNCHANGED <<fileVars, tier, restartVars>>

PollUnanswered(r) ==
    /\ pc[r] = "poll" /\ MayFail
    /\ polls' = [polls EXCEPT ![r] = 0]
    /\ UNCHANGED <<pc, via, level, retried, slow, raced, fileVars, tier, restartVars>>

\* The deadline passes: the API did not recover.
PollTimesOut(r) ==
    /\ pc[r] = "poll"
    /\ Refused(r)
    /\ UNCHANGED <<fileVars, tier, restartVars>>

(***************************************************************************)
(* External: the tier and time                                             *)
(***************************************************************************)

\* The tier wedges, and only a restart helps.
TierMoves ==
    /\ \/ tier = "up" /\ tier' = "wedged"
       \/ tier = "restarting" /\ tier' = "up"
    /\ UNCHANGED <<callVars, fileVars, restartVars>>

\* No request lasts for two ticks, and no restart for more than RestartTicks.
Tick ==
    /\ slow = {}
    /\ Restarting => since < RestartTicks
    /\ slow' = {r \in Runs : pc[r] \in Brief}
    /\ age' = [h \in Hosts |-> IF age[h] < Cooldown THEN age[h] + 1 ELSE Cooldown]
    /\ since' = IF since < Cooldown THEN since + 1 ELSE Cooldown
    /\ UNCHANGED <<pc, via, level, retried, polls, raced, file, tier, lastHost,
                   unrecorded>>

(***************************************************************************)
(* The specification                                                       *)
(***************************************************************************)

\* An earlier run may have left a timestamp; the clock may have been set back since.
Init ==
    /\ pc = [r \in Runs |-> "idle"] /\ via = [r \in Runs |-> "api"]
    /\ level = [r \in Runs |-> 1] /\ retried = [r \in Runs |-> {}]
    /\ polls = [r \in Runs |-> 0]
    /\ slow = {}
    /\ \/ file = [h \in Hosts |-> "none"] /\ age = [h \in Hosts |-> Cooldown]
       \/ file = [h \in Hosts |-> "written"] /\ age = [h \in Hosts |-> -Skew]
    /\ tier = "up"
    /\ since = Cooldown /\ lastHost = NoHost
    /\ unrecorded = {} /\ raced = {}

\* What a run does in a call.
Step(r) ==
    \/ RpcFails(r) \/ RpcDone(r) \/ RpcRaises(r) \/ Probe(r)
    \/ CheckCooldown(r) \/ CheckSessionGuard(r) \/ TruncateStamp(r) \/ WriteStamp(r)
    \/ PostFails(r) \/ Post(r) \/ PollAnswered(r) \/ PollTimesOut(r)

Next ==
    \/ \E r \in Runs : Step(r) \/ PollUnanswered(r)
    \/ \E r \in Runs, v \in {"api", "gate"} : StartCall(r, v)
    \/ TierMoves \/ Tick

\* Requests end, deadlines pass, and so does time, also while the tier restarts.
Spec ==
    /\ Init /\ [][Next]_vars
    /\ \A r \in Runs : WF_vars(Step(r)) /\ WF_vars(PollTimesOut(r))
    /\ WF_vars(Tick)
    /\ WF_vars(Restarting /\ TierMoves)

(***************************************************************************)
(* Properties                                                              *)
(***************************************************************************)

\* The variables hold values of these shapes.
TypeOK ==
    /\ pc \in [Runs -> Brief \cup {"idle", "call", "rest", "probe", "poll"}]
    /\ via \in [Runs -> {"api", "gate"}]
    /\ level \in [Runs -> Nat \ {0}] /\ retried \in [Runs -> SUBSET Nat]
    /\ polls \in [Runs -> 0..(Required - 1)]
    /\ slow \subseteq Runs
    /\ file \in [Hosts -> {"none", "empty", "written"}]
    /\ age \in [Hosts -> -Skew..Cooldown]
    /\ tier \in {"up", "wedged", "restarting"}
    /\ since \in 0..Cooldown /\ lastHost \in Hosts \cup {NoHost}
    /\ unrecorded \subseteq Hosts /\ raced \subseteq Runs

\* On one host a restart comes a cooldown after the one before (less the tick from
\* the stamp to the POST), although the restart made the requests of the other runs
\* fail. Two cases are excepted, which _check_cooldown lets through: the run and
\* another one had both read the file before either wrote it, or the file could not
\* be written at the attempt before.
SpacedOnHost ==
    [][\A r \in Runs \ raced :
         Post(r) /\ lastHost = Host[r] => since >= Cooldown - 1]_vars

\* Every call ends, however its wrappers nest and the tier behaves: a wrapper
\* retries once, and a retry has no wrapper of its own level.
CallsEnd == \A r \in Runs : pc[r] # "idle" ~> pc[r] = "idle"

\* The runs that ask in vain do not prolong the cooldown ("a chassis would be
\* locked out indefinitely"), and a clock that was set back does not for ever.
CooldownEnds == \A h \in Hosts : InCooldown(h) ~> ~InCooldown(h)

\* "Refuse repeat recovery attempts within this many minutes (chassis-scoped)": the
\* tier is not restarted again within the cooldown.
RestartsSpaced == [][\A r \in Runs : Post(r) => since = Cooldown]_vars
=============================================================================
