------------------------- MODULE SetupOrchestrator -------------------------
(***************************************************************************)
(* Acquiring a test bed: src/taac/libs/test_setup_orchestrator.py, with    *)
(* the traffic generator and the IXIA session it sets up.                  *)
(*                                                                         *)
(* async_test_setUp reserves devices, creates and isolates the test bed,   *)
(* and sets an IXIA up.  Several IXIA candidates may be given: one that    *)
(* fails is cleaned up before the next is tried.  Setting one up takes up  *)
(* to MaxTries attempts, each with a session of its own on the candidate's *)
(* API server.  async_tearDown gives everything back, whatever fails.      *)
(*                                                                         *)
(* Every await completes, fails, or is where a CancelledError arrives; the *)
(* IXIA client is synchronous and blocks the event loop, so no             *)
(* cancellation arrives inside it.                                         *)
(***************************************************************************)
EXTENDS Naturals

CONSTANTS
    NumCandidates,    \* how many IXIA candidates the test config has
    MaxTries,         \* num_tries of _create_basic_setup
    WithEndpoints,    \* the candidates that have IXIA endpoints
    QueryResources,   \* what the Basset queries reserve
    Options           \* the sets of options the runner may be started with

ASSUME CountsAssumption ==
    NumCandidates \in Nat \ {0} /\ MaxTries \in Nat \ {0}
ASSUME EndpointsAssumption == WithEndpoints \subseteq 1..NumCandidates
ASSUME ResourcesAssumption == {"static", "isolation"} \cap QueryResources = {}
ASSUME OptionsAssumption ==
    \A o \in Options :
      o \subseteq {"oss", "skip_ixia_setup", "keep_failed_setup",
                   "skip_ixia_cleanup", "session_id", "cache", "setup_only"}

VARIABLES
    opts,         \* the options of this runner
    pc,           \* where the setup or the teardown is
    cand,         \* the candidate the loop is at
    tries,        \* attempts left of _create_basic_setup
    kind,         \* the exception on its way: "candidate", "other" or "none"
    \* Fields of the orchestrator.
    tg,           \* traffic_generator: the candidate it is for, 0 for None
    ixia,         \* ixia: the candidate it is for, 0 for None
    selected,     \* selected_ixia_candidate, 0 for None
    butler,       \* basset_butler: "none" or "set"
    chunker,      \* test_bed_chunker: "none" or "set"
    owned,        \* _query_basset_resources
    todo,         \* resources a release loop has yet to come to
    \* Fields of the traffic generator's IXIA client.
    handle,       \* session: the session it is connected to
    sid,          \* session_id
    complete,     \* _teardown_complete: "no" or "yes"
    spent,        \* "yes": the session object's list was cleared by a failed remove()
    \* External: what the test bed and the API servers hold.
    reserved,     \* resources reserved or isolated
    live,         \* sessions on the API servers
    renamed,      \* sessions marked as stale by _tombstone_orphaned_session
    made,         \* how many sessions were created
    \* Results and history.
    result,       \* how setUp or tearDown ended
    errors,       \* the errors async_tearDown raises
    reported,     \* sessions logged as orphaned
    refused,      \* sessions the server once refused to remove
    unclaimed,    \* sessions made by a connect() that raised
    stranded,     \* resources whose release failed or was cut short
    unreturned    \* resources reserved by an await that raised

clientVars == <<handle, sid, complete, spent>>
serverVars == <<live, renamed, made>>
fieldVars == <<tg, ixia, selected, butler, chunker, owned>>
historyVars == <<reported, refused, unclaimed, stranded, unreturned>>
vars == <<opts, pc, cand, tries, kind, fieldVars, todo, clientVars, reserved,
          serverVars, result, errors, historyVars>>

NoSession == <<0, 0>>

\* The session of --ixia-session-id, which belongs to the user.
ExistingSession == <<1, 0>>

isExisting == "session_id" \in opts

\* select_ixia_candidates: a session of the user's is on the first candidate.
LastCandidate == IF isExisting THEN 1 ELSE NumCandidates

\* Basset queries are refused in OSS mode.
Queries == IF "oss" \in opts THEN {} ELSE QueryResources

SessionsOf(c) == {s \in live : s[1] = c}

\* setUp raises or returns.
SetupReturns(how) ==
    /\ pc' = "set_up"
    /\ result' = how
    /\ kind' = "none"

Goto(where) == pc' = where /\ UNCHANGED <<result, kind>>

(***************************************************************************)
(* Reservation and test bed                                                *)
(***************************************************************************)

\* async_resolve_basset_endpoints: what the queries selected may be rejected after
\* they return. When they raise or are cancelled, whatever they had reserved is
\* not returned, and no field names it.
ReserveQueries ==
    /\ pc = "resolve"
    /\ \/ /\ reserved' = reserved \cup Queries
          /\ owned' = Queries
          /\ Goto("static")
          /\ UNCHANGED <<todo, unreturned>>
       \/ /\ Queries # {}
          /\ reserved' = reserved \cup Queries
          /\ todo' = Queries
          /\ Goto("unreserve")
          /\ UNCHANGED <<owned, unreturned>>
       \/ /\ QueryResources # {}
          /\ \E partly \in SUBSET Queries :
               /\ reserved' = reserved \cup partly
               /\ unreturned' = unreturned \cup partly
          /\ \E how \in {"error", "cancelled"} : SetupReturns(how)
          /\ UNCHANGED <<owned, todo>>
    /\ UNCHANGED <<opts, cand, tries, tg, ixia, selected, butler, chunker,
                   clientVars, serverVars, errors, reported, refused, unclaimed,
                   stranded>>

\* _async_release_query_resources, before the ValueError is raised: errors are
\* only logged.
Unreserve ==
    /\ pc = "unreserve"
    /\ \/ \E r \in todo :
            /\ todo' = todo \ {r}
            /\ \/ reserved' = reserved \ {r} /\ UNCHANGED stranded
               \/ stranded' = stranded \cup {r} /\ UNCHANGED reserved
            /\ Goto("unreserve")
       \/ /\ todo = {}
          /\ SetupReturns("error")
          /\ UNCHANGED <<todo, reserved, stranded>>
       \/ /\ todo # {}
          /\ stranded' = stranded \cup todo
          /\ todo' = {}
          /\ SetupReturns("cancelled")
          /\ UNCHANGED reserved
    /\ UNCHANGED <<opts, cand, tries, fieldVars, clientVars, serverVars, errors,
                   reported, refused, unclaimed, unreturned>>

\* Mutant of ReserveStatic: the butler is kept only when it was successful.
MutantButlerOnSuccess ==
    /\ pc = "static"
    /\ \/ /\ "oss" \notin opts
          /\ reserved' = reserved \cup {"static"}
          /\ butler' = "set"
          /\ Goto("tasks")
          /\ UNCHANGED unreturned
       \/ /\ Goto("tasks")
          /\ UNCHANGED <<reserved, butler, unreturned>>
       \/ /\ "oss" \notin opts
          /\ reserved' \in {reserved, reserved \cup {"static"}}
          /\ SetupReturns("error")
          /\ UNCHANGED <<butler, unreturned>>
       \/ /\ "oss" \notin opts
          /\ \E partly \in SUBSET {"static"} :
               /\ reserved' = reserved \cup partly
               /\ unreturned' = unreturned \cup partly
          /\ \E how \in {"error", "cancelled"} : SetupReturns(how)
          /\ UNCHANGED butler
    /\ UNCHANGED <<opts, cand, tries, tg, ixia, selected, chunker, owned, todo,
                   clientVars, serverVars, errors, reported, refused, unclaimed,
                   stranded>>

\* _async_reserve_static_endpoints has nothing to do when the reservation is
\* skipped or no device is static. It keeps the butler even when that reports
\* that it did not get all devices. The butler is assigned after the await: when
\* that raises or is cancelled, there is none for the devices it had reserved.
ReserveStatic ==
    /\ pc = "static"
    /\ \/ /\ "oss" \notin opts
          /\ reserved' = reserved \cup {"static"}
          /\ butler' = "set"
          /\ Goto("tasks")
          /\ UNCHANGED unreturned
       \/ /\ Goto("tasks")
          /\ UNCHANGED <<reserved, butler, unreturned>>
       \/ /\ "oss" \notin opts
          /\ reserved' \in {reserved, reserved \cup {"static"}}
          /\ SetupReturns("error")
          /\ butler' = "set"
          /\ UNCHANGED unreturned
       \/ /\ "oss" \notin opts
          /\ \E partly \in SUBSET {"static"} :
               /\ reserved' = reserved \cup partly
               /\ unreturned' = unreturned \cup partly
          /\ \E how \in {"error", "cancelled"} : SetupReturns(how)
          /\ UNCHANGED butler
    /\ UNCHANGED <<opts, cand, tries, tg, ixia, selected, chunker, owned, todo,
                   clientVars, serverVars, errors, reported, refused, unclaimed,
                   stranded>>

\* Phases that only run or fail: the setup tasks before the IXIA, the package
\* updates, and everything after the IXIA.
Phase(here, next) ==
    /\ pc = here
    /\ \/ next
       \/ \E how \in {"error", "cancelled"} : SetupReturns(how)
    /\ UNCHANGED <<opts, cand, tries, fieldVars, todo, clientVars, reserved,
                   serverVars, errors, historyVars>>

RunSetupTasks == Phase("tasks", Goto("bed"))
UpdatePackages == Phase("packages", Goto("candidate"))
FinishSetup == Phase("post", SetupReturns("ok"))

\* The chunker is kept before the test bed is created.
CreateTestBed ==
    /\ pc = "bed"
    /\ chunker' = "set"
    /\ \/ Goto(IF "oss" \in opts THEN "candidate" ELSE "isolate")
       \/ \E how \in {"error", "cancelled"} : SetupReturns(how)
    /\ UNCHANGED <<opts, cand, tries, tg, ixia, selected, butler, owned, todo,
                   clientVars, reserved, serverVars, errors, historyVars>>

\* async_isolate_test_bed_connectivity may have disabled ports when it fails; it
\* may be skipped.
Isolate ==
    /\ pc = "isolate"
    /\ \/ reserved' \in {reserved, reserved \cup {"isolation"}} /\ Goto("packages")
       \/ /\ reserved' \in {reserved, reserved \cup {"isolation"}}
          /\ \E how \in {"error", "cancelled"} : SetupReturns(how)
    /\ UNCHANGED <<opts, cand, tries, fieldVars, todo, clientVars, serverVars,
                   errors, historyVars>>

(***************************************************************************)
(* The candidates                                                          *)
(***************************************************************************)

\* The loop of async_setup_ixia_candidates comes to a candidate. One without
\* IXIA endpoints is selected as it is, as is the first when there is to be no
\* IXIA setup; another gets a traffic generator.
TryCandidate ==
    /\ pc = "candidate"
    /\ \/ /\ cand \notin WithEndpoints \/ "skip_ixia_setup" \in opts
          /\ selected' = cand
          /\ Goto("post")
          /\ UNCHANGED <<tg, clientVars>>
       \/ /\ cand \in WithEndpoints /\ "skip_ixia_setup" \notin opts
          /\ tg' = cand
          /\ handle' = NoSession
          /\ sid' = IF isExisting THEN ExistingSession ELSE NoSession
          /\ complete' = "no"
          /\ spent' = "no"
          /\ Goto("config")
          /\ UNCHANGED selected
    /\ UNCHANGED <<opts, cand, tries, ixia, butler, chunker, owned, todo, reserved,
                   serverVars, errors, historyVars>>

\* async_create_ixia_config: the chassis may be unreachable, which makes the next
\* candidate eligible; any other error does not.
CreateConfig ==
    /\ pc = "config"
    /\ \/ /\ tries' = MaxTries
          /\ Goto(IF "cache" \in opts /\ ~isExisting THEN "cache" ELSE "attempt")
       \/ pc' = "candidate_failed" /\ kind' = "candidate" /\ UNCHANGED <<result, tries>>
       \/ (\E how \in {"error", "cancelled"} : SetupReturns(how)) /\ UNCHANGED tries
    /\ UNCHANGED <<opts, cand, fieldVars, todo, clientVars, reserved, serverVars,
                   errors, historyVars>>

\* SessionAssistant: the session with the given id, else the one with the name
\* of this run, else one it makes.
Attachable ==
    IF sid # NoSession THEN {sid}
    ELSE SessionsOf(tg) \ (renamed \cup {ExistingSession})

Connects ==
    /\ spent' = "no"
    /\ handle' \in IF Attachable # {} THEN Attachable ELSE {<<tg, made + 1>>}
    /\ sid' = handle'
    /\ made' = IF Attachable # {} THEN made ELSE made + 1
    /\ live' = IF Attachable # {} THEN live ELSE live \cup {handle'}
    /\ unclaimed' = unclaimed \ {handle'}

\* connect() raises, before there is a session or after: a session whose identity
\* cannot be read is made and not kept.
ConnectRaises ==
    /\ \/ UNCHANGED <<live, made, unclaimed>>
       \/ /\ Attachable = {}
          /\ made' = made + 1
          /\ live' = live \cup {<<tg, made + 1>>}
          /\ unclaimed' = unclaimed \cup {<<tg, made + 1>>}
    /\ UNCHANGED <<handle, sid, spent>>

\* The topology cache connects first. Whatever fails here falls through to the
\* cold setup; a hit needs no more.
LookUpCache ==
    /\ pc = "cache"
    /\ \/ Connects /\ (Goto("created") \/ Goto("attempt") \/ SetupReturns("cancelled"))
       \/ ConnectRaises /\ Goto("attempt")
    /\ UNCHANGED <<opts, cand, tries, fieldVars, todo, complete, reserved, renamed,
                   errors, reported, refused, stranded, unreturned>>

\* Mutant of DestroyOrphan: the user's session is destroyed like any other.
MutantDestroyAny ==
    /\ pc = "attempt"
    /\ \/ /\ sid # NoSession
          /\ sid' = NoSession
          /\ \/ live' = live \ {sid} /\ UNCHANGED <<renamed, reported>>
             \/ /\ reported' = reported \cup {sid}
                /\ renamed' \in {renamed, renamed \cup {sid}}
                /\ UNCHANGED live
       \/ /\ sid = NoSession
          /\ UNCHANGED <<sid, live, renamed, reported>>
    /\ Goto("connect")
    /\ UNCHANGED <<opts, cand, tries, fieldVars, todo, handle, complete, spent,
                   reserved, made, errors, refused, unclaimed, stranded,
                   unreturned>>

\* An attempt of _create_basic_setup destroys the session an earlier attempt, or
\* the cache, has left; one that cannot be destroyed is renamed, if the server
\* can, and logged as orphaned.
DestroyOrphan ==
    /\ pc = "attempt"
    /\ \/ /\ sid # NoSession /\ ~isExisting
          /\ sid' = NoSession
          /\ \/ live' = live \ {sid} /\ UNCHANGED <<renamed, reported>>
             \/ /\ reported' = reported \cup {sid}
                /\ renamed' \in {renamed, renamed \cup {sid}}
                /\ UNCHANGED live
       \/ /\ sid = NoSession \/ isExisting
          /\ UNCHANGED <<sid, live, renamed, reported>>
    /\ Goto("connect")
    /\ UNCHANGED <<opts, cand, tries, fieldVars, todo, handle, complete, spent,
                   reserved, made, errors, refused, unclaimed, stranded,
                   unreturned>>

\* @retryable: another attempt, or the last exception goes on.
AttemptFails ==
    /\ tries' = tries - 1
    /\ UNCHANGED result
    /\ IF tries > 1 THEN pc' = "attempt" /\ UNCHANGED kind
       ELSE pc' = "basic_failed" /\ kind' \in {"candidate", "other"}

Connect ==
    /\ pc = "connect"
    /\ \/ Connects /\ Goto("configure") /\ UNCHANGED tries
       \/ ConnectRaises /\ AttemptFails
    /\ UNCHANGED <<opts, cand, fieldVars, todo, complete, reserved, renamed, errors,
                   reported, refused, stranded, unreturned>>

\* Ports, topologies, protocols and traffic.
Configure ==
    /\ pc = "configure"
    /\ \/ Goto("created") /\ UNCHANGED tries
       \/ AttemptFails
    /\ UNCHANGED <<opts, cand, fieldVars, todo, clientVars, reserved, serverVars,
                   errors, historyVars>>

\* Ixia.tear_down returns. Sessions.remove() of a session object that has failed
\* before does nothing and returns.
TornDown ==
    /\ \/ /\ complete = "yes" \/ "skip_ixia_cleanup" \in opts
          /\ UNCHANGED <<live, complete>>
       \/ /\ complete = "no" /\ "skip_ixia_cleanup" \notin opts
          /\ live' = IF spent = "yes" THEN live ELSE live \ {handle}
          /\ complete' = "yes"
    /\ UNCHANGED <<spent, refused>>

\* Ixia.tear_down raises: the server refused, or the session was gone, and the
\* session object's list is cleared.
TearDownRaises ==
    /\ complete = "no" /\ spent = "no" /\ handle # NoSession
    /\ "skip_ixia_cleanup" \notin opts
    /\ spent' = "yes"
    /\ refused' = refused \cup {handle}
    /\ UNCHANGED <<live, complete>>

NoTearDown == UNCHANGED <<live, complete, spent, refused>>

\* create_basic_setup gives up: it tears its session down, logging any error.
BasicSetupFails ==
    /\ pc = "basic_failed"
    /\ IF "keep_failed_setup" \in opts \/ isExisting THEN NoTearDown
       ELSE TornDown \/ TearDownRaises
    /\ IF kind = "candidate" THEN Goto("candidate_failed") ELSE SetupReturns("error")
    /\ UNCHANGED <<opts, cand, tries, fieldVars, todo, handle, sid, reserved,
                   renamed, made, errors, reported, unclaimed, stranded,
                   unreturned>>

\* Mutant of CandidateFails: the next candidate is tried without cleanup, too.
MutantAlwaysFallsBack ==
    /\ pc = "candidate_failed"
    /\ Goto("cleanup")
    /\ UNCHANGED <<opts, cand, tries, fieldVars, todo, clientVars, reserved,
                   serverVars, errors, historyVars>>

\* except IxiaCandidateSetupError: without cleanup there is no next candidate.
CandidateFails ==
    /\ pc = "candidate_failed"
    /\ IF {"keep_failed_setup", "skip_ixia_cleanup"} \cap opts # {}
       THEN SetupReturns("error")
       ELSE Goto("cleanup")
    /\ UNCHANGED <<opts, cand, tries, fieldVars, todo, clientVars, reserved,
                   serverVars, errors, historyVars>>

\* What TrafficGenerator.teardown_ixia_setup does when it does not raise.
IxiaTornDown == IF isExisting \/ tg = 0 THEN NoTearDown ELSE TornDown

IxiaTearDownRaises == ~isExisting /\ tg # 0 /\ TearDownRaises

\* The failed candidate is gone: the next one, or the end.
NextCandidate ==
    /\ tg' = 0
    /\ ixia' = 0
    /\ IF cand = LastCandidate
       THEN SetupReturns("error") /\ UNCHANGED cand
       ELSE /\ cand' = cand + 1
            /\ pc' = "candidate"
            /\ kind' = "none"
            /\ UNCHANGED result

\* async_cleanup_failed_ixia_candidate. A cancellation does not stop the thread
\* that tears the session down.
CleanUpCandidate ==
    /\ pc = "cleanup"
    /\ \/ IxiaTornDown /\ NextCandidate
       \/ /\ IxiaTearDownRaises
          /\ SetupReturns("error")
          /\ UNCHANGED <<tg, ixia, cand>>
       \/ /\ IxiaTornDown \/ IxiaTearDownRaises
          /\ SetupReturns("cancelled")
          /\ UNCHANGED <<tg, ixia, cand>>
    /\ UNCHANGED <<opts, tries, selected, butler, chunker, owned, todo, handle, sid,
                   reserved, renamed, made, errors, reported, unclaimed, stranded,
                   unreturned>>

\* With a cache the new setup is saved to it first, which is awaited.
SelectCandidate ==
    /\ pc = "created"
    /\ \/ /\ ixia' = tg
          /\ selected' = cand
          /\ Goto("post")
       \/ /\ "cache" \in opts
          /\ SetupReturns("cancelled")
          /\ UNCHANGED <<ixia, selected>>
    /\ UNCHANGED <<opts, cand, tries, tg, butler, chunker, owned, todo, clientVars,
                   reserved, serverVars, errors, historyVars>>

(***************************************************************************)
(* async_tearDown                                                          *)
(***************************************************************************)

\* The runner is torn down, whether its setUp succeeded or not.
StartTearDown ==
    /\ pc = "set_up"
    /\ pc' = IF "oss" \in opts THEN "release_ixia" ELSE "restore"
    /\ result' = "none"
    /\ UNCHANGED <<opts, cand, tries, kind, fieldVars, todo, clientVars, reserved,
                   serverVars, errors, historyVars>>

\* A step of _async_tearDown_internal: it gives r back, or its error is kept.
GiveBack(r) ==
    \/ reserved' = reserved \ {r} /\ UNCHANGED errors
    \/ errors' = errors \cup {r} /\ UNCHANGED reserved

RestoreTestBed ==
    /\ pc = "restore"
    /\ IF chunker = "set" THEN GiveBack("isolation") ELSE UNCHANGED <<reserved, errors>>
    /\ Goto("release_static")
    /\ UNCHANGED <<opts, cand, tries, fieldVars, todo, clientVars, serverVars,
                   historyVars>>

ReleaseStatic ==
    /\ pc = "release_static"
    /\ IF butler = "set" THEN GiveBack("static") ELSE UNCHANGED <<reserved, errors>>
    /\ todo' = owned
    /\ Goto("release_query")
    /\ UNCHANGED <<opts, cand, tries, fieldVars, clientVars, serverVars, historyVars>>

\* Mutant of ReleaseQuery: the loop ends with the first error.
MutantStopAtError ==
    /\ pc = "release_query"
    /\ \/ \E r \in todo :
            /\ GiveBack(r)
            /\ todo' = IF errors' = errors THEN todo \ {r} ELSE {}
            /\ Goto("release_query")
            /\ UNCHANGED owned
       \/ /\ todo = {}
          /\ owned' = {}
          /\ Goto("release_ixia")
          /\ UNCHANGED <<todo, reserved, errors>>
    /\ UNCHANGED <<opts, cand, tries, tg, ixia, selected, butler, chunker,
                   clientVars, serverVars, historyVars>>

ReleaseQuery ==
    /\ pc = "release_query"
    /\ \/ \E r \in todo :
            /\ GiveBack(r)
            /\ todo' = todo \ {r}
            /\ Goto("release_query")
            /\ UNCHANGED owned
       \/ /\ todo = {}
          /\ owned' = {}
          /\ Goto("release_ixia")
          /\ UNCHANGED <<todo, reserved, errors>>
    /\ UNCHANGED <<opts, cand, tries, tg, ixia, selected, butler, chunker,
                   clientVars, serverVars, historyVars>>

\* async_teardown_ixia_setup raises only when it is strict.
ReleaseIxia ==
    /\ pc = "release_ixia"
    /\ \/ /\ IF "skip_ixia_cleanup" \in opts THEN NoTearDown ELSE IxiaTornDown
          /\ UNCHANGED errors
       \/ /\ IxiaTearDownRaises
          /\ errors' = IF "setup_only" \in opts THEN errors \cup {"ixia"} ELSE errors
    /\ pc' = "done"
    /\ result' = IF errors' = {} THEN "ok" ELSE "error"
    /\ UNCHANGED <<opts, cand, tries, kind, fieldVars, todo, handle, sid, reserved,
                   renamed, made, reported, unclaimed, stranded,
                   unreturned>>

\* The runner abandons a teardown that took too long after a cancellation.
AbandonTearDown ==
    /\ pc \in {"restore", "release_static", "release_query", "release_ixia"}
    /\ pc' = "done"
    /\ result' = "cancelled"
    /\ UNCHANGED <<opts, cand, tries, kind, fieldVars, todo, clientVars, reserved,
                   serverVars, errors, historyVars>>

(***************************************************************************)
(* The specification                                                       *)
(***************************************************************************)

Init ==
    /\ opts \in Options
    /\ pc = "resolve"
    /\ cand = 1
    /\ tries = 0
    /\ kind = "none"
    /\ tg = 0 /\ ixia = 0 /\ selected = 0
    /\ butler = "none" /\ chunker = "none"
    /\ owned = {} /\ todo = {}
    /\ handle = NoSession /\ sid = NoSession
    /\ complete = "no" /\ spent = "no"
    /\ reserved = {}
    /\ live = IF isExisting THEN {ExistingSession} ELSE {}
    /\ renamed = {}
    /\ made = 0
    /\ result = "none"
    /\ errors = {}
    /\ reported = {} /\ refused = {} /\ unclaimed = {} /\ stranded = {}
    /\ unreturned = {}

SetUp ==
    \/ ReserveQueries \/ Unreserve \/ ReserveStatic
    \/ RunSetupTasks \/ CreateTestBed \/ Isolate \/ UpdatePackages
    \/ TryCandidate \/ CreateConfig \/ LookUpCache
    \/ DestroyOrphan \/ Connect \/ Configure
    \/ BasicSetupFails \/ CandidateFails \/ CleanUpCandidate \/ SelectCandidate
    \/ FinishSetup

TearDown ==
    \/ StartTearDown
    \/ RestoreTestBed \/ ReleaseStatic \/ ReleaseQuery \/ ReleaseIxia
    \/ AbandonTearDown

Finished == pc = "done" /\ UNCHANGED vars

Next == SetUp \/ TearDown \/ Finished

Spec == Init /\ [][Next]_vars

(***************************************************************************)
(* Properties                                                              *)
(***************************************************************************)

Sessions == (0..NumCandidates) \X Nat

\* The variables hold values of the shapes the orchestrator and its client give
\* them.
TypeOK ==
    /\ opts \in Options
    /\ pc \in {"resolve", "unreserve", "static", "tasks", "bed", "isolate",
               "packages", "candidate", "config", "cache", "attempt", "connect",
               "configure", "basic_failed", "candidate_failed", "cleanup",
               "created", "post", "set_up", "restore", "release_static",
               "release_query", "release_ixia", "done"}
    /\ cand \in 1..NumCandidates
    /\ tries \in 0..MaxTries
    /\ kind \in {"none", "candidate", "other"}
    /\ tg \in 0..NumCandidates /\ ixia \in 0..NumCandidates
    /\ selected \in 0..NumCandidates
    /\ butler \in {"none", "set"} /\ chunker \in {"none", "set"}
    /\ owned \subseteq QueryResources /\ todo \subseteq QueryResources
    /\ handle \in Sessions /\ sid \in Sessions
    /\ complete \in {"no", "yes"} /\ spent \in {"no", "yes"}
    /\ reserved \subseteq QueryResources \cup {"static", "isolation"}
    /\ live \subseteq Sessions /\ renamed \subseteq Sessions
    /\ made \in Nat
    /\ result \in {"none", "ok", "error", "cancelled"}
    /\ errors \subseteq QueryResources \cup {"static", "isolation", "ixia"}
    /\ reported \subseteq Sessions /\ refused \subseteq Sessions
    /\ unclaimed \subseteq Sessions
    /\ stranded \subseteq QueryResources
    /\ unreturned \subseteq QueryResources \cup {"static"}

\* The sessions that no later code can know of: logged as orphaned, refused by
\* the server when they were to be removed, or made by a connect() that raised.
GivenUp == reported \cup refused \cup unclaimed

\* Nothing that the setup was told it had acquired is forgotten, wherever it fails
\* or is cancelled later: a session is the one the client is connected to or was
\* given up; a reservation is in a field async_tearDown looks at, or its release
\* was tried. The one exception is a reservation that raised: the code keeps no
\* field for what that had reserved, and nothing is claimed of it.
NothingForgotten ==
    /\ \A s \in live \ {ExistingSession} : (s = handle /\ s[1] = tg) \/ s \in GivenUp
    /\ pc = "set_up" =>
         /\ reserved \cap QueryResources \subseteq owned \cup stranded \cup unreturned
         /\ "static" \in reserved \ unreturned => butler = "set"
         /\ "isolation" \in reserved => chunker = "set"

\* A candidate is tried only when the sessions of the ones before are gone, but
\* for the ones that were given up.
CleanFallback ==
    \A s \in live \ {ExistingSession} : s[1] < cand => s \in GivenUp

\* What the test that cleanup failures abort the fallback says: no candidate is
\* tried while an earlier one has a session on its server that the client knew
\* and did not log as orphaned.
FallbackAfterCleanup ==
    \A s \in live \ {ExistingSession} : s[1] < cand => s \in reported \cup unclaimed

\* When async_tearDown has not been abandoned, what is still reserved or isolated
\* is named by an error it raised, was stranded before or never returned by its
\* reservation, and no session is left but the user's and the ones that were given
\* up or were to be kept.
ReleasedOrReported ==
    pc = "done" /\ result # "cancelled" =>
      /\ reserved \subseteq errors \cup stranded \cup unreturned
      /\ "skip_ixia_cleanup" \notin opts => live \subseteq GivenUp \cup {ExistingSession}

\* The session the user passed in survives every failure, retry and cleanup.
ExistingSessionKept == isExisting => ExistingSession \in live
=============================================================================
