----------------------- MODULE SetupOrchestrator_proofs -----------------------
(***************************************************************************)
(* Proofs about SetupOrchestrator, for every number of candidates and      *)
(* attempts, every set of reservations and every set of options.           *)
(***************************************************************************)
EXTENDS SetupOrchestrator, TLAPS

\* Where the candidate of the loop has a traffic generator.
AtCandidate == {"config", "cache", "attempt", "connect", "configure",
                "basic_failed", "candidate_failed", "cleanup", "created"}

\* Before the end of a setup, and from there on.
SettingUp == {"resolve", "static", "tasks", "bed", "isolate", "packages",
              "candidate", "post"} \cup AtCandidate
TearingDown == {"restore", "release_static", "release_query", "release_ixia", "done"}

(***************************************************************************)
(* The inductive invariant                                                 *)
(***************************************************************************)

\* The traffic generator is the current candidate's, or there is none.
CandidateInv ==
    /\ cand <= LastCandidate
    /\ tg \in {0, cand}
    /\ pc \in AtCandidate => tg = cand
    /\ pc \in {"resolve", "unreserve", "static", "tasks", "bed", "isolate", "packages",
              "candidate"} => tg = 0
    /\ pc = "cleanup" => {"keep_failed_setup", "skip_ixia_cleanup"} \cap opts = {}
    /\ pc \in {"cache", "attempt", "connect", "configure"} => tries # 0

\* The client of a session that belongs to the user knows of no other, and nothing
\* else is made.
ExistingInv ==
    isExisting =>
      /\ live = {ExistingSession}
      /\ pc \in AtCandidate => sid = ExistingSession

\* Sessions are on the servers of the candidates.
ServerInv == \A s \in live : s[1] # 0

\* A session is the one the client is connected to, or was given up.
OwnerInv ==
    \A s \in live \ {ExistingSession} : (s = handle /\ s[1] = tg) \/ s \in GivenUp

\* The client knows the id of its session until it destroys it, and looks for
\* another one only then.
HandleInv ==
    ~isExisting =>
      /\ sid = handle \/ (sid = NoSession /\ (handle \in live => handle \in GivenUp))
      /\ pc \in {"config", "cache", "connect"} => sid = NoSession
      /\ pc \in {"config", "cache"} => handle = NoSession

\* A teardown that is complete, or whose object is spent, has removed the session
\* or was refused.
RemovedInv ==
    /\ complete = "yes" => handle \notin live \/ handle \in refused
    /\ complete = "yes" =>
         pc \in {"candidate_failed", "cleanup", "candidate", "post", "set_up"}
                  \cup TearingDown
    /\ spent = "yes" => handle \in refused

\* A field of the orchestrator stands for everything that is reserved, but for
\* what was reserved by an await that raised.
FieldInv ==
    /\ pc = "resolve" => reserved = {}
    /\ pc \in SettingUp \cup {"set_up"} => todo = {}
    /\ pc \in SettingUp \cup {"unreserve", "set_up", "restore", "release_static"} =>
         reserved \cap QueryResources \subseteq
           owned \cup stranded \cup todo \cup unreturned
    /\ pc \in {"restore", "release_static"} => todo = {}
    /\ "static" \in reserved \ unreturned => butler = "set"
    /\ "isolation" \in reserved \/ pc = "isolate" => chunker = "set"

\* In OSS mode nothing is reserved or isolated.
OssInv ==
    "oss" \in opts => /\ reserved = {}
                      /\ pc \notin {"unreserve", "isolate", "packages"}

\* The teardown has given back, or has an error for, what it has come to.
ReleaseInv ==
    /\ pc \in {"release_static", "release_query", "release_ixia"}
         /\ "isolation" \in reserved => "isolation" \in errors
    /\ pc \in {"release_query", "release_ixia"}
         /\ "static" \in reserved \ unreturned => "static" \in errors
    /\ pc = "release_query" =>
         reserved \cap QueryResources \subseteq
           todo \cup errors \cup stranded \cup unreturned
    /\ pc = "release_ixia" =>
         reserved \cap QueryResources \subseteq errors \cup stranded \cup unreturned

SetupInv ==
    /\ TypeOK /\ CandidateInv /\ ExistingInv /\ ServerInv /\ OwnerInv /\ HandleInv
    /\ RemovedInv /\ FieldInv /\ OssInv /\ ReleaseInv /\ ReleasedOrReported

(***************************************************************************)
(* One lemma per part of the invariant                                     *)
(***************************************************************************)

\* The variables keep their types.
LEMMA TypeStep ==
    ASSUME SetupInv, [Next]_vars
    PROVE  TypeOK'
<1> USE CountsAssumption, EndpointsAssumption DEF SetupInv, TypeOK,
      CandidateInv, AtCandidate, LastCandidate, Sessions, isExisting, NoSession,
      ExistingSession, Goto, SetupReturns, clientVars, serverVars, fieldVars,
      historyVars
<1>1. CASE ReserveQueries
  BY <1>1 DEF ReserveQueries, Queries
<1>2. CASE Unreserve
  BY <1>2 DEF Unreserve
<1>3. CASE ReserveStatic
  BY <1>3 DEF ReserveStatic
<1>4. CASE RunSetupTasks
  BY <1>4 DEF RunSetupTasks, Phase
<1>5. CASE CreateTestBed
  BY <1>5 DEF CreateTestBed
<1>6. CASE Isolate
  BY <1>6 DEF Isolate
<1>7. CASE UpdatePackages
  BY <1>7 DEF UpdatePackages, Phase
<1>8. CASE TryCandidate
  BY <1>8 DEF TryCandidate
<1>9. CASE CreateConfig
  BY <1>9 DEF CreateConfig
<1>10. CASE LookUpCache
  BY <1>10 DEF LookUpCache, Connects, ConnectRaises, Attachable, SessionsOf
<1>11. CASE DestroyOrphan
  BY <1>11 DEF DestroyOrphan
<1>12. CASE Connect
  BY <1>12 DEF Connect, Connects, ConnectRaises, Attachable, SessionsOf,
     AttemptFails
<1>13. CASE Configure
  BY <1>13 DEF Configure, AttemptFails
<1>14. CASE BasicSetupFails
  BY <1>14 DEF BasicSetupFails, TornDown, TearDownRaises, NoTearDown
<1>15. CASE CandidateFails
  BY <1>15 DEF CandidateFails
<1>16. CASE CleanUpCandidate
  BY <1>16 DEF CleanUpCandidate, IxiaTornDown, IxiaTearDownRaises, TornDown,
     TearDownRaises, NoTearDown, NextCandidate
<1>17. CASE SelectCandidate
  BY <1>17 DEF SelectCandidate
<1>18. CASE FinishSetup
  BY <1>18 DEF FinishSetup, Phase
<1>19. CASE StartTearDown
  BY <1>19 DEF StartTearDown
<1>20. CASE RestoreTestBed
  BY <1>20 DEF RestoreTestBed, GiveBack
<1>21. CASE ReleaseStatic
  BY <1>21 DEF ReleaseStatic, GiveBack
<1>22. CASE ReleaseQuery
  BY <1>22 DEF ReleaseQuery, GiveBack
<1>23. CASE ReleaseIxia
  BY <1>23 DEF ReleaseIxia, IxiaTornDown, IxiaTearDownRaises, TornDown,
     TearDownRaises, NoTearDown
<1>24. CASE AbandonTearDown
  BY <1>24 DEF AbandonTearDown
<1>25. CASE UNCHANGED vars
  BY <1>25 DEF vars
<1> QED
  BY <1>1, <1>2, <1>3, <1>4, <1>5, <1>6, <1>7, <1>8, <1>9, <1>10, <1>11, <1>12,
     <1>13, <1>14, <1>15, <1>16, <1>17, <1>18, <1>19, <1>20, <1>21, <1>22, <1>23,
     <1>24, <1>25 DEF Next, SetUp, TearDown, Finished

\* The loop and its traffic generator stay together.
LEMMA CandidateStep ==
    ASSUME SetupInv, [Next]_vars
    PROVE  CandidateInv'
<1> USE CountsAssumption, EndpointsAssumption DEF SetupInv, TypeOK,
      CandidateInv, AtCandidate, LastCandidate, isExisting, Goto, SetupReturns,
      clientVars, serverVars, fieldVars, historyVars
<1>1. CASE ReserveQueries
  BY <1>1 DEF ReserveQueries, Queries
<1>2. CASE Unreserve
  BY <1>2 DEF Unreserve
<1>3. CASE ReserveStatic
  BY <1>3 DEF ReserveStatic
<1>4. CASE RunSetupTasks
  BY <1>4 DEF RunSetupTasks, Phase
<1>5. CASE CreateTestBed
  BY <1>5 DEF CreateTestBed
<1>6. CASE Isolate
  BY <1>6 DEF Isolate
<1>7. CASE UpdatePackages
  BY <1>7 DEF UpdatePackages, Phase
<1>8. CASE TryCandidate
  BY <1>8 DEF TryCandidate
<1>9. CASE CreateConfig
  BY <1>9 DEF CreateConfig
<1>10. CASE LookUpCache
  BY <1>10 DEF LookUpCache, Connects, ConnectRaises, Attachable, SessionsOf
<1>11. CASE DestroyOrphan
  BY <1>11 DEF DestroyOrphan
<1>12. CASE Connect
  BY <1>12 DEF Connect, Connects, ConnectRaises, Attachable, SessionsOf,
     AttemptFails
<1>13. CASE Configure
  BY <1>13 DEF Configure, AttemptFails
<1>14. CASE BasicSetupFails
  BY <1>14 DEF BasicSetupFails, TornDown, TearDownRaises, NoTearDown
<1>15. CASE CandidateFails
  BY <1>15 DEF CandidateFails
<1>16. CASE CleanUpCandidate
  BY <1>16 DEF CleanUpCandidate, IxiaTornDown, IxiaTearDownRaises, TornDown,
     TearDownRaises, NoTearDown, NextCandidate
<1>17. CASE SelectCandidate
  BY <1>17 DEF SelectCandidate
<1>18. CASE FinishSetup
  BY <1>18 DEF FinishSetup, Phase
<1>19. CASE StartTearDown
  BY <1>19 DEF StartTearDown
<1>20. CASE RestoreTestBed
  BY <1>20 DEF RestoreTestBed, GiveBack
<1>21. CASE ReleaseStatic
  BY <1>21 DEF ReleaseStatic, GiveBack
<1>22. CASE ReleaseQuery
  BY <1>22 DEF ReleaseQuery, GiveBack
<1>23. CASE ReleaseIxia
  BY <1>23 DEF ReleaseIxia, IxiaTornDown, IxiaTearDownRaises, TornDown,
     TearDownRaises, NoTearDown
<1>24. CASE AbandonTearDown
  BY <1>24 DEF AbandonTearDown
<1>25. CASE UNCHANGED vars
  BY <1>25 DEF vars
<1> QED
  BY <1>1, <1>2, <1>3, <1>4, <1>5, <1>6, <1>7, <1>8, <1>9, <1>10, <1>11, <1>12,
     <1>13, <1>14, <1>15, <1>16, <1>17, <1>18, <1>19, <1>20, <1>21, <1>22, <1>23,
     <1>24, <1>25 DEF Next, SetUp, TearDown, Finished

\* The user's session is neither removed nor joined by another.
LEMMA ExistingStep ==
    ASSUME SetupInv, [Next]_vars
    PROVE  ExistingInv'
<1> USE DEF SetupInv, TypeOK, CandidateInv, ExistingInv, AtCandidate,
      isExisting, NoSession, ExistingSession, Goto, SetupReturns, clientVars,
      serverVars, fieldVars, historyVars
<1>1. CASE ReserveQueries
  BY <1>1 DEF ReserveQueries, Queries
<1>2. CASE Unreserve
  BY <1>2 DEF Unreserve
<1>3. CASE ReserveStatic
  BY <1>3 DEF ReserveStatic
<1>4. CASE RunSetupTasks
  BY <1>4 DEF RunSetupTasks, Phase
<1>5. CASE CreateTestBed
  BY <1>5 DEF CreateTestBed
<1>6. CASE Isolate
  BY <1>6 DEF Isolate
<1>7. CASE UpdatePackages
  BY <1>7 DEF UpdatePackages, Phase
<1>8. CASE TryCandidate
  BY <1>8 DEF TryCandidate
<1>9. CASE CreateConfig
  BY <1>9 DEF CreateConfig
<1>10. CASE LookUpCache
  BY <1>10 DEF LookUpCache, Connects, ConnectRaises, Attachable, SessionsOf
<1>11. CASE DestroyOrphan
  BY <1>11 DEF DestroyOrphan
<1>12. CASE Connect
  BY <1>12 DEF Connect, Connects, ConnectRaises, Attachable, SessionsOf,
     AttemptFails
<1>13. CASE Configure
  BY <1>13 DEF Configure, AttemptFails
<1>14. CASE BasicSetupFails
  BY <1>14 DEF BasicSetupFails, TornDown, TearDownRaises, NoTearDown
<1>15. CASE CandidateFails
  BY <1>15 DEF CandidateFails
<1>16. CASE CleanUpCandidate
  BY <1>16 DEF CleanUpCandidate, IxiaTornDown, IxiaTearDownRaises, TornDown,
     TearDownRaises, NoTearDown, NextCandidate
<1>17. CASE SelectCandidate
  BY <1>17 DEF SelectCandidate
<1>18. CASE FinishSetup
  BY <1>18 DEF FinishSetup, Phase
<1>19. CASE StartTearDown
  BY <1>19 DEF StartTearDown
<1>20. CASE RestoreTestBed
  BY <1>20 DEF RestoreTestBed, GiveBack
<1>21. CASE ReleaseStatic
  BY <1>21 DEF ReleaseStatic, GiveBack
<1>22. CASE ReleaseQuery
  BY <1>22 DEF ReleaseQuery, GiveBack
<1>23. CASE ReleaseIxia
  BY <1>23 DEF ReleaseIxia, IxiaTornDown, IxiaTearDownRaises, TornDown,
     TearDownRaises, NoTearDown
<1>24. CASE AbandonTearDown
  BY <1>24 DEF AbandonTearDown
<1>25. CASE UNCHANGED vars
  BY <1>25 DEF vars
<1> QED
  BY <1>1, <1>2, <1>3, <1>4, <1>5, <1>6, <1>7, <1>8, <1>9, <1>10, <1>11, <1>12,
     <1>13, <1>14, <1>15, <1>16, <1>17, <1>18, <1>19, <1>20, <1>21, <1>22, <1>23,
     <1>24, <1>25 DEF Next, SetUp, TearDown, Finished

\* A session is made on the server of the current candidate.
LEMMA ServerStep ==
    ASSUME SetupInv, [Next]_vars
    PROVE  ServerInv'
<1> USE CountsAssumption, EndpointsAssumption DEF SetupInv, TypeOK,
      CandidateInv, ServerInv, AtCandidate, isExisting, NoSession,
      ExistingSession, Goto, SetupReturns, clientVars, serverVars, fieldVars,
      historyVars
<1>1. CASE ReserveQueries
  BY <1>1 DEF ReserveQueries, Queries
<1>2. CASE Unreserve
  BY <1>2 DEF Unreserve
<1>3. CASE ReserveStatic
  BY <1>3 DEF ReserveStatic
<1>4. CASE RunSetupTasks
  BY <1>4 DEF RunSetupTasks, Phase
<1>5. CASE CreateTestBed
  BY <1>5 DEF CreateTestBed
<1>6. CASE Isolate
  BY <1>6 DEF Isolate
<1>7. CASE UpdatePackages
  BY <1>7 DEF UpdatePackages, Phase
<1>8. CASE TryCandidate
  BY <1>8 DEF TryCandidate
<1>9. CASE CreateConfig
  BY <1>9 DEF CreateConfig
<1>10. CASE LookUpCache
  BY <1>10 DEF LookUpCache, Connects, ConnectRaises, Attachable, SessionsOf
<1>11. CASE DestroyOrphan
  BY <1>11 DEF DestroyOrphan
<1>12. CASE Connect
  BY <1>12 DEF Connect, Connects, ConnectRaises, Attachable, SessionsOf,
     AttemptFails
<1>13. CASE Configure
  BY <1>13 DEF Configure, AttemptFails
<1>14. CASE BasicSetupFails
  BY <1>14 DEF BasicSetupFails, TornDown, TearDownRaises, NoTearDown
<1>15. CASE CandidateFails
  BY <1>15 DEF CandidateFails
<1>16. CASE CleanUpCandidate
  BY <1>16 DEF CleanUpCandidate, IxiaTornDown, IxiaTearDownRaises, TornDown,
     TearDownRaises, NoTearDown, NextCandidate
<1>17. CASE SelectCandidate
  BY <1>17 DEF SelectCandidate
<1>18. CASE FinishSetup
  BY <1>18 DEF FinishSetup, Phase
<1>19. CASE StartTearDown
  BY <1>19 DEF StartTearDown
<1>20. CASE RestoreTestBed
  BY <1>20 DEF RestoreTestBed, GiveBack
<1>21. CASE ReleaseStatic
  BY <1>21 DEF ReleaseStatic, GiveBack
<1>22. CASE ReleaseQuery
  BY <1>22 DEF ReleaseQuery, GiveBack
<1>23. CASE ReleaseIxia
  BY <1>23 DEF ReleaseIxia, IxiaTornDown, IxiaTearDownRaises, TornDown,
     TearDownRaises, NoTearDown
<1>24. CASE AbandonTearDown
  BY <1>24 DEF AbandonTearDown
<1>25. CASE UNCHANGED vars
  BY <1>25 DEF vars
<1> QED
  BY <1>1, <1>2, <1>3, <1>4, <1>5, <1>6, <1>7, <1>8, <1>9, <1>10, <1>11, <1>12,
     <1>13, <1>14, <1>15, <1>16, <1>17, <1>18, <1>19, <1>20, <1>21, <1>22, <1>23,
     <1>24, <1>25 DEF Next, SetUp, TearDown, Finished

\* A session the client lets go of was removed or is given up.
LEMMA OwnerStep ==
    ASSUME SetupInv, [Next]_vars
    PROVE  OwnerInv'
<1> USE CountsAssumption, EndpointsAssumption DEF SetupInv, TypeOK,
      CandidateInv, OwnerInv, ExistingInv, ServerInv, HandleInv, RemovedInv,
      GivenUp, AtCandidate, isExisting, NoSession, ExistingSession, Goto,
      SetupReturns, clientVars, serverVars, fieldVars, historyVars
<1>1. CASE ReserveQueries
  BY <1>1 DEF ReserveQueries, Queries
<1>2. CASE Unreserve
  BY <1>2 DEF Unreserve
<1>3. CASE ReserveStatic
  BY <1>3 DEF ReserveStatic
<1>4. CASE RunSetupTasks
  BY <1>4 DEF RunSetupTasks, Phase
<1>5. CASE CreateTestBed
  BY <1>5 DEF CreateTestBed
<1>6. CASE Isolate
  BY <1>6 DEF Isolate
<1>7. CASE UpdatePackages
  BY <1>7 DEF UpdatePackages, Phase
<1>8. CASE TryCandidate
  BY <1>8 DEF TryCandidate
<1>9. CASE CreateConfig
  BY <1>9 DEF CreateConfig
<1>10. CASE LookUpCache
  BY <1>10 DEF LookUpCache, Connects, ConnectRaises, Attachable, SessionsOf
<1>11. CASE DestroyOrphan
  BY <1>11 DEF DestroyOrphan
<1>12. CASE Connect
  BY <1>12 DEF Connect, Connects, ConnectRaises, Attachable, SessionsOf,
     AttemptFails
<1>13. CASE Configure
  BY <1>13 DEF Configure, AttemptFails
<1>14. CASE BasicSetupFails
  BY <1>14 DEF BasicSetupFails, TornDown, TearDownRaises, NoTearDown
<1>15. CASE CandidateFails
  BY <1>15 DEF CandidateFails
<1>16. CASE CleanUpCandidate
  BY <1>16 DEF CleanUpCandidate, IxiaTornDown, IxiaTearDownRaises, TornDown,
     TearDownRaises, NoTearDown, NextCandidate
<1>17. CASE SelectCandidate
  BY <1>17 DEF SelectCandidate
<1>18. CASE FinishSetup
  BY <1>18 DEF FinishSetup, Phase
<1>19. CASE StartTearDown
  BY <1>19 DEF StartTearDown
<1>20. CASE RestoreTestBed
  BY <1>20 DEF RestoreTestBed, GiveBack
<1>21. CASE ReleaseStatic
  BY <1>21 DEF ReleaseStatic, GiveBack
<1>22. CASE ReleaseQuery
  BY <1>22 DEF ReleaseQuery, GiveBack
<1>23. CASE ReleaseIxia
  BY <1>23 DEF ReleaseIxia, IxiaTornDown, IxiaTearDownRaises, TornDown,
     TearDownRaises, NoTearDown
<1>24. CASE AbandonTearDown
  BY <1>24 DEF AbandonTearDown
<1>25. CASE UNCHANGED vars
  BY <1>25 DEF vars
<1> QED
  BY <1>1, <1>2, <1>3, <1>4, <1>5, <1>6, <1>7, <1>8, <1>9, <1>10, <1>11, <1>12,
     <1>13, <1>14, <1>15, <1>16, <1>17, <1>18, <1>19, <1>20, <1>21, <1>22, <1>23,
     <1>24, <1>25 DEF Next, SetUp, TearDown, Finished

\* The client forgets the id of a session only when it destroys it.
LEMMA HandleStep ==
    ASSUME SetupInv, [Next]_vars
    PROVE  HandleInv'
<1> USE CountsAssumption, EndpointsAssumption DEF SetupInv, TypeOK,
      CandidateInv, HandleInv, ServerInv, GivenUp, AtCandidate, isExisting,
      NoSession, ExistingSession, Goto, SetupReturns, clientVars, serverVars,
      fieldVars, historyVars
<1>1. CASE ReserveQueries
  BY <1>1 DEF ReserveQueries, Queries
<1>2. CASE Unreserve
  BY <1>2 DEF Unreserve
<1>3. CASE ReserveStatic
  BY <1>3 DEF ReserveStatic
<1>4. CASE RunSetupTasks
  BY <1>4 DEF RunSetupTasks, Phase
<1>5. CASE CreateTestBed
  BY <1>5 DEF CreateTestBed
<1>6. CASE Isolate
  BY <1>6 DEF Isolate
<1>7. CASE UpdatePackages
  BY <1>7 DEF UpdatePackages, Phase
<1>8. CASE TryCandidate
  BY <1>8 DEF TryCandidate
<1>9. CASE CreateConfig
  BY <1>9 DEF CreateConfig
<1>10. CASE LookUpCache
  BY <1>10 DEF LookUpCache, Connects, ConnectRaises, Attachable, SessionsOf
<1>11. CASE DestroyOrphan
  BY <1>11 DEF DestroyOrphan
<1>12. CASE Connect
  BY <1>12 DEF Connect, Connects, ConnectRaises, Attachable, SessionsOf,
     AttemptFails
<1>13. CASE Configure
  BY <1>13 DEF Configure, AttemptFails
<1>14. CASE BasicSetupFails
  BY <1>14 DEF BasicSetupFails, TornDown, TearDownRaises, NoTearDown
<1>15. CASE CandidateFails
  BY <1>15 DEF CandidateFails
<1>16. CASE CleanUpCandidate
  BY <1>16 DEF CleanUpCandidate, IxiaTornDown, IxiaTearDownRaises, TornDown,
     TearDownRaises, NoTearDown, NextCandidate
<1>17. CASE SelectCandidate
  BY <1>17 DEF SelectCandidate
<1>18. CASE FinishSetup
  BY <1>18 DEF FinishSetup, Phase
<1>19. CASE StartTearDown
  BY <1>19 DEF StartTearDown
<1>20. CASE RestoreTestBed
  BY <1>20 DEF RestoreTestBed, GiveBack
<1>21. CASE ReleaseStatic
  BY <1>21 DEF ReleaseStatic, GiveBack
<1>22. CASE ReleaseQuery
  BY <1>22 DEF ReleaseQuery, GiveBack
<1>23. CASE ReleaseIxia
  BY <1>23 DEF ReleaseIxia, IxiaTornDown, IxiaTearDownRaises, TornDown,
     TearDownRaises, NoTearDown
<1>24. CASE AbandonTearDown
  BY <1>24 DEF AbandonTearDown
<1>25. CASE UNCHANGED vars
  BY <1>25 DEF vars
<1> QED
  BY <1>1, <1>2, <1>3, <1>4, <1>5, <1>6, <1>7, <1>8, <1>9, <1>10, <1>11, <1>12,
     <1>13, <1>14, <1>15, <1>16, <1>17, <1>18, <1>19, <1>20, <1>21, <1>22, <1>23,
     <1>24, <1>25 DEF Next, SetUp, TearDown, Finished

\* tear_down() is complete only when the session is gone or was refused.
LEMMA RemovedStep ==
    ASSUME SetupInv, [Next]_vars
    PROVE  RemovedInv'
<1> USE CountsAssumption, EndpointsAssumption DEF SetupInv, TypeOK,
      CandidateInv, RemovedInv, ServerInv, TearingDown, AtCandidate, isExisting,
      NoSession, ExistingSession, Goto, SetupReturns, clientVars, serverVars,
      fieldVars, historyVars
<1>1. CASE ReserveQueries
  BY <1>1 DEF ReserveQueries, Queries
<1>2. CASE Unreserve
  BY <1>2 DEF Unreserve
<1>3. CASE ReserveStatic
  BY <1>3 DEF ReserveStatic
<1>4. CASE RunSetupTasks
  BY <1>4 DEF RunSetupTasks, Phase
<1>5. CASE CreateTestBed
  BY <1>5 DEF CreateTestBed
<1>6. CASE Isolate
  BY <1>6 DEF Isolate
<1>7. CASE UpdatePackages
  BY <1>7 DEF UpdatePackages, Phase
<1>8. CASE TryCandidate
  BY <1>8 DEF TryCandidate
<1>9. CASE CreateConfig
  BY <1>9 DEF CreateConfig
<1>10. CASE LookUpCache
  BY <1>10 DEF LookUpCache, Connects, ConnectRaises, Attachable, SessionsOf
<1>11. CASE DestroyOrphan
  BY <1>11 DEF DestroyOrphan
<1>12. CASE Connect
  BY <1>12 DEF Connect, Connects, ConnectRaises, Attachable, SessionsOf,
     AttemptFails
<1>13. CASE Configure
  BY <1>13 DEF Configure, AttemptFails
<1>14. CASE BasicSetupFails
  BY <1>14 DEF BasicSetupFails, TornDown, TearDownRaises, NoTearDown
<1>15. CASE CandidateFails
  BY <1>15 DEF CandidateFails
<1>16. CASE CleanUpCandidate
  BY <1>16 DEF CleanUpCandidate, IxiaTornDown, IxiaTearDownRaises, TornDown,
     TearDownRaises, NoTearDown, NextCandidate
<1>17. CASE SelectCandidate
  BY <1>17 DEF SelectCandidate
<1>18. CASE FinishSetup
  BY <1>18 DEF FinishSetup, Phase
<1>19. CASE StartTearDown
  BY <1>19 DEF StartTearDown
<1>20. CASE RestoreTestBed
  BY <1>20 DEF RestoreTestBed, GiveBack
<1>21. CASE ReleaseStatic
  BY <1>21 DEF ReleaseStatic, GiveBack
<1>22. CASE ReleaseQuery
  BY <1>22 DEF ReleaseQuery, GiveBack
<1>23. CASE ReleaseIxia
  BY <1>23 DEF ReleaseIxia, IxiaTornDown, IxiaTearDownRaises, TornDown,
     TearDownRaises, NoTearDown
<1>24. CASE AbandonTearDown
  BY <1>24 DEF AbandonTearDown
<1>25. CASE UNCHANGED vars
  BY <1>25 DEF vars
<1> QED
  BY <1>1, <1>2, <1>3, <1>4, <1>5, <1>6, <1>7, <1>8, <1>9, <1>10, <1>11, <1>12,
     <1>13, <1>14, <1>15, <1>16, <1>17, <1>18, <1>19, <1>20, <1>21, <1>22, <1>23,
     <1>24, <1>25 DEF Next, SetUp, TearDown, Finished

\* What is acquired is put in a field before the next await.
LEMMA FieldStep ==
    ASSUME SetupInv, [Next]_vars
    PROVE  FieldInv'
<1> USE ResourcesAssumption DEF SetupInv, TypeOK, FieldInv, SettingUp,
      AtCandidate, Goto, SetupReturns, clientVars, serverVars, fieldVars,
      historyVars
<1>1. CASE ReserveQueries
  BY <1>1 DEF ReserveQueries, Queries
<1>2. CASE Unreserve
  BY <1>2 DEF Unreserve
<1>3. CASE ReserveStatic
  BY <1>3 DEF ReserveStatic
<1>4. CASE RunSetupTasks
  BY <1>4 DEF RunSetupTasks, Phase
<1>5. CASE CreateTestBed
  BY <1>5 DEF CreateTestBed
<1>6. CASE Isolate
  BY <1>6 DEF Isolate
<1>7. CASE UpdatePackages
  BY <1>7 DEF UpdatePackages, Phase
<1>8. CASE TryCandidate
  BY <1>8 DEF TryCandidate
<1>9. CASE CreateConfig
  BY <1>9 DEF CreateConfig
<1>10. CASE LookUpCache
  BY <1>10 DEF LookUpCache, Connects, ConnectRaises, Attachable, SessionsOf
<1>11. CASE DestroyOrphan
  BY <1>11 DEF DestroyOrphan
<1>12. CASE Connect
  BY <1>12 DEF Connect, Connects, ConnectRaises, Attachable, SessionsOf,
     AttemptFails
<1>13. CASE Configure
  BY <1>13 DEF Configure, AttemptFails
<1>14. CASE BasicSetupFails
  BY <1>14 DEF BasicSetupFails, TornDown, TearDownRaises, NoTearDown
<1>15. CASE CandidateFails
  BY <1>15 DEF CandidateFails
<1>16. CASE CleanUpCandidate
  BY <1>16 DEF CleanUpCandidate, IxiaTornDown, IxiaTearDownRaises, TornDown,
     TearDownRaises, NoTearDown, NextCandidate
<1>17. CASE SelectCandidate
  BY <1>17 DEF SelectCandidate
<1>18. CASE FinishSetup
  BY <1>18 DEF FinishSetup, Phase
<1>19. CASE StartTearDown
  BY <1>19 DEF StartTearDown
<1>20. CASE RestoreTestBed
  BY <1>20 DEF RestoreTestBed, GiveBack
<1>21. CASE ReleaseStatic
  BY <1>21 DEF ReleaseStatic, GiveBack
<1>22. CASE ReleaseQuery
  BY <1>22 DEF ReleaseQuery, GiveBack
<1>23. CASE ReleaseIxia
  BY <1>23 DEF ReleaseIxia, IxiaTornDown, IxiaTearDownRaises, TornDown,
     TearDownRaises, NoTearDown
<1>24. CASE AbandonTearDown
  BY <1>24 DEF AbandonTearDown
<1>25. CASE UNCHANGED vars
  BY <1>25 DEF vars
<1> QED
  BY <1>1, <1>2, <1>3, <1>4, <1>5, <1>6, <1>7, <1>8, <1>9, <1>10, <1>11, <1>12,
     <1>13, <1>14, <1>15, <1>16, <1>17, <1>18, <1>19, <1>20, <1>21, <1>22, <1>23,
     <1>24, <1>25 DEF Next, SetUp, TearDown, Finished

\* Nothing is reserved or isolated in OSS mode.
LEMMA OssStep ==
    ASSUME SetupInv, [Next]_vars
    PROVE  OssInv'
<1> USE DEF SetupInv, TypeOK, OssInv, Goto, SetupReturns, clientVars,
      serverVars, fieldVars, historyVars
<1>1. CASE ReserveQueries
  BY <1>1 DEF ReserveQueries, Queries
<1>2. CASE Unreserve
  BY <1>2 DEF Unreserve
<1>3. CASE ReserveStatic
  BY <1>3 DEF ReserveStatic
<1>4. CASE RunSetupTasks
  BY <1>4 DEF RunSetupTasks, Phase
<1>5. CASE CreateTestBed
  BY <1>5 DEF CreateTestBed
<1>6. CASE Isolate
  BY <1>6 DEF Isolate
<1>7. CASE UpdatePackages
  BY <1>7 DEF UpdatePackages, Phase
<1>8. CASE TryCandidate
  BY <1>8 DEF TryCandidate
<1>9. CASE CreateConfig
  BY <1>9 DEF CreateConfig
<1>10. CASE LookUpCache
  BY <1>10 DEF LookUpCache, Connects, ConnectRaises, Attachable, SessionsOf
<1>11. CASE DestroyOrphan
  BY <1>11 DEF DestroyOrphan
<1>12. CASE Connect
  BY <1>12 DEF Connect, Connects, ConnectRaises, Attachable, SessionsOf,
     AttemptFails
<1>13. CASE Configure
  BY <1>13 DEF Configure, AttemptFails
<1>14. CASE BasicSetupFails
  BY <1>14 DEF BasicSetupFails, TornDown, TearDownRaises, NoTearDown
<1>15. CASE CandidateFails
  BY <1>15 DEF CandidateFails
<1>16. CASE CleanUpCandidate
  BY <1>16 DEF CleanUpCandidate, IxiaTornDown, IxiaTearDownRaises, TornDown,
     TearDownRaises, NoTearDown, NextCandidate
<1>17. CASE SelectCandidate
  BY <1>17 DEF SelectCandidate
<1>18. CASE FinishSetup
  BY <1>18 DEF FinishSetup, Phase
<1>19. CASE StartTearDown
  BY <1>19 DEF StartTearDown
<1>20. CASE RestoreTestBed
  BY <1>20 DEF RestoreTestBed, GiveBack
<1>21. CASE ReleaseStatic
  BY <1>21 DEF ReleaseStatic, GiveBack
<1>22. CASE ReleaseQuery
  BY <1>22 DEF ReleaseQuery, GiveBack
<1>23. CASE ReleaseIxia
  BY <1>23 DEF ReleaseIxia, IxiaTornDown, IxiaTearDownRaises, TornDown,
     TearDownRaises, NoTearDown
<1>24. CASE AbandonTearDown
  BY <1>24 DEF AbandonTearDown
<1>25. CASE UNCHANGED vars
  BY <1>25 DEF vars
<1> QED
  BY <1>1, <1>2, <1>3, <1>4, <1>5, <1>6, <1>7, <1>8, <1>9, <1>10, <1>11, <1>12,
     <1>13, <1>14, <1>15, <1>16, <1>17, <1>18, <1>19, <1>20, <1>21, <1>22, <1>23,
     <1>24, <1>25 DEF Next, SetUp, TearDown, Finished

\* The teardown passes nothing by.
LEMMA ReleaseStep ==
    ASSUME SetupInv, [Next]_vars
    PROVE  ReleaseInv'
<1> USE ResourcesAssumption DEF SetupInv, TypeOK, FieldInv, OssInv, ReleaseInv,
      SettingUp, Goto, SetupReturns, clientVars, serverVars, fieldVars,
      historyVars
<1>1. CASE ReserveQueries
  BY <1>1 DEF ReserveQueries, Queries
<1>2. CASE Unreserve
  BY <1>2 DEF Unreserve
<1>3. CASE ReserveStatic
  BY <1>3 DEF ReserveStatic
<1>4. CASE RunSetupTasks
  BY <1>4 DEF RunSetupTasks, Phase
<1>5. CASE CreateTestBed
  BY <1>5 DEF CreateTestBed
<1>6. CASE Isolate
  BY <1>6 DEF Isolate
<1>7. CASE UpdatePackages
  BY <1>7 DEF UpdatePackages, Phase
<1>8. CASE TryCandidate
  BY <1>8 DEF TryCandidate
<1>9. CASE CreateConfig
  BY <1>9 DEF CreateConfig
<1>10. CASE LookUpCache
  BY <1>10 DEF LookUpCache, Connects, ConnectRaises, Attachable, SessionsOf
<1>11. CASE DestroyOrphan
  BY <1>11 DEF DestroyOrphan
<1>12. CASE Connect
  BY <1>12 DEF Connect, Connects, ConnectRaises, Attachable, SessionsOf,
     AttemptFails
<1>13. CASE Configure
  BY <1>13 DEF Configure, AttemptFails
<1>14. CASE BasicSetupFails
  BY <1>14 DEF BasicSetupFails, TornDown, TearDownRaises, NoTearDown
<1>15. CASE CandidateFails
  BY <1>15 DEF CandidateFails
<1>16. CASE CleanUpCandidate
  BY <1>16 DEF CleanUpCandidate, IxiaTornDown, IxiaTearDownRaises, TornDown,
     TearDownRaises, NoTearDown, NextCandidate
<1>17. CASE SelectCandidate
  BY <1>17 DEF SelectCandidate
<1>18. CASE FinishSetup
  BY <1>18 DEF FinishSetup, Phase
<1>19. CASE StartTearDown
  BY <1>19 DEF StartTearDown
<1>20. CASE RestoreTestBed
  BY <1>20 DEF RestoreTestBed, GiveBack
<1>21. CASE ReleaseStatic
  BY <1>21 DEF ReleaseStatic, GiveBack
<1>22. CASE ReleaseQuery
  BY <1>22 DEF ReleaseQuery, GiveBack
<1>23. CASE ReleaseIxia
  BY <1>23 DEF ReleaseIxia, IxiaTornDown, IxiaTearDownRaises, TornDown,
     TearDownRaises, NoTearDown
<1>24. CASE AbandonTearDown
  BY <1>24 DEF AbandonTearDown
<1>25. CASE UNCHANGED vars
  BY <1>25 DEF vars
<1> QED
  BY <1>1, <1>2, <1>3, <1>4, <1>5, <1>6, <1>7, <1>8, <1>9, <1>10, <1>11, <1>12,
     <1>13, <1>14, <1>15, <1>16, <1>17, <1>18, <1>19, <1>20, <1>21, <1>22, <1>23,
     <1>24, <1>25 DEF Next, SetUp, TearDown, Finished

\* A teardown that runs to its end has released or reported everything.
LEMMA DoneStep ==
    ASSUME SetupInv, [Next]_vars
    PROVE  ReleasedOrReported'
<1> USE DEF SetupInv, TypeOK, ReleasedOrReported, ReleaseInv, CandidateInv,
      OwnerInv, ServerInv, ExistingInv, RemovedInv, GivenUp, isExisting,
      NoSession, ExistingSession, Goto, SetupReturns, clientVars, serverVars,
      fieldVars, historyVars
<1>1. CASE ReserveQueries
  BY <1>1 DEF ReserveQueries, Queries
<1>2. CASE Unreserve
  BY <1>2 DEF Unreserve
<1>3. CASE ReserveStatic
  BY <1>3 DEF ReserveStatic
<1>4. CASE RunSetupTasks
  BY <1>4 DEF RunSetupTasks, Phase
<1>5. CASE CreateTestBed
  BY <1>5 DEF CreateTestBed
<1>6. CASE Isolate
  BY <1>6 DEF Isolate
<1>7. CASE UpdatePackages
  BY <1>7 DEF UpdatePackages, Phase
<1>8. CASE TryCandidate
  BY <1>8 DEF TryCandidate
<1>9. CASE CreateConfig
  BY <1>9 DEF CreateConfig
<1>10. CASE LookUpCache
  BY <1>10 DEF LookUpCache, Connects, ConnectRaises, Attachable, SessionsOf
<1>11. CASE DestroyOrphan
  BY <1>11 DEF DestroyOrphan
<1>12. CASE Connect
  BY <1>12 DEF Connect, Connects, ConnectRaises, Attachable, SessionsOf,
     AttemptFails
<1>13. CASE Configure
  BY <1>13 DEF Configure, AttemptFails
<1>14. CASE BasicSetupFails
  BY <1>14 DEF BasicSetupFails, TornDown, TearDownRaises, NoTearDown
<1>15. CASE CandidateFails
  BY <1>15 DEF CandidateFails
<1>16. CASE CleanUpCandidate
  BY <1>16 DEF CleanUpCandidate, IxiaTornDown, IxiaTearDownRaises, TornDown,
     TearDownRaises, NoTearDown, NextCandidate
<1>17. CASE SelectCandidate
  BY <1>17 DEF SelectCandidate
<1>18. CASE FinishSetup
  BY <1>18 DEF FinishSetup, Phase
<1>19. CASE StartTearDown
  BY <1>19 DEF StartTearDown
<1>20. CASE RestoreTestBed
  BY <1>20 DEF RestoreTestBed, GiveBack
<1>21. CASE ReleaseStatic
  BY <1>21 DEF ReleaseStatic, GiveBack
<1>22. CASE ReleaseQuery
  BY <1>22 DEF ReleaseQuery, GiveBack
<1>23. CASE ReleaseIxia
  BY <1>23 DEF ReleaseIxia, IxiaTornDown, IxiaTearDownRaises, TornDown,
     TearDownRaises, NoTearDown
<1>24. CASE AbandonTearDown
  BY <1>24 DEF AbandonTearDown
<1>25. CASE UNCHANGED vars
  BY <1>25 DEF vars
<1> QED
  BY <1>1, <1>2, <1>3, <1>4, <1>5, <1>6, <1>7, <1>8, <1>9, <1>10, <1>11, <1>12,
     <1>13, <1>14, <1>15, <1>16, <1>17, <1>18, <1>19, <1>20, <1>21, <1>22, <1>23,
     <1>24, <1>25 DEF Next, SetUp, TearDown, Finished

(***************************************************************************)
(* The theorems                                                            *)
(***************************************************************************)

\* The parts together are an invariant of setup and teardown.
THEOREM SetupInvariant == Spec => []SetupInv
<1>1. Init => SetupInv
  BY CountsAssumption DEF Init, SetupInv, TypeOK, CandidateInv, ExistingInv, ServerInv,
     OwnerInv, HandleInv, RemovedInv, FieldInv, OssInv, ReleaseInv, ReleasedOrReported,
     SettingUp, AtCandidate, TearingDown, LastCandidate, isExisting, NoSession,
     ExistingSession, Sessions
<1>2. SetupInv /\ [Next]_vars => SetupInv'
  BY TypeStep, CandidateStep, ExistingStep, ServerStep, OwnerStep, HandleStep,
     RemovedStep, FieldStep, OssStep, ReleaseStep, DoneStep DEF SetupInv
<1> QED
  BY <1>1, <1>2, PTL DEF Spec

\* The fields of the orchestrator and of the client keep their shapes.
THEOREM SetupTypeCorrect == Spec => []TypeOK
<1>1. SetupInv => TypeOK
  BY DEF SetupInv
<1> QED
  BY <1>1, SetupInvariant, PTL

\* Whatever fails or is cancelled in async_test_setUp, a session, and a reservation
\* that was returned to it, is known to the teardown or was given up in the open.
\* What a reservation that raised had reserved is excepted.
THEOREM NothingForgottenHolds == Spec => []NothingForgotten
<1>1. SetupInv => NothingForgotten
  BY DEF SetupInv, OwnerInv, FieldInv, SettingUp, NothingForgotten
<1> QED
  BY <1>1, SetupInvariant, PTL

\* The loop over the candidates goes on only when the session of the one before is
\* gone or was given up.
THEOREM CleanFallbackHolds == Spec => []CleanFallback
<1>1. SetupInv => CleanFallback
  BY DEF SetupInv, TypeOK, CandidateInv, OwnerInv, ServerInv, CleanFallback
<1> QED
  BY <1>1, SetupInvariant, PTL

\* async_tearDown releases everything it has not raised an error for.
THEOREM ReleasedOrReportedHolds == Spec => []ReleasedOrReported
<1>1. SetupInv => ReleasedOrReported
  BY DEF SetupInv
<1> QED
  BY <1>1, SetupInvariant, PTL

\* The session of --ixia-session-id survives retries, fallbacks and cleanups.
THEOREM ExistingSessionKeptHolds == Spec => []ExistingSessionKept
<1>1. SetupInv => ExistingSessionKept
  BY DEF SetupInv, ExistingInv, ExistingSessionKept
<1> QED
  BY <1>1, SetupInvariant, PTL
=============================================================================
