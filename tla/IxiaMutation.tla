---------------------------- MODULE IxiaMutation ----------------------------
(***************************************************************************)
(* Mutating one IXIA session from several threads:                         *)
(* _bounded_apply_lock, the mutation transactions and the quarantines of   *)
(* src/taac/ixia/ixia.py and src/taac/ixia/taac_ixia.py.                   *)
(*                                                                         *)
(* Applying staged changes may time out, and then neither the client nor   *)
(* the server's abort may tell whether they were applied: the session is   *)
(* quarantined and refuses mutations until connect() brings another one.   *)
(* A churn scenario that cannot verify its restoration quarantines the     *)
(* session with a generation of its own, which only a reset of that very   *)
(* generation ends.  An expired scenario quarantine still refuses, so      *)
(* expiry is left out.  Only apply_changes_bounded and its abort have      *)
(* deadlines; any other request may hang, with the lock held.              *)
(*                                                                         *)
(* Any thread may make any call, but connect() is made by one of them, the *)
(* one that runs _create_basic_setup.                                      *)
(***************************************************************************)
EXTENDS Naturals

CONSTANTS
    Threads,          \* the threads that use the client
    NoThread,         \* the lock is free
    Connector,        \* the thread that calls connect()
    MaxAttempts,      \* _APPLY_CHANGES_MAX_ATTEMPTS
    MaxSessions,      \* bound: sessions that are ever connected
    MaxGenerations    \* bound: scenario quarantines

ASSUME ThreadsAssumption == Connector \in Threads /\ NoThread \notin Threads
ASSUME BoundsAssumption ==
    MaxAttempts \in Nat \ {0} /\ MaxSessions \in Nat \ {0} /\ MaxGenerations \in Nat

VARIABLES
    owner,        \* the thread in _bounded_apply_lock, an RLock
    pc,           \* where each thread is
    call,         \* the call it is in
    stage,        \* "forward" or, in a rollback, "back"
    attempt,      \* of _apply_changes_with_retry
    claim,        \* the generation a recovery has read, 0 for none
    proof,        \* what it says of it: "verified", "session_reset" or "none"
    replacement,  \* the session connect() is about to install
    session,      \* the identity of self.session
    made,         \* external: sessions the API server ever had
    reason,       \* _session_quarantine_reason: "none" or "set"
    quarantined,  \* _quarantined_session_identity, 0 for None
    recordGen,    \* _scenario_quarantine_record.generation, 0 for no record
    recordSession,\* _scenario_quarantine_record.session_identity, 0 for None
    generation,   \* _scenario_quarantine_generation
    ambiguous,    \* external: sessions in a state nobody can tell
    unrestored,   \* external: <<session, generation>>s that were left changed
    overwritten   \* generations whose record a later one replaced; history

threadVars == <<pc, call, stage, attempt, claim, proof>>
sessionVars == <<session, made, replacement>>
scenarioVars == <<recordGen, recordSession, generation, unrestored, overwritten>>
quarantineVars == <<reason, quarantined, ambiguous>>
vars == <<owner, threadVars, sessionVars, scenarioVars, quarantineVars>>

\* restore_bgp_peer_ranges, the partitioned prefixes, configure_formulaic_bgp_routes.
Transactions == {"ranges", "partition", "formulaic"}
Calls == {"bounded", "legacy"} \cup Transactions

\* apply_changes_bounded, else _apply_changes_with_retry.
Bounded(t) == call[t] \in {"bounded", "ranges"}

\* assert_session_not_quarantined raises.
Refused == reason = "set" \/ recordGen # 0

At(t, where) == pc' = [pc EXCEPT ![t] = where]

\* A call ends, by returning or raising, and its locals are gone.
Leave(t) ==
    /\ At(t, "idle")
    /\ call' = [call EXCEPT ![t] = "none"]
    /\ stage' = [stage EXCEPT ![t] = "forward"]
    /\ attempt' = [attempt EXCEPT ![t] = 1]
    /\ claim' = [claim EXCEPT ![t] = 0]
    /\ proof' = [proof EXCEPT ![t] = "none"]

\* The call of a thread that is in the lock ends.
Return(t) ==
    /\ Leave(t)
    /\ owner' = NoThread

(***************************************************************************)
(* Applying changes                                                        *)
(***************************************************************************)

Begin(t, c) ==
    /\ pc[t] = "idle"
    /\ At(t, "wait")
    /\ call' = [call EXCEPT ![t] = c]
    /\ UNCHANGED <<owner, stage, attempt, claim, proof, sessionVars, scenarioVars,
                   quarantineVars>>

\* The lock is taken and the quarantine looked at, at every attempt.
Enter(t) ==
    /\ pc[t] = "wait" /\ call[t] \in Calls
    /\ owner = NoThread
    /\ \/ /\ Refused
          /\ Leave(t)
          /\ UNCHANGED owner
       \/ /\ ~Refused
          /\ owner' = t
          /\ At(t, IF call[t] \in Transactions THEN "body" ELSE "sending")
          /\ UNCHANGED <<call, stage, attempt, claim, proof>>
    /\ UNCHANGED <<sessionVars, scenarioVars, quarantineVars>>

\* _quarantine_session; the identity of the session may be unreadable.
QuarantineSession ==
    /\ reason' = "set"
    /\ quarantined' \in {session, 0}
    /\ ambiguous' = ambiguous \cup {session}

\* The writes or the changes of a call failed. The first two transactions roll
\* back; the third quarantines the session if an Active mask may be written.
Fails(t) ==
    \/ /\ call[t] \in {"ranges", "partition"} /\ stage[t] = "forward"
       /\ At(t, "rollback")
       /\ stage' = [stage EXCEPT ![t] = "back"]
       /\ UNCHANGED <<owner, call, attempt, claim, proof, quarantineVars>>
    \/ /\ call[t] = "formulaic"
       /\ Return(t)
       /\ QuarantineSession
    \/ /\ ~(call[t] \in {"ranges", "partition"} /\ stage[t] = "forward")
       /\ Return(t)
       /\ UNCHANGED quarantineVars

\* The transaction stages its changes; what fails before it writes only raises.
Write(t) ==
    /\ pc[t] = "body"
    /\ \/ At(t, "sending") /\ UNCHANGED <<owner, call, stage, attempt, claim, proof,
                                          quarantineVars>>
       \/ Fails(t)
       \/ Return(t) /\ UNCHANGED quarantineVars
    /\ UNCHANGED <<sessionVars, scenarioVars>>

\* ApplyOnTheFly succeeds.
Applied(t) ==
    /\ pc[t] = "sending"
    /\ \/ /\ call[t] \in Transactions /\ stage[t] = "forward"
          /\ At(t, "verify")
          /\ UNCHANGED <<owner, call, stage, attempt, claim, proof>>
       \/ /\ call[t] \notin Transactions \/ stage[t] = "back"
          /\ Return(t)
    /\ UNCHANGED <<sessionVars, scenarioVars, quarantineVars>>

\* Mutant of ApplyRaises: the attempts are not counted.
MutantRetriesForever(t) ==
    /\ pc[t] = "sending"
    /\ \/ /\ ~Bounded(t)
          /\ At(t, "sleep")
          /\ owner' = IF call[t] \in Transactions THEN owner ELSE NoThread
          /\ UNCHANGED <<call, stage, attempt, claim, proof, quarantineVars>>
       \/ /\ Bounded(t)
          /\ Fails(t)
    /\ UNCHANGED <<sessionVars, scenarioVars>>

\* It raises something else than a timeout, or there is no bound: the legacy
\* apply tries again later, outside the lock unless a transaction holds it.
ApplyRaises(t) ==
    /\ pc[t] = "sending"
    /\ \/ /\ ~Bounded(t) /\ attempt[t] < MaxAttempts
          /\ At(t, "sleep")
          /\ attempt' = [attempt EXCEPT ![t] = attempt[t] + 1]
          /\ owner' = IF call[t] \in Transactions THEN owner ELSE NoThread
          /\ UNCHANGED <<call, stage, claim, proof, quarantineVars>>
       \/ /\ Bounded(t) \/ attempt[t] >= MaxAttempts
          /\ Fails(t)
    /\ UNCHANGED <<sessionVars, scenarioVars>>

\* Mutant of Retry: the quarantine is only looked at before the first attempt.
MutantRetryUnchecked(t) ==
    /\ pc[t] = "sleep"
    /\ owner = IF call[t] \in Transactions THEN t ELSE NoThread
    /\ owner' = t
    /\ At(t, "sending")
    /\ UNCHANGED <<call, stage, attempt, claim, proof, sessionVars, scenarioVars,
                   quarantineVars>>

\* The next attempt looks at the quarantine again. A transaction is still in the
\* lock, so nothing can have quarantined its session.
Retry(t) ==
    /\ pc[t] = "sleep"
    /\ At(t, IF call[t] \in Transactions THEN "sending" ELSE "wait")
    /\ UNCHANGED <<owner, call, stage, attempt, claim, proof, sessionVars,
                   scenarioVars, quarantineVars>>

\* A bounded apply times out: the abort is sent, in the same hold of the lock.
ApplyTimesOut(t) ==
    /\ pc[t] = "sending" /\ Bounded(t)
    /\ At(t, "aborting")
    /\ UNCHANGED <<owner, call, stage, attempt, claim, proof, sessionVars,
                   scenarioVars, quarantineVars>>

\* The server acknowledges the abort; the timeout is raised.
AbortAcknowledged(t) ==
    /\ pc[t] = "aborting"
    /\ Fails(t)
    /\ UNCHANGED <<sessionVars, scenarioVars>>

\* The abort fails in whatever way: the session is quarantined, then the timeout
\* or the unexpected error is raised.
AbortFails(t) ==
    /\ pc[t] = "aborting"
    /\ QuarantineSession
    /\ IF call[t] = "ranges" /\ stage[t] = "forward"
       THEN /\ At(t, "rollback")
            /\ stage' = [stage EXCEPT ![t] = "back"]
            /\ UNCHANGED <<owner, call, attempt, claim, proof>>
       ELSE Return(t)
    /\ UNCHANGED <<sessionVars, scenarioVars>>

\* The transaction reads back what it wrote.
Verify(t) ==
    /\ pc[t] = "verify"
    /\ \/ Return(t) /\ UNCHANGED quarantineVars
       \/ Fails(t)
    /\ UNCHANGED <<sessionVars, scenarioVars>>

\* The rollback writes the baseline and applies it, unless the apply that failed
\* has quarantined the session; or its writes fail.
RollBack(t) ==
    /\ pc[t] = "rollback"
    /\ \/ /\ ~Refused
          /\ At(t, "sending")
          /\ attempt' = [attempt EXCEPT ![t] = 1]
          /\ UNCHANGED <<owner, call, stage, claim, proof>>
       \/ Return(t)
    /\ UNCHANGED <<sessionVars, scenarioVars, quarantineVars>>

(***************************************************************************)
(* connect()                                                               *)
(***************************************************************************)

\* External: SessionAssistant attaches to the client's session or makes one.
\* Neither the lock nor the client's fields are touched yet.
Attach(t) ==
    /\ t = Connector
    /\ pc[t] = "idle"
    /\ \/ replacement' = session /\ UNCHANGED made
       \/ made < MaxSessions /\ made' = made + 1 /\ replacement' = made'
    /\ At(t, "wait")
    /\ call' = [call EXCEPT ![t] = "connect"]
    /\ UNCHANGED <<owner, stage, attempt, claim, proof, session, scenarioVars,
                   quarantineVars>>

\* Mutant of Install: the fields are written without the lock.
MutantInstallUnlocked(t) ==
    /\ pc[t] = "wait" /\ call[t] = "connect"
    /\ session' = replacement
    /\ IF reason = "set" /\ quarantined # 0 /\ replacement # quarantined
       THEN reason' = "none" /\ quarantined' = 0
       ELSE UNCHANGED <<reason, quarantined>>
    /\ Leave(t)
    /\ UNCHANGED <<owner, made, replacement, scenarioVars, ambiguous>>

\* In the lock the replacement is installed; a quarantine of another session
\* ends, one whose session was unreadable does not.
Install(t) ==
    /\ pc[t] = "wait" /\ call[t] = "connect"
    /\ owner = NoThread
    /\ session' = replacement
    /\ IF reason = "set" /\ quarantined # 0 /\ replacement # quarantined
       THEN reason' = "none" /\ quarantined' = 0
       ELSE UNCHANGED <<reason, quarantined>>
    /\ Leave(t)
    /\ UNCHANGED <<owner, made, replacement, scenarioVars, ambiguous>>

(***************************************************************************)
(* The scenario quarantine                                                 *)
(***************************************************************************)

\* quarantine_scenario: a scenario could not verify its restoration. Its record
\* replaces one that is still there.
QuarantineScenario(t) ==
    /\ pc[t] = "idle"
    /\ owner = NoThread
    /\ generation < MaxGenerations
    /\ generation' = generation + 1
    /\ recordGen' = generation + 1
    /\ recordSession' \in {session, 0}
    /\ unrestored' = unrestored \cup {<<session, generation + 1>>}
    /\ overwritten' = overwritten \cup ({recordGen} \ {0})
    /\ UNCHANGED <<owner, threadVars, sessionVars, quarantineVars>>

\* A recovery reads the record it is going to reset.
ReadRecord(t) ==
    /\ pc[t] = "idle"
    /\ owner = NoThread
    /\ recordGen # 0
    /\ claim' = [claim EXCEPT ![t] = recordGen]
    /\ At(t, "recover")
    /\ UNCHANGED <<owner, call, stage, attempt, proof, sessionVars, scenarioVars,
                   quarantineVars>>

\* External: it restores the baseline of the record it has read and verifies that,
\* or relies on the session having been replaced.
Recover(t) ==
    /\ pc[t] = "recover"
    /\ \/ /\ proof' = [proof EXCEPT ![t] = "verified"]
          /\ unrestored' = unrestored \ {<<session, claim[t]>>}
       \/ /\ proof' = [proof EXCEPT ![t] = "session_reset"]
          /\ UNCHANGED unrestored
    /\ At(t, "wait")
    /\ call' = [call EXCEPT ![t] = "reset"]
    /\ UNCHANGED <<owner, stage, attempt, claim, sessionVars, recordGen,
                   recordSession, generation, overwritten, quarantineVars>>

\* Mutant of ResetAllowed: the generation is not compared.
MutantUnfencedReset(t) ==
    /\ recordGen # 0 /\ recordSession # 0
    /\ \/ proof[t] = "verified" /\ session = recordSession
       \/ proof[t] = "session_reset" /\ session # recordSession

\* What reset_scenario_quarantine asks for, or it raises.
ResetAllowed(t) ==
    /\ recordGen # 0 /\ recordGen = claim[t] /\ recordSession # 0
    /\ \/ proof[t] = "verified" /\ session = recordSession
       \/ proof[t] = "session_reset" /\ session # recordSession

ResetScenario(t) ==
    /\ pc[t] = "wait" /\ call[t] = "reset"
    /\ owner = NoThread
    /\ IF ResetAllowed(t) THEN recordGen' = 0 /\ recordSession' = 0
                          ELSE UNCHANGED <<recordGen, recordSession>>
    /\ Leave(t)
    /\ UNCHANGED <<owner, sessionVars, generation, unrestored, overwritten,
                   quarantineVars>>

(***************************************************************************)
(* The specification                                                       *)
(***************************************************************************)

Init ==
    /\ owner = NoThread
    /\ pc = [t \in Threads |-> "idle"]
    /\ call = [t \in Threads |-> "none"]
    /\ stage = [t \in Threads |-> "forward"]
    /\ attempt = [t \in Threads |-> 1]
    /\ claim = [t \in Threads |-> 0]
    /\ proof = [t \in Threads |-> "none"]
    /\ session = 1 /\ made = 1 /\ replacement = 1
    /\ reason = "none" /\ quarantined = 0
    /\ recordGen = 0 /\ recordSession = 0 /\ generation = 0
    /\ ambiguous = {} /\ unrestored = {} /\ overwritten = {}

\* What a thread does once it is in the lock.
Inside(t) ==
    \/ Write(t) \/ Applied(t) \/ ApplyRaises(t) \/ Retry(t) \/ ApplyTimesOut(t)
    \/ AbortAcknowledged(t) \/ AbortFails(t) \/ Verify(t) \/ RollBack(t)

Outside(t) ==
    \/ \E c \in Calls : Begin(t, c)
    \/ Enter(t)
    \/ Attach(t) \/ Install(t)
    \/ QuarantineScenario(t) \/ ReadRecord(t) \/ Recover(t) \/ ResetScenario(t)

Next == \E t \in Threads : Inside(t) \/ Outside(t)

\* A thread waits for a request that has no deadline: the reads and writes of a
\* transaction, and ApplyOnTheFly outside apply_changes_bounded.
Unbounded(t) ==
    pc[t] \in {"body", "verify", "rollback"} \/ (pc[t] = "sending" /\ ~Bounded(t))

\* What has a deadline goes on: the bounded apply, its abort and the sleep between
\* two attempts. Nothing is assumed of any other request, nor of the order in
\* which waiting threads get the lock.
Spec == Init /\ [][Next]_vars
        /\ \A t \in Threads : WF_vars(~Unbounded(t) /\ Inside(t))

(***************************************************************************)
(* Properties                                                              *)
(***************************************************************************)

\* The variables hold values of the shapes the client gives them.
TypeOK ==
    /\ owner \in Threads \cup {NoThread}
    /\ pc \in [Threads -> {"idle", "wait", "body", "sending", "sleep", "aborting",
                           "verify", "rollback", "recover"}]
    /\ call \in [Threads -> Calls \cup {"none", "connect", "reset"}]
    /\ stage \in [Threads -> {"forward", "back"}]
    /\ attempt \in [Threads -> 1..MaxAttempts]
    /\ claim \in [Threads -> Nat]
    /\ proof \in [Threads -> {"none", "verified", "session_reset"}]
    /\ session \in Nat \ {0} /\ made \in Nat \ {0} /\ replacement \in Nat \ {0}
    /\ reason \in {"none", "set"}
    /\ quarantined \in Nat
    /\ recordGen \in Nat /\ recordSession \in Nat /\ generation \in Nat
    /\ ambiguous \subseteq Nat /\ unrestored \subseteq Nat \X Nat
    /\ overwritten \subseteq Nat

InFlight(t) == pc[t] \in {"sending", "aborting"}

\* No change is applied to a session in a state nobody can tell, whatever other
\* threads retry, roll back or reconnect: once an abort has failed or a mask
\* stayed unverified, every later ApplyOnTheFly goes to another session.
NoApplyToAmbiguous == \A t \in Threads : InFlight(t) => session \notin ambiguous

\* No change is applied to a session that a scenario has left changed: neither
\* a stale recovery nor a reconnect unlocks it before it was restored. What a
\* scenario left whose record a later one replaced is excepted: the client keeps
\* one record, and the reset of the later one unlocks the session.
NoApplyToUnrestored ==
    \A t \in Threads :
        InFlight(t) =>
            \A g \in 1..generation : <<session, g>> \in unrestored => g \in overwritten

InTransaction(t) ==
    \/ pc[t] \in {"body", "verify", "rollback"}
    \/ pc[t] \in {"sending", "aborting", "sleep"} /\ call[t] \in Transactions

\* From its first write to its verification or rollback a transaction has the
\* session to itself: it is not replaced, and no other thread applies changes.
TransactionIsolated ==
    [][\A t \in Threads :
         InTransaction(t) =>
           /\ session' = session
           /\ \A u \in Threads \ {t} : ~InFlight(u) /\ ~InFlight(u)']_vars

\* A thread that keeps the lock for ever waits in it for a single request that has
\* no deadline: no failure, retry, timed-out apply or failed abort keeps it.
LockReleased ==
    \A t \in Threads :
        <>[](owner = t) =>
            \E here \in {"body", "sending", "verify", "rollback"} :
                <>[](pc[t] = here /\ Unbounded(t))
=============================================================================
