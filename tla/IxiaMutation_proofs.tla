------------------------- MODULE IxiaMutation_proofs -------------------------
(***************************************************************************)
(* Proofs about IxiaMutation, for any threads and bounds.                  *)
(*                                                                         *)
(* The lock is held exactly where the code is inside `with`; a thread that *)
(* may apply changes has seen no quarantine, and none can begin while it   *)
(* holds the lock; and a quarantine outlives the reason for it, because    *)
(* sessions only ever move forward and generations are never used again.   *)
(***************************************************************************)
EXTENDS IxiaMutation, TLAPS

Holds(t) ==
    \/ pc[t] \in {"body", "sending", "aborting", "verify", "rollback"}
    \/ pc[t] = "sleep" /\ call[t] \in Transactions

\* A thread is in the lock exactly when it is the owner.
LockInv == \A t \in Threads : Holds(t) <=> owner = t

Applies(t) ==
    \/ pc[t] \in {"body", "sending", "aborting"}
    \/ pc[t] = "sleep" /\ call[t] \in Transactions

\* A thread that applies changes, or goes on to, does so without a quarantine.
GateInv == \A t \in Threads : Applies(t) => ~Refused

\* Sessions are connected in the order in which they were made, by one thread.
SessionInv ==
    /\ session <= made /\ replacement <= made
    /\ \A t \in Threads : call[t] = "connect" => t = Connector
    /\ call[Connector] = "connect" => session <= replacement
    /\ \A s \in ambiguous : s <= session
    /\ \A p \in unrestored : p[1] <= session
    /\ recordSession <= session

\* An ambiguous session stays quarantined.
AmbiguousInv ==
    session \in ambiguous => reason = "set" /\ quarantined \in {session, 0}

\* Generations are counted up and never used again.
RecordInv == recordGen <= generation /\ \A p \in unrestored : p[2] # 0

\* A recovery that verified the session of the record's generation is not stale.
RecoveryInv ==
    \A t \in Threads :
      /\ claim[t] <= generation
      /\ call[t] = "reset" => pc[t] = "wait"
      /\ /\ call[t] = "reset" /\ proof[t] = "verified"
         /\ claim[t] = recordGen /\ recordSession = session
         => <<session, claim[t]>> \notin unrestored

\* What a scenario has left of the session has the record, unless that was
\* replaced, and it names the session or nothing.
Left(g) == <<session, g>> \in unrestored /\ g \notin overwritten
UnrestoredInv ==
    \A g \in Nat : Left(g) => recordGen = g /\ g # 0 /\ recordSession \in {session, 0}

Inv ==
    /\ TypeOK
    /\ LockInv
    /\ GateInv
    /\ SessionInv
    /\ AmbiguousInv
    /\ RecordInv
    /\ RecoveryInv
    /\ UnrestoredInv

\* The variables an action of Inside may change.
LEMMA InsideChanges ==
    ASSUME NEW t \in Threads, Inside(t)
    PROVE  UNCHANGED <<sessionVars, scenarioVars>>
BY DEF Inside, Write, Applied, ApplyRaises, Retry, ApplyTimesOut, AbortAcknowledged,
       AbortFails, Verify, RollBack, sessionVars, scenarioVars

\* Leaving a step keeps the types.
LEMMA LeaveType ==
    ASSUME TypeOK, NEW t \in Threads, Leave(t)
    PROVE  /\ pc' \in [Threads -> {"idle", "wait", "body", "sending", "sleep",
                                   "aborting", "verify", "rollback", "recover"}]
           /\ call' \in [Threads -> Calls \cup {"none", "connect", "reset"}]
           /\ stage' \in [Threads -> {"forward", "back"}]
           /\ attempt' \in [Threads -> 1..MaxAttempts]
           /\ claim' \in [Threads -> Nat]
           /\ proof' \in [Threads -> {"none", "verified", "session_reset"}]
           /\ pc'[t] = "idle" /\ call'[t] = "none"
           /\ claim'[t] = 0
           /\ \A u \in Threads \ {t} : pc'[u] = pc[u] /\ call'[u] = call[u]
           /\ \A u \in Threads \ {t} : claim'[u] = claim[u] /\ proof'[u] = proof[u]
BY BoundsAssumption DEF TypeOK, Leave, At

\* A step that fails keeps the types.
LEMMA FailsType ==
    ASSUME TypeOK, NEW t \in Threads, Fails(t)
    PROVE  /\ owner' \in Threads \cup {NoThread}
           /\ pc' \in [Threads -> {"idle", "wait", "body", "sending", "sleep",
                                   "aborting", "verify", "rollback", "recover"}]
           /\ call' \in [Threads -> Calls \cup {"none", "connect", "reset"}]
           /\ stage' \in [Threads -> {"forward", "back"}]
           /\ attempt' \in [Threads -> 1..MaxAttempts]
           /\ claim' \in [Threads -> Nat]
           /\ proof' \in [Threads -> {"none", "verified", "session_reset"}]
           /\ reason' \in {"none", "set"}
           /\ quarantined' \in Nat
           /\ ambiguous' \subseteq Nat
<1>1. CASE Return(t)
  <2>1. owner' = NoThread /\ Leave(t)
    BY <1>1 DEF Return
  <2>2. CASE QuarantineSession
    BY <2>1, <2>2, LeaveType DEF QuarantineSession, TypeOK
  <2>3. CASE UNCHANGED quarantineVars
    BY <2>1, <2>3, LeaveType DEF quarantineVars, TypeOK
  <2>. QED BY <1>1, <2>2, <2>3 DEF Fails, Return, Leave, At, TypeOK
<1>2. CASE /\ At(t, "rollback")
           /\ stage' = [stage EXCEPT ![t] = "back"]
           /\ UNCHANGED <<owner, call, attempt, claim, proof, quarantineVars>>
  BY <1>2 DEF At, TypeOK, quarantineVars
<1>. QED BY <1>1, <1>2 DEF Fails

\* Every step of every thread keeps the types.
LEMMA TypeStep == TypeOK /\ [Next]_vars => TypeOK'
<1> SUFFICES ASSUME TypeOK, [Next]_vars PROVE TypeOK'
    OBVIOUS
<1>0. CASE UNCHANGED vars
  BY <1>0 DEF TypeOK, vars, threadVars, sessionVars, scenarioVars, quarantineVars
<1>1. ASSUME NEW t \in Threads, Inside(t) PROVE TypeOK'
  <2>0. UNCHANGED <<session, made, replacement, recordGen, recordSession, generation,
                    unrestored, overwritten>>
    BY <1>1, InsideChanges DEF sessionVars, scenarioVars
  <2>1. CASE Fails(t)
    BY <2>0, <2>1, FailsType DEF TypeOK
  <2>2. CASE Return(t) /\ UNCHANGED quarantineVars
    BY <2>0, <2>2, LeaveType DEF TypeOK, Return, quarantineVars
  <2>3. CASE Write(t)
    BY <2>0, <2>1, <2>2, <2>3 DEF Write, At, TypeOK, quarantineVars
  <2>4. CASE Applied(t)
    BY <2>0, <2>2, <2>4 DEF Applied, At, TypeOK, quarantineVars
  <2>5. CASE ApplyRaises(t)
    <3>1. CASE attempt[t] < MaxAttempts /\ At(t, "sleep")
               /\ attempt' = [attempt EXCEPT ![t] = attempt[t] + 1]
               /\ owner' = (IF call[t] \in Transactions THEN owner ELSE NoThread)
               /\ UNCHANGED <<call, stage, claim, proof, quarantineVars>>
      <4>1. attempt[t] + 1 \in 1..MaxAttempts
        BY <3>1, BoundsAssumption DEF TypeOK
      <4>. QED BY <2>0, <3>1, <4>1 DEF At, TypeOK, quarantineVars
    <3>. QED BY <2>1, <2>5, <3>1 DEF ApplyRaises
  <2>6. CASE Retry(t)
    BY <2>0, <2>6 DEF Retry, At, TypeOK, quarantineVars
  <2>7. CASE ApplyTimesOut(t)
    BY <2>0, <2>7 DEF ApplyTimesOut, At, TypeOK, quarantineVars
  <2>8. CASE AbortAcknowledged(t)
    BY <2>1, <2>8 DEF AbortAcknowledged
  <2>9. CASE AbortFails(t)
    <3>1. reason' \in {"none", "set"} /\ quarantined' \in Nat /\ ambiguous' \subseteq Nat
      BY <2>9 DEF AbortFails, QuarantineSession, TypeOK
    <3>2. CASE Return(t)
      BY <2>0, <3>1, <3>2, LeaveType DEF TypeOK, Return
    <3>3. CASE At(t, "rollback") /\ stage' = [stage EXCEPT ![t] = "back"]
               /\ UNCHANGED <<owner, call, attempt, claim, proof>>
      BY <2>0, <3>1, <3>3 DEF TypeOK, At
    <3>. QED BY <2>9, <3>2, <3>3 DEF AbortFails
  <2>10. CASE Verify(t)
    BY <2>1, <2>2, <2>10 DEF Verify
  <2>11. CASE RollBack(t)
    BY <2>0, <2>2, <2>11, BoundsAssumption DEF RollBack, At, TypeOK, quarantineVars
  <2>. QED BY <1>1, <2>3, <2>4, <2>5, <2>6, <2>7, <2>8, <2>9, <2>10, <2>11 DEF Inside
<1>2. ASSUME NEW t \in Threads, NEW c \in Calls, Begin(t, c) PROVE TypeOK'
  BY <1>2 DEF Begin, At, TypeOK, sessionVars, scenarioVars, quarantineVars
<1>3. ASSUME NEW t \in Threads, Enter(t) PROVE TypeOK'
  <2>1. CASE Leave(t) /\ UNCHANGED owner
    BY <1>3, <2>1, LeaveType DEF Enter, TypeOK, sessionVars, scenarioVars, quarantineVars
  <2>2. CASE /\ owner' = t
             /\ At(t, IF call[t] \in Transactions THEN "body" ELSE "sending")
             /\ UNCHANGED <<call, stage, attempt, claim, proof>>
    BY <1>3, <2>2 DEF Enter, At, TypeOK, sessionVars, scenarioVars, quarantineVars
  <2>. QED BY <1>3, <2>1, <2>2 DEF Enter
<1>4. ASSUME NEW t \in Threads, Attach(t) PROVE TypeOK'
  BY <1>4 DEF Attach, At, TypeOK, scenarioVars, quarantineVars
<1>5. ASSUME NEW t \in Threads, Install(t) PROVE TypeOK'
  BY <1>5, LeaveType DEF Install, TypeOK, scenarioVars
<1>6. ASSUME NEW t \in Threads, QuarantineScenario(t) PROVE TypeOK'
  BY <1>6 DEF QuarantineScenario, TypeOK, threadVars, sessionVars, quarantineVars
<1>7. ASSUME NEW t \in Threads, ReadRecord(t) PROVE TypeOK'
  BY <1>7 DEF ReadRecord, At, TypeOK, sessionVars, scenarioVars, quarantineVars
<1>8. ASSUME NEW t \in Threads, Recover(t) PROVE TypeOK'
  BY <1>8 DEF Recover, At, TypeOK, sessionVars, quarantineVars
<1>9. ASSUME NEW t \in Threads, ResetScenario(t) PROVE TypeOK'
  BY <1>9, LeaveType DEF ResetScenario, TypeOK, sessionVars, quarantineVars
<1>. QED BY <1>0, <1>1, <1>2, <1>3, <1>4, <1>5, <1>6, <1>7, <1>8, <1>9 DEF Next, Outside

\* A step leaves the locals of the other threads alone.
LEMMA InsideOthers ==
    ASSUME TypeOK, NEW t \in Threads, Inside(t)
    PROVE  /\ \A u \in Threads \ {t} : pc'[u] = pc[u] /\ call'[u] = call[u]
           /\ \A u \in Threads \ {t} : claim'[u] = claim[u] /\ proof'[u] = proof[u]
           /\ claim'[t] \in {claim[t], 0} /\ call'[t] \in {call[t], "none"}
<1>1. CASE Leave(t)
  BY <1>1, LeaveType
<1>2. ASSUME NEW w, At(t, w), UNCHANGED <<call, claim, proof>>
      PROVE  /\ \A u \in Threads \ {t} : pc'[u] = pc[u] /\ call'[u] = call[u]
             /\ \A u \in Threads \ {t} : claim'[u] = claim[u] /\ proof'[u] = proof[u]
             /\ claim'[t] \in {claim[t], 0} /\ call'[t] \in {call[t], "none"}
  BY <1>2 DEF At, TypeOK
<1>3. CASE Fails(t)
  BY <1>1, <1>2, <1>3 DEF Fails, Return
<1>4. CASE Write(t) \/ Verify(t) \/ AbortAcknowledged(t)
  BY <1>1, <1>2, <1>3, <1>4 DEF Write, Verify, AbortAcknowledged, Return
<1>5. CASE Applied(t) \/ ApplyRaises(t)
  BY <1>1, <1>2, <1>3, <1>5 DEF Applied, ApplyRaises, Return
<1>6. CASE Retry(t) \/ ApplyTimesOut(t) \/ AbortFails(t) \/ RollBack(t)
  BY <1>1, <1>2, <1>6 DEF Retry, ApplyTimesOut, AbortFails, RollBack, Return
<1>. QED BY <1>3, <1>4, <1>5, <1>6 DEF Inside

\* A thread inside goes on in the lock or leaves it; or it was asleep outside.
LEMMA InsideLock ==
    ASSUME TypeOK, LockInv, NEW t \in Threads, Inside(t)
    PROVE  \/ owner = t /\ owner' = t /\ Holds(t)'
           \/ owner = t /\ owner' = NoThread /\ ~Holds(t)'
           \/ owner # t /\ owner' = owner /\ ~Holds(t)' /\ ~Holds(t)
<1> DEFINE Goal == \/ owner = t /\ owner' = t /\ Holds(t)'
                   \/ owner = t /\ owner' = NoThread /\ ~Holds(t)'
                   \/ owner # t /\ owner' = owner /\ ~Holds(t)' /\ ~Holds(t)
<1>0. Holds(t) <=> owner = t
  BY DEF LockInv
<1>1. ASSUME Holds(t), Return(t) PROVE Goal
  BY <1>0, <1>1, LeaveType DEF Return, Holds
<1>2. ASSUME Holds(t), NEW w \in {"body", "sending", "aborting", "verify", "rollback"},
             At(t, w), UNCHANGED owner
      PROVE Goal
  BY <1>0, <1>2 DEF At, Holds, TypeOK
<1>3. ASSUME Holds(t), Fails(t) PROVE Goal
  BY <1>1, <1>2, <1>3 DEF Fails
<1>4. ASSUME pc[t] \in {"body", "sending", "aborting", "verify", "rollback"}
      PROVE  Holds(t)
  BY <1>4 DEF Holds
<1>5. CASE Write(t) \/ Verify(t) \/ AbortAcknowledged(t) \/ Applied(t)
  BY <1>1, <1>2, <1>3, <1>4, <1>5 DEF Write, Verify, AbortAcknowledged, Applied
<1>6. CASE ApplyTimesOut(t) \/ AbortFails(t) \/ RollBack(t)
  BY <1>1, <1>2, <1>4, <1>6 DEF ApplyTimesOut, AbortFails, RollBack
<1>7. CASE ApplyRaises(t)
  <2>1. Holds(t)
    BY <1>4, <1>7 DEF ApplyRaises
  <2>2. CASE At(t, "sleep") /\ UNCHANGED call
             /\ owner' = (IF call[t] \in Transactions THEN owner ELSE NoThread)
    <3>1. pc'[t] = "sleep" /\ call'[t] = call[t]
      BY <2>2 DEF At, TypeOK
    <3>. QED BY <1>0, <2>1, <2>2, <3>1 DEF Holds
  <2>. QED BY <1>3, <1>7, <2>1, <2>2 DEF ApplyRaises
<1>8. CASE Retry(t)
  <2>1. pc[t] = "sleep" /\ call'[t] = call[t] /\ owner' = owner
        /\ pc'[t] = (IF call[t] \in Transactions THEN "sending" ELSE "wait")
    BY <1>8 DEF Retry, At, TypeOK
  <2>. QED BY <1>0, <2>1 DEF Holds
<1>. QED BY <1>5, <1>6, <1>7, <1>8 DEF Inside

\* Outside the lock, a thread that takes it finds it free and no quarantine.
LEMMA OutsideLock ==
    ASSUME TypeOK, LockInv, NEW t \in Threads, Outside(t)
    PROVE  /\ \A u \in Threads \ {t} : pc'[u] = pc[u] /\ call'[u] = call[u]
           /\ owner # t /\ ~Holds(t)
           /\ \/ owner' = owner /\ pc'[t] \in {"idle", "wait", "recover"}
              \/ owner = NoThread /\ owner' = t /\ ~Refused /\ Enter(t)
                 /\ pc'[t] \in {"body", "sending"}
<1>0. ASSUME pc[t] \in {"idle", "wait", "recover"} PROVE owner # t /\ ~Holds(t)
  BY <1>0 DEF LockInv, Holds
<1>1. CASE Leave(t) /\ UNCHANGED owner /\ pc[t] \in {"idle", "wait", "recover"}
  BY <1>0, <1>1, LeaveType
<1>2. ASSUME NEW c \in Calls, Begin(t, c)
      PROVE  /\ \A u \in Threads \ {t} : pc'[u] = pc[u] /\ call'[u] = call[u]
             /\ pc'[t] = "wait" /\ owner' = owner /\ pc[t] = "idle"
  BY <1>2 DEF Begin, At, TypeOK
<1>3. CASE Enter(t)
  <2>1. CASE Leave(t) /\ UNCHANGED owner
    BY <1>1, <1>3, <2>1 DEF Enter
  <2>2. CASE /\ ~Refused
             /\ owner' = t
             /\ At(t, IF call[t] \in Transactions THEN "body" ELSE "sending")
             /\ UNCHANGED <<call, stage, attempt, claim, proof>>
    <3>1. /\ \A u \in Threads \ {t} : pc'[u] = pc[u] /\ call'[u] = call[u]
          /\ pc'[t] \in {"body", "sending"}
      BY <2>2 DEF At, TypeOK
    <3>. QED BY <1>0, <1>3, <2>2, <3>1 DEF Enter
  <2>. QED BY <1>3, <2>1, <2>2 DEF Enter
<1>4. CASE Attach(t) \/ ReadRecord(t) \/ Recover(t)
  <2>1. /\ \A u \in Threads \ {t} : pc'[u] = pc[u] /\ call'[u] = call[u]
        /\ owner' = owner /\ pc'[t] \in {"idle", "wait", "recover"}
        /\ pc[t] \in {"idle", "wait", "recover"}
    BY <1>4 DEF Attach, ReadRecord, Recover, At, TypeOK
  <2>. QED BY <1>0, <2>1
<1>5. CASE Install(t)
  BY <1>1, <1>5 DEF Install
<1>6. CASE ResetScenario(t)
  BY <1>1, <1>6 DEF ResetScenario
<1>7. CASE QuarantineScenario(t)
  BY <1>0, <1>7 DEF QuarantineScenario, threadVars
<1>. QED BY <1>0, <1>2, <1>3, <1>4, <1>5, <1>6, <1>7 DEF Outside

\* In every step a thread is in the lock exactly when it is the owner.
LEMMA LockStep == TypeOK /\ LockInv /\ [Next]_vars => LockInv'
<1> SUFFICES ASSUME TypeOK, LockInv, [Next]_vars PROVE LockInv'
    OBVIOUS
<1>0. CASE UNCHANGED vars
  BY <1>0 DEF LockInv, Holds, vars, threadVars
<1>1. ASSUME NEW t \in Threads, Inside(t) PROVE LockInv'
  <2>1. \A u \in Threads \ {t} : Holds(u)' <=> Holds(u)
    BY <1>1, InsideOthers DEF Holds
  <2>. QED BY <1>1, <2>1, InsideLock, ThreadsAssumption DEF LockInv
<1>2. ASSUME NEW t \in Threads, Outside(t) PROVE LockInv'
  <2>1. \A u \in Threads \ {t} : Holds(u)' <=> Holds(u)
    BY <1>2, OutsideLock DEF Holds
  <2>2. owner' = owner /\ pc'[t] \in {"idle", "wait", "recover"} => ~Holds(t)'
    BY DEF Holds
  <2>3. pc'[t] \in {"body", "sending"} => Holds(t)'
    BY DEF Holds
  <2>. QED BY <1>2, <2>1, <2>2, <2>3, OutsideLock, ThreadsAssumption DEF LockInv
<1>. QED BY <1>0, <1>1, <1>2 DEF Next

\* Only a thread in the lock quarantines, and it applies nothing more by then.
LEMMA InsideQuarantine ==
    ASSUME TypeOK, NEW t \in Threads, Inside(t)
    PROVE  \/ UNCHANGED <<reason, quarantined, ambiguous>>
           \/ Holds(t) /\ QuarantineSession /\ ~Applies(t)'
<1>1. ASSUME Return(t) PROVE ~Applies(t)'
  BY <1>1, LeaveType DEF Return, Applies
<1>2. ASSUME Fails(t)
      PROVE  \/ UNCHANGED <<reason, quarantined, ambiguous>>
             \/ QuarantineSession /\ ~Applies(t)'
  BY <1>1, <1>2 DEF Fails, quarantineVars
<1>3. CASE Write(t) \/ Verify(t) \/ AbortAcknowledged(t) \/ ApplyRaises(t)
  <2>1. Holds(t)
    BY <1>3 DEF Write, Verify, AbortAcknowledged, ApplyRaises, Holds
  <2>. QED BY <1>2, <1>3, <2>1 DEF Write, Verify, AbortAcknowledged, ApplyRaises,
                                  quarantineVars
<1>4. CASE Applied(t) \/ Retry(t) \/ ApplyTimesOut(t) \/ RollBack(t)
  BY <1>4 DEF Applied, Retry, ApplyTimesOut, RollBack, quarantineVars
<1>5. CASE AbortFails(t)
  <2>1. Holds(t) /\ QuarantineSession
    BY <1>5 DEF AbortFails, Holds
  <2>2. CASE At(t, "rollback")
    <3>1. pc'[t] = "rollback"
      BY <2>2 DEF At, TypeOK
    <3>. QED BY <2>1, <3>1 DEF Applies
  <2>. QED BY <1>1, <1>5, <2>1, <2>2 DEF AbortFails
<1>. QED BY <1>3, <1>4, <1>5 DEF Inside

\* A thread that goes on to apply changes was doing so or has looked again.
LEMMA InsideApplies ==
    ASSUME TypeOK, NEW t \in Threads, Inside(t), Applies(t)'
    PROVE  Applies(t) \/ ~Refused
<1>1. ASSUME Return(t) PROVE ~Applies(t)'
  BY <1>1, LeaveType DEF Return, Applies
<1>2. ASSUME pc[t] \in {"body", "sending", "aborting"} PROVE Applies(t)
  BY <1>2 DEF Applies
<1>3. ASSUME At(t, "rollback") PROVE ~Applies(t)'
  <2>1. pc'[t] = "rollback"
    BY <1>3 DEF At, TypeOK
  <2>. QED BY <2>1 DEF Applies
<1>4. CASE Write(t) \/ Applied(t) \/ ApplyRaises(t) \/ ApplyTimesOut(t)
           \/ AbortAcknowledged(t) \/ AbortFails(t)
  BY <1>2, <1>4 DEF Write, Applied, ApplyRaises, ApplyTimesOut, AbortAcknowledged,
                    AbortFails
<1>5. CASE Verify(t)
  BY <1>1, <1>3, <1>5 DEF Verify, Fails
<1>6. CASE RollBack(t)
  BY <1>1, <1>6 DEF RollBack
<1>7. CASE Retry(t)
  <2>1. pc[t] = "sleep"
        /\ pc'[t] = (IF call[t] \in Transactions THEN "sending" ELSE "wait")
    BY <1>7 DEF Retry, At, TypeOK
  <2>. QED BY <2>1 DEF Applies
<1>. QED BY <1>4, <1>5, <1>6, <1>7 DEF Inside

\* No step lets a thread apply changes under a quarantine.
LEMMA GateStep == TypeOK /\ LockInv /\ GateInv /\ [Next]_vars => GateInv'
<1> SUFFICES ASSUME TypeOK, LockInv, GateInv, [Next]_vars,
                    NEW u \in Threads, Applies(u)'
             PROVE  ~Refused'
    BY DEF GateInv
<1>0. CASE UNCHANGED vars
  BY <1>0 DEF GateInv, Applies, Refused, vars, threadVars, scenarioVars, quarantineVars
<1>1. ASSUME NEW t \in Threads, Inside(t) PROVE ~Refused'
  <2>1. recordGen' = recordGen
    BY <1>1, InsideChanges DEF scenarioVars
  <2>2. CASE u = t
    BY <1>1, <2>1, <2>2, InsideApplies, InsideQuarantine DEF GateInv, Refused
  <2>3. CASE u # t
    <3>1. Applies(u) /\ Holds(u)
      BY <1>1, <2>3, InsideOthers DEF Applies, Holds
    <3>2. ~Holds(t)
      BY <2>3, <3>1 DEF LockInv
    <3>. QED BY <1>1, <2>1, <3>1, <3>2, InsideQuarantine DEF GateInv, Refused
  <2>. QED BY <2>2, <2>3
<1>2. ASSUME NEW t \in Threads, Outside(t) PROVE ~Refused'
  <2>1. CASE u = t
    <3>1. Enter(t) /\ ~Refused
      BY <1>2, <2>1, OutsideLock DEF Applies
    <3>. QED BY <3>1 DEF Enter, Refused, scenarioVars, quarantineVars
  <2>2. CASE u # t
    <3>1. Applies(u) /\ Holds(u)
      BY <1>2, <2>2, OutsideLock DEF Applies, Holds
    <3>2. owner = u /\ owner # NoThread /\ ~Refused
      BY <3>1, ThreadsAssumption DEF LockInv, GateInv
    <3>3. UNCHANGED <<reason, recordGen>>
      BY <1>2, <3>2 DEF Outside, Begin, Enter, Attach, Install, QuarantineScenario,
         ReadRecord, Recover, ResetScenario, scenarioVars, quarantineVars
    <3>. QED BY <3>2, <3>3 DEF Refused
  <2>. QED BY <2>1, <2>2
<1>. QED BY <1>0, <1>1, <1>2 DEF Next

\* Sessions stay in the order in which they were made.
LEMMA SessionStep == TypeOK /\ SessionInv /\ [Next]_vars => SessionInv'
<1> SUFFICES ASSUME TypeOK, SessionInv, [Next]_vars PROVE SessionInv'
    OBVIOUS
<1>0. CASE UNCHANGED vars
  BY <1>0 DEF SessionInv, vars, threadVars, sessionVars, scenarioVars, quarantineVars
<1>1. ASSUME NEW t \in Threads, Inside(t) PROVE SessionInv'
  <2>1. UNCHANGED <<session, made, replacement, recordSession, unrestored>>
    BY <1>1, InsideChanges DEF sessionVars, scenarioVars
  <2>2. \A u \in Threads : call'[u] = "connect" => call[u] = "connect"
    BY <1>1, InsideOthers
  <2>3. \A s \in ambiguous' : s \in ambiguous \/ s = session
    BY <1>1, InsideQuarantine DEF QuarantineSession
  <2>4. session <= session
    BY DEF TypeOK
  <2>5. \A s \in ambiguous' : s <= session'
    BY <2>1, <2>3, <2>4 DEF SessionInv
  <2>. QED BY <2>1, <2>2, <2>5, ThreadsAssumption DEF SessionInv
<1>2. ASSUME NEW t \in Threads, NEW c \in Calls, Begin(t, c) PROVE SessionInv'
  <2>1. \A u \in Threads : call'[u] = "connect" => call[u] = "connect"
    BY <1>2 DEF Begin, Calls, Transactions, TypeOK
  <2>2. UNCHANGED <<session, made, replacement, recordSession, unrestored, ambiguous>>
    BY <1>2 DEF Begin, sessionVars, scenarioVars, quarantineVars
  <2>. QED BY <2>1, <2>2, ThreadsAssumption DEF SessionInv
<1>3. ASSUME NEW t \in Threads, Enter(t) PROVE SessionInv'
  <2>1. \A u \in Threads : call'[u] = "connect" => call[u] = "connect"
    BY <1>3, LeaveType DEF Enter
  <2>2. UNCHANGED <<session, made, replacement, recordSession, unrestored, ambiguous>>
    BY <1>3 DEF Enter, sessionVars, scenarioVars, quarantineVars
  <2>. QED BY <2>1, <2>2, ThreadsAssumption DEF SessionInv
<1>4. ASSUME NEW t \in Threads, Attach(t) PROVE SessionInv'
  <2>1. \A u \in Threads : call'[u] = "connect" => call[u] = "connect" \/ u = Connector
    BY <1>4 DEF Attach, TypeOK
  <2>2. UNCHANGED <<session, recordSession, unrestored, ambiguous>>
    BY <1>4 DEF Attach, scenarioVars, quarantineVars
  <2>3. session <= replacement' /\ replacement' <= made' /\ made <= made'
    BY <1>4 DEF Attach, SessionInv, TypeOK
  <2>. QED BY <2>1, <2>2, <2>3, TypeStep DEF SessionInv, TypeOK
<1>5. ASSUME NEW t \in Threads, Install(t) PROVE SessionInv'
  <2>1. \A u \in Threads : call'[u] = "connect" => call[u] = "connect" /\ u # t
    BY <1>5, LeaveType DEF Install
  <2>2. session' = replacement
        /\ UNCHANGED <<made, replacement, recordSession, unrestored, ambiguous>>
    BY <1>5 DEF Install, scenarioVars
  <2>3. t = Connector /\ session <= replacement
    BY <1>5 DEF Install, SessionInv
  <2>. QED BY <2>1, <2>2, <2>3 DEF SessionInv, TypeOK
<1>6. ASSUME NEW t \in Threads, QuarantineScenario(t) PROVE SessionInv'
  BY <1>6 DEF QuarantineScenario, SessionInv, TypeOK, threadVars, sessionVars,
     quarantineVars
<1>7. ASSUME NEW t \in Threads, ReadRecord(t) PROVE SessionInv'
  BY <1>7 DEF ReadRecord, SessionInv, sessionVars, scenarioVars, quarantineVars
<1>8. ASSUME NEW t \in Threads, Recover(t) PROVE SessionInv'
  <2>1. \A u \in Threads : call'[u] = "connect" => call[u] = "connect"
    BY <1>8 DEF Recover, TypeOK
  <2>2. UNCHANGED <<session, made, replacement, recordSession, ambiguous>>
        /\ unrestored' \subseteq unrestored
    BY <1>8 DEF Recover, sessionVars, quarantineVars
  <2>. QED BY <2>1, <2>2, ThreadsAssumption DEF SessionInv
<1>9. ASSUME NEW t \in Threads, ResetScenario(t) PROVE SessionInv'
  <2>1. \A u \in Threads : call'[u] = "connect" => call[u] = "connect"
    BY <1>9, LeaveType DEF ResetScenario
  <2>2. UNCHANGED <<session, made, replacement, ambiguous, unrestored>>
        /\ recordSession' \in {recordSession, 0}
    BY <1>9 DEF ResetScenario, sessionVars, quarantineVars
  <2>. QED BY <2>1, <2>2, ThreadsAssumption DEF SessionInv, TypeOK
<1>. QED BY <1>0, <1>1, <1>2, <1>3, <1>4, <1>5, <1>6, <1>7, <1>8, <1>9 DEF Next, Outside

\* No step lifts the quarantine of an ambiguous session.
LEMMA AmbiguousStep ==
    TypeOK /\ SessionInv /\ AmbiguousInv /\ [Next]_vars => AmbiguousInv'
<1> SUFFICES ASSUME TypeOK, SessionInv, AmbiguousInv, [Next]_vars PROVE AmbiguousInv'
    OBVIOUS
<1>0. CASE UNCHANGED <<session, reason, quarantined, ambiguous>>
  BY <1>0 DEF AmbiguousInv
<1>1. ASSUME NEW t \in Threads, Inside(t) PROVE AmbiguousInv'
  <2>1. session' = session
    BY <1>1, InsideChanges DEF sessionVars
  <2>. QED BY <1>1, <2>1, InsideQuarantine DEF QuarantineSession, AmbiguousInv
<1>2. ASSUME NEW t \in Threads, Install(t) PROVE AmbiguousInv'
  <2>1. session <= session' /\ session' = replacement /\ ambiguous' = ambiguous
    BY <1>2 DEF Install, SessionInv
  <2>2. CASE session' = session
    BY <1>2, <2>1, <2>2 DEF Install, AmbiguousInv, TypeOK
  <2>3. CASE session' # session
    BY <2>1, <2>3 DEF SessionInv, AmbiguousInv, TypeOK
  <2>. QED BY <2>2, <2>3
<1>3. ASSUME NEW t \in Threads, Outside(t), ~Install(t) PROVE AmbiguousInv'
  BY <1>0, <1>3 DEF Outside, Begin, Enter, Attach, QuarantineScenario, ReadRecord,
     Recover, ResetScenario, sessionVars, quarantineVars
<1>4. CASE UNCHANGED vars
  BY <1>0, <1>4 DEF vars, sessionVars, quarantineVars
<1>. QED BY <1>1, <1>2, <1>3, <1>4 DEF Next

\* No step drops the record of an unrestored session.
LEMMA UnrestoredStep ==
    TypeOK /\ SessionInv /\ RecoveryInv /\ UnrestoredInv /\ [Next]_vars => UnrestoredInv'
<1> SUFFICES ASSUME TypeOK, SessionInv, RecoveryInv, UnrestoredInv, [Next]_vars
             PROVE  UnrestoredInv'
    OBVIOUS
<1>0. CASE UNCHANGED <<session, recordGen, recordSession, unrestored, overwritten>>
  BY <1>0 DEF UnrestoredInv, Left
<1>1. ASSUME NEW t \in Threads, Inside(t) PROVE UnrestoredInv'
  BY <1>0, <1>1, InsideChanges DEF sessionVars, scenarioVars
<1>2. ASSUME NEW t \in Threads, Install(t) PROVE UnrestoredInv'
  <2>1. session <= session'
        /\ UNCHANGED <<recordGen, recordSession, unrestored, overwritten>>
    BY <1>2 DEF Install, SessionInv, scenarioVars
  <2>2. CASE session' = session
    BY <1>0, <2>1, <2>2
  <2>3. CASE session' # session
    <3>1. \A g \in Nat : <<session', g>> \notin unrestored
      <4> SUFFICES ASSUME NEW g \in Nat, <<session', g>> \in unrestored PROVE FALSE
        OBVIOUS
      <4>1. session' <= session
        BY DEF SessionInv
      <4>. QED BY <2>1, <2>3, <4>1, TypeStep DEF TypeOK
    <3>. QED BY <2>1, <3>1 DEF UnrestoredInv, Left
  <2>. QED BY <2>2, <2>3
<1>3. ASSUME NEW t \in Threads, QuarantineScenario(t) PROVE UnrestoredInv'
  <2> SUFFICES ASSUME NEW g \in Nat, Left(g)'
               PROVE  recordGen' = g /\ g # 0 /\ recordSession' \in {session', 0}
    BY DEF UnrestoredInv
  <2>1. /\ session' = session
        /\ recordGen' = generation + 1 /\ recordSession' \in {session, 0}
        /\ unrestored' = unrestored \cup {<<session, generation + 1>>}
        /\ overwritten' = overwritten \cup ({recordGen} \ {0})
    BY <1>3 DEF QuarantineScenario, sessionVars
  <2>2. <<session, g>> \in unrestored' /\ g \notin overwritten'
    BY <2>1 DEF Left
  <2>3. CASE <<session, g>> \in unrestored
    BY <2>1, <2>2, <2>3 DEF UnrestoredInv, Left
  <2>4. CASE <<session, g>> = <<session, generation + 1>>
    BY <2>1, <2>4 DEF TypeOK
  <2>. QED BY <2>1, <2>2, <2>3, <2>4
<1>4. ASSUME NEW t \in Threads, Recover(t) PROVE UnrestoredInv'
  <2>1. /\ UNCHANGED <<session, recordGen, recordSession, overwritten>>
        /\ unrestored' \subseteq unrestored
    BY <1>4 DEF Recover, sessionVars
  <2>. QED BY <2>1 DEF UnrestoredInv, Left
<1>5. ASSUME NEW t \in Threads, ResetScenario(t) PROVE UnrestoredInv'
  <2>1. UNCHANGED <<session, unrestored, overwritten>>
    BY <1>5 DEF ResetScenario, sessionVars
  <2>2. CASE ResetAllowed(t)
    <3>1. \A g \in Nat : ~Left(g)
      BY <1>5, <2>2 DEF ResetScenario, ResetAllowed, RecoveryInv, UnrestoredInv, Left
    <3>. QED BY <2>1, <3>1 DEF UnrestoredInv, Left
  <2>3. CASE ~ResetAllowed(t)
    BY <1>0, <1>5, <2>1, <2>3 DEF ResetScenario
  <2>. QED BY <2>2, <2>3
<1>6. ASSUME NEW t \in Threads, NEW c \in Calls, Begin(t, c) PROVE UnrestoredInv'
  BY <1>0, <1>6 DEF Begin, sessionVars, scenarioVars
<1>7. ASSUME NEW t \in Threads, Enter(t) \/ Attach(t) \/ ReadRecord(t)
      PROVE  UnrestoredInv'
  BY <1>0, <1>7 DEF Enter, Attach, ReadRecord, sessionVars, scenarioVars
<1>8. CASE UNCHANGED vars
  BY <1>0, <1>8 DEF vars, sessionVars, scenarioVars
<1>. QED BY <1>1, <1>2, <1>3, <1>4, <1>5, <1>6, <1>7, <1>8 DEF Next, Outside

\* Generations are counted up.
LEMMA RecordStep == TypeOK /\ RecordInv /\ [Next]_vars => RecordInv'
<1> SUFFICES ASSUME TypeOK, RecordInv, [Next]_vars PROVE RecordInv'
    OBVIOUS
<1>0. CASE UNCHANGED <<recordGen, generation>> /\ unrestored' \subseteq unrestored
  BY <1>0 DEF RecordInv
<1>1. ASSUME NEW t \in Threads, Inside(t) PROVE RecordInv'
  BY <1>0, <1>1, InsideChanges DEF scenarioVars
<1>2. ASSUME NEW t \in Threads, QuarantineScenario(t) PROVE RecordInv'
  BY <1>2 DEF QuarantineScenario, RecordInv, TypeOK
<1>3. ASSUME NEW t \in Threads, ResetScenario(t) PROVE RecordInv'
  BY <1>0, <1>3 DEF ResetScenario, RecordInv, TypeOK
<1>4. ASSUME NEW t \in Threads, Outside(t) PROVE RecordInv'
  BY <1>0, <1>2, <1>3, <1>4 DEF Outside, Begin, Enter, Attach, Install, ReadRecord,
     Recover, scenarioVars
<1>5. CASE UNCHANGED vars
  BY <1>0, <1>5 DEF vars, scenarioVars
<1>. QED BY <1>1, <1>4, <1>5 DEF Next

\* No step makes a verified recovery of the record's generation stale.
LEMMA RecoveryStep ==
    /\ TypeOK /\ SessionInv /\ RecordInv /\ RecoveryInv /\ UnrestoredInv
    /\ [Next]_vars
    => RecoveryInv'
<1> SUFFICES ASSUME TypeOK, SessionInv, RecordInv, RecoveryInv, UnrestoredInv, [Next]_vars,
                    NEW u \in Threads
             PROVE  /\ claim'[u] <= generation'
                    /\ call'[u] = "reset" => pc'[u] = "wait"
                    /\ /\ call'[u] = "reset" /\ proof'[u] = "verified"
                       /\ claim'[u] = recordGen' /\ recordSession' = session'
                       => <<session', claim'[u]>> \notin unrestored'
    BY DEF RecoveryInv
<1> DEFINE Goal == /\ claim'[u] <= generation'
                   /\ call'[u] = "reset" => pc'[u] = "wait"
                   /\ /\ call'[u] = "reset" /\ proof'[u] = "verified"
                      /\ claim'[u] = recordGen' /\ recordSession' = session'
                      => <<session', claim'[u]>> \notin unrestored'
           Same == /\ pc'[u] = pc[u] /\ call'[u] = call[u]
                   /\ claim'[u] = claim[u] /\ proof'[u] = proof[u]
           Ended == claim'[u] \in {claim[u], 0} /\ call'[u] # "reset"
<1>a. claim[u] \in Nat /\ generation \in Nat /\ claim[u] <= generation
  BY DEF TypeOK, RecoveryInv
<1>b. /\ call[u] = "reset" => pc[u] = "wait"
      /\ /\ call[u] = "reset" /\ proof[u] = "verified"
         /\ claim[u] = recordGen /\ recordSession = session
         => <<session, claim[u]>> \notin unrestored
  BY DEF RecoveryInv
<1>0. ASSUME UNCHANGED <<session, recordGen, recordSession, generation, unrestored>>,
             Same \/ Ended
      PROVE  Goal
  BY <1>0, <1>a, <1>b
<1>1. ASSUME NEW t \in Threads, Inside(t) PROVE Goal
  <2>1. UNCHANGED <<session, recordGen, recordSession, generation, unrestored>>
    BY <1>1, InsideChanges DEF sessionVars, scenarioVars
  <2>2. u # t => Same
    BY <1>1, InsideOthers
  <2>3. u = t => Ended
    <3>1. pc[t] # "wait"
      BY <1>1 DEF Inside, Write, Applied, ApplyRaises, Retry, ApplyTimesOut,
         AbortAcknowledged, AbortFails, Verify, RollBack
    <3>. QED BY <1>1, <1>b, <3>1, InsideOthers
  <2>. QED BY <1>0, <2>1, <2>2, <2>3
<1>2. ASSUME NEW t \in Threads, NEW c \in Calls, Begin(t, c) PROVE Goal
  <2>1. UNCHANGED <<session, recordGen, recordSession, generation, unrestored>>
    BY <1>2 DEF Begin, sessionVars, scenarioVars
  <2>2. Same \/ Ended
    BY <1>2 DEF Begin, At, TypeOK, Calls, Transactions
  <2>. QED BY <1>0, <2>1, <2>2
<1>3. ASSUME NEW t \in Threads, Enter(t) PROVE Goal
  <2>1. UNCHANGED <<session, recordGen, recordSession, generation, unrestored>>
    BY <1>3 DEF Enter, sessionVars, scenarioVars
  <2>2. CASE Leave(t)
    <3>1. Same \/ Ended
      BY <2>2, LeaveType
    <3>. QED BY <1>0, <2>1, <3>1
  <2>3. CASE At(t, IF call[t] \in Transactions THEN "body" ELSE "sending")
             /\ UNCHANGED <<call, stage, attempt, claim, proof>>
    <3>1. call[t] # "reset"
      BY <1>3 DEF Enter, Calls, Transactions
    <3>2. Same \/ Ended
      BY <2>3, <3>1 DEF At, TypeOK
    <3>. QED BY <1>0, <2>1, <3>2
  <2>. QED BY <1>3, <2>2, <2>3 DEF Enter
<1>4. ASSUME NEW t \in Threads, Attach(t) PROVE Goal
  <2>1. UNCHANGED <<session, recordGen, recordSession, generation, unrestored>>
    BY <1>4 DEF Attach, scenarioVars
  <2>2. Same \/ Ended
    BY <1>4 DEF Attach, At, TypeOK
  <2>. QED BY <1>0, <2>1, <2>2
<1>5. ASSUME NEW t \in Threads, Install(t) PROVE Goal
  <2>1. UNCHANGED <<recordGen, recordSession, generation, unrestored>>
        /\ session <= session'
    BY <1>5 DEF Install, SessionInv, scenarioVars
  <2>2. Same \/ Ended
    BY <1>5, LeaveType DEF Install
  <2>3. recordSession' = session' => session' = session
    BY <1>5, <2>1 DEF Install, SessionInv, TypeOK
  <2>. QED BY <1>a, <1>b, <2>1, <2>2, <2>3
<1>6. ASSUME NEW t \in Threads, QuarantineScenario(t) PROVE Goal
  <2>1. Same /\ generation' = generation + 1 /\ recordGen' = generation + 1
    BY <1>6 DEF QuarantineScenario, threadVars
  <2>. QED BY <1>a, <1>b, <2>1
<1>7. ASSUME NEW t \in Threads, ReadRecord(t) PROVE Goal
  <2>1. UNCHANGED <<session, recordGen, recordSession, generation, unrestored>>
    BY <1>7 DEF ReadRecord, sessionVars, scenarioVars
  <2>2. u # t => Same
    BY <1>7 DEF ReadRecord, At, TypeOK
  <2>3. u = t => claim'[u] = recordGen /\ call'[u] # "reset"
    BY <1>7, <1>b DEF ReadRecord, TypeOK
  <2>. QED BY <1>0, <1>a, <2>1, <2>2, <2>3 DEF RecordInv
<1>8. ASSUME NEW t \in Threads, Recover(t) PROVE Goal
  <2>1. UNCHANGED <<session, recordGen, recordSession, generation>> /\ claim' = claim
    BY <1>8 DEF Recover, sessionVars
  <2>2. u # t => Same /\ unrestored' \subseteq unrestored
    BY <1>8 DEF Recover, At, TypeOK
  <2>3. u = t => pc'[u] = "wait" /\ (proof'[u] = "verified" => <<session, claim[u]>> \notin unrestored')
    BY <1>8 DEF Recover, At, TypeOK
  <2>. QED BY <1>a, <1>b, <2>1, <2>2, <2>3
<1>9. ASSUME NEW t \in Threads, ResetScenario(t) PROVE Goal
  <2>1. UNCHANGED <<session, generation, unrestored>>
    BY <1>9 DEF ResetScenario, sessionVars
  <2>2. Same \/ Ended
    BY <1>9, LeaveType DEF ResetScenario
  <2>3. <<session', 0>> \notin unrestored'
    BY <2>1 DEF RecordInv
  <2>4. recordGen' = 0 \/ UNCHANGED <<recordGen, recordSession>>
    BY <1>9 DEF ResetScenario
  <2>5. CASE recordGen' = 0
    BY <1>a, <1>b, <2>1, <2>2, <2>3, <2>5
  <2>. QED BY <1>0, <2>1, <2>2, <2>4, <2>5
<1>10. CASE UNCHANGED vars
  BY <1>0, <1>10 DEF vars, threadVars, sessionVars, scenarioVars
<1>. QED BY <1>1, <1>2, <1>3, <1>4, <1>5, <1>6, <1>7, <1>8, <1>9, <1>10
         DEF Next, Outside

\* The inductive invariant, for any number of threads, sessions and scenarios.
THEOREM IxiaMutationInvariant == Spec => []Inv
<1>1. Init => Inv
  BY ThreadsAssumption, BoundsAssumption
     DEF Init, Inv, TypeOK, LockInv, Holds, GateInv, Applies, SessionInv, AmbiguousInv,
         RecordInv, RecoveryInv, UnrestoredInv, Left
<1>2. Inv /\ [Next]_vars => Inv'
  BY TypeStep, LockStep, GateStep, SessionStep, AmbiguousStep, RecordStep, RecoveryStep,
     UnrestoredStep DEF Inv
<1>. QED BY <1>1, <1>2, PTL DEF Spec

\* The client's state keeps its shape (the fields of Ixia.__init__).
THEOREM TypeCorrect == Spec => []TypeOK
<1>1. Inv => TypeOK
  BY DEF Inv
<1>. QED BY <1>1, IxiaMutationInvariant, PTL

\* assert_session_not_quarantined, asked at every attempt in the lock, keeps every
\* ApplyOnTheFly away from a session whose state nobody can tell.
THEOREM NoApplyToAmbiguousHolds == Spec => []NoApplyToAmbiguous
<1>1. Inv => NoApplyToAmbiguous
  BY DEF Inv, GateInv, Applies, Refused, AmbiguousInv, NoApplyToAmbiguous, InFlight
<1>. QED BY <1>1, IxiaMutationInvariant, PTL

\* The generation and the session identity reset_scenario_quarantine compares keep
\* every ApplyOnTheFly away from a session a scenario has left changed, as long as
\* the record of that scenario was not replaced by another one.
THEOREM NoApplyToUnrestoredHolds == Spec => []NoApplyToUnrestored
<1>1. Inv => NoApplyToUnrestored
  BY DEF Inv, GateInv, Applies, Refused, UnrestoredInv, Left, NoApplyToUnrestored,
         InFlight
<1>. QED BY <1>1, IxiaMutationInvariant, PTL

\* A mutation transaction has the session to itself: connect() and the applies of
\* other threads wait for _bounded_apply_lock.
THEOREM TransactionIsolatedHolds == Spec => TransactionIsolated
<1>1. ASSUME Inv, [Next]_vars, NEW t \in Threads, InTransaction(t)
      PROVE  session' = session /\ \A u \in Threads \ {t} : ~InFlight(u) /\ ~InFlight(u)'
  <2>0. owner = t /\ owner # NoThread
    BY <1>1, ThreadsAssumption DEF Inv, LockInv, Holds, InTransaction
  <2>1. LockInv'
    BY <1>1, LockStep DEF Inv
  <2>2. \A u \in Threads : (InFlight(u) => Holds(u)) /\ (InFlight(u)' => Holds(u)')
    BY DEF InFlight, Holds
  <2>3. owner' \in {t, NoThread}
    BY <1>1, <2>0, InsideLock, OutsideLock DEF Inv, Next, vars
  <2>4. session' = session
    <3>1. ASSUME NEW u \in Threads, Inside(u) PROVE session' = session
      BY <3>1, InsideChanges DEF sessionVars
    <3>2. ASSUME NEW u \in Threads, Outside(u) PROVE session' = session
      BY <2>0, <3>2 DEF Outside, Begin, Enter, Attach, Install, QuarantineScenario,
         ReadRecord, Recover, ResetScenario, sessionVars
    <3>. QED BY <1>1, <3>1, <3>2 DEF Next, vars, sessionVars
  <2>5. \A u \in Threads \ {t} : ~Holds(u) /\ ~Holds(u)'
    BY <1>1, <2>0, <2>1, <2>3, ThreadsAssumption DEF Inv, LockInv
  <2>. QED BY <2>2, <2>4, <2>5
<1>2. Inv /\ [Next]_vars =>
        [\A t \in Threads :
           InTransaction(t) =>
             /\ session' = session
             /\ \A u \in Threads \ {t} : ~InFlight(u) /\ ~InFlight(u)']_vars
  BY <1>1
<1>. QED BY <1>2, IxiaMutationInvariant, PTL DEF Spec, TransactionIsolated
=============================================================================
