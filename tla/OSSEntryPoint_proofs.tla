------------------------ MODULE OSSEntryPoint_proofs ------------------------
(***************************************************************************)
(* Theorems about OSSEntryPoint, for every list of configs and cells, every *)
(* number of retries and every set of exceptions.                          *)
(*                                                                         *)
(* BedInv relates the beds set up to the beds torn down at every place of  *)
(* main().  EarnedInv says that the exit code is still that of the results *)
(* once it is returned.  MarkedInv says which cells have a result at every *)
(* place of main(); it needs ResultInv, that a result is of a cell of its  *)
(* own config, and that no two configs share a cell (NoSharedCells): the   *)
(* check of main() for an earlier result does not look at the config, and  *)
(* with a shared cell RemainingMarked is violated.  CutInv says where the  *)
(* failed result of a config that was cut off is, or which of its cells is *)
(* still to be marked; it needs FreshInv, that cells to come have no       *)
(* result, and so that no cell occurs twice (CellsDiffer).                 *)
(***************************************************************************)
EXTENDS OSSEntryPoint, TLAPS, SequenceTheorems, WellFoundedInduction

\* The last bed set up may still be up; all others are torn down.
BedInv ==
    /\ setUp \ {config} \subseteq tornDown
    /\ pc \notin {"cell", "teardown"} => setUp \subseteq tornDown

\* Once it is returned, the exit code is the one of the results.
EarnedInv == pc = "done" => exit = ExitCode

\* A result is of a cell of its own config.
ResultInv ==
    \A i \in DOMAIN results :
        \E k \in DOMAIN Cells[results[i].config] :
            results[i].cell = Cells[results[i].config][k]

\* A cell of a config is in a list of results, and all cells of a config are.
Has(rs, c, x) == \E i \in DOMAIN rs : rs[i].config = c /\ rs[i].cell = x
AllMarked(rs, c) == \A k \in DOMAIN Cells[c] : Has(rs, c, Cells[c][k])

\* The lifecycle has not been left early yet, and before its first cell no cell
\* has been begun.
EntryInv ==
    /\ pc \in {"load", "construct", "setup", "cell"} => leaving = "none"
    /\ pc \in {"load", "construct", "setup"} => cell = 1 /\ attempt = 0

\* The cells that have a result: those of earlier configs, those before the
\* current one, and all once the lifecycle ended by itself or was marked.
MarkedInv ==
    /\ \A c \in Configs : c < config => AllMarked(results, c)
    /\ pc \in {"report", "done"} => config = Len(Cells) /\ AllMarked(results, config)
    /\ pc \in {"cell", "mark"} =>
         \A k \in 1..(cell - 1) : Has(results, config, Cells[config][k])
    /\ pc = "cell" /\ attempt > 0 => Has(results, config, Cells[config][cell])
    /\ pc \in {"teardown", "left_lifecycle"} /\ leaving = "none" =>
         AllMarked(results, config)

\* No two configs have a cell in common.
NoSharedCells ==
    \A c, d \in Configs : \A k \in DOMAIN Cells[c], l \in DOMAIN Cells[d] :
        Cells[c][k] = Cells[d][l] => c = d

\* Nor does a config have a cell twice.
CellsDiffer ==
    /\ NoSharedCells
    /\ \A c \in Configs : \A k, l \in DOMAIN Cells[c] :
         Cells[c][k] = Cells[c][l] => k = l

\* The configs and the cells to come have no results, and while a cell is retried
\* its first result is a failure.
FreshInv ==
    /\ \A i \in DOMAIN results : results[i].config <= config
    /\ pc \in {"load", "construct", "setup"} =>
         \A i \in DOMAIN results : results[i].config < config
    /\ pc = "cell" =>
         \A k \in cell..Len(Cells[config]) :
             attempt = 0 \/ k > cell => ~Has(results, config, Cells[config][k])
    /\ pc = "cell" /\ attempt > 0 =>
         results[original].config = config /\ Failed(results[original])

\* A config has a failed result, or a cell from the n-th on that has none.
HasFailed(rs, c) == \E i \in DOMAIN rs : rs[i].config = c /\ Failed(rs[i])
Unmarked(rs, c, n) ==
    \E k \in n..Len(Cells[c]) : ~Has(rs, c, Cells[c][k])

\* What is known of the configs that were cut off.
CutInv ==
    /\ \A c \in cut : c <= config
    /\ \A c \in cut : c < config => HasFailed(results, c)
    /\ pc \in {"load", "construct", "setup", "cell"} => config \notin cut
    /\ config \in cut /\ pc \in {"teardown", "left_lifecycle"} =>
         /\ leaving = "cancelled"
         /\ HasFailed(results, config) \/ Unmarked(results, config, 1)
    /\ config \in cut /\ pc = "mark" =>
         /\ leaving = "TimeoutError"
         /\ HasFailed(results, config) \/ Unmarked(results, config, cell)
    /\ config \in cut /\ pc \in {"report", "done"} => HasFailed(results, config)

(***************************************************************************)
(* Facts about the constants and the operators                             *)
(***************************************************************************)

\* A nonempty set of naturals has a least element.
LEMMA Least ==
    ASSUME NEW S \in SUBSET Nat, S # {}
    PROVE  \E x \in S : \A y \in S : x <= y
<1> DEFINE R == OpToRel(<, Nat)
<1>1. IsWellFoundedOn(R, Nat)
  BY NatLessThanWellFounded
<1>2. \A x, y \in Nat : x < y => <<x, y>> \in R
  BY DEF OpToRel
<1> HIDE DEF R
<1>3. PICK x \in S : \A y \in S : ~(<<y, x>> \in R)
  BY <1>1, WFMin
<1>4. \A y \in S : ~(y < x)
  BY <1>2, <1>3, Zenon
<1>5. \A y \in S : x <= y
  BY <1>4
<1> QED
  BY <1>5

\* Min of a nonempty set of naturals is its least element.
LEMMA MinIsLeast ==
    ASSUME NEW S \in SUBSET Nat, S # {}
    PROVE  Min(S) \in S /\ \A y \in S : Min(S) <= y
BY Least DEF Min

\* Max of a nonempty set of indices is one of them.
LEMMA MaxIsMember ==
    ASSUME NEW n \in Nat, NEW S \in SUBSET (1..n), S # {}
    PROVE  Max(S) \in S
<1> DEFINE T == {n - i : i \in S}
<1>1. T \in SUBSET Nat
  OBVIOUS
<1>2. T # {}
  <2>1. PICK i \in S : TRUE
    OBVIOUS
  <2>2. n - i \in T
    OBVIOUS
  <2> QED
    BY <2>2
<1>3. PICK m \in T : \A y \in T : m <= y
  BY <1>1, <1>2, Least
<1>4. PICK x \in S : m = n - x
  BY <1>3
<1>5. \A y \in S : n - x <= n - y
  BY <1>3, <1>4
<1>6. \A y \in S : x >= y
  BY <1>5
<1> QED
  BY <1>6 DEF Max

\* There is a config, every config has a cell, and they are counted from 1.
LEMMA CellFacts ==
    /\ Len(Cells) \in Nat \ {0}
    /\ Configs = 1..Len(Cells)
    /\ \A c \in Configs :
         /\ Len(Cells[c]) \in Nat \ {0}
         /\ DOMAIN Cells[c] = 1..Len(Cells[c])
         /\ \A k \in DOMAIN Cells[c] : Cells[c][k] \in AllCells
<1>1. Len(Cells) \in Nat \ {0} /\ Configs = 1..Len(Cells)
  BY CellsAssumption DEF Configs
<1>2. ASSUME NEW c \in Configs
      PROVE  /\ Len(Cells[c]) \in Nat \ {0}
             /\ DOMAIN Cells[c] = 1..Len(Cells[c])
             /\ \A k \in DOMAIN Cells[c] : Cells[c][k] \in AllCells
  <2>1. Cells[c] \in Seq(AllCells) /\ Cells[c] # <<>>
    BY CellsAssumption DEF Configs
  <2> QED
    BY <2>1
<1> QED
  BY <1>1, <1>2

\* The results of main().
ResultType ==
    [config : Configs, cell : AllCells, status : Statuses,
     flag : {"transient", "final"}]

\* classify_exception answers with a status and a flag.
LEMMA StatusType ==
    ASSUME NEW kind
    PROVE  Status(kind) \in Statuses /\ IsTransient(kind) \in {"transient", "final"}
BY DEF Status, Statuses, FailedStatuses, IsTransient

\* The result of execute_playbook is of the current cell.
LEMMA PlaybookResultType ==
    ASSUME TypeOK, NEW how, NEW kind
    PROVE  /\ PlaybookResult(how, kind) \in ResultType
           /\ PlaybookResult(how, kind).config = config
           /\ PlaybookResult(how, kind).cell = Cells[config][cell]
<1>1. Cells[config][cell] \in AllCells /\ config \in Configs
  BY CellFacts DEF TypeOK
<1>2. "PASSED" \in Statuses
  BY DEF Statuses
<1>3. CASE how = "pass"
  BY <1>1, <1>2, <1>3 DEF PlaybookResult, Result, ResultType
<1>4. CASE how # "pass"
  <2> DEFINE e == Escaping(how, kind)
  <2>1. Status(e) \in Statuses /\ IsTransient(e) \in {"transient", "final"}
    BY StatusType
  <2>2. PlaybookResult(how, kind) = Result(Cells[config][cell], Status(e), IsTransient(e))
    BY <1>4 DEF PlaybookResult
  <2> HIDE DEF e
  <2> QED
    BY <1>1, <2>1, <2>2 DEF Result, ResultType
<1> QED
  BY <1>3, <1>4

\* So is the result that marks a cell.
LEMMA MarkResultType ==
    ASSUME TypeOK
    PROVE  Result(Cells[config][cell], Status(leaving), IsTransient(leaving))
             \in ResultType
BY CellFacts, StatusType DEF TypeOK, Result, ResultType

\* The first question of get_exit_code that a result answers; only the last is
\* left to a result which did not fail.
LEMMA RankFacts ==
    ASSUME NEW r \in ResultType
    PROVE  Rank(r) \in 1..8 /\ (Rank(r) = 8 => ~Failed(r))
<1> DEFINE S == {n \in 1..8 : Check(n, r)}
<1>1. 8 \in S
  BY DEF Check
<1>2. Failed(r) => 7 \in S
  BY DEF Check
<1>3. S \in SUBSET Nat /\ S # {} /\ S \subseteq 1..8
  BY <1>1
<1>4. Rank(r) = Min(S)
  BY DEF Rank
<1> HIDE DEF S
<1>5. Min(S) \in S /\ \A y \in S : Min(S) <= y
  BY <1>3, MinIsLeast
<1>6. Rank(r) \in 1..8
  BY <1>3, <1>4, <1>5
<1>7. 7 \in S => Rank(r) # 8
  BY <1>4, <1>5
<1> QED
  BY <1>2, <1>6, <1>7, Zenon

\* get_exit_code returns a code, and SUCCESS only when no result failed.
LEMMA ExitCodeFacts ==
    ASSUME TypeOK
    PROVE  /\ ExitCode \in ExitCodes
           /\ ExitCode = "SUCCESS" => \A i \in DOMAIN results : ~Failed(results[i])
<1> DEFINE S == {Rank(results[i]) : i \in DOMAIN results}
<1>1. CASE results = <<>>
  BY <1>1 DEF ExitCode, ExitCodes
<1>2. CASE results # <<>>
  <2>1. \A i \in DOMAIN results : results[i] \in ResultType
    <3>1. results \in Seq(ResultType)
      BY DEF TypeOK, ResultType
    <3> QED
      BY <3>1
  <2>2. S \subseteq 1..8 /\ S \in SUBSET Nat
    BY <2>1, RankFacts
  <2>3. S # {}
    <3>1. 1 \in DOMAIN results
      BY <1>2 DEF TypeOK
    <3>2. Rank(results[1]) \in S
      BY <3>1
    <3> QED
      BY <3>2
  <2>4. Min(S) \in S /\ \A y \in S : Min(S) <= y
    <3> HIDE DEF S
    <3> QED
      BY <2>2, <2>3, MinIsLeast
  <2> DEFINE m == Min(S)
  <2>5. m \in 1..8 /\ ExitCode = CodeOfRank[m]
    BY <1>2, <2>2, <2>4 DEF ExitCode
  <2>6. \A i \in DOMAIN results : Rank(results[i]) >= m /\ Rank(results[i]) \in 1..8
    BY <2>1, <2>4, RankFacts
  <2> HIDE DEF m, S
  <2>7. CodeOfRank[m] \in ExitCodes /\ (CodeOfRank[m] = "SUCCESS" => m = 8)
    BY <2>5 DEF CodeOfRank, ExitCodes
  <2>8. m = 8 => \A i \in DOMAIN results : Rank(results[i]) = 8
    BY <2>6
  <2> QED
    BY <2>1, <2>5, <2>7, <2>8, RankFacts
<1> QED
  BY <1>1, <1>2

(***************************************************************************)
(* Types                                                                   *)
(***************************************************************************)

\* The first state is well typed.
LEMMA TypeInit == Init => TypeOK
<1> SUFFICES ASSUME Init PROVE TypeOK
  OBVIOUS
<1>1. config \in Configs /\ cell \in DOMAIN Cells[config]
  BY CellFacts DEF Init
<1>2. results = <<>> /\ original = 0 /\ attempt = 0
  BY DEF Init
<1>3. results \in Seq(ResultType) /\ original \in 0..Len(results)
  BY <1>2
<1> QED
  BY <1>1, <1>2, <1>3, RetryAssumption DEF Init, TypeOK, ResultType

\* What becomes of the list of results in a step: nothing, a new last one, or
\* also another status for the first result of a cell that was retried.
LEMMA ResultsStep ==
    ASSUME TypeOK, [Next]_vars
    PROVE  \/ results' = results
           \/ \E r \in ResultType :
                /\ r.config = config
                /\ r.cell = Cells[config][cell]
                /\ \/ results' = Append(results, r)
                   \/ /\ original \in DOMAIN results
                      /\ results' =
                           Append([results EXCEPT ![original].status = "RETRIED",
                                                  ![original].flag = "final"], r)
<1> DEFINE Goal ==
           \/ results' = results
           \/ \E r \in ResultType :
                /\ r.config = config
                /\ r.cell = Cells[config][cell]
                /\ \/ results' = Append(results, r)
                   \/ /\ original \in DOMAIN results
                      /\ results' =
                           Append([results EXCEPT ![original].status = "RETRIED",
                                                  ![original].flag = "final"], r)
<1>1. ASSUME NEW how, NEW kind, PlaybookEnds(how, kind) PROVE Goal
  <2> DEFINE r == PlaybookResult(how, kind)
  <2>1. r \in ResultType /\ r.config = config /\ r.cell = Cells[config][cell]
    BY PlaybookResultType
  <2>2. \/ results' = Append(results, r)
        \/ /\ attempt # 0
           /\ results' = Append([results EXCEPT ![original].status = "RETRIED",
                                                ![original].flag = "final"], r)
    BY <1>1 DEF PlaybookEnds, FirstTry, Retried
  <2>3. attempt # 0 => original \in DOMAIN results
    BY RetryAssumption DEF TypeOK
  <2> HIDE DEF r
  <2> QED
    BY <2>1, <2>2, <2>3
<1>2. CASE MarkRemaining
  <2> DEFINE r == Result(Cells[config][cell], Status(leaving), IsTransient(leaving))
  <2>1. r \in ResultType /\ r.config = config /\ r.cell = Cells[config][cell]
    BY MarkResultType DEF Result
  <2>2. results' = results \/ results' = Append(results, r)
    BY <1>2 DEF MarkRemaining
  <2> HIDE DEF r
  <2> QED
    BY <2>1, <2>2
<1>3. ASSUME [Next]_vars, ~MarkRemaining, ~\E how, kind : PlaybookEnds(how, kind)
      PROVE  results' = results
  BY <1>3 DEF Next, MainStep, Load, LoadLeaves, Leave, Construct, ConstructFails,
     SetUpCompletes, SetUpFails, PlaybookCancelled, TearDownEnds, LifecycleReturns,
     MainCrashes, LifecycleRaises, Report, ReportFails, TimeoutFires, Terminated, vars
<1> QED
  BY <1>1, <1>2, <1>3

\* The list only grows, and no result changes its config or its cell.
LEMMA Grows ==
    ASSUME TypeOK, [Next]_vars
    PROVE  /\ results' \in Seq(ResultType)
           /\ Len(results) <= Len(results')
           /\ \A i \in DOMAIN results :
                /\ i \in DOMAIN results'
                /\ results'[i].config = results[i].config
                /\ results'[i].cell = results[i].cell
           /\ \A i \in DOMAIN results' \ DOMAIN results :
                /\ results'[i].config = config
                /\ results'[i].cell = Cells[config][cell]
<1>1. results \in Seq(ResultType)
  BY DEF TypeOK, ResultType
<1>2. CASE results' = results
  BY <1>1, <1>2
<1>3. ASSUME NEW r \in ResultType, r.config = config, r.cell = Cells[config][cell],
             results' = Append(results, r)
      PROVE  /\ results' \in Seq(ResultType)
             /\ Len(results) <= Len(results')
             /\ \A i \in DOMAIN results :
                  /\ i \in DOMAIN results'
                  /\ results'[i].config = results[i].config
                  /\ results'[i].cell = results[i].cell
             /\ \A i \in DOMAIN results' \ DOMAIN results :
                  /\ results'[i].config = config
                  /\ results'[i].cell = Cells[config][cell]
  BY <1>1, <1>3
<1>4. ASSUME NEW r \in ResultType, r.config = config, r.cell = Cells[config][cell],
             original \in DOMAIN results,
             results' = Append([results EXCEPT ![original].status = "RETRIED",
                                               ![original].flag = "final"], r)
      PROVE  /\ results' \in Seq(ResultType)
             /\ Len(results) <= Len(results')
             /\ \A i \in DOMAIN results :
                  /\ i \in DOMAIN results'
                  /\ results'[i].config = results[i].config
                  /\ results'[i].cell = results[i].cell
             /\ \A i \in DOMAIN results' \ DOMAIN results :
                  /\ results'[i].config = config
                  /\ results'[i].cell = Cells[config][cell]
  <2> DEFINE o == results[original]
             n == [config |-> o.config, cell |-> o.cell, status |-> "RETRIED",
                   flag |-> "final"]
             settled == [results EXCEPT ![original] = n]
  <2>1. o \in ResultType
    BY <1>1, <1>4
  <2>2. n \in ResultType
    BY <2>1 DEF ResultType, Statuses
  <2>3. [results EXCEPT ![original].status = "RETRIED", ![original].flag = "final"]
          = settled
    <3>1. o = [config |-> o.config, cell |-> o.cell, status |-> o.status,
               flag |-> o.flag]
      BY <2>1 DEF ResultType
    <3> DEFINE p == [o EXCEPT !.status = "RETRIED"]
    <3> HIDE DEF o
    <3>2. p =
            [config |-> o.config, cell |-> o.cell, status |-> "RETRIED",
             flag |-> o.flag]
      BY <3>1
    <3> HIDE DEF p
    <3>3. [p EXCEPT !.flag = "final"] = n
      BY <3>2
    <3> QED
      BY <1>1, <1>4, <3>3 DEF p, o
  <2>4. settled \in Seq(ResultType) /\ Len(settled) = Len(results)
    <3> HIDE DEF n
    <3> QED
      BY <1>1, <1>4, <2>2, ExceptSeq
  <2>5. \A i \in DOMAIN results :
          /\ i \in DOMAIN settled
          /\ settled[i].config = results[i].config
          /\ settled[i].cell = results[i].cell
    BY <1>1, <1>4
  <2>6. results' = Append(settled, r)
    BY <1>4, <2>3
  <2> HIDE DEF settled
  <2>7. /\ results' \in Seq(ResultType)
        /\ Len(results') = Len(results) + 1
        /\ \A i \in DOMAIN settled : i \in DOMAIN results' /\ results'[i] = settled[i]
        /\ results'[Len(results')] = r
    BY <1>1, <2>4, <2>6
  <2> QED
    BY <1>1, <1>4, <2>5, <2>7
<1> QED
  BY <1>2, <1>3, <1>4, ResultsStep

\* Every step of main() keeps the types.
LEMMA TypeStep ==
    ASSUME TypeOK, [Next]_vars
    PROVE  TypeOK'
<1> DEFINE Others ==
             /\ pc' \in {"load", "construct", "setup", "cell", "teardown",
                         "left_lifecycle", "mark", "report", "done", "left", "crashed"}
             /\ config' \in Configs
             /\ cell' \in DOMAIN Cells[config']
             /\ attempt' \in 0..Retry
             /\ attempt' > 0 => original' > 0
             /\ fired' \subseteq Configs
             /\ cancel' \subseteq {"pending"}
             /\ leaving' \in Kinds \cup {"none", "cancelled", "TimeoutError"}
             /\ exit' \in ExitCodes \cup {"none"}
             /\ setUp' \subseteq Configs /\ tornDown' \subseteq Configs
             /\ cut' \subseteq Configs
             /\ original' \in 0..Len(results')
<1> USE CellFacts, RetryAssumption
<1>1. results' \in Seq(ResultType) /\ Len(results) <= Len(results')
  BY Grows
<1>2. /\ Len(results) \in Nat
      /\ config \in Configs /\ cell \in 1..Len(Cells[config])
      /\ original \in 0..Len(results) /\ attempt \in 0..Retry
      /\ attempt > 0 => original > 0
  BY DEF TypeOK
<1>3. ASSUME Load PROVE Others
  BY <1>1, <1>2, <1>3 DEF Load, cellVars, TypeOK
<1>4. ASSUME LoadLeaves PROVE Others
  BY <1>1, <1>2, <1>4 DEF LoadLeaves, Leave, cellVars, LadderCodes, ExitCodes,
     TypeOK
<1>5. ASSUME Construct PROVE Others
  BY <1>1, <1>2, <1>5 DEF Construct, cellVars, TypeOK
<1>6. ASSUME ConstructFails PROVE Others
  BY <1>1, <1>2, <1>6 DEF ConstructFails, Leave, cellVars, LadderCodes,
     ExitCodes, TypeOK
<1>7. ASSUME SetUpCompletes PROVE Others
  BY <1>1, <1>2, <1>7 DEF SetUpCompletes, cellVars, TypeOK
<1>8. ASSUME SetUpFails PROVE Others
  BY <1>1, <1>2, <1>8 DEF SetUpFails, cellVars, TypeOK
<1>9. ASSUME NEW how, NEW kind, PlaybookEnds(how, kind) PROVE Others
  <2> DEFINE r == PlaybookResult(how, kind)
  <2>1. r \in ResultType
    BY PlaybookResultType
  <2>2. Len(Append(results, r)) = Len(results) + 1
    BY <2>1 DEF TypeOK
  <2>3. IF attempt = 0 THEN FirstTry(r) ELSE Retried(r)
    BY <1>9 DEF PlaybookEnds
  <2> HIDE DEF r
  <2>4. /\ pc' \in {"cell", "teardown"}
        /\ cell' \in DOMAIN Cells[config]
        /\ attempt' \in 0..Retry
        /\ attempt' > 0 => original' > 0
        /\ original' \in 0..Len(results')
    <3>1. CASE attempt = 0
      <4>1. /\ Len(results') = Len(results) + 1
            /\ \/ Retry > 0 /\ attempt' = 1 /\ original' = Len(results) + 1
                    /\ UNCHANGED <<pc, cell>>
               \/ NextCell
        BY <2>2, <2>3, <3>1 DEF FirstTry
      <4> QED
        BY <1>2, <1>9, <4>1 DEF NextCell, PlaybookEnds
    <3>2. CASE attempt # 0
      <4>1. \/ attempt < Retry /\ attempt' = attempt + 1 /\ UNCHANGED <<pc, cell, original>>
            \/ NextCell
        BY <2>3, <3>2 DEF Retried
      <4> QED
        BY <1>1, <1>2, <1>9, <3>2, <4>1 DEF NextCell, PlaybookEnds
    <3> QED
      BY <3>1, <3>2
  <2> QED
    BY <1>9, <2>4 DEF PlaybookEnds, TypeOK
<1>10. ASSUME PlaybookCancelled PROVE Others
  BY <1>1, <1>2, <1>10 DEF PlaybookCancelled, cellVars, TypeOK
<1>11. ASSUME TearDownEnds PROVE Others
  BY <1>1, <1>2, <1>11 DEF TearDownEnds, cellVars, TypeOK
<1>12. ASSUME LifecycleReturns PROVE Others
  BY <1>1, <1>2, <1>12 DEF LifecycleReturns, NextConfig, TypeOK
<1>13. ASSUME MainCrashes PROVE Others
  BY <1>1, <1>2, <1>13 DEF MainCrashes, cellVars, TypeOK
<1>14. ASSUME LifecycleRaises PROVE Others
  BY <1>1, <1>2, <1>14 DEF LifecycleRaises, TypeOK
<1>15. ASSUME MarkRemaining PROVE Others
  <2>1. pc = "mark" /\ NextMark /\ UNCHANGED <<fired, exit, setUp, tornDown, cut>>
    BY <1>15 DEF MarkRemaining
  <2> QED
    <3>1. CASE NextConfig
      BY <1>1, <1>2, <2>1, <3>1 DEF NextConfig, TypeOK
    <3>2. CASE cell # Len(Cells[config])
      <4>1. cell' = cell + 1 /\ cell + 1 \in 1..Len(Cells[config])
        BY <1>2, <2>1, <3>2 DEF NextMark
      <4>2. UNCHANGED <<pc, config, attempt, original, cancel, leaving>>
        BY <2>1, <3>2 DEF NextMark
      <4> QED
        BY <1>1, <1>2, <2>1, <4>1, <4>2 DEF TypeOK
    <3> QED
      BY <2>1, <3>1, <3>2 DEF NextMark
<1>16. ASSUME Report PROVE Others
  BY <1>1, <1>2, <1>16, ExitCodeFacts DEF Report, cellVars, TypeOK
<1>17. ASSUME ReportFails PROVE Others
  BY <1>1, <1>2, <1>17 DEF ReportFails, Leave, cellVars, ExitCodes, TypeOK
<1>18. ASSUME TimeoutFires PROVE Others
  BY <1>1, <1>2, <1>18 DEF TimeoutFires, cellVars, TypeOK
<1>19. ASSUME UNCHANGED vars PROVE Others
  BY <1>1, <1>2, <1>19 DEF vars, TypeOK
<1>20. Others
  BY <1>3, <1>4, <1>5, <1>6, <1>7, <1>8, <1>9, <1>10, <1>11, <1>12, <1>13,
     <1>14, <1>15, <1>16, <1>17, <1>18, <1>19 DEF Next, MainStep, Terminated
<1> QED
  BY <1>1, <1>20 DEF TypeOK, ResultType
\* The bed of a config is torn down before main() leaves the config.
LEMMA BedStep ==
    ASSUME TypeOK, BedInv, [Next]_vars
    PROVE  BedInv'
<1>1. CASE Load
  BY <1>1 DEF Load, cellVars, BedInv
<1>2. CASE LoadLeaves
  BY <1>2 DEF LoadLeaves, Leave, cellVars, BedInv
<1>3. CASE Construct
  BY <1>3 DEF Construct, cellVars, BedInv
<1>4. CASE ConstructFails
  BY <1>4 DEF ConstructFails, Leave, cellVars, BedInv
<1>5. CASE SetUpCompletes
  BY <1>5 DEF SetUpCompletes, cellVars, BedInv
<1>6. CASE SetUpFails
  BY <1>6 DEF SetUpFails, cellVars, BedInv
<1>7. ASSUME NEW how, NEW kind, PlaybookEnds(how, kind) PROVE BedInv'
  BY <1>7 DEF PlaybookEnds, FirstTry, Retried, NextCell, BedInv
<1>8. CASE PlaybookCancelled
  BY <1>8 DEF PlaybookCancelled, cellVars, BedInv
<1>9. CASE TearDownEnds
  BY <1>9 DEF TearDownEnds, cellVars, BedInv
<1>10. CASE LifecycleReturns
  BY <1>10 DEF LifecycleReturns, NextConfig, BedInv
<1>11. CASE MainCrashes
  BY <1>11 DEF MainCrashes, cellVars, BedInv
<1>12. CASE LifecycleRaises
  BY <1>12 DEF LifecycleRaises, BedInv
<1>13. CASE MarkRemaining
  BY <1>13 DEF MarkRemaining, NextMark, NextConfig, BedInv
<1>14. CASE Report
  BY <1>14 DEF Report, cellVars, BedInv
<1>15. CASE ReportFails
  BY <1>15 DEF ReportFails, Leave, cellVars, BedInv
<1>16. CASE TimeoutFires
  BY <1>16 DEF TimeoutFires, cellVars, BedInv
<1>17. CASE UNCHANGED vars
  BY <1>17 DEF vars, BedInv
<1> QED
  BY <1>1, <1>2, <1>3, <1>4, <1>5, <1>6, <1>7, <1>8, <1>9, <1>10, <1>11, <1>12,
     <1>13, <1>14, <1>15, <1>16, <1>17 DEF Next, MainStep, Terminated

\* The exit code is computed with the last results.
LEMMA EarnedStep ==
    ASSUME TypeOK, EarnedInv, [Next]_vars
    PROVE  EarnedInv'
<1>1. CASE Load
  BY <1>1 DEF Load, cellVars, EarnedInv
<1>2. CASE LoadLeaves
  BY <1>2 DEF LoadLeaves, Leave, cellVars, EarnedInv
<1>3. CASE Construct
  BY <1>3 DEF Construct, cellVars, EarnedInv
<1>4. CASE ConstructFails
  BY <1>4 DEF ConstructFails, Leave, cellVars, EarnedInv
<1>5. CASE SetUpCompletes
  BY <1>5 DEF SetUpCompletes, cellVars, EarnedInv
<1>6. CASE SetUpFails
  BY <1>6 DEF SetUpFails, cellVars, EarnedInv
<1>7. ASSUME NEW how, NEW kind, PlaybookEnds(how, kind) PROVE EarnedInv'
  BY <1>7 DEF PlaybookEnds, FirstTry, Retried, NextCell, EarnedInv
<1>8. CASE PlaybookCancelled
  BY <1>8 DEF PlaybookCancelled, cellVars, EarnedInv
<1>9. CASE TearDownEnds
  BY <1>9 DEF TearDownEnds, cellVars, EarnedInv
<1>10. CASE LifecycleReturns
  BY <1>10 DEF LifecycleReturns, NextConfig, EarnedInv
<1>11. CASE MainCrashes
  BY <1>11 DEF MainCrashes, cellVars, EarnedInv
<1>12. CASE LifecycleRaises
  BY <1>12 DEF LifecycleRaises, EarnedInv
<1>13. CASE MarkRemaining
  BY <1>13 DEF MarkRemaining, NextMark, NextConfig, EarnedInv
<1>14. CASE Report
  BY <1>14 DEF Report, cellVars, ExitCode, EarnedInv
<1>15. CASE ReportFails
  BY <1>15 DEF ReportFails, Leave, cellVars, EarnedInv
<1>16. CASE TimeoutFires
  BY <1>16 DEF TimeoutFires, cellVars, EarnedInv
<1>17. CASE UNCHANGED vars
  BY <1>17 DEF vars, ExitCode, EarnedInv
<1> QED
  BY <1>1, <1>2, <1>3, <1>4, <1>5, <1>6, <1>7, <1>8, <1>9, <1>10, <1>11, <1>12,
     <1>13, <1>14, <1>15, <1>16, <1>17 DEF Next, MainStep, Terminated

\* Nothing is left early and no cell begun before the first one is run.
LEMMA EntryStep ==
    ASSUME TypeOK, EntryInv, [Next]_vars
    PROVE  EntryInv'
<1>1. CASE Load
  BY <1>1 DEF Load, cellVars, EntryInv
<1>2. CASE LoadLeaves
  BY <1>2 DEF LoadLeaves, Leave, cellVars, EntryInv
<1>3. CASE Construct
  BY <1>3 DEF Construct, cellVars, EntryInv
<1>4. CASE ConstructFails
  BY <1>4 DEF ConstructFails, Leave, cellVars, EntryInv
<1>5. CASE SetUpCompletes
  BY <1>5 DEF SetUpCompletes, cellVars, EntryInv
<1>6. CASE SetUpFails
  BY <1>6 DEF SetUpFails, cellVars, EntryInv
<1>7. ASSUME NEW how, NEW kind, PlaybookEnds(how, kind) PROVE EntryInv'
  BY <1>7 DEF PlaybookEnds, FirstTry, Retried, NextCell, EntryInv
<1>8. CASE PlaybookCancelled
  BY <1>8 DEF PlaybookCancelled, cellVars, EntryInv
<1>9. CASE TearDownEnds
  BY <1>9 DEF TearDownEnds, cellVars, EntryInv
<1>10. CASE LifecycleReturns
  BY <1>10 DEF LifecycleReturns, NextConfig, EntryInv
<1>11. CASE MainCrashes
  BY <1>11 DEF MainCrashes, cellVars, EntryInv
<1>12. CASE LifecycleRaises
  BY <1>12 DEF LifecycleRaises, EntryInv
<1>13. CASE MarkRemaining
  BY <1>13 DEF MarkRemaining, NextMark, NextConfig, EntryInv
<1>14. CASE Report
  BY <1>14 DEF Report, cellVars, EntryInv
<1>15. CASE ReportFails
  BY <1>15 DEF ReportFails, Leave, cellVars, EntryInv
<1>16. CASE TimeoutFires
  BY <1>16 DEF TimeoutFires, cellVars, EntryInv
<1>17. CASE UNCHANGED vars
  BY <1>17 DEF vars, EntryInv
<1> QED
  BY <1>1, <1>2, <1>3, <1>4, <1>5, <1>6, <1>7, <1>8, <1>9, <1>10, <1>11, <1>12,
     <1>13, <1>14, <1>15, <1>16, <1>17 DEF Next, MainStep, Terminated

(***************************************************************************)
(* Every cell gets a result                                                *)
(***************************************************************************)

\* A result is never lost.
LEMMA Keeps ==
    ASSUME TypeOK, [Next]_vars
    PROVE  \A c, x : Has(results, c, x) => Has(results', c, x)
BY Grows DEF Has

\* A new result is of the current cell.
LEMMA ResultStep ==
    ASSUME TypeOK, ResultInv, [Next]_vars
    PROVE  ResultInv'
<1> SUFFICES ASSUME NEW i \in DOMAIN results'
             PROVE  \E k \in DOMAIN Cells[results'[i].config] :
                        results'[i].cell = Cells[results'[i].config][k]
  BY DEF ResultInv
<1>1. CASE i \in DOMAIN results
  BY <1>1, Grows DEF ResultInv
<1>2. CASE i \notin DOMAIN results
  BY <1>2, Grows DEF TypeOK
<1> QED
  BY <1>1, <1>2

\* The cell that was run has a result.
LEMMA RunHas ==
    ASSUME TypeOK, NEW how, NEW kind, PlaybookEnds(how, kind)
    PROVE  Has(results', config, Cells[config][cell])
<1> DEFINE r == PlaybookResult(how, kind)
           settled == [results EXCEPT ![original].status = "RETRIED",
                                      ![original].flag = "final"]
<1>1. r \in ResultType /\ r.config = config /\ r.cell = Cells[config][cell]
  BY PlaybookResultType
<1>2. results' = Append(results, r) \/ results' = Append(settled, r)
  BY DEF PlaybookEnds, FirstTry, Retried
<1>3. \A s : Len(s) \in Nat => Append(s, r)[Len(s) + 1] = r /\ Len(s) + 1 \in DOMAIN Append(s, r)
  OBVIOUS
<1> QED
  BY <1>1, <1>2, <1>3 DEF Has, TypeOK

\* The result that is found for a cell of this config is no other config's.
LEMMA ExecutedHas ==
    ASSUME NoSharedCells, TypeOK, ResultInv, Executed(Cells[config][cell])
    PROVE  Has(results, config, Cells[config][cell])
<1>1. PICK i \in DOMAIN results : results[i].cell = Cells[config][cell]
  BY DEF Executed
<1>2. results[i].config \in Configs
  <2>1. results \in Seq(ResultType)
    BY DEF TypeOK, ResultType
  <2>2. results[i] \in ResultType
    BY <2>1
  <2> QED
    BY <2>2 DEF ResultType
<1>3. PICK k \in DOMAIN Cells[results[i].config] :
          results[i].cell = Cells[results[i].config][k]
  BY DEF ResultInv
<1>4. results[i].config = config
  BY <1>1, <1>2, <1>3 DEF NoSharedCells, TypeOK
<1> QED
  BY <1>1, <1>4 DEF Has

\* The cell that the marking loop came to has a result of this config: one that
\* is found there is no other config's.
LEMMA MarkHas ==
    ASSUME NoSharedCells, TypeOK, ResultInv, MarkRemaining
    PROVE  Has(results', config, Cells[config][cell])
<1> DEFINE r == Result(Cells[config][cell], Status(leaving), IsTransient(leaving))
<1>1. r \in ResultType /\ r.config = config /\ r.cell = Cells[config][cell]
  BY MarkResultType DEF Result
<1>2. CASE Executed(Cells[config][cell])
  <2>1. results' = results
    BY <1>2 DEF MarkRemaining
  <2> QED
    BY <1>2, <2>1, ExecutedHas
<1>3. CASE ~Executed(Cells[config][cell])
  <2>1. results' = Append(results, r)
    BY <1>3 DEF MarkRemaining
  <2> HIDE DEF r
  <2>2. results \in Seq(ResultType)
    BY DEF TypeOK, ResultType
  <2>3. Len(results) + 1 \in DOMAIN results' /\ results'[Len(results) + 1] = r
    BY <1>1, <2>1, <2>2
  <2> QED
    BY <1>1, <2>3 DEF Has
<1> QED
  BY <1>2, <1>3

\* No cell is passed by: it gets a result by being run or by being marked.
LEMMA MarkedStep ==
    ASSUME NoSharedCells, TypeOK, ResultInv, EntryInv, MarkedInv, [Next]_vars
    PROVE  MarkedInv'
<1>a. \A c, x : Has(results, c, x) => Has(results', c, x)
  BY Keeps
<1>b. /\ config \in Configs /\ cell \in 1..Len(Cells[config])
      /\ attempt \in Nat /\ Len(Cells[config]) \in Nat
  BY CellFacts, RetryAssumption DEF TypeOK
<1>1. CASE Load
  BY <1>1, CellFacts, <1>a, <1>b DEF Load, cellVars, MarkedInv, EntryInv,
     AllMarked
<1>2. CASE LoadLeaves
  BY <1>2, CellFacts, <1>a, <1>b DEF LoadLeaves, Leave, cellVars, MarkedInv,
     EntryInv, AllMarked
<1>3. CASE Construct
  BY <1>3, CellFacts, <1>a, <1>b DEF Construct, cellVars, MarkedInv, EntryInv,
     AllMarked
<1>4. CASE ConstructFails
  BY <1>4, CellFacts, <1>a, <1>b DEF ConstructFails, Leave, cellVars, MarkedInv,
     EntryInv, AllMarked
<1>5. CASE SetUpCompletes
  BY <1>5, CellFacts, <1>a, <1>b DEF SetUpCompletes, cellVars, MarkedInv,
     EntryInv, AllMarked
<1>6. CASE SetUpFails
  BY <1>6, CellFacts, KindsAssumption, <1>a, <1>b DEF SetUpFails, cellVars,
     MarkedInv, EntryInv, AllMarked
<1>7. ASSUME NEW how, NEW kind, PlaybookEnds(how, kind) PROVE MarkedInv'
  <2>1. Has(results', config, Cells[config][cell])
    BY <1>7, RunHas
  <2>2. \/ pc' = pc /\ cell' = cell
        \/ NextCell
    BY <1>7 DEF PlaybookEnds, FirstTry, Retried
  <2>3. pc = "cell" /\ config' = config
    BY <1>7 DEF PlaybookEnds
  <2>4. \A k \in 1..cell : Has(results', config, Cells[config][k])
    BY <1>a, <1>b, <2>1, <2>3 DEF MarkedInv
  <2>5. CASE pc' = pc /\ cell' = cell
    BY CellFacts, <1>a, <1>b, <2>3, <2>4, <2>5 DEF MarkedInv, AllMarked
  <2>6. CASE NextCell
    BY CellFacts, <1>a, <1>b, <2>3, <2>4, <2>6 DEF NextCell, MarkedInv, AllMarked
  <2> QED
    BY <2>2, <2>5, <2>6
<1>8. CASE PlaybookCancelled
  BY <1>8, CellFacts, <1>a, <1>b DEF PlaybookCancelled, cellVars, MarkedInv,
     EntryInv, AllMarked
<1>9. CASE TearDownEnds
  BY <1>9, CellFacts, <1>a, <1>b DEF TearDownEnds, cellVars, MarkedInv,
     EntryInv, AllMarked
<1>10. CASE LifecycleReturns
  BY <1>10, CellFacts, <1>a, <1>b DEF LifecycleReturns, NextConfig, MarkedInv,
     EntryInv, AllMarked
<1>11. CASE MainCrashes
  BY <1>11, CellFacts, <1>a, <1>b DEF MainCrashes, cellVars, MarkedInv,
     EntryInv, AllMarked
<1>12. CASE LifecycleRaises
  BY <1>12, CellFacts, <1>a, <1>b DEF LifecycleRaises, MarkedInv, EntryInv,
     AllMarked
<1>13. CASE MarkRemaining
  <2>1. Has(results', config, Cells[config][cell])
    BY <1>13, MarkHas
  <2>2. pc = "mark" /\ NextMark
    BY <1>13 DEF MarkRemaining
  <2>3. \A k \in 1..cell : Has(results', config, Cells[config][k])
    BY <1>a, <1>b, <2>1, <2>2 DEF MarkedInv
  <2>4. CASE cell = Len(Cells[config])
    <3>1. AllMarked(results', config)
      BY CellFacts, <1>b, <2>3, <2>4 DEF AllMarked
    <3>2. \A c \in Configs : c < config => AllMarked(results', c)
      BY <1>a DEF MarkedInv, AllMarked
    <3> QED
      BY CellFacts, <1>b, <2>2, <2>4, <3>1, <3>2 DEF NextMark, NextConfig, MarkedInv
  <2>5. CASE cell # Len(Cells[config])
    BY CellFacts, <1>a, <1>b, <2>2, <2>3, <2>5 DEF NextMark, MarkedInv, AllMarked
  <2> QED
    BY <2>4, <2>5
<1>14. CASE Report
  BY <1>14, CellFacts, <1>a, <1>b DEF Report, cellVars, MarkedInv, EntryInv,
     AllMarked
<1>15. CASE ReportFails
  BY <1>15, CellFacts, <1>a, <1>b DEF ReportFails, Leave, cellVars, MarkedInv,
     EntryInv, AllMarked
<1>16. CASE TimeoutFires
  BY <1>16, CellFacts, <1>a, <1>b DEF TimeoutFires, cellVars, MarkedInv,
     EntryInv, AllMarked
<1>17. CASE UNCHANGED vars
  BY <1>17, CellFacts, <1>a, <1>b DEF vars, MarkedInv, EntryInv, AllMarked
<1> QED
  BY <1>1, <1>2, <1>3, <1>4, <1>5, <1>6, <1>7, <1>8, <1>9, <1>10, <1>11, <1>12,
     <1>13, <1>14, <1>15, <1>16, <1>17 DEF Next, MainStep, Terminated

(***************************************************************************)
(* A config that was cut off is seen                                       *)
(***************************************************************************)

\* A result that a cell has after a step it had before, or the step gave it to
\* the current cell.
LEMMA NewHas ==
    ASSUME TypeOK, [Next]_vars, NEW c, NEW x, Has(results', c, x)
    PROVE  Has(results, c, x) \/ (c = config /\ x = Cells[config][cell])
<1>1. PICK i \in DOMAIN results' : results'[i].config = c /\ results'[i].cell = x
  BY DEF Has
<1>2. CASE i \in DOMAIN results
  BY <1>1, <1>2, Grows DEF Has
<1>3. CASE i \notin DOMAIN results
  BY <1>1, <1>3, Grows
<1> QED
  BY <1>2, <1>3

\* The results of a retried cell: the first stays a failure until it is settled.
LEMMA RetryHas ==
    ASSUME TypeOK, FreshInv, NEW how, NEW kind, PlaybookEnds(how, kind)
    PROVE  \/ NextCell
           \/ /\ pc' = pc /\ cell' = cell /\ attempt' > 0
              /\ results'[original'].config = config
              /\ Failed(results'[original'])
<1> DEFINE r == PlaybookResult(how, kind)
<1>1. r \in ResultType /\ r.config = config
  BY PlaybookResultType
<1>2. results \in Seq(ResultType) /\ pc = "cell"
  BY DEF TypeOK, ResultType, PlaybookEnds
<1>3. CASE attempt = 0
  <2>1. FirstTry(r)
    BY <1>3 DEF PlaybookEnds
  <2> HIDE DEF r
  <2>2. CASE NextCell
    BY <2>2
  <2>3. CASE ~NextCell
    <3>1. /\ results' = Append(results, r) /\ Failed(r)
          /\ attempt' = 1 /\ original' = Len(results) + 1
          /\ UNCHANGED <<pc, cell>>
      BY <2>1, <2>3 DEF FirstTry
    <3>2. results'[original'] = r
      BY <1>1, <1>2, <3>1
    <3> QED
      BY <1>1, <3>1, <3>2
  <2> QED
    BY <2>2, <2>3
<1>4. CASE attempt # 0
  <2>1. Retried(r)
    BY <1>4 DEF PlaybookEnds
  <2> HIDE DEF r
  <2>2. CASE NextCell
    BY <2>2
  <2>3. CASE ~NextCell
    <3>1. /\ results' = Append(results, r)
          /\ attempt' = attempt + 1 /\ UNCHANGED <<pc, cell, original>>
      BY <2>1, <2>3 DEF Retried
    <3>2. original \in 1..Len(results) /\ attempt \in Nat /\ attempt > 0
      BY <1>4, RetryAssumption DEF TypeOK
    <3>3. results'[original'] = results[original]
      BY <1>1, <1>2, <3>1, <3>2
    <3>4. results[original].config = config /\ Failed(results[original])
      BY <1>2, <3>2 DEF FreshInv
    <3>5. attempt' > 0
      BY <3>1, <3>2
    <3> QED
      BY <3>1, <3>3, <3>4, <3>5
  <2> QED
    BY <2>2, <2>3
<1> QED
  BY <1>3, <1>4

\* Only the current cell gets results.
LEMMA FreshStep ==
    ASSUME CellsDiffer, TypeOK, EntryInv, FreshInv, [Next]_vars
    PROVE  FreshInv'
<1>a. /\ config \in Configs /\ config \in Nat /\ cell \in 1..Len(Cells[config])
      /\ attempt \in Nat /\ Len(Cells[config]) \in Nat
  BY CellFacts, RetryAssumption DEF TypeOK
<1>b. \A i \in DOMAIN results' : results'[i].config <= config
  <2> SUFFICES ASSUME NEW i \in DOMAIN results' PROVE results'[i].config <= config
    OBVIOUS
  <2>1. CASE i \in DOMAIN results
    BY <2>1, Grows DEF FreshInv
  <2>2. CASE i \notin DOMAIN results
    BY <1>a, <2>2, Grows
  <2> QED
    BY <2>1, <2>2
<1>c. ASSUME NextConfig PROVE FreshInv'
  <2>1. \A i \in DOMAIN results' : results'[i] \in ResultType
    BY Grows
  <2>2. \A i \in DOMAIN results' : results'[i].config \in Nat
    BY <2>1, CellFacts DEF ResultType
  <2>3. \A i \in DOMAIN results' : results'[i].config < config + 1
    BY <1>a, <1>b, <2>2
  <2> QED
    BY <1>a, <1>b, <1>c, <2>2, <2>3 DEF NextConfig, FreshInv
<1>1. CASE Load
  BY <1>1, <1>a DEF Load, cellVars, FreshInv
<1>2. CASE LoadLeaves
  BY <1>2, <1>a DEF LoadLeaves, Leave, cellVars, FreshInv
<1>3. CASE Construct
  BY <1>3, <1>a DEF Construct, cellVars, FreshInv
<1>4. CASE ConstructFails
  BY <1>4, <1>a DEF ConstructFails, Leave, cellVars, FreshInv
<1>5. CASE SetUpCompletes
  <2>1. \A i \in DOMAIN results : results[i].config # config
    <3>1. \A i \in DOMAIN results : results[i].config < config
      BY <1>5 DEF SetUpCompletes, FreshInv
    <3>2. \A i \in DOMAIN results : results[i].config \in Nat
      <4>1. results \in Seq(ResultType)
        BY DEF TypeOK, ResultType
      <4>2. \A i \in DOMAIN results : results[i] \in ResultType
        BY <4>1
      <4> QED
        BY <4>2, CellFacts DEF ResultType
    <3> QED
      BY <1>a, <3>1, <3>2
  <2>2. attempt = 0
    BY <1>5 DEF SetUpCompletes, EntryInv
  <2> QED
    BY <1>5, <1>a, <2>1, <2>2 DEF SetUpCompletes, cellVars, FreshInv, Has
<1>6. CASE SetUpFails
  BY <1>6, <1>a DEF SetUpFails, cellVars, FreshInv
<1>7. ASSUME NEW how, NEW kind, PlaybookEnds(how, kind) PROVE FreshInv'
  <2>1. pc = "cell" /\ config' = config
    BY <1>7 DEF PlaybookEnds
  <2>2. \A k \in cell + 1..Len(Cells[config]) : ~Has(results', config, Cells[config][k])
    <3> SUFFICES ASSUME NEW k \in cell + 1..Len(Cells[config]),
                        Has(results', config, Cells[config][k])
                 PROVE  FALSE
      OBVIOUS
    <3>1. k \in DOMAIN Cells[config] /\ cell \in DOMAIN Cells[config] /\ k # cell
          /\ k \in cell..Len(Cells[config]) /\ k > cell
      BY <1>a, CellFacts
    <3>2. Cells[config][k] # Cells[config][cell]
      BY <1>a, <3>1 DEF CellsDiffer
    <3>3. Has(results, config, Cells[config][k])
      BY <3>2, NewHas
    <3>4. ~Has(results, config, Cells[config][k])
      BY <2>1, <3>1 DEF FreshInv
    <3> QED
      BY <3>3, <3>4
  <2>3. \/ NextCell
        \/ /\ pc' = pc /\ cell' = cell /\ attempt' > 0
           /\ results'[original'].config = config
           /\ Failed(results'[original'])
    BY <1>7, RetryHas
  <2>4. CASE NextCell
    BY <1>a, <1>b, <2>1, <2>2, <2>4 DEF NextCell, FreshInv
  <2>5. CASE /\ pc' = pc /\ cell' = cell /\ attempt' > 0
             /\ results'[original'].config = config
             /\ Failed(results'[original'])
    <3>1. attempt' # 0
      BY <2>5
    <3>2. \A k \in cell'..Len(Cells[config']) :
              attempt' = 0 \/ k > cell' => ~Has(results', config', Cells[config'][k])
      BY <1>a, <2>1, <2>2, <2>5, <3>1
    <3>3. results'[original'].config = config' /\ Failed(results[original])'
      BY <2>1, <2>5 DEF Failed
    <3> QED
      BY <1>b, <2>1, <2>5, <3>2, <3>3 DEF FreshInv
  <2> QED
    BY <2>3, <2>4, <2>5
<1>8. CASE PlaybookCancelled
  BY <1>8 DEF PlaybookCancelled, cellVars, FreshInv
<1>9. CASE TearDownEnds
  BY <1>9 DEF TearDownEnds, cellVars, FreshInv
<1>10. CASE LifecycleReturns
  BY <1>10, <1>c DEF LifecycleReturns
<1>11. CASE MainCrashes
  BY <1>11 DEF MainCrashes, cellVars, FreshInv
<1>12. CASE LifecycleRaises
  BY <1>12 DEF LifecycleRaises, FreshInv
<1>13. CASE MarkRemaining
  <2>1. pc = "mark" /\ NextMark
    BY <1>13 DEF MarkRemaining
  <2>2. CASE NextConfig
    BY <1>c, <2>2
  <2>3. CASE ~NextConfig
    BY <1>b, <2>1, <2>3 DEF NextMark, FreshInv
  <2> QED
    BY <2>2, <2>3
<1>14. CASE Report
  BY <1>14 DEF Report, cellVars, FreshInv
<1>15. CASE ReportFails
  BY <1>15 DEF ReportFails, Leave, cellVars, FreshInv
<1>16. CASE TimeoutFires
  BY <1>16 DEF TimeoutFires, cellVars, FreshInv
<1>17. CASE UNCHANGED vars
  BY <1>17 DEF vars, FreshInv
<1> QED
  BY <1>1, <1>2, <1>3, <1>4, <1>5, <1>6, <1>7, <1>8, <1>9, <1>10, <1>11, <1>12,
     <1>13, <1>14, <1>15, <1>16, <1>17 DEF Next, MainStep, Terminated

\* A failed result of an earlier config stays one, and so does one of the current
\* config once its cells are over.
LEMMA FailedStays ==
    ASSUME TypeOK, FreshInv, [Next]_vars, NEW c \in Configs, HasFailed(results, c),
           c # config \/ pc # "cell"
    PROVE  HasFailed(results', c)
<1>1. PICK i \in DOMAIN results : results[i].config = c /\ Failed(results[i])
  BY DEF HasFailed
<1>2. results \in Seq(ResultType)
  BY DEF TypeOK, ResultType
<1>3. CASE results' = results
  BY <1>3
<1>4. ASSUME NEW r \in ResultType, results' = Append(results, r)
      PROVE  HasFailed(results', c)
  <2>1. i \in DOMAIN results' /\ results'[i] = results[i]
    BY <1>2, <1>4
  <2> QED
    BY <1>1, <2>1 DEF HasFailed
<1>5. ASSUME NEW how, NEW kind, PlaybookEnds(how, kind), c # config
      PROVE  HasFailed(results', c)
  <2> DEFINE r == PlaybookResult(how, kind)
             settled == [results EXCEPT ![original].status = "RETRIED",
                                        ![original].flag = "final"]
  <2>1. r \in ResultType
    BY PlaybookResultType
  <2>2. \/ results' = Append(results, r)
        \/ attempt # 0 /\ results' = Append(settled, r)
    BY <1>5 DEF PlaybookEnds, FirstTry, Retried
  <2> HIDE DEF r
  <2>3. CASE results' = Append(results, r)
    BY <1>4, <2>1, <2>3
  <2>4. CASE attempt # 0 /\ results' = Append(settled, r)
    <3>1. pc = "cell" /\ attempt > 0
      BY <1>5, <2>4, RetryAssumption DEF PlaybookEnds, TypeOK
    <3>2. i # original
      BY <1>1, <1>5, <3>1 DEF FreshInv
    <3>3. DOMAIN settled = DOMAIN results /\ settled[i] = results[i]
      BY <1>1, <1>2, <3>2
    <3>4. Len(settled) = Len(results) /\ Len(results) \in Nat
      BY <1>2
    <3> HIDE DEF settled
    <3>5. i \in DOMAIN results' /\ results'[i] = results[i]
      BY <1>1, <1>2, <2>1, <2>4, <3>3, <3>4
    <3> QED
      BY <1>1, <3>5 DEF HasFailed
  <2> QED
    BY <2>2, <2>3, <2>4
<1>6. CASE MarkRemaining
  <2>1. \/ results' = results
        \/ results' = Append(results,
              Result(Cells[config][cell], Status(leaving), IsTransient(leaving)))
    BY <1>6 DEF MarkRemaining
  <2> QED
    BY <1>3, <1>4, <2>1, MarkResultType
<1>7. ASSUME [Next]_vars, ~MarkRemaining, ~\E how, kind : PlaybookEnds(how, kind)
      PROVE  results' = results
  BY <1>7 DEF Next, MainStep, Load, LoadLeaves, Leave, Construct, ConstructFails,
     SetUpCompletes, SetUpFails, PlaybookCancelled, TearDownEnds, LifecycleReturns,
     MainCrashes, LifecycleRaises, Report, ReportFails, TimeoutFires, Terminated, vars
<1>8. ASSUME NEW how, NEW kind, PlaybookEnds(how, kind) PROVE pc = "cell"
  BY <1>8 DEF PlaybookEnds
<1> QED
  BY <1>3, <1>5, <1>6, <1>7, <1>8

\* Marking a cell that was cut off gives a failed result, or leaves one to mark.
LEMMA MarkFails ==
    ASSUME NoSharedCells, TypeOK, ResultInv, FreshInv, [Next]_vars, MarkRemaining,
           leaving = "TimeoutError",
           HasFailed(results, config) \/ Unmarked(results, config, cell)
    PROVE  HasFailed(results', config)
             \/ (cell # Len(Cells[config]) /\ Unmarked(results', config, cell + 1))
<1> DEFINE r == Result(Cells[config][cell], Status(leaving), IsTransient(leaving))
<1>a. config \in Configs /\ cell \in 1..Len(Cells[config]) /\ Len(Cells[config]) \in Nat
  BY CellFacts DEF TypeOK
<1>1. CASE HasFailed(results, config)
  BY <1>1, <1>a, FailedStays DEF MarkRemaining
<1>2. CASE ~Executed(Cells[config][cell])
  <2>1. r \in ResultType /\ r.config = config
    BY MarkResultType DEF Result
  <2>2. r.status = "TIMEOUT"
    BY DEF Result, Status
  <2>3. Failed(r)
    BY <2>2 DEF Failed, FailedStatuses
  <2>4. results' = Append(results, r)
    BY <1>2 DEF MarkRemaining
  <2> HIDE DEF r
  <2>5. results \in Seq(ResultType)
    BY DEF TypeOK, ResultType
  <2>6. Len(results) + 1 \in DOMAIN results' /\ results'[Len(results) + 1] = r
    BY <2>1, <2>4, <2>5
  <2> QED
    BY <2>1, <2>3, <2>6 DEF HasFailed
<1>3. CASE Executed(Cells[config][cell]) /\ ~HasFailed(results, config)
  <2>1. results' = results
    BY <1>3 DEF MarkRemaining
  <2>2. PICK k \in cell..Len(Cells[config]) : ~Has(results, config, Cells[config][k])
    BY <1>3 DEF Unmarked
  <2>3. k # cell
    BY <1>3, <2>2, ExecutedHas
  <2>4. k \in cell + 1..Len(Cells[config]) /\ cell # Len(Cells[config])
    BY <1>a, <2>2, <2>3
  <2> QED
    BY <2>1, <2>2, <2>4 DEF Unmarked
<1> QED
  BY <1>1, <1>2, <1>3

\* What was cut off has a failed result before main() goes on.
LEMMA CutStep ==
    ASSUME CellsDiffer, TypeOK, EntryInv, ResultInv, FreshInv, CutInv, [Next]_vars
    PROVE  CutInv'
<1>a. /\ config \in Configs /\ config \in Nat /\ cell \in 1..Len(Cells[config])
      /\ attempt \in Nat /\ Len(Cells[config]) \in Nat \ {0}
      /\ cut \subseteq Configs /\ Configs \subseteq Nat
  BY CellFacts, RetryAssumption DEF TypeOK
<1>b. \A c \in cut : c < config => HasFailed(results', c)
  BY <1>a, FailedStays DEF CutInv
<1>c. ASSUME cut' = cut, config \in cut => HasFailed(results', config), NextConfig
      PROVE  CutInv'
  BY <1>a, <1>b, <1>c DEF NextConfig, CutInv
<1>1. CASE Load
  BY <1>1 DEF Load, cellVars, CutInv
<1>2. CASE LoadLeaves
  BY <1>2 DEF LoadLeaves, Leave, cellVars, CutInv
<1>3. CASE Construct
  BY <1>3 DEF Construct, cellVars, CutInv
<1>4. CASE ConstructFails
  BY <1>4 DEF ConstructFails, Leave, cellVars, CutInv
<1>5. CASE SetUpCompletes
  BY <1>5 DEF SetUpCompletes, cellVars, CutInv
<1>6. CASE SetUpFails
  <2>1. \A i \in DOMAIN results : results[i].config # config
    <3>1. \A i \in DOMAIN results : results[i].config < config
      BY <1>6 DEF SetUpFails, FreshInv
    <3>2. \A i \in DOMAIN results : results[i] \in ResultType
      <4>1. results \in Seq(ResultType)
        BY DEF TypeOK, ResultType
      <4> QED
        BY <4>1
    <3>3. \A i \in DOMAIN results : results[i].config \in Nat
      BY <3>2, CellFacts DEF ResultType
    <3> QED
      BY <1>a, <3>1, <3>3
  <2>2. Unmarked(results, config, 1)
    BY <1>a, <2>1 DEF Unmarked, Has
  <2>3. /\ results' = results /\ config' = config /\ pc' = "left_lifecycle"
        /\ pc = "setup"
        /\ \/ cut' = cut
           \/ cut' = cut \cup {config} /\ leaving' = "cancelled"
    BY <1>6 DEF SetUpFails
  <2>4. CASE cut' = cut
    BY <2>3, <2>4 DEF CutInv
  <2>5. CASE cut' = cut \cup {config} /\ leaving' = "cancelled"
    BY <1>a, <2>2, <2>3, <2>5 DEF CutInv
  <2> QED
    BY <2>3, <2>4, <2>5
<1>7. ASSUME NEW how, NEW kind, PlaybookEnds(how, kind) PROVE CutInv'
  <2>1. pc = "cell" /\ pc' \in {"cell", "teardown"} /\ config' = config /\ cut' = cut
    BY <1>7 DEF PlaybookEnds, FirstTry, Retried, NextCell
  <2> QED
    BY <1>b, <2>1 DEF CutInv
<1>8. CASE PlaybookCancelled
  <2>1. /\ results' = results /\ config' = config /\ pc' = "teardown"
        /\ cut' = cut \cup {config} /\ leaving' = "cancelled" /\ pc = "cell"
    BY <1>8 DEF PlaybookCancelled
  <2>2. CASE attempt = 0
    <3>1. ~Has(results, config, Cells[config][cell])
      BY <1>a, <2>1, <2>2 DEF FreshInv
    <3>2. Unmarked(results, config, 1)
      BY <1>a, <3>1 DEF Unmarked
    <3> QED
      BY <1>a, <2>1, <3>2 DEF CutInv
  <2>3. CASE attempt # 0
    <3>1. attempt > 0 /\ original \in DOMAIN results
      BY <1>a, <2>3 DEF TypeOK
    <3>2. HasFailed(results, config)
      BY <2>1, <3>1 DEF FreshInv, HasFailed
    <3> QED
      BY <1>a, <2>1, <3>2 DEF CutInv
  <2> QED
    BY <2>2, <2>3
<1>9. CASE TearDownEnds
  BY <1>9 DEF TearDownEnds, cellVars, CutInv
<1>10. CASE LifecycleReturns
  <2>1. config \notin cut /\ cut' = cut /\ NextConfig
    BY <1>10 DEF LifecycleReturns, CutInv
  <2> QED
    BY <1>c, <2>1
<1>11. CASE MainCrashes
  BY <1>11 DEF MainCrashes, cellVars, CutInv
<1>12. CASE LifecycleRaises
  BY <1>12 DEF LifecycleRaises, CutInv
<1>13. CASE MarkRemaining
  <2>1. pc = "mark" /\ NextMark /\ cut' = cut
    BY <1>13 DEF MarkRemaining
  <2>2. config \in cut =>
          HasFailed(results', config)
            \/ (cell # Len(Cells[config]) /\ Unmarked(results', config, cell + 1))
    BY <1>13, <2>1, MarkFails DEF CutInv, CellsDiffer
  <2>3. CASE cell = Len(Cells[config])
    <3>1. NextConfig
      BY <2>1, <2>3 DEF NextMark
    <3> QED
      BY <1>c, <2>1, <2>2, <2>3, <3>1
  <2>4. CASE cell # Len(Cells[config])
    <3>1. /\ cell' = cell + 1
          /\ UNCHANGED <<pc, config, leaving>>
      BY <2>1, <2>4 DEF NextMark
    <3> QED
      BY <1>b, <2>1, <2>2, <3>1 DEF CutInv
  <2> QED
    BY <2>3, <2>4
<1>14. CASE Report
  BY <1>14 DEF Report, cellVars, CutInv
<1>15. CASE ReportFails
  BY <1>15 DEF ReportFails, Leave, cellVars, CutInv
<1>16. CASE TimeoutFires
  BY <1>16 DEF TimeoutFires, cellVars, CutInv
<1>17. CASE UNCHANGED vars
  BY <1>17 DEF vars, CutInv
<1> QED
  BY <1>1, <1>2, <1>3, <1>4, <1>5, <1>6, <1>7, <1>8, <1>9, <1>10, <1>11, <1>12,
     <1>13, <1>14, <1>15, <1>16, <1>17 DEF Next, MainStep, Terminated

(***************************************************************************)
(* Theorems                                                                *)
(***************************************************************************)

\* The variables of main() keep their shapes, through retries, timeouts, stray
\* cancellations and failed setups.
THEOREM OSSTypeCorrect == Spec => []TypeOK
<1>1. TypeOK /\ [Next]_vars => TypeOK'
  BY TypeStep
<1> QED
  BY <1>1, TypeInit, PTL DEF Spec

\* Whatever was cancelled, timed out or failed, a bed that was set up is torn down
\* before main() sets up the next one or ends: the `finally` of _run_lifecycle.
THEOREM SetUpTornDownHolds == Spec => []SetUpTornDown
<1>1. Init => BedInv
  BY DEF Init, BedInv
<1>2. TypeOK /\ BedInv /\ [Next]_vars => BedInv'
  BY BedStep
<1>3. BedInv => SetUpTornDown
  BY DEF BedInv, SetUpTornDown
<1> QED
  BY <1>1, <1>2, <1>3, OSSTypeCorrect, PTL DEF Spec

\* get_exit_code returns 0 only when the newest result of every cell is a pass or
\* a skip, for any number of results and any order of them.
THEOREM SuccessIsEarnedHolds == Spec => []SuccessIsEarned
<1>1. Init => EarnedInv
  BY DEF Init, EarnedInv
<1>2. TypeOK /\ EarnedInv /\ [Next]_vars => EarnedInv'
  BY EarnedStep
<1>3. TypeOK /\ EarnedInv => SuccessIsEarned
  <2> SUFFICES ASSUME TypeOK, EarnedInv, pc = "done", exit = "SUCCESS",
                      NEW c \in Configs, NEW x \in AllCells, HasResult(c, x)
               PROVE  ~Failed(Newest(c, x))
    BY DEF SuccessIsEarned
  <2>1. \A i \in DOMAIN results : ~Failed(results[i])
    BY ExitCodeFacts DEF EarnedInv
  <2>2. /\ Len(results) \in Nat /\ DOMAIN results = 1..Len(results)
        /\ ResultsOf(c, x) \in SUBSET (1..Len(results)) /\ ResultsOf(c, x) # {}
    BY DEF TypeOK, ResultsOf, HasResult
  <2>3. Max(ResultsOf(c, x)) \in ResultsOf(c, x)
    BY <2>2, MaxIsMember
  <2> QED
    BY <2>1, <2>2, <2>3 DEF Newest
<1> QED
  BY <1>1, <1>2, <1>3, OSSTypeCorrect, PTL DEF Spec

\* When no two configs share a cell, every cell of every config has a result when
\* main() is done: it was run, or the loop after the lifecycle marked it.
THEOREM RemainingMarkedHolds ==
    ASSUME NoSharedCells
    PROVE  Spec => []RemainingMarked
<1> DEFINE Inv == TypeOK /\ EntryInv /\ ResultInv /\ MarkedInv
<1>1. Init => Inv
  BY TypeInit, CellFacts DEF Init, EntryInv, ResultInv, MarkedInv
<1>2. Inv /\ [Next]_vars => Inv'
  BY TypeStep, EntryStep, ResultStep, MarkedStep
<1>3. Inv => RemainingMarked
  <2> SUFFICES ASSUME Inv, pc = "done", NEW c \in Configs, NEW k \in DOMAIN Cells[c]
               PROVE  HasResult(c, Cells[c][k])
    BY DEF RemainingMarked
  <2>1. AllMarked(results, c)
    BY CellFacts DEF TypeOK, MarkedInv
  <2> QED
    BY <2>1 DEF AllMarked, Has, HasResult, ResultsOf
<1> QED
  BY <1>1, <1>2, <1>3, PTL DEF Spec
\* When no cell occurs twice, main() never returns 0 after the timer cut a config
\* off in its setup or in a cell, whatever was retried before and passed after.
THEOREM CutOffIsSeenHolds ==
    ASSUME CellsDiffer
    PROVE  Spec => []CutOffIsSeen
<1> DEFINE Inv == TypeOK /\ EarnedInv /\ EntryInv /\ ResultInv /\ FreshInv /\ CutInv
<1>1. Init => Inv
  BY TypeInit, CellFacts DEF Init, EarnedInv, EntryInv, ResultInv, FreshInv, CutInv
<1>2. Inv /\ [Next]_vars => Inv'
  BY TypeStep, EarnedStep, EntryStep, ResultStep, FreshStep, CutStep
<1>3. Inv => CutOffIsSeen
  <2> SUFFICES ASSUME Inv, pc = "done", exit = "SUCCESS", NEW c \in cut
               PROVE  FALSE
    BY DEF CutOffIsSeen
  <2>1. \A i \in DOMAIN results : ~Failed(results[i])
    BY ExitCodeFacts DEF EarnedInv
  <2>2. c < config \/ c = config
    BY CellFacts DEF TypeOK, CutInv
  <2>3. HasFailed(results, c)
    BY <2>2 DEF CutInv
  <2> QED
    BY <2>1, <2>3 DEF HasFailed
<1> QED
  BY <1>1, <1>2, <1>3, PTL DEF Spec
=============================================================================
