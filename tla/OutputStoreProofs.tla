------------------------- MODULE OutputStoreProofs -------------------------
(***************************************************************************)
(* Proofs about OutputStore, for any number of runs, results and processes *)
(* - except that the history grows, which needs all runs in one process -  *)
(* and about HistoryList above it, for any runs of the window among them,  *)
(* any number of names, results and rows.                                  *)
(***************************************************************************)
EXTENDS HistoryList, WellFoundedInduction, TLAPS

(* A run's directory is its own from mkdir on, until it reports it. *)
Own(r) ==
    /\ step[r] = "summary" => dirs[index[r]].owner = r
    /\ step[r] = "publish" => dirs[index[r]] = [owner |-> r, summary |-> "partial"]
    /\ step[r] \in {"running", "mkdir", "summary", "publish"} => ~audited[r]
    /\ audited[r] => dirs[index[r]] = [owner |-> r, summary |-> "whole"]

MadeIsOwn == \A r \in Runs : Own(r)

(* What is about to replace the history is whole runs too. *)
TmpWhole == \A r \in Runs : step[r] = "replace" => Whole(tmp[r])

FilesInv ==
    /\ OutputTypeOK
    /\ MadeIsOwn
    /\ HistoryWhole
    /\ TmpWhole

(* Who holds the lock of the history, and what it is about to become. *)
HolderIsAlone ==
    \A r \in Runs : step[r] \in {"copy", "replace"} => lock[ProcessOf[r]] = r

TmpExtends ==
    \A r \in Runs : step[r] = "replace" => tmp[r] = history \o NewLines(r)

AppendInv ==
    /\ OutputTypeOK
    /\ HolderIsAlone
    /\ TmpExtends

----------------------------------------------------------------------------
(* The lines of a run are a sequence of lines. *)
LEMMA NewLinesType ==
    ASSUME NEW r \in Runs
    PROVE  NewLines(r) \in Seq(Lines) /\ Len(NewLines(r)) = Results[r]
BY OutputConstants DEF NewLines, Lines

(* A whole history and the lines of one more run are a whole history. *)
LEMMA AppendWhole ==
    ASSUME NEW h \in Seq(Lines), Whole(h), NEW r \in Runs
    PROVE  Whole(h \o NewLines(r))
<1> DEFINE n == Results[r]
           new == NewLines(r)
           g == h \o new
<1>1. n \in Nat /\ Len(h) \in Nat /\ new \in Seq(Lines) /\ Len(new) = n
  BY NewLinesType, OutputConstants
<1>2. g \in Seq(Lines) /\ Len(g) = Len(h) + n
  BY <1>1
<1>3. \A i \in 1 .. Len(h) : g[i] = h[i]
  BY <1>1
<1>4. \A k \in 1 .. n : g[Len(h) + k] = <<r, k>>
  BY <1>1 DEF NewLines
<1> SUFFICES ASSUME NEW i \in 1 .. Len(g)
             PROVE  /\ i - g[i][2] >= 0
                    /\ i - g[i][2] + Results[g[i][1]] <= Len(g)
                    /\ \A k \in 1 .. Results[g[i][1]] : g[i - g[i][2] + k] = <<g[i][1], k>>
    BY DEF Whole
<1>5. CASE i \in 1 .. Len(h)
  <2> DEFINE q == h[i][1]
             b == i - h[i][2]
  <2>1. h[i] \in Runs \X (Nat \ {0})
    BY <1>5 DEF Lines
  <2>2. q \in Runs /\ h[i][2] \in Nat \ {0} /\ Results[q] \in Nat
    BY <2>1, OutputConstants
  <2>3. b >= 0 /\ b + Results[q] <= Len(h) /\ \A k \in 1 .. Results[q] : h[b + k] = <<q, k>>
    BY <1>5 DEF Whole
  <2>4. \A k \in 1 .. Results[q] : b + k \in 1 .. Len(h)
    BY <2>2, <2>3, <1>1, <1>5
  <2>5. g[i] = h[i] /\ g[i][1] = q /\ i - g[i][2] = b
    BY <1>3, <1>5
  <2>6. b \in Int /\ b + Results[q] <= Len(g)
    BY <1>1, <1>2, <1>5, <2>2, <2>3
  <2>7. \A k \in 1 .. Results[q] : g[b + k] = <<q, k>>
    BY <1>3, <2>3, <2>4
  <2> HIDE DEF g, q, b
  <2> QED BY <2>3, <2>5, <2>6, <2>7
<1>6. CASE i \notin 1 .. Len(h)
  <2>1. PICK k \in 1 .. n : i = Len(h) + k
    <3>1. i - Len(h) \in 1 .. n /\ i = Len(h) + (i - Len(h))
      BY <1>1, <1>2, <1>6
    <3> QED BY <3>1
  <2>2. g[i] = <<r, k>>
    BY <1>4, <2>1
  <2>3. i - g[i][2] = Len(h) /\ g[i][1] = r
    BY <2>1, <2>2, <1>1
  <2>4. Len(h) >= 0 /\ Len(h) + Results[r] <= Len(g)
    BY <1>1, <1>2
  <2> HIDE DEF g
  <2> QED BY <1>4, <2>3, <2>4
<1> QED BY <1>5, <1>6

LEMMA FilesInitially == OutputInit => FilesInv
BY OutputConstants
   DEF OutputInit, FilesInv, OutputTypeOK, MadeIsOwn, Own, HistoryWhole, TmpWhole,
       Whole, Steps, Names, NoDir

(* Every step keeps the types. *)
LEMMA FilesTypeStep == OutputTypeOK /\ [OutputNext]_outputVars => OutputTypeOK'
<1> SUFFICES ASSUME OutputTypeOK, [OutputNext]_outputVars
             PROVE  OutputTypeOK'
    OBVIOUS
<1> USE OutputConstants DEF OutputTypeOK, Steps, Goto
<1>1. ASSUME NEW r \in Runs, Finalize(r) PROVE OutputTypeOK'
  BY <1>1 DEF Finalize
<1>2. ASSUME NEW r \in Runs, MakeDir(r) PROVE OutputTypeOK'
  BY <1>2 DEF MakeDir
<1>3. ASSUME NEW r \in Runs, NameTaken(r) PROVE OutputTypeOK'
  BY <1>3 DEF NameTaken, Names
<1>4. ASSUME NEW r \in Runs, WriteSummary(r) PROVE OutputTypeOK'
  BY <1>4 DEF WriteSummary
<1>5. ASSUME NEW r \in Runs, PublishSummary(r) PROVE OutputTypeOK'
  BY <1>5 DEF PublishSummary
<1>6. ASSUME NEW r \in Runs, AuditFails(r) PROVE OutputTypeOK'
  BY <1>6 DEF AuditFails
<1>7. ASSUME NEW r \in Runs, PrepareLines(r) PROVE OutputTypeOK'
  BY <1>7 DEF PrepareLines
<1>8. ASSUME NEW r \in Runs, LockHistory(r) PROVE OutputTypeOK'
  BY <1>8 DEF LockHistory
<1>9. ASSUME NEW r \in Runs, CopyHistory(r) PROVE OutputTypeOK'
  BY <1>9, NewLinesType DEF CopyHistory
<1>10. ASSUME NEW r \in Runs, ReplaceHistory(r) PROVE OutputTypeOK'
  BY <1>10 DEF ReplaceHistory
<1>11. ASSUME NEW r \in Runs, HistoryFails(r) PROVE OutputTypeOK'
  BY <1>11 DEF HistoryFails
<1>12. ASSUME NEW p \in Processes, Kill(p) PROVE OutputTypeOK'
  BY <1>12 DEF Kill
<1>13. ASSUME UNCHANGED outputVars PROVE OutputTypeOK'
  BY <1>13 DEF outputVars
<1> QED
  BY <1>1, <1>2, <1>3, <1>4, <1>5, <1>6,
     <1>7, <1>8, <1>9, <1>10, <1>11, <1>12, <1>13
     DEF OutputNext, SaveStep

(* Every step keeps the audits apart and the history whole. *)
LEMMA FilesStep == FilesInv /\ [OutputNext]_outputVars => FilesInv'
<1> SUFFICES ASSUME FilesInv, [OutputNext]_outputVars
             PROVE  FilesInv'
    OBVIOUS
<1>a. OutputTypeOK /\ OutputTypeOK'
  BY FilesTypeStep DEF FilesInv
<1> DEFINE Audits == MadeIsOwn
           History == HistoryWhole /\ TmpWhole
<1>b. Audits /\ History
  BY DEF FilesInv
<1>c. Audits'
  <2>0. \A q \in Runs :
          step[q] \in {"summary", "publish"} \/ audited[q] => dirs[index[q]].owner = q
    <3>1. \A q \in Runs : step[q] = "summary" => dirs[index[q]].owner = q
      BY <1>b DEF MadeIsOwn, Own
    <3>2. ASSUME NEW q \in Runs, step[q] = "publish" PROVE dirs[index[q]].owner = q
      <4>1. dirs[index[q]] = [owner |-> q, summary |-> "partial"]
        BY <1>b, <3>2 DEF MadeIsOwn, Own
      <4> QED BY <4>1
    <3>3. ASSUME NEW q \in Runs, audited[q] PROVE dirs[index[q]].owner = q
      <4>1. dirs[index[q]] = [owner |-> q, summary |-> "whole"]
        BY <1>b, <3>3 DEF MadeIsOwn, Own
      <4> QED BY <4>1
    <3> QED BY <3>1, <3>2, <3>3
  <2> USE <1>a, <1>b, OutputConstants DEF OutputTypeOK, Steps, Goto, NoDir, MadeIsOwn, Own
  <2>1. ASSUME NEW r \in Runs, Finalize(r) PROVE Audits'
    BY <2>1 DEF Finalize
  <2>2. ASSUME NEW r \in Runs, MakeDir(r) PROVE Audits'
    <3>1. index[r] \in Names /\ dirs[index[r]].owner \in {r, NoRun}
      BY <2>2 DEF MakeDir
    <3>2. \A i \in Names : i # index[r] => dirs'[i] = dirs[i]
      BY <2>2 DEF MakeDir
    <3>3. index' = index /\ \A q \in Runs : q # r => step'[q] = step[q] /\ audited'[q] = audited[q]
      BY <2>2 DEF MakeDir
    <3>4. ASSUME NEW q \in Runs, q # r, index[q] = index[r]
          PROVE  step[q] \notin {"summary", "publish"} /\ ~audited[q]
      BY <2>0, <3>1, <3>4
    <3>5. ASSUME NEW q \in Runs, q # r
          PROVE  Own(q)'
      BY <3>2, <3>3, <3>4, <3>5
    <3>6. Own(r)'
      BY <2>2, <3>1 DEF MakeDir
    <3>7. \A q \in Runs : Own(q)'
      BY <3>5, <3>6
    <3> HIDE DEF Own
    <3> QED BY <3>7
  <2>3. ASSUME NEW r \in Runs, NameTaken(r) PROVE Audits'
    <3>1. dirs' = dirs /\ audited' = audited /\ step[r] = "mkdir" /\ step'[r] \in {"mkdir", "history"}
      BY <2>3 DEF NameTaken
    <3>2. \A q \in Runs : q # r => step'[q] = step[q] /\ index'[q] = index[q]
      BY <2>3 DEF NameTaken
    <3> QED BY <3>1, <3>2
  <2>4. ASSUME NEW r \in Runs, WriteSummary(r) PROVE Audits'
    <3>1. index[r] \in Names /\ dirs[index[r]].owner \in {r, NoRun}
      BY <2>4, <2>0 DEF WriteSummary
    <3>2. \A i \in Names : i # index[r] => dirs'[i] = dirs[i]
      BY <2>4 DEF WriteSummary
    <3>3. index' = index /\ \A q \in Runs : q # r => step'[q] = step[q] /\ audited'[q] = audited[q]
      BY <2>4 DEF WriteSummary
    <3>4. ASSUME NEW q \in Runs, q # r, index[q] = index[r]
          PROVE  step[q] \notin {"summary", "publish"} /\ ~audited[q]
      BY <2>0, <3>1, <3>4
    <3>5. ASSUME NEW q \in Runs, q # r
          PROVE  Own(q)'
      BY <3>2, <3>3, <3>4, <3>5
    <3>6. Own(r)'
      BY <2>4, <3>1 DEF WriteSummary
    <3>7. \A q \in Runs : Own(q)'
      BY <3>5, <3>6
    <3> HIDE DEF Own
    <3> QED BY <3>7
  <2>5. ASSUME NEW r \in Runs, PublishSummary(r) PROVE Audits'
    <3>1. index[r] \in Names /\ dirs[index[r]].owner \in {r, NoRun}
      BY <2>5, <2>0 DEF PublishSummary
    <3>2. \A i \in Names : i # index[r] => dirs'[i] = dirs[i]
      BY <2>5 DEF PublishSummary
    <3>3. index' = index /\ \A q \in Runs : q # r => step'[q] = step[q] /\ audited'[q] = audited[q]
      BY <2>5 DEF PublishSummary
    <3>4. ASSUME NEW q \in Runs, q # r, index[q] = index[r]
          PROVE  step[q] \notin {"summary", "publish"} /\ ~audited[q]
      BY <2>0, <3>1, <3>4
    <3>5. ASSUME NEW q \in Runs, q # r
          PROVE  Own(q)'
      BY <3>2, <3>3, <3>4, <3>5
    <3>6. Own(r)'
      <4>1. dirs[index[r]] = [owner |-> r, summary |-> "partial"]
        BY <2>5 DEF PublishSummary
      <4>2. dirs'[index[r]] = [dirs[index[r]] EXCEPT !.summary = "whole"]
        BY <2>5, <3>1 DEF PublishSummary
      <4>3. dirs'[index[r]] = [owner |-> r, summary |-> "whole"]
        BY <4>1, <4>2
      <4> QED BY <2>5, <3>3, <4>3 DEF PublishSummary
    <3>7. \A q \in Runs : Own(q)'
      BY <3>5, <3>6
    <3> HIDE DEF Own
    <3> QED BY <3>7
  <2>6. ASSUME NEW r \in Runs, AuditFails(r) PROVE Audits'
    <3>1. ~audited'[r] /\ step'[r] = "history"
      BY <2>6 DEF AuditFails
    <3>2. index' = index /\ \A q \in Runs : q # r => step'[q] = step[q] /\ audited'[q] = audited[q]
      BY <2>6 DEF AuditFails
    <3>3. CASE dirs' = dirs
      BY <3>1, <3>2, <3>3
    <3>4. CASE step[r] = "publish"
      <4>1. index[r] \in Names /\ dirs[index[r]].owner = r
        BY <2>0, <3>4
      <4>2. \A i \in Names : i # index[r] => dirs'[i] = dirs[i]
        BY <2>6, <3>4 DEF AuditFails
      <4>3. ASSUME NEW q \in Runs, q # r, index[q] = index[r]
            PROVE  step[q] \notin {"summary", "publish"} /\ ~audited[q]
        BY <2>0, <4>1, <4>3
      <4>4. Own(r)'
        BY <3>1
      <4>5. ASSUME NEW q \in Runs, q # r PROVE Own(q)'
        BY <3>2, <4>2, <4>3, <4>5
      <4>6. \A q \in Runs : Own(q)'
        BY <4>4, <4>5
      <4> HIDE DEF Own
      <4> QED BY <4>6
    <3> QED BY <2>6, <3>3, <3>4 DEF AuditFails
  <2>7. ASSUME NEW r \in Runs, PrepareLines(r) PROVE Audits'
    BY <2>7 DEF PrepareLines
  <2>8. ASSUME NEW r \in Runs, LockHistory(r) PROVE Audits'
    BY <2>8 DEF LockHistory
  <2>9. ASSUME NEW r \in Runs, CopyHistory(r) PROVE Audits'
    BY <2>9, NewLinesType DEF CopyHistory
  <2>10. ASSUME NEW r \in Runs, ReplaceHistory(r) PROVE Audits'
    BY <2>10 DEF ReplaceHistory
  <2>11. ASSUME NEW r \in Runs, HistoryFails(r) PROVE Audits'
    BY <2>11 DEF HistoryFails
  <2>12. ASSUME NEW p \in Processes, Kill(p) PROVE Audits'
    BY <2>12 DEF Kill
  <2>13. ASSUME UNCHANGED outputVars PROVE Audits'
    BY <2>13 DEF outputVars
  <2> QED
    BY <2>1, <2>2, <2>3, <2>4, <2>5, <2>6,
       <2>7, <2>8, <2>9, <2>10, <2>11, <2>12, <2>13
       DEF OutputNext, SaveStep
<1>d. History'
  <2>1. ASSUME NEW r \in Runs, CopyHistory(r) PROVE History'
    <3>1. Whole(history \o NewLines(r))
      BY <1>a, <1>b, AppendWhole DEF OutputTypeOK, HistoryWhole
    <3> QED BY <1>a, <1>b, <2>1, <3>1
            DEF OutputTypeOK, CopyHistory, Goto, HistoryWhole, TmpWhole
  <2>2. ASSUME NEW r \in Runs, ReplaceHistory(r) PROVE History'
    BY <1>a, <1>b, <2>2 DEF OutputTypeOK, ReplaceHistory, Goto, HistoryWhole, TmpWhole
  <2>3. ASSUME history' = history,
               \A r \in Runs : step'[r] = "replace" => step[r] = "replace" /\ tmp'[r] = tmp[r]
        PROVE  History'
    BY <1>b, <2>3 DEF HistoryWhole, TmpWhole
  <2>4. \/ \E r \in Runs : CopyHistory(r) \/ ReplaceHistory(r)
        \/ /\ history' = history
           /\ \A r \in Runs :
                 step'[r] = "replace" => step[r] = "replace" /\ tmp'[r] = tmp[r]
    BY <1>a
       DEF OutputTypeOK, Goto, OutputNext, SaveStep, Finalize, MakeDir, NameTaken, WriteSummary,
           PublishSummary, AuditFails, PrepareLines, LockHistory,
           HistoryFails, Kill, outputVars
  <2> QED BY <2>1, <2>2, <2>3, <2>4
<1> QED BY <1>a, <1>c, <1>d DEF FilesInv

(* The list is above the files: every step of it is a step of OutputStore,  *)
(* or leaves the files alone.                                               *)
LEMMA ListStepIsOutputStep ==
    ASSUME [ListNext]_<<outputVars, listVars>>
    PROVE  [OutputNext]_outputVars
BY ListConstants
   DEF ListNext, OpenWindow, BrowseOutputDir, ClearHistory, WindowGone, Begin, Save,
       AppendHistoryRows, OtherGone, OutputNext

(* What the runs do to the files, with or without the window above them and *)
(* whether or not they go on.                                               *)
OutputSteps == OutputInit /\ [][OutputNext]_outputVars

(* The list is only above the files: whatever the window does, they are     *)
(* used as OutputStore says.                                                *)
THEOREM ListUsesFiles == ListSpec => OutputSteps
<1>1. ListInit => OutputInit
  BY DEF ListInit
<1>2. [ListNext]_<<outputVars, listVars>> => [OutputNext]_outputVars
  BY ListStepIsOutputStep
<1> QED BY <1>1, <1>2, PTL DEF ListSpec, OutputSteps

LEMMA WithoutFairness == OutputSpec => OutputSteps
BY PTL DEF OutputSpec, OutputSteps

(* Every directory belongs to the run that made it, and the history is     *)
(* whole: what FilesInv says always holds.                                  *)
THEOREM FilesInvariant == OutputSpec \/ ListSpec => []FilesInv
<1>1. OutputSteps => []FilesInv
  BY FilesInitially, FilesStep, PTL DEF OutputSteps
<1> QED BY <1>1, WithoutFairness, ListUsesFiles, PTL

(* OutputStore keeps its types. *)
THEOREM OutputTypes == OutputSpec \/ ListSpec => []OutputTypeOK
<1>1. FilesInv => OutputTypeOK
  BY DEF FilesInv
<1> QED BY FilesInvariant, <1>1, PTL

(* A reported audit path leads to the run's own complete summary, however   *)
(* many runs of however many processes ask for the same directory name.     *)
THEOREM AuditsAreOwn == OutputSpec \/ ListSpec => []AuditIsOwn
<1>1. FilesInv => AuditIsOwn
  BY DEF FilesInv, MadeIsOwn, Own, AuditIsOwn
<1> QED BY FilesInvariant, <1>1, PTL

(* The history holds all lines of a run or none, whoever is killed when.    *)
THEOREM HistoryIsWhole == OutputSpec \/ ListSpec => []HistoryWhole
<1>1. FilesInv => HistoryWhole
  BY DEF FilesInv
<1> QED BY FilesInvariant, <1>1, PTL

----------------------------------------------------------------------------
LEMMA AppendInitially == OutputInit => AppendInv
BY FilesInitially DEF OutputInit, FilesInv, AppendInv, HolderIsAlone, TmpExtends

(* In one process, who holds the lock is alone with the history. *)
LEMMA AppendStep == OneLock /\ AppendInv /\ [OutputNext]_outputVars => AppendInv'
<1> SUFFICES ASSUME OneLock, AppendInv, [OutputNext]_outputVars
             PROVE  AppendInv'
    OBVIOUS
<1>a. OutputTypeOK /\ OutputTypeOK'
  BY FilesTypeStep DEF AppendInv
<1> DEFINE Rest == HolderIsAlone /\ TmpExtends
<1>b. Rest
  BY DEF AppendInv
<1> USE <1>a, <1>b, OutputConstants
    DEF OutputTypeOK, Steps, Goto, HolderIsAlone, TmpExtends, OneLock
<1>1. ASSUME NEW r \in Runs, Finalize(r) PROVE Rest'
  BY <1>1 DEF Finalize
<1>2. ASSUME NEW r \in Runs, MakeDir(r) PROVE Rest'
  BY <1>2 DEF MakeDir
<1>3. ASSUME NEW r \in Runs, NameTaken(r) PROVE Rest'
  BY <1>3 DEF NameTaken, Names
<1>4. ASSUME NEW r \in Runs, WriteSummary(r) PROVE Rest'
  BY <1>4 DEF WriteSummary
<1>5. ASSUME NEW r \in Runs, PublishSummary(r) PROVE Rest'
  BY <1>5 DEF PublishSummary
<1>6. ASSUME NEW r \in Runs, AuditFails(r) PROVE Rest'
  BY <1>6 DEF AuditFails
<1>7. ASSUME NEW r \in Runs, PrepareLines(r) PROVE Rest'
  BY <1>7 DEF PrepareLines
<1>8. ASSUME NEW r \in Runs, LockHistory(r) PROVE Rest'
  BY <1>8 DEF LockHistory
<1>9. ASSUME NEW r \in Runs, CopyHistory(r) PROVE Rest'
  BY <1>9, NewLinesType DEF CopyHistory
<1>10. ASSUME NEW r \in Runs, ReplaceHistory(r) PROVE Rest'
  BY <1>10 DEF ReplaceHistory
<1>11. ASSUME NEW r \in Runs, HistoryFails(r) PROVE Rest'
  BY <1>11 DEF HistoryFails
<1>12. ASSUME NEW p \in Processes, Kill(p) PROVE Rest'
  BY <1>12 DEF Kill
<1>13. ASSUME UNCHANGED outputVars PROVE Rest'
  BY <1>13 DEF outputVars
<1>c. Rest'
  BY <1>1, <1>2, <1>3, <1>4, <1>5, <1>6,
     <1>7, <1>8, <1>9, <1>10, <1>11, <1>12, <1>13
     DEF OutputNext, SaveStep
<1> QED BY <1>a, <1>c DEF AppendInv

(* With one process, who copies the history holds its lock and the copy is *)
(* still what the file holds.                                               *)
THEOREM AppendInvariant == ASSUME OneLock PROVE OutputSpec \/ ListSpec => []AppendInv
<1>1. AppendInv /\ [OutputNext]_outputVars => AppendInv'
  BY AppendStep, OneLock
<1>2. OutputSteps => []AppendInv
  BY AppendInitially, <1>1, PTL DEF OutputSteps
<1> QED BY <1>2, WithoutFairness, ListUsesFiles, PTL

(* Only a replacement changes the history, and it adds to it. *)
LEMMA GrowsStep == AppendInv /\ [OutputNext]_outputVars => [Grows]_outputVars
<1> SUFFICES ASSUME AppendInv, OutputNext PROVE Grows
    BY DEF Grows, outputVars
<1>0. OutputTypeOK /\ TmpExtends
  BY DEF AppendInv
<1>1. ASSUME NEW r \in Runs, ReplaceHistory(r) PROVE Grows
  <2>1. history' = history \o NewLines(r) /\ history \in Seq(Lines)
    BY <1>0, <1>1 DEF ReplaceHistory, OutputTypeOK, TmpExtends
  <2>2. NewLines(r) \in Seq(Lines)
    BY NewLinesType
  <2> QED BY <2>1, <2>2 DEF Grows
<1>2. ASSUME history' = history PROVE Grows
  BY <1>0, <1>2 DEF Grows, OutputTypeOK
<1>3. (\E r \in Runs : ReplaceHistory(r)) \/ history' = history
  BY DEF OutputNext, SaveStep, Finalize, MakeDir, NameTaken, WriteSummary, PublishSummary,
         AuditFails, PrepareLines, LockHistory, CopyHistory,
         HistoryFails, Kill
<1> QED BY <1>1, <1>2, <1>3

(* No line of the history is lost while one process writes it.              *)
THEOREM HistoryOnlyGrows == ASSUME OneLock PROVE OutputSpec \/ ListSpec => HistoryGrows
<1>1. AppendInv /\ [OutputNext]_outputVars => [Grows]_outputVars
  BY GrowsStep
<1> QED BY AppendInvariant, <1>1, WithoutFairness, ListUsesFiles, PTL DEF OutputSteps, HistoryGrows

----------------------------------------------------------------------------
(* The list.  A line comes before another one if its run's audit does, or if *)
(* it is an earlier result of the same run.                                 *)
Before(a, b) == index[a[1]] < index[b[1]] \/ (a[1] = b[1] /\ a[2] < b[2])

(* The lines that the history and the audits of the window's runs keep.     *)
Lasts(a) == a[1] \in OwnRuns /\ audited[a[1]]
Stored == {history[k] : k \in Lasting}

Rows == {RowOfResult(a) : a \in Lines}
LinesOf(rows) == {rows[x].line : x \in DOMAIN rows}

(* The lines of a list or of the history are distinct, those of audited own *)
(* runs in order.                                                           *)
Follows(a, b) == a # b /\ (Lasts(a) /\ Lasts(b) => Before(a, b))
Ordered(rows) == \A x, y \in DOMAIN rows : x < y => Follows(rows[x].line, rows[y].line)

(* The stored lines of runs that are over for the window. *)
Settled == {a \in Stored : ~InFlight(a[1])}

(* What a list lacks of these lines is the oldest part. *)
LacksOldest(rows, gone, lines) ==
    \A a \in lines : a \notin LinesOf(rows) =>
        /\ gone \/ Len(rows) >= MaxRows
        /\ \A b \in Stored : Before(b, a) => b \notin LinesOf(rows)

(* Directories are taken in the order of their names, and each complete     *)
(* summary belongs to the run that reports it.                              *)
DirsInOrder ==
    /\ \A i, j \in Names : j < i /\ dirs[i] # NoDir => dirs[j] # NoDir
    /\ \A r \in Runs :
          /\ step[r] = "running" => index[r] = 0
          /\ step[r] \in {"running", "mkdir"} => \A j \in Names : j < index[r] => dirs[j] # NoDir
    /\ \A i \in Names :
          dirs[i].summary = "whole" =>
              dirs[i].owner \in Runs /\ audited[dirs[i].owner] /\ index[dirs[i].owner] = i

(* The window's runs follow each other, so the audit of the one in flight   *)
(* is the last.                                                             *)
OneAfterTheOther ==
    /\ \A r \in OwnRuns : InFlight(r) => open
    /\ \A r \in summaries : r \in OwnRuns /\ step[r] = "ended"
    /\ \A q, r \in OwnRuns : InFlight(q) /\ InFlight(r) => q = r
    /\ \A q, r \in OwnRuns :
          /\ InFlight(r) /\ q # r /\ audited[q]
          /\ step[r] \in {"summary", "publish"} \/ audited[r]
          => index[q] < index[r]

HistoryInOrder ==
    /\ \A k \in DOMAIN history : step[history[k][1]] = "ended"
    /\ \A j, k \in DOMAIN history : j < k => Follows(history[j], history[k])

(* The rows of the list: at most MaxRows, in order, none of a run that is   *)
(* not over for the window, and only the oldest missing.                    *)
ListInv ==
    /\ open \in BOOLEAN /\ cleared \in BOOLEAN
    /\ shown \in Seq(Rows) /\ Len(shown) <= MaxRows
    /\ Ordered(shown)
    /\ \A a \in LinesOf(shown) : a[1] \in OwnRuns => ~InFlight(a[1]) /\ step[a[1]] # "running"
    /\ open => LacksOldest(shown, cleared, Settled)

(* Directories stay in order. *)
LEMMA DirsStep ==
    ASSUME FilesInv, DirsInOrder, [OutputNext]_outputVars
    PROVE  DirsInOrder'
<1> DEFINE Prefix == \A i, j \in Names : j < i /\ dirs[i] # NoDir => dirs[j] # NoDir
           Tried == \A r \in Runs :
               /\ step[r] = "running" => index[r] = 0
               /\ step[r] \in {"running", "mkdir"} =>
                     \A j \in Names : j < index[r] => dirs[j] # NoDir
           Reported == \A i \in Names :
               dirs[i].summary = "whole" =>
                   dirs[i].owner \in Runs /\ audited[dirs[i].owner] /\ index[dirs[i].owner] = i
<1>1. Prefix /\ Tried /\ Reported
  BY DEF DirsInOrder
<1>2. OutputTypeOK /\ MadeIsOwn /\ OutputTypeOK'
  BY FilesTypeStep DEF FilesInv
<1>3. ASSUME NEW i \in Names, dirs[i].owner \in Runs PROVE dirs[i] # NoDir
  BY <1>3, OutputConstants DEF NoDir
<1>4. \A r \in Runs : step[r] \in {"summary", "publish"} =>
         dirs[index[r]].owner = r /\ ~audited[r] /\ dirs[index[r]] # NoDir /\ index[r] \in Names
  <2> SUFFICES ASSUME NEW r \in Runs, step[r] \in {"summary", "publish"}
               PROVE  dirs[index[r]].owner = r /\ ~audited[r] /\ index[r] \in Names
      BY <1>3
  <2>1. Own(r)
    BY <1>2 DEF MadeIsOwn
  <2>2. dirs[index[r]].owner = r
    <3>1. CASE step[r] = "publish"
      <4>1. dirs[index[r]] = [owner |-> r, summary |-> "partial"]
        BY <2>1, <3>1 DEF Own
      <4> QED BY <4>1
    <3> QED BY <2>1, <3>1 DEF Own
  <2> QED BY <1>2, <2>1, <2>2 DEF Own, OutputTypeOK
<1>5. CASE /\ dirs' = dirs /\ index' = index /\ audited' = audited
           /\ \A r \in Runs : /\ step'[r] = "running" => step[r] = "running"
                              /\ step'[r] = "mkdir" => step[r] \in {"running", "mkdir"}
  BY <1>1, <1>5 DEF DirsInOrder
<1>6. ASSUME NEW r \in Runs, MakeDir(r) PROVE DirsInOrder'
  <2> DEFINE made == [owner |-> r, summary |-> "none"]
  <2>1. /\ step[r] = "mkdir" /\ index' = index /\ audited' = audited
        /\ step' = [step EXCEPT ![r] = "summary"]
        /\ dirs[index[r]] = NoDir
        /\ dirs' = [dirs EXCEPT ![index[r]] = made]
    BY <1>6 DEF MakeDir, Goto
  <2>2. made # NoDir /\ made.summary = "none"
    BY OutputConstants DEF NoDir
  <2>3. index[r] \in Names /\ dirs'[index[r]] = made
        /\ \A i \in Names : i # index[r] => dirs'[i] = dirs[i]
    BY <1>2, <2>1 DEF OutputTypeOK
  <2>4. \A i \in Names : dirs[i] # NoDir => dirs'[i] # NoDir
    BY <2>2, <2>3
  <2> HIDE DEF made
  <2>5. Prefix'
    <3> SUFFICES ASSUME NEW i \in Names, NEW j \in Names, j < i, dirs'[i] # NoDir
                 PROVE  dirs'[j] # NoDir
        OBVIOUS
    <3>1. CASE i = index[r]
      BY <1>1, <2>1, <2>4, <3>1
    <3>2. CASE i # index[r]
      BY <1>1, <2>3, <2>4, <3>2
    <3> QED BY <3>1, <3>2
  <2>6. Tried'
    BY <1>1, <1>2, <2>1, <2>4 DEF OutputTypeOK
  <2>7. Reported'
    BY <1>1, <2>1, <2>2, <2>3
  <2> QED BY <2>5, <2>6, <2>7 DEF DirsInOrder
<1>7. ASSUME NEW r \in Runs, NameTaken(r) PROVE DirsInOrder'
  <2>1. dirs' = dirs /\ audited' = audited /\ step[r] = "mkdir" /\ dirs[index[r]] # NoDir
    BY <1>7 DEF NameTaken
  <2>2. \A q \in Runs : q # r => step'[q] = step[q] /\ index'[q] = index[q]
    BY <1>2, <1>7 DEF NameTaken, Goto, OutputTypeOK
  <2>3. \/ step'[r] = "mkdir" /\ index'[r] = index[r] + 1
        \/ step'[r] = "history" /\ index'[r] = index[r]
    BY <1>2, <1>7 DEF NameTaken, Goto, OutputTypeOK
  <2>4. \A j \in Names : j < index[r] + 1 => dirs[j] # NoDir
    BY <1>1, <1>2, <2>1 DEF OutputTypeOK, Names
  <2>5. Tried'
    BY <1>1, <2>1, <2>2, <2>3, <2>4
  <2>6. Reported'
    <3> SUFFICES ASSUME NEW i \in Names, dirs[i].summary = "whole"
                 PROVE  index'[dirs[i].owner] = i
        BY <1>1, <2>1
    <3>1. ~audited[r]
      <4>1. Own(r)
        BY <1>2 DEF MadeIsOwn
      <4> QED BY <2>1, <4>1 DEF Own
    <3>2. dirs[i].owner \in Runs /\ audited[dirs[i].owner] /\ index[dirs[i].owner] = i
      BY <1>1
    <3>3. dirs[i].owner # r
      BY <3>1, <3>2
    <3> QED BY <2>2, <3>2, <3>3
  <2>7. Prefix'
    BY <1>1, <2>1
  <2> QED BY <2>5, <2>6, <2>7 DEF DirsInOrder
<1>8. ASSUME NEW r \in Runs, NEW s \in {"none", "partial", "whole"},
             step[r] \in {"summary", "publish"},
             dirs' = [dirs EXCEPT ![index[r]].summary = s],
             index' = index,
             \A q \in Runs : q # r => step'[q] = step[q] /\ audited'[q] = audited[q],
             step'[r] \notin {"running", "mkdir"},
             s = "whole" => audited'[r]
      PROVE  DirsInOrder'
  <2>1. index[r] \in Names /\ dirs[index[r]].owner = r /\ dirs[index[r]] # NoDir
    BY <1>4, <1>8
  <2>2. dirs'[index[r]].owner = r /\ dirs'[index[r]].summary = s
    BY <1>2, <1>8, <2>1 DEF OutputTypeOK
  <2>3. \A i \in Names : i # index[r] => dirs'[i] = dirs[i]
    BY <1>2, <1>8, <2>1 DEF OutputTypeOK
  <2>4. dirs'[index[r]] # NoDir
    BY <2>2, OutputConstants DEF NoDir
  <2>5. \A i \in Names : (dirs'[i] # NoDir) <=> (dirs[i] # NoDir)
    BY <2>1, <2>3, <2>4
  <2>6. Prefix'
    BY <1>1, <2>5
  <2>7. Tried'
    BY <1>1, <1>8, <2>5
  <2>8. Reported'
    <3> SUFFICES ASSUME NEW i \in Names, dirs'[i].summary = "whole"
                 PROVE  dirs'[i].owner \in Runs /\ audited'[dirs'[i].owner] /\ index[dirs'[i].owner] = i
        BY <1>8
    <3>1. CASE i = index[r]
      BY <1>8, <2>2, <3>1
    <3>2. CASE i # index[r]
      <4>1. dirs'[i] = dirs[i] /\ dirs[i].owner \in Runs /\ audited[dirs[i].owner]
            /\ index[dirs[i].owner] = i
        BY <1>1, <2>3, <3>2
      <4>2. dirs[i].owner # r
        BY <3>2, <4>1
      <4> QED BY <1>8, <4>1, <4>2
    <3> QED BY <3>1, <3>2
  <2> QED BY <2>6, <2>7, <2>8 DEF DirsInOrder
<1>9. ASSUME NEW r \in Runs, WriteSummary(r) \/ PublishSummary(r) PROVE DirsInOrder'
  <2>1. index' = index /\ step[r] \in {"summary", "publish"}
    BY <1>9 DEF WriteSummary, PublishSummary
  <2>2. step'[r] \notin {"running", "mkdir"}
        /\ \A q \in Runs : q # r => step'[q] = step[q] /\ audited'[q] = audited[q]
    BY <1>2, <1>9 DEF WriteSummary, PublishSummary, Goto, OutputTypeOK
  <2>3. \/ dirs' = [dirs EXCEPT ![index[r]].summary = "partial"]
        \/ dirs' = [dirs EXCEPT ![index[r]].summary = "whole"] /\ audited'[r]
    BY <1>2, <1>9 DEF WriteSummary, PublishSummary, OutputTypeOK
  <2> QED BY <1>8, <2>1, <2>2, <2>3
<1>10. ASSUME NEW r \in Runs, AuditFails(r) PROVE DirsInOrder'
  <2>1. index' = index /\ audited' = audited
    BY <1>10 DEF AuditFails
  <2>2. step'[r] = "history" /\ \A q \in Runs : q # r => step'[q] = step[q]
    BY <1>2, <1>10 DEF AuditFails, Goto, OutputTypeOK
  <2>3. CASE step[r] = "publish"
    <3>1. dirs' = [dirs EXCEPT ![index[r]].summary = "none"]
      BY <1>10, <2>3 DEF AuditFails
    <3> QED BY <1>8, <2>1, <2>2, <2>3, <3>1
  <2>4. CASE step[r] # "publish"
    <3>1. dirs' = dirs
      BY <1>10, <2>4 DEF AuditFails
    <3>2. \A q \in Runs : /\ step'[q] = "running" => step[q] = "running"
                          /\ step'[q] = "mkdir" => step[q] \in {"running", "mkdir"}
      BY <2>2
    <3> QED BY <1>5, <2>1, <3>1, <3>2
  <2> QED BY <2>3, <2>4
<1>11. \/ \E r \in Runs : \/ MakeDir(r) \/ NameTaken(r) \/ WriteSummary(r)
                          \/ PublishSummary(r) \/ AuditFails(r)
       \/ /\ dirs' = dirs /\ index' = index /\ audited' = audited
          /\ \A r \in Runs : /\ step'[r] = "running" => step[r] = "running"
                             /\ step'[r] = "mkdir" => step[r] \in {"running", "mkdir"}
  BY <1>2 DEF OutputNext, SaveStep, Finalize, PrepareLines, LockHistory, CopyHistory,
              ReplaceHistory, HistoryFails, Kill, Goto, outputVars, OutputTypeOK
<1> QED BY <1>5, <1>6, <1>7, <1>9, <1>10, <1>11

(* What saving changes: the run that does it is under way, and no other     *)
(* one's progress is touched; a run that has made its directory keeps it.   *)
LEMMA SaveEffect ==
    ASSUME FilesInv, NEW r \in Runs, SaveStep(r)
    PROVE  /\ step[r] \notin {"running", "ended", "killed"}
           /\ step'[r] \notin {"running", "killed"}
           /\ \A q \in Runs : q # r => /\ step'[q] = step[q]
                                       /\ index'[q] = index[q]
                                       /\ audited'[q] = audited[q]
           /\ audited[r] => audited'[r] /\ index'[r] = index[r]
           /\ step'[r] \in {"summary", "publish"} \/ audited'[r] =>
                 /\ index'[r] = index[r]
                 /\ \/ step[r] \in {"summary", "publish"} \/ audited[r]
                    \/ step[r] = "mkdir" /\ dirs[index[r]] = NoDir
<1>1. OutputTypeOK /\ Own(r)
  BY DEF FilesInv, MadeIsOwn
<1>2. step[r] \in {"mkdir", "summary", "publish"} => ~audited[r]
  BY <1>1 DEF Own
<1>3. CASE MakeDir(r)
  BY <1>1, <1>2, <1>3 DEF MakeDir, Goto, OutputTypeOK
<1>4. CASE NameTaken(r)
  BY <1>1, <1>2, <1>4 DEF NameTaken, Goto, OutputTypeOK
<1>5. CASE WriteSummary(r) \/ PublishSummary(r)
  BY <1>1, <1>2, <1>5 DEF WriteSummary, PublishSummary, Goto, OutputTypeOK
<1>6. CASE AuditFails(r)
  BY <1>1, <1>2, <1>6 DEF AuditFails, Goto, OutputTypeOK
<1>7. CASE PrepareLines(r) \/ LockHistory(r) \/ CopyHistory(r) \/ ReplaceHistory(r) \/ HistoryFails(r)
  BY <1>1, <1>7
     DEF PrepareLines, LockHistory, CopyHistory, ReplaceHistory, HistoryFails, Goto, OutputTypeOK
<1> QED BY <1>3, <1>4, <1>5, <1>6, <1>7 DEF SaveStep

(* The own run that makes a directory makes the last one. *)
LEMMA NewDirIsLast ==
    ASSUME FilesInv, DirsInOrder, NEW r \in Runs, dirs[index[r]] = NoDir,
           NEW q \in Runs, audited[q]
    PROVE  index[q] < index[r]
<1>1. Own(q) /\ index[q] \in Names /\ index[r] \in Names
  BY DEF FilesInv, MadeIsOwn, OutputTypeOK
<1>2. dirs[index[q]].owner = q
  BY <1>1 DEF Own
<1>3. dirs[index[q]] # NoDir
  BY <1>2, OutputConstants DEF NoDir
<1>4. ~(index[r] < index[q])
  BY <1>1, <1>3 DEF DirsInOrder
<1> QED BY <1>1, <1>3, <1>4 DEF Names

(* The runs of the window keep following each other. *)
LEMMA OneAfterTheOtherStep ==
    ASSUME FilesInv, DirsInOrder, OneAfterTheOther, [ListNext]_<<outputVars, listVars>>
    PROVE  OneAfterTheOther'
<1>1. OutputTypeOK /\ OwnRuns \subseteq Runs /\ \A r \in OwnRuns : ProcessOf[r] = Window
  BY ListConstants DEF FilesInv
<1>2. CASE /\ step' = step /\ index' = index /\ audited' = audited
           /\ summaries' \subseteq summaries
           /\ open => open'
  BY <1>2 DEF OneAfterTheOther, InFlight
<1>3. ASSUME NEW r \in Runs, Begin(r) PROVE OneAfterTheOther'
  <2>1. /\ step[r] = "running" /\ step'[r] = "mkdir"
        /\ \A q \in Runs : q # r => step'[q] = step[q]
        /\ index' = index /\ audited' = audited /\ summaries' = summaries /\ open' = open
    BY <1>1, <1>3 DEF Begin, Finalize, Goto, OutputTypeOK, listVars
  <2>2. ~audited[r]
    BY <2>1 DEF FilesInv, MadeIsOwn, Own
  <2>3. r \notin summaries
    BY <2>1 DEF OneAfterTheOther
  <2>4. CASE r \in OwnRuns
    <3>1. open /\ \A q \in OwnRuns : ~InFlight(q)
      BY <1>1, <1>3, <2>4 DEF Begin
    <3>2. \A q \in OwnRuns : InFlight(q)' => q = r
      BY <1>1, <2>1, <3>1 DEF InFlight
    <3> QED BY <1>1, <2>1, <2>2, <2>3, <3>1, <3>2 DEF OneAfterTheOther
  <2>5. CASE r \notin OwnRuns
    <3>1. \A q \in OwnRuns : step'[q] = step[q]
      BY <1>1, <2>1, <2>5
    <3> QED BY <1>1, <2>1, <3>1 DEF OneAfterTheOther, InFlight
  <2> QED BY <2>4, <2>5
<1>4. ASSUME NEW r \in Runs, Save(r) PROVE OneAfterTheOther'
  <2>1. SaveStep(r) /\ open' = open
        /\ summaries' = IF r \in OwnRuns /\ step'[r] = "ended" THEN summaries \union {r} ELSE summaries
    BY <1>4 DEF Save
  <2> DEFINE Made(q) == step[q] \in {"summary", "publish"} \/ audited[q]
  <2>2. /\ step[r] \notin {"running", "ended", "killed"}
        /\ step'[r] \notin {"running", "killed"}
        /\ \A q \in Runs : q # r => /\ step'[q] = step[q]
                                    /\ index'[q] = index[q]
                                    /\ audited'[q] = audited[q]
        /\ Made(r)' => index'[r] = index[r] /\ (Made(r) \/ dirs[index[r]] = NoDir)
    BY <2>1, SaveEffect
  <2> HIDE DEF Made
  <2>3. \A q \in OwnRuns : InFlight(q)' <=> InFlight(q)
    BY <1>1, <2>1, <2>2 DEF InFlight
  <2>4. \A q \in summaries' : q \in OwnRuns /\ step'[q] = "ended"
    BY <1>1, <2>1, <2>2 DEF OneAfterTheOther
  <2>5. ASSUME NEW q \in OwnRuns, NEW s \in OwnRuns, InFlight(s), q # s, audited'[q], Made(s)'
        PROVE  index'[q] < index'[s]
    <3>1. ~InFlight(q)
      BY <2>5 DEF OneAfterTheOther
    <3>2. q # r
      BY <1>1, <2>2, <3>1 DEF InFlight
    <3>3. audited[q] /\ index'[q] = index[q]
      BY <1>1, <2>2, <2>5, <3>2
    <3>4. CASE s = r
      <4>1. index'[r] = index[r] /\ (Made(r) \/ dirs[index[r]] = NoDir)
        BY <2>2, <2>5, <3>4
      <4>2. CASE Made(r)
        BY <2>5, <3>3, <3>4, <4>1, <4>2 DEF OneAfterTheOther, Made
      <4>3. CASE dirs[index[r]] = NoDir
        <5>1. index[q] < index[r]
          BY <1>1, <3>3, <4>3, NewDirIsLast
        <5> QED BY <3>3, <3>4, <4>1, <5>1
      <4> QED BY <4>1, <4>2, <4>3
    <3>5. CASE s # r
      <4>1. Made(s) /\ index'[s] = index[s]
        BY <1>1, <2>2, <2>5, <3>5 DEF Made
      <4> QED BY <2>5, <3>3, <4>1 DEF OneAfterTheOther, Made
    <3> QED BY <3>4, <3>5
  <2> QED BY <2>1, <2>3, <2>4, <2>5 DEF OneAfterTheOther, Made
<1>5. CASE WindowGone
  <2>1. summaries' = {} /\ \A r \in OwnRuns : step'[r] \in {"running", "ended", "killed"}
    BY <1>1, <1>5 DEF WindowGone, Kill, OutputTypeOK
  <2> QED BY <2>1 DEF OneAfterTheOther, InFlight
<1>6. ASSUME NEW p \in Processes, OtherGone(p) PROVE OneAfterTheOther'
  <2>1. \A r \in OwnRuns : step'[r] = step[r]
    BY <1>1, <1>6 DEF OtherGone, Kill, OutputTypeOK
  <2>2. index' = index /\ audited' = audited /\ summaries' = summaries /\ open' = open
    BY <1>6 DEF OtherGone, Kill, listVars
  <2> QED BY <1>1, <2>1, <2>2 DEF OneAfterTheOther, InFlight
<1>7. \/ \E r \in Runs : Begin(r) \/ Save(r)
      \/ WindowGone
      \/ \E p \in Processes : OtherGone(p)
      \/ /\ step' = step /\ index' = index /\ audited' = audited
         /\ summaries' \subseteq summaries
         /\ open => open'
  BY DEF ListNext, OpenWindow, BrowseOutputDir, ClearHistory, AppendHistoryRows, outputVars, listVars
<1> QED BY <1>2, <1>3, <1>4, <1>5, <1>6, <1>7

(* A run that is over stays as it is, and an audit once reported stays.     *)
LEMMA OverIsOver ==
    ASSUME FilesInv, [OutputNext]_outputVars, NEW q \in Runs
    PROVE  /\ step[q] \in {"ended", "killed"} =>
                 step'[q] = step[q] /\ audited'[q] = audited[q] /\ index'[q] = index[q]
           /\ audited[q] => audited'[q] /\ index'[q] = index[q]
<1>1. OutputTypeOK
  BY DEF FilesInv
<1>2. ASSUME NEW r \in Runs, Finalize(r)
      PROVE  /\ step[q] \in {"ended", "killed"} => step'[q] = step[q]
             /\ audited' = audited /\ index' = index
  BY <1>1, <1>2 DEF Finalize, Goto, OutputTypeOK
<1>3. ASSUME NEW r \in Runs, SaveStep(r)
      PROVE  /\ step[q] \in {"ended", "killed"} =>
                   step'[q] = step[q] /\ audited'[q] = audited[q] /\ index'[q] = index[q]
             /\ audited[q] => audited'[q] /\ index'[q] = index[q]
  BY <1>3, SaveEffect
<1>4. ASSUME NEW p \in Processes, Kill(p)
      PROVE  /\ step[q] \in {"ended", "killed"} => step'[q] = step[q]
             /\ audited' = audited /\ index' = index
  BY <1>1, <1>4 DEF Kill, OutputTypeOK
<1> QED BY <1>2, <1>3, <1>4 DEF OutputNext, outputVars

(* Only the run that replaces the history changes it. *)
LEMMA WhoReplaces ==
    ASSUME [ListNext]_<<outputVars, listVars>>
    PROVE  \/ history' = history
           \/ \E r \in Runs : Save(r) /\ ReplaceHistory(r)
BY DEF ListNext, OpenWindow, BrowseOutputDir, ClearHistory, WindowGone, Begin, Save,
       AppendHistoryRows, OtherGone, SaveStep, Finalize, MakeDir, NameTaken, WriteSummary,
       PublishSummary, AuditFails, PrepareLines, LockHistory, CopyHistory, HistoryFails, Kill,
       outputVars, listVars

(* What a replacement does when the lock is one: the lines of the run are   *)
(* added to what is there, and nothing else changes for the runs.           *)
LEMMA Replacement ==
    ASSUME FilesInv, AppendInv, NEW r \in Runs, ReplaceHistory(r)
    PROVE  /\ history' = history \o NewLines(r)
           /\ step[r] = "replace" /\ step'[r] = "ended"
           /\ index' = index /\ audited' = audited
           /\ \A k \in DOMAIN history : k \in DOMAIN history' /\ history'[k] = history[k]
           /\ \A k \in DOMAIN history' \ DOMAIN history :
                 /\ \A j \in DOMAIN history : j < k
                 /\ history'[k] = <<r, k - Len(history)>>
                 /\ k \in Nat /\ Len(history) \in Nat
<1>1. OutputTypeOK /\ step[r] = "replace" /\ history' = tmp[r]
  BY DEF FilesInv, ReplaceHistory
<1>2. history' = history \o NewLines(r)
  BY <1>1 DEF AppendInv, TmpExtends
<1>3. history \in Seq(Lines) /\ NewLines(r) \in Seq(Lines) /\ Len(NewLines(r)) = Results[r]
      /\ Results[r] \in Nat
  BY <1>1, NewLinesType, OutputConstants DEF OutputTypeOK
<1>4. /\ DOMAIN history = 1 .. Len(history) /\ Len(history) \in Nat
      /\ DOMAIN history' = 1 .. (Len(history) + Results[r])
  BY <1>2, <1>3
<1>5. \A k \in DOMAIN history : k \in DOMAIN history' /\ history'[k] = history[k]
  BY <1>2, <1>3, <1>4
<1>6. ASSUME NEW k \in DOMAIN history' \ DOMAIN history
      PROVE  /\ \A j \in DOMAIN history : j < k
             /\ history'[k] = <<r, k - Len(history)>>
             /\ k \in Nat
  <2>1. k \in Nat /\ k > Len(history) /\ k - Len(history) \in 1 .. Results[r]
    BY <1>3, <1>4
  <2>2. history'[k] = NewLines(r)[k - Len(history)]
    BY <1>2, <1>3, <1>4, <2>1
  <2> QED BY <1>4, <2>1, <2>2 DEF NewLines
<1>7. step'[r] = "ended" /\ index' = index /\ audited' = audited
  BY <1>1 DEF ReplaceHistory, Goto, OutputTypeOK
<1> QED BY <1>1, <1>2, <1>4, <1>5, <1>6, <1>7

(* The history stays in order. *)
LEMMA HistoryInOrderStep ==
    ASSUME FilesInv, AppendInv, OneAfterTheOther, HistoryInOrder,
           [ListNext]_<<outputVars, listVars>>
    PROVE  HistoryInOrder'
<1>1. OutputTypeOK /\ [OutputNext]_outputVars
  BY ListStepIsOutputStep DEF FilesInv
<1>2. ASSUME NEW k \in DOMAIN history
      PROVE  /\ history[k] \in Lines /\ history[k][1] \in Runs
             /\ step[history[k][1]] = "ended"
  BY <1>1 DEF HistoryInOrder, OutputTypeOK, Lines
<1>3. ASSUME NEW k \in DOMAIN history
      PROVE  /\ step'[history[k][1]] = "ended"
             /\ audited'[history[k][1]] = audited[history[k][1]]
             /\ index'[history[k][1]] = index[history[k][1]]
  BY <1>1, <1>2, OverIsOver
<1>4. ASSUME NEW j \in DOMAIN history, NEW k \in DOMAIN history, j < k,
             history'[j] = history[j], history'[k] = history[k]
      PROVE  Follows(history[j], history[k])'
  <2>1. Follows(history[j], history[k])
    BY <1>4 DEF HistoryInOrder
  <2> QED BY <1>3, <1>4, <2>1 DEF Follows, Lasts, Before
<1>5. CASE history' = history
  BY <1>3, <1>4, <1>5 DEF HistoryInOrder
<1>6. ASSUME NEW r \in Runs, ReplaceHistory(r) PROVE HistoryInOrder'
  <2>1. /\ step[r] = "replace" /\ step'[r] = "ended"
        /\ index' = index /\ audited' = audited
        /\ \A k \in DOMAIN history : k \in DOMAIN history' /\ history'[k] = history[k]
        /\ \A k \in DOMAIN history' \ DOMAIN history :
              /\ \A j \in DOMAIN history : j < k
              /\ history'[k] = <<r, k - Len(history)>>
              /\ k \in Nat /\ Len(history) \in Nat
    BY <1>6, Replacement
  <2>2. \A k \in DOMAIN history' : step'[history'[k][1]] = "ended"
    BY <1>3, <2>1
  <2>3. ASSUME NEW j \in DOMAIN history', NEW k \in DOMAIN history', j < k
        PROVE  Follows(history[j], history[k])'
    <3>1. CASE j \in DOMAIN history /\ k \in DOMAIN history
      BY <1>4, <2>1, <2>3, <3>1
    <3>2. CASE j \in DOMAIN history /\ k \notin DOMAIN history
      <4>1. history'[j] = history[j] /\ history'[k] = <<r, k - Len(history)>>
        BY <2>1, <3>2
      <4> DEFINE q == history[j][1]
      <4>2. q \in Runs /\ step[q] = "ended"
        BY <1>2, <3>2
      <4>3. history'[j] # history'[k] /\ q # r
        BY <2>1, <4>1, <4>2
      <4>4. ASSUME q \in OwnRuns, r \in OwnRuns, audited[q], audited[r]
            PROVE  index[q] < index[r]
        <5>1. InFlight(r)
          BY <2>1 DEF InFlight
        <5> QED BY <4>3, <4>4, <5>1 DEF OneAfterTheOther
      <4> QED BY <2>1, <4>1, <4>3, <4>4 DEF Follows, Lasts, Before
    <3>3. CASE j \notin DOMAIN history /\ k \notin DOMAIN history
      <4>1. history'[j] = <<r, j - Len(history)>> /\ history'[k] = <<r, k - Len(history)>>
            /\ j \in Nat /\ k \in Nat /\ Len(history) \in Nat
        BY <2>1, <3>3
      <4> QED BY <2>3, <4>1 DEF Follows, Before
    <3>4. CASE j \notin DOMAIN history /\ k \in DOMAIN history
      <4>1. k < j /\ k \in Nat /\ j \in Nat
        BY <1>1, <2>1, <3>4 DEF OutputTypeOK
      <4> QED BY <2>3, <4>1
    <3> QED BY <3>1, <3>2, <3>3, <3>4
  <2> QED BY <2>2, <2>3 DEF HistoryInOrder
<1> QED BY <1>5, <1>6, WhoReplaces

(* A row is made from its line, whatever made it: the label of a record is  *)
(* that of the result.                                                      *)
LEMMA OneLabel ==
    ASSUME NEW a
    PROVE  /\ RowOfResult(a).line = a
           /\ RowOfResult(a).label = HistoryResultLabel(StatusOf(a))
           /\ RowOfRecord(a) = RowOfResult(a)
<1>1. HistoryResultLabel(StatusOf(a)) # ""
  BY DEF HistoryResultLabel
<1>2. HistoryRowDisplay(StatusOf(a), HistoryResultLabel(StatusOf(a))) = HistoryResultLabel(StatusOf(a))
  BY <1>1 DEF HistoryRowDisplay, HistoryResultLabel
<1>3. HistoryRowDisplay(StatusOf(a), "") = HistoryResultLabel(StatusOf(a))
  BY DEF HistoryRowDisplay, HistoryResultLabel
<1> QED BY <1>2, <1>3 DEF RowOfResult, RowOfRecord

LEMMA RowsAreRows ==
    ASSUME NEW row \in Rows
    PROVE  row.line \in Lines /\ row = RowOfResult(row.line)
BY OneLabel DEF Rows

LEMMA LineParts ==
    ASSUME NEW a \in Lines
    PROVE  a[1] \in Runs /\ a[2] \in Nat /\ a[2] \in 1 .. Results[a[1]]
<1>1. a \in Runs \X (Nat \ {0}) /\ a[2] <= Results[a[1]]
  BY DEF Lines
<1>2. a[1] \in Runs /\ a[2] \in Nat \ {0}
  BY <1>1
<1> QED BY <1>1, <1>2, OutputConstants

(* A sequence without its first c elements. *)
LEMMA WithoutFirst ==
    ASSUME NEW S, NEW s \in Seq(S), NEW c \in 0 .. Len(s)
    PROVE  LET new == SubSeq(s, c + 1, Len(s))
           IN  /\ new \in Seq(S) /\ Len(new) = Len(s) - c
               /\ \A k \in 1 .. (Len(s) - c) : new[k] = s[k + c]
OBVIOUS

LEMMA Joined ==
    ASSUME NEW S, NEW s \in Seq(S), NEW t \in Seq(S)
    PROVE  /\ s \o t \in Seq(S) /\ Len(s) \in Nat /\ Len(s \o t) = Len(s) + Len(t)
           /\ DOMAIN s = 1 .. Len(s) /\ DOMAIN (s \o t) = 1 .. (Len(s) + Len(t))
           /\ \A x \in 1 .. Len(s) : (s \o t)[x] = s[x]
           /\ \A y \in 1 .. Len(t) : (s \o t)[Len(s) + y] = t[y]
OBVIOUS

LEMMA FunctionIsSequence ==
    ASSUME NEW S, NEW n \in Nat, NEW f \in [1 .. n -> S]
    PROVE  f \in Seq(S)
OBVIOUS

(* A list in order that lacks only the oldest lines still does so when its  *)
(* oldest rows are dropped for their number.                                *)
LEMMA RecentKeeps ==
    ASSUME NEW rows \in Seq(Rows), Ordered(rows), OutputTypeOK,
           NEW gone \in BOOLEAN, NEW lines \in SUBSET Stored, LacksOldest(rows, gone, lines)
    PROVE  /\ Recent(rows) \in Seq(Rows) /\ Len(Recent(rows)) <= MaxRows
           /\ Ordered(Recent(rows))
           /\ LinesOf(Recent(rows)) \subseteq LinesOf(rows)
           /\ LacksOldest(Recent(rows), gone, lines)
<1> DEFINE n == Len(rows)
           cut == IF n > MaxRows THEN n - MaxRows ELSE 0
           new == Recent(rows)
<1>1. n \in Nat /\ MaxRows \in Nat \ {0} /\ cut \in 0 .. n /\ DOMAIN rows = 1 .. n
  BY ListConstants
<1>2. new = SubSeq(rows, cut + 1, n)
  BY <1>1 DEF Recent
<1>3. /\ new \in Seq(Rows) /\ Len(new) = n - cut /\ DOMAIN new = 1 .. (n - cut)
      /\ \A k \in 1 .. (n - cut) : new[k] = rows[k + cut]
  <2> HIDE DEF cut
  <2>1. rows \in Seq(Rows) /\ cut \in 0 .. Len(rows)
    BY <1>1
  <2>2. /\ new \in Seq(Rows) /\ Len(new) = Len(rows) - cut
        /\ \A k \in 1 .. (Len(rows) - cut) : new[k] = rows[k + cut]
    BY <1>2, <2>1, WithoutFirst, Zenon
  <2>3. DOMAIN new = 1 .. Len(new)
    BY <2>2
  <2> QED BY <2>2, <2>3
<1>4. Len(new) <= MaxRows /\ (cut > 0 => Len(new) >= MaxRows) /\ (Len(new) = n \/ cut > 0)
  BY <1>1, <1>3
<1> HIDE DEF n, cut, new
<1>5. \A k \in DOMAIN new : k \in Nat /\ k + cut \in DOMAIN rows /\ new[k] = rows[k + cut]
  BY <1>1, <1>3
<1>6. Ordered(new)
  <2> SUFFICES ASSUME NEW x \in DOMAIN new, NEW y \in DOMAIN new, x < y
               PROVE  Follows(new[x].line, new[y].line)
      BY DEF Ordered
  <2>1. x + cut < y + cut
    BY <1>1, <1>5
  <2> QED BY <1>5, <2>1 DEF Ordered
<1>7. LinesOf(new) \subseteq LinesOf(rows)
  BY <1>5 DEF LinesOf
<1>8. ASSUME NEW a \in lines, a \notin LinesOf(new)
      PROVE  /\ gone \/ Len(new) >= MaxRows
             /\ \A b \in Stored : Before(b, a) => b \notin LinesOf(new)
  <2>1. CASE a \notin LinesOf(rows)
    <3>1. /\ gone \/ n >= MaxRows
          /\ \A b \in Stored : Before(b, a) => b \notin LinesOf(rows)
      BY <1>8, <2>1 DEF LacksOldest, n
    <3> QED BY <1>4, <1>7, <3>1
  <2>2. CASE a \in LinesOf(rows)
    <3>1. PICK x \in DOMAIN rows : rows[x].line = a
      BY <2>2 DEF LinesOf
    <3>2. x \in 1 .. n /\ ~(x > cut)
      <4>1. ASSUME x > cut PROVE FALSE
        <5>1. x - cut \in 1 .. (n - cut) /\ x - cut + cut = x
          BY <1>1, <4>1
        <5>2. new[x - cut] = rows[x] /\ x - cut \in DOMAIN new
          BY <1>3, <5>1
        <5> QED BY <1>8, <3>1, <5>2 DEF LinesOf
      <4> QED BY <1>1, <4>1
    <3>3. cut > 0
      BY <1>1, <3>2
    <3>4. ASSUME NEW b \in Stored, Before(b, a), b \in LinesOf(new) PROVE FALSE
      <4>1. PICK k \in DOMAIN new : new[k].line = b
        BY <3>4 DEF LinesOf
      <4> DEFINE y == k + cut
      <4>2. y \in DOMAIN rows /\ rows[y].line = b /\ x < y
        BY <1>1, <1>3, <1>5, <3>2, <4>1
      <4> HIDE DEF y
      <4>3. Lasts(a) /\ Lasts(b)
        BY <1>8, <3>4 DEF Stored, Lasting, Lasts
      <4>4. Before(a, b)
        BY <3>1, <4>2, <4>3 DEF Ordered, Follows
      <4>5. a \in Lines /\ b \in Lines
        BY <1>8, <3>4 DEF Stored, Lasting, OutputTypeOK
      <4>6. a[1] \in Runs /\ b[1] \in Runs /\ a[2] \in Nat /\ b[2] \in Nat
        BY <4>5, LineParts
      <4>7. index[a[1]] \in Nat /\ index[b[1]] \in Nat
        BY <4>6 DEF OutputTypeOK, Names
      <4> QED BY <3>4, <4>4, <4>6, <4>7 DEF Before
    <3> QED BY <1>4, <3>3, <3>4
  <2> QED BY <2>1, <2>2
<1>9. LacksOldest(new, gone, lines)
  BY <1>8 DEF LacksOldest
<1> QED BY <1>3, <1>4, <1>6, <1>7, <1>9 DEF new

(* Stored lines are lines of audited own runs that have ended. *)
LEMMA StoredLines ==
    ASSUME OutputTypeOK, HistoryInOrder, NEW a \in Stored
    PROVE  /\ a \in Lines /\ a[1] \in OwnRuns /\ a[1] \in Runs
           /\ audited[a[1]] /\ step[a[1]] = "ended"
<1>1. PICK k \in DOMAIN history : history[k] = a /\ a[1] \in OwnRuns /\ audited[a[1]]
  BY DEF Stored, Lasting
<1>2. a \in Lines
  BY <1>1 DEF OutputTypeOK
<1>3. step[a[1]] = "ended"
  BY <1>1 DEF HistoryInOrder
<1> QED BY <1>1, <1>2, <1>3, LineParts

(* A line that becomes stored is one of a run whose summary is queued.      *)
LEMMA NewlyStored ==
    ASSUME FilesInv, AppendInv, HistoryInOrder, [ListNext]_<<outputVars, listVars>>,
           NEW a \in Stored'
    PROVE  a \in Stored \/ (a[1] \in OwnRuns /\ a[1] \in summaries')
<1>1. PICK k \in DOMAIN history' :
         history'[k] = a /\ a[1] \in OwnRuns /\ audited'[a[1]]
  BY DEF Stored, Lasting
<1>2. OutputTypeOK /\ [OutputNext]_outputVars
  BY ListStepIsOutputStep DEF FilesInv
<1>3. ASSUME k \in DOMAIN history, history[k] = a PROVE a \in Stored
  <2>1. a \in Lines /\ step[a[1]] = "ended"
    BY <1>2, <1>3 DEF HistoryInOrder, OutputTypeOK
  <2>2. audited[a[1]]
    BY <1>1, <1>2, <2>1, LineParts, OverIsOver
  <2> QED BY <1>1, <1>3, <2>2 DEF Stored, Lasting
<1>4. CASE history' = history
  BY <1>1, <1>3, <1>4
<1>5. ASSUME NEW r \in Runs, Save(r), ReplaceHistory(r)
      PROVE  a \in Stored \/ (a[1] \in OwnRuns /\ a[1] \in summaries')
  <2>1. /\ step'[r] = "ended"
        /\ \A i \in DOMAIN history : i \in DOMAIN history' /\ history'[i] = history[i]
        /\ \A i \in DOMAIN history' \ DOMAIN history : history'[i] = <<r, i - Len(history)>>
    BY <1>5, Replacement
  <2>2. CASE k \in DOMAIN history
    BY <1>1, <1>3, <2>1, <2>2
  <2>3. CASE k \notin DOMAIN history
    <3>1. a[1] = r
      BY <1>1, <2>1, <2>3
    <3> QED BY <1>1, <1>5, <2>1, <3>1 DEF Save
  <2> QED BY <2>2, <2>3
<1> QED BY <1>4, <1>5, WhoReplaces

(* No run of the window becomes over for it, and none starts twice. *)
Undisturbed ==
    \A q \in OwnRuns : /\ InFlight(q) => InFlight(q)'
                       /\ InFlight(q)' => InFlight(q) \/ step[q] = "running"

(* The list stays as it should be while it is not touched: runs begin, save *)
(* and are killed below it.                                                 *)
LEMMA ListUntouched ==
    ASSUME FilesInv, AppendInv, OneAfterTheOther, HistoryInOrder, ListInv,
           [ListNext]_<<outputVars, listVars>>, OutputTypeOK', HistoryInOrder',
           shown' = shown, cleared' = cleared, open' = open, Undisturbed
    PROVE  ListInv'
<1>1. OutputTypeOK /\ [OutputNext]_outputVars /\ OwnRuns \subseteq Runs
  BY ListStepIsOutputStep, ListConstants DEF FilesInv
<1>2. ASSUME NEW a \in LinesOf(shown), a[1] \in OwnRuns
      PROVE  /\ ~InFlight(a[1])' /\ step'[a[1]] # "running"
             /\ audited'[a[1]] = audited[a[1]] /\ index'[a[1]] = index[a[1]]
  <2>1. ~InFlight(a[1]) /\ step[a[1]] # "running"
    BY <1>2 DEF ListInv
  <2>2. step[a[1]] \in {"ended", "killed"}
    BY <2>1 DEF InFlight
  <2> QED BY <1>1, <1>2, <2>1, <2>2, OverIsOver DEF Undisturbed
<1>3. Ordered(shown)'
  <2> SUFFICES ASSUME NEW x \in DOMAIN shown, NEW y \in DOMAIN shown, x < y
               PROVE  Follows(shown[x].line, shown[y].line)'
      BY DEF Ordered
  <2> DEFINE a == shown[x].line
             b == shown[y].line
  <2>1. a \in LinesOf(shown) /\ b \in LinesOf(shown) /\ Follows(a, b)
    BY DEF ListInv, Ordered, LinesOf
  <2>2. a' = a /\ b' = b
    OBVIOUS
  <2> HIDE DEF a, b
  <2>3. a # b /\ (Lasts(a)' /\ Lasts(b)' => Before(a, b)')
    BY <1>2, <2>1, <2>2 DEF Follows, Lasts, Before
  <2> QED BY <2>2, <2>3 DEF Follows, Lasts, Before, a, b
<1>4. ASSUME open, NEW a \in Settled', a \notin LinesOf(shown)
      PROVE  /\ cleared \/ Len(shown) >= MaxRows
             /\ \A b \in Stored' : Before(b, a)' => b \notin LinesOf(shown)
  <2>1. a \in Stored' /\ ~InFlight(a[1])'
    BY <1>4 DEF Settled
  <2>2. a \in Stored
    BY <2>1, NewlyStored DEF InFlight
  <2>3. a[1] \in OwnRuns /\ a[1] \in Runs /\ step[a[1]] = "ended"
    BY <1>1, <2>2, StoredLines
  <2>4. a \in Settled
    BY <2>1, <2>2, <2>3 DEF Settled, Undisturbed
  <2>5. /\ cleared \/ Len(shown) >= MaxRows
        /\ \A b \in Stored : Before(b, a) => b \notin LinesOf(shown)
    BY <1>4, <2>4 DEF ListInv, LacksOldest
  <2>6. ASSUME NEW b \in Stored', Before(b, a)', b \in LinesOf(shown) PROVE FALSE
    <3>1. CASE b \in Stored
      <4>1. b[1] \in Runs /\ step[b[1]] = "ended"
        BY <1>1, <3>1, StoredLines
      <4>2. index'[a[1]] = index[a[1]] /\ index'[b[1]] = index[b[1]]
        BY <1>1, <2>3, <4>1, OverIsOver
      <4> QED BY <2>5, <2>6, <3>1, <4>2 DEF Before
    <3>2. CASE b[1] \in OwnRuns /\ b[1] \in summaries'
      BY <1>2, <2>6, <3>2 DEF InFlight
    <3> QED BY <3>1, <3>2, NewlyStored
  <2> QED BY <2>5, <2>6
<1>5. LinesOf(shown)' = LinesOf(shown)
  BY DEF LinesOf
<1>6. (open => LacksOldest(shown, cleared, Settled))'
  BY <1>4, <1>5 DEF LacksOldest
<1>7. (\A a \in LinesOf(shown) : a[1] \in OwnRuns => ~InFlight(a[1]) /\ step[a[1]] # "running")'
  BY <1>2, <1>5
<1>8. Rows' = Rows
  BY DEF Rows, RowOfResult, StatusOf, HistoryRowDisplay
<1> QED BY <1>3, <1>6, <1>7, <1>8 DEF ListInv

(* What a list is to be like after it was replaced. *)
GoodList(rows, gone, lines) ==
    /\ rows \in Seq(Rows) /\ Len(rows) <= MaxRows /\ Ordered(rows)
    /\ \A a \in LinesOf(rows) : a[1] \in OwnRuns => a[1] \notin summaries' /\ step[a[1]] \in {"ended", "killed"}
    /\ LacksOldest(rows, gone, lines)

LEMMA ListReplaced ==
    ASSUME UNCHANGED outputVars, GoodList(shown', cleared', Settled'),
           open' \in BOOLEAN, cleared' \in BOOLEAN
    PROVE  ListInv'
<1>1. Stored' = Stored
  BY DEF Stored, Lasting, outputVars
<1>2. Ordered(shown)'
  BY DEF GoodList, Ordered, Follows, Lasts, Before, outputVars
<1>3. LinesOf(shown)' = LinesOf(shown')
  BY DEF LinesOf
<1>4. LacksOldest(shown, cleared, Settled)'
  BY <1>1, <1>3 DEF GoodList, LacksOldest, Before, outputVars
<1>5. (\A a \in LinesOf(shown) : a[1] \in OwnRuns => ~InFlight(a[1]) /\ step[a[1]] # "running")'
  BY <1>3 DEF GoodList, InFlight, outputVars
<1>6. shown' \in Seq(Rows') /\ Len(shown') <= MaxRows
  <2>1. Rows' = Rows
    BY DEF Rows, RowOfResult, StatusOf, HistoryRowDisplay
  <2> QED BY <2>1 DEF GoodList
<1> QED BY <1>2, <1>4, <1>5, <1>6 DEF ListInv

(* The rows of a run. *)
LEMMA RunRows ==
    ASSUME NEW r \in Runs
    PROVE  /\ RowsOfRun(r) \in Seq(Rows) /\ Len(RowsOfRun(r)) = Results[r]
           /\ \A i \in 1 .. Results[r] : RowsOfRun(r)[i].line = <<r, i>>
<1>1. Results[r] \in Nat
  BY OutputConstants
<1>2. ASSUME NEW i \in 1 .. Results[r] PROVE RowOfResult(<<r, i>>) \in Rows
  <2>1. <<r, i>> \in Lines
    BY <1>1 DEF Lines
  <2> QED BY <2>1 DEF Rows
<1>3. \A i \in 1 .. Results[r] : RowsOfRun(r)[i].line = <<r, i>>
  BY OneLabel DEF RowsOfRun
<1>4. RowsOfRun(r) \in [1 .. Results[r] -> Rows]
  BY <1>2 DEF RowsOfRun
<1>5. RowsOfRun(r) \in Seq(Rows)
  BY <1>1, <1>4, FunctionIsSequence
<1>6. Len(RowsOfRun(r)) = Results[r]
  BY <1>1 DEF RowsOfRun
<1> QED BY <1>3, <1>5, <1>6

(* The rows of a run are added to a list in order that has none of it and   *)
(* only earlier ones.                                                       *)
LEMMA RunAdded ==
    ASSUME NEW old \in Seq(Rows), Ordered(old), NEW r \in Runs,
           \A a \in LinesOf(old) :
              a[1] # r /\ (Lasts(a) /\ r \in OwnRuns /\ audited[r] => index[a[1]] < index[r])
    PROVE  LET rows == old \o RowsOfRun(r)
           IN  /\ rows \in Seq(Rows) /\ Len(old) <= Len(rows) /\ Len(old) \in Nat /\ Len(rows) \in Nat
               /\ Ordered(rows)
               /\ LinesOf(rows) = LinesOf(old) \union {<<r, i>> : i \in 1 .. Results[r]}
<1> DEFINE new == RowsOfRun(r)
           rows == old \o new
           n == Len(old)
<1>1. Results[r] \in Nat
  BY OutputConstants
<1>2. /\ Len(new) = Results[r] /\ new \in Seq(Rows)
      /\ \A i \in 1 .. Results[r] : new[i].line = <<r, i>>
  BY RunRows
<1> HIDE DEF new
<1>3. /\ rows \in Seq(Rows) /\ n \in Nat /\ Len(rows) = n + Len(new)
      /\ DOMAIN old = 1 .. n /\ DOMAIN rows = 1 .. (n + Len(new))
      /\ \A x \in 1 .. n : rows[x] = old[x]
      /\ \A y \in 1 .. Len(new) : rows[n + y] = new[y]
  BY <1>2, Joined
<1> HIDE DEF rows, n
<1>4. \A x \in DOMAIN old : x \in DOMAIN rows /\ rows[x] = old[x] /\ x \in Nat /\ x <= n
  BY <1>1, <1>2, <1>3
<1>5. ASSUME NEW x \in DOMAIN rows, x \notin DOMAIN old
      PROVE  /\ x - n \in 1 .. Results[r] /\ rows[x].line = <<r, x - n>>
             /\ x \in Nat /\ x > n
  <2>1. x - n \in 1 .. Results[r] /\ x \in Nat /\ x > n /\ n + (x - n) = x
    BY <1>1, <1>2, <1>3, <1>5
  <2>2. rows[x] = new[x - n]
    BY <1>2, <1>3, <2>1
  <2> QED BY <1>2, <2>1, <2>2
<1>6. LinesOf(rows) = LinesOf(old) \union {<<r, i>> : i \in 1 .. Results[r]}
  <2>1. ASSUME NEW a \in LinesOf(rows)
        PROVE  a \in LinesOf(old) \/ a \in {<<r, i>> : i \in 1 .. Results[r]}
    <3>1. PICK x \in DOMAIN rows : rows[x].line = a
      BY <2>1 DEF LinesOf
    <3> QED BY <1>4, <1>5, <3>1 DEF LinesOf
  <2>2. LinesOf(old) \subseteq LinesOf(rows)
    BY <1>4 DEF LinesOf
  <2>3. ASSUME NEW i \in 1 .. Results[r] PROVE <<r, i>> \in LinesOf(rows)
    <3>1. n + i \in DOMAIN rows /\ rows[n + i] = new[i]
      BY <1>1, <1>2, <1>3
    <3> QED BY <1>2, <3>1 DEF LinesOf
  <2> QED BY <2>1, <2>2, <2>3
<1>7. Ordered(rows)
  <2> SUFFICES ASSUME NEW x \in DOMAIN rows, NEW y \in DOMAIN rows, x < y
               PROVE  Follows(rows[x].line, rows[y].line)
      BY DEF Ordered
  <2>1. CASE x \in DOMAIN old /\ y \in DOMAIN old
    BY <1>4, <2>1 DEF Ordered
  <2>2. CASE x \in DOMAIN old /\ y \notin DOMAIN old
    <3> DEFINE a == rows[x].line
               b == rows[y].line
    <3>1. a \in LinesOf(old)
      BY <1>4, <2>2 DEF LinesOf
    <3>2. b[1] = r
      BY <1>5, <2>2
    <3> HIDE DEF a, b
    <3>3. Follows(a, b)
      BY <3>1, <3>2 DEF Follows, Lasts, Before
    <3> QED BY <3>3 DEF a, b
  <2>3. CASE x \notin DOMAIN old /\ y \notin DOMAIN old
    <3>1. /\ rows[x].line = <<r, x - n>> /\ rows[y].line = <<r, y - n>>
          /\ x \in Nat /\ y \in Nat /\ n \in Nat
      BY <1>3, <1>5, <2>3
    <3>2. x - n < y - n
      BY <3>1
    <3>3. Follows(<<r, x - n>>, <<r, y - n>>)
      BY <3>2, <3>1 DEF Follows, Before
    <3> QED BY <3>1, <3>3
  <2>4. CASE x \notin DOMAIN old /\ y \in DOMAIN old
    BY <1>3, <1>4, <1>5, <2>4
  <2> QED BY <2>1, <2>2, <2>3, <2>4
<1> QED BY <1>1, <1>2, <1>3, <1>6, <1>7 DEF rows, new, n

(* The rows of a run that ends come after what the list has. *)
LEMMA AppendKeepsList ==
    ASSUME FilesInv, OneAfterTheOther, HistoryInOrder, ListInv,
           NEW r \in Runs, AppendHistoryRows(r)
    PROVE  ListInv'
<1> DEFINE rows == shown \o RowsOfRun(r)
<1>1. /\ r \in OwnRuns /\ r \in summaries /\ step[r] = "ended"
      /\ shown' = Recent(rows) /\ summaries' = summaries \ {r}
      /\ UNCHANGED outputVars /\ open' = open /\ cleared' = cleared
  BY DEF AppendHistoryRows, OneAfterTheOther
<1>2. InFlight(r) /\ open
  BY <1>1 DEF InFlight, OneAfterTheOther
<1>3. OutputTypeOK /\ OwnRuns \subseteq Runs
  BY ListConstants DEF FilesInv
<1>4. /\ shown \in Seq(Rows) /\ Ordered(shown)
      /\ \A a \in LinesOf(shown) : a[1] \in OwnRuns => ~InFlight(a[1]) /\ step[a[1]] # "running"
      /\ LacksOldest(shown, cleared, Settled) /\ open \in BOOLEAN /\ cleared \in BOOLEAN
  BY <1>2 DEF ListInv
<1>5. ASSUME NEW a, Lasts(a), a[1] # r, audited[r] PROVE index[a[1]] < index[r]
  BY <1>1, <1>2, <1>5 DEF OneAfterTheOther, Lasts
<1>6. \A a \in LinesOf(shown) : a[1] # r
  BY <1>1, <1>2, <1>4
<1>7. /\ rows \in Seq(Rows) /\ Len(shown) <= Len(rows) /\ Len(shown) \in Nat /\ Len(rows) \in Nat
      /\ Ordered(rows)
      /\ LinesOf(rows) = LinesOf(shown) \union {<<r, i>> : i \in 1 .. Results[r]}
  <2>1. \A a \in LinesOf(shown) :
           a[1] # r /\ (Lasts(a) /\ r \in OwnRuns /\ audited[r] => index[a[1]] < index[r])
    BY <1>5, <1>6
  <2> QED BY <1>4, <2>1, RunAdded
<1> HIDE DEF rows
<1>8. LacksOldest(rows, cleared, Settled')
  <2> SUFFICES ASSUME NEW a \in Settled', a \notin LinesOf(rows)
               PROVE  /\ cleared \/ Len(rows) >= MaxRows
                      /\ \A b \in Stored : Before(b, a) => b \notin LinesOf(rows)
      BY DEF LacksOldest
  <2>1. a \in Stored /\ a[1] \notin summaries'
    BY <1>1 DEF Settled, Stored, Lasting, InFlight, outputVars
  <2>2. a \in Lines /\ a[1] \in OwnRuns /\ a[1] \in Runs /\ audited[a[1]] /\ step[a[1]] = "ended"
    BY <1>3, <2>1, StoredLines
  <2>3. a[1] # r
    <3> SUFFICES ASSUME a[1] = r PROVE FALSE
        OBVIOUS
    <3>1. a[2] \in 1 .. Results[r] /\ a = <<r, a[2]>>
      <4>1. a \in Runs \X (Nat \ {0})
        BY <2>2 DEF Lines
      <4> QED BY <2>2, <4>1, LineParts
    <3> QED BY <1>7, <3>1
  <2>4. a \in Settled /\ a \notin LinesOf(shown)
    BY <1>1, <1>7, <2>1, <2>2, <2>3 DEF Settled, InFlight
  <2>5. /\ cleared \/ Len(shown) >= MaxRows
        /\ \A b \in Stored : Before(b, a) => b \notin LinesOf(shown)
    BY <1>4, <2>4 DEF LacksOldest
  <2>6. cleared \/ Len(rows) >= MaxRows
    BY <1>7, <2>5, ListConstants
  <2>7. ASSUME NEW b \in Stored, Before(b, a), b \in LinesOf(rows) PROVE FALSE
    <3>1. b[1] = r
      BY <1>7, <2>5, <2>7
    <3>2. audited[r]
      BY <1>3, <3>1, StoredLines
    <3>3. index[a[1]] < index[r]
      BY <1>5, <2>2, <2>3, <3>2 DEF Lasts
    <3>4. index[r] < index[a[1]]
      BY <2>3, <2>7, <3>1 DEF Before
    <3>5. index[r] \in Nat /\ index[a[1]] \in Nat
      BY <1>3, <2>2 DEF OutputTypeOK, Names
    <3> QED BY <3>3, <3>4, <3>5
  <2> QED BY <2>6, <2>7
<1>9. Settled' \in SUBSET Stored
  BY <1>1 DEF Settled, Stored, Lasting, outputVars
<1>10. /\ Recent(rows) \in Seq(Rows) /\ Len(Recent(rows)) <= MaxRows
       /\ Ordered(Recent(rows))
       /\ LinesOf(Recent(rows)) \subseteq LinesOf(rows)
       /\ LacksOldest(Recent(rows), cleared, Settled')
  BY <1>3, <1>4, <1>7, <1>8, <1>9, RecentKeeps
<1>11. \A a \in LinesOf(rows) :
          a[1] \in OwnRuns => a[1] \notin summaries' /\ step[a[1]] \in {"ended", "killed"}
  BY <1>1, <1>4, <1>7 DEF InFlight
<1>12. GoodList(shown', cleared', Settled')
  BY <1>1, <1>10, <1>11 DEF GoodList
<1> QED BY <1>1, <1>4, <1>12, ListReplaced

(* Every set of numbers has a least one: induction for what is said here.   *)
LEMMA NatLeast ==
    ASSUME NEW S \in SUBSET Nat, S # {}
    PROVE  \E m \in S : \A j \in S : m <= j
<1>1. PICK R : R = OpToRel(<, Nat)
  OBVIOUS
<1>2. IsWellFoundedOn(R, Nat)
  BY <1>1, NatLessThanWellFounded
<1>3. PICK m \in S : \A j \in S : ~(<<j, m>> \in R)
  BY <1>2, WFMin
<1>4. ASSUME NEW j \in S, j < m PROVE FALSE
  <2>1. <<j, m>> \in R
    BY <1>1, <1>4 DEF OpToRel
  <2> QED BY <1>3, <2>1
<1>5. S \subseteq Nat
  OBVIOUS
<1> QED BY <1>3, <1>4, <1>5

(* What FlattenSeq computes on the way: join[i] is the first i parts in one. *)
Joins(join, parts, n) ==
    join = [i \in 1 .. n |-> IF i = 1 THEN parts[i] ELSE join[i - 1] \o parts[i]]

LEMMA JoinsExist ==
    ASSUME NEW parts, NEW n \in Nat
    PROVE  \E join : Joins(join, parts, n)
<1> DEFINE Without == {m \in Nat : ~\E join : Joins(join, parts, m)}
<1> SUFFICES ASSUME Without # {} PROVE FALSE
    BY Zenon
<1>1. PICK m \in Without : \A j \in Without : m <= j
  BY NatLeast
<1>2. m \in Nat /\ \A join : ~Joins(join, parts, m)
  BY <1>1
<1>3. CASE m \in {0, 1}
  <2> DEFINE join == [i \in 1 .. m |-> parts[i]]
  <2>1. join = [i \in 1 .. m |-> IF i = 1 THEN parts[i] ELSE join[i - 1] \o parts[i]]
    BY <1>3
  <2> QED BY <1>2, <2>1 DEF Joins
<1>4. CASE m \notin {0, 1}
  <2>1. m - 1 \in Nat /\ m - 1 \notin Without /\ m >= 2
    BY <1>1, <1>2, <1>4
  <2>2. PICK join : Joins(join, parts, m - 1)
    BY <2>1
  <2> DEFINE longer == [i \in 1 .. m |-> IF i = m THEN join[m - 1] \o parts[m] ELSE join[i]]
  <2>3. ASSUME NEW i \in 1 .. m
        PROVE  longer[i] = IF i = 1 THEN parts[i] ELSE longer[i - 1] \o parts[i]
    <3>1. CASE i = m
      <4>1. m \in 1 .. m /\ m - 1 \in 1 .. m /\ m - 1 # m /\ i # 1
        BY <2>1, <3>1
      <4>2. longer[m] = join[m - 1] \o parts[m] /\ longer[m - 1] = join[m - 1]
        BY <4>1
      <4> HIDE DEF longer
      <4> QED BY <3>1, <4>1, <4>2
    <3>2. CASE i # m
      <4>1. i \in 1 .. (m - 1) /\ (i # 1 => i - 1 \in 1 .. m /\ i - 1 # m)
        BY <2>1, <3>2
      <4>2. join[i] = IF i = 1 THEN parts[i] ELSE join[i - 1] \o parts[i]
        BY <2>2, <4>1 DEF Joins
      <4>3. i # 1 => longer[i - 1] = join[i - 1]
        BY <4>1
      <4> QED BY <3>2, <4>2, <4>3
    <3> QED BY <3>1, <3>2
  <2>4. longer = [i \in 1 .. m |-> longer[i]]
    OBVIOUS
  <2> HIDE DEF longer
  <2>5. longer = [i \in 1 .. m |-> IF i = 1 THEN parts[i] ELSE longer[i - 1] \o parts[i]]
    BY <2>3, <2>4
  <2> QED BY <1>2, <2>5 DEF Joins
<1> QED BY <1>3, <1>4

LEMMA FlattenIsJoin ==
    ASSUME NEW parts, Len(parts) \in Nat \ {0}
    PROVE  \E join : Joins(join, parts, Len(parts)) /\ FlattenSeq(parts) = join[Len(parts)]
<1>1. \E join : Joins(join, parts, Len(parts))
  BY JoinsExist
<1>2. FlattenSeq(parts) = (CHOOSE join : Joins(join, parts, Len(parts)))[Len(parts)]
  BY DEF FlattenSeq, Joins
<1> QED BY <1>1, <1>2

(* The audits, in the order of their directories, are a list in order that  *)
(* has every line of an audited run.                                        *)
LEMMA AuditRowsGood ==
    ASSUME FilesInv, DirsInOrder
    PROVE  /\ AuditRows \in Seq(Rows) /\ Ordered(AuditRows)
           /\ \A a \in LinesOf(AuditRows) : a \in Lines /\ audited[a[1]]
           /\ \A a \in Lines : audited[a[1]] => a \in LinesOf(AuditRows)
<1> DEFINE part(i) == IF dirs[i].summary = "whole" THEN RowsOfRun(dirs[i].owner) ELSE <<>>
           parts == [k \in 1 .. MaxTries |-> part(k - 1)]
<1>1. OutputTypeOK /\ MaxTries \in Nat \ {0}
  BY OutputConstants DEF FilesInv
<1>2. AuditRows = FlattenSeq(parts)
  BY DEF AuditRows
<1>3. Len(parts) = MaxTries
  BY <1>1
<1>4. PICK join : Joins(join, parts, MaxTries) /\ AuditRows = join[MaxTries]
  <2> HIDE DEF parts
  <2> QED BY <1>1, <1>2, <1>3, FlattenIsJoin
<1>5. \A m \in 1 .. MaxTries :
         join[m] = IF m = 1 THEN part(0) ELSE join[m - 1] \o part(m - 1)
  <2>1. \A m \in 1 .. MaxTries : parts[m] = part(m - 1)
    OBVIOUS
  <2> HIDE DEF parts
  <2>2. \A m \in 1 .. MaxTries : join[m] = IF m = 1 THEN parts[m] ELSE join[m - 1] \o parts[m]
    BY <1>4 DEF Joins
  <2>3. \A m \in 1 .. MaxTries : m = 1 => m - 1 = 0
    OBVIOUS
  <2> HIDE DEF part
  <2> QED BY <2>1, <2>2, <2>3
<1> DEFINE Good(m) ==
      /\ join[m] \in Seq(Rows) /\ Ordered(join[m])
      /\ \A a \in LinesOf(join[m]) : a \in Lines /\ audited[a[1]] /\ index[a[1]] < m
      /\ \A a \in Lines : audited[a[1]] /\ index[a[1]] < m => a \in LinesOf(join[m])
<1>6. ASSUME NEW m \in 1 .. MaxTries, m # 1 => Good(m - 1) PROVE Good(m)
  <2> DEFINE old == IF m = 1 THEN <<>> ELSE join[m - 1]
             r == dirs[m - 1].owner
  <2>1. m - 1 \in Names /\ m \in Nat
    BY <1>1 DEF Names
  <2>2. /\ old \in Seq(Rows) /\ Ordered(old)
        /\ \A a \in LinesOf(old) : a \in Lines /\ audited[a[1]] /\ index[a[1]] < m - 1
        /\ \A a \in Lines : audited[a[1]] /\ index[a[1]] < m - 1 => a \in LinesOf(old)
    <3>1. CASE m # 1
      BY <1>6, <3>1
    <3>2. CASE m = 1
      <4>1. old = <<>> /\ DOMAIN old = {}
        BY <3>2
      <4>2. \A a \in Lines : ~(index[a[1]] < 0)
        BY <1>1, LineParts DEF OutputTypeOK, Names
      <4> HIDE DEF old
      <4> QED BY <3>2, <4>1, <4>2 DEF Ordered, LinesOf
    <3> QED BY <3>1, <3>2
  <2>3. \A a \in Lines : index[a[1]] \in Int
    BY <1>1, LineParts DEF OutputTypeOK, Names
  <2>4. CASE dirs[m - 1].summary = "whole"
    <3>1. r \in Runs /\ audited[r] /\ index[r] = m - 1
      BY <2>1, <2>4 DEF DirsInOrder
    <3>2. part(m - 1) = RowsOfRun(r)
      BY <2>4
    <3>3. \A a \in LinesOf(old) :
             a[1] # r /\ (Lasts(a) /\ r \in OwnRuns /\ audited[r] => index[a[1]] < index[r])
      BY <2>2, <3>1
    <3> HIDE DEF old, r
    <3>4. /\ old \o RowsOfRun(r) \in Seq(Rows) /\ Ordered(old \o RowsOfRun(r))
          /\ LinesOf(old \o RowsOfRun(r)) = LinesOf(old) \union {<<r, i>> : i \in 1 .. Results[r]}
      BY <2>2, <3>1, <3>3, RunAdded
    <3>5. join[m] = old \o RowsOfRun(r)
      <4>1. CASE m = 1
        <5>1. RowsOfRun(r) \in Seq(Rows)
          BY <3>1, RunRows
        <5>2. old = <<>>
          BY <4>1 DEF old
        <5>3. old \o RowsOfRun(r) = RowsOfRun(r)
          BY <5>1, <5>2
        <5> QED BY <1>5, <3>2, <4>1, <5>3
      <4>2. CASE m # 1
        BY <1>5, <3>2, <4>2 DEF old
      <4> QED BY <4>1, <4>2
    <3>6. ASSUME NEW a \in LinesOf(join[m]) PROVE a \in Lines /\ audited[a[1]] /\ index[a[1]] < m
      <4>1. CASE a \in LinesOf(old)
        BY <2>1, <2>2, <2>3, <4>1
      <4>2. ASSUME NEW i \in 1 .. Results[r], a = <<r, i>>
            PROVE  a \in Lines /\ audited[a[1]] /\ index[a[1]] < m
        BY <2>1, <3>1, <4>2, OutputConstants DEF Lines
      <4> QED BY <3>4, <3>5, <3>6, <4>1, <4>2
    <3>7. ASSUME NEW a \in Lines, audited[a[1]], index[a[1]] < m PROVE a \in LinesOf(join[m])
      <4>1. CASE index[a[1]] < m - 1
        BY <2>2, <3>4, <3>5, <3>7, <4>1
      <4>2. CASE index[a[1]] = m - 1
        <5>1. a[1] \in Runs /\ Own(a[1])
          BY LineParts DEF FilesInv, MadeIsOwn
        <5>2. dirs[m - 1] = [owner |-> a[1], summary |-> "whole"]
          BY <3>7, <4>2, <5>1 DEF Own
        <5>3. a[1] = r
          BY <5>2 DEF r
        <5>4. a = <<r, a[2]>> /\ a[2] \in 1 .. Results[r]
          <6>1. a \in Runs \X (Nat \ {0})
            BY DEF Lines
          <6> QED BY <5>3, <6>1, LineParts
        <5> QED BY <3>4, <3>5, <5>4
      <4> QED BY <2>1, <2>3, <3>7, <4>1, <4>2
    <3> QED BY <3>4, <3>5, <3>6, <3>7
  <2>5. CASE dirs[m - 1].summary # "whole"
    <3>1. part(m - 1) = <<>>
      BY <2>5
    <3>2. join[m] = old
      <4>1. CASE m = 1
        BY <1>5, <3>1, <4>1
      <4>2. CASE m # 1
        <5>1. join[m] = join[m - 1] \o <<>> /\ join[m - 1] = old
          BY <1>5, <3>1, <4>2
        <5> HIDE DEF old
        <5> QED BY <2>2, <5>1
      <4> QED BY <4>1, <4>2
    <3>3. ASSUME NEW a \in Lines, audited[a[1]] PROVE index[a[1]] # m - 1
      <4>1. a[1] \in Runs /\ Own(a[1])
        BY LineParts DEF FilesInv, MadeIsOwn
      <4>2. dirs[index[a[1]]] = [owner |-> a[1], summary |-> "whole"]
        BY <3>3, <4>1 DEF Own
      <4> QED BY <2>5, <4>2
    <3> HIDE DEF old
    <3>4. \A a \in LinesOf(join[m]) : a \in Lines /\ audited[a[1]] /\ index[a[1]] < m
      BY <2>1, <2>2, <2>3, <3>2
    <3>5. ASSUME NEW a \in Lines, audited[a[1]], index[a[1]] < m PROVE a \in LinesOf(join[m])
      <4>1. index[a[1]] < m - 1
        BY <2>1, <2>3, <3>3, <3>5
      <4> QED BY <2>2, <3>2, <3>5, <4>1
    <3> QED BY <2>2, <3>2, <3>4, <3>5
  <2> QED BY <2>4, <2>5
<1> HIDE DEF Good
<1>7. Good(MaxTries)
  <2> DEFINE Bad == {m \in 1 .. MaxTries : ~Good(m)}
  <2>1. ASSUME Bad # {} PROVE FALSE
    <3>1. PICK m \in Bad : \A j \in Bad : m <= j
      <4>1. Bad \in SUBSET Nat
        OBVIOUS
      <4> HIDE DEF Bad
      <4> QED BY <2>1, <4>1, NatLeast
    <3>2. m \in 1 .. MaxTries /\ ~Good(m)
      BY <3>1
    <3>3. ASSUME m # 1 PROVE Good(m - 1)
      <4>1. m - 1 \in 1 .. MaxTries /\ ~(m <= m - 1)
        BY <1>1, <3>2, <3>3
      <4> QED BY <3>1, <4>1
    <3> QED BY <1>6, <3>2, <3>3
  <2>2. MaxTries \in 1 .. MaxTries
    BY <1>1
  <2> QED BY <2>1, <2>2
<1>8. \A a \in Lines : index[a[1]] < MaxTries
  BY <1>1, LineParts DEF OutputTypeOK, Names
<1> QED BY <1>4, <1>7, <1>8 DEF Good

(* The history, read back, is a list in order that has every stored line.   *)
LEMMA HistoryRowsGood ==
    ASSUME OutputTypeOK, HistoryInOrder, NEW rows,
           rows = [k \in 1 .. Len(history) |-> RowOfRecord(history[k])]
    PROVE  /\ rows \in Seq(Rows) /\ Ordered(rows)
           /\ \A a \in LinesOf(rows) : a \in Lines /\ step[a[1]] = "ended"
           /\ Stored \subseteq LinesOf(rows)
<1>1. /\ Len(history) \in Nat /\ DOMAIN history = 1 .. Len(history)
      /\ \A k \in DOMAIN history : history[k] \in Lines
  BY DEF OutputTypeOK
<1>2. \A k \in DOMAIN history : rows[k] = RowOfResult(history[k]) /\ rows[k].line = history[k]
                                /\ rows[k] \in Rows
  BY <1>1, OneLabel DEF Rows
<1>3. DOMAIN rows = DOMAIN history /\ rows \in [1 .. Len(history) -> Rows]
  BY <1>1, <1>2
<1>4. rows \in Seq(Rows)
  BY <1>1, <1>3, FunctionIsSequence
<1>5. Ordered(rows)
  <2> SUFFICES ASSUME NEW x \in DOMAIN rows, NEW y \in DOMAIN rows, x < y
               PROVE  Follows(rows[x].line, rows[y].line)
      BY DEF Ordered
  <2>1. rows[x].line = history[x] /\ rows[y].line = history[y]
    BY <1>2, <1>3
  <2>2. Follows(history[x], history[y])
    BY <1>3 DEF HistoryInOrder
  <2> QED BY <2>1, <2>2
<1>6. \A a \in LinesOf(rows) : a \in Lines /\ step[a[1]] = "ended"
  BY <1>1, <1>2, <1>3 DEF LinesOf, HistoryInOrder
<1>7. Stored \subseteq LinesOf(rows)
  BY <1>2, <1>3 DEF LinesOf, Stored, Lasting
<1> QED BY <1>4, <1>5, <1>6, <1>7

(* A list that is read back between runs, from whichever file, is good.     *)
LEMMA LoadKeepsList ==
    ASSUME FilesInv, DirsInOrder, OneAfterTheOther, HistoryInOrder,
           Load, UNCHANGED <<outputVars, summaries>>, open' \in BOOLEAN,
           \A q \in OwnRuns : ~InFlight(q)
    PROVE  ListInv'
<1>1. OutputTypeOK /\ OwnRuns \subseteq Runs
  BY ListConstants DEF FilesInv
<1>2. PICK rows \in ReadBack : shown' = Recent(rows)
  BY DEF Load
<1>3. cleared' = FALSE
  BY DEF Load
<1>4. /\ rows \in Seq(Rows) /\ Ordered(rows)
      /\ \A a \in LinesOf(rows) : a \in Lines /\ (audited[a[1]] \/ step[a[1]] = "ended")
      /\ Stored \subseteq LinesOf(rows)
  <2>1. CASE rows = AuditRows
    <3>1. \A a \in Stored : a \in Lines /\ audited[a[1]]
      BY <1>1, StoredLines
    <3> QED BY <2>1, <3>1, AuditRowsGood
  <2>2. CASE rows = [k \in 1 .. Len(history) |-> RowOfRecord(history[k])]
    BY <1>1, <2>2, HistoryRowsGood
  <2>3. rows = AuditRows \/ rows = [k \in 1 .. Len(history) |-> RowOfRecord(history[k])]
    BY DEF ReadBack
  <2> QED BY <2>1, <2>2, <2>3
<1>5. ASSUME NEW a \in LinesOf(rows), a[1] \in OwnRuns
      PROVE  a[1] \notin summaries' /\ step[a[1]] \in {"ended", "killed"}
  <2>1. a[1] \in Runs /\ (audited[a[1]] \/ step[a[1]] = "ended")
    BY <1>4, LineParts
  <2>2. audited[a[1]] => step[a[1]] # "running"
    BY <2>1 DEF FilesInv, MadeIsOwn, Own
  <2> QED BY <1>5, <2>1, <2>2 DEF InFlight
<1>6. Settled' \in SUBSET Stored
  BY DEF Settled, Stored, Lasting, outputVars
<1>7. LacksOldest(rows, FALSE, Settled')
  BY <1>4, <1>6 DEF LacksOldest
<1>8. /\ Recent(rows) \in Seq(Rows) /\ Len(Recent(rows)) <= MaxRows
      /\ Ordered(Recent(rows))
      /\ LinesOf(Recent(rows)) \subseteq LinesOf(rows)
      /\ LacksOldest(Recent(rows), FALSE, Settled')
  BY <1>1, <1>4, <1>6, <1>7, RecentKeeps
<1>9. GoodList(shown', cleared', Settled')
  BY <1>2, <1>3, <1>5, <1>8 DEF GoodList
<1> QED BY <1>3, <1>9, ListReplaced

(* All that the list rests on. *)
StoreInv ==
    /\ FilesInv
    /\ AppendInv
    /\ DirsInOrder
    /\ OneAfterTheOther
    /\ HistoryInOrder
    /\ ListInv

LEMMA ListStep ==
    ASSUME StoreInv, [ListNext]_<<outputVars, listVars>>, OutputTypeOK', HistoryInOrder'
    PROVE  ListInv'
<1>1. /\ FilesInv /\ AppendInv /\ DirsInOrder /\ OneAfterTheOther /\ HistoryInOrder /\ ListInv
      /\ OutputTypeOK /\ open \in BOOLEAN /\ cleared \in BOOLEAN
  BY DEF StoreInv, FilesInv, ListInv
<1>2. OwnRuns \subseteq Runs /\ \A r \in OwnRuns : ProcessOf[r] = Window
  BY ListConstants
<1>3. CASE OpenWindow
  <2>1. Load /\ UNCHANGED <<outputVars, summaries>> /\ open' = TRUE /\ ~open
    BY <1>3 DEF OpenWindow
  <2>2. \A q \in OwnRuns : ~InFlight(q)
    BY <1>1, <2>1 DEF OneAfterTheOther
  <2> QED BY <1>1, <2>1, <2>2, LoadKeepsList
<1>4. CASE BrowseOutputDir
  <2>1. Load /\ UNCHANGED <<outputVars, summaries>> /\ open' = open /\ \A q \in OwnRuns : ~InFlight(q)
    BY <1>4 DEF BrowseOutputDir
  <2> QED BY <1>1, <2>1, LoadKeepsList
<1>5. CASE ClearHistory
  <2>1. shown' = <<>> /\ cleared' = TRUE /\ UNCHANGED outputVars /\ open' = open
    BY <1>5 DEF ClearHistory
  <2>2. GoodList(shown', cleared', Settled')
    <3>1. shown' \in Seq(Rows) /\ Len(shown') <= MaxRows /\ DOMAIN shown' = {}
      BY <2>1, ListConstants
    <3> QED BY <2>1, <3>1 DEF GoodList, Ordered, LinesOf, LacksOldest
  <2> QED BY <1>1, <2>1, <2>2, ListReplaced
<1>6. CASE WindowGone
  <2>1. shown' = <<>> /\ open' = FALSE /\ cleared' = cleared
    BY <1>6 DEF WindowGone
  <2>2. shown' \in Seq(Rows') /\ Len(shown') <= MaxRows /\ DOMAIN shown' = {}
    BY <2>1, ListConstants
  <2> QED BY <1>1, <2>1, <2>2 DEF ListInv, Ordered, LinesOf
<1>7. ASSUME NEW r \in Runs, AppendHistoryRows(r) PROVE ListInv'
  BY <1>1, <1>7, AppendKeepsList
<1>8. ASSUME NEW r \in Runs, Begin(r) PROVE ListInv'
  <2>1. step[r] = "running" /\ step'[r] = "mkdir" /\ UNCHANGED listVars
        /\ \A q \in Runs : q # r => step'[q] = step[q]
    BY <1>1, <1>8 DEF Begin, Finalize, Goto, OutputTypeOK
  <2>2. summaries' = summaries /\ shown' = shown /\ cleared' = cleared /\ open' = open
    BY <2>1 DEF listVars
  <2>3. Undisturbed
    BY <1>2, <2>1, <2>2 DEF InFlight, Undisturbed
  <2> QED BY <1>1, <2>2, <2>3, ListUntouched
<1>9. ASSUME NEW r \in Runs, Save(r) PROVE ListInv'
  <2>1. SaveStep(r) /\ open' = open /\ shown' = shown /\ cleared' = cleared
        /\ summaries' = IF r \in OwnRuns /\ step'[r] = "ended" THEN summaries \union {r} ELSE summaries
    BY <1>9 DEF Save
  <2>2. /\ step[r] \notin {"running", "ended", "killed"}
        /\ step'[r] \notin {"running", "killed"}
        /\ \A q \in Runs : q # r => step'[q] = step[q]
    BY <1>1, <2>1, SaveEffect
  <2>3. Undisturbed
    BY <1>2, <2>1, <2>2 DEF InFlight, Undisturbed
  <2> QED BY <1>1, <2>1, <2>3, ListUntouched
<1>10. ASSUME NEW p \in Processes, OtherGone(p) PROVE ListInv'
  <2>1. \A q \in OwnRuns : step'[q] = step[q]
    BY <1>1, <1>2, <1>10 DEF OtherGone, Kill, OutputTypeOK
  <2>2. summaries' = summaries /\ shown' = shown /\ cleared' = cleared /\ open' = open
    BY <1>10 DEF OtherGone, listVars
  <2>3. Undisturbed
    BY <2>1, <2>2 DEF InFlight, Undisturbed
  <2> QED BY <1>1, <2>2, <2>3, ListUntouched
<1>11. CASE UNCHANGED <<outputVars, listVars>>
  <2>1. step' = step /\ summaries' = summaries /\ shown' = shown /\ cleared' = cleared /\ open' = open
    BY <1>11 DEF outputVars, listVars
  <2>2. Undisturbed
    BY <2>1 DEF InFlight, Undisturbed
  <2> QED BY <1>1, <2>1, <2>2, ListUntouched
<1> QED BY <1>3, <1>4, <1>5, <1>6, <1>7, <1>8, <1>9, <1>10, <1>11 DEF ListNext

LEMMA StoreInitially == ListInit => StoreInv
<1> SUFFICES ASSUME ListInit PROVE StoreInv
    OBVIOUS
<1>1. FilesInv /\ AppendInv
  BY FilesInitially, AppendInitially DEF ListInit
<1>2. OutputInit /\ open = FALSE /\ summaries = {} /\ shown = <<>> /\ cleared = FALSE
  BY DEF ListInit
<1>3. DirsInOrder
  BY <1>2, OutputConstants DEF OutputInit, DirsInOrder, Names, NoDir
<1>4. OneAfterTheOther
  BY <1>2, ListConstants DEF OutputInit, OneAfterTheOther, InFlight
<1>5. HistoryInOrder
  <2>1. DOMAIN history = {}
    BY <1>2 DEF OutputInit
  <2> QED BY <2>1 DEF HistoryInOrder
<1>6. ListInv
  <2>1. DOMAIN shown = {} /\ shown \in Seq(Rows) /\ Len(shown) <= MaxRows
    BY <1>2, ListConstants
  <2> QED BY <1>2, <2>1 DEF ListInv, Ordered, LinesOf
<1> QED BY <1>1, <1>3, <1>4, <1>5, <1>6 DEF StoreInv

LEMMA StoreStep ==
    ASSUME OneLock, StoreInv, [ListNext]_<<outputVars, listVars>>
    PROVE  StoreInv'
<1>1. FilesInv /\ AppendInv /\ DirsInOrder /\ OneAfterTheOther /\ HistoryInOrder
  BY DEF StoreInv
<1>2. [OutputNext]_outputVars
  BY ListStepIsOutputStep
<1>3. FilesInv' /\ AppendInv' /\ DirsInOrder'
  BY <1>1, <1>2, FilesStep, AppendStep, DirsStep
<1>4. OneAfterTheOther' /\ HistoryInOrder'
  BY <1>1, OneAfterTheOtherStep, HistoryInOrderStep
<1>5. OutputTypeOK'
  BY <1>3 DEF FilesInv
<1>6. ListInv'
  BY <1>4, <1>5, ListStep
<1> QED BY <1>3, <1>4, <1>6 DEF StoreInv

(* Between runs, what the list is known to be is what is asked of it. *)
LEMMA StoreShows == StoreInv => ShownIsStored
<1> SUFFICES ASSUME StoreInv, open, \A r \in OwnRuns : ~InFlight(r)
             PROVE  /\ Len(shown) <= MaxRows
                    /\ \A k \in DOMAIN shown :
                          /\ InList(shown[k].line) = {k}
                          /\ shown[k].label = HistoryResultLabel(StatusOf(shown[k].line))
                    /\ \A k \in Lasting :
                          InList(history[k]) = {} =>
                              /\ cleared \/ Len(shown) = MaxRows
                              /\ \A j \in Lasting : j < k => InList(history[j]) = {}
                    /\ \A k, j \in Lasting :
                          j < k => \A x \in InList(history[j]), y \in InList(history[k]) : x < y
    BY DEF ShownIsStored
<1>1. /\ OutputTypeOK /\ HistoryInOrder
      /\ shown \in Seq(Rows) /\ Len(shown) <= MaxRows /\ Ordered(shown)
      /\ LacksOldest(shown, cleared, Settled) /\ cleared \in BOOLEAN
  BY DEF StoreInv, FilesInv, ListInv
<1>2. /\ DOMAIN shown = 1 .. Len(shown) /\ Len(shown) \in Nat /\ MaxRows \in Nat
      /\ DOMAIN history \subseteq Nat
      /\ \A k \in DOMAIN shown : shown[k] \in Rows
  BY <1>1, ListConstants DEF OutputTypeOK
<1>3. \A a : InList(a) = {} <=> a \notin LinesOf(shown)
  BY DEF InList, LinesOf
<1>4. ASSUME NEW k \in DOMAIN shown
      PROVE  /\ InList(shown[k].line) = {k}
             /\ shown[k].label = HistoryResultLabel(StatusOf(shown[k].line))
  <2>1. shown[k] = RowOfResult(shown[k].line)
    BY <1>2, RowsAreRows
  <2>2. ASSUME NEW x \in DOMAIN shown, x # k PROVE shown[x].line # shown[k].line
    <3>1. x < k \/ k < x
      BY <1>2, <2>2
    <3> QED BY <1>1, <3>1 DEF Ordered, Follows
  <2>3. shown[k].label = HistoryResultLabel(StatusOf(shown[k].line))
    <3> DEFINE a == shown[k].line
    <3>1. shown[k] = RowOfResult(a)
      BY <2>1
    <3> HIDE DEF a
    <3>2. shown[k].label = HistoryResultLabel(StatusOf(a))
      BY <3>1, OneLabel
    <3> QED BY <3>2 DEF a
  <2> QED BY <2>2, <2>3 DEF InList
<1>5. ASSUME NEW k \in Lasting
      PROVE  /\ k \in DOMAIN history /\ history[k] \in Stored /\ history[k] \in Settled
             /\ Lasts(history[k])
  BY DEF Lasting, Stored, Settled, Lasts
<1>6. ASSUME NEW j \in Lasting, NEW k \in Lasting, j < k PROVE Before(history[j], history[k])
  BY <1>1, <1>5, <1>6 DEF HistoryInOrder, Follows
<1>7. ASSUME NEW k \in Lasting, InList(history[k]) = {}
      PROVE  /\ cleared \/ Len(shown) = MaxRows
             /\ \A j \in Lasting : j < k => InList(history[j]) = {}
  <2>1. /\ cleared \/ Len(shown) >= MaxRows
        /\ \A b \in Stored : Before(b, history[k]) => b \notin LinesOf(shown)
    BY <1>1, <1>3, <1>5, <1>7 DEF LacksOldest
  <2>2. Len(shown) >= MaxRows => Len(shown) = MaxRows
    <3>1. Len(shown) \in Nat /\ MaxRows \in Nat /\ Len(shown) <= MaxRows
      BY <1>1, <1>2
    <3> QED BY <3>1
  <2>3. cleared \/ Len(shown) = MaxRows
    BY <2>1, <2>2, Zenon
  <2> QED BY <1>3, <1>5, <1>6, <2>1, <2>3
<1>8. ASSUME NEW j \in Lasting, NEW k \in Lasting, j < k,
             NEW x \in InList(history[j]), NEW y \in InList(history[k])
      PROVE  x < y
  <2> DEFINE a == history[j]
             b == history[k]
  <2>1. /\ x \in DOMAIN shown /\ y \in DOMAIN shown
        /\ shown[x].line = a /\ shown[y].line = b
    BY DEF InList
  <2>2. Before(a, b) /\ Lasts(a) /\ Lasts(b) /\ a \in Stored /\ b \in Stored
    BY <1>5, <1>6, <1>8
  <2>3. Follows(a, b)
    BY <1>1, <1>5, <1>8 DEF HistoryInOrder
  <2> HIDE DEF a, b
  <2>4. a \in Lines /\ b \in Lines
    BY <1>1, <2>2, StoredLines
  <2>5. /\ a[1] \in Runs /\ b[1] \in Runs /\ a[2] \in Nat /\ b[2] \in Nat
    BY <2>4, LineParts
  <2>6. index[a[1]] \in Nat /\ index[b[1]] \in Nat
    BY <1>1, <2>5 DEF OutputTypeOK, Names
  <2>7. x # y
    BY <2>1, <2>3 DEF Follows
  <2>8. ASSUME y < x PROVE FALSE
    <3>1. Before(b, a)
      BY <1>1, <2>1, <2>2, <2>8 DEF Ordered, Follows
    <3> QED BY <2>2, <2>5, <2>6, <3>1 DEF Before
  <2> QED BY <1>2, <2>1, <2>7, <2>8
<1> QED BY <1>1, <1>4, <1>7, <1>8

(* What the list rests on, StoreInv, always holds with one process.         *)
THEOREM StoreInvariant == ASSUME OneLock PROVE ListSpec => []StoreInv
<1>1. StoreInv /\ [ListNext]_<<outputVars, listVars>> => StoreInv'
  BY StoreStep
<1> QED BY StoreInitially, <1>1, PTL DEF ListSpec

(* Between runs the window's list shows each kept result once, with the     *)
(* label of the file, in order and with only the oldest missing, however    *)
(* many runs, results and rows there are, whatever failed or was killed.    *)
THEOREM ListAlwaysTrue == ASSUME OneLock PROVE ListSpec => []ShownIsStored
<1> QED BY StoreInvariant, StoreShows, PTL
============================================================================
