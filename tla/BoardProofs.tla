----------------------------- MODULE BoardProofs -----------------------------
(***************************************************************************)
(* What the bridge does to the issues of the board, for every board, lane  *)
(* list and budget, under the hypotheses on faults, interventions and      *)
(* recovery that each theorem names.                                       *)
(***************************************************************************)
EXTENDS TickProofs

USE FaultsAssumption, DispatchAssumption, ClusterAssumption, BridgeAssumption

-----------------------------------------------------------------------------
(* What one request does, issue by issue.                                  *)

\* The board, and the cluster, are as they were for issue j.
BoardSame(j) ==
    /\ status'[j] = status[j] /\ owner'[j] = owner[j] /\ human'[j] = human[j]
    /\ said'[j] = said[j] /\ lane'[j] = lane[j] /\ marker'[j] = marker[j]
    /\ hasPr'[j] = hasPr[j] /\ open'[j] = open[j]

WorkSame(j) ==
    /\ phase'[j] = phase[j] /\ going'[j] = going[j] /\ result'[j] = result[j]
    /\ attempt'[j] = attempt[j] /\ infra'[j] = infra[j] /\ age'[j] = age[j]

BoardBut(i) == \A j \in Issues \ {i} : BoardSame(j)
WorkBut(i)  == \A j \in Issues \ {i} : WorkSame(j)

Board == \A j \in Issues : BoardSame(j)
Work  == \A j \in Issues : WorkSame(j)

LEMMA BoardKept ==
    ASSUME UNCHANGED issueVars
    PROVE  Board
BY DEF issueVars, marks, Board, BoardSame

LEMMA WorkKept ==
    ASSUME UNCHANGED workVars
    PROVE  Work
BY DEF workVars, Work, WorkSame

\* A request fails without effect, or has it, with an answer or without.
Failed(reply) == reply \in Failures /\ Fault("call") /\ Board
Took(reply)   == (reply = "ok" /\ NoFault) \/ (reply = "raise" /\ Fault("lost"))

LEMMA StatusFacts ==
    ASSUME TypeOK, NEW i \in Issues, NEW s \in Statuses, NEW reply, StatusCall(i, s, reply)
    PROVE  /\ BoardBut(i)
           /\ \/ Failed(reply)
              \/ /\ Took(reply) /\ status'[i] = s
                 /\ owner'[i] \in {owner[i], "none"} /\ (s = "in-progress" => owner'[i] = owner[i])
                 /\ human'[i] = human[i] /\ said'[i] = said[i] /\ lane'[i] = lane[i]
                 /\ marker'[i] = marker[i] /\ hasPr'[i] = hasPr[i] /\ open'[i] = open[i]
<1>1. CASE reply \in Failures /\ Fault("call") /\ UNCHANGED issueVars
  BY <1>1, BoardKept DEF Failed, Board, BoardBut
<1>2. CASE Took(reply) /\ StatusSet(i, s)
  <2>1. UNCHANGED <<lane, human, open, hasPr, said, marker>>
    BY <1>2 DEF StatusSet, marks
  <2>2. status'[i] = s /\ \A j \in Issues \ {i} : status'[j] = status[j]
    BY <1>2 DEF StatusSet, TypeOK, DispatchTypeOK
  <2>3. /\ owner'[i] \in {owner[i], "none"} /\ (s = "in-progress" => owner'[i] = owner[i])
        /\ \A j \in Issues \ {i} : owner'[j] = owner[j]
    BY <1>2 DEF StatusSet, TypeOK, DispatchTypeOK
  <2> QED
    BY <1>2, <2>1, <2>2, <2>3 DEF BoardBut, BoardSame
<1> QED
  BY <1>1, <1>2 DEF StatusCall, Call, Took

LEMMA HumanFacts ==
    ASSUME TypeOK, NEW i \in Issues, NEW b \in BOOLEAN, NEW reply, Call(HumanSet(i, b), reply)
    PROVE  /\ BoardBut(i)
           /\ \/ Failed(reply)
              \/ /\ Took(reply) /\ human'[i] = b
                 /\ status'[i] = status[i] /\ owner'[i] = owner[i] /\ said'[i] = said[i]
                 /\ lane'[i] = lane[i] /\ marker'[i] = marker[i] /\ hasPr'[i] = hasPr[i]
                 /\ open'[i] = open[i]
<1>1. CASE reply \in Failures /\ Fault("call") /\ UNCHANGED issueVars
  BY <1>1, BoardKept DEF Failed, Board, BoardBut
<1>2. CASE Took(reply) /\ HumanSet(i, b)
  <2>1. UNCHANGED <<status, owner, lane, open, hasPr, said, marker>>
    BY <1>2 DEF HumanSet, marks
  <2>2. human'[i] = b /\ \A j \in Issues \ {i} : human'[j] = human[j]
    BY <1>2 DEF HumanSet, TypeOK, DispatchTypeOK
  <2> QED
    BY <1>2, <2>1, <2>2 DEF BoardBut, BoardSame
<1> QED
  BY <1>1, <1>2 DEF Call, Took

LEMMA LaneFacts ==
    ASSUME TypeOK, NEW i \in Issues, NEW l, NEW reply, LaneCall(i, l, reply)
    PROVE  /\ BoardBut(i)
           /\ \/ Failed(reply)
              \/ /\ Took(reply) /\ lane'[i] = l
                 /\ status'[i] = status[i] /\ owner'[i] = owner[i] /\ said'[i] = said[i]
                 /\ human'[i] = human[i] /\ marker'[i] = marker[i] /\ hasPr'[i] = hasPr[i]
                 /\ open'[i] = open[i]
<1>1. CASE reply \in Failures /\ Fault("call") /\ UNCHANGED issueVars
  BY <1>1, BoardKept DEF Failed, Board, BoardBut
<1>2. CASE Took(reply) /\ LaneSet(i, l)
  <2>1. UNCHANGED <<status, owner, human, open, hasPr, said, marker>>
    BY <1>2 DEF LaneSet, marks
  <2>2. lane'[i] = l /\ \A j \in Issues \ {i} : lane'[j] = lane[j]
    BY <1>2 DEF LaneSet, TypeOK, DispatchTypeOK
  <2> QED
    BY <1>2, <2>1, <2>2 DEF BoardBut, BoardSame
<1> QED
  BY <1>1, <1>2 DEF LaneCall, Call, Took

\* A comment counts once, unless it is sent again.
LEMMA CommentFacts ==
    ASSUME TypeOK, NEW i \in Issues, NEW reply, CommentCall(i, reply)
    PROVE  /\ BoardBut(i)
           /\ \/ Failed(reply)
              \/ /\ Took(reply) \/ (reply = "ok" /\ Fault("repeat"))
                 /\ Took(reply) /\ said[i] = 0 => said'[i] = 1
                 /\ said'[i] >= 1
                 /\ status'[i] = status[i] /\ owner'[i] = owner[i] /\ human'[i] = human[i]
                 /\ lane'[i] = lane[i] /\ marker'[i] = marker[i] /\ hasPr'[i] = hasPr[i]
                 /\ open'[i] = open[i]
<1>1. CASE reply \in Failures /\ Fault("call") /\ UNCHANGED issueVars
  BY <1>1, BoardKept DEF Failed, Board, BoardBut
<1>2. ASSUME NEW n \in {1, 2}, Comments(i, n)
      PROVE  /\ BoardBut(i) /\ said'[i] >= 1 /\ (n = 1 /\ said[i] = 0 => said'[i] = 1)
             /\ UNCHANGED <<status, owner, lane, human, open, hasPr, marker>>
  <2>1. UNCHANGED <<status, owner, lane, human, open, hasPr, marker>>
    BY <1>2 DEF Comments, marks
  <2>2. said[i] \in 0 .. 2 /\ said'[i] = (IF said[i] + n < 2 THEN said[i] + n ELSE 2)
    BY <1>2 DEF Comments, TypeOK, DispatchTypeOK
  <2>3. \A j \in Issues \ {i} : said'[j] = said[j]
    BY <1>2 DEF Comments, TypeOK, DispatchTypeOK
  <2>4. said'[i] >= 1 /\ (n = 1 /\ said[i] = 0 => said'[i] = 1)
    BY <2>2
  <2> QED
    BY <2>1, <2>3, <2>4 DEF BoardBut, BoardSame
<1>3. CASE Took(reply) /\ Comments(i, 1)
  BY <1>2, <1>3
<1>4. CASE reply = "ok" /\ Fault("repeat") /\ Comments(i, 2)
  <2>1. faults \in Nat /\ faults' = faults + 1
    BY <1>4 DEF Fault, TypeOK, DispatchTypeOK
  <2>2. ~Took(reply)
    BY <1>4, <2>1 DEF Took, NoFault
  <2> QED
    BY <1>2, <1>4, <2>2
<1> QED
  BY <1>1, <1>3, <1>4 DEF CommentCall, Call, Took

LEMMA CloseFacts ==
    ASSUME TypeOK, NEW i \in Issues, NEW reply, CloseCall(i, reply)
    PROVE  /\ BoardBut(i)
           /\ status'[i] = status[i] /\ owner'[i] = owner[i] /\ human'[i] = human[i]
           /\ said'[i] = said[i] /\ lane'[i] = lane[i] /\ marker'[i] = marker[i]
           /\ hasPr'[i] = hasPr[i]
<1>1. CASE UNCHANGED issueVars
  BY <1>1, BoardKept DEF Board, BoardBut, BoardSame
<1>2. CASE CloseIssue(i)
  <2>1. UNCHANGED <<status, owner, human, lane, hasPr, said, marker>>
    BY <1>2 DEF CloseIssue, marks
  <2>2. \A j \in Issues \ {i} : open'[j] = open[j]
    BY <1>2 DEF CloseIssue, TypeOK, DispatchTypeOK
  <2> QED
    BY <2>1, <2>2 DEF BoardBut, BoardSame
<1> QED
  BY <1>1, <1>2 DEF CloseCall, Call

\* A claim is released only while there is one.
LEMMA UnclaimFacts ==
    ASSUME TypeOK, NEW i \in Issues, NEW reply, UnclaimCall(i, reply)
    PROVE  /\ BoardBut(i)
           /\ \/ BoardSame(i) /\ reply \in Failures
              \/ /\ Held(i) /\ reply \in {"ok", "raise"}
                 /\ status'[i] = "ready" /\ owner'[i] = "none"
                 /\ human'[i] = human[i] /\ said'[i] = said[i] /\ lane'[i] = lane[i]
                 /\ marker'[i] = marker[i] /\ hasPr'[i] = hasPr[i] /\ open'[i] = open[i]
<1>1. CASE reply \in Failures /\ UNCHANGED issueVars
  BY <1>1, BoardKept DEF Board, BoardBut
<1>2. CASE Held(i) /\ reply \in {"ok", "raise"} /\ Released(i)
  <2>1. UNCHANGED <<lane, human, open, hasPr, said, marker>>
    BY <1>2 DEF Released, marks
  <2>2. status'[i] = "ready" /\ \A j \in Issues \ {i} : status'[j] = status[j]
    BY <1>2 DEF Released, TypeOK, DispatchTypeOK
  <2>3. owner'[i] = "none" /\ \A j \in Issues \ {i} : owner'[j] = owner[j]
    BY <1>2 DEF Released, TypeOK, DispatchTypeOK
  <2> QED
    BY <1>2, <2>1, <2>2, <2>3 DEF BoardBut, BoardSame
<1> QED
  BY <1>1, <1>2 DEF UnclaimCall, Call, Failures

\* A claim is granted on ready work, or on work the bridge holds.
LEMMA ClaimFacts ==
    ASSUME TypeOK, NEW i \in Issues, NEW reply, ClaimCall(i, reply)
    PROVE  /\ BoardBut(i)
           /\ \/ BoardSame(i) /\ reply \in Failures
              \/ /\ status[i] \in {"ready", "in-progress"}
                 /\ status'[i] = "in-progress" /\ owner'[i] = "bridge" /\ said'[i] = 0
                 /\ human'[i] = human[i] /\ lane'[i] = lane[i]
                 /\ marker'[i] = marker[i] /\ hasPr'[i] = hasPr[i] /\ open'[i] = open[i]
<1>1. CASE reply \in Failures /\ UNCHANGED issueVars
  BY <1>1, BoardKept DEF Board, BoardBut
<1>2. CASE Claimable(i) /\ Granted(i)
  <2>1. UNCHANGED <<lane, human, open, hasPr, marker>>
    BY <1>2 DEF Granted, marks
  <2>2. status'[i] = "in-progress" /\ \A j \in Issues \ {i} : status'[j] = status[j]
    BY <1>2 DEF Granted, TypeOK, DispatchTypeOK
  <2>3. owner'[i] = "bridge" /\ \A j \in Issues \ {i} : owner'[j] = owner[j]
    BY <1>2 DEF Granted, TypeOK, DispatchTypeOK
  <2>4. said'[i] = 0 /\ \A j \in Issues \ {i} : said'[j] = said[j]
    BY <1>2 DEF Granted, TypeOK, DispatchTypeOK
  <2> QED
    BY <1>2, <2>1, <2>2, <2>3, <2>4 DEF Claimable, BoardBut, BoardSame
<1> QED
  BY <1>1, <1>2 DEF ClaimCall, Call, Failures

LEMMA MarkFacts ==
    ASSUME TypeOK, NEW i \in Issues, NEW n, NEW ok \in BOOLEAN, MarkCall(i, n, ok)
    PROVE  /\ BoardBut(i)
           /\ IF ok THEN NoFault ELSE Fault("call") \/ Fault("lost")
           /\ human'[i] \in {human[i], FALSE}
           /\ status'[i] = status[i] /\ owner'[i] = owner[i] /\ said'[i] = said[i]
           /\ lane'[i] = lane[i] /\ hasPr'[i] = hasPr[i] /\ open'[i] = open[i]
<1>1. UNCHANGED <<status, owner, lane, open, hasPr, said>>
  BY DEF MarkCall
<1>2. human'[i] \in {human[i], FALSE} /\ \A j \in Issues \ {i} : human'[j] = human[j]
  BY DEF MarkCall, TypeOK, DispatchTypeOK
<1>3. \A j \in Issues \ {i} : marker'[j] = marker[j]
  BY DEF MarkCall, TypeOK, DispatchTypeOK
<1>4. IF ok THEN NoFault ELSE Fault("call") \/ Fault("lost")
  BY DEF MarkCall
<1> QED
  BY <1>1, <1>2, <1>3, <1>4 DEF BoardBut, BoardSame

LEMMA ResumeFacts ==
    ASSUME TypeOK, NEW i \in Issues, NEW reply, ResumeCall(i, reply)
    PROVE  /\ BoardBut(i)
           /\ \/ Failed(reply)
              \/ /\ Took(reply) /\ status'[i] = "in-progress" /\ said'[i] = 0
                 /\ human'[i] = human[i] /\ lane'[i] = lane[i] /\ marker'[i] = marker[i]
                 /\ hasPr'[i] = hasPr[i] /\ open'[i] = open[i]
<1>1. CASE reply \in Failures /\ Fault("call") /\ UNCHANGED issueVars
  BY <1>1, BoardKept DEF Failed, Board, BoardBut
<1>2. CASE Took(reply) /\ Resumed(i)
  <2>1. UNCHANGED <<lane, human, open, hasPr, marker>>
    BY <1>2 DEF Resumed, marks
  <2>2. status'[i] = "in-progress" /\ \A j \in Issues \ {i} : status'[j] = status[j]
    BY <1>2 DEF Resumed, TypeOK, DispatchTypeOK
  <2>3. said'[i] = 0 /\ \A j \in Issues \ {i} : said'[j] = said[j]
    BY <1>2 DEF Resumed, TypeOK, DispatchTypeOK
  <2>4. \A j \in Issues \ {i} : owner'[j] = owner[j]
    BY <1>2 DEF Resumed, TypeOK, DispatchTypeOK
  <2> QED
    BY <1>2, <2>1, <2>2, <2>3, <2>4 DEF BoardBut, BoardSame
<1> QED
  BY <1>1, <1>2 DEF ResumeCall, Call, Took

LEMMA UnmarkFacts ==
    ASSUME TypeOK, NEW i \in Issues, NEW ok \in BOOLEAN, UnmarkCall(i, ok)
    PROVE  /\ BoardBut(i)
           /\ IF ok THEN NoFault /\ marker'[i] = "none" ELSE Fault("call") \/ Fault("lost")
           /\ marker'[i] # "none" => marker[i] # "none"
           /\ status'[i] = status[i] /\ owner'[i] = owner[i] /\ human'[i] = human[i]
           /\ said'[i] = said[i] /\ lane'[i] = lane[i] /\ hasPr'[i] = hasPr[i]
           /\ open'[i] = open[i]
<1>1. UNCHANGED <<status, owner, human, lane, open, hasPr, said>>
  BY DEF UnmarkCall
<1>2. PICK m : /\ m # "none" => marker[i] # "none"
               /\ marker' = [marker EXCEPT ![i] = m]
               /\ IF ok THEN NoFault /\ m = "none" ELSE Fault("call") \/ Fault("lost")
  BY DEF UnmarkCall
<1>3. marker'[i] = m /\ \A j \in Issues \ {i} : marker'[j] = marker[j]
  BY <1>2 DEF TypeOK, DispatchTypeOK
<1> QED
  BY <1>1, <1>2, <1>3 DEF BoardBut, BoardSame

\* The counts of failures are beside what the theorems speak of.
LEMMA CountFacts ==
    ASSUME NEW i \in Issues, UncountCall(i) \/ \E n, reply : CountCall(i, n, reply)
    PROVE  Board
<1>1. CASE UncountCall(i)
  BY <1>1 DEF UncountCall, Board, BoardSame
<1>2. ASSUME NEW n, NEW reply, CountCall(i, n, reply)
      PROVE  Board
  <2>1. CASE UNCHANGED issueVars
    BY <2>1, BoardKept
  <2>2. CASE CountSet(i, n)
    BY <2>2 DEF CountSet, Board, BoardSame
  <2> QED
    BY <1>2, <2>1, <2>2 DEF CountCall, Call
<1> QED
  BY <1>1, <1>2

\* A Workload appears only where there was none.
LEMMA CreateFacts ==
    ASSUME TypeOK, NEW i \in Issues, NEW l, NEW a, NEW f, NEW r, NEW ok,
           CreateCall(i, l, a, f, r, ok)
    PROVE  /\ WorkBut(i)
           /\ \/ WorkSame(i)
              \/ /\ phase[i] = "none" /\ phase'[i] = "Active" /\ going'[i] = going[i]
                 /\ result'[i] = result[i] /\ age'[i] = age[i]
                 /\ attempt'[i] = a /\ infra'[i] = f
<1>1. CASE UNCHANGED workVars
  BY <1>1, WorkKept DEF Work, WorkBut
<1>2. CASE phase[i] = "none" /\ Created(i, l, a, f, r)
  <2>1. UNCHANGED <<going, result, age>>
    BY <1>2 DEF Created
  <2>2. phase'[i] = "Active" /\ \A j \in Issues \ {i} : phase'[j] = phase[j]
    BY <1>2 DEF Created, TypeOK, ClusterTypeOK
  <2>3. attempt'[i] = a /\ \A j \in Issues \ {i} : attempt'[j] = attempt[j]
    BY <1>2 DEF Created, TypeOK, ClusterTypeOK
  <2>4. infra'[i] = f /\ \A j \in Issues \ {i} : infra'[j] = infra[j]
    BY <1>2 DEF Created, TypeOK, ClusterTypeOK
  <2> QED
    BY <1>2, <2>1, <2>2, <2>3, <2>4 DEF WorkBut, WorkSame
<1> QED
  BY <1>1, <1>2 DEF CreateCall, WorkCall, Created

\* An object that goes takes with it what it carried.
Vanished(i) ==
    phase'[i] = "none" /\ going'[i] = FALSE /\ result'[i] = "none" /\ age'[i] = "fresh"

LEMMA GoneFacts ==
    ASSUME TypeOK, NEW i \in Issues, Gone(i)
    PROVE  WorkBut(i) /\ Vanished(i)
<1>1. phase'[i] = "none" /\ \A j \in Issues \ {i} : phase'[j] = phase[j]
  BY DEF Gone, TypeOK, ClusterTypeOK
<1>2. going'[i] = FALSE /\ \A j \in Issues \ {i} : going'[j] = going[j]
  BY DEF Gone, TypeOK, ClusterTypeOK
<1>3. result'[i] = "none" /\ \A j \in Issues \ {i} : result'[j] = result[j]
  BY DEF Gone, TypeOK, ClusterTypeOK
<1>4. age'[i] = "fresh" /\ \A j \in Issues \ {i} : age'[j] = age[j]
  BY DEF Gone, TypeOK, ClusterTypeOK
<1>5. \A j \in Issues \ {i} : attempt'[j] = attempt[j] /\ infra'[j] = infra[j]
  BY DEF Gone, TypeOK, ClusterTypeOK
<1> QED
  BY <1>1, <1>2, <1>3, <1>4, <1>5 DEF WorkBut, WorkSame, Vanished

LEMMA DeleteFacts ==
    ASSUME TypeOK, NEW i \in Issues, NEW ok \in BOOLEAN, DeleteCall(i, ok)
    PROVE  /\ WorkBut(i)
           /\ \/ Vanished(i) /\ IF ok THEN NoFault ELSE Fault("lost")
              \/ ~ok /\ WorkSame(i) /\ (Fault("call") \/ going[i])
              \/ /\ ~ok /\ Fault("wedge") /\ going'[i] = TRUE
                 /\ phase'[i] = phase[i] /\ result'[i] = result[i] /\ age'[i] = age[i]
                 /\ attempt'[i] = attempt[i] /\ infra'[i] = infra[i]
<1>1. CASE Gone(i) /\ IF ok THEN NoFault ELSE Fault("lost")
  BY <1>1, GoneFacts
<1>2. CASE ~ok /\ UNCHANGED workVars /\ (Fault("call") \/ going[i])
  BY <1>2, WorkKept DEF Work, WorkBut
<1>3. CASE ~ok /\ Fault("wedge") /\ Terminating(i)
  <2>1. UNCHANGED <<phase, result, age, attempt, infra>>
    BY <1>3 DEF Terminating
  <2>2. going'[i] = TRUE /\ \A j \in Issues \ {i} : going'[j] = going[j]
    BY <1>3 DEF Terminating, TypeOK, ClusterTypeOK
  <2> QED
    BY <1>3, <2>1, <2>2 DEF WorkBut, WorkSame
<1> QED
  BY <1>1, <1>2, <1>3 DEF DeleteCall, WorkCall

\* A run ends, and may leave a PR on the issue.
LEMMA FinishFacts ==
    ASSUME TypeOK, NEW i \in Issues, FinishRun(i)
    PROVE  /\ WorkBut(i) /\ BoardBut(i)
           /\ phase[i] = "Active" /\ result'[i] \in Outcomes /\ phase'[i] = PhaseOf(result'[i])
           /\ going'[i] = going[i] /\ attempt'[i] = attempt[i] /\ infra'[i] = infra[i]
           /\ age'[i] = age[i]
           /\ status'[i] = status[i] /\ owner'[i] = owner[i] /\ human'[i] = human[i]
           /\ said'[i] = said[i] /\ lane'[i] = lane[i] /\ marker'[i] = marker[i]
           /\ open'[i] = open[i]
<1>1. UNCHANGED <<going, attempt, infra, age, status, owner, human, said, lane, marker, open>>
  BY DEF FinishRun, marks
<1>2. PICK r \in Outcomes : /\ result' = [result EXCEPT ![i] = r]
                            /\ phase' = [phase EXCEPT ![i] = PhaseOf(r)]
                            /\ hasPr' = [hasPr EXCEPT ![i] = @ \/ r = "pr"]
  BY DEF FinishRun
<1>3. result'[i] = r /\ \A j \in Issues \ {i} : result'[j] = result[j]
  BY <1>2 DEF TypeOK, ClusterTypeOK
<1>4. phase'[i] = PhaseOf(r) /\ \A j \in Issues \ {i} : phase'[j] = phase[j]
  BY <1>2 DEF TypeOK, ClusterTypeOK
<1>5. \A j \in Issues \ {i} : hasPr'[j] = hasPr[j]
  BY <1>2 DEF TypeOK, DispatchTypeOK
<1>6. phase[i] = "Active"
  BY DEF FinishRun
<1> QED
  BY <1>1, <1>2, <1>3, <1>4, <1>5, <1>6 DEF WorkBut, WorkSame, BoardBut, BoardSame

\* What people and other agents do to an issue: triage it, claim it, or something that
\* leaves its status alone.
LEMMA HandFacts ==
    ASSUME TypeOK, NEW i \in Issues, HandStep(i)
    PROVE  /\ BoardBut(i) /\ Work /\ NoFault /\ hands' = hands + 1 /\ UNCHANGED bridgeVars
           /\ marker'[i] = marker[i]
           /\ \/ /\ status'[i] = status[i] /\ owner'[i] = owner[i]
                 /\ human'[i] = human[i] /\ said'[i] = said[i]
                 /\ lane'[i] = lane[i] \/ "reclassify" \in HandKinds
              \/ /\ "regroom" \in HandKinds /\ status[i] \in {"backlog", "blocked"}
                 /\ status'[i] = "ready" /\ human'[i] = FALSE /\ said'[i] = 0
                 /\ owner'[i] \in {owner[i], "none"} /\ lane'[i] = lane[i]
              \/ /\ status[i] = "ready" /\ owner[i] = "none"
                 /\ status'[i] = "in-progress" /\ owner'[i] = "other"
                 /\ human'[i] = human[i] /\ said'[i] = said[i] /\ lane'[i] = lane[i]
<1>0. Work /\ UNCHANGED bridgeVars
  BY WorkKept DEF HandStep
<1>1. NoFault /\ hands' = hands + 1
  BY DEF HandStep, CloseByHand, ReopenByHand, ClosePrByHand, Regroom, Reclassify, RivalClaims, Hand
<1>2. CASE CloseByHand(i) \/ ReopenByHand(i) \/ ClosePrByHand(i)
  <2>1. UNCHANGED <<status, owner, human, said, lane, marker>>
    BY <1>2 DEF CloseByHand, ReopenByHand, ClosePrByHand, marks
  <2>2. \A j \in Issues \ {i} : open'[j] = open[j] /\ hasPr'[j] = hasPr[j]
    BY <1>2 DEF CloseByHand, ReopenByHand, ClosePrByHand, TypeOK, DispatchTypeOK
  <2> QED
    BY <1>0, <1>1, <2>1, <2>2 DEF BoardBut, BoardSame
<1>3. CASE Regroom(i)
  <2>1. UNCHANGED <<lane, open, hasPr, marker>> /\ "regroom" \in HandKinds
    BY <1>3 DEF Regroom, marks, Hand
  <2>2. /\ status[i] \in {"backlog", "blocked"} /\ status'[i] = "ready"
        /\ \A j \in Issues \ {i} : status'[j] = status[j]
    BY <1>3 DEF Regroom, TypeOK, DispatchTypeOK
  <2>3. human'[i] = FALSE /\ \A j \in Issues \ {i} : human'[j] = human[j]
    BY <1>3 DEF Regroom, TypeOK, DispatchTypeOK
  <2>4. said'[i] = 0 /\ \A j \in Issues \ {i} : said'[j] = said[j]
    BY <1>3 DEF Regroom, TypeOK, DispatchTypeOK
  <2>5. owner'[i] \in {owner[i], "none"} /\ \A j \in Issues \ {i} : owner'[j] = owner[j]
    BY <1>3 DEF Regroom, TypeOK, DispatchTypeOK
  <2> QED
    BY <1>0, <1>1, <2>1, <2>2, <2>3, <2>4, <2>5 DEF BoardBut, BoardSame
<1>4. CASE Reclassify(i)
  <2>1. UNCHANGED <<status, owner, human, open, hasPr, said, marker>>
    BY <1>4 DEF Reclassify, LaneSet, marks
  <2>2. "reclassify" \in HandKinds /\ \A j \in Issues \ {i} : lane'[j] = lane[j]
    BY <1>4 DEF Reclassify, LaneSet, Hand, TypeOK, DispatchTypeOK
  <2> QED
    BY <1>0, <1>1, <2>1, <2>2 DEF BoardBut, BoardSame
<1>5. CASE RivalClaims(i)
  <2>1. UNCHANGED <<lane, human, open, hasPr, said, marker>>
    BY <1>5 DEF RivalClaims, marks
  <2>2. /\ status[i] = "ready" /\ status'[i] = "in-progress"
        /\ \A j \in Issues \ {i} : status'[j] = status[j]
    BY <1>5 DEF RivalClaims, TypeOK, DispatchTypeOK
  <2>3. /\ owner[i] = "none" /\ owner'[i] = "other"
        /\ \A j \in Issues \ {i} : owner'[j] = owner[j]
    BY <1>5 DEF RivalClaims, TypeOK, DispatchTypeOK
  <2> QED
    BY <1>0, <1>1, <2>1, <2>2, <2>3 DEF BoardBut, BoardSame
<1> QED
  BY <1>2, <1>3, <1>4, <1>5 DEF HandStep

-----------------------------------------------------------------------------
(* What one step does to an issue, and where in the tick it does it.       *)

\* What the theorems speak of is as it was.
Untouched(j) ==
    /\ status'[j] = status[j] /\ owner'[j] = owner[j] /\ human'[j] = human[j]
    /\ said'[j] = said[j] /\ lane'[j] = lane[j] /\ marker'[j] = marker[j]

\* Is j what pass p is at step s with?
Working(p, s, j) == At(p, s) /\ cur = j

StatusTo(j, s) ==
    /\ status'[j] = s
    /\ owner'[j] \in {owner[j], "none"} /\ (s = "in-progress" => owner'[j] = owner[j])
    /\ human'[j] = human[j] /\ said'[j] = said[j] /\ lane'[j] = lane[j]
    /\ marker'[j] = marker[j]

ParkMove(j) ==
    /\ StatusTo(j, "backlog")
    /\ \/ Working("retry", "status", j) \/ Working("retry", "infraStatus", j)
       \/ Working("review", "reviewPark", j) \/ Working("recover", "handStatus", j)

ReviewMove(j) == StatusTo(j, path) /\ Working("review", "reviewStatus", j)

ReadyMove(j) ==
    /\ StatusTo(j, "ready")
    /\ \/ pc = "stranded" /\ j \in todo /\ ~InFlight(j)
       \/ Working("prune", "pruneReset", j)

HumanMove(j) ==
    /\ \/ /\ human'[j] = TRUE
          /\ \/ Working("retry", "relabel", j) \/ Working("retry", "label", j)
             \/ Working("review", "reviewLabel", j) \/ Working("recover", "handLabel", j)
       \/ /\ human'[j] = FALSE
          /\ Working("stranded", "unlabel", j) \/ Working("recover", "unpark", j)
    /\ status'[j] = status[j] /\ owner'[j] = owner[j] /\ said'[j] = said[j]
    /\ lane'[j] = lane[j] /\ marker'[j] = marker[j]

CommentMove(j) ==
    /\ said'[j] >= 1 /\ (~Fault("repeat") /\ said[j] = 0 => said'[j] = 1)
    /\ \/ Working("retry", "comment", j) \/ Working("retry", "infraComment", j)
       \/ Working("review", "reviewComment", j) \/ Working("recover", "handComment", j)
    /\ status'[j] = status[j] /\ owner'[j] = owner[j] /\ human'[j] = human[j]
    /\ lane'[j] = lane[j] /\ marker'[j] = marker[j]

MarkMove(j) ==
    /\ Working("retry", "infraLabels", j)
    /\ human'[j] \in {human[j], FALSE}
    /\ status'[j] = status[j] /\ owner'[j] = owner[j] /\ said'[j] = said[j]
    /\ lane'[j] = lane[j]

UnmarkMove(j) ==
    /\ Working("recover", "unmark", j) \/ Working("recover", "uncount", j)
       \/ Working("recover", "count", j)
    /\ marker'[j] # "none" => marker[j] # "none"
    /\ status'[j] = status[j] /\ owner'[j] = owner[j] /\ human'[j] = human[j]
    /\ said'[j] = said[j] /\ lane'[j] = lane[j]

EscalateMove(j) ==
    /\ Working("retry", "setLane", j) /\ lane'[j] = EscLane
    /\ status'[j] = status[j] /\ owner'[j] = owner[j] /\ human'[j] = human[j]
    /\ said'[j] = said[j] /\ marker'[j] = marker[j]

ReclassifyMove(j) ==
    /\ "reclassify" \in HandKinds
    /\ status'[j] = status[j] /\ owner'[j] = owner[j] /\ human'[j] = human[j]
    /\ said'[j] = said[j] /\ marker'[j] = marker[j]

ReleaseMove(j) ==
    /\ Working("retry", "unclaim", j) \/ (pc = "stuck" /\ j \in todo /\ ~InFlight(j))
    /\ Held(j) /\ status'[j] = "ready" /\ owner'[j] = "none"
    /\ human'[j] = human[j] /\ said'[j] = said[j] /\ lane'[j] = lane[j]
    /\ marker'[j] = marker[j]

ClaimMove(j) ==
    /\ pc = "claim" /\ status[j] \in {"ready", "in-progress"}
    /\ status'[j] = "in-progress" /\ owner'[j] = "bridge" /\ said'[j] = 0
    /\ human'[j] = human[j] /\ lane'[j] = lane[j] /\ marker'[j] = marker[j]

ResumeMove(j) ==
    /\ Working("recover", "resume", j)
    /\ status'[j] = "in-progress" /\ said'[j] = 0
    /\ human'[j] = human[j] /\ lane'[j] = lane[j] /\ marker'[j] = marker[j]

RegroomMove(j) ==
    /\ "regroom" \in HandKinds /\ hands' = hands + 1 /\ status[j] \in {"backlog", "blocked"}
    /\ status'[j] = "ready" /\ human'[j] = FALSE /\ said'[j] = 0
    /\ owner'[j] \in {owner[j], "none"}
    /\ lane'[j] = lane[j] /\ marker'[j] = marker[j]

RivalMove(j) ==
    /\ status[j] = "ready" /\ owner[j] = "none"
    /\ status'[j] = "in-progress" /\ owner'[j] = "other"
    /\ human'[j] = human[j] /\ said'[j] = said[j] /\ lane'[j] = lane[j]
    /\ marker'[j] = marker[j]

HandMove(j) == RegroomMove(j) \/ RivalMove(j) \/ ReclassifyMove(j)

BoardMove(j) ==
    \/ Untouched(j)
    \/ ParkMove(j) \/ ReviewMove(j) \/ ReadyMove(j) \/ HumanMove(j) \/ CommentMove(j)
    \/ MarkMove(j) \/ UnmarkMove(j) \/ ReleaseMove(j) \/ ClaimMove(j) \/ ResumeMove(j)
    \/ EscalateMove(j) \/ HandMove(j)

\* The object keeps everything but its age.
SameRun(j) ==
    /\ phase'[j] = phase[j] /\ going'[j] = going[j] /\ result'[j] = result[j]
    /\ attempt'[j] = attempt[j] /\ infra'[j] = infra[j]

StampMove(j) == SameRun(j) /\ pc = "prune" /\ j \in todo /\ phase[j] # "none" /\ age'[j] = "seen"

AgeMove(j) == SameRun(j) /\ phase[j] \in Pruned /\ age'[j] = "old"

FinishMove(j) ==
    /\ phase[j] = "Active" /\ result'[j] \in Outcomes /\ phase'[j] = PhaseOf(result'[j])
    /\ going'[j] = going[j] /\ attempt'[j] = attempt[j] /\ infra'[j] = infra[j]
    /\ age'[j] = age[j]

GoneMove(j) ==
    /\ Vanished(j)
    /\ \/ going[j] \/ ("remove" \in HandKinds /\ hands' = hands + 1)
       \/ Working("retry", "delete", j) \/ Working("retry", "retire", j)
       \/ Working("prune", "pruneDelete", j)

WedgeMove(j) ==
    /\ Fault("wedge") /\ going'[j] = TRUE
    /\ phase'[j] = phase[j] /\ result'[j] = result[j] /\ age'[j] = age[j]
    /\ attempt'[j] = attempt[j] /\ infra'[j] = infra[j]

CreateMove(j) ==
    /\ \/ Working("retry", "create", j) /\ attempt'[j] = NextAttempt /\ infra'[j] = NextInfra
       \/ Working("claim", "claimed", j) /\ attempt'[j] = 1 /\ infra'[j] = 1
       \/ Working("recover", "redrive", j) /\ attempt'[j] = 1 /\ infra'[j] = 1
    /\ phase[j] = "none" /\ phase'[j] = "Active" /\ going'[j] = going[j]
    /\ result'[j] = result[j] /\ age'[j] = age[j]

WorkMove(j) ==
    \/ WorkSame(j) \/ StampMove(j) \/ AgeMove(j) \/ FinishMove(j) \/ GoneMove(j) \/ WedgeMove(j)
    \/ CreateMove(j)

\* A step moves the board or the Workloads, never both.
Moved ==
    \/ Work /\ \A j \in Issues : BoardMove(j)
    \/ \A j \in Issues : Untouched(j) /\ WorkMove(j)

LEMMA Unmoved ==
    ASSUME UNCHANGED <<issueVars, workVars>>
    PROVE  Moved
BY BoardKept, WorkKept DEF Moved, Board, BoardSame, BoardMove, Untouched

\* The cluster, people and other agents.
WorldMoved ==
    \/ Work /\ \A j \in Issues : Untouched(j) \/ HandMove(j)
    \/ \A j \in Issues : /\ Untouched(j)
                         /\ WorkSame(j) \/ AgeMove(j) \/ FinishMove(j) \/ GoneMove(j)

LEMMA HandMoves ==
    ASSUME TypeOK, NEW i \in Issues, HandStep(i)
    PROVE  Work /\ \A j \in Issues : Untouched(j) \/ HandMove(j)
<1>1. Work /\ BoardBut(i)
  BY HandFacts
<1>2. Untouched(i) \/ HandMove(i)
  BY HandFacts DEF Untouched, HandMove, RegroomMove, RivalMove, ReclassifyMove
<1> QED
  BY <1>1, <1>2 DEF BoardBut, BoardSame, Untouched

LEMMA WorldMoves ==
    ASSUME TypeOK, NEW i \in Issues, ClusterStep(i) \/ HandStep(i) \/ RemoveStep(i)
    PROVE  WorldMoved /\ UNCHANGED bridgeVars /\ NoFault
<1> USE DEF BoardBut, BoardSame, WorkBut, WorkSame, Board, Work, Untouched
<1>0. UNCHANGED bridgeVars /\ NoFault
  BY HandFacts DEF ClusterStep, HandStep, RemoveStep, FinishRun, FinalizeRun, AgeRun,
                   RemoveByHand, Hand
<1>1. CASE FinishRun(i)
  BY <1>0, <1>1, FinishFacts DEF WorldMoved, FinishMove
<1>2. CASE FinalizeRun(i)
  BY <1>0, <1>2, GoneFacts, BoardKept DEF FinalizeRun, WorldMoved, GoneMove
<1>3. CASE RemoveByHand(i)
  BY <1>0, <1>3, GoneFacts, BoardKept DEF RemoveByHand, Hand, WorldMoved, GoneMove
<1>4. CASE AgeRun(i)
  <2>1. Board /\ UNCHANGED <<phase, going, attempt, infra, result>> /\ phase[i] \in Pruned
    BY <1>4, BoardKept DEF AgeRun
  <2>2. age'[i] = "old" /\ \A j \in Issues \ {i} : age'[j] = age[j]
    BY <1>4 DEF AgeRun, TypeOK, ClusterTypeOK
  <2> QED
    BY <1>0, <2>1, <2>2 DEF WorldMoved, AgeMove, SameRun
<1>5. CASE HandStep(i)
  BY <1>0, <1>5, HandMoves DEF WorldMoved
<1> QED
  BY <1>1, <1>2, <1>3, <1>4, <1>5 DEF ClusterStep, RemoveStep

LEMMA RetryMoves ==
    ASSUME TypeOK, RetryPass
    PROVE  Moved
<1> USE DEF BoardBut, BoardSame, WorkBut, Board, Untouched, Working, Failed, Took
<1>cur. ASSUME NEW s, At("retry", s)
        PROVE  cur \in Issues
  BY <1>cur DEF At, TypeOK, BridgeTypeOK
<1>board. ASSUME UNCHANGED workVars, BoardBut(cur), BoardMove(cur)
          PROVE  Moved
  BY <1>board, WorkKept DEF Moved, BoardMove
<1>work. ASSUME UNCHANGED issueVars, WorkBut(cur), WorkMove(cur)
         PROVE  Moved
  BY <1>work, BoardKept DEF Moved, WorkMove
<1>1. CASE UNCHANGED <<issueVars, workVars>>
  BY <1>1, Unmoved
<1>2. CASE Relabel \/ ParkLabel
  <2>1. BoardBut(cur) /\ BoardMove(cur)
    BY <1>2, <1>cur, HumanFacts DEF Relabel, ParkLabel, LabelCall, BoardMove, HumanMove
  <2> QED
    BY <1>2, <1>board, <2>1 DEF Relabel, ParkLabel
<1>3. CASE ParkComment \/ InfraComment
  <2>1. BoardBut(cur) /\ BoardMove(cur)
    BY <1>3, <1>cur, CommentFacts
       DEF ParkComment, InfraComment, BoardMove, CommentMove, Fault
  <2> QED
    BY <1>3, <1>board, <2>1 DEF ParkComment, InfraComment
<1>4. CASE ParkStatus \/ InfraStatus
  <2>1. \E reply : StatusCall(cur, "backlog", reply)
    BY <1>4 DEF ParkStatus, InfraStatus
  <2>2. BoardBut(cur) /\ BoardMove(cur)
    BY <1>4, <1>cur, <2>1, StatusFacts
       DEF ParkStatus, InfraStatus, BoardMove, ParkMove, StatusTo, Statuses
  <2> QED
    BY <1>4, <1>board, <2>2 DEF ParkStatus, InfraStatus
<1>5. CASE EscalateLane
  <2>1. \E reply : LaneCall(cur, EscLane, reply)
    BY <1>5 DEF EscalateLane
  <2>2. BoardBut(cur) /\ BoardMove(cur)
    BY <1>5, <1>cur, <2>1, LaneFacts DEF EscalateLane, BoardMove, EscalateMove
  <2> QED
    BY <1>5, <1>board, <2>2 DEF EscalateLane
<1>6. CASE EscalateUnclaim
  <2>1. \E reply : UnclaimCall(cur, reply)
    BY <1>6 DEF EscalateUnclaim
  <2>2. BoardBut(cur) /\ BoardMove(cur)
    BY <1>6, <1>cur, <2>1, UnclaimFacts DEF EscalateUnclaim, BoardMove, ReleaseMove
  <2> QED
    BY <1>6, <1>board, <2>2 DEF EscalateUnclaim
<1>7. CASE InfraLabels
  <2>1. \E ok \in BOOLEAN : MarkCall(cur, shotAttempt[cur], ok)
    BY <1>7 DEF InfraLabels
  <2>2. BoardBut(cur) /\ BoardMove(cur)
    BY <1>7, <1>cur, <2>1, MarkFacts DEF InfraLabels, BoardMove, MarkMove
  <2> QED
    BY <1>7, <1>board, <2>2 DEF InfraLabels
<1>8. CASE Retire \/ RetryDelete
  <2>1. \E ok \in BOOLEAN : DeleteCall(cur, ok)
    BY <1>8 DEF Retire, RetryDelete
  <2>2. WorkBut(cur) /\ WorkMove(cur)
    BY <1>8, <1>cur, <2>1, DeleteFacts DEF Retire, RetryDelete, WorkMove, GoneMove, WedgeMove
  <2> QED
    BY <1>8, <1>work, <2>2 DEF Retire, RetryDelete
<1>9. CASE RetryCreate
  <2>1. \E ok : CreateCall(cur, ItemLane(cur), NextAttempt, NextInfra, runs[cur] + 1, ok)
    BY <1>9 DEF RetryCreate
  <2>2. WorkBut(cur) /\ WorkMove(cur)
    BY <1>9, <1>cur, <2>1, CreateFacts DEF RetryCreate, WorkMove, CreateMove
  <2> QED
    BY <1>9, <1>work, <2>2 DEF RetryCreate
<1> QED
  BY <1>1, <1>2, <1>3, <1>4, <1>5, <1>6, <1>7, <1>8, <1>9
     DEF RetryPass, StartRetry, RetrySkipClosed, RetryPick, RetryPickBlind, CheckParked,
         CheckNotParked, InfraCheck

LEMMA ClaimMoves ==
    ASSUME TypeOK, ClaimPass
    PROVE  Moved
<1> USE DEF BoardBut, BoardSame, WorkBut, Untouched
<1>1. CASE UNCHANGED <<issueVars, workVars>>
  BY <1>1, Unmoved
<1>2. ASSUME NEW i \in Issues, ClaimCandidate(i)
      PROVE  Moved
  <2>1. UNCHANGED workVars /\ pc = "claim"
    BY <1>2 DEF ClaimCandidate, Draining, Picking
  <2>2. \E reply : ClaimCall(i, reply)
    BY <1>2 DEF ClaimCandidate
  <2>3. BoardBut(i) /\ BoardMove(i)
    BY <2>1, <2>2, ClaimFacts DEF BoardMove, ClaimMove
  <2> QED
    BY <2>1, <2>3, WorkKept DEF Moved, BoardMove
<1>3. CASE MaterializeWorkload
  <2>1. cur \in Issues /\ UNCHANGED issueVars
    BY <1>3 DEF MaterializeWorkload, At, TypeOK, BridgeTypeOK
  <2>2. \E ok : CreateCall(cur, laneAt, 1, 1, 1, ok)
    BY <1>3 DEF MaterializeWorkload
  <2>3. WorkBut(cur) /\ WorkMove(cur)
    BY <1>3, <2>1, <2>2, CreateFacts DEF MaterializeWorkload, WorkMove, CreateMove, Working
  <2> QED
    BY <2>1, <2>3, BoardKept DEF Moved, WorkMove, Board
<1> QED
  BY <1>1, <1>2, <1>3 DEF ClaimPass, StartClaim, NextLane

LEMMA ReviewMoves ==
    ASSUME TypeOK, ReviewPath, ReviewPass
    PROVE  Moved
<1> USE DEF BoardBut, BoardSame, Board, Untouched, Working, Failed, Took
<1>cur. ASSUME NEW s, At("review", s)
        PROVE  cur \in Issues
  BY <1>cur DEF At, TypeOK, BridgeTypeOK
<1>board. ASSUME UNCHANGED workVars, BoardBut(cur), BoardMove(cur)
          PROVE  Moved
  BY <1>board, WorkKept DEF Moved, BoardMove
<1>1. CASE UNCHANGED <<issueVars, workVars>>
  BY <1>1, Unmoved
<1>2. CASE ReviewStatus
  <2>1. \E reply : StatusCall(cur, path, reply)
    BY <1>2 DEF ReviewStatus
  <2>2. path \in Statuses
    BY <1>2 DEF ReviewStatus, ReviewPath, Statuses
  <2>3. BoardBut(cur) /\ BoardMove(cur)
    BY <1>2, <1>cur, <2>1, <2>2, StatusFacts DEF ReviewStatus, BoardMove, ReviewMove, StatusTo
  <2> QED
    BY <1>2, <1>board, <2>3 DEF ReviewStatus
<1>3. CASE ReviewClose
  <2>1. BoardBut(cur) /\ BoardMove(cur)
    BY <1>3, <1>cur, CloseFacts DEF ReviewClose, BoardMove
  <2> QED
    BY <1>3, <1>board, <2>1 DEF ReviewClose
<1>4. CASE ReviewPark
  <2>1. \E reply : StatusCall(cur, "backlog", reply)
    BY <1>4 DEF ReviewPark
  <2>2. BoardBut(cur) /\ BoardMove(cur)
    BY <1>4, <1>cur, <2>1, StatusFacts DEF ReviewPark, BoardMove, ParkMove, StatusTo, Statuses
  <2> QED
    BY <1>4, <1>board, <2>2 DEF ReviewPark
<1>5. CASE ReviewLabel
  <2>1. BoardBut(cur) /\ BoardMove(cur)
    BY <1>5, <1>cur, HumanFacts DEF ReviewLabel, LabelCall, BoardMove, HumanMove
  <2> QED
    BY <1>5, <1>board, <2>1 DEF ReviewLabel
<1>6. CASE ReviewComment
  <2>1. BoardBut(cur) /\ BoardMove(cur)
    BY <1>6, <1>cur, CommentFacts DEF ReviewComment, BoardMove, CommentMove, Fault
  <2> QED
    BY <1>6, <1>board, <2>1 DEF ReviewComment
<1> QED
  BY <1>1, <1>2, <1>3, <1>4, <1>5, <1>6 DEF ReviewPass, StartReview, ReviewPick, ReviewCheck

LEMMA ReconcileMoves ==
    ASSUME TypeOK, ReconcilePass
    PROVE  Moved
<1> USE DEF BoardBut, BoardSame, Board, Untouched, Working, Failed, Took
<1>board. ASSUME UNCHANGED workVars, NEW i \in Issues, BoardBut(i), BoardMove(i)
          PROVE  Moved
  BY <1>board, WorkKept DEF Moved, BoardMove
<1>1. CASE UNCHANGED <<issueVars, workVars>>
  BY <1>1, Unmoved
<1>2. ASSUME NEW i \in Issues, StrandedReset(i)
      PROVE  Moved
  <2>1. \E reply : StatusCall(i, "ready", reply)
    BY <1>2 DEF StrandedReset
  <2>2. BoardBut(i) /\ BoardMove(i)
    BY <1>2, <2>1, StatusFacts
       DEF StrandedReset, Picking, BoardMove, ReadyMove, StatusTo, Statuses
  <2> QED
    BY <1>2, <1>board, <2>2 DEF StrandedReset
<1>3. CASE StrandedUnlabel
  <2>1. cur \in Issues /\ \E reply : Call(HumanSet(cur, FALSE), reply)
    BY <1>3 DEF StrandedUnlabel, UnlabelCall, At, TypeOK, BridgeTypeOK
  <2>2. BoardBut(cur) /\ BoardMove(cur)
    BY <1>3, <2>1, HumanFacts DEF StrandedUnlabel, BoardMove, HumanMove
  <2> QED
    BY <1>3, <1>board, <2>1, <2>2 DEF StrandedUnlabel
<1>4. ASSUME NEW i \in Issues, StuckRelease(i)
      PROVE  Moved
  <2>1. \E reply : UnclaimCall(i, reply)
    BY <1>4 DEF StuckRelease
  <2>2. BoardBut(i) /\ BoardMove(i)
    BY <1>4, <2>1, UnclaimFacts DEF StuckRelease, Picking, BoardMove, ReleaseMove
  <2> QED
    BY <1>4, <1>board, <2>2 DEF StuckRelease
<1> QED
  BY <1>1, <1>2, <1>3, <1>4 DEF ReconcilePass, ListNames, StartStuck, StrandedSkip, StuckSkip

LEMMA PruneMoves ==
    ASSUME TypeOK, PrunePass
    PROVE  Moved
<1> USE DEF BoardBut, BoardSame, Board, Untouched, Working, Failed, Took
<1>1. CASE UNCHANGED <<issueVars, workVars>>
  BY <1>1, Unmoved
<1>2. ASSUME NEW i \in Issues, Stamped(i), UNCHANGED issueVars, pc = "prune", i \in todo,
             phase[i] # "none"
      PROVE  Moved
  <2>1. UNCHANGED <<phase, going, result, attempt, infra>>
    BY <1>2 DEF Stamped
  <2>2. age'[i] = "seen" /\ \A j \in Issues \ {i} : age'[j] = age[j]
    BY <1>2 DEF Stamped, TypeOK, ClusterTypeOK
  <2>3. \A j \in Issues : WorkMove(j)
    BY <1>2, <2>1, <2>2 DEF WorkMove, StampMove, SameRun, WorkSame
  <2> QED
    BY <1>2, <2>3, BoardKept DEF Moved
<1>3. CASE PruneDelete
  <2>1. cur \in Issues /\ UNCHANGED issueVars /\ \E ok \in BOOLEAN : DeleteCall(cur, ok)
    BY <1>3 DEF PruneDelete, At, TypeOK, BridgeTypeOK
  <2>2. WorkBut(cur) /\ WorkMove(cur)
    BY <1>3, <2>1, DeleteFacts DEF PruneDelete, WorkMove, GoneMove, WedgeMove
  <2> QED
    BY <2>1, <2>2, BoardKept DEF Moved, WorkMove, WorkBut
<1>4. CASE PruneReset
  <2>1. cur \in Issues /\ UNCHANGED workVars /\ \E reply : StatusCall(cur, "ready", reply)
    BY <1>4 DEF PruneReset, At, TypeOK, BridgeTypeOK
  <2>2. BoardBut(cur) /\ BoardMove(cur)
    BY <1>4, <2>1, StatusFacts DEF PruneReset, BoardMove, ReadyMove, StatusTo, Statuses
  <2> QED
    BY <2>1, <2>2, WorkKept DEF Moved, BoardMove
<1> QED
  BY <1>1, <1>2, <1>3, <1>4 DEF PrunePass, StartPrune, PrunePick, PruneUnstamped, PruneCheck, Picking

LEMMA RecoverMoves ==
    ASSUME TypeOK, RecoverPass
    PROVE  Moved
<1> USE DEF BoardBut, BoardSame, Untouched, Working, Failed, Took
<1>cur. ASSUME NEW s, At("recover", s)
        PROVE  cur \in Issues
  BY <1>cur DEF At, TypeOK, BridgeTypeOK
<1>board. ASSUME UNCHANGED workVars, BoardBut(cur), BoardMove(cur)
          PROVE  Moved
  BY <1>board, WorkKept DEF Moved, BoardMove
<1>1. CASE UNCHANGED <<issueVars, workVars>>
  BY <1>1, Unmoved
<1>2. CASE RecoverCreate
  <2>1. cur \in Issues /\ UNCHANGED issueVars
    BY <1>2, <1>cur DEF RecoverCreate
  <2>2. \E ok : CreateCall(cur, shotLane[cur], 1, 1, 1, ok)
    BY <1>2 DEF RecoverCreate
  <2>3. WorkBut(cur) /\ WorkMove(cur)
    BY <1>2, <2>1, <2>2, CreateFacts DEF RecoverCreate, WorkMove, CreateMove
  <2> QED
    BY <2>1, <2>3, BoardKept DEF Moved, WorkMove, WorkBut, Board
<1>3. CASE RecoverResume
  <2>1. \E reply : ResumeCall(cur, reply)
    BY <1>3 DEF RecoverResume
  <2>2. BoardBut(cur) /\ BoardMove(cur)
    BY <1>3, <1>cur, <2>1, ResumeFacts DEF RecoverResume, BoardMove, ResumeMove, Board
  <2> QED
    BY <1>3, <1>board, <2>2 DEF RecoverResume
<1>4. CASE RecoverUnpark
  <2>1. cur \in Issues /\ \E reply : Call(HumanSet(cur, FALSE), reply)
    BY <1>4, <1>cur DEF RecoverUnpark, UnlabelCall
  <2>2. BoardBut(cur) /\ BoardMove(cur)
    BY <1>4, <2>1, HumanFacts DEF RecoverUnpark, BoardMove, HumanMove, Board
  <2> QED
    BY <1>4, <1>board, <2>2 DEF RecoverUnpark
<1>5. CASE RecoverUnmark
  <2>1. cur \in Issues /\ \E ok \in BOOLEAN : UnmarkCall(cur, ok)
    BY <1>5, <1>cur DEF RecoverUnmark
  <2>2. BoardBut(cur) /\ BoardMove(cur)
    BY <1>5, <2>1, UnmarkFacts DEF RecoverUnmark, BoardMove, UnmarkMove
  <2> QED
    BY <1>5, <1>board, <2>2 DEF RecoverUnmark
<1>6. CASE HandStatus
  <2>1. cur \in Issues /\ \E reply : StatusCall(cur, "backlog", reply)
    BY <1>6, <1>cur DEF HandStatus
  <2>2. BoardBut(cur) /\ BoardMove(cur)
    BY <1>6, <2>1, StatusFacts DEF HandStatus, BoardMove, ParkMove, StatusTo, Statuses, Board
  <2> QED
    BY <1>6, <1>board, <2>2 DEF HandStatus
<1>7. CASE HandLabel
  <2>1. BoardBut(cur) /\ BoardMove(cur)
    BY <1>7, <1>cur, HumanFacts DEF HandLabel, LabelCall, BoardMove, HumanMove, Board
  <2> QED
    BY <1>7, <1>board, <2>1 DEF HandLabel
<1>8. CASE HandComment
  <2>1. BoardBut(cur) /\ BoardMove(cur)
    BY <1>8, <1>cur, CommentFacts DEF HandComment, BoardMove, CommentMove, Board, Fault
  <2> QED
    BY <1>8, <1>board, <2>1 DEF HandComment
<1>9. CASE RecoverUncount \/ RecoverCount
  <2>1. cur \in Issues /\ UNCHANGED workVars
    BY <1>9, <1>cur DEF RecoverUncount, RecoverCount
  <2>2. UncountCall(cur) \/ \E n, reply : CountCall(cur, n, reply)
    BY <1>9 DEF RecoverUncount, RecoverCount
  <2>3. Board
    BY <2>1, <2>2, CountFacts
  <2> QED
    BY <2>1, <2>3, WorkKept DEF Moved, BoardMove, Board
<1> QED
  BY <1>1, <1>2, <1>3, <1>4, <1>5, <1>6, <1>7, <1>8, <1>9
     DEF RecoverPass, StartRecover, RecoverHealthy, RecoverUnhealthy

LEMMA StepMoves ==
    ASSUME TypeOK, ControlInv, [Next]_vars
    PROVE  Moved
<1>1. CASE SnapshotQueues \/ FinishTick \/ Crash \/ UNCHANGED vars
  BY <1>1, Unmoved DEF SnapshotQueues, FinishTick, Crash, vars
<1>2. ASSUME NEW i \in Issues, ClusterStep(i) \/ HandStep(i) \/ RemoveStep(i)
      PROVE  Moved
  <2>1. WorldMoved
    BY <1>2, WorldMoves
  <2>2. CASE Work /\ \A j \in Issues : Untouched(j) \/ HandMove(j)
    BY <2>2 DEF Moved, BoardMove
  <2>3. CASE \A j \in Issues : /\ Untouched(j)
                               /\ WorkSame(j) \/ AgeMove(j) \/ FinishMove(j) \/ GoneMove(j)
    BY <2>3 DEF Moved, WorkMove
  <2> QED
    BY <2>1, <2>2, <2>3 DEF WorldMoved
<1> QED
  BY <1>1, <1>2, RetryMoves, RecoverMoves, ClaimMoves, ReviewMoves, ReconcileMoves, PruneMoves
     DEF Next, TickStep, ControlInv

-----------------------------------------------------------------------------
(* Where issues with a run at work or failed are.                          *)

\* The statuses work is done in, or has been given up from.
Live == {"ready", "in-progress", "backlog"}

AtWork       == \A i \in Issues : phase[i] \in {"Active", "Failed"} => status[i] \in Live
RetryLive    == pc = "retry" => \A i \in todo : status[i] \in Live
ClaimHeld    == At("claim", "claimed") => status[cur] = "in-progress" /\ owner[cur] = "bridge"
ReviewOver   == pc = "review" => \A i \in todo : phase[i] \in {"Completed", "none"}
StrandedLive == pc = "stranded" => \A i \in todo : status[i] \in {"ready", "in-progress"}
PruneLive    == pc = "prune" => \A i \in names : status[i] \in Live
ResetListed  == At("prune", "pruneReset") \/ At("prune", "pruneCheck") => cur \in names
JobInTodo    == pc \in {"review", "stranded", "prune"} /\ cur # NoIssue => cur \in todo

\* Each pass acts on the statuses its listing promised, although people and the
\* cluster go on meanwhile.
PassInv == /\ AtWork /\ RetryLive /\ ClaimHeld /\ ReviewOver /\ StrandedLive /\ PruneLive
           /\ ResetListed /\ JobInTodo /\ pc # "recover"

\* The retry pass parks, releases and restarts what it has listed, and does nothing
\* else to an issue's status or its Workload's phase.
RetryReach ==
    /\ pc = "retry" /\ pc' = "retry" /\ todo' \subseteq todo
    /\ UNCHANGED <<shotVars, queueVars, claimVars, names, hands>>
    /\ \A j \in Issues : /\ status'[j] \in {status[j], "backlog", "ready"}
                         /\ phase'[j] \in {phase[j], "none"} \/ j \in todo

LEMMA RetryReaches ==
    ASSUME TypeOK, ControlInv, RetryPass, ~StartRetry
    PROVE  RetryReach
<1> USE DEF Picking, frame
<1>cur. ASSUME NEW s, At("retry", s)
        PROVE  pc = "retry" /\ cur \in todo /\ cur \in Issues /\ cur # NoIssue
  BY <1>cur DEF At, TypeOK, BridgeTypeOK, ControlInv, JobListed
<1>todo. ASSUME \/ Done \/ \E s : Goto(s)
                \/ \E i, s, p, v : Take(i, s, p, v)
                \/ \E i : Skip(i)
         PROVE  todo' \subseteq todo
  BY <1>todo DEF Done, Goto, Take, Skip
<1>quiet. ASSUME UNCHANGED <<issueVars, workVars>>
          PROVE  Board /\ Work
  BY <1>quiet, BoardKept, WorkKept
<1>still. ASSUME pc = "retry", UNCHANGED frame, todo' \subseteq todo, BoardBut(cur), WorkBut(cur), cur \in todo,
                 status'[cur] \in {status[cur], "backlog", "ready"}
          PROVE  RetryReach
  BY <1>still DEF RetryReach, BoardBut, BoardSame, WorkBut, WorkSame
<1>1. ASSUME NEW i \in Issues, RetrySkipClosed(i) \/ RetryPick(i) \/ RetryPickBlind(i)
      PROVE  RetryReach
  <2>1. todo' \subseteq todo
    BY <1>1, <1>todo DEF RetrySkipClosed, RetryPick, RetryPickBlind, Route, Enter
  <2> QED
    BY <1>1, <1>quiet, <2>1 DEF RetrySkipClosed, RetryPick, RetryPickBlind, RetryReach, Board, Work,
                                BoardSame, WorkSame
<1>2. CASE CheckParked \/ CheckNotParked \/ InfraCheck
  <2>1. todo' \subseteq todo
    BY <1>2, <1>todo DEF CheckParked, CheckNotParked, InfraCheck
  <2> QED
    BY <1>2, <1>cur, <1>quiet, <2>1 DEF CheckParked, CheckNotParked, InfraCheck, RetryReach, Board,
                                        Work, BoardSame, WorkSame
<1>3. CASE Relabel \/ ParkLabel \/ ParkComment \/ InfraComment
  <2>1. todo' \subseteq todo
    BY <1>3, <1>todo DEF Relabel, ParkLabel, ParkComment, InfraComment
  <2>2. BoardBut(cur) /\ status'[cur] = status[cur]
    BY <1>3, <1>cur, HumanFacts, CommentFacts
       DEF Relabel, ParkLabel, ParkComment, InfraComment, LabelCall, Failed, Board, BoardSame
  <2> QED
    BY <1>3, <1>cur, <1>still, WorkKept, <2>1, <2>2
       DEF Relabel, ParkLabel, ParkComment, InfraComment, Work, WorkBut
<1>4. CASE ParkStatus \/ InfraStatus
  <2>1. todo' \subseteq todo
    BY <1>4, <1>todo DEF ParkStatus, ParkFailed, InfraStatus, Enter
  <2>2. \E reply : StatusCall(cur, "backlog", reply)
    BY <1>4 DEF ParkStatus, InfraStatus
  <2>3. BoardBut(cur) /\ status'[cur] \in {status[cur], "backlog"}
    BY <1>4, <1>cur, <2>2, StatusFacts
       DEF ParkStatus, InfraStatus, Failed, Board, BoardSame, Statuses
  <2> QED
    BY <1>4, <1>cur, <1>still, WorkKept, <2>1, <2>3 DEF ParkStatus, InfraStatus, Work, WorkBut
<1>5. CASE EscalateLane \/ EscalateUnclaim
  <2>1. todo' \subseteq todo
    BY <1>5, <1>todo DEF EscalateLane, EscalateUnclaim, EscalateFailed, Enter
  <2>2. \E reply : LaneCall(cur, EscLane, reply) \/ UnclaimCall(cur, reply)
    BY <1>5 DEF EscalateLane, EscalateUnclaim
  <2>3. BoardBut(cur) /\ status'[cur] \in {status[cur], "ready"}
    BY <1>5, <1>cur, <2>2, LaneFacts, UnclaimFacts
       DEF EscalateLane, EscalateUnclaim, Failed, Board, BoardSame
  <2> QED
    BY <1>5, <1>cur, <1>still, WorkKept, <2>1, <2>3 DEF EscalateLane, EscalateUnclaim, Work, WorkBut
<1>6. CASE InfraLabels
  <2>1. todo' \subseteq todo
    BY <1>6, <1>todo DEF InfraLabels
  <2>2. BoardBut(cur) /\ status'[cur] = status[cur]
    BY <1>6, <1>cur, MarkFacts DEF InfraLabels
  <2> QED
    BY <1>6, <1>cur, <1>still, WorkKept, <2>1, <2>2 DEF InfraLabels, Work, WorkBut
<1>7. CASE Retire \/ RetryDelete \/ RetryCreate
  <2>1. todo' \subseteq todo
    BY <1>7, <1>todo DEF Retire, RetryDelete, RetryCreate
  <2>2. WorkBut(cur)
    BY <1>7, <1>cur, DeleteFacts, CreateFacts DEF Retire, RetryDelete, RetryCreate
  <2>3. Board
    BY <1>7, BoardKept DEF Retire, RetryDelete, RetryCreate
  <2> QED
    BY <1>7, <1>cur, <1>still, <2>1, <2>2, <2>3
       DEF Retire, RetryDelete, RetryCreate, Board, BoardBut, BoardSame
<1> QED
  BY <1>1, <1>2, <1>3, <1>4, <1>5, <1>6, <1>7 DEF RetryPass

LEMMA RetryKeepsPass ==
    ASSUME TypeOK, ControlInv, PassInv, RetryPass
    PROVE  PassInv'
<1> USE DEF PassInv
<1>1. CASE StartRetry
  <2>1. Board /\ Work
    BY <1>1, BoardKept, WorkKept DEF StartRetry
  <2> QED
    BY <1>1, <2>1
       DEF StartRetry, InPhase, AtWork, RetryLive, ClaimHeld, ReviewOver, StrandedLive, PruneLive,
           ResetListed, JobInTodo, At, Board, BoardSame, Work, WorkSame
<1>2. CASE ~StartRetry
  <2>1. RetryReach
    BY <1>2, RetryReaches
  <2>2. AtWork'
    BY <2>1 DEF RetryReach, AtWork, RetryLive, Live
  <2>3. RetryLive'
    BY <2>1 DEF RetryReach, RetryLive, Live, TypeOK, BridgeTypeOK
  <2>4. (ClaimHeld /\ ReviewOver /\ StrandedLive /\ PruneLive /\ ResetListed /\ JobInTodo)'
    BY <2>1 DEF RetryReach, ClaimHeld, ReviewOver, StrandedLive, PruneLive, ResetListed,
                JobInTodo, At
  <2> QED
    BY <2>1, <2>2, <2>3, <2>4 DEF RetryReach
<1> QED
  BY <1>1, <1>2

LEMMA ClaimKeepsPass ==
    ASSUME TypeOK, PassInv, ClaimPass
    PROVE  PassInv'
<1> USE DEF PassInv, TypeOK, BridgeTypeOK
<1>away. ASSUME AtWork', ClaimHeld', pc' \in {"idle", "claim"}
         PROVE  PassInv'
  BY <1>away DEF RetryLive, ReviewOver, StrandedLive, PruneLive, ResetListed, JobInTodo, At
<1>1. CASE StartClaim \/ NextLane
  <2>1. Board /\ Work /\ cur' = NoIssue /\ pc' = "claim"
    BY <1>1, BoardKept, WorkKept
       DEF StartClaim, NextLane, Drained, Draining, Picking, jobVars, passVars
  <2> QED
    BY <1>away, <2>1 DEF AtWork, ClaimHeld, At, Board, BoardSame, Work, WorkSame
<1>2. ASSUME NEW i \in Issues, ClaimCandidate(i)
      PROVE  PassInv'
  <2>1. Work /\ pc' = "claim" /\ cur = NoIssue
    BY <1>2, WorkKept DEF ClaimCandidate, Draining, Picking
  <2>2. CASE \E reply \in Failures : ClaimCall(i, reply) /\ UNCHANGED jobVars
    <3>1. BoardBut(i) /\ status'[i] \in {status[i], "in-progress"} /\ cur' = NoIssue
      BY <2>1, <2>2, ClaimFacts DEF BoardSame, jobVars
    <3> QED
      BY <1>away, <2>1, <3>1
         DEF AtWork, ClaimHeld, At, Work, WorkSame, BoardBut, BoardSame, Live
  <2>3. CASE ClaimCall(i, "ok") /\ Take(i, "claimed", "claim", "none")
    <3>1. BoardBut(i) /\ status'[i] = "in-progress" /\ owner'[i] = "bridge" /\ cur' = i
      BY <2>3, ClaimFacts DEF Failures, Take
    <3> QED
      BY <1>away, <2>1, <3>1
         DEF AtWork, ClaimHeld, At, Work, WorkSame, BoardBut, BoardSame, Live
  <2> QED
    BY <1>2, <2>2, <2>3 DEF ClaimCandidate
<1>3. CASE MaterializeWorkload
  <2>1. At("claim", "claimed") /\ cur \in Issues /\ Board
    BY <1>3, BoardKept DEF MaterializeWorkload, At
  <2>2. \E ok : CreateCall(cur, laneAt, 1, 1, 1, ok)
    BY <1>3 DEF MaterializeWorkload
  <2>3. WorkBut(cur) /\ status[cur] = "in-progress"
    BY <2>1, <2>2, CreateFacts DEF ClaimHeld
  <2>4. AtWork'
    BY <2>1, <2>3 DEF AtWork, Board, BoardSame, WorkBut, WorkSame, Live
  <2>5. pc' \in {"idle", "claim"} /\ cur' = NoIssue
    BY <1>3, <2>1 DEF MaterializeWorkload, EndTick, Done, At
  <2> QED
    BY <1>away, <2>4, <2>5 DEF ClaimHeld, At
<1> QED
  BY <1>1, <1>2, <1>3 DEF ClaimPass

LEMMA ReviewKeepsPass ==
    ASSUME TypeOK, ReviewPath, PassInv, ReviewPass
    PROVE  PassInv'
<1> USE DEF PassInv, TypeOK, BridgeTypeOK, frame
<1>away. ASSUME AtWork', ReviewOver', pc' = "review", cur' # NoIssue => cur' \in todo'
         PROVE  PassInv'
  BY <1>away DEF RetryLive, ClaimHeld, StrandedLive, PruneLive, ResetListed, JobInTodo, At
<1>cur. ASSUME NEW s, At("review", s)
        PROVE  pc = "review" /\ cur \in todo /\ cur \in Issues /\ phase[cur] \in {"Completed", "none"}
  BY <1>cur DEF At, JobInTodo, ReviewOver
<1>moved. ASSUME pc = "review", Done \/ \E s : Goto(s), cur \in todo
          PROVE  todo' \subseteq todo /\ (cur' # NoIssue => cur' \in todo')
  BY <1>moved DEF Done, Goto
<1>still. ASSUME pc = "review", cur \in todo, Done \/ \E s : Goto(s), UNCHANGED <<workVars, frame>>,
                 BoardBut(cur)
          PROVE  PassInv'
  <2>1. Work /\ phase[cur] \in {"Completed", "none"}
    BY <1>still, WorkKept DEF ReviewOver
  <2>2. AtWork' /\ ReviewOver'
    BY <1>still, <1>moved, <2>1
       DEF AtWork, ReviewOver, Work, WorkSame, BoardBut, BoardSame
  <2> QED
    BY <1>still, <1>moved, <1>away, <2>2
<1>1. CASE StartReview
  <2>1. Board /\ Work /\ cur' = NoIssue /\ pc' = "review" /\ todo' = InPhase("Completed")
    BY <1>1, BoardKept, WorkKept DEF StartReview, Picking, jobVars
  <2> QED
    BY <1>away, <2>1 DEF AtWork, ReviewOver, InPhase, Board, BoardSame, Work, WorkSame
<1>2. ASSUME NEW i \in Issues, ReviewPick(i)
      PROVE  PassInv'
  <2>1. Board /\ Work /\ pc = "review" /\ pc' = "review" /\ cur' = i /\ i \in todo /\ todo' = todo
    BY <1>2, BoardKept, WorkKept DEF ReviewPick, Picking, Take
  <2> QED
    BY <1>away, <2>1 DEF AtWork, ReviewOver, Board, BoardSame, Work, WorkSame
<1>3. CASE ReviewStatus
  <2>1. pc = "review" /\ cur \in todo /\ cur \in Issues /\ path \in Statuses
    BY <1>3, <1>cur DEF ReviewStatus, ReviewPath, Statuses
  <2>2. \E reply \in Replies : StatusCall(cur, path, reply)
    BY <1>3 DEF ReviewStatus
  <2>3. BoardBut(cur)
    BY <2>1, <2>2, StatusFacts
  <2> QED
    BY <1>3, <1>still, <2>1, <2>3 DEF ReviewStatus
<1>4. CASE ReviewClose \/ ReviewCheck \/ ReviewPark \/ ReviewLabel \/ ReviewComment
  <2>1. pc = "review" /\ cur \in todo /\ cur \in Issues
    BY <1>4, <1>cur DEF ReviewClose, ReviewCheck, ReviewPark, ReviewLabel, ReviewComment
  <2>2. BoardBut(cur)
    BY <1>4, <2>1, CloseFacts, StatusFacts, HumanFacts, CommentFacts, BoardKept
       DEF ReviewClose, ReviewCheck, ReviewPark, ReviewLabel, ReviewComment, LabelCall, Statuses,
           Board, BoardBut
  <2> QED
    BY <1>4, <1>still, <2>1, <2>2
       DEF ReviewClose, ReviewCheck, ReviewPark, ReviewLabel, ReviewComment
<1> QED
  BY <1>1, <1>2, <1>3, <1>4 DEF ReviewPass

LEMMA ReconcileKeepsPass ==
    ASSUME TypeOK, PassInv, ReconcilePass
    PROVE  PassInv'
<1> USE DEF PassInv, TypeOK, BridgeTypeOK, frame
<1>away. ASSUME AtWork', StrandedLive', pc' \in {"stranded", "stuck"},
                pc' = "stranded" /\ cur' # NoIssue => cur' \in todo'
         PROVE  PassInv'
  BY <1>away DEF RetryLive, ClaimHeld, ReviewOver, PruneLive, ResetListed, JobInTodo, At
<1>1. CASE ListNames \/ StartStuck
  <2>1. Board /\ Work /\ cur' = NoIssue
    BY <1>1, BoardKept, WorkKept DEF ListNames, StartStuck, Drained, Picking, jobVars
  <2> QED
    BY <1>1, <1>away, <2>1
       DEF ListNames, StartStuck, Claimed, AtWork, StrandedLive, Board, BoardSame, Work, WorkSame
<1>2. ASSUME NEW i \in Issues, StrandedSkip(i) \/ StuckSkip(i)
      PROVE  PassInv'
  <2>1. /\ Board /\ Work /\ cur' = NoIssue /\ pc \in {"stranded", "stuck"} /\ pc' = pc
        /\ todo' \subseteq todo
    BY <1>2, BoardKept, WorkKept DEF StrandedSkip, StuckSkip, Skip, Picking, jobVars
  <2> QED
    BY <1>away, <2>1 DEF AtWork, StrandedLive, Board, BoardSame, Work, WorkSame
<1>3. ASSUME NEW i \in Issues, StrandedReset(i)
      PROVE  PassInv'
  <2>1. Work /\ i \in todo /\ pc = "stranded" /\ pc' = pc /\ cur = NoIssue
    BY <1>3, WorkKept DEF StrandedReset, Picking
  <2>2. BoardBut(i) /\ status'[i] \in {status[i], "ready"}
    BY <1>3, StatusFacts DEF StrandedReset, Failed, Board, BoardSame, Statuses
  <2>3. todo' \subseteq todo /\ (cur' # NoIssue => cur' \in todo')
    BY <1>3, <2>1 DEF StrandedReset, Skip, Take, jobVars
  <2> QED
    BY <1>away, <2>1, <2>2, <2>3
       DEF AtWork, StrandedLive, BoardBut, BoardSame, Work, WorkSame, Live
<1>4. CASE StrandedUnlabel
  <2>1. Work /\ cur \in Issues /\ pc = "stranded" /\ pc' = pc /\ cur' = NoIssue /\ todo' \subseteq todo
    BY <1>4, WorkKept DEF StrandedUnlabel, At, Done
  <2>2. \E reply : Call(HumanSet(cur, FALSE), reply)
    BY <1>4 DEF StrandedUnlabel, UnlabelCall
  <2>3. BoardBut(cur) /\ status'[cur] = status[cur]
    BY <2>1, <2>2, HumanFacts DEF Failed, Board, BoardSame
  <2> QED
    BY <1>away, <2>1, <2>3 DEF AtWork, StrandedLive, BoardBut, BoardSame, Work, WorkSame
<1>5. ASSUME NEW i \in Issues, StuckRelease(i)
      PROVE  PassInv'
  <2>1. Work /\ pc' = "stuck" /\ cur' = NoIssue
    BY <1>5, WorkKept DEF StuckRelease, Picking, Skip, jobVars
  <2>2. BoardBut(i) /\ status'[i] \in {status[i], "ready"}
    BY <1>5, UnclaimFacts DEF StuckRelease, BoardSame
  <2> QED
    BY <1>away, <2>1, <2>2 DEF AtWork, StrandedLive, BoardBut, BoardSame, Work, WorkSame, Live
<1> QED
  BY <1>1, <1>2, <1>3, <1>4, <1>5 DEF ReconcilePass

LEMMA PruneKeepsPass ==
    ASSUME TypeOK, PassInv, PrunePass
    PROVE  PassInv'
<1> USE DEF PassInv, TypeOK, BridgeTypeOK, frame
<1>away. ASSUME AtWork', PruneLive', pc' = "prune", ResetListed', cur' # NoIssue => cur' \in todo'
         PROVE  PassInv'
  BY <1>away DEF RetryLive, ClaimHeld, ReviewOver, StrandedLive, JobInTodo, At
<1>1. CASE StartPrune
  <2>1. Board /\ Work /\ cur' = NoIssue /\ pc' = "prune" /\ names' = InPhase("Failed")
    BY <1>1, BoardKept, WorkKept DEF StartPrune, Drained, Picking, jobVars
  <2> QED
    BY <1>away, <2>1
       DEF InPhase, AtWork, PruneLive, ResetListed, At, Board, BoardSame, Work, WorkSame
<1>2. ASSUME NEW i \in Issues, PrunePick(i) \/ PruneUnstamped(i)
      PROVE  PassInv'
  <2>1. /\ Board /\ i \in todo /\ pc = "prune" /\ pc' = "prune" /\ names' = names /\ cur = NoIssue
        /\ phase' = phase
    BY <1>2, BoardKept DEF PrunePick, PruneUnstamped, Picking, Stamped, workVars
  <2>2. cur' = NoIssue \/ (cur' = i /\ step' = "pruneDelete" /\ todo' = todo)
    BY <1>2, <2>1 DEF PrunePick, PruneUnstamped, Skip, Take, jobVars
  <2> QED
    BY <1>away, <2>1, <2>2 DEF AtWork, PruneLive, ResetListed, At, Board, BoardSame
<1>3. CASE PruneDelete
  <2>1. /\ Board /\ pc = "prune" /\ pc' = "prune" /\ names' = names /\ cur \in Issues
        /\ cur \in todo /\ cur # NoIssue
    BY <1>3, BoardKept DEF PruneDelete, At, JobInTodo
  <2>2. WorkBut(cur) /\ phase'[cur] \in {phase[cur], "none"}
    BY <1>3, <2>1, DeleteFacts DEF PruneDelete, Vanished, WorkSame
  <2>3. cur' = NoIssue \/ (cur \in names /\ cur' = cur /\ todo' = todo)
    BY <1>3, <2>1 DEF PruneDelete, Done, Goto
  <2> QED
    BY <1>away, <2>1, <2>2, <2>3
       DEF AtWork, PruneLive, ResetListed, At, Board, BoardSame, WorkBut, WorkSame
<1>4. CASE PruneCheck
  <2>1. /\ Board /\ Work /\ pc = "prune" /\ pc' = "prune" /\ names' = names /\ cur \in Issues
        /\ cur \in todo /\ cur \in names
    BY <1>4, BoardKept, WorkKept DEF PruneCheck, At, JobInTodo, ResetListed
  <2>2. cur' = NoIssue \/ (cur' = cur /\ todo' = todo)
    BY <1>4 DEF PruneCheck, Done, Goto
  <2> QED
    BY <1>away, <2>1, <2>2
       DEF AtWork, PruneLive, ResetListed, At, Board, BoardSame, Work, WorkSame
<1>5. CASE PruneReset
  <2>1. Work /\ pc' = "prune" /\ names' = names /\ cur \in Issues /\ cur' = NoIssue
    BY <1>5, WorkKept DEF PruneReset, At, Done
  <2>2. BoardBut(cur) /\ status'[cur] \in {status[cur], "ready"}
    BY <1>5, <2>1, StatusFacts DEF PruneReset, Failed, Board, BoardSame, Statuses
  <2>3. AtWork' /\ PruneLive'
    BY <1>5, <2>1, <2>2
       DEF PruneReset, At, AtWork, PruneLive, BoardBut, BoardSame, Work, WorkSame, Live
  <2> QED
    BY <1>away, <2>1, <2>3 DEF ResetListed, At
<1> QED
  BY <1>1, <1>2, <1>3, <1>4, <1>5 DEF PrunePass

\* The cluster, people and other agents.
LEMMA WorldKeepsPass ==
    ASSUME TypeOK, PassInv, NEW i \in Issues, ClusterStep(i) \/ HandStep(i) \/ RemoveStep(i)
    PROVE  PassInv'
<1> USE DEF PassInv, TypeOK, BridgeTypeOK
<1> DEFINE StatusMoves(j) ==
             \/ status'[j] = status[j] /\ owner'[j] = owner[j]
             \/ status[j] \in {"backlog", "blocked"} /\ status'[j] = "ready"
             \/ status[j] = "ready" /\ status'[j] = "in-progress"
           PhaseMoves(j) ==
             \/ phase'[j] \in {phase[j], "none"}
             \/ phase[j] = "Active"
<1>1. \A j \in Issues : StatusMoves(j) /\ PhaseMoves(j)
  <2>1. CASE FinishRun(i)
    BY <2>1, FinishFacts DEF WorkBut, WorkSame, BoardBut, BoardSame
  <2>2. CASE FinalizeRun(i) \/ RemoveByHand(i)
    BY <2>2, GoneFacts, BoardKept
       DEF FinalizeRun, RemoveByHand, WorkBut, WorkSame, Board, BoardSame, Vanished
  <2>3. CASE AgeRun(i)
    BY <2>3, BoardKept DEF AgeRun, Board, BoardSame
  <2>4. CASE HandStep(i)
    BY <2>4, HandFacts DEF BoardBut, BoardSame, Work, WorkSame
  <2> QED
    BY <2>1, <2>2, <2>3, <2>4 DEF ClusterStep, RemoveStep
<1>2. UNCHANGED bridgeVars
  BY HandFacts DEF ClusterStep, HandStep, RemoveStep
<1>3. UNCHANGED <<pc, cur, step, todo, names>>
  BY <1>2 DEF bridgeVars, passVars, jobVars
<1>4. AtWork'
  BY <1>1 DEF AtWork, Live
<1>5. RetryLive' /\ StrandedLive' /\ PruneLive'
  BY <1>1, <1>3 DEF RetryLive, StrandedLive, PruneLive, Live
<1>6. ClaimHeld'
  BY <1>1, <1>3 DEF ClaimHeld, At
<1>7. ReviewOver'
  BY <1>1, <1>3 DEF ReviewOver
<1> QED
  BY <1>3, <1>4, <1>5, <1>6, <1>7 DEF ResetListed, JobInTodo, At

\* The ends of a tick, and its first snapshot.
LEMMA RestKeepsPass ==
    ASSUME TypeOK, PassInv, SnapshotQueues \/ FinishTick \/ Crash \/ UNCHANGED vars
    PROVE  PassInv'
<1> USE DEF PassInv
<1>1. Board /\ Work
  BY BoardKept, WorkKept DEF SnapshotQueues, FinishTick, Crash, vars
<1>2. AtWork'
  BY <1>1 DEF AtWork, Board, BoardSame, Work, WorkSame
<1>3. CASE SnapshotQueues \/ FinishTick \/ Crash
  BY <1>2, <1>3
     DEF SnapshotQueues, FinishTick, Crash, EndTick, RetryLive, ClaimHeld, ReviewOver,
         StrandedLive, PruneLive, ResetListed, JobInTodo, At
<1>4. CASE UNCHANGED vars
  BY <1>1, <1>2, <1>4
     DEF vars, bridgeVars, passVars, jobVars, RetryLive, ClaimHeld, ReviewOver, TypeOK,
         BridgeTypeOK, StrandedLive, PruneLive, ResetListed, JobInTodo, At, Board, BoardSame,
         Work, WorkSame
<1> QED
  BY <1>3, <1>4

LEMMA InitPass == Init => PassInv
BY DEF Init, DispatchInit, ClusterInit, BridgeInit, PassInv, AtWork, RetryLive, ClaimHeld,
       ReviewOver, StrandedLive, PruneLive, ResetListed, JobInTodo, At, Live

LEMMA PassStep ==
    ASSUME ~ProbeModel, TypeOK, ControlInv, PassInv, [Next]_vars
    PROVE  PassInv'
<1>1. ~RecoverPass
  BY DEF RecoverPass, StartRecover, RecoverHealthy, RecoverUnhealthy, RecoverCreate, RecoverResume,
         RecoverUnpark, RecoverUnmark, HandStatus, HandLabel, HandComment, RecoverUncount,
         RecoverCount, Picking, At, PassInv
<1> QED
  BY <1>1, RetryKeepsPass, ClaimKeepsPass, ReviewKeepsPass, ReconcileKeepsPass, PruneKeepsPass,
     WorldKeepsPass, RestKeepsPass
     DEF Next, TickStep, ControlInv

\* Without infra recovery, an issue whose run is at work or failed is ready, in progress
\* or given up, never under review, blocked or done: no pass takes a status from a run
\* that still needs it, whatever fails and whoever intervenes.
THEOREM PassSound ==
    ASSUME ~ProbeModel
    PROVE  Spec => []PassInv
<1>1. IInv /\ PassInv /\ [Next]_vars => PassInv'
  BY PassStep DEF IInv
<1> QED
  BY <1>1, InitPass, Inductive, PTL DEF Spec

=============================================================================
