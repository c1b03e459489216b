---------------------------- MODULE SupportProofs -----------------------------
(* Proofs about what stands behind an answer: the processes of the tools       *)
(* (ToolProcesses), the pictures of the lines on the dashboard (ShapedText)    *)
(* and the corpora a model is trained and judged on (TrainingData).            *)
EXTENDS ToolProcesses, ShapedText, TrainingData, FiniteSetTheorems, SequenceTheorems,
        WellFoundedInduction, TLAPS

-----------------------------------------------------------------------------
(* The processes of the tools.                                                 *)

Programs == {"root", "helper"}
Pieces == {"data", "200", "404", "complaint", "000"}
Looking == {"check", "poll", "drain"}
Over == {"wait", "reaped", "failed", "done"}

ProcTypes ==
    /\ tool \in {"shell", "search", "page"}
    /\ stage \in Nat
    /\ root \in {"none", "forked", "running", "ended"}
    /\ grouped \in BOOLEAN
    /\ code \in {0, 1, "killed"}
    /\ helper \in {"none", "in", "out", "ended", "gone"}
    /\ holds \subseteq Programs
    /\ pipe \in Seq(Pieces)
    /\ wrote \in Nat
    /\ page \in [size : Nat, whole : BOOLEAN]
    /\ parent \in {"start"} \cup Looking \cup Over
    /\ kept \in Seq(Pieces)
    /\ total \in Nat
    /\ timedOut \in BOOLEAN
    /\ cancelled \in BOOLEAN
    /\ cancelFlag \in [set : BOOLEAN, at : Nat]
    /\ clock \in Nat
    /\ due \in BOOLEAN

\* A child that is not in a group of its own yet has not begun, and then no time
\* has passed: a kill always meets the group.
Groups ==
    /\ (Shell /\ parent \in Looking \cup {"wait", "reaped"}) => grouped
    /\ (parent \in Looking \cup {"wait"} /\ ~grouped) => root = "forked" /\ clock = 0
    /\ parent = "start" => root = "none" /\ helper = "none" /\ holds = {} /\ pipe = <<>>
                           /\ wrote = 0 /\ total = 0 /\ kept = <<>>
    /\ parent \in Looking => root # "none"
    /\ parent \in {"wait", "reaped"} => root # "none"
    /\ ~Shell => helper = "none"
    /\ parent = "reaped" => root = "ended"

\* A slice passes only between two looks at the clock, or while something the kill did
\* not reach still writes.
Slices ==
    /\ parent = "check" => clock <= Limit
    /\ (parent = "drain" /\ clock > Limit) => LeftGroup
    /\ parent = "poll" => clock <= Limit /\ (~due => clock < Limit)
    /\ parent = "check" => ~due

\* From a stop on, one slice at the most.
Stopping ==
    (Shell /\ cancelFlag.set) =>
        /\ parent \in {"check", "poll"} => clock <= cancelFlag.at + 1
        /\ (parent = "drain" /\ clock > cancelFlag.at + 1) => LeftGroup
        /\ (parent = "poll" /\ ~due) => clock <= cancelFlag.at

\* What a kill leaves.
Killed ==
    /\ (timedOut \/ cancelled) =>
          /\ parent \in {"drain", "wait", "reaped", "done"}
          /\ root = "ended" /\ helper # "in" /\ holds \subseteq {"helper"}
    /\ (parent = "drain") => timedOut \/ cancelled
    /\ cancelled => Shell

\* Who can still write, and what was read of it.
Whole ==
    /\ "root" \in holds => root \in {"forked", "running"}
    /\ (~Shell /\ root \in {"forked", "running"}) => holds = {"root"}
    /\ ~Shell => holds \subseteq {"root"}
    /\ (parent \in {"wait", "reaped"} /\ ~timedOut /\ ~cancelled) => holds = {}
    /\ (Shell /\ parent \in {"wait", "reaped"} /\ ~timedOut /\ ~cancelled) => pipe = <<>>
    /\ Shell => total + Len(pipe) = wrote
    /\ Shell => Len(kept) = IF total > KeepMax THEN KeepMax ELSE total
    /\ (~Shell /\ root = "ended" /\ ~timedOut /\ code = 0) => page.whole

\* The verdict comes last.
Verdicts ==
    /\ verdict = "ok" => parent = "done" /\ root = "ended"
    /\ (Shell /\ verdict = "ok") =>
          ~timedOut /\ ~cancelled /\ code = 0 /\ pipe = <<>>
    /\ (~Shell /\ verdict = "ok") => ~timedOut /\ Status = "200"

ProcInv == ProcTypes /\ Groups /\ Slices /\ Stopping /\ Killed /\ Whole /\ Verdicts

\* read(): what is taken from the pipe is counted, and kept up to the cap.
LEMMA TakenPieces ==
    ASSUME ProcTypes, TakePieces
    PROVE  /\ pipe' \in Seq(Pieces) /\ kept' \in Seq(Pieces) /\ total' \in Nat
           /\ total' + Len(pipe') = total + Len(pipe)
           /\ (Shell /\ Len(kept) = IF total > KeepMax THEN KeepMax ELSE total) =>
                 Len(kept') = IF total' > KeepMax THEN KeepMax ELSE total'
<1> USE ToolProcessesAssumption
<1>1. PICK n \in 1..Len(pipe) :
        /\ pipe' = SubSeq(pipe, n + 1, Len(pipe))
        /\ total' = total + n
        /\ kept' = SubSeq(kept \o SubSeq(pipe, 1, n), 1,
                          IF Shell /\ Len(kept) + n > KeepMax THEN KeepMax ELSE Len(kept) + n)
  BY DEF TakePieces
<1>2. /\ pipe \in Seq(Pieces) /\ kept \in Seq(Pieces) /\ total \in Nat
      /\ Len(pipe) \in Nat /\ Len(kept) \in Nat /\ n \in Nat /\ KeepMax \in Nat
  BY DEF ProcTypes
<1>3. pipe' \in Seq(Pieces) /\ Len(pipe') = Len(pipe) - n
  BY <1>1, <1>2
<1>4. SubSeq(pipe, 1, n) \in Seq(Pieces) /\ Len(SubSeq(pipe, 1, n)) = n
  BY <1>1, <1>2
<1> DEFINE all == kept \o SubSeq(pipe, 1, n)
           cut == IF Shell /\ Len(kept) + n > KeepMax THEN KeepMax ELSE Len(kept) + n
<1>5. all \in Seq(Pieces) /\ Len(all) = Len(kept) + n
  BY <1>2, <1>4
<1>6. cut \in 0..Len(all)
  BY <1>2, <1>5
<1>7. kept' = SubSeq(all, 1, cut)
  BY <1>1
<1> HIDE DEF all, cut
<1>8. kept' \in Seq(Pieces) /\ Len(kept') = cut
  BY <1>5, <1>6, <1>7
<1>9. ASSUME Shell, Len(kept) = IF total > KeepMax THEN KeepMax ELSE total
      PROVE  cut = IF total + n > KeepMax THEN KeepMax ELSE total + n
  <2>1. Len(kept) + n > KeepMax <=> total + n > KeepMax
    BY <1>2, <1>9
  <2>2. CASE total + n > KeepMax
    BY <1>9, <2>1, <2>2 DEF cut
  <2>3. CASE ~(total + n > KeepMax)
    BY <1>2, <1>9, <2>1, <2>3 DEF cut
  <2> QED BY <2>2, <2>3
<1>10. total' = total + n /\ total' \in Nat
  BY <1>1, <1>2
<1>11. total' + Len(pipe') = total + Len(pipe)
  BY ONLY <1>2, <1>3, <1>10
<1>12. (Shell /\ Len(kept) = IF total > KeepMax THEN KeepMax ELSE total) =>
          Len(kept') = IF total' > KeepMax THEN KeepMax ELSE total'
  BY ONLY <1>8, <1>9, <1>10
<1> QED BY ONLY <1>3, <1>8, <1>10, <1>11, <1>12

LEMMA ProcTypesStep == ProcInv /\ [ProcNext]_procVars => ProcTypes'
<1> SUFFICES ASSUME ProcInv, [ProcNext]_procVars PROVE ProcTypes'
  OBVIOUS
<1> USE ToolProcessesAssumption DEF ProcInv, ProcTypes, ProcTypes, Pieces, childVars, parentVars, Still, Shell, Programs, Looking, Over
<1>1. CASE ChildStarts
  BY <1>1 DEF ChildStarts
<1>2. CASE StartHelper
  BY <1>2 DEF StartHelper
<1>3. CASE HelperLeaves
  BY <1>3 DEF HelperLeaves
<1>4. CASE HelperEnds
  BY <1>4 DEF HelperEnds, Alive
<1>5. CASE CommandEnds
  BY <1>5 DEF CommandEnds
<1>6. ASSUME NEW p \in Programs, WritePiece(p) PROVE ProcTypes'
  BY <1>6 DEF WritePiece, Alive
<1>7. ASSUME NEW p \in Programs, ClosesOutput(p) PROVE ProcTypes'
  BY <1>7 DEF ClosesOutput, Alive
<1>8. CASE Receives
  BY <1>8 DEF Receives
<1>9. CASE CurlEnds
  <2>1. tool' \in {"shell", "search", "page"} /\ stage' \in Nat
    BY <1>9 DEF CurlEnds
  <2>2. root' \in {"none", "forked", "running", "ended"}
    BY <1>9 DEF CurlEnds
  <2>3. grouped' \in BOOLEAN
    BY <1>9 DEF CurlEnds
  <2>4. code' \in {0, 1, "killed"}
    BY <1>9 DEF CurlEnds
  <2>5. helper' \in {"none", "in", "out", "ended", "gone"} /\ holds' \subseteq Programs
    BY <1>9 DEF CurlEnds
  <2>6. pipe' \in Seq(Pieces)
    <3>1. "200" \in Pieces /\ "404" \in Pieces /\ "complaint" \in Pieces /\ "000" \in Pieces
      OBVIOUS
    <3>2. \/ \E status \in {"200", "404"} : pipe' = <<status>>
          \/ pipe' = <<"complaint", "200">> \/ pipe' = <<"complaint", "000">>
      BY <1>9 DEF CurlEnds
    <3> HIDE DEF Pieces
    <3>3. ASSUME NEW x \in Pieces PROVE <<x>> \in Seq(Pieces)
      BY <3>3
    <3>4. ASSUME NEW x \in Pieces, NEW y \in Pieces PROVE <<x, y>> \in Seq(Pieces)
      BY <3>4
    <3>5. CASE \E status \in {"200", "404"} : pipe' = <<status>>
      BY <3>1, <3>3, <3>5
    <3>6. CASE pipe' = <<"complaint", "200">>
      BY <3>1, <3>4, <3>6
    <3>7. CASE pipe' = <<"complaint", "000">>
      BY <3>1, <3>4, <3>7
    <3> QED BY <3>2, <3>5, <3>6, <3>7
  <2>7. wrote' \in Nat
    BY <1>9 DEF CurlEnds
  <2>8. page' \in [size : Nat, whole : BOOLEAN]
    BY <1>9 DEF CurlEnds
  <2>9. parent' \in {"start"} \cup Looking \cup Over
    BY <1>9 DEF CurlEnds
  <2>10. kept' \in Seq(Pieces) /\ total' \in Nat
    BY <1>9 DEF CurlEnds
  <2>11. timedOut' \in BOOLEAN
    BY <1>9 DEF CurlEnds
  <2>12. cancelled' \in BOOLEAN
    BY <1>9 DEF CurlEnds
  <2>13. cancelFlag' \in [set : BOOLEAN, at : Nat]
    BY <1>9 DEF CurlEnds
  <2>14. clock' \in Nat
    BY <1>9 DEF CurlEnds
  <2>15. due' \in BOOLEAN
    BY <1>9 DEF CurlEnds
  <2> QED BY <2>1, <2>2, <2>3, <2>4, <2>5, <2>6, <2>7, <2>8, <2>9, <2>10, <2>11, <2>12, <2>13, <2>14, <2>15
<1>10. CASE UserStops
  BY <1>10 DEF UserStops
<1>11. CASE Fork
  <2>1. tool' \in {"shell", "search", "page"} /\ stage' \in Nat
    BY <1>11 DEF Fork
  <2>2. root' \in {"none", "forked", "running", "ended"}
    BY <1>11 DEF Fork
  <2>3. grouped' \in BOOLEAN
    BY <1>11 DEF Fork
  <2>4. code' \in {0, 1, "killed"}
    BY <1>11 DEF Fork
  <2>5. helper' \in {"none", "in", "out", "ended", "gone"} /\ holds' \subseteq Programs
    BY <1>11 DEF Fork
  <2>6. pipe' \in Seq(Pieces)
    BY <1>11 DEF Fork
  <2>7. wrote' \in Nat
    BY <1>11 DEF Fork
  <2>8. page' \in [size : Nat, whole : BOOLEAN]
    BY <1>11 DEF Fork
  <2>9. parent' \in {"start"} \cup Looking \cup Over
    BY <1>11 DEF Fork
  <2>10. kept' \in Seq(Pieces) /\ total' \in Nat
    BY <1>11 DEF Fork
  <2>11. timedOut' \in BOOLEAN
    BY <1>11 DEF Fork
  <2>12. cancelled' \in BOOLEAN
    BY <1>11 DEF Fork
  <2>13. cancelFlag' \in [set : BOOLEAN, at : Nat]
    BY <1>11 DEF Fork
  <2>14. clock' \in Nat
    BY <1>11 DEF Fork
  <2>15. due' \in BOOLEAN
    BY <1>11 DEF Fork
  <2> QED BY <2>1, <2>2, <2>3, <2>4, <2>5, <2>6, <2>7, <2>8, <2>9, <2>10, <2>11, <2>12, <2>13, <2>14, <2>15
<1>12. CASE Check
  <2>1. tool' \in {"shell", "search", "page"} /\ stage' \in Nat
    BY <1>12 DEF Check, Kill
  <2>2. root' \in {"none", "forked", "running", "ended"}
    BY <1>12 DEF Check, Kill
  <2>3. grouped' \in BOOLEAN
    BY <1>12 DEF Check, Kill
  <2>4. code' \in {0, 1, "killed"}
    BY <1>12 DEF Check, Kill
  <2>5. helper' \in {"none", "in", "out", "ended", "gone"} /\ holds' \subseteq Programs
    BY <1>12 DEF Check, Kill
  <2>6. pipe' \in Seq(Pieces)
    BY <1>12 DEF Check, Kill
  <2>7. wrote' \in Nat
    BY <1>12 DEF Check, Kill
  <2>8. page' \in [size : Nat, whole : BOOLEAN]
    BY <1>12 DEF Check, Kill
  <2>9. parent' \in {"start"} \cup Looking \cup Over
    BY <1>12 DEF Check, Kill
  <2>10. kept' \in Seq(Pieces) /\ total' \in Nat
    BY <1>12 DEF Check, Kill
  <2>11. timedOut' \in BOOLEAN
    BY <1>12 DEF Check, Kill
  <2>12. cancelled' \in BOOLEAN
    BY <1>12 DEF Check, Kill
  <2>13. cancelFlag' \in [set : BOOLEAN, at : Nat]
    BY <1>12 DEF Check, Kill
  <2>14. clock' \in Nat
    BY <1>12 DEF Check, Kill
  <2>15. due' \in BOOLEAN
    BY <1>12 DEF Check, Kill
  <2> QED BY <2>1, <2>2, <2>3, <2>4, <2>5, <2>6, <2>7, <2>8, <2>9, <2>10, <2>11, <2>12, <2>13, <2>14, <2>15
<1>13. CASE ReadPiece
  <2>1. tool' \in {"shell", "search", "page"} /\ stage' \in Nat
    BY <1>13 DEF ReadPiece, TakePieces
  <2>2. root' \in {"none", "forked", "running", "ended"}
    BY <1>13 DEF ReadPiece, TakePieces
  <2>3. grouped' \in BOOLEAN
    BY <1>13 DEF ReadPiece, TakePieces
  <2>4. code' \in {0, 1, "killed"}
    BY <1>13 DEF ReadPiece, TakePieces
  <2>5. helper' \in {"none", "in", "out", "ended", "gone"} /\ holds' \subseteq Programs
    BY <1>13 DEF ReadPiece, TakePieces
  <2>6. pipe' \in Seq(Pieces)
    BY <1>13, TakenPieces DEF ReadPiece
  <2>7. wrote' \in Nat
    BY <1>13 DEF ReadPiece, TakePieces
  <2>8. page' \in [size : Nat, whole : BOOLEAN]
    BY <1>13 DEF ReadPiece, TakePieces
  <2>9. parent' \in {"start"} \cup Looking \cup Over
    BY <1>13 DEF ReadPiece, TakePieces
  <2>10. kept' \in Seq(Pieces) /\ total' \in Nat
    BY <1>13, TakenPieces DEF ReadPiece
  <2>11. timedOut' \in BOOLEAN
    BY <1>13 DEF ReadPiece, TakePieces
  <2>12. cancelled' \in BOOLEAN
    BY <1>13 DEF ReadPiece, TakePieces
  <2>13. cancelFlag' \in [set : BOOLEAN, at : Nat]
    BY <1>13 DEF ReadPiece, TakePieces
  <2>14. clock' \in Nat
    BY <1>13 DEF ReadPiece, TakePieces
  <2>15. due' \in BOOLEAN
    BY <1>13 DEF ReadPiece, TakePieces
  <2> QED BY <2>1, <2>2, <2>3, <2>4, <2>5, <2>6, <2>7, <2>8, <2>9, <2>10, <2>11, <2>12, <2>13, <2>14, <2>15
<1>14. CASE EndOfOutput
  <2>1. tool' \in {"shell", "search", "page"} /\ stage' \in Nat
    BY <1>14 DEF EndOfOutput
  <2>2. root' \in {"none", "forked", "running", "ended"}
    BY <1>14 DEF EndOfOutput
  <2>3. grouped' \in BOOLEAN
    BY <1>14 DEF EndOfOutput
  <2>4. code' \in {0, 1, "killed"}
    BY <1>14 DEF EndOfOutput
  <2>5. helper' \in {"none", "in", "out", "ended", "gone"} /\ holds' \subseteq Programs
    BY <1>14 DEF EndOfOutput
  <2>6. pipe' \in Seq(Pieces)
    BY <1>14 DEF EndOfOutput
  <2>7. wrote' \in Nat
    BY <1>14 DEF EndOfOutput
  <2>8. page' \in [size : Nat, whole : BOOLEAN]
    BY <1>14 DEF EndOfOutput
  <2>9. parent' \in {"start"} \cup Looking \cup Over
    BY <1>14 DEF EndOfOutput
  <2>10. kept' \in Seq(Pieces) /\ total' \in Nat
    BY <1>14 DEF EndOfOutput
  <2>11. timedOut' \in BOOLEAN
    BY <1>14 DEF EndOfOutput
  <2>12. cancelled' \in BOOLEAN
    BY <1>14 DEF EndOfOutput
  <2>13. cancelFlag' \in [set : BOOLEAN, at : Nat]
    BY <1>14 DEF EndOfOutput
  <2>14. clock' \in Nat
    BY <1>14 DEF EndOfOutput
  <2>15. due' \in BOOLEAN
    BY <1>14 DEF EndOfOutput
  <2> QED BY <2>1, <2>2, <2>3, <2>4, <2>5, <2>6, <2>7, <2>8, <2>9, <2>10, <2>11, <2>12, <2>13, <2>14, <2>15
<1>15. CASE PollEnds
  <2>1. tool' \in {"shell", "search", "page"} /\ stage' \in Nat
    BY <1>15 DEF PollEnds, Slice
  <2>2. root' \in {"none", "forked", "running", "ended"}
    BY <1>15 DEF PollEnds, Slice
  <2>3. grouped' \in BOOLEAN
    BY <1>15 DEF PollEnds, Slice
  <2>4. code' \in {0, 1, "killed"}
    BY <1>15 DEF PollEnds, Slice
  <2>5. helper' \in {"none", "in", "out", "ended", "gone"} /\ holds' \subseteq Programs
    BY <1>15 DEF PollEnds, Slice
  <2>6. pipe' \in Seq(Pieces)
    BY <1>15 DEF PollEnds, Slice
  <2>7. wrote' \in Nat
    BY <1>15 DEF PollEnds, Slice
  <2>8. page' \in [size : Nat, whole : BOOLEAN]
    BY <1>15 DEF PollEnds, Slice
  <2>9. parent' \in {"start"} \cup Looking \cup Over
    BY <1>15 DEF PollEnds, Slice
  <2>10. kept' \in Seq(Pieces) /\ total' \in Nat
    BY <1>15 DEF PollEnds, Slice
  <2>11. timedOut' \in BOOLEAN
    BY <1>15 DEF PollEnds, Slice
  <2>12. cancelled' \in BOOLEAN
    BY <1>15 DEF PollEnds, Slice
  <2>13. cancelFlag' \in [set : BOOLEAN, at : Nat]
    BY <1>15 DEF PollEnds, Slice
  <2>14. clock' \in Nat
    BY <1>15 DEF PollEnds, Slice
  <2>15. due' \in BOOLEAN
    BY <1>15 DEF PollEnds, Slice
  <2> QED BY <2>1, <2>2, <2>3, <2>4, <2>5, <2>6, <2>7, <2>8, <2>9, <2>10, <2>11, <2>12, <2>13, <2>14, <2>15
<1>16. CASE Drain
  <2>1. tool' \in {"shell", "search", "page"} /\ stage' \in Nat
    BY <1>16 DEF Drain, TakePieces
  <2>2. root' \in {"none", "forked", "running", "ended"}
    BY <1>16 DEF Drain, TakePieces
  <2>3. grouped' \in BOOLEAN
    BY <1>16 DEF Drain, TakePieces
  <2>4. code' \in {0, 1, "killed"}
    BY <1>16 DEF Drain, TakePieces
  <2>5. helper' \in {"none", "in", "out", "ended", "gone"} /\ holds' \subseteq Programs
    BY <1>16 DEF Drain, TakePieces
  <2>6. pipe' \in Seq(Pieces)
    BY <1>16, TakenPieces DEF Drain
  <2>7. wrote' \in Nat
    BY <1>16 DEF Drain, TakePieces
  <2>8. page' \in [size : Nat, whole : BOOLEAN]
    BY <1>16 DEF Drain, TakePieces
  <2>9. parent' \in {"start"} \cup Looking \cup Over
    BY <1>16 DEF Drain, TakePieces
  <2>10. kept' \in Seq(Pieces) /\ total' \in Nat
    BY <1>16, TakenPieces DEF Drain
  <2>11. timedOut' \in BOOLEAN
    BY <1>16 DEF Drain, TakePieces
  <2>12. cancelled' \in BOOLEAN
    BY <1>16 DEF Drain, TakePieces
  <2>13. cancelFlag' \in [set : BOOLEAN, at : Nat]
    BY <1>16 DEF Drain, TakePieces
  <2>14. clock' \in Nat
    BY <1>16 DEF Drain, TakePieces
  <2>15. due' \in BOOLEAN
    BY <1>16 DEF Drain, TakePieces
  <2> QED BY <2>1, <2>2, <2>3, <2>4, <2>5, <2>6, <2>7, <2>8, <2>9, <2>10, <2>11, <2>12, <2>13, <2>14, <2>15
<1>16a. CASE DrainSlice
  <2>1. kept' \in Seq(Pieces)
    <3>1. kept \in Seq(Pieces) /\ "data" \in Pieces
      OBVIOUS
    <3>2. kept' = kept \/ kept' = Append(kept, "data")
      BY <1>16a DEF DrainSlice
    <3> HIDE DEF Pieces
    <3> QED BY ONLY <3>1, <3>2
  <2> QED BY <1>16a, <2>1 DEF DrainSlice
<1>17. CASE Reap
  BY <1>17 DEF Reap
<1>18. CASE ShellAnswers
  <2>1. tool' \in {"shell", "search", "page"} /\ stage' \in Nat
    BY <1>18 DEF ShellAnswers
  <2>2. root' \in {"none", "forked", "running", "ended"}
    BY <1>18 DEF ShellAnswers
  <2>3. grouped' \in BOOLEAN
    BY <1>18 DEF ShellAnswers
  <2>4. code' \in {0, 1, "killed"}
    BY <1>18 DEF ShellAnswers
  <2>5. helper' \in {"none", "in", "out", "ended", "gone"} /\ holds' \subseteq Programs
    BY <1>18 DEF ShellAnswers
  <2>6. pipe' \in Seq(Pieces)
    BY <1>18 DEF ShellAnswers
  <2>7. wrote' \in Nat
    BY <1>18 DEF ShellAnswers
  <2>8. page' \in [size : Nat, whole : BOOLEAN]
    BY <1>18 DEF ShellAnswers
  <2>9. parent' \in {"start"} \cup Looking \cup Over
    BY <1>18 DEF ShellAnswers
  <2>10. kept' \in Seq(Pieces) /\ total' \in Nat
    BY <1>18 DEF ShellAnswers
  <2>11. timedOut' \in BOOLEAN
    BY <1>18 DEF ShellAnswers
  <2>12. cancelled' \in BOOLEAN
    BY <1>18 DEF ShellAnswers
  <2>13. cancelFlag' \in [set : BOOLEAN, at : Nat]
    BY <1>18 DEF ShellAnswers
  <2>14. clock' \in Nat
    BY <1>18 DEF ShellAnswers
  <2>15. due' \in BOOLEAN
    BY <1>18 DEF ShellAnswers
  <2> QED BY <2>1, <2>2, <2>3, <2>4, <2>5, <2>6, <2>7, <2>8, <2>9, <2>10, <2>11, <2>12, <2>13, <2>14, <2>15
<1>19. CASE PageAnswers
  <2>1. tool' \in {"shell", "search", "page"} /\ stage' \in Nat
    BY <1>19 DEF PageAnswers, FetchError, Status
  <2>2. root' \in {"none", "forked", "running", "ended"}
    BY <1>19 DEF PageAnswers, FetchError, Status
  <2>3. grouped' \in BOOLEAN
    BY <1>19 DEF PageAnswers, FetchError, Status
  <2>4. code' \in {0, 1, "killed"}
    BY <1>19 DEF PageAnswers, FetchError, Status
  <2>5. helper' \in {"none", "in", "out", "ended", "gone"} /\ holds' \subseteq Programs
    BY <1>19 DEF PageAnswers, FetchError, Status
  <2>6. pipe' \in Seq(Pieces)
    BY <1>19 DEF PageAnswers, FetchError, Status
  <2>7. wrote' \in Nat
    BY <1>19 DEF PageAnswers, FetchError, Status
  <2>8. page' \in [size : Nat, whole : BOOLEAN]
    BY <1>19 DEF PageAnswers, FetchError, Status
  <2>9. parent' \in {"start"} \cup Looking \cup Over
    BY <1>19 DEF PageAnswers, FetchError, Status
  <2>10. kept' \in Seq(Pieces) /\ total' \in Nat
    BY <1>19 DEF PageAnswers, FetchError, Status
  <2>11. timedOut' \in BOOLEAN
    BY <1>19 DEF PageAnswers, FetchError, Status
  <2>12. cancelled' \in BOOLEAN
    BY <1>19 DEF PageAnswers, FetchError, Status
  <2>13. cancelFlag' \in [set : BOOLEAN, at : Nat]
    BY <1>19 DEF PageAnswers, FetchError, Status
  <2>14. clock' \in Nat
    BY <1>19 DEF PageAnswers, FetchError, Status
  <2>15. due' \in BOOLEAN
    BY <1>19 DEF PageAnswers, FetchError, Status
  <2> QED BY <2>1, <2>2, <2>3, <2>4, <2>5, <2>6, <2>7, <2>8, <2>9, <2>10, <2>11, <2>12, <2>13, <2>14, <2>15
<1>20. CASE EngineAnswers
  <2>1. tool' \in {"shell", "search", "page"} /\ stage' \in Nat
    <3>1. tool' = tool /\ (stage' = stage \/ stage' = stage + 1)
      BY <1>20 DEF EngineAnswers
    <3> QED BY <3>1
  <2>2. root' \in {"none", "forked", "running", "ended"}
    BY <1>20 DEF EngineAnswers, FetchError, Status
  <2>3. grouped' \in BOOLEAN
    BY <1>20 DEF EngineAnswers, FetchError, Status
  <2>4. code' \in {0, 1, "killed"}
    BY <1>20 DEF EngineAnswers, FetchError, Status
  <2>5. helper' \in {"none", "in", "out", "ended", "gone"} /\ holds' \subseteq Programs
    BY <1>20 DEF EngineAnswers, FetchError, Status
  <2>6. pipe' \in Seq(Pieces)
    <3>1. pipe' = <<>> \/ pipe' = pipe
      BY <1>20 DEF EngineAnswers
    <3>2. <<>> \in Seq(Pieces) /\ pipe \in Seq(Pieces)
      OBVIOUS
    <3> QED BY ONLY <3>1, <3>2
  <2>7. wrote' \in Nat
    <3>1. wrote' = 0 \/ wrote' = wrote
      BY <1>20 DEF EngineAnswers
    <3> QED BY <3>1
  <2>8. page' \in [size : Nat, whole : BOOLEAN]
    <3>1. page' = [size |-> 0, whole |-> FALSE] \/ page' = page
      BY <1>20 DEF EngineAnswers
    <3>2. [size |-> 0, whole |-> FALSE] \in [size : Nat, whole : BOOLEAN]
      OBVIOUS
    <3>3. page \in [size : Nat, whole : BOOLEAN]
      OBVIOUS
    <3> QED BY ONLY <3>1, <3>2, <3>3
  <2>9. parent' \in {"start"} \cup Looking \cup Over
    BY <1>20 DEF EngineAnswers, FetchError, Status
  <2>10. kept' \in Seq(Pieces) /\ total' \in Nat
    <3>1. (kept' = <<>> /\ total' = 0) \/ (kept' = kept /\ total' = total)
      BY <1>20 DEF EngineAnswers
    <3>2. <<>> \in Seq(Pieces) /\ kept \in Seq(Pieces) /\ total \in Nat /\ 0 \in Nat
      OBVIOUS
    <3> QED BY ONLY <3>1, <3>2
  <2>11. timedOut' \in BOOLEAN
    BY <1>20 DEF EngineAnswers, FetchError, Status
  <2>12. cancelled' \in BOOLEAN
    BY <1>20 DEF EngineAnswers, FetchError, Status
  <2>13. cancelFlag' \in [set : BOOLEAN, at : Nat]
    BY <1>20 DEF EngineAnswers, FetchError, Status
  <2>14. clock' \in Nat
    BY <1>20 DEF EngineAnswers, FetchError, Status
  <2>15. due' \in BOOLEAN
    BY <1>20 DEF EngineAnswers, FetchError, Status
  <2> QED BY <2>1, <2>2, <2>3, <2>4, <2>5, <2>6, <2>7, <2>8, <2>9, <2>10, <2>11, <2>12, <2>13, <2>14, <2>15
<1>21. CASE Tick
  BY <1>21 DEF Tick, Blocked, Slice
<1>22. CASE UNCHANGED procVars
  BY <1>22 DEF procVars, Status
<1> QED
  BY <1>1, <1>2, <1>3, <1>4, <1>5, <1>6, <1>7, <1>8, <1>9, <1>10, <1>11, <1>12, <1>13, <1>14, <1>15, <1>16, <1>16a, <1>17, <1>18, <1>19, <1>20, <1>21, <1>22 DEF ProcNext

LEMMA GroupsStep == ProcInv /\ [ProcNext]_procVars => Groups'
<1> SUFFICES ASSUME ProcInv, [ProcNext]_procVars PROVE Groups'
  OBVIOUS
<1> USE ToolProcessesAssumption DEF ProcInv, ProcTypes, Groups, Groups, Slices, Stopping, Killed, Whole, Verdicts, childVars, parentVars, Still, Shell, Programs, Looking, Over
<1>1. CASE ChildStarts
  BY <1>1 DEF ChildStarts
<1>2. CASE StartHelper
  BY <1>2 DEF StartHelper
<1>3. CASE HelperLeaves
  BY <1>3 DEF HelperLeaves
<1>4. CASE HelperEnds
  BY <1>4 DEF HelperEnds, Alive
<1>5. CASE CommandEnds
  BY <1>5 DEF CommandEnds
<1>6. ASSUME NEW p \in Programs, WritePiece(p) PROVE Groups'
  BY <1>6 DEF WritePiece, Alive
<1>7. ASSUME NEW p \in Programs, ClosesOutput(p) PROVE Groups'
  BY <1>7 DEF ClosesOutput, Alive
<1>8. CASE Receives
  BY <1>8 DEF Receives
<1>9. CASE CurlEnds
  BY <1>9 DEF CurlEnds
<1>10. CASE UserStops
  BY <1>10 DEF UserStops
<1>11. CASE Fork
  BY <1>11 DEF Fork
<1>12. CASE Check
  BY <1>12 DEF Check, Kill
<1>13. CASE ReadPiece
  BY <1>13 DEF ReadPiece, TakePieces
<1>14. CASE EndOfOutput
  BY <1>14 DEF EndOfOutput
<1>15. CASE PollEnds
  BY <1>15 DEF PollEnds, Slice
<1>16. CASE Drain
  BY <1>16 DEF Drain, TakePieces
<1>16a. CASE DrainSlice
  BY <1>16a DEF DrainSlice
<1>17. CASE Reap
  BY <1>17 DEF Reap
<1>18. CASE ShellAnswers
  BY <1>18 DEF ShellAnswers
<1>19. CASE PageAnswers
  BY <1>19 DEF PageAnswers, FetchError, Status
<1>20. CASE EngineAnswers
  BY <1>20 DEF EngineAnswers, FetchError, Status
<1>21. CASE Tick
  BY <1>21 DEF Tick, Blocked, Slice
<1>22. CASE UNCHANGED procVars
  BY <1>22 DEF procVars, Status
<1> QED
  BY <1>1, <1>2, <1>3, <1>4, <1>5, <1>6, <1>7, <1>8, <1>9, <1>10, <1>11, <1>12, <1>13, <1>14, <1>15, <1>16, <1>16a, <1>17, <1>18, <1>19, <1>20, <1>21, <1>22 DEF ProcNext

LEMMA SlicesStep == ProcInv /\ [ProcNext]_procVars => Slices'
<1> SUFFICES ASSUME ProcInv, [ProcNext]_procVars PROVE Slices'
  OBVIOUS
<1> USE ToolProcessesAssumption DEF ProcInv, ProcTypes, LeftGroup, Groups, Slices, Stopping, Killed, Whole, Verdicts, childVars, parentVars, Still, Shell, Programs, Looking, Over
<1>1. CASE ChildStarts
  BY <1>1 DEF ChildStarts
<1>2. CASE StartHelper
  BY <1>2 DEF StartHelper
<1>3. CASE HelperLeaves
  BY <1>3 DEF HelperLeaves
<1>4. CASE HelperEnds
  BY <1>4 DEF HelperEnds, Alive
<1>5. CASE CommandEnds
  BY <1>5 DEF CommandEnds
<1>6. ASSUME NEW p \in Programs, WritePiece(p) PROVE Slices'
  BY <1>6 DEF WritePiece, Alive
<1>7. ASSUME NEW p \in Programs, ClosesOutput(p) PROVE Slices'
  BY <1>7 DEF ClosesOutput, Alive
<1>8. CASE Receives
  BY <1>8 DEF Receives
<1>9. CASE CurlEnds
  BY <1>9 DEF CurlEnds
<1>10. CASE UserStops
  BY <1>10 DEF UserStops
<1>11. CASE Fork
  BY <1>11 DEF Fork
<1>12. CASE Check
  BY <1>12 DEF Check, Kill
<1>13. CASE ReadPiece
  BY <1>13 DEF ReadPiece, TakePieces
<1>14. CASE EndOfOutput
  BY <1>14 DEF EndOfOutput
<1>15. CASE PollEnds
  BY <1>15 DEF PollEnds, Slice
<1>16. CASE Drain
  BY <1>16 DEF Drain, TakePieces
<1>16a. CASE DrainSlice
  BY <1>16a DEF DrainSlice, Alive
<1>17. CASE Reap
  BY <1>17 DEF Reap
<1>18. CASE ShellAnswers
  BY <1>18 DEF ShellAnswers
<1>19. CASE PageAnswers
  BY <1>19 DEF PageAnswers, FetchError, Status
<1>20. CASE EngineAnswers
  BY <1>20 DEF EngineAnswers, FetchError, Status
<1>21. CASE Tick
  BY <1>21 DEF Tick, Blocked, Slice
<1>22. CASE UNCHANGED procVars
  BY <1>22 DEF procVars, Status
<1> QED
  BY <1>1, <1>2, <1>3, <1>4, <1>5, <1>6, <1>7, <1>8, <1>9, <1>10, <1>11, <1>12, <1>13, <1>14, <1>15, <1>16, <1>16a, <1>17, <1>18, <1>19, <1>20, <1>21, <1>22 DEF ProcNext

LEMMA StoppingStep == ProcInv /\ [ProcNext]_procVars => Stopping'
<1> SUFFICES ASSUME ProcInv, [ProcNext]_procVars PROVE Stopping'
  OBVIOUS
<1> USE ToolProcessesAssumption DEF ProcInv, ProcTypes, LeftGroup, Groups, Slices, Stopping, Killed, Whole, Verdicts, childVars, parentVars, Still, Shell, Programs, Looking, Over
<1>1. CASE ChildStarts
  BY <1>1 DEF ChildStarts
<1>2. CASE StartHelper
  BY <1>2 DEF StartHelper
<1>3. CASE HelperLeaves
  BY <1>3 DEF HelperLeaves
<1>4. CASE HelperEnds
  BY <1>4 DEF HelperEnds, Alive
<1>5. CASE CommandEnds
  BY <1>5 DEF CommandEnds
<1>6. ASSUME NEW p \in Programs, WritePiece(p) PROVE Stopping'
  BY <1>6 DEF WritePiece, Alive
<1>7. ASSUME NEW p \in Programs, ClosesOutput(p) PROVE Stopping'
  BY <1>7 DEF ClosesOutput, Alive
<1>8. CASE Receives
  BY <1>8 DEF Receives
<1>9. CASE CurlEnds
  BY <1>9 DEF CurlEnds
<1>10. CASE UserStops
  BY <1>10 DEF UserStops
<1>11. CASE Fork
  BY <1>11 DEF Fork
<1>12. CASE Check
  BY <1>12 DEF Check, Kill
<1>13. CASE ReadPiece
  BY <1>13 DEF ReadPiece, TakePieces
<1>14. CASE EndOfOutput
  BY <1>14 DEF EndOfOutput
<1>15. CASE PollEnds
  BY <1>15 DEF PollEnds, Slice
<1>16. CASE Drain
  BY <1>16 DEF Drain, TakePieces
<1>16a. CASE DrainSlice
  BY <1>16a DEF DrainSlice, Alive
<1>17. CASE Reap
  BY <1>17 DEF Reap
<1>18. CASE ShellAnswers
  BY <1>18 DEF ShellAnswers
<1>19. CASE PageAnswers
  BY <1>19 DEF PageAnswers, FetchError, Status
<1>20. CASE EngineAnswers
  BY <1>20 DEF EngineAnswers, FetchError, Status
<1>21. CASE Tick
  BY <1>21 DEF Tick, Blocked, Slice
<1>22. CASE UNCHANGED procVars
  BY <1>22 DEF procVars, Status
<1> QED
  BY <1>1, <1>2, <1>3, <1>4, <1>5, <1>6, <1>7, <1>8, <1>9, <1>10, <1>11, <1>12, <1>13, <1>14, <1>15, <1>16, <1>16a, <1>17, <1>18, <1>19, <1>20, <1>21, <1>22 DEF ProcNext

LEMMA KilledStep == ProcInv /\ [ProcNext]_procVars => Killed'
<1> SUFFICES ASSUME ProcInv, [ProcNext]_procVars PROVE Killed'
  OBVIOUS
<1> USE ToolProcessesAssumption DEF ProcInv, ProcTypes, Killed, Groups, Slices, Stopping, Killed, Whole, Verdicts, childVars, parentVars, Still, Shell, Programs, Looking, Over
<1>1. CASE ChildStarts
  BY <1>1 DEF ChildStarts
<1>2. CASE StartHelper
  BY <1>2 DEF StartHelper
<1>3. CASE HelperLeaves
  BY <1>3 DEF HelperLeaves
<1>4. CASE HelperEnds
  BY <1>4 DEF HelperEnds, Alive
<1>5. CASE CommandEnds
  BY <1>5 DEF CommandEnds
<1>6. ASSUME NEW p \in Programs, WritePiece(p) PROVE Killed'
  BY <1>6 DEF WritePiece, Alive
<1>7. ASSUME NEW p \in Programs, ClosesOutput(p) PROVE Killed'
  BY <1>7 DEF ClosesOutput, Alive
<1>8. CASE Receives
  BY <1>8 DEF Receives
<1>9. CASE CurlEnds
  BY <1>9 DEF CurlEnds
<1>10. CASE UserStops
  BY <1>10 DEF UserStops
<1>11. CASE Fork
  BY <1>11 DEF Fork
<1>12. CASE Check
  <2>1. CASE cancelled' \/ timedOut'
    <3>1. Kill /\ parent' = (IF Shell THEN "drain" ELSE "wait") /\ tool' = tool
      BY <1>12, <2>1 DEF Check
    <3>2. grouped
      <4>1. CASE Shell
        BY <1>12, <4>1 DEF Check
      <4>2. CASE ~Shell /\ ~grouped
        <5>1. clock = 0 /\ Limit > 0
          BY <1>12, <4>2 DEF Check
        <5> QED BY <1>12, <2>1, <4>2, <5>1 DEF Check
      <4> QED BY <4>1, <4>2
    <3>3. root' = "ended" /\ helper' # "in" /\ holds' \subseteq {"helper"}
      BY <3>1, <3>2 DEF Kill
    <3>4. cancelled' => Shell
      BY <1>12 DEF Check
    <3> QED BY <2>1, <3>1, <3>3, <3>4
  <2>2. CASE ~(cancelled' \/ timedOut')
    <3>1. parent' = "poll"
      BY <1>12, <2>2 DEF Check
    <3> QED BY <2>2, <3>1
  <2> QED BY <2>1, <2>2
<1>13. CASE ReadPiece
  BY <1>13 DEF ReadPiece, TakePieces
<1>14. CASE EndOfOutput
  BY <1>14 DEF EndOfOutput
<1>15. CASE PollEnds
  BY <1>15 DEF PollEnds, Slice
<1>16. CASE Drain
  BY <1>16 DEF Drain, TakePieces
<1>16a. CASE DrainSlice
  BY <1>16a DEF DrainSlice
<1>17. CASE Reap
  BY <1>17 DEF Reap
<1>18. CASE ShellAnswers
  BY <1>18 DEF ShellAnswers
<1>19. CASE PageAnswers
  BY <1>19 DEF PageAnswers, FetchError, Status
<1>20. CASE EngineAnswers
  BY <1>20 DEF EngineAnswers, FetchError, Status
<1>21. CASE Tick
  BY <1>21 DEF Tick, Blocked, Slice
<1>22. CASE UNCHANGED procVars
  BY <1>22 DEF procVars, Status
<1> QED
  BY <1>1, <1>2, <1>3, <1>4, <1>5, <1>6, <1>7, <1>8, <1>9, <1>10, <1>11, <1>12, <1>13, <1>14, <1>15, <1>16, <1>16a, <1>17, <1>18, <1>19, <1>20, <1>21, <1>22 DEF ProcNext

LEMMA WholeStep == ProcInv /\ [ProcNext]_procVars => Whole'
<1> SUFFICES ASSUME ProcInv, [ProcNext]_procVars PROVE Whole'
  OBVIOUS
<1> USE ToolProcessesAssumption DEF ProcInv, ProcTypes, Whole, Groups, Slices, Stopping, Killed, Whole, Verdicts, childVars, parentVars, Still, Shell, Programs, Looking, Over
<1>1. CASE ChildStarts
  BY <1>1 DEF ChildStarts
<1>2. CASE StartHelper
  BY <1>2 DEF StartHelper
<1>3. CASE HelperLeaves
  BY <1>3 DEF HelperLeaves
<1>4. CASE HelperEnds
  BY <1>4 DEF HelperEnds, Alive
<1>5. CASE CommandEnds
  BY <1>5 DEF CommandEnds
<1>6. ASSUME NEW p \in Programs, WritePiece(p) PROVE Whole'
  <2>1. pipe' = Append(pipe, "data") /\ pipe \in Seq(Pieces) /\ wrote' = wrote + 1
    BY <1>6 DEF WritePiece
  <2>2. Len(pipe') = Len(pipe) + 1
    BY <2>1
  <2>3. Shell => total' + Len(pipe') = wrote'
    BY <1>6, <2>1, <2>2 DEF WritePiece
  <2>4. parent \notin {"wait", "reaped"}
    BY <1>6 DEF WritePiece
  <2>5. UNCHANGED <<parent, total, kept, root, holds, tool, page, timedOut, cancelled, code>>
    BY <1>6 DEF WritePiece
  <2> QED BY <2>3, <2>4, <2>5
<1>7. ASSUME NEW p \in Programs, ClosesOutput(p) PROVE Whole'
  BY <1>7 DEF ClosesOutput, Alive
<1>8. CASE Receives
  BY <1>8 DEF Receives
<1>9. CASE CurlEnds
  BY <1>9 DEF CurlEnds
<1>10. CASE UserStops
  BY <1>10 DEF UserStops
<1>11. CASE Fork
  BY <1>11 DEF Fork
<1>12. CASE Check
  BY <1>12 DEF Check, Kill
<1>13. CASE ReadPiece
  BY <1>13, TakenPieces DEF ReadPiece
<1>14. CASE EndOfOutput
  BY <1>14 DEF EndOfOutput
<1>15. CASE PollEnds
  BY <1>15 DEF PollEnds, Slice
<1>16. CASE Drain
  BY <1>16, TakenPieces DEF Drain
<1>16a. CASE DrainSlice
  <2>1. UNCHANGED <<root, holds, tool, parent, page, timedOut, cancelled, code, pipe>>
    BY <1>16a DEF DrainSlice
  <2>2. wrote' = wrote + 1 /\ total' = total + 1 /\ parent = "drain"
    BY <1>16a DEF DrainSlice
  <2>3. Shell => Len(kept') = IF total' > KeepMax THEN KeepMax ELSE total'
    <3>1. Len(Append(kept, "data")) = Len(kept) + 1 /\ Len(kept) \in Nat
      OBVIOUS
    <3>2. kept' = IF Len(kept) < KeepMax THEN Append(kept, "data") ELSE kept
      BY <1>16a DEF DrainSlice
    <3> QED BY <2>2, <3>1, <3>2
  <2>4. Shell => total' + Len(pipe') = wrote'
    <3>1. Shell => total + Len(pipe) = wrote
      OBVIOUS
    <3>2. total \in Nat /\ wrote \in Nat /\ Len(pipe) \in Nat /\ pipe' = pipe
      BY <2>1
    <3>3. total' = total + 1 /\ wrote' = wrote + 1 /\ (Shell <=> Shell')
      BY <2>1, <2>2
    <3> QED BY ONLY <3>1, <3>2, <3>3
  <2> QED BY <2>1, <2>2, <2>3, <2>4
<1>17. CASE Reap
  BY <1>17 DEF Reap
<1>18. CASE ShellAnswers
  BY <1>18 DEF ShellAnswers
<1>19. CASE PageAnswers
  BY <1>19 DEF PageAnswers, FetchError, Status
<1>20. CASE EngineAnswers
  BY <1>20 DEF EngineAnswers, FetchError, Status
<1>21. CASE Tick
  BY <1>21 DEF Tick, Blocked, Slice
<1>22. CASE UNCHANGED procVars
  BY <1>22 DEF procVars, Status
<1> QED
  BY <1>1, <1>2, <1>3, <1>4, <1>5, <1>6, <1>7, <1>8, <1>9, <1>10, <1>11, <1>12, <1>13, <1>14, <1>15, <1>16, <1>16a, <1>17, <1>18, <1>19, <1>20, <1>21, <1>22 DEF ProcNext

LEMMA VerdictsStep == ProcInv /\ [ProcNext]_procVars => Verdicts'
<1> SUFFICES ASSUME ProcInv, [ProcNext]_procVars PROVE Verdicts'
  OBVIOUS
<1> USE ToolProcessesAssumption DEF ProcInv, ProcTypes, Verdicts, Groups, Slices, Stopping, Killed, Whole, Verdicts, childVars, parentVars, Still, Shell, Programs, Looking, Over
<1>1. CASE ChildStarts
  BY <1>1 DEF ChildStarts
<1>2. CASE StartHelper
  BY <1>2 DEF StartHelper
<1>3. CASE HelperLeaves
  BY <1>3 DEF HelperLeaves
<1>4. CASE HelperEnds
  BY <1>4 DEF HelperEnds, Alive
<1>5. CASE CommandEnds
  BY <1>5 DEF CommandEnds
<1>6. ASSUME NEW p \in Programs, WritePiece(p) PROVE Verdicts'
  BY <1>6 DEF WritePiece, Alive
<1>7. ASSUME NEW p \in Programs, ClosesOutput(p) PROVE Verdicts'
  BY <1>7 DEF ClosesOutput, Alive
<1>8. CASE Receives
  BY <1>8 DEF Receives
<1>9. CASE CurlEnds
  BY <1>9 DEF CurlEnds
<1>10. CASE UserStops
  BY <1>10 DEF UserStops
<1>11. CASE Fork
  BY <1>11 DEF Fork
<1>12. CASE Check
  BY <1>12 DEF Check, Kill
<1>13. CASE ReadPiece
  BY <1>13 DEF ReadPiece, TakePieces
<1>14. CASE EndOfOutput
  BY <1>14 DEF EndOfOutput
<1>15. CASE PollEnds
  BY <1>15 DEF PollEnds, Slice
<1>16. CASE Drain
  BY <1>16 DEF Drain, TakePieces
<1>16a. CASE DrainSlice
  BY <1>16a DEF DrainSlice
<1>17. CASE Reap
  BY <1>17 DEF Reap
<1>18. CASE ShellAnswers
  BY <1>18 DEF ShellAnswers
<1>19. CASE PageAnswers
  BY <1>19 DEF PageAnswers, FetchError, Status
<1>20. CASE EngineAnswers
  BY <1>20 DEF EngineAnswers, FetchError, Status
<1>21. CASE Tick
  BY <1>21 DEF Tick, Blocked, Slice
<1>22. CASE UNCHANGED procVars
  BY <1>22 DEF procVars, Status
<1> QED
  BY <1>1, <1>2, <1>3, <1>4, <1>5, <1>6, <1>7, <1>8, <1>9, <1>10, <1>11, <1>12, <1>13, <1>14, <1>15, <1>16, <1>16a, <1>17, <1>18, <1>19, <1>20, <1>21, <1>22 DEF ProcNext

LEMMA ProcStart == ProcInit => ProcInv
<1> SUFFICES ASSUME ProcInit PROVE ProcInv
  OBVIOUS
<1> USE ToolProcessesAssumption DEF ProcInit, Shell, Programs, Pieces, Looking, Over
<1>1. ProcTypes
  <2>1. page \in [size : Nat, whole : BOOLEAN] /\ cancelFlag \in [set : BOOLEAN, at : Nat]
    OBVIOUS
  <2>2. pipe \in Seq(Pieces) /\ kept \in Seq(Pieces)
    OBVIOUS
  <2> QED BY <2>1, <2>2 DEF ProcTypes
<1>2. Groups /\ Slices /\ Stopping /\ Killed
  BY DEF Groups, Slices, Stopping, Killed
<1>3. Whole
  <2>1. Len(<<>>) = 0
    OBVIOUS
  <2> QED BY <2>1 DEF Whole
<1>4. Verdicts
  BY DEF Verdicts
<1> QED BY <1>1, <1>2, <1>3, <1>4 DEF ProcInv

LEMMA ProcSafe == ProcInv => ProcessesSound
<1> SUFFICES ASSUME ProcInv PROVE ProcessesSound
  OBVIOUS
<1> USE ToolProcessesAssumption DEF ProcInv, ProcTypes, Shell, Looking
<1>1. AnswersInTime
  BY DEF AnswersInTime, LeftGroup, Slices, Killed, Whole
<1>2. StopsAtOnce
  BY DEF StopsAtOnce, Stopping
<1>3. NothingLeftRunning
  BY DEF NothingLeftRunning, Killed
<1>4. SuccessIsWhole
  <2> SUFFICES ASSUME Shell, verdict = "ok"
               PROVE  /\ code = 0 /\ ~timedOut /\ ~cancelled
                      /\ total = wrote /\ pipe = <<>>
                      /\ Len(kept) = IF Truncated THEN KeepMax ELSE wrote
    BY DEF SuccessIsWhole
  <2>1. code = 0 /\ ~timedOut /\ ~cancelled /\ pipe = <<>>
    BY DEF Verdicts
  <2>2. Len(<<>>) = 0
    OBVIOUS
  <2>3. total = wrote
    BY <2>1, <2>2 DEF Whole
  <2>4. Len(kept) = IF total > KeepMax THEN KeepMax ELSE total
    BY DEF Whole
  <2> QED BY <2>1, <2>3, <2>4 DEF Truncated
<1>5. PagesAreWhole
  <2> SUFFICES ASSUME ~Shell, verdict = "ok"
               PROVE  /\ ~timedOut /\ Status = "200"
                      /\ code = 0 => page.whole /\ (BodyTruncated \/ BodyLength = page.size)
    BY DEF PagesAreWhole
  <2>1. ~timedOut /\ Status = "200" /\ root = "ended"
    BY DEF Verdicts
  <2>2. code = 0 => page.whole
    BY <2>1 DEF Whole
  <2>3. BodyTruncated \/ BodyLength = page.size
    BY DEF BodyTruncated, BodyLength
  <2> QED BY <2>1, <2>2, <2>3
<1> QED BY <1>1, <1>2, <1>3, <1>4, <1>5 DEF ProcessesSound

\* run_shell() and fetch_via_binary(): however a command, its helper and the user's
\* cancel interleave with the loop that reads the output, no slice passes between the end
\* of the time or a cancel and the kill; reading goes on after it only while a helper that
\* left the group writes, waitpid() waits for nothing that was killed, nothing of the group
\* is left after it, and a success is reported of a command that succeeded, with all it
\* wrote up to the cap.
THEOREM ToolsAnswer == ProcSpec => []ProcessesSound
<1>1. ProcInv /\ [ProcNext]_procVars => ProcInv'
  BY ProcTypesStep, GroupsStep, SlicesStep, StoppingStep, KilledStep, WholeStep, VerdictsStep
     DEF ProcInv
<1> QED BY ProcStart, <1>1, ProcSafe, PTL DEF ProcSpec

-----------------------------------------------------------------------------
(* The pictures of the dashboard.                                              *)

CacheTypes ==
    /\ lru \in Seq(Shown)
    /\ pictures \in [DOMAIN pictures -> 1..(MaxEntries + 1)]
    /\ shaped \subseteq Shown /\ IsFiniteSet(shaped)

\* The list names every string that has a picture, once, and the textures are the
\* pictures' own.
Listed ==
    /\ ToSet(lru) = DOMAIN pictures
    /\ \A i, j \in DOMAIN lru : lru[i] = lru[j] => i = j
    /\ Len(lru) <= MaxEntries
    /\ textures = {pictures[s] : s \in DOMAIN pictures}
    /\ \A s, t \in DOMAIN pictures : pictures[s] = pictures[t] => s = t

\* What this frame has asked for stands behind all the rest of the list, so that the
\* front of it, which goes first, is not of this frame.
AskedLast ==
    Cardinality(shaped) <= MaxEntries =>
        /\ shaped \subseteq DOMAIN pictures
        /\ \A i, j \in DOMAIN lru : (i < j /\ lru[i] \in shaped) => lru[j] \in shaped
        /\ \A d \in drawList : d[1] \in shaped /\ pictures[d[1]] = d[2]

CacheInv == CacheTypes /\ Listed /\ AskedLast

\* Each picture is listed once and has a texture of its own.
LEMMA ListSizes ==
    ASSUME CacheTypes, Listed
    PROVE  /\ IsFiniteSet(DOMAIN pictures) /\ Cardinality(DOMAIN pictures) = Len(lru)
           /\ IsFiniteSet(textures) /\ Cardinality(textures) = Len(lru)
<1> DEFINE strings == DOMAIN pictures
<1>1. Len(lru) \in Nat /\ DOMAIN lru = 1..Len(lru)
  BY DEF CacheTypes
<1>2. lru \in Bijection(1..Len(lru), strings)
  BY <1>1 DEF CacheTypes, Listed, ToSet, Bijection, Injection, Surjection, IsInjective
<1>3. ExistsBijection(1..Len(lru), strings)
  BY <1>2 DEF ExistsBijection
<1>4. pictures \in Bijection(strings, textures)
  BY DEF CacheTypes, Listed, Bijection, Injection, Surjection, IsInjective
<1>5. ExistsBijection(strings, textures)
  BY <1>4 DEF ExistsBijection
<1> HIDE DEF strings
<1>6. Cardinality(strings) = Len(lru)
  BY <1>1, <1>3, FS_CountingElements
<1>7. IsFiniteSet(strings)
  BY <1>1, <1>3, FS_NatBijection
<1>8. IsFiniteSet(textures) /\ Cardinality(textures) = Cardinality(strings)
  BY <1>5, <1>7, FS_Bijection
<1> QED BY <1>6, <1>7, <1>8 DEF strings

\* One name more than there are pictures: glGenTextures always finds a free one.
LEMMA NameIsFree ==
    ASSUME IsFiniteSet(textures), Cardinality(textures) <= MaxEntries
    PROVE  FreeName \in 1..(MaxEntries + 1) /\ FreeName \notin textures
<1>1. MaxEntries \in Nat /\ MaxEntries + 1 \in Nat /\ Cardinality(textures) \in Nat
  BY ShapedTextAssumption, FS_CardinalityType
<1> DEFINE names == 1..(MaxEntries + 1)
           free == {n \in Nat : n \in names /\ n \notin textures}
<1>2. free # {}
  <2>1. SUFFICES ASSUME names \subseteq textures PROVE FALSE
    BY <1>1
  <2>2. Cardinality(names) = MaxEntries + 1
    BY <1>1, FS_Interval
  <2>3. Cardinality(names) <= Cardinality(textures)
    BY <2>1, FS_Subset
  <2> QED BY <1>1, <2>2, <2>3
<1>3. PICK t \in free : \A k \in free : ~(<<k, t>> \in OpToRel(<, Nat))
  BY <1>2, NatLessThanWellFounded, WFMin
<1>4. \A k \in free : ~(k < t)
  BY <1>3 DEF OpToRel
<1>5. \A u \in 1..(t - 1) : u \in textures
  BY <1>1, <1>4
<1> QED BY <1>1, <1>5 DEF FreeName

\* What is found goes to the end, what stood behind it moves up by one.
LEMMA MovedUpIs ==
    ASSUME CacheTypes, Listed, NEW s \in DOMAIN pictures
    PROVE  /\ MovedUp(s) \in Seq(Shown) /\ Len(MovedUp(s)) = Len(lru)
           /\ \E i \in DOMAIN lru :
                /\ lru[i] = s
                /\ \A k \in 1..Len(lru) :
                     MovedUp(s)[k] = IF k < i THEN lru[k]
                                     ELSE IF k < Len(lru) THEN lru[k + 1] ELSE s
<1>1. lru \in Seq(Shown) /\ Len(lru) \in Nat /\ DOMAIN lru = 1..Len(lru)
  BY DEF CacheTypes
<1> DEFINE i == CHOOSE j \in DOMAIN lru : lru[j] = s
           rest == RemoveAt(lru, i)
<1>2. \E j \in DOMAIN lru : lru[j] = s
  BY DEF Listed, ToSet
<1>3. i \in 1..Len(lru) /\ lru[i] = s
  BY <1>1, <1>2
<1>4. MovedUp(s) = Append(rest, s)
  BY DEF MovedUp
<1>5. rest = SubSeq(lru, 1, i - 1) \o SubSeq(lru, i + 1, Len(lru))
  BY DEF RemoveAt
<1> HIDE DEF i, rest
<1> DEFINE front == SubSeq(lru, 1, i - 1)
           back == SubSeq(lru, i + 1, Len(lru))
<1>6. /\ front \in Seq(Shown) /\ Len(front) = i - 1
      /\ \A k \in 1..(i - 1) : front[k] = lru[k]
  BY <1>1, <1>3
<1>7. /\ back \in Seq(Shown) /\ Len(back) = Len(lru) - i
      /\ \A k \in 1..(Len(lru) - i) : back[k] = lru[i + k]
  <2>1. \A k \in (i + 1)..Len(lru) : lru[k] \in Shown
    BY <1>1, <1>3
  <2>2. i + 1 \in Int /\ Len(lru) \in Int
    BY <1>1, <1>3
  <2>3. /\ back \in Seq(Shown)
        /\ Len(back) = IF i + 1 <= Len(lru) THEN Len(lru) - (i + 1) + 1 ELSE 0
        /\ \A k \in 1..(Len(lru) - (i + 1) + 1) : back[k] = lru[i + 1 + k - 1]
    BY <2>1, <2>2, SubSeqProperties
  <2>4. \A k \in 1..(Len(lru) - i) : k \in 1..(Len(lru) - (i + 1) + 1) /\ i + 1 + k - 1 = i + k
    BY <1>1, <1>3
  <2>5. Len(back) = Len(lru) - i
    <3> DEFINE n == Len(lru)
    <3>1. n \in Nat /\ i \in 1..n
      BY <1>1, <1>3
    <3>2. Len(back) = IF i + 1 <= n THEN n - (i + 1) + 1 ELSE 0
      BY <2>3
    <3> HIDE DEF n, back
    <3>3. Len(back) = n - i
      BY ONLY <3>1, <3>2
    <3> QED BY <3>3 DEF n
  <2> QED BY <2>3, <2>4, <2>5
<1> HIDE DEF front, back
<1>8. /\ rest \in Seq(Shown) /\ Len(rest) = Len(lru) - 1
      /\ \A k \in 1..(Len(lru) - 1) : rest[k] = IF k < i THEN lru[k] ELSE lru[k + 1]
  <2>1. /\ rest \in Seq(Shown) /\ Len(rest) = Len(front) + Len(back)
        /\ \A k \in 1..(Len(front) + Len(back)) :
             rest[k] = IF k <= Len(front) THEN front[k] ELSE back[k - Len(front)]
    BY <1>5, <1>6, <1>7, ConcatProperties DEF front, back
  <2>2. Len(rest) = Len(lru) - 1
    BY <1>1, <1>3, <1>6, <1>7, <2>1
  <2>3. ASSUME NEW k \in 1..(Len(lru) - 1)
        PROVE  rest[k] = IF k < i THEN lru[k] ELSE lru[k + 1]
    <3>1. k \in 1..(Len(front) + Len(back)) /\ (k <= Len(front) <=> k < i)
      BY <1>1, <1>3, <1>6, <1>7
    <3>2. rest[k] = IF k < i THEN front[k] ELSE back[k - (i - 1)]
      BY <1>6, <2>1, <3>1
    <3>3. CASE k < i
      <4>1. k \in 1..(i - 1)
        BY <1>1, <1>3, <3>3
      <4> QED BY <1>6, <3>2, <3>3, <4>1
    <3>4. CASE ~(k < i)
      <4>1. k - (i - 1) \in 1..(Len(lru) - i) /\ i + (k - (i - 1)) = k + 1
        BY <1>1, <1>3, <3>4
      <4> QED BY <1>7, <3>2, <3>4, <4>1
    <3> QED BY <3>3, <3>4
  <2> QED BY <2>1, <2>2, <2>3
<1>9. s \in Shown
  BY <1>1, <1>3
<1>10. /\ Append(rest, s) \in Seq(Shown) /\ Len(Append(rest, s)) = Len(lru)
       /\ \A k \in 1..Len(lru) : Append(rest, s)[k] = IF k < Len(lru) THEN rest[k] ELSE s
  <2>1. /\ Append(rest, s) \in Seq(Shown) /\ Len(Append(rest, s)) = Len(rest) + 1
        /\ \A k \in 1..Len(rest) : Append(rest, s)[k] = rest[k]
        /\ Append(rest, s)[Len(rest) + 1] = s
    BY <1>8, <1>9, AppendProperties
  <2>2. Len(rest) + 1 = Len(lru)
    BY <1>1, <1>8
  <2>3. ASSUME NEW k \in 1..Len(lru)
        PROVE  Append(rest, s)[k] = IF k < Len(lru) THEN rest[k] ELSE s
    <3>1. CASE k < Len(lru)
      <4>1. k \in 1..Len(rest)
        BY <1>1, <1>8, <3>1
      <4> QED BY <2>1, <3>1, <4>1
    <3>2. CASE k = Len(lru)
      BY <1>1, <2>1, <2>2, <3>2
    <3>3. k < Len(lru) \/ k = Len(lru)
      <4>1. Len(lru) \in Nat
        BY <1>1
      <4> QED BY ONLY <4>1, k \in 1..Len(lru)
    <3> QED BY <3>1, <3>2, <3>3
  <2> QED BY <2>1, <2>2, <2>3
<1>11. \A k \in 1..Len(lru) :
         MovedUp(s)[k] = IF k < i THEN lru[k] ELSE IF k < Len(lru) THEN lru[k + 1] ELSE s
  BY <1>1, <1>3, <1>4, <1>8, <1>10
<1> QED BY <1>1, <1>3, <1>4, <1>10, <1>11

\* image(): the list after a string was asked for.
LEMMA ImageHit ==
    ASSUME CacheTypes, Listed, NEW s \in DOMAIN pictures, Image(s)
    PROVE  /\ lru' \in Seq(Shown) /\ Len(lru') = Len(lru)
           /\ UNCHANGED <<pictures, textures>>
           /\ ToSet(lru') = ToSet(lru) /\ lru'[Len(lru')] = s
           /\ \A k, l \in DOMAIN lru' : lru'[k] = lru'[l] => k = l
           /\ \A k, l \in DOMAIN lru' :
                k < l => lru'[l] = s \/ \E i, j \in DOMAIN lru :
                                            i < j /\ lru[i] = lru'[k] /\ lru[j] = lru'[l]
<1>1. lru \in Seq(Shown) /\ Len(lru) \in Nat /\ DOMAIN lru = 1..Len(lru)
  BY DEF CacheTypes
<1>2. lru' = MovedUp(s) /\ UNCHANGED <<pictures, textures>>
  BY DEF Image
<1>3. lru' \in Seq(Shown) /\ Len(lru') = Len(lru)
  BY <1>2, MovedUpIs
<1>4. PICK i \in 1..Len(lru) :
        /\ lru[i] = s
        /\ \A k \in 1..Len(lru) :
             lru'[k] = IF k < i THEN lru[k] ELSE IF k < Len(lru) THEN lru[k + 1] ELSE s
  BY <1>1, <1>2, MovedUpIs
<1>5. DOMAIN lru' = 1..Len(lru)
  BY <1>1, <1>3
\* where what stands at k stood
<1> DEFINE From(k) == IF k < i THEN k ELSE IF k < Len(lru) THEN k + 1 ELSE i
<1>6. \A k \in 1..Len(lru) : From(k) \in 1..Len(lru) /\ lru'[k] = lru[From(k)]
  BY <1>1, <1>4
<1>7. \A k, l \in 1..Len(lru) : From(k) = From(l) => k = l
  BY <1>1, <1>4
<1>8. \A j \in 1..Len(lru) : \E k \in 1..Len(lru) : From(k) = j
  <2> TAKE j \in 1..Len(lru)
  <2>1. CASE j < i
    BY <1>1, <1>4, <2>1
  <2>2. CASE j = i
    <3>1. Len(lru) \in 1..Len(lru) /\ ~(Len(lru) < Len(lru))
      BY <1>1, <1>4
    <3>2. CASE Len(lru) < i
      BY <1>1, <1>4, <3>2
    <3>3. CASE ~(Len(lru) < i)
      BY <3>1, <3>3
    <3> QED BY <2>2, <3>2, <3>3
  <2>3. CASE j > i
    <3>1. j - 1 \in 1..Len(lru) /\ From(j - 1) = j
      BY <1>1, <1>4, <2>3
    <3> QED BY <3>1
  <2> QED BY <1>1, <1>4, <2>1, <2>2, <2>3
<1>9. \A k, l \in 1..Len(lru) : k < l => l = Len(lru) \/ From(k) < From(l)
  <2> TAKE k, l \in 1..Len(lru)
  <2> SUFFICES ASSUME k < l, l # Len(lru) PROVE From(k) < From(l)
    OBVIOUS
  <2>1. Len(lru) \in Nat /\ i \in 1..Len(lru)
    BY <1>1, <1>4
  <2>2. l < Len(lru) /\ k < Len(lru)
    BY <2>1
  <2>3. CASE l < i
    BY <2>1, <2>2, <2>3
  <2>4. CASE ~(l < i)
    BY <2>1, <2>2, <2>4
  <2> QED BY <2>3, <2>4
<1>10. lru'[Len(lru)] = s
  BY <1>1, <1>4
<1> HIDE DEF From
<1>11. ToSet(lru') = ToSet(lru)
  <2>1. ToSet(lru) = {lru[j] : j \in 1..Len(lru)} /\ ToSet(lru') = {lru'[k] : k \in 1..Len(lru)}
    BY <1>1, <1>5 DEF ToSet
  <2>2. \A k \in 1..Len(lru) : \E j \in 1..Len(lru) : lru'[k] = lru[j]
    BY <1>6
  <2>3. \A j \in 1..Len(lru) : \E k \in 1..Len(lru) : lru'[k] = lru[j]
    <3> TAKE j \in 1..Len(lru)
    <3>1. PICK k \in 1..Len(lru) : From(k) = j
      BY <1>8
    <3> QED BY <1>6, <3>1
  <2>4. ASSUME NEW x \in ToSet(lru') PROVE x \in ToSet(lru)
    BY <2>1, <2>2, <2>4
  <2>5. ASSUME NEW x \in ToSet(lru) PROVE x \in ToSet(lru')
    <3>1. PICK j \in 1..Len(lru) : x = lru[j]
      BY <2>1, <2>5
    <3>2. PICK k \in 1..Len(lru) : lru'[k] = lru[j]
      BY <2>3
    <3> QED BY <2>1, <3>1, <3>2
  <2> QED BY <2>4, <2>5
<1>12. \A k, l \in DOMAIN lru' : lru'[k] = lru'[l] => k = l
  BY <1>1, <1>5, <1>6, <1>7 DEF Listed
<1>13. \A k, l \in DOMAIN lru' :
          k < l => lru'[l] = s \/ \E m, j \in DOMAIN lru :
                                      m < j /\ lru[m] = lru'[k] /\ lru[j] = lru'[l]
  BY <1>1, <1>5, <1>6, <1>9, <1>10
<1> QED BY <1>2, <1>3, <1>10, <1>11, <1>12, <1>13

\* image() when there is no picture yet: who goes, the front of a full list, and what is
\* left before the string.
Victims == IF Cardinality(DOMAIN pictures) >= MaxEntries THEN {lru[1]} ELSE {}

LEMMA ImageMiss ==
    ASSUME CacheTypes, Listed, NEW s \in Shown, s \notin DOMAIN pictures, Image(s)
    PROVE  /\ lru' \in Seq(Shown) /\ Len(lru') <= MaxEntries /\ lru'[Len(lru')] = s
           /\ DOMAIN pictures' = (DOMAIN pictures \ Victims) \cup {s}
           /\ pictures' \in [DOMAIN pictures' -> 1..(MaxEntries + 1)]
           /\ \A x \in DOMAIN pictures \ Victims : pictures'[x] = pictures[x]
           /\ Listed'
           /\ \A k, l \in DOMAIN lru' :
                k < l => lru'[l] = s \/ \E i, j \in DOMAIN lru :
                                            i < j /\ lru[i] = lru'[k] /\ lru[j] = lru'[l]
<1>1. lru \in Seq(Shown) /\ Len(lru) \in Nat /\ DOMAIN lru = 1..Len(lru)
  BY DEF CacheTypes
<1>2. MaxEntries \in Nat \ {0}
  BY ShapedTextAssumption
<1>3. /\ Cardinality(DOMAIN pictures) = Len(lru)
      /\ IsFiniteSet(textures) /\ Cardinality(textures) = Len(lru)
  BY ListSizes
<1>4. Len(lru) <= MaxEntries
  BY DEF Listed
<1>5. FreeName \in 1..(MaxEntries + 1) /\ FreeName \notin textures
  BY <1>3, <1>4, NameIsFree
<1> DEFINE rest == IF Victims = {} THEN lru ELSE Tail(lru)
<1>6. /\ pictures' = [x \in (DOMAIN pictures \ Victims) \cup {s} |->
                      IF x = s THEN FreeName ELSE pictures[x]]
      /\ lru' = Append(rest, s)
      /\ textures' = (textures \ {pictures[v] : v \in Victims}) \cup {FreeName}
  BY DEF Image, Victims
\* the list without its front, if that goes
<1> DEFINE gone == IF Victims = {} THEN 0 ELSE 1
<1>7. /\ gone \in {0, 1} /\ gone <= Len(lru) /\ Len(lru) - gone < MaxEntries
      /\ Victims = {lru[j] : j \in 1..gone}
  <2>1. CASE Len(lru) >= MaxEntries
    <3>1. Victims = {lru[1]}
      BY <1>3, <2>1 DEF Victims
    <3>2. gone = 1
      BY <3>1
    <3>3. Victims = {lru[j] : j \in 1..gone}
      BY <3>1, <3>2
    <3> QED BY <1>1, <1>2, <1>4, <2>1, <3>2, <3>3
  <2>2. CASE ~(Len(lru) >= MaxEntries)
    <3>1. Victims = {}
      BY <1>3, <2>2 DEF Victims
    <3>2. gone = 0
      BY <3>1
    <3>3. Victims = {lru[j] : j \in 1..gone}
      BY <3>1, <3>2
    <3> QED BY <1>1, <1>2, <1>4, <2>2, <3>2, <3>3
  <2> QED BY <2>1, <2>2
<1>8. /\ rest \in Seq(Shown) /\ Len(rest) = Len(lru) - gone
      /\ \A k \in 1..(Len(lru) - gone) : rest[k] = lru[k + gone]
  <2>1. CASE Victims = {}
    BY <1>1, <2>1
  <2>2. CASE Victims # {}
    <3>1. lru # <<>> /\ rest = Tail(lru) /\ gone = 1
      BY <1>1, <1>7, <2>2
    <3>2. Tail(lru) \in Seq(Shown) /\ Len(Tail(lru)) = Len(lru) - 1
      BY <1>1, <3>1, HeadTailProperties
    <3>3. \A k \in 1..(Len(lru) - 1) : Tail(lru)[k] = lru[k + 1]
      BY <1>1, <3>1, <3>2, HeadTailProperties
    <3>4. rest \in Seq(Shown) /\ Len(rest) = Len(lru) - gone
      BY <3>1, <3>2
    <3>5. \A k \in 1..(Len(lru) - gone) : rest[k] = lru[k + gone]
      BY <3>1, <3>3
    <3> QED BY <3>4, <3>5
  <2> QED BY <2>1, <2>2
<1> HIDE DEF rest, gone
<1>9. /\ lru' \in Seq(Shown) /\ Len(lru') = Len(rest) + 1
      /\ \A k \in 1..Len(rest) : lru'[k] = rest[k]
      /\ lru'[Len(rest) + 1] = s
  BY <1>6, <1>8, AppendProperties
<1> DEFINE n == Len(lru) - gone
<1>10. /\ n \in Nat /\ n < MaxEntries /\ n + gone = Len(lru)
       /\ DOMAIN lru' = 1..(n + 1) /\ Len(lru') = n + 1
       /\ lru'[n + 1] = s
  BY <1>1, <1>2, <1>7, <1>8, <1>9
<1>11. \A k \in 1..n : lru'[k] = lru[k + gone] /\ k + gone \in 1..Len(lru)
  BY <1>1, <1>7, <1>8, <1>9
<1>12. \A k \in 1..(n + 1) : k \in 1..n \/ k = n + 1
  BY <1>10
<1>13. \A j \in 1..Len(lru) : j \in 1..gone \/ (j - gone \in 1..n /\ (j - gone) + gone = j)
  BY <1>1, <1>7, <1>10
<1>14. \A k \in 1..n : k + gone \notin 1..gone
  BY <1>7, <1>10
<1> HIDE DEF n
<1>15. DOMAIN pictures = {lru[j] : j \in 1..Len(lru)}
  BY <1>1 DEF Listed, ToSet
<1>16. \A i, j \in 1..Len(lru) : lru[i] = lru[j] => i = j
  BY <1>1 DEF Listed
<1>17. /\ DOMAIN pictures' = (DOMAIN pictures \ Victims) \cup {s}
       /\ \A x \in DOMAIN pictures \ Victims : pictures'[x] = pictures[x]
       /\ pictures'[s] = FreeName
  BY <1>6
<1>18. pictures' \in [DOMAIN pictures' -> 1..(MaxEntries + 1)]
  BY <1>5, <1>6 DEF CacheTypes
<1>19. 1..gone \subseteq 1..Len(lru)
  BY <1>1, <1>7
<1>20. \A k \in 1..n : lru'[k] \in DOMAIN pictures \ Victims
  <2> TAKE k \in 1..n
  <2>1. lru'[k] \in DOMAIN pictures
    BY <1>11, <1>15
  <2>2. ASSUME lru'[k] \in Victims PROVE FALSE
    <3>1. PICK j \in 1..gone : lru[k + gone] = lru[j]
      BY <1>7, <1>11, <2>2
    <3>2. k + gone = j
      BY <1>11, <1>16, <1>19, <3>1
    <3> QED BY <1>14, <3>2
  <2> QED BY <2>1, <2>2
<1>21. \A x \in DOMAIN pictures \ Victims : \E k \in 1..n : lru'[k] = x
  <2> TAKE x \in DOMAIN pictures \ Victims
  <2>1. PICK j \in 1..Len(lru) : lru[j] = x
    BY <1>15
  <2>2. j \notin 1..gone
    BY <1>7, <2>1
  <2>3. j - gone \in 1..n /\ (j - gone) + gone = j
    BY <1>13, <2>2
  <2> QED BY <1>11, <2>1, <2>3
<1>22. ToSet(lru') = DOMAIN pictures'
  <2>1. 1..n \subseteq DOMAIN lru' /\ n + 1 \in DOMAIN lru'
    BY <1>10
  <2> QED BY <1>10, <1>12, <1>17, <1>20, <1>21, <2>1 DEF ToSet
<1>23. \A k, l \in DOMAIN lru' : lru'[k] = lru'[l] => k = l
  <2> TAKE k, l \in DOMAIN lru'
  <2> SUFFICES ASSUME lru'[k] = lru'[l] PROVE k = l
    OBVIOUS
  <2>1. CASE k \in 1..n /\ l \in 1..n
    <3>1. k + gone = l + gone
      BY <1>11, <1>16, <2>1
    <3> QED BY <1>7, <1>10, <2>1, <3>1
  <2>2. CASE k = n + 1 /\ l \in 1..n
    BY <1>10, <1>20, <2>2
  <2>3. CASE k \in 1..n /\ l = n + 1
    BY <1>10, <1>20, <2>3
  <2> QED BY <1>10, <1>12, <2>1, <2>2, <2>3
<1>24. textures' = {pictures'[x] : x \in DOMAIN pictures'}
  <2>1. \A x \in DOMAIN pictures \ Victims : pictures[x] \in textures
                                             /\ pictures[x] \notin {pictures[v] : v \in Victims}
    <3>1. Victims \subseteq DOMAIN pictures
      BY <1>7, <1>15, <1>19
    <3> QED BY <3>1 DEF Listed
  <2>2. \A t \in textures \ {pictures[v] : v \in Victims} :
           \E x \in DOMAIN pictures \ Victims : pictures[x] = t
    BY DEF Listed
  <2> DEFINE others == DOMAIN pictures \ Victims
             left == textures \ {pictures[v] : v \in Victims}
  <2>3. left = {pictures[x] : x \in others}
    BY <2>1, <2>2
  <2>4. DOMAIN pictures' = others \cup {s} /\ \A x \in others : pictures'[x] = pictures[x]
    BY <1>17
  <2>5. textures' = left \cup {FreeName} /\ pictures'[s] = FreeName
    BY <1>6, <1>17
  <2> HIDE DEF left, others
  <2> QED BY <2>3, <2>4, <2>5
<1>25. \A x, y \in DOMAIN pictures' : pictures'[x] = pictures'[y] => x = y
  <2>1. \A x \in DOMAIN pictures \ Victims : pictures'[x] # FreeName
    BY <1>5, <1>17 DEF Listed
  <2> QED BY <1>17, <2>1 DEF Listed
<1>26. Len(lru') <= MaxEntries
  BY <1>2, <1>10
<1>27. Listed'
  BY <1>22, <1>23, <1>24, <1>25, <1>26 DEF Listed
<1>28. \A k, l \in DOMAIN lru' :
          k < l => lru'[l] = s \/ \E i, j \in DOMAIN lru :
                                      i < j /\ lru[i] = lru'[k] /\ lru[j] = lru'[l]
  <2> TAKE k, l \in DOMAIN lru'
  <2> SUFFICES ASSUME k < l, l \in 1..n
               PROVE \E i, j \in DOMAIN lru : i < j /\ lru[i] = lru'[k] /\ lru[j] = lru'[l]
    BY <1>10, <1>12
  <2>1. k \in 1..n
    BY <1>10
  <2>2. k + gone < l + gone
    BY <1>7, <1>10, <2>1
  <2> QED BY <1>1, <1>11, <2>1, <2>2
<1> QED BY <1>9, <1>10, <1>17, <1>18, <1>26, <1>27, <1>28

\* The picture that is asked for is at the end of the list, all that this frame has
\* asked for before stays, and stays together in front of it.
LEMMA AskedStays ==
    ASSUME CacheInv, NEW s \in Shown, Image(s), shaped' = shaped \cup {s},
           \A d \in drawList' : d \in drawList \/ (d[1] = s /\ d[2] = pictures'[s])
    PROVE  CacheInv'
<1> USE DEF CacheInv
<1>1. /\ shaped' \subseteq Shown /\ IsFiniteSet(shaped')
      /\ Cardinality(shaped) \in Nat /\ Cardinality(shaped') \in Nat
      /\ Cardinality(shaped') = IF s \in shaped THEN Cardinality(shaped) ELSE Cardinality(shaped) + 1
  BY FS_AddElement, FS_CardinalityType DEF CacheTypes
<1>2. MaxEntries \in Nat \ {0}
  BY ShapedTextAssumption
<1>3. Cardinality(shaped') <= MaxEntries => Cardinality(shaped) <= MaxEntries
  BY <1>1, <1>2
<1>4. CASE s \in DOMAIN pictures
  <2>1. /\ lru' \in Seq(Shown) /\ Len(lru') = Len(lru) /\ UNCHANGED <<pictures, textures>>
        /\ ToSet(lru') = ToSet(lru) /\ lru'[Len(lru')] = s
        /\ \A k, l \in DOMAIN lru' : lru'[k] = lru'[l] => k = l
        /\ \A k, l \in DOMAIN lru' :
                k < l => lru'[l] = s \/ \E i, j \in DOMAIN lru :
                                            i < j /\ lru[i] = lru'[k] /\ lru[j] = lru'[l]
    BY <1>4, ImageHit
  <2>2. CacheTypes'
    BY <1>1, <2>1 DEF CacheTypes
  <2>3. Listed'
    BY <2>1 DEF Listed
  <2>4. AskedLast'
    <3> SUFFICES ASSUME Cardinality(shaped') <= MaxEntries
                 PROVE  /\ shaped' \subseteq DOMAIN pictures'
                        /\ \A k, l \in DOMAIN lru' :
                              (k < l /\ lru'[k] \in shaped') => lru'[l] \in shaped'
                        /\ \A d \in drawList' : d[1] \in shaped' /\ pictures'[d[1]] = d[2]
      BY DEF AskedLast
    <3>1. /\ shaped \subseteq DOMAIN pictures
          /\ \A i, j \in DOMAIN lru : (i < j /\ lru[i] \in shaped) => lru[j] \in shaped
          /\ \A d \in drawList : d[1] \in shaped /\ pictures[d[1]] = d[2]
      BY <1>3 DEF AskedLast
    <3>2. shaped' \subseteq DOMAIN pictures'
      BY <1>4, <2>1, <3>1
    <3>3. ASSUME NEW k \in DOMAIN lru', NEW l \in DOMAIN lru', k < l, lru'[k] \in shaped'
          PROVE  lru'[l] \in shaped'
      <4>1. k # Len(lru') /\ Len(lru') \in DOMAIN lru'
        <5>1. Len(lru') \in Nat /\ DOMAIN lru' = 1..Len(lru')
          BY <2>1
        <5> QED BY <3>3, <5>1
      <4>2. lru'[k] # s
        BY <2>1, <4>1
      <4>3. lru'[k] \in shaped
        BY <3>3, <4>2
      <4> QED BY <2>1, <3>1, <3>3, <4>3
    <3>4. \A d \in drawList' : d[1] \in shaped' /\ pictures'[d[1]] = d[2]
      BY <2>1, <3>1
    <3> QED BY <3>2, <3>3, <3>4
  <2> QED BY <2>2, <2>3, <2>4
<1>5. CASE s \notin DOMAIN pictures
  <2>1. /\ lru' \in Seq(Shown) /\ Len(lru') <= MaxEntries /\ lru'[Len(lru')] = s
        /\ DOMAIN pictures' = (DOMAIN pictures \ Victims) \cup {s}
        /\ pictures' \in [DOMAIN pictures' -> 1..(MaxEntries + 1)]
        /\ \A x \in DOMAIN pictures \ Victims : pictures'[x] = pictures[x]
        /\ Listed'
        /\ \A k, l \in DOMAIN lru' :
                k < l => lru'[l] = s \/ \E i, j \in DOMAIN lru :
                                            i < j /\ lru[i] = lru'[k] /\ lru[j] = lru'[l]
    BY <1>5, ImageMiss
  <2>2. CacheTypes'
    BY <1>1, <2>1 DEF CacheTypes
  <2>3. AskedLast'
    <3> SUFFICES ASSUME Cardinality(shaped') <= MaxEntries
                 PROVE  /\ shaped' \subseteq DOMAIN pictures'
                        /\ \A k, l \in DOMAIN lru' :
                              (k < l /\ lru'[k] \in shaped') => lru'[l] \in shaped'
                        /\ \A d \in drawList' : d[1] \in shaped' /\ pictures'[d[1]] = d[2]
      BY DEF AskedLast
    <3>1. /\ shaped \subseteq DOMAIN pictures
          /\ \A i, j \in DOMAIN lru : (i < j /\ lru[i] \in shaped) => lru[j] \in shaped
          /\ \A d \in drawList : d[1] \in shaped /\ pictures[d[1]] = d[2]
      BY <1>3 DEF AskedLast
    <3>2. Cardinality(shaped) < MaxEntries
      <4>1. s \notin shaped
        BY <1>5, <3>1
      <4> QED BY <1>1, <1>2, <4>1
    <3>3. shaped \cap Victims = {}
      <4>1. SUFFICES ASSUME NEW x \in shaped, x \in Victims PROVE FALSE
        OBVIOUS
      <4>2. /\ Cardinality(DOMAIN pictures) >= MaxEntries /\ x = lru[1]
            /\ Cardinality(DOMAIN pictures) = Len(lru)
        BY <4>1, ListSizes DEF Victims
      <4>3. Len(lru) \in Nat /\ DOMAIN lru = 1..Len(lru) /\ 1 \in 1..Len(lru)
        BY <1>2, <4>2 DEF CacheTypes
      <4>4. \A j \in 1..Len(lru) : j = 1 \/ 1 < j
        BY <4>3
      <4>5. \A j \in DOMAIN lru : lru[j] \in shaped
        BY <3>1, <4>1, <4>2, <4>3, <4>4
      <4>6. DOMAIN pictures \subseteq shaped
        BY <4>5 DEF Listed, ToSet
      <4> DEFINE strings == DOMAIN pictures
      <4>7. strings \in SUBSET shaped /\ IsFiniteSet(shaped)
        BY <4>6 DEF CacheTypes
      <4> HIDE DEF strings
      <4>8. Cardinality(strings) <= Cardinality(shaped)
        BY <4>7, FS_Subset
      <4> QED BY <1>1, <1>2, <3>2, <4>2, <4>3, <4>8 DEF strings
    <3>4. shaped \subseteq DOMAIN pictures \ Victims
      BY <3>1, <3>3
    <3>5. shaped' \subseteq DOMAIN pictures'
      BY <2>1, <3>4
    <3>6. ASSUME NEW k \in DOMAIN lru', NEW l \in DOMAIN lru', k < l, lru'[k] \in shaped'
          PROVE  lru'[l] \in shaped'
      <4>1. k # Len(lru') /\ Len(lru') \in DOMAIN lru'
        <5>1. Len(lru') \in Nat /\ DOMAIN lru' = 1..Len(lru')
          BY <2>1
        <5> QED BY <3>6, <5>1
      <4>2. lru'[k] # s
        BY <2>1, <4>1 DEF Listed
      <4>3. lru'[k] \in shaped
        BY <3>6, <4>2
      <4> QED BY <2>1, <3>1, <3>6, <4>3
    <3>7. \A d \in drawList' : d[1] \in shaped' /\ pictures'[d[1]] = d[2]
      <4> TAKE d \in drawList'
      <4>1. CASE d \in drawList
        <5>1. d[1] \in shaped /\ pictures[d[1]] = d[2]
          BY <3>1, <4>1
        <5> QED BY <2>1, <3>4, <5>1
      <4>2. CASE d[1] = s /\ d[2] = pictures'[s]
        BY <4>2
      <4> QED BY <4>1, <4>2
    <3> QED BY <3>5, <3>6, <3>7
  <2> QED BY <2>1, <2>2, <2>3
<1> QED BY <1>4, <1>5

LEMMA CacheStep == CacheInv /\ [ShapedNext]_svars => CacheInv'
<1> SUFFICES ASSUME CacheInv, [ShapedNext]_svars PROVE CacheInv'
  OBVIOUS
<1>1. ASSUME NEW s \in Shown, Draw(s) PROVE CacheInv'
  <2>1. Image(s) /\ shaped' = shaped \cup {s} /\ drawList' = drawList \cup {<<s, pictures'[s]>>}
    BY <1>1 DEF Draw
  <2>2. \A d \in drawList' : d \in drawList \/ (d[1] = s /\ d[2] = pictures'[s])
    BY <2>1
  <2> QED BY <2>1, <2>2, AskedStays
<1>2. ASSUME NEW s \in Shown, Measure(s) PROVE CacheInv'
  <2>1. Image(s) /\ shaped' = shaped \cup {s} /\ drawList' = drawList
    BY <1>2 DEF Measure
  <2> QED BY <2>1, AskedStays
<1>3. CASE Rendered
  <2>1. IsFiniteSet({})
    BY FS_EmptySet
  <2> QED BY <1>3, <2>1 DEF Rendered, CacheInv, CacheTypes, Listed, AskedLast
<1>4. CASE UNCHANGED <<pictures, lru, textures, drawList, shaped>>
  BY <1>4 DEF CacheInv, CacheTypes, Listed, AskedLast
<1> QED BY <1>1, <1>2, <1>3, <1>4 DEF ShapedNext, WriteOne, AddWord, svars

LEMMA CacheStart == ShapedInit => CacheInv
<1> SUFFICES ASSUME ShapedInit PROVE CacheInv
  OBVIOUS
<1>1. pictures = <<>> /\ lru = <<>> /\ textures = {} /\ drawList = {} /\ shaped = {}
  BY DEF ShapedInit
<1>2. DOMAIN pictures = {} /\ DOMAIN lru = {} /\ Len(lru) = 0
  BY <1>1
<1>3. CacheTypes
  BY <1>1, <1>2, FS_EmptySet DEF CacheTypes
<1>4. Listed
  BY <1>1, <1>2, ShapedTextAssumption DEF Listed, ToSet
<1>5. AskedLast
  BY <1>1, <1>2 DEF AskedLast
<1> QED BY <1>3, <1>4, <1>5 DEF CacheInv

\* image(): whatever is drawn and measured, in as many frames as there are, the cache and
\* its list hold the same strings, no more than there is room for, each with a texture of
\* its own, and no texture is left over.
THEOREM PicturesAreKept == ShapedSpec => []CacheWhole
<1>1. CacheInv => CacheWhole
  BY ListSizes DEF CacheInv, CacheWhole, Listed
<1> QED BY <1>1, CacheStart, CacheStep, PTL DEF ShapedSpec

\* ui_line() and image(): while a frame asks for no more strings than the cache holds,
\* the textures in its draw list are those of their strings until it is rendered.
THEOREM DrawnTexturesStay == ShapedSpec => []DrawnStay
<1>1. CacheInv => DrawnStay
  BY DEF CacheInv, AskedLast, DrawnStay
<1> QED BY <1>1, CacheStart, CacheStep, PTL DEF ShapedSpec

-----------------------------------------------------------------------------
(* The corpora.                                                                *)

\* A source holds out a part at its end, and one from a token file has all its tokens.
SoundSource(src) ==
    /\ src.size \in Nat /\ src.end \in 0..src.size
    /\ src.origin = "bin" => binFile # <<>> /\ binFile[1].written = src.size

\* The mixture is built before anything is drawn from it.
CorpusInv ==
    /\ ready = "spec" => sources \in Seq(ToSet(sources))
    /\ \A s \in DOMAIN sources : SoundSource(sources[s])
    /\ binFile # <<>> => binFile[1].announced \in Nat /\ binFile[1].written <= binFile[1].announced
                         /\ binFile[1].written \in Int
    /\ drawn.use # "none" => ready # "spec"
    /\ TrainsBeforeHoldout /\ JudgesOnHoldout

LEMMA MinOfTwo ==
    ASSUME NEW n \in Int, NEW m \in Int
    PROVE  Min({n, m}) = IF n <= m THEN n ELSE m
  BY DEF Min

LEMMA MaxOfTwo ==
    ASSUME NEW n \in Int, NEW m \in Int
    PROVE  Max({n, m}) = IF n >= m THEN n ELSE m
  BY DEF Max

\* set_holdout()
LEMMA HoldsOutAPart ==
    ASSUME NEW n \in Nat, NEW share \in Nat \ {0}
    PROVE  TrainEnd(n, share) \in 0..n
<1>1. n \div share \in Nat /\ n \div 2 \in Nat /\ n \div 2 <= n
  OBVIOUS
<1>2. Min({n \div share, n \div 2}) \in Nat /\ Min({n \div share, n \div 2}) <= n \div 2
  BY <1>1, MinOfTwo
<1> QED BY <1>1, <1>2 DEF TrainEnd

\* add_source() adds one source more.
LEMMA SourceAdded ==
    ASSUME CorpusInv, ready = "spec", NEW src, SoundSource(src)
    PROVE  LET longer == Append(sources, src)
           IN  /\ longer \in Seq(ToSet(longer))
               /\ \A s \in DOMAIN longer : SoundSource(longer[s])
<1> DEFINE longer == Append(sources, src)
           all == ToSet(sources) \cup {src}
<1>1. sources \in Seq(ToSet(sources))
  BY DEF CorpusInv
<1>2. \A s \in DOMAIN sources : sources[s] \in all
  BY DEF ToSet
<1>3. Len(sources) \in Nat /\ DOMAIN sources = 1..Len(sources)
  BY <1>1
<1>4. sources \in Seq(all)
  BY <1>1, <1>2, <1>3
<1>5. src \in all
  OBVIOUS
<1>6. \A x \in all : SoundSource(x)
  BY DEF CorpusInv, ToSet
<1> HIDE DEF all
<1>7. /\ longer \in Seq(all) /\ Len(longer) = Len(sources) + 1
      /\ \A i \in 1..Len(sources) : longer[i] = sources[i]
      /\ longer[Len(sources) + 1] = src
  BY <1>4, <1>5, AppendProperties
<1> HIDE DEF longer
<1>8. \A s \in DOMAIN longer : longer[s] \in all
  BY <1>7
<1>9. longer \in Seq(ToSet(longer))
  <2>1. DOMAIN longer = 1..Len(longer) /\ Len(longer) \in Nat /\ longer \in [1..Len(longer) -> all]
    BY <1>7
  <2>2. \A s \in 1..Len(longer) : longer[s] \in ToSet(longer)
    BY <2>1 DEF ToSet
  <2> QED BY <2>1, <2>2
<1> QED BY <1>6, <1>8, <1>9 DEF longer

\* sample_batch(): a row begins so that it ends in the training part.
LEMMA RowsInTraining ==
    ASSUME NEW end \in Nat, NEW T \in Nat, end > T,
           NEW off, off \in (IF end - T - 1 > 0 THEN 0..(end - T - 2) ELSE {0})
    PROVE  off..(off + T) \subseteq 0..(end - 1)
  OBVIOUS

\* holdout_batches(): the cursor never falls behind the end of the training part.
LEMMA CursorInHoldout ==
    ASSUME NEW src, NEW T \in Nat, src.size \in Nat, src.end \in Nat
    PROVE  \A c \in 1..Rounds : Cursor(src, T)[c] \in Nat /\ Cursor(src, T)[c] >= src.end
<1> DEFINE IsCursor(f, n) == f = [c \in 1..n |-> IF c = 1 THEN src.end
                                                   ELSE NextCursor(src, T, f[c - 1])]
           unlaid == {n \in Nat : ~\E f : IsCursor(f, n)}
<1>1. BatchRows \in Nat /\ Rounds \in Nat /\ BatchRows * T \in Nat
  BY TrainingDataAssumption
<1>2. unlaid = {}
  <2>1. SUFFICES ASSUME unlaid # {} PROVE FALSE
    OBVIOUS
  <2>2. PICK n \in unlaid : \A k \in unlaid : ~(<<k, n>> \in OpToRel(<, Nat))
    BY <2>1, NatLessThanWellFounded, WFMin
  <2>3. \A k \in unlaid : ~(k < n)
    BY <2>2 DEF OpToRel
  <2>4. n # 0
    <3> DEFINE f == [c \in 1..0 |-> src.end]
    <3>1. f = [c \in 1..0 |-> IF c = 1 THEN src.end ELSE NextCursor(src, T, f[c - 1])]
      OBVIOUS
    <3> HIDE DEF f
    <3>2. IsCursor(f, 0)
      BY <3>1
    <3> QED BY <3>2
  <2>5. n - 1 \in Nat /\ n - 1 < n
    BY <2>4
  <2>6. PICK f : IsCursor(f, n - 1)
    BY <2>3, <2>5
  <2>7. f = [c \in 1..(n - 1) |-> IF c = 1 THEN src.end ELSE NextCursor(src, T, f[c - 1])]
    BY <2>6
  <2> DEFINE last == IF n = 1 THEN src.end ELSE NextCursor(src, T, f[n - 1])
             g == [c \in 1..n |-> IF c = n THEN last ELSE f[c]]
  <2>8. \A c \in 1..n : g[c] = IF c = n THEN last ELSE f[c]
    OBVIOUS
  <2>9. g = [c \in 1..n |-> g[c]]
    OBVIOUS
  <2> HIDE DEF g
  <2>10. \A c \in 1..n : g[c] = IF c = 1 THEN src.end ELSE NextCursor(src, T, g[c - 1])
    <3> TAKE c \in 1..n
    <3>1. CASE c = 1
      <4>1. CASE n = 1
        BY <2>8, <3>1, <4>1
      <4>2. CASE n # 1
        <5>1. c \in 1..(n - 1) /\ g[c] = f[c]
          BY <2>5, <2>8, <3>1, <4>2
        <5> QED BY <2>7, <3>1, <5>1
      <4> QED BY <4>1, <4>2
    <3>2. CASE c # 1 /\ c = n
      <4>1. c - 1 \in 1..n /\ c - 1 # n
        BY <3>2
      <4>2. g[c - 1] = f[n - 1]
        BY <2>8, <3>2, <4>1
      <4> QED BY <2>8, <3>2, <4>2
    <3>3. CASE c # 1 /\ c # n
      <4>1. c \in 1..(n - 1) /\ c - 1 \in 1..n /\ c - 1 # n
        BY <3>3
      <4>2. g[c] = f[c] /\ g[c - 1] = f[c - 1]
        BY <2>8, <3>3, <4>1
      <4> QED BY <2>7, <3>3, <4>1, <4>2
    <3> QED BY <3>1, <3>2, <3>3
  <2>11. IsCursor(g, n)
    BY <2>9, <2>10
  <2> QED BY <2>11
<1> DEFINE at == CHOOSE f : f = [c \in 1..Rounds |-> IF c = 1 THEN src.end
                                                     ELSE NextCursor(src, T, f[c - 1])]
<1>3. Cursor(src, T) = at
  BY DEF Cursor
<1>4. \E f : IsCursor(f, Rounds)
  BY <1>1, <1>2
<1>5. at = [c \in 1..Rounds |-> IF c = 1 THEN src.end ELSE NextCursor(src, T, at[c - 1])]
  BY <1>4
<1> HIDE DEF at
<1> DEFINE behind == {c \in Nat : c \in 1..Rounds /\ ~(at[c] \in Nat /\ at[c] >= src.end)}
<1>6. behind = {}
  <2>1. SUFFICES ASSUME behind # {} PROVE FALSE
    OBVIOUS
  <2>2. PICK c \in behind : \A k \in behind : ~(<<k, c>> \in OpToRel(<, Nat))
    BY <2>1, NatLessThanWellFounded, WFMin
  <2>3. \A k \in behind : ~(k < c)
    BY <2>2 DEF OpToRel
  <2>4. c \in 1..Rounds /\ at[c] = IF c = 1 THEN src.end ELSE NextCursor(src, T, at[c - 1])
    BY <1>5
  <2>5. c # 1
    BY <2>4
  <2>6. c - 1 \in 1..Rounds /\ c - 1 < c
    BY <1>1, <2>4, <2>5
  <2>7. at[c - 1] \in Nat /\ at[c - 1] >= src.end
    BY <2>3, <2>6
  <2>8. NextCursor(src, T, at[c - 1]) \in {src.end, at[c - 1] + BatchRows * T}
    BY DEF NextCursor
  <2>9. at[c] \in Nat /\ at[c] >= src.end
    BY <1>1, <2>4, <2>5, <2>7, <2>8
  <2> QED BY <2>9
<1> QED BY <1>1, <1>3, <1>6

\* holdout_batches(): a row that would reach beyond the end begins again in the hold-out,
\* with room for all of it.
LEMMA RowsInHoldout ==
    ASSUME NEW src, NEW T \in Nat, src.size \in Nat, src.end \in 0..src.size,
           src.size - src.end - 1 >= T + 1,
           NEW cursor \in Nat, cursor >= src.end, NEW i \in Nat
    PROVE  LET off == HoldoutOffset(src, T, cursor, i)
           IN  off..(off + T) \subseteq src.end..(src.size - 1)
<1> DEFINE avail == src.size - src.end - 1
           there == cursor + i * T
           off == HoldoutOffset(src, T, cursor, i)
<1>1. avail \in Nat /\ avail - T \in Nat \ {0} /\ i * T \in Nat
  OBVIOUS
<1>2. there \in Nat /\ there >= src.end /\ there - src.end \in Nat
  BY <1>1
<1>3. Max({1, avail - T}) = avail - T
  <2>1. Max({1, avail - T}) = IF 1 >= avail - T THEN 1 ELSE avail - T
    BY <1>1, MaxOfTwo
  <2> QED BY <1>1, <2>1
<1>4. off = IF there + T + 1 > src.size THEN src.end + ((there - src.end) % (avail - T)) ELSE there
  BY <1>3 DEF HoldoutOffset
<1> DEFINE turned == (there - src.end) % (avail - T)
<1>5. turned \in 0..(avail - T - 1)
  BY <1>1, <1>2
<1>6. src.size \in Nat /\ src.end \in Nat /\ avail = src.size - src.end - 1
  OBVIOUS
<1> HIDE DEF avail, there, turned, off
<1>7. off \in Int /\ off >= src.end /\ off + T <= src.size - 1
  <2>1. CASE there + T + 1 > src.size
    <3>1. off = src.end + turned
      BY <1>4, <2>1 DEF turned
    <3> QED BY <1>1, <1>5, <1>6, <3>1
  <2>2. CASE ~(there + T + 1 > src.size)
    <3>1. off = there
      BY <1>4, <2>2
    <3> QED BY <1>2, <1>6, <2>2, <3>1
  <2> QED BY <2>1, <2>2
<1>8. off..(off + T) \subseteq src.end..(src.size - 1)
  BY <1>6, <1>7
<1> QED BY <1>8 DEF off

\* What leaves the mixture and the last batch alone keeps what is said of the batch.
LEMMA DrawnKept ==
    ASSUME TrainsBeforeHoldout, JudgesOnHoldout, UNCHANGED drawn,
           drawn.use # "none" => UNCHANGED sources
    PROVE  TrainsBeforeHoldout' /\ JudgesOnHoldout'
<1>1. CASE drawn.use = "none"
  BY <1>1 DEF TrainsBeforeHoldout, JudgesOnHoldout
<1>2. CASE drawn.use # "none"
  <2>1. UNCHANGED <<drawn, sources>>
    BY <1>2
  <2>2. Touched' = Touched
    BY <2>1 DEF Touched
  <2> QED BY <2>1, <2>2 DEF TrainsBeforeHoldout, JudgesOnHoldout
<1> QED BY <1>1, <1>2

LEMMA CorpusStart == DataInit => CorpusInv
<1> SUFFICES ASSUME DataInit PROVE CorpusInv
  OBVIOUS
<1>1. sources = <<>> /\ binFile = <<>> /\ drawn.use = "none"
  BY DEF DataInit
<1>2. sources \in Seq(ToSet(sources)) /\ DOMAIN sources = {}
  BY <1>1
<1> QED BY <1>1, <1>2 DEF CorpusInv, TrainsBeforeHoldout, JudgesOnHoldout

LEMMA CorpusStep == CorpusInv /\ [DataNext]_dvars => CorpusInv'
<1> SUFFICES ASSUME CorpusInv, [DataNext]_dvars PROVE CorpusInv'
  OBVIOUS
<1>0. /\ Sizes \subseteq Nat /\ Windows \subseteq Nat \ {0}
      /\ TextShare \in Nat \ {0} /\ BinShare \in Nat \ {0} /\ Rounds \in Nat /\ BatchRows \in Nat
  BY TrainingDataAssumption
<1>a. /\ ready = "spec" => sources \in Seq(ToSet(sources))
      /\ \A s \in DOMAIN sources : SoundSource(sources[s])
      /\ binFile # <<>> => /\ binFile[1].announced \in Nat
                           /\ binFile[1].written <= binFile[1].announced
                           /\ binFile[1].written \in Int
      /\ drawn.use # "none" => ready # "spec"
      /\ TrainsBeforeHoldout /\ JudgesOnHoldout
  BY DEF CorpusInv
<1>1. CASE WriteBin
  <2>1. PICK n \in Sizes : \E w \in {-1, 0, n - 1, n} : binFile' = <<[announced |-> n, written |-> w]>>
    BY <1>1 DEF WriteBin
  <2>2. PICK w \in {-1, 0, n - 1, n} : binFile' = <<[announced |-> n, written |-> w]>>
    BY <2>1
  <2>3. n \in Nat /\ w \in Int /\ w <= n
    BY <1>0
  <2>4. binFile = <<>> /\ UNCHANGED <<sources, ready, drawn>>
    BY <1>1 DEF WriteBin
  <2>5. \A s \in DOMAIN sources : SoundSource(sources[s])'
    BY <1>a, <2>4 DEF SoundSource
  <2>6. binFile'[1].announced = n /\ binFile'[1].written = w
    BY <2>2
  <2>7. TrainsBeforeHoldout' /\ JudgesOnHoldout'
    BY <1>a, <2>4, DrawnKept
  <2> QED BY <1>a, <2>3, <2>4, <2>5, <2>6, <2>7 DEF CorpusInv
<1>2. ASSUME NEW n \in Nat, NEW share \in Nat \ {0}, NEW w, NEW origin,
             origin = "bin" => binFile # <<>> /\ binFile[1].written = n,
             ready = "spec", sources' = Append(sources, Source(n, share, w, origin)),
             UNCHANGED <<binFile, ready, drawn>>
      PROVE  CorpusInv'
  <2> DEFINE src == Source(n, share, w, origin)
  <2>1. SoundSource(src)
    <3>1. src.size = n /\ src.end = TrainEnd(n, share) /\ src.origin = origin
      BY DEF Source
    <3> HIDE DEF src
    <3> QED BY <1>2, <3>1, HoldsOutAPart DEF SoundSource
  <2> HIDE DEF src
  <2>2. sources' = Append(sources, src)
    BY <1>2 DEF src
  <2>3. /\ sources' \in Seq(ToSet(sources'))
        /\ \A s \in DOMAIN sources' : SoundSource(sources'[s])
    BY <1>2, <2>1, <2>2, SourceAdded
  <2>4. \A s \in DOMAIN sources' : SoundSource(sources[s])'
    BY <1>2, <2>3 DEF SoundSource
  <2>5. TrainsBeforeHoldout' /\ JudgesOnHoldout'
    BY <1>2, <1>a, DrawnKept
  <2> QED BY <1>2, <1>a, <2>3, <2>4, <2>5 DEF CorpusInv
<1>3. ASSUME ready = "spec", ready' = "refused", UNCHANGED <<binFile, sources, drawn>>
      PROVE  CorpusInv'
  <2>1. TrainsBeforeHoldout' /\ JudgesOnHoldout'
    BY <1>3, <1>a, DrawnKept
  <2>2. \A s \in DOMAIN sources : SoundSource(sources[s])'
    BY <1>3, <1>a DEF SoundSource
  <2> QED BY <1>3, <1>a, <2>1, <2>2 DEF CorpusInv
<1>4. CASE AddText
  <2>1. PICK n \in Sizes, w \in Weights :
        IF n < MinText THEN ready' = "refused" /\ UNCHANGED sources
        ELSE sources' = Append(sources, Source(n, TextShare, w, "text")) /\ UNCHANGED ready
    BY <1>4 DEF AddText
  <2>2. ready = "spec" /\ UNCHANGED <<binFile, drawn>>
    BY <1>4 DEF AddText
  <2>3. CASE n < MinText
    BY <1>3, <2>1, <2>2, <2>3
  <2>4. CASE ~(n < MinText)
    <3>1. sources' = Append(sources, Source(n, TextShare, w, "text")) /\ UNCHANGED ready
      BY <2>1, <2>4
    <3>2. n \in Nat /\ "text" # "bin"
      BY <1>0
    <3> QED BY <1>0, <1>2, <2>2, <3>1, <3>2
  <2> QED BY <2>3, <2>4
<1>5. CASE AddBin
  <2>1. PICK w \in Weights :
        IF ~BinLoads(binFile[1]) THEN ready' = "refused" /\ UNCHANGED sources
        ELSE /\ sources' = Append(sources, Source(binFile[1].announced, BinShare, w, "bin"))
             /\ UNCHANGED ready
    BY <1>5 DEF AddBin
  <2>2. ready = "spec" /\ binFile # <<>> /\ UNCHANGED <<binFile, drawn>>
    BY <1>5 DEF AddBin
  <2>3. CASE ~BinLoads(binFile[1])
    BY <1>3, <2>1, <2>2, <2>3
  <2>4. CASE BinLoads(binFile[1])
    <3> DEFINE n == binFile[1].announced
    <3>1. sources' = Append(sources, Source(n, BinShare, w, "bin")) /\ UNCHANGED ready
      BY <2>1, <2>4
    <3>2. n \in Nat /\ binFile[1].written = n
      BY <1>a, <2>2, <2>4 DEF BinLoads
    <3> HIDE DEF n
    <3> QED BY <1>0, <1>2, <2>2, <3>1, <3>2
  <2> QED BY <2>3, <2>4
<1>6. CASE FinishSpec
  <2>1. ready = "spec" /\ ready' = "ready" /\ sources' = Shared /\ UNCHANGED <<binFile, drawn>>
    BY <1>6 DEF FinishSpec
  <2>2. /\ DOMAIN sources' = DOMAIN sources
        /\ \A s \in DOMAIN sources : \E w : sources'[s] = [sources[s] EXCEPT !.weight = w]
    BY <2>1 DEF Shared
  <2>3. TrainsBeforeHoldout' /\ JudgesOnHoldout'
    BY <1>a, <2>1, DrawnKept
  <2>4. \A s \in DOMAIN sources' : SoundSource(sources[s])'
    <3> TAKE s \in DOMAIN sources'
    <3>1. PICK w : sources'[s] = [sources[s] EXCEPT !.weight = w]
      BY <2>2
    <3>2. /\ sources'[s].size = sources[s].size /\ sources'[s].end = sources[s].end
          /\ sources'[s].origin = sources[s].origin
      BY <3>1
    <3>3. SoundSource(sources[s])
      BY <1>a, <2>2
    <3> QED BY <2>1, <3>2, <3>3 DEF SoundSource
  <2> QED BY <1>a, <2>1, <2>3, <2>4 DEF CorpusInv
<1>7. CASE Sample
  <2>0. PICK s \in DOMAIN sources, T \in Windows : \E off \in RowStarts(sources[s], T) :
          drawn' = [use |-> "train", source |-> s, T |-> T, batches |-> <<<<off>>>>]
    BY <1>7 DEF Sample
  <2>1. PICK off \in RowStarts(sources[s], T) :
          drawn' = [use |-> "train", source |-> s, T |-> T, batches |-> <<<<off>>>>]
    BY <2>0
  <2>2. ready = "ready" /\ UNCHANGED <<binFile, sources, ready>>
    BY <1>7 DEF Sample
  <2>3. drawn'.use = "train" /\ drawn'.source = s /\ drawn'.T = T /\ drawn'.batches = <<<<off>>>>
    BY <2>1
  <2>4. TrainsBeforeHoldout'
    <3> SUFFICES ASSUME sources[s].end > T PROVE Touched' \subseteq 0..(sources[s].end - 1)
      BY <2>2, <2>3 DEF TrainsBeforeHoldout
    <3>1. Touched' = off..(off + T)
      <4>1. ToSet(<<<<off>>>>) = {<<off>>} /\ ToSet(<<off>>) = {off}
        BY DEF ToSet
      <4>2. Touched' = UNION {UNION {o..(o + T) : o \in ToSet(batch)} : batch \in {<<off>>}}
        BY <2>3, <4>1 DEF Touched
      <4>3. Touched' = UNION {o..(o + T) : o \in {off}}
        BY <4>1, <4>2
      <4> QED BY <4>3
    <3>2. sources[s].end \in Nat /\ T \in Nat
      BY <1>0, <1>a DEF SoundSource
    <3>3. off \in (IF sources[s].end - T - 1 > 0 THEN 0..(sources[s].end - T - 2) ELSE {0})
      BY DEF RowStarts
    <3> QED BY <3>1, <3>2, <3>3, RowsInTraining
  <2>5. JudgesOnHoldout'
    BY <2>3 DEF JudgesOnHoldout
  <2>6. \A r \in DOMAIN sources : SoundSource(sources[r])'
    BY <1>a, <2>2 DEF SoundSource
  <2> QED BY <1>a, <2>2, <2>4, <2>5, <2>6 DEF CorpusInv
<1>8. CASE Judge
  <2>1. PICK s \in DOMAIN sources, T \in Windows :
          drawn' = [use |-> "holdout", source |-> s, T |-> T,
                    batches |-> HoldoutBatches(sources[s], T)]
    BY <1>8 DEF Judge
  <2>2. ready = "ready" /\ UNCHANGED <<binFile, sources, ready>>
    BY <1>8 DEF Judge
  <2> DEFINE src == sources[s]
  <2>3. /\ drawn'.use = "holdout" /\ drawn'.source = s /\ drawn'.T = T
        /\ drawn'.batches = HoldoutBatches(src, T)
    BY <2>1
  <2>4. src.size \in Nat /\ src.end \in 0..src.size /\ T \in Nat
    BY <1>0, <1>a DEF SoundSource
  <2>5. JudgesOnHoldout'
    <3> SUFFICES ASSUME NEW x \in Touched' PROVE x \in src.end..(src.size - 1)
      BY <2>2, <2>3 DEF JudgesOnHoldout
    <3>1. PICK batch \in ToSet(HoldoutBatches(src, T)) : \E off \in ToSet(batch) : x \in off..(off + T)
      BY <2>3 DEF Touched
    <3>2. PICK off \in ToSet(batch) : x \in off..(off + T)
      BY <3>1
    <3>3. src.size - src.end - 1 >= T + 1
      <4>1. SUFFICES ASSUME src.size - src.end - 1 < T + 1 PROVE FALSE
        BY <2>4
      <4>2. HoldoutBatches(src, T) = <<>>
        BY <4>1 DEF HoldoutBatches
      <4> QED BY <3>1, <4>2 DEF ToSet
    <3>4. HoldoutBatches(src, T) =
            [c \in 1..Rounds |->
               [i \in 1..BatchRows |-> HoldoutOffset(src, T, Cursor(src, T)[c], i - 1)]]
      BY <2>4, <3>3 DEF HoldoutBatches
    <3>5. PICK c \in 1..Rounds :
            batch = [i \in 1..BatchRows |-> HoldoutOffset(src, T, Cursor(src, T)[c], i - 1)]
      BY <3>1, <3>4 DEF ToSet
    <3>6. PICK i \in 1..BatchRows : off = HoldoutOffset(src, T, Cursor(src, T)[c], i - 1)
      BY <3>2, <3>5 DEF ToSet
    <3> DEFINE cursor == Cursor(src, T)[c]
    <3>7. cursor \in Nat /\ cursor >= src.end
      BY <2>4, CursorInHoldout
    <3>8. i - 1 \in Nat
      BY <1>0
    <3>9. off = HoldoutOffset(src, T, cursor, i - 1)
      BY <3>6
    <3> HIDE DEF src, cursor
    <3>10. off..(off + T) \subseteq src.end..(src.size - 1)
      BY <2>4, <3>3, <3>7, <3>8, <3>9, RowsInHoldout
    <3> QED BY <3>2, <3>10
  <2>6. TrainsBeforeHoldout'
    BY <2>3 DEF TrainsBeforeHoldout
  <2>7. \A r \in DOMAIN sources : SoundSource(sources[r])'
    BY <1>a, <2>2 DEF SoundSource
  <2> QED BY <1>a, <2>2, <2>5, <2>6, <2>7 DEF CorpusInv
<1>9. CASE UNCHANGED <<binFile, sources, ready, drawn>>
  <2>1. TrainsBeforeHoldout' /\ JudgesOnHoldout'
    BY <1>9, <1>a, DrawnKept
  <2>2. \A r \in DOMAIN sources : SoundSource(sources[r])'
    BY <1>a, <1>9 DEF SoundSource
  <2> QED BY <1>9, <1>a, <2>1, <2>2 DEF CorpusInv
<1> QED BY <1>1, <1>4, <1>5, <1>6, <1>7, <1>8, <1>9 DEF DataNext, AddSequence, dvars

\* sample_batch() and holdout_batches(): whatever sources are mixed and however long the
\* windows are, training reads and asks for no token of the hold-out, as long as the
\* training part is longer than a window, and the coordinator judges on nothing else.
THEOREM HoldoutIsUnseen == DataSpec => [](TrainsBeforeHoldout /\ JudgesOnHoldout)
<1>1. CorpusInv => TrainsBeforeHoldout /\ JudgesOnHoldout
  BY DEF CorpusInv
<1> QED BY <1>1, CorpusStart, CorpusStep, PTL DEF DataSpec

\* load_bin(): a token file that was not written to its end is in no mixture.
THEOREM NoTornCorpus == DataSpec => []BinsAreWhole
<1>1. CorpusInv => BinsAreWhole
  BY DEF CorpusInv, BinsAreWhole, SoundSource
<1> QED BY <1>1, CorpusStart, CorpusStep, PTL DEF DataSpec
=============================================================================
