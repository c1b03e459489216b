---------------------------- MODULE ToolProcesses -----------------------------
(* The processes the tools start and wait for: /bin/sh for the shell tool      *)
(* (agent/tool_shell.cpp, run_shell) and curl(1) for web_search and web_fetch  *)
(* (agent/http.cpp, fetch_via_binary).  The parent polls the child's output,   *)
(* kills the process group when the time is over, and gives a verdict.         *)
(*                                                                             *)
(* The command may start a helper, which may leave the process group; either   *)
(* may close its output early.  Time passes in slices of 200 ms, the longest   *)
(* the shell tool polls at once; the parent's own work takes no slice.  After  *)
(* a kill it reads on for as long as output keeps coming, however long that    *)
(* is: a helper that left the group can keep it there.                         *)
EXTENDS Integers, Sequences, SequencesExt

CONSTANTS
    Limit,          \* slices until a command is killed
    KeepMax,            \* pieces of output, and of a page, that are kept
    Stages,         \* search engines that are asked in turn
    MaxWrites,      \* model bound: pieces a command writes
    MaxClock        \* model bound: slices

ASSUME ToolProcessesAssumption ==
    {Limit, KeepMax, Stages, MaxWrites, MaxClock} \subseteq Nat \ {0} /\ MaxClock > Limit + 2

VARIABLES
    tool,           \* "shell", "search" or "page"
    stage,          \* the search engine that is being asked
    root,           \* the command: "none", "forked", "running", "ended"
    grouped,        \* it leads a process group of its own
    code,           \* how it ended: 0, 1 or "killed"
    helper,         \* what it started: "none", "in" its group or "ended" in it, "out" of it
                    \* or "gone" after it left
    holds,          \* which of the two can still write to the pipe
    pipe,           \* what is in the pipe
    wrote,          \* pieces written to the pipe, all in all
    page,           \* pieces of the page curl has received, and whether that was all
    parent,         \* where the parent is
    kept,           \* what it has read and kept
    total,          \* pieces it has read
    timedOut, cancelled,
    cancelFlag,           \* the user's cancel flag, and the slice it was set in
    clock, due,     \* slices since the command began; one passed since the parent looked
    verdict         \* what the tool answered

procVars == <<tool, stage, root, grouped, code, helper, holds, pipe, wrote, page, parent, kept,
              total, timedOut, cancelled, cancelFlag, clock, due, verdict>>
childVars == <<root, grouped, code, helper, holds>>
parentVars == <<tool, stage, parent, kept, total, timedOut, cancelled, cancelFlag, clock, due, verdict>>

Shell == tool = "shell"

ProcInit ==
    /\ tool \in {"shell", "search", "page"}
    /\ stage = 1 /\ root = "none" /\ grouped = FALSE /\ code = 0 /\ helper = "none"
    /\ holds = {} /\ pipe = <<>> /\ wrote = 0 /\ page = [size |-> 0, whole |-> FALSE]
    /\ parent = "start" /\ kept = <<>> /\ total = 0 /\ timedOut = FALSE /\ cancelled = FALSE
    /\ cancelFlag = [set |-> FALSE, at |-> 0] /\ clock = 0 /\ due = FALSE /\ verdict = "none"

-----------------------------------------------------------------------------
(* The command and its helper.                                                 *)

\* The child puts itself into its own group, then becomes the command.
ChildStarts ==
    /\ root = "forked"
    /\ root' = "running" /\ grouped' = TRUE
    /\ UNCHANGED <<code, helper, holds, pipe, wrote, page>> /\ UNCHANGED parentVars

Alive(p) == IF p = "root" THEN root = "running" ELSE helper \in {"in", "out"}

WritePiece(p) ==
    /\ Shell /\ Alive(p) /\ p \in holds /\ wrote < MaxWrites
    /\ parent \in {"check", "poll", "drain"}
    /\ pipe' = Append(pipe, "data") /\ wrote' = wrote + 1
    /\ UNCHANGED <<childVars, page>> /\ UNCHANGED parentVars

StartHelper ==
    /\ Shell /\ root = "running" /\ helper = "none"
    /\ helper' = "in"
    /\ holds' = IF "root" \in holds THEN holds \cup {"helper"} ELSE holds
    /\ UNCHANGED <<root, grouped, code, pipe, wrote, page>> /\ UNCHANGED parentVars

\* setsid, nohup
HelperLeaves ==
    /\ helper = "in"
    /\ helper' = "out"
    /\ UNCHANGED <<root, grouped, code, holds, pipe, wrote, page>> /\ UNCHANGED parentVars

ClosesOutput(p) ==
    /\ Shell /\ Alive(p) /\ p \in holds
    /\ holds' = holds \ {p}
    /\ UNCHANGED <<root, grouped, code, helper, pipe, wrote, page>> /\ UNCHANGED parentVars

HelperEnds ==
    /\ Alive("helper")
    /\ helper' = (IF helper = "out" THEN "gone" ELSE "ended") /\ holds' = holds \ {"helper"}
    /\ UNCHANGED <<root, grouped, code, pipe, wrote, page>> /\ UNCHANGED parentVars

CommandEnds ==
    /\ Shell /\ root = "running"
    /\ root' = "ended" /\ holds' = holds \ {"root"} /\ code' \in {0, 1}
    /\ UNCHANGED <<grouped, helper, pipe, wrote, page>> /\ UNCHANGED parentVars

\* curl writes the page to a file.
Receives ==
    /\ ~Shell /\ root = "running" /\ ~page.whole /\ page.size <= KeepMax
    /\ \E last \in BOOLEAN : page' = [size |-> page.size + 1, whole |-> last]
    /\ UNCHANGED <<childVars, pipe, wrote>> /\ UNCHANGED parentVars

\* curl ends: what it complains of, then a line with the status, "000" if no answer
\* came.  An answer that stops half way leaves its status too.
CurlEnds ==
    /\ ~Shell /\ root = "running"
    /\ \/ page.whole /\ code' = 0 /\ \E status \in {"200", "404"} : pipe' = <<status>>
       \/ ~page.whole /\ page.size > 0 /\ code' = 1 /\ pipe' = <<"complaint", "200">>
       \/ page.size = 0 /\ code' = 1 /\ pipe' = <<"complaint", "000">>
    /\ root' = "ended" /\ holds' = {} /\ wrote' = Len(pipe')
    /\ UNCHANGED <<grouped, helper, page>> /\ UNCHANGED parentVars

UserStops ==
    /\ ~cancelFlag.set /\ parent # "done"
    /\ cancelFlag' = [set |-> TRUE, at |-> clock]
    /\ UNCHANGED <<childVars, pipe, wrote, page, tool, stage, parent, kept, total, timedOut,
                   cancelled, clock, due, verdict>>

-----------------------------------------------------------------------------
(* The parent.                                                                 *)

Still == UNCHANGED <<tool, cancelFlag, page, wrote>>

\* fork(), and for the shell setpgid() by the parent as well: the group exists before
\* the first look at the cancel flag, whichever of the two calls comes first.
Fork ==
    /\ parent = "start"
    /\ \/ parent' = "check" /\ root' = "forked" /\ holds' = {"root"} /\ grouped' = Shell
       \/ parent' = "failed" /\ UNCHANGED <<root, holds, grouped>>
    /\ clock' = 0 /\ due' = FALSE /\ cancelFlag' = [cancelFlag EXCEPT !.at = 0]
    /\ UNCHANGED <<tool, page, wrote, stage, code, helper, pipe, kept, total, timedOut, cancelled,
                   verdict>>

\* Mutant: the command is killed and not its group.
MutKill ==
    /\ code' = IF root = "ended" THEN code ELSE "killed"
    /\ root' = "ended" /\ holds' = holds \ {"root"} /\ UNCHANGED helper

\* killpg(): all of the group that is left.
Kill ==
    IF grouped
    THEN /\ helper' = IF helper = "in" THEN "ended" ELSE helper
         /\ code' = IF root = "ended" THEN code ELSE "killed"
         /\ root' = "ended"
         /\ holds' = IF helper = "out" THEN holds \ {"root"} ELSE {}
    ELSE UNCHANGED <<root, code, helper, holds>>

Check ==
    /\ parent = "check"
    /\ cancelled' = (Shell /\ cancelFlag.set)
    /\ timedOut' = (~cancelled' /\ clock >= Limit)
    /\ IF cancelled' \/ timedOut'
       THEN Kill /\ parent' = IF Shell THEN "drain" ELSE "wait"
       ELSE parent' = "poll" /\ UNCHANGED <<root, code, helper, holds>>
    /\ Still /\ UNCHANGED <<stage, grouped, pipe, kept, total, clock, due, verdict>>

\* read() takes all there is, or a part of it.
TakePieces ==
    \E n \in 1..Len(pipe) :
        /\ pipe' = SubSeq(pipe, n + 1, Len(pipe))
        /\ total' = total + n
        /\ kept' = SubSeq(kept \o SubSeq(pipe, 1, n), 1,
                          IF Shell /\ Len(kept) + n > KeepMax THEN KeepMax ELSE Len(kept) + n)

ReadPiece ==
    /\ parent = "poll" /\ pipe # <<>>
    /\ TakePieces
    /\ parent' = "check" /\ due' = FALSE
    /\ Still /\ UNCHANGED <<childVars, stage, timedOut, cancelled, clock, verdict>>

EndOfOutput ==
    /\ parent = "poll" /\ pipe = <<>> /\ holds = {}
    /\ parent' = "wait" /\ due' = FALSE
    /\ Still /\ UNCHANGED <<childVars, stage, pipe, kept, total, timedOut, cancelled, clock, verdict>>

\* poll() returned with nothing: after a slice, or for curl when the time is over.
Slice == due /\ (Shell \/ clock >= Limit)

PollEnds ==
    /\ parent = "poll" /\ pipe = <<>> /\ holds # {} /\ Slice
    /\ parent' = "check" /\ due' = FALSE
    /\ Still /\ UNCHANGED <<childVars, stage, pipe, kept, total, timedOut, cancelled, clock, verdict>>

\* After a kill, what is still in the pipe, until nothing comes for 20 ms.
Drain ==
    /\ parent = "drain"
    /\ IF pipe # <<>> THEN TakePieces /\ UNCHANGED parent
       ELSE parent' = "wait" /\ UNCHANGED <<pipe, kept, total>>
    /\ Still /\ UNCHANGED <<childVars, stage, timedOut, cancelled, clock, due, verdict>>

\* A slice in which a helper the kill did not reach wrote again before each 20 ms were
\* over: what it wrote is read, and the loop looks at neither clock nor flag.
DrainSlice ==
    /\ parent = "drain" /\ pipe = <<>> /\ clock < MaxClock
    /\ \E p \in holds : Alive(p)
    /\ clock' = clock + 1 /\ wrote' = wrote + 1 /\ total' = total + 1
    /\ kept' = IF Len(kept) < KeepMax THEN Append(kept, "data") ELSE kept
    /\ UNCHANGED <<childVars, tool, stage, pipe, page, parent, timedOut, cancelled, cancelFlag, due,
                   verdict>>

\* waitpid()
Reap ==
    /\ parent = "wait" /\ root = "ended"
    /\ parent' = "reaped"
    /\ Still /\ UNCHANGED <<childVars, stage, pipe, kept, total, timedOut, cancelled, clock, due, verdict>>

Truncated == total > KeepMax

ShellAnswers ==
    /\ Shell /\ parent \in {"reaped", "failed"}
    /\ verdict' = IF parent = "failed" THEN "not started"
                  ELSE IF cancelled THEN "cancelled" ELSE IF timedOut THEN "timeout"
                  ELSE IF code # 0 THEN "failed" ELSE "ok"
    /\ parent' = "done"
    /\ Still /\ UNCHANGED <<childVars, stage, pipe, kept, total, timedOut, cancelled, clock, due>>

\* The status is on the last line; without one the complaint is the error.
Status == IF kept # <<>> /\ Last(kept) \in {"200", "404"} THEN Last(kept) ELSE "000"
FetchError ==
    IF parent = "failed" THEN "not started"
    ELSE IF timedOut THEN "timeout" ELSE IF Status = "000" THEN "failed" ELSE "none"
BodyLength == IF page.size < KeepMax THEN page.size ELSE KeepMax
BodyTruncated == page.size > KeepMax

\* web_fetch: an error, a status of 400 and more, a page that is no text.
PageAnswers ==
    /\ tool = "page" /\ parent \in {"reaped", "failed"}
    /\ verdict' \in IF FetchError # "none" THEN {FetchError}
                    ELSE IF Status = "404" THEN {"refused"} ELSE {"ok", "refused"}
    /\ parent' = "done"
    /\ Still /\ UNCHANGED <<childVars, stage, pipe, kept, total, timedOut, cancelled, clock, due>>

\* web_search: the first engine with results wins; the flag is looked at between two.
EngineAnswers ==
    /\ tool = "search" /\ parent \in {"reaped", "failed"}
    /\ \E got \in BOOLEAN :
        /\ got => FetchError = "none" /\ Status = "200"
        /\ IF got \/ cancelFlag.set \/ stage = Stages
           THEN /\ verdict' = (IF got THEN "ok" ELSE "no engine") /\ parent' = "done"
                /\ UNCHANGED <<childVars, stage, pipe, kept, total, timedOut, page, wrote>>
           ELSE /\ stage' = stage + 1 /\ parent' = "start"
                /\ root' = "none" /\ grouped' = FALSE /\ code' = 0 /\ holds' = {}
                /\ pipe' = <<>> /\ kept' = <<>> /\ total' = 0 /\ timedOut' = FALSE
                /\ wrote' = 0 /\ page' = [size |-> 0, whole |-> FALSE]
                /\ UNCHANGED <<helper, verdict>>
    /\ UNCHANGED <<tool, cancelFlag, cancelled, clock, due>>

\* A slice passes while the parent waits; before the next one it has looked again.
Blocked ==
    \/ parent = "wait" /\ root # "ended"
    \/ parent = "poll" /\ pipe = <<>> /\ holds # {} /\ ~Slice
Tick ==
    /\ root # "forked" /\ clock < MaxClock
    /\ Blocked \/ (parent = "poll" /\ ~due)
    /\ clock' = clock + 1 /\ due' = TRUE
    /\ Still /\ UNCHANGED <<childVars, stage, pipe, kept, total, parent, timedOut, cancelled, verdict>>

ProcNext ==
    \/ ChildStarts \/ StartHelper \/ HelperLeaves \/ HelperEnds \/ CommandEnds
    \/ (\E p \in {"root", "helper"} : WritePiece(p) \/ ClosesOutput(p))
    \/ Receives \/ CurlEnds \/ UserStops
    \/ Fork \/ Check \/ ReadPiece \/ EndOfOutput \/ PollEnds \/ Drain \/ DrainSlice \/ Reap
    \/ ShellAnswers \/ PageAnswers \/ EngineAnswers \/ Tick

ProcSpec == ProcInit /\ [][ProcNext]_procVars

-----------------------------------------------------------------------------

\* Only a helper that left the process group outlives a kill of it.
LeftGroup == helper \in {"out", "gone"}

\* run_shell() and fetch_via_binary(): no slice passes between the end of a command's
\* time and the look that kills it.  After that only a helper that left the group and
\* goes on writing keeps the tool reading (it can do so without end), and waitpid(),
\* which has no limit, waits for nothing that was killed; it waits for a command that
\* runs only if that closed its output by itself.
AnswersInTime ==
    /\ parent \in {"check", "poll"} => clock <= Limit
    /\ (parent = "drain" /\ clock > Limit) => LeftGroup
    /\ (parent = "wait" /\ root # "ended") => ~timedOut /\ ~cancelled /\ holds = {}

\* The user's cancel kills a shell command a slice later, as long as it has its output;
\* reading on after that takes a helper that left the group.
StopsAtOnce ==
    (Shell /\ cancelFlag.set /\ clock > cancelFlag.at + 1) =>
        /\ parent \notin {"check", "poll"}
        /\ parent = "drain" => LeftGroup

\* After a timeout or a cancel nothing of the process group is left, only what left it.
NothingLeftRunning ==
    ((timedOut \/ cancelled) /\ parent \in {"reaped", "done"}) =>
        root = "ended" /\ helper # "in" /\ holds \subseteq {"helper"}

\* A command is reported to have succeeded only if it did, and then all that it and its
\* helpers wrote was read, and kept up to the cap.
SuccessIsWhole ==
    (Shell /\ verdict = "ok") =>
        /\ code = 0 /\ ~timedOut /\ ~cancelled
        /\ total = wrote /\ pipe = <<>>
        /\ Len(kept) = IF Truncated THEN KeepMax ELSE wrote

\* A page of a transfer that curl completed is whole or marked as cut, and none is
\* accepted after a kill or without an answer.
PagesAreWhole ==
    (~Shell /\ verdict = "ok") =>
        /\ ~timedOut /\ Status = "200"
        /\ code = 0 => page.whole /\ (BodyTruncated \/ BodyLength = page.size)

\* tool_shell.cpp, http.cpp: a command or a request is killed in time and at a cancel and,
\* unless a helper left its group, answered then; nothing of the group is left running,
\* and only what came whole is reported as success.
ProcessesSound ==
    AnswersInTime /\ StopsAtOnce /\ NothingLeftRunning /\ SuccessIsWhole /\ PagesAreWhole
=============================================================================
