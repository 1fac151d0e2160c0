------------------------------ MODULE EventLogs ------------------------------
(* What the collector concludes from the log lines of one PubSub           *)
(* notification: the invocation scopes, the events of a program, their     *)
(* pairing with silent self-CPIs, and whether the notification is a gap in *)
(* the evidence of that source.  A line is one of                          *)
(*   invoke(program, depth), success(program), failed(program),            *)
(*   data(payload), consumed (the program's own compute line), text,       *)
(*   truncated;                                                            *)
(* everything else in the wording of a line is left out.                   *)
EXTENDS Integers, Sequences, FiniteSets, FiniteSetsExt

CONSTANTS
    Programs,     \* the programs of the transaction
    Program,      \* the program whose events are read
    MaxLines,     \* bound on the lines of a notification
    MaxDepth      \* bound on the depth a line may claim

ASSUME LogsAssumption ==
    /\ Program \in Programs
    /\ MaxLines \in Nat
    /\ MaxDepth \in Nat

VARIABLES
    logs,   \* the lines received for one successful transaction
    scope,  \* scope_program_data_logs after these lines
    cpi     \* successful_self_cpi_coverage after these lines

logsVars == <<logs, scope, cpi>>

\* An event of the pinned interface, decoded or deliberately ignored, against one
\* that does not decode or whose discriminator the interface does not have.
Payloads == {"known", "unknown"}

Line(kind, program, depth, payload) ==
    [log |-> kind, program |-> program, depth |-> depth, payload |-> payload]

Lines ==
    {Line("invoke", p, d, "none") : p \in Programs, d \in 1..MaxDepth}
    \cup {Line(k, p, 0, "none") : k \in {"success", "failed"}, p \in Programs}
    \cup {Line("data", "none", 0, c) : c \in Payloads}
    \cup {Line(k, "none", 0, "none") : k \in {"consumed", "text", "truncated"}}

Instructions == 0..(MaxLines - 1)

-----------------------------------------------------------------------------
(* The stack of invocations, which both walks keep in the same way.        *)

Top(stack) == stack[Len(stack)]
Pop(stack) == SubSeq(stack, 1, Len(stack) - 1)

Fail(scan) == [scan EXCEPT !.malformed = TRUE]

\* An invocation must claim the depth right below the active one.
DepthIsValid(stack, line) == line.depth = Len(stack) + 1

\* An exit must name the active invocation.
ExitIsValid(stack, line) == stack # <<>> /\ Top(stack).program = line.program

IsExit(line) == line.log \in {"success", "failed"}

\* A depth-one invocation starts the next top-level instruction, a nested one
\* belongs to the instruction of its caller.
InstructionOf(scan, line) ==
    IF line.depth = 1 THEN scan.next ELSE Top(scan.stack).instruction

NextInstruction(scan, line) == IF line.depth = 1 THEN scan.next + 1 ELSE scan.next

\* scope_program_data_logs: the data lines of the program, each with its
\* instruction and its index among the events of that instruction.
ScopeLine(scan, line) ==
    CASE line.log = "truncated" -> Fail(scan)
      [] line.log = "invoke" ->
            IF ~DepthIsValid(scan.stack, line) THEN Fail(scan)
            ELSE [scan EXCEPT
                    !.stack = Append(@, [program |-> line.program,
                                         instruction |-> InstructionOf(scan, line)]),
                    !.next = NextInstruction(scan, line)]
      [] IsExit(line) ->
            IF ~ExitIsValid(scan.stack, line) THEN Fail(scan)
            ELSE [scan EXCEPT !.stack = Pop(@)]
      [] /\ line.log = "data"
         /\ scan.stack # <<>>
         /\ Top(scan.stack).program = Program ->
            LET i == Top(scan.stack).instruction IN
            [scan EXCEPT
                !.events[i] = @ + 1,
                !.scoped = Append(@, [instruction |-> i, event |-> scan.events[i],
                                      payload |-> line.payload])]
      [] OTHER -> scan

EmptyScope ==
    [malformed |-> FALSE, stack |-> <<>>, next |-> 0,
     events |-> [i \in Instructions |-> 0], scoped |-> <<>>]

\* Invocations that never end are an error, as are lines that fit no stack.
ScanFails(scan) == scan.malformed \/ scan.stack # <<>>

-----------------------------------------------------------------------------
(* successful_self_cpi_coverage: every direct event of the program must be *)
(* followed at once by a silent successful call of the program to itself.  *)

\* A frame that runs the program's own code and is not a call to itself.
IsDirect(frame) == frame.program = Program /\ ~frame.self

\* The pending event of an instruction is lost: it is not followed by its call.
LosePending(c) == IF c.pending THEN [c EXCEPT !.gap = TRUE, !.pending = FALSE] ELSE c

InvokeLine(scan, line) ==
    LET i == InstructionOf(scan, line)
        caller == Top(scan.stack)
        called == scan.stack # <<>>
        self == line.program = Program
                /\ \E k \in DOMAIN scan.stack : scan.stack[k].program = Program
        candidate == called /\ IsDirect(caller) /\ self /\ scan.coverage[i].pending
        frame == [program |-> line.program, instruction |-> i, self |-> self,
                  silent |-> self, candidate |-> candidate]
        below == IF called /\ caller.self
                 THEN [scan.stack EXCEPT ![Len(scan.stack)].silent = FALSE]
                 ELSE scan.stack
    IN  [scan EXCEPT
            !.stack = Append(below, frame),
            !.next = NextInstruction(scan, line),
            !.coverage[i] = IF called /\ IsDirect(caller) /\ ~candidate
                            THEN LosePending(@) ELSE @]

\* The mutant of ExitFrame in which any successful candidate is a pair.
ExitAnyCandidate(c, frame, succeeded) ==
    CASE frame.candidate ->
            IF succeeded THEN [c EXCEPT !.calls = @ + 1, !.pending = FALSE]
            ELSE [c EXCEPT !.gap = TRUE, !.pending = FALSE]
      [] frame.self /\ ~frame.candidate /\ succeeded /\ frame.silent -> [c EXCEPT !.gap = TRUE]
      [] IsDirect(frame) -> LosePending(c)
      [] OTHER -> c

\* The candidate of a pending event pairs with it when it was silent and
\* succeeded.  A silent successful self-call that no event announced is an
\* event of which the notification has no copy.
ExitFrame(c, frame, succeeded) ==
    CASE frame.candidate ->
            IF succeeded /\ frame.silent /\ c.pending
            THEN [c EXCEPT !.calls = @ + 1, !.pending = FALSE]
            ELSE [c EXCEPT !.gap = TRUE, !.pending = FALSE]
      [] frame.self /\ ~frame.candidate /\ succeeded /\ frame.silent -> [c EXCEPT !.gap = TRUE]
      [] IsDirect(frame) -> LosePending(c)
      [] OTHER -> c

ExitLine(scan, line) ==
    LET frame == Top(scan.stack) IN
    [scan EXCEPT !.stack = Pop(@),
                 !.coverage[frame.instruction] = ExitFrame(@, frame, line.log = "success")]

\* A data line, or any line other than the compute line, inside a frame.
BodyLine(scan, line) ==
    LET frame == Top(scan.stack) IN
    CASE frame.self /\ line.log # "consumed" ->
            [scan EXCEPT !.stack[Len(scan.stack)].silent = FALSE]
      [] IsDirect(frame) /\ line.log = "data" ->
            [scan EXCEPT !.coverage[frame.instruction] =
                [LosePending(@) EXCEPT !.pending = TRUE]]
      [] IsDirect(frame) /\ line.log = "text" ->
            [scan EXCEPT !.coverage[frame.instruction] = LosePending(@)]
      [] OTHER -> scan

CoverageLine(scan, line) ==
    CASE line.log = "truncated" -> Fail(scan)
      [] line.log = "invoke" ->
            IF DepthIsValid(scan.stack, line) THEN InvokeLine(scan, line) ELSE Fail(scan)
      [] IsExit(line) ->
            IF ExitIsValid(scan.stack, line) THEN ExitLine(scan, line) ELSE Fail(scan)
      [] scan.stack # <<>> /\ line.log \in {"data", "text", "consumed"} -> BodyLine(scan, line)
      [] OTHER -> scan

EmptyCoverage ==
    [malformed |-> FALSE, stack |-> <<>>, next |-> 0,
     coverage |-> [i \in Instructions |-> [calls |-> 0, pending |-> FALSE, gap |-> FALSE]]]

-----------------------------------------------------------------------------
(* classify_notification: what the notification adds to the source's gaps. *)

NotificationMentionsProgram(lines) ==
    \E k \in DOMAIN lines : lines[k].log = "invoke" /\ lines[k].program = Program

\* Known and deliberately ignored events both count; an unknown one never does.
EligibleEvents(scoped, i) ==
    Cardinality({k \in DOMAIN scoped :
                    scoped[k].instruction = i /\ scoped[k].payload # "unknown"})

HasDecodeGap(scoped) == \E k \in DOMAIN scoped : scoped[k].payload = "unknown"

EventCpiCoverageIsIncomplete(coverage, scoped) ==
    \E i \in Instructions :
        \/ coverage[i].gap
        \/ coverage[i].pending
        \/ coverage[i].calls # EligibleEvents(scoped, i)

\* The gap that classify_notification records for the program, if any.
CoverageGap ==
    IF ~NotificationMentionsProgram(logs) THEN "none"
    ELSE IF ScanFails(cpi) \/ ScanFails(scope) \/ HasDecodeGap(scope.scoped) THEN "DECODE_GAP"
    ELSE IF EventCpiCoverageIsIncomplete(cpi.coverage, scope.scoped)
         THEN "CPI_INSTRUCTION_DATA_UNAVAILABLE"
    ELSE "none"

-----------------------------------------------------------------------------
(* Both functions read the lines in order and keep nothing else, so their  *)
(* state is carried along with the lines: a state is a notification that   *)
(* ends there.  Both return at the first malformed line, and nothing that  *)
(* follows it is looked at.                                                *)

LogsInit == logs = <<>> /\ scope = EmptyScope /\ cpi = EmptyCoverage

ReceiveLine ==
    /\ Len(logs) < MaxLines
    /\ ~cpi.malformed /\ ~scope.malformed
    /\ \E line \in Lines :
        /\ logs' = Append(logs, line)
        /\ scope' = ScopeLine(scope, line)
        /\ cpi' = CoverageLine(cpi, line)

LogsNext == ReceiveLine

LogsSpec == LogsInit /\ [][LogsNext]_logsVars

-----------------------------------------------------------------------------
(* The same judgement stated without a walk, from the positions of lines.  *)

Invokes(lines, n) == {j \in 1..n : lines[j].log = "invoke"}

\* How many invocations are open after the first n lines.
OpenAfter(lines, n) ==
    Cardinality(Invokes(lines, n)) - Cardinality({j \in 1..n : IsExit(lines[j])})

\* The invocation at depth d that is open after the first n lines.
OpenedBy(lines, n, d) == Max({j \in Invokes(lines, n) : lines[j].depth = d})

Active(lines, n) == OpenedBy(lines, n, OpenAfter(lines, n))

WellFormed(lines) ==
    /\ \A j \in DOMAIN lines :
        /\ lines[j].log # "truncated"
        /\ lines[j].log = "invoke" => lines[j].depth = OpenAfter(lines, j - 1) + 1
        /\ IsExit(lines[j]) =>
            /\ OpenAfter(lines, j - 1) > 0
            /\ lines[Active(lines, j - 1)].program = lines[j].program
    /\ OpenAfter(lines, Len(lines)) = 0

\* The first line after j that is not a compute line.
Following(lines, j) == Min({k \in (j + 1)..Len(lines) : lines[k].log # "consumed"})

CallsItself(lines, j) ==
    /\ lines[j].log = "invoke"
    /\ lines[j].program = Program
    /\ \E d \in 1..(lines[j].depth - 1) : lines[OpenedBy(lines, j, d)].program = Program

Events(lines) ==
    {j \in DOMAIN lines : /\ lines[j].log = "data"
                          /\ OpenAfter(lines, j) > 0
                          /\ lines[Active(lines, j)].program = Program}

SilentCalls(lines) ==
    {j \in DOMAIN lines : CallsItself(lines, j) /\ lines[Following(lines, j)].log = "success"}

\* The event is a direct one, and the next thing its program does is the call.
Announces(lines, j, k) ==
    /\ ~CallsItself(lines, Active(lines, j))
    /\ Following(lines, j) = k

PairedExactly(lines) ==
    /\ \A j \in Events(lines) : \E k \in SilentCalls(lines) : Announces(lines, j, k)
    /\ \A k \in SilentCalls(lines) : \E j \in Events(lines) : Announces(lines, j, k)

\* A notification of the program counts as complete evidence exactly when its
\* lines are well formed, every event of the program decodes, and events and
\* silent self-calls pair one to one, each event immediately before its call
\* (classify_notification, successful_self_cpi_coverage).
CoverageMatchesPairing ==
    NotificationMentionsProgram(logs) =>
        (CoverageGap = "none" <=>
            /\ WellFormed(logs)
            /\ \A j \in Events(logs) : logs[j].payload # "unknown"
            /\ PairedExactly(logs))

\* docs/architecture/data-lifecycle.md: an explicit truncation marker is a gap in
\* the evidence of the source that delivered the notification.
TruncatedLogsAreGaps ==
    (\E j \in DOMAIN logs : logs[j].log = "truncated") => CoverageGap # "none"
=============================================================================
