--------------------------- MODULE EventLogsProofs ---------------------------
(***************************************************************************)
(* Proofs about EventLogs for notifications of any length, any depth and   *)
(* any programs: the two walks over the lines judge a notification as the  *)
(* positions of its lines do.                                              *)
(***************************************************************************)
EXTENDS EventLogs, FiniteSetTheorems, TLAPS

Frames == [program : Programs, instruction : Instructions, self : BOOLEAN,
           silent : BOOLEAN, candidate : BOOLEAN]
Coverages == [calls : Nat, pending : BOOLEAN, gap : BOOLEAN]
CoverageScans == [malformed : BOOLEAN, stack : Seq(Frames), next : Nat,
                  coverage : [Instructions -> Coverages]]
ScopeScans == [malformed : BOOLEAN,
               stack : Seq([program : Programs, instruction : Instructions]), next : Nat,
               events : [Instructions -> Nat],
               scoped : Seq([instruction : Instructions, event : Nat, payload : Payloads])]

LogsTypes ==
    /\ logs \in Seq(Lines) /\ Len(logs) <= MaxLines
    /\ cpi \in CoverageScans /\ scope \in ScopeScans
    /\ cpi.next <= Len(logs)

-----------------------------------------------------------------------------
(* Positions.                                                              *)

\* Nothing but compute lines after line j.
Quiet(lines, j) == \A k \in (j + 1)..Len(lines) : lines[k].log = "consumed"

\* Line k is the first after line j that is not a compute line.
FollowedBy(lines, j, k) ==
    /\ k \in (j + 1)..Len(lines)
    /\ lines[k].log # "consumed"
    /\ \A l \in (j + 1)..(k - 1) : lines[l].log = "consumed"

LineFits(lines, j) ==
    /\ lines[j].log # "truncated"
    /\ lines[j].log = "invoke" => lines[j].depth = OpenAfter(lines, j - 1) + 1
    /\ IsExit(lines[j]) =>
        /\ OpenAfter(lines, j - 1) > 0
        /\ lines[Active(lines, j - 1)].program = lines[j].program

\* The events that code of the program itself emits, outside its calls to itself.
Direct(lines) == {j \in Events(lines) : ~CallsItself(lines, Active(lines, j))}

\* The silent calls that ended well, and the events that announced none.
Silent(lines, k) ==
    CallsItself(lines, k) /\ \E l \in DOMAIN lines : FollowedBy(lines, k, l) /\ lines[l].log = "success"

Lost(lines, j) ==
    \E k \in DOMAIN lines :
        /\ FollowedBy(lines, j, k)
        /\ CallsItself(lines, k) =>
             \E l \in DOMAIN lines : FollowedBy(lines, k, l) /\ lines[l].log # "success"

Fault(lines) ==
    \/ \E j \in Direct(lines) : Lost(lines, j)
    \/ \E k \in DOMAIN lines :
         Silent(lines, k) /\ ~\E j \in Direct(lines) : FollowedBy(lines, j, k)

-----------------------------------------------------------------------------
(* The invariant of the walks while no line is malformed.                  *)

Opened(d) == OpenedBy(logs, Len(logs), d)

\* Every open invocation of every prefix of the lines has a line that opened it.
PrefixInv(lines) ==
    \A j \in 0..Len(lines) :
        /\ OpenAfter(lines, j) \in Nat
        /\ \A d \in 1..OpenAfter(lines, j) :
             OpenedBy(lines, j, d) \in Invokes(lines, j) /\ lines[OpenedBy(lines, j, d)].depth = d

\* Every line that something followed has a first such line.
FollowInv(lines) ==
    \A j \in DOMAIN lines : Quiet(lines, j) \/ \E k \in DOMAIN lines : FollowedBy(lines, j, k)

\* The stack is the open invocations, all of the instruction begun last, and a
\* call of the program to itself is known by a frame of the program below it.
StackInv ==
    /\ \A j \in DOMAIN logs : LineFits(logs, j)
    /\ OpenAfter(logs, Len(logs)) = Len(cpi.stack)
    /\ \A d \in DOMAIN cpi.stack :
        /\ cpi.stack[d].program = logs[Opened(d)].program
        /\ cpi.stack[d].instruction = cpi.next - 1
        /\ cpi.stack[d].self <=> CallsItself(logs, Opened(d))
        /\ cpi.stack[d].self <=>
             cpi.stack[d].program = Program /\ \E e \in 1..(d - 1) : cpi.stack[e].program = Program

Pending == cpi.next > 0 /\ cpi.coverage[cpi.next - 1].pending
OnDirect == cpi.stack # <<>> /\ IsDirect(Top(cpi.stack))
OnSilent == cpi.stack # <<>> /\ Top(cpi.stack).silent

\* Which frames are silent, which are candidates, and what an event waits for.
FrameInv ==
    /\ \A d \in DOMAIN cpi.stack :
        /\ cpi.stack[d].silent => d = Len(cpi.stack) /\ cpi.stack[d].self
        /\ cpi.stack[d].candidate =>
             cpi.stack[d].self /\ d > 1 /\ IsDirect(cpi.stack[d - 1]) /\ Pending
    /\ \A i \in Instructions : cpi.coverage[i].pending =>
        /\ i = cpi.next - 1
        /\ OnDirect \/ \E d \in DOMAIN cpi.stack : cpi.stack[d].candidate

\* What the walk knows of the lines: whether a direct event was the last thing
\* said, whether a call to itself was, and which calls a direct event announced.
LinkInv ==
    /\ (\E j \in Direct(logs) : Quiet(logs, j)) <=> OnDirect /\ Pending
    /\ \A k \in DOMAIN logs :
         CallsItself(logs, k) /\ Quiet(logs, k) <=> OnSilent /\ k = Opened(Len(cpi.stack))
    /\ \A d \in DOMAIN cpi.stack : cpi.stack[d].self =>
         (cpi.stack[d].candidate <=> \E j \in Direct(logs) : FollowedBy(logs, j, Opened(d)))

HasGap == \E i \in Instructions : cpi.coverage[i].gap
Broken == \E d \in DOMAIN cpi.stack : cpi.stack[d].candidate /\ ~cpi.stack[d].silent

\* There is a fault when a gap is recorded, or will be when an open call returns.
GapInv == Fault(logs) <=> HasGap \/ Broken

Waiting(i) == IF cpi.coverage[i].pending THEN 1 ELSE 0
AllCounted == \A i \in Instructions : cpi.coverage[i].calls + Waiting(i) = scope.events[i]

\* The scope walk has the same stack and counts the events.  While there is no
\* gap, every event is paired or pending unless a call to itself emitted one.
ScopeInv ==
    /\ scope.next = cpi.next
    /\ Len(scope.stack) = Len(cpi.stack)
    /\ \A d \in DOMAIN cpi.stack : /\ scope.stack[d].program = cpi.stack[d].program
                                   /\ scope.stack[d].instruction = cpi.stack[d].instruction
    /\ HasDecodeGap(scope.scoped) <=> \E j \in Events(logs) : logs[j].payload = "unknown"
    /\ ~HasDecodeGap(scope.scoped) =>
         \A i \in Instructions : EligibleEvents(scope.scoped, i) = scope.events[i]
CountInv ==
    /\ \A i \in Instructions : cpi.coverage[i].calls + Waiting(i) <= scope.events[i]
    /\ ~HasGap => (AllCounted <=> Events(logs) = Direct(logs))

WalkInv ==
    /\ PrefixInv(logs) /\ FollowInv(logs)
    /\ StackInv /\ FrameInv /\ LinkInv /\ GapInv /\ ScopeInv /\ CountInv

LogsInv ==
    /\ LogsTypes
    /\ cpi.malformed <=> scope.malformed
    /\ cpi.malformed => ~WellFormed(logs)
    /\ ~cpi.malformed => WalkInv

-----------------------------------------------------------------------------
(* One more line.                                                          *)

\* What appending a line does to a sequence.
LEMMA AppendFacts ==
    ASSUME NEW s \in Seq(Lines), NEW line \in Lines
    PROVE  /\ Append(s, line) \in Seq(Lines)
           /\ Len(s) \in Nat /\ Len(Append(s, line)) = Len(s) + 1
           /\ DOMAIN s = 1..Len(s) /\ DOMAIN Append(s, line) = 1..(Len(s) + 1)
           /\ \A k \in 1..Len(s) : Append(s, line)[k] = s[k] /\ s[k] \in Lines
           /\ Append(s, line)[Len(s) + 1] = line
OBVIOUS

\* The earlier positions are judged as before.
LEMMA SamePrefix ==
    ASSUME NEW s \in Seq(Lines), NEW line \in Lines, NEW m \in 0..Len(s)
    PROVE  /\ Invokes(Append(s, line), m) = Invokes(s, m)
           /\ OpenAfter(Append(s, line), m) = OpenAfter(s, m)
           /\ \A d : OpenedBy(Append(s, line), m, d) = OpenedBy(s, m, d)
           /\ Active(Append(s, line), m) = Active(s, m)
<1> DEFINE t == Append(s, line)
<1>1. \A k \in 1..m : t[k] = s[k]
  BY AppendFacts
<1> HIDE DEF t
<1>2. Invokes(t, m) = Invokes(s, m)
  BY <1>1 DEF Invokes
<1>3. {j \in 1..m : IsExit(t[j])} = {j \in 1..m : IsExit(s[j])}
  BY <1>1, Zenon
<1>4. OpenAfter(t, m) = OpenAfter(s, m)
  BY <1>2, <1>3, Zenon DEF OpenAfter
<1>5. ASSUME NEW d PROVE OpenedBy(t, m, d) = OpenedBy(s, m, d)
  <2>1. \A j \in Invokes(s, m) : t[j] = s[j]
    BY <1>1 DEF Invokes
  <2>2. {j \in Invokes(t, m) : t[j].depth = d} = {j \in Invokes(s, m) : s[j].depth = d}
    BY <1>2, <2>1, Zenon
  <2> QED BY <2>2, Zenon DEF OpenedBy
<1>6. Active(t, m) = Active(s, m)
  BY <1>4, <1>5, Zenon DEF Active
<1> QED BY <1>2, <1>4, <1>5, <1>6, Zenon DEF t

\* The number of open invocations is an integer.
LEMMA OpenInt ==
    ASSUME NEW s, NEW m \in Nat
    PROVE  /\ OpenAfter(s, m) \in Int
           /\ IsFiniteSet(Invokes(s, m)) /\ IsFiniteSet({j \in 1..m : IsExit(s[j])})
<1>1. IsFiniteSet(1..m)
  BY FS_Interval
<1>2. Invokes(s, m) \subseteq 1..m
  BY DEF Invokes
<1>3. {j \in 1..m : IsExit(s[j])} \subseteq 1..m
  OBVIOUS
<1>4. IsFiniteSet(Invokes(s, m)) /\ IsFiniteSet({j \in 1..m : IsExit(s[j])})
  BY <1>1, <1>2, <1>3, FS_Subset, Zenon
<1>5. Cardinality(Invokes(s, m)) \in Nat /\ Cardinality({j \in 1..m : IsExit(s[j])}) \in Nat
  BY <1>4, FS_CardinalityType, Zenon
<1> QED BY <1>4, <1>5 DEF OpenAfter

\* An invocation opens one level, an exit closes one, no other line does either.
LEMMA OpenStep ==
    ASSUME NEW s \in Seq(Lines), NEW line \in Lines
    PROVE  OpenAfter(Append(s, line), Len(s) + 1) =
             CASE line.log = "invoke" -> OpenAfter(s, Len(s)) + 1
               [] IsExit(line) -> OpenAfter(s, Len(s)) - 1
               [] OTHER -> OpenAfter(s, Len(s))
<1> DEFINE t == Append(s, line)
           n == Len(s)
           X(u, m) == {j \in 1..m : IsExit(u[j])}
<1>1. n \in Nat /\ (\A k \in 1..n : t[k] = s[k]) /\ t[n + 1] = line
  BY AppendFacts
<1> HIDE DEF t, n
<1>2. Invokes(t, n + 1) = IF line.log = "invoke" THEN Invokes(s, n) \cup {n + 1} ELSE Invokes(s, n)
  BY <1>1 DEF Invokes
<1>3. X(t, n + 1) = IF IsExit(line) THEN X(s, n) \cup {n + 1} ELSE X(s, n)
  <2>1. 1..(n + 1) = (1..n) \cup {n + 1}
    BY <1>1
  <2> QED BY <1>1, <2>1, Zenon
<1>4. n + 1 \notin Invokes(s, n) /\ n + 1 \notin X(s, n)
  BY <1>1 DEF Invokes
<1>5. /\ IsFiniteSet(Invokes(s, n)) /\ IsFiniteSet(X(s, n))
      /\ Cardinality(Invokes(s, n)) \in Nat /\ Cardinality(X(s, n)) \in Nat
  BY <1>1, OpenInt, FS_CardinalityType, Zenon
<1>6. Cardinality(Invokes(s, n) \cup {n + 1}) = Cardinality(Invokes(s, n)) + 1
  BY <1>4, <1>5, FS_AddElement, Zenon
<1>7. Cardinality(X(s, n) \cup {n + 1}) = Cardinality(X(s, n)) + 1
  BY <1>4, <1>5, FS_AddElement, Zenon
<1>8. line.log = "invoke" => ~IsExit(line)
  BY DEF IsExit
<1>9. /\ OpenAfter(t, n + 1) = Cardinality(Invokes(t, n + 1)) - Cardinality(X(t, n + 1))
      /\ OpenAfter(s, n) = Cardinality(Invokes(s, n)) - Cardinality(X(s, n))
  BY Zenon DEF OpenAfter
<1> HIDE DEF X
<1> QED BY <1>2, <1>3, <1>5, <1>6, <1>7, <1>8, <1>9 DEF t, n

\* Line j of a notification opens or closes a level.
LEMMA OpenPrefix ==
    ASSUME NEW s \in Seq(Lines), NEW j \in 1..Len(s)
    PROVE  /\ s[j].log = "invoke" => OpenAfter(s, j) = OpenAfter(s, j - 1) + 1
           /\ ~IsExit(s[j]) /\ s[j].log # "invoke" => OpenAfter(s, j) = OpenAfter(s, j - 1)
<1> DEFINE p == SubSeq(s, 1, j - 1)
           q == Append(p, s[j])
<1>1. Len(s) \in Nat /\ j \in Nat /\ j - 1 \in 0..Len(s) /\ j - 1 + 1 = j
  OBVIOUS
<1>2. p \in Seq(Lines) /\ Len(p) = j - 1 /\ s[j] \in Lines
  OBVIOUS
<1>3. /\ q[j] = s[j] /\ \A k \in 1..(j - 1) : q[k] = s[k] /\ p[k] = s[k]
  BY <1>1, <1>2
<1>8. OpenAfter(q, j) =
        CASE s[j].log = "invoke" -> OpenAfter(p, j - 1) + 1
          [] IsExit(s[j]) -> OpenAfter(p, j - 1) - 1
          [] OTHER -> OpenAfter(p, j - 1)
  BY <1>1, <1>2, OpenStep, Zenon
<1> HIDE DEF p, q
<1>4. Invokes(p, j - 1) = Invokes(s, j - 1) /\ Invokes(q, j) = Invokes(s, j)
  <2>1. \A k \in 1..j : k \in 1..(j - 1) \/ k = j
    BY <1>1
  <2> QED BY <1>3, <2>1, Zenon DEF Invokes
<1>5. {k \in 1..(j - 1) : IsExit(p[k])} = {k \in 1..(j - 1) : IsExit(s[k])}
  BY <1>3, Zenon
<1>6. {k \in 1..j : IsExit(q[k])} = {k \in 1..j : IsExit(s[k])}
  <2>1. \A k \in 1..j : k \in 1..(j - 1) \/ k = j
    BY <1>1
  <2> QED BY <1>3, <2>1, Zenon
<1>7. OpenAfter(p, j - 1) = OpenAfter(s, j - 1) /\ OpenAfter(q, j) = OpenAfter(s, j)
  BY <1>4, <1>5, <1>6, Zenon DEF OpenAfter
<1>9. OpenAfter(s, j - 1) \in Int
  <2>1. j - 1 \in Nat
    OBVIOUS
  <2> QED BY <2>1, OpenInt, Zenon
<1> QED BY <1>7, <1>8, <1>9 DEF IsExit

\* The highest position of a non-empty finite set of positions.
LEMMA MaxIs ==
    ASSUME NEW S \in SUBSET Nat, NEW x \in S, \A y \in S : y <= x
    PROVE  Max(S) = x
<1>1. \A y \in S : x >= y
  OBVIOUS
<1>2. Max(S) \in S /\ \A y \in S : Max(S) >= y
  BY <1>1, Zenon DEF Max
<1>3. Max(S) >= x /\ x >= Max(S) /\ Max(S) \in Nat /\ x \in Nat
  BY <1>1, <1>2, Zenon
<1> QED BY <1>3

\* The lowest position of a set that has one.
LEMMA MinIs ==
    ASSUME NEW S \in SUBSET Nat, NEW x \in S, \A y \in S : x <= y
    PROVE  Min(S) = x
<1>1. \A y \in S : x =< y
  OBVIOUS
<1>2. Min(S) \in S /\ \A y \in S : Min(S) =< y
  BY <1>1, Zenon DEF Min
<1>3. Min(S) =< x /\ x =< Min(S) /\ Min(S) \in Nat /\ x \in Nat
  BY <1>1, <1>2, Zenon
<1> QED BY <1>3

\* An invocation opens its depth, every other depth keeps its opener.
LEMMA OpenedStep ==
    ASSUME NEW s \in Seq(Lines), NEW line \in Lines, NEW d
    PROVE  OpenedBy(Append(s, line), Len(s) + 1, d) =
             IF line.log = "invoke" /\ line.depth = d THEN Len(s) + 1
             ELSE OpenedBy(s, Len(s), d)
<1> DEFINE t == Append(s, line)
           n == Len(s)
<1>1. n \in Nat /\ (\A k \in 1..n : t[k] = s[k]) /\ t[n + 1] = line
  BY AppendFacts
<1> HIDE DEF t, n
<1> DEFINE S == {j \in Invokes(s, n) : s[j].depth = d}
           T == {j \in Invokes(t, n + 1) : t[j].depth = d}
<1>2. T = IF line.log = "invoke" /\ line.depth = d THEN S \cup {n + 1} ELSE S
  BY <1>1 DEF Invokes
<1>3. S \in SUBSET (1..n)
  BY DEF Invokes
<1>4. OpenedBy(t, n + 1, d) = Max(T) /\ OpenedBy(s, n, d) = Max(S)
  BY Zenon DEF OpenedBy
<1> HIDE DEF S, T
<1>5. CASE line.log = "invoke" /\ line.depth = d
  <2>1. T \in SUBSET Nat /\ n + 1 \in T /\ \A y \in T : y <= n + 1
    BY <1>1, <1>2, <1>3, <1>5
  <2>2. Max(T) = n + 1
    BY <2>1, MaxIs, Zenon
  <2> QED BY <1>4, <1>5, <2>2 DEF t, n
<1>6. CASE ~(line.log = "invoke" /\ line.depth = d)
  BY <1>2, <1>4, <1>6 DEF t, n
<1> QED BY <1>5, <1>6

\* The kinds of lines and their fields.
LEMMA LineFacts ==
    ASSUME NEW line \in Lines
    PROVE  /\ line.log \in {"invoke", "success", "failed", "data", "consumed", "text", "truncated"}
           /\ line.log = "invoke" => line.program \in Programs /\ line.depth \in Nat \ {0}
           /\ IsExit(line) => line.program \in Programs
           /\ line.log = "data" => line.payload \in Payloads
           /\ IsExit(line) <=> line.log \in {"success", "failed"}
BY LogsAssumption DEF Lines, Line, IsExit

\* The active invocation of a prefix is one of its lines.
LEMMA ActiveIn ==
    ASSUME NEW s \in Seq(Lines), PrefixInv(s), NEW m \in 0..Len(s), OpenAfter(s, m) > 0
    PROVE  Active(s, m) \in 1..m /\ Active(s, m) \in DOMAIN s
<1>1. OpenAfter(s, m) \in 1..OpenAfter(s, m)
  BY DEF PrefixInv
<1>2. OpenedBy(s, m, OpenAfter(s, m)) \in Invokes(s, m)
  BY <1>1, Zenon DEF PrefixInv
<1>3. Active(s, m) \in 1..m
  BY <1>2, Zenon DEF Active, Invokes
<1> QED BY <1>3

\* What is said of a line is not changed by a later line.
LEMMA SameCalls ==
    ASSUME NEW s \in Seq(Lines), NEW line \in Lines, PrefixInv(s),
           \A j \in DOMAIN s : LineFits(s, j),
           NEW j \in DOMAIN s
    PROVE  CallsItself(Append(s, line), j) <=> CallsItself(s, j)
<1> DEFINE t == Append(s, line)
<1>1. Len(s) \in Nat /\ j \in 1..Len(s) /\ j \in 0..Len(s) /\ (\A k \in 1..Len(s) : t[k] = s[k])
  BY AppendFacts
<1>2. \A d : OpenedBy(t, j, d) = OpenedBy(s, j, d)
  BY <1>1, SamePrefix, Zenon
<1>3. /\ OpenAfter(s, j) \in Nat
      /\ \A d \in 1..OpenAfter(s, j) : OpenedBy(s, j, d) \in 1..j
  BY <1>1 DEF PrefixInv, Invokes
<1> HIDE DEF t
<1>4. \A k \in 1..j : t[k] = s[k]
  BY <1>1
<1>5. s[j].log = "invoke" => s[j].depth = OpenAfter(s, j)
  <2> SUFFICES ASSUME s[j].log = "invoke" PROVE s[j].depth = OpenAfter(s, j)
    OBVIOUS
  <2>1. s[j].depth = OpenAfter(s, j - 1) + 1
    BY DEF LineFits
  <2>2. j - 1 \in Nat /\ j = (j - 1) + 1
    BY <1>1
  <2> QED BY <1>1, <2>1, OpenPrefix
<1>6. CallsItself(t, j) <=> CallsItself(s, j)
  <2>1. t[j] = s[j]
    BY <1>1
  <2>2. s[j].log = "invoke" => \A d \in 1..(s[j].depth - 1) : t[OpenedBy(t, j, d)] = s[OpenedBy(s, j, d)]
    <3> SUFFICES ASSUME s[j].log = "invoke", NEW d \in 1..(s[j].depth - 1)
                 PROVE  t[OpenedBy(t, j, d)] = s[OpenedBy(s, j, d)]
      BY Zenon
    <3>1. d \in 1..OpenAfter(s, j)
      BY <1>3, <1>5
    <3> QED BY <1>2, <1>3, <1>4, <3>1, Zenon
  <2> QED BY <2>1, <2>2, Zenon DEF CallsItself
<1> QED BY <1>6, Zenon DEF t

\* No later line makes an earlier one the last thing said, and the line that
\* follows an earlier one stays the same.
LEMMA FollowStep ==
    ASSUME NEW s \in Seq(Lines), NEW line \in Lines
    PROVE  LET t == Append(s, line)
               n == Len(s) IN
           /\ \A j \in 1..n : Quiet(t, j) <=> Quiet(s, j) /\ line.log = "consumed"
           /\ Quiet(t, n + 1)
           /\ \A j, k \in 1..n : FollowedBy(t, j, k) <=> FollowedBy(s, j, k)
           /\ \A j \in 1..n : FollowedBy(t, j, n + 1) <=> Quiet(s, j) /\ line.log # "consumed"
           /\ \A k \in 1..(n + 1) : ~FollowedBy(t, n + 1, k)
<1> DEFINE t == Append(s, line)
           n == Len(s)
<1>1. /\ n \in Nat /\ Len(t) = n + 1
      /\ \A k \in 1..n : t[k] = s[k]
      /\ t[n + 1] = line
  BY AppendFacts
<1>s. n = Len(s)
  OBVIOUS
<1> HIDE DEF t, n
<1>2. \A j \in 1..n : Quiet(t, j) <=> Quiet(s, j) /\ line.log = "consumed"
  <2> TAKE j \in 1..n
  <2>1. (j + 1)..(n + 1) = ((j + 1)..n) \cup {n + 1} /\ (j + 1)..n \subseteq 1..n
    BY <1>1
  <2> QED BY <1>1, <1>s, <2>1, Zenon DEF Quiet
<1>3. Quiet(t, n + 1)
  BY <1>1 DEF Quiet
<1>4. \A j, k \in 1..n : FollowedBy(t, j, k) <=> FollowedBy(s, j, k)
  <2> TAKE j, k \in 1..n
  <2>1. /\ k \in (j + 1)..(n + 1) <=> k \in (j + 1)..n
        /\ (j + 1)..(k - 1) \subseteq 1..n
    BY <1>1
  <2> QED BY <1>1, <1>s, <2>1, Zenon DEF FollowedBy
<1>5. \A j \in 1..n : FollowedBy(t, j, n + 1) <=> Quiet(s, j) /\ line.log # "consumed"
  <2> TAKE j \in 1..n
  <2>1. n + 1 \in (j + 1)..(n + 1) /\ (n + 1) - 1 = n /\ (j + 1)..n \subseteq 1..n
    BY <1>1
  <2> QED BY <1>1, <1>s, <2>1, Zenon DEF FollowedBy, Quiet
<1>6. \A k \in 1..(n + 1) : ~FollowedBy(t, n + 1, k)
  BY <1>1 DEF FollowedBy
<1> QED BY <1>2, <1>3, <1>4, <1>5, <1>6, Zenon DEF t, n

\* Every line still has its first follower.
LEMMA FollowInvStep ==
    ASSUME NEW s \in Seq(Lines), NEW line \in Lines, FollowInv(s)
    PROVE  FollowInv(Append(s, line))
<1> DEFINE t == Append(s, line)
           n == Len(s)
<1>1. n \in Nat /\ DOMAIN s = 1..n /\ DOMAIN t = 1..(n + 1)
  BY AppendFacts
<1>2. /\ \A j \in 1..n : Quiet(t, j) <=> Quiet(s, j) /\ line.log = "consumed"
      /\ Quiet(t, n + 1)
      /\ \A j, k \in 1..n : FollowedBy(t, j, k) <=> FollowedBy(s, j, k)
      /\ \A j \in 1..n : FollowedBy(t, j, n + 1) <=> Quiet(s, j) /\ line.log # "consumed"
  BY FollowStep
<1> HIDE DEF t, n
<1>3. \A j \in 1..(n + 1) : j \in 1..n \/ j = n + 1
  BY <1>1
<1>4. n + 1 \in 1..(n + 1) /\ \A j \in 1..n : j \in 1..(n + 1)
  BY <1>1
<1>5. \A j \in 1..n : Quiet(s, j) \/ \E k \in 1..n : FollowedBy(s, j, k)
  BY <1>1, Zenon DEF FollowInv
<1> QED BY <1>1, <1>2, <1>3, <1>4, <1>5, Zenon DEF FollowInv, t

\* A line that fits keeps an opener for every open depth.
LEMMA PrefixInvStep ==
    ASSUME NEW s \in Seq(Lines), NEW line \in Lines, PrefixInv(s),
           line.log = "invoke" => line.depth = OpenAfter(s, Len(s)) + 1,
           IsExit(line) => OpenAfter(s, Len(s)) > 0
    PROVE  PrefixInv(Append(s, line))
<1> DEFINE t == Append(s, line)
           n == Len(s)
<1>1. /\ n \in Nat /\ Len(t) = n + 1
      /\ \A k \in 1..n : t[k] = s[k]
      /\ t[n + 1] = line
  BY AppendFacts
<1>2. ASSUME NEW j \in 0..n
      PROVE  /\ OpenAfter(t, j) \in Nat
             /\ \A d \in 1..OpenAfter(t, j) :
                  OpenedBy(t, j, d) \in Invokes(t, j) /\ t[OpenedBy(t, j, d)].depth = d
  <2>1. /\ Invokes(t, j) = Invokes(s, j) /\ OpenAfter(t, j) = OpenAfter(s, j)
        /\ \A d : OpenedBy(t, j, d) = OpenedBy(s, j, d)
    BY SamePrefix, Zenon
  <2>2. /\ OpenAfter(s, j) \in Nat
        /\ \A d \in 1..OpenAfter(s, j) :
             OpenedBy(s, j, d) \in Invokes(s, j) /\ s[OpenedBy(s, j, d)].depth = d
    BY Zenon DEF PrefixInv
  <2>3. \A k \in Invokes(s, j) : t[k] = s[k]
    BY <1>1 DEF Invokes
  <2> HIDE DEF t, n
  <2> QED BY <2>1, <2>2, <2>3, Zenon
<1>3. /\ OpenAfter(t, n + 1) \in Nat
      /\ \A d \in 1..OpenAfter(t, n + 1) :
           OpenedBy(t, n + 1, d) \in Invokes(t, n + 1) /\ t[OpenedBy(t, n + 1, d)].depth = d
  <2>1. OpenAfter(t, n + 1) = CASE line.log = "invoke" -> OpenAfter(s, n) + 1
                                [] IsExit(line) -> OpenAfter(s, n) - 1
                                [] OTHER -> OpenAfter(s, n)
    BY OpenStep, Zenon
  <2>2. \A d : OpenedBy(t, n + 1, d) =
                 IF line.log = "invoke" /\ line.depth = d THEN n + 1 ELSE OpenedBy(s, n, d)
    BY OpenedStep, Zenon
  <2>3. n \in 0..n
    BY <1>1
  <2>4. /\ OpenAfter(s, n) \in Nat
        /\ \A d \in 1..OpenAfter(s, n) :
             OpenedBy(s, n, d) \in Invokes(s, n) /\ s[OpenedBy(s, n, d)].depth = d
    BY <2>3, Zenon DEF PrefixInv
  <2>5. /\ \A k \in Invokes(s, n) : k \in Invokes(t, n + 1) /\ t[k] = s[k]
        /\ line.log = "invoke" => n + 1 \in Invokes(t, n + 1)
    BY <1>1 DEF Invokes
  <2>6. /\ line.log = "invoke" => line.depth = OpenAfter(s, n) + 1
        /\ IsExit(line) => OpenAfter(s, n) > 0
    OBVIOUS
  <2> HIDE DEF t, n
  <2>7. OpenAfter(t, n + 1) \in Nat
    BY <2>1, <2>4, <2>6
  <2>8. \A d \in 1..OpenAfter(t, n + 1) :
          d \in 1..OpenAfter(s, n) \/ (line.log = "invoke" /\ line.depth = d)
    BY <2>1, <2>4, <2>6
  <2> QED BY <1>1, <2>2, <2>4, <2>5, <2>7, <2>8, Zenon
<1> HIDE DEF t, n
<1>4. \A j \in 0..Len(t) : j \in 0..n \/ j = n + 1
  BY <1>1
<1> QED BY <1>2, <1>3, <1>4, Zenon DEF PrefixInv, t

\* The lines so far still fit, and the new one fits the invocations it meets.
LEMMA FitsStep ==
    ASSUME NEW s \in Seq(Lines), NEW line \in Lines, PrefixInv(s),
           \A j \in DOMAIN s : LineFits(s, j)
    PROVE  /\ \A j \in DOMAIN s : LineFits(Append(s, line), j)
           /\ LineFits(Append(s, line), Len(s) + 1) <=>
                /\ line.log # "truncated"
                /\ line.log = "invoke" => line.depth = OpenAfter(s, Len(s)) + 1
                /\ IsExit(line) => /\ OpenAfter(s, Len(s)) > 0
                                   /\ s[Active(s, Len(s))].program = line.program
<1> DEFINE t == Append(s, line)
           n == Len(s)
<1>1. /\ n \in Nat /\ DOMAIN s = 1..n
      /\ \A k \in 1..n : t[k] = s[k]
      /\ t[n + 1] = line
  BY AppendFacts
<1>2. ASSUME NEW m \in 0..n
      PROVE  /\ OpenAfter(t, m) = OpenAfter(s, m) /\ Active(t, m) = Active(s, m)
             /\ OpenAfter(s, m) > 0 => t[Active(s, m)] = s[Active(s, m)]
  <2>1. OpenAfter(t, m) = OpenAfter(s, m) /\ Active(t, m) = Active(s, m)
    BY SamePrefix, Zenon
  <2>2. OpenAfter(s, m) > 0 => Active(s, m) \in 1..n
    BY <1>1, ActiveIn, Zenon
  <2> QED BY <1>1, <2>1, <2>2, Zenon
<1>3. \A j \in 1..n : j - 1 \in 0..n
  BY <1>1
<1>4. (n + 1) - 1 = n /\ n \in 0..n
  BY <1>1
<1>5. \A j \in 1..n : LineFits(s, j)
  BY <1>1, Zenon
<1> HIDE DEF t, n
<1>6. ASSUME NEW j \in 1..n PROVE LineFits(t, j)
  <2>1. LineFits(s, j) /\ t[j] = s[j] /\ j - 1 \in 0..n
    BY <1>1, <1>3, <1>5, Zenon
  <2>2. PICK m \in 0..n : m = j - 1
    BY <2>1, Zenon
  <2>3. /\ OpenAfter(t, m) = OpenAfter(s, m) /\ Active(t, m) = Active(s, m)
        /\ OpenAfter(s, m) > 0 => t[Active(s, m)] = s[Active(s, m)]
    BY <1>2
  <2> QED BY <2>1, <2>2, <2>3, Zenon DEF LineFits
<1>7. LineFits(t, n + 1) <=>
                /\ line.log # "truncated"
                /\ line.log = "invoke" => line.depth = OpenAfter(s, n) + 1
                /\ IsExit(line) => /\ OpenAfter(s, n) > 0
                                   /\ s[Active(s, n)].program = line.program
  <2>1. /\ OpenAfter(t, n) = OpenAfter(s, n) /\ Active(t, n) = Active(s, n)
        /\ OpenAfter(s, n) > 0 => t[Active(s, n)] = s[Active(s, n)]
    BY <1>2, <1>4
  <2> QED BY <1>1, <1>4, <2>1, Zenon DEF LineFits
<1> QED BY <1>1, <1>6, <1>7, Zenon DEF t, n

\* A data line is an event when the active invocation runs the program, and a
\* direct one when that invocation is not a call of the program to itself.
LEMMA EventsStep ==
    ASSUME NEW s \in Seq(Lines), NEW line \in Lines, PrefixInv(s),
           \A j \in DOMAIN s : LineFits(s, j)
    PROVE  LET emits == /\ line.log = "data" /\ OpenAfter(s, Len(s)) > 0
                        /\ s[Active(s, Len(s))].program = Program IN
           /\ Events(Append(s, line)) = Events(s) \cup (IF emits THEN {Len(s) + 1} ELSE {})
           /\ Direct(Append(s, line)) =
                Direct(s) \cup (IF emits /\ ~CallsItself(s, Active(s, Len(s)))
                                THEN {Len(s) + 1} ELSE {})
<1> DEFINE t == Append(s, line)
           n == Len(s)
           emits == line.log = "data" /\ OpenAfter(s, n) > 0 /\ s[Active(s, n)].program = Program
<1>1. /\ n \in Nat /\ DOMAIN s = 1..n /\ DOMAIN t = 1..(n + 1)
      /\ \A k \in 1..n : t[k] = s[k]
      /\ t[n + 1] = line
  BY AppendFacts
<1>2. ASSUME NEW j \in 1..n
      PROVE  /\ OpenAfter(t, j) = OpenAfter(s, j) /\ Active(t, j) = Active(s, j)
             /\ OpenAfter(s, j) > 0 =>
                  /\ Active(s, j) \in 1..n /\ t[Active(s, j)] = s[Active(s, j)]
                  /\ CallsItself(t, Active(s, j)) <=> CallsItself(s, Active(s, j))
  <2>1. j \in 0..n
    BY <1>1
  <2>2. OpenAfter(t, j) = OpenAfter(s, j) /\ Active(t, j) = Active(s, j)
    BY <2>1, SamePrefix, Zenon
  <2>3. OpenAfter(s, j) > 0 => Active(s, j) \in 1..n
    BY <1>1, <2>1, ActiveIn, Zenon
  <2>4. \A k \in 1..n : CallsItself(t, k) <=> CallsItself(s, k)
    BY <1>1, SameCalls, Zenon
  <2> HIDE DEF t, n
  <2> QED BY <1>1, <2>2, <2>3, <2>4, Zenon
<1>3. line.log = "data" =>
        /\ OpenAfter(t, n + 1) = OpenAfter(s, n) /\ Active(t, n + 1) = Active(s, n)
        /\ OpenAfter(s, n) > 0 =>
             /\ t[Active(s, n)] = s[Active(s, n)]
             /\ CallsItself(t, Active(s, n)) <=> CallsItself(s, Active(s, n))
  <2> SUFFICES ASSUME line.log = "data"
               PROVE  /\ OpenAfter(t, n + 1) = OpenAfter(s, n) /\ Active(t, n + 1) = Active(s, n)
                      /\ OpenAfter(s, n) > 0 =>
                           /\ t[Active(s, n)] = s[Active(s, n)]
                           /\ CallsItself(t, Active(s, n)) <=> CallsItself(s, Active(s, n))
    BY Zenon
  <2>1. OpenAfter(t, n + 1) = CASE line.log = "invoke" -> OpenAfter(s, n) + 1
                                [] IsExit(line) -> OpenAfter(s, n) - 1
                                [] OTHER -> OpenAfter(s, n)
    BY OpenStep, Zenon
  <2>2. \A d : OpenedBy(t, n + 1, d) =
                 IF line.log = "invoke" /\ line.depth = d THEN n + 1 ELSE OpenedBy(s, n, d)
    BY OpenedStep, Zenon
  <2>3. n \in 0..n
    BY <1>1
  <2>4. OpenAfter(s, n) > 0 => Active(s, n) \in 1..n
    BY <2>3, ActiveIn, Zenon
  <2>5. \A k \in 1..n : CallsItself(t, k) <=> CallsItself(s, k)
    BY <1>1, SameCalls, Zenon
  <2>6. line.log # "invoke" /\ ~IsExit(line)
    BY DEF IsExit
  <2> HIDE DEF t, n
  <2>7. OpenAfter(t, n + 1) = OpenAfter(s, n)
    BY <2>1, <2>6
  <2>8. Active(t, n + 1) = Active(s, n)
    BY <2>2, <2>6, <2>7, Zenon DEF Active
  <2> QED BY <1>1, <2>4, <2>5, <2>7, <2>8, Zenon
<1>4. \A j \in 1..(n + 1) : j \in 1..n \/ j = n + 1
  BY <1>1
<1>5. n + 1 \in 1..(n + 1) /\ \A j \in 1..n : j \in 1..(n + 1) /\ j # n + 1
  BY <1>1
<1> HIDE DEF t, n
<1>6. \A j \in 1..n : j \in Events(t) <=> j \in Events(s)
  BY <1>1, <1>2, <1>5, Zenon DEF Events
<1>7. n + 1 \in Events(t) <=> emits
  BY <1>1, <1>3, <1>5, Zenon DEF Events
<1>8. Events(t) \subseteq 1..(n + 1) /\ Events(s) \subseteq 1..n
  BY <1>1, Zenon DEF Events
<1>9. Events(t) = Events(s) \cup (IF emits THEN {n + 1} ELSE {})
  <2> HIDE DEF emits
  <2> QED BY <1>4, <1>5, <1>6, <1>7, <1>8, Zenon
<1>10. \A j \in 1..n : j \in Direct(t) <=> j \in Direct(s)
  BY <1>2, <1>6, Zenon DEF Direct, Events
<1>11. n + 1 \in Direct(t) <=> emits /\ ~CallsItself(s, Active(s, n))
  BY <1>3, <1>7, Zenon DEF Direct
<1>12. Direct(t) \subseteq 1..(n + 1) /\ Direct(s) \subseteq 1..n
  BY <1>8, Zenon DEF Direct
<1>13. Direct(t) = Direct(s) \cup (IF emits /\ ~CallsItself(s, Active(s, n)) THEN {n + 1} ELSE {})
  <2> HIDE DEF emits
  <2> QED BY <1>4, <1>5, <1>10, <1>11, <1>12, Zenon
<1> QED BY <1>9, <1>13, Zenon DEF t, n

\* An invocation calls itself when the program runs below it.
LEMMA SelfStep ==
    ASSUME NEW s \in Seq(Lines), NEW line \in Lines, PrefixInv(s),
           line.log = "invoke" => line.depth = OpenAfter(s, Len(s)) + 1
    PROVE  CallsItself(Append(s, line), Len(s) + 1) <=>
             /\ line.log = "invoke" /\ line.program = Program
             /\ \E d \in 1..OpenAfter(s, Len(s)) : s[OpenedBy(s, Len(s), d)].program = Program
<1> DEFINE t == Append(s, line)
           n == Len(s)
<1>1. /\ n \in Nat /\ n \in 0..n
      /\ \A k \in 1..n : t[k] = s[k]
      /\ t[n + 1] = line
  BY AppendFacts
<1>2. \A d : OpenedBy(t, n + 1, d) =
               IF line.log = "invoke" /\ line.depth = d THEN n + 1 ELSE OpenedBy(s, n, d)
  BY OpenedStep, Zenon
<1>3. OpenAfter(s, n) \in Nat /\ \A d \in 1..OpenAfter(s, n) : OpenedBy(s, n, d) \in 1..n
  BY <1>1, Zenon DEF PrefixInv, Invokes
<1>4. line.log = "invoke" => /\ 1..(line.depth - 1) = 1..OpenAfter(s, n)
                             /\ \A d \in 1..OpenAfter(s, n) : line.depth # d
  BY <1>3
<1> HIDE DEF t, n
<1>5. \A d \in 1..OpenAfter(s, n) : line.log = "invoke" => t[OpenedBy(t, n + 1, d)] = s[OpenedBy(s, n, d)]
  BY <1>1, <1>2, <1>3, <1>4, Zenon
<1>6. CallsItself(t, n + 1) <=>
             /\ line.log = "invoke" /\ line.program = Program
             /\ \E d \in 1..OpenAfter(s, n) : s[OpenedBy(s, n, d)].program = Program
  BY <1>1, <1>4, <1>5, Zenon DEF CallsItself
<1> QED BY <1>6, Zenon DEF t, n

\* How a line makes a fault: it comes between an event and its call, it comes
\* between an announced call and its end, or it ends a call nobody announced.
LEMMA FaultStep ==
    ASSUME NEW s \in Seq(Lines), NEW line \in Lines, PrefixInv(s),
           \A j \in DOMAIN s : LineFits(s, j)
    PROVE  Fault(Append(s, line)) <=>
             \/ Fault(s)
             \/ /\ line.log # "consumed"
                /\ ~CallsItself(Append(s, line), Len(s) + 1)
                /\ \E j \in Direct(s) : Quiet(s, j)
             \/ /\ line.log # "consumed" /\ line.log # "success"
                /\ \E j \in Direct(s), k \in DOMAIN s :
                     FollowedBy(s, j, k) /\ CallsItself(s, k) /\ Quiet(s, k)
             \/ /\ line.log = "success"
                /\ \E k \in DOMAIN s : /\ CallsItself(s, k) /\ Quiet(s, k)
                                       /\ ~\E j \in Direct(s) : FollowedBy(s, j, k)
<1> DEFINE t == Append(s, line)
           n == Len(s)
           N == n + 1
<1>1. /\ n \in Nat /\ DOMAIN s = 1..n /\ DOMAIN t = 1..N
      /\ \A k \in 1..n : t[k] = s[k]
      /\ t[N] = line
  BY AppendFacts
<1>2. /\ \A j \in 1..n : Quiet(t, j) <=> Quiet(s, j) /\ line.log = "consumed"
      /\ \A j, k \in 1..n : FollowedBy(t, j, k) <=> FollowedBy(s, j, k)
      /\ \A j \in 1..n : FollowedBy(t, j, N) <=> Quiet(s, j) /\ line.log # "consumed"
      /\ \A k \in 1..N : ~FollowedBy(t, N, k)
  BY FollowStep
<1>3. \A k \in 1..n : CallsItself(t, k) <=> CallsItself(s, k)
  BY <1>1, SameCalls, Zenon
<1>4. Direct(s) \subseteq 1..n
  BY <1>1, Zenon DEF Direct, Events
<1>5. Direct(s) \subseteq Direct(t) /\ \A j \in Direct(t) : j \in Direct(s) \/ j = N
  <2>1. \E X \in SUBSET {N} : Direct(t) = Direct(s) \cup X
    BY EventsStep, Zenon
  <2> QED BY <2>1, Zenon
<1>6. \A k : k \in 1..N <=> k \in 1..n \/ k = N
  BY <1>1
<1> HIDE DEF t, n, N
<1>7. ASSUME NEW j \in Direct(s)
      PROVE  Lost(t, j) <=> \/ Lost(s, j)
                            \/ line.log # "consumed" /\ ~CallsItself(t, N) /\ Quiet(s, j)
                            \/ /\ line.log # "consumed" /\ line.log # "success"
                               /\ \E k \in 1..n : FollowedBy(s, j, k) /\ CallsItself(s, k) /\ Quiet(s, k)
  <2>1. j \in 1..n
    BY <1>4
  <2>2. ASSUME NEW k \in 1..n
        PROVE  (\E l \in 1..N : FollowedBy(t, k, l) /\ t[l].log # "success") <=>
                 \/ \E l \in 1..n : FollowedBy(s, k, l) /\ s[l].log # "success"
                 \/ Quiet(s, k) /\ line.log # "consumed" /\ line.log # "success"
    BY <1>1, <1>2, <1>6, Zenon
  <2>3. ~\E l \in 1..N : FollowedBy(t, N, l)
    BY <1>2, Zenon
  <2>4. Lost(t, j) <=>
          \/ \E k \in 1..n : /\ FollowedBy(s, j, k)
                             /\ CallsItself(s, k) =>
                                  \E l \in 1..N : FollowedBy(t, k, l) /\ t[l].log # "success"
          \/ Quiet(s, j) /\ line.log # "consumed" /\ ~CallsItself(t, N)
    BY <1>1, <1>2, <1>3, <1>6, <2>1, <2>3, Zenon DEF Lost
  <2> QED BY <1>1, <2>2, <2>4, Zenon DEF Lost
<1>8. ASSUME NEW k \in 1..n
      PROVE  Silent(t, k) <=> \/ Silent(s, k)
                              \/ CallsItself(s, k) /\ Quiet(s, k) /\ line.log = "success"
  <2>1. line.log = "success" => line.log # "consumed"
    OBVIOUS
  <2>2. (\E l \in 1..N : FollowedBy(t, k, l) /\ t[l].log = "success") <=>
          \/ \E l \in 1..n : FollowedBy(s, k, l) /\ s[l].log = "success"
          \/ Quiet(s, k) /\ line.log = "success"
    <3>1. (\E l \in 1..N : FollowedBy(t, k, l) /\ t[l].log = "success") <=>
            \/ \E l \in 1..n : FollowedBy(t, k, l) /\ t[l].log = "success"
            \/ FollowedBy(t, k, N) /\ t[N].log = "success"
      BY <1>6, Zenon
    <3>2. (\E l \in 1..n : FollowedBy(t, k, l) /\ t[l].log = "success") <=>
            \E l \in 1..n : FollowedBy(s, k, l) /\ s[l].log = "success"
      <4>1. ASSUME NEW l \in 1..n
            PROVE  FollowedBy(t, k, l) /\ t[l].log = "success" <=>
                     FollowedBy(s, k, l) /\ s[l].log = "success"
        <5>1. t[l] = s[l] /\ (FollowedBy(t, k, l) <=> FollowedBy(s, k, l))
          BY <1>1, <1>2, Zenon
        <5> QED BY <5>1, Zenon
      <4> QED BY <4>1, Zenon
    <3>3. FollowedBy(t, k, N) /\ t[N].log = "success" <=> Quiet(s, k) /\ line.log = "success"
      BY <1>1, <1>2, <2>1, Zenon
    <3> QED BY <3>1, <3>2, <3>3, Zenon
  <2> QED BY <1>1, <1>3, <2>2, Zenon DEF Silent
<1>9. ~Silent(t, N)
  BY <1>1, <1>2, Zenon DEF Silent
<1>10. \A k \in 1..n : (\E j \in Direct(t) : FollowedBy(t, j, k)) <=> \E j \in Direct(s) : FollowedBy(s, j, k)
  BY <1>2, <1>4, <1>5, <1>6, Zenon
<1>11. ~Lost(t, N)
  BY <1>1, <1>2, Zenon DEF Lost
<1>12. (\E j \in Direct(t) : Lost(t, j)) <=> \E j \in Direct(s) : Lost(t, j)
  BY <1>5, <1>11, Zenon
<1>13. (\E k \in DOMAIN t : Silent(t, k) /\ ~\E j \in Direct(t) : FollowedBy(t, j, k)) <=>
         \E k \in 1..n : Silent(t, k) /\ ~\E j \in Direct(s) : FollowedBy(s, j, k)
  BY <1>1, <1>6, <1>9, <1>10, Zenon
<1>14. Fault(t) <=>
             \/ Fault(s)
             \/ /\ line.log # "consumed" /\ ~CallsItself(t, N)
                /\ \E j \in Direct(s) : Quiet(s, j)
             \/ /\ line.log # "consumed" /\ line.log # "success"
                /\ \E j \in Direct(s), k \in 1..n :
                     FollowedBy(s, j, k) /\ CallsItself(s, k) /\ Quiet(s, k)
             \/ /\ line.log = "success"
                /\ \E k \in 1..n : /\ CallsItself(s, k) /\ Quiet(s, k)
                                   /\ ~\E j \in Direct(s) : FollowedBy(s, j, k)
  <2>1. (\E j \in Direct(s) : Lost(t, j)) <=>
          \/ \E j \in Direct(s) : Lost(s, j)
          \/ /\ line.log # "consumed" /\ ~CallsItself(t, N)
             /\ \E j \in Direct(s) : Quiet(s, j)
          \/ /\ line.log # "consumed" /\ line.log # "success"
             /\ \E j \in Direct(s), k \in 1..n :
                  FollowedBy(s, j, k) /\ CallsItself(s, k) /\ Quiet(s, k)
    BY <1>7, Zenon
  <2>2. (\E k \in 1..n : Silent(t, k) /\ ~\E j \in Direct(s) : FollowedBy(s, j, k)) <=>
          \/ \E k \in 1..n : Silent(s, k) /\ ~\E j \in Direct(s) : FollowedBy(s, j, k)
          \/ /\ line.log = "success"
             /\ \E k \in 1..n : /\ CallsItself(s, k) /\ Quiet(s, k)
                                /\ ~\E j \in Direct(s) : FollowedBy(s, j, k)
    BY <1>8, Zenon
  <2>3. Fault(t) <=> \/ \E j \in Direct(s) : Lost(t, j)
                     \/ \E k \in 1..n : Silent(t, k) /\ ~\E j \in Direct(s) : FollowedBy(s, j, k)
    BY <1>12, <1>13, Zenon DEF Fault
  <2>4. Fault(s) <=> \/ \E j \in Direct(s) : Lost(s, j)
                     \/ \E k \in 1..n : Silent(s, k) /\ ~\E j \in Direct(s) : FollowedBy(s, j, k)
    BY <1>1, Zenon DEF Fault
  <2> QED BY <2>1, <2>2, <2>3, <2>4, Zenon
<1> QED BY <1>1, <1>14, Zenon DEF t, n, N

-----------------------------------------------------------------------------
(* What the walk does with a line, field by field.                         *)

\* What a frame keeps for as long as it is on the stack.
SameFrame(f, g) ==
    /\ f.program = g.program /\ f.instruction = g.instruction
    /\ f.self = g.self /\ f.candidate = g.candidate

\* The walk is between two lines, and the frames are consistent.
WalkState == LogsTypes /\ ~cpi.malformed /\ StackInv /\ FrameInv

\* The top frame runs the code of the program that instruction i called.
Heard(i) == OnDirect /\ i = cpi.next - 1

\* A frame's fields, and where the top of the stack is.
LEMMA StackFacts ==
    ASSUME WalkState
    PROVE  /\ cpi.next \in Nat /\ Len(cpi.stack) \in Nat /\ DOMAIN cpi.stack = 1..Len(cpi.stack)
           /\ \A d \in 1..Len(cpi.stack) : cpi.stack[d] \in Frames
           /\ cpi.stack # <<>> <=> Len(cpi.stack) \in 1..Len(cpi.stack)
           /\ cpi.stack # <<>> => /\ cpi.next > 0 /\ cpi.next - 1 \in Instructions
                                  /\ Top(cpi.stack).instruction = cpi.next - 1
           /\ cpi.coverage \in [Instructions -> Coverages]
<1>1. cpi.stack \in Seq(Frames) /\ cpi.next \in Nat /\ cpi.coverage \in [Instructions -> Coverages]
  BY DEF WalkState, LogsTypes, CoverageScans
<1>2. /\ Len(cpi.stack) \in Nat /\ DOMAIN cpi.stack = 1..Len(cpi.stack)
      /\ \A d \in 1..Len(cpi.stack) : cpi.stack[d] \in Frames
      /\ cpi.stack # <<>> <=> Len(cpi.stack) \in 1..Len(cpi.stack)
  BY <1>1
<1>3. cpi.stack # <<>> => /\ cpi.next > 0 /\ cpi.next - 1 \in Instructions
                          /\ Top(cpi.stack).instruction = cpi.next - 1
  <2> SUFFICES ASSUME cpi.stack # <<>>
               PROVE  /\ cpi.next > 0 /\ cpi.next - 1 \in Instructions
                      /\ Top(cpi.stack).instruction = cpi.next - 1
    OBVIOUS
  <2>1. Top(cpi.stack).instruction = cpi.next - 1 /\ Top(cpi.stack) \in Frames
    BY <1>2 DEF Top, WalkState, StackInv
  <2>2. cpi.next - 1 \in Instructions
    BY <2>1 DEF Frames
  <2> QED BY <1>1, <2>1, <2>2, LogsAssumption DEF Instructions
<1> QED BY <1>1, <1>2, <1>3, Zenon

\* A compute line leaves the walk as it is.
LEMMA ConsumedWalk ==
    ASSUME NEW line \in Lines, line.log = "consumed", cpi' = CoverageLine(cpi, line)
    PROVE  cpi' = cpi
BY DEF CoverageLine, BodyLine, IsExit

\* A text or data line ends the silence of the top frame; it loses the pending
\* event of a direct frame, and a data line leaves a new one.
LEMMA SpokenWalk ==
    ASSUME WalkState, NEW line \in Lines, line.log \in {"data", "text"},
           cpi' = CoverageLine(cpi, line)
    PROVE  /\ cpi' \in CoverageScans /\ ~cpi'.malformed /\ cpi'.next = cpi.next
           /\ Len(cpi'.stack) = Len(cpi.stack)
           /\ \A d \in 1..Len(cpi.stack) :
                SameFrame(cpi'.stack[d], cpi.stack[d]) /\ ~cpi'.stack[d].silent
           /\ \A i \in Instructions :
                /\ cpi'.coverage[i].calls = cpi.coverage[i].calls
                /\ cpi'.coverage[i].gap <=> (cpi.coverage[i].gap \/ (Heard(i) /\ cpi.coverage[i].pending))
                /\ cpi'.coverage[i].pending <=> IF Heard(i) THEN line.log = "data" ELSE cpi.coverage[i].pending
<1> DEFINE n == Len(cpi.stack)
           top == Top(cpi.stack)
<1>1. /\ cpi.next \in Nat /\ n \in Nat /\ DOMAIN cpi.stack = 1..n
      /\ \A d \in 1..n : cpi.stack[d] \in Frames
      /\ cpi.stack # <<>> <=> n \in 1..n
      /\ cpi.stack # <<>> => /\ cpi.next > 0 /\ cpi.next - 1 \in Instructions
                             /\ top.instruction = cpi.next - 1
      /\ cpi.coverage \in [Instructions -> Coverages]
  BY StackFacts
<1>2. cpi \in CoverageScans /\ ~cpi.malformed /\ cpi.stack \in Seq(Frames)
  BY DEF WalkState, LogsTypes, CoverageScans
<1>3. \A d \in 1..n : cpi.stack[d].silent => d = n /\ cpi.stack[d].self
  BY <1>1 DEF WalkState, FrameInv
<1>4. cpi' = IF cpi.stack = <<>> THEN cpi ELSE BodyLine(cpi, line)
  BY DEF CoverageLine, IsExit
<1>5. CASE cpi.stack = <<>>
  <2>1. cpi' = cpi /\ n = 0 /\ ~OnDirect
    BY <1>4, <1>5 DEF OnDirect
  <2>2. 1..n = {}
    BY <2>1
  <2>3. \A i : ~Heard(i)
    BY <2>1, Zenon DEF Heard
  <2> QED BY <1>2, <2>1, <2>2, <2>3, Zenon
<1>6. CASE cpi.stack # <<>> /\ top.self
  <2>1. cpi' = [cpi EXCEPT !.stack[n].silent = FALSE] /\ ~OnDirect
    BY <1>4, <1>6 DEF BodyLine, OnDirect, IsDirect
  <2>2. n \in 1..n
    BY <1>1, <1>6
  <2>3. cpi.stack[n] \in Frames
    BY <1>1, <2>2
  <2>4. [cpi.stack[n] EXCEPT !.silent = FALSE] \in Frames
    BY <2>3, Zenon DEF Frames
  <2>5. /\ cpi'.stack = [cpi.stack EXCEPT ![n] = [cpi.stack[n] EXCEPT !.silent = FALSE]]
        /\ cpi'.next = cpi.next /\ cpi'.coverage = cpi.coverage /\ cpi'.malformed = cpi.malformed
        /\ cpi' \in [malformed : BOOLEAN, stack : {cpi'.stack}, next : Nat, coverage : [Instructions -> Coverages]]
    BY <1>2, <2>1, <2>2, Zenon DEF CoverageScans
  <2>6. cpi'.stack \in Seq(Frames) /\ Len(cpi'.stack) = n
    BY <1>2, <2>2, <2>4, <2>5
  <2>7. cpi' \in CoverageScans
    BY <2>5, <2>6, Zenon DEF CoverageScans
  <2>8. \A d \in 1..n : SameFrame(cpi'.stack[d], cpi.stack[d]) /\ ~cpi'.stack[d].silent
    <3> TAKE d \in 1..n
    <3>1. CASE d = n
      BY <1>1, <2>3, <2>5, <3>1 DEF SameFrame, Frames
    <3>2. CASE d # n
      BY <1>1, <1>3, <2>5, <3>2 DEF SameFrame
    <3> QED BY <3>1, <3>2
  <2>9. \A i : ~Heard(i)
    BY <2>1, Zenon DEF Heard
  <2> QED BY <1>2, <2>5, <2>6, <2>7, <2>8, <2>9, Zenon
<1>7. CASE cpi.stack # <<>> /\ ~top.self
  <2>1. \A d \in 1..n : ~cpi.stack[d].silent
    BY <1>3, <1>7 DEF Top
  <2>2. cpi.next - 1 \in Instructions /\ top.instruction = cpi.next - 1
    BY <1>1, <1>7
  <2>3. CASE IsDirect(top)
    <3>1. OnDirect
      BY <1>7, <2>3 DEF OnDirect
    <3> DEFINE c == cpi.coverage[cpi.next - 1]
               e == IF line.log = "data" THEN [LosePending(c) EXCEPT !.pending = TRUE] ELSE LosePending(c)
    <3>2. cpi' = [cpi EXCEPT !.coverage[cpi.next - 1] = e]
      BY <1>4, <1>7, <2>2, <2>3 DEF BodyLine
    <3>3. c \in Coverages
      BY <1>1, <2>2
    <3>4. /\ e \in Coverages /\ e.calls = c.calls /\ (e.gap <=> c.gap \/ c.pending)
          /\ e.pending <=> line.log = "data"
      BY <3>3, Zenon DEF LosePending, Coverages
    <3> HIDE DEF e
    <3>5. /\ cpi'.stack = cpi.stack /\ cpi'.next = cpi.next /\ cpi'.malformed = cpi.malformed
          /\ cpi'.coverage = [cpi.coverage EXCEPT ![cpi.next - 1] = e]
          /\ cpi' \in CoverageScans
      BY <1>2, <2>2, <3>2, <3>4 DEF CoverageScans
    <3>6. \A i : Heard(i) <=> i = cpi.next - 1
      BY <3>1, Zenon DEF Heard
    <3>7. \A i \in Instructions : cpi'.coverage[i] = IF i = cpi.next - 1 THEN e ELSE cpi.coverage[i]
      BY <1>1, <2>2, <3>5
    <3> QED BY <1>2, <2>1, <3>4, <3>5, <3>6, <3>7, Zenon DEF SameFrame
  <2>4. CASE ~IsDirect(top)
    <3>1. ~OnDirect /\ cpi' = cpi
      BY <1>4, <1>7, <2>4 DEF BodyLine, OnDirect
    <3>2. \A i : ~Heard(i)
      BY <3>1, Zenon DEF Heard
    <3> QED BY <1>2, <2>1, <3>1, <3>2, Zenon DEF SameFrame
  <2> QED BY <2>3, <2>4
<1> QED BY <1>5, <1>6, <1>7

\* The invocation a line opens is a call of the program to itself.
SelfCall(line) ==
    line.program = Program /\ \E d \in DOMAIN cpi.stack : cpi.stack[d].program = Program

\* An invocation pushes a frame and ends the silence of its caller; a direct
\* caller's pending event is lost unless the call is one to itself.
LEMMA InvokeWalk ==
    ASSUME WalkState, NEW line \in Lines, line.log = "invoke", line.depth = Len(cpi.stack) + 1,
           Len(logs) < MaxLines, cpi' = CoverageLine(cpi, line)
    PROVE  /\ cpi' \in CoverageScans /\ ~cpi'.malformed
           /\ cpi'.next = IF cpi.stack = <<>> THEN cpi.next + 1 ELSE cpi.next
           /\ Len(cpi'.stack) = Len(cpi.stack) + 1
           /\ \A d \in 1..Len(cpi.stack) :
                SameFrame(cpi'.stack[d], cpi.stack[d]) /\ ~cpi'.stack[d].silent
           /\ LET f == cpi'.stack[Len(cpi.stack) + 1] IN
                /\ f.program = line.program /\ f.instruction = cpi'.next - 1
                /\ f.self <=> SelfCall(line)
                /\ f.silent <=> SelfCall(line)
                /\ f.candidate <=> SelfCall(line) /\ OnDirect /\ Pending
           /\ \A i \in Instructions :
                /\ cpi'.coverage[i].calls = cpi.coverage[i].calls
                /\ cpi'.coverage[i].gap <=>
                     (cpi.coverage[i].gap \/ (Heard(i) /\ ~SelfCall(line) /\ cpi.coverage[i].pending))
                /\ cpi'.coverage[i].pending <=>
                     (cpi.coverage[i].pending /\ ~(Heard(i) /\ ~SelfCall(line)))
<1> DEFINE n == Len(cpi.stack)
           top == Top(cpi.stack)
           called == cpi.stack # <<>>
           i0 == InstructionOf(cpi, line)
           candidate == called /\ IsDirect(top) /\ SelfCall(line) /\ cpi.coverage[i0].pending
           frame == [program |-> line.program, instruction |-> i0, self |-> SelfCall(line),
                     silent |-> SelfCall(line), candidate |-> candidate]
           below == IF called /\ top.self THEN [cpi.stack EXCEPT ![n].silent = FALSE] ELSE cpi.stack
           c == cpi.coverage[i0]
           e == IF called /\ IsDirect(top) /\ ~candidate THEN LosePending(c) ELSE c
<1>1. /\ cpi.next \in Nat /\ n \in Nat /\ DOMAIN cpi.stack = 1..n
      /\ \A d \in 1..n : cpi.stack[d] \in Frames
      /\ cpi.stack # <<>> <=> n \in 1..n
      /\ cpi.stack # <<>> => /\ cpi.next > 0 /\ cpi.next - 1 \in Instructions
                             /\ top.instruction = cpi.next - 1
      /\ cpi.coverage \in [Instructions -> Coverages]
  BY StackFacts
<1>2. /\ cpi \in CoverageScans /\ ~cpi.malformed /\ cpi.stack \in Seq(Frames)
      /\ Len(logs) \in Nat /\ cpi.next <= Len(logs)
  BY DEF WalkState, LogsTypes, CoverageScans
<1>3. \A d \in 1..n : cpi.stack[d].silent => d = n /\ cpi.stack[d].self
  BY <1>1 DEF WalkState, FrameInv
<1>4. cpi' = InvokeLine(cpi, line)
  BY DEF CoverageLine, DepthIsValid, IsExit
<1>5. line.depth = 1 <=> ~called
  BY <1>1
<1>6. /\ NextInstruction(cpi, line) = IF cpi.stack = <<>> THEN cpi.next + 1 ELSE cpi.next
      /\ i0 = NextInstruction(cpi, line) - 1
      /\ i0 \in Instructions /\ NextInstruction(cpi, line) \in Nat
      /\ called => i0 = cpi.next - 1
  BY <1>1, <1>2, <1>5, LogsAssumption DEF NextInstruction, InstructionOf, Instructions
<1>7. cpi' = [cpi EXCEPT !.stack = Append(below, frame), !.next = NextInstruction(cpi, line),
                         !.coverage[i0] = e]
  BY <1>4, Zenon DEF InvokeLine, SelfCall
<1>8. c \in Coverages /\ e \in Coverages
  BY <1>1, <1>6, Zenon DEF LosePending, Coverages
<1>9. /\ below \in Seq(Frames) /\ Len(below) = n
      /\ \A d \in 1..n : SameFrame(below[d], cpi.stack[d]) /\ ~below[d].silent
  <2>1. CASE called /\ top.self
    <3>1. n \in 1..n /\ cpi.stack[n] \in Frames
      BY <1>1, <2>1
    <3>2. [cpi.stack[n] EXCEPT !.silent = FALSE] \in Frames
      BY <3>1, Zenon DEF Frames
    <3>3. below = [cpi.stack EXCEPT ![n] = [cpi.stack[n] EXCEPT !.silent = FALSE]]
      BY <2>1, <3>1, Zenon
    <3> HIDE DEF below
    <3>4. below \in Seq(Frames) /\ Len(below) = n
      BY <1>2, <3>1, <3>2, <3>3
    <3>5. \A d \in 1..n : SameFrame(below[d], cpi.stack[d]) /\ ~below[d].silent
      <4> TAKE d \in 1..n
      <4>1. CASE d = n
        BY <1>1, <3>1, <3>3, <4>1 DEF SameFrame, Frames
      <4>2. CASE d # n
        BY <1>1, <1>3, <3>3, <4>2 DEF SameFrame
      <4> QED BY <4>1, <4>2
    <3> QED BY <3>4, <3>5
  <2>2. CASE ~(called /\ top.self)
    <3>1. below = cpi.stack
      BY <2>2, Zenon
    <3>2. \A d \in 1..n : ~cpi.stack[d].silent
      BY <1>1, <1>3, <2>2 DEF Top
    <3> QED BY <1>2, <3>1, <3>2, Zenon DEF SameFrame
  <2> QED BY <2>1, <2>2, Zenon
<1>10. frame \in Frames
  <2>1. line.program \in Programs
    BY LineFacts
  <2>2. SelfCall(line) \in BOOLEAN /\ candidate \in BOOLEAN
    BY <1>8 DEF SelfCall, Coverages, IsDirect
  <2> HIDE DEF candidate
  <2> QED BY <1>6, <2>1, <2>2, Zenon DEF Frames
<1>11. /\ cpi'.stack = Append(below, frame) /\ cpi'.next = NextInstruction(cpi, line)
       /\ ~cpi'.malformed
       /\ cpi'.coverage = [cpi.coverage EXCEPT ![i0] = e]
       /\ cpi' \in [malformed : BOOLEAN, stack : {Append(below, frame)}, next : Nat,
                    coverage : [Instructions -> Coverages]]
  <2> HIDE DEF below, frame, i0, e
  <2>1. [cpi.coverage EXCEPT ![i0] = e] \in [Instructions -> Coverages]
    BY <1>1, <1>6, <1>8
  <2> QED BY <1>2, <1>6, <1>7, <2>1, Zenon DEF CoverageScans
<1>12. /\ Append(below, frame) \in Seq(Frames) /\ Len(Append(below, frame)) = n + 1
       /\ \A d \in 1..n : Append(below, frame)[d] = below[d]
       /\ Append(below, frame)[n + 1] = frame
  <2> HIDE DEF below, frame
  <2> QED BY <1>1, <1>9, <1>10
<1>13. candidate <=> SelfCall(line) /\ OnDirect /\ Pending
  <2>1. called => (cpi.coverage[i0].pending <=> Pending)
    BY <1>1, <1>6, Zenon DEF Pending
  <2> QED BY <2>1, Zenon DEF OnDirect
<1>14. ASSUME NEW i \in Instructions
       PROVE  /\ cpi'.coverage[i].calls = cpi.coverage[i].calls
              /\ cpi'.coverage[i].gap <=>
                   (cpi.coverage[i].gap \/ (Heard(i) /\ ~SelfCall(line) /\ cpi.coverage[i].pending))
              /\ cpi'.coverage[i].pending <=>
                   (cpi.coverage[i].pending /\ ~(Heard(i) /\ ~SelfCall(line)))
  <2>1. cpi'.coverage[i] = IF i = i0 THEN e ELSE cpi.coverage[i]
    <3> HIDE DEF e, i0
    <3> QED BY <1>1, <1>6, <1>11
  <2>2. CASE i # i0
    <3>1. ~Heard(i)
      BY <1>6, <2>2 DEF Heard, OnDirect
    <3> QED BY <2>1, <2>2, <3>1, Zenon
  <2>3. CASE i = i0
    <3>1. Heard(i) <=> called /\ IsDirect(top)
      BY <1>6, <2>3, Zenon DEF Heard, OnDirect
    <3>2. CASE Heard(i) /\ ~candidate
      <4>1. e = LosePending(c)
        BY <3>1, <3>2, Zenon
      <4>2. LosePending(c).calls = c.calls /\ (LosePending(c).gap <=> c.gap \/ c.pending) /\ ~LosePending(c).pending
        BY <1>8, Zenon DEF LosePending, Coverages
      <4>3. SelfCall(line) => ~c.pending
        BY <3>1, <3>2, Zenon
      <4>4. cpi'.coverage[i] = LosePending(c) /\ cpi.coverage[i] = c
        BY <2>1, <2>3, <4>1, Zenon
      <4> HIDE DEF c, e, candidate, i0
      <4> QED BY <3>2, <4>2, <4>3, <4>4, Zenon
    <3>3. CASE ~Heard(i) \/ candidate
      <4>1. e = c
        BY <3>1, <3>3, Zenon
      <4>2. cpi'.coverage[i] = c /\ cpi.coverage[i] = c
        BY <2>1, <2>3, <4>1, Zenon
      <4>3. candidate => SelfCall(line)
        BY Zenon
      <4> HIDE DEF c, e, candidate, i0
      <4> QED BY <3>3, <4>2, <4>3, Zenon
    <3> QED BY <3>2, <3>3, Zenon
  <2> QED BY <2>2, <2>3, Zenon
<1>15. cpi' \in CoverageScans
  BY <1>11, <1>12, Zenon DEF CoverageScans
<1>16. /\ frame.program = line.program /\ frame.instruction = cpi'.next - 1
       /\ frame.self <=> SelfCall(line)
       /\ frame.silent <=> SelfCall(line)
       /\ frame.candidate <=> SelfCall(line) /\ OnDirect /\ Pending
  BY <1>6, <1>11, <1>13, Zenon
<1>17. cpi'.stack[n + 1] = frame /\ Len(cpi'.stack) = n + 1 /\ \A d \in 1..n : cpi'.stack[d] = below[d]
  <2> HIDE DEF frame, below, n
  <2> QED BY <1>11, <1>12, Zenon
<1>18. cpi'.next = IF cpi.stack = <<>> THEN cpi.next + 1 ELSE cpi.next
  BY <1>6, <1>11, Zenon
<1> HIDE DEF n, top, called, i0, candidate, frame, below, c, e
<1>19. \A d \in 1..n : SameFrame(cpi'.stack[d], cpi.stack[d]) /\ ~cpi'.stack[d].silent
  BY <1>9, <1>17, Zenon
<1>20. LET f == cpi'.stack[n + 1] IN
         /\ f.program = line.program /\ f.instruction = cpi'.next - 1
         /\ f.self <=> SelfCall(line)
         /\ f.silent <=> SelfCall(line)
         /\ f.candidate <=> SelfCall(line) /\ OnDirect /\ Pending
  BY <1>16, <1>17, Zenon
<1>21. ~cpi'.malformed
  BY <1>11, Zenon
<1> USE DEF n
<1> QED BY <1>14, <1>15, <1>17, <1>18, <1>19, <1>20, <1>21, Zenon

\* An exit pops the top frame: a candidate that was silent and succeeded is a
\* pair, a candidate that was not and a silent call nobody announced are gaps,
\* and a direct frame loses its pending event.
LEMMA ExitWalk ==
    ASSUME WalkState, NEW line \in Lines, IsExit(line), cpi.stack # <<>>,
           Top(cpi.stack).program = line.program, cpi' = CoverageLine(cpi, line)
    PROVE  LET f == Top(cpi.stack)
               pairs == f.candidate /\ f.silent /\ line.log = "success"
               fails == \/ f.candidate /\ ~(f.silent /\ line.log = "success")
                        \/ f.self /\ ~f.candidate /\ f.silent /\ line.log = "success" IN
           /\ cpi' \in CoverageScans /\ ~cpi'.malformed /\ cpi'.next = cpi.next
           /\ Len(cpi'.stack) = Len(cpi.stack) - 1
           /\ \A d \in 1..(Len(cpi.stack) - 1) : cpi'.stack[d] = cpi.stack[d]
           /\ \A i \in Instructions :
                LET here == i = cpi.next - 1 IN
                /\ cpi'.coverage[i].calls = cpi.coverage[i].calls + (IF here /\ pairs THEN 1 ELSE 0)
                /\ cpi'.coverage[i].gap <=>
                     (cpi.coverage[i].gap \/ (here /\ (fails \/ (OnDirect /\ cpi.coverage[i].pending))))
                /\ cpi'.coverage[i].pending <=>
                     (cpi.coverage[i].pending /\ ~(here /\ (f.candidate \/ OnDirect)))
<1> DEFINE n == Len(cpi.stack)
           f == Top(cpi.stack)
           good == line.log = "success"
           pairs == f.candidate /\ f.silent /\ line.log = "success"
           fails == \/ f.candidate /\ ~(f.silent /\ line.log = "success")
                    \/ f.self /\ ~f.candidate /\ f.silent /\ line.log = "success"
           i0 == cpi.next - 1
           c == cpi.coverage[i0]
           e == ExitFrame(c, f, good)
<1>1. /\ cpi.next \in Nat /\ n \in Nat /\ n \in 1..n
      /\ f \in Frames /\ i0 \in Instructions /\ f.instruction = i0
      /\ cpi.coverage \in [Instructions -> Coverages]
  BY StackFacts DEF Top
<1>2. cpi \in CoverageScans /\ ~cpi.malformed /\ cpi.stack \in Seq(Frames)
  BY DEF WalkState, LogsTypes, CoverageScans
<1>3. f.candidate => f.self /\ c.pending
  BY <1>1, StackFacts DEF WalkState, FrameInv, Top, Pending
<1>4. cpi' = [cpi EXCEPT !.stack = Pop(@), !.coverage[i0] = e]
  <2>1. cpi' = ExitLine(cpi, line)
    BY DEF CoverageLine, ExitIsValid, IsExit
  <2> QED BY <1>1, <2>1 DEF ExitLine
<1>5. c \in Coverages
  BY <1>1, Zenon
<1>6. f.self => ~IsDirect(f)
  BY DEF IsDirect
<1>7. /\ e \in Coverages
      /\ e.calls = c.calls + (IF pairs THEN 1 ELSE 0)
      /\ e.gap <=> (c.gap \/ fails \/ (IsDirect(f) /\ c.pending))
      /\ e.pending <=> (c.pending /\ ~(f.candidate \/ IsDirect(f)))
  <2>0. c.calls \in Nat
    BY <1>5 DEF Coverages
  <2> HIDE DEF c, f
  <2>1. CASE f.candidate
    <3>1. e = IF good /\ f.silent THEN [c EXCEPT !.calls = @ + 1, !.pending = FALSE]
              ELSE [c EXCEPT !.gap = TRUE, !.pending = FALSE]
      BY <1>3, <1>6, <2>1, Zenon DEF ExitFrame
    <3>2. CASE good /\ f.silent
      <4>1. e = [c EXCEPT !.calls = c.calls + 1, !.pending = FALSE] /\ c.calls + 1 \in Nat
        BY <2>0, <3>1, <3>2
      <4>2. e \in Coverages /\ e.calls = c.calls + 1 /\ e.gap = c.gap /\ ~e.pending
        BY <1>5, <4>1, Zenon DEF Coverages
      <4>3. ~IsDirect(f)
        BY <1>3, <1>6, <2>1, Zenon
      <4> QED BY <1>3, <2>1, <3>2, <4>2, <4>3, Zenon
    <3>3. CASE ~(good /\ f.silent)
      <4>1. e \in Coverages /\ e.calls = c.calls /\ e.gap /\ ~e.pending
        BY <1>5, <3>1, <3>3, Zenon DEF Coverages
      <4>2. e.calls = c.calls + 0
        BY <2>0, <4>1
      <4> QED BY <2>1, <3>3, <4>1, <4>2, Zenon
    <3> QED BY <3>2, <3>3, Zenon
  <2>2. CASE ~f.candidate /\ f.self /\ good /\ f.silent
    <3>1. e = [c EXCEPT !.gap = TRUE]
      BY <1>6, <2>2, Zenon DEF ExitFrame
    <3>2. e \in Coverages /\ e.calls = c.calls /\ e.gap /\ e.pending = c.pending
      BY <1>5, <3>1, Zenon DEF Coverages
    <3>3. e.calls = c.calls + 0
      BY <2>0, <3>2
    <3> QED BY <1>6, <2>2, <3>2, <3>3, Zenon
  <2>3. CASE ~f.candidate /\ ~(f.self /\ good /\ f.silent) /\ IsDirect(f)
    <3>1. e = LosePending(c)
      BY <2>3 DEF ExitFrame
    <3>2. /\ e \in Coverages /\ e.calls = c.calls
          /\ e.gap <=> (c.gap \/ c.pending)
          /\ ~e.pending
      BY <1>5, <3>1, Zenon DEF Coverages, LosePending
    <3>3. e.calls = c.calls + 0
      BY <2>0, <3>2
    <3> QED BY <2>3, <3>2, <3>3, Zenon
  <2>4. CASE ~f.candidate /\ ~(f.self /\ good /\ f.silent) /\ ~IsDirect(f)
    <3>1. e = c
      BY <2>4 DEF ExitFrame
    <3> QED BY <1>5, <2>0, <2>4, <3>1 DEF Coverages
  <2> QED BY <2>1, <2>2, <2>3, <2>4, Zenon
<1>8. /\ Pop(cpi.stack) \in Seq(Frames) /\ Len(Pop(cpi.stack)) = n - 1
      /\ \A d \in 1..(n - 1) : Pop(cpi.stack)[d] = cpi.stack[d]
  BY <1>1, <1>2 DEF Pop
<1> HIDE DEF e
<1>9. /\ cpi'.stack = Pop(cpi.stack) /\ cpi'.next = cpi.next /\ ~cpi'.malformed
      /\ cpi'.coverage = [cpi.coverage EXCEPT ![i0] = e]
      /\ cpi' \in CoverageScans
  <2>1. [cpi.coverage EXCEPT ![i0] = e] \in [Instructions -> Coverages]
    BY <1>1, <1>7
  <2> QED BY <1>2, <1>4, <1>8, <2>1, Zenon DEF CoverageScans
<1>10. \A i \in Instructions : cpi'.coverage[i] = IF i = i0 THEN e ELSE cpi.coverage[i]
  BY <1>1, <1>9
<1>11. OnDirect <=> IsDirect(f)
  BY Zenon DEF OnDirect
<1>12. \A i \in Instructions : cpi.coverage[i].calls \in Nat
  BY <1>1 DEF Coverages
<1>13. ASSUME NEW i \in Instructions
       PROVE  LET here == i = i0 IN
                /\ cpi'.coverage[i].calls = cpi.coverage[i].calls + (IF here /\ pairs THEN 1 ELSE 0)
                /\ cpi'.coverage[i].gap <=>
                     (cpi.coverage[i].gap \/ (here /\ (fails \/ (OnDirect /\ cpi.coverage[i].pending))))
                /\ cpi'.coverage[i].pending <=>
                     (cpi.coverage[i].pending /\ ~(here /\ (f.candidate \/ OnDirect)))
  <2> HIDE DEF pairs, fails, f
  <2>1. CASE i = i0
    <3> HIDE DEF i0
    <3> QED BY <1>7, <1>10, <1>11, <2>1, Zenon
  <2>2. CASE i # i0
    <3> HIDE DEF i0
    <3>1. cpi'.coverage[i] = cpi.coverage[i]
      BY <1>10, <2>2, Zenon
    <3>2. cpi.coverage[i].calls = cpi.coverage[i].calls + 0
      BY <1>12
    <3> QED BY <2>2, <3>1, <3>2, Zenon
  <2> QED BY <2>1, <2>2, Zenon
<1>14. /\ Len(cpi'.stack) = n - 1
       /\ \A d \in 1..(n - 1) : cpi'.stack[d] = cpi.stack[d]
  BY <1>8, <1>9, Zenon
<1> QED BY <1>9, <1>13, <1>14, Zenon

-----------------------------------------------------------------------------
(* What a line changes about the positions, in terms of the stack.         *)

\* Neither walk fails on the line.
Fits(line) ==
    /\ line.log # "truncated"
    /\ line.log = "invoke" => line.depth = Len(cpi.stack) + 1
    /\ IsExit(line) => cpi.stack # <<>> /\ Top(cpi.stack).program = line.program

\* The top frame runs code of the program.
OnProgram == cpi.stack # <<>> /\ Top(cpi.stack).program = Program

\* The active invocation is the one of the top frame.
LEMMA ActiveIsTop ==
    ASSUME WalkState, PrefixInv(logs)
    PROVE  /\ OpenAfter(logs, Len(logs)) > 0 <=> cpi.stack # <<>>
           /\ cpi.stack # <<>> =>
                /\ Active(logs, Len(logs)) = Opened(Len(cpi.stack))
                /\ logs[Active(logs, Len(logs))].program = Top(cpi.stack).program
                /\ CallsItself(logs, Active(logs, Len(logs))) <=> Top(cpi.stack).self
           /\ \A d \in 1..Len(cpi.stack) : Opened(d) \in 1..Len(logs)
<1>1. /\ Len(cpi.stack) \in Nat /\ DOMAIN cpi.stack = 1..Len(cpi.stack)
      /\ cpi.stack # <<>> <=> Len(cpi.stack) \in 1..Len(cpi.stack)
  BY StackFacts
<1>2. OpenAfter(logs, Len(logs)) = Len(cpi.stack)
  BY DEF WalkState, StackInv
<1>3. OpenAfter(logs, Len(logs)) > 0 <=> cpi.stack # <<>>
  BY <1>1, <1>2
<1>4. Active(logs, Len(logs)) = Opened(Len(cpi.stack))
  BY <1>2, Zenon DEF Active, Opened
<1>5. cpi.stack # <<>> =>
        /\ logs[Opened(Len(cpi.stack))].program = Top(cpi.stack).program
        /\ CallsItself(logs, Opened(Len(cpi.stack))) <=> Top(cpi.stack).self
  BY <1>1, Zenon DEF WalkState, StackInv, Top
<1>6. Len(logs) \in 0..Len(logs)
  BY DEF WalkState, LogsTypes
<1>7. \A d \in 1..Len(cpi.stack) : Opened(d) \in 1..Len(logs)
  BY <1>2, <1>6, Zenon DEF PrefixInv, Opened, Invokes
<1> QED BY <1>3, <1>4, <1>5, <1>7, Zenon

\* A line that neither walk fails on is one that fits the lines so far.
LEMMA FitsIff ==
    ASSUME WalkState, PrefixInv(logs), NEW line \in Lines
    PROVE  Fits(line) <=> LineFits(Append(logs, line), Len(logs) + 1)
<1>1. logs \in Seq(Lines) /\ (\A j \in DOMAIN logs : LineFits(logs, j))
  BY DEF WalkState, LogsTypes, StackInv
<1>2. OpenAfter(logs, Len(logs)) = Len(cpi.stack)
  BY DEF WalkState, StackInv
<1>3. LineFits(Append(logs, line), Len(logs) + 1) <=>
                /\ line.log # "truncated"
                /\ line.log = "invoke" => line.depth = OpenAfter(logs, Len(logs)) + 1
                /\ IsExit(line) => /\ OpenAfter(logs, Len(logs)) > 0
                                   /\ logs[Active(logs, Len(logs))].program = line.program
  BY <1>1, FitsStep, Zenon
<1> QED BY <1>2, <1>3, ActiveIsTop, Zenon DEF Fits

\* The lines after a line that fits.
LEMMA LinesStep ==
    ASSUME WalkState, WalkInv, NEW line \in Lines, Fits(line), logs' = Append(logs, line)
    PROVE  /\ PrefixInv(logs') /\ FollowInv(logs') /\ (\A j \in DOMAIN logs' : LineFits(logs', j))
           /\ Len(logs) \in Nat /\ Len(logs') = Len(logs) + 1 /\ DOMAIN logs = 1..Len(logs)
           /\ DOMAIN logs' = 1..(Len(logs) + 1)
           /\ \A k : k \in 1..(Len(logs) + 1) <=> k \in 1..Len(logs) \/ k = Len(logs) + 1
           /\ Len(logs) + 1 \notin 1..Len(logs)
           /\ (\A k \in 1..Len(logs) : logs'[k] = logs[k]) /\ logs'[Len(logs) + 1] = line
           /\ OpenAfter(logs', Len(logs')) = CASE line.log = "invoke" -> Len(cpi.stack) + 1
                                               [] IsExit(line) -> Len(cpi.stack) - 1
                                               [] OTHER -> Len(cpi.stack)
           /\ \A d : OpenedBy(logs', Len(logs'), d) =
                IF line.log = "invoke" /\ Len(cpi.stack) + 1 = d THEN Len(logs) + 1 ELSE Opened(d)
<1>1. logs \in Seq(Lines) /\ (\A j \in DOMAIN logs : LineFits(logs, j)) /\ PrefixInv(logs) /\ FollowInv(logs)
  BY DEF WalkState, LogsTypes, WalkInv, StackInv
<1>2. OpenAfter(logs, Len(logs)) = Len(cpi.stack)
  BY DEF WalkState, StackInv
<1>3. /\ Len(logs) \in Nat /\ Len(logs') = Len(logs) + 1 /\ DOMAIN logs = 1..Len(logs)
      /\ DOMAIN logs' = 1..(Len(logs) + 1)
      /\ (\A k \in 1..Len(logs) : logs'[k] = logs[k]) /\ logs'[Len(logs) + 1] = line
  BY <1>1, AppendFacts, Zenon
<1>4. /\ \A k : k \in 1..(Len(logs) + 1) <=> k \in 1..Len(logs) \/ k = Len(logs) + 1
      /\ Len(logs) + 1 \notin 1..Len(logs)
  BY <1>3
<1>5. \A j \in DOMAIN logs' : LineFits(logs', j)
  <2>1. LineFits(Append(logs, line), Len(logs) + 1)
    BY <1>1, FitsIff, Zenon
  <2>2. \A j \in DOMAIN logs : LineFits(Append(logs, line), j)
    BY <1>1, FitsStep, Zenon
  <2> QED BY <1>3, <1>4, <2>1, <2>2, Zenon
<1>6. FollowInv(logs')
  BY <1>1, FollowInvStep, Zenon
<1>7. PrefixInv(logs')
  <2>1. cpi.stack # <<>> => OpenAfter(logs, Len(logs)) > 0
    BY <1>1, ActiveIsTop, Zenon
  <2>2. /\ line.log = "invoke" => line.depth = OpenAfter(logs, Len(logs)) + 1
        /\ IsExit(line) => OpenAfter(logs, Len(logs)) > 0
    BY <1>2, <2>1, Zenon DEF Fits
  <2> QED BY <1>1, <2>2, PrefixInvStep, Zenon
<1>8. OpenAfter(logs', Len(logs')) = CASE line.log = "invoke" -> Len(cpi.stack) + 1
                                       [] IsExit(line) -> Len(cpi.stack) - 1
                                       [] OTHER -> Len(cpi.stack)
  <2>1. OpenAfter(Append(logs, line), Len(logs) + 1) =
          CASE line.log = "invoke" -> OpenAfter(logs, Len(logs)) + 1
            [] IsExit(line) -> OpenAfter(logs, Len(logs)) - 1
            [] OTHER -> OpenAfter(logs, Len(logs))
    BY <1>1, OpenStep, Zenon
  <2> QED BY <1>2, <1>3, <2>1, Zenon
<1>9. \A d : OpenedBy(logs', Len(logs'), d) =
        IF line.log = "invoke" /\ Len(cpi.stack) + 1 = d THEN Len(logs) + 1 ELSE Opened(d)
  <2>1. \A d : OpenedBy(Append(logs, line), Len(logs) + 1, d) =
          IF line.log = "invoke" /\ line.depth = d THEN Len(logs) + 1 ELSE OpenedBy(logs, Len(logs), d)
    BY <1>1, OpenedStep, Zenon
  <2> QED BY <1>3, <2>1, Zenon DEF Opened, Fits
<1> QED BY <1>1, <1>3, <1>4, <1>5, <1>6, <1>7, <1>8, <1>9, Zenon

\* The events, the calls and the faults after a line that fits.
LEMMA EvidenceStep ==
    ASSUME WalkState, WalkInv, NEW line \in Lines, Fits(line), logs' = Append(logs, line)
    PROVE  /\ Events(logs') = Events(logs) \cup (IF line.log = "data" /\ OnProgram THEN {Len(logs) + 1} ELSE {})
           /\ Direct(logs') = Direct(logs) \cup (IF line.log = "data" /\ OnDirect THEN {Len(logs) + 1} ELSE {})
           /\ \A k \in 1..Len(logs) : CallsItself(logs', k) <=> CallsItself(logs, k)
           /\ CallsItself(logs', Len(logs) + 1) <=> line.log = "invoke" /\ SelfCall(line)
           /\ Fault(logs') <=>
                \/ Fault(logs)
                \/ /\ line.log # "consumed" /\ OnDirect /\ Pending
                   /\ ~(line.log = "invoke" /\ SelfCall(line))
                \/ /\ line.log # "consumed" /\ line.log # "success"
                   /\ OnSilent /\ Top(cpi.stack).candidate
                \/ line.log = "success" /\ OnSilent /\ ~Top(cpi.stack).candidate
<1> DEFINE n == Len(logs)
<1>1. logs \in Seq(Lines) /\ (\A j \in DOMAIN logs : LineFits(logs, j)) /\ PrefixInv(logs)
  BY DEF WalkState, LogsTypes, WalkInv, StackInv
<1>2. /\ Len(cpi.stack) \in Nat /\ DOMAIN cpi.stack = 1..Len(cpi.stack)
      /\ cpi.stack # <<>> <=> Len(cpi.stack) \in 1..Len(cpi.stack)
  BY StackFacts
<1>3. /\ OpenAfter(logs, n) > 0 <=> cpi.stack # <<>>
      /\ cpi.stack # <<>> =>
           /\ Active(logs, n) = Opened(Len(cpi.stack))
           /\ logs[Active(logs, n)].program = Top(cpi.stack).program
           /\ CallsItself(logs, Active(logs, n)) <=> Top(cpi.stack).self
      /\ \A d \in 1..Len(cpi.stack) : Opened(d) \in 1..n
  BY <1>1, ActiveIsTop, Zenon
<1>4. DOMAIN logs = 1..n
  BY <1>1
<1>5. /\ Events(logs') = Events(logs) \cup (IF line.log = "data" /\ OnProgram THEN {n + 1} ELSE {})
      /\ Direct(logs') = Direct(logs) \cup (IF line.log = "data" /\ OnDirect THEN {n + 1} ELSE {})
  <2> DEFINE emits == /\ line.log = "data" /\ OpenAfter(logs, n) > 0
                      /\ logs[Active(logs, n)].program = Program
  <2>1. /\ Events(logs') = Events(logs) \cup (IF emits THEN {n + 1} ELSE {})
        /\ Direct(logs') = Direct(logs) \cup (IF emits /\ ~CallsItself(logs, Active(logs, n)) THEN {n + 1} ELSE {})
    BY <1>1, EventsStep, Zenon
  <2>2. emits <=> line.log = "data" /\ OnProgram
    BY <1>3, Zenon DEF OnProgram
  <2>3. emits /\ ~CallsItself(logs, Active(logs, n)) <=> line.log = "data" /\ OnDirect
    BY <1>3, Zenon DEF OnDirect, IsDirect
  <2> HIDE DEF emits
  <2> QED BY <2>1, <2>2, <2>3, Zenon
<1>6. \A k \in 1..n : CallsItself(logs', k) <=> CallsItself(logs, k)
  BY <1>1, <1>4, SameCalls, Zenon
<1>7. CallsItself(logs', n + 1) <=> line.log = "invoke" /\ SelfCall(line)
  <2>1. OpenAfter(logs, n) = Len(cpi.stack)
    BY DEF WalkState, StackInv
  <2>2. line.log = "invoke" => line.depth = OpenAfter(logs, n) + 1
    BY <2>1, Zenon DEF Fits
  <2>3. CallsItself(logs', n + 1) <=>
             /\ line.log = "invoke" /\ line.program = Program
             /\ \E d \in 1..OpenAfter(logs, n) : logs[OpenedBy(logs, n, d)].program = Program
    BY <1>1, <2>2, SelfStep, Zenon
  <2>4. \A d \in 1..Len(cpi.stack) : logs[OpenedBy(logs, n, d)].program = cpi.stack[d].program
    BY <1>2, Zenon DEF WalkState, StackInv, Opened
  <2> QED BY <1>2, <2>1, <2>3, <2>4, Zenon DEF SelfCall
<1>8. (\E j \in Direct(logs) : Quiet(logs, j)) <=> OnDirect /\ Pending
  BY Zenon DEF WalkInv, LinkInv
<1>9. /\ \A k \in 1..n : CallsItself(logs, k) /\ Quiet(logs, k) <=> OnSilent /\ k = Opened(Len(cpi.stack))
      /\ OnSilent => /\ Opened(Len(cpi.stack)) \in 1..n
                     /\ Top(cpi.stack).candidate <=>
                          \E j \in Direct(logs) : FollowedBy(logs, j, Opened(Len(cpi.stack)))
  <2>1. \A k \in 1..n : CallsItself(logs, k) /\ Quiet(logs, k) <=> OnSilent /\ k = Opened(Len(cpi.stack))
    BY <1>4, Zenon DEF WalkInv, LinkInv
  <2>2. OnSilent => Len(cpi.stack) \in 1..Len(cpi.stack) /\ cpi.stack[Len(cpi.stack)].self
    BY <1>2, Zenon DEF OnSilent, WalkState, FrameInv, Top
  <2>3. OnSilent => (Top(cpi.stack).candidate <=>
                          \E j \in Direct(logs) : FollowedBy(logs, j, Opened(Len(cpi.stack))))
    BY <1>2, <2>2, Zenon DEF WalkInv, LinkInv, Top
  <2> QED BY <1>3, <2>1, <2>2, <2>3, Zenon
<1>10. (\E j \in Direct(logs), k \in 1..n : FollowedBy(logs, j, k) /\ CallsItself(logs, k) /\ Quiet(logs, k))
         <=> OnSilent /\ Top(cpi.stack).candidate
  BY <1>9, Zenon
<1>11. (\E k \in 1..n : /\ CallsItself(logs, k) /\ Quiet(logs, k)
                        /\ ~\E j \in Direct(logs) : FollowedBy(logs, j, k))
         <=> OnSilent /\ ~Top(cpi.stack).candidate
  BY <1>9, Zenon
<1>12. Fault(logs') <=>
             \/ Fault(logs)
             \/ /\ line.log # "consumed"
                /\ ~CallsItself(logs', n + 1)
                /\ \E j \in Direct(logs) : Quiet(logs, j)
             \/ /\ line.log # "consumed" /\ line.log # "success"
                /\ \E j \in Direct(logs), k \in 1..n :
                     FollowedBy(logs, j, k) /\ CallsItself(logs, k) /\ Quiet(logs, k)
             \/ /\ line.log = "success"
                /\ \E k \in 1..n : /\ CallsItself(logs, k) /\ Quiet(logs, k)
                                   /\ ~\E j \in Direct(logs) : FollowedBy(logs, j, k)
  BY <1>1, <1>4, FaultStep, Zenon
<1>13. Fault(logs') <=>
                \/ Fault(logs)
                \/ /\ line.log # "consumed" /\ OnDirect /\ Pending
                   /\ ~(line.log = "invoke" /\ SelfCall(line))
                \/ /\ line.log # "consumed" /\ line.log # "success"
                   /\ OnSilent /\ Top(cpi.stack).candidate
                \/ line.log = "success" /\ OnSilent /\ ~Top(cpi.stack).candidate
  BY <1>7, <1>8, <1>10, <1>11, <1>12, Zenon
<1> QED BY <1>5, <1>6, <1>7, <1>13, Zenon

ScopeFrames == [program : Programs, instruction : Instructions]
Scoped == [instruction : Instructions, event : Nat, payload : Payloads]

\* The scope walk sees the top frame of the other.
LEMMA ScopeFacts ==
    ASSUME WalkState, ScopeInv
    PROVE  /\ scope \in ScopeScans /\ scope.stack \in Seq(ScopeFrames)
           /\ Len(scope.stack) = Len(cpi.stack) /\ Len(cpi.stack) \in Nat /\ cpi.next \in Nat
           /\ DOMAIN cpi.stack = 1..Len(cpi.stack) /\ DOMAIN scope.stack = 1..Len(cpi.stack)
           /\ scope.stack # <<>> <=> cpi.stack # <<>>
           /\ cpi.stack # <<>> => /\ Top(scope.stack).program = Top(cpi.stack).program
                                  /\ Top(scope.stack).instruction = cpi.next - 1
                                  /\ cpi.next - 1 \in Instructions /\ Len(cpi.stack) > 0
<1>1. scope \in ScopeScans /\ scope.stack \in Seq(ScopeFrames)
  BY DEF WalkState, LogsTypes, ScopeScans, ScopeFrames
<1>2. /\ Len(cpi.stack) \in Nat /\ DOMAIN cpi.stack = 1..Len(cpi.stack) /\ cpi.next \in Nat
      /\ cpi.stack # <<>> <=> Len(cpi.stack) \in 1..Len(cpi.stack)
      /\ cpi.stack # <<>> => cpi.next - 1 \in Instructions /\ Top(cpi.stack).instruction = cpi.next - 1
  BY StackFacts
<1>3. Len(scope.stack) = Len(cpi.stack)
  BY DEF ScopeInv
<1>4. DOMAIN scope.stack = 1..Len(cpi.stack) /\ (scope.stack # <<>> <=> Len(cpi.stack) \in 1..Len(cpi.stack))
  BY <1>1, <1>3
<1>5. \A d \in 1..Len(cpi.stack) : /\ scope.stack[d].program = cpi.stack[d].program
                                   /\ scope.stack[d].instruction = cpi.stack[d].instruction
  BY <1>2 DEF ScopeInv
<1>6. cpi.stack # <<>> => /\ Top(scope.stack).program = Top(cpi.stack).program
                          /\ Top(scope.stack).instruction = cpi.next - 1
                          /\ Len(cpi.stack) > 0
  BY <1>2, <1>3, <1>5 DEF Top
<1> QED BY <1>1, <1>2, <1>3, <1>4, <1>6, Zenon

\* Both walks fail on the lines that do not fit, and on no other.
LEMMA WalksFail ==
    ASSUME WalkState, ScopeInv, NEW line \in Lines, ~Fits(line), 
           cpi' = CoverageLine(cpi, line), scope' = ScopeLine(scope, line)
    PROVE  cpi' = Fail(cpi) /\ scope' = Fail(scope)
<1>1. line.log = "truncated" \/ (line.log = "invoke" /\ line.depth # Len(cpi.stack) + 1)
        \/ (IsExit(line) /\ ~(cpi.stack # <<>> /\ Top(cpi.stack).program = line.program))
  BY Zenon DEF Fits
<1>2. CASE line.log = "truncated"
  BY <1>2 DEF CoverageLine, ScopeLine, IsExit
<1>3. CASE line.log = "invoke" /\ line.depth # Len(cpi.stack) + 1
  <2>1. ~DepthIsValid(cpi.stack, line) /\ ~DepthIsValid(scope.stack, line)
    BY <1>3, ScopeFacts, Zenon DEF DepthIsValid
  <2> QED BY <1>3, <2>1 DEF CoverageLine, ScopeLine, IsExit
<1>4. CASE IsExit(line) /\ ~(cpi.stack # <<>> /\ Top(cpi.stack).program = line.program)
  <2>1. ~ExitIsValid(cpi.stack, line) /\ ~ExitIsValid(scope.stack, line)
    BY <1>4, ScopeFacts, Zenon DEF ExitIsValid
  <2> QED BY <1>4, <2>1 DEF CoverageLine, ScopeLine, IsExit
<1> QED BY <1>1, <1>2, <1>3, <1>4, Zenon

\* The record of an event.
EventOf(line) ==
    [instruction |-> cpi.next - 1, event |-> scope.events[cpi.next - 1], payload |-> line.payload]

\* The scope walk keeps the same stack, and counts and keeps the events.
LEMMA ScopeWalk ==
    ASSUME WalkState, ScopeInv, ~scope.malformed, NEW line \in Lines, Fits(line),
           Len(logs) < MaxLines, scope' = ScopeLine(scope, line)
    PROVE  /\ scope' \in ScopeScans /\ ~scope'.malformed
           /\ scope'.next = IF line.log = "invoke" /\ cpi.stack = <<>> THEN cpi.next + 1 ELSE cpi.next
           /\ Len(scope'.stack) = CASE line.log = "invoke" -> Len(cpi.stack) + 1
                                    [] IsExit(line) -> Len(cpi.stack) - 1
                                    [] OTHER -> Len(cpi.stack)
           /\ \A d \in 1..Len(cpi.stack) : d <= Len(scope'.stack) => scope'.stack[d] = scope.stack[d]
           /\ line.log = "invoke" =>
                /\ scope'.stack[Len(cpi.stack) + 1].program = line.program
                /\ scope'.stack[Len(cpi.stack) + 1].instruction = scope'.next - 1
           /\ IF line.log = "data" /\ OnProgram
              THEN /\ scope'.events = [scope.events EXCEPT ![cpi.next - 1] = @ + 1]
                   /\ scope'.scoped = Append(scope.scoped, EventOf(line))
                   /\ EventOf(line) \in Scoped
              ELSE scope'.events = scope.events /\ scope'.scoped = scope.scoped
<1> DEFINE n == Len(cpi.stack)
<1>1. /\ scope \in ScopeScans /\ scope.stack \in Seq(ScopeFrames)
      /\ Len(scope.stack) = n /\ n \in Nat /\ cpi.next \in Nat
      /\ scope.stack # <<>> <=> cpi.stack # <<>>
      /\ cpi.stack # <<>> => /\ Top(scope.stack).program = Top(cpi.stack).program
                             /\ Top(scope.stack).instruction = cpi.next - 1
                             /\ cpi.next - 1 \in Instructions /\ n > 0
  BY ScopeFacts
<1>2. scope.next = cpi.next /\ cpi.next <= Len(logs) /\ Len(logs) \in Nat
  BY DEF ScopeInv, WalkState, LogsTypes
<1>3. /\ scope.events \in [Instructions -> Nat] /\ scope.scoped \in Seq(Scoped)
      /\ scope.malformed = FALSE /\ scope.next \in Nat
  BY <1>1 DEF ScopeScans, Scoped
<1>4. CASE line.log = "invoke"
  <2>1. line.depth = n + 1 /\ DepthIsValid(scope.stack, line)
    BY <1>1, <1>4 DEF Fits, DepthIsValid
  <2> DEFINE i0 == InstructionOf(scope, line)
             f == [program |-> line.program, instruction |-> i0]
  <2>2. scope' = [scope EXCEPT !.stack = Append(@, f), !.next = NextInstruction(scope, line)]
    BY <1>4, <2>1 DEF ScopeLine, IsExit
  <2>3. line.depth = 1 <=> cpi.stack = <<>>
    <3>1. cpi.stack = <<>> => n = 0
      OBVIOUS
    <3> QED BY <1>1, <2>1, <3>1
  <2>4. /\ NextInstruction(scope, line) = IF cpi.stack = <<>> THEN cpi.next + 1 ELSE cpi.next
        /\ i0 = NextInstruction(scope, line) - 1
        /\ i0 \in Instructions /\ NextInstruction(scope, line) \in Nat
    BY <1>1, <1>2, <2>3, LogsAssumption DEF NextInstruction, InstructionOf, Instructions
  <2>5. line.program \in Programs
    BY <1>4, LineFacts
  <2>6. f \in ScopeFrames
    BY <2>4, <2>5, Zenon DEF ScopeFrames
  <2>7. f.program = line.program /\ f.instruction = NextInstruction(scope, line) - 1
    BY <2>4, Zenon
  <2> HIDE DEF f, i0
  <2>8. /\ Append(scope.stack, f) \in Seq(ScopeFrames) /\ Len(Append(scope.stack, f)) = n + 1
        /\ Append(scope.stack, f)[n + 1] = f
        /\ \A d \in 1..n : Append(scope.stack, f)[d] = scope.stack[d]
    BY <1>1, <2>6
  <2>9. /\ scope'.stack = Append(scope.stack, f) /\ scope'.next = NextInstruction(scope, line)
        /\ ~scope'.malformed /\ scope'.events = scope.events /\ scope'.scoped = scope.scoped
        /\ scope' \in ScopeScans
    BY <1>1, <1>3, <2>2, <2>4, <2>8, Zenon DEF ScopeScans, ScopeFrames
  <2>10. ~IsExit(line) /\ line.log # "data"
    BY <1>4 DEF IsExit
  <2>11. \A d \in 1..n : scope'.stack[d] = scope.stack[d]
    BY <2>8, <2>9, Zenon
  <2>12. Len(scope'.stack) = CASE line.log = "invoke" -> n + 1 [] IsExit(line) -> n - 1 [] OTHER -> n
    BY <1>4, <2>8, <2>9, <2>10, Zenon
  <2>13. scope'.stack[n + 1].program = line.program /\ scope'.stack[n + 1].instruction = scope'.next - 1
    BY <2>7, <2>8, <2>9, Zenon
  <2> QED BY <1>4, <2>4, <2>9, <2>10, <2>11, <2>12, <2>13, Zenon
<1>5. CASE IsExit(line)
  <2>1. ExitIsValid(scope.stack, line) /\ cpi.stack # <<>>
    BY <1>1, <1>5, Zenon DEF Fits, ExitIsValid
  <2>2. scope' = [scope EXCEPT !.stack = Pop(scope.stack)]
    BY <1>5, <2>1 DEF ScopeLine, IsExit
  <2>3. /\ Pop(scope.stack) \in Seq(ScopeFrames) /\ Len(Pop(scope.stack)) = n - 1
        /\ \A d \in 1..(n - 1) : Pop(scope.stack)[d] = scope.stack[d]
    BY <1>1, <2>1 DEF Pop
  <2>4. /\ scope'.stack = Pop(scope.stack) /\ scope'.next = scope.next
        /\ ~scope'.malformed /\ scope'.events = scope.events /\ scope'.scoped = scope.scoped
        /\ scope' \in ScopeScans
    BY <1>1, <1>3, <2>2, <2>3, Zenon DEF ScopeScans, ScopeFrames
  <2>5. line.log # "invoke" /\ line.log # "data"
    BY <1>5 DEF IsExit
  <2>6. \A d \in 1..n : d <= n - 1 => d \in 1..(n - 1)
    BY <1>1
  <2>7. Len(scope'.stack) = n - 1
    BY <2>3, <2>4, Zenon
  <2>8. \A d \in 1..n : d <= Len(scope'.stack) => scope'.stack[d] = scope.stack[d]
    BY <2>3, <2>4, <2>6, <2>7, Zenon
  <2> QED BY <1>2, <1>5, <2>4, <2>5, <2>7, <2>8, Zenon
<1>6. CASE line.log = "data" /\ OnProgram
  <2>1. /\ cpi.stack # <<>> /\ scope.stack # <<>> /\ Top(scope.stack).program = Program
        /\ Top(scope.stack).instruction = cpi.next - 1 /\ cpi.next - 1 \in Instructions
    BY <1>1, <1>6, Zenon DEF OnProgram
  <2>2. line.payload \in Payloads
    BY <1>6, LineFacts
  <2>3. EventOf(line) \in Scoped
    <3>1. scope.events[cpi.next - 1] \in Nat
      BY <1>3, <2>1
    <3> QED BY <2>1, <2>2, <3>1, Zenon DEF EventOf, Scoped
  <2>4. scope' = [scope EXCEPT !.events = [scope.events EXCEPT ![cpi.next - 1] = @ + 1],
                               !.scoped = Append(scope.scoped, EventOf(line))]
    BY <1>3, <1>6, <2>1 DEF ScopeLine, EventOf, IsExit
  <2>5. /\ [scope.events EXCEPT ![cpi.next - 1] = @ + 1] \in [Instructions -> Nat]
        /\ Append(scope.scoped, EventOf(line)) \in Seq(Scoped)
    BY <1>3, <2>1, <2>3
  <2>6. /\ scope'.stack = scope.stack /\ scope'.next = scope.next /\ ~scope'.malformed
        /\ scope'.events = [scope.events EXCEPT ![cpi.next - 1] = @ + 1]
        /\ scope'.scoped = Append(scope.scoped, EventOf(line))
        /\ scope' \in ScopeScans
    BY <1>1, <1>3, <2>4, <2>5, Zenon DEF ScopeScans, Scoped
  <2>7. line.log # "invoke" /\ ~IsExit(line)
    BY <1>6 DEF IsExit
  <2>8. Len(scope'.stack) = n
    BY <1>1, <2>6, Zenon
  <2> QED BY <1>2, <1>6, <2>3, <2>6, <2>7, <2>8, Zenon
<1>7. CASE ~(line.log = "invoke" \/ IsExit(line)) /\ ~(line.log = "data" /\ OnProgram)
  <2>1. scope' = scope
    BY <1>1, <1>7 DEF ScopeLine, Fits, OnProgram
  <2>2. Len(scope'.stack) = n
    BY <1>1, <2>1, Zenon
  <2> QED BY <1>1, <1>2, <1>3, <1>7, <2>1, <2>2, Zenon
<1> QED BY <1>4, <1>5, <1>6, <1>7, Zenon

\* The pending event of a direct frame is lost, a call pairs with its event, or
\* an ended call leaves a gap.
Loses(line) == OnDirect /\ line.log # "consumed" /\ ~(line.log = "invoke" /\ SelfCall(line))
Pairs(line) == line.log = "success" /\ OnSilent /\ Top(cpi.stack).candidate
Fails(line) ==
    /\ IsExit(line)
    /\ Top(cpi.stack).candidate <=> ~(Top(cpi.stack).silent /\ line.log = "success")

Depth(line) == CASE line.log = "invoke" -> Len(cpi.stack) + 1
                 [] IsExit(line) -> Len(cpi.stack) - 1
                 [] OTHER -> Len(cpi.stack)

\* The frames after a line that fits.
LEMMA FramesStep ==
    ASSUME WalkState, NEW line \in Lines, Fits(line), Len(logs) < MaxLines,
           cpi' = CoverageLine(cpi, line)
    PROVE  /\ cpi' \in CoverageScans /\ ~cpi'.malformed
           /\ cpi'.next = IF line.log = "invoke" /\ cpi.stack = <<>> THEN cpi.next + 1 ELSE cpi.next
           /\ Len(cpi'.stack) = Depth(line)
           /\ \A d \in 1..Len(cpi.stack) : d <= Depth(line) =>
                /\ SameFrame(cpi'.stack[d], cpi.stack[d])
                /\ cpi'.stack[d].silent <=> (line.log = "consumed" /\ cpi.stack[d].silent)
           /\ line.log = "invoke" =>
                LET f == cpi'.stack[Len(cpi.stack) + 1] IN
                /\ f.program = line.program /\ f.instruction = cpi'.next - 1
                /\ f.self <=> SelfCall(line)
                /\ f.silent <=> SelfCall(line)
                /\ f.candidate <=> SelfCall(line) /\ OnDirect /\ Pending
<1> DEFINE n == Len(cpi.stack)
<1>1. /\ n \in Nat /\ DOMAIN cpi.stack = 1..n /\ cpi \in CoverageScans /\ ~cpi.malformed
  BY StackFacts DEF WalkState, LogsTypes
<1>2. CASE line.log = "consumed"
  <2>1. cpi' = cpi
    BY <1>2, ConsumedWalk, Zenon
  <2>2. Depth(line) = n /\ line.log # "invoke"
    BY <1>2 DEF Depth, IsExit
  <2> QED BY <1>1, <1>2, <2>1, <2>2, Zenon DEF SameFrame
<1>3. CASE line.log \in {"data", "text"}
  <2>1. /\ cpi' \in CoverageScans /\ ~cpi'.malformed /\ cpi'.next = cpi.next
        /\ Len(cpi'.stack) = n
        /\ \A d \in 1..n : SameFrame(cpi'.stack[d], cpi.stack[d]) /\ ~cpi'.stack[d].silent
    BY <1>3, SpokenWalk, Zenon
  <2>2. Depth(line) = n /\ line.log # "invoke" /\ line.log # "consumed"
    BY <1>3 DEF Depth, IsExit
  <2> QED BY <2>1, <2>2, Zenon
<1>4. CASE line.log = "invoke"
  <2>1. line.depth = n + 1 /\ line.log # "consumed"
    BY <1>4 DEF Fits
  <2>2. /\ cpi' \in CoverageScans /\ ~cpi'.malformed
        /\ cpi'.next = IF cpi.stack = <<>> THEN cpi.next + 1 ELSE cpi.next
        /\ Len(cpi'.stack) = n + 1
        /\ \A d \in 1..n : SameFrame(cpi'.stack[d], cpi.stack[d]) /\ ~cpi'.stack[d].silent
        /\ LET f == cpi'.stack[n + 1] IN
                /\ f.program = line.program /\ f.instruction = cpi'.next - 1
                /\ f.self <=> SelfCall(line)
                /\ f.silent <=> SelfCall(line)
                /\ f.candidate <=> SelfCall(line) /\ OnDirect /\ Pending
    BY <1>4, <2>1, InvokeWalk, Zenon
  <2>3. Depth(line) = n + 1
    BY <1>4 DEF Depth, IsExit
  <2> QED BY <1>4, <2>1, <2>2, <2>3, Zenon
<1>5. CASE IsExit(line)
  <2>1. /\ cpi.stack # <<>> /\ Top(cpi.stack).program = line.program
        /\ line.log # "consumed" /\ line.log # "invoke"
    BY <1>5 DEF Fits, IsExit
  <2>2. /\ cpi' \in CoverageScans /\ ~cpi'.malformed /\ cpi'.next = cpi.next
        /\ Len(cpi'.stack) = n - 1
        /\ \A d \in 1..(n - 1) : cpi'.stack[d] = cpi.stack[d]
    BY <1>5, <2>1, ExitWalk, Zenon
  <2>3. Depth(line) = n - 1
    BY <1>5, <2>1 DEF Depth
  <2>4. \A d \in 1..n : d <= n - 1 => d \in 1..(n - 1) /\ ~cpi.stack[d].silent
    BY <1>1 DEF WalkState, FrameInv
  <2>5. \A d \in 1..n : d <= Depth(line) => SameFrame(cpi'.stack[d], cpi.stack[d]) /\ ~cpi'.stack[d].silent
    BY <2>2, <2>3, <2>4, Zenon DEF SameFrame
  <2> QED BY <2>1, <2>2, <2>3, <2>5, Zenon
<1>6. line.log = "consumed" \/ line.log \in {"data", "text"} \/ line.log = "invoke" \/ IsExit(line)
  BY LineFacts DEF Fits, IsExit
<1> QED BY <1>2, <1>3, <1>4, <1>5, <1>6, Zenon

\* The coverage after a line that fits.
LEMMA CoverageStep ==
    ASSUME WalkState, NEW line \in Lines, Fits(line), Len(logs) < MaxLines,
           cpi' = CoverageLine(cpi, line), NEW i \in Instructions
    PROVE  LET here == i = cpi.next - 1
               c == cpi.coverage[i]
               e == cpi'.coverage[i] IN
           /\ c \in Coverages /\ e \in Coverages
           /\ e.calls = c.calls + (IF here /\ Pairs(line) THEN 1 ELSE 0)
           /\ e.gap <=> (c.gap \/ (here /\ (Fails(line) \/ (Loses(line) /\ c.pending))))
           /\ e.pending <=>
                IF here /\ Loses(line) THEN line.log = "data"
                ELSE c.pending /\ ~(here /\ IsExit(line) /\ Top(cpi.stack).candidate)
<1> DEFINE here == i = cpi.next - 1
           c == cpi.coverage[i]
           e == cpi'.coverage[i]
           f == Top(cpi.stack)
<1>1. c \in Coverages /\ c.calls \in Nat /\ c.calls + 0 = c.calls
  BY StackFacts DEF Coverages
<1>2. e \in Coverages
  BY FramesStep DEF CoverageScans
<1>3. Heard(i) <=> OnDirect /\ here
  BY Zenon DEF Heard
<1> HIDE DEF c, e
<1>4. CASE line.log = "consumed"
  <2>1. e = c
    BY <1>4, ConsumedWalk, Zenon DEF c, e
  <2>2. ~Loses(line) /\ ~Pairs(line) /\ ~Fails(line) /\ ~IsExit(line)
    BY <1>4 DEF Loses, Pairs, Fails, IsExit
  <2> QED BY <1>1, <2>1, <2>2, Zenon DEF c, e
<1>5. CASE line.log \in {"data", "text"}
  <2>1. /\ e.calls = c.calls
        /\ e.gap <=> (c.gap \/ (Heard(i) /\ c.pending))
        /\ e.pending <=> IF Heard(i) THEN line.log = "data" ELSE c.pending
    BY <1>5, SpokenWalk, Zenon DEF c, e
  <2>2. (Loses(line) <=> OnDirect) /\ ~Pairs(line) /\ ~Fails(line) /\ ~IsExit(line)
    BY <1>5 DEF Loses, Pairs, Fails, IsExit
  <2> QED BY <1>1, <1>2, <1>3, <2>1, <2>2, Zenon DEF c, e
<1>6. CASE line.log = "invoke"
  <2>1. line.depth = Len(cpi.stack) + 1
    BY <1>6 DEF Fits
  <2>2. /\ e.calls = c.calls
        /\ e.gap <=> (c.gap \/ (Heard(i) /\ ~SelfCall(line) /\ c.pending))
        /\ e.pending <=> (c.pending /\ ~(Heard(i) /\ ~SelfCall(line)))
    BY <1>6, <2>1, InvokeWalk, Zenon DEF c, e
  <2>3. /\ Loses(line) <=> OnDirect /\ ~SelfCall(line)
        /\ ~Pairs(line) /\ ~Fails(line) /\ ~IsExit(line) /\ line.log # "data"
    BY <1>6 DEF Loses, Pairs, Fails, IsExit
  <2> QED BY <1>1, <1>2, <1>3, <2>2, <2>3, Zenon DEF c, e
<1>7. CASE IsExit(line)
  <2> DEFINE pairs == f.candidate /\ f.silent /\ line.log = "success"
             fails == \/ f.candidate /\ ~(f.silent /\ line.log = "success")
                      \/ f.self /\ ~f.candidate /\ f.silent /\ line.log = "success"
  <2>1. cpi.stack # <<>> /\ f.program = line.program /\ line.log \notin {"consumed", "invoke", "data"}
    BY <1>7 DEF Fits, IsExit
  <2>2. /\ e.calls = c.calls + (IF here /\ pairs THEN 1 ELSE 0)
        /\ e.gap <=> (c.gap \/ (here /\ (fails \/ (OnDirect /\ c.pending))))
        /\ e.pending <=> (c.pending /\ ~(here /\ (f.candidate \/ OnDirect)))
    BY <1>7, <2>1, ExitWalk, Zenon DEF c, e
  <2>3. f.silent => f.self
    BY <2>1, StackFacts DEF WalkState, FrameInv, Top
  <2>4. f.silent \in BOOLEAN /\ f.candidate \in BOOLEAN
    BY <2>1, StackFacts DEF Frames, Top
  <2>5. (Pairs(line) <=> pairs) /\ (Fails(line) <=> fails) /\ (Loses(line) <=> OnDirect)
    BY <1>7, <2>1, <2>3, <2>4, Zenon DEF Pairs, Fails, Loses, OnSilent
  <2> HIDE DEF pairs, fails
  <2>6. line.log # "data"
    BY <2>1
  <2> QED BY <1>1, <1>2, <1>7, <2>2, <2>5, <2>6, Zenon DEF c, e
<1>8. line.log = "consumed" \/ line.log \in {"data", "text"} \/ line.log = "invoke" \/ IsExit(line)
  BY LineFacts DEF Fits, IsExit
<1> QED BY <1>4, <1>5, <1>6, <1>7, <1>8, Zenon

\* One line that fits, taken by both walks.
LineStep(line) ==
    /\ WalkState /\ WalkInv /\ ~scope.malformed /\ Len(logs) < MaxLines
    /\ line \in Lines /\ Fits(line)
    /\ logs' = Append(logs, line)
    /\ cpi' = CoverageLine(cpi, line)
    /\ scope' = ScopeLine(scope, line)

\* The three kinds of lines that fit.
IsBody(line) == line.log # "invoke" /\ ~IsExit(line)

\* The stack after a line: the frames that stay, and the one that is pushed.
LEMMA NewStack ==
    ASSUME NEW line, LineStep(line)
    PROVE  /\ Len(cpi.stack) \in Nat /\ DOMAIN cpi.stack = 1..Len(cpi.stack)
           /\ Depth(line) \in Nat /\ Len(cpi'.stack) = Depth(line) /\ DOMAIN cpi'.stack = 1..Depth(line)
           /\ IsExit(line) => cpi.stack # <<>> /\ Depth(line) = Len(cpi.stack) - 1 /\ line.log # "invoke"
           /\ line.log = "invoke" => Depth(line) = Len(cpi.stack) + 1
           /\ IsBody(line) => Depth(line) = Len(cpi.stack)
           /\ \A d \in 1..Depth(line) :
                \/ /\ d \in 1..Len(cpi.stack)
                   /\ SameFrame(cpi'.stack[d], cpi.stack[d])
                   /\ cpi'.stack[d].silent <=> (line.log = "consumed" /\ cpi.stack[d].silent)
                   /\ cpi'.next = cpi.next
                   /\ \A e \in 1..d : SameFrame(cpi'.stack[e], cpi.stack[e]) /\ e \in 1..Depth(line)
                \/ /\ line.log = "invoke" /\ d = Len(cpi.stack) + 1
                   /\ \A e \in 1..(d - 1) : SameFrame(cpi'.stack[e], cpi.stack[e]) /\ e \in 1..Len(cpi.stack)
           /\ \A d \in 1..Len(cpi.stack) : d <= Depth(line) => d \in 1..Depth(line)
           /\ \A d \in 1..Len(cpi.stack) : d \in 1..Depth(line) \/ (IsExit(line) /\ d = Len(cpi.stack))
<1> DEFINE n == Len(cpi.stack)
<1>1. line \in Lines /\ WalkState /\ Fits(line) /\ Len(logs) < MaxLines /\ cpi' = CoverageLine(cpi, line)
  BY DEF LineStep
<1>2. n \in Nat /\ DOMAIN cpi.stack = 1..n /\ (cpi.stack # <<>> <=> n \in 1..n)
  BY <1>1, StackFacts
<1>3. IsExit(line) => cpi.stack # <<>> /\ line.log # "invoke"
  BY <1>1 DEF Fits, IsExit
<1>4. /\ IsExit(line) => Depth(line) = n - 1
      /\ line.log = "invoke" => Depth(line) = n + 1
      /\ IsBody(line) => Depth(line) = n
  BY <1>3, Zenon DEF Depth, IsBody
<1>5. Depth(line) \in Nat
  BY <1>2, <1>3, <1>4 DEF IsBody
<1>6. /\ Len(cpi'.stack) = Depth(line) /\ cpi' \in CoverageScans
      /\ cpi'.next = IF line.log = "invoke" /\ cpi.stack = <<>> THEN cpi.next + 1 ELSE cpi.next
      /\ \A d \in 1..n : d <= Depth(line) =>
                /\ SameFrame(cpi'.stack[d], cpi.stack[d])
                /\ cpi'.stack[d].silent <=> (line.log = "consumed" /\ cpi.stack[d].silent)
  BY <1>1, FramesStep, Zenon
<1>7. DOMAIN cpi'.stack = 1..Depth(line)
  BY <1>6 DEF CoverageScans
<1>8. \A d \in 1..Depth(line) : d \in 1..n \/ (line.log = "invoke" /\ d = n + 1)
  BY <1>2, <1>4 DEF IsBody
<1>9. /\ \A d \in 1..n : d <= Depth(line) => d \in 1..Depth(line)
      /\ \A d \in 1..n : d \in 1..Depth(line) \/ (IsExit(line) /\ d = n)
  BY <1>2, <1>4, <1>5 DEF IsBody
<1>10. ASSUME NEW d \in 1..Depth(line)
       PROVE   \/ /\ d \in 1..n
                  /\ SameFrame(cpi'.stack[d], cpi.stack[d])
                  /\ cpi'.stack[d].silent <=> (line.log = "consumed" /\ cpi.stack[d].silent)
                  /\ cpi'.next = cpi.next
                  /\ \A e \in 1..d : SameFrame(cpi'.stack[e], cpi.stack[e]) /\ e \in 1..Depth(line)
               \/ /\ line.log = "invoke" /\ d = n + 1
                  /\ \A e \in 1..(d - 1) : SameFrame(cpi'.stack[e], cpi.stack[e]) /\ e \in 1..n
  <2>1. CASE d \in 1..n
    <3>1. d <= Depth(line) /\ \A e \in 1..d : e \in 1..n /\ e <= Depth(line) /\ e \in 1..Depth(line)
      BY <1>2, <1>5, <2>1
    <3>2. cpi.stack # <<>>
      BY <1>2, <2>1
    <3> QED BY <1>6, <2>1, <3>1, <3>2, Zenon
  <2>2. CASE line.log = "invoke" /\ d = n + 1
    <3>1. \A e \in 1..(d - 1) : e \in 1..n /\ e <= Depth(line)
      BY <1>2, <1>4, <2>2
    <3> QED BY <1>6, <2>2, <3>1, Zenon
  <2> QED BY <1>8, <2>1, <2>2, Zenon
<1> QED BY <1>2, <1>3, <1>4, <1>5, <1>6, <1>7, <1>9, <1>10, Zenon

\* The frame an invocation pushes.
LEMMA NewFrame ==
    ASSUME NEW line, LineStep(line), line.log = "invoke"
    PROVE  LET f == cpi'.stack[Len(cpi.stack) + 1] IN
           /\ f.program = line.program /\ f.instruction = cpi'.next - 1
           /\ f.self <=> SelfCall(line)
           /\ f.silent <=> SelfCall(line)
           /\ f.candidate <=> SelfCall(line) /\ OnDirect /\ Pending
           /\ f.self \in BOOLEAN /\ Top(cpi'.stack) = f /\ cpi'.stack # <<>>
<1>1. line \in Lines /\ WalkState /\ Fits(line) /\ Len(logs) < MaxLines /\ cpi' = CoverageLine(cpi, line)
  BY DEF LineStep
<1>2. LET f == cpi'.stack[Len(cpi.stack) + 1] IN
           /\ f.program = line.program /\ f.instruction = cpi'.next - 1
           /\ f.self <=> SelfCall(line)
           /\ f.silent <=> SelfCall(line)
           /\ f.candidate <=> SelfCall(line) /\ OnDirect /\ Pending
  BY <1>1, FramesStep, Zenon
<1>3. cpi'.stack \in Seq(Frames) /\ Len(cpi'.stack) = Len(cpi.stack) + 1 /\ Len(cpi.stack) \in Nat
  BY <1>1, FramesStep, NewStack DEF CoverageScans
<1>4. cpi'.stack[Len(cpi.stack) + 1] \in Frames /\ cpi'.stack # <<>>
  BY <1>3
<1>5. Top(cpi'.stack) = cpi'.stack[Len(cpi.stack) + 1]
  BY <1>3, Zenon DEF Top
<1>6. cpi'.stack[Len(cpi.stack) + 1].self \in BOOLEAN
  BY <1>4 DEF Frames
<1> QED BY <1>2, <1>4, <1>5, <1>6, Zenon

\* The stack is still the open invocations.
LEMMA StackInvStep ==
    ASSUME NEW line, LineStep(line)
    PROVE  StackInv'
<1> DEFINE n == Len(cpi.stack)
           m == Len(logs)
<1>1. line \in Lines /\ WalkState /\ WalkInv /\ Fits(line) /\ logs' = Append(logs, line)
  BY DEF LineStep
<1>2. /\ (\A j \in DOMAIN logs' : LineFits(logs', j))
      /\ OpenAfter(logs', Len(logs')) = Depth(line)
      /\ logs'[m + 1] = line /\ \A k \in 1..m : logs'[k] = logs[k]
      /\ \A d : OpenedBy(logs', Len(logs'), d) =
           IF line.log = "invoke" /\ n + 1 = d THEN m + 1 ELSE Opened(d)
  BY <1>1, LinesStep, Zenon DEF Depth
<1>3. /\ \A k \in 1..m : CallsItself(logs', k) <=> CallsItself(logs, k)
      /\ CallsItself(logs', m + 1) <=> line.log = "invoke" /\ SelfCall(line)
  BY <1>1, EvidenceStep, Zenon
<1>4. \A d \in 1..n : Opened(d) \in 1..m
  BY <1>1, ActiveIsTop, Zenon DEF WalkInv
<1>5. /\ n \in Nat /\ DOMAIN cpi.stack = 1..n
      /\ Len(cpi'.stack) = Depth(line) /\ DOMAIN cpi'.stack = 1..Depth(line)
      /\ \A d \in 1..Depth(line) :
                \/ /\ d \in 1..n
                   /\ SameFrame(cpi'.stack[d], cpi.stack[d])
                   /\ cpi'.next = cpi.next
                   /\ \A e \in 1..d : SameFrame(cpi'.stack[e], cpi.stack[e])
                \/ /\ line.log = "invoke" /\ d = n + 1
                   /\ \A e \in 1..(d - 1) : SameFrame(cpi'.stack[e], cpi.stack[e])
  BY NewStack, Zenon
<1>6. ASSUME NEW d \in 1..Depth(line)
      PROVE  /\ cpi'.stack[d].program = logs'[OpenedBy(logs', Len(logs'), d)].program
             /\ cpi'.stack[d].instruction = cpi'.next - 1
             /\ cpi'.stack[d].self <=> CallsItself(logs', OpenedBy(logs', Len(logs'), d))
             /\ cpi'.stack[d].self <=>
                  cpi'.stack[d].program = Program /\ \E e \in 1..(d - 1) : cpi'.stack[e].program = Program
  <2>1. CASE /\ d \in 1..n
             /\ SameFrame(cpi'.stack[d], cpi.stack[d])
             /\ cpi'.next = cpi.next
             /\ \A e \in 1..d : SameFrame(cpi'.stack[e], cpi.stack[e])
    <3>1. d # n + 1 /\ \A e \in 1..(d - 1) : e \in 1..d
      BY <1>5, <2>1
    <3>2. OpenedBy(logs', Len(logs'), d) = Opened(d) /\ Opened(d) \in 1..m
      BY <1>2, <1>4, <2>1, <3>1, Zenon
    <3>3. /\ logs'[Opened(d)] = logs[Opened(d)]
          /\ CallsItself(logs', Opened(d)) <=> CallsItself(logs, Opened(d))
      BY <1>2, <1>3, <3>2, Zenon
    <3>4. /\ cpi.stack[d].program = logs[Opened(d)].program
          /\ cpi.stack[d].instruction = cpi.next - 1
          /\ cpi.stack[d].self <=> CallsItself(logs, Opened(d))
          /\ cpi.stack[d].self <=>
               cpi.stack[d].program = Program /\ \E e \in 1..(d - 1) : cpi.stack[e].program = Program
      BY <1>1, <1>5, <2>1, Zenon DEF WalkState, StackInv
    <3>5. \A e \in 1..(d - 1) : cpi'.stack[e].program = cpi.stack[e].program
      BY <2>1, <3>1, Zenon DEF SameFrame
    <3>6. /\ cpi'.stack[d].program = cpi.stack[d].program
          /\ cpi'.stack[d].instruction = cpi.stack[d].instruction
          /\ cpi'.stack[d].self = cpi.stack[d].self
      BY <2>1, Zenon DEF SameFrame
    <3> QED BY <2>1, <3>2, <3>3, <3>4, <3>5, <3>6, Zenon
  <2>2. CASE /\ line.log = "invoke" /\ d = n + 1
             /\ \A e \in 1..(d - 1) : SameFrame(cpi'.stack[e], cpi.stack[e])
    <3>1. OpenedBy(logs', Len(logs'), d) = m + 1
      BY <1>2, <2>2, Zenon
    <3>2. 1..(d - 1) = 1..n
      BY <1>5, <2>2
    <3>3. /\ cpi'.stack[d].program = line.program /\ cpi'.stack[d].instruction = cpi'.next - 1
          /\ cpi'.stack[d].self <=> SelfCall(line)
      BY <2>2, NewFrame, Zenon
    <3>4. SelfCall(line) <=> line.program = Program /\ \E e \in 1..(d - 1) : cpi'.stack[e].program = Program
      <4>1. \A e \in 1..(d - 1) : cpi'.stack[e].program = cpi.stack[e].program
        BY <2>2, Zenon DEF SameFrame
      <4> QED BY <1>5, <3>2, <4>1, Zenon DEF SelfCall
    <3> QED BY <1>2, <1>3, <2>2, <3>1, <3>3, <3>4, Zenon
  <2> QED BY <1>5, <2>1, <2>2, Zenon
<1> QED BY <1>2, <1>5, <1>6, Zenon DEF StackInv, Opened

\* At most one frame is direct, so at most one can be a candidate, and an event
\* pends in a direct frame or for a candidate above it, never both.
LEMMA OneDirect ==
    ASSUME WalkState
    PROVE  /\ \A d, e \in 1..Len(cpi.stack) : IsDirect(cpi.stack[d]) /\ IsDirect(cpi.stack[e]) => d = e
           /\ \A d \in 1..Len(cpi.stack) : cpi.stack[d].candidate =>
                /\ cpi.stack[d].self /\ d > 1 /\ d - 1 \in 1..Len(cpi.stack)
                /\ IsDirect(cpi.stack[d - 1]) /\ Pending /\ ~OnDirect
           /\ OnDirect => \A d \in 1..Len(cpi.stack) : ~cpi.stack[d].candidate
<1> DEFINE n == Len(cpi.stack)
<1>1. /\ n \in Nat /\ DOMAIN cpi.stack = 1..n /\ (cpi.stack # <<>> <=> n \in 1..n)
      /\ \A d \in 1..n : cpi.stack[d] \in Frames
  BY StackFacts
<1>2. \A d \in 1..n :
        cpi.stack[d].self <=> cpi.stack[d].program = Program /\ \E e \in 1..(d - 1) : cpi.stack[e].program = Program
  BY <1>1, Zenon DEF WalkState, StackInv
<1>3. \A d, e \in 1..n : IsDirect(cpi.stack[d]) /\ IsDirect(cpi.stack[e]) => d = e
  <2> SUFFICES ASSUME NEW d \in 1..n, NEW e \in 1..n, IsDirect(cpi.stack[d]), IsDirect(cpi.stack[e]), d # e
               PROVE  FALSE
    BY Zenon
  <2>1. /\ cpi.stack[d].program = Program /\ cpi.stack[e].program = Program
        /\ ~cpi.stack[d].self /\ ~cpi.stack[e].self
    BY Zenon DEF IsDirect
  <2>2. d \in 1..(e - 1) \/ e \in 1..(d - 1)
    BY <1>1
  <2> QED BY <1>2, <2>1, <2>2, Zenon
<1>4. ASSUME NEW d \in 1..n, cpi.stack[d].candidate
      PROVE  /\ cpi.stack[d].self /\ d > 1 /\ d - 1 \in 1..n
             /\ IsDirect(cpi.stack[d - 1]) /\ Pending /\ ~OnDirect
  <2>1. cpi.stack[d].self /\ d > 1 /\ IsDirect(cpi.stack[d - 1]) /\ Pending
    BY <1>1, <1>4 DEF WalkState, FrameInv
  <2>2. d - 1 \in 1..n /\ d - 1 # n
    BY <1>1, <2>1
  <2>3. OnDirect => n \in 1..n /\ IsDirect(cpi.stack[n])
    BY <1>1, Zenon DEF OnDirect, Top
  <2> QED BY <1>3, <2>1, <2>2, <2>3, Zenon
<1> QED BY <1>3, <1>4, Zenon

\* The top of the stack after a line.
LEMMA NewTop ==
    ASSUME NEW line, LineStep(line)
    PROVE  /\ line.log = "invoke" => /\ OnDirect' <=> line.program = Program /\ ~SelfCall(line)
                                     /\ OnSilent' <=> SelfCall(line)
           /\ IsBody(line) => /\ OnDirect' <=> OnDirect
                              /\ OnSilent' <=> (line.log = "consumed" /\ OnSilent)
           /\ IsExit(line) => /\ OnDirect' <=> /\ Len(cpi.stack) - 1 \in 1..Len(cpi.stack)
                                               /\ IsDirect(cpi.stack[Len(cpi.stack) - 1])
                              /\ ~OnSilent'
<1> DEFINE n == Len(cpi.stack)
           m == Depth(line)
<1>1. WalkState /\ cpi' \in CoverageScans
  BY FramesStep DEF LineStep
<1>2. n \in Nat /\ (cpi.stack # <<>> <=> n \in 1..n)
  BY <1>1, StackFacts
<1>3. cpi'.stack \in Seq(Frames) /\ Len(cpi'.stack) = m /\ m \in Nat
  BY <1>1, NewStack DEF CoverageScans
<1>4. (cpi'.stack # <<>> <=> m \in 1..m) /\ Top(cpi'.stack) = cpi'.stack[m]
  BY <1>3 DEF Top
<1>5. CASE line.log = "invoke"
  <2>1. LET f == cpi'.stack[n + 1] IN
           /\ f.program = line.program
           /\ f.self <=> SelfCall(line)
           /\ f.silent <=> SelfCall(line)
           /\ Top(cpi'.stack) = f /\ cpi'.stack # <<>>
    BY <1>5, NewFrame, Zenon
  <2>2. ~IsBody(line) /\ ~IsExit(line)
    BY <1>5 DEF IsBody, IsExit
  <2> QED BY <2>1, <2>2, Zenon DEF OnDirect, OnSilent, IsDirect
<1>6. ASSUME line.log # "invoke", m \in 1..m
      PROVE  /\ m \in 1..n /\ SameFrame(cpi'.stack[m], cpi.stack[m])
             /\ cpi'.stack[m].silent <=> (line.log = "consumed" /\ cpi.stack[m].silent)
  BY <1>6, NewStack, Zenon
<1>7. CASE IsBody(line)
  <2>1. m = n /\ line.log # "invoke" /\ ~IsExit(line)
    BY <1>7, NewStack, Zenon DEF IsBody
  <2>2. CASE cpi.stack = <<>>
    BY <1>2, <1>4, <2>1, <2>2, Zenon DEF OnDirect, OnSilent
  <2>3. CASE cpi.stack # <<>>
    <3>1. m \in 1..m
      BY <1>2, <2>1, <2>3, Zenon
    <3>2. /\ SameFrame(cpi'.stack[n], cpi.stack[n])
          /\ cpi'.stack[n].silent <=> (line.log = "consumed" /\ cpi.stack[n].silent)
          /\ cpi'.stack # <<>> /\ Top(cpi'.stack) = cpi'.stack[n]
      BY <1>4, <1>6, <2>1, <3>1, Zenon
    <3> QED BY <2>1, <2>3, <3>2, Zenon DEF OnDirect, OnSilent, IsDirect, SameFrame, Top
  <2> QED BY <2>2, <2>3
<1>8. CASE IsExit(line)
  <2>1. m = n - 1 /\ line.log # "invoke" /\ ~IsBody(line) /\ line.log # "consumed"
    BY <1>8, NewStack DEF IsBody, IsExit
  <2>2. m \in 1..m <=> n - 1 \in 1..n
    BY <1>2, <1>3, <2>1
  <2>3. m \in 1..m => SameFrame(cpi'.stack[n - 1], cpi.stack[n - 1]) /\ ~cpi'.stack[n - 1].silent
    BY <1>6, <2>1, Zenon
  <2>4. Top(cpi'.stack) = cpi'.stack[n - 1]
    BY <1>4, <2>1, Zenon
  <2> QED BY <1>4, <2>1, <2>2, <2>3, <2>4, Zenon DEF OnDirect, OnSilent, IsDirect, SameFrame
<1> QED BY <1>5, <1>7, <1>8, Zenon DEF IsBody

\* Whether an event of the instruction pends after a line.
LEMMA NewPending ==
    ASSUME NEW line, LineStep(line)
    PROVE  /\ cpi.stack # <<>> =>
                (Pending' <=> IF Loses(line) THEN line.log = "data"
                              ELSE Pending /\ ~(IsExit(line) /\ Top(cpi.stack).candidate))
           /\ cpi.stack = <<>> => ~Pending /\ ~Pending'
           /\ cpi.stack # <<>> => cpi'.next = cpi.next
           /\ \A i \in Instructions : cpi.coverage[i].pending => cpi.stack # <<>>
<1>1. WalkState /\ line \in Lines /\ Fits(line) /\ Len(logs) < MaxLines /\ cpi' = CoverageLine(cpi, line)
  BY DEF LineStep
<1>2. cpi'.next = IF line.log = "invoke" /\ cpi.stack = <<>> THEN cpi.next + 1 ELSE cpi.next
  BY <1>1, FramesStep, Zenon
<1>3. \A i \in Instructions : cpi.coverage[i].pending => i = cpi.next - 1 /\ cpi.stack # <<>>
  <2>1. DOMAIN cpi.stack = 1..Len(cpi.stack) /\ Len(cpi.stack) \in Nat
    BY <1>1, StackFacts
  <2>2. cpi.stack = <<>> => DOMAIN cpi.stack = {}
    OBVIOUS
  <2> QED BY <1>1, <2>2, Zenon DEF WalkState, FrameInv, OnDirect
<1>4. CASE cpi.stack # <<>>
  <2>1. cpi.next > 0 /\ cpi.next - 1 \in Instructions /\ cpi'.next = cpi.next
    BY <1>1, <1>2, <1>4, StackFacts, Zenon
  <2>2. PICK i \in Instructions : i = cpi.next - 1
    BY <2>1, Zenon
  <2>3. cpi'.coverage[i].pending <=>
                IF Loses(line) THEN line.log = "data"
                ELSE cpi.coverage[i].pending /\ ~(IsExit(line) /\ Top(cpi.stack).candidate)
    BY <1>1, <2>2, CoverageStep, Zenon
  <2> QED BY <1>3, <1>4, <2>1, <2>2, <2>3, Zenon DEF Pending
<1>5. CASE cpi.stack = <<>>
  <2>1. ~Loses(line) /\ ~IsExit(line)
    BY <1>1, <1>5, Zenon DEF Loses, OnDirect, Fits
  <2>2. \A i \in Instructions : ~cpi'.coverage[i].pending
    <3> TAKE i \in Instructions
    <3>1. ~cpi.coverage[i].pending
      BY <1>3, <1>5, Zenon
    <3> QED BY <1>1, <2>1, <3>1, CoverageStep, Zenon
  <2>3. cpi.next \in Nat /\ cpi.next <= Len(logs) /\ Len(logs) \in Nat
    BY <1>1 DEF WalkState, LogsTypes, CoverageScans
  <2>4. cpi'.next > 0 => cpi'.next - 1 \in Instructions
    BY <1>1, <1>2, <2>3, LogsAssumption DEF Instructions
  <2>5. cpi.next > 0 => cpi.next - 1 \in Instructions
    BY <1>1, <2>3, LogsAssumption DEF Instructions
  <2> QED BY <1>3, <1>5, <2>2, <2>4, <2>5, Zenon DEF Pending
<1> QED BY <1>3, <1>4, <1>5, Zenon

\* The frames stay consistent.
LEMMA FrameInvStep ==
    ASSUME NEW line, LineStep(line)
    PROVE  FrameInv'
<1> DEFINE n == Len(cpi.stack)
           m == Depth(line)
           old(d) == /\ d \in 1..n
                     /\ SameFrame(cpi'.stack[d], cpi.stack[d])
                     /\ cpi'.stack[d].silent <=> (line.log = "consumed" /\ cpi.stack[d].silent)
                     /\ cpi'.next = cpi.next
                     /\ \A e \in 1..d : SameFrame(cpi'.stack[e], cpi.stack[e]) /\ e \in 1..m
           new(d) == /\ line.log = "invoke" /\ d = n + 1
                     /\ \A e \in 1..(d - 1) : SameFrame(cpi'.stack[e], cpi.stack[e]) /\ e \in 1..n
<1>1. WalkState /\ line \in Lines /\ Fits(line) /\ Len(logs) < MaxLines /\ cpi' = CoverageLine(cpi, line)
  BY DEF LineStep
<1>2. /\ n \in Nat /\ DOMAIN cpi.stack = 1..n /\ m \in Nat /\ Len(cpi'.stack) = m /\ DOMAIN cpi'.stack = 1..m
      /\ IsExit(line) => cpi.stack # <<>> /\ m = n - 1 /\ line.log # "invoke"
      /\ line.log = "invoke" => m = n + 1
      /\ IsBody(line) => m = n
      /\ \A d \in 1..m : old(d) \/ new(d)
      /\ \A d \in 1..n : d \in 1..m \/ (IsExit(line) /\ d = n)
  BY NewStack, Zenon
<1>3. cpi.stack # <<>> <=> n \in 1..n
  BY <1>1, StackFacts
<1>4. line.log = "invoke" =>
        LET f == cpi'.stack[n + 1] IN
           /\ f.self <=> SelfCall(line)
           /\ f.silent <=> SelfCall(line)
           /\ f.candidate <=> SelfCall(line) /\ OnDirect /\ Pending
  BY NewFrame, Zenon
<1>5. /\ \A d, e \in 1..n : IsDirect(cpi.stack[d]) /\ IsDirect(cpi.stack[e]) => d = e
      /\ \A d \in 1..n : cpi.stack[d].candidate =>
                /\ cpi.stack[d].self /\ d > 1 /\ d - 1 \in 1..n
                /\ IsDirect(cpi.stack[d - 1]) /\ Pending /\ ~OnDirect
  BY <1>1, OneDirect, Zenon
<1>6. /\ cpi.stack # <<>> =>
                (Pending' <=> IF Loses(line) THEN line.log = "data"
                              ELSE Pending /\ ~(IsExit(line) /\ Top(cpi.stack).candidate))
      /\ cpi.stack # <<>> => cpi'.next = cpi.next
      /\ \A i \in Instructions : cpi.coverage[i].pending => cpi.stack # <<>>
  BY NewPending, Zenon
<1>7. ASSUME NEW d \in 1..m, cpi'.stack[d].silent PROVE d = m /\ cpi'.stack[d].self
  <2>1. CASE old(d)
    <3>1. line.log = "consumed" /\ cpi.stack[d].silent /\ cpi'.stack[d].self = cpi.stack[d].self
      BY <1>7, <2>1, Zenon DEF SameFrame
    <3>2. d = n /\ cpi.stack[d].self
      BY <1>1, <1>2, <2>1, <3>1, Zenon DEF WalkState, FrameInv
    <3>3. IsBody(line)
      BY <3>1 DEF IsBody, IsExit
    <3> QED BY <1>2, <3>1, <3>2, <3>3, Zenon
  <2>2. CASE new(d)
    BY <1>2, <1>4, <1>7, <2>2, Zenon
  <2> QED BY <1>2, <2>1, <2>2, Zenon
<1>8. ASSUME NEW d \in 1..m, cpi'.stack[d].candidate
      PROVE  cpi'.stack[d].self /\ d > 1 /\ IsDirect(cpi'.stack[d - 1]) /\ Pending'
  <2>1. CASE old(d)
    <3>1. cpi.stack[d].candidate /\ cpi'.stack[d].self = cpi.stack[d].self
      BY <1>8, <2>1, Zenon DEF SameFrame
    <3>2. cpi.stack[d].self /\ d > 1 /\ d - 1 \in 1..n /\ IsDirect(cpi.stack[d - 1]) /\ Pending /\ ~OnDirect
      BY <1>5, <2>1, <3>1, Zenon
    <3>4. d - 1 \in 1..d
      BY <2>1, <3>2
    <3>5. IsDirect(cpi'.stack[d - 1])
      BY <2>1, <3>2, <3>4, Zenon DEF SameFrame, IsDirect
    <3>6. ~(IsExit(line) /\ Top(cpi.stack).candidate)
      <4> SUFFICES ASSUME IsExit(line), cpi.stack[n].candidate PROVE FALSE
        BY Zenon DEF Top
      <4>1. n \in 1..n
        BY <1>2, <1>3, Zenon
      <4>2. n - 1 \in 1..n /\ IsDirect(cpi.stack[n - 1])
        BY <1>5, <4>1, Zenon
      <4>3. n - 1 = d - 1
        BY <1>5, <3>2, <4>2, Zenon
      <4> QED BY <1>2, <4>3
    <3>7. cpi.stack # <<>> /\ ~Loses(line)
      BY <1>2, <1>3, <2>1, <3>2 DEF Loses
    <3> QED BY <1>6, <3>1, <3>2, <3>5, <3>6, <3>7, Zenon
  <2>2. CASE new(d)
    <3>1. SelfCall(line) /\ OnDirect /\ Pending /\ cpi'.stack[d].self
      BY <1>4, <1>8, <2>2, Zenon
    <3>2. cpi.stack # <<>> /\ IsDirect(cpi.stack[n]) /\ n \in 1..n
      BY <1>3, <3>1, Zenon DEF OnDirect, Top
    <3>3. d > 1 /\ d - 1 = n /\ n \in 1..(d - 1)
      BY <1>2, <2>2, <3>2
    <3>4. IsDirect(cpi'.stack[d - 1])
      BY <2>2, <3>2, <3>3, Zenon DEF SameFrame, IsDirect
    <3>5. ~Loses(line) /\ ~IsExit(line)
      BY <1>2, <2>2, <3>1, Zenon DEF Loses
    <3> QED BY <1>6, <3>1, <3>2, <3>3, <3>4, <3>5, Zenon
  <2> QED BY <1>2, <2>1, <2>2, Zenon
<1>9. ASSUME NEW i \in Instructions, cpi'.coverage[i].pending
      PROVE  i = cpi'.next - 1 /\ (OnDirect' \/ \E d \in 1..m : cpi'.stack[d].candidate)
  <2>1. cpi'.coverage[i].pending <=>
                IF i = cpi.next - 1 /\ Loses(line) THEN line.log = "data"
                ELSE cpi.coverage[i].pending /\ ~(i = cpi.next - 1 /\ IsExit(line) /\ Top(cpi.stack).candidate)
    BY <1>1, CoverageStep, Zenon
  <2>2. IsBody(line) => (OnDirect' <=> OnDirect)
    BY NewTop, Zenon
  <2>3. CASE i = cpi.next - 1 /\ Loses(line)
    <3>1. OnDirect /\ line.log = "data"
      BY <1>9, <2>1, <2>3, Zenon DEF Loses
    <3>2. IsBody(line) /\ cpi.stack # <<>>
      BY <3>1 DEF IsBody, IsExit, OnDirect
    <3> QED BY <1>6, <2>2, <2>3, <3>1, <3>2, Zenon
  <2>4. CASE ~(i = cpi.next - 1 /\ Loses(line))
    <3>1. cpi.coverage[i].pending /\ ~(i = cpi.next - 1 /\ IsExit(line) /\ Top(cpi.stack).candidate)
      BY <1>9, <2>1, <2>4, Zenon
    <3>2. i = cpi.next - 1 /\ (OnDirect \/ \E d \in 1..n : cpi.stack[d].candidate)
      BY <1>1, <1>2, <3>1, Zenon DEF WalkState, FrameInv
    <3>3. cpi.stack # <<>> /\ i = cpi'.next - 1
      BY <1>6, <3>1, <3>2, Zenon
    <3>4. CASE OnDirect /\ line.log = "consumed"
      <4>1. IsBody(line)
        BY <3>4 DEF IsBody, IsExit
      <4> QED BY <2>2, <3>3, <3>4, <4>1, Zenon
    <3>5. CASE OnDirect /\ line.log # "consumed"
      <4>1. line.log = "invoke" /\ SelfCall(line)
        BY <2>4, <3>2, <3>5, Zenon DEF Loses
      <4>2. Pending
        BY <1>1, <3>1, <3>2, <3>3, StackFacts, Zenon DEF Pending
      <4>3. cpi'.stack[n + 1].candidate
        BY <1>4, <3>5, <4>1, <4>2, Zenon
      <4>4. n + 1 \in 1..m
        BY <1>2, <4>1
      <4> QED BY <3>3, <4>3, <4>4, Zenon
    <3>6. CASE ~OnDirect
      <4>1. PICK d \in 1..n : cpi.stack[d].candidate
        BY <3>2, <3>6, Zenon
      <4>2. ~(IsExit(line) /\ d = n)
        BY <3>1, <3>2, <4>1, Zenon DEF Top
      <4>3. d \in 1..m
        BY <1>2, <4>2, Zenon
      <4>4. d # n + 1
        BY <1>2
      <4>5. old(d)
        BY <1>2, <4>3, <4>4, Zenon
      <4>6. cpi'.stack[d].candidate
        BY <4>1, <4>5, Zenon DEF SameFrame
      <4> QED BY <3>3, <4>3, <4>6, Zenon
    <3> QED BY <3>4, <3>5, <3>6, Zenon
  <2> QED BY <2>3, <2>4, Zenon
<1> QED BY <1>2, <1>7, <1>8, <1>9, Zenon DEF FrameInv

\* A line that is not a compute line leaves no earlier line the last thing said.
LEMMA LinkInvStep ==
    ASSUME NEW line, LineStep(line)
    PROVE  LinkInv'
<1> DEFINE n == Len(cpi.stack)
           m == Depth(line)
           k0 == Len(logs)
           k1 == k0 + 1
<1>1. /\ WalkState /\ WalkInv /\ line \in Lines /\ Fits(line) /\ Len(logs) < MaxLines
      /\ cpi' = CoverageLine(cpi, line) /\ logs' = Append(logs, line)
  BY DEF LineStep
<1>2. /\ k0 \in Nat /\ DOMAIN logs = 1..k0 /\ DOMAIN logs' = 1..k1
      /\ \A k : k \in 1..k1 <=> k \in 1..k0 \/ k = k1
      /\ k1 \notin 1..k0
      /\ \A d : OpenedBy(logs', Len(logs'), d) = IF line.log = "invoke" /\ n + 1 = d THEN k1 ELSE Opened(d)
  BY <1>1, LinesStep, Zenon
<1>3. /\ \A j \in 1..k0 : Quiet(logs', j) <=> Quiet(logs, j) /\ line.log = "consumed"
      /\ Quiet(logs', k1)
      /\ \A j, k \in 1..k0 : FollowedBy(logs', j, k) <=> FollowedBy(logs, j, k)
      /\ \A j \in 1..k0 : FollowedBy(logs', j, k1) <=> Quiet(logs, j) /\ line.log # "consumed"
      /\ \A k \in 1..k1 : ~FollowedBy(logs', k1, k)
  <2>1. logs \in Seq(Lines)
    BY <1>1 DEF WalkState, LogsTypes
  <2> QED BY <1>1, <2>1, FollowStep, Zenon
<1>4. /\ Direct(logs') = Direct(logs) \cup (IF line.log = "data" /\ OnDirect THEN {k1} ELSE {})
      /\ \A k \in 1..k0 : CallsItself(logs', k) <=> CallsItself(logs, k)
      /\ CallsItself(logs', k1) <=> line.log = "invoke" /\ SelfCall(line)
  BY <1>1, EvidenceStep, Zenon
<1>5. Direct(logs) \subseteq 1..k0
  BY <1>2, Zenon DEF Direct, Events
<1>6. /\ (\E j \in Direct(logs) : Quiet(logs, j)) <=> OnDirect /\ Pending
      /\ \A k \in 1..k0 : CallsItself(logs, k) /\ Quiet(logs, k) <=> OnSilent /\ k = Opened(n)
      /\ \A d \in DOMAIN cpi.stack : cpi.stack[d].self =>
           (cpi.stack[d].candidate <=> \E j \in Direct(logs) : FollowedBy(logs, j, Opened(d)))
  BY <1>1, <1>2, Zenon DEF WalkInv, LinkInv
<1>7. /\ n \in Nat /\ DOMAIN cpi.stack = 1..n /\ m \in Nat /\ Len(cpi'.stack) = m /\ DOMAIN cpi'.stack = 1..m
      /\ IsExit(line) => cpi.stack # <<>> /\ m = n - 1 /\ line.log # "invoke"
      /\ line.log = "invoke" => m = n + 1
      /\ IsBody(line) => m = n
      /\ \A d \in 1..m : \/ d \in 1..n /\ SameFrame(cpi'.stack[d], cpi.stack[d])
                         \/ line.log = "invoke" /\ d = n + 1
  BY NewStack, Zenon
<1>8. /\ line.log = "invoke" => /\ OnDirect' <=> line.program = Program /\ ~SelfCall(line)
                                /\ OnSilent' <=> SelfCall(line)
      /\ IsBody(line) => /\ OnDirect' <=> OnDirect
                         /\ OnSilent' <=> (line.log = "consumed" /\ OnSilent)
      /\ IsExit(line) => /\ OnDirect' <=> n - 1 \in 1..n /\ IsDirect(cpi.stack[n - 1])
                         /\ ~OnSilent'
  BY NewTop, Zenon
<1>9. /\ cpi.stack # <<>> =>
                (Pending' <=> IF Loses(line) THEN line.log = "data"
                              ELSE Pending /\ ~(IsExit(line) /\ Top(cpi.stack).candidate))
      /\ cpi.stack = <<>> => ~Pending /\ ~Pending'
  BY NewPending, Zenon
<1>10. \A d \in 1..n : Opened(d) \in 1..k0
  BY <1>1, ActiveIsTop, Zenon DEF WalkInv
<1>11. (cpi.stack # <<>> <=> n \in 1..n) /\ (OnDirect => cpi.stack # <<>>) /\ (OnSilent => cpi.stack # <<>>)
  BY <1>1, StackFacts DEF OnDirect, OnSilent
<1>12. (\E j \in Direct(logs') : Quiet(logs', j)) <=>
         \/ line.log = "data" /\ OnDirect
         \/ line.log = "consumed" /\ OnDirect /\ Pending
  BY <1>2, <1>3, <1>4, <1>5, <1>6, Zenon
<1>13. (OnDirect' /\ Pending') <=>
         \/ line.log = "data" /\ OnDirect
         \/ line.log = "consumed" /\ OnDirect /\ Pending
  <2>1. CASE cpi.stack = <<>>
    BY <1>9, <1>11, <2>1, Zenon
  <2>2. CASE cpi.stack # <<>> /\ IsBody(line)
    <3>1. line.log # "invoke" /\ ~IsExit(line)
      BY <2>2 DEF IsBody
    <3>2. Loses(line) <=> OnDirect /\ line.log # "consumed"
      BY <3>1, Zenon DEF Loses
    <3>3. ~(line.log = "data" /\ line.log = "consumed")
      OBVIOUS
    <3> QED BY <1>8, <1>9, <2>2, <3>1, <3>2, <3>3, Zenon
  <2>3. CASE cpi.stack # <<>> /\ line.log = "invoke"
    <3>1. line.log # "data" /\ line.log # "consumed" /\ ~IsExit(line)
      BY <2>3 DEF IsExit
    <3>2. ASSUME OnDirect', Pending' PROVE FALSE
      <4>1. line.program = Program /\ ~SelfCall(line)
        BY <1>8, <2>3, <3>2, Zenon
      <4>2. \A d \in 1..n : cpi.stack[d].program # Program
        BY <1>7, <4>1, Zenon DEF SelfCall
      <4>3. ~OnDirect
        BY <1>11, <4>2, Zenon DEF OnDirect, IsDirect, Top
      <4>4. \A d \in 1..n : ~cpi.stack[d].candidate
        BY <1>1, <4>2, OneDirect, Zenon DEF IsDirect
      <4>5. Pending
        BY <1>9, <2>3, <3>1, <3>2, <4>3, Zenon DEF Loses
      <4>6. cpi.next - 1 \in Instructions /\ cpi.coverage[cpi.next - 1].pending
        BY <1>1, <2>3, <4>5, StackFacts, Zenon DEF Pending
      <4> QED BY <1>1, <1>7, <4>3, <4>4, <4>6, Zenon DEF WalkState, FrameInv
    <3> QED BY <3>1, <3>2, Zenon
  <2>4. CASE cpi.stack # <<>> /\ IsExit(line)
    <3>1. line.log # "data" /\ line.log # "consumed" /\ line.log # "invoke"
      BY <2>4 DEF IsExit
    <3>2. ASSUME OnDirect', Pending' PROVE FALSE
      <4>1. n - 1 \in 1..n /\ IsDirect(cpi.stack[n - 1])
        BY <1>8, <2>4, <3>2, Zenon
      <4>2. ~OnDirect
        <5>1. n - 1 # n /\ n \in 1..n
          BY <1>7, <1>11, <2>4
        <5> QED BY <1>1, <4>1, <5>1, OneDirect, Zenon DEF OnDirect, Top
      <4>3. Pending /\ ~Top(cpi.stack).candidate
        BY <1>9, <2>4, <3>2, <4>2, Zenon DEF Loses
      <4>4. cpi.next - 1 \in Instructions /\ cpi.coverage[cpi.next - 1].pending
        BY <1>1, <2>4, <4>3, StackFacts, Zenon DEF Pending
      <4>5. PICK d \in 1..n : cpi.stack[d].candidate
        BY <1>1, <1>7, <4>2, <4>4, Zenon DEF WalkState, FrameInv
      <4>6. d - 1 \in 1..n /\ IsDirect(cpi.stack[d - 1])
        BY <1>1, <4>5, OneDirect, Zenon
      <4>7. d - 1 = n - 1
        BY <1>1, <4>1, <4>6, OneDirect, Zenon
      <4>8. d = n
        BY <1>7, <4>7
      <4> QED BY <4>3, <4>5, <4>8, Zenon DEF Top
    <3> QED BY <3>1, <3>2, Zenon
  <2> QED BY <2>1, <2>2, <2>3, <2>4, Zenon DEF IsBody
<1>14. ASSUME NEW k \in 1..k1
       PROVE  CallsItself(logs', k) /\ Quiet(logs', k) <=> OnSilent' /\ k = OpenedBy(logs', Len(logs'), m)
  <2>1. CASE line.log = "invoke"
    <3>1. m = n + 1 /\ OpenedBy(logs', Len(logs'), m) = k1 /\ line.log # "consumed"
      BY <1>2, <1>7, <2>1
    <3> QED BY <1>2, <1>3, <1>4, <1>8, <2>1, <3>1, Zenon
  <2>2. CASE IsBody(line)
    <3>1. m = n /\ OpenedBy(logs', Len(logs'), m) = Opened(n) /\ line.log # "invoke"
      BY <1>2, <1>7, <2>2, Zenon DEF IsBody
    <3>2. OnSilent => Opened(n) \in 1..k0
      BY <1>10, <1>11, Zenon
    <3> QED BY <1>2, <1>3, <1>4, <1>6, <1>8, <2>2, <3>1, <3>2, Zenon
  <2>3. CASE IsExit(line)
    <3>1. line.log # "consumed" /\ line.log # "invoke"
      BY <2>3 DEF IsExit
    <3> QED BY <1>2, <1>3, <1>4, <1>8, <2>3, <3>1, Zenon
  <2> QED BY <2>1, <2>2, <2>3, Zenon DEF IsBody
<1>15. ASSUME NEW d \in 1..m, cpi'.stack[d].self
       PROVE  cpi'.stack[d].candidate <=>
                \E j \in Direct(logs') : FollowedBy(logs', j, OpenedBy(logs', Len(logs'), d))
  <2>1. CASE d \in 1..n /\ SameFrame(cpi'.stack[d], cpi.stack[d])
    <3>1. d # n + 1
      BY <1>7, <2>1
    <3>2. OpenedBy(logs', Len(logs'), d) = Opened(d) /\ Opened(d) \in 1..k0
      BY <1>2, <1>10, <2>1, <3>1, Zenon
    <3>3. (\E j \in Direct(logs') : FollowedBy(logs', j, Opened(d))) <=>
            \E j \in Direct(logs) : FollowedBy(logs, j, Opened(d))
      BY <1>2, <1>3, <1>4, <1>5, <3>2, Zenon
    <3>4. cpi.stack[d].self /\ cpi'.stack[d].candidate = cpi.stack[d].candidate
      BY <1>15, <2>1, Zenon DEF SameFrame
    <3> QED BY <1>6, <1>7, <2>1, <3>2, <3>3, <3>4, Zenon
  <2>2. CASE line.log = "invoke" /\ d = n + 1
    <3>1. OpenedBy(logs', Len(logs'), d) = k1 /\ line.log # "data" /\ line.log # "consumed"
      BY <1>2, <2>2
    <3>2. cpi'.stack[d].self => (cpi'.stack[d].candidate <=> OnDirect /\ Pending)
      BY <2>2, NewFrame, Zenon
    <3>3. (\E j \in Direct(logs') : FollowedBy(logs', j, k1)) <=> \E j \in Direct(logs) : Quiet(logs, j)
      BY <1>3, <1>4, <1>5, <3>1, Zenon
    <3> QED BY <1>6, <1>15, <3>1, <3>2, <3>3, Zenon
  <2> QED BY <1>7, <2>1, <2>2, Zenon
<1> HIDE DEF n, m, k0, k1
<1>16. DOMAIN logs' = 1..k1 /\ DOMAIN cpi'.stack = 1..m /\ Len(cpi'.stack) = m
  BY <1>2, <1>7, Zenon
<1> QED BY <1>12, <1>13, <1>14, <1>15, <1>16, Zenon DEF LinkInv, Opened

\* When a line leaves a gap.
LEMMA NewGap ==
    ASSUME NEW line, LineStep(line)
    PROVE  HasGap' <=> HasGap \/ Fails(line) \/ (Loses(line) /\ Pending)
<1>1. /\ WalkState /\ line \in Lines /\ Fits(line) /\ Len(logs) < MaxLines
      /\ cpi' = CoverageLine(cpi, line)
  BY DEF LineStep
<1>2. ASSUME NEW i \in Instructions
      PROVE  cpi'.coverage[i].gap <=>
               (cpi.coverage[i].gap \/ (i = cpi.next - 1 /\ (Fails(line) \/ (Loses(line) /\ cpi.coverage[i].pending))))
  BY <1>1, CoverageStep, Zenon
<1>3. Fails(line) \/ Loses(line) => cpi.stack # <<>>
  BY <1>1, Zenon DEF Fails, Loses, OnDirect, Fits
<1>4. cpi.stack # <<>> => cpi.next > 0 /\ cpi.next - 1 \in Instructions
  BY <1>1, StackFacts, Zenon
<1> QED BY <1>2, <1>3, <1>4, Zenon DEF HasGap, Pending

\* A fault is a recorded gap, or a broken call that is still open.
LEMMA GapInvStep ==
    ASSUME NEW line, LineStep(line)
    PROVE  GapInv'
<1> DEFINE n == Len(cpi.stack)
           m == Depth(line)
           top == Top(cpi.stack)
<1>1. /\ WalkState /\ WalkInv /\ line \in Lines /\ Fits(line) /\ logs' = Append(logs, line)
  BY DEF LineStep
<1>2. Fault(logs') <=>
                \/ Fault(logs)
                \/ /\ line.log # "consumed" /\ OnDirect /\ Pending
                   /\ ~(line.log = "invoke" /\ SelfCall(line))
                \/ /\ line.log # "consumed" /\ line.log # "success"
                   /\ OnSilent /\ top.candidate
                \/ line.log = "success" /\ OnSilent /\ ~top.candidate
  BY <1>1, EvidenceStep, Zenon
<1>3. Fault(logs) <=> HasGap \/ Broken
  BY <1>1, Zenon DEF WalkInv, GapInv
<1>4. HasGap' <=> HasGap \/ Fails(line) \/ (Loses(line) /\ Pending)
  BY NewGap, Zenon
<1>5. /\ n \in Nat /\ DOMAIN cpi.stack = 1..n /\ DOMAIN cpi'.stack = 1..m
      /\ IsExit(line) => cpi.stack # <<>> /\ m = n - 1 /\ line.log # "invoke"
      /\ line.log = "invoke" => m = n + 1
      /\ IsBody(line) => m = n
      /\ \A d \in 1..m : \/ /\ d \in 1..n /\ SameFrame(cpi'.stack[d], cpi.stack[d])
                            /\ cpi'.stack[d].silent <=> (line.log = "consumed" /\ cpi.stack[d].silent)
                         \/ line.log = "invoke" /\ d = n + 1
      /\ \A d \in 1..n : d \in 1..m \/ (IsExit(line) /\ d = n)
  BY NewStack, Zenon
<1>6. /\ \A d \in 1..n : cpi.stack[d].silent => d = n
      /\ cpi.stack # <<>> <=> n \in 1..n
  BY <1>1, <1>5, StackFacts, Zenon DEF WalkState, FrameInv
<1>7. OnSilent <=> n \in 1..n /\ cpi.stack[n].silent
  BY <1>6, Zenon DEF OnSilent, Top
<1>8. top = cpi.stack[n]
  BY Zenon DEF Top
<1>9. Loses(line) <=> OnDirect /\ line.log # "consumed" /\ ~(line.log = "invoke" /\ SelfCall(line))
  BY Zenon DEF Loses
<1>10. Broken <=> \E d \in 1..n : cpi.stack[d].candidate /\ ~cpi.stack[d].silent
  BY <1>5, Zenon DEF Broken
<1>11. Broken' <=> \E d \in 1..m : cpi'.stack[d].candidate /\ ~cpi'.stack[d].silent
  BY <1>5, Zenon DEF Broken
<1>12. \A d \in 1..n : d # n + 1
  BY <1>5
<1> HIDE DEF n, m, top
<1>13. CASE line.log = "consumed"
  <2>1. IsBody(line) /\ ~Fails(line) /\ line.log # "success" /\ ~Loses(line)
    BY <1>13 DEF IsBody, IsExit, Fails, Loses
  <2>2. \A d \in 1..n : /\ cpi'.stack[d].candidate = cpi.stack[d].candidate
                        /\ cpi'.stack[d].silent <=> cpi.stack[d].silent
    BY <1>5, <1>12, <1>13, <2>1, Zenon DEF SameFrame
  <2>3. Broken' <=> Broken
    BY <1>5, <1>10, <1>11, <2>1, <2>2, Zenon
  <2> QED BY <1>2, <1>3, <1>4, <1>13, <2>1, <2>3, Zenon DEF GapInv
<1>14. CASE line.log # "consumed" /\ ~IsExit(line)
  <2>1. ~Fails(line) /\ line.log # "success"
    BY <1>14 DEF Fails, IsExit
  <2>2. \A d \in 1..n : /\ d \in 1..m
                        /\ cpi'.stack[d].candidate = cpi.stack[d].candidate
                        /\ ~cpi'.stack[d].silent
    BY <1>5, <1>12, <1>14, Zenon DEF SameFrame
  <2>3. line.log = "invoke" => (cpi'.stack[n + 1].candidate => cpi'.stack[n + 1].silent)
    BY NewFrame, Zenon DEF n
  <2>4. Broken' <=> \E d \in 1..n : cpi.stack[d].candidate
    BY <1>5, <1>11, <2>2, <2>3, Zenon
  <2>5. (\E d \in 1..n : cpi.stack[d].candidate) <=> Broken \/ (OnSilent /\ top.candidate)
    BY <1>6, <1>7, <1>8, <1>10, Zenon
  <2> QED BY <1>2, <1>3, <1>4, <1>9, <1>14, <2>1, <2>4, <2>5, Zenon DEF GapInv
<1>15. CASE IsExit(line)
  <2>1. /\ line.log # "consumed" /\ line.log # "invoke" /\ m = n - 1 /\ n \in 1..n
        /\ Fails(line) <=> (top.candidate <=> ~(top.silent /\ line.log = "success"))
    BY <1>5, <1>6, <1>15 DEF IsExit, Fails, top
  <2>2. \A d \in 1..m : d \in 1..n /\ d # n /\ cpi'.stack[d].candidate = cpi.stack[d].candidate /\ ~cpi'.stack[d].silent
    <3>1. \A d \in 1..m : d # n
      BY <1>5, <2>1
    <3> QED BY <1>5, <2>1, <3>1, Zenon DEF SameFrame
  <2>3. Broken' <=> \E d \in 1..m : cpi.stack[d].candidate
    BY <1>11, <2>2, Zenon
  <2>4. Broken <=> (\E d \in 1..m : cpi.stack[d].candidate) \/ (top.candidate /\ ~top.silent)
    BY <1>5, <1>6, <1>8, <1>10, <2>1, <2>2, Zenon
  <2>5. OnSilent <=> top.silent
    BY <1>7, <1>8, <2>1, Zenon
  <2> QED BY <1>2, <1>3, <1>4, <1>9, <2>1, <2>3, <2>4, <2>5, Zenon DEF GapInv
<1> QED BY <1>13, <1>14, <1>15, Zenon

\* One more event in the list.
LEMMA ScopedStep ==
    ASSUME NEW s \in Seq(Scoped), NEW x \in Scoped, NEW i
    PROVE  /\ HasDecodeGap(Append(s, x)) <=> HasDecodeGap(s) \/ x.payload = "unknown"
           /\ EligibleEvents(s, i) \in Nat
           /\ EligibleEvents(Append(s, x), i) =
                EligibleEvents(s, i) + (IF x.instruction = i /\ x.payload # "unknown" THEN 1 ELSE 0)
<1> DEFINE n == Len(s)
           t == Append(s, x)
           S == {k \in DOMAIN s : s[k].instruction = i /\ s[k].payload # "unknown"}
           T == {k \in DOMAIN t : t[k].instruction = i /\ t[k].payload # "unknown"}
<1>1. /\ n \in Nat /\ DOMAIN s = 1..n /\ DOMAIN t = 1..(n + 1)
      /\ t[n + 1] = x /\ \A k \in 1..n : t[k] = s[k]
  OBVIOUS
<1>2. n + 1 \notin 1..n /\ \A k : k \in 1..(n + 1) <=> k \in 1..n \/ k = n + 1
  BY <1>1
<1>3. IsFiniteSet(1..n)
  BY <1>1, FS_Interval
<1> HIDE DEF t, n
<1>4. HasDecodeGap(t) <=> HasDecodeGap(s) \/ x.payload = "unknown"
  <2>1. \A k \in 1..n : t[k].payload = "unknown" <=> s[k].payload = "unknown"
    BY <1>1, Zenon
  <2>2. t[n + 1].payload = "unknown" <=> x.payload = "unknown"
    BY <1>1, Zenon
  <2> QED BY <1>1, <1>2, <2>1, <2>2, Zenon DEF HasDecodeGap
<1>5. T = IF x.instruction = i /\ x.payload # "unknown" THEN S \cup {n + 1} ELSE S
  BY <1>1, <1>2
<1>6. S \subseteq 1..n /\ n + 1 \notin S
  BY <1>1, <1>2
<1>7. IsFiniteSet(S)
  BY <1>3, <1>6, FS_Subset, Zenon
<1>8. EligibleEvents(s, i) = Cardinality(S) /\ EligibleEvents(t, i) = Cardinality(T)
  BY Zenon DEF EligibleEvents
<1> HIDE DEF S, T
<1>9. Cardinality(S) \in Nat /\ Cardinality(S \cup {n + 1}) = Cardinality(S) + 1
  BY <1>6, <1>7, FS_CardinalityType, FS_AddElement, Zenon
<1> QED BY <1>4, <1>5, <1>8, <1>9 DEF t

\* The scope walk still agrees.
LEMMA ScopeInvStep ==
    ASSUME NEW line, LineStep(line)
    PROVE  ScopeInv' /\ scope' \in ScopeScans /\ ~scope'.malformed
<1> DEFINE n == Len(cpi.stack)
           k1 == Len(logs) + 1
           emits == line.log = "data" /\ OnProgram
<1>1. /\ WalkState /\ WalkInv /\ ScopeInv /\ line \in Lines /\ Fits(line) /\ Len(logs) < MaxLines
      /\ logs' = Append(logs, line) /\ cpi' = CoverageLine(cpi, line)
      /\ scope' = ScopeLine(scope, line) /\ ~scope.malformed
  BY Zenon DEF LineStep, WalkInv
<1>2. /\ scope' \in ScopeScans /\ ~scope'.malformed
      /\ scope'.next = IF line.log = "invoke" /\ cpi.stack = <<>> THEN cpi.next + 1 ELSE cpi.next
      /\ Len(scope'.stack) = Depth(line)
      /\ \A d \in 1..n : d <= Len(scope'.stack) => scope'.stack[d] = scope.stack[d]
      /\ line.log = "invoke" =>
           /\ scope'.stack[n + 1].program = line.program
           /\ scope'.stack[n + 1].instruction = scope'.next - 1
      /\ IF emits
         THEN /\ scope'.events = [scope.events EXCEPT ![cpi.next - 1] = @ + 1]
              /\ scope'.scoped = Append(scope.scoped, EventOf(line))
              /\ EventOf(line) \in Scoped
         ELSE scope'.events = scope.events /\ scope'.scoped = scope.scoped
  BY <1>1, ScopeWalk, Zenon DEF Depth
<1>3. /\ cpi'.next = IF line.log = "invoke" /\ cpi.stack = <<>> THEN cpi.next + 1 ELSE cpi.next
      /\ Len(cpi'.stack) = Depth(line)
  BY <1>1, FramesStep, Zenon
<1>4. /\ n \in Nat /\ DOMAIN cpi.stack = 1..n /\ DOMAIN cpi'.stack = 1..Depth(line)
      /\ Depth(line) \in Nat
      /\ \A d \in 1..Depth(line) : \/ d \in 1..n /\ SameFrame(cpi'.stack[d], cpi.stack[d])
                                   \/ line.log = "invoke" /\ d = n + 1
  BY NewStack, Zenon
<1>5. ASSUME NEW d \in 1..Depth(line)
      PROVE  /\ scope'.stack[d].program = cpi'.stack[d].program
             /\ scope'.stack[d].instruction = cpi'.stack[d].instruction
  <2>1. CASE d \in 1..n /\ SameFrame(cpi'.stack[d], cpi.stack[d])
    <3>1. d <= Depth(line)
      BY <1>4
    <3>2. scope'.stack[d] = scope.stack[d]
      BY <1>2, <2>1, <3>1, Zenon
    <3>3. scope.stack[d].program = cpi.stack[d].program /\ scope.stack[d].instruction = cpi.stack[d].instruction
      BY <1>1, <1>4, <2>1, Zenon DEF ScopeInv
    <3> QED BY <2>1, <3>2, <3>3, Zenon DEF SameFrame
  <2>2. CASE line.log = "invoke" /\ d = n + 1
    <3>1. cpi'.stack[d].program = line.program /\ cpi'.stack[d].instruction = cpi'.next - 1
      BY <2>2, NewFrame, Zenon
    <3> QED BY <1>2, <1>3, <2>2, <3>1, Zenon
  <2> QED BY <1>4, <2>1, <2>2, Zenon
<1>6. /\ HasDecodeGap(scope.scoped) <=> \E j \in Events(logs) : logs[j].payload = "unknown"
      /\ ~HasDecodeGap(scope.scoped) =>
           \A i \in Instructions : EligibleEvents(scope.scoped, i) = scope.events[i]
  BY <1>1, Zenon DEF ScopeInv
<1>7. /\ DOMAIN logs = 1..Len(logs)
      /\ (\A k \in 1..Len(logs) : logs'[k] = logs[k]) /\ logs'[k1] = line
  BY <1>1, LinesStep, Zenon
<1>8. Events(logs') = Events(logs) \cup (IF emits THEN {k1} ELSE {})
  BY <1>1, EvidenceStep, Zenon
<1>9. \A j \in Events(logs) : logs'[j] = logs[j]
  BY <1>7, Zenon DEF Events
<1>10. scope.scoped \in Seq(Scoped) /\ scope.events \in [Instructions -> Nat]
  BY <1>1 DEF WalkState, LogsTypes, ScopeScans, Scoped
<1> HIDE DEF n, k1, emits
<1>11. CASE ~emits
  <2>1. (\E j \in Events(logs') : logs'[j].payload = "unknown") <=>
          \E j \in Events(logs) : logs[j].payload = "unknown"
    BY <1>8, <1>9, <1>11, Zenon
  <2>2. scope'.events = scope.events /\ scope'.scoped = scope.scoped
    BY <1>2, <1>11, Zenon
  <2> QED BY <1>2, <1>3, <1>4, <1>5, <1>6, <2>1, <2>2, Zenon DEF ScopeInv
<1>12. CASE emits
  <2>1. /\ scope'.events = [scope.events EXCEPT ![cpi.next - 1] = @ + 1]
        /\ scope'.scoped = Append(scope.scoped, EventOf(line))
        /\ EventOf(line) \in Scoped
    BY <1>2, <1>12, Zenon
  <2>2. EventOf(line).payload = line.payload /\ EventOf(line).instruction = cpi.next - 1
    BY DEF EventOf
  <2>3. (\E j \in Events(logs') : logs'[j].payload = "unknown") <=>
          (\E j \in Events(logs) : logs[j].payload = "unknown") \/ line.payload = "unknown"
    <3>1. \A j \in Events(logs) : logs'[j].payload = "unknown" <=> logs[j].payload = "unknown"
      BY <1>9, Zenon
    <3>2. logs'[k1].payload = "unknown" <=> line.payload = "unknown"
      BY <1>7, Zenon
    <3>3. k1 \in Events(logs') /\ \A j : j \in Events(logs') <=> j \in Events(logs) \/ j = k1
      BY <1>8, <1>12, Zenon
    <3> QED BY <3>1, <3>2, <3>3, Zenon
  <2>4. HasDecodeGap(scope'.scoped) <=> HasDecodeGap(scope.scoped) \/ line.payload = "unknown"
    <3>1. HasDecodeGap(Append(scope.scoped, EventOf(line))) <=>
            HasDecodeGap(scope.scoped) \/ EventOf(line).payload = "unknown"
      BY <1>10, <2>1, ScopedStep
    <3> QED BY <2>1, <2>2, <3>1, Zenon
  <2>5. ASSUME ~HasDecodeGap(scope'.scoped), NEW i \in Instructions
        PROVE  EligibleEvents(scope'.scoped, i) = scope'.events[i]
    <3>1. /\ EligibleEvents(scope.scoped, i) = scope.events[i] /\ EventOf(line).payload # "unknown"
      BY <1>6, <2>2, <2>4, <2>5, Zenon
    <3>4. EligibleEvents(Append(scope.scoped, EventOf(line)), i) =
            EligibleEvents(scope.scoped, i)
              + (IF EventOf(line).instruction = i /\ EventOf(line).payload # "unknown" THEN 1 ELSE 0)
      BY <1>10, <2>1, ScopedStep
    <3>2. EligibleEvents(scope'.scoped, i) =
            EligibleEvents(scope.scoped, i)
              + (IF EventOf(line).instruction = i /\ EventOf(line).payload # "unknown" THEN 1 ELSE 0)
      BY <2>1, <3>4, Zenon
    <3>3. EligibleEvents(scope'.scoped, i) = scope.events[i] + (IF cpi.next - 1 = i THEN 1 ELSE 0)
      BY <2>2, <3>1, <3>2, Zenon
    <3> QED BY <1>10, <2>1, <3>3
  <2> QED BY <1>2, <1>3, <1>4, <1>5, <1>6, <2>3, <2>4, <2>5, Zenon DEF ScopeInv
<1> QED BY <1>2, <1>11, <1>12, Zenon

\* How the calls and the pending event of an instruction change, against its events.
LEMMA SumStep ==
    ASSUME NEW line, LineStep(line), NEW i \in Instructions
    PROVE  LET here == i = cpi.next - 1
               sum == cpi.coverage[i].calls + Waiting(i)
               new == cpi'.coverage[i].calls + Waiting(i)' IN
           /\ sum \in Nat /\ new \in Nat /\ scope.events[i] \in Nat
           /\ new <= sum + (IF here /\ line.log = "data" /\ OnDirect THEN 1 ELSE 0)
           /\ ~HasGap' => new = sum + (IF here /\ line.log = "data" /\ OnDirect THEN 1 ELSE 0)
           /\ scope'.events[i] = scope.events[i] + (IF here /\ line.log = "data" /\ OnProgram THEN 1 ELSE 0)
<1> DEFINE here == i = cpi.next - 1
           c == cpi.coverage[i]
           e == cpi'.coverage[i]
           top == Top(cpi.stack)
<1>1. /\ WalkState /\ WalkInv /\ ScopeInv /\ line \in Lines /\ Fits(line) /\ Len(logs) < MaxLines
      /\ cpi' = CoverageLine(cpi, line)
      /\ scope' = ScopeLine(scope, line) /\ ~scope.malformed
  BY Zenon DEF LineStep, WalkInv
<1>2. /\ c \in Coverages /\ e \in Coverages
      /\ e.calls = c.calls + (IF here /\ Pairs(line) THEN 1 ELSE 0)
      /\ e.gap <=> (c.gap \/ (here /\ (Fails(line) \/ (Loses(line) /\ c.pending))))
      /\ e.pending <=> IF here /\ Loses(line) THEN line.log = "data"
                       ELSE c.pending /\ ~(here /\ IsExit(line) /\ top.candidate)
  BY <1>1, CoverageStep, Zenon
<1>3. ~HasGap' => ~e.gap
  BY Zenon DEF HasGap
<1>4. scope.events \in [Instructions -> Nat]
  BY <1>1 DEF WalkState, LogsTypes, ScopeScans
<1>5. scope'.events[i] = scope.events[i] + (IF here /\ line.log = "data" /\ OnProgram THEN 1 ELSE 0)
  <2>1. IF line.log = "data" /\ OnProgram
        THEN scope'.events = [scope.events EXCEPT ![cpi.next - 1] = @ + 1]
        ELSE scope'.events = scope.events
    BY <1>1, ScopeWalk, Zenon
  <2> QED BY <1>4, <2>1
<1>6. Waiting(i) = (IF c.pending THEN 1 ELSE 0) /\ Waiting(i)' = (IF e.pending THEN 1 ELSE 0)
  BY Zenon DEF Waiting
<1>7. /\ Pairs(line) => IsExit(line) /\ top.candidate /\ ~OnDirect
      /\ IsExit(line) /\ top.candidate => ~OnDirect /\ (here => c.pending)
      /\ IsExit(line) /\ top.candidate /\ ~Pairs(line) => Fails(line)
      /\ Loses(line) => OnDirect
      /\ IsExit(line) => line.log # "data"
      /\ line.log = "data" /\ OnDirect => Loses(line)
  <2>1. cpi.stack # <<>> /\ top.candidate => ~OnDirect /\ Pending
    BY <1>1, StackFacts, OneDirect, Zenon DEF Top
  <2>2. Pairs(line) => IsExit(line) /\ top.candidate /\ cpi.stack # <<>>
    BY DEF Pairs, OnSilent, IsExit
  <2>3. IsExit(line) => cpi.stack # <<>> /\ line.log # "data"
    BY <1>1 DEF Fits, IsExit
  <2>4. IsExit(line) /\ top.candidate /\ ~Pairs(line) => Fails(line)
    BY <2>3, Zenon DEF Fails, Pairs, OnSilent
  <2>5. line.log = "data" /\ OnDirect => Loses(line)
    BY DEF Loses
  <2>6. here => (Pending => c.pending)
    BY Zenon DEF Pending
  <2> QED BY <2>1, <2>2, <2>3, <2>4, <2>5, <2>6, Zenon DEF Loses
<1>8. c.calls \in Nat /\ e.calls \in Nat
  BY <1>2 DEF Coverages
<1> HIDE DEF here, c, e, top
<1>9. CASE ~here
  <2>1. e.calls = c.calls + 0 /\ (e.pending <=> c.pending)
    BY <1>2, <1>9, Zenon
  <2>2. Waiting(i)' = Waiting(i) /\ Waiting(i) \in {0, 1}
    BY <1>6, <2>1, Zenon
  <2> QED BY <1>4, <1>5, <1>8, <1>9, <2>1, <2>2 DEF here, c, e
<1>10. CASE here /\ Loses(line)
  <2>1. /\ OnDirect /\ ~Pairs(line) /\ (e.pending <=> line.log = "data") /\ (c.pending => e.gap)
    BY <1>2, <1>7, <1>10, Zenon
  <2>2. e.calls = c.calls + 0
    BY <1>2, <1>10, <2>1, Zenon
  <2>3. Waiting(i)' = (IF line.log = "data" THEN 1 ELSE 0) /\ Waiting(i) \in {0, 1}
    BY <1>6, <2>1, Zenon
  <2>4. ~HasGap' => Waiting(i) = 0
    BY <1>3, <1>6, <2>1, Zenon
  <2> QED BY <1>4, <1>5, <1>8, <1>10, <2>1, <2>2, <2>3, <2>4 DEF here, c, e
<1>11. CASE here /\ ~Loses(line) /\ IsExit(line) /\ top.candidate
  <2>1. /\ c.pending /\ ~e.pending /\ ~OnDirect /\ line.log # "data" /\ (~Pairs(line) => e.gap)
    BY <1>2, <1>7, <1>11, Zenon
  <2>2. Waiting(i) = 1 /\ Waiting(i)' = 0
    BY <1>6, <2>1, Zenon
  <2>3. e.calls = c.calls + (IF Pairs(line) THEN 1 ELSE 0)
    BY <1>2, <1>11, Zenon
  <2> QED BY <1>3, <1>4, <1>5, <1>8, <2>1, <2>2, <2>3 DEF here, c, e
<1>12. CASE here /\ ~Loses(line) /\ ~(IsExit(line) /\ top.candidate)
  <2>1. /\ ~Pairs(line) /\ (e.pending <=> c.pending) /\ ~(line.log = "data" /\ OnDirect)
    BY <1>2, <1>7, <1>12, Zenon
  <2>2. e.calls = c.calls + 0
    BY <1>2, <2>1, Zenon
  <2>3. Waiting(i)' = Waiting(i) /\ Waiting(i) \in {0, 1}
    BY <1>6, <2>1, Zenon
  <2> QED BY <1>4, <1>5, <1>8, <2>1, <2>2, <2>3 DEF here, c, e
<1> QED BY <1>9, <1>10, <1>11, <1>12, Zenon

\* Without a gap the counts differ only when a call to itself emitted an event.
LEMMA CountInvStep ==
    ASSUME NEW line, LineStep(line)
    PROVE  CountInv'
<1> DEFINE k1 == Len(logs) + 1
           sum(i) == cpi.coverage[i].calls + Waiting(i)
           new(i) == cpi'.coverage[i].calls + Waiting(i)'
           direct(i) == i = cpi.next - 1 /\ line.log = "data" /\ OnDirect
           emits(i) == i = cpi.next - 1 /\ line.log = "data" /\ OnProgram
<1>1. /\ WalkState /\ WalkInv /\ CountInv /\ line \in Lines /\ Fits(line) /\ logs' = Append(logs, line)
  BY Zenon DEF LineStep, WalkInv
<1>2. ASSUME NEW i \in Instructions
      PROVE  /\ sum(i) \in Nat /\ new(i) \in Nat /\ scope.events[i] \in Nat
             /\ new(i) <= sum(i) + (IF direct(i) THEN 1 ELSE 0)
             /\ ~HasGap' => new(i) = sum(i) + (IF direct(i) THEN 1 ELSE 0)
             /\ scope'.events[i] = scope.events[i] + (IF emits(i) THEN 1 ELSE 0)
  BY SumStep, Zenon
<1>3. OnDirect => OnProgram
  BY Zenon DEF OnDirect, OnProgram, IsDirect
<1>4. \A i : direct(i) => emits(i)
  BY <1>3, Zenon
<1>5. \A i \in Instructions : sum(i) <= scope.events[i]
  BY <1>1, Zenon DEF CountInv
<1>6. ~HasGap => ((\A i \in Instructions : sum(i) = scope.events[i]) <=> Events(logs) = Direct(logs))
  BY <1>1, Zenon DEF CountInv, AllCounted
<1>7. HasGap => HasGap'
  BY NewGap, Zenon
<1>8. /\ Events(logs') = Events(logs) \cup (IF line.log = "data" /\ OnProgram THEN {k1} ELSE {})
      /\ Direct(logs') = Direct(logs) \cup (IF line.log = "data" /\ OnDirect THEN {k1} ELSE {})
  BY <1>1, EvidenceStep, Zenon
<1>9. k1 \notin Events(logs) /\ k1 \notin Direct(logs) /\ Direct(logs) \subseteq Events(logs)
  <2>1. k1 \notin DOMAIN logs
    BY <1>1, LinesStep, Zenon
  <2> QED BY <2>1, Zenon DEF Events, Direct
<1>10. cpi.stack # <<>> => cpi.next - 1 \in Instructions
  BY <1>1, StackFacts, Zenon
<1> HIDE DEF k1, sum, new, direct, emits
<1>11. \A i \in Instructions : new(i) <= scope'.events[i]
  BY <1>2, <1>4, <1>5
<1>12. CASE line.log = "data" /\ OnProgram /\ ~OnDirect
  <2>1. k1 \in Events(logs') /\ k1 \notin Direct(logs')
    BY <1>8, <1>9, <1>12, Zenon
  <2>2. PICK i \in Instructions : i = cpi.next - 1
    BY <1>10, <1>12, Zenon DEF OnProgram
  <2>3. emits(i) /\ ~direct(i)
    BY <1>12, <2>2, Zenon DEF emits, direct
  <2>4. ~HasGap' => new(i) # scope'.events[i]
    BY <1>2, <1>5, <2>3
  <2>5. ~HasGap' => ((\A j \in Instructions : new(j) = scope'.events[j]) <=> Events(logs') = Direct(logs'))
    BY <2>1, <2>4, Zenon
  <2> QED BY <1>11, <2>5, Zenon DEF CountInv, AllCounted, new
<1>13. CASE ~(line.log = "data" /\ OnProgram /\ ~OnDirect)
  <2>1. \A i : direct(i) <=> emits(i)
    BY <1>3, <1>13, Zenon DEF direct, emits
  <2>2. ~HasGap' => \A i \in Instructions : new(i) = scope'.events[i] <=> sum(i) = scope.events[i]
    BY <1>2, <2>1
  <2>3. Events(logs') = Direct(logs') <=> Events(logs) = Direct(logs)
    <3>1. CASE line.log = "data" /\ OnDirect
      <4>1. Events(logs') = Events(logs) \cup {k1} /\ Direct(logs') = Direct(logs) \cup {k1}
        BY <1>3, <1>8, <3>1, Zenon
      <4> QED BY <1>9, <4>1, Zenon
    <3>2. CASE ~(line.log = "data" /\ OnDirect)
      <4>1. Events(logs') = Events(logs) /\ Direct(logs') = Direct(logs)
        BY <1>8, <1>13, <3>2, Zenon
      <4> QED BY <4>1, Zenon
    <3> QED BY <3>1, <3>2, Zenon
  <2>4. ~HasGap' => ((\A i \in Instructions : new(i) = scope'.events[i]) <=> Events(logs') = Direct(logs'))
    BY <1>6, <1>7, <2>2, <2>3, Zenon
  <2> QED BY <1>11, <2>4, Zenon DEF CountInv, AllCounted, new
<1> QED BY <1>12, <1>13, Zenon

\* The first line after line j that is no compute line, when there is one.
LEMMA FollowingIs ==
    ASSUME NEW s \in Seq(Lines), FollowInv(s), NEW j \in DOMAIN s, ~Quiet(s, j), NEW k
    PROVE  Following(s, j) = k <=> FollowedBy(s, j, k)
<1>1. ASSUME NEW l, FollowedBy(s, j, l)
      PROVE  Following(s, j) = l
  <2> DEFINE S == {m \in (j + 1)..Len(s) : s[m].log # "consumed"}
  <2>1. j \in Nat /\ Len(s) \in Nat
    OBVIOUS
  <2>2. l \in (j + 1)..Len(s) /\ s[l].log # "consumed"
        /\ \A m \in (j + 1)..(l - 1) : s[m].log = "consumed"
    BY <1>1, Zenon DEF FollowedBy
  <2>3. l \in S /\ S \subseteq Nat
    BY <2>1, <2>2
  <2>4. ASSUME NEW m \in S
        PROVE  l <= m
    <3>1. m \in (j + 1)..Len(s) /\ s[m].log # "consumed"
      OBVIOUS
    <3>2. m \notin (j + 1)..(l - 1)
      BY <2>2, <3>1, Zenon
    <3> QED BY <2>1, <2>2, <3>1, <3>2
  <2> HIDE DEF S
  <2>5. Min(S) = l
    BY <2>3, <2>4, MinIs, Zenon
  <2> QED BY <2>5, Zenon DEF S, Following
<1>2. \E l \in DOMAIN s : FollowedBy(s, j, l)
  BY Zenon DEF FollowInv
<1> QED BY <1>1, <1>2, Zenon

\* When every direct event and every call to itself has a line that follows it,
\* the pairing is exact if no event comes from a call to itself and nothing is at fault.
LEMMA PairedIff ==
    ASSUME NEW s \in Seq(Lines), FollowInv(s),
           \A j \in Direct(s) : ~Quiet(s, j),
           \A k \in DOMAIN s : CallsItself(s, k) => ~Quiet(s, k)
    PROVE  PairedExactly(s) <=> ~Fault(s) /\ Events(s) = Direct(s)
<1>1. Events(s) \subseteq DOMAIN s /\ Direct(s) \subseteq Events(s)
  BY Zenon DEF Events, Direct
<1>2. \A j \in Direct(s) : \A k : Following(s, j) = k <=> FollowedBy(s, j, k)
  BY <1>1, FollowingIs, Zenon
<1>3. \A k \in DOMAIN s : CallsItself(s, k) => \A l : Following(s, k) = l <=> FollowedBy(s, k, l)
  BY FollowingIs, Zenon
<1>4. \A j \in DOMAIN s : \A k : FollowedBy(s, j, k) => k \in DOMAIN s
  <2>1. Len(s) \in Nat /\ DOMAIN s = 1..Len(s)
    OBVIOUS
  <2> QED BY <2>1 DEF FollowedBy
<1>5. \A k \in DOMAIN s : k \in SilentCalls(s) <=> Silent(s, k)
  <2> SUFFICES ASSUME NEW k \in DOMAIN s
               PROVE  k \in SilentCalls(s) <=> Silent(s, k)
    OBVIOUS
  <2>1. k \in SilentCalls(s) <=> CallsItself(s, k) /\ s[Following(s, k)].log = "success"
    BY Zenon DEF SilentCalls
  <2>2. CallsItself(s, k) => FollowedBy(s, k, Following(s, k)) /\ Following(s, k) \in DOMAIN s
    BY <1>3, <1>4, Zenon
  <2> QED BY <1>3, <2>1, <2>2, Zenon DEF Silent
<1>6. \A j \in Events(s) : \A k : Announces(s, j, k) <=> j \in Direct(s) /\ FollowedBy(s, j, k)
  <2> SUFFICES ASSUME NEW j \in Events(s), NEW k
               PROVE  Announces(s, j, k) <=> j \in Direct(s) /\ FollowedBy(s, j, k)
    OBVIOUS
  <2>1. j \in Direct(s) <=> ~CallsItself(s, Active(s, j))
    BY Zenon DEF Direct
  <2> QED BY <1>2, <2>1, Zenon DEF Announces
<1>7. SilentCalls(s) \subseteq DOMAIN s
  BY Zenon DEF SilentCalls
<1>8. ASSUME PairedExactly(s)
      PROVE  ~Fault(s) /\ Events(s) = Direct(s)
  <2>1. \A j \in Events(s) : \E k \in SilentCalls(s) : j \in Direct(s) /\ FollowedBy(s, j, k)
    BY <1>6, <1>8, Zenon DEF PairedExactly
  <2>2. Events(s) = Direct(s)
    BY <1>1, <2>1, Zenon
  <2>3. ASSUME NEW j \in Direct(s), Lost(s, j)
        PROVE  FALSE
    <3>1. PICK k \in SilentCalls(s) : FollowedBy(s, j, k)
      BY <1>1, <2>1, Zenon
    <3>2. Following(s, j) = k /\ k \in DOMAIN s /\ Silent(s, k)
      BY <1>2, <1>5, <1>7, <3>1, Zenon
    <3>3. PICK l \in DOMAIN s : FollowedBy(s, k, l) /\ s[l].log = "success"
      BY <3>2, Zenon DEF Silent
    <3>4. CallsItself(s, k) /\ Following(s, k) = l
      BY <1>3, <3>2, <3>3, Zenon DEF Silent
    <3>5. PICK m \in DOMAIN s : FollowedBy(s, k, m) /\ s[m].log # "success"
      BY <1>2, <2>3, <3>2, <3>4, Zenon DEF Lost
    <3>6. m = l
      BY <1>3, <3>2, <3>4, <3>5, Zenon
    <3> QED BY <3>3, <3>5, <3>6, Zenon
  <2>4. ASSUME NEW k \in DOMAIN s, Silent(s, k)
        PROVE  \E j \in Direct(s) : FollowedBy(s, j, k)
    <3>1. PICK j \in Events(s) : Announces(s, j, k)
      BY <1>5, <1>8, <2>4, Zenon DEF PairedExactly
    <3> QED BY <1>6, <3>1, Zenon
  <2> QED BY <2>2, <2>3, <2>4, Zenon DEF Fault
<1>9. ASSUME ~Fault(s), Events(s) = Direct(s)
      PROVE  PairedExactly(s)
  <2>1. ASSUME NEW j \in Events(s)
        PROVE  \E k \in SilentCalls(s) : Announces(s, j, k)
    <3>1. j \in Direct(s) /\ j \in DOMAIN s /\ ~Lost(s, j)
      BY <1>1, <1>9, <2>1, Zenon DEF Fault
    <3>2. PICK k \in DOMAIN s : FollowedBy(s, j, k)
      BY <1>2, <1>4, <3>1, Zenon
    <3>3. CallsItself(s, k) /\ ~\E l \in DOMAIN s : FollowedBy(s, k, l) /\ s[l].log # "success"
      BY <3>1, <3>2, Zenon DEF Lost
    <3>4. PICK l \in DOMAIN s : FollowedBy(s, k, l)
      BY <1>3, <1>4, <3>3, Zenon
    <3>5. Silent(s, k)
      BY <3>3, <3>4, Zenon DEF Silent
    <3> QED BY <1>5, <1>6, <3>1, <3>2, <3>5, Zenon
  <2>2. ASSUME NEW k \in SilentCalls(s)
        PROVE  \E j \in Events(s) : Announces(s, j, k)
    <3>1. k \in DOMAIN s /\ Silent(s, k)
      BY <1>5, <1>7, Zenon
    <3>2. PICK j \in Direct(s) : FollowedBy(s, j, k)
      BY <1>9, <3>1, Zenon DEF Fault
    <3> QED BY <1>1, <1>6, <3>2, Zenon
  <2> QED BY <2>1, <2>2, Zenon DEF PairedExactly
<1> QED BY <1>8, <1>9, Zenon

\* The invariant makes the verdict of the walks the verdict of the positions.
LEMMA Judged ==
    ASSUME LogsInv
    PROVE  CoverageMatchesPairing
<1> SUFFICES ASSUME NotificationMentionsProgram(logs)
             PROVE  CoverageGap = "none" <=>
                       /\ WellFormed(logs)
                       /\ \A j \in Events(logs) : logs[j].payload # "unknown"
                       /\ PairedExactly(logs)
  BY Zenon DEF CoverageMatchesPairing
<1>1. CoverageGap = "none" <=>
        /\ ~ScanFails(cpi) /\ ~ScanFails(scope) /\ ~HasDecodeGap(scope.scoped)
        /\ ~EventCpiCoverageIsIncomplete(cpi.coverage, scope.scoped)
  BY DEF CoverageGap
<1>2. CASE cpi.malformed
  BY <1>1, <1>2, Zenon DEF LogsInv, ScanFails
<1>3. CASE ~cpi.malformed
  <2>1. /\ LogsTypes /\ ~scope.malformed /\ PrefixInv(logs) /\ FollowInv(logs) /\ StackInv /\ FrameInv
        /\ LinkInv /\ GapInv /\ ScopeInv /\ CountInv
    BY <1>3, Zenon DEF LogsInv, WalkInv
  <2>2. WalkState
    BY <1>3, <2>1, Zenon DEF WalkState
  <2>3. logs \in Seq(Lines) /\ cpi \in CoverageScans /\ scope \in ScopeScans
    BY <2>1, Zenon DEF LogsTypes
  <2>4. WellFormed(logs) <=> OpenAfter(logs, Len(logs)) = 0
    BY <2>1, Zenon DEF StackInv, LineFits, WellFormed
  <2>5. OpenAfter(logs, Len(logs)) = Len(cpi.stack) /\ Len(scope.stack) = Len(cpi.stack)
    BY <2>1, Zenon DEF StackInv, ScopeInv
  <2>6. (cpi.stack = <<>> <=> Len(cpi.stack) = 0) /\ (scope.stack = <<>> <=> Len(scope.stack) = 0)
    BY <2>3 DEF CoverageScans, ScopeScans
  <2>7. /\ ScanFails(cpi) <=> cpi.stack # <<>> 
        /\ ScanFails(scope) <=> cpi.stack # <<>> 
        /\ WellFormed(logs) <=> cpi.stack = <<>>
    BY <1>3, <2>1, <2>4, <2>5, <2>6, Zenon DEF ScanFails
  <2>8. HasDecodeGap(scope.scoped) <=> ~\A j \in Events(logs) : logs[j].payload # "unknown"
    BY <2>1, Zenon DEF ScopeInv
  <2>9. CASE cpi.stack = <<>> /\ ~HasDecodeGap(scope.scoped)
    <3>1. ~OnDirect /\ ~OnSilent
      BY <2>9, Zenon DEF OnDirect, OnSilent
    <3>2. DOMAIN cpi.stack = {}
      BY <2>9
    <3>3. ~Broken
      BY <3>2, Zenon DEF Broken
    <3>4. \A i \in Instructions : ~cpi.coverage[i].pending
      BY <2>1, <3>1, <3>2, Zenon DEF FrameInv
    <3>5. \A i \in Instructions : cpi.coverage[i].calls \in Nat
      BY <2>3 DEF CoverageScans, Coverages
    <3>6. \A i \in Instructions : Waiting(i) = 0
      BY <3>4, Zenon DEF Waiting
    <3>7. AllCounted <=> \A i \in Instructions : cpi.coverage[i].calls = scope.events[i]
      <4>1. \A i \in Instructions : cpi.coverage[i].calls + Waiting(i) = cpi.coverage[i].calls
        BY <3>5, <3>6
      <4> QED BY <4>1, Zenon DEF AllCounted
    <3>8. \A i \in Instructions : EligibleEvents(scope.scoped, i) = scope.events[i]
      BY <2>1, <2>9, Zenon DEF ScopeInv
    <3>9. ~EventCpiCoverageIsIncomplete(cpi.coverage, scope.scoped) <=> ~HasGap /\ AllCounted
      BY <3>4, <3>7, <3>8, Zenon DEF EventCpiCoverageIsIncomplete, HasGap
    <3>10. ~HasGap /\ AllCounted <=> ~Fault(logs) /\ Events(logs) = Direct(logs)
      BY <2>1, <3>3, Zenon DEF GapInv, CountInv
    <3>11. \A j \in Direct(logs) : ~Quiet(logs, j)
      BY <2>1, <3>1, Zenon DEF LinkInv
    <3>12. \A k \in DOMAIN logs : CallsItself(logs, k) => ~Quiet(logs, k)
      BY <2>1, <3>1, Zenon DEF LinkInv
    <3>13. PairedExactly(logs) <=> ~Fault(logs) /\ Events(logs) = Direct(logs)
      BY <2>1, <2>3, <3>11, <3>12, PairedIff, Zenon
    <3> QED BY <1>1, <2>7, <2>8, <2>9, <3>9, <3>10, <3>13, Zenon
  <2> QED BY <1>1, <2>7, <2>8, <2>9, Zenon
<1> QED BY <1>2, <1>3, Zenon

\* An empty notification satisfies the invariant.
LEMMA LogsInvInit == LogsInit => LogsInv
<1> SUFFICES ASSUME LogsInit
             PROVE  LogsInv
  OBVIOUS
<1>1. /\ logs = <<>> /\ scope = EmptyScope /\ cpi = EmptyCoverage
  BY DEF LogsInit
<1>2. /\ Len(logs) = 0 /\ DOMAIN logs = {} /\ logs \in Seq(Lines) /\ MaxLines \in Nat
  BY <1>1, LogsAssumption
<1>3. /\ cpi.stack = <<>> /\ cpi.next = 0 /\ ~cpi.malformed /\ scope.stack = <<>> /\ scope.next = 0
      /\ ~scope.malformed /\ scope.scoped = <<>>
  BY <1>1 DEF EmptyScope, EmptyCoverage
<1>4. \A i \in Instructions : /\ cpi.coverage[i] = [calls |-> 0, pending |-> FALSE, gap |-> FALSE]
                              /\ scope.events[i] = 0
  BY <1>1 DEF EmptyScope, EmptyCoverage
<1>5. \A i \in Instructions : cpi.coverage[i].calls = 0 /\ ~cpi.coverage[i].pending /\ ~cpi.coverage[i].gap
  BY <1>4
<1>6. LogsTypes
  <2>1. cpi \in CoverageScans
    BY <1>1 DEF EmptyCoverage, CoverageScans, Coverages
  <2>2. scope \in ScopeScans
    BY <1>1 DEF EmptyScope, ScopeScans
  <2> QED BY <1>2, <1>3, <2>1, <2>2 DEF LogsTypes
<1>7. DOMAIN cpi.stack = {} /\ Len(cpi.stack) = 0 /\ Len(scope.stack) = 0 /\ DOMAIN scope.scoped = {}
  BY <1>3
<1>8. OpenAfter(logs, 0) = 0
  <2>1. Invokes(logs, 0) = {} /\ {j \in 1..0 : IsExit(logs[j])} = {}
    BY DEF Invokes
  <2>2. Cardinality({}) = 0
    BY FS_EmptySet
  <2> QED BY <2>1, <2>2 DEF OpenAfter
<1>9. Events(logs) = {} /\ Direct(logs) = {} /\ ~Fault(logs)
  <2>1. Events(logs) = {}
    BY <1>2, Zenon DEF Events
  <2>2. Direct(logs) = {}
    BY <2>1, Zenon DEF Direct
  <2> QED BY <1>2, <2>1, <2>2, Zenon DEF Fault
<1>10. PrefixInv(logs)
  BY <1>2, <1>8 DEF PrefixInv
<1>11. FollowInv(logs)
  BY <1>2, Zenon DEF FollowInv
<1>12. StackInv
  BY <1>2, <1>7, <1>8, Zenon DEF StackInv
<1>13. FrameInv
  BY <1>5, <1>7, Zenon DEF FrameInv
<1>14. LinkInv
  BY <1>2, <1>3, <1>7, <1>9, Zenon DEF LinkInv, OnDirect
<1>15. ~HasGap
  BY <1>5, Zenon DEF HasGap
<1>16. GapInv
  BY <1>7, <1>9, <1>15, Zenon DEF GapInv, Broken
<1>17. ~HasDecodeGap(scope.scoped)
  BY <1>7, Zenon DEF HasDecodeGap
<1>18. \A i : EligibleEvents(scope.scoped, i) = 0
  <2> TAKE i
  <2>1. {k \in DOMAIN scope.scoped : scope.scoped[k].instruction = i /\ scope.scoped[k].payload # "unknown"} = {}
    BY <1>7, Zenon
  <2> QED BY <2>1, FS_EmptySet, Zenon DEF EligibleEvents
<1>19. ScopeInv
  BY <1>3, <1>4, <1>7, <1>9, <1>17, <1>18, Zenon DEF ScopeInv
<1>20. \A i \in Instructions : Waiting(i) = 0
  BY <1>5, Zenon DEF Waiting
<1>21. \A i \in Instructions : cpi.coverage[i].calls + Waiting(i) = scope.events[i]
  BY <1>4, <1>5, <1>20
<1>22. \A i \in Instructions : cpi.coverage[i].calls + Waiting(i) <= scope.events[i]
  BY <1>4, <1>5, <1>20
<1>23. CountInv
  BY <1>9, <1>21, <1>22, Zenon DEF CountInv, AllCounted
<1> QED BY <1>3, <1>6, <1>10, <1>11, <1>12, <1>13, <1>14, <1>16, <1>19, <1>23, Zenon DEF LogsInv, WalkInv

\* A line that fits keeps the invariant.
LEMMA FittingStep ==
    ASSUME NEW line, LineStep(line)
    PROVE  LogsInv'
<1>1. /\ WalkState /\ WalkInv /\ line \in Lines /\ Fits(line) /\ Len(logs) < MaxLines
      /\ logs' = Append(logs, line) /\ cpi' = CoverageLine(cpi, line)
  BY DEF LineStep
<1>2. PrefixInv(logs') /\ FollowInv(logs') /\ Len(logs) \in Nat /\ Len(logs') = Len(logs) + 1
  BY <1>1, LinesStep, Zenon
<1>3. /\ cpi' \in CoverageScans /\ ~cpi'.malformed
      /\ cpi'.next = IF line.log = "invoke" /\ cpi.stack = <<>> THEN cpi.next + 1 ELSE cpi.next
  BY <1>1, FramesStep, Zenon
<1>4. ScopeInv' /\ scope' \in ScopeScans /\ ~scope'.malformed
  BY ScopeInvStep, Zenon
<1>5. LogsTypes'
  <2>1. logs \in Seq(Lines) /\ cpi.next <= Len(logs) /\ cpi.next \in Nat
    BY <1>1 DEF WalkState, LogsTypes, CoverageScans
  <2>2. logs' \in Seq(Lines)
    BY <1>1, <2>1
  <2>3. Len(logs') <= MaxLines /\ cpi'.next <= Len(logs')
    BY <1>1, <1>2, <1>3, <2>1, LogsAssumption
  <2> QED BY <1>3, <1>4, <2>2, <2>3, Zenon DEF LogsTypes
<1>6. StackInv' /\ FrameInv' /\ LinkInv' /\ GapInv' /\ CountInv'
  BY StackInvStep, FrameInvStep, LinkInvStep, GapInvStep, CountInvStep, Zenon
<1>7. WalkInv'
  BY <1>2, <1>4, <1>6, Zenon DEF WalkInv
<1> QED BY <1>3, <1>4, <1>5, <1>7, Zenon DEF LogsInv

\* Both walks give up at the same lines, and the lines are then not well formed.
LEMMA MalformedStep ==
    ASSUME LogsInv, ~cpi.malformed, Len(logs) < MaxLines, NEW line \in Lines, ~Fits(line),
           logs' = Append(logs, line), scope' = ScopeLine(scope, line), cpi' = CoverageLine(cpi, line)
    PROVE  LogsInv'
<1>1. LogsTypes /\ WalkState /\ WalkInv /\ ScopeInv /\ PrefixInv(logs)
  BY Zenon DEF LogsInv, WalkInv, WalkState
<1>2. cpi' = Fail(cpi) /\ scope' = Fail(scope)
  BY <1>1, WalksFail, Zenon
<1>3. /\ logs \in Seq(Lines) /\ cpi \in CoverageScans /\ scope \in ScopeScans /\ cpi.next <= Len(logs)
  BY <1>1, Zenon DEF LogsTypes
<1>4. cpi' \in CoverageScans /\ cpi'.malformed /\ cpi'.next = cpi.next /\ cpi.next \in Nat
  BY <1>2, <1>3 DEF Fail, CoverageScans
<1>5. scope' \in ScopeScans /\ scope'.malformed
  BY <1>2, <1>3 DEF Fail, ScopeScans
<1>6. logs' \in Seq(Lines) /\ Len(logs') = Len(logs) + 1 /\ Len(logs) + 1 \in DOMAIN logs'
  BY <1>3
<1>7. Len(logs') <= MaxLines /\ cpi'.next <= Len(logs')
  BY <1>3, <1>4, <1>6, LogsAssumption
<1>8. LogsTypes'
  BY <1>4, <1>5, <1>6, <1>7, Zenon DEF LogsTypes
<1>9. ~LineFits(logs', Len(logs) + 1)
  BY <1>1, FitsIff, Zenon
<1>10. ~WellFormed(logs')
  BY <1>6, <1>9, Zenon DEF WellFormed, LineFits
<1> QED BY <1>4, <1>5, <1>8, <1>10, Zenon DEF LogsInv

\* The invariant is inductive.
LEMMA LogsInvNext == LogsInv /\ [LogsNext]_logsVars => LogsInv'
<1> SUFFICES ASSUME LogsInv, [LogsNext]_logsVars
             PROVE  LogsInv'
  OBVIOUS
<1>1. CASE ReceiveLine
  <2>1. PICK line \in Lines : /\ logs' = Append(logs, line)
                              /\ scope' = ScopeLine(scope, line)
                              /\ cpi' = CoverageLine(cpi, line)
    BY <1>1 DEF ReceiveLine
  <2>2. Len(logs) < MaxLines /\ ~cpi.malformed /\ ~scope.malformed
    BY <1>1 DEF ReceiveLine
  <2>3. CASE Fits(line)
    <3>1. WalkState /\ WalkInv
      BY <2>2, Zenon DEF LogsInv, WalkInv, WalkState
    <3>2. LineStep(line)
      BY <2>1, <2>2, <2>3, <3>1, Zenon DEF LineStep
    <3> QED BY <3>2, FittingStep, Zenon
  <2>4. CASE ~Fits(line)
    BY <2>1, <2>2, <2>4, MalformedStep, Zenon
  <2> QED BY <2>3, <2>4, Zenon
<1>2. CASE UNCHANGED logsVars
  <2>1. logs' = logs /\ cpi' = cpi /\ scope' = scope
    BY <1>2 DEF logsVars
  <2>2. (LogsTypes' <=> LogsTypes) /\ (StackInv' <=> StackInv)
    BY <2>1, Zenon DEF LogsTypes, StackInv, Opened
  <2>3. (Pending' <=> Pending) /\ (OnDirect' <=> OnDirect) /\ (OnSilent' <=> OnSilent)
    BY <2>1, Zenon DEF Pending, OnDirect, OnSilent
  <2>4. (FrameInv' <=> FrameInv) /\ (LinkInv' <=> LinkInv)
    BY <2>1, <2>3 DEF FrameInv, LinkInv, Opened
  <2>5. (GapInv' <=> GapInv) /\ (ScopeInv' <=> ScopeInv)
    BY <2>1, Zenon DEF GapInv, HasGap, Broken, ScopeInv
  <2>6. CountInv' <=> CountInv
    BY <2>1, Zenon DEF CountInv, HasGap, AllCounted, Waiting
  <2> QED BY <2>1, <2>2, <2>4, <2>5, <2>6, Zenon DEF LogsInv, WalkInv
<1> QED BY <1>1, <1>2 DEF LogsNext

\* For every sequence of log lines of any length, any nesting and any programs,
\* a notification is complete evidence exactly when its lines are well formed,
\* its events decode, and events and silent self-calls pair one to one
\* (classify_notification, successful_self_cpi_coverage).
THEOREM CoverageIsExact == LogsSpec => []CoverageMatchesPairing
<1>1. LogsSpec => []LogsInv
  BY LogsInvInit, LogsInvNext, PTL DEF LogsSpec
<1>2. LogsInv => CoverageMatchesPairing
  BY Judged
<1> QED BY <1>1, <1>2, PTL
=============================================================================
