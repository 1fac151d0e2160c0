---------------------------- MODULE PartsProofs -----------------------------
(***************************************************************************)
(* Proofs about Recovery and Ingest.                                       *)
(*                                                                         *)
(* Recovery, for every chain that BlocksAssumption allows, every page size *)
(* and safety limit, and any number of workers: the checkpoint moves       *)
(* forward only, over what was processed.                                  *)
(*                                                                         *)
(* Ingest, for every set of transactions that ChainAssumption allows: what *)
(* a window sees is stored, stored facts are what the chain recorded, and  *)
(* a curve that migrated stays retired.                                    *)
(***************************************************************************)
EXTENDS Ingest, Recovery, TLAPS

Pager == [state : {"none", "paging", "failed", "complete", "processed"},
          checkpoint : {0} \cup Places, before : {0} \cup Places, records : Seq(Places),
          head : {0} \cup Places]

RecoveryTypes ==
    /\ head \in Places /\ Oldest <= head
    /\ checkpoint \in 0..head
    /\ pager \in [Workers -> Pager]

\* While it pages, a pager has everything down to its cursor, and its checkpoint is
\* further down; when it is complete it has everything above its checkpoint.
PagerCovers(p) ==
    /\ p.checkpoint <= checkpoint /\ p.head <= head
    /\ p.state = "paging" =>
          \/ p.before = 0 /\ p.records = <<>>
          \/ /\ p.checkpoint # 0 /\ p.records # <<>> /\ p.checkpoint < p.before
             /\ p.before .. p.records[1] \subseteq Range(p.records) /\ p.records[1] <= head
    /\ p.state \in {"complete", "processed"} /\ p.checkpoint # 0 =>
          p.checkpoint + 1 .. p.head \subseteq Range(p.records)
    /\ p.state = "processed" => Range(p.records) \subseteq processed

RecoveryInv == RecoveryTypes /\ \A w \in Workers : PagerCovers(pager[w])

-----------------------------------------------------------------------------

\* position() finds the checkpoint in a page, if it is there.
LEMMA Found ==
  ASSUME NEW page \in Seq(Places), NEW c
  PROVE  \/ Position(page, c) = 0 /\ \A i \in 1..Len(page) : page[i] # c
         \/ Position(page, c) \in 1..Len(page) /\ page[Position(page, c)] = c
<1> DEFINE at == Position(page, c)
<1>d. DOMAIN page = 1..Len(page)
  OBVIOUS
<1>1. CASE c \in Range(page)
  <2>1. \E i \in DOMAIN page : page[i] = c
    BY Zenon, <1>1 DEF Range
  <2>2. at \in DOMAIN page /\ page[at] = c
    BY Zenon, <1>1, <2>1 DEF Position
  <2> QED
    BY Zenon, <2>2, <1>d
<1>2. CASE c \notin Range(page)
  <2>1. at = 0 /\ \A i \in DOMAIN page : page[i] # c
    BY Zenon, <1>2 DEF Position, Range
  <2> QED
    BY Zenon, <2>1, <1>d
<1> QED
  BY Zenon, <1>1, <1>2

\* What a page holds: everything from its newest record down to its last.
LEMMA PageIs ==
  ASSUME RecoveryTypes, NEW before \in {0} \cup Places
  PROVE  LET newest == IF before = 0 THEN head ELSE before - 1
             page == Page(before)
         IN  /\ page \in Seq(Places) /\ newest \in {0} \cup Places
             /\ \A i \in 1..Len(page) : page[i] = newest - i + 1
<1> DEFINE newest == IF before = 0 THEN head ELSE before - 1
           count == IF newest - Oldest + 1 < PageSize THEN newest - Oldest + 1 ELSE PageSize
           page == Page(before)
<1>1. /\ Len(Blocks) \in Nat /\ Oldest \in 1..Len(Blocks) /\ PageSize \in Nat \ {0}
      /\ head \in 1..Len(Blocks) /\ before \in 0..Len(Blocks)
  BY BlocksAssumption DEF Places, RecoveryTypes
<1>2. newest \in 0..Len(Blocks)
  BY <1>1
<1>n. newest \in {0} \cup Places
  BY <1>1, <1>2 DEF Places
<1>3. page = [i \in 1..count |-> newest - i + 1]
  BY Zenon DEF Page
<1> HIDE DEF newest, page
<1>4. count \in Int /\ count <= newest - Oldest + 1
  BY <1>1, <1>2
<1> HIDE DEF count
<1>5. CASE count <= 0
  <2>1. 1..count = {}
    BY <1>4, <1>5
  <2>2. page = <<>>
    BY <1>3, <2>1
  <2>3. Len(page) = 0 /\ 1..0 = {}
    BY <2>2
  <2>4. page \in Seq(Places)
    BY <2>2
  <2> QED
    BY Zenon, <1>n, <2>3, <2>4 DEF newest, page
<1>6. CASE count > 0
  <2>1. count \in Nat
    BY <1>4, <1>6
  <2>2. \A i \in 1..count : newest - i + 1 \in Places
    BY <1>1, <1>2, <1>4 DEF Places
  <2>3. page \in Seq(Places) /\ Len(page) = count
    BY <1>3, <2>1, <2>2
  <2>4. \A i \in 1..Len(page) : page[i] = newest - i + 1
    BY Zenon, <1>3, <2>3
  <2> QED
    BY Zenon, <1>n, <2>3, <2>4 DEF newest, page
<1> QED
  BY <1>4, <1>5, <1>6

\* A page appended to the records: nothing is lost, and the first record stays.
LEMMA ConcatHolds ==
  ASSUME NEW S, NEW s \in Seq(S), NEW t \in Seq(S)
  PROVE  /\ s \o t \in Seq(S)
         /\ Range(s) \subseteq Range(s \o t) /\ Range(t) \subseteq Range(s \o t)
         /\ s # <<>> => s \o t # <<>> /\ (s \o t)[1] = s[1]
         /\ s = <<>> => s \o t = t
<1>1. /\ Len(s) \in Nat /\ Len(t) \in Nat /\ s \o t \in Seq(S) /\ Len(s \o t) = Len(s) + Len(t)
      /\ \A i \in 1..Len(s) : (s \o t)[i] = s[i]
      /\ \A i \in 1..Len(t) : (s \o t)[Len(s) + i] = t[i]
  OBVIOUS
<1>2. DOMAIN s = 1..Len(s) /\ DOMAIN t = 1..Len(t) /\ DOMAIN (s \o t) = 1..(Len(s) + Len(t))
  BY <1>1
<1>3. ASSUME NEW i \in 1..Len(s)
      PROVE  s[i] \in Range(s \o t)
  <2>1. i \in DOMAIN (s \o t)
    BY <1>1, <1>2
  <2> QED
    BY Zenon, <1>1, <2>1 DEF Range
<1>4. ASSUME NEW i \in 1..Len(t)
      PROVE  t[i] \in Range(s \o t)
  <2>1. Len(s) + i \in DOMAIN (s \o t)
    BY <1>1, <1>2
  <2> QED
    BY Zenon, <1>1, <2>1 DEF Range
<1>5. Range(s) \subseteq Range(s \o t)
  BY Zenon, <1>2, <1>3 DEF Range
<1>6. Range(t) \subseteq Range(s \o t)
  BY Zenon, <1>2, <1>4 DEF Range
<1>7. s # <<>> => s \o t # <<>> /\ (s \o t)[1] = s[1]
  BY <1>1
<1>8. s = <<>> => s \o t = t
  OBVIOUS
<1> QED
  BY Zenon, <1>1, <1>5, <1>6, <1>7, <1>8

\* finish_batch reverses the records and loses none.
LEMMA ReverseHolds ==
  ASSUME NEW S, NEW s \in Seq(S)
  PROVE  OldestFirst(s) \in Seq(S) /\ Range(s) \subseteq Range(OldestFirst(s))
<1>1. Len(s) \in Nat /\ DOMAIN s = 1..Len(s)
  OBVIOUS
<1>2. OldestFirst(s) = [i \in 1..Len(s) |-> s[(Len(s) - i) + 1]]
  BY DEF OldestFirst
<1>3. \A i \in 1..Len(s) : (Len(s) - i) + 1 \in 1..Len(s) /\ s[(Len(s) - i) + 1] \in S
  BY <1>1
<1>4. OldestFirst(s) \in Seq(S) /\ DOMAIN OldestFirst(s) = 1..Len(s)
  BY <1>1, <1>2, <1>3
<1>5. ASSUME NEW i \in 1..Len(s)
      PROVE  s[i] \in Range(OldestFirst(s))
  <2> DEFINE j == (Len(s) - i) + 1
  <2>1. j \in 1..Len(s) /\ (Len(s) - j) + 1 = i
    BY <1>1
  <2> HIDE DEF j
  <2>2. OldestFirst(s)[j] = s[i]
    BY Zenon, <1>2, <2>1
  <2> QED
    BY Zenon, <1>4, <2>1, <2>2 DEF Range
<1> QED
  BY Zenon, <1>1, <1>4, <1>5 DEF Range

\* A descending run of records leaves nothing out.
LEMMA RunHolds ==
  ASSUME NEW s \in Seq(Places), NEW newest \in Nat, \A i \in 1..Len(s) : s[i] = newest - i + 1
  PROVE  newest - Len(s) + 1 .. newest \subseteq Range(s)
<1> SUFFICES ASSUME NEW x \in newest - Len(s) + 1 .. newest PROVE x \in Range(s)
  OBVIOUS
<1>1. Len(s) \in Nat /\ DOMAIN s = 1..Len(s)
  OBVIOUS
<1>2. newest - x + 1 \in 1..Len(s) /\ newest - (newest - x + 1) + 1 = x
  BY <1>1
<1> QED
  BY Zenon, <1>1, <1>2 DEF Range

\* The records of a pager and those of the next page above some place, put together.
LEMMA RunsJoin ==
  ASSUME NEW s \in Seq(Places), NEW t \in Seq(Places), NEW top, NEW before \in {0} \cup Places,
         NEW newest \in Nat, NEW low \in Nat,
         newest = IF before = 0 THEN top ELSE before - 1,
         \/ before = 0 /\ s = <<>>
         \/ before # 0 /\ s # <<>> /\ before .. s[1] \subseteq Range(s),
         t # <<>> => t[1] = newest, t = <<>> => low > newest, low..newest \subseteq Range(t)
  PROVE  s \o t # <<>> => low .. (s \o t)[1] \subseteq Range(s \o t)
<1>1. /\ s \o t \in Seq(Places)
      /\ Range(s) \subseteq Range(s \o t) /\ Range(t) \subseteq Range(s \o t)
      /\ s # <<>> => s \o t # <<>> /\ (s \o t)[1] = s[1]
      /\ s = <<>> => s \o t = t
  BY Zenon, ConcatHolds
<1>2. CASE s = <<>>
  <2>1. s \o t = t
    BY Zenon, <1>1, <1>2
  <2> QED
    BY Zenon, <2>1
<1>3. CASE s # <<>>
  <2>1. /\ before \in Places /\ newest = before - 1 /\ (s \o t)[1] = s[1]
        /\ before .. s[1] \subseteq Range(s \o t) /\ low..newest \subseteq Range(s \o t)
    BY Zenon, <1>1, <1>3
  <2>2. s[1] \in Int /\ before \in Int
    <3>1. s[1] \in Places
      BY <1>3
    <3> QED
      BY <2>1, <3>1 DEF Places
  <2>3. ASSUME NEW x \in low .. s[1]
        PROVE  x \in low..newest \/ x \in before .. s[1]
    BY <2>1, <2>2
  <2> QED
    BY Zenon, <2>1, <2>3
<1> QED
  BY Zenon, <1>2, <1>3

\* The fields of a finished pager.
LEMMA FinishIs ==
  ASSUME NEW p \in Pager, NEW records \in Seq(Places)
  PROVE  LET r == FinishBatchOf(p, records)
         IN  /\ r \in Pager /\ r.state = "complete" /\ r.checkpoint = p.checkpoint
             /\ r.head = (IF records = <<>> THEN p.checkpoint ELSE records[1])
             /\ Range(records) \subseteq Range(r.records)
<1> DEFINE h == IF records = <<>> THEN p.checkpoint ELSE records[1]
           s == OldestFirst(records)
           r == [p EXCEPT !.state = "complete", !.records = s, !.head = h]
<1>1. p.checkpoint \in {0} \cup Places
  BY DEF Pager
<1>2. records # <<>> => records[1] \in Places
  OBVIOUS
<1>3. h \in {0} \cup Places
  BY Zenon, <1>1, <1>2
<1>4. s \in Seq(Places) /\ Range(records) \subseteq Range(s)
  BY Zenon, ReverseHolds
<1>5. FinishBatchOf(p, records) = r
  BY Zenon DEF FinishBatchOf
<1> HIDE DEF h, s
<1>6. r \in Pager /\ r.state = "complete" /\ r.checkpoint = p.checkpoint /\ r.head = h /\ r.records = s
  BY Zenon, <1>3, <1>4 DEF Pager
<1> HIDE DEF r
<1> QED
  BY Zenon, <1>4, <1>5, <1>6 DEF h

\* The fields of a failed pager.
LEMMA FailedIs ==
  ASSUME NEW p \in Pager
  PROVE  /\ Failed(p) \in Pager /\ Failed(p).state = "failed"
         /\ Failed(p).checkpoint = p.checkpoint /\ Failed(p).head = p.head
<1>0. <<>> \in Seq(Places)
  OBVIOUS
<1>1. PICK s \in Seq(Places) : s = <<>>
  BY Zenon, <1>0
<1>2. Failed(p) = [p EXCEPT !.state = "failed", !.records = s]
  BY Zenon, <1>1 DEF Failed
<1> DEFINE r == [p EXCEPT !.state = "failed", !.records = s]
<1>3. r \in Pager /\ r.state = "failed" /\ r.checkpoint = p.checkpoint /\ r.head = p.head
  BY Zenon DEF Pager
<1> QED
  BY Zenon, <1>2, <1>3

\* position() on a page, and what lies above the checkpoint there.
LEMMA NewerIs ==
  ASSUME NEW page \in Seq(Places), NEW newest \in Nat, NEW at \in 1..Len(page),
         \A i \in 1..Len(page) : page[i] = newest - i + 1
  PROVE  LET newer == SubSeq(page, 1, at - 1)
         IN  /\ newer \in Seq(Places)
             /\ newer # <<>> => newer[1] = newest
             /\ newer = <<>> => page[at] + 1 > newest
             /\ page[at] + 1 .. newest \subseteq Range(newer)
<1> DEFINE newer == SubSeq(page, 1, at - 1)
<1>1. Len(page) \in Nat
  OBVIOUS
<1>2. /\ newer \in Seq(Places) /\ Len(newer) = at - 1
      /\ \A i \in 1..(at - 1) : newer[i] = page[i]
  BY <1>1
<1> HIDE DEF newer
<1>3. \A i \in 1..Len(newer) : newer[i] = newest - i + 1
  BY <1>1, <1>2
<1>4. newest - Len(newer) + 1 = page[at] + 1
  BY <1>1, <1>2
<1>5. page[at] + 1 .. newest \subseteq Range(newer)
  BY Zenon, <1>2, <1>3, <1>4, RunHolds
<1>6. newer # <<>> => newer[1] = newest
  BY <1>2, <1>3
<1>7. newer = <<>> => page[at] + 1 > newest
  BY <1>2, <1>4
<1> QED
  BY Zenon, <1>2, <1>5, <1>6, <1>7 DEF newer

\* accept_page: with or without the checkpoint in it, a page leaves nothing out.
LEMMA AcceptCovers ==
  ASSUME RecoveryInv, NEW p \in Pager, PagerCovers(p), p.state = "paging"
  PROVE  LET r == AcceptPage(p, Page(p.before))
         IN  r \in Pager /\ PagerCovers(r)
<1> DEFINE newest == IF p.before = 0 THEN head ELSE p.before - 1
           page == Page(p.before)
           at == Position(page, p.checkpoint)
           newer == IF at = 0 THEN page ELSE SubSeq(page, 1, at - 1)
           records == p.records \o newer
           r == AcceptPage(p, page)
<1>p. /\ p.checkpoint \in {0} \cup Places /\ p.before \in {0} \cup Places
      /\ p.records \in Seq(Places)
  BY Zenon DEF Pager
<1>n. /\ p.checkpoint \in Nat /\ p.before \in Nat /\ head \in Nat /\ checkpoint \in Nat
      /\ checkpoint <= head /\ p.checkpoint <= checkpoint /\ PageSize \in Nat \ {0}
  <2>1. /\ head \in Places /\ checkpoint \in 0..head /\ p.checkpoint <= checkpoint
        /\ PageSize \in Nat \ {0} /\ Len(Blocks) \in Nat
    BY BlocksAssumption DEF RecoveryInv, RecoveryTypes, PagerCovers
  <2> QED
    BY <1>p, <2>1 DEF Places
<1>q. ASSUME NEW t \in Seq(Places)
      PROVE  /\ p.records \o t \in Seq(Places)
             /\ Range(p.records) \subseteq Range(p.records \o t)
             /\ Range(t) \subseteq Range(p.records \o t)
             /\ p.records # <<>> => p.records \o t # <<>> /\ (p.records \o t)[1] = p.records[1]
             /\ p.records = <<>> => p.records \o t = t
  <2>1. PICK s \in Seq(Places) : s = p.records
    BY Zenon, <1>p
  <2>2. /\ s \o t \in Seq(Places)
        /\ Range(s) \subseteq Range(s \o t) /\ Range(t) \subseteq Range(s \o t)
        /\ s # <<>> => s \o t # <<>> /\ (s \o t)[1] = s[1]
        /\ s = <<>> => s \o t = t
    BY Zenon, ConcatHolds
  <2> QED
    BY Zenon, <2>1, <2>2
<1>c. \/ p.before = 0 /\ p.records = <<>>
      \/ /\ p.checkpoint # 0 /\ p.records # <<>> /\ p.checkpoint < p.before
         /\ p.before .. p.records[1] \subseteq Range(p.records) /\ p.records[1] <= head
  BY Zenon DEF PagerCovers
<1>1. /\ page \in Seq(Places) /\ newest \in {0} \cup Places
      /\ \A i \in 1..Len(page) : page[i] = newest - i + 1
  BY Zenon, <1>p, PageIs DEF RecoveryInv
<1>2. r = IF p.checkpoint = 0 THEN FinishBatchOf(p, page)
          ELSE IF Len(records) > MaxRecords THEN Failed(p)
          ELSE IF at > 0 THEN FinishBatchOf(p, records)
          ELSE IF Len(page) < PageSize THEN Failed(p)
          ELSE [p EXCEPT !.records = records, !.before = page[Len(page)]]
  BY Zenon DEF AcceptPage
<1>3. newest \in Nat /\ p.checkpoint <= newest /\ (p.before = 0 => newest <= head)
  BY <1>n, <1>c
<1>4. /\ newest = IF p.before = 0 THEN newest ELSE p.before - 1
      /\ \/ p.before = 0 /\ p.records = <<>>
         \/ p.before # 0 /\ p.records # <<>> /\ p.before .. p.records[1] \subseteq Range(p.records)
  BY <1>n, <1>c
<1> HIDE DEF page, newest
<1>5. \/ at = 0 /\ \A i \in 1..Len(page) : page[i] # p.checkpoint
      \/ at \in 1..Len(page) /\ page[at] = p.checkpoint
  <2>1. PICK f \in Seq(Places) : f = page
    BY Zenon, <1>1
  <2>2. \/ Position(f, p.checkpoint) = 0 /\ \A i \in 1..Len(f) : f[i] # p.checkpoint
        \/ Position(f, p.checkpoint) \in 1..Len(f) /\ f[Position(f, p.checkpoint)] = p.checkpoint
    BY Zenon, Found
  <2> QED
    BY Zenon, <2>1, <2>2
<1> HIDE DEF at, r
\* The newest record is on the chain.
<1>h. ASSUME NEW t \in Seq(Places), t # <<>> => t[1] = newest, p.records \o t # <<>>
      PROVE  (p.records \o t)[1] <= head
  <2>1. /\ p.records # <<>> => (p.records \o t)[1] = p.records[1]
        /\ p.records = <<>> => p.records \o t = t
    BY Zenon, <1>q, <1>h
  <2> QED
    BY Zenon, <1>c, <1>3, <1>h, <2>1
<1>f. CASE r = Failed(p)
  BY Zenon, <1>f, FailedIs DEF PagerCovers, r, page
<1>6. CASE p.checkpoint = 0
  <2>1. r = FinishBatchOf(p, page)
    BY Zenon, <1>2, <1>6
  <2>2. /\ r \in Pager /\ r.state = "complete" /\ r.checkpoint = p.checkpoint
        /\ r.head = (IF page = <<>> THEN p.checkpoint ELSE page[1])
    BY Zenon, <1>1, <2>1, FinishIs
  <2>h. r.head <= head
    <3>1. page # <<>> => page[1] = newest
      BY <1>1, <1>3
    <3>2. p.before = 0 /\ p.checkpoint <= head
      BY <1>n, <1>c, <1>6
    <3> QED
      BY Zenon, <1>3, <2>2, <3>1, <3>2
  <2>3. PagerCovers(r)
    BY Zenon, <1>6, <2>2, <2>h DEF PagerCovers
  <2> QED
    BY Zenon, <2>2, <2>3 DEF r, page
<1>7. CASE p.checkpoint # 0 /\ at # 0 /\ r # Failed(p)
  <2>1. at \in 1..Len(page) /\ page[at] = p.checkpoint /\ at > 0
    BY <1>1, <1>5, <1>7
  <2>2. r = FinishBatchOf(p, records)
    BY Zenon, <1>2, <1>7, <2>1
  <2>3. /\ newer \in Seq(Places)
        /\ newer # <<>> => newer[1] = newest
        /\ newer = <<>> => p.checkpoint + 1 > newest
        /\ p.checkpoint + 1 .. newest \subseteq Range(newer)
    <3>1. newer = SubSeq(page, 1, at - 1)
      BY Zenon, <1>7
    <3> HIDE DEF newer
    <3> QED
      BY Zenon, <1>1, <1>3, <2>1, <3>1, NewerIs
  <2> HIDE DEF newer
  <2>4. p.checkpoint + 1 \in Nat
    BY <1>n
  <2>5. records # <<>> => p.checkpoint + 1 .. records[1] \subseteq Range(records)
    BY Zenon, <1>p, <1>3, <1>4, <2>3, <2>4, RunsJoin
  <2>6. records \in Seq(Places)
    BY Zenon, <1>q, <2>3
  <2>h. records # <<>> => records[1] <= head
    BY Zenon, <1>h, <2>3
  <2> HIDE DEF records
  <2>7. /\ r \in Pager /\ r.state = "complete" /\ r.checkpoint = p.checkpoint
        /\ r.head = (IF records = <<>> THEN p.checkpoint ELSE records[1])
        /\ Range(records) \subseteq Range(r.records)
    BY Zenon, <2>2, <2>6, FinishIs
  <2>8. p.checkpoint + 1 .. r.head \subseteq Range(r.records)
    <3>1. p.checkpoint + 1 .. p.checkpoint = {}
      BY <1>n
    <3> QED
      BY Zenon, <2>5, <2>7, <3>1
  <2>i. r.head <= head
    <3>1. p.checkpoint <= head
      BY <1>n
    <3> QED
      BY Zenon, <2>7, <2>h, <3>1
  <2>9. PagerCovers(r)
    BY Zenon, <2>7, <2>8, <2>i DEF PagerCovers
  <2> QED
    BY Zenon, <2>7, <2>9 DEF r, page
<1>8. CASE p.checkpoint # 0 /\ at = 0 /\ r # Failed(p)
  <2>1. newer = page /\ ~(0 > 0)
    BY <1>8
  <2>2. Len(page) >= PageSize /\ r = [p EXCEPT !.records = records, !.before = page[Len(page)]]
    <3>1. ~(Len(page) < PageSize) /\ r = [p EXCEPT !.records = records, !.before = page[Len(page)]]
      BY Zenon, <1>2, <1>8, <2>1
    <3>2. Len(page) \in Nat
      BY <1>1
    <3> QED
      BY <1>n, <3>1, <3>2
  <2>3. /\ Len(page) \in Nat /\ Len(page) >= 1 /\ page[Len(page)] = newest - Len(page) + 1
        /\ page[Len(page)] \in Places /\ page # <<>>
    BY <1>n, <1>1, <2>2
  <2>0. \A i \in 1..Len(page) : page[i] # p.checkpoint
    BY <1>5, <1>8
  <2>4. p.checkpoint < page[Len(page)]
    <3> SUFFICES ASSUME ~(p.checkpoint < page[Len(page)]) PROVE FALSE
      OBVIOUS
    <3> DEFINE i == newest - p.checkpoint + 1
    <3>1. i \in 1..Len(page) /\ newest - i + 1 = p.checkpoint
      BY <1>n, <1>3, <2>3
    <3> HIDE DEF i
    <3> QED
      BY Zenon, <1>1, <2>0, <3>1
  <2>5. page[Len(page)] .. newest \subseteq Range(page)
    BY Zenon, <1>1, <1>3, <2>3, RunHolds
  <2>6. page[1] = newest /\ page[Len(page)] \in Nat
    BY <1>1, <1>3, <2>3 DEF Places
  <2> DEFINE last == page[Len(page)]
  <2>7. records = p.records \o page /\ records \in Seq(Places) /\ records # <<>>
    <3>1. records = p.records \o page
      BY Zenon, <2>1
    <3>2. p.records \o page \in Seq(Places)
      BY Zenon, <1>q, <1>1
    <3>3. p.records \o page # <<>>
      BY Zenon, <1>q, <1>1, <2>3
    <3> QED
      BY Zenon, <3>1, <3>2, <3>3
  <2>h. records[1] <= head
    BY Zenon, <1>1, <1>h, <2>6, <2>7
  <2> HIDE DEF records, last
  <2>8. last .. records[1] \subseteq Range(records)
    <3>1. last \in Nat /\ last .. newest \subseteq Range(page)
      BY Zenon, <2>5, <2>6 DEF last
    <3> QED
      BY Zenon, <1>p, <1>1, <1>3, <1>4, <2>3, <2>6, <2>7, <3>1, RunsJoin
  <2>9. last \in Places /\ p.checkpoint < last /\ r = [p EXCEPT !.records = records, !.before = last]
    BY Zenon, <2>2, <2>3, <2>4 DEF last
  <2>10. /\ r \in Pager /\ r.state = "paging" /\ r.checkpoint = p.checkpoint
         /\ r.records = records /\ r.before = last /\ r.head = p.head
    BY Zenon, <2>7, <2>9 DEF Pager
  <2>11. PagerCovers(r)
    BY Zenon, <1>8, <2>7, <2>8, <2>9, <2>10, <2>h DEF PagerCovers
  <2> QED
    BY Zenon, <2>10, <2>11 DEF r, page
<1> QED
  BY Zenon, <1>f, <1>6, <1>7, <1>8

-----------------------------------------------------------------------------

\* Places are positive numbers.
LEMMA PlacesAre ==
  /\ \A s \in Places : s \in Nat /\ s # 0
  /\ \A s \in Places : Blocks[s] \in [slot : Nat, index : Nat]
<1>1. Blocks \in Seq([slot : Nat, index : Nat])
  BY Zenon, BlocksAssumption
<1> DEFINE B == [slot : Nat, index : Nat]
<1> HIDE DEF B
<1>2. Blocks \in Seq(B)
  BY Zenon, <1>1 DEF B
<1>3. Len(Blocks) \in Nat /\ \A s \in 1..Len(Blocks) : Blocks[s] \in B
  BY <1>2
<1>4. \A s \in 1..Len(Blocks) : s \in Nat /\ s # 0
  BY <1>3
<1> QED
  BY Zenon, <1>3, <1>4 DEF Places, B

\* save_recovery_checkpoint keeps the old checkpoint or takes a later one.
LEMMA AdvanceForward ==
  ASSUME NEW old \in Places, NEW new \in Places
  PROVE  \/ AdvanceCheckpoint(old, new) = old
         \/ AdvanceCheckpoint(old, new) = new /\ old < new
<1> SUFFICES ASSUME AdvanceCheckpoint(old, new) # old
             PROVE  AdvanceCheckpoint(old, new) = new /\ old < new
  OBVIOUS
<1>1. /\ old \in Nat /\ new \in Nat /\ old # 0
      /\ Blocks[old] \in [slot : Nat, index : Nat] /\ Blocks[new] \in [slot : Nat, index : Nat]
  BY Zenon, PlacesAre
<1>2. /\ AdvanceCheckpoint(old, new) = new
      /\ \/ Blocks[old].slot < Blocks[new].slot
         \/ /\ Blocks[old].slot = Blocks[new].slot
            /\ Blocks[old].index # 0 /\ Blocks[old].index < Blocks[new].index
  BY <1>1 DEF AdvanceCheckpoint
<1>3. /\ Blocks[old].slot \in Nat /\ Blocks[new].slot \in Nat
      /\ Blocks[old].index \in Nat /\ Blocks[new].index \in Nat
  BY <1>1
<1>4. new # old
  BY <1>2, <1>3
<1>5. ~(new < old)
  <2> SUFFICES ASSUME new < old PROVE FALSE
    OBVIOUS
  <2>1. /\ Blocks[new].slot <= Blocks[old].slot
        /\ Blocks[new].slot = Blocks[old].slot /\ Blocks[old].index # 0 =>
              Blocks[new].index < Blocks[old].index
    BY BlocksAssumption
  <2> QED
    BY <1>2, <1>3, <2>1
<1> QED
  BY <1>1, <1>2, <1>4, <1>5

\* A pager keeps what it covers when checkpoint, head and the processed set grow.
LEMMA CoversStays ==
  ASSUME NEW p \in Pager, PagerCovers(p), head \in Nat, head' \in Nat, head <= head',
         checkpoint \in Nat, checkpoint' \in Nat, checkpoint <= checkpoint',
         processed \subseteq processed'
  PROVE  PagerCovers(p)'
<1>1. /\ p.checkpoint \in Nat /\ p.head \in Nat
      /\ p.records # <<>> => p.records[1] \in Nat
  <2>1. p.checkpoint \in {0} \cup Places /\ p.head \in {0} \cup Places /\ p.records \in Seq(Places)
    BY Zenon DEF Pager
  <2>2. p.records # <<>> => p.records[1] \in Places
    BY <2>1
  <2> QED
    BY <2>1, <2>2, PlacesAre
<1>2. p.checkpoint <= checkpoint /\ p.head <= head
  BY Zenon DEF PagerCovers
<1>3. p.checkpoint <= checkpoint' /\ p.head <= head'
  BY <1>1, <1>2
<1>4. p.records # <<>> /\ p.records[1] <= head => p.records[1] <= head'
  BY <1>1
<1> QED
  BY Zenon, <1>3, <1>4 DEF PagerCovers

\* One worker's pager moves, and what the others cover stays.
LEMMA PagerMoves ==
  ASSUME RecoveryInv, NEW w \in Workers, NEW r \in Pager, pager' = [pager EXCEPT ![w] = r],
         head' = head, checkpoint' \in 0..head, checkpoint <= checkpoint',
         processed \subseteq processed', PagerCovers(r)'
  PROVE  RecoveryInv'
<1>1. head \in Nat /\ checkpoint \in Nat /\ checkpoint' \in Nat /\ head <= head'
  BY PlacesAre DEF RecoveryInv, RecoveryTypes
<1>2. RecoveryTypes'
  BY Zenon DEF RecoveryInv, RecoveryTypes
<1>3. ASSUME NEW v \in Workers
      PROVE  PagerCovers(pager[v])'
  <2>1. CASE v = w
    BY Zenon, <2>1 DEF RecoveryInv, RecoveryTypes
  <2>2. CASE v # w
    <3>1. pager'[v] = pager[v] /\ pager[v] \in Pager /\ PagerCovers(pager[v])
      BY Zenon, <2>2 DEF RecoveryInv, RecoveryTypes
    <3>2. head' \in Nat
      BY Zenon, <1>1
    <3>3. PICK p \in Pager : p = pager[v]
      BY Zenon, <3>1
    <3>4. PagerCovers(p)'
      BY Zenon, <1>1, <3>1, <3>2, <3>3, CoversStays
    <3> QED
      BY Zenon, <3>1, <3>3, <3>4 DEF PagerCovers
  <2> QED
    BY Zenon, <2>1, <2>2
<1> QED
  BY Zenon, <1>2, <1>3 DEF RecoveryInv

\* No pager.
LEMMA NoPagerCovers ==
  ASSUME RecoveryInv
  PROVE  NoPager \in Pager /\ PagerCovers(NoPager) /\ NoPager.state = "none"
<1>0. <<>> \in Seq(Places)
  OBVIOUS
<1>1. NoPager \in Pager
  BY Zenon, <1>0 DEF NoPager, Pager
<1>2. NoPager.state = "none" /\ NoPager.checkpoint = 0 /\ NoPager.head = 0
  BY Zenon DEF NoPager
<1>3. 0 <= checkpoint /\ 0 <= head
  BY PlacesAre DEF RecoveryInv, RecoveryTypes
<1>4. PagerCovers(NoPager)
  BY Zenon, <1>2, <1>3 DEF PagerCovers
<1> QED
  BY Zenon, <1>1, <1>2, <1>4

\* A pager is covered in the next state as it is in this one, if nothing it is
\* compared with moves.
LEMMA CoversSame ==
  ASSUME NEW p, PagerCovers(p), UNCHANGED <<head, checkpoint>>, processed \subseteq processed'
  PROVE  PagerCovers(p)'
  BY Zenon DEF PagerCovers

\* A new signature on the chain is above everything that a pager has gathered.
LEMMA ProduceKeeps ==
  ASSUME RecoveryInv, Produce
  PROVE  RecoveryInv'
<1>1. /\ head < Len(Blocks) /\ head' = head + 1
      /\ UNCHANGED <<checkpoint, pager, processed>>
  BY Zenon DEF Produce
<1>2. Len(Blocks) \in Nat /\ Oldest \in Nat
  BY BlocksAssumption, PlacesAre
<1>3. /\ head \in Nat /\ head' \in Nat /\ head <= head' /\ checkpoint \in Nat
      /\ head' \in Places /\ Oldest <= head' /\ checkpoint' \in 0..head'
  BY <1>1, <1>2 DEF RecoveryInv, RecoveryTypes, Places
<1>4. RecoveryTypes'
  BY Zenon, <1>1, <1>3 DEF RecoveryInv, RecoveryTypes
<1>5. ASSUME NEW w \in Workers
      PROVE  PagerCovers(pager[w])'
  <2>1. pager[w] \in Pager /\ PagerCovers(pager[w]) /\ pager'[w] = pager[w]
    BY Zenon, <1>1 DEF RecoveryInv, RecoveryTypes
  <2>2. PICK p \in Pager : p = pager[w]
    BY Zenon, <2>1
  <2>3. checkpoint' \in Nat /\ checkpoint <= checkpoint' /\ processed \subseteq processed'
    BY <1>1, <1>3
  <2>4. PagerCovers(p)'
    BY Zenon, <1>3, <2>1, <2>2, <2>3, CoversStays
  <2> QED
    BY Zenon, <2>1, <2>2, <2>4 DEF PagerCovers
<1> QED
  BY Zenon, <1>4, <1>5 DEF RecoveryInv

\* The steps of a worker.
LEMMA WorkerKeeps ==
  ASSUME RecoveryInv, NEW w \in Workers,
         \/ StartPager(w) \/ ReceivePage(w) \/ CheckpointMoved(w)
         \/ ProcessRecovered(w) \/ SaveRecoveryCheckpoint(w)
         \/ RecordCollectionGap(w) \/ LoseWorker(w)
  PROVE  /\ RecoveryInv'
         /\ checkpoint # 0 /\ checkpoint' # checkpoint =>
               /\ checkpoint' > checkpoint
               /\ pager[w].checkpoint # 0 => checkpoint + 1 .. checkpoint' \subseteq processed
         /\ \A v \in Workers : v # w => pager'[v] = pager[v]
<1> DEFINE p == pager[w]
<1>p. /\ p \in Pager /\ PagerCovers(p) /\ pager \in [Workers -> Pager]
      /\ head \in Places /\ checkpoint \in 0..head
  BY Zenon DEF RecoveryInv, RecoveryTypes
<1>n. head \in Nat /\ checkpoint \in Nat /\ checkpoint <= checkpoint /\ p.head \in {0} \cup Places
      /\ p.records \in Seq(Places) /\ p.checkpoint \in {0} \cup Places
  <2>1. p.head \in {0} \cup Places /\ p.records \in Seq(Places) /\ p.checkpoint \in {0} \cup Places
    BY Zenon, <1>p DEF Pager
  <2>2. head \in Nat /\ checkpoint \in Nat /\ checkpoint <= checkpoint
    BY <1>p, PlacesAre
  <2> QED
    BY Zenon, <2>1, <2>2
<1>m. ASSUME NEW r \in Pager, PagerCovers(r), pager' = [pager EXCEPT ![w] = r],
             UNCHANGED <<head, checkpoint, processed>>
      PROVE  RecoveryInv' /\ checkpoint' = checkpoint
  <2>1. PagerCovers(r)' /\ processed \subseteq processed' /\ checkpoint' \in 0..head /\ checkpoint <= checkpoint'
    BY Zenon, <1>p, <1>n, <1>m, CoversSame
  <2> QED
    BY Zenon, <1>m, <2>1, PagerMoves
<1>v. \A v \in Workers : v # w => pager'[v] = pager[v]
  <2>1. \E r : pager' = [pager EXCEPT ![w] = r]
    BY Zenon DEF StartPager, ReceivePage, CheckpointMoved, ProcessRecovered,
                 SaveRecoveryCheckpoint, RecordCollectionGap, LoseWorker
  <2> QED
    BY Zenon, <1>p, <2>1
<1>1. CASE StartPager(w)
  <2> DEFINE r == [NoPager EXCEPT !.state = "paging", !.checkpoint = checkpoint]
  <2>1. pager' = [pager EXCEPT ![w] = r] /\ UNCHANGED <<head, checkpoint, processed>>
    BY Zenon, <1>1 DEF StartPager
  <2>2. NoPager.before = 0 /\ NoPager.records = <<>> /\ NoPager.head = 0
    BY Zenon DEF NoPager
  <2>4. checkpoint \in {0} \cup Places /\ 0 <= head
    BY <1>p, <1>n, BlocksAssumption DEF Places
  <2>5. NoPager \in Pager
    BY Zenon, NoPagerCovers
  <2>6. /\ r \in Pager /\ r.state = "paging" /\ r.checkpoint = checkpoint
        /\ r.before = NoPager.before /\ r.records = NoPager.records /\ r.head = NoPager.head
    BY Zenon, <2>4, <2>5 DEF Pager
  <2> HIDE DEF r
  <2>3. /\ r.state = "paging" /\ r.checkpoint = checkpoint /\ r.before = 0
        /\ r.records = <<>> /\ r.head = 0
    BY Zenon, <2>2, <2>6
  <2>7. PagerCovers(r)
    BY Zenon, <1>n, <2>3, <2>4 DEF PagerCovers
  <2> QED
    BY Zenon, <1>v, <1>m, <2>1, <2>6, <2>7
<1>2. CASE ReceivePage(w)
  <2>1. /\ p.state = "paging" /\ pager' = [pager EXCEPT ![w] = AcceptPage(p, Page(p.before))]
        /\ UNCHANGED <<head, checkpoint, processed>>
    BY Zenon, <1>2 DEF ReceivePage
  <2>2. AcceptPage(p, Page(p.before)) \in Pager /\ PagerCovers(AcceptPage(p, Page(p.before)))
    BY Zenon, <1>p, <2>1, AcceptCovers
  <2> QED
    BY Zenon, <1>v, <1>m, <2>1, <2>2
<1>3. CASE CheckpointMoved(w)
  <2>1. pager' = [pager EXCEPT ![w] = Failed(p)] /\ UNCHANGED <<head, checkpoint, processed>>
    BY Zenon, <1>3 DEF CheckpointMoved
  <2>2. Failed(p) \in Pager /\ PagerCovers(Failed(p))
    BY Zenon, <1>p, FailedIs DEF PagerCovers
  <2> QED
    BY Zenon, <1>v, <1>m, <2>1, <2>2
<1>4. CASE ProcessRecovered(w)
  <2> DEFINE q == [p EXCEPT !.state = "processed"]
  <2>q. /\ q \in Pager /\ q.state = "processed" /\ q.checkpoint = p.checkpoint
        /\ q.head = p.head /\ q.records = p.records
    BY Zenon, <1>p DEF Pager
  <2>0. /\ p.state = "complete" /\ processed' = processed \cup Range(p.records)
        /\ pager' = [pager EXCEPT ![w] = q] /\ UNCHANGED <<head, checkpoint>>
    BY Zenon, <1>4 DEF ProcessRecovered
  <2> HIDE DEF q
  <2>r. PICK r \in Pager : r = q
    BY Zenon, <2>q
  <2>1. /\ p.state = "complete" /\ processed' = processed \cup Range(p.records)
        /\ pager' = [pager EXCEPT ![w] = r] /\ UNCHANGED <<head, checkpoint>>
    BY Zenon, <2>0, <2>r
  <2>2. /\ r.state = "processed" /\ r.checkpoint = p.checkpoint
        /\ r.head = p.head /\ r.records = p.records
    BY Zenon, <2>q, <2>r
  <2>3. PagerCovers(r)'
    BY Zenon, <1>p, <2>1, <2>2 DEF PagerCovers
  <2>4. checkpoint' \in 0..head /\ checkpoint <= checkpoint' /\ processed \subseteq processed'
    BY Zenon, <1>p, <1>n, <2>1
  <2> QED
    BY Zenon, <1>v, <2>1, <2>2, <2>3, <2>4, PagerMoves
<1>5. CASE SaveRecoveryCheckpoint(w)
  <2>1. /\ p.state = "processed"
        /\ checkpoint' = IF p.head = 0 THEN checkpoint ELSE AdvanceCheckpoint(checkpoint, p.head)
        /\ pager' = [pager EXCEPT ![w] = NoPager] /\ UNCHANGED <<head, processed>>
    BY Zenon, <1>5 DEF SaveRecoveryCheckpoint
  <2>2. /\ p.head <= head /\ p.checkpoint <= checkpoint
        /\ p.checkpoint # 0 => p.checkpoint + 1 .. p.head \subseteq processed
    BY Zenon, <1>p, <2>1 DEF PagerCovers
  <2>3. \/ checkpoint' = checkpoint
        \/ checkpoint' = p.head /\ p.head \in Places /\ checkpoint < p.head
    <3>1. CASE p.head = 0
      BY Zenon, <2>1, <3>1
    <3>2. CASE p.head # 0 /\ checkpoint = 0
      <4>1. p.head \in Places /\ checkpoint' = p.head
        BY Zenon, <1>n, <2>1, <3>2 DEF AdvanceCheckpoint
      <4>2. 0 < p.head
        BY <4>1, PlacesAre
      <4> QED
        BY Zenon, <3>2, <4>1, <4>2
    <3>3. CASE p.head # 0 /\ checkpoint # 0
      <4>1. p.head \in Places /\ checkpoint' = AdvanceCheckpoint(checkpoint, p.head)
        BY Zenon, <1>n, <2>1, <3>3
      <4>2. checkpoint \in Places
        BY <1>p, <1>n, <3>3, BlocksAssumption DEF Places
      <4> QED
        BY Zenon, <4>1, <4>2, AdvanceForward
    <3> QED
      BY Zenon, <3>1, <3>2, <3>3
  <2>4. checkpoint' \in 0..head /\ checkpoint <= checkpoint'
    <3>1. CASE checkpoint' = checkpoint
      BY Zenon, <1>p, <1>n, <3>1
    <3>2. CASE checkpoint' = p.head /\ p.head \in Places /\ checkpoint < p.head
      <4>1. p.head \in 0..head /\ checkpoint <= p.head
        BY <1>n, <2>2, <3>2, PlacesAre
      <4> QED
        BY Zenon, <3>2, <4>1
    <3> QED
      BY Zenon, <2>3, <3>1, <3>2
  <2>5. RecoveryInv'
    <3>1. NoPager \in Pager /\ PagerCovers(NoPager)
      BY Zenon, NoPagerCovers
    <3>2. /\ head' \in Nat /\ checkpoint' \in Nat /\ head <= head' /\ processed \subseteq processed'
      BY <1>n, <2>1, <2>4
    <3>3. PagerCovers(NoPager)'
      BY Zenon, <1>n, <2>4, <3>1, <3>2, CoversStays
    <3> QED
      BY Zenon, <2>1, <2>4, <3>1, <3>2, <3>3, PagerMoves
  <2>6. ASSUME checkpoint' # checkpoint
        PROVE  /\ checkpoint' > checkpoint
               /\ p.checkpoint # 0 => checkpoint + 1 .. checkpoint' \subseteq processed
    <3>1. checkpoint' = p.head /\ p.head \in Nat /\ checkpoint < p.head /\ p.checkpoint \in Nat
      BY <1>n, <2>3, <2>6, PlacesAre
    <3>2. checkpoint' > checkpoint
      BY <1>n, <3>1
    <3>3. checkpoint + 1 .. p.head \subseteq p.checkpoint + 1 .. p.head
      BY <1>n, <2>2, <3>1
    <3> QED
      BY Zenon, <2>2, <3>1, <3>2, <3>3
  <2> QED
    BY Zenon, <1>v, <2>5, <2>6
<1>6. CASE RecordCollectionGap(w) \/ LoseWorker(w)
  <2>1. pager' = [pager EXCEPT ![w] = NoPager] /\ UNCHANGED <<head, checkpoint, processed>>
    BY Zenon, <1>6 DEF RecordCollectionGap, LoseWorker
  <2> QED
    BY Zenon, <1>v, <1>m, <2>1, NoPagerCovers
<1> QED
  BY Zenon, <1>1, <1>2, <1>3, <1>4, <1>5, <1>6

\* No pager, no checkpoint: the invariant holds at first.
LEMMA RecoveryStarts ==
  ASSUME RecoveryInit
  PROVE  RecoveryInv
<1>1. /\ head = Oldest /\ checkpoint = 0 /\ pager = [w \in Workers |-> NoPager]
  BY Zenon DEF RecoveryInit
<1>2. head \in Places /\ Oldest <= head /\ checkpoint \in 0..head /\ 0 <= head /\ 0 <= 0
  BY <1>1, BlocksAssumption DEF Places
<1>3. <<>> \in Seq(Places)
  OBVIOUS
<1>4. NoPager \in Pager
  BY Zenon, <1>3 DEF NoPager, Pager
<1>5. NoPager.state = "none" /\ NoPager.checkpoint = 0 /\ NoPager.head = 0
  BY Zenon DEF NoPager
<1>6. PagerCovers(NoPager)
  BY Zenon, <1>1, <1>2, <1>5 DEF PagerCovers
<1>7. \A w \in Workers : pager[w] = NoPager
  BY Zenon, <1>1
<1>8. RecoveryTypes
  BY Zenon, <1>1, <1>2, <1>4 DEF RecoveryTypes
<1> QED
  BY Zenon, <1>6, <1>7, <1>8 DEF RecoveryInv

\* What no worker does leaves the workers and the checkpoint as they are.
LEMMA ResolveKeeps ==
  ASSUME RecoveryInv, UNCHANGED <<head, checkpoint, pager, processed>>
  PROVE  RecoveryInv'
  BY Zenon DEF RecoveryInv, RecoveryTypes, PagerCovers

\* Every step keeps the invariant, and moves the checkpoint only over what was processed.
LEMMA RecoveryStep ==
  ASSUME RecoveryInv, [RecoveryNext]_recoveryVars
  PROVE  /\ RecoveryInv'
         /\ \A w \in Workers :
               checkpoint # 0 /\ checkpoint' # checkpoint /\ pager'[w] # pager[w] =>
                  /\ checkpoint' > checkpoint
                  /\ pager[w].checkpoint # 0 => checkpoint + 1 .. checkpoint' \subseteq processed
<1>1. CASE Produce
  <2>1. RecoveryInv' /\ checkpoint' = checkpoint
    BY Zenon, <1>1, ProduceKeeps DEF Produce
  <2> QED
    BY Zenon, <2>1
<1>2. CASE (\E g \in gaps : ResolveCollectionGap(g)) \/ UNCHANGED recoveryVars
  <2>1. UNCHANGED <<head, checkpoint, pager, processed>>
    BY Zenon, <1>2 DEF ResolveCollectionGap, recoveryVars
  <2> QED
    BY Zenon, <2>1, ResolveKeeps
<1>3. CASE \E w \in Workers :
              \/ StartPager(w) \/ ReceivePage(w) \/ CheckpointMoved(w)
              \/ ProcessRecovered(w) \/ SaveRecoveryCheckpoint(w)
              \/ RecordCollectionGap(w) \/ LoseWorker(w)
  <2>1. PICK w \in Workers :
              \/ StartPager(w) \/ ReceivePage(w) \/ CheckpointMoved(w)
              \/ ProcessRecovered(w) \/ SaveRecoveryCheckpoint(w)
              \/ RecordCollectionGap(w) \/ LoseWorker(w)
    BY Zenon, <1>3
  <2>2. /\ RecoveryInv'
        /\ checkpoint # 0 /\ checkpoint' # checkpoint =>
              /\ checkpoint' > checkpoint
              /\ pager[w].checkpoint # 0 => checkpoint + 1 .. checkpoint' \subseteq processed
        /\ \A v \in Workers : v # w => pager'[v] = pager[v]
    BY Zenon, <2>1, WorkerKeeps
  <2> QED
    BY Zenon, <2>2
<1> QED
  BY Zenon, <1>1, <1>2, <1>3 DEF RecoveryNext

\* In every state what a pager has gathered covers what is between its checkpoint
\* and its head, and a batch that was processed is in processed.
THEOREM RecoveryInvariant == RecoverySpec => []RecoveryInv
<1>1. RecoveryInit => RecoveryInv
  BY RecoveryStarts
<1>2. RecoveryInv /\ [RecoveryNext]_recoveryVars => RecoveryInv'
  BY RecoveryStep
<1> QED
  BY <1>1, <1>2, PTL DEF RecoverySpec

\* save_recovery_checkpoint never moves the checkpoint back, nor over a signature
\* that no processed batch contained, however many workers race and whichever die.
THEOREM CheckpointNeverSkips == RecoverySpec => CheckpointSkipsNothing
<1>1. RecoveryInv /\ [RecoveryNext]_recoveryVars =>
        [\A w \in Workers :
            checkpoint # 0 /\ checkpoint' # checkpoint /\ pager'[w] # pager[w] =>
               /\ checkpoint' > checkpoint
               /\ pager[w].checkpoint # 0 => checkpoint + 1 .. checkpoint' \subseteq processed
        ]_recoveryVars
  BY RecoveryStep
<1> QED
  BY <1>1, RecoveryInvariant, PTL DEF RecoverySpec, CheckpointSkipsNothing

-----------------------------------------------------------------------------

Trades == SwapTrades \cup {"trade"}
IsLogged(id, e) == id \in Ids /\ e \in Range(Transactions[id].logged)

\* The creation of a curve or a pool, and that its window was opened durably.
IsCreation(c, x) == c \in AllEvents /\ c.kind \in Discoveries /\ c.target = x
WasOpened(x) == \E id \in Ids : \E c \in Range(Transactions[id].logged) :
    IsCreation(c, x) /\ Coordinate(id, c) \in database.opened

\* A market of the registry is what the creation said.
MarketIsRight(k) == \E c \in AllEvents :
    /\ IsCreation(c, k.market)
    /\ IF c.kind = "create"
       THEN k.venue = "curve" /\ k.tokenIsBase = TRUE /\ k.mint = k.market
       ELSE /\ PairIsSupported(c.base, c.quote)
            /\ k.venue = "swap" /\ k.tokenIsBase = TokenIsBase(c.base, c.quote)
            /\ k.mint = IF TokenIsBase(c.base, c.quote) THEN c.base ELSE c.quote

IsFact(f) ==
    f = [key |-> f.key, kind |-> f.kind, mint |-> f.mint, venue |-> f.venue, market |-> f.market,
         quote |-> f.quote, side |-> f.side, baseUnits |-> f.baseUnits,
         quoteUnits |-> f.quoteUnits, received |-> f.received]

TradeIsRight(f, e) ==
    /\ f.mint = TokenOf(e.target)
    /\ f.side = (IF ReceivesBase(e) = TokenIsSourceBase(e) THEN "buy" ELSE "sell")
    /\ <<f.baseUnits, f.quoteUnits>> =
          IF TokenIsSourceBase(e) THEN <<e.baseUnits, e.quoteUnits>>
          ELSE <<e.quoteUnits, e.baseUnits>>

FactIsRight(f) ==
    /\ IsFact(f) /\ f.received \in Nat
    /\ \E id \in Ids : \E e \in Range(Transactions[id].logged) :
        /\ f.key = Coordinate(id, e) /\ f.kind = e.kind /\ f.market = e.target
        /\ e.kind \in Trades => TradeIsRight(f, e)
    /\ f.venue = "curve" => f.mint = f.market /\ \E c \in AllEvents : IsCreation(c, f.market) /\ c.kind = "create"
    /\ f.kind \in Terminals => f.venue = "curve"

PoolIsRight(p) ==
    /\ p = [pool |-> p.pool, base |-> p.base, quote |-> p.quote]
    /\ \E c \in AllEvents : /\ IsCreation(c, p.pool) /\ c.kind = "create pool"
                            /\ c.base = p.base /\ c.quote = p.quote

IsDatabase(d) ==
    d = [facts |-> d.facts, quarantined |-> d.quarantined, pools |-> d.pools, opened |-> d.opened,
         rows |-> d.rows, projected |-> d.projected]

Token == [state : {"none", "pending", "confirmed", "cancelled"}, opened : Nat]
Fetch == [id : Ids, received : Nat, targets : SUBSET Targets, tracked : SUBSET Targets,
          read : BOOLEAN, scoped : BOOLEAN]
Batch == [status : {"idle", "running", "failed"}, id : {0} \cup Ids,
          purpose : {"none", "discovery", "activity"}, received : Nat,
          targets : SUBSET Targets, todo : SUBSET AllEvents, selected : SUBSET AllEvents,
          complete : BOOLEAN]

TypeInv ==
    /\ IsDatabase(database)
    /\ tokens \in [Targets -> Token]
    /\ fetches \subseteq Fetch
    /\ batch \in Batch

StoreInv ==
    /\ \A k \in registry : MarketIsRight(k)
    /\ \A f \in database.facts \cup database.rows : FactIsRight(f)
    /\ \A p \in database.pools : PoolIsRight(p)

WindowInv ==
    /\ \A x \in Targets : tokens[x].state = "confirmed" => WasOpened(x)
    /\ \A f \in database.facts : f.kind \in Terminals =>
          WasOpened(f.market) /\ ~Known(registry, f.market)

\* What becomes of an event of a batch.
Handled(e) ==
    LET k == Coordinate(batch.id, e) IN
    \/ k \in database.opened
    \/ \E f \in database.facts : f.key = k /\ f.received <= batch.received
    \/ /\ ~batch.complete
       /\ \E q \in database.quarantined :
            q = k \/ q = [k EXCEPT !.instruction = 0, !.event = 0]

BatchInv ==
    batch.status = "running" =>
        /\ batch.id \in Ids
        /\ batch.todo \subseteq DecodedEvents(batch.id)
        /\ \A e \in DecodedEvents(batch.id) \ batch.todo :
            /\ e.target \in batch.targets /\ IsConfirmedAt(e.target, batch.received) => Handled(e)
            /\ e.kind \notin Discoveries => \A d \in batch.todo : d.kind \notin Discoveries

IngestInv == TypeInv /\ StoreInv /\ WindowInv /\ BatchInv

-----------------------------------------------------------------------------

\* An address is created once.
LEMMA CreatedOnce ==
  ASSUME NEW x, NEW c, NEW d, IsCreation(c, x), IsCreation(d, x)
  PROVE  /\ c = d
         /\ \A i, j \in Ids : IsLogged(i, c) /\ IsLogged(j, d) => i = j
<1>1. PICK i \in Ids : c \in Range(Transactions[i].logged)
  BY DEF IsCreation, AllEvents
<1>2. PICK j \in Ids : d \in Range(Transactions[j].logged)
  BY DEF IsCreation, AllEvents
<1>3. {c.kind, d.kind} \subseteq Discoveries /\ c.target = d.target
  BY DEF IsCreation
<1> QED
  BY SMTT(20), <1>1, <1>2, <1>3, ChainAssumption DEF IsLogged

\* What the chain says of an event that decodes.
LEMMA EventKinds ==
  ASSUME NEW id \in Ids, NEW e \in DecodedEvents(id)
  PROVE  /\ IsLogged(id, e) /\ e \in AllEvents /\ e.target \in Targets
         /\ e.program \in {"pump", "swap"}
         /\ e.program = "pump" => e.kind \in CurveEvents
         /\ e.program = "swap" => e.kind \in PoolEvents
         /\ e.kind = "trade" => e.side \in {"buy", "sell"}
<1>1. e \in Range(Transactions[id].logged) /\ e.kind \notin Undecoded
  BY DEF DecodedEvents, Decodes
<1>2. e \in AllEvents
  BY <1>1 DEF AllEvents
<1>3. e.target \in Targets
  BY <1>2 DEF Targets
<1> QED
  BY <1>1, <1>2, <1>3, ChainAssumption DEF IsLogged

\* The program of an event tells whether its target is a curve or a pool.
LEMMA CreationKind ==
  ASSUME NEW id \in Ids, NEW e \in DecodedEvents(id), NEW c, IsCreation(c, e.target)
  PROVE  /\ e.kind \in CurveEvents => c.kind = "create"
         /\ e.kind \in PoolEvents => c.kind = "create pool"
<1>1. c.program = e.program /\ c \in AllEvents /\ c.kind \in Discoveries
  BY EventKinds, ChainAssumption DEF IsCreation
<1>2. e.kind \in CurveEvents => e.program = "pump"
  BY EventKinds DEF CurveEvents, PoolEvents, SwapEvents, SwapTrades, Terminals
<1>3. e.kind \in PoolEvents => e.program = "swap"
  BY EventKinds DEF CurveEvents, PoolEvents, SwapEvents, SwapTrades, Terminals
<1>4. c.program = "pump" => c.kind \in CurveEvents \cup Undecoded
  BY <1>1, ChainAssumption
<1>5. c.program = "swap" => c.kind \in PoolEvents \cup Undecoded
  BY <1>1, ChainAssumption
<1>6. c.kind = "create" \/ c.kind = "create pool"
  BY <1>1 DEF Discoveries
<1>7. c.program = "pump" => c.kind # "create pool"
  BY <1>4 DEF CurveEvents, Undecoded, Terminals
<1>8. c.program = "swap" => c.kind # "create"
  BY <1>5 DEF PoolEvents, SwapEvents, SwapTrades, Undecoded
<1> QED
  BY Zenon, <1>1, <1>2, <1>3, <1>6, <1>7, <1>8

\* market_of returns an entry of the registry if it has one.
LEMMA MarketFound ==
  ASSUME NEW known, NEW x, Known(known, x)
  PROVE  MarketOf(known, x) \in known /\ MarketOf(known, x).market = x
  BY DEF Known, MarketOf

\* Exactly one side of a supported pair is a quote asset.
LEMMA OneQuote ==
  ASSUME NEW b, NEW q, PairIsSupported(b, q)
  PROVE  (b \in QuoteAssets) <=> ~(q \in QuoteAssets)
  BY SMT DEF PairIsSupported

\* Creation and TokenOf choose what the chain says.
LEMMA CreationIs ==
  ASSUME NEW x, NEW c, IsCreation(c, x)
  PROVE  Creation(x) = c
<1>1. \E d \in AllEvents : d.target = x /\ d.kind \in Discoveries
  BY DEF IsCreation
<1>2. IsCreation(Creation(x), x)
  BY <1>1 DEF Creation, IsCreation
<1> QED
  BY <1>2, CreatedOnce

\* The token of a market is the one its creation names.
LEMMA TokenIs ==
  ASSUME NEW x, NEW c, IsCreation(c, x)
  PROVE  /\ c.kind = "create" => TokenOf(x) = x
         /\ c.kind = "create pool" /\ PairIsSupported(c.base, c.quote) =>
               /\ TokenOf(x) = (IF TokenIsBase(c.base, c.quote) THEN c.base ELSE c.quote)
               /\ (TokenOf(x) = c.base) = TokenIsBase(c.base, c.quote)
<1>1. Creation(x) = c /\ c.target = x
  BY CreationIs DEF IsCreation
<1>2. c.kind = "create" => TokenOf(x) = x
  BY <1>1 DEF TokenOf
<1>3. ASSUME c.kind = "create pool", PairIsSupported(c.base, c.quote)
      PROVE  /\ TokenOf(x) = (IF TokenIsBase(c.base, c.quote) THEN c.base ELSE c.quote)
             /\ (TokenOf(x) = c.base) = TokenIsBase(c.base, c.quote)
  <2>1. TokenOf(x) = CHOOSE y \in {c.base, c.quote} : y \notin QuoteAssets
    BY <1>1, <1>3 DEF TokenOf
  <2>2. CASE c.quote \in QuoteAssets
    <3>1. c.base \notin QuoteAssets
      BY <1>3, <2>2, OneQuote
    <3> QED
      BY <2>1, <2>2, <3>1 DEF TokenIsBase
  <2>3. CASE c.quote \notin QuoteAssets
    <3>1. c.base \in QuoteAssets
      BY <1>3, <2>3, OneQuote
    <3> QED
      BY <2>1, <2>3, <3>1 DEF TokenIsBase
  <2> QED
    BY <2>2, <2>3
<1> QED
  BY <1>2, <1>3

\* The market under which an event is normalised.
LEMMA EventMarketRight ==
  ASSUME NEW id \in Ids, NEW e \in DecodedEvents(id), NEW known, \A k \in known : MarketIsRight(k),
         Refused(e, known) = "none",
         e.kind \in Terminals => \E c \in AllEvents : IsCreation(c, e.target)
  PROVE  MarketIsRight(EventMarket(e, known)) /\ EventMarket(e, known).market = e.target
<1> DEFINE m == EventMarket(e, known)
<1>k. /\ e.kind \in CurveEvents \/ e.kind \in PoolEvents
      /\ e \in AllEvents
  BY EventKinds
<1>1. CASE e.kind \in {"create"} \cup Terminals
  <2>1. m = CurveMarket(e)
    BY <1>1 DEF EventMarket, Terminals
  <2>2. m.market = e.target /\ m.venue = "curve" /\ m.tokenIsBase = TRUE /\ m.mint = e.target
    BY <2>1 DEF CurveMarket
  <2>3. PICK c \in AllEvents : IsCreation(c, e.target)
    BY <1>1, <1>k DEF IsCreation, Discoveries
  <2>4. c.kind = "create"
    BY <1>1, <2>3, CreationKind DEF CurveEvents
  <2> HIDE DEF m
  <2> QED
    BY <2>2, <2>3, <2>4 DEF MarketIsRight, m
<1>2. CASE e.kind = "create pool"
  <2>1. m = SwapMarket(e.target, e.base, e.quote)
    BY <1>2 DEF EventMarket, Terminals
  <2>2. /\ m.market = e.target /\ m.venue = "swap" /\ m.tokenIsBase = TokenIsBase(e.base, e.quote)
        /\ m.mint = IF TokenIsBase(e.base, e.quote) THEN e.base ELSE e.quote
    BY <2>1 DEF SwapMarket
  <2>3. PairIsSupported(e.base, e.quote)
    BY <1>2 DEF Refused, SwapTrades, SwapEvents
  <2>4. IsCreation(e, e.target)
    BY <1>2, <1>k DEF IsCreation, Discoveries
  <2> HIDE DEF m
  <2> QED
    BY Zenon, <1>2, <1>k, <2>2, <2>3, <2>4 DEF MarketIsRight, m
<1>3. CASE e.kind \notin {"create", "create pool"} \cup Terminals
  <2>1. m = MarketOf(known, e.target)
    BY <1>3 DEF EventMarket
  <2>2. Known(known, e.target)
    <3>1. e.kind = "trade" \/ e.kind \in SwapEvents
      BY Zenon, <1>3, <1>k DEF CurveEvents, PoolEvents
    <3>2. e.kind # "create pool"
      BY <1>3
    <3> QED
      BY Zenon, <3>1, <3>2 DEF Refused
  <2> QED
    BY <2>1, <2>2, MarketFound
<1> QED
  BY <1>1, <1>2, <1>3

\* What normalize_pump_event copies from the event, and what from the registry.
LEMMA NormalizedReads ==
  ASSUME NEW id, NEW e, NEW received, NEW known
  PROVE  LET f == NormalizePumpEvent(id, e, received, known)
             m == EventMarket(e, known)
         IN  /\ IsFact(f)
             /\ f.key = Coordinate(id, e) /\ f.kind = e.kind /\ f.received = received
             /\ f.market = m.market /\ f.venue = m.venue /\ f.mint = m.mint
             /\ f.side = SideOf(e, m)
             /\ f.baseUnits = (IF m.tokenIsBase THEN e.baseUnits ELSE e.quoteUnits)
             /\ f.quoteUnits = (IF m.tokenIsBase THEN e.quoteUnits ELSE e.baseUnits)
  BY Zenon DEF NormalizePumpEvent, IsFact

\* A normalized event is the fact that the chain recorded, if the registry is right.
LEMMA NormalizedRight ==
  ASSUME NEW id \in Ids, NEW e \in DecodedEvents(id), NEW received \in Nat, NEW known,
         \A k \in known : MarketIsRight(k), Refused(e, known) = "none",
         e.kind \in Terminals => \E c \in AllEvents : IsCreation(c, e.target)
  PROVE  FactIsRight(NormalizePumpEvent(id, e, received, known))
<1> DEFINE f == NormalizePumpEvent(id, e, received, known)
           m == EventMarket(e, known)
<1>1. MarketIsRight(m) /\ m.market = e.target
  BY EventMarketRight
<1>2. /\ IsFact(f)
      /\ f.key = Coordinate(id, e) /\ f.kind = e.kind /\ f.received = received
      /\ f.market = m.market /\ f.venue = m.venue /\ f.mint = m.mint
      /\ f.side = SideOf(e, m)
      /\ f.baseUnits = (IF m.tokenIsBase THEN e.baseUnits ELSE e.quoteUnits)
      /\ f.quoteUnits = (IF m.tokenIsBase THEN e.quoteUnits ELSE e.baseUnits)
  BY NormalizedReads
<1> HIDE DEF f, m
<1>3. PICK c \in AllEvents :
        /\ IsCreation(c, e.target)
        /\ IF c.kind = "create"
           THEN m.venue = "curve" /\ m.tokenIsBase = TRUE /\ m.mint = m.market
           ELSE /\ PairIsSupported(c.base, c.quote)
                /\ m.venue = "swap" /\ m.tokenIsBase = TokenIsBase(c.base, c.quote)
                /\ m.mint = IF TokenIsBase(c.base, c.quote) THEN c.base ELSE c.quote
  BY <1>1 DEF MarketIsRight
<1>k. /\ e.kind \in CurveEvents => c.kind = "create"
      /\ e.kind \in PoolEvents => c.kind = "create pool"
      /\ e.kind \in CurveEvents \/ e.kind \in PoolEvents
      /\ e.kind = "trade" => e.side \in {"buy", "sell"}
  BY <1>3, CreationKind, EventKinds
<1>4. e.kind \in Trades => TradeIsRight(f, e)
  <2>1. CASE e.kind = "trade"
    <3>1. c.kind = "create" /\ f.mint = e.target /\ m.tokenIsBase = TRUE
      BY <1>1, <1>2, <1>3, <1>k, <2>1 DEF CurveEvents
    <3>2. TokenOf(e.target) = e.target
      BY Zenon, <1>3, <3>1, TokenIs
    <3>3. TokenIsSourceBase(e) = TRUE /\ ReceivesBase(e) = (e.side = "buy") /\ f.side = e.side
      BY <1>2, <2>1 DEF TokenIsSourceBase, ReceivesBase, SideOf
    <3> QED
      BY Zenon, <1>2, <1>k, <2>1, <3>1, <3>2, <3>3 DEF TradeIsRight
  <2>2. CASE e.kind \in SwapTrades
    <3>1. c.kind = "create pool" /\ PairIsSupported(c.base, c.quote)
      BY Zenon, <1>3, <1>k, <2>2 DEF PoolEvents, SwapEvents
    <3>c. /\ m.tokenIsBase = TokenIsBase(c.base, c.quote)
          /\ m.mint = IF TokenIsBase(c.base, c.quote) THEN c.base ELSE c.quote
      BY Zenon, <1>3, <3>1
    <3>t. /\ TokenOf(e.target) = (IF TokenIsBase(c.base, c.quote) THEN c.base ELSE c.quote)
          /\ (TokenOf(e.target) = c.base) = TokenIsBase(c.base, c.quote)
      BY Zenon, <1>3, <3>1, TokenIs
    <3>2. TokenOf(e.target) = f.mint /\ (TokenOf(e.target) = c.base) = m.tokenIsBase
      BY Zenon, <1>2, <3>c, <3>t
    <3>3. TokenIsSourceBase(e) = m.tokenIsBase
      BY <1>3, <2>2, <3>2, CreationIs DEF TokenIsSourceBase, SwapTrades
    <3>4. ReceivesBase(e) = (e.kind = "swap buy")
      BY <2>2 DEF ReceivesBase, SwapTrades
    <3>5. m.tokenIsBase \in BOOLEAN
      BY ONLY <3>c DEF TokenIsBase
    <3>6. f.side = IF (e.kind = "swap buy") = m.tokenIsBase THEN "buy" ELSE "sell"
      BY <1>2, <2>2, <3>5 DEF SideOf, SwapTrades
    <3> QED
      BY Zenon, <1>2, <3>2, <3>3, <3>4, <3>5, <3>6 DEF TradeIsRight
  <2> QED
    BY <2>1, <2>2 DEF Trades
<1>5. f.venue = "curve" => f.mint = f.market /\ IsCreation(c, f.market) /\ c.kind = "create"
  BY <1>1, <1>2, <1>3
<1>6. f.kind \in Terminals => f.venue = "curve"
  BY Zenon, <1>2, <1>3, <1>k DEF CurveEvents
<1>7. e \in Range(Transactions[id].logged)
  BY EventKinds DEF IsLogged
<1>8. FactIsRight(f)
  BY <1>1, <1>2, <1>3, <1>4, <1>5, <1>6, <1>7 DEF FactIsRight
<1> QED
  BY <1>8 DEF f

\* An earlier receipt changes nothing else of a fact.
LEMMA EarlierReceipt ==
  ASSUME NEW g, FactIsRight(g), NEW t \in Nat
  PROVE  LET h == [g EXCEPT !.received = t]
         IN  /\ FactIsRight(h) /\ h.received = t
             /\ h.key = g.key /\ h.kind = g.kind /\ h.market = g.market
<1> DEFINE h == [g EXCEPT !.received = t]
<1>1. IsFact(g)
  BY Zenon DEF FactIsRight
<1>2. h = [key |-> g.key, kind |-> g.kind, mint |-> g.mint, venue |-> g.venue, market |-> g.market,
           quote |-> g.quote, side |-> g.side, baseUnits |-> g.baseUnits,
           quoteUnits |-> g.quoteUnits, received |-> t]
  BY SMTT(20), <1>1 DEF IsFact
<1> HIDE DEF h
<1>3. /\ h.key = g.key /\ h.kind = g.kind /\ h.mint = g.mint /\ h.venue = g.venue
      /\ h.market = g.market /\ h.quote = g.quote /\ h.side = g.side
      /\ h.baseUnits = g.baseUnits /\ h.quoteUnits = g.quoteUnits /\ h.received = t
  BY Zenon, <1>2
<1>4. IsFact(h)
  BY Zenon, <1>2, <1>3 DEF IsFact
<1>5. \A e : TradeIsRight(g, e) => TradeIsRight(h, e)
  BY Zenon, <1>3 DEF TradeIsRight
<1>6. FactIsRight(h)
  BY Zenon, <1>3, <1>4, <1>5 DEF FactIsRight
<1> QED
  BY Zenon, <1>3, <1>6 DEF h

\* insert_chain_observation keeps what was stored, stores the new fact, and
\* never makes a receipt later.
LEMMA InsertRight ==
  ASSUME NEW facts, NEW f, NEW opened, \A g \in facts : FactIsRight(g), FactIsRight(f)
  PROVE  LET G == InsertObservation(facts, f, opened)
         IN  /\ \A g \in G : FactIsRight(g)
             /\ \A g \in G : g = f \/ \E h \in facts : h.kind = g.kind /\ h.market = g.market
             /\ \A h \in facts : \E g \in G : g.key = h.key /\ g.received <= h.received
             /\ f.key \in opened \/ \E g \in G : g.key = f.key /\ g.received <= f.received
<1> DEFINE G == InsertObservation(facts, f, opened)
           Keeps(g) == IF g.key = f.key /\ f.received < g.received /\ g.key \notin opened
                       THEN [g EXCEPT !.received = f.received] ELSE g
<1>n. f.received \in Nat /\ \A g \in facts : g.received \in Nat
  BY Zenon DEF FactIsRight
<1>1. CASE ~\E g \in facts : g.key = f.key
  <2>1. G = facts \cup {f}
    BY Zenon, <1>1 DEF InsertObservation
  <2> HIDE DEF G
  <2>2. \A h \in facts \cup {f} : h.received <= h.received
    BY <1>n
  <2>3. \A g \in G : FactIsRight(g) /\ (g = f \/ \E h \in facts : h.kind = g.kind /\ h.market = g.market)
    BY Zenon, <2>1
  <2>4. \A h \in facts : \E g \in G : g.key = h.key /\ g.received <= h.received
    BY Zenon, <2>1, <2>2
  <2>5. \E g \in G : g.key = f.key /\ g.received <= f.received
    BY Zenon, <2>1, <2>2
  <2> QED
    BY Zenon, <2>3, <2>4, <2>5 DEF G
<1>2. CASE \E g \in facts : g.key = f.key
  <2>1. G = {Keeps(g) : g \in facts}
    BY Zenon, <1>2 DEF InsertObservation
  <2>2. ASSUME NEW h \in facts
        PROVE  /\ FactIsRight(Keeps(h)) /\ Keeps(h).key = h.key /\ Keeps(h).kind = h.kind
               /\ Keeps(h).market = h.market /\ Keeps(h).received <= h.received
               /\ h.key = f.key => f.key \in opened \/ Keeps(h).received <= f.received
    <3>1. CASE h.key = f.key /\ f.received < h.received /\ h.key \notin opened
      <4> DEFINE k == [h EXCEPT !.received = f.received]
      <4>1. Keeps(h) = k
        BY Zenon, <3>1
      <4>2. /\ FactIsRight(k) /\ k.received = f.received
            /\ k.key = h.key /\ k.kind = h.kind /\ k.market = h.market
        BY Zenon, <1>n, EarlierReceipt
      <4> HIDE DEF k, Keeps
      <4>3. f.received <= h.received /\ f.received <= f.received
        BY <1>n, <3>1
      <4> QED
        BY Zenon, <4>1, <4>2, <4>3
    <3>2. CASE ~(h.key = f.key /\ f.received < h.received /\ h.key \notin opened)
      <4>1. Keeps(h) = h
        BY Zenon, <3>2
      <4> HIDE DEF Keeps
      <4>2. h.received <= h.received
        BY <1>n
      <4>3. h.key = f.key => f.key \in opened \/ h.received <= f.received
        BY <1>n, <3>2
      <4> QED
        BY Zenon, <4>1, <4>2, <4>3
    <3> QED
      BY Zenon, <3>1, <3>2
  <2> HIDE DEF G, Keeps
  <2>3. \A g \in G : \E h \in facts : g = Keeps(h)
    BY Zenon, <2>1
  <2>4. \A h \in facts : Keeps(h) \in G
    BY Zenon, <2>1
  <2>5. \A g \in G : FactIsRight(g) /\ \E h \in facts : h.kind = g.kind /\ h.market = g.market
    BY Zenon, <2>2, <2>3
  <2>6. \A h \in facts : \E g \in G : g.key = h.key /\ g.received <= h.received
    BY Zenon, <2>2, <2>4
  <2>7. f.key \in opened \/ \E g \in G : g.key = f.key /\ g.received <= f.received
    BY Zenon, <1>2, <2>2, <2>4
  <2> QED
    BY Zenon, <2>5, <2>6, <2>7 DEF G
<1> QED
  BY Zenon, <1>1, <1>2

\* A cancellation touches provisional windows only.
LEMMA CancelledOnly ==
  ASSUME TypeInv, NEW S
  PROVE  /\ Cancelled(S) \in [Targets -> Token]
         /\ \A x \in Targets : Cancelled(S)[x].state = "confirmed" =>
               tokens[x].state = "confirmed" /\ Cancelled(S)[x].opened = tokens[x].opened
<1>1. tokens \in [Targets -> Token]
  BY Zenon DEF TypeInv
<1>2. ASSUME NEW x \in Targets
      PROVE  /\ Cancelled(S)[x] \in Token
             /\ Cancelled(S)[x].state = "confirmed" =>
                   tokens[x].state = "confirmed" /\ Cancelled(S)[x].opened = tokens[x].opened
  <2>1. Cancelled(S)[x] = IF x \in S /\ tokens[x].state = "pending"
                          THEN [tokens[x] EXCEPT !.state = "cancelled"] ELSE tokens[x]
    BY Zenon DEF Cancelled
  <2>2. tokens[x] \in Token
    BY Zenon, <1>1
  <2>3. /\ [tokens[x] EXCEPT !.state = "cancelled"] \in Token
        /\ [tokens[x] EXCEPT !.state = "cancelled"].state = "cancelled"
    BY <2>2 DEF Token
  <2> QED
    BY Zenon, <2>1, <2>2, <2>3
<1> QED
  BY Zenon, <1>2 DEF Cancelled

-----------------------------------------------------------------------------

\* An opening key is there for good.
LEMMA OpenedGrows ==
  ASSUME database.opened \subseteq database'.opened, NEW x, WasOpened(x)
  PROVE  WasOpened(x)'
  BY Zenon DEF WasOpened

\* A discovery whose window was opened is the one that opened it.
LEMMA OpenedBy ==
  ASSUME NEW id \in Ids, NEW e \in DecodedEvents(id), e.kind \in Discoveries, WasOpened(e.target)
  PROVE  Coordinate(id, e) \in database.opened
<1>1. IsLogged(id, e) /\ IsCreation(e, e.target)
  BY Zenon, EventKinds DEF IsCreation
<1>4. PICK i \in Ids : \E c \in Range(Transactions[i].logged) :
        IsCreation(c, e.target) /\ Coordinate(i, c) \in database.opened
  BY Zenon DEF WasOpened
<1>2. PICK c \in Range(Transactions[i].logged) :
        IsCreation(c, e.target) /\ Coordinate(i, c) \in database.opened
  BY Zenon, <1>4
<1>3. c = e /\ i = id
  BY <1>1, <1>2, CreatedOnce DEF IsLogged
<1> QED
  BY Zenon, <1>2, <1>3

\* What was handled stays handled while the tables keep it.
LEMMA HandledKept ==
  ASSUME NEW e, Handled(e), TypeInv, StoreInv, \A f \in database'.facts : FactIsRight(f),
         batch'.id = batch.id, batch'.received = batch.received,
         batch'.complete => batch.complete,
         database.opened \subseteq database'.opened,
         database.quarantined \subseteq database'.quarantined,
         \A h \in database.facts : h.key = Coordinate(batch.id, e) =>
            \E g \in database'.facts : g.key = h.key /\ g.received <= h.received
  PROVE  Handled(e)'
<1> DEFINE k == Coordinate(batch.id, e)
<1>1. CASE k \in database.opened
  BY Zenon, <1>1 DEF Handled, Coordinate
<1>2. ASSUME NEW f \in database.facts, f.key = k, f.received <= batch.received
      PROVE  Handled(e)'
  <2>1. PICK g \in database'.facts : g.key = f.key /\ g.received <= f.received
    BY Zenon, <1>2
  <2>2. g.received \in Nat /\ f.received \in Nat /\ batch.received \in Nat
    BY DEF StoreInv, FactIsRight, TypeInv, Batch
  <2>3. g.received <= batch.received
    BY <1>2, <2>1, <2>2
  <2> QED
    BY Zenon, <1>2, <2>1, <2>3 DEF Handled, Coordinate
<1>3. ASSUME ~batch.complete, NEW q \in database.quarantined,
             q = k \/ q = [k EXCEPT !.instruction = 0, !.event = 0]
      PROVE  Handled(e)'
  BY Zenon, <1>3 DEF Handled, Coordinate
<1> QED
  BY Zenon, <1>1, <1>2, <1>3 DEF Handled

\* While the batch itself does not move, it is enough that no window is confirmed
\* and what is handled stays so.
LEMMA BatchKept ==
  ASSUME TypeInv, BatchInv, UNCHANGED batch,
         \A x \in Targets : tokens'[x].state = "confirmed" =>
            tokens[x].state = "confirmed" /\ tokens'[x].opened = tokens[x].opened,
         batch.status = "running" =>
            \A e \in DecodedEvents(batch.id) :
               Handled(e) /\ IsConfirmedAt(e.target, batch.received) => Handled(e)'
  PROVE  BatchInv'
<1> SUFFICES ASSUME batch.status = "running" PROVE BatchInv'
  BY Zenon DEF BatchInv
<1>1. /\ batch.id \in Ids
      /\ batch.todo \subseteq DecodedEvents(batch.id)
      /\ \A e \in DecodedEvents(batch.id) \ batch.todo :
            /\ e.target \in batch.targets /\ IsConfirmedAt(e.target, batch.received) => Handled(e)
            /\ e.kind \notin Discoveries => \A d \in batch.todo : d.kind \notin Discoveries
  BY Zenon DEF BatchInv
<1>2. ASSUME NEW e \in DecodedEvents(batch.id), e \notin batch.todo,
             e.target \in batch.targets, IsConfirmedAt(e.target, batch.received)'
      PROVE  Handled(e)'
  <2>1. e.target \in Targets
    BY Zenon, <1>1, EventKinds
  <2>2. IsConfirmedAt(e.target, batch.received)
    BY Zenon, <1>2, <2>1 DEF IsConfirmedAt
  <2> QED
    BY Zenon, <1>1, <1>2, <2>2
<1> QED
  BY Zenon, <1>1, <1>2 DEF BatchInv

\* The tables do not move either.
LEMMA HandledSame ==
  ASSUME UNCHANGED <<batch, database>>, NEW e, Handled(e)
  PROVE  Handled(e)'
  BY Zenon DEF Handled, Coordinate

\* Windows: nothing is confirmed, and tables and registry do not move.
LEMMA WindowKept ==
  ASSUME WindowInv, UNCHANGED <<database, registry>>,
         \A x \in Targets : tokens'[x].state = "confirmed" => tokens[x].state = "confirmed"
  PROVE  WindowInv'
  BY Zenon DEF WindowInv, WasOpened, Known

\* What changes neither the database nor the registry keeps what they say.
LEMMA StoreSame ==
  ASSUME StoreInv, UNCHANGED <<database, registry>>
  PROVE  StoreInv'
  BY Zenon DEF StoreInv

\* A notification that provisions a token and spawns a fetch keeps the invariant.
LEMMA FetchKeeps ==
  ASSUME IngestInv, NEW id \in Ids, NEW t \in Receipts, FetchDiscovery(id, t)
  PROVE  IngestInv'
<1> DEFINE new == {x \in Seeds(id) : tokens[x] = NoToken}
           f == [id |-> id, received |-> t, targets |-> new, tracked |-> Tracked(id, t),
                 read |-> FALSE, scoped |-> TRUE]
<1>1. /\ tokens' = [x \in Targets |-> IF x \in new THEN [state |-> "pending", opened |-> t]
                                      ELSE tokens[x]]
      /\ fetches' = fetches \cup {f}
      /\ UNCHANGED <<database, registry, batch>>
  BY Zenon DEF FetchDiscovery
<1>2. t \in Nat
  BY ChainAssumption
<1>3. Seeds(id) \subseteq Targets /\ Activity(id) \subseteq Targets
  BY DEF Seeds, Activity, Targets, AllEvents, DecodedEvents
<1>4. f \in Fetch
  <2>1. new \in SUBSET Targets /\ Tracked(id, t) \in SUBSET Targets
    BY <1>3 DEF Tracked
  <2> HIDE DEF new
  <2> QED
    BY <1>2, <2>1 DEF Fetch
<1>5. [state |-> "pending", opened |-> t] \in Token /\ [state |-> "pending", opened |-> t].state # "confirmed"
  BY <1>2 DEF Token
<1> HIDE DEF f, new
<1>6. TypeInv'
  BY Zenon, <1>1, <1>4, <1>5 DEF IngestInv, TypeInv
<1>7. \A x \in Targets : tokens'[x].state = "confirmed" =>
         tokens[x].state = "confirmed" /\ tokens'[x].opened = tokens[x].opened
  BY Zenon, <1>1, <1>5
<1>8. StoreInv' /\ WindowInv'
  BY Zenon, <1>1, <1>7, StoreSame, WindowKept DEF IngestInv
<1>9. BatchInv'
  BY Zenon, <1>1, <1>7, HandledSame, BatchKept DEF IngestInv
<1> QED
  BY Zenon, <1>6, <1>8, <1>9 DEF IngestInv

\* What is left of a notification is a notification.
LEMMA RemainingIs ==
  ASSUME NEW f \in Fetch
  PROVE  Remaining(f) \subseteq Fetch
  BY DEF Remaining, Fetch

\* A fetch that fails and gives its tokens up keeps the invariant.
LEMMA CancelKeeps ==
  ASSUME IngestInv, NEW f \in fetches, CancelDiscovery(f)
  PROVE  IngestInv'
<1>1. /\ tokens' = Cancelled(f.targets)
      /\ fetches' = (fetches \ {f}) \cup Remaining(f)
      /\ UNCHANGED <<database, registry, batch>>
  BY Zenon DEF CancelDiscovery
<1>2. Remaining(f) \subseteq Fetch
  BY Zenon, RemainingIs DEF IngestInv, TypeInv
<1>3. /\ tokens' \in [Targets -> Token]
      /\ \A x \in Targets : tokens'[x].state = "confirmed" =>
            tokens[x].state = "confirmed" /\ tokens'[x].opened = tokens[x].opened
  BY Zenon, <1>1, CancelledOnly DEF IngestInv
<1>4. TypeInv'
  BY Zenon, <1>1, <1>2, <1>3 DEF IngestInv, TypeInv
<1>5. StoreInv' /\ WindowInv'
  BY Zenon, <1>1, <1>3, StoreSame, WindowKept DEF IngestInv
<1>6. BatchInv'
  BY Zenon, <1>1, <1>3, HandledSame, BatchKept DEF IngestInv
<1> QED
  BY Zenon, <1>4, <1>5, <1>6 DEF IngestInv

\* With broken scopes the events of both programs are set aside.
LEMMA UnscopedAside ==
  ASSUME NEW id \in Ids, NEW e \in DecodedEvents(id), NEW copies
  PROVE  /\ [Coordinate(id, e) EXCEPT !.instruction = 0, !.event = 0]
               \in DecodeQuarantines(id, copies, FALSE)
<1>1. e.program \in {"pump", "swap"}
  BY Zenon, EventKinds
<1> DEFINE P(p) == [program |-> p, id |-> id, instruction |-> 0, event |-> 0]
<1>2. [Coordinate(id, e) EXCEPT !.instruction = 0, !.event = 0] = P(e.program)
  <2>1. ASSUME NEW a, NEW b, NEW c, NEW d
        PROVE  [[program |-> a, id |-> b, instruction |-> c, event |-> d] EXCEPT !.instruction = 0]
                  = [program |-> a, id |-> b, instruction |-> 0, event |-> d]
    BY ONLY SMT
  <2>3. [Coordinate(id, e) EXCEPT !.instruction = 0]
          = [program |-> e.program, id |-> id, instruction |-> 0, event |-> e.event]
    BY Zenon, <2>1 DEF Coordinate
  <2>4. ASSUME NEW r, r = [program |-> e.program, id |-> id, instruction |-> 0, event |-> e.event]
        PROVE  [r EXCEPT !.event = 0] = P(e.program)
    BY ONLY <2>4, SMT
  <2>5. ASSUME NEW r
        PROVE  [r EXCEPT !.instruction = 0, !.event = 0]
                  = [[r EXCEPT !.instruction = 0] EXCEPT !.event = 0]
    OBVIOUS
  <2> QED
    BY Zenon, <2>3, <2>4, <2>5
<1>3. P("pump") \in DecodeQuarantines(id, copies, FALSE) /\ P("swap") \in DecodeQuarantines(id, copies, FALSE)
  BY Zenon DEF DecodeQuarantines
<1> HIDE DEF P
<1> QED
  BY Zenon, <1>1, <1>2, <1>3

\* decode_batch_events: what it sets aside makes the batch incomplete.
LEMMA StartKeeps ==
  ASSUME IngestInv, NEW id \in Ids, NEW purpose \in {"discovery", "activity"}, NEW t \in Nat,
         NEW targets \in SUBSET Targets, NEW copies, NEW scoped \in BOOLEAN,
         StartBatch(id, purpose, t, targets, copies, scoped), fetches' \subseteq Fetch
  PROVE  IngestInv'
<1> DEFINE aside == DecodeQuarantines(id, copies, scoped)
           todo == IF scoped THEN DecodedEvents(id) ELSE {}
<1>1. /\ batch' = [status |-> "running", id |-> id, purpose |-> purpose, received |-> t,
                   targets |-> targets, selected |-> {}, complete |-> aside = {}, todo |-> todo]
      /\ database' = [database EXCEPT !.quarantined = @ \cup aside]
      /\ UNCHANGED <<registry, tokens>>
  BY Zenon DEF StartBatch
<1>2. todo \subseteq AllEvents /\ todo \subseteq DecodedEvents(id)
  BY Zenon, EventKinds
<1>3. scoped => todo = DecodedEvents(id)
  BY Zenon
<1>4. ~scoped => \A e \in DecodedEvents(id) :
         [Coordinate(id, e) EXCEPT !.instruction = 0, !.event = 0] \in aside
  BY Zenon, UnscopedAside
<1> HIDE DEF aside, todo
<1>5. database' = [facts |-> database.facts, quarantined |-> database.quarantined \cup aside,
                   pools |-> database.pools, opened |-> database.opened,
                   rows |-> database.rows, projected |-> database.projected]
  <2>1. PICK f, q, p, o, r, j :
           /\ f = database.facts /\ q = database.quarantined /\ p = database.pools
           /\ o = database.opened /\ r = database.rows /\ j = database.projected
           /\ database = [facts |-> f, quarantined |-> q, pools |-> p, opened |-> o,
                          rows |-> r, projected |-> j]
    BY Zenon DEF IngestInv, TypeInv, IsDatabase
  <2>2. [[facts |-> f, quarantined |-> q, pools |-> p, opened |-> o, rows |-> r, projected |-> j]
           EXCEPT !.quarantined = @ \cup aside]
        = [facts |-> f, quarantined |-> q \cup aside, pools |-> p, opened |-> o,
           rows |-> r, projected |-> j]
    BY ONLY SMT
  <2> QED
    BY Zenon, <1>1, <2>1, <2>2
<1>6. /\ database'.facts = database.facts /\ database'.quarantined = database.quarantined \cup aside
      /\ database'.pools = database.pools /\ database'.opened = database.opened
      /\ database'.rows = database.rows /\ database'.projected = database.projected
  BY Zenon, <1>5
<1>7. batch' \in Batch
  BY <1>1, <1>2 DEF Batch
<1>8. IsDatabase(database)'
  BY Zenon, <1>5, <1>6 DEF IsDatabase
<1>9. TypeInv'
  BY Zenon, <1>1, <1>7, <1>8 DEF IngestInv, TypeInv
<1>10. StoreInv' /\ WindowInv'
  BY Zenon, <1>1, <1>6 DEF IngestInv, StoreInv, WindowInv, WasOpened, Known
<1>11. BatchInv'
  <2>1. /\ batch'.status = "running" /\ batch'.id = id /\ batch'.todo = todo
        /\ batch'.complete = (aside = {})
    BY Zenon, <1>1
  <2>2. ASSUME NEW e \in DecodedEvents(id), e \notin todo
        PROVE  Handled(e)' /\ todo = {}
    <3>1. todo = {} /\ [Coordinate(id, e) EXCEPT !.instruction = 0, !.event = 0] \in aside
      BY Zenon, <1>3, <1>4, <2>2 DEF todo
    <3>2. ~batch'.complete
      BY Zenon, <2>1, <3>1
    <3> QED
      BY Zenon, <1>6, <2>1, <3>1, <3>2 DEF Handled, Coordinate
  <2> QED
    BY Zenon, <1>2, <2>1, <2>2 DEF BatchInv
<1> QED
  BY Zenon, <1>9, <1>10, <1>11 DEF IngestInv

\* So does a transaction that a fetch delivers,
LEMMA ReceiveKeeps ==
  ASSUME IngestInv, NEW f \in fetches, ReceiveDiscovery(f) \/ ReceiveTracked(f)
  PROVE  IngestInv'
<1>1. f \in Fetch /\ fetches \subseteq Fetch
  BY Zenon DEF IngestInv, TypeInv
<1>2. /\ f.id \in Ids /\ f.received \in Nat /\ f.targets \in SUBSET Targets
      /\ f.tracked \in SUBSET Targets /\ f.scoped \in BOOLEAN
  BY <1>1 DEF Fetch
<1>3. CASE ReceiveDiscovery(f)
  <2>1. PICK scoped \in BOOLEAN :
          /\ StartBatch(f.id, "discovery", f.received, f.targets, Transactions[f.id].copies, scoped)
          /\ fetches' = (fetches \ {f}) \cup
                        Remaining([f EXCEPT !.read = TRUE, !.scoped = scoped])
    BY Zenon, <1>3 DEF ReceiveDiscovery
  <2>2. [f EXCEPT !.read = TRUE, !.scoped = scoped] \in Fetch
    BY <1>1 DEF Fetch
  <2>3. fetches' \subseteq Fetch
    BY Zenon, <1>1, <2>1, <2>2, RemainingIs
  <2> QED
    BY Zenon, <1>2, <2>1, <2>3, StartKeeps
<1>4. CASE ReceiveTracked(f)
  <2>1. /\ StartBatch(f.id, "activity", f.received, f.tracked,
                      IF f.read THEN Transactions[f.id].copies ELSE <<>>, f.scoped)
        /\ fetches' \subseteq Fetch
    BY Zenon, <1>1, <1>4 DEF ReceiveTracked
  <2> QED
    BY Zenon, <1>2, <2>1, StartKeeps
<1> QED
  BY Zenon, <1>3, <1>4

\* and one that the activity stream delivers.
LEMMA ActivityKeeps ==
  ASSUME IngestInv, NEW id \in Ids, NEW t \in Receipts, ReceiveActivity(id, t)
  PROVE  IngestInv'
<1>1. t \in Nat
  BY ChainAssumption
<1>2. Tracked(id, t) \in SUBSET Targets
  BY DEF Tracked, Activity, Targets, AllEvents, DecodedEvents
<1>3. StartBatch(id, "activity", t, Tracked(id, t), <<>>, TRUE) /\ fetches' \subseteq Fetch
  BY Zenon DEF ReceiveActivity, IngestInv, TypeInv
<1> QED
  BY Zenon, <1>1, <1>2, <1>3, StartKeeps

\* No batch is at work.
LEMMA IdleBatch ==
  /\ Idle \in Batch /\ Idle.status = "idle"
  BY DEF Idle, Batch

\* The end of a batch keeps the invariant: what it provisioned and did not confirm is cancelled.
LEMMA FinishKeeps ==
  ASSUME IngestInv, FinishBatch
  PROVE  IngestInv'
<1>1. /\ tokens' = IF batch.purpose = "discovery" THEN Cancelled(batch.targets) ELSE tokens
      /\ batch' = Idle
      /\ UNCHANGED <<database, registry, fetches>>
  BY Zenon DEF FinishBatch
<1>2. tokens \in [Targets -> Token]
  BY Zenon DEF IngestInv, TypeInv
<1>3. /\ tokens' \in [Targets -> Token]
      /\ \A x \in Targets : tokens'[x].state = "confirmed" => tokens[x].state = "confirmed"
  BY Zenon, <1>1, <1>2, CancelledOnly DEF IngestInv
<1>4. TypeInv'
  BY Zenon, <1>1, <1>3, IdleBatch DEF IngestInv, TypeInv
<1>5. StoreInv' /\ WindowInv'
  BY Zenon, <1>1, <1>3, StoreSame, WindowKept DEF IngestInv
<1>6. BatchInv'
  BY Zenon, <1>1, IdleBatch DEF BatchInv
<1> QED
  BY Zenon, <1>4, <1>5, <1>6 DEF IngestInv

\* A table is written and the others are not.
LEMMA Written ==
  ASSUME NEW d, IsDatabase(d), NEW v
  PROVE  /\ [d EXCEPT !.facts = v] =
               [facts |-> v, quarantined |-> d.quarantined, pools |-> d.pools, opened |-> d.opened, rows |-> d.rows, projected |-> d.projected]
         /\ [d EXCEPT !.quarantined = v] =
               [facts |-> d.facts, quarantined |-> v, pools |-> d.pools, opened |-> d.opened, rows |-> d.rows, projected |-> d.projected]
         /\ [d EXCEPT !.pools = v] =
               [facts |-> d.facts, quarantined |-> d.quarantined, pools |-> v, opened |-> d.opened, rows |-> d.rows, projected |-> d.projected]
         /\ [d EXCEPT !.opened = v] =
               [facts |-> d.facts, quarantined |-> d.quarantined, pools |-> d.pools, opened |-> v, rows |-> d.rows, projected |-> d.projected]
         /\ [d EXCEPT !.rows = v] =
               [facts |-> d.facts, quarantined |-> d.quarantined, pools |-> d.pools, opened |-> d.opened, rows |-> v, projected |-> d.projected]
         /\ [d EXCEPT !.projected = v] =
               [facts |-> d.facts, quarantined |-> d.quarantined, pools |-> d.pools, opened |-> d.opened, rows |-> d.rows, projected |-> v]
<1>1. [d EXCEPT !.facts = v] =
        [facts |-> v, quarantined |-> d.quarantined, pools |-> d.pools, opened |-> d.opened, rows |-> d.rows, projected |-> d.projected]
  BY SMTT(20) DEF IsDatabase
<1>2. [d EXCEPT !.quarantined = v] =
        [facts |-> d.facts, quarantined |-> v, pools |-> d.pools, opened |-> d.opened, rows |-> d.rows, projected |-> d.projected]
  BY SMTT(20) DEF IsDatabase
<1>3. [d EXCEPT !.pools = v] =
        [facts |-> d.facts, quarantined |-> d.quarantined, pools |-> v, opened |-> d.opened, rows |-> d.rows, projected |-> d.projected]
  BY SMTT(20) DEF IsDatabase
<1>4. [d EXCEPT !.opened = v] =
        [facts |-> d.facts, quarantined |-> d.quarantined, pools |-> d.pools, opened |-> v, rows |-> d.rows, projected |-> d.projected]
  BY SMTT(20) DEF IsDatabase
<1>5. [d EXCEPT !.rows = v] =
        [facts |-> d.facts, quarantined |-> d.quarantined, pools |-> d.pools, opened |-> d.opened, rows |-> v, projected |-> d.projected]
  BY SMTT(20) DEF IsDatabase
<1>6. [d EXCEPT !.projected = v] =
        [facts |-> d.facts, quarantined |-> d.quarantined, pools |-> d.pools, opened |-> d.opened, rows |-> d.rows, projected |-> v]
  BY SMTT(20) DEF IsDatabase
<1> QED
  BY Zenon, <1>1, <1>2, <1>3, <1>4, <1>5, <1>6

\* The worker writes rows that are facts.
LEMMA ProjectKeeps ==
  ASSUME IngestInv, NEW f \in database.facts, ProjectFact(f)
  PROVE  IngestInv'
<1> DEFINE rows == IF \E r \in database.rows : r.mint = f.mint /\ r.key.id > f.key.id
                   THEN database.rows
                   ELSE {r \in database.rows : r.mint # f.mint} \cup {f}
<1>1. /\ database' = [database EXCEPT !.projected = @ \cup {f.key}, !.rows = rows]
      /\ UNCHANGED <<registry, tokens, fetches, batch>>
  BY Zenon DEF ProjectFact
<1>2. rows \subseteq database.rows \cup {f}
  BY Zenon
<1> HIDE DEF rows
<1>3. database' = [facts |-> database.facts, quarantined |-> database.quarantined,
                   pools |-> database.pools, opened |-> database.opened,
                   rows |-> rows, projected |-> database.projected \cup {f.key}]
  <2> DEFINE d == [database EXCEPT !.projected = database.projected \cup {f.key}]
  <2>1. database' = [d EXCEPT !.rows = rows]
    BY Zenon, <1>1
  <2>2. d = [facts |-> database.facts, quarantined |-> database.quarantined,
             pools |-> database.pools, opened |-> database.opened,
             rows |-> database.rows, projected |-> database.projected \cup {f.key}]
    BY Zenon, Written DEF IngestInv, TypeInv
  <2> HIDE DEF d
  <2>3. /\ d.facts = database.facts /\ d.quarantined = database.quarantined
        /\ d.pools = database.pools /\ d.opened = database.opened
        /\ d.rows = database.rows /\ d.projected = database.projected \cup {f.key}
    BY Zenon, <2>2
  <2>4. IsDatabase(d)
    BY Zenon, <2>2, <2>3 DEF IsDatabase
  <2>5. [d EXCEPT !.rows = rows] = [facts |-> d.facts, quarantined |-> d.quarantined,
             pools |-> d.pools, opened |-> d.opened, rows |-> rows, projected |-> d.projected]
    BY Zenon, <2>4, Written
  <2> QED
    BY Zenon, <2>1, <2>3, <2>5
<1>4. /\ database'.facts = database.facts /\ database'.quarantined = database.quarantined
      /\ database'.pools = database.pools /\ database'.opened = database.opened
      /\ database'.rows = rows /\ database'.projected = database.projected \cup {f.key}
  BY Zenon, <1>3
<1>5. TypeInv'
  BY Zenon, <1>1, <1>3, <1>4 DEF IngestInv, TypeInv, IsDatabase
<1>r. \A r \in database'.facts \cup database'.rows : r \in database.facts \cup database.rows
  BY Zenon, <1>2, <1>4
<1>6. StoreInv'
  BY Zenon, <1>1, <1>r, <1>4 DEF IngestInv, StoreInv
<1>7. WindowInv'
  BY Zenon, <1>1, <1>4 DEF IngestInv, WindowInv, WasOpened, Known
<1>8. \A e : Handled(e) => Handled(e)'
  BY Zenon, <1>1, <1>4 DEF Handled, Coordinate
<1>9. BatchInv'
  BY Zenon, <1>1, <1>8, BatchKept DEF IngestInv
<1> QED
  BY Zenon, <1>5, <1>6, <1>7, <1>9 DEF IngestInv

\* The facts of a confirmed window are not pruned.
LEMMA PruneKeeps ==
  ASSUME IngestInv, NEW f \in database.facts, PruneFact(f)
  PROVE  IngestInv'
<1>1. /\ \A x \in Targets : tokens[x].state = "confirmed" => f.market # x
      /\ database' = [database EXCEPT !.facts = @ \ {f}]
      /\ UNCHANGED <<registry, tokens, fetches, batch>>
  BY Zenon DEF PruneFact
<1>2. database' = [facts |-> database.facts \ {f}, quarantined |-> database.quarantined,
                   pools |-> database.pools, opened |-> database.opened,
                   rows |-> database.rows, projected |-> database.projected]
  BY SMTT(20), <1>1 DEF IngestInv, TypeInv, IsDatabase
<1>3. /\ database'.facts = database.facts \ {f} /\ database'.quarantined = database.quarantined
      /\ database'.pools = database.pools /\ database'.opened = database.opened
      /\ database'.rows = database.rows /\ database'.projected = database.projected
  BY Zenon, <1>2
<1>4. TypeInv'
  BY Zenon, <1>1, <1>2, <1>3 DEF IngestInv, TypeInv, IsDatabase
<1>5. StoreInv'
  BY Zenon, <1>1, <1>3 DEF IngestInv, StoreInv
<1>6. WindowInv'
  BY Zenon, <1>1, <1>3 DEF IngestInv, WindowInv, WasOpened, Known
<1>7. ASSUME batch.status = "running", NEW e \in DecodedEvents(batch.id), Handled(e),
             IsConfirmedAt(e.target, batch.received)
      PROVE  Handled(e)'
  <2>1. batch.id \in Ids
    BY Zenon, <1>7 DEF IngestInv, BatchInv
  <2>2. IsLogged(batch.id, e) /\ e.target \in Targets
    BY Zenon, <2>1, EventKinds
  <2>3. f.key # Coordinate(batch.id, e)
    <3> SUFFICES ASSUME f.key = Coordinate(batch.id, e) PROVE f.market = e.target
      BY Zenon, <1>1, <1>7, <2>2 DEF IsConfirmedAt
    <3>1. PICK id \in Ids : \E d \in Range(Transactions[id].logged) :
            f.key = Coordinate(id, d) /\ f.market = d.target
      BY Zenon DEF IngestInv, StoreInv, FactIsRight
    <3>2. PICK d \in Range(Transactions[id].logged) : f.key = Coordinate(id, d) /\ f.market = d.target
      BY Zenon, <3>1
    <3>3. id = batch.id
      <4>1. Coordinate(id, d).id = id /\ Coordinate(batch.id, e).id = batch.id
        BY DEF Coordinate
      <4> QED
        BY Zenon, <3>2, <4>1
    <3>4. d = e
      BY Zenon, <2>2, <3>2, <3>3, ChainAssumption DEF IsLogged
    <3> QED
      BY Zenon, <3>2, <3>4
  <2>4. \A h \in database.facts : h.key = Coordinate(batch.id, e) => h \in database'.facts
    BY Zenon, <1>3, <2>3
  <2> QED
    BY Zenon, <1>1, <1>3, <1>7, <2>4 DEF Handled, Coordinate
<1>8. BatchInv'
  BY Zenon, <1>1, <1>7, BatchKept DEF IngestInv
<1> QED
  BY Zenon, <1>4, <1>5, <1>6, <1>8 DEF IngestInv

\* hydrate_market_registry: the markets are what the creations said, and no curve
\* whose end is stored is among them.
LEMMA HydratedRight ==
  ASSUME IngestInv, NEW k \in HydrateMarketRegistry(database)
  PROVE  /\ MarketIsRight(k)
         /\ \A f \in database.facts : f.kind \in Terminals => f.market # k.market
<1>s. /\ \A f \in database.facts \cup database.rows : FactIsRight(f)
      /\ \A p \in database.pools : PoolIsRight(p)
  BY Zenon DEF IngestInv, StoreInv
<1>f. ASSUME NEW f \in database.facts, f.kind \in Terminals
      PROVE  f.mint = f.market /\ \E c \in AllEvents : IsCreation(c, f.market) /\ c.kind = "create"
  BY Zenon, <1>s, <1>f DEF FactIsRight
<1>1. ASSUME NEW r \in database.rows, r.venue = "curve",
             ~\E f \in database.facts : f.mint = r.mint /\ f.kind \in Terminals,
             k = [market |-> r.market, venue |-> "curve", tokenIsBase |-> TRUE,
                  mint |-> r.mint, quote |-> r.quote]
      PROVE  /\ MarketIsRight(k)
             /\ \A f \in database.facts : f.kind \in Terminals => f.market # k.market
  <2>1. k.market = r.market /\ k.venue = "curve" /\ k.tokenIsBase = TRUE /\ k.mint = r.mint
    BY Zenon, <1>1
  <2>2. r.mint = r.market /\ \E c \in AllEvents : IsCreation(c, r.market) /\ c.kind = "create"
    BY Zenon, <1>s, <1>1 DEF FactIsRight
  <2>3. MarketIsRight(k)
    BY Zenon, <2>1, <2>2 DEF MarketIsRight
  <2> QED
    BY Zenon, <1>f, <1>1, <2>1, <2>2, <2>3
<1>2. ASSUME NEW p \in database.pools, PairIsSupported(p.base, p.quote),
             k = SwapMarket(p.pool, p.base, p.quote)
      PROVE  /\ MarketIsRight(k)
             /\ \A f \in database.facts : f.kind \in Terminals => f.market # k.market
  <2>1. /\ k.market = p.pool /\ k.venue = "swap" /\ k.tokenIsBase = TokenIsBase(p.base, p.quote)
        /\ k.mint = IF TokenIsBase(p.base, p.quote) THEN p.base ELSE p.quote
    BY Zenon, <1>2 DEF SwapMarket
  <2>2. PICK c \in AllEvents : /\ IsCreation(c, p.pool) /\ c.kind = "create pool"
                               /\ c.base = p.base /\ c.quote = p.quote
    BY Zenon, <1>s DEF PoolIsRight
  <2>3. MarketIsRight(k)
    <3>1. c.kind # "create"
      BY Zenon, <2>2
    <3> QED
      BY Zenon, <1>2, <2>1, <2>2, <3>1 DEF MarketIsRight
  <2>4. ASSUME NEW f \in database.facts, f.kind \in Terminals, f.market = k.market
        PROVE  FALSE
    <3>1. PICK d \in AllEvents : IsCreation(d, f.market) /\ d.kind = "create"
      BY Zenon, <1>f, <2>4
    <3>2. d = c
      BY Zenon, <2>1, <2>2, <2>4, <3>1, CreatedOnce
    <3> QED
      BY Zenon, <2>2, <3>1, <3>2
  <2> QED
    BY Zenon, <2>3, <2>4
<1> QED
  <2>1. \/ \E r \in database.rows :
             /\ r.venue = "curve"
             /\ ~\E f \in database.facts : f.mint = r.mint /\ f.kind \in Terminals
             /\ k = [market |-> r.market, venue |-> "curve", tokenIsBase |-> TRUE,
                     mint |-> r.mint, quote |-> r.quote]
        \/ \E p \in database.pools :
             PairIsSupported(p.base, p.quote) /\ k = SwapMarket(p.pool, p.base, p.quote)
    BY Zenon DEF HydrateMarketRegistry
  <2> QED
    BY Zenon, <1>1, <1>2, <2>1

\* A restart keeps it: the registry is hydrated from what is durable.
LEMMA RestartKeeps ==
  ASSUME IngestInv, Restart
  PROVE  IngestInv'
<1>1. /\ registry' = HydrateMarketRegistry(database)
      /\ tokens' = NoTokens /\ fetches' = {} /\ batch' = Idle
      /\ UNCHANGED database
  BY Zenon DEF Restart
<1>2. NoToken \in Token /\ NoToken.state # "confirmed"
  BY DEF NoToken, Token
<1>3. /\ tokens' \in [Targets -> Token]
      /\ \A x \in Targets : tokens'[x].state # "confirmed"
  BY Zenon, <1>1, <1>2 DEF NoTokens
<1>4. TypeInv'
  BY Zenon, <1>1, <1>3, IdleBatch DEF IngestInv, TypeInv
<1>5. StoreInv'
  BY Zenon, <1>1, HydratedRight DEF IngestInv, StoreInv
<1>6. \A f \in database.facts : f.kind \in Terminals => ~Known(registry, f.market)'
  BY Zenon, <1>1, HydratedRight DEF Known
<1>7. WindowInv'
  BY Zenon, <1>1, <1>3, <1>6 DEF IngestInv, WindowInv, WasOpened
<1>8. BatchInv'
  BY Zenon, <1>1, IdleBatch DEF BatchInv
<1> QED
  BY Zenon, <1>4, <1>5, <1>7, <1>8 DEF IngestInv

-----------------------------------------------------------------------------
(* process_batch, one event after the other.                               *)

\* An event is done and the batch goes on.  Discoveries come first, so what makes
\* a window confirmed finds no earlier event about it.
LEMMA EventDone ==
  ASSUME IngestInv, batch.status = "running", NEW e \in batch.todo, RankedFirst(e, batch.todo),
         batch'.id = batch.id, batch'.received = batch.received, batch'.targets = batch.targets,
         batch'.todo = batch.todo \ {e},
         \A x \in Targets : tokens'[x].state = "confirmed" =>
            \/ tokens[x].state = "confirmed" /\ tokens'[x].opened = tokens[x].opened
            \/ e.kind \in Discoveries /\ x = e.target,
         \A d \in DecodedEvents(batch.id) : Handled(d) => Handled(d)',
         e.target \in batch.targets /\ IsConfirmedAt(e.target, batch.received)' => Handled(e)'
  PROVE  BatchInv'
<1>1. /\ batch.id \in Ids
      /\ batch.todo \subseteq DecodedEvents(batch.id)
      /\ \A d \in DecodedEvents(batch.id) \ batch.todo :
            /\ d.target \in batch.targets /\ IsConfirmedAt(d.target, batch.received) => Handled(d)
            /\ d.kind \notin Discoveries => \A b \in batch.todo : b.kind \notin Discoveries
  BY Zenon DEF IngestInv, BatchInv
<1>2. ASSUME NEW d \in DecodedEvents(batch.id), d \notin batch.todo, d.target \in batch.targets,
             IsConfirmedAt(d.target, batch.received)'
      PROVE  Handled(d)'
  <2>1. d.target \in Targets
    BY Zenon, <1>1, EventKinds
  <2>2. CASE tokens[d.target].state = "confirmed" /\ tokens'[d.target].opened = tokens[d.target].opened
    BY Zenon, <1>1, <1>2, <2>2 DEF IsConfirmedAt
  <2>3. CASE e.kind \in Discoveries /\ d.target = e.target
    <3>1. d.kind \in Discoveries
      BY Zenon, <1>1, <1>2, <2>3
    <3>2. IsCreation(d, e.target) /\ IsCreation(e, e.target)
      BY Zenon, <1>1, <2>3, <3>1, EventKinds DEF IsCreation
    <3> QED
      BY Zenon, <1>2, <3>2, CreatedOnce
  <2> QED
    BY Zenon, <1>2, <2>1, <2>2, <2>3 DEF IsConfirmedAt
<1>3. ASSUME e.kind \notin Discoveries, NEW d \in batch.todo
      PROVE  d.kind \notin Discoveries
  <2> SUFFICES ASSUME d.kind \in Discoveries PROVE FALSE
    OBVIOUS
  <2>1. Rank(d)[1] = 0 /\ Rank(e)[1] = 1
    BY <1>3 DEF Rank
  <2>2. RankedBefore(d, e)
    <3>1. 1 \in 1..4 /\ Rank(d)[1] < Rank(e)[1] /\ 1..(1 - 1) = {}
      BY <2>1
    <3> HIDE DEF Rank
    <3> QED
      BY Zenon, <3>1 DEF RankedBefore
  <2> QED
    BY Zenon, <2>2 DEF RankedFirst
<1> QED
  <2>1. batch'.todo \subseteq DecodedEvents(batch.id)
    BY Zenon, <1>1
  <2>2. ASSUME NEW d \in DecodedEvents(batch.id), d \notin batch'.todo
        PROVE  /\ d.target \in batch.targets /\ IsConfirmedAt(d.target, batch.received)' => Handled(d)'
               /\ d.kind \notin Discoveries => \A b \in batch'.todo : b.kind \notin Discoveries
    BY Zenon, <1>1, <1>2, <1>3, <2>2
  <2> QED
    BY Zenon, <1>1, <2>1, <2>2 DEF BatchInv

\* What Advance and FailBatch write.
LEMMA AdvanceWrites ==
  ASSUME TypeInv, NEW e \in AllEvents, NEW c \in BOOLEAN, Advance(e, c)
  PROVE  /\ batch' \in Batch /\ batch'.status = batch.status /\ batch'.id = batch.id
         /\ batch'.received = batch.received /\ batch'.targets = batch.targets
         /\ batch'.todo = batch.todo \ {e} /\ batch'.complete = (batch.complete /\ c)
<1>1. batch \in Batch
  BY Zenon DEF TypeInv
<1>2. batch' = [batch EXCEPT !.todo = batch.todo \ {e}, !.selected = batch.selected \cup {e},
                            !.complete = batch.complete /\ c]
  BY Zenon DEF Advance
<1>3. /\ batch.todo \in SUBSET AllEvents /\ batch.selected \in SUBSET AllEvents
      /\ batch.complete \in BOOLEAN
  BY Zenon, <1>1 DEF Batch
<1> DEFINE todo == batch.todo \ {e}
           selected == batch.selected \cup {e}
           complete == batch.complete /\ c
<1>4. todo \in SUBSET AllEvents /\ selected \in SUBSET AllEvents /\ complete \in BOOLEAN
  BY Zenon, <1>3
<1> HIDE DEF todo, selected, complete
<1>5. batch' = [batch EXCEPT !.todo = todo, !.selected = selected, !.complete = complete]
  BY Zenon, <1>2 DEF todo, selected, complete
<1>6. /\ batch' \in Batch /\ batch'.status = batch.status /\ batch'.id = batch.id
      /\ batch'.received = batch.received /\ batch'.targets = batch.targets
      /\ batch'.todo = todo /\ batch'.complete = complete
  BY <1>1, <1>4, <1>5 DEF Batch
<1> QED
  BY Zenon, <1>6 DEF todo, complete

\* A batch that fails has done with its events.
LEMMA FailWrites ==
  ASSUME TypeInv, FailBatch
  PROVE  batch' \in Batch /\ batch'.status = "failed"
<1>1. batch \in Batch
  BY Zenon DEF TypeInv
<1> QED
  BY <1>1 DEF FailBatch, Batch

\* An event that the batch does not select is passed over.
LEMMA SkipKeeps ==
  ASSUME IngestInv, batch.status = "running", NEW e \in batch.todo, RankedFirst(e, batch.todo),
         SkipEvent(e), UNCHANGED fetches
  PROVE  IngestInv'
<1>1. /\ ~BatchSelects(e)
      /\ batch' = [batch EXCEPT !.todo = batch.todo \ {e}]
      /\ UNCHANGED <<database, registry, tokens>>
  BY Zenon DEF SkipEvent
<1>2. batch \in Batch
  BY Zenon DEF IngestInv, TypeInv
<1>3. /\ batch' \in Batch /\ batch'.status = batch.status /\ batch'.id = batch.id
      /\ batch'.received = batch.received /\ batch'.targets = batch.targets
      /\ batch'.todo = batch.todo \ {e} /\ batch'.complete = batch.complete
  <2>1. batch.todo \ {e} \in SUBSET AllEvents
    BY Zenon, <1>2 DEF Batch
  <2> QED
    BY <1>1, <1>2, <2>1 DEF Batch
<1>4. TypeInv'
  BY Zenon, <1>1, <1>3 DEF IngestInv, TypeInv
<1>5. StoreInv' /\ WindowInv'
  BY Zenon, <1>1, StoreSame, WindowKept DEF IngestInv
<1>6. \A d : Handled(d) => Handled(d)'
  BY Zenon, <1>1, <1>3 DEF Handled, Coordinate
<1>7. batch.id \in Ids /\ e \in DecodedEvents(batch.id)
  BY Zenon DEF IngestInv, BatchInv
<1>8. ASSUME e.target \in batch.targets, IsConfirmedAt(e.target, batch.received)'
      PROVE  Handled(e)'
  <2>1. IsConfirmedAt(e.target, batch.received)
    BY Zenon, <1>1, <1>3, <1>8 DEF IsConfirmedAt
  <2>2. e.kind \in Discoveries
    BY Zenon, <1>1, <1>8, <2>1 DEF BatchSelects
  <2>3. WasOpened(e.target)
    BY Zenon, <1>7, <2>1, EventKinds DEF IngestInv, WindowInv, IsConfirmedAt
  <2>4. Coordinate(batch.id, e) \in database.opened
    BY Zenon, <1>7, <2>2, <2>3, OpenedBy
  <2> QED
    BY Zenon, <1>6, <2>4 DEF Handled
<1>9. BatchInv'
  BY Zenon, <1>1, <1>3, <1>6, <1>8, EventDone
<1> QED
  BY Zenon, <1>4, <1>5, <1>9 DEF IngestInv

\* An event that is refused is put into quarantine.
LEMMA QuarantineKeeps ==
  ASSUME IngestInv, batch.status = "running", NEW e \in batch.todo, RankedFirst(e, batch.todo),
         QuarantineEvent(e), UNCHANGED fetches
  PROVE  IngestInv'
<1> DEFINE k == Coordinate(batch.id, e)
<1>1. /\ database' = [database EXCEPT !.quarantined = database.quarantined \cup {k}]
      /\ Advance(e, FALSE)
      /\ UNCHANGED <<registry, tokens>>
  BY Zenon DEF QuarantineEvent
<1>2. /\ batch' \in Batch /\ batch'.status = batch.status /\ batch'.id = batch.id
      /\ batch'.received = batch.received /\ batch'.targets = batch.targets
      /\ batch'.todo = batch.todo \ {e} /\ batch'.complete = FALSE
  <2>1. e \in AllEvents /\ TypeInv
    BY Zenon DEF IngestInv, TypeInv, Batch
  <2> QED
    BY Zenon, <1>1, <2>1, AdvanceWrites
<1> HIDE DEF k
<1>3. database' = [facts |-> database.facts, quarantined |-> database.quarantined \cup {k},
                   pools |-> database.pools, opened |-> database.opened,
                   rows |-> database.rows, projected |-> database.projected]
  BY Zenon, <1>1, Written DEF IngestInv, TypeInv
<1>4. /\ database'.facts = database.facts /\ database'.quarantined = database.quarantined \cup {k}
      /\ database'.pools = database.pools /\ database'.opened = database.opened
      /\ database'.rows = database.rows /\ database'.projected = database.projected
  BY Zenon, <1>3
<1>5. TypeInv'
  BY Zenon, <1>1, <1>2, <1>3, <1>4 DEF IngestInv, TypeInv, IsDatabase
<1>6. StoreInv' /\ WindowInv'
  BY Zenon, <1>1, <1>4 DEF IngestInv, StoreInv, WindowInv, WasOpened, Known
<1>7. \A d : Handled(d) => Handled(d)'
  BY Zenon, <1>2, <1>4 DEF Handled, Coordinate
<1>8. Handled(e)'
  BY Zenon, <1>2, <1>4 DEF Handled, Coordinate, k
<1>9. BatchInv'
  BY Zenon, <1>1, <1>2, <1>7, <1>8, EventDone
<1> QED
  BY Zenon, <1>5, <1>6, <1>9 DEF IngestInv

\* A discovery whose window was opened before changes neither tables nor registry.
LEMMA ReplayKeeps ==
  ASSUME IngestInv, batch.status = "running", NEW e \in batch.todo, RankedFirst(e, batch.todo),
         NEW f, f.key = Coordinate(batch.id, e), ReplayDiscovery(e, f), UNCHANGED fetches
  PROVE  IngestInv'
<1>1. /\ f.key \in database.opened
      /\ tokens' = Cancelled({e.target})
      /\ Advance(e, TRUE)
      /\ UNCHANGED <<database, registry>>
  BY Zenon DEF ReplayDiscovery
<1>2. /\ batch' \in Batch /\ batch'.status = batch.status /\ batch'.id = batch.id
      /\ batch'.received = batch.received /\ batch'.targets = batch.targets
      /\ batch'.todo = batch.todo \ {e} /\ batch'.complete = (batch.complete /\ TRUE)
  <2>1. e \in AllEvents /\ TypeInv
    BY Zenon DEF IngestInv, TypeInv, Batch
  <2> QED
    BY Zenon, <1>1, <2>1, AdvanceWrites
<1>3. /\ tokens' \in [Targets -> Token]
      /\ \A x \in Targets : tokens'[x].state = "confirmed" =>
            tokens[x].state = "confirmed" /\ tokens'[x].opened = tokens[x].opened
  BY Zenon, <1>1, CancelledOnly DEF IngestInv
<1>4. TypeInv'
  BY Zenon, <1>1, <1>2, <1>3 DEF IngestInv, TypeInv
<1>5. StoreInv' /\ WindowInv'
  BY Zenon, <1>1, <1>3, StoreSame, WindowKept DEF IngestInv
<1>6. \A d : Handled(d) => Handled(d)'
  BY Zenon, <1>1, <1>2 DEF Handled, Coordinate
<1>7. Handled(e)'
  BY Zenon, <1>1, <1>6 DEF Handled
<1>8. BatchInv'
  BY Zenon, <1>2, <1>3, <1>6, <1>7, EventDone
<1> QED
  BY Zenon, <1>4, <1>5, <1>8 DEF IngestInv

\* What the tables then say is what the chain said: the event is selected, so its
\* window is confirmed or it is a discovery.
LEMMA SelectedRight ==
  ASSUME IngestInv, batch.status = "running", NEW e \in batch.todo, BatchSelects(e),
         Refused(e, registry) = "none"
  PROVE  /\ batch.id \in Ids /\ e \in DecodedEvents(batch.id) /\ e \in AllEvents
         /\ e.target \in Targets
         /\ FactIsRight(NormalizePumpEvent(batch.id, e, batch.received, registry))
         /\ MarketIsRight(EventMarket(e, registry)) /\ EventMarket(e, registry).market = e.target
         /\ e.kind \notin Discoveries => WasOpened(e.target)
<1>1. batch.id \in Ids /\ e \in DecodedEvents(batch.id)
  BY Zenon DEF IngestInv, BatchInv
<1>2. e \in AllEvents /\ e.target \in Targets
  BY Zenon, <1>1, EventKinds
<1>3. e.kind \notin Discoveries => WasOpened(e.target)
  <2>1. IsSeed(e) => e.kind \in Discoveries
    BY Zenon DEF IsSeed, Discoveries
  <2> QED
    BY Zenon, <1>2, <2>1 DEF BatchSelects, IsConfirmedAt, IngestInv, WindowInv
<1>4. e.kind \in Terminals => \E c \in AllEvents : IsCreation(c, e.target)
  <2>1. e.kind \in Terminals => e.kind \notin Discoveries
    BY DEF Terminals, Discoveries
  <2> QED
    BY Zenon, <1>3, <2>1 DEF WasOpened, IsCreation
<1>5. batch.received \in Nat /\ \A k \in registry : MarketIsRight(k)
  BY Zenon DEF IngestInv, TypeInv, Batch, StoreInv
<1> QED
  BY Zenon, <1>1, <1>2, <1>3, <1>4, <1>5, NormalizedRight, EventMarketRight

\* What was handled stays handled when an observation is inserted.
LEMMA InsertHandled ==
  ASSUME IngestInv, NEW f, FactIsRight(f),
         database'.facts = InsertObservation(database.facts, f, database.opened),
         database.opened \subseteq database'.opened, database'.quarantined = database.quarantined,
         batch'.id = batch.id, batch'.received = batch.received, batch'.complete => batch.complete
  PROVE  \A d : Handled(d) => Handled(d)'
<1>1. /\ \A g \in database'.facts : FactIsRight(g)
      /\ \A h \in database.facts : \E g \in database'.facts : g.key = h.key /\ g.received <= h.received
  <2> DEFINE G == InsertObservation(database.facts, f, database.opened)
  <2>1. \A g \in database.facts : FactIsRight(g)
    BY Zenon DEF IngestInv, StoreInv
  <2>2. /\ \A g \in G : FactIsRight(g)
        /\ \A h \in database.facts : \E g \in G : g.key = h.key /\ g.received <= h.received
    BY Zenon, <2>1, InsertRight
  <2> HIDE DEF G
  <2>3. database'.facts = G
    BY Zenon DEF G
  <2> QED
    BY Zenon, <2>2, <2>3
<1> QED
  BY Zenon, <1>1, HandledKept DEF IngestInv

\* The tables after a window was opened durably, the market registered or not.
LEMMA OpenWrites ==
  ASSUME IngestInv, batch.status = "running", NEW e \in batch.todo, BatchSelects(e),
         Refused(e, registry) = "none", e.kind \in Discoveries,
         NEW f, f = NormalizePumpEvent(batch.id, e, batch.received, registry),
         f.key \notin database.opened,
         database'.facts = InsertObservation(database.facts, f, database.opened),
         database'.opened = database.opened \cup {f.key}, database'.rows = database.rows,
         \A p \in database'.pools : PoolIsRight(p),
         registry' = registry \/ registry' = Register(registry, EventMarket(e, registry)),
         \A x \in Targets : tokens'[x].state = "confirmed" =>
            tokens[x].state = "confirmed" \/ x = e.target
  PROVE  StoreInv' /\ WindowInv'
<1> DEFINE m == EventMarket(e, registry)
<1>1. /\ batch.id \in Ids /\ e \in DecodedEvents(batch.id) /\ e \in AllEvents
      /\ FactIsRight(f) /\ MarketIsRight(m) /\ m.market = e.target
  BY Zenon, SelectedRight
<1>2. f.key = Coordinate(batch.id, e) /\ f.kind = e.kind
  <2> DEFINE n == NormalizePumpEvent(batch.id, e, batch.received, registry)
  <2>1. n.key = Coordinate(batch.id, e) /\ n.kind = e.kind
    BY SMTT(20), NormalizedReads
  <2> QED
    BY Zenon, <2>1
<1> HIDE DEF m
<1>3. \A k \in registry' : k \in registry \/ k = m
  BY Zenon DEF Register, m
<1>4. /\ \A g \in database'.facts : FactIsRight(g)
      /\ \A g \in database'.facts : g = f \/ \E h \in database.facts : h.kind = g.kind /\ h.market = g.market
  <2> DEFINE G == InsertObservation(database.facts, f, database.opened)
  <2>1. \A g \in database.facts : FactIsRight(g)
    BY Zenon DEF IngestInv, StoreInv
  <2>2. /\ \A g \in G : FactIsRight(g)
        /\ \A g \in G : g = f \/ \E h \in database.facts : h.kind = g.kind /\ h.market = g.market
    BY SMTT(20), <1>1, <2>1, InsertRight
  <2> HIDE DEF G
  <2>3. database'.facts = G
    BY Zenon DEF G
  <2> QED
    BY Zenon, <2>2, <2>3
<1>5. StoreInv'
  BY Zenon, <1>1, <1>3, <1>4 DEF IngestInv, StoreInv
<1>6. WasOpened(e.target)'
  BY Zenon, <1>1, <1>2, EventKinds DEF WasOpened, IsCreation, IsLogged
<1>7. ~WasOpened(e.target)
  BY Zenon, <1>1, <1>2, OpenedBy
<1>8. \A x : WasOpened(x) => WasOpened(x)'
  <2>1. database.opened \subseteq database'.opened
    BY Zenon
  <2> QED
    BY Zenon, <2>1, OpenedGrows
<1>9. ASSUME NEW g \in database'.facts, g.kind \in Terminals
      PROVE  WasOpened(g.market)' /\ ~Known(registry, g.market)'
  <2>1. g # f
    BY <1>2, <1>9 DEF Terminals, Discoveries
  <2>2. PICK h \in database.facts : h.kind = g.kind /\ h.market = g.market
    BY Zenon, <1>4, <2>1
  <2>3. WasOpened(g.market) /\ ~Known(registry, g.market)
    BY Zenon, <1>9, <2>2 DEF IngestInv, WindowInv
  <2>4. g.market # e.target
    BY Zenon, <1>7, <2>3
  <2> QED
    BY Zenon, <1>1, <1>3, <1>8, <2>3, <2>4 DEF Known
<1>10. WindowInv'
  BY Zenon, <1>6, <1>8, <1>9 DEF IngestInv, WindowInv
<1> QED
  BY Zenon, <1>5, <1>10

\* A pool is upserted as it was created.
LEMMA UpsertRight ==
  ASSUME NEW pools, \A p \in pools : PoolIsRight(p), NEW e \in AllEvents, e.kind = "create pool"
  PROVE  \A p \in UpsertPool(pools, e) : PoolIsRight(p)
<1> DEFINE n == [pool |-> e.target, base |-> e.base, quote |-> e.quote]
<1>1. n.pool = e.target /\ n.base = e.base /\ n.quote = e.quote
  BY Zenon
<1>2. IsCreation(e, e.target)
  BY Zenon DEF IsCreation, Discoveries
<1>3. PoolIsRight(n)
  BY Zenon, <1>1, <1>2 DEF PoolIsRight
<1> QED
  BY Zenon, <1>3 DEF UpsertPool

\* The transaction that opens a window writes the fact and the opening key.
Commit(d, F, O) == [d EXCEPT !.facts = F, !.opened = O]

\* The other tables stay as they are.
LEMMA Committed ==
  ASSUME NEW d, IsDatabase(d), NEW F, NEW O
  PROVE  /\ IsDatabase(Commit(d, F, O)) /\ Commit(d, F, O).facts = F /\ Commit(d, F, O).opened = O
         /\ Commit(d, F, O).quarantined = d.quarantined /\ Commit(d, F, O).pools = d.pools
         /\ Commit(d, F, O).rows = d.rows
<1> DEFINE b == [d EXCEPT !.facts = F]
           c == Commit(d, F, O)
<1>1. b = [facts |-> F, quarantined |-> d.quarantined, pools |-> d.pools, opened |-> d.opened,
           rows |-> d.rows, projected |-> d.projected]
  BY Zenon, Written
<1>2. c = [b EXCEPT !.opened = O]
  BY Zenon DEF Commit
<1> HIDE DEF c
<1> HIDE DEF b
<1>3. /\ b.facts = F /\ b.quarantined = d.quarantined /\ b.pools = d.pools
      /\ b.opened = d.opened /\ b.rows = d.rows /\ b.projected = d.projected
  BY Zenon, <1>1
<1>4. IsDatabase(b)
  BY Zenon, <1>1, <1>3 DEF IsDatabase
<1>5. c = [facts |-> b.facts, quarantined |-> b.quarantined, pools |-> b.pools, opened |-> O,
           rows |-> b.rows, projected |-> b.projected]
  BY Zenon, <1>2, <1>4, Written
<1>6. /\ c.facts = b.facts /\ c.quarantined = b.quarantined /\ c.pools = b.pools
      /\ c.opened = O /\ c.rows = b.rows /\ c.projected = b.projected
  BY ONLY <1>5
<1>7. IsDatabase(c)
  BY Zenon, <1>5, <1>6 DEF IsDatabase
<1> QED
  BY Zenon, <1>3, <1>6, <1>7 DEF c

\* A batch that failed leaves only the tables and the windows to look at.
LEMMA FailKeeps ==
  ASSUME IngestInv, FailBatch, IsDatabase(database)', tokens' \in [Targets -> Token],
         UNCHANGED fetches, StoreInv', WindowInv'
  PROVE  IngestInv'
<1>1. batch' \in Batch /\ batch'.status = "failed"
  BY Zenon, FailWrites DEF IngestInv
<1>2. TypeInv'
  BY Zenon, <1>1 DEF IngestInv, TypeInv
<1>3. BatchInv'
  BY Zenon, <1>1 DEF BatchInv
<1> QED
  BY Zenon, <1>2, <1>3 DEF IngestInv

\* A discovery that is new is stored, opens its window and is registered.
LEMMA OpenKeeps ==
  ASSUME IngestInv, batch.status = "running", NEW e \in batch.todo, RankedFirst(e, batch.todo),
         BatchSelects(e), Refused(e, registry) = "none", e.kind \in Discoveries,
         NEW f, f = NormalizePumpEvent(batch.id, e, batch.received, registry),
         OpenDiscovery(e, f), UNCHANGED fetches
  PROVE  IngestInv'
<1> DEFINE F == InsertObservation(database.facts, f, database.opened)
           O == database.opened \cup {f.key}
           committed == Commit(database, F, O)
           pools == UpsertPool(database.pools, e)
           upserted == [committed EXCEPT !.pools = UpsertPool(@, e)]
<1>1. CASE Conflicts(f)
  <2>1. FailBatch /\ UNCHANGED <<database, registry, tokens>>
    BY Zenon, <1>1 DEF OpenDiscovery
  <2>2. StoreInv' /\ WindowInv'
    BY Zenon, <2>1, StoreSame, WindowKept DEF IngestInv
  <2>3. IsDatabase(database)' /\ tokens' \in [Targets -> Token]
    BY Zenon, <2>1 DEF IngestInv, TypeInv
  <2> QED
    BY Zenon, <2>1, <2>2, <2>3, FailKeeps
<1>2. CASE ~Conflicts(f)
  <2>1. /\ f.key \notin database.opened
        /\ database' = committed \/ (database' = upserted /\ e.kind # "create")
        /\ tokens' = [tokens EXCEPT ![e.target].state = "confirmed"]
        /\ \/ FailBatch /\ registry' = registry
           \/ Advance(e, TRUE) /\ registry' = Register(registry, EventMarket(e, registry))
    <3>1. /\ f.key \notin database.opened
          /\ tokens' = [tokens EXCEPT ![e.target].state = "confirmed"]
          /\ database' = IF e.kind = "create" \/ PoolConflicts(e) THEN committed
                         ELSE upserted
          /\ IF e.kind = "create pool" /\ PoolConflicts(e) THEN FailBatch /\ UNCHANGED registry
             ELSE Advance(e, TRUE) /\ registry' = Register(registry, EventMarket(e, registry))
      BY Zenon, <1>2 DEF OpenDiscovery, Commit
    <3> HIDE DEF committed, upserted
    <3>d. database' = IF e.kind = "create" \/ PoolConflicts(e) THEN committed ELSE upserted
      BY Zenon, <3>1
    <3>2. database' = committed \/ (database' = upserted /\ e.kind # "create")
      <4>1. CASE e.kind = "create" \/ PoolConflicts(e)
        BY ONLY <3>d, <4>1
      <4>2. CASE ~(e.kind = "create" \/ PoolConflicts(e))
        BY ONLY <3>d, <4>2
      <4> QED
        BY Zenon, <4>1, <4>2
    <3>3. \/ FailBatch /\ registry' = registry
          \/ Advance(e, TRUE) /\ registry' = Register(registry, EventMarket(e, registry))
      BY Zenon, <3>1
    <3> QED
      BY Zenon, <3>1, <3>2, <3>3
  <2>2. /\ batch.id \in Ids /\ e \in DecodedEvents(batch.id) /\ e \in AllEvents
        /\ e.target \in Targets /\ FactIsRight(f)
    BY Zenon, SelectedRight
  <2>3. /\ IsDatabase(committed)
        /\ committed.facts = InsertObservation(database.facts, f, database.opened)
        /\ committed.opened = database.opened \cup {f.key}
        /\ committed.quarantined = database.quarantined
        /\ committed.pools = database.pools /\ committed.rows = database.rows
    <3>1. IsDatabase(database)
      BY Zenon DEF IngestInv, TypeInv
    <3> HIDE DEF F, O
    <3>2. /\ IsDatabase(committed) /\ committed.facts = F /\ committed.opened = O
          /\ committed.quarantined = database.quarantined
          /\ committed.pools = database.pools /\ committed.rows = database.rows
      BY ONLY <3>1, Committed, SMTT(20)
    <3> QED
      BY Zenon, <3>2 DEF F, O
  <2>4. \A p \in database.pools : PoolIsRight(p)
    BY Zenon DEF IngestInv, StoreInv
  <2> HIDE DEF committed, upserted
  <2>5. /\ IsDatabase(database')
        /\ database'.facts = InsertObservation(database.facts, f, database.opened)
        /\ database'.opened = database.opened \cup {f.key}
        /\ database'.quarantined = database.quarantined /\ database'.rows = database.rows
        /\ \A p \in database'.pools : PoolIsRight(p)
    <3>1. CASE database' = committed
      BY Zenon, <2>3, <2>4, <3>1
    <3>2. CASE database' = upserted /\ e.kind # "create"
      <4>1. [committed EXCEPT !.pools = pools] =
              [facts |-> committed.facts, quarantined |-> committed.quarantined, pools |-> pools,
               opened |-> committed.opened, rows |-> committed.rows, projected |-> committed.projected]
        BY Zenon, <2>3, Written
      <4>2. \A p \in pools : PoolIsRight(p)
        <5>1. e.kind = "create pool"
          BY Zenon, <3>2 DEF Discoveries
        <5> QED
          BY Zenon, <2>2, <2>4, <5>1, UpsertRight
      <4>3. database' = [committed EXCEPT !.pools = pools]
        BY Zenon, <2>3, <3>2 DEF upserted
      <4> HIDE DEF pools
      <4>4. /\ database'.facts = committed.facts /\ database'.quarantined = committed.quarantined
            /\ database'.pools = pools /\ database'.opened = committed.opened
            /\ database'.rows = committed.rows /\ database'.projected = committed.projected
        BY Zenon, <4>1, <4>3
      <4>5. IsDatabase(database')
        BY Zenon, <4>1, <4>3, <4>4 DEF IsDatabase
      <4> QED
        BY Zenon, <2>3, <4>2, <4>4, <4>5
    <3> QED
      BY Zenon, <2>1, <3>1, <3>2
  <2>6. /\ tokens' \in [Targets -> Token]
        /\ \A x \in Targets : x # e.target => tokens'[x] = tokens[x]
    <3>1. tokens \in [Targets -> Token]
      BY Zenon DEF IngestInv, TypeInv
    <3>2. [tokens[e.target] EXCEPT !.state = "confirmed"] \in Token
      <4>1. tokens[e.target] \in Token
        BY Zenon, <2>2, <3>1
      <4> QED
        BY ONLY <4>1, SMT DEF Token
    <3>3. tokens' = [tokens EXCEPT ![e.target] = [tokens[e.target] EXCEPT !.state = "confirmed"]]
      BY Zenon, <2>1
    <3> QED
      BY Zenon, <2>2, <3>1, <3>2, <3>3
  <2>7. StoreInv' /\ WindowInv'
    BY Zenon, <2>1, <2>5, <2>6, OpenWrites
  <2>8. CASE FailBatch
    BY Zenon, <2>5, <2>6, <2>7, <2>8, FailKeeps
  <2>9. CASE Advance(e, TRUE)
    <3>1. /\ batch' \in Batch /\ batch'.status = batch.status /\ batch'.id = batch.id
          /\ batch'.received = batch.received /\ batch'.targets = batch.targets
          /\ batch'.todo = batch.todo \ {e} /\ batch'.complete = (batch.complete /\ TRUE)
      BY Zenon, <2>2, <2>9, AdvanceWrites DEF IngestInv
    <3>2. TypeInv'
      BY Zenon, <2>5, <2>6, <3>1 DEF IngestInv, TypeInv
    <3>3. database.opened \subseteq database'.opened
      BY Zenon, <2>5
    <3>4. \A d : Handled(d) => Handled(d)'
      BY Zenon, <2>2, <2>5, <3>1, <3>3, InsertHandled
    <3>5. f.key = Coordinate(batch.id, e)
      BY Zenon DEF NormalizePumpEvent
    <3>6. Handled(e)'
      BY Zenon, <2>5, <3>1, <3>5 DEF Handled, Coordinate
    <3>7. BatchInv'
      BY Zenon, <2>6, <3>1, <3>4, <3>6, EventDone
    <3> QED
      BY Zenon, <2>7, <3>2, <3>7 DEF IngestInv
  <2> QED
    BY Zenon, <2>1, <2>8, <2>9
<1> QED
  BY Zenon, <1>1, <1>2

\* A discovery whose token is cancelled before it is confirmed opens its window, and the
\* batch fails.
LEMMA OpenCancelledKeeps ==
  ASSUME IngestInv, batch.status = "running", NEW e \in batch.todo,
         BatchSelects(e), Refused(e, registry) = "none", e.kind \in Discoveries,
         NEW f, f = NormalizePumpEvent(batch.id, e, batch.received, registry),
         OpenCancelled(e, f), UNCHANGED fetches
  PROVE  IngestInv'
<1> DEFINE F == InsertObservation(database.facts, f, database.opened)
           O == database.opened \cup {f.key}
<1>1. /\ f.key \notin database.opened /\ tokens' = Cancelled({e.target})
      /\ database' = Commit(database, F, O) /\ FailBatch /\ registry' = registry
  BY Zenon DEF OpenCancelled, Commit
<1>2. IsDatabase(database) /\ \A p \in database.pools : PoolIsRight(p)
  BY Zenon DEF IngestInv, TypeInv, StoreInv
<1> HIDE DEF F, O
<1>3. /\ IsDatabase(Commit(database, F, O)) /\ Commit(database, F, O).facts = F
      /\ Commit(database, F, O).opened = O
      /\ Commit(database, F, O).quarantined = database.quarantined
      /\ Commit(database, F, O).pools = database.pools /\ Commit(database, F, O).rows = database.rows
  BY ONLY <1>2, Committed, SMTT(20)
<1>4. /\ IsDatabase(database') /\ database'.facts = F /\ database'.opened = O
      /\ database'.rows = database.rows /\ \A p \in database'.pools : PoolIsRight(p)
  BY Zenon, <1>1, <1>2, <1>3
<1>5. /\ tokens' \in [Targets -> Token]
      /\ \A x \in Targets : tokens'[x].state = "confirmed" => tokens[x].state = "confirmed"
  BY Zenon, <1>1, CancelledOnly DEF IngestInv
<1>6. StoreInv' /\ WindowInv'
  BY Zenon, <1>1, <1>4, <1>5, OpenWrites DEF F, O
<1> QED
  BY Zenon, <1>1, <1>4, <1>5, <1>6, FailKeeps

\* Activity is stored, and a curve whose end is stored is retired.
LEMMA StoreKeeps ==
  ASSUME IngestInv, batch.status = "running", NEW e \in batch.todo, RankedFirst(e, batch.todo),
         BatchSelects(e), Refused(e, registry) = "none", e.kind \notin Discoveries,
         NEW f, f = NormalizePumpEvent(batch.id, e, batch.received, registry),
         StoreActivity(e, f), UNCHANGED fetches
  PROVE  IngestInv'
<1> DEFINE F == InsertObservation(database.facts, f, database.opened)
<1>1. CASE Conflicts(f)
  <2>1. FailBatch /\ UNCHANGED <<database, registry, tokens>>
    BY Zenon, <1>1 DEF StoreActivity
  <2>2. StoreInv' /\ WindowInv'
    BY Zenon, <2>1, StoreSame, WindowKept DEF IngestInv
  <2>3. IsDatabase(database)' /\ tokens' \in [Targets -> Token]
    BY Zenon, <2>1 DEF IngestInv, TypeInv
  <2> QED
    BY Zenon, <2>1, <2>2, <2>3, FailKeeps
<1>2. CASE ~Conflicts(f)
  <2>1. /\ database' = [database EXCEPT !.facts = F]
        /\ registry' = IF e.kind \in Terminals THEN Retire(registry, e.target) ELSE registry
        /\ Advance(e, TRUE) /\ UNCHANGED tokens
    BY Zenon, <1>2 DEF StoreActivity
  <2>2. /\ batch.id \in Ids /\ e \in DecodedEvents(batch.id) /\ e \in AllEvents
        /\ FactIsRight(f) /\ WasOpened(e.target)
    BY Zenon, SelectedRight
  <2>3. f.key = Coordinate(batch.id, e) /\ f.kind = e.kind /\ f.received = batch.received
    BY Zenon DEF NormalizePumpEvent
  <2>4. f.market = e.target
    <3>1. EventMarket(e, registry).market = e.target
      BY Zenon, SelectedRight
    <3> QED
      BY Zenon, <3>1 DEF NormalizePumpEvent
  <2>5. IsDatabase(database) /\ \A g \in database.facts : FactIsRight(g)
    BY Zenon DEF IngestInv, TypeInv, StoreInv
  <2>6. /\ \A g \in F : FactIsRight(g)
        /\ \A g \in F : g = f \/ \E h \in database.facts : h.kind = g.kind /\ h.market = g.market
        /\ f.key \in database.opened \/ \E g \in F : g.key = f.key /\ g.received <= f.received
    BY SMTT(20), <2>2, <2>5, InsertRight
  <2> HIDE DEF F
  <2>7. [database EXCEPT !.facts = F] =
          [facts |-> F, quarantined |-> database.quarantined, pools |-> database.pools,
           opened |-> database.opened, rows |-> database.rows, projected |-> database.projected]
    BY Zenon, <2>5, Written
  <2>8. /\ database'.facts = F /\ database'.quarantined = database.quarantined
        /\ database'.pools = database.pools /\ database'.opened = database.opened
        /\ database'.rows = database.rows /\ database'.projected = database.projected
    BY Zenon, <2>1, <2>7
  <2>9. IsDatabase(database')
    BY Zenon, <2>1, <2>7, <2>8 DEF IsDatabase
  <2>10. \A k \in registry' : k \in registry /\ (e.kind \in Terminals => k.market # e.target)
    BY Zenon, <2>1 DEF Retire
  <2>11. StoreInv'
    BY Zenon, <2>6, <2>8, <2>10 DEF IngestInv, StoreInv
  <2>12. \A x : WasOpened(x) => WasOpened(x)'
    BY Zenon, <2>8 DEF WasOpened
  <2>13. ASSUME NEW g \in database'.facts, g.kind \in Terminals
         PROVE  WasOpened(g.market)' /\ ~Known(registry, g.market)'
    <3>1. CASE g = f
      BY Zenon, <2>2, <2>3, <2>4, <2>10, <2>12, <2>13, <3>1 DEF Known
    <3>2. CASE g # f
      <4>1. PICK h \in database.facts : h.kind = g.kind /\ h.market = g.market
        BY Zenon, <2>6, <2>8, <3>2
      <4>2. WasOpened(g.market) /\ ~Known(registry, g.market)
        BY Zenon, <2>13, <4>1 DEF IngestInv, WindowInv
      <4> QED
        BY Zenon, <2>10, <2>12, <4>2 DEF Known
    <3> QED
      BY Zenon, <3>1, <3>2
  <2>14. WindowInv'
    BY Zenon, <2>1, <2>12, <2>13 DEF IngestInv, WindowInv
  <2>15. /\ batch' \in Batch /\ batch'.status = batch.status /\ batch'.id = batch.id
         /\ batch'.received = batch.received /\ batch'.targets = batch.targets
         /\ batch'.todo = batch.todo \ {e} /\ batch'.complete = (batch.complete /\ TRUE)
    BY Zenon, <2>1, <2>2, AdvanceWrites DEF IngestInv
  <2>16. TypeInv'
    BY Zenon, <2>1, <2>9, <2>15 DEF IngestInv, TypeInv
  <2>17. \A d : Handled(d) => Handled(d)'
    BY Zenon, <2>2, <2>8, <2>15, InsertHandled DEF F
  <2>18. Handled(e)'
    BY Zenon, <2>3, <2>6, <2>8, <2>15 DEF Handled, Coordinate
  <2>19. BatchInv'
    BY Zenon, <2>1, <2>15, <2>17, <2>18, EventDone
  <2> QED
    BY Zenon, <2>11, <2>14, <2>16, <2>19 DEF IngestInv
<1> QED
  BY Zenon, <1>1, <1>2

\* The step of a batch over its next event, whatever becomes of it, keeps the invariant.
LEMMA ProcessKeeps ==
  ASSUME IngestInv, ProcessEvent
  PROVE  IngestInv'
<1>1. batch.status = "running" /\ UNCHANGED fetches
  BY Zenon DEF ProcessEvent
<1>2. PICK e \in batch.todo :
        /\ RankedFirst(e, batch.todo)
        /\ LET f == NormalizePumpEvent(batch.id, e, batch.received, registry)
           IN  \/ SkipEvent(e)
               \/ BatchSelects(e) /\ QuarantineEvent(e)
               \/ /\ BatchSelects(e) /\ Refused(e, registry) = "none"
                  /\ IF e.kind \in Discoveries
                     THEN ReplayDiscovery(e, f) \/ OpenDiscovery(e, f) \/ OpenCancelled(e, f)
                     ELSE StoreActivity(e, f)
  BY Zenon DEF ProcessEvent
<1> DEFINE n == NormalizePumpEvent(batch.id, e, batch.received, registry)
<1>4. n.key = Coordinate(batch.id, e)
  BY Zenon DEF NormalizePumpEvent
<1>5. \/ SkipEvent(e)
      \/ QuarantineEvent(e)
      \/ /\ BatchSelects(e) /\ Refused(e, registry) = "none" /\ e.kind \in Discoveries
         /\ ReplayDiscovery(e, n) \/ OpenDiscovery(e, n) \/ OpenCancelled(e, n)
      \/ /\ BatchSelects(e) /\ Refused(e, registry) = "none" /\ e.kind \notin Discoveries
         /\ StoreActivity(e, n)
  BY Zenon, <1>2
<1> HIDE DEF n
<1>6. CASE SkipEvent(e)
  BY Zenon, <1>1, <1>2, <1>6, SkipKeeps
<1>7. CASE QuarantineEvent(e)
  BY Zenon, <1>1, <1>2, <1>7, QuarantineKeeps
<1>8. CASE /\ BatchSelects(e) /\ Refused(e, registry) = "none" /\ e.kind \in Discoveries
           /\ ReplayDiscovery(e, n) \/ OpenDiscovery(e, n) \/ OpenCancelled(e, n)
  <2>1. CASE ReplayDiscovery(e, n)
    BY Zenon, <1>1, <1>2, <1>4, <2>1, ReplayKeeps
  <2>2. CASE OpenDiscovery(e, n)
    BY Zenon, <1>1, <1>2, <1>8, <2>2, OpenKeeps DEF n
  <2>3. CASE OpenCancelled(e, n)
    BY Zenon, <1>1, <1>2, <1>8, <2>3, OpenCancelledKeeps DEF n
  <2> QED
    BY Zenon, <1>8, <2>1, <2>2, <2>3
<1>9. CASE /\ BatchSelects(e) /\ Refused(e, registry) = "none" /\ e.kind \notin Discoveries
           /\ StoreActivity(e, n)
  BY Zenon, <1>1, <1>2, <1>9, StoreKeeps DEF n
<1> QED
  BY Zenon, <1>5, <1>6, <1>7, <1>8, <1>9

-----------------------------------------------------------------------------

\* An empty database and an empty registry satisfy the invariant.
LEMMA IngestStarts ==
  ASSUME IngestInit
  PROVE  IngestInv
<1>1. NoToken \in Token /\ NoToken.state # "confirmed"
  BY DEF NoToken, Token
<1>2. /\ tokens = NoTokens /\ batch = Idle /\ fetches = {} /\ registry = {}
      /\ database = [facts |-> {}, quarantined |-> {}, pools |-> {}, opened |-> {},
                     rows |-> {}, projected |-> {}]
  BY Zenon DEF IngestInit
<1>3. /\ database.facts = {} /\ database.quarantined = {} /\ database.pools = {}
      /\ database.opened = {} /\ database.rows = {} /\ database.projected = {}
  BY Zenon, <1>2
<1>4. tokens \in [Targets -> Token] /\ \A x \in Targets : tokens[x].state # "confirmed"
  BY Zenon, <1>1, <1>2 DEF NoTokens
<1>5. TypeInv
  BY Zenon, <1>2, <1>3, <1>4, IdleBatch DEF TypeInv, IsDatabase
<1>6. StoreInv /\ WindowInv
  BY Zenon, <1>2, <1>3, <1>4 DEF StoreInv, WindowInv
<1>7. BatchInv
  BY Zenon, <1>2, IdleBatch DEF BatchInv
<1> QED
  BY Zenon, <1>5, <1>6, <1>7 DEF IngestInv

\* Every step keeps the invariant.
LEMMA IngestStep ==
  ASSUME IngestInv, [IngestNext]_ingestVars
  PROVE  IngestInv'
<1>1. ASSUME NEW id \in Ids, NEW t \in Receipts, FetchDiscovery(id, t) \/ ReceiveActivity(id, t)
      PROVE  IngestInv'
  BY Zenon, <1>1, FetchKeeps, ActivityKeeps
<1>2. ASSUME NEW f \in fetches, CancelDiscovery(f) \/ ReceiveDiscovery(f) \/ ReceiveTracked(f)
      PROVE  IngestInv'
  BY Zenon, <1>2, CancelKeeps, ReceiveKeeps
<1>3. CASE ProcessEvent
  BY Zenon, <1>3, ProcessKeeps
<1>4. CASE FinishBatch
  BY Zenon, <1>4, FinishKeeps
<1>5. ASSUME NEW f \in database.facts, ProjectFact(f) \/ PruneFact(f)
      PROVE  IngestInv'
  BY Zenon, <1>5, ProjectKeeps, PruneKeeps
<1>6. CASE Restart
  BY Zenon, <1>6, RestartKeeps
<1>7. CASE UNCHANGED ingestVars
  <2>1. UNCHANGED <<database, registry, tokens, fetches, batch>>
    BY Zenon, <1>7 DEF ingestVars
  <2>2. TypeInv'
    BY Zenon, <2>1 DEF IngestInv, TypeInv
  <2>3. StoreInv' /\ WindowInv'
    BY Zenon, <2>1, StoreSame, WindowKept DEF IngestInv
  <2>4. BatchInv'
    BY Zenon, <2>1, HandledSame, BatchKept DEF IngestInv
  <2> QED
    BY Zenon, <2>2, <2>3, <2>4 DEF IngestInv
<1> QED
  BY Zenon, <1>1, <1>2, <1>3, <1>4, <1>5, <1>6, <1>7 DEF IngestNext

\* What holds between any two steps of the intake: the registry, the tables and
\* the windows say what the chain said, and a batch leaves no event unhandled.
THEOREM IngestInvariant == IngestSpec => []IngestInv
<1>1. IngestInit => IngestInv
  BY IngestStarts
<1>2. IngestInv /\ [IngestNext]_ingestVars => IngestInv'
  BY IngestStep
<1> QED
  BY <1>1, <1>2, PTL DEF IngestSpec

\* When the events of a batch are through, each one about a window of the batch that
\* is confirmed by then is stored with a receipt no later than the batch's, or opened
\* a window, or evidence is quarantined for it and the batch is incomplete: nothing
\* that process_batch was given about an active window is dropped silently.
THEOREM WindowActivityAlwaysStored == IngestSpec => []WindowActivityIsStored
<1>1. IngestInv => WindowActivityIsStored
  BY Zenon DEF IngestInv, BatchInv, WindowActivityIsStored, Handled
<1> QED
  BY <1>1, IngestInvariant, PTL

\* A stored trade says what the trader did with the token that was created, with the
\* side and the units oriented to it, whatever route the event came by, for every
\* chain and every set of quote assets (normalize_pump_event, orient_source_amounts).
THEOREM FactsAlwaysCanonical == IngestSpec => []FactsAreCanonical
<1>1. ASSUME IngestInv, NEW f \in database.facts, f.kind \in SwapTrades \cup {"trade"}
      PROVE  TradeIsRight(f, Chain(f.key))
  <2>1. PICK id \in Ids : \E e \in Range(Transactions[id].logged) :
          f.key = Coordinate(id, e) /\ f.kind = e.kind /\ (e.kind \in Trades => TradeIsRight(f, e))
    BY Zenon, <1>1 DEF IngestInv, StoreInv, FactIsRight
  <2>2. PICK e \in Range(Transactions[id].logged) :
          f.key = Coordinate(id, e) /\ f.kind = e.kind /\ (e.kind \in Trades => TradeIsRight(f, e))
    BY Zenon, <2>1
  <2>3. f.key.id = id
    BY <2>2 DEF Coordinate
  <2>4. Chain(f.key) \in Range(Transactions[id].logged) /\ Coordinate(id, Chain(f.key)) = f.key
    BY Zenon, <2>2, <2>3 DEF Chain
  <2>5. Chain(f.key) = e
    BY Zenon, <2>2, <2>4, ChainAssumption
  <2> QED
    BY Zenon, <1>1, <2>2, <2>5 DEF Trades
<1>2. IngestInv => FactsAreCanonical
  BY Zenon, <1>1 DEF FactsAreCanonical, TradeIsRight
<1> QED
  BY <1>2, IngestInvariant, PTL

\* While the end of a curve is stored, no run has the curve in its registry: neither
\* the run that saw the end, nor one that hydrates its registry from the tables after
\* a crash, whatever the worker has projected by then (hydrate_market_registry).
THEOREM RetiredCurvesAlwaysRetired == IngestSpec => []RetiredCurvesStayRetired
<1>1. IngestInv => RetiredCurvesStayRetired
  BY Zenon DEF IngestInv, WindowInv, RetiredCurvesStayRetired
<1> QED
  BY <1>1, IngestInvariant, PTL
=============================================================================
