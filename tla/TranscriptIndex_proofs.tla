----------------------- MODULE TranscriptIndex_proofs -----------------------
(***************************************************************************)
(* Proofs about TranscriptIndex for any number of pollers and segments,    *)
(* any line lengths and any target below the maximum.                      *)
(***************************************************************************)
EXTENDS TranscriptIndex, FiniteSetTheorems, TLAPS

Chunker == [closed : Seq(Chunk), first : Nat, chars : Nat]

-----------------------------------------------------------------------------
(* chunk_segments *)

LEMMA FlushType ==
  ASSUME NEW c \in Chunker, NEW last \in Nat
  PROVE  Flush(c, last) \in Chunker
<1>1. CASE c.chars = 0
  BY <1>1 DEF Flush
<1>2. CASE c.chars # 0
  <2>1. c.chars - 1 \in Nat
    BY <1>2 DEF Chunker
  <2>2. [first |-> c.first, last |-> last, chars |-> c.chars - 1] \in Chunk
    BY <2>1 DEF Chunker, Chunk
  <2>3. Append(c.closed, [first |-> c.first, last |-> last, chars |-> c.chars - 1])
          \in Seq(Chunk)
    BY <2>2 DEF Chunker
  <2>4. QED
    BY <1>2, <2>3 DEF Flush, Chunker
<1>3. QED
  BY <1>1, <1>2

LEMMA AddType ==
  ASSUME NEW c \in Chunker, NEW s \in Nat \ {0}, NEW len \in Nat
  PROVE  AddSegment(c, s, len) \in Chunker
<1> DEFINE room == IF WouldOverflow(c, len) THEN Flush(c, s - 1) ELSE c
           full == [room EXCEPT !.chars = @ + len + 1]
<1>1. room \in Chunker
  BY FlushType
<1>2. full \in Chunker
  BY <1>1 DEF Chunker
<1>3. QED
  BY <1>2, FlushType DEF AddSegment

\* The chunks b are the chunks a of a shorter transcript: the same ones, the
\* last of them perhaps longer, and perhaps more.
Extends(b, a) ==
  /\ Len(a) <= Len(b)
  /\ \A i \in 1 .. Len(a) : b[i].first = a[i].first /\ a[i].last <= b[i].last
  /\ \A i \in 1 .. Len(a) - 1 : b[i] = a[i]

LEMMA ExtendsOneMore ==
  ASSUME NEW r \in Seq(Chunk), NEW x \in Chunk
  PROVE  Extends(Append(r, x), r)
<1>1. ASSUME NEW i \in 1 .. Len(r)
      PROVE  Append(r, x)[i] = r[i] /\ r[i].last \in Nat
  <2>1. r[i] \in Chunk
    OBVIOUS
  <2>2. QED
    BY <2>1 DEF Chunk
<1>2. QED
  BY <1>1 DEF Extends

LEMMA ExtendsLonger ==
  ASSUME NEW r \in Seq(Chunk), NEW x \in Chunk, NEW y \in Chunk,
         x.first = y.first, y.last <= x.last
  PROVE  Extends(Append(r, x), Append(r, y))
<1>1. /\ Len(Append(r, y)) = Len(r) + 1
      /\ Append(r, y)[Len(r) + 1] = y
      /\ Len(Append(r, x)) = Len(r) + 1
      /\ Append(r, x)[Len(r) + 1] = x
  OBVIOUS
<1>2. ASSUME NEW i \in 1 .. Len(r)
      PROVE  /\ Append(r, x)[i] = r[i]
             /\ Append(r, y)[i] = r[i]
             /\ r[i].last \in Nat
  <2>1. r[i] \in Chunk
    OBVIOUS
  <2>2. QED
    BY <2>1 DEF Chunk
<1>3. \A i \in 1 .. Len(r) + 1 : i \in 1 .. Len(r) \/ i = Len(r) + 1
  OBVIOUS
<1>4. QED
  BY <1>1, <1>2, <1>3 DEF Extends

Piece(c, last) == [first |-> c.first, last |-> last, chars |-> c.chars - 1]

LEMMA FlushAppends ==
  ASSUME NEW c \in Chunker, c.chars # 0, NEW last \in Nat
  PROVE  /\ Piece(c, last) \in Chunk
         /\ Flush(c, last).closed = Append(c.closed, Piece(c, last))
         /\ Flush(c, last).chars = 0
<1>1. c.chars - 1 \in Nat
  BY DEF Chunker
<1>2. QED
  BY <1>1 DEF Flush, Piece, Chunker, Chunk

(* Re-chunking a grown transcript reproduces the earlier chunks, all but the *)
(* last one exactly.                                                         *)
LEMMA ChunksGrow ==
  ASSUME NEW c \in Chunker, NEW s \in Nat, NEW len \in Nat
  PROVE  Extends(Flush(AddSegment(c, s + 1, len), s + 1).closed, Flush(c, s).closed)
<1> DEFINE room == IF WouldOverflow(c, len) THEN Flush(c, s) ELSE c
           full == [room EXCEPT !.chars = @ + len + 1]
<1>1. /\ room \in Chunker
      /\ room = Flush(c, s) \/ (c.chars # 0 /\ room = c)
  BY FlushType DEF Flush
<1>2. /\ full \in Chunker
      /\ full.closed = room.closed
      /\ full.first = room.first
      /\ full.chars # 0
  BY <1>1 DEF Chunker
<1>3. AddSegment(c, s + 1, len) = IF full.chars >= MAX THEN Flush(full, s + 1) ELSE full
  BY DEF AddSegment
<1> HIDE DEF room, full
<1>4. /\ Piece(full, s + 1) \in Chunk
      /\ Flush(full, s + 1).closed = Append(room.closed, Piece(full, s + 1))
      /\ Flush(full, s + 1).chars = 0
  <2>1. s + 1 \in Nat
    OBVIOUS
  <2>2. QED
    BY <1>2, <2>1, FlushAppends
<1>5. Flush(AddSegment(c, s + 1, len), s + 1).closed = Flush(full, s + 1).closed
  <2>1. Flush(Flush(full, s + 1), s + 1) = Flush(full, s + 1)
    BY <1>4 DEF Flush
  <2>2. QED
    BY <1>3, <2>1
<1>6. room.closed \in Seq(Chunk)
  BY <1>1 DEF Chunker
<1>7. CASE room = Flush(c, s)
  BY <1>4, <1>5, <1>6, <1>7, ExtendsOneMore
<1>8. CASE room = c /\ c.chars # 0
  <2>1. /\ Piece(c, s) \in Chunk
        /\ Flush(c, s).closed = Append(room.closed, Piece(c, s))
    BY <1>8, FlushAppends
  <2>2. Piece(full, s + 1).first = Piece(c, s).first /\ Piece(c, s).last <= Piece(full, s + 1).last
    BY <1>2, <1>8 DEF Piece
  <2>3. QED
    BY <1>4, <1>5, <1>6, <2>1, <2>2, ExtendsLonger
<1>9. QED
  BY <1>1, <1>7, <1>8

\* The chunks the fold has closed and its buffer cover the segments 1 .. s.
Fit(c, s) ==
  /\ c.first = IF c.closed = <<>> THEN 1 ELSE c.closed[Len(c.closed)].last + 1
  /\ c.first <= s + 1
  /\ (c.chars = 0) = (c.first = s + 1)
  /\ c.first < s => c.chars <= TARGET + 1
  /\ c.closed # <<>> => c.closed[1].first = 1
  /\ \A i \in 1 .. Len(c.closed) :
       /\ i > 1 => c.closed[i].first = c.closed[i - 1].last + 1
       /\ 1 <= c.closed[i].first
       /\ c.closed[i].first <= c.closed[i].last
       /\ c.closed[i].first < c.closed[i].last => c.closed[i].chars <= TARGET

LEMMA FlushFits ==
  ASSUME NEW c \in Chunker, NEW s \in Nat, Fit(c, s)
  PROVE  Fit(Flush(c, s), s) /\ Flush(c, s).chars = 0 /\ Flush(c, s).first = s + 1
<1>1. CASE c.chars = 0
  BY <1>1 DEF Flush, Fit
<1>2. CASE c.chars # 0
  <2> DEFINE x == Piece(c, s)
             n == Len(c.closed)
             d == Flush(c, s)
  <2>1. /\ x \in Chunk
        /\ x.first = c.first /\ x.last = s /\ x.chars = c.chars - 1
        /\ d.closed = Append(c.closed, x)
        /\ d.first = s + 1 /\ d.chars = 0
    BY <1>2, FlushAppends DEF Flush, Piece
  <2>2. /\ c.closed \in Seq(Chunk) /\ n \in Nat
        /\ c.first \in Nat /\ c.chars \in Nat
    BY DEF Chunker
  <2>3. /\ Len(d.closed) = n + 1
        /\ d.closed[n + 1] = x
        /\ \A i \in 1 .. n : d.closed[i] = c.closed[i]
        /\ d.closed # <<>>
    BY <2>1, <2>2
  <2>4. 1 <= c.first /\ c.first <= s
    <3>1. c.closed # <<>> => c.closed[n] \in Chunk
      BY <2>2
    <3>2. QED
      BY <1>2, <2>2, <3>1 DEF Fit, Chunk
  <2> HIDE DEF x, d
  <2>5. ASSUME NEW i \in 1 .. n
        PROVE  /\ i > 1 => d.closed[i].first = d.closed[i - 1].last + 1
               /\ 1 <= d.closed[i].first
               /\ d.closed[i].first <= d.closed[i].last
               /\ d.closed[i].first < d.closed[i].last => d.closed[i].chars <= TARGET
    <3>1. i > 1 => i - 1 \in 1 .. n
      BY <2>2
    <3>2. QED
      BY <2>3, <3>1 DEF Fit
  <2>6. /\ n + 1 > 1 => x.first = d.closed[n].last + 1
        /\ 1 <= x.first
        /\ x.first <= x.last
        /\ x.first < x.last => x.chars <= TARGET
    <3>1. n > 0 => c.closed # <<>> /\ d.closed[n] = c.closed[n]
      BY <2>2, <2>3
    <3>2. n + 1 > 1 => x.first = d.closed[n].last + 1
      BY <2>1, <2>2, <3>1 DEF Fit
    <3>3. x.first < x.last => x.chars <= TARGET
      BY <2>1, <2>2, IndexAssumption DEF Fit, IndexAssumption
    <3>4. QED
      BY <2>1, <2>4, <3>2, <3>3
  <2>7. d.closed[1].first = 1
    <3>1. CASE n = 0
      BY <2>1, <2>2, <2>3, <3>1 DEF Fit
    <3>2. CASE n > 0
      BY <2>2, <2>3, <3>2 DEF Fit
    <3>3. QED
      BY <2>2, <3>1, <3>2
  <2>8. \A i \in 1 .. n + 1 : i \in 1 .. n \/ i = n + 1
    BY <2>2
  <2>9. \A i \in 1 .. Len(d.closed) :
           /\ i > 1 => d.closed[i].first = d.closed[i - 1].last + 1
           /\ 1 <= d.closed[i].first
           /\ d.closed[i].first <= d.closed[i].last
           /\ d.closed[i].first < d.closed[i].last => d.closed[i].chars <= TARGET
    BY <2>2, <2>3, <2>5, <2>6, <2>8
  <2>10. Fit(d, s)
    BY <2>1, <2>3, <2>7, <2>9 DEF Fit
  <2>11. QED
    BY <2>1, <2>10 DEF d
<1>3. QED
  BY <1>1, <1>2

LEMMA AddFits ==
  ASSUME NEW c \in Chunker, NEW s \in Nat, NEW len \in Nat \ {0}, Fit(c, s)
  PROVE  Fit(AddSegment(c, s + 1, len), s + 1)
<1> DEFINE room == IF WouldOverflow(c, len) THEN Flush(c, s) ELSE c
           full == [room EXCEPT !.chars = @ + len + 1]
<1>1. /\ room \in Chunker
      /\ Fit(room, s)
      /\ room.first < s + 1 => room.chars + len <= TARGET
  <2>1. CASE WouldOverflow(c, len)
    BY <2>1, FlushType, FlushFits
  <2>2. CASE ~WouldOverflow(c, len)
    BY <2>2, IndexAssumption DEF WouldOverflow, Fit, Chunker, IndexAssumption
  <2>3. QED
    BY <2>1, <2>2
<1>2. /\ full \in Chunker
      /\ full.closed = room.closed
      /\ full.first = room.first
      /\ full.chars = room.chars + len + 1
  BY <1>1 DEF Chunker
<1>3. AddSegment(c, s + 1, len) = IF full.chars >= MAX THEN Flush(full, s + 1) ELSE full
  BY DEF AddSegment
<1> HIDE DEF room, full
<1>4. room.first \in Nat /\ room.chars \in Nat
  BY <1>1 DEF Chunker
<1>5. /\ full.first <= s + 1
      /\ full.chars # 0
      /\ full.first < s + 1 => full.chars <= TARGET + 1
  BY <1>1, <1>2, <1>4, IndexAssumption DEF Fit, IndexAssumption
<1>6. Fit(full, s + 1)
  BY <1>1, <1>2, <1>4, <1>5 DEF Fit
<1>7. QED
  BY <1>2, <1>3, <1>6, FlushFits

-----------------------------------------------------------------------------
(* Types *)

LEMMA TypeInitial == ASSUME Init PROVE TypeOK
BY IndexAssumption DEF IndexAssumption, Init, TypeOK, Chunk

LEMMA ChunksType == ASSUME TypeOK PROVE Chunks \in Seq(Chunk)
BY FlushType, IndexAssumption DEF IndexAssumption, TypeOK, Chunks, Chunker

LEMMA ChunksTypeNext == ASSUME TypeOK' PROVE Chunks' \in Seq(Chunk)
BY FlushType, IndexAssumption DEF IndexAssumption, TypeOK, Chunks, Chunker

LEMMA RestType ==
  ASSUME TypeOK, NEW p \in Pollers, Rest(p)
  PROVE  /\ at' \in [Pollers -> {"idle", "fetch", "count", "embed"}]
         /\ got' \in [Pollers -> Seq(Chunk)]
         /\ have' \in [Pollers -> Nat]
BY DEF TypeOK, Rest

-----------------------------------------------------------------------------
(* Extends is a preorder *)

LEMMA ExtendsReflexive ==
  ASSUME NEW a \in Seq(Chunk)
  PROVE  Extends(a, a) /\ Extends(a, <<>>)
<1>1. ASSUME NEW i \in 1 .. Len(a)
      PROVE  a[i].last \in Nat
  <2>1. a[i] \in Chunk
    OBVIOUS
  <2>2. QED
    BY <2>1 DEF Chunk
<1>2. QED
  BY <1>1 DEF Extends

LEMMA ExtendsTransitive ==
  ASSUME NEW a \in Seq(Chunk), NEW b \in Seq(Chunk), NEW c \in Seq(Chunk),
         Extends(b, a), Extends(c, b)
  PROVE  Extends(c, a)
<1>1. Len(a) \in Nat /\ Len(b) \in Nat /\ Len(c) \in Nat
  OBVIOUS
<1>2. ASSUME NEW i \in 1 .. Len(a)
      PROVE  c[i].first = a[i].first /\ a[i].last <= c[i].last
  <2>1. i \in 1 .. Len(b) /\ i \in 1 .. Len(c)
    BY <1>1 DEF Extends
  <2>2. a[i] \in Chunk /\ b[i] \in Chunk /\ c[i] \in Chunk
    BY <2>1
  <2>3. a[i].last \in Nat /\ b[i].last \in Nat /\ c[i].last \in Nat
    BY <2>2 DEF Chunk
  <2>4. /\ b[i].first = a[i].first /\ a[i].last <= b[i].last
        /\ c[i].first = b[i].first /\ b[i].last <= c[i].last
    BY <2>1 DEF Extends
  <2>5. QED
    BY <2>3, <2>4
<1>3. QED
  BY <1>1, <1>2 DEF Extends

-----------------------------------------------------------------------------
(* The inductive invariant *)

Dense == \E n \in Nat : DOMAIN rows = 1 .. n

CountedStay == \A p \in Pollers : at[p] = "embed" => 1 .. have[p] \subseteq DOMAIN rows

FetchedEarlier == \A p \in Pollers : Extends(Chunks, got[p])

IInv ==
  /\ TypeOK
  /\ Dense
  /\ CountedStay
  /\ FetchedEarlier
  /\ StoredFromStart
  /\ Fit(chunker, spoken)

LEMMA DenseCounts ==
  ASSUME Dense
  PROVE  Cardinality(DOMAIN rows) \in Nat /\ DOMAIN rows = 1 .. Cardinality(DOMAIN rows)
<1>1. PICK n \in Nat : DOMAIN rows = 1 .. n
  BY DEF Dense
<1>2. Cardinality(1 .. n) = IF 1 > n THEN 0 ELSE n - 1 + 1
  BY FS_Interval
<1>3. Cardinality(1 .. n) = n
  BY <1>2
<1>4. QED
  BY <1>1, <1>3

LEMMA Initially == ASSUME Init PROVE IInv
<1>1. TypeOK
  BY TypeInitial
<1>2. DOMAIN rows = 1 .. 0
  BY DEF Init
<1>3. Fit(chunker, spoken)
  BY DEF Init, Fit
<1>4. Chunks = <<>>
  BY DEF Init, Chunks, Flush
<1>5. FetchedEarlier
  BY <1>4 DEF Init, FetchedEarlier, Extends
<1>6. QED
  BY <1>1, <1>2, <1>3, <1>5 DEF Init, IInv, Dense, CountedStay, StoredFromStart

LEMMA SpeakTypes ==
  ASSUME TypeOK, NEW len \in Lengths, Speak(len)
  PROVE  TypeOK'
<1>1. len \in Nat /\ spoken \in Nat /\ spoken + 1 \in Nat \ {0}
  BY IndexAssumption DEF IndexAssumption, TypeOK
<1>2. AddSegment(chunker, spoken + 1, len) \in Chunker
  BY <1>1, AddType DEF TypeOK, Chunker
<1>3. spoken' \in 0 .. MaxSegments
  BY <1>1, IndexAssumption DEF Speak, IndexAssumption
<1>4. QED
  BY <1>2, <1>3 DEF Speak, TypeOK, Chunker

LEMMA IndexTypes ==
  ASSUME TypeOK, Dense, NEW p \in Pollers, Index(p)
  PROVE  TypeOK'
<1>1. CASE Select(p)
  BY <1>1 DEF Select, TypeOK, meeting
<1>2. CASE Fetch(p)
  <2>1. CASE Rest(p)
    BY <1>2, <2>1, RestType DEF Fetch, TypeOK, meeting
  <2>2. CASE Chunks # <<>>
    BY <1>2, <2>2, ChunksType DEF Fetch, TypeOK, meeting
  <2>3. QED
    BY <1>2, <2>1, <2>2 DEF Fetch
<1>3. CASE Count(p)
  <2>1. CASE Rest(p)
    BY <1>3, <2>1, RestType DEF Count, TypeOK, meeting
  <2>2. CASE /\ have' = [have EXCEPT ![p] = Cardinality(DOMAIN rows)]
             /\ at' = [at EXCEPT ![p] = "embed"]
             /\ UNCHANGED got
    BY <1>3, <2>2, DenseCounts DEF Count, TypeOK, meeting
  <2>3. QED
    BY <1>3, <2>1, <2>2 DEF Count
<1>4. CASE CallFails(p)
  <2>1. failures' \in 0 .. MaxFailures
    BY <1>4, IndexAssumption DEF CallFails, TypeOK, IndexAssumption
  <2>2. QED
    BY <1>4, <2>1, RestType DEF CallFails, TypeOK, meeting
<1>5. CASE Insert(p)
  <2>1. New(p) \subseteq 1 .. Len(got[p])
    BY <1>5 DEF New, TypeOK
  <2>2. \A i \in New(p) : got[p][i] \in Chunk
    BY <2>1 DEF TypeOK
  <2>3. /\ DOMAIN rows' \subseteq Nat
        /\ \A i \in DOMAIN rows' : rows'[i] \in Chunk
    BY <1>5, <2>1, <2>2 DEF Insert, TypeOK
  <2>4. QED
    BY <1>5, <2>3, RestType DEF Insert, TypeOK, meeting
<1>6. QED
  BY <1>1, <1>2, <1>3, <1>4, <1>5 DEF Index

LEMMA CrashTypes ==
  ASSUME TypeOK, Crash
  PROVE  TypeOK'
<1>1. crashes' \in 0 .. MaxCrashes
  BY IndexAssumption DEF Crash, TypeOK, IndexAssumption
<1>2. <<>> \in Seq(Chunk)
  OBVIOUS
<1>3. QED
  BY <1>1, <1>2 DEF Crash, TypeOK, meeting

LEMMA Types ==
  ASSUME TypeOK, Dense, [Next]_vars
  PROVE  TypeOK'
<1>1. CASE UNCHANGED vars
  BY <1>1 DEF vars, TypeOK
<1>2. CASE End
  BY <1>2 DEF End, TypeOK
<1>3. QED
  BY <1>1, <1>2, SpeakTypes, IndexTypes, CrashTypes DEF Next

(* Whatever happens, the chunks of the transcript extend what they were.     *)
LEMMA ChunksStep ==
  ASSUME TypeOK, [Next]_vars
  PROVE  Extends(Chunks', Chunks)
<1>1. chunker \in Chunker /\ spoken \in Nat
  BY IndexAssumption DEF TypeOK, Chunker, IndexAssumption
<1>2. ASSUME NEW len \in Lengths, Speak(len)
      PROVE  Extends(Chunks', Chunks)
  <2>1. len \in Nat
    BY IndexAssumption DEF IndexAssumption
  <2>2. Chunks' = Flush(AddSegment(chunker, spoken + 1, len), spoken + 1).closed
    BY <1>2 DEF Chunks, Speak
  <2>3. QED
    BY <1>1, <2>1, <2>2, ChunksGrow DEF Chunks
<1>3. CASE UNCHANGED <<spoken, chunker>>
  <2>1. Chunks' = Chunks
    BY <1>3 DEF Chunks
  <2>2. QED
    BY <2>1, ChunksType, ExtendsReflexive
<1>4. QED
  BY <1>2, <1>3 DEF Next, vars, meeting, End, Index, Select, Fetch, Count,
                    CallFails, Insert, Crash

LEMMA FitStep ==
  ASSUME TypeOK, Fit(chunker, spoken), [Next]_vars
  PROVE  Fit(chunker, spoken)'
<1>1. chunker \in Chunker /\ spoken \in Nat
  BY IndexAssumption DEF TypeOK, Chunker, IndexAssumption
<1>2. ASSUME NEW len \in Lengths, Speak(len)
      PROVE  Fit(chunker, spoken)'
  <2>1. len \in Nat \ {0}
    BY IndexAssumption DEF IndexAssumption
  <2>2. Fit(AddSegment(chunker, spoken + 1, len), spoken + 1)
    BY <1>1, <2>1, AddFits
  <2>3. QED
    BY <1>2, <2>2 DEF Speak, Fit
<1>3. CASE UNCHANGED <<spoken, chunker>>
  BY <1>3 DEF Fit
<1>4. QED
  BY <1>2, <1>3 DEF Next, vars, meeting, End, Index, Select, Fetch, Count,
                    CallFails, Insert, Crash

\* What a poller holds after a step: what it held, nothing, or the chunks of now.
LEMMA GotStep ==
  ASSUME TypeOK, [Next]_vars, NEW p \in Pollers
  PROVE  got'[p] \in {got[p], <<>>} \/ got'[p] = Chunks'
<1>1. ASSUME NEW q \in Pollers, Rest(q)
      PROVE  got'[p] \in {got[p], <<>>}
  BY <1>1 DEF Rest, TypeOK
<1>2. ASSUME NEW q \in Pollers, Fetch(q), ~Rest(q)
      PROVE  got'[p] = got[p] \/ got'[p] = Chunks'
  BY <1>2 DEF Fetch, TypeOK, Chunks, meeting
<1>3. QED
  BY <1>1, <1>2 DEF Next, vars, Speak, End, Index, Select, Fetch, Count, CallFails,
                    Insert, Crash

LEMMA FetchedStep ==
  ASSUME TypeOK, TypeOK', FetchedEarlier, [Next]_vars
  PROVE  FetchedEarlier'
<1>1. Chunks \in Seq(Chunk) /\ Chunks' \in Seq(Chunk)
  BY ChunksType, ChunksTypeNext
<1>2. ASSUME NEW p \in Pollers
      PROVE  Extends(Chunks', got'[p])
  <2>1. CASE got'[p] = got[p]
    <3>1. got[p] \in Seq(Chunk) /\ Extends(Chunks, got[p])
      BY DEF TypeOK, FetchedEarlier
    <3>2. QED
      BY <1>1, <2>1, <3>1, ChunksStep, ExtendsTransitive
  <2>2. CASE got'[p] = <<>> \/ got'[p] = Chunks'
    BY <1>1, <2>2, ExtendsReflexive
  <2>3. QED
    BY <2>1, <2>2, GotStep
<1>3. QED
  BY <1>2 DEF FetchedEarlier

LEMMA RowsStep ==
  ASSUME [Next]_vars
  PROVE  rows' = rows \/ \E p \in Pollers : Insert(p)
BY DEF Next, vars, Speak, End, Index, Select, Fetch, Count, CallFails, Crash

LEMMA InsertKeepsDense ==
  ASSUME TypeOK, Dense, CountedStay, NEW p \in Pollers, Insert(p)
  PROVE  Dense' /\ DOMAIN rows \subseteq DOMAIN rows'
<1>1. PICK n \in Nat : DOMAIN rows = 1 .. n
  BY DEF Dense
<1>2. have[p] \in Nat /\ Len(got[p]) \in Nat
  BY DEF TypeOK
<1>3. 1 .. have[p] \subseteq 1 .. n
  BY <1>1 DEF Insert, CountedStay
<1>4. have[p] <= n
  BY <1>2, <1>3
<1>5. DOMAIN rows' = DOMAIN rows \cup (have[p] + 1 .. Len(got[p]))
  BY DEF Insert, New
<1>6. \E m \in Nat : DOMAIN rows' = 1 .. m
  <2>1. CASE Len(got[p]) <= n
    <3>1. DOMAIN rows' = 1 .. n
      BY <1>1, <1>2, <1>4, <1>5, <2>1
    <3>2. QED
      BY <3>1
  <2>2. CASE n < Len(got[p])
    <3>1. DOMAIN rows' = 1 .. Len(got[p])
      BY <1>1, <1>2, <1>4, <1>5, <2>2
    <3>2. QED
      BY <1>2, <3>1
  <2>3. QED
    BY <1>2, <2>1, <2>2
<1>7. QED
  BY <1>5, <1>6 DEF Dense

LEMMA DenseStep ==
  ASSUME TypeOK, Dense, CountedStay, [Next]_vars
  PROVE  Dense' /\ DOMAIN rows \subseteq DOMAIN rows'
<1>1. CASE rows' = rows
  BY <1>1 DEF Dense
<1>2. QED
  BY <1>1, RowsStep, InsertKeepsDense

LEMMA CountedStep ==
  ASSUME TypeOK, Dense, CountedStay, [Next]_vars
  PROVE  CountedStay'
<1>1. ASSUME NEW p \in Pollers, at'[p] = "embed"
      PROVE  1 .. have'[p] \subseteq DOMAIN rows
  <2>1. ASSUME NEW q \in Pollers, Rest(q)
        PROVE  at'[p] = at[p] /\ have'[p] = have[p]
    BY <1>1, <2>1 DEF Rest, TypeOK
  <2>2. ASSUME NEW q \in Pollers, Count(q), ~Rest(q)
        PROVE  1 .. have'[p] \subseteq DOMAIN rows
    <3>1. CASE p = q
      BY <2>2, <3>1, DenseCounts DEF Count, TypeOK
    <3>2. CASE p # q
      BY <1>1, <2>2, <3>2 DEF Count, TypeOK, CountedStay
    <3>3. QED
      BY <3>1, <3>2
  <2>3. ASSUME NEW q \in Pollers, Select(q) \/ (Fetch(q) /\ ~Rest(q))
        PROVE  at'[p] = at[p] /\ have'[p] = have[p]
    BY <1>1, <2>3 DEF Select, Fetch, TypeOK
  <2>4. CASE Crash
    BY <1>1, <2>4 DEF Crash
  <2>5. CASE UNCHANGED <<at, have>>
    BY <1>1, <2>5 DEF CountedStay
  <2>6. QED
    BY <1>1, <2>1, <2>2, <2>3, <2>4, <2>5
       DEF Next, vars, Speak, End, Index, CallFails, Insert, CountedStay
<1>2. QED
  BY <1>1, DenseStep DEF CountedStay

LEMMA StoredStep ==
  ASSUME TypeOK, TypeOK', CountedStay, FetchedEarlier, StoredFromStart, Dense, [Next]_vars
  PROVE  StoredFromStart'
<1>1. /\ Chunks \in Seq(Chunk) /\ Chunks' \in Seq(Chunk)
      /\ Extends(Chunks', Chunks)
  BY ChunksType, ChunksTypeNext, ChunksStep
<1>2. ASSUME NEW i \in DOMAIN rows
      PROVE  /\ i <= Len(Chunks')
             /\ rows[i].first = Chunks'[i].first
             /\ rows[i].last <= Chunks'[i].last
  <2>1. i \in 1 .. Len(Chunks)
    BY DEF StoredFromStart, Dense
  <2>2. i \in 1 .. Len(Chunks')
    BY <1>1, <2>1 DEF Extends
  <2>3. rows[i] \in Chunk /\ Chunks[i] \in Chunk /\ Chunks'[i] \in Chunk
    BY <1>1, <2>1, <2>2 DEF TypeOK
  <2>4. rows[i].last \in Nat /\ Chunks[i].last \in Nat /\ Chunks'[i].last \in Nat
    BY <2>3 DEF Chunk
  <2>5. /\ rows[i].first = Chunks[i].first /\ rows[i].last <= Chunks[i].last
        /\ Chunks'[i].first = Chunks[i].first /\ Chunks[i].last <= Chunks'[i].last
    BY <1>1, <2>1 DEF StoredFromStart, Extends
  <2>6. QED
    BY <2>2, <2>4, <2>5
<1>3. CASE rows' = rows
  BY <1>2, <1>3 DEF StoredFromStart
<1>4. ASSUME NEW p \in Pollers, Insert(p)
      PROVE  StoredFromStart'
  <2>1. Chunks' = Chunks /\ got[p] \in Seq(Chunk) /\ Extends(Chunks, got[p])
    BY <1>4 DEF Insert, Chunks, meeting, TypeOK, FetchedEarlier
  <2>2. have[p] \in Nat
    BY DEF TypeOK
  <2>3. ASSUME NEW i \in New(p)
        PROVE  /\ i <= Len(Chunks)
               /\ got[p][i].first = Chunks[i].first
               /\ got[p][i].last <= Chunks[i].last
    <3>1. i \in 1 .. Len(got[p])
      BY <2>1, <2>2 DEF New
    <3>2. QED
      BY <1>1, <2>1, <3>1 DEF Extends
  <2>4. QED
    BY <1>2, <1>4, <2>1, <2>3 DEF Insert, StoredFromStart
<1>5. QED
  BY <1>3, <1>4, RowsStep

LEMMA Inductive ==
  ASSUME IInv, [Next]_vars
  PROVE  IInv'
<1>1. TypeOK'
  BY Types DEF IInv
<1>2. QED
  BY <1>1, DenseStep, CountedStep, FetchedStep, StoredStep, FitStep DEF IInv

(* The chunker's fold fits the transcript, the rows are dense, and what the   *)
(* pollers counted and fetched stays a part of what there is: inductive.      *)
THEOREM Invariant == Spec => []IInv
<1>1. IInv /\ [Next]_vars => IInv'
  BY Inductive
<1>2. QED
  BY Initially, <1>1, PTL DEF Spec

-----------------------------------------------------------------------------
(* The theorems *)

(* Rows, pollers and the fold keep their types.                              *)
THEOREM TypeCorrect == Spec => []TypeOK
<1>1. IInv => TypeOK
  BY DEF IInv
<1>2. QED
  BY <1>1, Invariant, PTL

(* The rows stay numbered without a gap, for any number of pollers that      *)
(* insert what they fetched at different times: counting them is enough to   *)
(* know what is missing.                                                     *)
THEOREM NoGaps == Spec => []Gapless
<1>1. IInv => Gapless
  BY DenseCounts DEF IInv, Gapless
<1>2. QED
  BY <1>1, Invariant, PTL

(* A stored row is never under a wrong number and holds nothing its chunk    *)
(* does not hold, however long the transcript gets.                          *)
THEOREM StoredUnderItsNumber == Spec => []StoredFromStart
<1>1. IInv => StoredFromStart
  BY DEF IInv
<1>2. QED
  BY <1>1, Invariant, PTL

(* Rows are never changed, and a row is cut off only where it was the last   *)
(* chunk of a transcript: it was the end of what its poller had fetched, or  *)
(* the end of the transcript until somebody spoke. All other rows are what   *)
(* retrieval.py:15-16 says of all: the text of their chunk, for good.        *)
THEOREM OnlyTailsAreCut ==
  Spec => [][/\ \A i \in DOMAIN rows : i \in DOMAIN rows' /\ rows'[i] = rows[i]
             /\ \A i \in DOMAIN rows' :
                  \/ rows'[i] = Chunks'[i]
                  \/ i \in DOMAIN rows /\ (rows[i] # Chunks[i] \/ i = Len(Chunks))
                  \/ \E p \in Pollers : Insert(p) /\ i = Len(got[p])]_vars
<1> DEFINE Kept == \A i \in DOMAIN rows : i \in DOMAIN rows' /\ rows'[i] = rows[i]
           Cut(i) == \/ rows'[i] = Chunks'[i]
                     \/ i \in DOMAIN rows /\ (rows[i] # Chunks[i] \/ i = Len(Chunks))
                     \/ \E p \in Pollers : Insert(p) /\ i = Len(got[p])
<1>1. ASSUME IInv, [Next]_vars
      PROVE  Kept /\ \A i \in DOMAIN rows' : Cut(i)
  <2>1. /\ Chunks \in Seq(Chunk) /\ Len(Chunks) \in Nat
        /\ \A i \in 1 .. Len(Chunks) - 1 : Chunks'[i] = Chunks[i]
    BY <1>1, ChunksType, ChunksStep DEF IInv, Extends
  <2>2. Kept
    BY <1>1, RowsStep DEF Insert
  <2>3. ASSUME NEW i \in DOMAIN rows PROVE Cut(i)
    <3>1. i \in 1 .. Len(Chunks)
      BY <1>1, <2>3 DEF IInv, StoredFromStart, Dense
    <3>2. CASE i = Len(Chunks)
      BY <2>3, <3>2
    <3>3. CASE i \in 1 .. Len(Chunks) - 1
      BY <2>1, <2>2, <2>3, <3>3
    <3> QED
      BY <2>1, <3>1, <3>2, <3>3
  <2>4. ASSUME NEW p \in Pollers, Insert(p), NEW i \in New(p), i \notin DOMAIN rows
        PROVE  Cut(i)
    <3>1. /\ got[p] \in Seq(Chunk) /\ Len(got[p]) \in Nat /\ have[p] \in Nat
          /\ Extends(Chunks, got[p]) /\ Chunks' = Chunks
      BY <1>1, <2>4 DEF IInv, TypeOK, FetchedEarlier, Insert, meeting, Chunks
    <3>2. i \in 1 .. Len(got[p])
      BY <2>4, <3>1 DEF New
    <3>3. i # Len(got[p]) => Chunks[i] = got[p][i]
      BY <3>1, <3>2 DEF Extends
    <3>4. rows'[i] = got[p][i]
      BY <2>4 DEF Insert
    <3> QED
      BY <2>4, <3>1, <3>3, <3>4
  <2>5. \A i \in DOMAIN rows' : i \in DOMAIN rows \/ \E p \in Pollers : Insert(p) /\ i \in New(p)
    BY <1>1, RowsStep DEF Insert
  <2> QED
    BY <2>2, <2>3, <2>4, <2>5
<1>2. IInv /\ [Next]_vars => [Kept /\ \A i \in DOMAIN rows' : Cut(i)]_vars
  BY <1>1
<1>3. QED
  BY <1>2, Invariant, PTL DEF Spec

(* The safe half of EveryChunkIndexed: a poller that comes to its insert     *)
(* leaves no chunk of what it fetched without a row, whatever others have    *)
(* inserted since it counted.                                                *)
THEOREM EachInsertCompletes ==
  Spec => [][\A p \in Pollers : Insert(p) => 1 .. Len(got[p]) \subseteq DOMAIN rows']_vars
<1>1. ASSUME IInv, NEW p \in Pollers, Insert(p)
      PROVE  1 .. Len(got[p]) \subseteq DOMAIN rows'
  <2>1. have[p] \in Nat /\ Len(got[p]) \in Nat /\ 1 .. have[p] \subseteq DOMAIN rows
    BY <1>1 DEF IInv, TypeOK, CountedStay, Insert
  <2>2. DOMAIN rows' = DOMAIN rows \cup (have[p] + 1 .. Len(got[p]))
    BY <1>1 DEF Insert, New
  <2>3. \A i \in 1 .. Len(got[p]) : i \in 1 .. have[p] \/ i \in have[p] + 1 .. Len(got[p])
    BY <2>1
  <2> QED
    BY <2>1, <2>2, <2>3
<1>2. IInv /\ [Next]_vars
        => [\A p \in Pollers : Insert(p) => 1 .. Len(got[p]) \subseteq DOMAIN rows']_vars
  BY <1>1
<1>3. QED
  BY <1>2, Invariant, PTL DEF Spec

(* chunk_segments cuts every transcript into runs that follow each other,    *)
(* none but a single segment longer than the target.                         *)
THEOREM ChunksCutTheTranscript == Spec => []ChunksPartition
<1>1. ASSUME IInv
      PROVE  ChunksPartition
  <2> DEFINE d == Flush(chunker, spoken)
             n == Len(d.closed)
  <2>1. chunker \in Chunker /\ spoken \in Nat
    BY <1>1, IndexAssumption DEF IInv, TypeOK, Chunker, IndexAssumption
  <2>2. Fit(d, spoken) /\ d.first = spoken + 1 /\ d \in Chunker
    BY <1>1, <2>1, FlushFits, FlushType DEF IInv
  <2>3. d.closed \in Seq(Chunk) /\ n \in Nat
    BY <2>2 DEF Chunker
  <2>4. Chunks = d.closed
    BY DEF Chunks
  <2> HIDE DEF d
  <2>5. CASE d.closed = <<>>
    <3>1. spoken = 0
      BY <2>1, <2>2, <2>5 DEF Fit
    <3>2. QED
      BY <2>4, <2>5, <3>1 DEF ChunksPartition
  <2>6. CASE d.closed # <<>>
    <3>1. n \in 1 .. n /\ d.closed[n] \in Chunk
      BY <2>3, <2>6
    <3>2. d.closed[n].last = spoken
      BY <2>1, <2>2, <2>6, <3>1 DEF Fit, Chunk
    <3>3. spoken # 0
      BY <2>1, <2>2, <3>1, <3>2 DEF Fit, Chunk
    <3>4. QED
      BY <2>2, <2>4, <2>6, <3>2, <3>3 DEF ChunksPartition, Fit
  <2>7. QED
    BY <2>5, <2>6
<1>2. QED
  BY <1>1, Invariant, PTL
=============================================================================
