--------------------------- MODULE TranscriptIndex ---------------------------
(***************************************************************************)
(* The retrieval index of a live meeting: services/copilot/chunker.py cuts *)
(* the growing transcript into chunks, retrieval.index_transcript embeds   *)
(* and stores the chunks that have no row yet.                             *)
(*                                                                         *)
(* chunk_segments is a left fold over the segments with a flush at the     *)
(* end, so what it returns for the transcript so far is known from the     *)
(* state of the fold: the chunks it has closed and the buffer it would     *)
(* flush. A chunk's text is the run of segments it covers. Chunk numbers   *)
(* start with 1 here, with 0 in the code.                                  *)
(***************************************************************************)
EXTENDS Naturals, Sequences, FiniteSets

CONSTANTS
  Pollers,     (* copilot chat loops at work on the meeting                  *)
  Lengths,     (* lengths a segment's line may have                          *)
  TARGET,      (* TARGET_CHARS                                               *)
  MAX,         (* MAX_CHARS                                                  *)
  MaxSegments, (* bound: segments of the transcript                          *)
  MaxFailures, (* bound: remote calls that fail                              *)
  MaxCrashes   (* bound: restarts of the process                             *)

ASSUME IndexAssumption ==
  /\ Lengths \subseteq Nat \ {0}    \* normalize_segment drops empty ones
  /\ TARGET \in Nat \ {0}
  /\ MAX \in Nat \ {0}
  /\ TARGET < MAX
  /\ MaxSegments \in Nat
  /\ MaxFailures \in Nat
  /\ MaxCrashes \in Nat

VARIABLES
  spoken,   (* segments Vexa's transcript has                                *)
  chunker,  (* the fold over them                                            *)
  live,     (* the meeting is JOINING or ACTIVE with a bot                   *)
  rows,     (* the transcript_chunks rows, by chunk number                   *)
  at,       (* where each poller is                                          *)
  got,      (* the chunks of the transcript the poller fetched               *)
  have,     (* the number of rows it counted                                 *)
  failures,
  crashes

vars == <<spoken, chunker, live, rows, at, got, have, failures, crashes>>
meeting == <<spoken, chunker, live>>

Chunk == [first : Nat, last : Nat, chars : Nat]

Init ==
  /\ spoken = 0
  /\ chunker = [closed |-> <<>>, first |-> 1, chars |-> 0]
  /\ live = TRUE
  /\ rows = <<>>
  /\ at = [p \in Pollers |-> "idle"]
  /\ got = [p \in Pollers |-> <<>>]
  /\ have = [p \in Pollers |-> 0]
  /\ failures = 0
  /\ crashes = 0

-----------------------------------------------------------------------------
(* chunk_segments *)

\* variant: an empty buffer is flushed, too
FlushEmpty(c, last) ==
  [closed |-> Append(c.closed, [first |-> c.first, last |-> last,
                                chars |-> c.chars - 1]),
   first |-> last + 1, chars |-> 0]

\* The buffer, which ends with segment last, becomes a chunk; its text has one
\* newline less than the buffer has lines.
Flush(c, last) ==
  IF c.chars = 0
    THEN c
    ELSE [closed |-> Append(c.closed, [first |-> c.first, last |-> last,
                                       chars |-> c.chars - 1]),
          first |-> last + 1, chars |-> 0]

\* variant: full when it is past the target, not when it would be
IsFull(c, len) == c.chars > TARGET

\* Adding a line of that length would push the buffer past the target.
WouldOverflow(c, len) == c.chars > 0 /\ c.chars + len > TARGET

\* The fold's step: segment s, whose line has length len.
AddSegment(c, s, len) ==
  LET room == IF WouldOverflow(c, len) THEN Flush(c, s - 1) ELSE c
      full == [room EXCEPT !.chars = @ + len + 1]
  IN IF full.chars >= MAX THEN Flush(full, s) ELSE full

\* variant: a short rest is joined to the chunk before it
ChunksJoined ==
  LET closed == chunker.closed
      n == Len(closed)
  IN IF n > 0 /\ 0 < chunker.chars /\ chunker.chars < TARGET
       THEN [closed EXCEPT ![n] = [first |-> @.first, last |-> spoken,
                                   chars |-> @.chars + chunker.chars]]
       ELSE Flush(chunker, spoken).closed

\* What chunk_segments returns for the transcript so far.
Chunks == Flush(chunker, spoken).closed

-----------------------------------------------------------------------------
(* The meeting *)

Speak(len) ==
  /\ live
  /\ spoken < MaxSegments
  /\ spoken' = spoken + 1
  /\ chunker' = AddSegment(chunker, spoken + 1, len)
  /\ UNCHANGED <<live, rows, at, got, have, failures, crashes>>

End ==
  /\ live
  /\ live' = FALSE
  /\ UNCHANGED <<spoken, chunker, rows, at, got, have, failures, crashes>>

-----------------------------------------------------------------------------
(* index_transcript, called by copilot_chat_tick *)

Rest(p) ==
  /\ at' = [at EXCEPT ![p] = "idle"]
  /\ got' = [got EXCEPT ![p] = <<>>]
  /\ have' = [have EXCEPT ![p] = 0]

\* The meeting is one of _live_meeting_ids.
Select(p) ==
  /\ at[p] = "idle"
  /\ live
  /\ at' = [at EXCEPT ![p] = "fetch"]
  /\ UNCHANGED <<meeting, rows, got, have, failures, crashes>>

\* get_transcript answers and is cut into chunks.
Fetch(p) ==
  /\ at[p] = "fetch"
  /\ IF Chunks = <<>>
       THEN Rest(p)
       ELSE /\ got' = [got EXCEPT ![p] = Chunks]
            /\ at' = [at EXCEPT ![p] = "count"]
            /\ UNCHANGED have
  /\ UNCHANGED <<meeting, rows, failures, crashes>>

\* variant: the last chunk is held back
CountHoldingBack(p) ==
  /\ at[p] = "count"
  /\ IF Len(got[p]) <= Cardinality(DOMAIN rows) + 1
       THEN Rest(p)
       ELSE /\ have' = [have EXCEPT ![p] = Cardinality(DOMAIN rows)]
            /\ at' = [at EXCEPT ![p] = "embed"]
            /\ UNCHANGED got
  /\ UNCHANGED <<meeting, rows, failures, crashes>>

\* _existing_chunk_count: the chunks beyond that number are the new ones.
Count(p) ==
  /\ at[p] = "count"
  /\ IF Len(got[p]) <= Cardinality(DOMAIN rows)
       THEN Rest(p)
       ELSE /\ have' = [have EXCEPT ![p] = Cardinality(DOMAIN rows)]
            /\ at' = [at EXCEPT ![p] = "embed"]
            /\ UNCHANGED got
  /\ UNCHANGED <<meeting, rows, failures, crashes>>

\* get_transcript or embed_documents raises; the tick logs it.
CallFails(p) ==
  /\ at[p] \in {"fetch", "embed"}
  /\ failures < MaxFailures
  /\ failures' = failures + 1
  /\ Rest(p)
  /\ UNCHANGED <<meeting, rows, crashes>>

\* variant: off by one
NewAfterNext(p) == have[p] + 2 .. Len(got[p])

New(p) == have[p] + 1 .. Len(got[p])

\* INSERT of the embedded chunks, ON CONFLICT (meeting_id, chunk_index) DO
\* NOTHING.
Insert(p) ==
  /\ at[p] = "embed"
  /\ rows' = [i \in DOMAIN rows \cup New(p) |->
                IF i \in DOMAIN rows THEN rows[i] ELSE got[p][i]]
  /\ Rest(p)
  /\ UNCHANGED <<meeting, failures, crashes>>

Crash ==
  /\ crashes < MaxCrashes
  /\ crashes' = crashes + 1
  /\ at' = [p \in Pollers |-> "idle"]
  /\ got' = [p \in Pollers |-> <<>>]
  /\ have' = [p \in Pollers |-> 0]
  /\ UNCHANGED <<meeting, rows, failures>>

Index(p) == Select(p) \/ Fetch(p) \/ Count(p) \/ CallFails(p) \/ Insert(p)

Next == \/ \E len \in Lengths : Speak(len)
        \/ End
        \/ \E p \in Pollers : Index(p)
        \/ Crash

Spec == Init /\ [][Next]_vars

\* The loop calls the tick for ever and its awaits end. Nobody must speak.
FairSpec == Spec /\ \A p \in Pollers : WF_vars(Index(p))

-----------------------------------------------------------------------------
(* Properties *)

TypeOK ==
  /\ spoken \in 0 .. MaxSegments
  /\ chunker \in [closed : Seq(Chunk), first : Nat, chars : Nat]
  /\ live \in BOOLEAN
  /\ DOMAIN rows \subseteq Nat
  /\ \A i \in DOMAIN rows : rows[i] \in Chunk
  /\ at \in [Pollers -> {"idle", "fetch", "count", "embed"}]
  /\ got \in [Pollers -> Seq(Chunk)]
  /\ have \in [Pollers -> Nat]
  /\ failures \in 0 .. MaxFailures
  /\ crashes \in 0 .. MaxCrashes

(* The rows are numbered without a gap, so that their number tells the first *)
(* chunk that has none: what index_transcript relies on, also when pollers   *)
(* insert chunks of transcripts they fetched at different times.             *)
Gapless == DOMAIN rows = 1 .. Cardinality(DOMAIN rows)

(* A stored row starts where chunk i of the present transcript starts and    *)
(* holds nothing chunk i does not hold: however the transcript grows and     *)
(* whoever stored it, no text is stored under a wrong number or twice.       *)
StoredFromStart ==
  \A i \in DOMAIN rows :
    /\ i <= Len(Chunks)
    /\ rows[i].first = Chunks[i].first
    /\ rows[i].last <= Chunks[i].last

(* The chunks are a partition of the transcript into runs, and only a single *)
(* segment makes a chunk longer than TARGET_CHARS.                           *)
ChunksPartition ==
  LET c == Chunks
  IN /\ (c = <<>>) = (spoken = 0)
     /\ c # <<>> => c[1].first = 1 /\ c[Len(c)].last = spoken
     /\ \A i \in 1 .. Len(c) :
          /\ i > 1 => c[i].first = c[i - 1].last + 1
          /\ c[i].first <= c[i].last
          /\ c[i].first < c[i].last => c[i].chars <= TARGET

(* While the meeting is on, every chunk gets its row in the end.             *)
EveryChunkIndexed ==
  \A i \in 1 .. MaxSegments : Len(Chunks) >= i ~> i \in DOMAIN rows \/ ~live
=============================================================================
