----------------------------- MODULE TokenCache -----------------------------
(***************************************************************************)
(* The Google access token shared by the calendar and Gmail clients:       *)
(* services/google/token.get_access_token with its module-level cache and  *)
(* asyncio.Lock, and services/http.request_with_retries under it.          *)
(*                                                                         *)
(* Google is external: it issues a token at some moment of the request, so *)
(* that by the time the answer is here the token has lived already. Time   *)
(* is a number of seconds that the callers cannot stop, except that a      *)
(* request does not outlive its deadline. The lock is its queue, the       *)
(* holder first: asyncio.Lock wakes waiters in order.                      *)
(***************************************************************************)
EXTENDS Integers, Sequences, SequencesExt

CONSTANTS
  Callers, (* coroutines that need a token                                   *)
  LIFE,    (* expires_in of a token                                          *)
  SKEW,    (* _EXPIRY_SKEW_SECONDS                                           *)
  LATENCY, (* longest time from issuing a token to hearing of it             *)
  RETRIES, (* retries of request_with_retries                                *)
  MaxTime  (* bound: the clock                                               *)

ASSUME CacheAssumption ==
  /\ LIFE \in Nat /\ SKEW \in Nat /\ LATENCY \in Nat
  /\ LATENCY < SKEW      \* httpx.Timeout(10.0) against 60 seconds
  /\ SKEW < LIFE
  /\ RETRIES \in Nat
  /\ MaxTime \in Nat

VARIABLES
  now,    (* time.monotonic()                                                *)
  expiry, (* _cached_expiry; 0 before there is a token                       *)
  until,  (* when Google stops accepting the cached token                    *)
  queue,  (* who holds the lock and who waits for it                         *)
  at,     (* where each caller is                                            *)
  tries,  (* retries it has used up                                          *)
  issued, (* when Google issued the token it is waiting for                  *)
  stored  (* history: tokens that were cached                                *)

vars == <<now, expiry, until, queue, at, tries, issued, stored>>
cache == <<expiry, until, stored>>

Places == {"idle", "lock", "post", "answer", "has"}

Init ==
  /\ now = 0
  /\ expiry = 0
  /\ until = 0
  /\ queue = <<>>
  /\ at = [c \in Callers |-> "idle"]
  /\ tries = [c \in Callers |-> 0]
  /\ issued = [c \in Callers |-> 0]
  /\ stored = 0

-----------------------------------------------------------------------------

\* There is a token, and it is not due for a refresh.
Valid == stored > 0 /\ now < expiry

\* variant: no second look under the lock
NoRecheck == FALSE

\* The look at the cache once the lock is held.
Recheck == Valid

Put(c, place) == at' = [at EXCEPT ![c] = place]

\* The first look, without the lock.
Ask(c) ==
  /\ at[c] = "idle"
  /\ IF Valid
       THEN Put(c, "has") /\ UNCHANGED queue
       ELSE Put(c, "lock") /\ queue' = Append(queue, c)
  /\ UNCHANGED <<now, cache, tries, issued>>

Holds(c) == queue # <<>> /\ Head(queue) = c

\* The caller is done with the lock.
Leave(c, place) ==
  /\ Put(c, place)
  /\ tries' = [tries EXCEPT ![c] = 0]
  /\ issued' = [issued EXCEPT ![c] = 0]

Release == queue' = Tail(queue)

\* The lock is held: somebody may have refreshed meanwhile.
Enter(c) ==
  /\ at[c] = "lock"
  /\ Holds(c)
  /\ IF Recheck
       THEN Put(c, "has") /\ Release
       ELSE Put(c, "post") /\ UNCHANGED queue
  /\ UNCHANGED <<now, cache, tries, issued>>

\* Google issues a token.
Issue(c) ==
  /\ at[c] = "post"
  /\ issued' = [issued EXCEPT ![c] = now]
  /\ Put(c, "answer")
  /\ UNCHANGED <<now, cache, queue, tries>>

\* variant: the margin is forgotten
WholeLife == now + LIFE

\* _cached_expiry after an answer that is here now.
Expiry == now + LIFE - SKEW

\* The answer is here: cached, returned.
Store(c) ==
  /\ at[c] = "answer"
  /\ expiry' = Expiry
  /\ until' = issued[c] + LIFE
  /\ stored' = stored + 1
  /\ Leave(c, "has")
  /\ Release
  /\ UNCHANGED now

\* variant: one retry too many
RetriesPast(c) == tries[c] <= RETRIES

RetriesLeft(c) == tries[c] < RETRIES

\* A transport error or a status worth a retry, before or after Google acted.
Retry(c) ==
  /\ at[c] \in {"post", "answer"}
  /\ RetriesLeft(c)
  /\ tries' = [tries EXCEPT ![c] = @ + 1]
  /\ issued' = [issued EXCEPT ![c] = 0]
  /\ Put(c, "post")
  /\ UNCHANGED <<now, cache, queue>>

\* variant: the lock is not released when the refresh fails
RefusedHolding(c) ==
  /\ at[c] \in {"post", "answer"}
  /\ Leave(c, "idle")
  /\ UNCHANGED <<now, cache, queue>>

\* The refresh is refused, or the last try is lost: raised to the caller.
Refused(c) ==
  /\ at[c] \in {"post", "answer"}
  /\ Leave(c, "idle")
  /\ Release
  /\ UNCHANGED <<now, cache>>

\* runner.stop cancels the caller while it waits for the lock or for Google.
Cancel(c) ==
  /\ at[c] \in {"lock", "post", "answer"}
  /\ Leave(c, "idle")
  /\ \E i \in DOMAIN queue : queue[i] = c /\ queue' = RemoveAt(queue, i)
  /\ UNCHANGED <<now, cache>>

\* The caller is done with its token.
Use(c) ==
  /\ at[c] = "has"
  /\ Put(c, "idle")
  /\ UNCHANGED <<now, cache, queue, tries, issued>>

TimePasses ==
  /\ now < MaxTime
  /\ \A c \in Callers : at[c] = "answer" => now < issued[c] + LATENCY
  /\ now' = now + 1
  /\ UNCHANGED <<cache, queue, at, tries, issued>>

Serve(c) == Enter(c) \/ Issue(c) \/ Store(c) \/ Retry(c) \/ Refused(c)

Next ==
  \/ \E c \in Callers : Ask(c) \/ Serve(c) \/ Cancel(c) \/ Use(c)
  \/ TimePasses

Spec == Init /\ [][Next]_vars

FairSpec == Spec /\ \A c \in Callers : WF_vars(Serve(c))

-----------------------------------------------------------------------------

\* What may be stored where.
TypeOK ==
  /\ now \in Nat /\ expiry \in Nat /\ until \in Nat /\ stored \in Nat
  /\ queue \in Seq(Callers)
  /\ at \in [Callers -> Places]
  /\ tries \in [Callers -> 0 .. RETRIES]
  /\ issued \in [Callers -> Nat]

\* A token that is returned is good for longer than SKEW - LATENCY, whoever
\* refreshed it and however long its answer took ("a valid access token").
ReturnedIsFresh ==
  [][\A c \in Callers :
       at[c] # "has" /\ at'[c] = "has" => until' - now > SKEW - LATENCY]_vars

\* However many callers find the token expired together, it is refreshed once:
\* refreshes are as far apart as tokens are cached.
RefreshesSpaced ==
  stored * (LIFE - SKEW) <= now + (LIFE - SKEW)

\* Only the holder talks to Google, everybody else at the lock is in its queue,
\* once: a failure or a cancellation leaves nobody behind and nobody ahead.
LockIsItsQueue ==
  /\ \A c \in Callers : at[c] \in {"post", "answer"} => Holds(c)
  /\ \A c \in Callers :
       at[c] \in {"lock", "post", "answer"} <=> \E i \in DOMAIN queue : queue[i] = c
  /\ \A i, j \in DOMAIN queue : queue[i] = queue[j] => i = j

\* Nobody waits for ever, not behind failing refreshes either.
NobodyStarves ==
  \A c \in Callers : at[c] \in {"lock", "post", "answer"} ~> at[c] \in {"idle", "has"}
=============================================================================
