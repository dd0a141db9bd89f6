---------------------------- MODULE SingleFlightLru ----------------------------
(***************************************************************************)
(* The cache of portfolio analytics that the request threads share:        *)
(* SingleFlightLru of backend/app/services/analysis_cache.py.  A block     *)
(* under the lock of its condition is one action; the builder of a missing *)
(* value runs outside it.                                                  *)
(***************************************************************************)
EXTENDS Integers, Sequences, Functions

CONSTANTS
  Thread,
  Key,
  Flight,      \* _Pending objects; one is free again when no thread refers to it
  MaxEntries,  \* max_entries
  None

ASSUME CacheAssumption == MaxEntries \in Nat \ {0} /\ None \notin Flight

VARIABLES
  values,   \* the cached keys, least recently used first (OrderedDict)
  pending,  \* [Key -> the flight that builds its value, or None]
  flights,  \* [Flight -> how it stands]
  threads,  \* [Thread -> what its call does]
  asleep    \* threads that wait for the condition

vars == <<values, pending, flights, threads, asleep>>

Outcome == {"building", "value", "error"}
Idle == [pc |-> "idle"]
Building == [pc : {"building"}, key : Key, flight : Flight]
Waiting == [pc : {"waiting"}, flight : Flight]

Cached(k) == k \in Range(values)
Builds(t, k) == threads[t].pc = "building" /\ threads[t].key = k
Free(f) == \A t \in Thread : threads[t].pc # "idle" => threads[t].flight # f

\* move_to_end, after an insert if the key is new: k becomes the last of s.
Used(s, k) ==
  IF k \notin Range(s) THEN Append(s, k)
  ELSE LET i == CHOOSE i \in DOMAIN s : s[i] = k IN
       [j \in DOMAIN s |-> IF j < i THEN s[j] ELSE IF j < Len(s) THEN s[j + 1] ELSE k]

\* Variant: the entries are not counted.
Grown(s) == s

\* popitem(last=False) while there are too many.
Trimmed(s) == IF Len(s) > MaxEntries THEN SubSeq(s, Len(s) - MaxEntries + 1, Len(s)) ELSE s

Init ==
  /\ values = <<>>
  /\ pending = [k \in Key |-> None]
  /\ flights = [f \in Flight |-> "value"]
  /\ threads = [t \in Thread |-> Idle]
  /\ asleep = {}

-----------------------------------------------------------------------------
(* get_or_compute *)

Hit(t, k) ==
  /\ threads[t] = Idle
  /\ Cached(k)
  /\ values' = Used(values, k)
  /\ UNCHANGED <<pending, flights, threads, asleep>>

\* A flight that is pending is not done yet, so the thread goes to sleep.
Join(t, k) ==
  /\ threads[t] = Idle
  /\ ~Cached(k) /\ pending[k] # None
  /\ threads' = [threads EXCEPT ![t] = [pc |-> "waiting", flight |-> pending[k]]]
  /\ asleep' = asleep \cup {t}
  /\ UNCHANGED <<values, pending, flights>>

\* Variant: the flights in progress are not looked up.
MissAgain(t, k) ==
  /\ threads[t] = Idle
  /\ ~Cached(k)
  /\ \E f \in Flight :
       /\ Free(f)
       /\ threads' = [threads EXCEPT ![t] = [pc |-> "building", key |-> k, flight |-> f]]
       /\ pending' = [pending EXCEPT ![k] = f]
       /\ flights' = [flights EXCEPT ![f] = "building"]
  /\ UNCHANGED <<values, asleep>>

Miss(t, k) ==
  /\ threads[t] = Idle
  /\ ~Cached(k) /\ pending[k] = None
  /\ \E f \in Flight :
       /\ Free(f)
       /\ threads' = [threads EXCEPT ![t] = [pc |-> "building", key |-> k, flight |-> f]]
       /\ pending' = [pending EXCEPT ![k] = f]
       /\ flights' = [flights EXCEPT ![f] = "building"]
  /\ UNCHANGED <<values, asleep>>

\* Variant: only one waiter is woken.
NotifyOne ==
  \/ asleep = {} /\ UNCHANGED asleep
  \/ \E t \in asleep : asleep' = asleep \ {t}

NotifyAll == asleep' = {}

\* The flight of t ends; pending forgets it and every waiter looks again.
Land(t, outcome) ==
  /\ threads[t].pc = "building"
  /\ flights' = [flights EXCEPT ![threads[t].flight] = outcome]
  /\ pending' = [pending EXCEPT ![threads[t].key] = None]
  /\ threads' = [threads EXCEPT ![t] = Idle]
  /\ NotifyAll

Succeed(t) == Land(t, "value") /\ values' = Trimmed(Used(values, threads[t].key))
Fail(t) == Land(t, "error") /\ UNCHANGED values

\* A woken thread returns the outcome of its flight, or sleeps again.
Wake(t) ==
  /\ threads[t].pc = "waiting" /\ t \notin asleep
  /\ IF flights[threads[t].flight] = "building"
     THEN asleep' = asleep \cup {t} /\ UNCHANGED threads
     ELSE threads' = [threads EXCEPT ![t] = Idle] /\ UNCHANGED asleep
  /\ UNCHANGED <<values, pending, flights>>

-----------------------------------------------------------------------------
Clear ==
  /\ values' = <<>>
  /\ UNCHANGED <<pending, flights, threads, asleep>>

Call(t) == \E k \in Key : Hit(t, k) \/ Join(t, k) \/ Miss(t, k)
Return(t) == Succeed(t) \/ Fail(t) \/ Wake(t)

Next == Clear \/ \E t \in Thread : Call(t) \/ Return(t)

Spec == Init /\ [][Next]_vars

\* A builder ends, and a thread that is not asleep is scheduled.
LiveSpec == Spec /\ \A t \in Thread : WF_vars(Return(t))

-----------------------------------------------------------------------------
\* The cache stays within its bound, and calls refer to flights.
TypeOK ==
  /\ values \in Seq(Key) /\ Len(values) <= MaxEntries
  /\ pending \in [Key -> Flight \cup {None}]
  /\ flights \in [Flight -> Outcome]
  /\ threads \in [Thread -> {Idle} \cup Building \cup Waiting]
  /\ asleep \subseteq Thread

\* Concurrent misses for a key share one builder, nothing is built that is
\* cached, and what is pending is exactly what is being built, however builders
\* fail and the cache is cleared or evicts meanwhile.
SingleFlight ==
  \A k \in Key :
    /\ \A t, u \in Thread : Builds(t, k) /\ Builds(u, k) => t = u
    /\ \A t \in Thread : Builds(t, k) => ~Cached(k) /\ pending[k] = threads[t].flight
    /\ pending[k] # None => \E t \in Thread : Builds(t, k)

\* No wakeup is lost: a sleeping thread's own flight is still being built.
NoLostWakeup ==
  \A t \in asleep :
    /\ threads[t].pc = "waiting"
    /\ \E u \in Thread : threads[u].pc = "building" /\ threads[u].flight = threads[t].flight

\* Every call returns, whatever the other keys' builders do.
EveryCallReturns == \A t \in Thread : threads[t].pc # "idle" ~> threads[t].pc = "idle"
=============================================================================
