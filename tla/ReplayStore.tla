---------------------------- MODULE ReplayStore ----------------------------
(***************************************************************************)
(* The replay store of replay.rs, in memory and with its file.             *)
(*                                                                         *)
(* An application records the nonce or the transcript digest of a message  *)
(* before it acts on it: Ok accepts it, ReplayDetected refuses it.  Nonces *)
(* and digests live in two maps that are treated alike and share their     *)
(* limit, so a key here is either.  ReplayStore is the map in memory;      *)
(* PersistentReplayStore is the same map, loaded from a file on open and   *)
(* written back, as a whole and in place, after every change.              *)
(***************************************************************************)
EXTENDS Integers, FiniteSets

CONSTANTS
    Keys,        \* nonces and transcript digests
    Processes,   \* the processes that use the file, one store at a time
    Ttls,        \* the TTLs a store is opened with, in ticks of the clock
    MaxEntries,  \* max_entries (100_000 in the code)
    MaxClock,    \* bound of the clock
    TimeLimit,   \* the first number past the time type (2^64 in the code)
    MayFail,     \* TRUE: writes may fail, and a process may die during one
    NoEntry, Missing, Empty, Torn, Closed

VARIABLES
    store,     \* the store of each process
    file,      \* what the file at their path contains
    clock,     \* current_unix_time
    until,     \* history: until when the last acceptance of a key counts
    held,      \* history: the same, of what a store accepted since it was
               \* opened, reloaded or cleared
    replayed   \* history: the keys accepted while an acceptance was live

vars == <<store, file, clock, until, held, replayed>>

-----------------------------------------------------------------------------
(***************************************************************************)
(* The map.  An entry is the time it expires at, NoEntry if there is none.  *)
(***************************************************************************)
Entries == [Keys -> Nat \cup {NoEntry}]

NoEntries == [k \in Keys |-> NoEntry]

Present(e) == {k \in Keys : e[k] # NoEntry}

\* Mutant: the time and the TTL are subtracted.
ExpiresAtBackwards(now, ttl) == now - ttl

\* u64 addition, which a release build wraps (a debug build panics instead,
\* which ends the process: Close).
ExpiresAt(now, ttl) ==
    IF now + ttl < TimeLimit THEN now + ttl ELSE now + ttl - TimeLimit

\* Mutant: an entry counts for one moment more.
FreshAfter(e, k, now) == k \in Present(e) => now > e[k]

\* check_nonce, check_digest: an expired entry no longer counts.
Fresh(e, k, now) == k \in Present(e) => now >= e[k]

Live(e, now) == {k \in Present(e) : e[k] > now}

CleanupExpired(e, now) ==
    [k \in Keys |-> IF k \in Live(e, now) THEN e[k] ELSE NoEntry]

\* Mutant: the limit is checked as if the new entry were already in.
MaybeCleanupLate(e, now) ==
    IF Cardinality(Present(e)) > MaxEntries + 1
    THEN CleanupExpired(e, now) ELSE e

\* Mutant: a store over its limit starts again from nothing.
MaybeCleanupAll(e, now) ==
    IF Cardinality(Present(e)) > MaxEntries THEN NoEntries ELSE e

\* maybe_cleanup looks at the size before the new entry is in.
MaybeCleanup(e, now) ==
    IF Cardinality(Present(e)) > MaxEntries
    THEN CleanupExpired(e, now) ELSE e

\* Mutant: the file is not looked at.
LoadedNothing(f, now) == NoEntries

\* The entries that open and reload take from a readable file.
Loaded(f, now) ==
    IF f \in {Missing, Empty} THEN NoEntries ELSE CleanupExpired(f, now)

-----------------------------------------------------------------------------
(***************************************************************************)
(* The operations of one process.                                          *)
(***************************************************************************)
IsOpen(p) == store[p] # Closed

\* Entries left by another TTL keep the expiry they were recorded with.
Open(p) ==
    /\ ~IsOpen(p)
    /\ file # Torn
    /\ \E ttl \in Ttls :
         store' = [store EXCEPT ![p] =
                      [ttl |-> ttl, entries |-> Loaded(file, clock)]]
    /\ UNCHANGED <<file, clock, until, held, replayed>>

\* flush after a change is best effort: fs::write may fail before it opens
\* the file, after it has truncated it, or half way, and nobody is told.
WriteFile(e) ==
    \/ file' = e
    \/ MayFail /\ file' \in {file, Empty, Torn}

\* record_nonce, record_digest, when they return Ok.
Record(p, k) ==
    /\ IsOpen(p)
    /\ Fresh(store[p].entries, k, clock)
    /\ LET t == clock + store[p].ttl
           e == [MaybeCleanup(store[p].entries, clock)
                    EXCEPT ![k] = ExpiresAt(clock, store[p].ttl)]
       IN  /\ store' = [store EXCEPT ![p].entries = e]
           /\ WriteFile(e)
           /\ until' = [until EXCEPT ![k] = t]
           /\ held' = [held EXCEPT ![p][k] = t]
    /\ replayed' = IF clock < until[k] THEN replayed \cup {k} ELSE replayed
    /\ UNCHANGED clock

\* cleanup_expired and flush, called by the application.
Cleanup(p) ==
    /\ IsOpen(p)
    /\ LET e == CleanupExpired(store[p].entries, clock)
       IN  store' = [store EXCEPT ![p].entries = e] /\ WriteFile(e)
    /\ UNCHANGED <<clock, until, held, replayed>>

Flush(p) ==
    /\ IsOpen(p)
    /\ WriteFile(store[p].entries)
    /\ UNCHANGED <<store, clock, until, held, replayed>>

\* clear forgets on purpose: acceptances before it promise nothing any more.
Clear(p) ==
    /\ IsOpen(p)
    /\ store' = [store EXCEPT ![p].entries = NoEntries]
    /\ WriteFile(NoEntries)
    /\ until' = [k \in Keys |-> 0]
    /\ held' = [held EXCEPT ![p] = [k \in Keys |-> 0]]
    /\ UNCHANGED <<clock, replayed>>

\* reload clears the map before it parses the file, so that an unreadable file
\* leaves it empty (and returns Err); a missing file leaves it as it is.
Reload(p) ==
    /\ IsOpen(p)
    /\ file # Missing
    /\ store' = [store EXCEPT ![p].entries =
                    IF file = Torn THEN NoEntries ELSE Loaded(file, clock)]
    /\ held' = [held EXCEPT ![p] = [k \in Keys |-> 0]]
    /\ UNCHANGED <<file, clock, until, replayed>>

\* The store is dropped, or its process ends between two operations or before
\* the write of one begins.
Close(p) ==
    /\ IsOpen(p)
    /\ store' = [store EXCEPT ![p] = Closed]
    /\ held' = [held EXCEPT ![p] = [k \in Keys |-> 0]]
    /\ UNCHANGED <<file, clock, until, replayed>>

\* The process dies while fs::write is writing; nothing was returned yet.
CrashInWrite(p) ==
    /\ MayFail
    /\ IsOpen(p)
    /\ store' = [store EXCEPT ![p] = Closed]
    /\ file' \in {Empty, Torn}
    /\ held' = [held EXCEPT ![p] = [k \in Keys |-> 0]]
    /\ UNCHANGED <<clock, until, replayed>>

Tick ==
    /\ clock < MaxClock
    /\ clock' = clock + 1
    /\ UNCHANGED <<store, file, until, held, replayed>>

Init ==
    /\ store = [p \in Processes |-> Closed]
    /\ file \in {Missing, Empty}
    /\ clock = 0
    /\ until = [k \in Keys |-> 0]
    /\ held = [p \in Processes |-> [k \in Keys |-> 0]]
    /\ replayed = {}

Next ==
    \/ \E p \in Processes :
         \/ Open(p) \/ Cleanup(p) \/ Flush(p) \/ Clear(p) \/ Reload(p)
         \/ Close(p) \/ CrashInWrite(p)
         \/ \E k \in Keys : Record(p, k)
    \/ Tick

Spec == Init /\ [][Next]_vars

ASSUME StoreAssumption ==
    /\ IsFiniteSet(Keys)
    /\ MaxEntries \in Nat /\ MaxClock \in Nat /\ TimeLimit \in Nat
    /\ MaxClock < TimeLimit /\ Ttls \subseteq 0 .. TimeLimit - 1
    /\ MayFail \in BOOLEAN
    /\ Closed \notin [ttl : Ttls, entries : Entries]
    /\ Missing \notin Entries /\ Empty \notin Entries /\ Torn \notin Entries
    /\ Torn # Missing /\ Torn # Empty
    /\ NoEntry \notin Nat

-----------------------------------------------------------------------------
(***************************************************************************)
(* Properties.                                                             *)
(***************************************************************************)
\* The stores, the file and the histories have the shape replay.rs gives them.
TypeOK ==
    /\ store \in [Processes -> [ttl : Ttls, entries : Entries] \cup {Closed}]
    /\ file \in Entries \cup {Missing, Empty, Torn}
    /\ clock \in 0 .. MaxClock
    /\ until \in [Keys -> Nat]
    /\ held \in [Processes -> [Keys -> Nat]]
    /\ replayed \subseteq Keys

\* A key that was accepted is not accepted again before its TTL has passed,
\* across any restarts, reloads and cleanups, whatever TTL the store is opened
\* with next: "survives restart".  It is for one process that has the file to
\* itself and whose writes succeed, on a clock that is not set back, with TTLs
\* that do not overflow it.
NoReplay == replayed = {}

\* Whatever happens to the file (failed and torn writes, other processes that
\* overwrite it or die in a write), an open store remembers what it accepted
\* itself until it expires, unless the application reloads or clears it: "if
\* file write fails, operation still succeeds in memory".
MemoryRemembers ==
    \A p \in Processes, k \in Keys :
        IsOpen(p) /\ held[p][k] > clock =>
            store[p].entries[k] = held[p][k]

\* A store refuses a key for as long as its acceptance counts and not a moment
\* longer: what it answers after any restarts, reloads, clean-ups and changes of
\* the TTL is what one that never stopped would answer (under the conditions of
\* NoReplay).
AnswersExactly ==
    \A p \in Processes, k \in Keys :
        IsOpen(p) => (Fresh(store[p].entries, k, clock) <=> until[k] <= clock)

\* What the file remembers, the expired entries left out.
rememberedBar ==
    [k \in Keys |->
        IF file \in Entries /\ k \in Live(file, clock) THEN file[k] ELSE 0]

Ideal == INSTANCE ReplayIdeal WITH remembered <- rememberedBar

\* The file alone makes a store that is opened, dropped, reloaded and cleaned up
\* in any order a memory that never stops (under the conditions of NoReplay):
\* every operation is a step of ReplayIdeal on what the file remembers, or
\* leaves that as it is.
SurvivesRestart == Ideal!Spec

\* A store that has outgrown its limit by more than the entry just inserted
\* consists of live entries and of that one, which may have a TTL of 0 or one
\* that wraps: no operation carries an expired entry along.
OnlyLiveOverLimit ==
    [][\A p \in Processes :
          /\ store'[p] # Closed /\ store'[p] # store[p]
          /\ Cardinality(Present(store'[p].entries)) > MaxEntries + 1
          => \A k \in Present(store'[p].entries) :
               \/ store'[p].entries[k] > clock
               \/ store'[p].entries[k] = ExpiresAt(clock, store'[p].ttl)]_vars
=============================================================================
