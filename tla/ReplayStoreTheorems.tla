------------------------- MODULE ReplayStoreTheorems -------------------------
(***************************************************************************)
(* Theorems about ReplayStore, for any keys, TTLs, limit and clock.        *)
(***************************************************************************)
EXTENDS ReplayStore, FiniteSetTheorems, TLAPS

\* The clean-up operations keep entries, and every live one as it is.
LEMMA CleanupKeepsLive ==
    ASSUME NEW e \in Entries, NEW now \in Nat
    PROVE  /\ CleanupExpired(e, now) \in Entries
           /\ MaybeCleanup(e, now) \in Entries
           /\ \A k \in Keys, t \in Nat : e[k] = t /\ t > now =>
                CleanupExpired(e, now)[k] = t /\ MaybeCleanup(e, now)[k] = t
<1>1. CleanupExpired(e, now) \in Entries
  BY DEF CleanupExpired, Entries
<1>2. ASSUME NEW k \in Keys, NEW t \in Nat, e[k] = t, t > now
      PROVE  CleanupExpired(e, now)[k] = t
  BY <1>2, StoreAssumption DEF CleanupExpired, Live, Present
<1>3. QED
  BY <1>1, <1>2 DEF MaybeCleanup

\* What is loaded from a readable file are entries, the live ones unchanged.
LEMMA LoadedKeepsLive ==
    ASSUME NEW f \in Entries \cup {Missing, Empty}, NEW now \in Nat
    PROVE  /\ Loaded(f, now) \in Entries
           /\ f \in Entries => \A k \in Keys, t \in Nat :
                f[k] = t /\ t > now => Loaded(f, now)[k] = t
<1>1. NoEntries \in Entries
  BY DEF NoEntries, Entries
<1>2. QED
  BY <1>1, CleanupKeepsLive, StoreAssumption DEF Loaded

\* An open store has a TTL and entries.
LEMMA OpenType ==
    ASSUME TypeOK, NEW p \in Processes, IsOpen(p)
    PROVE  /\ store[p] \in [ttl : Ttls, entries : Entries]
           /\ store[p].entries \in Entries
           /\ store[p].ttl \in 0 .. TimeLimit - 1 /\ store[p].ttl \in Nat
<1>1. store[p] \in [ttl : Ttls, entries : Entries]
  BY DEF TypeOK, IsOpen
<1>2. store[p].ttl \in 0 .. TimeLimit - 1
  BY <1>1, StoreAssumption
<1>3. QED
  BY <1>1, <1>2, StoreAssumption

\* The entries of p after it has recorded k.
AfterRecord(p, k) ==
    [MaybeCleanup(store[p].entries, clock) EXCEPT
        ![k] = ExpiresAt(clock, store[p].ttl)]

\* Recording a key inserts it and keeps the live entries of the others.
LEMMA RecordKeepsLive ==
    ASSUME TypeOK, NEW p \in Processes, IsOpen(p), NEW k \in Keys
    PROVE  /\ AfterRecord(p, k) \in Entries
           /\ clock + store[p].ttl \in Nat
           /\ AfterRecord(p, k)[k] = ExpiresAt(clock, store[p].ttl)
           /\ \A j \in Keys, t \in Nat :
                j # k /\ store[p].entries[j] = t /\ t > clock => AfterRecord(p, k)[j] = t
<1>1. store[p].entries \in Entries /\ store[p].ttl \in Nat /\ clock \in Nat
  BY OpenType, StoreAssumption DEF TypeOK
<1>2. ExpiresAt(clock, store[p].ttl) \in Nat /\ clock + store[p].ttl \in Nat
  BY <1>1, StoreAssumption DEF ExpiresAt
<1>3. MaybeCleanup(store[p].entries, clock) \in Entries
  BY <1>1, CleanupKeepsLive
<1>4. \A j \in Keys, t \in Nat :
        store[p].entries[j] = t /\ t > clock => MaybeCleanup(store[p].entries, clock)[j] = t
  BY <1>1, CleanupKeepsLive
<1>5. QED
  BY <1>2, <1>3, <1>4 DEF AfterRecord, Entries

\* A write leaves the file readable, empty or torn.
LEMMA WriteType ==
    ASSUME TypeOK, NEW e \in Entries, WriteFile(e)
    PROVE  file' \in Entries \cup {Missing, Empty, Torn}
BY DEF WriteFile, TypeOK

\* Every step keeps the types.
LEMMA TypeKept ==
    ASSUME TypeOK, [Next]_vars
    PROVE  TypeOK'
<1>1. NoEntries \in Entries
  BY DEF NoEntries, Entries
<1>2. clock \in Nat
  BY StoreAssumption DEF TypeOK
<1>3. ASSUME NEW p \in Processes, Open(p)
      PROVE  TypeOK'
  <2>1. Loaded(file, clock) \in Entries
    BY <1>2, <1>3, LoadedKeepsLive DEF Open, TypeOK
  <2>2. QED
    BY <1>3, <2>1 DEF Open, TypeOK
<1>4. ASSUME NEW p \in Processes, NEW k \in Keys, Record(p, k)
      PROVE  TypeOK'
  <2>1. IsOpen(p) /\ AfterRecord(p, k) \in Entries
        /\ clock + store[p].ttl \in Nat
    BY <1>4, RecordKeepsLive DEF Record
  <2>2. /\ store' = [store EXCEPT ![p] = [store[p] EXCEPT !.entries = AfterRecord(p, k)]]
        /\ WriteFile(AfterRecord(p, k))
        /\ until' = [until EXCEPT ![k] = clock + store[p].ttl]
        /\ held' = [held EXCEPT ![p] =
                      [held[p] EXCEPT ![k] = clock + store[p].ttl]]
        /\ UNCHANGED clock
        /\ replayed' \subseteq replayed \cup {k}
    BY <1>4 DEF Record, AfterRecord
  <2>3. file' \in Entries \cup {Missing, Empty, Torn}
    BY <2>1, <2>2, WriteType
  <2>4. [store[p] EXCEPT !.entries = AfterRecord(p, k)] \in [ttl : Ttls, entries : Entries]
    BY <2>1, OpenType
  <2>5. QED
    BY <2>1, <2>2, <2>3, <2>4 DEF TypeOK
<1>5. ASSUME NEW p \in Processes, Cleanup(p)
      PROVE  TypeOK'
  <2> DEFINE e == CleanupExpired(store[p].entries, clock)
  <2>1. e \in Entries
    BY <1>2, <1>5, OpenType, CleanupKeepsLive DEF Cleanup
  <2>2. file' \in Entries \cup {Missing, Empty, Torn}
    BY <1>5, <2>1, WriteType DEF Cleanup
  <2>3. store' = [store EXCEPT ![p] = [store[p] EXCEPT !.entries = e]]
    BY <1>5 DEF Cleanup
  <2> HIDE DEF e
  <2>4. [store[p] EXCEPT !.entries = e] \in [ttl : Ttls, entries : Entries]
    BY <1>5, <2>1, OpenType DEF Cleanup
  <2>5. QED
    BY <1>5, <2>2, <2>3, <2>4 DEF Cleanup, TypeOK
<1>6. ASSUME NEW p \in Processes, Flush(p)
      PROVE  TypeOK'
  <2>1. file' \in Entries \cup {Missing, Empty, Torn}
    BY <1>6, OpenType, WriteType DEF Flush
  <2>2. QED
    BY <1>6, <2>1 DEF Flush, TypeOK
<1>7. ASSUME NEW p \in Processes, Clear(p)
      PROVE  TypeOK'
  <2>1. file' \in Entries \cup {Missing, Empty, Torn}
    BY <1>1, <1>7, WriteType DEF Clear
  <2>2. [store[p] EXCEPT !.entries = NoEntries] \in [ttl : Ttls, entries : Entries]
    BY <1>1, <1>7, OpenType DEF Clear
  <2>3. QED
    BY <1>7, <2>1, <2>2 DEF Clear, TypeOK
<1>8. ASSUME NEW p \in Processes, Reload(p)
      PROVE  TypeOK'
  <2> DEFINE e == IF file = Torn THEN NoEntries ELSE Loaded(file, clock)
  <2>1. e \in Entries
    BY <1>1, <1>2, LoadedKeepsLive DEF TypeOK
  <2>2. store' = [store EXCEPT ![p] = [store[p] EXCEPT !.entries = e]]
    BY <1>8 DEF Reload
  <2> HIDE DEF e
  <2>3. [store[p] EXCEPT !.entries = e] \in [ttl : Ttls, entries : Entries]
    BY <1>8, <2>1, OpenType DEF Reload
  <2>4. QED
    BY <1>8, <2>2, <2>3 DEF Reload, TypeOK
<1>9. ASSUME NEW p \in Processes, Close(p) \/ CrashInWrite(p)
      PROVE  TypeOK'
  BY <1>9 DEF Close, CrashInWrite, TypeOK
<1>10. CASE Tick
  BY <1>10, StoreAssumption DEF Tick, TypeOK
<1>11. CASE UNCHANGED vars
  BY <1>11 DEF vars, TypeOK
<1>12. QED
  BY <1>3, <1>4, <1>5, <1>6, <1>7, <1>8, <1>9, <1>10, <1>11 DEF Next

\* The store, the file and the clock keep their types.
THEOREM StoreTypeCorrect == Spec => []TypeOK
<1>1. Init => TypeOK
  BY StoreAssumption DEF Init, TypeOK
<1>2. QED
  BY <1>1, TypeKept, PTL DEF Spec

-----------------------------------------------------------------------------
\* No TTL is so long that an expiry does not fit the time type.
NoOverflow == \A ttl \in Ttls : MaxClock + ttl < TimeLimit

\* Then an entry expires when its TTL has passed.
LEMMA ExpiryIsSum ==
    ASSUME NoOverflow, TypeOK, NEW p \in Processes, IsOpen(p)
    PROVE  ExpiresAt(clock, store[p].ttl) = clock + store[p].ttl
<1>1. clock \in 0 .. MaxClock /\ store[p].ttl \in Ttls /\ store[p].ttl \in Nat
  BY OpenType DEF TypeOK
<1>2. QED
  BY <1>1, StoreAssumption DEF NoOverflow, ExpiresAt

\* MemoryRemembers with what it leaves out: a closed store holds nothing.
HeldInMemory ==
    \A p \in Processes, k \in Keys :
        held[p][k] > clock => IsOpen(p) /\ store[p].entries[k] = held[p][k]

\* No operation of any process drops or changes a live entry that a store
\* accepted itself.
LEMMA HeldKept ==
    ASSUME NoOverflow, TypeOK, HeldInMemory, [Next]_vars
    PROVE  HeldInMemory'
<1> SUFFICES ASSUME NEW p \in Processes, NEW k \in Keys,
                    held'[p][k] > clock'
             PROVE  store'[p] # Closed /\ store'[p].entries[k] = held'[p][k]
  BY DEF HeldInMemory, IsOpen
<1>1. /\ clock \in Nat /\ held[p][k] \in Nat
      /\ held[p][k] > clock => IsOpen(p) /\ store[p].entries[k] = held[p][k]
      /\ store \in [Processes -> [ttl : Ttls, entries : Entries] \cup {Closed}]
      /\ held \in [Processes -> [Keys -> Nat]]
  BY StoreAssumption DEF TypeOK, HeldInMemory
<1>2. ASSUME NEW e \in Entries, NEW t \in Ttls
      PROVE  [ttl |-> t, entries |-> e] # Closed
  BY StoreAssumption
<1>3. ASSUME NEW q \in Processes, Open(q)
      PROVE  store'[p] # Closed /\ store'[p].entries[k] = held'[p][k]
  BY <1>1, <1>3 DEF Open, IsOpen
<1>4. ASSUME NEW q \in Processes, IsOpen(q), NEW e \in Entries,
             store' = [store EXCEPT ![q] = [store[q] EXCEPT !.entries = e]],
             clock' = clock,
             q = p => e[k] = held'[p][k],
             q # p => held'[p][k] = held[p][k]
      PROVE  store'[p] # Closed /\ store'[p].entries[k] = held'[p][k]
  <2>1. [store[q] EXCEPT !.entries = e] \in [ttl : Ttls, entries : Entries]
    BY <1>4, OpenType
  <2>2. [store[q] EXCEPT !.entries = e] # Closed
    BY <2>1, StoreAssumption
  <2>3. CASE q = p
    BY <1>1, <1>4, <2>1, <2>2, <2>3
  <2>4. CASE q # p
    BY <1>1, <1>4, <2>4 DEF IsOpen
  <2>5. QED
    BY <2>3, <2>4
<1>5. ASSUME NEW q \in Processes, NEW j \in Keys, Record(q, j)
      PROVE  store'[p] # Closed /\ store'[p].entries[k] = held'[p][k]
  <2>1. /\ IsOpen(q)
        /\ store' = [store EXCEPT ![q] = [store[q] EXCEPT !.entries = AfterRecord(q, j)]]
        /\ held' = [held EXCEPT ![q] =
                      [held[q] EXCEPT ![j] = clock + store[q].ttl]]
        /\ clock' = clock
    BY <1>5 DEF Record, AfterRecord
  <2>2. /\ AfterRecord(q, j) \in Entries
        /\ AfterRecord(q, j)[j] = clock + store[q].ttl
        /\ \A l \in Keys, t \in Nat :
             l # j /\ store[q].entries[l] = t /\ t > clock => AfterRecord(q, j)[l] = t
    BY <2>1, RecordKeepsLive, ExpiryIsSum
  <2>3. q # p => held'[p][k] = held[p][k]
    BY <1>1, <2>1
  <2>4. q = p => AfterRecord(q, j)[k] = held'[p][k]
    <3>1. CASE k = j
      BY <1>1, <2>1, <2>2, <3>1
    <3>2. CASE k # j
      BY <1>1, <2>1, <2>2, <3>2
    <3>3. QED
      BY <3>1, <3>2
  <2>5. QED
    BY <1>4, <2>1, <2>2, <2>3, <2>4
<1>6. ASSUME NEW q \in Processes, Cleanup(q)
      PROVE  store'[p] # Closed /\ store'[p].entries[k] = held'[p][k]
  <2> DEFINE e == CleanupExpired(store[q].entries, clock)
  <2>1. /\ IsOpen(q) /\ clock' = clock /\ held' = held
        /\ store' = [store EXCEPT ![q] = [store[q] EXCEPT !.entries = e]]
    BY <1>6 DEF Cleanup
  <2>2. store[q].entries \in Entries
    BY <2>1, OpenType
  <2>3. /\ e \in Entries
        /\ \A t \in Nat : store[q].entries[k] = t /\ t > clock => e[k] = t
    BY <1>1, <2>2, CleanupKeepsLive
  <2> HIDE DEF e
  <2>4. QED
    BY <1>1, <1>4, <2>1, <2>3
<1>7. ASSUME NEW q \in Processes, Flush(q)
      PROVE  store'[p] # Closed /\ store'[p].entries[k] = held'[p][k]
  BY <1>1, <1>7 DEF Flush, IsOpen
<1>8. ASSUME NEW q \in Processes, Clear(q) \/ Reload(q) \/ Close(q) \/ CrashInWrite(q)
      PROVE  store'[p] # Closed /\ store'[p].entries[k] = held'[p][k]
  <2>1. /\ held' = [held EXCEPT ![q] = [l \in Keys |-> 0]]
        /\ clock' = clock
        /\ q # p => store'[p] = store[p]
    BY <1>1, <1>8 DEF Clear, Reload, Close, CrashInWrite
  <2>2. q # p
    BY <1>1, <2>1
  <2>3. QED
    BY <1>1, <2>1, <2>2 DEF IsOpen
<1>9. CASE Tick
  BY <1>1, <1>9 DEF Tick, IsOpen
<1>10. CASE UNCHANGED vars
  BY <1>1, <1>10 DEF vars, IsOpen
<1>11. QED
  BY <1>3, <1>5, <1>6, <1>7, <1>8, <1>9, <1>10 DEF Next

\* An open store refuses what it accepted itself for as long as it promised
\* to, unless it is reloaded or cleared: whatever becomes of its file.
THEOREM StoreRemembers ==
    ASSUME NoOverflow
    PROVE  Spec => []MemoryRemembers
<1>1. Init => HeldInMemory
  BY StoreAssumption DEF Init, HeldInMemory
<1>2. HeldInMemory => MemoryRemembers
  BY DEF HeldInMemory, MemoryRemembers
<1>3. TypeOK /\ HeldInMemory /\ [Next]_vars => HeldInMemory'
  BY HeldKept
<1>4. QED
  BY <1>1, <1>2, <1>3, StoreTypeCorrect, PTL DEF Spec

-----------------------------------------------------------------------------
\* One process has the file to itself, and its writes succeed.
Undisturbed == ~MayFail /\ \A p, q \in Processes : p = q

\* Every acceptance that is still live is in the file and in the open store.
AcceptancesKept ==
    \A k \in Keys : until[k] > clock =>
        /\ file \in Entries /\ file[k] = until[k]
        /\ \A p \in Processes : IsOpen(p) => store[p].entries[k] = until[k]

SoleInv == replayed = {} /\ file # Torn /\ AcceptancesKept

\* Undisturbed, the file and the open store keep every live acceptance and no
\* key is accepted twice.
LEMMA SoleKept ==
    ASSUME NoOverflow, Undisturbed, TypeOK, SoleInv, [Next]_vars
    PROVE  SoleInv'
<1>1. /\ clock \in Nat /\ until \in [Keys -> Nat]
      /\ store \in [Processes -> [ttl : Ttls, entries : Entries] \cup {Closed}]
      /\ file \in Entries \cup {Missing, Empty}
      /\ NoEntries \in Entries /\ Torn \notin Entries
  BY StoreAssumption DEF TypeOK, SoleInv, NoEntries, Entries
<1>2. ASSUME NEW p \in Processes, NEW e \in Entries, IsOpen(p),
             store' = [store EXCEPT ![p] = [store[p] EXCEPT !.entries = e]],
             \A k \in Keys : until'[k] > clock' =>
                 /\ file' \in Entries /\ file'[k] = until'[k]
                 /\ e[k] = until'[k]
      PROVE  AcceptancesKept'
  <2>1. store' \in [Processes -> [ttl : Ttls, entries : Entries] \cup {Closed}]
        /\ store'[p].entries = e
    BY <1>1, <1>2, OpenType
  <2>2. QED
    BY <1>2, <2>1 DEF AcceptancesKept, IsOpen, Undisturbed
<1>3. ASSUME NEW p \in Processes, Open(p)
      PROVE  SoleInv'
  <2>1. PICK ttl \in Ttls :
          store' = [store EXCEPT ![p] = [ttl |-> ttl, entries |-> Loaded(file, clock)]]
    BY <1>3 DEF Open
  <2>2. \A k \in Keys : until[k] > clock => Loaded(file, clock)[k] = until[k]
    BY <1>1, LoadedKeepsLive DEF SoleInv, AcceptancesKept
  <2>3. store'[p].entries = Loaded(file, clock)
    BY <1>1, <2>1
  <2>4. QED
    BY <1>3, <2>2, <2>3 DEF Open, SoleInv, AcceptancesKept, IsOpen, Undisturbed
<1>4. ASSUME NEW p \in Processes, NEW j \in Keys, Record(p, j)
      PROVE  SoleInv'
  <2> DEFINE e == AfterRecord(p, j)
             t == clock + store[p].ttl
  <2>1. /\ IsOpen(p) /\ Fresh(store[p].entries, j, clock)
        /\ store' = [store EXCEPT ![p] = [store[p] EXCEPT !.entries = e]]
        /\ file' = e
        /\ until' = [until EXCEPT ![j] = t]
        /\ replayed' = IF clock < until[j] THEN replayed \cup {j} ELSE replayed
        /\ clock' = clock
    BY <1>4 DEF Record, AfterRecord, WriteFile, Undisturbed
  <2>2. /\ e \in Entries /\ t \in Nat /\ e[j] = t
        /\ \A k \in Keys, u \in Nat :
             k # j /\ store[p].entries[k] = u /\ u > clock => e[k] = u
    BY <2>1, RecordKeepsLive, ExpiryIsSum
  <2> HIDE DEF e, t
  <2>3. \A k \in Keys : until'[k] > clock' => e[k] = until'[k]
    BY <1>1, <2>1, <2>2 DEF SoleInv, AcceptancesKept
  <2>4. AcceptancesKept'
    BY <1>2, <2>1, <2>2, <2>3
  <2>5. ~(clock < until[j])
    <3>1. SUFFICES ASSUME clock < until[j]
                   PROVE  FALSE
      OBVIOUS
    <3>2. store[p].entries[j] = until[j] /\ until[j] \in Nat
      BY <1>1, <2>1, <3>1 DEF SoleInv, AcceptancesKept
    <3>3. QED
      BY <1>1, <2>1, <3>1, <3>2, StoreAssumption DEF Fresh, Present
  <2>6. QED
    BY <1>1, <2>1, <2>2, <2>4, <2>5 DEF SoleInv
<1>5. ASSUME NEW p \in Processes, Cleanup(p) \/ Flush(p)
      PROVE  SoleInv'
  <2>1. IsOpen(p) /\ store[p].entries \in Entries
    BY <1>5, OpenType DEF Cleanup, Flush
  <2>2. PICK e \in Entries :
          /\ store' = [store EXCEPT ![p] = [store[p] EXCEPT !.entries = e]]
          /\ file' = e
          /\ \A k \in Keys : until[k] > clock => e[k] = until[k]
    <3>1. CASE Cleanup(p)
      <4> DEFINE e == CleanupExpired(store[p].entries, clock)
      <4>1. store' = [store EXCEPT ![p] = [store[p] EXCEPT !.entries = e]] /\ file' = e
        BY <3>1 DEF Cleanup, WriteFile, Undisturbed
      <4>2. /\ e \in Entries
            /\ \A k \in Keys, t \in Nat :
                 store[p].entries[k] = t /\ t > clock => e[k] = t
        BY <1>1, <2>1, CleanupKeepsLive
      <4> HIDE DEF e
      <4>3. \A k \in Keys : until[k] > clock => e[k] = until[k]
        BY <1>1, <2>1, <4>2 DEF SoleInv, AcceptancesKept
      <4>4. QED
        BY <4>1, <4>2, <4>3
    <3>2. CASE Flush(p)
      <4>1. store' = [store EXCEPT ![p] = [store[p] EXCEPT !.entries = store[p].entries]]
        BY <1>1, <2>1, <3>2, OpenType DEF Flush
      <4>2. QED
        BY <1>1, <2>1, <3>2, <4>1 DEF Flush, WriteFile, Undisturbed, SoleInv, AcceptancesKept
    <3>3. QED
      BY <1>5, <3>1, <3>2
  <2>3. UNCHANGED <<clock, until, replayed>>
    BY <1>5 DEF Cleanup, Flush
  <2>4. QED
    BY <1>1, <1>2, <2>1, <2>2, <2>3 DEF SoleInv
<1>6. ASSUME NEW p \in Processes, Clear(p)
      PROVE  SoleInv'
  BY <1>1, <1>6 DEF Clear, WriteFile, Undisturbed, SoleInv, AcceptancesKept
<1>7. ASSUME NEW p \in Processes, Reload(p)
      PROVE  SoleInv'
  <2> DEFINE e == Loaded(file, clock)
  <2>1. /\ e \in Entries
        /\ \A k \in Keys : until[k] > clock => e[k] = until[k]
    BY <1>1, LoadedKeepsLive DEF SoleInv, AcceptancesKept
  <2>2. store' = [store EXCEPT ![p] = [store[p] EXCEPT !.entries = e]]
    BY <1>7 DEF Reload, SoleInv
  <2> HIDE DEF e
  <2>3. AcceptancesKept'
    BY <1>2, <1>7, <2>1, <2>2 DEF Reload, SoleInv, AcceptancesKept
  <2>4. QED
    BY <1>7, <2>3 DEF Reload, SoleInv
<1>8. ASSUME NEW p \in Processes, Close(p)
      PROVE  SoleInv'
  BY <1>1, <1>8 DEF Close, SoleInv, AcceptancesKept, IsOpen
<1>9. ASSUME NEW p \in Processes, CrashInWrite(p)
      PROVE  SoleInv'
  BY <1>9 DEF CrashInWrite, Undisturbed
<1>10. CASE Tick
  BY <1>1, <1>10 DEF Tick, SoleInv, AcceptancesKept, IsOpen
<1>11. CASE UNCHANGED vars
  BY <1>11 DEF vars, SoleInv, AcceptancesKept, IsOpen
<1>12. QED
  BY <1>3, <1>4, <1>5, <1>6, <1>7, <1>8, <1>9, <1>10, <1>11 DEF Next

\* A store that has its file to itself, with writes that succeed and TTLs that
\* do not overflow the clock, accepts no key twice within its TTL, across any restarts, reloads and clean-ups.
THEOREM SoleStoreRefusesReplays ==
    ASSUME NoOverflow, Undisturbed
    PROVE  Spec => []NoReplay
<1>1. Init => SoleInv
  BY StoreAssumption DEF Init, SoleInv, AcceptancesKept
<1>2. SoleInv => NoReplay
  BY DEF SoleInv, NoReplay
<1>3. TypeOK /\ SoleInv /\ [Next]_vars => SoleInv'
  BY SoleKept
<1>4. QED
  BY <1>1, <1>2, <1>3, StoreTypeCorrect, PTL DEF Spec

-----------------------------------------------------------------------------
(***************************************************************************)
(* What a store answers after a restart is what it would have answered.    *)
(***************************************************************************)
\* No operation makes up an entry: what is left after a clean-up or a load was
\* there before, and is live.
LEMMA CleanupMakesNothingUp ==
    ASSUME NEW e \in Entries, NEW now \in Nat, NEW k \in Keys, NEW t \in Nat
    PROVE  /\ CleanupExpired(e, now)[k] = t => e[k] = t /\ t > now
           /\ MaybeCleanup(e, now)[k] = t => e[k] = t
<1>1. CleanupExpired(e, now)[k] = t => e[k] = t /\ t > now
  BY StoreAssumption DEF CleanupExpired, Live
<1>2. QED
  BY <1>1 DEF MaybeCleanup

LEMMA LoadMakesNothingUp ==
    ASSUME NEW f \in Entries \cup {Missing, Empty}, NEW now \in Nat,
           NEW k \in Keys, NEW t \in Nat, Loaded(f, now)[k] = t
    PROVE  f \in Entries /\ f[k] = t /\ t > now
<1>1. NoEntries[k] # t
  BY StoreAssumption DEF NoEntries
<1>2. f \notin {Missing, Empty}
  BY <1>1 DEF Loaded
<1>3. QED
  BY <1>2, CleanupMakesNothingUp DEF Loaded

\* A live entry, in the file or in the open store, is of the last acceptance.
OnlyAccepted ==
    \A k \in Keys, t \in Nat :
        t > clock =>
            /\ (file \in Entries /\ file[k] = t) => until[k] = t
            /\ \A p \in Processes :
                 (IsOpen(p) /\ store[p].entries[k] = t) => until[k] = t

LEMMA OnlyAcceptedKept ==
    ASSUME NoOverflow, Undisturbed, TypeOK, SoleInv, OnlyAccepted, [Next]_vars
    PROVE  OnlyAccepted'
<1>1. /\ clock \in Nat /\ until \in [Keys -> Nat]
      /\ store \in [Processes -> [ttl : Ttls, entries : Entries] \cup {Closed}]
      /\ file \in Entries \cup {Missing, Empty}
      /\ NoEntries \in Entries
  BY StoreAssumption DEF TypeOK, SoleInv, NoEntries, Entries
<1>2. ASSUME NEW p \in Processes, NEW e \in Entries, IsOpen(p),
             store' = [store EXCEPT ![p] = [store[p] EXCEPT !.entries = e]],
             \A k \in Keys, t \in Nat : t > clock' =>
                 /\ e[k] = t => until'[k] = t
                 /\ (file' \in Entries /\ file'[k] = t) => until'[k] = t
      PROVE  OnlyAccepted'
  <2>1. /\ store' \in [Processes -> [ttl : Ttls, entries : Entries] \cup {Closed}]
        /\ store'[p].entries = e
    BY <1>1, <1>2, OpenType
  <2>2. \A q \in Processes : q = p
    BY DEF Undisturbed
  <2>3. QED
    BY <1>2, <2>1, <2>2 DEF OnlyAccepted
<1>3. ASSUME NEW p \in Processes, Open(p)
      PROVE  OnlyAccepted'
  <2>1. PICK ttl \in Ttls :
          store' = [store EXCEPT ![p] = [ttl |-> ttl, entries |-> Loaded(file, clock)]]
    BY <1>3 DEF Open
  <2>2. store'[p].entries = Loaded(file, clock)
    BY <1>1, <2>1
  <2>3. \A k \in Keys, t \in Nat :
          Loaded(file, clock)[k] = t => file \in Entries /\ file[k] = t
    BY <1>1, LoadMakesNothingUp
  <2>4. \A q \in Processes : q = p
    BY DEF Undisturbed
  <2>5. UNCHANGED <<file, clock, until>>
    BY <1>3 DEF Open
  <2>6. QED
    BY <2>2, <2>3, <2>4, <2>5 DEF OnlyAccepted
<1>4. ASSUME NEW p \in Processes, NEW j \in Keys, Record(p, j)
      PROVE  OnlyAccepted'
  <2> DEFINE e == AfterRecord(p, j)
             u == clock + store[p].ttl
  <2>1. /\ IsOpen(p)
        /\ store' = [store EXCEPT ![p] = [store[p] EXCEPT !.entries = e]]
        /\ file' = e
        /\ until' = [until EXCEPT ![j] = u]
        /\ clock' = clock
    BY <1>4 DEF Record, AfterRecord, WriteFile, Undisturbed
  <2>2. /\ e \in Entries /\ u \in Nat /\ e[j] = u
    BY <2>1, RecordKeepsLive, ExpiryIsSum
  <2>3. store[p].entries \in Entries
    BY <2>1, OpenType
  <2>4. MaybeCleanup(store[p].entries, clock) \in Entries
    BY <1>1, <2>3, CleanupKeepsLive
  <2>5. \A k \in Keys, t \in Nat : k # j /\ e[k] = t => store[p].entries[k] = t
    <3> DEFINE old == store[p].entries
               new == MaybeCleanup(old, clock)
    <3>1. \A k \in Keys, t \in Nat : new[k] = t => old[k] = t
      BY <1>1, <2>3, CleanupMakesNothingUp
    <3> HIDE DEF new
    <3>2. \A k \in Keys : k # j => e[k] = new[k]
      BY <2>4 DEF AfterRecord, Entries, new
    <3>3. QED
      BY <3>1, <3>2
  <2> HIDE DEF e, u
  <2>6. \A k \in Keys, t \in Nat : t > clock /\ e[k] = t => until'[k] = t
    BY <1>1, <2>1, <2>2, <2>5 DEF OnlyAccepted
  <2>7. QED
    BY <1>2, <2>1, <2>2, <2>6
<1>5. ASSUME NEW p \in Processes, Cleanup(p)
      PROVE  OnlyAccepted'
  <2> DEFINE e == CleanupExpired(store[p].entries, clock)
  <2>1. /\ IsOpen(p)
        /\ store' = [store EXCEPT ![p] = [store[p] EXCEPT !.entries = e]]
        /\ file' = e /\ clock' = clock /\ until' = until
    BY <1>5 DEF Cleanup, WriteFile, Undisturbed
  <2>2. store[p].entries \in Entries
    BY <2>1, OpenType
  <2>3. /\ e \in Entries
        /\ \A k \in Keys, t \in Nat : e[k] = t => store[p].entries[k] = t
    <3>1. e \in Entries
      BY <1>1, <2>2, CleanupKeepsLive
    <3>2. \A k \in Keys, t \in Nat : e[k] = t => store[p].entries[k] = t
      BY <1>1, <2>2, CleanupMakesNothingUp
    <3>3. QED
      BY <3>1, <3>2
  <2> HIDE DEF e
  <2>4. \A k \in Keys, t \in Nat : t > clock /\ e[k] = t => until[k] = t
    BY <2>1, <2>3 DEF OnlyAccepted
  <2>5. QED
    BY <1>2, <2>1, <2>3, <2>4
<1>6. ASSUME NEW p \in Processes, Flush(p)
      PROVE  OnlyAccepted'
  <2>1. /\ IsOpen(p) /\ store' = store /\ file' = store[p].entries
        /\ clock' = clock /\ until' = until
    BY <1>6 DEF Flush, WriteFile, Undisturbed
  <2>2. QED
    BY <2>1 DEF OnlyAccepted, IsOpen
<1>7. ASSUME NEW p \in Processes, Clear(p)
      PROVE  OnlyAccepted'
  <2>1. /\ IsOpen(p)
        /\ store' = [store EXCEPT ![p] = [store[p] EXCEPT !.entries = NoEntries]]
        /\ file' = NoEntries
    BY <1>7 DEF Clear, WriteFile, Undisturbed
  <2>2. \A k \in Keys, t \in Nat : NoEntries[k] # t
    BY StoreAssumption DEF NoEntries
  <2>3. QED
    BY <1>1, <1>2, <2>1, <2>2
<1>8. ASSUME NEW p \in Processes, Reload(p)
      PROVE  OnlyAccepted'
  <2> DEFINE e == Loaded(file, clock)
  <2>1. /\ IsOpen(p) /\ file' = file /\ clock' = clock /\ until' = until
        /\ store' = [store EXCEPT ![p] = [store[p] EXCEPT !.entries = e]]
    BY <1>8 DEF Reload, SoleInv
  <2>2. /\ e \in Entries
        /\ \A k \in Keys, t \in Nat : e[k] = t => file \in Entries /\ file[k] = t
    BY <1>1, LoadedKeepsLive, LoadMakesNothingUp
  <2> HIDE DEF e
  <2>3. \A k \in Keys, t \in Nat : t > clock =>
           /\ e[k] = t => until[k] = t
           /\ (file \in Entries /\ file[k] = t) => until[k] = t
    BY <2>2 DEF OnlyAccepted
  <2>4. QED
    BY <1>2, <2>1, <2>2, <2>3
<1>9. ASSUME NEW p \in Processes, Close(p)
      PROVE  OnlyAccepted'
  <2>1. /\ file' = file /\ clock' = clock /\ until' = until
        /\ store' = [store EXCEPT ![p] = Closed]
    BY <1>9 DEF Close
  <2>2. \A q \in Processes : store'[q] = Closed \/ store'[q] = store[q]
    BY <1>1, <2>1
  <2>3. QED
    BY <2>1, <2>2 DEF OnlyAccepted, IsOpen
<1>10. ASSUME NEW p \in Processes, CrashInWrite(p)
      PROVE  OnlyAccepted'
  BY <1>10 DEF CrashInWrite, Undisturbed
<1>11. CASE Tick
  BY <1>1, <1>11 DEF Tick, OnlyAccepted, IsOpen
<1>12. CASE UNCHANGED vars
  BY <1>12 DEF vars, OnlyAccepted, IsOpen
<1>13. QED
  BY <1>3, <1>4, <1>5, <1>6, <1>7, <1>8, <1>9, <1>10, <1>11, <1>12 DEF Next

\* Under the conditions of SoleStoreRefusesReplays a store answers, after any
\* restarts, reloads and clean-ups and with any TTLs, as one that never stopped:
\* it refuses a key exactly until the TTL of its last acceptance has passed.
THEOREM SoleStoreAnswersExactly ==
    ASSUME NoOverflow, Undisturbed
    PROVE  Spec => []AnswersExactly
<1>1. Init => SoleInv /\ OnlyAccepted
  BY StoreAssumption DEF Init, SoleInv, AcceptancesKept, OnlyAccepted, IsOpen
<1>2. TypeOK /\ SoleInv /\ OnlyAccepted => AnswersExactly
  <2> SUFFICES ASSUME TypeOK, SoleInv, OnlyAccepted,
                      NEW p \in Processes, NEW k \in Keys, IsOpen(p)
               PROVE  Fresh(store[p].entries, k, clock) <=> until[k] <= clock
    BY DEF AnswersExactly
  <2>1. /\ clock \in Nat /\ until[k] \in Nat
        /\ store[p].entries[k] \in Nat \cup {NoEntry} /\ NoEntry \notin Nat
    BY OpenType, StoreAssumption DEF TypeOK, Entries
  <2>2. ASSUME until[k] > clock
        PROVE  ~Fresh(store[p].entries, k, clock)
    <3>1. store[p].entries[k] = until[k]
      BY <2>2 DEF SoleInv, AcceptancesKept
    <3>2. QED
      BY <2>1, <2>2, <3>1 DEF Fresh, Present
  <2>3. ASSUME until[k] <= clock, k \in Present(store[p].entries)
        PROVE  clock >= store[p].entries[k]
    <3>1. store[p].entries[k] \in Nat
      BY <2>1, <2>3 DEF Present
    <3>2. store[p].entries[k] > clock => until[k] = store[p].entries[k]
      BY <3>1 DEF OnlyAccepted
    <3>3. QED
      BY <2>1, <2>3, <3>1, <3>2
  <2>4. QED
    BY <2>1, <2>2, <2>3 DEF Fresh
<1>3. TypeOK /\ SoleInv /\ OnlyAccepted /\ [Next]_vars => (SoleInv /\ OnlyAccepted)'
  BY SoleKept, OnlyAcceptedKept
<1>4. QED
  BY <1>1, <1>2, <1>3, StoreTypeCorrect, PTL DEF Spec

-----------------------------------------------------------------------------
(***************************************************************************)
(* The file implements a memory that never stops.                          *)
(***************************************************************************)
\* The live acceptances, from the history of them.
Accepted == [k \in Keys |-> Ideal!RememberedAt(until[k], clock)]

\* The live entries of a file that has every live acceptance and no other.
LEMMA FileRemembers ==
    ASSUME NEW f \in Entries \cup {Missing, Empty}, NEW u \in [Keys -> Nat],
           NEW now \in Nat,
           \A k \in Keys : u[k] > now => f \in Entries /\ f[k] = u[k],
           \A k \in Keys, t \in Nat : t > now =>
               ((f \in Entries /\ f[k] = t) => u[k] = t)
    PROVE  [k \in Keys |-> IF f \in Entries /\ k \in Live(f, now) THEN f[k] ELSE 0]
             = [k \in Keys |-> Ideal!RememberedAt(u[k], now)]
<1> SUFFICES ASSUME NEW k \in Keys
             PROVE  (IF f \in Entries /\ k \in Live(f, now) THEN f[k] ELSE 0)
                      = IF u[k] > now THEN u[k] ELSE 0
  BY DEF Ideal!RememberedAt
<1>1. CASE u[k] > now
  <2>1. f \in Entries /\ f[k] = u[k] /\ u[k] \in Nat
    BY <1>1
  <2>2. k \in Live(f, now)
    BY <1>1, <2>1, StoreAssumption DEF Live, Present
  <2>3. QED
    BY <1>1, <2>1, <2>2
<1>2. CASE ~(u[k] > now)
  <2>1. ASSUME f \in Entries, k \in Live(f, now)
        PROVE  FALSE
    <3>1. f[k] \in Nat /\ f[k] > now
      BY <2>1 DEF Live, Present, Entries
    <3>2. u[k] = f[k]
      BY <2>1, <3>1
    <3>3. QED
      BY <1>2, <3>1, <3>2
  <2>2. QED
    BY <1>2, <2>1
<1>3. QED
  BY <1>1, <1>2

LEMMA RememberedIsAccepted ==
    ASSUME TypeOK, SoleInv, OnlyAccepted
    PROVE  rememberedBar = Accepted
<1>1. /\ file \in Entries \cup {Missing, Empty} /\ until \in [Keys -> Nat]
      /\ clock \in Nat
  BY StoreAssumption DEF TypeOK, SoleInv
<1>2. /\ \A k \in Keys : until[k] > clock => file \in Entries /\ file[k] = until[k]
      /\ \A k \in Keys, t \in Nat : t > clock =>
           ((file \in Entries /\ file[k] = t) => until[k] = t)
  BY DEF SoleInv, AcceptancesKept, OnlyAccepted
<1>3. QED
  BY <1>1, <1>2, FileRemembers DEF rememberedBar, Accepted

\* The same of the state after a step.
LEMMA RememberedIsAcceptedNext ==
    ASSUME TypeOK', SoleInv', OnlyAccepted'
    PROVE  rememberedBar' = Accepted'
<1>1. /\ file' \in Entries \cup {Missing, Empty} /\ until' \in [Keys -> Nat]
      /\ clock' \in Nat
  BY StoreAssumption DEF TypeOK, SoleInv
<1>2. /\ \A k \in Keys : until'[k] > clock' => file' \in Entries /\ file'[k] = until'[k]
      /\ \A k \in Keys, t \in Nat : t > clock' =>
           ((file' \in Entries /\ file'[k] = t) => until'[k] = t)
  BY DEF SoleInv, AcceptancesKept, OnlyAccepted
<1>3. QED
  BY <1>1, <1>2, FileRemembers DEF rememberedBar, Accepted

\* A step of the store, seen in the history, is one of the ideal memory.
LEMMA StepRemembers ==
    ASSUME TypeOK, TypeOK', SoleInv', [Next]_vars,
           rememberedBar = Accepted, rememberedBar' = Accepted'
    PROVE  [Ideal!Next]_(Ideal!vars)
<1>1. clock \in Nat /\ until \in [Keys -> Nat] /\ MaxClock \in Nat
  BY StoreAssumption DEF TypeOK
<1>2. ASSUME NEW p \in Processes, NEW k \in Keys, Record(p, k)
      PROVE  Ideal!Accept(k)
  <2>1. /\ until' = [until EXCEPT ![k] = clock + store[p].ttl]
        /\ ~(clock < until[k]) /\ clock' = clock /\ store[p].ttl \in Ttls
    <3>1. replayed' = IF clock < until[k] THEN replayed \cup {k} ELSE replayed
      BY <1>2 DEF Record
    <3>2. ~(clock < until[k])
      BY <3>1 DEF SoleInv
    <3>3. QED
      BY <1>2, <3>2, OpenType DEF Record
  <2>2. rememberedBar[k] = 0
    BY <1>1, <2>1 DEF Accepted, Ideal!RememberedAt
  <2>3. rememberedBar' = [rememberedBar EXCEPT
                            ![k] = Ideal!RememberedAt(clock + store[p].ttl, clock)]
    BY <1>1, <2>1 DEF Accepted
  <2>4. QED
    BY <2>1, <2>2, <2>3 DEF Ideal!Accept
<1>3. ASSUME NEW p \in Processes, Clear(p)
      PROVE  Ideal!ForgetAll
  <2>1. until' = [k \in Keys |-> 0] /\ clock' = clock
    BY <1>3 DEF Clear
  <2>2. rememberedBar' = [k \in Keys |-> 0]
    BY <1>1, <2>1 DEF Accepted, Ideal!RememberedAt
  <2>3. QED
    BY <2>1, <2>2 DEF Ideal!ForgetAll
<1>4. ASSUME Tick
      PROVE  Ideal!Tick
  <2>1. until' = until /\ clock' = clock + 1 /\ clock < MaxClock
    BY <1>4 DEF Tick
  <2>2. \A k \in Keys : Ideal!RememberedAt(until[k], clock') =
                        Ideal!RememberedAt(Ideal!RememberedAt(until[k], clock), clock')
    BY <1>1, <2>1 DEF Ideal!RememberedAt
  <2>3. rememberedBar' = [k \in Keys |-> Ideal!RememberedAt(rememberedBar[k], clock')]
    BY <2>1, <2>2 DEF Accepted
  <2>4. QED
    BY <2>1, <2>3 DEF Ideal!Tick
<1>5. ASSUME UNCHANGED <<until, clock>>
      PROVE  UNCHANGED Ideal!vars
  BY <1>5 DEF Ideal!vars, Accepted
<1>6. ASSUME NEW p \in Processes,
             \/ Open(p) \/ Cleanup(p) \/ Flush(p) \/ Reload(p) \/ Close(p) \/ CrashInWrite(p)
      PROVE  UNCHANGED Ideal!vars
  BY <1>5, <1>6 DEF Open, Cleanup, Flush, Reload, Close, CrashInWrite
<1>7. CASE UNCHANGED vars
  BY <1>5, <1>7 DEF vars
<1>8. QED
  BY <1>2, <1>3, <1>4, <1>6, <1>7 DEF Next, Ideal!Next

\* Under the conditions of SoleStoreRefusesReplays the persistent store
\* implements ReplayIdeal: its file "survives restart" (replay.rs) in that no
\* sequence of operations and restarts can be told from a memory that never
\* stops by what is accepted.
THEOREM SoleStoreImplementsIdeal ==
    ASSUME NoOverflow, Undisturbed
    PROVE  Spec => SurvivesRestart
<1>1. Init => SoleInv /\ OnlyAccepted
  BY StoreAssumption DEF Init, SoleInv, AcceptancesKept, OnlyAccepted, IsOpen
<1>2. TypeOK /\ SoleInv /\ OnlyAccepted /\ [Next]_vars => (SoleInv /\ OnlyAccepted)'
  BY SoleKept, OnlyAcceptedKept
<1>3. Init => Ideal!Init
  <2>1. Init => rememberedBar = [k \in Keys |-> 0]
    BY StoreAssumption DEF Init, rememberedBar
  <2>2. QED
    BY <2>1 DEF Init, Ideal!Init
<1>4. /\ TypeOK /\ TypeOK' /\ SoleInv /\ SoleInv' /\ OnlyAccepted /\ OnlyAccepted'
      /\ [Next]_vars
      => [Ideal!Next]_(Ideal!vars)
  BY RememberedIsAccepted, RememberedIsAcceptedNext, StepRemembers
<1>5. QED
  BY <1>1, <1>2, <1>3, <1>4, StoreTypeCorrect, PTL
     DEF Spec, SurvivesRestart, Ideal!Spec

-----------------------------------------------------------------------------
(***************************************************************************)
(* The limit.                                                              *)
(***************************************************************************)
\* A store is over its limit by more than the entry just inserted only if it
\* was over its limit before.
LEMMA OverLimitBefore ==
    ASSUME NEW e \in Entries, NEW k \in Keys, NEW t,
           Cardinality(Present([e EXCEPT ![k] = t])) > MaxEntries + 1
    PROVE  Cardinality(Present(e)) > MaxEntries
<1>1. /\ IsFiniteSet(Present(e)) /\ Cardinality(Present(e)) \in Nat
      /\ MaxEntries \in Nat
  <2>1. Present(e) \subseteq Keys
    BY DEF Present
  <2>2. QED
    BY <2>1, StoreAssumption, FS_Subset, FS_CardinalityType
<1>2. /\ IsFiniteSet(Present(e) \cup {k})
      /\ Cardinality(Present(e) \cup {k}) <= Cardinality(Present(e)) + 1
      /\ Cardinality(Present(e) \cup {k}) \in Nat
  <2>1. /\ IsFiniteSet(Present(e) \cup {k})
        /\ \/ Cardinality(Present(e) \cup {k}) = Cardinality(Present(e))
           \/ Cardinality(Present(e) \cup {k}) = Cardinality(Present(e)) + 1
    BY <1>1, FS_AddElement
  <2>2. QED
    BY <1>1, <2>1
<1>3. Present([e EXCEPT ![k] = t]) \subseteq Present(e) \cup {k}
  BY DEF Present, Entries
<1>4. /\ Cardinality(Present([e EXCEPT ![k] = t])) <= Cardinality(Present(e) \cup {k})
      /\ Cardinality(Present([e EXCEPT ![k] = t])) \in Nat
  BY <1>2, <1>3, FS_Subset, FS_CardinalityType
<1>5. QED
  BY <1>1, <1>2, <1>4

\* Every entry is live, or one that is recorded now by a store of this TTL.
LiveOrNew(e, ttl) ==
    \A k \in Present(e) : e[k] > clock \/ e[k] = ExpiresAt(clock, ttl)

\* A clean-up or a load leaves live entries only.
LEMMA CleanupLeavesLive ==
    ASSUME NEW now \in Nat
    PROVE  /\ \A e \in Entries, k \in Keys :
                k \in Present(CleanupExpired(e, now)) => CleanupExpired(e, now)[k] > now
           /\ \A f \in Entries \cup {Missing, Empty}, k \in Keys :
                k \in Present(Loaded(f, now)) => Loaded(f, now)[k] > now
<1>1. ASSUME NEW e \in Entries, NEW k \in Keys, k \in Present(CleanupExpired(e, now))
      PROVE  CleanupExpired(e, now)[k] > now
  BY <1>1 DEF CleanupExpired, Live, Present
<1>2. ASSUME NEW f \in Entries \cup {Missing, Empty}, NEW k \in Keys,
             k \in Present(Loaded(f, now))
      PROVE  Loaded(f, now)[k] > now
  <2>1. k \notin Present(NoEntries)
    BY DEF NoEntries, Present
  <2>2. f \notin {Missing, Empty} /\ Loaded(f, now) = CleanupExpired(f, now)
    BY <1>2, <2>1 DEF Loaded
  <2>3. QED
    BY <1>1, <1>2, <2>2
<1>3. QED
  BY <1>1, <1>2

\* What a step leaves of a store that it changes.
LEMMA ChangedByOne ==
    ASSUME TypeOK, [Next]_vars, NEW p \in Processes,
           store'[p] # Closed, store'[p] # store[p],
           Cardinality(Present(store'[p].entries)) > MaxEntries + 1
    PROVE  LiveOrNew(store'[p].entries, store'[p].ttl)
<1>1. /\ clock \in Nat
      /\ store \in [Processes -> [ttl : Ttls, entries : Entries] \cup {Closed}]
      /\ file \in Entries \cup {Missing, Empty, Torn}
  BY StoreAssumption DEF TypeOK
<1>2. ASSUME NEW k \in Keys
      PROVE  k \notin Present(NoEntries)
  BY DEF NoEntries, Present
<1>3. \A e : Present(e) \subseteq Keys
  BY DEF Present
<1>4. ASSUME Open(p)
      PROVE  LiveOrNew(store'[p].entries, store'[p].ttl)
  <2>1. store'[p].entries = Loaded(file, clock) /\ file # Torn
    BY <1>1, <1>4 DEF Open
  <2>2. QED
    BY <1>1, <1>3, <2>1, CleanupLeavesLive DEF LiveOrNew
<1>5. ASSUME NEW k \in Keys, Record(p, k)
      PROVE  LiveOrNew(store'[p].entries, store'[p].ttl)
  <2> DEFINE old == store[p].entries
             new == MaybeCleanup(old, clock)
             t == ExpiresAt(clock, store[p].ttl)
  <2>1. /\ IsOpen(p)
        /\ store' = [store EXCEPT ![p] = [store[p] EXCEPT !.entries = [new EXCEPT ![k] = t]]]
    BY <1>5 DEF Record
  <2>2. /\ store[p] \in [ttl : Ttls, entries : Entries] /\ old \in Entries
        /\ new \in Entries
    BY <1>1, <2>1, OpenType, CleanupKeepsLive
  <2>3. store'[p].entries = [new EXCEPT ![k] = t] /\ store'[p].ttl = store[p].ttl
    BY <1>1, <2>1, <2>2
  <2>4. Cardinality(Present(new)) > MaxEntries
    BY <2>2, <2>3, OverLimitBefore
  <2>5. new = CleanupExpired(old, clock)
    BY <2>4 DEF MaybeCleanup
  <2>6. \A j \in Keys : j \in Present(new) => new[j] > clock
    BY <1>1, <2>2, <2>5, CleanupLeavesLive
  <2> HIDE DEF new, old
  <2>7. ASSUME NEW j \in Present([new EXCEPT ![k] = t])
        PROVE  [new EXCEPT ![k] = t][j] > clock \/ [new EXCEPT ![k] = t][j] = t
    <3>1. j \in Keys
      BY <2>7 DEF Present
    <3>2. CASE j = k
      BY <2>2, <3>2 DEF Entries
    <3>3. CASE j # k
      BY <2>2, <2>6, <2>7, <3>1, <3>3 DEF Present, Entries
    <3>4. QED
      BY <3>2, <3>3
  <2>8. QED
    BY <2>3, <2>7 DEF LiveOrNew
<1>6. ASSUME Cleanup(p)
      PROVE  LiveOrNew(store'[p].entries, store'[p].ttl)
  <2>1. store'[p].entries = CleanupExpired(store[p].entries, clock)
        /\ store[p].entries \in Entries
    BY <1>1, <1>6, OpenType DEF Cleanup
  <2>2. QED
    BY <1>1, <1>3, <2>1, CleanupLeavesLive DEF LiveOrNew
<1>7. ASSUME Clear(p)
      PROVE  LiveOrNew(store'[p].entries, store'[p].ttl)
  <2>1. store'[p].entries = NoEntries
    BY <1>1, <1>7, OpenType DEF Clear
  <2>2. QED
    BY <1>2, <1>3, <2>1 DEF LiveOrNew
<1>8. ASSUME Reload(p)
      PROVE  LiveOrNew(store'[p].entries, store'[p].ttl)
  <2>1. store'[p].entries = IF file = Torn THEN NoEntries ELSE Loaded(file, clock)
    BY <1>1, <1>8, OpenType DEF Reload
  <2>2. QED
    BY <1>1, <1>2, <1>3, <2>1, CleanupLeavesLive DEF LiveOrNew
<1>9. ASSUME Flush(p) \/ Close(p) \/ CrashInWrite(p) \/ Tick \/ UNCHANGED vars
      PROVE  FALSE
  BY <1>1, <1>9 DEF Flush, Close, CrashInWrite, Tick, vars
<1>10. ASSUME NEW q \in Processes, q # p,
              \/ Open(q) \/ Cleanup(q) \/ Flush(q) \/ Clear(q) \/ Reload(q)
              \/ Close(q) \/ CrashInWrite(q) \/ \E k \in Keys : Record(q, k)
       PROVE  FALSE
  <2>1. store'[p] = store[p]
    BY <1>1, <1>10 DEF Open, Cleanup, Flush, Clear, Reload, Close, CrashInWrite, Record
  <2>2. QED
    BY <2>1
<1>11. QED
  BY <1>4, <1>5, <1>6, <1>7, <1>8, <1>9, <1>10 DEF Next

\* maybe_cleanup, however many entries of whatever TTL there are: a store over
\* its limit carries no expired entry along.
THEOREM LimitCarriesOnlyLive == Spec => OnlyLiveOverLimit
<1> DEFINE Limit == \A p \in Processes :
          /\ store'[p] # Closed /\ store'[p] # store[p]
          /\ Cardinality(Present(store'[p].entries)) > MaxEntries + 1
          => \A k \in Present(store'[p].entries) :
               \/ store'[p].entries[k] > clock
               \/ store'[p].entries[k] = ExpiresAt(clock, store'[p].ttl)
<1>1. ASSUME TypeOK, [Next]_vars
      PROVE  Limit
  BY <1>1, ChangedByOne DEF LiveOrNew
<1>2. TypeOK /\ [Next]_vars => [Limit]_vars
  BY <1>1
<1>3. QED
  BY <1>2, StoreTypeCorrect, PTL DEF Spec, OnlyLiveOverLimit
=============================================================================
