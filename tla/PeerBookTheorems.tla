-------------------------- MODULE PeerBookTheorems --------------------------
(***************************************************************************)
(* What a peer book promises, for any peers and any number of processes.   *)
(*                                                                         *)
(* The first lemmas say what a step of any process can do to one peer in   *)
(* one book, to the file, to the last answer and to the set of open books. *)
(* The theorems follow from them without a look at the single calls.       *)
(***************************************************************************)
EXTENDS PeerBook, TLAPS

\* No two books are open at a time unless the history says so.
OneAtATime ==
    ~overlapped => \A b, c \in Books : IsOpen(b) /\ IsOpen(c) => b = c

\* Books, file and histories keep their types, through failed writes and
\* crashes (peerbook.rs, every call).
THEOREM BookTypeCorrect == Spec => []TypeOK
<1>1. ASSUME Init PROVE TypeOK
  BY <1>1 DEF Init, TypeOK, Changes
<1>2. ASSUME TypeOK, NEW b \in Books, NEW p \in Peers, Add(b, p) \/ Remove(b, p)
      PROVE  TypeOK'
  <2>1. PICK change \in Changes, peers \in SUBSET Peers : Change(b, p, change, peers)
    <3>1. book[b] \cup {p} \in SUBSET Peers /\ book[b] \ {p} \in SUBSET Peers
      BY <1>2 DEF Add, Remove, Trusts, IsOpen, TypeOK
    <3>2. QED
      BY <1>2, <3>1 DEF Add, Remove, Changes
  <2>2. QED
    BY <1>2, <2>1 DEF Change, Saved, SaveFails, TypeOK, Changes
<1>3. ASSUME TypeOK, NEW b \in Books, Open(b) \/ Reload(b) PROVE TypeOK'
  <2>1. file # Torn /\ book' = [book EXCEPT ![b] = Loaded(file, {})]
        => book' \in [Books -> {Closed} \cup SUBSET Peers]
    BY <1>3 DEF Loaded, Readable, TypeOK
  <2>2. book' = [book EXCEPT ![b] = Loaded(file, book[b])]
        => book' \in [Books -> {Closed} \cup SUBSET Peers]
    BY <1>3 DEF Loaded, Readable, TypeOK
  <2>3. own' \in [Books -> [Peers -> Changes]]
    BY <1>3 DEF Open, Reload, TypeOK, Changes
  <2>4. overlapped' \in BOOLEAN
    BY <1>3 DEF Open, Reload, TypeOK
  <2>5. QED
    BY <1>3, <2>1, <2>2, <2>3, <2>4 DEF Open, Reload, TypeOK
<1>4. ASSUME TypeOK, NEW b \in Books, Flush(b) \/ Close(b) \/ CrashInWrite(b)
      PROVE  TypeOK'
  BY <1>4 DEF Flush, Close, CrashInWrite, Saved, SaveFails, IsOpen, TypeOK
<1>5. TypeOK /\ [Next]_vars => TypeOK'
  BY <1>2, <1>3, <1>4 DEF Next, vars, TypeOK
<1>6. QED
  BY <1>1, <1>5, PTL DEF Spec

-----------------------------------------------------------------------------
(***************************************************************************)
(* What a step can do.                                                     *)
(***************************************************************************)
\* How a book stands to a peer after a step that leaves it open: as before; as
\* the file says, with no changes of its own; or as the call that changed it.
Stands(c, q) ==
    \/ /\ IsOpen(c)
       /\ Trusts(c, q)' = Trusts(c, q)
       /\ own'[c][q] = own[c][q]
    \/ /\ Trusts(c, q)' = (q \in Contents(file))
       /\ own'[c][q] = "Unknown"
       /\ answered' = answered
    \/ /\ Trusts(c, q)'
       /\ own'[c][q] = "Added"
       /\ answered'[q] \in {"Added", "Unknown"}
    \/ /\ ~Trusts(c, q)'
       /\ own'[c][q] = "Removed"
       /\ answered'[q] \in {"Removed", "Unknown"}

\* A book changes for a peer by taking over the file or by a call about that
\* peer, and its own changes tell which (peerbook.rs, load, add and remove).
LEMMA BookAfterStep ==
    ASSUME TypeOK, [Next]_vars, NEW c \in Books, NEW q \in Peers, IsOpen(c)'
    PROVE  Stands(c, q)
<1> USE DEF IsOpen, Trusts
<1>1. CASE \E b \in Books, p \in Peers : Add(b, p)
  BY <1>1 DEF Stands, Add, Change, TypeOK
<1>2. CASE \E b \in Books, p \in Peers : Remove(b, p)
  BY <1>2 DEF Stands, Remove, Change, TypeOK
<1>3. CASE \E b \in Books : Open(b) \/ Reload(b)
  BY <1>3 DEF Stands, Open, Reload, Loaded, Contents, Readable, TypeOK
<1>4. CASE UNCHANGED <<book, own>>
  BY <1>4 DEF Stands
<1>5. CASE \E b \in Books : Close(b) \/ CrashInWrite(b)
  BY <1>5 DEF Stands, Close, CrashInWrite, TypeOK
<1>6. QED
  BY <1>1, <1>2, <1>3, <1>4, <1>5 DEF Next, Flush, vars

\* A write leaves what an open book has, or nothing that can be read, and then
\* it has failed (peerbook.rs, save).
LEMMA FileAfterStep ==
    ASSUME TypeOK, [Next]_vars
    PROVE  \/ file' = file
           \/ file' \in {Empty, Torn} /\ failed'
           \/ \E b \in Books : IsOpen(b) /\ IsOpen(b)' /\ file' = book'[b]
<1>1. ASSUME NEW b \in Books, NEW peers \in SUBSET Peers, NEW p, NEW change,
             IsOpen(b), Change(b, p, change, peers)
      PROVE  \/ file' = file
             \/ file' \in {Empty, Torn} /\ failed'
             \/ IsOpen(b)' /\ file' = book'[b]
  BY <1>1, BookAssumption DEF Change, Saved, SaveFails, IsOpen, TypeOK
<1>2. CASE \E b \in Books, p \in Peers : Add(b, p) \/ Remove(b, p)
  <2>1. PICK b \in Books, p \in Peers : Add(b, p) \/ Remove(b, p)
    BY <1>2
  <2>2. /\ IsOpen(b)
        /\ book[b] \cup {p} \in SUBSET Peers /\ book[b] \ {p} \in SUBSET Peers
    BY <2>1 DEF Add, Remove, Trusts, IsOpen, TypeOK
  <2>3. QED
    BY <1>1, <2>1, <2>2 DEF Add, Remove
<1>3. CASE \E b \in Books : Flush(b)
  BY <1>3 DEF Flush, Saved, SaveFails, IsOpen
<1>4. CASE \E b \in Books : CrashInWrite(b)
  BY <1>4 DEF CrashInWrite
<1>5. QED
  BY <1>2, <1>3, <1>4 DEF Next, Open, Reload, Close, vars

\* A peer's last answer is kept, becomes unknown with a failed write, or is that
\* of a call that left the peer's new standing in an open book and in the file
\* (peerbook.rs, add and remove).
LEMMA AnswerAfterStep ==
    ASSUME TypeOK, [Next]_vars, NEW q \in Peers, answered'[q] # "Unknown"
    PROVE  \/ answered'[q] = answered[q]
           \/ \E b \in Books :
                 /\ IsOpen(b) /\ IsOpen(b)'
                 /\ file' = book'[b]
                 /\ answered'[q] = "Added" => Trusts(b, q)'
                 /\ answered'[q] = "Removed" => ~Trusts(b, q)'
<1>1. CASE \E b \in Books, p \in Peers : Add(b, p)
  <2>1. PICK b \in Books, p \in Peers : Add(b, p)
    BY <1>1
  <2>2. book[b] \cup {p} \in SUBSET Peers
    BY <2>1 DEF Add, IsOpen, TypeOK
  <2>3. QED
    BY <2>1, <2>2, BookAssumption
    DEF Add, Change, Saved, SaveFails, Trusts, IsOpen, TypeOK
<1>2. CASE \E b \in Books, p \in Peers : Remove(b, p)
  <2>1. PICK b \in Books, p \in Peers : Remove(b, p)
    BY <1>2
  <2>2. book[b] \ {p} \in SUBSET Peers
    BY <2>1 DEF Remove, Trusts, IsOpen, TypeOK
  <2>3. QED
    BY <2>1, <2>2, BookAssumption
    DEF Remove, Change, Saved, SaveFails, Trusts, IsOpen, TypeOK
<1>3. QED
  BY <1>1, <1>2 DEF Next, Open, Flush, Reload, Close, CrashInWrite, vars

\* The histories of overlaps and of failures only grow, and a book that is
\* opened is the only one or there is an overlap (main.rs, a command has one).
LEMMA OpenAfterStep ==
    ASSUME TypeOK, [Next]_vars
    PROVE  /\ overlapped => overlapped'
           /\ failed => failed'
           /\ \A c \in Books : IsOpen(c)' /\ ~IsOpen(c) =>
                 overlapped' \/ \A d \in Books \ {c} : ~IsOpen(d)'
<1>1. CASE \E b \in Books : Open(b)
  <2>1. PICK b \in Books : Open(b)
    BY <1>1
  <2>2. /\ overlapped => overlapped'
        /\ overlapped' \/ \A d \in Books \ {b} : ~IsOpen(d)
    BY <2>1 DEF Open
  <2>3. \A c \in Books \ {b} : IsOpen(c)' = IsOpen(c)
    BY <2>1 DEF Open, IsOpen, TypeOK
  <2>4. QED
    BY <2>1, <2>2, <2>3 DEF Open
<1>2. CASE \E b \in Books, p \in Peers : Add(b, p) \/ Remove(b, p)
  BY <1>2 DEF Add, Remove, Trusts, Change, SaveFails, IsOpen, TypeOK
<1>3. CASE \E b \in Books : Flush(b) \/ Reload(b) \/ Close(b) \/ CrashInWrite(b)
  BY <1>3 DEF Flush, Reload, Close, CrashInWrite, SaveFails, IsOpen, TypeOK
<1>4. CASE UNCHANGED vars
  BY <1>4 DEF vars, IsOpen
<1>5. QED
  BY <1>1, <1>2, <1>3, <1>4 DEF Next

-----------------------------------------------------------------------------
(***************************************************************************)
(* What follows for every behaviour.                                       *)
(***************************************************************************)
\* An open book keeps its own changes until it takes over a readable file
\* (peerbook.rs, load parses before it clears).
THEOREM OwnChangesAlwaysHold == Spec => []OwnChangesHold
<1>1. ASSUME Init PROVE OwnChangesHold
  BY <1>1 DEF Init, OwnChangesHold, IsOpen
<1>2. ASSUME TypeOK, OwnChangesHold, [Next]_vars PROVE OwnChangesHold'
  <2>1. ASSUME NEW c \in Books, NEW q \in Peers, IsOpen(c)'
        PROVE  /\ own'[c][q] = "Added" => Trusts(c, q)'
               /\ own'[c][q] = "Removed" => ~Trusts(c, q)'
    BY <1>2, <2>1, BookAfterStep DEF Stands, OwnChangesHold
  <2>2. QED
    BY <2>1 DEF OwnChangesHold
<1>3. QED
  BY <1>1, <1>2, BookTypeCorrect, PTL DEF Spec

\* The history of overlaps is right (main.rs, a command has one book).
LEMMA BooksOneAtATime == Spec => []OneAtATime
<1>1. ASSUME Init PROVE OneAtATime
  BY <1>1 DEF Init, OneAtATime, IsOpen
<1>2. ASSUME TypeOK, OneAtATime, [Next]_vars PROVE OneAtATime'
  <2>1. ASSUME NEW b \in Books, NEW c \in Books,
               IsOpen(b)', IsOpen(c)', ~overlapped', b # c
        PROVE  FALSE
    <3>1. IsOpen(b) /\ IsOpen(c) /\ ~overlapped
      BY <1>2, <2>1, OpenAfterStep
    <3>2. QED
      BY <1>2, <2>1, <3>1 DEF OneAtATime
  <2>2. QED
    BY <2>1 DEF OneAtATime
<1>3. QED
  BY <1>1, <1>2, BookTypeCorrect, PTL DEF Spec

\* A removal that was answered Ok lasts (peerbook.rs, remove), through failed
\* writes of later calls, for books that are open one at a time.
THEOREM RemovalsLast == Spec => []RemovedStayRemoved
<1>1. ASSUME Init PROVE RemovedStayRemoved
  BY <1>1 DEF Init, RemovedStayRemoved
<1>2. ASSUME TypeOK, OneAtATime, OneAtATime', RemovedStayRemoved, [Next]_vars,
             ~overlapped', NEW q \in Peers, answered'[q] = "Removed"
      PROVE  q \notin Contents(file') /\ \A c \in Books : ~Trusts(c, q)'
  <2>1. ~overlapped
    BY <1>2, OpenAfterStep
  <2>2. Contents(Empty) = {} /\ Contents(Torn) = {}
    BY DEF Contents, Readable
  <2>3. \A b \in Books : q \in Contents(book'[b]) => q \in book'[b]
    BY DEF Contents
  <2>4. CASE answered[q] = "Removed"
    <3>1. q \notin Contents(file) /\ \A c \in Books : ~Trusts(c, q)
      BY <2>1, <2>4, <1>2 DEF RemovedStayRemoved
    <3>2. \A c \in Books : ~Trusts(c, q)'
      BY <1>2, <3>1, BookAfterStep DEF Stands, Trusts
    <3>3. QED
      BY <1>2, <2>2, <2>3, <3>1, <3>2, FileAfterStep DEF Trusts
  <2>5. CASE answered[q] # "Removed"
    <3>1. PICK b \in Books : IsOpen(b)' /\ file' = book'[b] /\ ~Trusts(b, q)'
      BY <1>2, <2>5, AnswerAfterStep
    <3>2. \A c \in Books : Trusts(c, q)' => c = b
      BY <1>2, <3>1 DEF OneAtATime, Trusts
    <3>3. QED
      BY <2>3, <3>1, <3>2 DEF Trusts
  <2>6. QED
    BY <2>4, <2>5
<1>3. TypeOK /\ OneAtATime /\ OneAtATime' /\ RemovedStayRemoved /\ [Next]_vars
      => RemovedStayRemoved'
  BY <1>2 DEF RemovedStayRemoved, Contents, Readable
<1>4. QED
  BY <1>1, <1>3, BookTypeCorrect, BooksOneAtATime, PTL DEF Spec

\* A peer that was added stays in the file and in every book (peerbook.rs, add),
\* for books that are open one at a time and whose writes succeed.
THEOREM AdditionsLast == Spec => []AddedStayAdded
<1>1. ASSUME Init PROVE AddedStayAdded
  BY <1>1 DEF Init, AddedStayAdded
<1>2. ASSUME TypeOK, TypeOK', OneAtATime', AddedStayAdded, [Next]_vars,
             ~overlapped', ~failed', NEW q \in Peers, answered'[q] = "Added"
      PROVE  q \in Contents(file') /\ \A c \in Books : IsOpen(c)' => Trusts(c, q)'
  <2>1. ~overlapped /\ ~failed
    BY <1>2, OpenAfterStep
  <2>2. \A b \in Books : IsOpen(b)' => Contents(book'[b]) = book'[b]
    BY <1>2, BookAssumption DEF Contents, Readable, IsOpen, TypeOK
  <2>3. CASE answered[q] = "Added"
    <3>1. q \in Contents(file) /\ \A c \in Books : IsOpen(c) => Trusts(c, q)
      BY <2>1, <2>3, <1>2 DEF AddedStayAdded
    <3>2. \A c \in Books : IsOpen(c)' => Trusts(c, q)'
      BY <1>2, <3>1, BookAfterStep DEF Stands
    <3>3. QED
      BY <1>2, <2>2, <3>1, <3>2, FileAfterStep DEF Trusts
  <2>4. CASE answered[q] # "Added"
    <3>1. PICK b \in Books : IsOpen(b)' /\ file' = book'[b] /\ Trusts(b, q)'
      BY <1>2, <2>4, AnswerAfterStep
    <3>2. \A c \in Books : IsOpen(c)' => c = b
      BY <1>2, <3>1 DEF OneAtATime
    <3>3. QED
      BY <2>2, <3>1, <3>2 DEF Trusts
  <2>5. QED
    BY <2>3, <2>4
<1>3. TypeOK /\ TypeOK' /\ OneAtATime' /\ AddedStayAdded /\ [Next]_vars
      => AddedStayAdded'
  BY <1>2 DEF AddedStayAdded, Contents, Readable
<1>4. QED
  BY <1>1, <1>3, BookTypeCorrect, BooksOneAtATime, PTL DEF Spec
=============================================================================
