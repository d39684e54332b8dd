------------------------------ MODULE PeerBook ------------------------------
(***************************************************************************)
(* The trusted peer book of peerbook.rs, in memory and with its file.      *)
(*                                                                         *)
(* A book is loaded from its file on open; add and remove change the book  *)
(* in memory first and then write it as a whole and in place, returning    *)
(* the error of that write.  A peerbook command of main.rs opens the       *)
(* book, makes one call and ends; an application may keep its book open.   *)
(***************************************************************************)
EXTENDS FiniteSets

CONSTANTS
    Peers,    \* public keys
    Books,    \* the processes that use the file, one book at a time
    MayFail,  \* TRUE: writes may fail, and a process may die during one
    Missing, Empty, Torn, Closed

VARIABLES
    book,        \* the peers each process trusts
    file,        \* what the file at their path contains
    answered,    \* history: the change of a peer that was last answered Ok
    own,         \* history: the change each book made last, since it was loaded
    overlapped,  \* history: two books have been open at a time
    failed       \* history: a write has failed

vars == <<book, file, answered, own, overlapped, failed>>

Changes == {"Added", "Removed", "Unknown"}

ASSUME BookAssumption ==
    /\ MayFail \in BOOLEAN
    /\ \A S \in SUBSET Peers : S \notin {Closed, Missing, Empty, Torn}

-----------------------------------------------------------------------------
IsOpen(b) == book[b] # Closed

\* is_trusted, require_trusted.
Trusts(b, p) == IsOpen(b) /\ p \in book[b]

\* path.exists and what load does: a file that can be read as a book.
Readable(f) == f \notin {Missing, Empty, Torn}

\* The peers a reader of the file would trust.
Contents(f) == IF Readable(f) THEN f ELSE {}

\* Mutant: what is not a book is read as a book of one entry.
LoadedUnchecked(f, old) == IF Readable(f) THEN f ELSE {f}

\* Mutant: the map is cleared before the file is read, as ReplayStore does it.
LoadedCleared(f, old) == Contents(f)

\* Mutant: what the file says is not taken over.
LoadedNothing(f, old) == old

\* load keeps the old peers if the file has nothing in it; an unreadable one
\* fails before the old peers are cleared.
Loaded(f, old) == IF Readable(f) THEN f ELSE old

\* Mutant: the file is written before the change is made.
SavedLate(b, peers) == file' = book[b]

Saved(b, peers) == file' = peers

\* fs::write fails before it opens the file, after it has truncated it, or half
\* way.
SaveFails ==
    /\ MayFail
    /\ file' \in {file, Empty, Torn}
    /\ failed' = TRUE

\* Memory first, then the file; the memory is not set back if save fails.
Change(b, p, change, peers) ==
    /\ book' = [book EXCEPT ![b] = peers]
    /\ own' = [own EXCEPT ![b][p] = change]
    /\ \/ /\ Saved(b, peers)
          /\ answered' = [answered EXCEPT ![p] = change]
          /\ UNCHANGED failed
       \/ /\ SaveFails
          /\ answered' = [answered EXCEPT ![p] = "Unknown"]
    /\ UNCHANGED overlapped

\* Otherwise DuplicatePeer, also if the peer is there because of an add that
\* failed in save.
Add(b, p) ==
    /\ IsOpen(b) /\ ~Trusts(b, p)
    /\ Change(b, p, "Added", book[b] \cup {p})

\* Otherwise PeerNotFound, also after a remove that failed in save.
Remove(b, p) ==
    /\ Trusts(b, p)
    /\ Change(b, p, "Removed", book[b] \ {p})

Open(b) ==
    /\ ~IsOpen(b)
    /\ file # Torn
    /\ book' = [book EXCEPT ![b] = Loaded(file, {})]
    /\ own' = [own EXCEPT ![b] = [p \in Peers |-> "Unknown"]]
    /\ overlapped' = (overlapped \/ \E c \in Books \ {b} : IsOpen(c))
    /\ UNCHANGED <<file, answered, failed>>

Flush(b) ==
    /\ IsOpen(b)
    /\ \/ Saved(b, book[b]) /\ UNCHANGED failed
       \/ SaveFails
    /\ UNCHANGED <<book, answered, own, overlapped>>

Reload(b) ==
    /\ IsOpen(b)
    /\ book' = [book EXCEPT ![b] = Loaded(file, book[b])]
    /\ own' = IF Readable(file)
              THEN [own EXCEPT ![b] = [p \in Peers |-> "Unknown"]] ELSE own
    /\ UNCHANGED <<file, answered, overlapped, failed>>

\* The book is dropped, or its process ends between two calls.
Close(b) ==
    /\ IsOpen(b)
    /\ book' = [book EXCEPT ![b] = Closed]
    /\ UNCHANGED <<file, answered, own, overlapped, failed>>

\* The process dies while fs::write is writing; nothing was returned yet.
CrashInWrite(b) ==
    /\ MayFail
    /\ IsOpen(b)
    /\ book' = [book EXCEPT ![b] = Closed]
    /\ file' \in {Empty, Torn}
    /\ failed' = TRUE
    /\ UNCHANGED <<answered, own, overlapped>>

Init ==
    /\ book = [b \in Books |-> Closed]
    /\ file \in {Missing, Empty}
    /\ answered = [p \in Peers |-> "Unknown"]
    /\ own = [b \in Books |-> [p \in Peers |-> "Unknown"]]
    /\ overlapped = FALSE
    /\ failed = FALSE

Next ==
    \E b \in Books :
        \/ Open(b) \/ Flush(b) \/ Reload(b) \/ Close(b) \/ CrashInWrite(b)
        \/ \E p \in Peers : Add(b, p) \/ Remove(b, p)

Spec == Init /\ [][Next]_vars

-----------------------------------------------------------------------------
(***************************************************************************)
(* Properties.                                                             *)
(***************************************************************************)
\* Books, file and histories have the shape peerbook.rs gives them.
TypeOK ==
    /\ book \in [Books -> {Closed} \cup SUBSET Peers]
    /\ file \in {Missing, Empty, Torn} \cup SUBSET Peers
    /\ answered \in [Peers -> Changes]
    /\ own \in [Books -> [Peers -> Changes]]
    /\ overlapped \in BOOLEAN
    /\ failed \in BOOLEAN

\* An open book trusts whom it has added and not whom it has removed, until it
\* takes over a file that can be read: whatever other processes and failed
\* writes do to the file, and though its own call may have returned an error.
OwnChangesHold ==
    \A b \in Books, p \in Peers : IsOpen(b) =>
        /\ own[b][p] = "Added" => Trusts(b, p)
        /\ own[b][p] = "Removed" => ~Trusts(b, p)

\* If books are open one at a time, a peer whose removal was answered Ok is not
\* trusted again by any book, nor after any restart, until it is added again;
\* also when other calls fail in their write.
RemovedStayRemoved ==
    ~overlapped =>
        \A p \in Peers : answered[p] = "Removed" =>
            p \notin Contents(file) /\ \A b \in Books : ~Trusts(b, p)

\* If books are open one at a time and no write has failed, a peer that was
\* added is in the file and trusted by every book, across restarts and reloads.
AddedStayAdded ==
    ~overlapped /\ ~failed =>
        \A p \in Peers : answered[p] = "Added" =>
            p \in Contents(file) /\ \A b \in Books : IsOpen(b) => Trusts(b, p)
=============================================================================
