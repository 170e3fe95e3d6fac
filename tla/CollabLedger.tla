---------------------------- MODULE CollabLedger ----------------------------
(***************************************************************************)
(* collab/: who is assigned to an object, who commented on it and who      *)
(* holds its edit lock, in one JSON file that every request reads whole    *)
(* and writes whole.                                                       *)
(***************************************************************************)
EXTENDS Naturals, FiniteSets

CONSTANTS
    Users,
    Refs,          \* canon objects
    MaxServed,     \* bound: requests served at a time
    MaxComments,   \* bound: comments per user and object
    Nobody

VARIABLES
    collab,   \* collab.json: assignments, comments, locks
    seat,     \* each user's request: the ledger it will write and the answer it will get
    promised, \* what answers have told each user: its locks, its comments (auxiliary)
    lost      \* entries overwritten by a request that had not seen them change (auxiliary)

vars == <<collab, seat, promised, lost>>

Entries == {"assignment", "comments", "lock"} \X Refs

\* A comment of the k-th submission of u; ids differ in code too.
Comment == Users \X (1..MaxComments)
CollabState ==
    [assignments : [Refs -> Users \cup {Nobody}],
     comments    : [Refs -> SUBSET Comment],
     locks       : [Refs -> Users \cup {Nobody}]]

Init ==
    /\ collab = [assignments |-> [o \in Refs |-> Nobody],
                 comments    |-> [o \in Refs |-> {}],
                 locks       |-> [o \in Refs |-> Nobody]]
    /\ seat = [u \in Users |-> [pc |-> "idle"]]
    /\ promised = [u \in Users |-> [locks |-> {}, comments |-> {}]]
    /\ lost = {}

Served == {u \in Users : seat[u].pc # "idle"}

\* A request about one entry loads the ledger and will save s and tell u of t; it has missed
\* no change of another entry yet.
Load(u, entry, s, t) ==
    /\ seat[u].pc = "idle"
    /\ Cardinality(Served) < MaxServed
    /\ seat' = [seat EXCEPT ![u] =
                   [pc |-> "save", entry |-> entry, to |-> s, tells |-> t, missed |-> {}]]
    /\ UNCHANGED <<collab, promised, lost>>

\* assign_action: an empty assignee takes the assignment away.
Assign(u, o, assignee) ==
    Load(u, <<"assignment", o>>, [collab EXCEPT !.assignments[o] = assignee], promised[u])

AddComment(u, o) ==
    \E k \in 1..MaxComments :
        /\ <<o, <<u, k>>>> \notin promised[u].comments
        /\ \A j \in 1..k-1 : <<o, <<u, j>>>> \in promised[u].comments
        /\ Load(u, <<"comments", o>>,
                   [collab EXCEPT !.comments[o] = @ \cup {<<u, k>>}],
                   [promised[u] EXCEPT !.comments = @ \cup {<<o, <<u, k>>>>}])

\* acquire_lock: taking one's own lock again is fine, another holder's lock is refused.
AcquireLock(u, o) ==
    /\ collab.locks[o] \in {Nobody, u}
    /\ Load(u, <<"lock", o>>,
               [collab EXCEPT !.locks[o] = u], [promised[u] EXCEPT !.locks = @ \cup {o}])

\* A bug: anybody's release clears the lock.
ReleaseAnyLock(u, o) ==
    Load(u, <<"lock", o>>, [collab EXCEPT !.locks[o] = Nobody], [promised[u] EXCEPT !.locks = @ \ {o}])

\* A bug: a lock given back keeps an empty holder.
ReleaseToEmpty(u, o) ==
    Load(u, <<"lock", o>>,
            IF collab.locks[o] = u THEN [collab EXCEPT !.locks[o] = ""] ELSE collab,
            [promised[u] EXCEPT !.locks = @ \ {o}])

\* release_lock: only the holder's release does anything; the answer is "not locked" anyway.
ReleaseLock(u, o) ==
    Load(u, <<"lock", o>>,
            IF collab.locks[o] = u THEN [collab EXCEPT !.locks[o] = Nobody] ELSE collab,
            [promised[u] EXCEPT !.locks = @ \ {o}])

\* The whole ledger is written: what changed since u loaded it is as it was then, and the
\* other requests under way have not seen the entry of u change.
Save(u) ==
    /\ seat[u].pc = "save"
    /\ collab' = seat[u].to
    /\ promised' = [promised EXCEPT ![u] = seat[u].tells]
    /\ lost' = lost \cup seat[u].missed
    /\ seat' = [v \in Users |->
                  IF v = u THEN [pc |-> "idle"]
                  ELSE IF seat[v].pc = "save" THEN [seat[v] EXCEPT !.missed = @ \cup {seat[u].entry}]
                  ELSE seat[v]]

Next == \E u \in Users :
    \/ \E o \in Refs : AddComment(u, o) \/ AcquireLock(u, o) \/ ReleaseLock(u, o)
    \/ \E o \in Refs, v \in Users \cup {Nobody} : Assign(u, o, v)
    \/ Save(u)

Spec == Init /\ [][Next]_vars

-----------------------------------------------------------------------------
\* What answers can have told a user, and a request that will write the ledger.
Promise == [locks : SUBSET Refs, comments : SUBSET (Refs \X Comment)]
Seat    == [pc : {"save"}, entry : Entries, to : CollabState, tells : Promise,
            missed : SUBSET Entries]

TypeOK ==
    /\ collab \in CollabState
    /\ seat \in [Users -> {[pc |-> "idle"]} \cup Seat]
    /\ promised \in [Users -> Promise]
    /\ lost \subseteq Entries

\* Who was told that they hold a lock holds it, and what they said is there, but for the
\* entries in gone.
KeepsWord(ledger, told, u, gone) ==
    /\ \A o \in told.locks : <<"lock", o>> \notin gone => ledger.locks[o] = u
    /\ \A e \in told.comments : <<"comments", e[1]>> \notin gone => e[2] \in ledger.comments[e[1]]

\* However many requests overlap, the ledger keeps its word on every entry that no request
\* overwrote without having seen it change: who was told that they hold an object's lock and
\* has not given it back holds it, so no two are told so of one object, and a comment that was
\* acknowledged is there.
LedgerKeepsItsWord == \A u \in Users : KeepsWord(collab, promised[u], u, lost)

\* What that rests on: the ledger that a request will write keeps the word given so far, and
\* its own, but for what it has missed.
SeatInv(u) ==
    seat[u].pc = "save" =>
        /\ \A v \in Users : v # u => KeepsWord(seat[u].to, promised[v], v, lost \cup seat[u].missed)
        /\ KeepsWord(seat[u].to, seat[u].tells, u, lost \cup seat[u].missed)
        /\ \A o \in Refs : <<"lock", o>> # seat[u].entry => (o \in seat[u].tells.locks => o \in promised[u].locks)
        /\ \A c \in seat[u].tells.comments :
               <<"comments", c[1]>> # seat[u].entry => c \in promised[u].comments

CollabInv == TypeOK /\ LedgerKeepsItsWord /\ \A u \in Users : SeatInv(u)
=============================================================================
