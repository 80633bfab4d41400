----------------------------- MODULE PlaidSync -----------------------------
(***************************************************************************)
(* Plaid connections and the transactions they bring in: linking, syncing  *)
(* page by page against a cursor, removing a connection, and the file the  *)
(* connections are kept in.                                                *)
(*                                                                         *)
(* Connections and transactions live in memory.  A sync works on its own   *)
(* copy of a connection: it asks Plaid for a page without the lock, and    *)
(* under the lock stores the page and the copy with the cursor moved.  The *)
(* file is written from a snapshot taken under the lock, after the lock is *)
(* released, and holds no access token: that field has no JSON form.       *)
(*                                                                         *)
(* Plaid is modelled from how the client reads its answers.  The book of a *)
(* connection says, for each cursor, which transactions there are and in   *)
(* which version; 0 stands for none.  A transaction that was removed does  *)
(* not come back under the same identifier.                                *)
(*                                                                         *)
(* Left out: the copy of a connection in plaid_items, which webhooks read  *)
(* and syncs do not (module Webhooks has its rows), and transactions a     *)
(* user enters, which carry no Plaid key.                                  *)
(***************************************************************************)
EXTENDS Integers, Sequences

CONSTANTS
  Conns,      \* the connections there can be
  Keys,       \* the transactions of a connection
  Book,       \* Book[c][n]: the versions of c's transactions at cursor n
  PageSize,   \* the changes of a page
  Linkable,   \* the connections there can be when serial is TRUE, or FALSE
  Requests,   \* links, syncs and removals
  Loads       \* whether the requests come one by one: one Boolean or both

Absent == -1

ASSUME LoadsAssumption == Loads \subseteq BOOLEAN
ASSUME LinkableAssumption == Linkable \in [BOOLEAN -> SUBSET Conns]
ASSUME PageAssumption == PageSize \in Nat \ {0}
ASSUME BookAssumption ==
  \A c \in Conns :
    /\ Book[c] \in Seq([Keys -> Nat])
    /\ \A m, n \in 1..Len(Book[c]), k \in Keys :
         m < n /\ Book[c][m][k] # 0 =>
           Book[c][n][k] = 0 \/ Book[c][n][k] >= Book[c][m][k]
    /\ \A l, m, n \in 1..Len(Book[c]), k \in Keys :
         l < m /\ m < n /\ Book[c][l][k] # 0 /\ Book[c][m][k] = 0 =>
           Book[c][n][k] = 0

VARIABLES
  serial,     \* a request waits for the one before it
  published,  \* how far each book has got
  conns,      \* plaidConnections: the cursor of each connection, or Absent
  sealed,     \* the connections whose access token this process holds
  linked,     \* the connections ever made
  file,       \* plaid-connections.json, as conns
  rows,       \* the transactions with a Plaid key
  job,        \* what each request is doing, with what it has in hand
  gone,       \* removed connections, the removal written to the file
  erased      \* transactions the user deleted and no sync has brought back

vars == <<serial, published, conns, sealed, linked, file, rows, job, gone, erased>>

NoConns == [c \in Conns |-> Absent]
Cursors(c) == 0..Len(Book[c])
Present(cs) == {c \in Conns : cs[c] # Absent}
Version(c, n, k) == IF n = 0 THEN 0 ELSE Book[c][n][k]

Row == [id : Nat, conn : Conns, key : Keys, version : Nat, edited : BOOLEAN]
RowsOf(c, k) == {r \in rows : r.conn = c /\ r.key = k}

(* todo holds the copies a sync has yet to take, conn and pos the one it   *)
(* is on and its cursor, page and more what Plaid answered; drops holds    *)
(* the connection a write of the file is for, if it was removed.           *)
Idle == [pc |-> "idle"]
ThenNext(todo) == [pc |-> "next", todo |-> todo]
ThenFetch(todo, c, m) == [pc |-> "fetch", todo |-> todo, conn |-> c, pos |-> m]
ThenPersist(todo, drops) == [pc |-> "persist", todo |-> todo, drops |-> drops]

InMap(cs) == /\ DOMAIN cs = Conns
             /\ \A c \in Conns : cs[c] \in {Absent} \cup Cursors(c)

JobOK(j) ==
  /\ j.pc \in {"idle", "next", "fetch", "apply", "persist", "write"}
  /\ IF j.pc = "idle" THEN j = Idle ELSE InMap(j.todo)
  /\ j.pc \in {"fetch", "apply"} => j.conn \in Conns /\ j.pos \in Cursors(j.conn)
  /\ j.pc = "apply" => j.page \in Cursors(j.conn) /\ j.more \in BOOLEAN
  /\ j.pc \in {"persist", "write"} => j.drops \subseteq Conns
  /\ j.pc = "write" => InMap(j.snap)

TypeOK ==
  /\ serial \in Loads
  /\ InMap(conns) /\ InMap(file)
  /\ DOMAIN published = Conns /\ \A c \in Conns : published[c] \in Cursors(c)
  /\ sealed \subseteq linked /\ linked \subseteq Conns /\ gone \subseteq linked
  /\ rows \subseteq Row
  /\ erased \subseteq Conns \X Keys
  /\ DOMAIN job = Requests /\ \A q \in Requests : JobOK(job[q])

Init ==
  /\ serial \in Loads
  /\ published = [c \in Conns |-> 0]
  /\ conns = NoConns /\ file = NoConns
  /\ sealed = {} /\ linked = {} /\ gone = {}
  /\ rows = {} /\ erased = {}
  /\ job = [q \in Requests |-> Idle]

-----------------------------------------------------------------------------
AtWork(q) == job[q].pc # "idle"

MayBegin(q) == ~ AtWork(q) /\ (serial => \A o \in Requests : ~ AtWork(o))

Becomes(q, j) == job' = [job EXCEPT ![q] = j]

(* Plaid learns of another change.                                         *)
Publish(c) ==
  /\ published[c] < Len(Book[c])
  /\ published' = [published EXCEPT ![c] = @ + 1]
  /\ UNCHANGED <<serial, conns, sealed, linked, file, rows, job, gone, erased>>

(* A public token is exchanged; the sandbox route goes on to sync.  A call *)
(* that fails before the connection is stored changes nothing.             *)
Link(q, c, sandbox) ==
  /\ MayBegin(q) /\ c \in Linkable[serial] \ linked
  /\ conns' = [conns EXCEPT ![c] = 0]
  /\ sealed' = sealed \cup {c} /\ linked' = linked \cup {c}
  /\ Becomes(q, ThenPersist(IF sandbox THEN [NoConns EXCEPT ![c] = 0] ELSE NoConns, {}))
  /\ UNCHANGED <<serial, published, file, rows, gone, erased>>

(* The connections are read once, one of them or all.                      *)
StartSync(q, cs) ==
  /\ MayBegin(q) /\ cs \subseteq Present(conns)
  /\ Becomes(q, ThenNext([c \in Conns |-> IF c \in cs THEN conns[c] ELSE Absent]))
  /\ UNCHANGED <<serial, published, conns, sealed, linked, file, rows, gone, erased>>

Takes(q, c) == job[q].pc = "next" /\ job[q].todo[c] # Absent
Left(q, c) == [job[q].todo EXCEPT ![c] = Absent]

(* The token of the next connection decrypts.                              *)
TakeUsable(q, c) ==
  /\ Takes(q, c) /\ c \in sealed
  /\ Becomes(q, ThenFetch(Left(q, c), c, job[q].todo[c]))
  /\ UNCHANGED <<serial, published, conns, sealed, linked, file, rows, gone, erased>>

(* It does not: the connection is removed and the sync goes on.            *)
TakeUnusable(q, c) ==
  /\ Takes(q, c) /\ c \notin sealed
  /\ conns' = [conns EXCEPT ![c] = Absent]
  /\ Becomes(q, ThenPersist(Left(q, c), {c}))
  /\ UNCHANGED <<serial, published, sealed, linked, file, rows, gone, erased>>

NothingLeft(q) ==
  /\ job[q] = ThenNext(NoConns)
  /\ Becomes(q, Idle)
  /\ UNCHANGED <<serial, published, conns, sealed, linked, file, rows, gone, erased>>

Answer(j, end, known) ==
  [pc |-> "apply", todo |-> j.todo, conn |-> j.conn,
   pos |-> j.pos, page |-> end, more |-> end < known]

PageEnd(j) ==
  IF j.pos + PageSize < published[j.conn] THEN j.pos + PageSize ELSE published[j.conn]

(* Mutant: the cursor is stored before the page it leads past.             *)
FetchSavesCursor(q) ==
  /\ job[q].pc = "fetch"
  /\ Becomes(q, Answer(job[q], PageEnd(job[q]), published[job[q].conn]))
  /\ conns' = [conns EXCEPT ![job[q].conn] = PageEnd(job[q])]
  /\ UNCHANGED <<serial, published, sealed, linked, file, rows, gone, erased>>

(* A page, and whether there is more after it.                             *)
Fetch(q) ==
  /\ job[q].pc = "fetch"
  /\ Becomes(q, Answer(job[q], PageEnd(job[q]), published[job[q].conn]))
  /\ UNCHANGED <<serial, published, conns, sealed, linked, file, rows, gone, erased>>

(* Plaid refuses or does not answer in 20 seconds: 502, the pages stored   *)
(* so far stay, the file is not written, the other connections wait.       *)
FetchFails(q) ==
  /\ job[q].pc = "fetch"
  /\ Becomes(q, Idle)
  /\ UNCHANGED <<serial, published, conns, sealed, linked, file, rows, gone, erased>>

(* What the page that takes c from cursor m to cursor n says.              *)
Added(c, m, n) == {k \in Keys : Version(c, m, k) = 0 /\ Version(c, n, k) # 0}
Removed(c, m, n) == {k \in Keys : Version(c, m, k) # 0 /\ Version(c, n, k) = 0}
(* Mutant: what is still there is taken to have changed.                   *)
ModifiedWhenKept(c, m, n) == {k \in Keys \ Added(c, m, n) : Version(c, n, k) # 0}

Modified(c, m, n) ==
  {k \in Keys \ Added(c, m, n) : Version(c, n, k) \notin {0, Version(c, m, k)}}

(* A new row under an identifier no row of its key has.                    *)
NewRow(c, k, n) ==
  [id |-> CHOOSE i \in 0..1 : i = 1 <=> \E r \in RowsOf(c, k) : r.id = 0,
   conn |-> c, key |-> k, version |-> Version(c, n, k), edited |-> FALSE]

Changed(r, n) ==
  [id |-> r.id, conn |-> r.conn, key |-> r.key, version |-> Version(r.conn, n, r.key), edited |-> FALSE]

(* The rows a page makes: what is added and not there yet ...              *)
Stored(c, m, n) ==
  {NewRow(c, k, n) : k \in {k \in Added(c, m, n) : RowsOf(c, k) = {}}}

(* ... and what is modified: the row of its key with its identifier, or a  *)
(* new one.  The category goes back to what Plaid says.                    *)
Upserted(c, m, n) ==
  {NewRow(c, k, n) : k \in {k \in Modified(c, m, n) : RowsOf(c, k) = {}}} \cup
  {Changed(r, n) : r \in UNION {RowsOf(c, k) : k \in Modified(c, m, n)}}

Replaced(c, m, n) ==
  UNION {RowsOf(c, k) : k \in Modified(c, m, n) \cup Removed(c, m, n)}

AfterPage(q) ==
  LET j == job[q] IN
  (rows \ Replaced(j.conn, j.pos, j.page))
    \cup Stored(j.conn, j.pos, j.page) \cup Upserted(j.conn, j.pos, j.page)

StillErased == erased \ {<<r.conn, r.key>> : r \in rows'}

After(j, m) == IF j.more THEN ThenFetch(j.todo, j.conn, m) ELSE ThenPersist(j.todo, {})

(* Mutant: the next page is asked for from the same cursor.                *)
ApplyAtOldCursor(q) ==
  /\ job[q].pc = "apply"
  /\ rows' = AfterPage(q)
  /\ conns' = [conns EXCEPT ![job[q].conn] = job[q].page]
  /\ erased' = StillErased
  /\ Becomes(q, After(job[q], job[q].pos))
  /\ UNCHANGED <<serial, published, sealed, linked, file, gone>>

(* The page and the sync's own copy of the connection, with the cursor     *)
(* moved, are stored under the lock, whatever is there by now.             *)
Apply(q) ==
  /\ job[q].pc = "apply"
  /\ rows' = AfterPage(q)
  /\ conns' = [conns EXCEPT ![job[q].conn] = job[q].page]
  /\ erased' = StillErased
  /\ Becomes(q, After(job[q], job[q].page))
  /\ UNCHANGED <<serial, published, sealed, linked, file, gone>>

ThenWrite(todo, drops, cs) == [pc |-> "write", todo |-> todo, drops |-> drops, snap |-> cs]

(* Mutant: what is written was read before the connection was deleted.     *)
DeleteAfterSnapshot(q, c) ==
  /\ MayBegin(q) /\ conns[c] # Absent
  /\ conns' = [conns EXCEPT ![c] = Absent]
  /\ Becomes(q, ThenWrite(NoConns, {c}, conns))
  /\ UNCHANGED <<serial, published, sealed, linked, file, rows, gone, erased>>

(* The user removes a connection; its transactions stay.                   *)
Delete(q, c) ==
  /\ MayBegin(q) /\ conns[c] # Absent
  /\ conns' = [conns EXCEPT ![c] = Absent]
  /\ Becomes(q, ThenPersist(NoConns, {c}))
  /\ UNCHANGED <<serial, published, sealed, linked, file, rows, gone, erased>>

Snapshot(q) ==
  /\ job[q].pc = "persist"
  /\ Becomes(q, ThenWrite(job[q].todo, job[q].drops, conns))
  /\ UNCHANGED <<serial, published, conns, sealed, linked, file, rows, gone, erased>>

Write(q) ==
  /\ job[q].pc = "write"
  /\ file' = job[q].snap
  /\ gone' = gone \cup job[q].drops
  /\ Becomes(q, ThenNext(job[q].todo))
  /\ UNCHANGED <<serial, published, conns, sealed, linked, rows, erased>>

(* The file cannot be written: a removal goes on, a link or a sync ends    *)
(* with 502 and leaves what it has stored.                                 *)
WriteFails(q) ==
  /\ job[q].pc = "write"
  /\ Becomes(q, IF job[q].drops = {} THEN Idle ELSE ThenNext(job[q].todo))
  /\ UNCHANGED <<serial, published, conns, sealed, linked, file, rows, gone, erased>>

(* The user changes the category of a transaction, or deletes it.          *)
PatchCategory(r) ==
  /\ r \in rows
  /\ rows' = (rows \ {r}) \cup {[r EXCEPT !.edited = TRUE]}
  /\ UNCHANGED <<serial, published, conns, sealed, linked, file, job, gone, erased>>

DeleteRow(r) ==
  /\ r \in rows
  /\ rows' = rows \ {r}
  /\ erased' = erased \cup {<<r.conn, r.key>>}
  /\ UNCHANGED <<serial, published, conns, sealed, linked, file, job, gone>>

Restarted(loaded) ==
  /\ conns' = loaded /\ file' = loaded
  /\ rows' = {} /\ erased' = {}
  /\ job' = [q \in Requests |-> Idle]
  /\ UNCHANGED <<serial, published, linked, gone>>

(* Mutant: the token of a connection is in the file.                       *)
RestartWithTokens == Restarted(file) /\ UNCHANGED sealed

(* The API stops and starts: it loads the connections from the file, all   *)
(* of them without a token, and no transactions.  A file cut off while it  *)
(* was written cannot be read and gives none; the next write replaces it.  *)
Restart ==
  /\ sealed' = {}
  /\ \/ Restarted(file)
     \/ (\E q \in Requests : job[q].pc = "write") /\ Restarted(NoConns)

SyncStep(q) ==
  \/ \E c \in Conns : TakeUsable(q, c) \/ TakeUnusable(q, c)
  \/ NothingLeft(q)
  \/ Fetch(q) \/ FetchFails(q) \/ Apply(q)
  \/ Snapshot(q) \/ Write(q) \/ WriteFails(q)

Begin(q) ==
  \/ \E c \in Conns, sandbox \in BOOLEAN : Link(q, c, sandbox)
  \/ \E cs \in {{c} : c \in Conns} \cup {Present(conns)} : StartSync(q, cs)
  \/ \E c \in Conns : Delete(q, c)

Next ==
  \/ \E c \in Conns : Publish(c)
  \/ \E q \in Requests : Begin(q) \/ SyncStep(q)
  \/ \E r \in rows : PatchCategory(r) \/ DeleteRow(r)
  \/ Restart

Spec == Init /\ [][Next]_vars

(* A handler runs on until it answers: a call to Plaid that is not         *)
(* answered fails after 20 seconds (the client's timeout).                 *)
FairSpec == Spec /\ \A q \in Requests : WF_vars(SyncStep(q))

-----------------------------------------------------------------------------
(* A Plaid transaction has at most one row, however syncs, replays of a    *)
(* page and deletions interleave (hasRaw, upsertRaw under the lock).       *)
OneRowPerKey == \A r, s \in rows : r.conn = s.conn /\ r.key = s.key => r = s

(* The connections a sync can move forward.                                *)
Usable == sealed \cap Present(conns)

(* No cursor is ahead of the store: what a usable connection's cursor has  *)
(* passed is there, unless Plaid has removed it since or the user deleted  *)
(* it, through overlapping syncs, failures and restarts.                   *)
NothingMissing ==
  \A c \in Usable, k \in Keys :
    /\ Version(c, conns[c], k) # 0 /\ Version(c, published[c], k) # 0
    /\ <<c, k>> \notin erased
    => RowsOf(c, k) # {}

(* What holds of the store and the connections under any interleaving:     *)
(* types, one row for a transaction, and no cursor ahead of the rows.      *)
RowsOK == TypeOK /\ OneRowPerKey /\ NothingMissing

(* If requests do not overlap, the rows of a usable connection are what    *)
(* Plaid's book says at its cursor, between any two steps of a sync.       *)
SyncedIsCurrent == serial =>
  \A c \in Usable, k \in Keys :
    \/ {r.version : r \in RowsOf(c, k)} = {Version(c, conns[c], k)} \ {0}
    \/ <<c, k>> \in erased /\ RowsOf(c, k) = {}

(* If requests do not overlap, a connection whose removal reached the file *)
(* is never seen again, in memory or after a restart.                      *)
DeletedStaysDeleted == serial =>
  \A c \in gone : conns[c] = Absent /\ file[c] = Absent

(* If requests do not overlap, a category the user set is replaced only by *)
(* a newer version of the transaction, never by the same one read again.   *)
EditsKept ==
  [][serial => \A r \in rows, s \in rows' :
       r.edited /\ ~ s.edited /\ r.conn = s.conn /\ r.key = s.key
         => s.version > r.version]_vars

(* A request ends: the loop over pages and connections is finite.          *)
SyncEnds == \A q \in Requests : AtWork(q) ~> ~ AtWork(q)

-----------------------------------------------------------------------------
(* The rows hold what the cursor n of c has passed.                        *)
Kept(c, n) ==
  \A k \in Keys :
    /\ Version(c, n, k) # 0 /\ Version(c, published[c], k) # 0
    /\ <<c, k>> \notin erased
    => RowsOf(c, k) # {}

(* A copy of the connections has made ones only, and no cursor is further  *)
(* than its book.                                                          *)
Known(cs) ==
  \A c \in Conns : cs[c] # Absent => c \in linked /\ cs[c] <= published[c]

(* A copy that a sync may go on from.                                      *)
Sound(cs) == Known(cs) /\ \A c \in sealed : cs[c] # Absent => Kept(c, cs[c])

(* What a request has in hand is sound, however old it is.                 *)
InHand(j) ==
  /\ j.pc # "idle" => Sound(j.todo)
  /\ j.pc \in {"fetch", "apply"} =>
       j.conn \in sealed /\ j.pos <= published[j.conn] /\ Kept(j.conn, j.pos)
  /\ j.pc = "apply" => j.pos <= j.page /\ j.page <= published[j.conn]
  /\ j.pc \in {"persist", "write"} => j.drops \subseteq linked
  /\ j.pc = "write" => Known(j.snap)

IInv ==
  /\ TypeOK /\ OneRowPerKey
  /\ Sound(conns) /\ Known(file)
  /\ \A r \in rows : r.conn \in linked
  /\ \A q \in Requests : InHand(job[q])

OneAtWork == \A q, o \in Requests : AtWork(q) /\ AtWork(o) => q = o

(* A lone request has the cursors that are stored, ...                     *)
CopyIsCurrent(j) ==
  /\ j.pc # "idle" => \A c \in sealed : j.todo[c] # Absent => conns[c] = j.todo[c]
  /\ j.pc \in {"fetch", "apply"} => conns[j.conn] = j.pos /\ j.todo[j.conn] = Absent

(* ... and nothing of the connections C.                                   *)
FreeOf(j, C) ==
  \A c \in C :
    /\ j.pc # "idle" => j.todo[c] = Absent
    /\ j.pc \in {"fetch", "apply"} => j.conn # c
    /\ j.pc = "write" => j.snap[c] = Absent

(* Nor of those it has removed itself.                                     *)
Alone(j) ==
  /\ CopyIsCurrent(j) /\ FreeOf(j, gone)
  /\ j.pc \in {"persist", "write"} =>
       FreeOf(j, j.drops) /\ \A c \in j.drops : conns[c] = Absent

SerialInv == serial =>
  /\ OneAtWork /\ SyncedIsCurrent /\ DeletedStaysDeleted
  /\ \A q \in Requests : Alone(job[q])
=============================================================================
