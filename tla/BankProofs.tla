----------------------------- MODULE BankProofs -----------------------------
(***************************************************************************)
(* Proofs about PlaidSync and about Reconciliation: how bank rows come in, *)
(* and how payouts are matched with them.  First the sync, for any         *)
(* connections, books, pages and requests: whatever overlaps, fails or     *)
(* restarts, a transaction has one row and no cursor is ahead of the rows; *)
(* and of requests that come one by one, that the rows are the book's,     *)
(* removals last and edits stay.  Then the reconciliation, for any rows,   *)
(* runs and PATCHes, in either store.                                      *)
(***************************************************************************)
EXTENDS PlaidSync, Reconciliation, FiniteSetTheorems, TLAPS

USE DEF Absent

-----------------------------------------------------------------------------
(* A book: a version is a number, grows, and what is gone stays gone.      *)
LEMMA VersionIsNat ==
  ASSUME NEW c \in Conns, NEW n \in Cursors(c), NEW k \in Keys
  PROVE  Version(c, n, k) \in Nat
BY BookAssumption DEF Cursors, Version

LEMMA VersionGrows ==
  ASSUME NEW c \in Conns, NEW k \in Keys, NEW m \in Cursors(c), NEW n \in Cursors(c), m <= n,
         Version(c, m, k) # 0, Version(c, n, k) # 0
  PROVE  Version(c, m, k) <= Version(c, n, k)
<1>1. CASE m = n
  BY <1>1, VersionIsNat
<1>2. CASE m < n
  <2>1. m \in 1..Len(Book[c]) /\ n \in 1..Len(Book[c])
    BY <1>2, BookAssumption DEF Cursors, Version
  <2>2. Book[c][m][k] # 0 /\ Book[c][n][k] # 0
    BY <2>1 DEF Version
  <2>3. Book[c][n][k] >= Book[c][m][k]
    BY <1>2, <2>1, <2>2, BookAssumption
  <2> QED BY <2>1, <2>3 DEF Version
<1> QED BY <1>1, <1>2, BookAssumption DEF Cursors

LEMMA GoneForGood ==
  ASSUME NEW c \in Conns, NEW k \in Keys,
         NEW l \in Cursors(c), NEW m \in Cursors(c), NEW n \in Cursors(c), l <= m, m <= n,
         Version(c, l, k) # 0, Version(c, m, k) = 0
  PROVE  Version(c, n, k) = 0
<1>1. l # 0 /\ l # m
  BY DEF Version
<1>2. CASE m = n
  BY <1>2
<1>3. CASE m < n
  <2>1. l \in 1..Len(Book[c]) /\ m \in 1..Len(Book[c]) /\ n \in 1..Len(Book[c]) /\ l < m
    BY <1>1, <1>3, BookAssumption DEF Cursors
  <2>2. Book[c][l][k] # 0 /\ Book[c][m][k] = 0
    BY <2>1 DEF Version
  <2>3. Book[c][n][k] = 0
    BY <1>3, <2>1, <2>2, BookAssumption
  <2> QED BY <2>1, <2>3 DEF Version
<1> QED BY <1>2, <1>3, BookAssumption DEF Cursors

(* The end of a page lies between the cursor and the end of the book.      *)
LEMMA PageEndInBook ==
  ASSUME NEW c \in Conns, NEW j, j.conn = c, j.pos \in Cursors(c), published[c] \in Cursors(c),
         j.pos <= published[c]
  PROVE  /\ PageEnd(j) \in Cursors(c)
         /\ j.pos <= PageEnd(j) /\ PageEnd(j) <= published[c]
BY PageAssumption, BookAssumption DEF PageEnd, Cursors

(* A new row, under either identifier.                                     *)
LEMMA NewRowIsRow ==
  ASSUME NEW c \in Conns, NEW n \in Cursors(c), NEW k \in Keys
  PROVE  /\ NewRow(c, k, n) \in Row
         /\ NewRow(c, k, n).conn = c /\ NewRow(c, k, n).key = k
         /\ NewRow(c, k, n).version = Version(c, n, k) /\ ~ NewRow(c, k, n).edited
<1> DEFINE P == \E r \in RowsOf(c, k) : r.id = 0
<1>1. \E i \in 0..1 : i = 1 <=> P
  <2>1. CASE P
    BY <2>1
  <2>2. CASE ~ P
    BY <2>2
  <2> QED BY <2>1, <2>2
<1> DEFINE i == CHOOSE i \in 0..1 : i = 1 <=> P
<1>2. i \in Nat
  BY <1>1
<1>3. NewRow(c, k, n) = [id |-> i, conn |-> c, key |-> k, version |-> Version(c, n, k), edited |-> FALSE]
  BY DEF NewRow
<1> HIDE DEF i
<1> QED BY <1>2, <1>3, VersionIsNat DEF Row

-----------------------------------------------------------------------------
(* What a page does to the rows of a transaction: it takes them away, it   *)
(* leaves one with the page's version, or it leaves them alone.            *)
LEMMA PageJob ==
  ASSUME TypeOK, NEW q \in Requests, job[q].pc = "apply"
  PROVE  /\ job[q].conn \in Conns
         /\ job[q].pos \in Cursors(job[q].conn)
         /\ job[q].page \in Cursors(job[q].conn)
         /\ InMap(job[q].todo) /\ job[q].more \in BOOLEAN
BY DEF TypeOK, JobOK

LEMMA UpsertedIs ==
  ASSUME rows \subseteq Row, NEW c \in Conns, NEW m \in Cursors(c), NEW n \in Cursors(c),
         NEW s \in Upserted(c, m, n)
  PROVE  /\ s \in Row /\ s.conn = c /\ s.key \in Modified(c, m, n)
         /\ s.version = Version(c, n, s.key) /\ ~ s.edited
         /\ \/ RowsOf(c, s.key) = {} /\ s = NewRow(c, s.key, n)
            \/ \E r \in RowsOf(c, s.key) : s = Changed(r, n)
<1>0. Modified(c, m, n) \subseteq Keys
  BY DEF Modified
<1>1. CASE \E k \in Modified(c, m, n) : RowsOf(c, k) = {} /\ s = NewRow(c, k, n)
  <2>1. PICK k \in Modified(c, m, n) : RowsOf(c, k) = {} /\ s = NewRow(c, k, n)
    BY <1>1
  <2>2. k \in Keys
    BY <1>0
  <2>3. s \in Row /\ s.conn = c /\ s.key = k /\ s.version = Version(c, n, k) /\ ~ s.edited
    BY <2>1, <2>2, NewRowIsRow
  <2> QED BY <2>1, <2>3
<1>2. CASE \E k \in Modified(c, m, n) : \E r \in RowsOf(c, k) : s = Changed(r, n)
  <2>0. PICK k \in Modified(c, m, n) : \E r \in RowsOf(c, k) : s = Changed(r, n)
    BY <1>2
  <2>1. PICK r \in RowsOf(c, k) : s = Changed(r, n)
    BY <2>0
  <2>2. r \in Row /\ r.conn = c /\ r.key = k /\ k \in Keys
    BY <1>0, <2>1 DEF RowsOf
  <2>3. Version(c, n, k) \in Nat
    BY <2>2, VersionIsNat
  <2>4. s \in Row /\ s.conn = c /\ s.key = k /\ s.version = Version(c, n, k) /\ ~ s.edited
    BY <2>1, <2>2, <2>3 DEF Row, Changed
  <2> QED BY <2>1, <2>4
<1> QED BY <1>1, <1>2 DEF Upserted

LEMMA StoredIs ==
  ASSUME NEW c \in Conns, NEW m \in Cursors(c), NEW n \in Cursors(c), NEW s \in Stored(c, m, n)
  PROVE  /\ s \in Row /\ s.conn = c /\ s.key \in Added(c, m, n) /\ RowsOf(c, s.key) = {}
         /\ s = NewRow(c, s.key, n)
<1>1. PICK k \in Added(c, m, n) : RowsOf(c, k) = {} /\ s = NewRow(c, k, n)
  BY DEF Stored
<1>2. k \in Keys
  BY DEF Added
<1>3. s \in Row /\ s.conn = c /\ s.key = k
  BY <1>1, <1>2, NewRowIsRow
<1> QED BY <1>1, <1>3

LEMMA PageRows ==
  ASSUME TypeOK, OneRowPerKey, NEW q \in Requests, Apply(q),
         NEW c \in Conns, c = job[q].conn, NEW m, m = job[q].pos, NEW n, n = job[q].page,
         NEW k \in Keys
  PROVE  /\ k \in Removed(c, m, n) => RowsOf(c, k)' = {}
         /\ k \in Modified(c, m, n) => \E s : RowsOf(c, k)' = {s} /\ s.version = Version(c, n, k)
         /\ k \in Added(c, m, n) /\ RowsOf(c, k) = {} => RowsOf(c, k)' = {NewRow(c, k, n)}
         /\ k \notin Removed(c, m, n) \cup Modified(c, m, n) /\ ~ (k \in Added(c, m, n) /\ RowsOf(c, k) = {})
              => RowsOf(c, k)' = RowsOf(c, k)
<1>0. /\ m \in Cursors(c) /\ n \in Cursors(c) /\ rows \subseteq Row
      /\ rows' = (rows \ Replaced(c, m, n)) \cup Stored(c, m, n) \cup Upserted(c, m, n)
  BY PageJob DEF Apply, AfterPage, TypeOK
<1>1. Replaced(c, m, n) = {r \in rows : r.conn = c /\ r.key \in Modified(c, m, n) \cup Removed(c, m, n)}
  BY DEF Replaced, RowsOf
<1>2. \A s \in RowsOf(c, k)' : \/ s \in RowsOf(c, k) /\ k \notin Modified(c, m, n) \cup Removed(c, m, n)
                               \/ s \in Stored(c, m, n) /\ s.key = k
                               \/ s \in Upserted(c, m, n) /\ s.key = k
  BY <1>0, <1>1 DEF RowsOf
<1>3. /\ Added(c, m, n) \cap Modified(c, m, n) = {} /\ Added(c, m, n) \cap Removed(c, m, n) = {}
      /\ Modified(c, m, n) \cap Removed(c, m, n) = {}
  BY DEF Added, Modified, Removed
<1>4. k \in Removed(c, m, n) => RowsOf(c, k)' = {}
  BY <1>0, <1>2, <1>3, UpsertedIs, StoredIs
<1>5. ASSUME k \in Modified(c, m, n)
      PROVE  \E s : RowsOf(c, k)' = {s} /\ s.version = Version(c, n, k)
  <2>1. CASE RowsOf(c, k) = {}
    <3>1. NewRow(c, k, n) \in Upserted(c, m, n)
      BY <1>5, <2>1 DEF Upserted
    <3>2. NewRow(c, k, n) \in RowsOf(c, k)'
      BY <1>0, <3>1, NewRowIsRow DEF RowsOf
    <3>3. \A s \in RowsOf(c, k)' : s = NewRow(c, k, n)
      BY <1>0, <1>2, <1>3, <1>5, <2>1, UpsertedIs, StoredIs
    <3> QED BY <1>0, <3>2, <3>3, NewRowIsRow
  <2>2. CASE RowsOf(c, k) # {}
    <3>1. PICK r : r \in RowsOf(c, k)
      BY <2>2
    <3> DEFINE s == Changed(r, n)
    <3>2. s \in Upserted(c, m, n)
      BY <1>5, <3>1 DEF Upserted
    <3>3. s.conn = c /\ s.key = k /\ s.version = Version(c, n, k)
      BY <1>0, <3>1 DEF RowsOf, Row, Changed
    <3>4. s \in RowsOf(c, k)'
      BY <1>0, <3>2, <3>3 DEF RowsOf
    <3>5. \A t \in RowsOf(c, k) : t = r
      BY <3>1 DEF RowsOf, OneRowPerKey
    <3>6. \A t \in RowsOf(c, k)' : t = s
      <4> SUFFICES ASSUME NEW t \in RowsOf(c, k)' PROVE t = s
        OBVIOUS
      <4>1. t \in Upserted(c, m, n) /\ t.key = k
        BY <1>0, <1>2, <1>3, <1>5, StoredIs
      <4>2. PICK u \in RowsOf(c, k) : t = Changed(u, n)
        BY <1>0, <2>2, <4>1, UpsertedIs
      <4> QED BY <3>5, <4>2
    <3> QED BY <3>3, <3>4, <3>6
  <2> QED BY <2>1, <2>2
<1>6. ASSUME k \in Added(c, m, n), RowsOf(c, k) = {}
      PROVE  RowsOf(c, k)' = {NewRow(c, k, n)}
  <2>1. NewRow(c, k, n) \in Stored(c, m, n)
    BY <1>6 DEF Stored
  <2>2. NewRow(c, k, n) \in RowsOf(c, k)'
    BY <1>0, <2>1, NewRowIsRow DEF RowsOf
  <2>3. \A s \in RowsOf(c, k)' : s = NewRow(c, k, n)
    BY <1>0, <1>2, <1>3, <1>6, UpsertedIs, StoredIs
  <2> QED BY <2>2, <2>3
<1>7. ASSUME k \notin Removed(c, m, n) \cup Modified(c, m, n),
             ~ (k \in Added(c, m, n) /\ RowsOf(c, k) = {})
      PROVE  RowsOf(c, k)' = RowsOf(c, k)
  <2>1. RowsOf(c, k) \subseteq RowsOf(c, k)'
    BY <1>0, <1>1, <1>7 DEF RowsOf
  <2>2. \A s \in RowsOf(c, k)' : s \in RowsOf(c, k)
    BY <1>0, <1>2, <1>7, UpsertedIs, StoredIs
  <2> QED BY <2>1, <2>2
<1> QED BY <1>4, <1>5, <1>6, <1>7

(* A page leaves the rows of other connections alone.                      *)
LEMMA OtherRows ==
  ASSUME TypeOK, NEW q \in Requests, Apply(q), NEW d \in Conns \ {job[q].conn}, NEW k \in Keys
  PROVE  RowsOf(d, k)' = RowsOf(d, k)
<1> DEFINE c == job[q].conn  m == job[q].pos  n == job[q].page
<1>0. /\ c \in Conns /\ m \in Cursors(c) /\ n \in Cursors(c) /\ rows \subseteq Row
      /\ rows' = (rows \ Replaced(c, m, n)) \cup Stored(c, m, n) \cup Upserted(c, m, n)
  BY PageJob DEF Apply, AfterPage, TypeOK
<1> HIDE DEF c, m, n
<1>1. \A r \in Replaced(c, m, n) : r.conn = c
  BY DEF Replaced, RowsOf
<1>2. \A r \in Stored(c, m, n) \cup Upserted(c, m, n) : r.conn = c
  BY <1>0, UpsertedIs, StoredIs
<1>3. d # c
  BY DEF c
<1> QED BY <1>0, <1>1, <1>2, <1>3 DEF RowsOf

-----------------------------------------------------------------------------
(* What a request can have in hand.                                        *)
LEMMA JobsOK ==
  /\ JobOK(Idle)
  /\ \A due : InMap(due) => JobOK(ThenNext(due))
  /\ \A due, c, m : InMap(due) /\ c \in Conns /\ m \in Cursors(c) => JobOK(ThenFetch(due, c, m))
  /\ \A due, drops : InMap(due) /\ drops \subseteq Conns => JobOK(ThenPersist(due, drops))
  /\ \A due, drops, cs : InMap(due) /\ drops \subseteq Conns /\ InMap(cs)
                            => JobOK(ThenWrite(due, drops, cs))
BY DEF JobOK, Idle, ThenNext, ThenFetch, ThenPersist, ThenWrite

LEMMA InHands ==
  /\ InHand(Idle)
  /\ \A due : Sound(due) => InHand(ThenNext(due))
  /\ \A due, c, m : Sound(due) /\ c \in sealed /\ m <= published[c] /\ Kept(c, m)
                       => InHand(ThenFetch(due, c, m))
  /\ \A due, drops : Sound(due) /\ drops \subseteq linked => InHand(ThenPersist(due, drops))
  /\ \A due, drops, cs : Sound(due) /\ drops \subseteq linked /\ Known(cs)
                            => InHand(ThenWrite(due, drops, cs))
BY DEF InHand, Idle, ThenNext, ThenFetch, ThenPersist, ThenWrite

LEMMA NoConnsOK == sealed \subseteq Conns => InMap(NoConns) /\ Sound(NoConns)
BY DEF InMap, NoConns, Sound, Known

LEMMA WithoutOK ==
  ASSUME NEW cs, InMap(cs), NEW c \in Conns, sealed \subseteq Conns
  PROVE  /\ InMap([cs EXCEPT ![c] = Absent])
         /\ Known(cs) => Known([cs EXCEPT ![c] = Absent])
         /\ Sound(cs) => Sound([cs EXCEPT ![c] = Absent])
BY DEF InMap, Sound, Known

(* What changes neither rows nor books leaves every cursor as sound as it  *)
(* was.                                                                    *)
LEMMA SameHand ==
  ASSUME UNCHANGED <<published, sealed, linked, rows, erased>>
  PROVE  /\ \A cs : Known(cs)' <=> Known(cs)
         /\ \A cs : Sound(cs)' <=> Sound(cs)
         /\ \A j : InHand(j)' <=> InHand(j)
<1>1. \A c, n : Kept(c, n)' <=> Kept(c, n)
  BY DEF Kept, RowsOf
<1>2. \A cs : Known(cs)' <=> Known(cs)
  BY DEF Known
<1>3. \A cs : Sound(cs)' <=> Sound(cs)
  BY <1>1, <1>2 DEF Sound
<1> QED BY <1>1, <1>2, <1>3 DEF InHand

LEMMA QuietStep ==
  ASSUME IInv, UNCHANGED <<serial, published, sealed, linked, rows, erased>>,
         NEW q \in Requests, NEW j, Becomes(q, j), JobOK(j), InHand(j),
         InMap(conns'), Sound(conns'), InMap(file'), Known(file'), gone' \subseteq linked
  PROVE  IInv'
<1>1. TypeOK'
  BY DEF IInv, TypeOK, Becomes
<1>2. OneRowPerKey' /\ (\A r \in rows : r.conn \in linked)'
  BY DEF IInv, OneRowPerKey
<1>3. Sound(conns)' /\ Known(file)'
  BY SameHand
<1>4. ASSUME NEW o \in Requests PROVE InHand(job[o])'
  <2>1. job'[o] = IF o = q THEN j ELSE job[o]
    BY DEF IInv, TypeOK, Becomes
  <2>2. InHand(job'[o])
    BY <2>1 DEF IInv
  <2> QED BY <2>2, SameHand
<1> QED BY <1>1, <1>2, <1>3, <1>4 DEF IInv

-----------------------------------------------------------------------------
(* The steps that change neither rows nor books.                           *)
LEMMA JobIs ==
  ASSUME IInv, NEW q \in Requests
  PROVE  JobOK(job[q]) /\ InHand(job[q]) /\ sealed \subseteq Conns /\ linked \subseteq Conns
BY DEF IInv, TypeOK

LEMMA StoredIsOK ==
  ASSUME IInv
  PROVE  /\ InMap(conns) /\ Sound(conns) /\ InMap(file) /\ Known(file) /\ gone \subseteq linked
         /\ sealed \subseteq Conns
BY DEF IInv, TypeOK

LEMMA StartSyncStep ==
  ASSUME IInv, NEW q \in Requests, NEW cs, StartSync(q, cs) PROVE IInv'
<1> DEFINE due == [c \in Conns |-> IF c \in cs THEN conns[c] ELSE Absent]
<1>1. InMap(due) /\ Sound(due)
  BY StoredIsOK DEF InMap, Sound, Known
<1>2. JobOK(ThenNext(due)) /\ InHand(ThenNext(due))
  BY <1>1, JobsOK, InHands
<1> QED BY <1>2, StoredIsOK, QuietStep DEF StartSync

LEMMA TakeStep ==
  ASSUME IInv, NEW q \in Requests, NEW c \in Conns, TakeUsable(q, c) \/ TakeUnusable(q, c)
  PROVE  IInv'
<1>1. /\ InMap(job[q].todo) /\ Sound(job[q].todo) /\ job[q].todo[c] # Absent
      /\ sealed \subseteq Conns
  BY JobIs DEF TakeUsable, TakeUnusable, Takes, JobOK, InHand
<1>2. InMap(Left(q, c)) /\ Sound(Left(q, c))
  BY <1>1, WithoutOK DEF Left
<1>3. CASE TakeUsable(q, c)
  <2> DEFINE m == job[q].todo[c]
  <2>1. m \in Cursors(c) /\ m <= published[c] /\ Kept(c, m) /\ c \in sealed
    BY <1>1, <1>3 DEF InMap, Sound, Known, TakeUsable
  <2>2. JobOK(ThenFetch(Left(q, c), c, m)) /\ InHand(ThenFetch(Left(q, c), c, m))
    BY <1>2, <2>1, JobsOK, InHands
  <2> QED BY <1>3, <2>2, StoredIsOK, QuietStep DEF TakeUsable
<1>4. CASE TakeUnusable(q, c)
  <2>1. {c} \subseteq Conns /\ {c} \subseteq linked
    BY <1>1 DEF Sound, Known
  <2>2. JobOK(ThenPersist(Left(q, c), {c})) /\ InHand(ThenPersist(Left(q, c), {c}))
    BY <1>2, <2>1, JobsOK, InHands
  <2>3. InMap(conns') /\ Sound(conns')
    BY <1>4, StoredIsOK, WithoutOK DEF TakeUnusable
  <2> QED BY <1>4, <2>2, <2>3, StoredIsOK, QuietStep DEF TakeUnusable
<1> QED BY <1>3, <1>4

LEMMA EndStep ==
  ASSUME IInv, NEW q \in Requests, NothingLeft(q) \/ FetchFails(q) PROVE IInv'
<1>1. JobOK(Idle) /\ InHand(Idle)
  BY JobsOK, InHands
<1> QED BY <1>1, StoredIsOK, QuietStep DEF NothingLeft, FetchFails

LEMMA FetchStep ==
  ASSUME IInv, NEW q \in Requests, Fetch(q) PROVE IInv'
<1> DEFINE c == job[q].conn
           a == Answer(job[q], PageEnd(job[q]), published[c])
<1>1. /\ InMap(job[q].todo) /\ Sound(job[q].todo)
      /\ c \in Conns /\ job[q].pos \in Cursors(c)
      /\ c \in sealed /\ job[q].pos <= published[c] /\ Kept(c, job[q].pos)
      /\ published[c] \in Cursors(c)
  BY JobIs DEF Fetch, JobOK, InHand, IInv, TypeOK
<1>2. /\ PageEnd(job[q]) \in Cursors(c)
      /\ job[q].pos <= PageEnd(job[q]) /\ PageEnd(job[q]) <= published[c]
  BY <1>1, PageEndInBook
<1>3. JobOK(a) /\ InHand(a)
  <2>1. /\ a.pc = "apply" /\ a.todo = job[q].todo /\ a.conn = c /\ a.pos = job[q].pos
        /\ a.page = PageEnd(job[q]) /\ a.more \in BOOLEAN
    BY DEF Answer
  <2> HIDE DEF a, c
  <2> QED BY <1>1, <1>2, <2>1 DEF JobOK, InHand
<1> HIDE DEF a
<1>4. Becomes(q, a)
  BY DEF Fetch, a
<1> QED BY <1>3, <1>4, StoredIsOK, QuietStep DEF Fetch

LEMMA DeleteStep ==
  ASSUME IInv, NEW q \in Requests, NEW c \in Conns, Delete(q, c) PROVE IInv'
<1>1. {c} \subseteq Conns /\ {c} \subseteq linked
  BY StoredIsOK DEF Delete, Sound, Known
<1>2. JobOK(ThenPersist(NoConns, {c})) /\ InHand(ThenPersist(NoConns, {c}))
  BY <1>1, StoredIsOK, NoConnsOK, JobsOK, InHands
<1>3. InMap(conns') /\ Sound(conns')
  BY StoredIsOK, WithoutOK DEF Delete
<1> QED BY <1>2, <1>3, StoredIsOK, QuietStep DEF Delete

LEMMA FileStep ==
  ASSUME IInv, NEW q \in Requests, Snapshot(q) \/ Write(q) \/ WriteFails(q) PROVE IInv'
<1>1. /\ InMap(job[q].todo) /\ Sound(job[q].todo)
      /\ job[q].drops \subseteq Conns /\ job[q].drops \subseteq linked
  BY JobIs DEF Snapshot, Write, WriteFails, JobOK, InHand
<1>2. JobOK(ThenNext(job[q].todo)) /\ InHand(ThenNext(job[q].todo)) /\ JobOK(Idle) /\ InHand(Idle)
  BY <1>1, JobsOK, InHands
<1>3. CASE Snapshot(q)
  <2>1. /\ JobOK(ThenWrite(job[q].todo, job[q].drops, conns))
        /\ InHand(ThenWrite(job[q].todo, job[q].drops, conns))
    BY <1>1, StoredIsOK, JobsOK, InHands DEF Sound
  <2> QED BY <1>3, <2>1, StoredIsOK, QuietStep DEF Snapshot
<1>4. CASE Write(q)
  <2>1. InMap(file') /\ Known(file') /\ gone' \subseteq linked
    BY <1>1, <1>4, JobIs, StoredIsOK DEF Write, JobOK, InHand
  <2> QED BY <1>2, <1>4, <2>1, StoredIsOK, QuietStep DEF Write
<1>5. CASE WriteFails(q)
  BY <1>2, <1>5, StoredIsOK, QuietStep DEF WriteFails
<1> QED BY <1>3, <1>4, <1>5

-----------------------------------------------------------------------------
(* A link makes a connection nobody has a copy of.                         *)
LEMMA LinkStep ==
  ASSUME IInv, NEW q \in Requests, NEW c \in Conns, NEW sandbox, Link(q, c, sandbox) PROVE IInv'
<1> DEFINE due == IF sandbox THEN [NoConns EXCEPT ![c] = 0] ELSE NoConns
<1>0. /\ c \notin linked /\ linked' = linked \cup {c} /\ sealed' = sealed \cup {c}
      /\ conns' = [conns EXCEPT ![c] = 0] /\ job' = [job EXCEPT ![q] = ThenPersist(due, {})]
      /\ UNCHANGED <<serial, published, file, rows, gone, erased>>
  BY DEF Link, Becomes
<1>1. /\ \A d, n : Kept(d, n)' <=> Kept(d, n)
      /\ Kept(c, 0)
  BY <1>0 DEF Kept, RowsOf, Version
<1>2. \A cs : Known(cs) => Known(cs)' /\ cs[c] = Absent
  BY <1>0 DEF Known
<1>3. \A cs : Sound(cs) => Sound(cs)'
  BY <1>0, <1>1, <1>2 DEF Sound
<1>4. \A h : InHand(h) => InHand(h)'
  BY <1>0, <1>1, <1>2, <1>3 DEF InHand
<1>5. /\ published[c] \in Nat /\ 0 \in Cursors(c)
      /\ sealed \subseteq Conns /\ InMap(NoConns)
  BY BookAssumption, NoConnsOK DEF IInv, TypeOK, Cursors
<1>6. InMap(due) /\ Sound(due)'
  BY <1>0, <1>1, <1>5 DEF InMap, NoConns, Sound, Known
<1>7. InMap(conns') /\ Sound(conns)'
  <2>1. Sound(conns) /\ InMap(conns)
    BY StoredIsOK
  <2> QED BY <1>0, <1>1, <1>5, <2>1 DEF InMap, Sound, Known
<1>8. JobOK(ThenPersist(due, {})) /\ InHand(ThenPersist(due, {}))'
  BY <1>6, JobsOK DEF InHand, ThenPersist
<1> HIDE DEF due
<1>9. TypeOK'
  BY <1>0, <1>7, <1>8 DEF IInv, TypeOK
<1>10. OneRowPerKey' /\ (\A r \in rows : r.conn \in linked)' /\ Known(file)'
  BY <1>0, <1>2 DEF IInv, OneRowPerKey
<1>11. ASSUME NEW o \in Requests PROVE InHand(job[o])'
  <2>1. CASE o = q
    <3>1. job'[o] = ThenPersist(due, {})
      BY <1>0, <2>1 DEF IInv, TypeOK
    <3> QED BY <1>8, <3>1
  <2>2. CASE o # q
    <3>1. job'[o] = job[o] /\ InHand(job[o])
      BY <1>0, <2>2 DEF IInv
    <3>2. \A h : h = job[o] => InHand(h)'
      BY <1>4, <3>1
    <3> QED BY <3>1, <3>2
  <2> QED BY <2>1, <2>2
<1> QED BY <1>7, <1>9, <1>10, <1>11 DEF IInv

(* A change at Plaid takes nothing back that was there for a cursor and    *)
(* has gone since.                                                         *)
LEMMA PublishStep ==
  ASSUME IInv, NEW c \in Conns, Publish(c) PROVE IInv'
<1>0. /\ \A d \in Conns : published'[d] \in Cursors(d) /\ published[d] \in Cursors(d) /\ published[d] <= published'[d]
      /\ DOMAIN published' = Conns
      /\ UNCHANGED <<serial, conns, sealed, linked, file, rows, job, gone, erased>>
  BY BookAssumption DEF Publish, IInv, TypeOK, Cursors
<1>1. ASSUME NEW d \in Conns, NEW n \in Cursors(d), n <= published[d], Kept(d, n)
      PROVE  Kept(d, n)'
  <2> SUFFICES ASSUME NEW k \in Keys, Version(d, n, k) # 0, Version(d, published'[d], k) # 0,
                      <<d, k>> \notin erased
               PROVE  RowsOf(d, k) # {}
    BY <1>0 DEF Kept, RowsOf
  <2>1. Version(d, published[d], k) # 0
    BY <1>0, <1>1, GoneForGood
  <2> QED BY <1>1, <2>1 DEF Kept
<1>2. \A cs : InMap(cs) /\ Known(cs) => Known(cs)'
  BY <1>0, BookAssumption DEF Known, InMap, Cursors
<1>3. \A cs : InMap(cs) /\ Sound(cs) => Sound(cs)'
  <2> SUFFICES ASSUME NEW cs, InMap(cs), Sound(cs), NEW d \in sealed, cs[d] # Absent PROVE Kept(d, cs[d])'
    BY <1>0, <1>2 DEF Sound
  <2>1. d \in Conns /\ cs[d] \in Cursors(d) /\ cs[d] <= published[d] /\ Kept(d, cs[d])
    BY StoredIsOK DEF InMap, Sound, Known
  <2> QED BY <1>1, <2>1
<1>4. \A j : JobOK(j) /\ InHand(j) => InHand(j)'
  <2> SUFFICES ASSUME NEW j, JobOK(j), InHand(j) PROVE InHand(j)'
    OBVIOUS
  <2>1. j.pc # "idle" => Sound(j.todo)'
    BY <1>3 DEF JobOK, InHand
  <2>2. j.pc \in {"fetch", "apply"} => Kept(j.conn, j.pos)' /\ j.pos <= published'[j.conn]
    BY <1>0, <1>1, BookAssumption DEF JobOK, InHand, Cursors
  <2>3. j.pc = "apply" => j.page <= published'[j.conn]
    BY <1>0, BookAssumption DEF JobOK, InHand, Cursors
  <2>4. j.pc = "write" => Known(j.snap)'
    BY <1>2 DEF JobOK, InHand
  <2> QED BY <1>0, <2>1, <2>2, <2>3, <2>4 DEF InHand
<1>5. TypeOK'
  BY <1>0 DEF IInv, TypeOK
<1>6. Sound(conns)' /\ Known(file)'
  <2>1. \A cs : cs = conns => Sound(cs)'
    BY <1>3, StoredIsOK
  <2>2. \A cs : cs = file => Known(cs)'
    BY <1>2, StoredIsOK
  <2> QED BY <1>0, <2>1, <2>2
<1>7. ASSUME NEW o \in Requests PROVE InHand(job[o])'
  <2>1. \A j : j = job[o] => InHand(j)'
    BY <1>4, JobIs
  <2> QED BY <1>0, <2>1
<1> QED BY <1>0, <1>5, <1>6, <1>7 DEF IInv, OneRowPerKey

-----------------------------------------------------------------------------
(* A page keeps what a cursor needs, the one it leads to included; what it *)
(* takes away is gone from the book as well.                               *)
LEMMA PageKeeps ==
  ASSUME IInv, NEW q \in Requests, Apply(q),
         NEW c \in Conns, c = job[q].conn, NEW m, m = job[q].pos, NEW n, n = job[q].page
  PROVE  /\ \A d \in Conns : \A i \in Cursors(d) : i <= published[d] /\ Kept(d, i) => Kept(d, i)'
         /\ Kept(c, n)'
<1>0. /\ TypeOK /\ OneRowPerKey /\ job[q].pc = "apply"
      /\ c \in Conns /\ m \in Cursors(c) /\ n \in Cursors(c) /\ published[c] \in Cursors(c)
      /\ m <= n /\ n <= published[c] /\ Kept(c, m)
      /\ published' = published
      /\ erased' = erased \ {<<r.conn, r.key>> : r \in rows'}
  BY JobIs, PageJob DEF IInv, TypeOK, InHand, Apply, StillErased
<1>1. \A d \in Conns : \A k \in Keys :
        <<d, k>> \in erased /\ <<d, k>> \notin erased' => RowsOf(d, k)' # {}
  BY <1>0 DEF RowsOf
<1>2. \A k \in Keys :
        /\ k \in Removed(c, m, n) => RowsOf(c, k)' = {}
        /\ k \in Modified(c, m, n) => RowsOf(c, k)' # {}
        /\ k \in Added(c, m, n) => RowsOf(c, k)' # {}
        /\ k \notin Removed(c, m, n) /\ RowsOf(c, k) # {} => RowsOf(c, k)' # {}
  <2> SUFFICES ASSUME NEW k \in Keys
               PROVE  /\ k \in Removed(c, m, n) => RowsOf(c, k)' = {}
                      /\ k \in Modified(c, m, n) => RowsOf(c, k)' # {}
                      /\ k \in Added(c, m, n) => RowsOf(c, k)' # {}
                      /\ k \notin Removed(c, m, n) /\ RowsOf(c, k) # {} => RowsOf(c, k)' # {}
    OBVIOUS
  <2>1. k \in Added(c, m, n) => k \notin Removed(c, m, n) \cup Modified(c, m, n)
    BY DEF Added, Removed, Modified
  <2>2. /\ k \in Removed(c, m, n) => RowsOf(c, k)' = {}
        /\ k \in Modified(c, m, n) => \E s : RowsOf(c, k)' = {s} /\ s.version = Version(c, n, k)
        /\ k \in Added(c, m, n) /\ RowsOf(c, k) = {} => RowsOf(c, k)' = {NewRow(c, k, n)}
        /\ k \notin Removed(c, m, n) \cup Modified(c, m, n) /\ ~ (k \in Added(c, m, n) /\ RowsOf(c, k) = {})
             => RowsOf(c, k)' = RowsOf(c, k)
    BY <1>0, PageRows
  <2> QED BY <2>1, <2>2
<1>3. ASSUME NEW d \in Conns, NEW i \in Cursors(d), i <= published[d], Kept(d, i)
      PROVE  Kept(d, i)'
  <2> SUFFICES ASSUME NEW k \in Keys, Version(d, i, k) # 0, Version(d, published[d], k) # 0,
                      <<d, k>> \notin erased'
               PROVE  RowsOf(d, k)' # {}
    BY <1>0 DEF Kept
  <2>1. CASE <<d, k>> \in erased
    BY <1>1, <2>1
  <2>2. CASE <<d, k>> \notin erased
    <3>1. RowsOf(d, k) # {}
      BY <1>3, <2>2 DEF Kept
    <3>2. CASE d # c
      BY <1>0, <3>1, <3>2, OtherRows
    <3>3. CASE d = c
      <4>1. k \in Removed(c, m, n) => Version(c, published[c], k) = 0
        BY <1>0, GoneForGood DEF Removed
      <4> QED BY <1>2, <3>1, <3>3, <4>1
    <3> QED BY <3>2, <3>3
  <2> QED BY <2>1, <2>2
<1>4. Kept(c, n)'
  <2> SUFFICES ASSUME NEW k \in Keys, Version(c, n, k) # 0, Version(c, published[c], k) # 0,
                      <<c, k>> \notin erased'
               PROVE  RowsOf(c, k)' # {}
    BY <1>0 DEF Kept
  <2>1. CASE <<c, k>> \in erased
    BY <1>0, <1>1, <2>1
  <2>2. CASE <<c, k>> \notin erased
    <3>1. k \notin Removed(c, m, n)
      BY DEF Removed
    <3>2. CASE Version(c, m, k) = 0
      BY <1>2, <3>2 DEF Added
    <3>3. CASE Version(c, m, k) # 0
      BY <1>0, <1>2, <2>2, <3>1, <3>3 DEF Kept
    <3> QED BY <3>2, <3>3
  <2> QED BY <2>1, <2>2
<1> QED BY <1>3, <1>4

(* And there is still one row for a transaction.                           *)
LEMMA PageRowsOK ==
  ASSUME IInv, NEW q \in Requests, Apply(q),
         NEW c \in Conns, c = job[q].conn, NEW m, m = job[q].pos, NEW n, n = job[q].page
  PROVE  rows' \subseteq Row /\ OneRowPerKey' /\ \A r \in rows' : r.conn \in linked
<1>0. /\ TypeOK /\ OneRowPerKey /\ job[q].pc = "apply"
      /\ c \in Conns /\ m \in Cursors(c) /\ n \in Cursors(c)
      /\ rows \subseteq Row /\ c \in linked
      /\ rows' = (rows \ Replaced(c, m, n)) \cup Stored(c, m, n) \cup Upserted(c, m, n)
  BY JobIs, PageJob DEF IInv, TypeOK, InHand, Apply, AfterPage
<1>1. ASSUME NEW r \in rows' PROVE r \in Row /\ r.conn \in linked
  <2> QED BY <1>0, <1>1, UpsertedIs, StoredIs DEF IInv
<1>2. ASSUME NEW r \in rows', NEW s \in rows', r.conn = s.conn, r.key = s.key PROVE r = s
  <2> DEFINE d == r.conn  k == r.key
  <2>1. d \in Conns /\ k \in Keys /\ r \in RowsOf(d, k)' /\ s \in RowsOf(d, k)'
    BY <1>1, <1>2 DEF Row, RowsOf
  <2> HIDE DEF d, k
  <2>2. CASE RowsOf(d, k)' = RowsOf(d, k)
    BY <1>0, <1>2, <2>1, <2>2 DEF OneRowPerKey, RowsOf
  <2>3. CASE d # c
    BY <1>0, <2>1, <2>2, <2>3, OtherRows
  <2>4. CASE d = c
    <3>1. /\ k \in Removed(c, m, n) => RowsOf(c, k)' = {}
          /\ k \in Modified(c, m, n) => \E t : RowsOf(c, k)' = {t} /\ t.version = Version(c, n, k)
          /\ k \in Added(c, m, n) /\ RowsOf(c, k) = {} => RowsOf(c, k)' = {NewRow(c, k, n)}
          /\ k \notin Removed(c, m, n) \cup Modified(c, m, n) /\ ~ (k \in Added(c, m, n) /\ RowsOf(c, k) = {})
               => RowsOf(c, k)' = RowsOf(c, k)
      BY <1>0, <2>1, PageRows
    <3> QED BY <2>1, <2>2, <2>4, <3>1
  <2> QED BY <2>3, <2>4
<1> QED BY <1>1, <1>2 DEF OneRowPerKey

LEMMA ApplyStep ==
  ASSUME IInv, NEW q \in Requests, Apply(q) PROVE IInv'
<1>a. PICK c, m, n, due : c = job[q].conn /\ m = job[q].pos /\ n = job[q].page /\ due = job[q].todo
  OBVIOUS
<1>b. PICK j : j = IF job[q].more THEN ThenFetch(due, c, n) ELSE ThenPersist(due, {})
  OBVIOUS
<1>0. /\ c \in Conns /\ n \in Cursors(c) /\ c \in sealed /\ n <= published[c]
      /\ c \in linked /\ sealed \subseteq Conns
      /\ InMap(due) /\ Sound(due)
      /\ conns' = [conns EXCEPT ![c] = n] /\ job' = [job EXCEPT ![q] = j]
      /\ UNCHANGED <<serial, published, sealed, linked, file, gone>>
      /\ erased' \subseteq erased
  BY <1>a, <1>b, JobIs, PageJob DEF IInv, TypeOK, InHand, Apply, After, StillErased, Becomes
<1>1. /\ \A d \in Conns : \A i \in Cursors(d) : i <= published[d] /\ Kept(d, i) => Kept(d, i)'
      /\ Kept(c, n)'
  BY <1>0, <1>a, PageKeeps
<1>2. \A cs : Known(cs)' <=> Known(cs)
  BY <1>0 DEF Known
<1>3. \A cs : InMap(cs) /\ Sound(cs) => Sound(cs)'
  <2> SUFFICES ASSUME NEW cs, InMap(cs), Sound(cs), NEW d \in sealed, cs[d] # Absent PROVE Kept(d, cs[d])'
    BY <1>0, <1>2 DEF Sound
  <2>1. d \in Conns /\ cs[d] \in Cursors(d) /\ cs[d] <= published[d] /\ Kept(d, cs[d])
    BY StoredIsOK DEF InMap, Sound, Known
  <2> QED BY <1>1, <2>1
<1>4. \A h : JobOK(h) /\ InHand(h) => InHand(h)'
  <2> SUFFICES ASSUME NEW h, JobOK(h), InHand(h) PROVE InHand(h)'
    OBVIOUS
  <2>1. h.pc # "idle" => Sound(h.todo)'
    BY <1>3 DEF JobOK, InHand
  <2>2. h.pc \in {"fetch", "apply"} => Kept(h.conn, h.pos)'
    BY <1>1 DEF JobOK, InHand
  <2> QED BY <1>0, <1>2, <2>1, <2>2 DEF InHand
<1>5. JobOK(j) /\ InHand(j)'
  <2>1. Sound(due)'
    BY <1>0, <1>3
  <2>2. CASE job[q].more
    <3>1. j = ThenFetch(due, c, n)
      BY <1>b, <2>2
    <3> QED BY <1>0, <1>1, <2>1, <3>1, JobsOK DEF InHand, ThenFetch
  <2>3. CASE ~ job[q].more
    <3>1. j = ThenPersist(due, {})
      BY <1>b, <2>3
    <3> QED BY <1>0, <2>1, <3>1, JobsOK DEF InHand, ThenPersist
  <2> QED BY <2>2, <2>3
<1>6. rows' \subseteq Row /\ OneRowPerKey' /\ (\A r \in rows : r.conn \in linked)'
  BY <1>0, <1>a, PageRowsOK
<1>7. InMap(conns') /\ Sound(conns)'
  <2>1. PICK cs : cs = conns
    OBVIOUS
  <2>2. InMap(cs) /\ Sound(cs)'
    BY <1>3, <2>1, StoredIsOK
  <2>3. conns' = [cs EXCEPT ![c] = n]
    BY <1>0, <2>1
  <2> QED BY <1>0, <1>1, <2>2, <2>3 DEF InMap, Sound, Known
<1>8. TypeOK'
  BY <1>0, <1>5, <1>6, <1>7 DEF IInv, TypeOK
<1>9. ASSUME NEW o \in Requests PROVE InHand(job[o])'
  <2>1. PICK h : h = job'[o]
    OBVIOUS
  <2>2. InHand(h)'
    BY <1>0, <1>4, <1>5, <2>1, JobIs DEF IInv, TypeOK
  <2> QED BY <2>1, <2>2
<1>10. Known(file)'
  BY <1>0, <1>2, StoredIsOK
<1> QED BY <1>6, <1>7, <1>8, <1>9, <1>10 DEF IInv

-----------------------------------------------------------------------------
(* What a user does to a single row.                                       *)
LEMMA EditStep ==
  ASSUME IInv, NEW r \in rows, PatchCategory(r) \/ DeleteRow(r) PROVE IInv'
<1>0. /\ r \in Row /\ rows \subseteq Row /\ OneRowPerKey /\ \A s \in rows : s.conn \in linked
      /\ UNCHANGED <<serial, published, conns, sealed, linked, file, job, gone>>
  BY DEF IInv, TypeOK, PatchCategory, DeleteRow
<1>1. /\ rows' \subseteq Row /\ OneRowPerKey' /\ \A s \in rows' : s.conn \in linked
      /\ erased' \subseteq Conns \X Keys
      /\ \A c \in Conns, k \in Keys :
           RowsOf(c, k) # {} /\ <<c, k>> \notin erased' => RowsOf(c, k)' # {}
      /\ erased \subseteq erased'
  <2>1. CASE PatchCategory(r)
    <3> DEFINE s == [r EXCEPT !.edited = TRUE]
    <3>1. s \in Row /\ s.conn = r.conn /\ s.key = r.key /\ rows' = (rows \ {r}) \cup {s} /\ erased' = erased
      BY <1>0, <2>1 DEF Row, PatchCategory
    <3> HIDE DEF s
    <3>2. \A c, k : RowsOf(c, k)' = IF r \in RowsOf(c, k) THEN (RowsOf(c, k) \ {r}) \cup {s} ELSE RowsOf(c, k)
      BY <3>1 DEF RowsOf
    <3> QED BY <1>0, <3>1, <3>2 DEF OneRowPerKey, IInv, TypeOK
  <2>2. CASE DeleteRow(r)
    <3>1. rows' = rows \ {r} /\ erased' = erased \cup {<<r.conn, r.key>>} /\ r.conn \in Conns /\ r.key \in Keys
      BY <1>0, <2>2 DEF DeleteRow, Row
    <3>2. \A c, k : <<c, k>> \notin erased' => RowsOf(c, k)' = RowsOf(c, k)
      BY <3>1 DEF RowsOf
    <3> QED BY <1>0, <3>1, <3>2 DEF OneRowPerKey, IInv, TypeOK
  <2> QED BY <2>1, <2>2
<1>2. \A c \in Conns : \A n : Kept(c, n) => Kept(c, n)'
  BY <1>0, <1>1 DEF Kept
<1>3. \A cs : Known(cs) <=> Known(cs)'
  BY <1>0 DEF Known
<1>4. \A cs : Sound(cs) => Sound(cs)'
  BY <1>0, <1>2, <1>3, StoredIsOK DEF Sound
<1>5. \A j : JobOK(j) /\ InHand(j) => InHand(j)'
  BY <1>0, <1>2, <1>3, <1>4 DEF InHand, JobOK
<1>6. TypeOK'
  BY <1>0, <1>1 DEF IInv, TypeOK
<1>7. Sound(conns)' /\ Known(file)'
  <2>1. PICK cs, f : cs = conns /\ f = file
    OBVIOUS
  <2>2. Sound(cs)' /\ Known(f)'
    BY <1>3, <1>4, <2>1, StoredIsOK
  <2> QED BY <1>0, <2>1, <2>2
<1>8. ASSUME NEW o \in Requests PROVE InHand(job[o])'
  <2>1. PICK h : h = job[o]
    OBVIOUS
  <2>2. InHand(h)'
    BY <1>5, <2>1, JobIs
  <2> QED BY <1>0, <2>1, <2>2
<1> QED BY <1>0, <1>1, <1>6, <1>7, <1>8 DEF IInv

(* A restart leaves no token to go on with.                                *)
LEMMA RestartStep ==
  ASSUME IInv, Restart PROVE IInv'
<1>1. /\ conns' \in {file, NoConns} /\ file' = conns'
      /\ rows' = {} /\ erased' = {} /\ sealed' = {}
      /\ job' = [q \in Requests |-> Idle]
      /\ UNCHANGED <<serial, published, linked, gone>>
  BY DEF Restart, Restarted
<1>2. InMap(conns') /\ Known(conns')
  BY <1>1, StoredIsOK, NoConnsOK DEF Sound
<1>3. TypeOK'
  BY <1>1, <1>2, JobsOK DEF IInv, TypeOK
<1>4. Sound(conns)' /\ Known(file)'
  BY <1>1, <1>2 DEF Sound, Known
<1>5. \A q \in Requests : InHand(job[q])'
  BY <1>1 DEF InHand, Idle
<1> QED BY <1>1, <1>3, <1>4, <1>5 DEF IInv, OneRowPerKey

LEMMA InitIInv == Init => IInv
<1> SUFFICES ASSUME Init PROVE IInv
  OBVIOUS
<1>1. InMap(NoConns) /\ Sound(NoConns)
  BY NoConnsOK DEF Init
<1>2. ASSUME NEW c \in Conns PROVE 0 \in Cursors(c)
  <2>1. Book[c] \in Seq([Keys -> Nat])
    BY BookAssumption
  <2>2. Len(Book[c]) \in Nat
    BY <2>1
  <2> QED BY <2>2 DEF Cursors
<1>3. TypeOK
  BY <1>1, <1>2, JobsOK DEF Init, TypeOK
<1>4. \A q \in Requests : InHand(job[q])
  BY InHands DEF Init
<1> QED BY <1>1, <1>3, <1>4 DEF Init, IInv, OneRowPerKey, Sound

(* The inductive invariant, whatever overlaps, fails or restarts.          *)
LEMMA IInvStep == IInv /\ [Next]_vars => IInv'
<1> SUFFICES ASSUME IInv, [Next]_vars PROVE IInv'
  OBVIOUS
<1>1. ASSUME NEW q \in Requests, Begin(q) \/ SyncStep(q) PROVE IInv'
  BY <1>1, LinkStep, StartSyncStep, DeleteStep, TakeStep, EndStep, FetchStep, ApplyStep, FileStep
     DEF Begin, SyncStep
<1>2. CASE UNCHANGED vars
  BY <1>2, SameHand DEF vars, IInv, TypeOK, OneRowPerKey
<1> QED BY <1>1, <1>2, PublishStep, EditStep, RestartStep DEF Next

THEOREM Invariance == Spec => []IInv
BY InitIInv, IInvStep, PTL DEF Spec

(* A transaction has at most one row, and what a usable connection's       *)
(* cursor has passed is stored unless Plaid or the user took it away:      *)
(* through overlapping syncs, failures and restarts.                       *)
THEOREM RowsAreOK == Spec => []RowsOK
<1>1. IInv => RowsOK
  BY DEF IInv, RowsOK, NothingMissing, Usable, Present, Sound, Kept
<1> QED BY Invariance, <1>1, PTL

-----------------------------------------------------------------------------
(* Requests that come one by one: a step of the only one at work that      *)
(* makes no rows and moves no cursor but to none.                          *)
LEMMA LoneStep ==
  ASSUME IInv, SerialInv, serial, UNCHANGED <<serial, sealed, rows, erased>>,
         NEW q \in Requests, NEW j, Becomes(q, j), JobOK(j), \A o \in Requests : AtWork(o) => o = q,
         \A c \in Conns : conns'[c] \in {Absent, conns[c]},
         DeletedStaysDeleted', Alone(j)'
  PROVE  SerialInv'
<1>1. \A o \in Requests : job'[o] = IF o = q THEN j ELSE job[o]
  BY DEF Becomes, IInv, TypeOK
<1>2. OneAtWork'
  BY <1>1 DEF OneAtWork, AtWork
<1>3. SyncedIsCurrent'
  <2> SUFFICES ASSUME NEW c \in sealed, c \in Conns, conns'[c] # Absent, NEW k \in Keys
               PROVE  \/ {r.version : r \in RowsOf(c, k)} = {Version(c, conns'[c], k)} \ {0}
                      \/ <<c, k>> \in erased /\ RowsOf(c, k) = {}
    BY DEF SyncedIsCurrent, Usable, Present, RowsOf
  <2>1. c \in Usable /\ conns'[c] = conns[c]
    BY DEF Usable, Present
  <2>2. SyncedIsCurrent
    BY DEF SerialInv
  <2> QED BY <2>1, <2>2 DEF SyncedIsCurrent
<1>4. ASSUME NEW o \in Requests PROVE Alone(job[o])'
  <2>1. PICK h : h = job'[o]
    OBVIOUS
  <2>2. CASE o = q
    BY <1>1, <2>2
  <2>3. CASE o # q
    <3>1. h.pc = "idle"
      BY <1>1, <2>1, <2>3 DEF AtWork
    <3>2. Alone(h)'
      BY <3>1 DEF Alone, CopyIsCurrent, FreeOf
    <3> QED BY <2>1, <3>2
  <2> QED BY <2>2, <2>3
<1> QED BY <1>2, <1>3, <1>4 DEF SerialInv

LEMMA AloneIs ==
  ASSUME IInv, SerialInv, serial, NEW q \in Requests
  PROVE  /\ Alone(job[q]) /\ JobOK(job[q]) /\ InHand(job[q]) /\ DeletedStaysDeleted
         /\ sealed \subseteq Conns /\ linked \subseteq Conns /\ gone \subseteq Conns
         /\ InMap(conns) /\ InMap(file)
         /\ AtWork(q) => \A o \in Requests : AtWork(o) => o = q
         /\ MayBegin(q) => \A o \in Requests : AtWork(o) => o = q
BY DEF SerialInv, IInv, TypeOK, OneAtWork, MayBegin

LEMMA StartSyncAlone ==
  ASSUME IInv, SerialInv, serial, NEW q \in Requests, NEW cs, StartSync(q, cs) PROVE SerialInv'
<1> DEFINE due == [c \in Conns |-> IF c \in cs THEN conns[c] ELSE Absent]
           j == ThenNext(due)
<1>1. InMap(due) /\ JobOK(j)
  BY AloneIs, JobsOK DEF InMap
<1>2. Alone(j)'
  BY AloneIs DEF StartSync, Alone, CopyIsCurrent, FreeOf, ThenNext, DeletedStaysDeleted
<1>3. DeletedStaysDeleted'
  BY AloneIs DEF StartSync, DeletedStaysDeleted
<1> HIDE DEF j
<1> QED BY <1>1, <1>2, <1>3, AloneIs, LoneStep DEF StartSync, j

LEMMA DeleteAlone ==
  ASSUME IInv, SerialInv, serial, NEW q \in Requests, NEW c \in Conns, Delete(q, c) PROVE SerialInv'
<1> DEFINE j == ThenPersist(NoConns, {c})
<1>1. JobOK(j)
  BY AloneIs, NoConnsOK, JobsOK
<1>2. conns' = [conns EXCEPT ![c] = Absent] /\ UNCHANGED <<serial, sealed, rows, erased, gone, file>>
  BY DEF Delete
<1>3. \A d \in Conns : conns'[d] = IF d = c THEN Absent ELSE conns[d]
  BY <1>2, AloneIs DEF InMap
<1>4. Alone(j)'
  BY <1>2, <1>3, AloneIs DEF Alone, CopyIsCurrent, FreeOf, ThenPersist, NoConns, DeletedStaysDeleted
<1>5. DeletedStaysDeleted'
  BY <1>2, <1>3, AloneIs DEF DeletedStaysDeleted
<1> HIDE DEF j
<1> QED BY <1>1, <1>2, <1>3, <1>4, <1>5, AloneIs, LoneStep DEF Delete, j

LEMMA TakeAlone ==
  ASSUME IInv, SerialInv, serial, NEW q \in Requests, NEW c \in Conns,
         TakeUsable(q, c) \/ TakeUnusable(q, c)
  PROVE  SerialInv'
<1>0. PICK due : due = job[q].todo
  OBVIOUS
<1>1. /\ InMap(due) /\ due[c] # Absent /\ AtWork(q) /\ job[q].pc = "next"
      /\ \A d \in sealed : due[d] # Absent => conns[d] = due[d]
      /\ \A d \in gone : due[d] = Absent
      /\ sealed \subseteq Conns /\ gone \subseteq Conns
      /\ UNCHANGED <<serial, sealed, rows, erased, gone, file>>
  BY <1>0, AloneIs DEF TakeUsable, TakeUnusable, Takes, JobOK, Alone, CopyIsCurrent, FreeOf, AtWork
<1>2. PICK left : left = [due EXCEPT ![c] = Absent]
  OBVIOUS
<1>3. /\ InMap(left) /\ left[c] = Absent /\ \A d \in Conns \ {c} : left[d] = due[d]
      /\ left = Left(q, c)
  BY <1>0, <1>1, <1>2 DEF InMap, Left
<1>4. CASE TakeUsable(q, c)
  <2> DEFINE j == ThenFetch(left, c, due[c])
  <2>1. c \in sealed /\ Becomes(q, j) /\ conns' = conns
    BY <1>0, <1>3, <1>4 DEF TakeUsable
  <2>2. JobOK(j)
    BY <1>1, <1>3, JobsOK DEF InMap
  <2>3. Alone(j)'
    BY <1>1, <1>3, <2>1 DEF Alone, CopyIsCurrent, FreeOf, ThenFetch
  <2>4. DeletedStaysDeleted'
    BY <1>1, <2>1, AloneIs DEF DeletedStaysDeleted
  <2> HIDE DEF j
  <2> QED BY <1>1, <2>1, <2>2, <2>3, <2>4, AloneIs, LoneStep
<1>5. CASE TakeUnusable(q, c)
  <2> DEFINE j == ThenPersist(left, {c})
  <2>1. c \notin sealed /\ Becomes(q, j) /\ \A d \in Conns : conns'[d] = IF d = c THEN Absent ELSE conns[d]
    BY <1>0, <1>3, <1>5, AloneIs DEF TakeUnusable, InMap
  <2>2. JobOK(j)
    BY <1>3, JobsOK
  <2>3. Alone(j)'
    BY <1>1, <1>3, <2>1 DEF Alone, CopyIsCurrent, FreeOf, ThenPersist
  <2>4. DeletedStaysDeleted'
    BY <1>1, <2>1, AloneIs DEF DeletedStaysDeleted
  <2> HIDE DEF j
  <2> QED BY <1>1, <2>1, <2>2, <2>3, <2>4, AloneIs, LoneStep
<1> QED BY <1>4, <1>5

LEMMA EndAlone ==
  ASSUME IInv, SerialInv, serial, NEW q \in Requests, NothingLeft(q) \/ FetchFails(q) PROVE SerialInv'
<1>0. AtWork(q)
  <2>1. CASE NothingLeft(q)
    <3>1. job[q] = [pc |-> "next", todo |-> NoConns]
      BY <2>1 DEF NothingLeft, ThenNext
    <3> QED BY <3>1 DEF AtWork
  <2>2. CASE FetchFails(q)
    BY <2>2 DEF FetchFails, AtWork
  <2> QED BY <2>1, <2>2
<1>1. /\ AtWork(q) /\ Becomes(q, Idle)
      /\ UNCHANGED <<serial, conns, sealed, rows, erased, gone, file>>
  BY <1>0 DEF NothingLeft, FetchFails
<1>2. Alone(Idle)'
  BY DEF Alone, CopyIsCurrent, FreeOf, Idle
<1>3. DeletedStaysDeleted'
  BY <1>1, AloneIs DEF DeletedStaysDeleted
<1> QED BY <1>1, <1>2, <1>3, JobsOK, AloneIs, LoneStep

LEMMA FetchAlone ==
  ASSUME IInv, SerialInv, serial, NEW q \in Requests, Fetch(q) PROVE SerialInv'
<1>0. PICK a, c, m, due :
        /\ a = Answer(job[q], PageEnd(job[q]), published[job[q].conn])
        /\ c = job[q].conn /\ m = job[q].pos /\ due = job[q].todo
  OBVIOUS
<1>1. /\ AtWork(q) /\ Becomes(q, a) /\ job[q].pc = "fetch"
      /\ UNCHANGED <<serial, conns, sealed, rows, erased, gone, file>>
  BY <1>0 DEF Fetch, AtWork
<1>2. a.pc = "apply" /\ a.todo = due /\ a.conn = c /\ a.pos = m
  BY <1>0 DEF Answer
<1>3. JobOK(a)
  <2>1. TypeOK'
    BY FetchStep DEF IInv
  <2>2. job'[q] = a
    BY <1>1 DEF Becomes, IInv, TypeOK
  <2>3. \A h : h = job'[q] => JobOK(h)
    BY <2>1 DEF TypeOK
  <2> QED BY <2>2, <2>3
<1>4. /\ \A d \in sealed : due[d] # Absent => conns[d] = due[d]
      /\ conns[c] = m /\ due[c] = Absent
      /\ \A d \in gone : due[d] = Absent /\ c # d
  BY <1>0, <1>1, AloneIs DEF Alone, CopyIsCurrent, FreeOf
<1>5. Alone(a)'
  BY <1>1, <1>2, <1>4 DEF Alone, CopyIsCurrent, FreeOf
<1>6. DeletedStaysDeleted'
  BY <1>1, AloneIs DEF DeletedStaysDeleted
<1> QED BY <1>1, <1>3, <1>5, <1>6, AloneIs, LoneStep

(* What is written was read after the removal it is for, ...               *)
LEMMA FileAlone ==
  ASSUME IInv, SerialInv, serial, NEW q \in Requests, Snapshot(q) \/ Write(q) \/ WriteFails(q)
  PROVE  SerialInv'
<1>0. PICK due, drops : due = job[q].todo /\ drops = job[q].drops
  OBVIOUS
<1>1. /\ AtWork(q) /\ job[q].pc \in {"persist", "write"} /\ InMap(due) /\ drops \subseteq Conns
      /\ \A d \in sealed : due[d] # Absent => conns[d] = due[d]
      /\ \A d \in gone \cup drops : due[d] = Absent /\ conns[d] = Absent
      /\ \A d \in gone : file[d] = Absent
      /\ gone \subseteq Conns /\ InMap(conns)
      /\ UNCHANGED <<serial, sealed, rows, erased, conns>>
  BY <1>0, AloneIs DEF Snapshot, Write, WriteFails, JobOK, Alone, CopyIsCurrent, FreeOf, AtWork,
                       DeletedStaysDeleted
<1>2. JobOK(ThenNext(due)) /\ JobOK(Idle) /\ JobOK(ThenWrite(due, drops, conns))
  BY <1>1, JobsOK
<1>3. CASE Snapshot(q)
  <2> DEFINE j == ThenWrite(due, drops, conns)
  <2>1. Becomes(q, j) /\ UNCHANGED <<gone, file>>
    BY <1>0, <1>3 DEF Snapshot
  <2>2. Alone(j)'
    BY <1>1, <2>1 DEF Alone, CopyIsCurrent, FreeOf, ThenWrite
  <2>3. DeletedStaysDeleted'
    BY <1>1, <2>1 DEF DeletedStaysDeleted
  <2> HIDE DEF j
  <2> QED BY <1>1, <1>2, <2>1, <2>2, <2>3, AloneIs, LoneStep DEF j
<1>4. CASE Write(q)
  <2> DEFINE j == ThenNext(due)
  <2>1. /\ Becomes(q, j) /\ gone' = gone \cup drops
        /\ \A d \in gone \cup drops : file'[d] = Absent
    BY <1>0, <1>4, AloneIs DEF Write, Alone, FreeOf
  <2>2. Alone(j)'
    BY <1>1, <2>1 DEF Alone, CopyIsCurrent, FreeOf, ThenNext
  <2>3. DeletedStaysDeleted'
    BY <1>1, <2>1 DEF DeletedStaysDeleted
  <2> HIDE DEF j
  <2> QED BY <1>1, <1>2, <2>1, <2>2, <2>3, AloneIs, LoneStep DEF j
<1>5. CASE WriteFails(q)
  <2> DEFINE j == IF drops = {} THEN Idle ELSE ThenNext(due)
  <2>1. Becomes(q, j) /\ UNCHANGED <<gone, file>> /\ JobOK(j)
    BY <1>0, <1>2, <1>5 DEF WriteFails
  <2>2. Alone(j)'
    BY <1>1, <2>1 DEF Alone, CopyIsCurrent, FreeOf, ThenNext, Idle
  <2>3. DeletedStaysDeleted'
    BY <1>1, <2>1 DEF DeletedStaysDeleted
  <2> HIDE DEF j
  <2> QED BY <1>1, <2>1, <2>2, <2>3, AloneIs, LoneStep
<1> QED BY <1>3, <1>4, <1>5

-----------------------------------------------------------------------------
(* The steps that link, that make rows, that a user takes, and the ones    *)
(* that no request takes.                                                  *)
LEMMA LinkAlone ==
  ASSUME IInv, SerialInv, serial, NEW q \in Requests, NEW c \in Conns, NEW sandbox,
         Link(q, c, sandbox)
  PROVE  SerialInv'
<1>0. PICK due : due = IF sandbox THEN [NoConns EXCEPT ![c] = 0] ELSE NoConns
  OBVIOUS
<1>1. /\ c \notin linked /\ sealed' = sealed \cup {c}
      /\ job' = [job EXCEPT ![q] = ThenPersist(due, {})]
      /\ \A d \in Conns : conns'[d] = IF d = c THEN 0 ELSE conns[d]
      /\ UNCHANGED <<serial, published, file, rows, gone, erased>>
  BY <1>0, AloneIs DEF Link, Becomes, InMap
<1>2. /\ \A d \in Conns \ {c} : due[d] = Absent
      /\ due[c] \in {0, Absent}
      /\ c \notin gone /\ gone \subseteq Conns /\ sealed \subseteq Conns
  BY <1>0, <1>1, AloneIs DEF NoConns, IInv, TypeOK
<1>3. \A o \in Requests : job'[o] = IF o = q THEN ThenPersist(due, {}) ELSE job[o]
  BY <1>1 DEF IInv, TypeOK
<1>4. \A o \in Requests \ {q} : job'[o].pc = "idle"
  BY <1>3, AloneIs DEF Link, MayBegin, AtWork
<1>5. OneAtWork'
  BY <1>4 DEF OneAtWork, AtWork
<1>6. SyncedIsCurrent'
  <2> SUFFICES ASSUME NEW d \in sealed \cup {c}, d \in Conns, conns'[d] # Absent, NEW k \in Keys
               PROVE  \/ {r.version : r \in RowsOf(d, k)} = {Version(d, conns'[d], k)} \ {0}
                      \/ <<d, k>> \in erased /\ RowsOf(d, k) = {}
    BY <1>1 DEF SyncedIsCurrent, Usable, Present, RowsOf
  <2>1. CASE d = c
    <3>1. RowsOf(d, k) = {}
      BY <1>1, <2>1 DEF RowsOf, IInv
    <3>2. Version(d, conns'[d], k) = 0
      BY <1>1, <2>1 DEF Version
    <3> QED BY <3>1, <3>2
  <2>2. CASE d # c
    <3>1. d \in Usable /\ conns'[d] = conns[d]
      BY <1>1, <2>2 DEF Usable, Present
    <3>2. SyncedIsCurrent
      BY DEF SerialInv
    <3> QED BY <3>1, <3>2 DEF SyncedIsCurrent
  <2> QED BY <2>1, <2>2
<1>7. DeletedStaysDeleted'
  BY <1>1, <1>2, AloneIs DEF DeletedStaysDeleted
<1>8. ASSUME NEW o \in Requests PROVE Alone(job[o])'
  <2>1. PICK h : h = job'[o]
    OBVIOUS
  <2>2. CASE o = q
    <3>1. h.pc = "persist" /\ h.todo = due /\ h.drops = {}
      BY <1>3, <2>1, <2>2 DEF ThenPersist
    <3>2. Alone(h)'
      BY <1>1, <1>2, <3>1 DEF Alone, CopyIsCurrent, FreeOf
    <3> QED BY <2>1, <3>2
  <2>3. CASE o # q
    <3>1. Alone(h)'
      BY <1>4, <2>1, <2>3 DEF Alone, CopyIsCurrent, FreeOf
    <3> QED BY <2>1, <3>1
  <2> QED BY <2>2, <2>3
<1> QED BY <1>5, <1>6, <1>7, <1>8 DEF SerialInv

(* A page takes the rows from the book at one cursor to the book at the    *)
(* next.                                                                   *)
LEMMA PageBooks ==
  ASSUME IInv, SerialInv, serial, NEW q \in Requests, Apply(q),
         NEW c \in Conns, c = job[q].conn, NEW m, m = job[q].pos, NEW n, n = job[q].page,
         NEW k \in Keys
  PROVE  \/ {r.version : r \in RowsOf(c, k)'} = {Version(c, n, k)} \ {0}
         \/ <<c, k>> \in erased' /\ RowsOf(c, k)' = {}
<1>0. /\ TypeOK /\ OneRowPerKey /\ job[q].pc = "apply"
      /\ m \in Cursors(c) /\ n \in Cursors(c) /\ c \in sealed
      /\ erased' = erased \ {<<r.conn, r.key>> : r \in rows'}
  BY AloneIs, PageJob DEF IInv, InHand, Apply, StillErased
<1>1. conns[c] = m
  BY <1>0, AloneIs DEF Alone, CopyIsCurrent
<1>2. SyncedIsCurrent
  BY DEF SerialInv
<1>3. <<c, k>> \in erased /\ RowsOf(c, k)' = {} => <<c, k>> \in erased'
  BY <1>0 DEF RowsOf
<1>4. /\ k \in Removed(c, m, n) => RowsOf(c, k)' = {}
      /\ k \in Modified(c, m, n) => \E s : RowsOf(c, k)' = {s} /\ s.version = Version(c, n, k)
      /\ k \in Added(c, m, n) /\ RowsOf(c, k) = {} => RowsOf(c, k)' = {NewRow(c, k, n)}
      /\ k \notin Removed(c, m, n) \cup Modified(c, m, n) /\ ~ (k \in Added(c, m, n) /\ RowsOf(c, k) = {})
           => RowsOf(c, k)' = RowsOf(c, k)
  BY <1>0, PageRows
<1>5. \/ {r.version : r \in RowsOf(c, k)} = {Version(c, m, k)} \ {0}
      \/ <<c, k>> \in erased /\ RowsOf(c, k) = {}
  <2>1. c \in Usable
    BY <1>0, <1>1, BookAssumption DEF Usable, Present, Cursors
  <2> QED BY <1>1, <1>2, <2>1 DEF SyncedIsCurrent
<1>6. CASE k \in Removed(c, m, n)
  BY <1>4, <1>6 DEF Removed
<1>7. CASE k \in Modified(c, m, n)
  <2>1. Version(c, n, k) # 0
    BY <1>7 DEF Modified
  <2>2. PICK s : RowsOf(c, k)' = {s} /\ s.version = Version(c, n, k)
    BY <1>4, <1>7
  <2> QED BY <2>1, <2>2
<1>8. CASE k \in Added(c, m, n)
  <2>1. RowsOf(c, k) = {} /\ Version(c, n, k) # 0
    BY <1>5, <1>8 DEF Added
  <2>2. RowsOf(c, k)' = {NewRow(c, k, n)} /\ NewRow(c, k, n).version = Version(c, n, k)
    BY <1>0, <1>4, <1>8, <2>1, NewRowIsRow
  <2> QED BY <2>1, <2>2
<1>9. CASE k \notin Removed(c, m, n) \cup Modified(c, m, n) \cup Added(c, m, n)
  <2>1. Version(c, n, k) = Version(c, m, k)
    BY <1>9 DEF Removed, Modified, Added
  <2>2. RowsOf(c, k)' = RowsOf(c, k)
    BY <1>4, <1>9
  <2> QED BY <1>0, <1>3, <1>5, <2>1, <2>2
<1> QED BY <1>6, <1>7, <1>8, <1>9

LEMMA ApplyAlone ==
  ASSUME IInv, SerialInv, serial, NEW q \in Requests, Apply(q) PROVE SerialInv'
<1>a. PICK c, m, n, due : c = job[q].conn /\ m = job[q].pos /\ n = job[q].page /\ due = job[q].todo
  OBVIOUS
<1>b. PICK j : j = IF job[q].more THEN ThenFetch(due, c, n) ELSE ThenPersist(due, {})
  OBVIOUS
<1>0. /\ TypeOK /\ OneRowPerKey /\ job[q].pc = "apply" /\ AtWork(q)
      /\ c \in Conns /\ m \in Cursors(c) /\ n \in Cursors(c) /\ c \in sealed /\ sealed \subseteq Conns
      /\ gone \subseteq Conns
      /\ job' = [job EXCEPT ![q] = j]
      /\ \A d \in Conns : conns'[d] = IF d = c THEN n ELSE conns[d]
      /\ UNCHANGED <<serial, published, sealed, linked, file, gone>>
      /\ erased' = erased \ {<<r.conn, r.key>> : r \in rows'}
  BY <1>a, <1>b, AloneIs, PageJob DEF IInv, InHand, Apply, After, StillErased, Becomes, InMap, AtWork
<1>1. /\ \A d \in sealed : due[d] # Absent => conns[d] = due[d]
      /\ conns[c] = m /\ due[c] = Absent
      /\ \A d \in gone : due[d] = Absent /\ c # d
  BY <1>0, <1>a, AloneIs DEF Alone, CopyIsCurrent, FreeOf
<1>2. SyncedIsCurrent
  BY DEF SerialInv
<1>3. \A d \in Conns, k \in Keys : <<d, k>> \in erased /\ RowsOf(d, k)' = {} => <<d, k>> \in erased'
  BY <1>0 DEF RowsOf
<1>4. ASSUME NEW k \in Keys
      PROVE  \/ {r.version : r \in RowsOf(c, k)'} = {Version(c, n, k)} \ {0}
             \/ <<c, k>> \in erased' /\ RowsOf(c, k)' = {}
  BY <1>0, <1>a, PageBooks
<1>5. ASSUME NEW d \in Usable, d # c, NEW k \in Keys
      PROVE  \/ {r.version : r \in RowsOf(d, k)'} = {Version(d, conns[d], k)} \ {0}
             \/ <<d, k>> \in erased' /\ RowsOf(d, k)' = {}
  <2>1. d \in Conns
    BY DEF Usable, Present
  <2>2. RowsOf(d, k)' = RowsOf(d, k)
    BY <1>0, <1>5, <1>a, <2>1, OtherRows
  <2> QED BY <1>2, <1>3, <2>1, <2>2 DEF SyncedIsCurrent
<1>6. SyncedIsCurrent'
  <2> SUFFICES ASSUME NEW d \in sealed, d \in Conns, conns'[d] # Absent, NEW k \in Keys
               PROVE  \/ {r.version : r \in RowsOf(d, k)'} = {Version(d, conns'[d], k)} \ {0}
                      \/ <<d, k>> \in erased' /\ RowsOf(d, k)' = {}
    BY <1>0 DEF SyncedIsCurrent, Usable, Present
  <2>1. CASE d = c
    BY <1>0, <1>4, <2>1
  <2>2. CASE d # c
    <3>1. d \in Usable /\ conns'[d] = conns[d]
      BY <1>0, <2>2 DEF Usable, Present
    <3> QED BY <1>5, <2>2, <3>1
  <2> QED BY <2>1, <2>2
<1>7. \A o \in Requests : job'[o] = IF o = q THEN j ELSE job[o]
  BY <1>0 DEF TypeOK
<1>8. \A o \in Requests \ {q} : job'[o].pc = "idle"
  BY <1>0, <1>7, AloneIs DEF AtWork
<1>9. OneAtWork'
  BY <1>8 DEF OneAtWork, AtWork
<1>10. DeletedStaysDeleted'
  BY <1>0, <1>1, AloneIs DEF DeletedStaysDeleted
<1>11. Alone(j)'
  <2>1. CASE job[q].more
    <3>1. j.pc = "fetch" /\ j.todo = due /\ j.conn = c /\ j.pos = n
      BY <1>b, <2>1 DEF ThenFetch
    <3> QED BY <1>0, <1>1, <3>1 DEF Alone, CopyIsCurrent, FreeOf
  <2>2. CASE ~ job[q].more
    <3>1. j.pc = "persist" /\ j.todo = due /\ j.drops = {}
      BY <1>b, <2>2 DEF ThenPersist
    <3> QED BY <1>0, <1>1, <3>1 DEF Alone, CopyIsCurrent, FreeOf
  <2> QED BY <2>1, <2>2
<1>12. ASSUME NEW o \in Requests PROVE Alone(job[o])'
  <2>1. PICK h : h = job'[o]
    OBVIOUS
  <2>2. CASE o = q
    BY <1>7, <1>11, <2>2
  <2>3. CASE o # q
    <3>1. Alone(h)'
      BY <1>8, <2>1, <2>3 DEF Alone, CopyIsCurrent, FreeOf
    <3> QED BY <2>1, <3>1
  <2> QED BY <2>2, <2>3
<1> QED BY <1>6, <1>9, <1>10, <1>12 DEF SerialInv

LEMMA EditAlone ==
  ASSUME IInv, SerialInv, serial, NEW r \in rows, PatchCategory(r) \/ DeleteRow(r)
  PROVE  SerialInv'
<1>0. /\ r \in Row /\ rows \subseteq Row /\ OneRowPerKey
      /\ UNCHANGED <<serial, published, conns, sealed, linked, file, job, gone>>
  BY DEF IInv, TypeOK, PatchCategory, DeleteRow
<1>1. ASSUME NEW c \in Conns, NEW k \in Keys
      PROVE  \/ {s.version : s \in RowsOf(c, k)'} = {s.version : s \in RowsOf(c, k)} /\ (<<c, k>> \in erased' <=> <<c, k>> \in erased)
                /\ (RowsOf(c, k)' = {} <=> RowsOf(c, k) = {})
             \/ <<c, k>> \in erased' /\ RowsOf(c, k)' = {}
  <2>1. CASE PatchCategory(r)
    <3> DEFINE t == [r EXCEPT !.edited = TRUE]
    <3>1. t.conn = r.conn /\ t.key = r.key /\ t.version = r.version /\ rows' = (rows \ {r}) \cup {t} /\ erased' = erased
      BY <1>0, <2>1 DEF Row, PatchCategory
    <3> HIDE DEF t
    <3>2. RowsOf(c, k)' = IF r \in RowsOf(c, k) THEN (RowsOf(c, k) \ {r}) \cup {t} ELSE RowsOf(c, k)
      BY <3>1 DEF RowsOf
    <3> QED BY <3>1, <3>2
  <2>2. CASE DeleteRow(r)
    <3>1. rows' = rows \ {r} /\ erased' = erased \cup {<<r.conn, r.key>>}
      BY <2>2 DEF DeleteRow
    <3>2. CASE r.conn = c /\ r.key = k
      BY <1>0, <3>1, <3>2 DEF RowsOf, OneRowPerKey
    <3>3. CASE ~ (r.conn = c /\ r.key = k)
      <4>1. RowsOf(c, k)' = RowsOf(c, k)
        BY <3>1, <3>3 DEF RowsOf
      <4> QED BY <3>1, <3>3, <4>1
    <3> QED BY <3>2, <3>3
  <2> QED BY <2>1, <2>2
<1>2. SyncedIsCurrent'
  <2> SUFFICES ASSUME NEW d \in Usable, NEW k \in Keys
               PROVE  \/ {s.version : s \in RowsOf(d, k)'} = {Version(d, conns[d], k)} \ {0}
                      \/ <<d, k>> \in erased' /\ RowsOf(d, k)' = {}
    BY <1>0 DEF SyncedIsCurrent, Usable, Present
  <2>1. d \in Conns /\ SyncedIsCurrent
    BY DEF Usable, Present, SerialInv
  <2> QED BY <1>1, <2>1 DEF SyncedIsCurrent
<1>3. /\ OneAtWork' /\ DeletedStaysDeleted'
      /\ \A q \in Requests : Alone(job[q])'
  BY <1>0 DEF SerialInv, OneAtWork, AtWork, DeletedStaysDeleted, Alone, CopyIsCurrent, FreeOf
<1> QED BY <1>2, <1>3 DEF SerialInv

LEMMA RestartAlone ==
  ASSUME IInv, SerialInv, serial, Restart PROVE SerialInv'
<1>1. /\ conns' \in {file, NoConns} /\ file' = conns'
      /\ sealed' = {} /\ gone' = gone /\ gone \subseteq Conns
      /\ job' = [q \in Requests |-> Idle]
      /\ \A c \in gone : file[c] = Absent
  BY DEF Restart, Restarted, SerialInv, DeletedStaysDeleted, IInv, TypeOK
<1>2. OneAtWork'
  BY <1>1 DEF OneAtWork, AtWork, Idle
<1>3. SyncedIsCurrent' /\ DeletedStaysDeleted'
  BY <1>1 DEF SyncedIsCurrent, Usable, DeletedStaysDeleted, NoConns
<1>4. \A q \in Requests : Alone(job[q])'
  BY <1>1 DEF Alone, CopyIsCurrent, FreeOf, Idle
<1> QED BY <1>2, <1>3, <1>4 DEF SerialInv

LEMMA PublishAlone ==
  ASSUME IInv, SerialInv, serial, NEW c \in Conns, Publish(c) PROVE SerialInv'
<1>1. UNCHANGED <<serial, conns, sealed, linked, file, rows, job, gone, erased>>
  BY DEF Publish
<1> QED BY <1>1 DEF SerialInv, OneAtWork, AtWork, SyncedIsCurrent, Usable, Present, RowsOf,
                    DeletedStaysDeleted, Alone, CopyIsCurrent, FreeOf

LEMMA InitSerialInv == Init => SerialInv
<1> SUFFICES ASSUME Init PROVE SerialInv
  OBVIOUS
<1>1. OneAtWork /\ SyncedIsCurrent /\ DeletedStaysDeleted
  BY DEF Init, OneAtWork, AtWork, Idle, SyncedIsCurrent, Usable, DeletedStaysDeleted
<1>2. \A q \in Requests : Alone(job[q])
  BY DEF Init, Alone, CopyIsCurrent, FreeOf, Idle
<1> QED BY <1>1, <1>2 DEF SerialInv

LEMMA SerialInvStep == IInv /\ SerialInv /\ [Next]_vars => SerialInv'
<1> SUFFICES ASSUME IInv, SerialInv, [Next]_vars PROVE SerialInv'
  OBVIOUS
<1>0. serial' = serial
  BY DEF Next, vars, Publish, Begin, SyncStep, Link, StartSync, Delete, TakeUsable, TakeUnusable,
         NothingLeft, Fetch, FetchFails, Apply, Snapshot, Write, WriteFails, PatchCategory,
         DeleteRow, Restart, Restarted
<1>1. CASE ~ serial
  BY <1>0, <1>1 DEF SerialInv
<1>2. CASE serial
  <2>1. ASSUME NEW q \in Requests, Begin(q) \/ SyncStep(q) PROVE SerialInv'
    BY <1>2, <2>1, LinkAlone, StartSyncAlone, DeleteAlone, TakeAlone, EndAlone, FetchAlone,
       ApplyAlone, FileAlone DEF Begin, SyncStep
  <2>2. CASE UNCHANGED vars
    BY <2>2 DEF vars, SerialInv, OneAtWork, AtWork, SyncedIsCurrent, Usable, Present, RowsOf,
                DeletedStaysDeleted, Alone, CopyIsCurrent, FreeOf
  <2> QED BY <1>2, <2>1, <2>2, PublishAlone, EditAlone, RestartAlone DEF Next
<1> QED BY <1>1, <1>2

(* The inductive invariant of requests that come one by one.               *)
THEOREM SerialInvariance == Spec => []SerialInv
BY InitIInv, IInvStep, InitSerialInv, SerialInvStep, PTL DEF Spec

(* If requests do not overlap, the rows of a usable connection are what    *)
(* Plaid's book says at its cursor, after every page, failed call, edit    *)
(* and restart.                                                            *)
THEOREM RowsAreTheBooks == Spec => []SyncedIsCurrent
<1>1. SerialInv => SyncedIsCurrent
  BY DEF SerialInv, SyncedIsCurrent
<1> QED BY SerialInvariance, <1>1, PTL

(* If requests do not overlap, a connection whose removal reached the file *)
(* is in neither memory nor file again: no snapshot or copy of it is left. *)
THEOREM RemovalsLast == Spec => []DeletedStaysDeleted
<1>1. SerialInv => DeletedStaysDeleted
  BY DEF SerialInv, DeletedStaysDeleted
<1> QED BY SerialInvariance, <1>1, PTL

(* The row a page writes over an edited one is newer: the page starts at   *)
(* the cursor the row was stored at.                                       *)
LEMMA EditKeptStep ==
  ASSUME IInv, SerialInv, [Next]_vars, serial, NEW r \in rows, NEW s \in rows',
         r.edited, ~ s.edited, r.conn = s.conn, r.key = s.key
  PROVE  s.version > r.version
<1>0. OneRowPerKey /\ SyncedIsCurrent /\ rows \subseteq Row
  BY DEF IInv, SerialInv, TypeOK
<1>1. s \notin rows
  BY <1>0 DEF OneRowPerKey
<1>2. ASSUME NEW x \in rows, PatchCategory(x) \/ DeleteRow(x) PROVE FALSE
  <2>1. ~ [x EXCEPT !.edited = TRUE].edited => FALSE
    BY <1>0 DEF Row
  <2> QED BY <1>1, <1>2, <2>1 DEF PatchCategory, DeleteRow
<1>3. ASSUME NEW q \in Requests, Apply(q) PROVE s.version > r.version
  <2>a. PICK c, m, n, k : c = job[q].conn /\ m = job[q].pos /\ n = job[q].page /\ k = s.key
    OBVIOUS
  <2>0. /\ c \in Conns /\ m \in Cursors(c) /\ n \in Cursors(c) /\ m <= n /\ c \in sealed
        /\ conns[c] = m
        /\ rows' = (rows \ Replaced(c, m, n)) \cup Stored(c, m, n) \cup Upserted(c, m, n)
    BY <1>3, <2>a, AloneIs, PageJob DEF IInv, InHand, Alone, CopyIsCurrent, Apply, AfterPage
  <2>1. s \in Stored(c, m, n) \cup Upserted(c, m, n)
    BY <1>1, <2>0
  <2>2. s.conn = c /\ k \in Keys /\ r \in RowsOf(c, k)
    BY <1>0, <2>0, <2>1, <2>a, StoredIs, UpsertedIs DEF RowsOf, Row
  <2>3. s \in Upserted(c, m, n)
    BY <2>0, <2>1, <2>2, <2>a, StoredIs
  <2>4. s.version = Version(c, n, k) /\ k \in Modified(c, m, n)
    BY <1>0, <2>0, <2>3, <2>a, UpsertedIs
  <2>5. r.version = Version(c, m, k) /\ Version(c, m, k) # 0
    <3>1. c \in Usable
      BY <2>0, BookAssumption DEF Usable, Present, Cursors
    <3>2. {x.version : x \in RowsOf(c, k)} = {Version(c, m, k)} \ {0}
      BY <1>0, <2>0, <2>2, <3>1 DEF SyncedIsCurrent
    <3> QED BY <2>2, <3>2
  <2>6. Version(c, n, k) # 0 /\ Version(c, n, k) # Version(c, m, k)
    BY <2>4 DEF Modified
  <2>7. Version(c, m, k) <= Version(c, n, k)
    BY <2>0, <2>2, <2>5, <2>6, VersionGrows
  <2>8. Version(c, m, k) \in Nat /\ Version(c, n, k) \in Nat
    BY <2>0, <2>2, VersionIsNat
  <2> QED BY <2>4, <2>5, <2>6, <2>7, <2>8
<1>4. ASSUME Restart PROVE FALSE
  BY <1>4 DEF Restart, Restarted
<1>5. rows' # rows
  BY <1>1
<1> QED BY <1>2, <1>3, <1>4, <1>5 DEF Next, vars, Begin, SyncStep, Publish, Link, StartSync, Delete,
        TakeUsable, TakeUnusable, NothingLeft, Fetch, FetchFails, Snapshot, Write, WriteFails

(* If requests do not overlap, a category the user set is replaced only by *)
(* a newer version of the transaction, never by the same one read again.   *)
THEOREM EditsAreKept == Spec => EditsKept
<1>1. IInv /\ SerialInv /\ [Next]_vars =>
        [serial => \A r \in rows, s \in rows' :
           r.edited /\ ~ s.edited /\ r.conn = s.conn /\ r.key = s.key => s.version > r.version]_vars
  BY EditKeptStep
<1> QED BY Invariance, SerialInvariance, <1>1, PTL DEF Spec, EditsKept

-----------------------------------------------------------------------------
-----------------------------------------------------------------------------
(***************************************************************************)
(* Reconciliation.  Nothing is assumed of the scores: the arguments are    *)
(* about the order of the walk and about what it has given away.           *)
(***************************************************************************)

(* A count of open exceptions is a number.                                 *)
LEMMA OpenIsNat ==
  ASSUME NEW f \in [Rows -> Statuses \cup {None}]
  PROVE  Open(f) \in Nat
<1>1. {i \in DOMAIN f : f[i] = "open"} \subseteq Rows
  OBVIOUS
<1>2. IsFiniteSet({i \in DOMAIN f : f[i] = "open"})
  BY <1>1, RowAssumption, FS_Subset
<1> QED BY <1>2, FS_CardinalityType DEF Open

(* So is the number of deposits that are left.                             *)
LEMMA FreeIsNat ==
  ASSUME ReconciliationTypeOK, NEW r \in Runs
  PROVE  Cardinality(Free(r)) \in Nat
<1>1. Free(r) \subseteq Rows
  BY RowAssumption DEF Free, ReconciliationTypeOK, Rows
<1>2. IsFiniteSet(Free(r))
  BY <1>1, RowAssumption, FS_Subset
<1> QED BY <1>2, FS_CardinalityType

LEMMA ReconciliationInvInit == ReconciliationInit => ReconciliationInv
<1> SUFFICES ASSUME ReconciliationInit PROVE ReconciliationInv
  OBVIOUS
<1>1. ReconciliationTypeOK
  BY RowAssumption DEF ReconciliationInit, ReconciliationTypeOK, Statuses
<1>2. AtException
  BY DEF ReconciliationInit, AtException, InTransaction
<1>3. ASSUME NEW r \in Runs PROVE RunInv(r)
  <2>1. run[r] = "new" /\ ~ Walking(r)
    BY DEF ReconciliationInit, Walking
  <2>2. OnceIn(r) /\ FoundNone(r) /\ InOrder(r) /\ NoEnvyIn(r) /\ EveryRowToldBy(r)
    BY <2>1 DEF ReconciliationInit, OnceIn, FoundNone, InOrder, NoEnvyIn, EveryRowToldBy
  <2>3. Told(r)
    BY <2>1 DEF ReconciliationInit, Told
  <2> QED BY <2>2, <2>3 DEF RunInv
<1> QED BY <1>1, <1>2, <1>3 DEF ReconciliationInv

-----------------------------------------------------------------------------
(* Types.                                                                  *)
LEMMA TypeStep == ReconciliationTypeOK /\ AtException /\ [ReconciliationNext]_reconciliationVars => ReconciliationTypeOK'
<1> SUFFICES ASSUME ReconciliationTypeOK, AtException, [ReconciliationNext]_reconciliationVars PROVE ReconciliationTypeOK'
  OBVIOUS
<1> USE RowAssumption DEF Rows
<1>1. ASSUME NEW x \in Rows, Ingest(x) PROVE ReconciliationTypeOK'
  BY <1>1 DEF Ingest, ReconciliationTypeOK, walk, patching
<1>2. ASSUME NEW r \in Runs, RunStep(r) PROVE ReconciliationTypeOK'
  <2>1. CASE ListPayouts(r) \/ ListBankTransactions(r) \/ LockStore(r)
    <3>1. CASE ListPayouts(r)
      BY <3>1 DEF ListPayouts, ReconciliationTypeOK, patching
    <3>2. CASE ListBankTransactions(r)
      BY <3>2 DEF ListBankTransactions, ReconciliationTypeOK, patching
    <3>3. CASE LockStore(r)
      BY <3>3 DEF LockStore, ReconciliationTypeOK, patching
    <3> QED BY <2>1, <3>1, <3>2, <3>3
  <2>2. ASSUME NEW p \in Payouts, NEW b \in Banks, MatchPayout(r, p, b) PROVE ReconciliationTypeOK'
    BY <2>2 DEF MatchPayout, ReconciliationTypeOK, patching
  <2>3. ASSUME NEW p \in Payouts, ExceptPayout(r, p) PROVE ReconciliationTypeOK'
    <3>1. exc' \in [Runs -> [Rows -> Statuses \cup {None}]]
      BY <2>3 DEF ExceptPayout, ReconciliationTypeOK, Statuses
    <3>2. count' \in [Runs -> Nat]
      BY <2>3 DEF ExceptPayout, ReconciliationTypeOK
    <3> QED BY <2>3, <3>1, <3>2 DEF ExceptPayout, ReconciliationTypeOK, patching
  <2>4. CASE Complete(r)
    <3>1. count' \in [Runs -> Nat]
      <4>1. Cardinality(Free(r)) \in Nat
        BY FreeIsNat
      <4> QED BY <2>4, <4>1 DEF Complete, ReconciliationTypeOK
    <3>2. [x \in Rows |-> IF x \in Free(r) THEN "open" ELSE exc[r][x]]
            \in [Rows -> Statuses \cup {None}]
      BY DEF ReconciliationTypeOK, Statuses
    <3> QED BY <2>4, <3>1, <3>2 DEF Complete, ReconciliationTypeOK, walk, patching
  <2>5. CASE FailRun(r)
    BY <2>5 DEF FailRun, ReconciliationTypeOK, patching
  <2> QED BY <1>2, <2>1, <2>2, <2>3, <2>4, <2>5 DEF RunStep
<1>3. ASSUME NEW q \in Patches, PatchStep(q) PROVE ReconciliationTypeOK'
  <2>1. ASSUME NEW r \in Runs, NEW x \in Rows, NEW s \in Statuses, UpdateRow(q, r, x, s)
        PROVE  ReconciliationTypeOK'
    BY <2>1 DEF UpdateRow, ReconciliationTypeOK, walk
  <2>2. CASE CountOpen(q)
    <3> DEFINE seen == [exc[at[q][1]] EXCEPT ![at[q][2]] = want[q]]
    <3>1. at[q] \in Runs \X Rows
      BY <2>2 DEF CountOpen, AtException, InTransaction
    <3>2. Open(seen) \in Nat
      BY <3>1, OpenIsNat DEF ReconciliationTypeOK
    <3> QED BY <2>2, <3>2 DEF CountOpen, ReconciliationTypeOK, walk
  <2>3. CASE WriteCount(q)
    BY <2>3 DEF WriteCount, ReconciliationTypeOK, walk
  <2>4. CASE CommitPatch(q)
    <3>1. at[q] \in Runs \X Rows
      BY <2>4 DEF CommitPatch, AtException, InTransaction
    <3>2. exc' \in [Runs -> [Rows -> Statuses \cup {None}]]
      BY <2>4, <3>1 DEF CommitPatch, ReconciliationTypeOK
    <3>3. count' \in [Runs -> Nat]
      BY <2>4, <3>1 DEF CommitPatch, ReconciliationTypeOK
    <3> QED BY <2>4, <3>2, <3>3 DEF CommitPatch, ReconciliationTypeOK, walk
  <2>5. CASE FailPatch(q)
    BY <2>5 DEF FailPatch, ReconciliationTypeOK, walk
  <2>6. ASSUME NEW r \in Runs, NEW x \in Rows, NEW s \in Statuses, PatchInMemory(q, r, x, s)
        PROVE  ReconciliationTypeOK'
    BY <2>6 DEF PatchInMemory, ReconciliationTypeOK, walk
  <2> QED BY <1>3, <2>1, <2>2, <2>3, <2>4, <2>5, <2>6 DEF PatchStep
<1>4. CASE UNCHANGED reconciliationVars
  BY <1>4 DEF reconciliationVars, ReconciliationTypeOK, walk, patching
<1> QED BY <1>1, <1>2, <1>3, <1>4 DEF ReconciliationNext
-----------------------------------------------------------------------------
(* A run's step leaves the exceptions of finished runs alone, and a PATCH's *)
(* step writes only where there is one.                                    *)
LEMMA AtStep == ReconciliationInv /\ [ReconciliationNext]_reconciliationVars => AtException'
<1> SUFFICES ASSUME ReconciliationInv, [ReconciliationNext]_reconciliationVars, NEW q \in Patches, InTransaction(q)'
             PROVE  (/\ at[q] \in Runs \X Rows
                     /\ run[at[q][1]] = "done"
                     /\ exc[at[q][1]][at[q][2]] # None)'
  BY DEF AtException
<1> USE DEF ReconciliationInv, ReconciliationTypeOK, AtException, InTransaction, patching, walk
<1>1. ASSUME NEW x \in Rows, Ingest(x) PROVE AtException'
  BY <1>1 DEF Ingest
<1>2. ASSUME NEW r \in Runs, RunStep(r) PROVE AtException'
  <2>1. UNCHANGED <<at, patch>> /\ run[r] # "done"
    BY <1>2 DEF RunStep, ListPayouts, ListBankTransactions, LockStore, MatchPayout,
                ExceptPayout, Complete, FailRun
  <2>2. \A o \in Runs \ {r} : run'[o] = run[o] /\ exc'[o] = exc[o]
    BY <1>2 DEF RunStep, ListPayouts, ListBankTransactions, LockStore, MatchPayout,
                ExceptPayout, Complete, FailRun
  <2> QED BY <2>1, <2>2
<1>3. ASSUME NEW o \in Patches, PatchStep(o) PROVE AtException'
  <2>1. CASE CommitPatch(o)
    <3>1. at[o] \in Runs \X Rows /\ want[o] # None
      BY <2>1 DEF CommitPatch, Statuses, None
    <3> QED BY <2>1, <3>1 DEF CommitPatch
  <2>2. ASSUME NEW r \in Runs, NEW x \in Rows, NEW s \in Statuses,
               UpdateRow(o, r, x, s) \/ PatchInMemory(o, r, x, s)
        PROVE  AtException'
    <3>1. CASE UpdateRow(o, r, x, s)
      BY <3>1 DEF UpdateRow
    <3>2. CASE PatchInMemory(o, r, x, s)
      <4>1. s # None
        BY DEF Statuses, None
      <4> QED BY <3>2, <4>1 DEF PatchInMemory
    <3> QED BY <2>2, <3>1, <3>2
  <2>3. CASE CountOpen(o) \/ WriteCount(o) \/ FailPatch(o)
    BY <2>3 DEF CountOpen, WriteCount, FailPatch
  <2> QED BY <1>3, <2>1, <2>2, <2>3 DEF PatchStep
<1>4. CASE UNCHANGED reconciliationVars
  BY <1>4 DEF reconciliationVars
<1> QED BY <1>1, <1>2, <1>3, <1>4 DEF ReconciliationNext
-----------------------------------------------------------------------------
(* RunInv(r) is about the lists and the matches of r, and about which of   *)
(* its rows have an exception, of whatever status.                         *)
LEMMA Frame ==
  ASSUME ReconciliationTypeOK, NEW r \in Runs, RunInv(r),
         deployment' = deployment, run'[r] = run[r], pays'[r] = pays[r], deps'[r] = deps[r],
         todo'[r] = todo[r], match'[r] = match[r],
         \A x \in Rows : exc'[r][x] = None <=> exc[r][x] = None
  PROVE  RunInv(r)'
<1>1. Walked(r) \subseteq Rows /\ deps[r] \subseteq Rows /\ pays[r] \subseteq Rows
  BY RowAssumption DEF ReconciliationTypeOK, Walked, Rows
<1>2. Walked(r)' = Walked(r) /\ Free(r)' = Free(r) /\ Walking(r)' = Walking(r)
  BY DEF Walked, Free, Walking
<1>3. OnceIn(r)' /\ FoundNone(r)' /\ InOrder(r)' /\ NoEnvyIn(r)'
  BY <1>2 DEF OnceIn, FoundNone, InOrder, NoEnvyIn, RunInv, Before, Storage
<1>4. EveryRowToldBy(r)'
  BY <1>1, <1>2 DEF EveryRowToldBy, RunInv
<1>5. Told(r)'
  BY <1>1, <1>2 DEF Told, RunInv, Rows
<1> QED BY <1>3, <1>4, <1>5 DEF RunInv

(* A run starts with nothing walked over.                                  *)
LEMMA StartStep ==
  ASSUME ReconciliationInv, NEW r \in Runs, ListPayouts(r) \/ ListBankTransactions(r) \/ LockStore(r)
  PROVE  RunInv(r)'
<1>1. /\ run[r] \in {"new", "listing"} /\ run'[r] \in {"listing", "matching"}
      /\ match' = match /\ exc' = exc /\ todo'[r] = pays'[r]
  <2> USE DEF ReconciliationInv, ReconciliationTypeOK
  <2>1. CASE ListPayouts(r)
    BY <2>1 DEF ListPayouts
  <2>2. CASE ListBankTransactions(r)
    BY <2>2 DEF ListBankTransactions, RunInv, Told
  <2>3. CASE LockStore(r)
    BY <2>3 DEF LockStore
  <2> QED BY <2>1, <2>2, <2>3
<1>2. (\A p \in Payouts : match[r][p] = None) /\ \A x \in Rows : exc[r][x] = None
  BY <1>1 DEF ReconciliationInv, RunInv, Told
<1>3. Walked(r)' = {} /\ run'[r] # "done"
  BY <1>1 DEF Walked
<1>4. Told(r)'
  BY <1>1, <1>2, <1>3 DEF Told, Rows
<1>5. OnceIn(r)' /\ EveryRowToldBy(r)'
  BY <1>1, <1>2, <1>3 DEF OnceIn, EveryRowToldBy
<1>6. FoundNone(r)' /\ InOrder(r)' /\ NoEnvyIn(r)'
  BY <1>3 DEF FoundNone, InOrder, NoEnvyIn
<1> QED BY <1>4, <1>5, <1>6 DEF RunInv

(* The matched deposit was free, and is free no more.                      *)
LEMMA MatchStep ==
  ASSUME ReconciliationInv, NEW r \in Runs, NEW p \in Payouts, NEW b \in Banks, MatchPayout(r, p, b)
  PROVE  RunInv(r)'
<1>1. /\ run[r] = "matching" /\ p \in todo[r] /\ b \in Free(r) /\ Good(p, b)
      /\ \A x \in todo[r] : Before(p, x)
      /\ \A c \in Free(r) : Score(p, b) >= Score(p, c)
      /\ UNCHANGED <<deployment, run, pays, deps, exc>>
  BY DEF MatchPayout, First, Best
<1>2. /\ match'[r] = [match[r] EXCEPT ![p] = b]
      /\ todo'[r] = todo[r] \ {p}
  BY DEF MatchPayout, ReconciliationInv, ReconciliationTypeOK
<1>3. /\ RunInv(r) /\ Told(r) /\ todo[r] \subseteq pays[r] /\ Walking(r) /\ p \notin Walked(r)
      /\ match[r][p] = None /\ exc[r][p] = None /\ b # None /\ b \in deps[r]
      /\ match[r] \in [Payouts -> Banks \cup {None}]
      /\ pays[r] \subseteq Payouts
  BY <1>1, RowAssumption DEF ReconciliationInv, ReconciliationTypeOK, RunInv, Told, Walking, Walked, Free, Rows
<1>4. match'[r][p] = b /\ \A x \in Payouts \ {p} : match'[r][x] = match[r][x]
  BY <1>2, <1>3
<1>5. Walked(r)' = Walked(r) \cup {p}
  BY <1>1, <1>2, <1>3 DEF Walked
<1>6. Free(r)' = Free(r) \ {b}
  <2>1. deps'[r] = deps[r] /\ None \notin deps[r]
    BY <1>1, RowAssumption DEF ReconciliationInv, ReconciliationTypeOK, Rows
  <2>2. ASSUME NEW c \in Free(r)' PROVE c \in Free(r) \ {b}
    BY <1>3, <1>4, <2>1, <2>2 DEF Free
  <2>3. ASSUME NEW c \in Free(r) \ {b} PROVE c \in Free(r)'
    BY <1>4, <2>1, <2>3 DEF Free
  <2> QED BY <2>2, <2>3
<1>7. Told(r)'
  BY <1>1, <1>2, <1>3, <1>4, <1>5 DEF Told, Walking, Walked
<1>8. OnceIn(r)'
  BY <1>1, <1>3, <1>4 DEF OnceIn, Free, RunInv
<1>9. FoundNone(r)'
  <2> SUFFICES ASSUME NEW x \in Walked(r)', NEW c \in Free(r)', match'[r][x] = None
               PROVE  ~ Good(x, c)
    BY <1>1 DEF FoundNone, Good, Score
  <2>1. x \in Walked(r) /\ match[r][x] = None /\ c \in Free(r)
    BY <1>3, <1>4, <1>5, <1>6 DEF Walked
  <2> QED BY <1>3, <2>1 DEF RunInv, FoundNone
<1>10. EveryRowToldBy(r)'
  BY <1>1 DEF EveryRowToldBy
<1>11. InOrder(r)'
  BY <1>1, <1>2, <1>3, <1>5 DEF InOrder, RunInv, Before, Storage, Walking
<1>12. NoEnvyIn(r)'
  <2> SUFFICES ASSUME NEW x \in Walked(r)', NEW c \in deps[r], match'[r][x] # None,
                      ~ (Score(x, match'[r][x]) >= Score(x, c))
               PROVE  \E y \in Walked(r)' : match'[r][y] = c /\ Before(y, x)
    BY <1>1 DEF NoEnvyIn, Before, Storage, Score, AmountScore, DateScore, DescriptionScore
  <2>1. CASE x = p
    <3>1. c \notin Free(r)
      BY <1>1, <1>4, <2>1
    <3>2. PICK y \in Payouts : match[r][y] = c
      BY <3>1 DEF Free
    <3>3. y \in Walked(r)
      BY <1>3, <3>2, RowAssumption DEF Told, ReconciliationInv, ReconciliationTypeOK, Rows
    <3>4. Before(y, p) /\ y # p
      BY <1>1, <1>3, <3>3 DEF RunInv, InOrder
    <3> QED BY <1>3, <1>4, <1>5, <2>1, <3>2, <3>3, <3>4 DEF Walked
  <2>2. CASE x # p
    <3>1. x \in Walked(r) /\ x \in Payouts /\ match'[r][x] = match[r][x]
      BY <1>3, <1>4, <1>5, <2>2 DEF Walked
    <3>2. PICK y \in Walked(r) : match[r][y] = c /\ Before(y, x)
      BY <1>3, <3>1 DEF RunInv, NoEnvyIn
    <3>3. y # p /\ y \in Payouts
      BY <1>3, <3>2 DEF Walked
    <3> QED BY <1>4, <1>5, <3>2, <3>3
  <2> QED BY <2>1, <2>2
<1> QED BY <1>7, <1>8, <1>9, <1>10, <1>11, <1>12 DEF RunInv

(* A payout without a good deposit becomes an exception.                   *)
LEMMA ExceptStep ==
  ASSUME ReconciliationInv, NEW r \in Runs, NEW p \in Payouts, ExceptPayout(r, p)
  PROVE  RunInv(r)'
<1>1. /\ run[r] = "matching" /\ p \in todo[r]
      /\ \A x \in todo[r] : Before(p, x)
      /\ \A c \in Free(r) : ~ Good(p, c)
      /\ UNCHANGED <<deployment, run, pays, deps, match>>
  BY DEF ExceptPayout, First
<1>2. /\ exc'[r] = [exc[r] EXCEPT ![p] = "open"]
      /\ todo'[r] = todo[r] \ {p}
  BY DEF ExceptPayout, ReconciliationInv, ReconciliationTypeOK
<1>3. /\ RunInv(r) /\ Told(r) /\ todo[r] \subseteq pays[r] /\ Walking(r)
      /\ match[r][p] = None /\ p \in Rows /\ p \notin Banks
      /\ exc[r] \in [Rows -> Statuses \cup {None}]
      /\ pays[r] \subseteq Payouts
  BY <1>1, RowAssumption DEF ReconciliationInv, ReconciliationTypeOK, RunInv, Told, Walking, Walked, Rows
<1>4. exc'[r][p] # None /\ \A x \in Rows \ {p} : exc'[r][x] = exc[r][x]
  BY <1>2, <1>3 DEF None
<1>5. Walked(r)' = Walked(r) \cup {p} /\ Free(r)' = Free(r)
  BY <1>1, <1>2, <1>3 DEF Walked, Free
<1>6. Told(r)'
  BY <1>1, <1>2, <1>3, <1>4, <1>5 DEF Told, Walking, Walked, Rows
<1>7. OnceIn(r)' /\ EveryRowToldBy(r)'
  BY <1>1, <1>3 DEF OnceIn, EveryRowToldBy, RunInv
<1>8. FoundNone(r)'
  BY <1>1, <1>3, <1>5 DEF FoundNone, RunInv, Walking
<1>9. InOrder(r)'
  BY <1>1, <1>2, <1>3, <1>5 DEF InOrder, RunInv, Before, Storage, Walking
<1>10. NoEnvyIn(r)'
  <2> SUFFICES ASSUME NEW x \in Walked(r)', NEW c \in deps[r], match[r][x] # None,
                      ~ (Score(x, match[r][x]) >= Score(x, c))
               PROVE  \E y \in Walked(r)' : match[r][y] = c /\ Before(y, x)
    BY <1>1 DEF NoEnvyIn, Before, Storage, Score, AmountScore, DateScore, DescriptionScore
  <2>1. x \in Walked(r)
    BY <1>3, <1>5
  <2>2. PICK y \in Walked(r) : match[r][y] = c /\ Before(y, x)
    BY <1>3, <2>1 DEF RunInv, NoEnvyIn
  <2> QED BY <1>5, <2>2
<1> QED BY <1>6, <1>7, <1>8, <1>9, <1>10 DEF RunInv

(* At the end the deposits that are left become exceptions.                *)
LEMMA CompleteStep ==
  ASSUME ReconciliationInv, NEW r \in Runs, Complete(r)
  PROVE  RunInv(r)'
<1>1. /\ run[r] = "matching" /\ run'[r] = "done" /\ todo[r] = {}
      /\ UNCHANGED <<deployment, pays, deps, todo, match>>
      /\ exc'[r] = [x \in Rows |-> IF x \in Free(r) THEN "open" ELSE exc[r][x]]
  BY DEF Complete, walk, ReconciliationInv, ReconciliationTypeOK
<1>2. /\ RunInv(r) /\ Told(r) /\ Walking(r) /\ Walking(r)'
      /\ pays[r] \subseteq Payouts /\ deps[r] \subseteq Banks
      /\ \A p \in Payouts : p \in Rows /\ p \notin Free(r)
      /\ Free(r) \subseteq deps[r]
  BY <1>1, RowAssumption DEF ReconciliationInv, ReconciliationTypeOK, RunInv, Walking, Free, Rows
<1>3. Walked(r) = pays[r] /\ Walked(r)' = Walked(r) /\ Free(r)' = Free(r)
  BY <1>1 DEF Walked, Free
<1>4. \A p \in Payouts : exc'[r][p] = exc[r][p]
  BY <1>1, <1>2
<1>5. Told(r)'
  BY <1>1, <1>2, <1>3, <1>4 DEF Told
<1>6. OnceIn(r)' /\ FoundNone(r)' /\ InOrder(r)' /\ NoEnvyIn(r)'
  BY <1>1, <1>2, <1>3 DEF OnceIn, FoundNone, InOrder, NoEnvyIn, RunInv, Before, Storage
<1>7. EveryRowToldBy(r)'
  <2>1. \A p \in pays[r] : match[r][p] # None <=> exc'[r][p] = None
    BY <1>2, <1>3, <1>4 DEF Told
  <2>2. \A b \in deps[r] : b \notin Free(r) <=> exc'[r][b] = None
    BY <1>1, <1>2 DEF Told, Rows, None
  <2>3. \A x \in Rows \ (pays[r] \cup deps[r]) : exc'[r][x] = None
    BY <1>1, <1>2, <1>3 DEF Told, Rows
  <2> QED BY <1>1, <1>3, <2>1, <2>2, <2>3 DEF EveryRowToldBy
<1> QED BY <1>5, <1>6, <1>7 DEF RunInv

(* A run that fails has written nothing.                                   *)
LEMMA FailStep ==
  ASSUME ReconciliationInv, NEW r \in Runs, FailRun(r)
  PROVE  RunInv(r)'
<1>1. /\ run'[r] = "failed" /\ todo'[r] = todo[r] /\ pays'[r] = pays[r]
      /\ match'[r] = [p \in Payouts |-> None] /\ exc'[r] = [x \in Rows |-> None]
  BY DEF FailRun, ReconciliationInv, ReconciliationTypeOK
<1>2. Told(r)' /\ OnceIn(r)'
  BY <1>1 DEF Told, OnceIn, Walking, ReconciliationInv, RunInv
<1>3. FoundNone(r)' /\ InOrder(r)' /\ NoEnvyIn(r)' /\ EveryRowToldBy(r)'
  BY <1>1 DEF FoundNone, InOrder, NoEnvyIn, EveryRowToldBy, Walking
<1> QED BY <1>2, <1>3 DEF RunInv

(* A step of one run keeps the invariant of every run.                     *)
LEMMA RunStepKeeps ==
  ASSUME ReconciliationInv, NEW r \in Runs, RunStep(r), NEW o \in Runs
  PROVE  RunInv(o)'
<1>1. CASE o = r
  BY <1>1, StartStep, MatchStep, ExceptStep, CompleteStep, FailStep DEF RunStep
<1>2. CASE o # r
  <2>1. /\ deployment' = deployment /\ run'[o] = run[o] /\ pays'[o] = pays[o] /\ deps'[o] = deps[o]
        /\ todo'[o] = todo[o] /\ match'[o] = match[o] /\ exc'[o] = exc[o]
    BY <1>2 DEF RunStep, ListPayouts, ListBankTransactions, LockStore, MatchPayout,
                ExceptPayout, Complete, FailRun, ReconciliationInv, ReconciliationTypeOK, walk
  <2> QED BY <2>1, Frame DEF ReconciliationInv
<1> QED BY <1>1, <1>2

(* A PATCH turns an exception into an exception.                           *)
LEMMA PatchStepKeeps ==
  ASSUME ReconciliationInv, NEW q \in Patches, PatchStep(q), NEW o \in Runs
  PROVE  RunInv(o)'
<1>1. UNCHANGED <<deployment, run, walk>>
  BY DEF PatchStep, UpdateRow, CountOpen, WriteCount, CommitPatch, FailPatch, PatchInMemory
<1>2. \A x \in Rows : exc'[o][x] = None <=> exc[o][x] = None
  <2>1. CASE CommitPatch(q)
    <3>1. PICK r \in Runs, x \in Rows : at[q] = <<r, x>> /\ exc[r][x] # None
      BY <2>1 DEF CommitPatch, ReconciliationInv, AtException, InTransaction
    <3>2. want[q] # None
      BY DEF ReconciliationInv, ReconciliationTypeOK, Statuses, None
    <3>3. exc' = [exc EXCEPT ![r][x] = want[q]]
      BY <2>1, <3>1 DEF CommitPatch
    <3> QED BY <3>1, <3>2, <3>3 DEF ReconciliationInv, ReconciliationTypeOK
  <2>2. ASSUME NEW r \in Runs, NEW x \in Rows, NEW s \in Statuses, PatchInMemory(q, r, x, s)
        PROVE  \A y \in Rows : exc'[o][y] = None <=> exc[o][y] = None
    <3>1. s # None
      BY DEF Statuses, None
    <3> QED BY <2>2, <3>1 DEF PatchInMemory, ReconciliationInv, ReconciliationTypeOK
  <2>3. CASE ~ CommitPatch(q) /\ exc' = exc
    BY <2>3
  <2> QED BY <2>1, <2>2, <2>3 DEF PatchStep, UpdateRow, CountOpen, WriteCount, FailPatch
<1> QED BY <1>1, <1>2, Frame DEF ReconciliationInv, walk

(* ReconciliationInv is inductive.                                         *)
THEOREM ReconciliationInvariance == ReconciliationSpec => []ReconciliationInv
<1>1. ReconciliationInv /\ [ReconciliationNext]_reconciliationVars => ReconciliationInv'
  <2> SUFFICES ASSUME ReconciliationInv, [ReconciliationNext]_reconciliationVars PROVE ReconciliationInv'
    OBVIOUS
  <2>1. ReconciliationTypeOK' /\ AtException'
    BY TypeStep, AtStep DEF ReconciliationInv
  <2>2. ASSUME NEW o \in Runs PROVE RunInv(o)'
    <3>1. CASE \E r \in Runs : RunStep(r)
      BY <3>1, RunStepKeeps
    <3>2. CASE \E q \in Patches : PatchStep(q)
      BY <3>2, PatchStepKeeps
    <3>3. CASE (\E x \in Rows : Ingest(x)) \/ UNCHANGED reconciliationVars
      <4>1. UNCHANGED <<deployment, run, walk, exc>>
        BY <3>3 DEF Ingest, reconciliationVars
      <4> QED BY <4>1, Frame DEF ReconciliationInv, walk
    <3> QED BY <3>1, <3>2, <3>3 DEF ReconciliationNext
  <2> QED BY <2>1, <2>2 DEF ReconciliationInv
<1> QED BY <1>1, ReconciliationInvInit, PTL DEF ReconciliationSpec

(* Whatever runs, PATCHes, syncs and failures there are, a finished run    *)
(* has told what became of every payout and deposit it listed, once.       *)
THEOREM Accounted == ReconciliationSpec => []RowsAreAccounted
<1>1. ReconciliationInv => RowsAreAccounted
  BY DEF ReconciliationInv, RunInv, RowsAreAccounted
<1> QED BY <1>1, ReconciliationInvariance, PTL

(* The greedy walk of Reconcile ends in a maximal matching: no payout and  *)
(* deposit that score enough for each other are both left over.            *)
THEOREM Maximality == ReconciliationSpec => []NothingMissed
<1>1. ReconciliationInv => NothingMissed
  <2> SUFFICES ASSUME ReconciliationInv, NEW r \in Runs, run[r] = "done",
                      NEW p \in pays[r], NEW b \in Free(r), match[r][p] = None
               PROVE  ~ Good(p, b)
    BY DEF NothingMissed
  <2>1. Walking(r) /\ p \in Walked(r)
    BY DEF Walking, Walked, ReconciliationInv, RunInv, Told
  <2> QED BY <2>1 DEF ReconciliationInv, RunInv, FoundNone
<1> QED BY <1>1, ReconciliationInvariance, PTL

(* A payout gets less than its best deposit only when that deposit went to *)
(* a payout that the list puts no later.                                   *)
THEOREM Envyless == ReconciliationSpec => []NoEnvy
<1>1. ReconciliationInv => NoEnvy
  BY DEF ReconciliationInv, RunInv, NoEnvy
<1> QED BY <1>1, ReconciliationInvariance, PTL
-----------------------------------------------------------------------------
(* The count of a run, for PATCHes one after the other over Postgres.      *)
OpenIn(f) == {i \in DOMAIN f : f[i] = "open"}

LEMMA OpenIsFinite ==
  ASSUME NEW f \in [Rows -> Statuses \cup {None}]
  PROVE  OpenIn(f) \subseteq Rows /\ IsFiniteSet(OpenIn(f)) /\ Open(f) = Cardinality(OpenIn(f))
<1>1. OpenIn(f) \subseteq Rows
  BY DEF OpenIn
<1> QED BY <1>1, RowAssumption, FS_Subset DEF Open, OpenIn

(* An exception more is one more to count, ...                             *)
LEMMA OneMore ==
  ASSUME NEW f \in [Rows -> Statuses \cup {None}], NEW x \in Rows, f[x] # "open"
  PROVE  Open([f EXCEPT ![x] = "open"]) = Open(f) + 1
<1> DEFINE g == [f EXCEPT ![x] = "open"]
<1>1. g \in [Rows -> Statuses \cup {None}]
  BY DEF Statuses
<1>2. OpenIn(g) = OpenIn(f) \cup {x} /\ x \notin OpenIn(f)
  BY DEF OpenIn
<1> HIDE DEF g
<1>3. Cardinality(OpenIn(f) \cup {x}) = Cardinality(OpenIn(f)) + 1
  BY <1>2, OpenIsFinite, FS_AddElement
<1>4. Open(g) = Open(f) + 1
  BY <1>1, <1>2, <1>3, OpenIsFinite
<1> QED BY <1>4 DEF g

(* ... and so is each deposit that is left.                                *)
LEMMA ManyMore ==
  ASSUME NEW f \in [Rows -> Statuses \cup {None}], NEW S, S \subseteq Rows, \A x \in S : f[x] = None
  PROVE  Open([x \in Rows |-> IF x \in S THEN "open" ELSE f[x]]) = Open(f) + Cardinality(S)
<1> DEFINE g == [x \in Rows |-> IF x \in S THEN "open" ELSE f[x]]
<1>1. g \in [Rows -> Statuses \cup {None}]
  BY DEF Statuses
<1>2. OpenIn(g) = OpenIn(f) \cup S /\ OpenIn(f) \cap S = {}
  BY DEF OpenIn, None
<1> HIDE DEF g
<1>3. IsFiniteSet(S) /\ IsFiniteSet(OpenIn(f))
  BY OpenIsFinite, RowAssumption, FS_Subset
<1>4. Cardinality(OpenIn(f) \cup S) = Cardinality(OpenIn(f)) + Cardinality(S) - Cardinality(OpenIn(f) \cap S)
  BY <1>3, FS_Union
<1>5. Cardinality(OpenIn(f) \cap S) = 0
  BY <1>2, FS_EmptySet
<1>6. Cardinality(OpenIn(f)) \in Nat /\ Cardinality(S) \in Nat
  BY <1>3, FS_CardinalityType
<1>7. Open(g) = Cardinality(OpenIn(f) \cup S) /\ Open(f) = Cardinality(OpenIn(f))
  BY <1>1, <1>2, OpenIsFinite
<1>8. Open(g) = Open(f) + Cardinality(S)
  BY <1>4, <1>5, <1>6, <1>7
<1> QED BY <1>8 DEF g

LEMMA NoneIsOpen == Open([x \in Rows |-> None]) = 0
<1> DEFINE f == [x \in Rows |-> None]
<1>1. f \in [Rows -> Statuses \cup {None}] /\ OpenIn(f) = {}
  BY DEF OpenIn, None
<1> HIDE DEF f
<1>2. Open(f) = 0
  BY <1>1, OpenIsFinite, FS_EmptySet
<1> QED BY <1>2 DEF f

LEMMA InitCountInv == ReconciliationInit => CountInv
<1> SUFFICES ASSUME ReconciliationInit PROVE CountInv
  OBVIOUS
<1>1. \A r \in Runs : count[r] = Open(exc[r])
  BY NoneIsOpen DEF ReconciliationInit
<1> QED BY <1>1 DEF ReconciliationInit, CountInv, InTransaction

(* A run's step counts what it writes; it is not a finished run, so no     *)
(* PATCH has counted its exceptions.                                       *)
LEMMA CountRunStep ==
  ASSUME ReconciliationInv, CountInv, Storage = "postgres", Serial, NEW r \in Runs, RunStep(r)
  PROVE  CountInv'
<1>1. /\ \A q, o \in Patches : InTransaction(q) /\ InTransaction(o) => q = o
      /\ \A q \in Patches : patch[q] \in {"counted", "written"} => saw[q] = Counted(q)
      /\ \A o \in Runs : count[o] = Open(exc[o])
  BY DEF CountInv
<1>2. /\ UNCHANGED <<deployment, patching>> /\ run[r] # "done"
      /\ \A o \in Runs \ {r} : count'[o] = count[o] /\ exc'[o] = exc[o]
  BY DEF RunStep, ListPayouts, ListBankTransactions, LockStore, MatchPayout, ExceptPayout, Complete,
         FailRun, ReconciliationInv, ReconciliationTypeOK
<1>3. \A q \in Patches : patch[q] \in {"counted", "written"} => at[q][1] \in Runs \ {r}
  BY <1>2 DEF ReconciliationInv, AtException, InTransaction
<1>4. \A q \in Patches : patch'[q] \in {"counted", "written"} => saw'[q] = Counted(q)'
  BY <1>1, <1>2, <1>3 DEF Counted, patching
<1>5. count'[r] = Open(exc'[r])
  <2>0. exc[r] \in [Rows -> Statuses \cup {None}] /\ count[r] = Open(exc[r]) /\ count[r] \in Nat
    BY <1>1 DEF ReconciliationInv, ReconciliationTypeOK
  <2>1. ASSUME NEW p \in Payouts, ExceptPayout(r, p) PROVE count'[r] = Open(exc'[r])
    <3>1. exc[r][p] = None /\ p \in Rows
      BY <2>1 DEF ExceptPayout, First, ReconciliationInv, RunInv, Told, Walking, Walked, Rows
    <3>2. count'[r] = count[r] + 1 /\ exc'[r] = [exc[r] EXCEPT ![p] = "open"]
      BY <2>1 DEF ExceptPayout, ReconciliationInv, ReconciliationTypeOK
    <3> QED BY <2>0, <3>1, <3>2, OneMore DEF None
  <2>2. CASE Complete(r)
    <3>1. /\ Free(r) \subseteq Rows
          /\ \A b \in Free(r) : exc[r][b] = None
      BY <2>2, RowAssumption DEF Complete, Free, ReconciliationInv, ReconciliationTypeOK, RunInv, Told, Rows
    <3>2. /\ count'[r] = count[r] + Cardinality(Free(r))
          /\ exc'[r] = [x \in Rows |-> IF x \in Free(r) THEN "open" ELSE exc[r][x]]
      BY <2>2 DEF Complete, ReconciliationInv, ReconciliationTypeOK
    <3> QED BY <2>0, <3>1, <3>2, ManyMore
  <2>3. CASE FailRun(r)
    <3>1. count'[r] = 0 /\ exc'[r] = [x \in Rows |-> None]
      BY <2>3 DEF FailRun, ReconciliationInv, ReconciliationTypeOK
    <3> QED BY <3>1, NoneIsOpen
  <2>4. CASE UNCHANGED <<exc, count>>
    BY <1>1, <2>4
  <2> QED BY <2>1, <2>2, <2>3, <2>4
          DEF RunStep, ListPayouts, ListBankTransactions, LockStore, MatchPayout
<1> QED BY <1>1, <1>2, <1>4, <1>5 DEF CountInv, InTransaction, patching, Storage, Serial

(* Alone in its transaction, a PATCH commits what it counted.              *)
LEMMA CountPatchStep ==
  ASSUME ReconciliationInv, CountInv, Storage = "postgres", Serial, NEW q \in Patches, PatchStep(q)
  PROVE  CountInv'
<1>1. /\ \A p, o \in Patches : InTransaction(p) /\ InTransaction(o) => p = o
      /\ \A o \in Patches : patch[o] \in {"counted", "written"} => saw[o] = Counted(o)
      /\ \A o \in Runs : count[o] = Open(exc[o])
  BY DEF CountInv
<1>2. \A o \in Patches : InTransaction(o) => o = q
  BY <1>1 DEF PatchStep, UpdateRow, CountOpen, WriteCount, CommitPatch, FailPatch, PatchInMemory,
              InTransaction
<1>3. /\ deployment' = deployment
      /\ \A o \in Patches \ {q} : patch'[o] = patch[o]
  BY DEF PatchStep, UpdateRow, CountOpen, WriteCount, CommitPatch, FailPatch, PatchInMemory, ReconciliationInv, ReconciliationTypeOK
<1>4. \A p, o \in Patches : InTransaction(p)' /\ InTransaction(o)' => p = o
  BY <1>2, <1>3 DEF InTransaction
<1>5. \A o \in Patches \ {q} : patch'[o] \notin {"counted", "written"}
  BY <1>2, <1>3 DEF InTransaction
<1>6. /\ patch'[q] \in {"counted", "written"} => saw'[q] = Counted(q)'
      /\ \A r \in Runs : count'[r] = Open(exc'[r])
  <2>1. ASSUME NEW r \in Runs, NEW x \in Rows, NEW s \in Statuses, UpdateRow(q, r, x, s)
        PROVE  patch'[q] = "updated" /\ UNCHANGED <<exc, count>>
    BY <2>1 DEF UpdateRow, ReconciliationInv, ReconciliationTypeOK
  <2>2. CASE CountOpen(q)
    <3>1. saw'[q] = Counted(q) /\ UNCHANGED <<exc, count, at, want>>
      BY <2>2 DEF CountOpen, Counted, ReconciliationInv, ReconciliationTypeOK
    <3> QED BY <1>1, <3>1 DEF Counted
  <2>3. CASE WriteCount(q)
    <3>1. UNCHANGED <<exc, count, at, want, saw>> /\ patch[q] = "counted"
      BY <2>3 DEF WriteCount
    <3> QED BY <1>1, <3>1 DEF Counted
  <2>4. CASE CommitPatch(q)
    <3>1. PICK r \in Runs, x \in Rows : at[q] = <<r, x>>
      BY <2>4 DEF CommitPatch, ReconciliationInv, AtException, InTransaction
    <3>2. saw[q] = Open([exc[r] EXCEPT ![x] = want[q]])
      BY <1>1, <2>4, <3>1 DEF CommitPatch, Counted
    <3>3. \A o \in Runs : exc'[o] = IF o = r THEN [exc[r] EXCEPT ![x] = want[q]] ELSE exc[o]
      BY <2>4, <3>1 DEF CommitPatch, ReconciliationInv, ReconciliationTypeOK
    <3>4. patch'[q] = "done" /\ \A o \in Runs : count'[o] = IF o = r THEN saw[q] ELSE count[o]
      BY <2>4, <3>1 DEF CommitPatch, ReconciliationInv, ReconciliationTypeOK
    <3> QED BY <1>1, <3>2, <3>3, <3>4
  <2>5. CASE FailPatch(q)
    <3>1. patch'[q] = "done" /\ UNCHANGED <<exc, count>>
      BY <2>5 DEF FailPatch, ReconciliationInv, ReconciliationTypeOK
    <3> QED BY <1>1, <3>1
  <2>6. \A r \in Runs, x \in Rows, s \in Statuses : ~ PatchInMemory(q, r, x, s)
    BY DEF PatchInMemory
  <2> QED BY <1>1, <2>1, <2>2, <2>3, <2>4, <2>5, <2>6 DEF PatchStep
<1> QED BY <1>3, <1>4, <1>5, <1>6 DEF CountInv

LEMMA CountInvStep == ReconciliationInv /\ CountInv /\ [ReconciliationNext]_reconciliationVars => CountInv'
<1> SUFFICES ASSUME ReconciliationInv, CountInv, [ReconciliationNext]_reconciliationVars PROVE CountInv'
  OBVIOUS
<1>1. deployment' = deployment
  BY DEF ReconciliationNext, Ingest, RunStep, ListPayouts, ListBankTransactions, LockStore, MatchPayout,
         ExceptPayout, Complete, FailRun, PatchStep, UpdateRow, CountOpen, WriteCount, CommitPatch,
         FailPatch, PatchInMemory, reconciliationVars
<1>2. CASE ~ (Storage = "postgres" /\ Serial)
  BY <1>1, <1>2 DEF CountInv, Storage, Serial
<1>3. CASE Storage = "postgres" /\ Serial
  <2>1. ASSUME UNCHANGED <<deployment, exc, count, patching>> PROVE CountInv'
    BY <1>3, <2>1 DEF CountInv, InTransaction, Counted, patching, Storage, Serial
  <2> QED BY <1>3, <2>1, CountRunStep, CountPatchStep DEF ReconciliationNext, Ingest, reconciliationVars
<1> QED BY <1>2, <1>3

(* Over Postgres the exception_count of a finished run is the number of    *)
(* its open exceptions, after any PATCHes that come one after the other,   *)
(* those that fail half way included.                                      *)
THEOREM CountsAreOpen == ReconciliationSpec => []CountIsOpen
<1>1. CountInv => CountIsOpen
  BY DEF CountInv, CountIsOpen
<1> QED BY <1>1, ReconciliationInvariance, ReconciliationInvInit, InitCountInv, CountInvStep, PTL DEF ReconciliationSpec
=============================================================================
