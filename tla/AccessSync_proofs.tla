-------------------------- MODULE AccessSync_proofs --------------------------
(***************************************************************************)
(* Proofs about the synchronisation of the snapshot, for any lists, sizes  *)
(* of a page and overlapping runs: a run that nothing interfered with      *)
(* leaves exactly TradingView's list.                                      *)
(***************************************************************************)
EXTENDS AccessSync, FiniteSetTheorems, WellFoundedInduction, TLAPS

-----------------------------------------------------------------------------
(* Pages of a list.  The list is cut by time of creation, and either form  *)
(* of a cursor continues where the last page ended.                        *)

Entries == [user : Users, end : Ends, created : Nat]

\* A list: one entry of a user, no two created at the same time.
Lists == {R \in SUBSET Entries :
             /\ IsFiniteSet(R)
             /\ \A x, y \in R : x.user = y.user \/ x.created = y.created => x = y}

Since(R, time) == {x \in R : x.created >= time}
RangeOf(seq) == {seq[i] : i \in DOMAIN seq}
Injective(seq) == \A i, j \in DOMAIN seq : seq[i] = seq[j] => i = j

LEMMA RankType ==
    ASSUME NEW R \in Lists, NEW x \in R
    PROVE  Newer(R, x) \in Nat /\ Newer(R, x) < Cardinality(R)
<1> DEFINE N == {y \in R : y.created > x.created}
<1>1. IsFiniteSet(R) /\ N \in SUBSET R /\ x \notin N /\ x.created \in Nat
  BY DEF Lists, Entries
<1>2. IsFiniteSet(N) /\ Cardinality(N) <= Cardinality(R) /\ (Cardinality(R) = Cardinality(N) => R = N)
  BY <1>1, FS_Subset
<1>3. Cardinality(N) \in Nat /\ Cardinality(R) \in Nat
  BY <1>1, <1>2, FS_CardinalityType
<1> QED BY <1>1, <1>2, <1>3 DEF Newer

LEMMA RankOrder ==
    ASSUME NEW R \in Lists, NEW x \in R, NEW z \in R
    PROVE  /\ x.created < z.created <=> Newer(R, z) < Newer(R, x)
           /\ Newer(R, x) = Newer(R, z) => x = z
<1>1. ASSUME NEW a \in R, NEW b \in R, a.created < b.created
      PROVE  Newer(R, b) < Newer(R, a)
  <2> DEFINE A == {y \in R : y.created > a.created}
             B == {y \in R : y.created > b.created}
  <2>1. a.created \in Nat /\ b.created \in Nat /\ \A y \in R : y.created \in Nat
    BY DEF Lists, Entries
  <2>2. A \in SUBSET R /\ B \in SUBSET A /\ b \in A /\ b \notin B
    BY <1>1, <2>1
  <2>3. IsFiniteSet(A)
    BY <2>2, FS_Subset DEF Lists
  <2>4. IsFiniteSet(B) /\ Cardinality(B) <= Cardinality(A) /\ (Cardinality(A) = Cardinality(B) => A = B)
    BY <2>2, <2>3, FS_Subset
  <2>5. Cardinality(A) \in Nat /\ Cardinality(B) \in Nat
    BY <2>3, <2>4, FS_CardinalityType
  <2> QED BY <2>2, <2>4, <2>5 DEF Newer
<1>2. /\ x.created \in Nat /\ z.created \in Nat /\ (x.created = z.created => x = z)
      /\ Newer(R, x) \in Nat /\ Newer(R, z) \in Nat
  BY RankType DEF Lists, Entries
<1>3. x.created < z.created \/ z.created < x.created \/ x = z
  BY <1>2
<1> QED BY <1>1, <1>2, <1>3

\* A page has the newest entries of what is left, each of them once.
LEMMA PageIs ==
    ASSUME NEW R \in Lists, NEW page \in Pages(R)
    PROVE  /\ page \in Seq(R) /\ Injective(page) /\ Len(page) \in Nat
           /\ RangeOf(page) = {x \in R : Newer(R, x) < PageSize}
           /\ Len(page) = Cardinality(RangeOf(page))
           /\ Len(page) > 0 => RangeOf(page) = Since(R, page[Len(page)].created)
<1> DEFINE top == {x \in R : Newer(R, x) < PageSize}
<1>1. /\ page \in Seq(R) /\ Len(page) \in Nat /\ DOMAIN page = 1 .. Len(page)
      /\ Len(page) = Cardinality(top)
      /\ \A i \in DOMAIN page : page[i] \in top /\ Newer(R, page[i]) = i - 1
  <2>1. PICK n \in 0 .. PageSize : page \in [1 .. n -> R]
    BY DEF Pages
  <2>2. IsPage(page, R)
    BY DEF Pages
  <2>3. page \in Seq(R) /\ Len(page) = n /\ DOMAIN page = 1 .. n
    BY <2>1, SizeAssumption
  <2> QED BY <2>2, <2>3, SizeAssumption DEF IsPage
<1>2. Injective(page)
  BY <1>1 DEF Injective
<1>3. ASSUME NEW x \in top PROVE Newer(R, x) \in Nat /\ Newer(R, x) < Cardinality(top)
  <2> DEFINE N == {y \in R : y.created > x.created}
  <2>1. \A y \in N : y \in top
    BY <1>3, RankType, RankOrder, SizeAssumption
  <2>2. x \notin N /\ N \in SUBSET top
    BY <2>1 DEF Lists, Entries
  <2>3. IsFiniteSet(top)
    BY FS_Subset DEF Lists
  <2>4. IsFiniteSet(N) /\ Cardinality(N) <= Cardinality(top) /\ (Cardinality(top) = Cardinality(N) => top = N)
    BY <2>2, <2>3, FS_Subset
  <2>5. Cardinality(N) \in Nat /\ Cardinality(top) \in Nat
    BY <2>3, <2>4, FS_CardinalityType
  <2> QED BY <1>3, <2>2, <2>4, <2>5 DEF Newer
<1>4. ASSUME NEW x \in top PROVE \E i \in DOMAIN page : page[i] = x
  <2> DEFINE i == Newer(R, x) + 1
  <2>1. i \in DOMAIN page /\ Newer(R, page[i]) = Newer(R, x)
    BY <1>1, <1>3
  <2>2. page[i] \in R /\ x \in R
    BY <1>1, <2>1
  <2> QED BY <2>1, <2>2, RankOrder
<1>5. RangeOf(page) = top
  BY <1>1, <1>4 DEF RangeOf
<1>6. ASSUME Len(page) > 0 PROVE RangeOf(page) = Since(R, page[Len(page)].created)
  <2> DEFINE last == page[Len(page)]
  <2>1. last \in top /\ last \in R /\ Newer(R, last) = Len(page) - 1 /\ last.created \in Nat
    BY <1>1, <1>6 DEF Lists, Entries
  <2>2. ASSUME NEW x \in R PROVE x \in top <=> x.created >= last.created
    <3>1. /\ Newer(R, x) \in Nat /\ Newer(R, last) \in Nat /\ x.created \in Nat
          /\ x.created < last.created <=> Newer(R, last) < Newer(R, x)
      BY <2>1, RankType, RankOrder DEF Lists, Entries
    <3>2. x \in top => Newer(R, x) <= Len(page) - 1
      BY <1>1, <1>3, <3>1
    <3>3. x \in top <=> Newer(R, x) <= Newer(R, last)
      BY <2>1, <3>1, <3>2, SizeAssumption
    <3> QED BY <2>1, <3>1, <3>3
  <2> QED BY <1>5, <2>2 DEF Since
<1> QED BY <1>1, <1>2, <1>5, <1>6

\* After what was delivered comes the rest, whichever way the cursor counts.
LEMMA RestIs ==
    ASSUME NEW s \in Scripts, remote[s] \in Lists, NEW c \in [last : Nat, count : Nat],
           c.count = Cardinality(Since(remote[s], c.last)),
           NEW rest \in {RestByLast(s, c), RestByCount(s, c)}
    PROVE  rest = remote[s] \ Since(remote[s], c.last) /\ rest \in Lists
<1> DEFINE R == remote[s]
           L == Since(R, c.last)
<1>1. IsFiniteSet(R) /\ \A x \in R : x.created \in Nat
  BY DEF Lists, Entries
<1>2. L \in SUBSET R /\ IsFiniteSet(L) /\ Cardinality(L) \in Nat
  BY <1>1, FS_Subset, FS_CardinalityType DEF Since
<1>3. RestByLast(s, c) = R \ L
  BY <1>1 DEF RestByLast, Since
<1>4. ASSUME NEW x \in R PROVE Newer(R, x) >= c.count <=> x \notin L
  <2> DEFINE N == {y \in R : y.created > x.created}
  <2>1. N \in SUBSET R /\ IsFiniteSet(N) /\ Cardinality(N) \in Nat
    BY <1>1, FS_Subset, FS_CardinalityType
  <2>2. CASE x \in L
    <3>1. N \in SUBSET L /\ x \notin N
      BY <1>1, <2>2 DEF Since
    <3>2. Cardinality(N) <= Cardinality(L) /\ (Cardinality(L) = Cardinality(N) => L = N)
      BY <1>2, <3>1, FS_Subset
    <3> QED BY <1>2, <2>1, <2>2, <3>1, <3>2 DEF Newer
  <2>3. CASE x \notin L
    <3>1. L \in SUBSET N
      BY <1>1, <2>3 DEF Since
    <3>2. Cardinality(L) <= Cardinality(N)
      BY <2>1, <3>1, FS_Subset
    <3> QED BY <1>2, <2>1, <2>3, <3>2 DEF Newer
  <2> QED BY <2>2, <2>3
<1>5. RestByCount(s, c) = R \ L
  BY <1>4 DEF RestByCount
<1>6. R \ L \in Lists
  <2>1. IsFiniteSet(R \ L)
    BY <1>1, FS_Subset
  <2> QED BY <2>1 DEF Lists
<1> QED BY <1>3, <1>5, <1>6

\* What a page adds to what was delivered.
LEMMA Continued ==
    ASSUME NEW s \in Scripts, remote[s] \in Lists, NEW c \in [last : Nat, count : Nat], NEW listed \in Seq(Entries),
           c.count = Cardinality(Since(remote[s], c.last)),
           Injective(listed), RangeOf(listed) = Since(remote[s], c.last),
           NEW rest \in {RestByLast(s, c), RestByCount(s, c)}, NEW page \in Pages(rest)
    PROVE  /\ listed \o page \in Seq(Entries) /\ Injective(listed \o page)
           /\ Cardinality(rest) <= PageSize => RangeOf(listed \o page) = remote[s]
           /\ CursorAfter(c, page) # c =>
                 /\ CursorAfter(c, page) \in [last : Nat, count : Nat]
                 /\ RangeOf(listed \o page) = Since(remote[s], CursorAfter(c, page).last)
                 /\ CursorAfter(c, page).count = Cardinality(Since(remote[s], CursorAfter(c, page).last))
<1> DEFINE R == remote[s]
           L == Since(R, c.last)
           all == listed \o page
<1>1. rest = R \ L /\ rest \in Lists
  BY RestIs
<1>2. /\ page \in Seq(rest) /\ Injective(page) /\ Len(page) \in Nat
      /\ RangeOf(page) = {x \in rest : Newer(rest, x) < PageSize}
      /\ Len(page) = Cardinality(RangeOf(page))
      /\ Len(page) > 0 => RangeOf(page) = Since(rest, page[Len(page)].created)
  BY <1>1, PageIs
<1>3. R \in SUBSET Entries /\ rest \in SUBSET Entries /\ page \in Seq(Entries)
  BY <1>1, <1>2 DEF Lists
<1>4. /\ all \in Seq(Entries) /\ Len(all) = Len(listed) + Len(page) /\ Len(listed) \in Nat
      /\ DOMAIN all = 1 .. Len(all) /\ DOMAIN listed = 1 .. Len(listed) /\ DOMAIN page = 1 .. Len(page)
      /\ \A i \in 1 .. Len(listed) : all[i] = listed[i]
      /\ \A i \in Len(listed) + 1 .. Len(listed) + Len(page) :
             all[i] = page[i - Len(listed)] /\ i - Len(listed) \in 1 .. Len(page)
  BY <1>3
<1>4a. \A i \in 1 .. Len(page) : i + Len(listed) \in DOMAIN all /\ all[i + Len(listed)] = page[i]
  BY <1>2, <1>4
<1> HIDE DEF all
<1>5. RangeOf(all) = L \cup RangeOf(page)
  <2>1. ASSUME NEW i \in DOMAIN all PROVE all[i] \in L \cup RangeOf(page)
    <3>1. CASE i <= Len(listed)
      BY <1>4, <3>1 DEF RangeOf
    <3>2. CASE ~ (i <= Len(listed))
      <4>1. i \in Len(listed) + 1 .. Len(listed) + Len(page)
        BY <1>2, <1>4, <3>2
      <4>2. all[i] = page[i - Len(listed)] /\ i - Len(listed) \in DOMAIN page
        BY <1>4, <4>1
      <4> QED BY <4>2 DEF RangeOf
    <3> QED BY <3>1, <3>2
  <2>2. ASSUME NEW x \in L PROVE \E i \in DOMAIN all : all[i] = x
    <3>1. PICK i \in DOMAIN listed : listed[i] = x
      BY DEF RangeOf
    <3>2. i \in 1 .. Len(listed)
      BY <1>4, <3>1
    <3>3. i \in DOMAIN all
      BY <1>2, <1>4, <3>2
    <3> QED BY <1>4, <3>1, <3>2, <3>3
  <2>3. ASSUME NEW x \in RangeOf(page) PROVE \E i \in DOMAIN all : all[i] = x
    BY <1>4, <1>4a DEF RangeOf
  <2> QED BY <2>1, <2>2, <2>3 DEF RangeOf
<1>6. Injective(all)
  <2> SUFFICES ASSUME NEW i \in DOMAIN all, NEW j \in DOMAIN all, all[i] = all[j], i <= j PROVE i = j
    BY <1>4 DEF Injective
  <2>1. CASE j <= Len(listed)
    BY <1>4, <2>1 DEF Injective
  <2>2. CASE i <= Len(listed) /\ ~ (j <= Len(listed))
    <3>1. all[i] \in L
      BY <1>4, <2>2 DEF RangeOf
    <3>2. all[j] \in rest
      <4>1. j \in Len(listed) + 1 .. Len(listed) + Len(page)
        BY <1>2, <1>4, <2>2
      <4>2. all[j] = page[j - Len(listed)] /\ j - Len(listed) \in DOMAIN page
        BY <1>4, <4>1
      <4> QED BY <1>2, <4>2
    <3> QED BY <1>1, <3>1, <3>2
  <2>3. CASE ~ (i <= Len(listed))
    <3>1. /\ i - Len(listed) \in DOMAIN page /\ j - Len(listed) \in DOMAIN page
          /\ page[i - Len(listed)] = page[j - Len(listed)]
      <4>1. /\ i \in Len(listed) + 1 .. Len(listed) + Len(page)
            /\ j \in Len(listed) + 1 .. Len(listed) + Len(page)
        BY <1>2, <1>4, <2>3
      <4>2. all[i] = page[i - Len(listed)] /\ i - Len(listed) \in DOMAIN page
        BY <1>4, <4>1
      <4>3. all[j] = page[j - Len(listed)] /\ j - Len(listed) \in DOMAIN page
        BY <1>4, <4>1
      <4> QED BY <4>2, <4>3
    <3>2. i - Len(listed) = j - Len(listed)
      BY <1>2, <3>1 DEF Injective
    <3> QED BY <1>4, <3>2
  <2> QED BY <1>4, <2>1, <2>2, <2>3
<1>7. ASSUME Cardinality(rest) <= PageSize PROVE RangeOf(all) = R
  <2>1. Cardinality(rest) \in Nat
    BY <1>1, FS_CardinalityType DEF Lists
  <2>2. \A x \in rest : Newer(rest, x) < PageSize
    BY <1>1, <1>7, <2>1, RankType, SizeAssumption
  <2>3. RangeOf(page) = rest
    BY <1>2, <2>2
  <2> QED BY <1>1, <1>5, <2>3 DEF Since
<1>8. ASSUME CursorAfter(c, page) # c
      PROVE  /\ CursorAfter(c, page) \in [last : Nat, count : Nat]
             /\ RangeOf(all) = Since(R, CursorAfter(c, page).last)
             /\ CursorAfter(c, page).count = Cardinality(Since(R, CursorAfter(c, page).last))
  <2> DEFINE n == Len(page)
             time == page[n].created
  <2>1. n > 0 /\ CursorAfter(c, page) = [last |-> time, count |-> c.count + n]
    BY <1>2, <1>8 DEF CursorAfter
  <2>2. page[n] \in rest /\ time \in Nat
    BY <1>2, <1>3, <2>1 DEF Entries
  <2>3. RangeOf(page) = Since(rest, time)
    BY <1>2, <2>1
  <2>4. Since(R, time) = L \cup Since(rest, time)
    <3>1. time < c.last
      BY <1>1, <2>2 DEF Since
    <3>2. \A x \in R : x.created \in Nat
      BY <1>3 DEF Entries
    <3> QED BY <1>1, <2>2, <3>1, <3>2 DEF Since
  <2>5. RangeOf(all) = Since(R, time)
    BY <1>5, <2>3, <2>4
  <2>6. Cardinality(Since(R, time)) = c.count + n
    <3>1. IsFiniteSet(L) /\ IsFiniteSet(RangeOf(page))
      <4>1. IsFiniteSet(R) /\ L \in SUBSET R /\ RangeOf(page) \in SUBSET R
        BY <1>1, <1>2 DEF Lists, Since
      <4> QED BY <4>1, FS_Subset
    <3>2. L \cap RangeOf(page) = {}
      BY <1>1, <1>2
    <3>3. Cardinality(L \cup RangeOf(page)) = Cardinality(L) + Cardinality(RangeOf(page)) - Cardinality({})
      BY <3>1, <3>2, FS_Union
    <3>4. Cardinality({}) = 0 /\ Cardinality(L) \in Nat /\ Cardinality(RangeOf(page)) \in Nat
      BY <3>1, FS_EmptySet, FS_CardinalityType
    <3>5. Since(R, time) = L \cup RangeOf(page) /\ Cardinality(L) = c.count /\ Cardinality(RangeOf(page)) = n
      BY <1>2, <2>3, <2>4
    <3> HIDE DEF L, n, time
    <3> QED BY <3>3, <3>4, <3>5
  <2> QED BY <2>1, <2>2, <2>5, <2>6
<1> QED BY <1>4, <1>6, <1>7, <1>8 DEF all

-----------------------------------------------------------------------------
(* The invariant.  A run nothing has interfered with holds the newest part *)
(* of the list, up to its cursor; then the whole list; then the rows, too. *)

Rows == [status : {"none", "active", "removed"}, end : Ends \cup {NoEnd}]
Cursors == [last : Nat, count : Nat]
Tasks == [pc : {"idle", "next", "page", "read", "write"}, todo : SUBSET Scripts,
          script : Scripts \cup {NoScript}, cursor : Cursors, seen : SUBSET Cursors,
          listed : Seq(Entries), local : [Users -> Rows], calm : BOOLEAN]

Typed == /\ remote \in [Scripts -> Lists] /\ changes \in 0 .. MaxChanges
         /\ \A s \in Scripts : \A x \in remote[s] : x.created <= changes
         /\ row \in [Scripts -> [Users -> Rows]]
         /\ task \in [Syncers -> Tasks]

Following(t) ==
    /\ t.pc \in {"page", "read", "write"} => t.script \in Scripts /\ Injective(t.listed)
    /\ t.pc = "page" => /\ t.cursor.count = Cardinality(Since(remote[t.script], t.cursor.last))
                        /\ RangeOf(t.listed) = Since(remote[t.script], t.cursor.last)
    /\ t.pc \in {"read", "write"} => RangeOf(t.listed) = remote[t.script]
    /\ t.pc = "write" => t.local = row[t.script]

SyncInv == /\ Typed
           /\ \A p \in Syncers : /\ task[p].pc \in {"page", "read", "write"} => task[p].script \in Scripts
                                 /\ task[p].calm => Following(task[p])

LEMMA Constants == MaxChanges \in Nat /\ PageSize \in Nat \ {0} /\ FirstPage \in Cursors
BY SizeAssumption DEF FirstPage, Cursors

LEMMA IdleTyped == Idle \in Tasks /\ NoRows \in [Users -> Rows]
BY Constants DEF Idle, Tasks, NoRows, NoRow, Rows

LEMMA SyncInitially == Init => SyncInv
<1> SUFFICES ASSUME Init PROVE SyncInv
  OBVIOUS
<1>1. {} \in Lists
  BY FS_EmptySet DEF Lists
<1>2. Typed
  BY <1>1, Constants, IdleTyped DEF Init, Typed
<1>3. \A p \in Syncers : task[p].pc = "idle"
  BY DEF Init, Idle
<1> QED BY <1>2, <1>3 DEF SyncInv, Following

\* One goroutine goes on, and nothing else changes.
LEMMA SetSync ==
    ASSUME SyncInv, NEW p \in Syncers, NEW t \in Tasks, Set(p, t), UNCHANGED <<remote, row, changes>>,
           t.pc \in {"page", "read", "write"} => t.script \in Scripts,
           t.calm => Following(t)
    PROVE  SyncInv'
<1>1. \A q \in Syncers : task'[q] = IF q = p THEN t ELSE task[q]
  BY DEF SyncInv, Typed, Set
<1>2. Typed'
  BY DEF SyncInv, Typed, Set
<1> QED BY <1>1, <1>2 DEF SyncInv, Following

\* A script is done, or the run is over.
LEMMA BetweenScripts ==
    ASSUME SyncInv, NEW p \in Syncers, NEW todo \in SUBSET Scripts, NEW pc \in {"idle", "next"},
           Set(p, [Idle EXCEPT !.pc = pc, !.todo = todo]), UNCHANGED <<remote, row, changes>>
    PROVE  SyncInv'
<1> DEFINE t == [Idle EXCEPT !.pc = pc, !.todo = todo]
<1>1. t \in Tasks /\ t.pc = pc
  BY IdleTyped DEF Tasks
<1>2. Set(p, t)
  OBVIOUS
<1> HIDE DEF t
<1> QED BY <1>1, <1>2, SetSync DEF Following

LEMMA ItemDone ==
    ASSUME SyncInv, NEW p \in Syncers, NextItem(p), UNCHANGED <<remote, row, changes>>
    PROVE  SyncInv'
<1>1. task[p].todo \in SUBSET Scripts
  BY DEF SyncInv, Typed, Tasks
<1> QED BY <1>1, BetweenScripts DEF NextItem

LEMMA ScriptBegun ==
    ASSUME SyncInv, NEW p \in Syncers, NextScript(p)
    PROVE  SyncInv'
<1>1. CASE Set(p, Idle)
  <2> DEFINE t == Idle
  <2>2. t.pc = "idle" /\ Following(t)
    BY DEF Idle, Following
  <2> QED BY <1>1, <2>2, IdleTyped, SetSync DEF NextScript
<1>2. ASSUME NEW s \in task[p].todo,
             Set(p, [Idle EXCEPT !.pc = "page", !.script = s, !.todo = task[p].todo \ {s}])
      PROVE  SyncInv'
  <2> DEFINE todo == task[p].todo \ {s}
             t == [Idle EXCEPT !.pc = "page", !.script = s, !.todo = todo]
  <2>1. s \in Scripts /\ todo \in SUBSET Scripts
    BY DEF SyncInv, Typed, Tasks
  <2>2. Set(p, t)
    BY <1>2
  <2> HIDE DEF todo
  <2>3. t \in Tasks /\ t.pc = "page" /\ t.script = s /\ t.listed = <<>> /\ t.cursor = FirstPage
    BY <2>1, IdleTyped DEF Tasks, Idle
  <2> HIDE DEF t
  <2>4. Since(remote[s], FirstPage.last) = {}
    <3>1. \A x \in remote[s] : x.created \in Nat /\ x.created <= changes
      BY <2>1 DEF SyncInv, Typed, Lists, Entries
    <3>2. changes \in Nat /\ changes <= MaxChanges
      BY Constants DEF SyncInv, Typed
    <3> QED BY <3>1, <3>2, Constants DEF Since, FirstPage
  <2>5. RangeOf(<<>>) = {} /\ Injective(<<>>) /\ FirstPage.count = 0
    BY DEF RangeOf, Injective, FirstPage
  <2>6. Following(t)
    BY <2>1, <2>3, <2>4, <2>5, FS_EmptySet DEF Following
  <2> QED BY <2>1, <2>2, <2>3, <2>6, SetSync DEF NextScript
<1> QED BY <1>1, <1>2 DEF NextScript

\* A page arrives.
LEMMA PageListed ==
    ASSUME SyncInv, NEW p \in Syncers, ListPage(p)
    PROVE  SyncInv'
<1> DEFINE t == task[p]
           s == t.script
<1>1. /\ t \in Tasks /\ t.pc = "page" /\ s \in Scripts /\ remote[s] \in Lists
      /\ t.cursor \in Cursors /\ t.listed \in Seq(Entries) /\ UNCHANGED <<remote, row, changes>>
  <2>1. t \in Tasks /\ t.pc = "page"
    BY DEF ListPage, At, SyncInv, Typed
  <2>2. s \in Scripts
    BY <2>1 DEF SyncInv
  <2>3. remote[s] \in Lists
    BY <2>2 DEF SyncInv, Typed
  <2>4. t.cursor \in Cursors /\ t.listed \in Seq(Entries)
    BY <2>1 DEF Tasks
  <2> QED BY <2>1, <2>2, <2>3, <2>4 DEF ListPage
<1>2. PICK rest \in {RestByLast(s, t.cursor), RestByCount(s, t.cursor)} : \E page \in Pages(rest) :
          \/ Cardinality(rest) <= PageSize /\ Set(p, [t EXCEPT !.listed = @ \o page, !.pc = "read"])
          \/ TurnPage(p, page, CursorAfter(t.cursor, page))
          \/ \E next \in t.seen \cup {t.cursor} : TurnPage(p, page, next)
  BY DEF ListPage
<1>3. PICK page \in Pages(rest) :
          \/ Cardinality(rest) <= PageSize /\ Set(p, [t EXCEPT !.listed = @ \o page, !.pc = "read"])
          \/ TurnPage(p, page, CursorAfter(t.cursor, page))
          \/ \E next \in t.seen \cup {t.cursor} : TurnPage(p, page, next)
  BY <1>2
<1> DEFINE all == t.listed \o page
           next == CursorAfter(t.cursor, page)
<1>4. all \in Seq(Entries) /\ (next # t.cursor => next \in Cursors)
  <2>1. rest \in SUBSET Entries
    BY <1>1 DEF RestByLast, RestByCount, Lists
  <2>2. page \in Seq(rest)
    BY SizeAssumption DEF Pages
  <2>3. page \in Seq(Entries) /\ Len(page) \in Nat /\ (page # <<>> => page[Len(page)] \in Entries)
    BY <2>1, <2>2
  <2>4. next # t.cursor => next = [last |-> page[Len(page)].created, count |-> t.cursor.count + Len(page)] /\ page # <<>>
    BY DEF CursorAfter
  <2> QED BY <1>1, <2>3, <2>4 DEF Cursors, Entries
<1>5. t.calm => /\ t.cursor.count = Cardinality(Since(remote[s], t.cursor.last))
                /\ RangeOf(t.listed) = Since(remote[s], t.cursor.last) /\ Injective(t.listed)
  BY <1>1 DEF SyncInv, Following
<1>6. t.calm => /\ Injective(all)
                /\ Cardinality(rest) <= PageSize => RangeOf(all) = remote[s]
                /\ next # t.cursor => /\ RangeOf(all) = Since(remote[s], next.last)
                                      /\ next.count = Cardinality(Since(remote[s], next.last))
  BY <1>1, <1>5, Continued DEF Cursors
<1>7. CASE NextItem(p)
  BY <1>1, <1>7, ItemDone
<1>8. CASE Cardinality(rest) <= PageSize /\ Set(p, [t EXCEPT !.listed = all, !.pc = "read"])
  <2> DEFINE u == [t EXCEPT !.listed = all, !.pc = "read"]
  <2> HIDE DEF all
  <2>1. u \in Tasks /\ u.pc = "read" /\ u.script = s /\ u.listed = all /\ u.calm = t.calm
    BY <1>1, <1>4 DEF Tasks
  <2>2. Set(p, u)
    BY <1>8
  <2> HIDE DEF u
  <2>3. u.calm => Following(u)
    BY <1>1, <1>6, <1>8, <2>1 DEF Following
  <2> QED BY <1>1, <2>1, <2>2, <2>3, SetSync
<1>9. CASE next # t.cursor /\ Listed(p, page, next)
  <2> DEFINE u == [t EXCEPT !.listed = all, !.cursor = next, !.seen = t.seen \cup {next}]
  <2>1. Set(p, u)
    BY <1>1, <1>9 DEF Listed, Tasks
  <2> HIDE DEF all, next
  <2>2. u \in Tasks /\ u.pc = "page" /\ u.script = s /\ u.listed = all /\ u.calm = t.calm /\ u.cursor = next
    BY <1>1, <1>4, <1>9 DEF Tasks
  <2> HIDE DEF u
  <2>3. u.calm => Following(u)
    BY <1>1, <1>6, <1>9, <2>2 DEF Following
  <2> QED BY <1>1, <2>1, <2>2, <2>3, SetSync
<1>10. ASSUME NEW k \in t.seen \cup {t.cursor}, TurnPage(p, page, k) PROVE NextItem(p)
  BY <1>10 DEF TurnPage, Loops
<1>11. TurnPage(p, page, next) => NextItem(p) \/ (next # t.cursor /\ Listed(p, page, next))
  BY DEF TurnPage, Loops
<1> QED BY <1>3, <1>7, <1>8, <1>9, <1>10, <1>11

LEMMA RowsRead ==
    ASSUME SyncInv, NEW p \in Syncers, ReadRows(p)
    PROVE  SyncInv'
<1> DEFINE t == [task[p] EXCEPT !.pc = "write", !.local = row[task[p].script]]
<1>1. task[p] \in Tasks /\ task[p].pc = "read" /\ task[p].script \in Scripts /\ UNCHANGED <<remote, row, changes>>
  BY DEF ReadRows, At, SyncInv, Typed
<1>2. row[task[p].script] \in [Users -> Rows]
  BY <1>1 DEF SyncInv, Typed
<1>3. Set(p, t)
  BY DEF ReadRows
<1>4. /\ t \in Tasks /\ t.pc = "write" /\ t.script = task[p].script /\ t.listed = task[p].listed
      /\ t.calm = task[p].calm /\ t.local = row[t.script]
  BY <1>1, <1>2 DEF Tasks
<1> HIDE DEF t
<1>5. t.calm => Following(t)
  BY <1>1, <1>4 DEF SyncInv, Following
<1> QED BY <1>1, <1>3, <1>4, <1>5, SetSync

-----------------------------------------------------------------------------
(* The write.                                                              *)

\* A nonempty set of indices has a last one.
LEMMA LastIs ==
    ASSUME NEW n \in Nat, NEW D \in SUBSET (1 .. n), D # {}
    PROVE  \E i \in D : \A j \in D : j <= i
<1> DEFINE Less == {ss \in Nat \X Nat : ss[1] < ss[2]}
           After == {k \in Nat : n - k \in D}
<1>1. IsWellFoundedOn(Less, Nat)
  BY NatLessThanWellFounded DEF OpToRel
<1>2. \A j \in D : n - j \in After
  OBVIOUS
<1>3. After \subseteq Nat /\ After # {}
  BY <1>2
<1>4. \E x \in After : \A y \in After : ~ (<<y, x>> \in Less)
  <2> HIDE DEF Less, After
  <2> QED BY <1>1, <1>3, WFMin
<1>5. PICK x \in After : \A y \in After : ~ (<<y, x>> \in Less)
  BY <1>4
<1>6. ASSUME NEW j \in D PROVE j <= n - x
  <2>1. n - j \in After /\ n - j \in Nat /\ x \in Nat
    BY <1>2
  <2>2. ~ (n - j < x)
    BY <1>5, <2>1
  <2> QED BY <2>1, <2>2
<1> QED BY <1>6

\* The end that is written is one that was listed.
LEMMA EndAfterIs ==
    ASSUME NEW t \in Tasks, NEW u \in Users, NEW now
    PROVE  \/ Differs(t, u) = {} /\ EndAfter(t, u, now) = now
           \/ \E i \in Differs(t, u) : EndAfter(t, u, now) = t.listed[i].end /\ t.listed[i] \in Entries
<1>1. t.listed \in Seq(Entries) /\ Len(t.listed) \in Nat
  BY DEF Tasks
<1>2. Differs(t, u) \in SUBSET (1 .. Len(t.listed))
  BY <1>1 DEF Differs, Listings
<1>3. CASE Differs(t, u) = {}
  BY <1>3 DEF EndAfter
<1>4. CASE Differs(t, u) # {}
  <2> DEFINE last == CHOOSE i \in Differs(t, u) : \A j \in Differs(t, u) : j <= i
  <2>1. last \in Differs(t, u)
    BY <1>1, <1>2, <1>4, LastIs
  <2>2. EndAfter(t, u, now) = t.listed[last].end
    BY <1>4 DEF EndAfter
  <2>3. t.listed[last] \in Entries
    BY <1>1, <1>2, <2>1
  <2> QED BY <2>1, <2>2, <2>3
<1> QED BY <1>3, <1>4

\* The rows that WriteRows leaves, and what it does to the other runs.
LEMMA Written ==
    ASSUME SyncInv, NEW p \in Syncers, WriteRows(p)
    PROVE  /\ task[p] \in Tasks /\ task[p].pc = "write" /\ task[p].script \in Scripts
           /\ row' \in [Scripts -> [Users -> Rows]] /\ UNCHANGED <<remote, changes>>
           /\ \A s \in Scripts \ {task[p].script} : row'[s] = row[s]
           /\ \A u \in Users : row'[task[p].script][u] =
                  [status |-> StatusAfter(task[p], u, row[task[p].script][u].status),
                   end |-> EndAfter(task[p], u, row[task[p].script][u].end)]
<1> DEFINE t == task[p]
           now == row[t.script]
           after == [u \in Users |-> [status |-> StatusAfter(t, u, now[u].status),
                                      end |-> EndAfter(t, u, now[u].end)]]
<1>1. t \in Tasks /\ t.pc = "write" /\ t.script \in Scripts /\ UNCHANGED <<remote, changes>>
  BY DEF WriteRows, At, SyncInv, Typed
<1>2. row \in [Scripts -> [Users -> Rows]] /\ now \in [Users -> Rows]
  BY <1>1 DEF SyncInv, Typed
<1>3. row' = [row EXCEPT ![t.script] = after]
  BY DEF WriteRows
<1>4. ASSUME NEW u \in Users
      PROVE  [status |-> StatusAfter(t, u, now[u].status), end |-> EndAfter(t, u, now[u].end)] \in Rows
  <2>1. now[u].status \in {"none", "active", "removed"} /\ now[u].end \in Ends \cup {NoEnd}
    BY <1>2 DEF Rows
  <2>2. StatusAfter(t, u, now[u].status) \in {"none", "active", "removed"}
    BY <2>1 DEF StatusAfter
  <2>3. EndAfter(t, u, now[u].end) \in Ends \cup {NoEnd}
    BY <1>1, <2>1, EndAfterIs DEF Entries
  <2> QED BY <2>2, <2>3 DEF Rows
<1>5. after \in [Users -> Rows]
  BY <1>4
<1>6. \A u \in Users : after[u] = [status |-> StatusAfter(t, u, now[u].status),
                                   end |-> EndAfter(t, u, now[u].end)]
  OBVIOUS
<1> HIDE DEF after
<1>7. row' \in [Scripts -> [Users -> Rows]] /\ row'[t.script] = after
      /\ \A s \in Scripts \ {t.script} : row'[s] = row[s]
  BY <1>1, <1>2, <1>3, <1>5
<1> QED BY <1>1, <1>6, <1>7

LEMMA WriteSync ==
    ASSUME SyncInv, NEW p \in Syncers, WriteRows(p)
    PROVE  SyncInv'
<1> DEFINE s == task[p].script
           done == [Idle EXCEPT !.pc = "next", !.todo = task[p].todo]
<1>1. \A q \in Syncers : task[q] \in Tasks
  BY DEF SyncInv, Typed
<1>2. done \in Tasks /\ done.pc = "next"
  BY <1>1, IdleTyped DEF Tasks
<1>3. task' = [q \in Syncers |-> IF q = p THEN done
                                 ELSE IF Interfere(p, q) THEN [task[q] EXCEPT !.calm = FALSE]
                                 ELSE task[q]]
  BY DEF WriteRows
<1> HIDE DEF done
<1>4. ASSUME NEW q \in Syncers
      PROVE  /\ task'[q] \in Tasks
             /\ \/ task'[q].pc = "next"
                \/ /\ task'[q].pc = task[q].pc /\ task'[q].script = task[q].script
                   /\ ~ task'[q].calm
                \/ task'[q] = task[q] /\ (task[q].pc = "write" => task[q].script # s)
  <2>1. CASE q = p
    BY <1>2, <1>3, <2>1
  <2>2. CASE q # p /\ Interfere(p, q)
    <3>1. task'[q] = [task[q] EXCEPT !.calm = FALSE]
      BY <1>3, <2>2
    <3>2. task'[q] \in Tasks /\ task'[q].pc = task[q].pc /\ task'[q].script = task[q].script /\ task'[q].calm = FALSE
      BY <1>1, <3>1 DEF Tasks
    <3> QED BY <3>2
  <2>3. CASE q # p /\ ~ Interfere(p, q)
    <3>1. task'[q] = task[q]
      BY <1>3, <2>3
    <3> QED BY <1>1, <2>3, <3>1 DEF Interfere, At
  <2> QED BY <2>1, <2>2, <2>3
<1>5. task' \in [Syncers -> Tasks]
  BY <1>3, <1>4
<1>6. /\ row' \in [Scripts -> [Users -> Rows]] /\ UNCHANGED <<remote, changes>>
      /\ \A x \in Scripts \ {s} : row'[x] = row[x]
  BY Written
<1>7. Typed'
  BY <1>5, <1>6 DEF SyncInv, Typed
<1>8. ASSUME NEW q \in Syncers
      PROVE  /\ task'[q].pc \in {"page", "read", "write"} => task'[q].script \in Scripts
             /\ task'[q].calm => Following(task[q])'
  <2>1. CASE task'[q].pc = "next"
    BY <2>1 DEF Following
  <2>2. CASE task'[q].pc = task[q].pc /\ task'[q].script = task[q].script /\ ~ task'[q].calm
    BY <2>2 DEF SyncInv
  <2>3. CASE task'[q] = task[q] /\ (task[q].pc = "write" => task[q].script # s)
    BY <1>6, <2>3 DEF SyncInv, Following
  <2> QED BY <1>4, <2>1, <2>2, <2>3
<1> QED BY <1>7, <1>8 DEF SyncInv

-----------------------------------------------------------------------------
(* TradingView's list changes.                                             *)

LEMMA ListChanges ==
    ASSUME SyncInv, NEW s \in Scripts, NEW entries \in Lists, Change(s, entries),
           \A x \in entries : x.created <= changes + 1
    PROVE  SyncInv'
<1>1. /\ task \in [Syncers -> Tasks] /\ remote \in [Scripts -> Lists] /\ changes \in 0 .. MaxChanges
      /\ \A z \in Scripts : \A x \in remote[z] : x.created <= changes /\ x.created \in Nat
  BY DEF SyncInv, Typed, Lists, Entries
<1>2. /\ changes < MaxChanges /\ changes' = changes + 1 /\ remote' = [remote EXCEPT ![s] = entries]
      /\ UNCHANGED row
      /\ task' = [p \in Syncers |-> IF task[p].script = s THEN [task[p] EXCEPT !.calm = FALSE]
                                    ELSE task[p]]
  BY DEF Change
<1>3. /\ remote' \in [Scripts -> Lists] /\ remote'[s] = entries
      /\ \A z \in Scripts \ {s} : remote'[z] = remote[z]
  BY <1>1, <1>2
<1>4. changes' \in 0 .. MaxChanges
  BY <1>1, <1>2, Constants
<1>5. ASSUME NEW q \in Syncers
      PROVE  /\ task'[q] \in Tasks /\ task'[q].pc = task[q].pc /\ task'[q].script = task[q].script
             /\ task'[q].calm => task'[q] = task[q] /\ task[q].script # s
  <2>1. CASE task[q].script = s
    <3>1. task'[q] = [task[q] EXCEPT !.calm = FALSE]
      BY <1>2, <2>1
    <3>2. task'[q] \in Tasks /\ task'[q].pc = task[q].pc /\ task'[q].script = task[q].script /\ task'[q].calm = FALSE
      BY <1>1, <3>1 DEF Tasks
    <3> QED BY <3>2
  <2>2. CASE task[q].script # s
    BY <1>1, <1>2, <2>2
  <2> QED BY <2>1, <2>2
<1>6. \A z \in Scripts : \A x \in remote'[z] : x.created <= changes'
  <2> SUFFICES ASSUME NEW z \in Scripts, NEW x \in remote'[z] PROVE x.created <= changes'
    OBVIOUS
  <2>1. CASE z = s
    BY <1>2, <1>3, <2>1
  <2>2. CASE z # s
    <3>1. x \in remote[z]
      BY <1>3, <2>2
    <3> QED BY <1>1, <1>2, <3>1
  <2> QED BY <2>1, <2>2
<1>7. task' \in [Syncers -> Tasks]
  BY <1>2, <1>5
<1>8. Typed'
  BY <1>2, <1>3, <1>4, <1>6, <1>7 DEF SyncInv, Typed
<1>9. ASSUME NEW q \in Syncers
      PROVE  /\ task'[q].pc \in {"page", "read", "write"} => task'[q].script \in Scripts
             /\ task'[q].calm => Following(task[q])'
  BY <1>2, <1>3, <1>5 DEF SyncInv, Following
<1> QED BY <1>8, <1>9 DEF SyncInv

LEMMA TradingViewSync ==
    ASSUME SyncInv, TradingView
    PROVE  SyncInv'
<1>1. PICK s \in Scripts, u \in Users : \/ \E e \in Ends : AddAccess(s, u, e) \/ ModifyExpiration(s, u, e)
                                        \/ RemoveAccess(s, u)
  BY DEF TradingView
<1> DEFINE R == remote[s]
<1>2. R \in Lists /\ changes \in Nat /\ \A x \in R : x \in Entries /\ x.created <= changes
  BY Constants DEF SyncInv, Typed, Lists
<1>3. HeldBy(s, u) = {x \in R : x.user = u}
  BY DEF HeldBy
<1>4. ASSUME NEW e \in Ends, AddAccess(s, u, e) PROVE SyncInv'
  <2> DEFINE new == [user |-> u, end |-> e, created |-> changes + 1]
             rest == R \ HeldBy(s, u)
             entries == rest \cup {new}
  <2>1. IsFiniteSet(entries)
    <3> HIDE DEF new
    <3>1. IsFiniteSet(R) /\ rest \in SUBSET R
      BY <1>2 DEF Lists
    <3>2. IsFiniteSet(rest)
      BY <3>1, FS_Subset
    <3> QED BY <3>2, FS_AddElement
  <2>2. new \in Entries /\ new.user = u /\ new.created = changes + 1
    BY <1>2 DEF Entries
  <2>3. \A x \in rest : x \in R /\ x.user # u /\ x.created <= changes /\ x.created \in Nat
    BY <1>2, <1>3 DEF Entries
  <2> HIDE DEF new
  <2>4. entries \in SUBSET Entries
    BY <1>2, <2>2, <2>3
  <2>5. ASSUME NEW x \in entries, NEW y \in entries, x.user = y.user \/ x.created = y.created PROVE x = y
    <3>1. CASE x \in rest /\ y \in rest
      BY <1>2, <2>3, <2>5, <3>1 DEF Lists
    <3>2. CASE x = new /\ y \in rest
      BY <1>2, <2>2, <2>3, <2>5, <3>2
    <3>3. CASE x \in rest /\ y = new
      BY <1>2, <2>2, <2>3, <2>5, <3>3
    <3> QED BY <3>1, <3>2, <3>3
  <2>6. entries \in Lists
    BY <2>1, <2>4, <2>5 DEF Lists
  <2>7. \A x \in entries : x.created <= changes + 1
    BY <1>2, <2>2, <2>3
  <2>8. Change(s, entries)
    BY <1>4 DEF AddAccess, new
  <2> HIDE DEF entries
  <2> QED BY <2>6, <2>7, <2>8, ListChanges
<1>5. ASSUME NEW e \in Ends, ModifyExpiration(s, u, e) PROVE SyncInv'
  <2>1. PICK x \in HeldBy(s, u) : Change(s, (R \ {x}) \cup {[x EXCEPT !.end = e]})
    BY <1>5 DEF ModifyExpiration
  <2> DEFINE new == [x EXCEPT !.end = e]
             entries == (R \ {x}) \cup {new}
  <2>2. x \in R /\ x \in Entries /\ x.created <= changes
    BY <1>2, <1>3
  <2>3. new \in Entries /\ new.user = x.user /\ new.created = x.created
    BY <2>2 DEF Entries
  <2>4. Change(s, entries)
    BY <2>1
  <2> HIDE DEF new
  <2>5. IsFiniteSet(entries)
    <3>1. IsFiniteSet(R) /\ R \ {x} \in SUBSET R
      BY <1>2 DEF Lists
    <3>2. IsFiniteSet(R \ {x})
      BY <3>1, FS_Subset
    <3> QED BY <3>2, FS_AddElement
  <2>6. entries \in SUBSET Entries
    BY <1>2, <2>3
  <2>7. ASSUME NEW y \in entries, NEW z \in entries, y.user = z.user \/ y.created = z.created PROVE y = z
    <3>1. \A w \in R \ {x} : w.user # x.user /\ w.created # x.created
      BY <1>2, <2>2 DEF Lists
    <3>2. CASE y \in R \ {x} /\ z \in R \ {x}
      BY <1>2, <2>7, <3>2 DEF Lists
    <3>3. CASE y = new \/ z = new
      BY <2>3, <2>7, <3>1, <3>3
    <3> QED BY <3>2, <3>3
  <2>8. entries \in Lists
    BY <2>5, <2>6, <2>7 DEF Lists
  <2>9. \A y \in entries : y.created <= changes + 1
    BY <1>2, <2>2, <2>3 DEF Entries
  <2> HIDE DEF entries
  <2> QED BY <2>4, <2>8, <2>9, ListChanges
<1>6. CASE RemoveAccess(s, u)
  <2> DEFINE entries == R \ HeldBy(s, u)
  <2>1. entries \in SUBSET R /\ IsFiniteSet(entries)
    BY <1>2, FS_Subset DEF Lists
  <2>2. entries \in Lists
    BY <1>2, <2>1 DEF Lists
  <2>3. \A x \in entries : x.created <= changes + 1
    BY <1>2, <2>1 DEF Entries
  <2>4. Change(s, entries)
    BY <1>6 DEF RemoveAccess
  <2> HIDE DEF entries
  <2> QED BY <2>2, <2>3, <2>4, ListChanges
<1> QED BY <1>1, <1>4, <1>5, <1>6

-----------------------------------------------------------------------------
(* The theorem.                                                            *)

LEMMA SyncStep == SyncInv /\ [Next]_vars => SyncInv'
<1> SUFFICES ASSUME SyncInv, [Next]_vars PROVE SyncInv'
  OBVIOUS
<1>1. ASSUME NEW p \in Syncers, SyncAll(p) PROVE SyncInv'
  BY <1>1, BetweenScripts DEF SyncAll
<1>2. ASSUME NEW p \in Syncers, Step(p) PROVE SyncInv'
  <2>1. CASE NextScript(p)
    BY <2>1, ScriptBegun
  <2>2. CASE ListPage(p)
    BY <2>2, PageListed
  <2>3. CASE ListFails(p)
    BY <2>3, ItemDone DEF ListFails
  <2>4. CASE ReadRows(p)
    BY <2>4, RowsRead
  <2>5. CASE WriteRows(p)
    BY <2>5, WriteSync
  <2>6. CASE WriteFails(p)
    BY <2>6, ItemDone DEF WriteFails
  <2> QED BY <1>2, <2>1, <2>2, <2>3, <2>4, <2>5, <2>6 DEF Step
<1>3. ASSUME NEW p \in Handlers, SyncByScriptID(p) PROVE SyncInv'
  <2>1. PICK s \in Scripts : Set(p, [Idle EXCEPT !.pc = "next", !.todo = {s}])
    BY <1>3 DEF SyncByScriptID
  <2>2. p \in Syncers /\ {s} \in SUBSET Scripts /\ UNCHANGED <<remote, row, changes>>
    BY <1>3 DEF SyncByScriptID, Syncers
  <2> QED BY <2>1, <2>2, BetweenScripts
<1>4. CASE TradingView
  BY <1>4, TradingViewSync
<1>5. CASE Crash
  <2>1. task' = [p \in Syncers |-> Idle] /\ UNCHANGED <<remote, row, changes>>
    BY <1>5 DEF Crash
  <2>2. \A p \in Syncers : task'[p] = Idle /\ Idle.pc = "idle"
    BY <2>1 DEF Idle
  <2>3. Typed'
    BY <2>1, IdleTyped DEF SyncInv, Typed
  <2> QED BY <2>2, <2>3 DEF SyncInv, Following
<1>6. CASE UNCHANGED vars
  BY <1>6 DEF vars, SyncInv, Typed, Following
<1> QED BY <1>1, <1>2, <1>3, <1>4, <1>5, <1>6 DEF Next

\* The rows of a user after the write of a run nothing interfered with.
LEMMA CalmWrite ==
    ASSUME SyncInv, NEW p \in Syncers, WriteRows(p), task[p].calm, NEW u \in Users,
           NEW s, s = task[p].script
    PROVE  /\ row'[s][u].status = "active" <=> \E x \in remote[s] : x.user = u
           /\ \A x \in remote[s] : x.user = u => row'[s][u].end = x.end
<1> DEFINE t == task[p]
<1>1. /\ t \in Tasks /\ t.pc = "write" /\ s \in Scripts
      /\ row'[s][u] = [status |-> StatusAfter(t, u, row[s][u].status), end |-> EndAfter(t, u, row[s][u].end)]
  BY Written
<1>2. Injective(t.listed) /\ RangeOf(t.listed) = remote[s] /\ t.local = row[s]
  BY <1>1 DEF SyncInv, Following
<1>3. \A x, y \in remote[s] : x.user = y.user => x = y
  BY <1>1 DEF SyncInv, Typed, Lists
<1> HIDE DEF t
<1>4. Listings(t, u) # {} <=> \E x \in remote[s] : x.user = u
  BY <1>2 DEF Listings, RangeOf
<1>5. row'[s][u].status = "active" <=> Listings(t, u) # {}
  BY <1>1, <1>2 DEF StatusAfter
<1>6. ASSUME NEW x \in remote[s], x.user = u PROVE row'[s][u].end = x.end
  <2>1. \A i \in Listings(t, u) : t.listed[i] = x
    BY <1>2, <1>3, <1>6 DEF Listings, RangeOf
  <2>2. EndAfter(t, u, row[s][u].end) = x.end
    <3>1. CASE Differs(t, u) = {}
      <4>1. PICK i \in Listings(t, u) : t.listed[i] = x
        BY <1>4, <1>6, <2>1
      <4>2. x.end = t.local[u].end
        BY <3>1, <4>1 DEF Differs
      <4> QED BY <1>2, <3>1, <4>2 DEF EndAfter
    <3>2. CASE Differs(t, u) # {}
      <4>1. PICK i \in Differs(t, u) : EndAfter(t, u, row[s][u].end) = t.listed[i].end
        BY <1>1, <3>2, EndAfterIs
      <4> QED BY <2>1, <4>1 DEF Differs
    <3> QED BY <3>1, <3>2
  <2> QED BY <1>1, <2>2
<1> QED BY <1>4, <1>5, <1>6

\* A run nothing interfered with leaves exactly TradingView's list, whatever
\* rows earlier runs left, for any lists, page sizes and number of runs:
\* ListAllUsers and syncScript of the access sync service.
THEOREM SnapshotExact == Spec => ExactSnapshot
<1>1. SyncInv /\ [Next]_vars => [\A p \in Syncers :
          WriteRows(p) /\ task[p].calm => Snapshot(row', task[p].script) = Accesses(task[p].script)]_vars
  <2> SUFFICES ASSUME SyncInv, NEW p \in Syncers, WriteRows(p), task[p].calm
               PROVE  Snapshot(row', task[p].script) = Accesses(task[p].script)
    OBVIOUS
  <2> DEFINE s == task[p].script
  <2>1. ASSUME NEW u \in Users
        PROVE  /\ row'[s][u].status = "active" <=> \E x \in remote[s] : x.user = u
               /\ \A x \in remote[s] : x.user = u => row'[s][u].end = x.end
    BY CalmWrite
  <2>2. \A x \in remote[s] : x.user \in Users
    BY Written DEF SyncInv, Typed, Lists, Entries
  <2> HIDE DEF s
  <2>3. Snapshot(row', s) = Accesses(s)
    BY <2>1, <2>2 DEF Snapshot, Accesses
  <2> QED BY <2>3 DEF s
<1> QED BY <1>1, SyncInitially, SyncStep, PTL DEF Spec, ExactSnapshot

-----------------------------------------------------------------------------
(* The counts.                                                             *)

LEMMA SameSize ==
    ASSUME NEW S, NEW T, IsFiniteSet(S), NEW f \in [S -> T],
           \A x, y \in S : f[x] = f[y] => x = y,
           \A y \in T : \E x \in S : f[x] = y
    PROVE  Cardinality(T) = Cardinality(S)
<1>1. f \in Surjection(S, T) /\ f \in Injection(S, T)
  BY DEF Surjection, Injection, IsInjective
<1> QED BY <1>1, FS_Surjection

LEMMA SizeOfParts ==
    ASSUME NEW A, NEW B, IsFiniteSet(A \cup B), A \cap B = {}
    PROVE  /\ IsFiniteSet(A) /\ IsFiniteSet(B) /\ Cardinality(A) \in Nat /\ Cardinality(B) \in Nat
           /\ Cardinality(A \cup B) = Cardinality(A) + Cardinality(B)
<1>1. A \in SUBSET (A \cup B) /\ B \in SUBSET (A \cup B)
  OBVIOUS
<1>2. IsFiniteSet(A) /\ IsFiniteSet(B)
  BY <1>1, FS_Subset
<1>3. Cardinality(A) \in Nat /\ Cardinality(B) \in Nat
  BY <1>2, FS_CardinalityType
<1>4. Cardinality(A \cup B) = Cardinality(A) + Cardinality(B) - Cardinality(A \cap B)
  BY <1>2, FS_Union
<1>5. Cardinality(A \cap B) = 0
  BY FS_EmptySet
<1> QED BY <1>2, <1>3, <1>4, <1>5

LEMMA CalmCounts ==
    ASSUME SyncInv, NEW p \in Syncers, WriteRows(p), task[p].calm, NEW r, r = Result(task[p])
    PROVE  /\ r.active + r.inserted + r.reactivated - r.removed = r.remote
           /\ r.remote = Cardinality(remote[task[p].script])
<1> DEFINE t == task[p]
           s == t.script
           D == DOMAIN t.listed
           User(i) == t.listed[i].user
           With(status) == {i \in D : t.local[User(i)].status = status}
           Active == {u \in Users : t.local[u].status = "active"}
           Gone == {u \in Users : t.local[u].status = "active" /\ Listings(t, u) = {}}
<1>1. t \in Tasks /\ t.pc = "write" /\ s \in Scripts
  BY Written
<1>2. Injective(t.listed) /\ RangeOf(t.listed) = remote[s]
  BY <1>1 DEF SyncInv, Following
<1>3. \A x, y \in remote[s] : x.user = y.user => x = y
  BY <1>1 DEF SyncInv, Typed, Lists
<1>4. /\ t.listed \in Seq(Entries) /\ Len(t.listed) \in Nat /\ D = 1 .. Len(t.listed)
      /\ t.local \in [Users -> Rows]
  BY <1>1 DEF Tasks
<1>5. \A i \in D : t.listed[i] \in remote[s] /\ User(i) \in Users
  <2>1. \A i \in D : t.listed[i] \in remote[s]
    BY <1>2 DEF RangeOf
  <2>2. \A i \in D : t.listed[i] \in Entries
    BY <1>4
  <2> QED BY <2>1, <2>2 DEF Entries
<1>6. \A i, j \in D : User(i) = User(j) => i = j
  BY <1>2, <1>3, <1>5 DEF Injective
<1>7. r = [remote |-> Len(t.listed), active |-> Cardinality(Active), inserted |-> Cardinality(With("none")),
           reactivated |-> Cardinality(With("removed")), removed |-> Cardinality(Gone)]
  BY DEF Result, Count, RemovedCount
<1>8. \A i \in D : t.local[User(i)].status \in {"none", "active", "removed"}
  BY <1>4, <1>5 DEF Rows
<1>9. \A u \in Users : Listings(t, u) = {i \in D : User(i) = u}
  BY DEF Listings
<1>10. IsFiniteSet(D) /\ Cardinality(D) = Len(t.listed)
  BY <1>4, FS_Interval
<1>11. Cardinality(remote[s]) = Len(t.listed)
  <2> DEFINE f == [i \in D |-> t.listed[i]]
  <2>1. f \in [D -> remote[s]]
    BY <1>5
  <2>2. \A i, j \in D : f[i] = f[j] => i = j
    BY <1>2 DEF Injective
  <2>3. \A x \in remote[s] : \E i \in D : f[i] = x
    BY <1>2 DEF RangeOf
  <2> HIDE DEF f, D, s
  <2> QED BY <1>10, <2>1, <2>2, <2>3, SameSize
<1> HIDE DEF t
<1>12. /\ Cardinality(D) = Cardinality(With("none")) + Cardinality(With("removed")) + Cardinality(With("active"))
       /\ IsFiniteSet(With("active")) /\ Cardinality(With("active")) \in Nat
       /\ Cardinality(With("none")) \in Nat /\ Cardinality(With("removed")) \in Nat
  <2> DEFINE N == With("none")
             R == With("removed")
             A == With("active")
             Rest == R \cup A
  <2>1. N \cap Rest = {} /\ D = N \cup Rest /\ R \cap A = {}
    BY <1>8
  <2> HIDE DEF N, R, A, D
  <2>2. /\ IsFiniteSet(Rest) /\ Cardinality(N) \in Nat /\ Cardinality(Rest) \in Nat
        /\ Cardinality(N \cup Rest) = Cardinality(N) + Cardinality(Rest)
    <3> HIDE DEF Rest
    <3>1. IsFiniteSet(N \cup Rest)
      BY <1>10, <2>1
    <3> QED BY <2>1, <3>1, SizeOfParts
  <2>3. /\ IsFiniteSet(A) /\ Cardinality(R) \in Nat /\ Cardinality(A) \in Nat
        /\ Cardinality(Rest) = Cardinality(R) + Cardinality(A)
    BY <2>1, <2>2, SizeOfParts
  <2>4. Cardinality(D) = Cardinality(N) + Cardinality(R) + Cardinality(A)
    <3> HIDE DEF Rest
    <3> QED BY <2>1, <2>2, <2>3
  <2> QED BY <2>2, <2>3, <2>4 DEF N, R, A
<1>13. /\ Cardinality(Active) = Cardinality(Gone) + Cardinality(With("active"))
       /\ Cardinality(Gone) \in Nat
  <2> DEFINE Stay == Active \ Gone
             A == With("active")
             f == [i \in A |-> User(i)]
  <2>1. IsFiniteSet(Active)
    BY FS_Subset, UsersAssumption
  <2>2. Gone \cap Stay = {} /\ Active = Gone \cup Stay
    OBVIOUS
  <2>3. f \in [A -> Stay]
    BY <1>5, <1>9
  <2>4. \A i, j \in A : f[i] = f[j] => i = j
    BY <1>6
  <2>5. \A u \in Stay : \E i \in A : f[i] = u
    BY <1>9
  <2> HIDE DEF f, A, Stay, Gone, Active
  <2>6. Cardinality(Stay) = Cardinality(A)
    <3>1. IsFiniteSet(A)
      BY <1>12 DEF A
    <3> QED BY <2>3, <2>4, <2>5, <3>1, SameSize
  <2>7. IsFiniteSet(Gone \cup Stay)
    BY <2>1, <2>2
  <2>8. Cardinality(Gone \cup Stay) = Cardinality(Gone) + Cardinality(Stay) /\ Cardinality(Gone) \in Nat
    BY <2>2, <2>7, SizeOfParts
  <2> QED BY <2>2, <2>6, <2>8 DEF A
<1> DEFINE n == Cardinality(With("none"))
           m == Cardinality(With("removed"))
           a == Cardinality(With("active"))
           g == Cardinality(Gone)
<1>14. Cardinality(Active) + n + m - g = Len(t.listed)
  <2> DEFINE all == Cardinality(Active)
             d == Cardinality(D)
  <2>1. all = g + a /\ d = n + m + a /\ d = Len(t.listed) /\ n \in Nat /\ m \in Nat /\ a \in Nat /\ g \in Nat
    BY <1>10, <1>12, <1>13
  <2> HIDE DEF all, d, n, m, a, g
  <2>2. all + n + m - g = Len(t.listed)
    BY <2>1
  <2> QED BY <2>2 DEF all
<1>15. /\ r.active = Cardinality(Active) /\ r.inserted = n /\ r.reactivated = m /\ r.removed = g
       /\ r.remote = Len(t.listed)
  <2> HIDE DEF n, m, g, Active, With, Gone
  <2> QED BY <1>7 DEF n, m, g
<1> HIDE DEF n, m, g, Active
<1>16. r.active + r.inserted + r.reactivated - r.removed = r.remote
  BY <1>14, <1>15
<1>17. r.remote = Cardinality(remote[s])
  BY <1>11, <1>15
<1> QED BY <1>16, <1>17 DEF t

\* The counts such a run logs and shows add up to TradingView's list: the
\* SyncResult of syncScript.
THEOREM ResultCorrect == Spec => ResultAddsUp
<1>1. SyncInv /\ [Next]_vars => [\A p \in Syncers :
          WriteRows(p) /\ task[p].calm =>
              LET r == Result(task[p])
              IN  /\ r.active + r.inserted + r.reactivated - r.removed = r.remote
                  /\ r.remote = Cardinality(remote[task[p].script])]_vars
  <2> SUFFICES ASSUME SyncInv, NEW p \in Syncers, WriteRows(p), task[p].calm
               PROVE  LET r == Result(task[p])
                      IN  /\ r.active + r.inserted + r.reactivated - r.removed = r.remote
                          /\ r.remote = Cardinality(remote[task[p].script])
    OBVIOUS
  <2> DEFINE r == Result(task[p])
  <2>1. r = Result(task[p])
    OBVIOUS
  <2> HIDE DEF r
  <2>2. /\ r.active + r.inserted + r.reactivated - r.removed = r.remote
        /\ r.remote = Cardinality(remote[task[p].script])
    BY <2>1, CalmCounts
  <2> QED BY <2>1, <2>2
<1> QED BY <1>1, SyncInitially, SyncStep, PTL DEF Spec, ResultAddsUp
=============================================================================
