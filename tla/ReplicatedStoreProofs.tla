------------------------ MODULE ReplicatedStoreProofs ------------------------
(***************************************************************************)
(* Theorems about ReplicatedStore, for every set of nodes, keys, rows and  *)
(* values, every limit of the snapshots, every retention and every value   *)
(* of the bounds.                                                          *)
(***************************************************************************)
EXTENDS ReplicatedStore, FiniteSetTheorems, SequenceTheorems, TLAPS

(***************************************************************************)
(* What becomes of a row, by the entries of a log L that are about it.     *)
(***************************************************************************)
Puts(L, i, r) == L[i].type = "put" /\ L[i].row = r
Deletes(L, i, r) == L[i].type = "delete" /\ L[i].row = r
Completes(L, i, r) == L[i].type = "complete" /\ L[i].row = r

NoPut(L, r, i, j) == \A k \in i..j : ~Puts(L, k, r)
NoDelete(L, r, i, j) == \A k \in i..j : ~Deletes(L, k, r)

(***************************************************************************)
(* The row r of a file that has seen R entries and to which the first a of *)
(* them have been applied since the last restart.  Entries a+1 to R may or *)
(* may not show in it: it is what it is by the first a as far as they say  *)
(* anything, and has nothing in it that is in none of the R.               *)
(***************************************************************************)
OnlyPut(L, row, r, R) == row # None => \E p \in 1..R : Puts(L, p, r)

FirstKept(L, row, r, R) ==
    row # None /\ NoDelete(L, r, 1, R) =>
        \A p \in 1..R :
            Puts(L, p, r) /\ NoPut(L, r, 1, p - 1) => row.first = L[p].value

GoneAfterDelete(L, row, r, a) ==
    \A j \in 1..a : Deletes(L, j, r) /\ NoPut(L, r, j + 1, a) => row = None

ThereAfterPut(L, row, r, a) ==
    \A j \in 1..a :
        Puts(L, j, r) /\ NoPut(L, r, j + 1, a) /\ NoDelete(L, r, j + 1, a) =>
            /\ row # None
            /\ row.value = L[j].value
            /\ row.stamp <=> \E k \in j + 1..a : Completes(L, k, r)

FirstAfterDelete(L, row, r, a) ==
    \A d, p \in 1..a :
        /\ d < p
        /\ Deletes(L, d, r) /\ NoDelete(L, r, d + 1, a)
        /\ Puts(L, p, r) /\ NoPut(L, r, d + 1, p - 1)
        => row.first = L[p].value

RowOf(L, row, r, a, R) ==
    /\ OnlyPut(L, row, r, R)
    /\ FirstKept(L, row, r, R)
    /\ GoneAfterDelete(L, row, r, a)
    /\ ThereAfterPut(L, row, r, a)
    /\ FirstAfterDelete(L, row, r, a)

RowsOf(L, f, a, R) == a <= R /\ \A r \in Rows : RowOf(L, f.rows[r], r, a, R)

RowsInv ==
    \A n \in Nodes :
        /\ RowsOf(log, file[n], applied[n], reached[n])
        /\ RowsOf(log, snapshot[n].file, snapshot[n].index, snapshot[n].reached)

(***************************************************************************)
(* The claims that a file has seen, and those that it knows at time T.     *)
(***************************************************************************)
LogInv ==
    /\ \A i \in 1..Len(log) : log[i].type = "claim" => log[i].at <= clock
    /\ \A i, j \in 1..Len(log) :
           i <= j /\ log[i].type = "claim" /\ log[j].type = "claim" => log[i].at <= log[j].at

ClaimsSeen(f, R) ==
    \A k \in Keys : f.claims[k] # None =>
        \E l \in 1..R : IsClaim(l, k) /\ log[l].at = f.claims[k]

KnownAt(f, a, R, T) ==
    \A i \in 1..a :
        /\ log[i].type = "claim" /\ FirstClaim(i)
        /\ ~(log[i].at + Retention < T)
        /\ Cardinality(NotOlder(i, R)) < Limit
        => f.claims[log[i].key] # None

\* While an engine waits for the answer to a claim it prunes nothing.
PrunedAt(n) == IF awaits[n] = 0 THEN clock ELSE log[awaits[n]].at

KeptInv ==
    \A n \in Nodes :
        /\ ClaimsSeen(file[n], reached[n])
        /\ ClaimsSeen(snapshot[n].file, snapshot[n].reached)
        /\ KnownAt(file[n], applied[n], reached[n], PrunedAt(n))
        /\ KnownAt(snapshot[n].file, snapshot[n].index, snapshot[n].reached, clock)

AwaitsInv ==
    \A n \in Nodes : awaits[n] # 0 =>
        /\ log[awaits[n]].type = "claim"
        /\ reached[n] < awaits[n]

(***************************************************************************)
(* What is granted had not been claimed, or so long ago that it is gone.   *)
(***************************************************************************)
GrantInv ==
    \A j \in granted :
        /\ log[j].type = "claim"
        /\ \A f \in 1..j - 1 :
               IsClaim(f, log[j].key) /\ FirstClaim(f) =>
                   \/ log[f].at + Retention < log[j].at
                   \/ Cardinality(NotOlder(f, j)) >= Limit

ClaimsInv == LogInv /\ KeptInv /\ AwaitsInv /\ GrantInv

-----------------------------------------------------------------------------
USE LimitAssumption, RetentionAssumption, BoundsAssumption, NoTimeAssumption,
    NoRowAssumption
  DEF LimitAssumption, RetentionAssumption, BoundsAssumption, NoTimeAssumption,
      NoRowAssumption

(* Numbers                                                                 *)

\* A set of natural numbers has a least element ...
LEMMA HasFirst ==
    ASSUME NEW S \in SUBSET Nat, S # {}
    PROVE  \E m \in S : \A k \in S : m <= k
<1>1. PICK m \in S : \A k \in S : <<k, m>> \notin OpToRel(<, Nat)
  BY NatLessThanWellFounded, WFMin
<1>2. \A k \in S : ~(k < m)
  BY <1>1 DEF OpToRel
<1> QED
  BY <1>2

\* ... and a last one, if it is bounded.
LEMMA HasLast ==
    ASSUME NEW n \in Nat, NEW S \in SUBSET (1..n), S # {}
    PROVE  \E m \in S : \A k \in S : k <= m
<1> DEFINE D == {n - k : k \in S}
<1>1. D \in SUBSET Nat /\ D # {}
  <2>1. \A k \in S : n - k \in Nat
    OBVIOUS
  <2> QED
    BY <2>1
<1>2. PICK d \in D : \A k \in D : d <= k
  BY <1>1, HasFirst
<1>3. PICK m \in S : d = n - m
  OBVIOUS
<1>4. \A k \in S : n - m <= n - k
  BY <1>2, <1>3
<1> QED
  BY <1>4

-----------------------------------------------------------------------------
(* Rows and the entries about them                                         *)

\* Of the entries that put or delete a row there is a last one.
LEMMA LastTouch ==
    ASSUME NEW L, NEW r, NEW a \in Nat, ~(NoPut(L, r, 1, a) /\ NoDelete(L, r, 1, a))
    PROVE  \E j \in 1..a :
               /\ Puts(L, j, r) \/ Deletes(L, j, r)
               /\ NoPut(L, r, j + 1, a) /\ NoDelete(L, r, j + 1, a)
<1> DEFINE S == {j \in 1..a : Puts(L, j, r) \/ Deletes(L, j, r)}
<1>1. S # {}
  BY DEF NoPut, NoDelete
<1>2. PICK j \in S : \A k \in S : k <= j
  BY <1>1, HasLast
<1> QED
  BY <1>2 DEF NoPut, NoDelete

LEMMA LastDelete ==
    ASSUME NEW L, NEW r, NEW a \in Nat, ~NoDelete(L, r, 1, a)
    PROVE  \E d \in 1..a : Deletes(L, d, r) /\ NoDelete(L, r, d + 1, a)
<1> DEFINE S == {j \in 1..a : Deletes(L, j, r)}
<1>1. S # {}
  BY DEF NoDelete
<1>2. PICK j \in S : \A k \in S : k <= j
  BY <1>1, HasLast
<1> QED
  BY <1>2 DEF NoDelete

LEMMA FirstPut ==
    ASSUME NEW L, NEW r, NEW d \in Nat, NEW p \in Nat, d < p, Puts(L, p, r)
    PROVE  \E q \in d + 1..p : Puts(L, q, r) /\ NoPut(L, r, d + 1, q - 1)
<1> DEFINE S == {q \in d + 1..p : Puts(L, q, r)}
<1>1. S # {} /\ S \subseteq Nat
  OBVIOUS
<1>2. PICK q \in S : \A k \in S : q <= k
  BY <1>1, HasFirst
<1> QED
  BY <1>2 DEF NoPut

\* A row is what the entries say: two files that have seen and applied the same
\* entries have the same row.
LEMMA RowDetermined ==
    ASSUME NEW L, NEW r, NEW a \in Nat, NEW v \in Row \cup {None}, NEW w \in Row \cup {None},
           RowOf(L, v, r, a, a), RowOf(L, w, r, a, a)
    PROVE  v = w
<1>1. CASE NoPut(L, r, 1, a)
  BY <1>1 DEF RowOf, OnlyPut, NoPut
<1>2. CASE ~NoPut(L, r, 1, a)
  <2>1. PICK j \in 1..a :
            /\ Puts(L, j, r) \/ Deletes(L, j, r)
            /\ NoPut(L, r, j + 1, a) /\ NoDelete(L, r, j + 1, a)
    BY <1>2, LastTouch
  <2>2. CASE Deletes(L, j, r)
    BY <2>1, <2>2 DEF RowOf, GoneAfterDelete
  <2>3. CASE Puts(L, j, r)
    <3>1. /\ v # None /\ w # None
          /\ v.value = w.value
          /\ v.stamp <=> w.stamp
      <4>1. ThereAfterPut(L, v, r, a) /\ ThereAfterPut(L, w, r, a)
        BY DEF RowOf
      <4>2. /\ v # None /\ v.value = L[j].value
            /\ v.stamp <=> \E k \in j + 1..a : Completes(L, k, r)
        BY <2>1, <2>3, <4>1, Zenon DEF ThereAfterPut
      <4>3. /\ w # None /\ w.value = L[j].value
            /\ w.stamp <=> \E k \in j + 1..a : Completes(L, k, r)
        BY <2>1, <2>3, <4>1, Zenon DEF ThereAfterPut
      <4> QED
        BY <4>2, <4>3, Zenon
    <3>2. v.first = w.first
      <4>1. CASE NoDelete(L, r, 1, a)
        <5>1. PICK q \in 1..j : Puts(L, q, r) /\ NoPut(L, r, 1, q - 1)
          BY <2>3, FirstPut
        <5>2. q \in 1..a
          BY <2>1
        <5> QED
          BY <3>1, <4>1, <5>1, <5>2 DEF RowOf, FirstKept
      <4>2. CASE ~NoDelete(L, r, 1, a)
        <5>1. PICK d \in 1..a : Deletes(L, d, r) /\ NoDelete(L, r, d + 1, a)
          BY <4>2, LastDelete
        <5>2. d < j
          BY <2>1, <2>3, <5>1 DEF NoDelete, Puts, Deletes
        <5>3. PICK q \in d + 1..j : Puts(L, q, r) /\ NoPut(L, r, d + 1, q - 1)
          BY <2>3, <5>2, FirstPut
        <5>4. q \in 1..a /\ d < q
          OBVIOUS
        <5> QED
          BY <5>1, <5>3, <5>4 DEF RowOf, FirstAfterDelete
      <4> QED
        BY <4>1, <4>2
    <3>3. v \in Row /\ w \in Row
      BY <3>1
    <3>4. v.stamp = w.stamp
      BY <3>1, <3>3, Zenon DEF Row
    <3> QED
      BY <3>1, <3>2, <3>3, <3>4 DEF Row
  <2> QED
    BY <2>1, <2>2, <2>3
<1> QED
  BY <1>1, <1>2

\* What is said of a file is about the entries that it has seen.
LEMMA RowPrefix ==
    ASSUME NEW L, NEW M, NEW r, NEW row, NEW a \in Nat, NEW R \in Nat, a <= R,
           \A i \in 1..R : M[i] = L[i],
           RowOf(L, row, r, a, R)
    PROVE  RowOf(M, row, r, a, R)
<1>1. \A i \in 1..R : /\ Puts(M, i, r) <=> Puts(L, i, r)
                      /\ Deletes(M, i, r) <=> Deletes(L, i, r)
                      /\ Completes(M, i, r) <=> Completes(L, i, r)
  BY DEF Puts, Deletes, Completes
<1>2. \A i, j \in Nat : j <= R /\ i >= 1 =>
          /\ NoPut(M, r, i, j) <=> NoPut(L, r, i, j)
          /\ NoDelete(M, r, i, j) <=> NoDelete(L, r, i, j)
  BY <1>1 DEF NoPut, NoDelete
<1>3. OnlyPut(M, row, r, R)
  BY <1>1 DEF RowOf, OnlyPut
<1>4. FirstKept(M, row, r, R)
  BY <1>1, <1>2 DEF RowOf, FirstKept
<1>5. GoneAfterDelete(M, row, r, a)
  BY <1>1, <1>2 DEF RowOf, GoneAfterDelete
<1>6. ThereAfterPut(M, row, r, a)
  <2> SUFFICES ASSUME NEW j \in 1..a, Puts(M, j, r), NoPut(M, r, j + 1, a),
                      NoDelete(M, r, j + 1, a)
               PROVE  /\ row # None
                      /\ row.value = M[j].value
                      /\ row.stamp <=> \E k \in j + 1..a : Completes(M, k, r)
    BY DEF ThereAfterPut
  <2>1. Puts(L, j, r) /\ NoPut(L, r, j + 1, a) /\ NoDelete(L, r, j + 1, a) /\ M[j] = L[j]
    BY <1>1, <1>2
  <2>2. \A k \in j + 1..a : Completes(M, k, r) <=> Completes(L, k, r)
    BY <1>1
  <2>3. /\ row # None
        /\ row.value = L[j].value
        /\ row.stamp <=> \E k \in j + 1..a : Completes(L, k, r)
    BY <2>1, Zenon DEF RowOf, ThereAfterPut
  <2> QED
    BY <2>1, <2>2, <2>3, Zenon
<1>7. FirstAfterDelete(M, row, r, a)
  BY <1>1, <1>2 DEF RowOf, FirstAfterDelete
<1> QED
  BY <1>3, <1>4, <1>5, <1>6, <1>7 DEF RowOf

-----------------------------------------------------------------------------
(* One more entry is applied                                               *)

\* How far a file has seen the log when entry i has been applied to it.
Reaches(R, i) == IF i > R THEN i ELSE R

\* An entry that is not about the row changes nothing of what is said of it.
LEMMA OtherRow ==
    ASSUME NEW L, NEW r, NEW row, NEW a \in Nat, NEW R \in Nat, a <= R,
           RowOf(L, row, r, a, R),
           ~Puts(L, a + 1, r), ~Deletes(L, a + 1, r), ~Completes(L, a + 1, r)
    PROVE  RowOf(L, row, r, a + 1, Reaches(R, a + 1))
<1> DEFINE i == a + 1
           S == Reaches(R, i)
<1>1. S \in Nat /\ R <= S /\ i <= S /\ (S = R \/ S = i)
  BY DEF Reaches
<1>2. \A p \in 1..S : Puts(L, p, r) \/ Deletes(L, p, r) => p \in 1..R
  BY <1>1
<1>3. NoDelete(L, r, 1, S) => NoDelete(L, r, 1, R)
  BY <1>1 DEF NoDelete
<1>4. \A j \in 1..i : Puts(L, j, r) \/ Deletes(L, j, r) => j \in 1..a
  OBVIOUS
<1>5. \A j \in 1..a : /\ NoPut(L, r, j + 1, i) => NoPut(L, r, j + 1, a)
                      /\ NoDelete(L, r, j + 1, i) => NoDelete(L, r, j + 1, a)
  BY DEF NoPut, NoDelete
<1>6. OnlyPut(L, row, r, S)
  BY <1>1 DEF RowOf, OnlyPut
<1>7. FirstKept(L, row, r, S)
  BY <1>2, <1>3 DEF RowOf, FirstKept
<1>8. GoneAfterDelete(L, row, r, i)
  BY <1>4, <1>5 DEF RowOf, GoneAfterDelete
<1>9. ThereAfterPut(L, row, r, i)
  <2> SUFFICES ASSUME NEW j \in 1..i, Puts(L, j, r), NoPut(L, r, j + 1, i),
                      NoDelete(L, r, j + 1, i)
               PROVE  /\ row # None
                      /\ row.value = L[j].value
                      /\ row.stamp <=> \E k \in j + 1..i : Completes(L, k, r)
    BY DEF ThereAfterPut
  <2>1. j \in 1..a /\ NoPut(L, r, j + 1, a) /\ NoDelete(L, r, j + 1, a)
    BY <1>4, <1>5
  <2>2. (\E k \in j + 1..i : Completes(L, k, r)) <=> (\E k \in j + 1..a : Completes(L, k, r))
    OBVIOUS
  <2>3. ThereAfterPut(L, row, r, a)
    BY DEF RowOf
  <2> QED
    BY <2>1, <2>2, <2>3, Zenon DEF ThereAfterPut
<1>10. FirstAfterDelete(L, row, r, i)
  BY <1>4, <1>5 DEF RowOf, FirstAfterDelete
<1> QED
  BY <1>6, <1>7, <1>8, <1>9, <1>10 DEF RowOf

\* A delete leaves nothing that could be wrong.
LEMMA DeletedRow ==
    ASSUME NEW L, NEW r, NEW a \in Nat, NEW R \in Nat, a <= R, Deletes(L, a + 1, r)
    PROVE  RowOf(L, None, r, a + 1, Reaches(R, a + 1))
<1> DEFINE i == a + 1
<1>1. ~Puts(L, i, r)
  BY DEF Puts, Deletes
<1>2. \A j \in 1..i : Puts(L, j, r) => i \in j + 1..i
  BY <1>1
<1>3. ThereAfterPut(L, None, r, i)
  BY <1>2, Zenon DEF ThereAfterPut, NoDelete
<1>4. FirstAfterDelete(L, None, r, i)
  <2>1. \A d, p \in 1..i : d < p => i \in d + 1..i
    OBVIOUS
  <2> QED
    BY <2>1 DEF FirstAfterDelete, NoDelete
<1> QED
  BY <1>3, <1>4 DEF RowOf, OnlyPut, FirstKept, GoneAfterDelete

\* What an upsert makes of a row.
PutOver(row, v) == [first |-> IF row = None THEN v ELSE row.first, value |-> v, stamp |-> FALSE]

LEMMA PutRow ==
    ASSUME NEW L, NEW r, NEW row \in Row \cup {None}, NEW a \in Nat, NEW R \in Nat, a <= R,
           RowOf(L, row, r, a, R), Puts(L, a + 1, r), L[a + 1].value \in Values
    PROVE  RowOf(L, PutOver(row, L[a + 1].value), r, a + 1, Reaches(R, a + 1))
<1> DEFINE i == a + 1
           S == Reaches(R, i)
           new == PutOver(row, L[i].value)
<1>1. S \in Nat /\ R <= S /\ i <= S /\ (S = R \/ S = i)
  BY DEF Reaches
<1>2. new # None
  <2>1. row # None => row.first \in Values
    BY DEF Row
  <2>2. new \in Row
    BY <2>1 DEF PutOver, Row
  <2> QED
    BY <2>2
<1>3. OnlyPut(L, new, r, S)
  BY <1>1 DEF OnlyPut
<1>4. \A j \in 1..a : NoPut(L, r, j + 1, i) => FALSE
  <2>1. \A j \in 1..a : i \in j + 1..i
    OBVIOUS
  <2> QED
    BY <2>1 DEF NoPut
<1>5. ~Deletes(L, i, r) /\ ~Completes(L, i, r)
  BY DEF Puts, Deletes, Completes
<1>6. FirstKept(L, new, r, S)
  <2> SUFFICES ASSUME NoDelete(L, r, 1, S),
                      NEW p \in 1..S, Puts(L, p, r), NoPut(L, r, 1, p - 1)
               PROVE  new.first = L[p].value
    BY DEF FirstKept
  <2>1. NoDelete(L, r, 1, R) /\ NoDelete(L, r, 1, a)
    BY <1>1 DEF NoDelete
  <2>2. CASE row = None
    <3>1. NoPut(L, r, 1, a)
      <4> SUFFICES ASSUME ~NoPut(L, r, 1, a)
                   PROVE  FALSE
        OBVIOUS
      <4>1. PICK j \in 1..a :
                /\ Puts(L, j, r) \/ Deletes(L, j, r)
                /\ NoPut(L, r, j + 1, a) /\ NoDelete(L, r, j + 1, a)
        BY LastTouch
      <4>2. Puts(L, j, r)
        BY <2>1, <4>1 DEF NoDelete
      <4> QED
        BY <2>2, <4>1, <4>2 DEF RowOf, ThereAfterPut
    <3>2. p = i
      <4>1. p >= i
        BY <3>1 DEF NoPut
      <4>2. CASE p > i
        <5>1. i \in 1..p - 1
          BY <4>2
        <5> QED
          BY <5>1 DEF NoPut
      <4> QED
        BY <4>1, <4>2
    <3> QED
      BY <2>2, <3>2 DEF PutOver
  <2>3. CASE row # None
    <3>1. PICK q \in 1..R : Puts(L, q, r)
      BY <2>3 DEF RowOf, OnlyPut
    <3>2. p <= q
      BY <3>1 DEF NoPut
    <3>3. p \in 1..R
      BY <3>2
    <3>4. row.first = L[p].value
      BY <2>1, <2>3, <3>3 DEF RowOf, FirstKept
    <3> QED
      BY <2>3, <3>4 DEF PutOver
  <2> QED
    BY <2>2, <2>3
<1>7. GoneAfterDelete(L, new, r, i)
  BY <1>4, <1>5 DEF GoneAfterDelete
<1>8. ThereAfterPut(L, new, r, i)
  <2>1. \A j \in 1..i : NoPut(L, r, j + 1, i) => j = i
    BY <1>4
  <2>2. ~\E k \in i + 1..i : Completes(L, k, r)
    OBVIOUS
  <2>3. new.value = L[i].value /\ ~new.stamp
    BY DEF PutOver
  <2> QED
    BY <1>2, <2>1, <2>2, <2>3 DEF ThereAfterPut
<1>9. FirstAfterDelete(L, new, r, i)
  <2> SUFFICES ASSUME NEW d \in 1..i, NEW p \in 1..i, d < p,
                      Deletes(L, d, r), NoDelete(L, r, d + 1, i),
                      Puts(L, p, r), NoPut(L, r, d + 1, p - 1)
               PROVE  new.first = L[p].value
    BY DEF FirstAfterDelete
  <2>1. d \in 1..a /\ NoDelete(L, r, d + 1, a)
    BY DEF NoDelete
  <2>2. CASE p = i
    <3>1. NoPut(L, r, d + 1, a)
      BY <2>2
    <3>2. row = None
      BY <2>1, <3>1 DEF RowOf, GoneAfterDelete
    <3> QED
      BY <2>2, <3>2 DEF PutOver
  <2>3. CASE p # i
    <3>1. p \in 1..a
      BY <2>3
    <3>2. PICK j \in 1..a :
              /\ Puts(L, j, r) \/ Deletes(L, j, r)
              /\ NoPut(L, r, j + 1, a) /\ NoDelete(L, r, j + 1, a)
      BY <3>1, LastTouch DEF NoPut
    <3>3. j >= p
      BY <3>1, <3>2 DEF NoPut
    <3>4. Puts(L, j, r)
      BY <2>1, <3>2, <3>3 DEF NoDelete
    <3>5. row # None
      BY <3>2, <3>4 DEF RowOf, ThereAfterPut
    <3>6. row.first = L[p].value
      BY <2>1, <3>1 DEF RowOf, FirstAfterDelete
    <3> QED
      BY <3>5, <3>6 DEF PutOver
  <2> QED
    BY <2>2, <2>3
<1> QED
  BY <1>3, <1>6, <1>7, <1>8, <1>9 DEF RowOf

\* What an update of last_notified_at makes of it.
Stamped(row) == IF row = None THEN None ELSE [row EXCEPT !.stamp = TRUE]

LEMMA StampedRow ==
    ASSUME NEW L, NEW r, NEW row \in Row \cup {None}, NEW a \in Nat, NEW R \in Nat, a <= R,
           RowOf(L, row, r, a, R), Completes(L, a + 1, r)
    PROVE  RowOf(L, Stamped(row), r, a + 1, Reaches(R, a + 1))
<1> DEFINE i == a + 1
           S == Reaches(R, i)
           new == Stamped(row)
<1>1. S \in Nat /\ R <= S /\ i <= S /\ (S = R \/ S = i)
  BY DEF Reaches
<1>2. ~Puts(L, i, r) /\ ~Deletes(L, i, r)
  BY DEF Puts, Deletes, Completes
<1>3. /\ new = None <=> row = None
      /\ row # None => new.first = row.first /\ new.value = row.value /\ new.stamp = TRUE
  <2>1. CASE row = None
    BY <2>1 DEF Stamped
  <2>2. CASE row # None
    BY <2>2 DEF Stamped, Row
  <2> QED
    BY <2>1, <2>2
<1>4. \A p \in 1..S : Puts(L, p, r) \/ Deletes(L, p, r) => p \in 1..R
  BY <1>1, <1>2
<1>5. NoDelete(L, r, 1, S) => NoDelete(L, r, 1, R)
  BY <1>1 DEF NoDelete
<1>6. \A j \in 1..i : Puts(L, j, r) \/ Deletes(L, j, r) => j \in 1..a
  BY <1>2
<1>7. \A j \in 1..a : /\ NoPut(L, r, j + 1, i) => NoPut(L, r, j + 1, a)
                      /\ NoDelete(L, r, j + 1, i) => NoDelete(L, r, j + 1, a)
  BY DEF NoPut, NoDelete
<1>8. OnlyPut(L, new, r, S)
  BY <1>1, <1>3 DEF RowOf, OnlyPut
<1>9. FirstKept(L, new, r, S)
  BY <1>3, <1>4, <1>5 DEF RowOf, FirstKept
<1>10. GoneAfterDelete(L, new, r, i)
  BY <1>3, <1>6, <1>7 DEF RowOf, GoneAfterDelete
<1>11. ThereAfterPut(L, new, r, i)
  <2> SUFFICES ASSUME NEW j \in 1..i, Puts(L, j, r), NoPut(L, r, j + 1, i),
                      NoDelete(L, r, j + 1, i)
               PROVE  /\ new # None
                      /\ new.value = L[j].value
                      /\ new.stamp <=> \E k \in j + 1..i : Completes(L, k, r)
    BY DEF ThereAfterPut
  <2>1. j \in 1..a /\ NoPut(L, r, j + 1, a) /\ NoDelete(L, r, j + 1, a)
    BY <1>6, <1>7
  <2>2. i \in j + 1..i
    BY <2>1
  <2>3. row # None /\ row.value = L[j].value
    BY <2>1 DEF RowOf, ThereAfterPut
  <2> QED
    BY <1>3, <2>2, <2>3
<1>12. FirstAfterDelete(L, new, r, i)
  <2> SUFFICES ASSUME NEW d \in 1..i, NEW p \in 1..i, d < p,
                      Deletes(L, d, r), NoDelete(L, r, d + 1, i),
                      Puts(L, p, r), NoPut(L, r, d + 1, p - 1)
               PROVE  new.first = L[p].value
    BY DEF FirstAfterDelete
  <2>1. d \in 1..a /\ p \in 1..a /\ NoDelete(L, r, d + 1, a)
    BY <1>6, <1>7
  <2>2. row.first = L[p].value
    BY <2>1 DEF RowOf, FirstAfterDelete
  <2> QED
    BY <1>3, <2>2
<1> QED
  BY <1>8, <1>9, <1>10, <1>11, <1>12 DEF RowOf

\* The rows of the file after an entry.
LEMMA ExecuteRows ==
    ASSUME NEW f \in File, NEW c \in Command
    PROVE  /\ Execute(f, c) \in File
           /\ c.type = "put" =>
                  \A r \in Rows : Execute(f, c).rows[r] =
                      IF r = c.row THEN PutOver(f.rows[r], c.value) ELSE f.rows[r]
           /\ c.type = "delete" =>
                  \A r \in Rows : Execute(f, c).rows[r] = IF r = c.row THEN None ELSE f.rows[r]
           /\ c.type = "complete" =>
                  \A r \in Rows : Execute(f, c).rows[r] =
                      IF r = c.row THEN Stamped(f.rows[r]) ELSE f.rows[r]
           /\ c.type = "claim" => Execute(f, c).rows = f.rows
           /\ c.type # "claim" => Execute(f, c).claims = f.claims
<1>1. CASE c.type = "put"
  <2>1. c.row \in Rows /\ c.value \in Values
    BY <1>1 DEF Command, Rows
  <2>2. Execute(f, c) = Upsert(f, c.row, c.value)
    BY <1>1 DEF Execute
  <2>3. f.rows \in [Rows -> Row \cup {None}] /\ f.claims \in [Keys -> Times \cup {None}]
    BY DEF File
  <2>4. Upsert(f, c.row, c.value) =
            [rows |-> [f.rows EXCEPT ![c.row] = PutOver(@, c.value)], claims |-> f.claims]
    BY <2>1, <2>3 DEF Upsert, File, PutOver
  <2>5. \A row \in Row \cup {None} : PutOver(row, c.value) \in Row
    BY <2>1 DEF PutOver, Row
  <2>6. [f.rows EXCEPT ![c.row] = PutOver(@, c.value)] \in [Rows -> Row \cup {None}]
    BY <2>1, <2>3, <2>5
  <2> QED
    BY <1>1, <2>1, <2>2, <2>3, <2>4, <2>6 DEF File
<1>2. CASE c.type = "delete"
  <2>1. c.row \in Rows
    BY <1>2 DEF Command, Rows
  <2>2. Execute(f, c) = Delete(f, c.row)
    BY <1>2 DEF Execute
  <2>3. f.rows \in [Rows -> Row \cup {None}] /\ f.claims \in [Keys -> Times \cup {None}]
    BY DEF File
  <2>4. Delete(f, c.row) = [rows |-> [f.rows EXCEPT ![c.row] = None], claims |-> f.claims]
    BY <2>1, <2>3 DEF Delete, File
  <2> QED
    BY <1>2, <2>1, <2>2, <2>3, <2>4 DEF File
<1>3. CASE c.type = "complete"
  <2>1. c.row \in Rows
    BY <1>3 DEF Command, Rows
  <2>2. Execute(f, c) = Stamp(f, c.row)
    BY <1>3 DEF Execute
  <2>3. f.rows \in [Rows -> Row \cup {None}] /\ f.claims \in [Keys -> Times \cup {None}]
    BY DEF File
  <2>4. Stamp(f, c.row) =
            [rows |-> [f.rows EXCEPT ![c.row] = Stamped(@)], claims |-> f.claims]
    BY <2>1, <2>3 DEF Stamp, File, Stamped
  <2>5. \A row \in Row \cup {None} : Stamped(row) \in Row \cup {None}
    BY DEF Stamped, Row
  <2>6. [f.rows EXCEPT ![c.row] = Stamped(@)] \in [Rows -> Row \cup {None}]
    BY <2>1, <2>3, <2>5
  <2> QED
    BY <1>3, <2>1, <2>2, <2>3, <2>4, <2>6 DEF File
<1>4. CASE c.type = "claim"
  <2>1. c.key \in Keys /\ c.at \in Times
    BY <1>4 DEF Command
  <2>2. Execute(f, c) = Claim(f, c.key, c.at)
    BY <1>4 DEF Execute
  <2>3. Claim(f, c.key, c.at) \in File /\ Claim(f, c.key, c.at).rows = f.rows
    BY <2>1 DEF Claim, File
  <2> QED
    BY <1>4, <2>2, <2>3
<1>5. c.type \in {"put", "delete", "complete", "claim"}
  BY DEF Command
<1> QED
  BY <1>1, <1>2, <1>3, <1>4, <1>5

LEMMA ExecuteKeepsRows ==
    ASSUME NEW L, NEW f \in File, NEW a \in Nat, NEW R \in Nat, L[a + 1] \in Command,
           RowsOf(L, f, a, R)
    PROVE  RowsOf(L, Execute(f, L[a + 1]), a + 1, Reaches(R, a + 1))
<1> DEFINE c == L[a + 1]
           g == Execute(f, c)
<1>1. a + 1 <= Reaches(R, a + 1)
  BY DEF Reaches, RowsOf
<1> SUFFICES ASSUME NEW r \in Rows
             PROVE  RowOf(L, g.rows[r], r, a + 1, Reaches(R, a + 1))
  BY <1>1 DEF RowsOf
<1>2. a <= R /\ RowOf(L, f.rows[r], r, a, R) /\ f.rows[r] \in Row \cup {None}
  BY DEF RowsOf, File
<1>3. CASE c.type = "put" /\ c.row = r
  <2>1. g.rows[r] = PutOver(f.rows[r], c.value)
    BY <1>3, ExecuteRows
  <2>2. c.value \in Values /\ Puts(L, a + 1, r)
    BY <1>3 DEF Command, Puts
  <2> QED
    BY <1>2, <2>1, <2>2, PutRow
<1>4. CASE c.type = "delete" /\ c.row = r
  <2>1. g.rows[r] = None
    BY <1>4, ExecuteRows
  <2>2. Deletes(L, a + 1, r)
    BY <1>4 DEF Deletes
  <2> QED
    BY <1>2, <2>1, <2>2, DeletedRow
<1>5. CASE c.type = "complete" /\ c.row = r
  <2>1. g.rows[r] = Stamped(f.rows[r])
    BY <1>5, ExecuteRows
  <2>2. Completes(L, a + 1, r)
    BY <1>5 DEF Completes
  <2> QED
    BY <1>2, <2>1, <2>2, StampedRow
<1>6. CASE c.type = "claim" \/ c.row # r
  <2>1. g.rows[r] = f.rows[r]
    <3>1. c.type \in {"put", "delete", "complete", "claim"}
      BY DEF Command
    <3> QED
      BY <1>6, <3>1, ExecuteRows
  <2>2. ~Puts(L, a + 1, r) /\ ~Deletes(L, a + 1, r) /\ ~Completes(L, a + 1, r)
    BY <1>6 DEF Puts, Deletes, Completes
  <2> QED
    BY <1>2, <2>1, <2>2, OtherRow
<1>7. c.type \in {"put", "delete", "complete", "claim"}
  BY DEF Command
<1> QED
  BY <1>3, <1>4, <1>5, <1>6, <1>7

-----------------------------------------------------------------------------
(* Type correctness                                                        *)

\* The committed entries stay when one more is appended.
LEMMA Committed ==
    ASSUME TypeOK, NEW c \in Command, Commit(c)
    PROVE  /\ log' \in Seq(Command) /\ Len(log') \in Indices
           /\ Len(log) \in Nat /\ Len(log') = Len(log) + 1
           /\ \A i \in 1..Len(log) : log'[i] = log[i]
           /\ log'[Len(log) + 1] = c
<1>1. log' = Append(log, c) /\ Len(log) < MaxLog /\ log \in Seq(Command) /\ Len(log) \in Nat
  BY DEF Commit, TypeOK, Indices
<1>2. /\ Append(log, c) \in Seq(Command)
      /\ Len(Append(log, c)) = Len(log) + 1
      /\ \A i \in 1..Len(log) : Append(log, c)[i] = log[i]
      /\ Append(log, c)[Len(log) + 1] = c
  BY <1>1, AppendProperties
<1> QED
  BY <1>1, <1>2 DEF Indices

\* The entries that nobody waits for.
Enters(c) ==
    /\ Commit(c)
    /\ UNCHANGED <<clock, file, applied, reached, snapshot, awaits, granted>>

LEMMA QuietEntries ==
    /\ \A r \in Rows, v \in Values : Put(r, v) =>
           \E c \in Command : c.type # "claim" /\ Enters(c)
    /\ \A r \in Others : Remove(r) => \E c \in Command : c.type # "claim" /\ Enters(c)
    /\ \A i \in Incidents : CompleteDelivery(i) =>
           \E c \in Command : c.type # "claim" /\ Enters(c)
<1>1. \A r \in Rows, v \in Values : [type |-> "put", row |-> r, value |-> v] \in Command
  BY DEF Command
<1>2. \A r \in Others : [type |-> "delete", row |-> r] \in Command
  BY DEF Command
<1>3. \A i \in Incidents : [type |-> "complete", row |-> i] \in Command
  BY DEF Command
<1>4. ASSUME NEW r \in Rows, NEW v \in Values, Put(r, v)
      PROVE  \E c \in Command : c.type # "claim" /\ Enters(c)
  <2>1. [type |-> "put", row |-> r, value |-> v] \in Command
    BY <1>1
  <2> QED
    BY <2>1, <1>4 DEF Put, Enters
<1>5. ASSUME NEW r \in Others, Remove(r)
      PROVE  \E c \in Command : c.type # "claim" /\ Enters(c)
  <2>1. [type |-> "delete", row |-> r] \in Command
    BY <1>2
  <2> QED
    BY <2>1, <1>5 DEF Remove, Enters
<1>6. ASSUME NEW i \in Incidents, CompleteDelivery(i)
      PROVE  \E c \in Command : c.type # "claim" /\ Enters(c)
  <2>1. [type |-> "complete", row |-> i] \in Command
    BY <1>3
  <2> QED
    BY <2>1, <1>6 DEF CompleteDelivery, Enters
<1> QED
  BY <1>4, <1>5, <1>6

\* The claim that n's engine waits for from now on.
LEMMA ClaimEntry ==
    ASSUME TypeOK, NEW n \in Nodes, NEW k \in Keys, ClaimDelivery(n, k)
    PROVE  /\ [type |-> "claim", key |-> k, at |-> clock] \in Command
           /\ Commit([type |-> "claim", key |-> k, at |-> clock])
           /\ awaits' = [awaits EXCEPT ![n] = Len(log')]
           /\ UNCHANGED <<clock, file, applied, reached, snapshot, granted>>
<1>1. clock \in Times
  BY DEF TypeOK
<1> QED
  BY <1>1 DEF ClaimDelivery, Command

LEMMA EntersTypeOK ==
    ASSUME TypeOK, NEW c \in Command, Commit(c),
           UNCHANGED <<clock, file, applied, reached, snapshot, granted>>,
           \/ awaits' = awaits
           \/ \E n \in Nodes : awaits' = [awaits EXCEPT ![n] = Len(log')]
    PROVE  TypeOK'
<1>1. log' \in Seq(Command) /\ Len(log') \in Indices
      /\ Len(log) \in Nat /\ Len(log') = Len(log) + 1
  BY Committed
<1>2. 0..Len(log) \subseteq 0..Len(log') /\ 1..Len(log) \subseteq 1..Len(log')
      /\ Len(log') \in 0..Len(log')
  BY <1>1
<1>3. applied' \in [Nodes -> 0..Len(log')] /\ reached' \in [Nodes -> 0..Len(log')]
  BY <1>2 DEF TypeOK
<1>4. snapshot' \in [Nodes -> [index : 0..Len(log'), reached : 0..Len(log'), file : File]]
  <2>1. [index : 0..Len(log), reached : 0..Len(log), file : File]
            \subseteq [index : 0..Len(log'), reached : 0..Len(log'), file : File]
    BY <1>2
  <2> QED
    BY <2>1 DEF TypeOK
<1>5. awaits' \in [Nodes -> 0..Len(log')]
  BY <1>2 DEF TypeOK
<1>6. granted' \subseteq 1..Len(log')
  BY <1>2 DEF TypeOK
<1> QED
  BY <1>1, <1>3, <1>4, <1>5, <1>6 DEF TypeOK

LEMMA ApplyTypeOK ==
    ASSUME TypeOK, NEW n \in Nodes, ApplyEntry(n)
    PROVE  TypeOK'
<1> DEFINE i == applied[n] + 1
<1>1. applied[n] \in Nat /\ Len(log) \in Nat /\ applied[n] < Len(log)
  BY DEF TypeOK, ApplyEntry, Indices
<1>2. i \in 1..Len(log)
  BY <1>1
<1>3. log[i] \in Command
  BY <1>2, ElementOfSeq DEF TypeOK
<1>4. Execute(file[n], log[i]) \in File
  BY <1>3, ExecuteRows DEF TypeOK
<1>5. file' \in [Nodes -> File]
  BY <1>4 DEF ApplyEntry, TypeOK
<1>6. applied' \in [Nodes -> 0..Len(log)] /\ reached' \in [Nodes -> 0..Len(log)]
  BY <1>2 DEF ApplyEntry, TypeOK
<1>7. awaits' \in [Nodes -> 0..Len(log)] /\ granted' \subseteq 1..Len(log)
  <2>1. \/ awaits' = [awaits EXCEPT ![n] = 0] /\ granted' \in {granted, granted \cup {i}}
        \/ awaits' = awaits /\ granted' = granted
    BY DEF ApplyEntry
  <2>2. 0 \in 0..Len(log)
    BY <1>1
  <2> QED
    BY <1>2, <2>1, <2>2 DEF TypeOK
<1>8. UNCHANGED <<log, clock, snapshot>>
  BY DEF ApplyEntry
<1> QED
  BY <1>5, <1>6, <1>7, <1>8 DEF TypeOK

LEMMA SnapshotIsFile ==
    ASSUME NEW f \in File, NEW kept \in SUBSET Keys
    PROVE  /\ SnapshotOf(f, kept) \in File
           /\ SnapshotOf(f, kept).rows = f.rows
           /\ \A k \in Keys :
                  SnapshotOf(f, kept).claims[k] = IF k \in kept THEN f.claims[k] ELSE None
  BY DEF SnapshotOf, File

LEMMA SnapshotTypeOK ==
    ASSUME TypeOK, NEW n \in Nodes, TakeSnapshot(n)
    PROVE  TypeOK'
<1>1. PICK kept \in SUBSET Keys :
          snapshot' = [snapshot EXCEPT ![n] =
              [index |-> applied[n], reached |-> reached[n],
               file |-> SnapshotOf(file[n], kept)]]
  BY DEF TakeSnapshot
<1>2. SnapshotOf(file[n], kept) \in File
  BY SnapshotIsFile DEF TypeOK
<1>3. snapshot' \in [Nodes -> [index : 0..Len(log), reached : 0..Len(log), file : File]]
  BY <1>1, <1>2 DEF TypeOK
<1> QED
  BY <1>3 DEF TypeOK, TakeSnapshot

LEMMA RestartTypeOK ==
    ASSUME TypeOK, NEW n \in Nodes, RestartNode(n)
    PROVE  TypeOK'
<1>1. /\ snapshot[n].index \in 0..Len(log) /\ snapshot[n].reached \in 0..Len(log)
      /\ snapshot[n].file \in File
  BY DEF TypeOK
<1>2. applied' \in [Nodes -> 0..Len(log)]
  BY <1>1 DEF TypeOK, RestartNode
<1>3. file' \in [Nodes -> File] /\ reached' \in [Nodes -> 0..Len(log)]
  BY <1>1 DEF TypeOK, RestartNode, Restored
<1>4. awaits' \in [Nodes -> 0..Len(log)]
  <2>1. 0 \in 0..Len(log)
    BY DEF TypeOK, Indices
  <2> QED
    BY <2>1 DEF TypeOK, RestartNode
<1> QED
  BY <1>2, <1>3, <1>4 DEF TypeOK, RestartNode

LEMMA InstallTypeOK ==
    ASSUME TypeOK, NEW n \in Nodes, NEW m \in Nodes, InstallSnapshot(n, m)
    PROVE  TypeOK'
<1>1. /\ snapshot[m] \in [index : 0..Len(log), reached : 0..Len(log), file : File]
      /\ snapshot[m].index \in 0..Len(log) /\ snapshot[m].reached \in 0..Len(log)
      /\ snapshot[m].file \in File
  BY DEF TypeOK
<1>2. /\ applied' \in [Nodes -> 0..Len(log)] /\ reached' \in [Nodes -> 0..Len(log)]
      /\ file' \in [Nodes -> File]
      /\ snapshot' \in [Nodes -> [index : 0..Len(log), reached : 0..Len(log), file : File]]
  BY <1>1 DEF TypeOK, InstallSnapshot, Restored
<1> QED
  BY <1>2 DEF TypeOK, InstallSnapshot

\* What pruning leaves of the file of n.
LEMMA Pruned ==
    ASSUME TypeOK, NEW n \in Nodes, PruneOldData(n)
    PROVE  /\ file' \in [Nodes -> File]
           /\ \A m \in Nodes : m # n => file'[m] = file[m]
           /\ file'[n].rows = file[n].rows
           /\ \A k \in Keys : file'[n].claims[k] =
                  IF file[n].claims[k] # None /\ Expired(file[n].claims[k])
                  THEN None ELSE file[n].claims[k]
<1> DEFINE claims == [k \in Keys |-> IF file[n].claims[k] # None /\ Expired(file[n].claims[k])
                                     THEN None ELSE file[n].claims[k]]
<1>1. file \in [Nodes -> File] /\ file[n] \in File
  BY DEF TypeOK
<1>2. file' = [file EXCEPT ![n] = [file[n] EXCEPT !.claims = claims]]
  BY <1>1 DEF PruneOldData
<1>3. claims \in [Keys -> Times \cup {None}]
  BY <1>1 DEF File
<1>4. /\ [file[n] EXCEPT !.claims = claims] \in File
      /\ [file[n] EXCEPT !.claims = claims].rows = file[n].rows
      /\ [file[n] EXCEPT !.claims = claims].claims = claims
  BY <1>1, <1>3 DEF File
<1> QED
  BY <1>1, <1>2, <1>4

LEMMA PruneTypeOK ==
    ASSUME TypeOK, NEW n \in Nodes, PruneOldData(n)
    PROVE  TypeOK'
  BY Pruned DEF TypeOK, PruneOldData

LEMMA StepTypeOK ==
    ASSUME TypeOK, [Next]_vars
    PROVE  TypeOK'
<1>1. ASSUME NEW c \in Command, Enters(c)
      PROVE  TypeOK'
  BY <1>1, EntersTypeOK DEF Enters
<1>2. ASSUME NEW r \in Rows, NEW v \in Values, Put(r, v)
      PROVE  TypeOK'
  BY <1>1, <1>2, QuietEntries
<1>3. ASSUME NEW r \in Others, Remove(r)
      PROVE  TypeOK'
  BY <1>1, <1>3, QuietEntries
<1>4. ASSUME NEW i \in Incidents, CompleteDelivery(i)
      PROVE  TypeOK'
  BY <1>1, <1>4, QuietEntries
<1>5. ASSUME NEW n \in Nodes, NEW k \in Keys, ClaimDelivery(n, k)
      PROVE  TypeOK'
  BY <1>5, ClaimEntry, EntersTypeOK
<1>6. ASSUME NEW n \in Nodes, ApplyEntry(n)
      PROVE  TypeOK'
  BY <1>6, ApplyTypeOK
<1>7. ASSUME NEW n \in Nodes, TakeSnapshot(n)
      PROVE  TypeOK'
  BY <1>7, SnapshotTypeOK
<1>8. ASSUME NEW n \in Nodes, RestartNode(n)
      PROVE  TypeOK'
  BY <1>8, RestartTypeOK
<1>9. ASSUME NEW n \in Nodes, PruneOldData(n)
      PROVE  TypeOK'
  BY <1>9, PruneTypeOK
<1>10. ASSUME NEW n \in Nodes, NEW m \in Nodes, InstallSnapshot(n, m)
       PROVE  TypeOK'
  BY <1>10, InstallTypeOK
<1>11. CASE Tick
  BY <1>11 DEF Tick, TypeOK, Times
<1>12. CASE UNCHANGED vars
  BY <1>12 DEF vars, TypeOK
<1> QED
  BY <1>2, <1>3, <1>4, <1>5, <1>6, <1>7, <1>8, <1>9, <1>10, <1>11, <1>12 DEF Next

LEMMA InitTypeOK ==
    ASSUME Init
    PROVE  TypeOK
<1>1. EmptyFile \in File
  BY DEF EmptyFile, File
<1>2. log \in Seq(Command) /\ Len(log) = 0
  BY EmptySeq DEF Init
<1>3. snapshot \in [Nodes -> [index : 0..Len(log), reached : 0..Len(log), file : File]]
  BY <1>1, <1>2 DEF Init
<1> QED
  BY <1>1, <1>2, <1>3 DEF Init, TypeOK, Indices, Times

\* The log, the files, the snapshots and what the engines wait for are of their
\* types: Store and FSM never leave a row or a claim half written.
THEOREM StoreTypes == Spec => []TypeOK
<1>1. Init => TypeOK
  BY InitTypeOK
<1>2. TypeOK /\ [Next]_vars => TypeOK'
  BY StepTypeOK
<1> QED
  BY <1>1, <1>2, PTL DEF Spec

-----------------------------------------------------------------------------
(* The rows of every file and every snapshot                               *)

LEMMA RowsPrefix ==
    ASSUME NEW L, NEW M, NEW f, NEW a \in Nat, NEW R \in Nat,
           \A i \in 1..R : M[i] = L[i],
           RowsOf(L, f, a, R)
    PROVE  RowsOf(M, f, a, R)
  BY RowPrefix DEF RowsOf

LEMMA SameRows ==
    ASSUME NEW L, NEW f, NEW g, NEW a, NEW R, f.rows = g.rows, RowsOf(L, f, a, R)
    PROVE  RowsOf(L, g, a, R)
  BY DEF RowsOf

\* The file of a node that starts over, with no snapshot to restore.
LEMMA RowsFromTheStart ==
    ASSUME NEW L, NEW f, NEW a \in Nat, NEW R \in Nat, RowsOf(L, f, a, R)
    PROVE  RowsOf(L, f, 0, R)
<1> SUFFICES ASSUME NEW r \in Rows
             PROVE  RowOf(L, f.rows[r], r, 0, R)
  BY DEF RowsOf
<1>1. OnlyPut(L, f.rows[r], r, R) /\ FirstKept(L, f.rows[r], r, R)
  BY DEF RowsOf, RowOf
<1>2. /\ GoneAfterDelete(L, f.rows[r], r, 0)
      /\ ThereAfterPut(L, f.rows[r], r, 0)
      /\ FirstAfterDelete(L, f.rows[r], r, 0)
  BY DEF GoneAfterDelete, ThereAfterPut, FirstAfterDelete
<1> QED
  BY <1>1, <1>2 DEF RowOf

LEMMA TypesOf ==
    ASSUME TypeOK, NEW n \in Nodes
    PROVE  /\ Len(log) \in Nat /\ clock \in Nat
           /\ applied[n] \in Nat /\ applied[n] <= Len(log)
           /\ reached[n] \in Nat /\ reached[n] <= Len(log)
           /\ file[n] \in File
           /\ snapshot[n].index \in Nat /\ snapshot[n].index <= Len(log)
           /\ snapshot[n].reached \in Nat /\ snapshot[n].reached <= Len(log)
           /\ snapshot[n].file \in File
           /\ awaits[n] \in Nat /\ awaits[n] <= Len(log)
<1>1. Len(log) \in Nat /\ clock \in Nat
  BY DEF TypeOK, Indices, Times
<1>2. snapshot[n] \in [index : 0..Len(log), reached : 0..Len(log), file : File]
  BY DEF TypeOK
<1> QED
  BY <1>1, <1>2 DEF TypeOK

LEMMA EntersRows ==
    ASSUME TypeOK, RowsInv, NEW c \in Command, Commit(c),
           UNCHANGED <<file, applied, reached, snapshot>>
    PROVE  RowsInv'
<1> SUFFICES ASSUME NEW n \in Nodes
             PROVE  /\ RowsOf(log', file[n], applied[n], reached[n])
                    /\ RowsOf(log', snapshot[n].file, snapshot[n].index, snapshot[n].reached)
  BY DEF RowsInv
<1>1. \A i \in 1..Len(log) : log'[i] = log[i]
  BY Committed
<1>2. /\ \A i \in 1..reached[n] : log'[i] = log[i]
      /\ \A i \in 1..snapshot[n].reached : log'[i] = log[i]
  BY <1>1, TypesOf
<1>3. /\ RowsOf(log, file[n], applied[n], reached[n])
      /\ RowsOf(log, snapshot[n].file, snapshot[n].index, snapshot[n].reached)
  BY DEF RowsInv
<1> QED
  BY <1>2, <1>3, RowsPrefix, TypesOf

LEMMA ApplyRows ==
    ASSUME TypeOK, RowsInv, NEW n \in Nodes, ApplyEntry(n)
    PROVE  RowsInv'
<1> DEFINE i == applied[n] + 1
<1>1. /\ file' = [file EXCEPT ![n] = Execute(file[n], log[i])]
      /\ applied' = [applied EXCEPT ![n] = i]
      /\ reached' = [reached EXCEPT ![n] = Reaches(reached[n], i)]
      /\ log' = log /\ snapshot' = snapshot
      /\ i \in 1..Len(log)
  BY TypesOf DEF ApplyEntry, Reaches
<1>2. log[i] \in Command
  BY <1>1, ElementOfSeq DEF TypeOK
<1>3. RowsOf(log, file[n], applied[n], reached[n])
  BY DEF RowsInv
<1>4. RowsOf(log, Execute(file[n], log[i]), i, Reaches(reached[n], i))
  BY <1>2, <1>3, TypesOf, ExecuteKeepsRows
<1>5. file'[n] = Execute(file[n], log[i]) /\ applied'[n] = i
      /\ reached'[n] = Reaches(reached[n], i)
  BY <1>1 DEF TypeOK
<1>6. \A m \in Nodes : m # n =>
          file'[m] = file[m] /\ applied'[m] = applied[m] /\ reached'[m] = reached[m]
  BY <1>1 DEF TypeOK
<1> QED
  BY <1>1, <1>4, <1>5, <1>6 DEF RowsInv

LEMMA SnapshotRows ==
    ASSUME TypeOK, RowsInv, NEW n \in Nodes, TakeSnapshot(n)
    PROVE  RowsInv'
<1>1. PICK kept \in SUBSET Keys :
          snapshot' = [snapshot EXCEPT ![n] =
              [index |-> applied[n], reached |-> reached[n],
               file |-> SnapshotOf(file[n], kept)]]
  BY DEF TakeSnapshot
<1>2. SnapshotOf(file[n], kept).rows = file[n].rows
  BY SnapshotIsFile, TypesOf
<1>3. RowsOf(log, SnapshotOf(file[n], kept), applied[n], reached[n])
  BY <1>2, SameRows DEF RowsInv
<1>4. /\ snapshot'[n].file = SnapshotOf(file[n], kept)
      /\ snapshot'[n].index = applied[n] /\ snapshot'[n].reached = reached[n]
  BY <1>1 DEF TypeOK
<1>5. \A m \in Nodes : m # n => snapshot'[m] = snapshot[m]
  BY <1>1 DEF TypeOK
<1>6. UNCHANGED <<log, file, applied, reached>>
  BY DEF TakeSnapshot
<1> QED
  BY <1>3, <1>4, <1>5, <1>6 DEF RowsInv

LEMMA RestartRows ==
    ASSUME TypeOK, RowsInv, NEW n \in Nodes, RestartNode(n)
    PROVE  RowsInv'
<1>1. UNCHANGED <<log, snapshot>> /\ applied' = [applied EXCEPT ![n] = snapshot[n].index]
  BY DEF RestartNode
<1>2. \A m \in Nodes : m # n =>
          file'[m] = file[m] /\ applied'[m] = applied[m] /\ reached'[m] = reached[m]
  BY DEF RestartNode, TypeOK
<1>3. /\ RowsOf(log, file[n], applied[n], reached[n])
      /\ RowsOf(log, snapshot[n].file, snapshot[n].index, snapshot[n].reached)
  BY DEF RowsInv
<1>4. RowsOf(log, file'[n], applied'[n], reached'[n])
  <2>1. applied'[n] = snapshot[n].index
    BY <1>1 DEF TypeOK
  <2>2. CASE snapshot[n].index = 0
    <3>1. file'[n] = file[n] /\ reached'[n] = reached[n]
      BY <2>2 DEF RestartNode
    <3> QED
      BY <1>3, <2>1, <2>2, <3>1, TypesOf, RowsFromTheStart
  <2>3. CASE snapshot[n].index # 0
    <3>1. file'[n] = snapshot[n].file /\ reached'[n] = snapshot[n].reached
      BY <2>3 DEF RestartNode, Restored, TypeOK
    <3> QED
      BY <1>3, <2>1, <3>1
  <2> QED
    BY <2>2, <2>3
<1> QED
  BY <1>1, <1>2, <1>4 DEF RowsInv

LEMMA InstallRows ==
    ASSUME TypeOK, RowsInv, NEW n \in Nodes, NEW m \in Nodes, InstallSnapshot(n, m)
    PROVE  RowsInv'
<1>1. /\ log' = log
      /\ snapshot'[n] = snapshot[m] /\ file'[n] = snapshot[m].file
      /\ applied'[n] = snapshot[m].index /\ reached'[n] = snapshot[m].reached
  BY DEF InstallSnapshot, Restored, TypeOK
<1>2. \A p \in Nodes : p # n =>
          /\ file'[p] = file[p] /\ applied'[p] = applied[p] /\ reached'[p] = reached[p]
          /\ snapshot'[p] = snapshot[p]
  BY DEF InstallSnapshot, TypeOK
<1> QED
  BY <1>1, <1>2 DEF RowsInv

LEMMA PruneRows ==
    ASSUME TypeOK, RowsInv, NEW n \in Nodes, PruneOldData(n)
    PROVE  RowsInv'
<1>1. UNCHANGED <<log, applied, reached, snapshot>>
  BY DEF PruneOldData
<1>2. \A m \in Nodes : file'[m].rows = file[m].rows
  BY Pruned
<1> QED
  BY <1>1, <1>2, SameRows DEF RowsInv

LEMMA StepRows ==
    ASSUME TypeOK, RowsInv, [Next]_vars
    PROVE  RowsInv'
<1>1. ASSUME NEW c \in Command, Enters(c)
      PROVE  RowsInv'
  BY <1>1, EntersRows DEF Enters
<1>2. ASSUME NEW r \in Rows, NEW v \in Values, Put(r, v)
      PROVE  RowsInv'
  BY <1>1, <1>2, QuietEntries
<1>3. ASSUME NEW r \in Others, Remove(r)
      PROVE  RowsInv'
  BY <1>1, <1>3, QuietEntries
<1>4. ASSUME NEW i \in Incidents, CompleteDelivery(i)
      PROVE  RowsInv'
  BY <1>1, <1>4, QuietEntries
<1>5. ASSUME NEW n \in Nodes, NEW k \in Keys, ClaimDelivery(n, k)
      PROVE  RowsInv'
  BY <1>5, ClaimEntry, EntersRows
<1>6. ASSUME NEW n \in Nodes, ApplyEntry(n)
      PROVE  RowsInv'
  BY <1>6, ApplyRows
<1>7. ASSUME NEW n \in Nodes, TakeSnapshot(n)
      PROVE  RowsInv'
  BY <1>7, SnapshotRows
<1>8. ASSUME NEW n \in Nodes, RestartNode(n)
      PROVE  RowsInv'
  BY <1>8, RestartRows
<1>9. ASSUME NEW n \in Nodes, PruneOldData(n)
      PROVE  RowsInv'
  BY <1>9, PruneRows
<1>10. ASSUME NEW n \in Nodes, NEW m \in Nodes, InstallSnapshot(n, m)
       PROVE  RowsInv'
  BY <1>10, InstallRows
<1>11. CASE Tick
  BY <1>11 DEF Tick, RowsInv
<1>12. CASE UNCHANGED vars
  BY <1>12 DEF vars, RowsInv
<1> QED
  BY <1>2, <1>3, <1>4, <1>5, <1>6, <1>7, <1>8, <1>9, <1>10, <1>11, <1>12 DEF Next

LEMMA InitRows ==
    ASSUME Init
    PROVE  RowsInv
<1>1. \A r \in Rows : EmptyFile.rows[r] = None
  BY DEF EmptyFile
<1>2. \A r \in Rows : RowOf(log, None, r, 0, 0)
  BY DEF RowOf, OnlyPut, FirstKept, GoneAfterDelete, ThereAfterPut, FirstAfterDelete
<1>3. RowsOf(log, EmptyFile, 0, 0)
  BY <1>1, <1>2 DEF RowsOf
<1> QED
  BY <1>3 DEF Init, RowsInv

\* Files that have applied all that they have seen, and as much, have the same rows.
LEMMA RowsAgree ==
    ASSUME TypeOK, RowsInv
    PROVE  ReplicasAgree
<1> SUFFICES ASSUME NEW n \in Nodes, NEW m \in Nodes,
                    Level(n), Level(m), applied[n] = applied[m]
             PROVE  file[n].rows = file[m].rows
  BY DEF ReplicasAgree
<1> DEFINE a == applied[n]
<1>1. RowsOf(log, file[n], a, a) /\ RowsOf(log, file[m], a, a)
  BY DEF RowsInv, Level
<1>2. file[n].rows \in [Rows -> Row \cup {None}] /\ file[m].rows \in [Rows -> Row \cup {None}]
  BY TypesOf DEF File
<1>3. a \in Nat
  BY TypesOf
<1>4. \A r \in Rows : file[n].rows[r] = file[m].rows[r]
  BY <1>1, <1>2, <1>3, RowDetermined DEF RowsOf
<1> QED
  BY <1>2, <1>4

\* Wherever its rows came from, a restart, a snapshot or the log applied twice, a
\* replica that has caught up with what its file has seen has those of any other.
THEOREM CaughtUpReplicasAgree == Spec => []ReplicasAgree
<1>1. Init => TypeOK /\ RowsInv
  BY InitTypeOK, InitRows
<1>2. TypeOK /\ RowsInv /\ [Next]_vars => TypeOK' /\ RowsInv'
  BY StepTypeOK, StepRows
<1>3. TypeOK /\ RowsInv => ReplicasAgree
  BY RowsAgree
<1> QED
  BY <1>1, <1>2, <1>3, PTL DEF Spec

-----------------------------------------------------------------------------
(* Claims and the entries about them                                       *)

LEMMA ClaimType ==
    ASSUME TypeOK, NEW i \in 1..Len(log)
    PROVE  /\ log[i] \in Command
           /\ log[i].type = "claim" => log[i].key \in Keys /\ log[i].at \in Nat
<1>1. log[i] \in Command
  BY ElementOfSeq DEF TypeOK
<1> QED
  BY <1>1 DEF Command, Times

\* As many deliveries as there are entries, at most.
LEMMA NotOlderFinite ==
    ASSUME NEW i, NEW j \in Nat
    PROVE  /\ IsFiniteSet(NotOlder(i, j))
           /\ Cardinality(NotOlder(i, j)) \in Nat
<1> DEFINE S == {log[l].key : l \in 1..j}
<1>1. IsFiniteSet(S)
  <2>1. IsFiniteSet(1..j)
    BY FS_Interval
  <2>2. [l \in 1..j |-> log[l].key] \in Surjection(1..j, S)
    BY DEF Surjection
  <2> QED
    BY <2>1, <2>2, FS_Surjection
<1>2. NotOlder(i, j) \subseteq S
  BY DEF NotOlder, IsClaim
<1> QED
  BY <1>1, <1>2, FS_Subset, FS_CardinalityType

LEMMA NotOlderGrows ==
    ASSUME NEW i, NEW j \in Nat, NEW k \in Nat, j <= k
    PROVE  Cardinality(NotOlder(i, j)) <= Cardinality(NotOlder(i, k))
<1>1. NotOlder(i, j) \subseteq NotOlder(i, k)
  BY DEF NotOlder
<1> QED
  BY <1>1, NotOlderFinite, FS_Subset

\* The first claim of the key of a claim.
LEMMA HasFirstClaim ==
    ASSUME NEW i \in Nat, 1 <= i, log[i].type = "claim"
    PROVE  \E f \in 1..i : IsClaim(f, log[i].key) /\ FirstClaim(f)
<1> DEFINE S == {j \in 1..i : IsClaim(j, log[i].key)}
<1>1. S # {} /\ S \subseteq Nat
  BY DEF IsClaim
<1>2. PICK f \in S : \A k \in S : f <= k
  BY <1>1, HasFirst
<1> QED
  BY <1>2 DEF FirstClaim, IsClaim

\* A file knows a delivery by a claim that is not before its first.
LEMMA KnownNotBeforeFirst ==
    ASSUME TypeOK, LogInv, NEW f, NEW R \in Nat, R <= Len(log), ClaimsSeen(f, R),
           NEW i \in 1..Len(log), log[i].type = "claim", FirstClaim(i),
           f.claims[log[i].key] # None
    PROVE  f.claims[log[i].key] \in Nat /\ log[i].at <= f.claims[log[i].key]
<1>1. log[i].key \in Keys
  BY ClaimType
<1>2. PICK l \in 1..R : IsClaim(l, log[i].key) /\ log[l].at = f.claims[log[i].key]
  BY <1>1 DEF ClaimsSeen
<1>3. l \in 1..Len(log) /\ i <= l
  BY <1>2 DEF FirstClaim, IsClaim
<1> QED
  BY <1>2, <1>3, ClaimType DEF LogInv, IsClaim

LEMMA KnownLater ==
    ASSUME TypeOK, NEW f, NEW a \in Nat, a <= Len(log), NEW R, NEW T \in Nat, NEW U \in Nat,
           T <= U, KnownAt(f, a, R, T)
    PROVE  KnownAt(f, a, R, U)
<1> SUFFICES ASSUME NEW i \in 1..a,
                    log[i].type = "claim", FirstClaim(i), ~(log[i].at + Retention < U),
                    Cardinality(NotOlder(i, R)) < Limit
             PROVE  f.claims[log[i].key] # None
  BY DEF KnownAt
<1>1. i \in 1..Len(log)
  OBVIOUS
<1>2. log[i].at \in Nat
  BY <1>1, ClaimType
<1>3. ~(log[i].at + Retention < T)
  BY <1>2
<1> QED
  BY <1>3 DEF KnownAt

\* A snapshot drops no delivery that is followed by fewer than Limit others.
LEMMA SnapshotKnows ==
    ASSUME TypeOK, LogInv, NEW f, NEW a \in Nat, a <= Len(log),
           NEW R \in Nat, R <= Len(log), NEW T, ClaimsSeen(f, R), KnownAt(f, a, R, T),
           NEW g, NEW kept \in SUBSET Keys, Keeps(f, kept),
           \A k \in Keys : g.claims[k] = IF k \in kept THEN f.claims[k] ELSE None
    PROVE  KnownAt(g, a, R, T)
<1> SUFFICES ASSUME NEW i \in 1..a,
                    log[i].type = "claim", FirstClaim(i), ~(log[i].at + Retention < T),
                    Cardinality(NotOlder(i, R)) < Limit
             PROVE  g.claims[log[i].key] # None
  BY DEF KnownAt
<1> DEFINE key == log[i].key
<1>1. i \in 1..Len(log)
  OBVIOUS
<1>2. key \in Keys /\ log[i].at \in Nat
  BY <1>1, ClaimType
<1>3. f.claims[key] # None
  BY DEF KnownAt
<1>4. f.claims[key] \in Nat /\ log[i].at <= f.claims[key]
  BY <1>1, <1>3, KnownNotBeforeFirst
<1>5. CASE key \in kept
  BY <1>2, <1>3, <1>5
<1>6. CASE key \notin kept
  <2>1. key \in Known(f) \ kept
    BY <1>2, <1>3, <1>6 DEF Known
  <2>2. Cardinality(kept) = Limit /\ \A k \in kept : f.claims[k] >= f.claims[key]
    BY <2>1 DEF Keeps
  <2>3. kept \subseteq NotOlder(i, R)
    <3> SUFFICES ASSUME NEW k \in kept
                 PROVE  k \in NotOlder(i, R)
      OBVIOUS
    <3>1. k \in Keys \ {key} /\ f.claims[k] # None
      BY <1>6 DEF Keeps, Known
    <3>2. PICK l \in 1..R : IsClaim(l, k) /\ log[l].at = f.claims[k]
      BY <3>1 DEF ClaimsSeen
    <3>3. l \in 1..Len(log)
      OBVIOUS
    <3>4. log[l].at \in Nat
      BY <3>2, <3>3, ClaimType DEF IsClaim
    <3>5. log[l].at >= log[i].at
      BY <1>2, <1>4, <2>2, <3>2, <3>4
    <3> QED
      BY <3>1, <3>2, <3>5 DEF NotOlder
  <2>4. Cardinality(kept) <= Cardinality(NotOlder(i, R))
    BY <2>3, NotOlderFinite, FS_Subset
  <2> QED
    BY <2>2, <2>4, NotOlderFinite
<1> QED
  BY <1>5, <1>6

\* Pruning drops no delivery that is within the retention.
LEMMA PrunedKnows ==
    ASSUME TypeOK, LogInv, NEW f, NEW a \in Nat, a <= Len(log),
           NEW R \in Nat, R <= Len(log), ClaimsSeen(f, R), KnownAt(f, a, R, clock),
           NEW g,
           \A k \in Keys : g.claims[k] = IF f.claims[k] # None /\ Expired(f.claims[k])
                                         THEN None ELSE f.claims[k]
    PROVE  KnownAt(g, a, R, clock)
<1> SUFFICES ASSUME NEW i \in 1..a,
                    log[i].type = "claim", FirstClaim(i), ~(log[i].at + Retention < clock),
                    Cardinality(NotOlder(i, R)) < Limit
             PROVE  g.claims[log[i].key] # None
  BY DEF KnownAt
<1> DEFINE key == log[i].key
<1>1. i \in 1..Len(log)
  OBVIOUS
<1>2. key \in Keys /\ log[i].at \in Nat
  BY <1>1, ClaimType
<1>3. f.claims[key] # None
  BY DEF KnownAt
<1>4. f.claims[key] \in Nat /\ log[i].at <= f.claims[key]
  BY <1>1, <1>3, KnownNotBeforeFirst
<1>5. clock \in Nat
  BY DEF TypeOK, Times
<1>6. ~Expired(f.claims[key])
  BY <1>2, <1>4, <1>5 DEF Expired
<1> QED
  BY <1>2, <1>3, <1>6

-----------------------------------------------------------------------------
(* The claims of every file and every snapshot                             *)

\* What is said of entries that are in the log already stays so.
LEMMA ClaimsPrefix ==
    ASSUME TypeOK, NEW c \in Command, Commit(c)
    PROVE  /\ \A i \in 1..Len(log), k \in Keys : IsClaim(i, k)' <=> IsClaim(i, k)
           /\ \A i \in 1..Len(log) : FirstClaim(i)' <=> FirstClaim(i)
           /\ \A i \in 1..Len(log), j \in 0..Len(log) : NotOlder(i, j)' = NotOlder(i, j)
<1>1. Len(log) \in Nat /\ \A i \in 1..Len(log) : log'[i] = log[i]
  BY Committed
<1>2. \A i \in 1..Len(log) : FirstClaim(i)' <=> FirstClaim(i)
  BY <1>1 DEF FirstClaim, IsClaim
<1>3. \A i \in 1..Len(log), j \in 0..Len(log) : NotOlder(i, j)' = NotOlder(i, j)
  <2> SUFFICES ASSUME NEW i \in 1..Len(log), NEW j \in 0..Len(log), NEW k \in Keys
               PROVE  (\E l \in 1..j : IsClaim(l, k)' /\ log'[l].at >= log[i].at)
                          <=> \E l \in 1..j : IsClaim(l, k) /\ log[l].at >= log[i].at
    BY <1>1 DEF NotOlder
  <2> QED
    BY <1>1 DEF IsClaim
<1> QED
  BY <1>1, <1>2, <1>3 DEF IsClaim

\* What TypeOK and the rows say of how far a node has come.
LEMMA HowFar ==
    ASSUME TypeOK, RowsInv, NEW n \in Nodes
    PROVE  applied[n] <= reached[n] /\ snapshot[n].index <= snapshot[n].reached
  BY DEF RowsInv, RowsOf

LEMMA PrunedAtType ==
    ASSUME TypeOK, LogInv, AwaitsInv, NEW n \in Nodes
    PROVE  PrunedAt(n) \in Nat /\ PrunedAt(n) <= clock
<1>1. CASE awaits[n] = 0
  BY <1>1, TypesOf DEF PrunedAt
<1>2. CASE awaits[n] # 0
  <2>1. awaits[n] \in 1..Len(log) /\ log[awaits[n]].type = "claim"
    BY <1>2, TypesOf DEF AwaitsInv
  <2> QED
    BY <1>2, <2>1, ClaimType DEF PrunedAt, LogInv
<1> QED
  BY <1>1, <1>2

LEMMA EntersClaims ==
    ASSUME TypeOK, RowsInv, ClaimsInv, NEW c \in Command, Commit(c),
           UNCHANGED <<clock, file, applied, reached, snapshot, granted>>,
           \/ c.type # "claim" /\ awaits' = awaits
           \/ \E n \in Nodes : /\ c.type = "claim" /\ c.at = clock
                               /\ awaits[n] = 0
                               /\ awaits' = [awaits EXCEPT ![n] = Len(log')]
    PROVE  ClaimsInv'
<1>1. /\ Len(log) \in Nat /\ Len(log') = Len(log) + 1
      /\ \A i \in 1..Len(log) : log'[i] = log[i]
      /\ log'[Len(log) + 1] = c
      /\ c.type = "claim" => c.at = clock
  BY Committed
<1>2. /\ \A i \in 1..Len(log), k \in Keys : IsClaim(i, k)' <=> IsClaim(i, k)
      /\ \A i \in 1..Len(log) : FirstClaim(i)' <=> FirstClaim(i)
      /\ \A i \in 1..Len(log), j \in 0..Len(log) : NotOlder(i, j)' = NotOlder(i, j)
  BY ClaimsPrefix
<1>3. LogInv'
  <2>1. clock \in Nat /\ clock' = clock
    BY DEF TypeOK, Times
  <2>2. \A i \in 1..Len(log') : i \in 1..Len(log) \/ i = Len(log) + 1
    BY <1>1
  <2> QED
    BY <1>1, <2>1, <2>2 DEF ClaimsInv, LogInv
<1>4. \A n \in Nodes : PrunedAt(n)' = PrunedAt(n)
  <2> SUFFICES ASSUME NEW n \in Nodes
               PROVE  PrunedAt(n)' = PrunedAt(n)
    OBVIOUS
  <2>1. awaits[n] \in 0..Len(log)
    BY TypesOf
  <2>2. CASE awaits'[n] = awaits[n]
    BY <1>1, <2>1, <2>2 DEF PrunedAt
  <2>3. CASE awaits'[n] # awaits[n]
    <3>1. awaits[n] = 0 /\ awaits'[n] = Len(log') /\ c.at = clock
      BY <2>3 DEF TypeOK
    <3> QED
      BY <1>1, <3>1 DEF PrunedAt
  <2> QED
    BY <2>2, <2>3
<1>5. KeptInv'
  <2> SUFFICES ASSUME NEW n \in Nodes
               PROVE  /\ ClaimsSeen(file[n], reached[n])'
                      /\ ClaimsSeen(snapshot[n].file, snapshot[n].reached)'
                      /\ KnownAt(file[n], applied[n], reached[n], PrunedAt(n))'
                      /\ KnownAt(snapshot[n].file, snapshot[n].index, snapshot[n].reached, clock)'
    BY DEF KeptInv
  <2>1. ASSUME NEW f, NEW R \in 0..Len(log), ClaimsSeen(f, R)
        PROVE  ClaimsSeen(f, R)'
    BY <1>1, <1>2, <2>1 DEF ClaimsSeen
  <2>2. ASSUME NEW f, NEW R \in 0..Len(log), NEW a \in 0..Len(log), NEW T, KnownAt(f, a, R, T)
        PROVE  KnownAt(f, a, R, T)'
    BY <1>1, <1>2, <2>2 DEF KnownAt
  <2>3. /\ ClaimsSeen(file[n], reached[n])
        /\ ClaimsSeen(snapshot[n].file, snapshot[n].reached)
        /\ KnownAt(file[n], applied[n], reached[n], PrunedAt(n))
        /\ KnownAt(snapshot[n].file, snapshot[n].index, snapshot[n].reached, clock)
    BY DEF ClaimsInv, KeptInv
  <2>4. /\ applied[n] \in 0..Len(log) /\ reached[n] \in 0..Len(log)
        /\ snapshot[n].index \in 0..Len(log) /\ snapshot[n].reached \in 0..Len(log)
    BY TypesOf
  <2> QED
    BY <1>4, <2>1, <2>2, <2>3, <2>4
<1>6. AwaitsInv'
  <2> SUFFICES ASSUME NEW n \in Nodes, awaits'[n] # 0
               PROVE  log'[awaits'[n]].type = "claim" /\ reached[n] < awaits'[n]
    BY DEF AwaitsInv
  <2>1. CASE awaits'[n] = awaits[n]
    <3>1. awaits[n] \in 1..Len(log)
      BY <2>1, TypesOf
    <3> QED
      BY <1>1, <2>1, <3>1 DEF ClaimsInv, AwaitsInv
  <2>2. CASE awaits'[n] # awaits[n]
    <3>1. awaits'[n] = Len(log') /\ c.type = "claim"
      BY <2>2 DEF TypeOK
    <3> QED
      BY <1>1, <3>1, TypesOf
  <2> QED
    BY <2>1, <2>2
<1>7. GrantInv'
  <2> SUFFICES ASSUME NEW j \in granted
               PROVE  /\ log'[j].type = "claim"
                      /\ \A f \in 1..j - 1 :
                             IsClaim(f, log[j].key)' /\ FirstClaim(f)' =>
                                 \/ log'[f].at + Retention < log'[j].at
                                 \/ Cardinality(NotOlder(f, j)') >= Limit
    BY DEF GrantInv
  <2>1. j \in 1..Len(log) /\ log[j].type = "claim" /\ log'[j] = log[j] /\ log[j].key \in Keys
    BY <1>1, ClaimType DEF ClaimsInv, GrantInv, TypeOK
  <2> SUFFICES ASSUME NEW f \in 1..j - 1, IsClaim(f, log[j].key)', FirstClaim(f)'
               PROVE  \/ log'[f].at + Retention < log'[j].at
                      \/ Cardinality(NotOlder(f, j)') >= Limit
    BY <2>1
  <2>2. f \in 1..Len(log) /\ log'[f] = log[f] /\ j \in 0..Len(log)
    BY <1>1, <2>1
  <2>3. IsClaim(f, log[j].key) /\ FirstClaim(f) /\ NotOlder(f, j)' = NotOlder(f, j)
    BY <1>2, <2>1, <2>2 DEF IsClaim
  <2> QED
    BY <2>1, <2>2, <2>3 DEF ClaimsInv, GrantInv
<1> QED
  BY <1>3, <1>5, <1>6, <1>7 DEF ClaimsInv

\* A claim is known once it has been executed, and no other entry drops one.
LEMMA ExecuteClaims ==
    ASSUME NEW f \in File, NEW c \in Command
    PROVE  LET g == Execute(f, c)
           IN  /\ \A k \in Keys : f.claims[k] # None => g.claims[k] = f.claims[k]
               /\ \A k \in Keys : g.claims[k] # None =>
                      \/ g.claims[k] = f.claims[k]
                      \/ c.type = "claim" /\ k = c.key /\ g.claims[k] = c.at
               /\ c.type = "claim" => g.claims[c.key] # None
<1>1. CASE c.type # "claim"
  BY <1>1, ExecuteRows
<1>2. CASE c.type = "claim"
  <2>1. c.key \in Keys /\ c.at \in Times
    BY <1>2 DEF Command
  <2>2. Execute(f, c) = Claim(f, c.key, c.at)
    BY <1>2 DEF Execute
  <2>3. CASE f.claims[c.key] = None
    <3>1. Claim(f, c.key, c.at).claims = [f.claims EXCEPT ![c.key] = c.at]
      BY <2>3 DEF Claim, Claims, File
    <3> QED
      BY <1>2, <2>1, <2>2, <2>3, <3>1 DEF File
  <2>4. CASE f.claims[c.key] # None
    BY <2>2, <2>4 DEF Claim, Claims
  <2> QED
    BY <2>3, <2>4
<1> QED
  BY <1>1, <1>2

LEMMA ApplyKnows ==
    ASSUME TypeOK, NEW f \in File, NEW a \in Nat, a + 1 <= Len(log),
           NEW R \in Nat, a <= R, R <= Len(log), NEW T, ClaimsSeen(f, R), KnownAt(f, a, R, T)
    PROVE  /\ ClaimsSeen(Execute(f, log[a + 1]), Reaches(R, a + 1))
           /\ KnownAt(Execute(f, log[a + 1]), a + 1, Reaches(R, a + 1), T)
<1> DEFINE i == a + 1
           c == log[i]
           g == Execute(f, c)
           S == Reaches(R, i)
<1>1. i \in 1..Len(log) /\ Len(log) \in Nat
  BY DEF TypeOK, Indices
<1>2. c \in Command /\ (c.type = "claim" => c.key \in Keys)
  BY <1>1, ClaimType
<1>3. S \in Nat /\ R <= S /\ i <= S
  BY DEF Reaches
<1>4. ClaimsSeen(g, S)
  <2> SUFFICES ASSUME NEW k \in Keys, g.claims[k] # None
               PROVE  \E l \in 1..S : IsClaim(l, k) /\ log[l].at = g.claims[k]
    BY DEF ClaimsSeen
  <2>1. CASE g.claims[k] = f.claims[k]
    BY <1>3, <2>1 DEF ClaimsSeen
  <2>2. CASE c.type = "claim" /\ k = c.key /\ g.claims[k] = c.at
    <3>1. i \in 1..S /\ IsClaim(i, k) /\ log[i].at = g.claims[k]
      BY <1>3, <2>2 DEF IsClaim
    <3> QED
      BY <3>1
  <2> QED
    BY <1>2, <2>1, <2>2, ExecuteClaims
<1>5. KnownAt(g, i, S, T)
  <2> SUFFICES ASSUME NEW j \in 1..i,
                      log[j].type = "claim", FirstClaim(j), ~(log[j].at + Retention < T),
                      Cardinality(NotOlder(j, S)) < Limit
               PROVE  g.claims[log[j].key] # None
    BY DEF KnownAt
  <2>1. CASE j = i
    BY <1>2, <2>1, ExecuteClaims
  <2>2. CASE j # i
    <3>1. j \in 1..a /\ j \in 1..Len(log)
      BY <1>1, <2>2
    <3>2. Cardinality(NotOlder(j, R)) < Limit
      BY <1>3, NotOlderFinite, NotOlderGrows
    <3>3. f.claims[log[j].key] # None
      BY <3>1, <3>2 DEF KnownAt
    <3>4. log[j].key \in Keys
      BY <3>1, ClaimType
    <3> QED
      BY <1>2, <3>3, <3>4, ExecuteClaims
  <2> QED
    BY <2>1, <2>2
<1> QED
  BY <1>4, <1>5

\* The answer to a claim: the file has seen nothing that comes after it.
LEMMA ApplyGrants ==
    ASSUME TypeOK, RowsInv, ClaimsInv, NEW n \in Nodes, ApplyEntry(n)
    PROVE  GrantInv'
<1> DEFINE i == applied[n] + 1
<1>1. log' = log
  BY DEF ApplyEntry
<1>2. CASE granted' = granted
  <2>1. \A j \in granted' :
            /\ log[j].type = "claim"
            /\ \A f \in 1..j - 1 :
                   IsClaim(f, log[j].key) /\ FirstClaim(f) =>
                       \/ log[f].at + Retention < log[j].at
                       \/ Cardinality(NotOlder(f, j)) >= Limit
    BY <1>2 DEF ClaimsInv, GrantInv
  <2> QED
    BY <1>1, <2>1 DEF GrantInv, IsClaim, FirstClaim, NotOlder
<1>3. CASE awaits[n] = i /\ Claims(file[n], log[i].key) /\ granted' = granted \cup {i}
  <2>1. log[i].type = "claim" /\ reached[n] < i
    BY <1>3, TypesOf DEF ClaimsInv, AwaitsInv
  <2>2. reached[n] = applied[n]
    BY <2>1, TypesOf, HowFar
  <2>3. KnownAt(file[n], applied[n], applied[n], log[i].at)
    <3>1. PrunedAt(n) = log[i].at
      BY <1>3, TypesOf DEF PrunedAt
    <3> QED
      BY <2>2, <3>1 DEF ClaimsInv, KeptInv
  <2>4. ASSUME NEW f \in 1..i - 1, IsClaim(f, log[i].key), FirstClaim(f)
        PROVE  \/ log[f].at + Retention < log[i].at
               \/ Cardinality(NotOlder(f, i)) >= Limit
    <3>1. f \in 1..applied[n]
      BY TypesOf
    <3>2. \/ log[f].at + Retention < log[i].at
          \/ ~(Cardinality(NotOlder(f, applied[n])) < Limit)
      BY <1>3, <2>3, <2>4, <3>1 DEF KnownAt, IsClaim, Claims
    <3>3. Cardinality(NotOlder(f, applied[n])) <= Cardinality(NotOlder(f, i))
      BY TypesOf, NotOlderGrows
    <3>4. /\ Cardinality(NotOlder(f, applied[n])) \in Nat
          /\ Cardinality(NotOlder(f, i)) \in Nat
      BY TypesOf, NotOlderFinite
    <3> QED
      BY <3>2, <3>3, <3>4
  <2>5. \A j \in granted' :
            /\ log[j].type = "claim"
            /\ \A f \in 1..j - 1 :
                   IsClaim(f, log[j].key) /\ FirstClaim(f) =>
                       \/ log[f].at + Retention < log[j].at
                       \/ Cardinality(NotOlder(f, j)) >= Limit
    BY <1>3, <2>1, <2>4 DEF ClaimsInv, GrantInv
  <2> QED
    BY <1>1, <2>5 DEF GrantInv, IsClaim, FirstClaim, NotOlder
<1> QED
  BY <1>2, <1>3 DEF ApplyEntry

LEMMA ApplyClaims ==
    ASSUME TypeOK, RowsInv, ClaimsInv, NEW n \in Nodes, ApplyEntry(n)
    PROVE  ClaimsInv'
<1> DEFINE i == applied[n] + 1
<1>1. /\ file' = [file EXCEPT ![n] = Execute(file[n], log[i])]
      /\ applied' = [applied EXCEPT ![n] = i]
      /\ reached' = [reached EXCEPT ![n] = Reaches(reached[n], i)]
      /\ log' = log /\ snapshot' = snapshot /\ clock' = clock
      /\ i \in 1..Len(log)
      /\ awaits' = IF awaits[n] = i THEN [awaits EXCEPT ![n] = 0] ELSE awaits
  BY TypesOf DEF ApplyEntry, Reaches
<1>2. /\ file'[n] = Execute(file[n], log[i]) /\ applied'[n] = i
      /\ reached'[n] = Reaches(reached[n], i)
      /\ awaits'[n] = IF awaits[n] = i THEN 0 ELSE awaits[n]
  BY <1>1 DEF TypeOK
<1>3. \A m \in Nodes : m # n =>
          /\ file'[m] = file[m] /\ applied'[m] = applied[m] /\ reached'[m] = reached[m]
          /\ awaits'[m] = awaits[m]
  BY <1>1 DEF TypeOK
<1>4. LogInv'
  BY <1>1 DEF ClaimsInv, LogInv
<1>5. PrunedAt(n)' \in Nat /\ PrunedAt(n)' >= PrunedAt(n)
  <2>1. LogInv /\ AwaitsInv
    BY DEF ClaimsInv
  <2>2. PrunedAt(n) \in Nat /\ PrunedAt(n) <= clock /\ clock \in Nat
    BY <2>1, PrunedAtType, TypesOf
  <2>3. PrunedAt(n)' \in {clock, PrunedAt(n)}
    BY <1>1, <1>2 DEF PrunedAt
  <2> QED
    BY <2>2, <2>3
<1>6. /\ ClaimsSeen(file'[n], reached'[n])
      /\ KnownAt(file'[n], i, reached'[n], PrunedAt(n)')
  <2>1. /\ ClaimsSeen(file[n], reached[n])
        /\ KnownAt(file[n], applied[n], reached[n], PrunedAt(n))
    BY DEF ClaimsInv, KeptInv
  <2>2. PrunedAt(n) \in Nat
    BY PrunedAtType DEF ClaimsInv
  <2>3. KnownAt(file[n], applied[n], reached[n], PrunedAt(n)')
    BY <1>5, <2>1, <2>2, TypesOf, KnownLater
  <2>4. /\ ClaimsSeen(Execute(file[n], log[i]), Reaches(reached[n], i))
        /\ KnownAt(Execute(file[n], log[i]), i, Reaches(reached[n], i), PrunedAt(n)')
    BY <1>1, <2>1, <2>3, TypesOf, HowFar, ApplyKnows
  <2> QED
    BY <1>2, <2>4
<1>7. KeptInv'
  <2>1. \A f, R : ClaimsSeen(f, R)' <=> ClaimsSeen(f, R)
    BY <1>1 DEF ClaimsSeen, IsClaim
  <2>2. \A f, a, R, T : KnownAt(f, a, R, T)' <=> KnownAt(f, a, R, T)
    BY <1>1 DEF KnownAt, FirstClaim, IsClaim, NotOlder
  <2> SUFFICES ASSUME NEW m \in Nodes
               PROVE  /\ ClaimsSeen(file'[m], reached'[m])
                      /\ ClaimsSeen(snapshot[m].file, snapshot[m].reached)
                      /\ KnownAt(file'[m], applied'[m], reached'[m], PrunedAt(m)')
                      /\ KnownAt(snapshot[m].file, snapshot[m].index, snapshot[m].reached, clock)
    BY <1>1, <2>1, <2>2 DEF KeptInv
  <2>3. /\ ClaimsSeen(snapshot[m].file, snapshot[m].reached)
        /\ KnownAt(snapshot[m].file, snapshot[m].index, snapshot[m].reached, clock)
    BY DEF ClaimsInv, KeptInv
  <2>4. CASE m = n
    BY <1>2, <1>6, <2>3, <2>4
  <2>5. CASE m # n
    <3>1. PrunedAt(m)' = PrunedAt(m)
      BY <1>1, <1>3, <2>5 DEF PrunedAt
    <3> QED
      BY <1>3, <2>3, <2>5, <3>1 DEF ClaimsInv, KeptInv
  <2> QED
    BY <2>4, <2>5
<1>8. AwaitsInv'
  <2> SUFFICES ASSUME NEW m \in Nodes, awaits'[m] # 0
               PROVE  log[awaits'[m]].type = "claim" /\ reached'[m] < awaits'[m]
    BY <1>1 DEF AwaitsInv
  <2>1. CASE m = n
    <3>1. awaits[n] # i /\ awaits'[n] = awaits[n] /\ awaits[n] # 0
      BY <1>2, <2>1
    <3>2. log[awaits[n]].type = "claim" /\ reached[n] < awaits[n]
      BY <3>1 DEF ClaimsInv, AwaitsInv
    <3>3. Reaches(reached[n], i) < awaits[n]
      BY <3>1, <3>2, TypesOf, HowFar DEF Reaches
    <3> QED
      BY <1>2, <2>1, <3>1, <3>2, <3>3
  <2>2. CASE m # n
    BY <1>3, <2>2 DEF ClaimsInv, AwaitsInv
  <2> QED
    BY <2>1, <2>2
<1> QED
  BY <1>4, <1>7, <1>8, ApplyGrants DEF ClaimsInv

\* Without a new entry what is said of a file only depends on the file.
LEMMA ClaimsStay ==
    ASSUME log' = log
    PROVE  /\ \A f, R : ClaimsSeen(f, R)' <=> ClaimsSeen(f, R)
           /\ \A f, a, R, T : KnownAt(f, a, R, T)' <=> KnownAt(f, a, R, T)
           /\ granted' = granted => (GrantInv' <=> GrantInv)
           /\ clock' = clock => (LogInv' <=> LogInv)
<1>1. \A f, R : ClaimsSeen(f, R)' <=> ClaimsSeen(f, R)
  BY DEF ClaimsSeen, IsClaim
<1>2. \A f, a, R, T : KnownAt(f, a, R, T)' <=> KnownAt(f, a, R, T)
  BY DEF KnownAt, FirstClaim, IsClaim, NotOlder
<1>3. granted' = granted => (GrantInv' <=> GrantInv)
  BY DEF GrantInv, FirstClaim, IsClaim, NotOlder
<1>4. clock' = clock => (LogInv' <=> LogInv)
  BY DEF LogInv
<1> QED
  BY <1>1, <1>2, <1>3, <1>4

\* A step that touches the file or the snapshot of one node only.
LEMMA OneNodeClaims ==
    ASSUME ClaimsInv, NEW n \in Nodes, UNCHANGED <<log, clock, granted>>,
           \A m \in Nodes : m # n =>
               /\ file'[m] = file[m] /\ applied'[m] = applied[m] /\ reached'[m] = reached[m]
               /\ snapshot'[m] = snapshot[m] /\ awaits'[m] = awaits[m],
           ClaimsSeen(file'[n], reached'[n]),
           ClaimsSeen(snapshot'[n].file, snapshot'[n].reached),
           KnownAt(file'[n], applied'[n], reached'[n], PrunedAt(n)'),
           KnownAt(snapshot'[n].file, snapshot'[n].index, snapshot'[n].reached, clock),
           awaits'[n] # 0 => log[awaits'[n]].type = "claim" /\ reached'[n] < awaits'[n]
    PROVE  ClaimsInv'
<1>1. LogInv' /\ GrantInv'
  BY ClaimsStay DEF ClaimsInv
<1>2. AwaitsInv'
  BY DEF ClaimsInv, AwaitsInv
<1>3. KeptInv'
  <2> SUFFICES ASSUME NEW m \in Nodes
               PROVE  /\ ClaimsSeen(file'[m], reached'[m])
                      /\ ClaimsSeen(snapshot'[m].file, snapshot'[m].reached)
                      /\ KnownAt(file'[m], applied'[m], reached'[m], PrunedAt(m)')
                      /\ KnownAt(snapshot'[m].file, snapshot'[m].index, snapshot'[m].reached, clock)
    BY ClaimsStay DEF KeptInv
  <2>1. CASE m = n
    BY <2>1
  <2>2. CASE m # n
    <3>1. PrunedAt(m)' = PrunedAt(m)
      BY <2>2 DEF PrunedAt
    <3>2. /\ ClaimsSeen(file[m], reached[m])
          /\ ClaimsSeen(snapshot[m].file, snapshot[m].reached)
          /\ KnownAt(file[m], applied[m], reached[m], PrunedAt(m))
          /\ KnownAt(snapshot[m].file, snapshot[m].index, snapshot[m].reached, clock)
      BY DEF ClaimsInv, KeptInv
    <3> QED
      BY <2>2, <3>1, <3>2
  <2> QED
    BY <2>1, <2>2
<1> QED
  BY <1>1, <1>2, <1>3 DEF ClaimsInv

LEMMA SnapshotClaims ==
    ASSUME TypeOK, ClaimsInv, NEW n \in Nodes, TakeSnapshot(n)
    PROVE  ClaimsInv'
<1>1. PICK kept \in SUBSET Keys :
          /\ Keeps(file[n], kept)
          /\ snapshot' = [snapshot EXCEPT ![n] =
                [index |-> applied[n], reached |-> reached[n],
                 file |-> SnapshotOf(file[n], kept)]]
  BY DEF TakeSnapshot
<1> DEFINE g == SnapshotOf(file[n], kept)
<1>2. \A k \in Keys : g.claims[k] = IF k \in kept THEN file[n].claims[k] ELSE None
  BY SnapshotIsFile, TypesOf
<1>3. /\ UNCHANGED <<log, clock, file, applied, reached, awaits, granted>>
      /\ snapshot'[n].file = g
      /\ snapshot'[n].index = applied[n] /\ snapshot'[n].reached = reached[n]
      /\ \A m \in Nodes : m # n => snapshot'[m] = snapshot[m]
  BY <1>1 DEF TakeSnapshot, TypeOK
<1>4. PrunedAt(n)' = PrunedAt(n)
  BY <1>3 DEF PrunedAt
<1>5. /\ ClaimsSeen(file[n], reached[n])
      /\ KnownAt(file[n], applied[n], reached[n], PrunedAt(n))
      /\ awaits[n] # 0 => log[awaits[n]].type = "claim" /\ reached[n] < awaits[n]
  BY DEF ClaimsInv, KeptInv, AwaitsInv
<1>6. ClaimsSeen(g, reached[n])
  BY <1>2, <1>5 DEF ClaimsSeen
<1>7. KnownAt(g, applied[n], reached[n], clock)
  <2>1. LogInv /\ AwaitsInv
    BY DEF ClaimsInv
  <2>2. PrunedAt(n) \in Nat /\ PrunedAt(n) <= clock
    BY <2>1, PrunedAtType
  <2>3. KnownAt(file[n], applied[n], reached[n], clock)
    BY <1>5, <2>2, TypesOf, KnownLater
  <2> QED
    BY <1>1, <1>2, <1>5, <2>1, <2>3, TypesOf, SnapshotKnows
<1> QED
  BY <1>3, <1>4, <1>5, <1>6, <1>7, OneNodeClaims

LEMMA RestartClaims ==
    ASSUME TypeOK, ClaimsInv, NEW n \in Nodes, RestartNode(n)
    PROVE  ClaimsInv'
<1>1. /\ UNCHANGED <<log, clock, snapshot, granted>>
      /\ applied'[n] = snapshot[n].index /\ awaits'[n] = 0
      /\ \A m \in Nodes : m # n =>
             /\ file'[m] = file[m] /\ applied'[m] = applied[m] /\ reached'[m] = reached[m]
             /\ awaits'[m] = awaits[m]
  BY DEF RestartNode, TypeOK
<1>2. PrunedAt(n)' = clock
  BY <1>1 DEF PrunedAt
<1>3. /\ ClaimsSeen(file[n], reached[n])
      /\ ClaimsSeen(snapshot[n].file, snapshot[n].reached)
      /\ KnownAt(snapshot[n].file, snapshot[n].index, snapshot[n].reached, clock)
  BY DEF ClaimsInv, KeptInv
<1>4. ClaimsSeen(file'[n], reached'[n]) /\ KnownAt(file'[n], applied'[n], reached'[n], clock)
  <2>1. CASE snapshot[n].index = 0
    <3>1. file'[n] = file[n] /\ reached'[n] = reached[n] /\ applied'[n] = 0
      BY <1>1, <2>1 DEF RestartNode
    <3> QED
      BY <1>3, <3>1 DEF KnownAt
  <2>2. CASE snapshot[n].index # 0
    <3>1. file'[n] = snapshot[n].file /\ reached'[n] = snapshot[n].reached
      BY <2>2 DEF RestartNode, Restored, TypeOK
    <3> QED
      BY <1>1, <1>3, <3>1
  <2> QED
    BY <2>1, <2>2
<1> QED
  BY <1>1, <1>2, <1>3, <1>4, OneNodeClaims

LEMMA InstallClaims ==
    ASSUME TypeOK, ClaimsInv, NEW n \in Nodes, NEW m \in Nodes, InstallSnapshot(n, m)
    PROVE  ClaimsInv'
<1>1. /\ UNCHANGED <<log, clock, awaits, granted>> /\ awaits[n] = 0
      /\ snapshot'[n] = snapshot[m] /\ file'[n] = snapshot[m].file
      /\ applied'[n] = snapshot[m].index /\ reached'[n] = snapshot[m].reached
      /\ \A p \in Nodes : p # n =>
             /\ file'[p] = file[p] /\ applied'[p] = applied[p] /\ reached'[p] = reached[p]
             /\ snapshot'[p] = snapshot[p]
  BY DEF InstallSnapshot, Restored, TypeOK
<1>2. PrunedAt(n)' = clock
  BY <1>1 DEF PrunedAt
<1>3. /\ ClaimsSeen(snapshot[m].file, snapshot[m].reached)
      /\ KnownAt(snapshot[m].file, snapshot[m].index, snapshot[m].reached, clock)
  BY DEF ClaimsInv, KeptInv
<1> QED
  BY <1>1, <1>2, <1>3, OneNodeClaims

LEMMA PruneClaims ==
    ASSUME TypeOK, ClaimsInv, NEW n \in Nodes, PruneOldData(n)
    PROVE  ClaimsInv'
<1>1. /\ UNCHANGED <<log, clock, applied, reached, snapshot, awaits, granted>>
      /\ awaits[n] = 0
  BY DEF PruneOldData
<1>2. /\ \A m \in Nodes : m # n => file'[m] = file[m]
      /\ \A k \in Keys : file'[n].claims[k] =
             IF file[n].claims[k] # None /\ Expired(file[n].claims[k])
             THEN None ELSE file[n].claims[k]
  BY Pruned
<1>3. PrunedAt(n)' = clock /\ PrunedAt(n) = clock
  BY <1>1 DEF PrunedAt
<1>4. /\ ClaimsSeen(file[n], reached[n])
      /\ ClaimsSeen(snapshot[n].file, snapshot[n].reached)
      /\ KnownAt(file[n], applied[n], reached[n], clock)
      /\ KnownAt(snapshot[n].file, snapshot[n].index, snapshot[n].reached, clock)
      /\ LogInv
  BY <1>3 DEF ClaimsInv, KeptInv
<1>5. ClaimsSeen(file'[n], reached[n])
  BY <1>2, <1>4 DEF ClaimsSeen
<1>6. KnownAt(file'[n], applied[n], reached[n], clock)
  BY <1>2, <1>4, TypesOf, PrunedKnows
<1> QED
  BY <1>1, <1>2, <1>3, <1>4, <1>5, <1>6, OneNodeClaims

LEMMA TickClaims ==
    ASSUME TypeOK, ClaimsInv, Tick
    PROVE  ClaimsInv'
<1>1. /\ clock' = clock + 1 /\ clock \in Nat
      /\ UNCHANGED <<log, file, applied, reached, snapshot, awaits, granted>>
  BY DEF Tick, TypeOK, Times
<1>2. LogInv'
  BY <1>1, ClaimType DEF ClaimsInv, LogInv
<1>3. AwaitsInv' /\ GrantInv'
  BY <1>1, ClaimsStay DEF ClaimsInv, AwaitsInv
<1>4. KeptInv'
  <2> SUFFICES ASSUME NEW n \in Nodes
               PROVE  /\ KnownAt(file[n], applied[n], reached[n], PrunedAt(n)')
                      /\ KnownAt(snapshot[n].file, snapshot[n].index, snapshot[n].reached,
                                 clock + 1)
    BY <1>1, ClaimsStay DEF ClaimsInv, KeptInv
  <2>1. /\ KnownAt(file[n], applied[n], reached[n], PrunedAt(n))
        /\ KnownAt(snapshot[n].file, snapshot[n].index, snapshot[n].reached, clock)
    BY DEF ClaimsInv, KeptInv
  <2>2. PrunedAt(n) \in Nat /\ PrunedAt(n)' \in Nat /\ PrunedAt(n) <= PrunedAt(n)'
    <3>1. PrunedAt(n) \in Nat /\ PrunedAt(n) <= clock
      BY PrunedAtType DEF ClaimsInv
    <3>2. PrunedAt(n)' \in {PrunedAt(n), clock + 1}
      BY <1>1 DEF PrunedAt
    <3> QED
      BY <1>1, <3>1, <3>2
  <2> QED
    BY <1>1, <2>1, <2>2, TypesOf, KnownLater
<1> QED
  BY <1>2, <1>3, <1>4 DEF ClaimsInv

LEMMA StepClaims ==
    ASSUME TypeOK, RowsInv, ClaimsInv, [Next]_vars
    PROVE  ClaimsInv'
<1>1. ASSUME NEW c \in Command, c.type # "claim", Enters(c)
      PROVE  ClaimsInv'
  BY <1>1, EntersClaims DEF Enters
<1>2. ASSUME NEW r \in Rows, NEW v \in Values, Put(r, v)
      PROVE  ClaimsInv'
  BY <1>1, <1>2, QuietEntries
<1>3. ASSUME NEW r \in Others, Remove(r)
      PROVE  ClaimsInv'
  BY <1>1, <1>3, QuietEntries
<1>4. ASSUME NEW i \in Incidents, CompleteDelivery(i)
      PROVE  ClaimsInv'
  BY <1>1, <1>4, QuietEntries
<1>5. ASSUME NEW n \in Nodes, NEW k \in Keys, ClaimDelivery(n, k)
      PROVE  ClaimsInv'
  <2>1. awaits[n] = 0
    BY <1>5 DEF ClaimDelivery
  <2> QED
    BY <1>5, <2>1, ClaimEntry, EntersClaims
<1>6. ASSUME NEW n \in Nodes, ApplyEntry(n)
      PROVE  ClaimsInv'
  BY <1>6, ApplyClaims
<1>7. ASSUME NEW n \in Nodes, TakeSnapshot(n)
      PROVE  ClaimsInv'
  BY <1>7, SnapshotClaims
<1>8. ASSUME NEW n \in Nodes, RestartNode(n)
      PROVE  ClaimsInv'
  BY <1>8, RestartClaims
<1>9. ASSUME NEW n \in Nodes, PruneOldData(n)
      PROVE  ClaimsInv'
  BY <1>9, PruneClaims
<1>10. ASSUME NEW n \in Nodes, NEW m \in Nodes, InstallSnapshot(n, m)
       PROVE  ClaimsInv'
  BY <1>10, InstallClaims
<1>11. CASE Tick
  BY <1>11, TickClaims
<1>12. CASE UNCHANGED vars
  <2>1. UNCHANGED <<log, clock, file, applied, reached, snapshot, awaits, granted>>
    BY <1>12 DEF vars
  <2>2. LogInv' /\ GrantInv' /\ AwaitsInv'
    BY <2>1, ClaimsStay DEF ClaimsInv, AwaitsInv
  <2>3. \A n \in Nodes : PrunedAt(n)' = PrunedAt(n)
    BY <2>1 DEF PrunedAt
  <2>4. KeptInv'
    BY <2>1, <2>3, ClaimsStay DEF ClaimsInv, KeptInv
  <2> QED
    BY <2>2, <2>4 DEF ClaimsInv
<1> QED
  BY <1>2, <1>3, <1>4, <1>5, <1>6, <1>7, <1>8, <1>9, <1>10, <1>11, <1>12 DEF Next

LEMMA InitClaims ==
    ASSUME Init
    PROVE  ClaimsInv
<1>1. Len(log) = 0
  BY EmptySeq DEF Init
<1>2. LogInv
  BY <1>1 DEF LogInv
<1>3. ClaimsSeen(EmptyFile, 0) /\ \A T : KnownAt(EmptyFile, 0, 0, T)
  BY DEF ClaimsSeen, KnownAt, EmptyFile
<1>4. KeptInv
  BY <1>3 DEF Init, KeptInv
<1>5. AwaitsInv /\ GrantInv
  BY DEF Init, AwaitsInv, GrantInv
<1> QED
  BY <1>2, <1>4, <1>5 DEF ClaimsInv

\* What the files know now, by what they knew when they were pruned last.
LEMMA KnownNow ==
    ASSUME TypeOK, RowsInv, ClaimsInv
    PROVE  ClaimsKept
<1> SUFFICES ASSUME NEW n \in Nodes, NEW i \in 1..Len(log),
                    i <= applied[n], log[i].type = "claim", FirstClaim(i),
                    ~Expired(log[i].at), Cardinality(NotOlder(i, reached[n])) < Limit
             PROVE  file[n].claims[log[i].key] # None
  BY DEF ClaimsKept
<1>1. KnownAt(file[n], applied[n], reached[n], PrunedAt(n))
  BY DEF ClaimsInv, KeptInv
<1>2. PrunedAt(n) \in Nat /\ PrunedAt(n) <= clock
  BY PrunedAtType DEF ClaimsInv
<1>3. KnownAt(file[n], applied[n], reached[n], clock)
  BY <1>1, <1>2, TypesOf, KnownLater
<1>4. i \in 1..applied[n]
  BY TypesOf
<1> QED
  BY <1>3, <1>4 DEF KnownAt, Expired

LEMMA GrantsApart ==
    ASSUME TypeOK, ClaimsInv
    PROVE  GrantedOnce
<1> SUFFICES ASSUME NEW i \in granted, NEW j \in granted, i < j, log[i].key = log[j].key
             PROVE  \E f \in 1..i :
                        /\ IsClaim(f, log[i].key)
                        /\ \/ log[f].at + Retention < log[j].at
                           \/ Cardinality(NotOlder(f, j)) >= Limit
  BY DEF GrantedOnce
<1>1. i \in 1..Len(log) /\ j \in 1..Len(log) /\ Len(log) \in Nat
  BY DEF TypeOK, Indices
<1>2. log[i].type = "claim"
  BY DEF ClaimsInv, GrantInv
<1>3. PICK f \in 1..i : IsClaim(f, log[i].key) /\ FirstClaim(f)
  BY <1>1, <1>2, HasFirstClaim
<1>4. f \in 1..j - 1
  BY <1>1
<1> QED
  BY <1>3, <1>4 DEF ClaimsInv, GrantInv

LEMMA StoreInvariant == Spec => [](TypeOK /\ RowsInv /\ ClaimsInv)
<1>1. Init => TypeOK /\ RowsInv /\ ClaimsInv
  BY InitTypeOK, InitRows, InitClaims
<1>2. TypeOK /\ RowsInv /\ ClaimsInv /\ [Next]_vars => TypeOK' /\ RowsInv' /\ ClaimsInv'
  BY StepTypeOK, StepRows, StepClaims
<1> QED
  BY <1>1, <1>2, PTL DEF Spec

\* A node that has applied the first claim of a delivery knows of it, through every
\* restart, snapshot and pruning, while it is within the retention and fewer than
\* Limit others that are not older have been claimed.
THEOREM ClaimsAreKept == Spec => []ClaimsKept
<1>1. TypeOK /\ RowsInv /\ ClaimsInv => ClaimsKept
  BY KnownNow
<1> QED
  BY <1>1, StoreInvariant, PTL

\* An engine is told that a claim is its own a second time only when the first claim
\* of the delivery is beyond the retention or the snapshots: the answer comes from a
\* file that has seen nothing after the claim.
THEOREM DeliveriesGrantedOnce == Spec => []GrantedOnce
<1>1. TypeOK /\ RowsInv /\ ClaimsInv => GrantedOnce
  BY GrantsApart
<1> QED
  BY <1>1, StoreInvariant, PTL

=============================================================================
