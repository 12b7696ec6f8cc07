----------------------- MODULE LoRaWANMacQueueProofs -----------------------
(* Theorems about LoRaWANMacQueue: for queues of every size and every         *)
(* downlink. What the loops over a queue compute is proved by induction over  *)
(* their rounds, in the form of a set that contains the next round with each. *)
EXTENDS LoRaWANMacQueue, FiniteSetTheorems, WellFoundedInduction, TLAPS

-----------------------------------------------------------------------------
(* Induction and recursion over an interval *)

LEMMA LeastNumber ==
  ASSUME NEW T, T \subseteq Nat, T # {}
  PROVE  \E x \in T : \A y \in T : x <= y
<1> DEFINE R == OpToRel(<, Nat)
<1>1. IsWellFoundedOn(R, Nat)
  BY NatLessThanWellFounded
<1>2. \A x, y \in Nat : y < x => <<y, x>> \in R
  BY DEF OpToRel
<1> HIDE DEF R
<1>3. PICK x \in T : \A y \in T : ~ (<<y, x>> \in R)
  BY <1>1, WFMin, Zenon
<1>4. ASSUME NEW y \in T PROVE x <= y
  <2>1. x \in Nat /\ y \in Nat
    OBVIOUS
  <2>2. ~ (y < x)
    BY <1>2, <1>3, <2>1
  <2>3. QED
    BY <2>1, <2>2
<1>5. QED
  BY <1>4

LEMMA Induction ==
  ASSUME NEW m \in Nat, NEW T, 0 \in T, \A n \in 0 .. m - 1 : n \in T => n + 1 \in T
  PROVE  0 .. m \subseteq T
<1> SUFFICES ASSUME ~ (0 .. m \subseteq T) PROVE FALSE
  OBVIOUS
<1> DEFINE F == {n \in 0 .. m : n \notin T}
<1>1. F \subseteq Nat /\ F # {}
  OBVIOUS
<1>2. PICK n \in F : \A k \in F : n <= k
  BY <1>1, LeastNumber
<1>3. n - 1 \in 0 .. m - 1 /\ n - 1 \notin F
  BY <1>2
<1>4. QED
  BY <1>2, <1>3

(* The rounds of a loop: g[n] is the state after round n, next[n] what that   *)
(* round does.                                                                *)
Rounds(g, m, first, next) == g[0] = first /\ \A n \in 1 .. m : g[n] = next[n][g[n - 1]]

LEMMA RoundsExist ==
  ASSUME NEW S, NEW first \in S, NEW m \in Nat, NEW next \in [1 .. m -> [S -> S]]
  PROVE  \E g \in [0 .. m -> S] : Rounds(g, m, first, next)
<1> DEFINE T == {k \in 0 .. m : \E g \in [0 .. k -> S] : Rounds(g, k, first, next)}
<1>1. 0 \in T
  <2> DEFINE g == [n \in 0 .. 0 |-> first]
  <2>1. g \in [0 .. 0 -> S]
    OBVIOUS
  <2>2. Rounds(g, 0, first, next)
    BY DEF Rounds
  <2>3. QED
    BY <2>1, <2>2
<1>2. ASSUME NEW k \in 0 .. m - 1, k \in T PROVE k + 1 \in T
  <2>1. PICK g \in [0 .. k -> S] : Rounds(g, k, first, next)
    BY <1>2
  <2>2. g[k] \in S /\ next[k + 1] \in [S -> S]
    OBVIOUS
  <2> DEFINE h == [n \in 0 .. k + 1 |-> IF n = k + 1 THEN next[k + 1][g[k]] ELSE g[n]]
  <2>3. h \in [0 .. k + 1 -> S]
    BY <2>2
  <2>4. ASSUME NEW n \in 1 .. k + 1 PROVE h[n] = next[n][h[n - 1]]
    <3>1. CASE n = k + 1
      BY <3>1
    <3>2. CASE n # k + 1
      BY <3>2, <2>1 DEF Rounds
    <3>3. QED
      BY <3>1, <3>2
  <2>5. h[0] = first
    BY <2>1 DEF Rounds
  <2>6. Rounds(h, k + 1, first, next)
    BY <2>4, <2>5 DEF Rounds
  <2>7. k + 1 \in 0 .. m
    OBVIOUS
  <2> HIDE DEF h
  <2>8. QED
    BY <2>3, <2>6, <2>7
<1> HIDE DEF T
<1>3. 0 .. m \subseteq T
  BY <1>1, <1>2, Induction
<1>4. QED
  BY <1>3 DEF T

-----------------------------------------------------------------------------
(* The table *)

LEMMA Numbers == FOptsMax \in Nat
  BY QueueAssumption

LEMMA CidsAre == Cids = {1, 2, 3, 4, 5, 6, 7, 8, 9, 10, 11, 12, 13, 14, 15, 32, 128}
  BY DEF Cids, MacTable

LEMMA RowIs ==
  /\ \A cid \in Cids : Row(cid) \in MacTable /\ Row(cid)[1] = cid
  /\ \A cid : cid \notin Cids => Row(cid) = NoCommand
<1>1. ASSUME NEW cid \in Cids PROVE Row(cid) \in MacTable /\ Row(cid)[1] = cid
  <2>1. \E row \in MacTable : row[1] = cid
    BY DEF Cids
  <2>2. Row(cid) = CHOOSE row \in MacTable : row[1] = cid
    BY DEF Row
  <2>3. QED
    BY <2>1, <2>2, Zenon
<1>2. ASSUME NEW cid, cid \notin Cids PROVE Row(cid) = NoCommand
  BY <1>2 DEF Row
<1>3. QED
  BY <1>1, <1>2

(* What the proofs need of a row.                                             *)
RowOK(row) ==
  /\ row[2] \in 0 .. 5 /\ row[3] \in 0 .. 5
  /\ row[4] \in BOOLEAN /\ row[5] \in BOOLEAN
  /\ row[5] => row[1] \in {2, 13, 128}

LEMMA TableIs == \A row \in MacTable : RowOK(row)
<1>1. /\ RowOK(<<1, 1, 1, TRUE, FALSE>>) /\ RowOK(<<2, 2, 0, FALSE, TRUE>>)
      /\ RowOK(<<3, 4, 1, FALSE, FALSE>>) /\ RowOK(<<4, 1, 0, FALSE, FALSE>>)
      /\ RowOK(<<5, 4, 1, TRUE, FALSE>>) /\ RowOK(<<6, 0, 2, FALSE, FALSE>>)
      /\ RowOK(<<7, 5, 1, FALSE, FALSE>>) /\ RowOK(<<8, 1, 0, TRUE, FALSE>>)
      /\ RowOK(<<9, 1, 0, TRUE, FALSE>>) /\ RowOK(<<10, 4, 1, TRUE, FALSE>>)
      /\ RowOK(<<11, 1, 1, TRUE, FALSE>>) /\ RowOK(<<12, 1, 0, FALSE, FALSE>>)
      /\ RowOK(<<13, 5, 0, FALSE, TRUE>>) /\ RowOK(<<14, 2, 0, FALSE, FALSE>>)
      /\ RowOK(<<15, 1, 1, FALSE, FALSE>>) /\ RowOK(<<32, 1, 1, TRUE, FALSE>>)
      /\ RowOK(<<128, 5, 0, FALSE, TRUE>>)
  BY DEF RowOK
<1>2. QED
  BY <1>1, Zenon DEF MacTable

LEMMA NoCommandIs ==
  /\ NoCommand[2] = 0 /\ NoCommand[3] = 0
  /\ NoCommand[4] = FALSE /\ NoCommand[5] = FALSE
  BY DEF NoCommand

LEMMA MacLenIs ==
  ASSUME NEW cid, NEW dir
  PROVE  MacLen(cid, dir) \in 1 .. 6 /\ (cid \notin Cids => MacLen(cid, dir) = 1)
<1>1. CASE cid \in Cids
  <2>1. Row(cid)[2] \in 0 .. 5 /\ Row(cid)[3] \in 0 .. 5
    BY <1>1, RowIs, TableIs DEF RowOK
  <2>2. QED
    BY <1>1, <2>1 DEF MacLen
<1>2. CASE cid \notin Cids
  <2>1. Row(cid)[2] = 0 /\ Row(cid)[3] = 0
    BY <1>2, RowIs, NoCommandIs
  <2>2. QED
    BY <2>1 DEF MacLen
<1>3. QED
  BY <1>1, <1>2

LEMMA UserCidsAre ==
  /\ \A cid : Row(cid)[5] => cid \in {2, 13, 128} /\ cid \in Cids
  /\ \A cid, dir : IsPersistent(cid, dir) \in BOOLEAN
  /\ \A dir : ~IsPersistent(0, dir)
<1>1. ASSUME NEW cid \in Cids
      PROVE  /\ Row(cid)[4] \in BOOLEAN /\ Row(cid)[5] \in BOOLEAN
             /\ Row(cid)[5] => cid \in {2, 13, 128}
  <2>1. Row(cid) \in MacTable /\ Row(cid)[1] = cid
    BY RowIs
  <2>2. QED
    BY <2>1, TableIs, Zenon DEF RowOK
<1>2. ASSUME NEW cid, cid \notin Cids
      PROVE  Row(cid)[4] = FALSE /\ Row(cid)[5] = FALSE
  <2>1. Row(cid) = NoCommand
    BY <1>2, RowIs
  <2>2. QED
    BY <2>1, NoCommandIs, Zenon
<1>3. 0 \notin Cids
  BY CidsAre
<1>4. \A cid : Row(cid)[5] => cid \in {2, 13, 128} /\ cid \in Cids
  BY <1>1, <1>2, Zenon
<1>5. \A cid, dir : IsPersistent(cid, dir) \in BOOLEAN
  BY <1>1, <1>2, Zenon DEF IsPersistent
<1>6. \A dir : ~IsPersistent(0, dir)
  BY <1>2, <1>3, Zenon DEF IsPersistent
<1>7. QED
  BY <1>4, <1>5, <1>6, Zenon

-----------------------------------------------------------------------------
(* A scan of a queue *)

LEMMA OverIs ==
  ASSUME NEW q, q.len \in Nat, NEW dir, NEW p \in Nat
  PROVE  /\ Over(q, dir, p) \in Nat
         /\ p < q.len => Over(q, dir, p) = p + MacLen(q.buf[p], dir) /\ p < Over(q, dir, p)
         /\ p >= q.len => Over(q, dir, p) = p
<1>1. MacLen(q.buf[p], dir) \in 1 .. 6
  BY MacLenIs
<1> QED
  BY <1>1 DEF Over

LEMMA ScanIs ==
  ASSUME NEW q, q.len \in Nat, NEW dir
  PROVE  /\ Scan(q, dir) \in [0 .. FOptsMax -> Nat]
         /\ Scan(q, dir)[0] = 0
         /\ \A n \in 1 .. FOptsMax : Scan(q, dir)[n] = Over(q, dir, Scan(q, dir)[n - 1])
<1> USE Numbers
<1> DEFINE step == [n \in 1 .. FOptsMax |-> [p \in Nat |-> Over(q, dir, p)]]
           P(f) == f = [n \in 0 .. FOptsMax |-> IF n = 0 THEN 0 ELSE Over(q, dir, f[n - 1])]
<1>1. step \in [1 .. FOptsMax -> [Nat -> Nat]]
  BY OverIs
<1>2. PICK g \in [0 .. FOptsMax -> Nat] : Rounds(g, FOptsMax, 0, step)
  <2> HIDE DEF step
  <2> QED
    BY <1>1, RoundsExist
<1>3. ASSUME NEW n \in 0 .. FOptsMax
      PROVE  g[n] = IF n = 0 THEN 0 ELSE Over(q, dir, g[n - 1])
  <2>1. CASE n = 0
    BY <1>2, <2>1 DEF Rounds
  <2>2. CASE n # 0
    <3>1. n \in 1 .. FOptsMax /\ g[n - 1] \in Nat
      BY <2>2
    <3>2. g[n] = step[n][g[n - 1]]
      BY <3>1, <1>2 DEF Rounds
    <3>3. QED
      BY <2>2, <3>1, <3>2
  <2>3. QED
    BY <2>1, <2>2
<1>4. P(g)
  BY <1>3
<1>5. Scan(q, dir) = CHOOSE f : P(f)
  BY DEF Scan
<1> HIDE DEF P
<1>6. P(CHOOSE f : P(f))
  BY <1>4, Zenon
<1>7. P(Scan(q, dir))
  BY <1>5, <1>6
<1> DEFINE at == Scan(q, dir)
<1> HIDE DEF at
<1>8. at = [n \in 0 .. FOptsMax |-> IF n = 0 THEN 0 ELSE Over(q, dir, at[n - 1])]
  BY <1>7 DEF P, at
<1>9. at[0] = 0
  BY <1>8
<1>10. ASSUME NEW n \in 1 .. FOptsMax PROVE at[n] = Over(q, dir, at[n - 1])
  BY <1>8
<1> DEFINE T == {n \in 0 .. FOptsMax : at[n] \in Nat}
<1>11. 0 .. FOptsMax \subseteq T
  <2>1. 0 \in T
    BY <1>9
  <2>2. ASSUME NEW n \in 0 .. FOptsMax - 1, n \in T PROVE n + 1 \in T
    <3>1. at[n + 1] = Over(q, dir, at[n + 1 - 1])
      BY <1>10
    <3>2. n + 1 - 1 = n /\ at[n] \in Nat
      BY <2>2
    <3>3. QED
      BY <3>1, <3>2, OverIs
  <2> HIDE DEF T
  <2>3. QED
    BY <2>1, <2>2, Induction
<1>12. DOMAIN at = 0 .. FOptsMax
  BY <1>8
<1>13. at = [n \in 0 .. FOptsMax |-> at[n]]
  BY <1>8, <1>12
<1>14. at \in [0 .. FOptsMax -> Nat]
  BY <1>11, <1>13
<1>15. QED
  BY <1>9, <1>10, <1>14 DEF at

(* The offsets are 0 and what a step over a command reaches from an offset.   *)
LEMMA OffsetsClosed ==
  ASSUME NEW q, q.len \in 0 .. FOptsMax, NEW dir
  PROVE  /\ 0 \in Offsets(q, dir) /\ Offsets(q, dir) \subseteq Nat
         /\ \A p \in Offsets(q, dir) : p < q.len => p + MacLen(q.buf[p], dir) \in Offsets(q, dir)
<1> USE Numbers
<1> DEFINE at == Scan(q, dir)
<1>1. /\ at \in [0 .. FOptsMax -> Nat] /\ at[0] = 0
      /\ \A n \in 1 .. FOptsMax : at[n] = Over(q, dir, at[n - 1])
  BY ScanIs
<1>2. Offsets(q, dir) = {at[n] : n \in 0 .. FOptsMax}
  BY <1>1 DEF Offsets, Range
<1> HIDE DEF at
<1> DEFINE T == {n \in 0 .. FOptsMax : at[n] >= q.len \/ at[n] >= n}
<1>3. 0 .. FOptsMax \subseteq T
  <2>1. 0 \in T
    BY <1>1
  <2>2. ASSUME NEW n \in 0 .. FOptsMax - 1, n \in T PROVE n + 1 \in T
    <3>1. at[n + 1] = Over(q, dir, at[n]) /\ at[n] \in Nat
      BY <1>1
    <3>2. QED
      BY <2>2, <3>1, OverIs
  <2> HIDE DEF T
  <2>3. QED
    BY <2>1, <2>2, Induction
<1>4. at[FOptsMax] >= q.len
  BY <1>1, <1>3
<1>5. ASSUME NEW n \in 0 .. FOptsMax, at[n] < q.len
      PROVE  at[n] + MacLen(q.buf[at[n]], dir) \in Offsets(q, dir)
  <2>1. n # FOptsMax
    BY <1>1, <1>4, <1>5
  <2>2. n + 1 \in 0 .. FOptsMax /\ at[n + 1] = Over(q, dir, at[n]) /\ at[n] \in Nat
    BY <2>1, <1>1
  <2>3. at[n + 1] = at[n] + MacLen(q.buf[at[n]], dir)
    BY <2>2, <1>5, OverIs
  <2>4. QED
    BY <2>2, <2>3, <1>2
<1>6. 0 \in Offsets(q, dir) /\ Offsets(q, dir) \subseteq Nat
  BY <1>1, <1>2
<1>7. ASSUME NEW p \in Offsets(q, dir), p < q.len
      PROVE  p + MacLen(q.buf[p], dir) \in Offsets(q, dir)
  <2>1. PICK n \in 0 .. FOptsMax : at[n] = p
    BY <1>2
  <2>2. QED
    BY <2>1, <1>5, <1>7
<1>8. QED
  BY <1>6, <1>7

LEMMA OffsetsLeast ==
  ASSUME NEW q, q.len \in 0 .. FOptsMax, NEW dir,
         NEW T, 0 \in T, \A p \in T \cap Nat : p < q.len => p + MacLen(q.buf[p], dir) \in T
  PROVE  Offsets(q, dir) \subseteq T
<1> USE Numbers
<1> DEFINE at == Scan(q, dir)
<1>1. /\ at \in [0 .. FOptsMax -> Nat] /\ at[0] = 0
      /\ \A n \in 1 .. FOptsMax : at[n] = Over(q, dir, at[n - 1])
  BY ScanIs
<1>2. Offsets(q, dir) = {at[n] : n \in 0 .. FOptsMax}
  BY <1>1 DEF Offsets, Range
<1> HIDE DEF at
<1> DEFINE R == {n \in 0 .. FOptsMax : at[n] \in T}
<1>3. 0 .. FOptsMax \subseteq R
  <2>1. 0 \in R
    BY <1>1
  <2>2. ASSUME NEW n \in 0 .. FOptsMax - 1, n \in R PROVE n + 1 \in R
    <3>1. at[n + 1] = Over(q, dir, at[n]) /\ at[n] \in Nat /\ at[n] \in T
      BY <1>1, <2>2
    <3>2. CASE at[n] < q.len
      BY <3>1, <3>2, OverIs
    <3>3. CASE ~ (at[n] < q.len)
      BY <3>1, <3>3, OverIs
    <3>4. QED
      BY <3>2, <3>3
  <2> HIDE DEF R
  <2>3. QED
    BY <2>1, <2>2, Induction
<1>4. QED
  BY <1>2, <1>3

(* A scan does not turn back: what lies behind an offset is reached from it.  *)
LEMMA OffsetsApart ==
  ASSUME NEW q, q.len \in 0 .. FOptsMax, NEW dir,
         NEW p \in Offsets(q, dir), p < q.len, NEW r \in Offsets(q, dir), p < r
  PROVE  p + MacLen(q.buf[p], dir) <= r
<1> USE Numbers
<1> DEFINE at == Scan(q, dir)
<1>1. /\ at \in [0 .. FOptsMax -> Nat]
      /\ \A n \in 1 .. FOptsMax : at[n] = Over(q, dir, at[n - 1])
  BY ScanIs
<1>2. Offsets(q, dir) = {at[n] : n \in 0 .. FOptsMax}
  BY <1>1 DEF Offsets, Range
<1> HIDE DEF at
<1> DEFINE T == {n \in 0 .. FOptsMax : \A i \in 0 .. n : at[i] <= at[n]}
<1>3. 0 .. FOptsMax \subseteq T
  <2>1. 0 \in T
    BY <1>1
  <2>2. ASSUME NEW n \in 0 .. FOptsMax - 1, n \in T PROVE n + 1 \in T
    <3>1. at[n + 1] = Over(q, dir, at[n]) /\ at[n] \in Nat
      BY <1>1
    <3>2. at[n + 1] \in Nat /\ at[n] <= at[n + 1]
      BY <3>1, OverIs
    <3>3. ASSUME NEW i \in 0 .. n + 1 PROVE at[i] <= at[n + 1]
      <4>1. CASE i = n + 1
        BY <4>1, <3>2
      <4>2. CASE i # n + 1
        <5>1. i \in 0 .. n /\ at[i] \in Nat /\ at[i] <= at[n]
          BY <4>2, <2>2, <1>1
        <5>2. QED
          BY <5>1, <3>1, <3>2
      <4>3. QED
        BY <4>1, <4>2
    <3>4. QED
      BY <3>3
  <2> HIDE DEF T
  <2>3. QED
    BY <2>1, <2>2, Induction
<1>4. PICK n \in 0 .. FOptsMax : at[n] = p
  BY <1>2
<1>5. PICK k \in 0 .. FOptsMax : at[k] = r
  BY <1>2
<1>6. p \in Nat /\ r \in Nat
  BY <1>1, <1>4, <1>5
<1>7. n < k
  <2>1. SUFFICES ASSUME k <= n PROVE FALSE
    OBVIOUS
  <2>2. k \in 0 .. n /\ n \in T
    BY <2>1, <1>3
  <2>3. at[k] <= at[n]
    BY <2>2
  <2>4. QED
    BY <2>3, <1>4, <1>5, <1>6
<1>8. n + 1 \in 0 .. k /\ k \in T /\ n + 1 \in 1 .. FOptsMax
  BY <1>3, <1>7
<1>9. at[n + 1] <= at[k]
  BY <1>8
<1>10. at[n + 1] = Over(q, dir, p)
  BY <1>8, <1>1, <1>4
<1>11. QED
  BY <1>9, <1>10, <1>5, <1>6, OverIs

(* A queue is whole when a scan ends at its end: then it never steps over it. *)
LEMMA WholeBound ==
  ASSUME NEW q, q.len \in 0 .. FOptsMax, NEW dir, q.len \in Offsets(q, dir),
         NEW p \in Offsets(q, dir)
  PROVE  p \in 0 .. q.len
<1> DEFINE T == 0 .. q.len
<1>1. \A s \in Offsets(q, dir) : s \in Nat
  BY OffsetsClosed
<1>2. 0 \in Offsets(q, dir) \cap T
  BY OffsetsClosed, Numbers
<1>3. ASSUME NEW s \in Offsets(q, dir) \cap T, s < q.len
      PROVE  s + MacLen(q.buf[s], dir) \in Offsets(q, dir) \cap T
  <2>1. s + MacLen(q.buf[s], dir) <= q.len
    BY <1>3, OffsetsApart
  <2>2. s + MacLen(q.buf[s], dir) \in Offsets(q, dir)
    BY <1>3, OffsetsClosed
  <2>3. QED
    BY <2>1, <2>2, <1>1
<1>4. Offsets(q, dir) \subseteq Offsets(q, dir) \cap T
  <2> HIDE DEF T
  <2>1. QED
    BY <1>2, <1>3, OffsetsLeast
<1>5. QED
  BY <1>4

(* Queues with the same bytes have the same offsets.                          *)
LEMMA OffsetsAgree ==
  ASSUME NEW q, q.len \in 0 .. FOptsMax, NEW r, r.len \in 0 .. FOptsMax, NEW dir,
         NEW m \in Nat, m <= q.len, m <= r.len, \A k \in 0 .. m - 1 : q.buf[k] = r.buf[k]
  PROVE  \A p \in Offsets(q, dir) : p <= m => p \in Offsets(r, dir)
<1> DEFINE T == {p \in Nat : p <= m => p \in Offsets(r, dir)}
<1>1. 0 \in T
  BY OffsetsClosed
<1>2. ASSUME NEW p \in T \cap Nat, p < q.len PROVE p + MacLen(q.buf[p], dir) \in T
  <2>1. MacLen(q.buf[p], dir) \in 1 .. 6
    BY MacLenIs
  <2>2. SUFFICES ASSUME p + MacLen(q.buf[p], dir) <= m
                 PROVE  p + MacLen(q.buf[p], dir) \in Offsets(r, dir)
    BY <2>1
  <2>3. p \in 0 .. m - 1 /\ p \in Offsets(r, dir) /\ p < r.len
    BY <2>1, <2>2, Numbers
  <2>4. q.buf[p] = r.buf[p]
    BY <2>3
  <2>5. QED
    BY <2>3, <2>4, OffsetsClosed
<1>3. Offsets(q, dir) \subseteq T
  <2> HIDE DEF T
  <2>1. QED
    BY <1>1, <1>2, OffsetsLeast
<1>4. QED
  BY <1>3

-----------------------------------------------------------------------------
(* pushMacCommand *)

LEMMA QueueIs ==
  ASSUME NEW q \in Queue
  PROVE  /\ q.len \in 0 .. FOptsMax /\ q.len \in Nat
         /\ q.buf \in [Index -> Bytes]
         /\ \A k \in 0 .. q.len - 1 : k \in Index
  BY Numbers DEF Queue, Index

LEMMA PushIs ==
  ASSUME NEW q \in Queue, NEW cid \in Cids, NEW dir, Fits(q, cid, dir)
  PROVE  /\ Push(q, cid, dir) \in Queue
         /\ Push(q, cid, dir).len = q.len + MacLen(cid, dir)
         /\ Push(q, cid, dir).buf[q.len] = cid
         /\ \A k \in 0 .. q.len - 1 : Push(q, cid, dir).buf[k] = q.buf[k]
<1> DEFINE n == MacLen(cid, dir)
           buf == [k \in Index |-> CASE k = q.len -> cid
                                     [] q.len < k /\ k < q.len + n -> Octet
                                     [] OTHER -> q.buf[k]]
<1>1. n \in 1 .. 6 /\ q.len + n <= FOptsMax
  BY MacLenIs DEF Fits
<1>2. Push(q, cid, dir) = [buf |-> buf, len |-> q.len + n]
  BY DEF Push
<1>3. Octet \in Bytes /\ cid \in Bytes
  BY CidsAre DEF Octet, Bytes
<1>4. buf \in [Index -> Bytes]
  BY <1>3, QueueIs
<1>5. q.len + n \in 0 .. FOptsMax /\ q.len \in Index
  BY <1>1, QueueIs, Numbers DEF Index
<1>6. buf[q.len] = cid
  BY <1>1, <1>5, QueueIs
<1>7. ASSUME NEW k \in 0 .. q.len - 1 PROVE buf[k] = q.buf[k]
  BY <1>1, QueueIs
<1> HIDE DEF buf, n
<1>8. QED
  BY <1>2, <1>4, <1>5, <1>6, <1>7 DEF Queue, n

LEMMA PushKeeps ==
  ASSUME NEW q \in Queue, NEW cid \in Cids, NEW dir
  PROVE  Push(q, cid, dir) \in Queue
<1>1. CASE Fits(q, cid, dir)
  BY <1>1, PushIs
<1>2. CASE ~Fits(q, cid, dir)
  BY <1>2 DEF Push
<1>3. QED
  BY <1>1, <1>2

(* A command that fits adds one offset to those of a whole queue, the new end.*)
LEMMA OffsetsOfPush ==
  ASSUME NEW q \in Queue, NEW cid \in Cids, NEW dir,
         q.len \in Offsets(q, dir), Fits(q, cid, dir)
  PROVE  Offsets(Push(q, cid, dir), dir) = Offsets(q, dir) \union {q.len + MacLen(cid, dir)}
<1> DEFINE r == Push(q, cid, dir)
           n == MacLen(cid, dir)
<1>1. /\ r \in Queue /\ r.len = q.len + n /\ r.buf[q.len] = cid
      /\ \A k \in 0 .. q.len - 1 : r.buf[k] = q.buf[k]
  BY PushIs
<1>2. n \in 1 .. 6
  BY MacLenIs
<1> HIDE DEF r, n
<1>3. q.len \in 0 .. FOptsMax /\ r.len \in 0 .. FOptsMax /\ q.len \in Nat
  BY <1>1, QueueIs
<1>4. \A p \in Offsets(q, dir) : p <= q.len => p \in Offsets(r, dir)
  BY <1>1, <1>2, <1>3, OffsetsAgree
<1>5. \A p \in Offsets(r, dir) : p <= q.len => p \in Offsets(q, dir)
  BY <1>1, <1>2, <1>3, OffsetsAgree
<1>6. Offsets(q, dir) \subseteq Offsets(r, dir)
  BY <1>3, <1>4, WholeBound
<1>7. q.len + n \in Offsets(r, dir)
  <2>1. q.len \in Offsets(r, dir) /\ q.len < r.len
    BY <1>1, <1>2, <1>3, <1>6
  <2>2. q.len + MacLen(r.buf[q.len], dir) \in Offsets(r, dir)
    BY <2>1, <1>3, OffsetsClosed
  <2>3. QED
    BY <2>2, <1>1 DEF n
<1>8. ASSUME NEW p \in Offsets(r, dir), p > q.len PROVE p = q.len + n
  <2>1. q.len \in Offsets(r, dir) /\ q.len < r.len
    BY <1>1, <1>2, <1>3, <1>6
  <2>2. q.len + MacLen(r.buf[q.len], dir) <= p
    BY <2>1, <1>3, <1>8, OffsetsApart
  <2>3. p \in 0 .. r.len
    BY <1>1, <1>3, <1>7, WholeBound
  <2>4. QED
    BY <2>2, <2>3, <1>1, <1>2, <1>3 DEF n
<1>9. ASSUME NEW p \in Offsets(r, dir) PROVE p \in Offsets(q, dir) \union {q.len + n}
  <2>1. p \in Nat
    BY <1>3, OffsetsClosed
  <2>2. QED
    BY <2>1, <1>3, <1>5, <1>8
<1>10. QED
  BY <1>6, <1>7, <1>9 DEF r, n

-----------------------------------------------------------------------------
(* clearMacCommands *)

Clears == [buf : [Index -> Bytes], i : Nat, numDeleted : Nat]

LEMMA ClearOneType ==
  ASSUME NEW q \in Queue, NEW dir, NEW s \in Clears
  PROVE  ClearOne(q, dir, s) \in Clears
<1> DEFINE f == MacLen(s.buf[s.i], dir)
           tail == q.len - s.i - f
           buf == [k \in Index |-> CASE s.i + f <= k /\ k < q.len -> 0
                                     [] s.i <= k /\ k < s.i + tail /\ k < s.i + f -> s.buf[k + f]
                                     [] OTHER -> s.buf[k]]
<1>1. f \in 1 .. 6
  BY MacLenIs
<1>2. /\ s.buf \in [Index -> Bytes] /\ s.i \in Nat /\ s.numDeleted \in Nat
      /\ s = [buf |-> s.buf, i |-> s.i, numDeleted |-> s.numDeleted]
  BY DEF Clears
<1>3. q.len \in 0 .. FOptsMax /\ FOptsMax \in Nat
  BY QueueIs, Numbers
<1>4. /\ ClearOne(q, dir, s) =
           IF s.i >= q.len THEN s
           ELSE IF IsPersistent(s.buf[s.i], dir) THEN [s EXCEPT !.i = @ + f]
           ELSE [buf |-> buf, i |-> s.i + f, numDeleted |-> s.numDeleted + f]
  BY DEF ClearOne
<1> HIDE DEF f
<1>5. ASSUME NEW k \in Index, ~ (s.i + f <= k /\ k < q.len),
             s.i <= k, k < s.i + tail, k < s.i + f
      PROVE  s.buf[k + f] \in Bytes
  <2>1. k \in Nat /\ s.i + tail = q.len - f
    BY <1>1, <1>2, <1>3 DEF Index
  <2>2. k + f \in Nat /\ k + f < q.len
    <3> HIDE DEF tail
    <3> QED
      BY <2>1, <1>1, <1>3, <1>5
  <2>3. k + f \in Index
    BY <2>2, <1>3 DEF Index
  <2>4. QED
    BY <2>3, <1>2
<1>6. 0 \in Bytes
  BY DEF Bytes
<1>7. buf \in [Index -> Bytes]
  <2>1. ASSUME NEW k \in Index PROVE buf[k] \in Bytes
    <3>1. CASE s.i + f <= k /\ k < q.len
      <4>1. ~ (s.i <= k /\ k < s.i + tail /\ k < s.i + f)
        <5> HIDE DEF tail
        <5>1. QED
          BY <3>1, <1>1, <1>2 DEF Index
      <4>2. buf[k] = 0
        BY <3>1, <4>1
      <4>3. QED
        BY <4>2, <1>6
    <3>2. CASE s.i <= k /\ k < s.i + tail /\ k < s.i + f
      <4>1. k \in Nat /\ ~ (s.i + f <= k /\ k < q.len)
        BY <3>2, <1>1, <1>2 DEF Index
      <4>2. buf[k] = s.buf[k + f]
        BY <3>2, <4>1
      <4>3. QED
        BY <3>2, <4>1, <4>2, <1>5
    <3>3. CASE ~ (s.i + f <= k /\ k < q.len) /\ ~ (s.i <= k /\ k < s.i + tail /\ k < s.i + f)
      BY <3>3, <1>2
    <3>4. QED
      BY <3>1, <3>2, <3>3
  <2>2. QED
    BY <2>1
<1> HIDE DEF buf
<1>8. [s EXCEPT !.i = @ + f] \in Clears
  BY <1>1, <1>2 DEF Clears
<1>9. [buf |-> buf, i |-> s.i + f, numDeleted |-> s.numDeleted + f] \in Clears
  BY <1>1, <1>2, <1>7 DEF Clears
<1>10. QED
  BY <1>4, <1>8, <1>9

LEMMA ClearingIs ==
  ASSUME NEW q \in Queue, NEW dir
  PROVE  /\ Clearing(q, dir)[0] = [buf |-> q.buf, i |-> 0, numDeleted |-> 0]
         /\ \A n \in 1 .. FOptsMax :
              Clearing(q, dir)[n] = ClearOne(q, dir, Clearing(q, dir)[n - 1])
<1> USE Numbers
<1> DEFINE first == [buf |-> q.buf, i |-> 0, numDeleted |-> 0]
           step == [n \in 1 .. FOptsMax |-> [s \in Clears |-> ClearOne(q, dir, s)]]
           P(f) == f = [n \in 0 .. FOptsMax |->
                          IF n = 0 THEN first ELSE ClearOne(q, dir, f[n - 1])]
<1>1. step \in [1 .. FOptsMax -> [Clears -> Clears]]
  BY ClearOneType
<1>2. first \in Clears
  BY QueueIs DEF Clears
<1>3. P(Clearing(q, dir)) <=> P(CHOOSE f : P(f))
  BY DEF Clearing
<1> HIDE DEF first
<1>4. PICK g \in [0 .. FOptsMax -> Clears] : Rounds(g, FOptsMax, first, step)
  <2> HIDE DEF step
  <2> QED
    BY <1>1, <1>2, RoundsExist
<1>5. ASSUME NEW n \in 0 .. FOptsMax
      PROVE  g[n] = IF n = 0 THEN first ELSE ClearOne(q, dir, g[n - 1])
  <2>1. CASE n = 0
    BY <1>4, <2>1 DEF Rounds
  <2>2. CASE n # 0
    <3>1. n \in 1 .. FOptsMax /\ g[n - 1] \in Clears
      BY <2>2
    <3>2. g[n] = step[n][g[n - 1]]
      BY <3>1, <1>4 DEF Rounds
    <3>3. QED
      BY <2>2, <3>1, <3>2
  <2>3. QED
    BY <2>1, <2>2
<1>6. P(g)
  BY <1>5
<1> HIDE DEF P
<1>7. P(CHOOSE f : P(f))
  BY <1>6, Zenon
<1>8. P(Clearing(q, dir))
  BY <1>3, <1>7
<1> DEFINE at == Clearing(q, dir)
<1> HIDE DEF at
<1>9. at = [n \in 0 .. FOptsMax |-> IF n = 0 THEN first ELSE ClearOne(q, dir, at[n - 1])]
  BY <1>8 DEF P, at
<1>10. at[0] = first
  BY <1>9
<1>11. ASSUME NEW n \in 1 .. FOptsMax PROVE at[n] = ClearOne(q, dir, at[n - 1])
  BY <1>9
<1>12. QED
  BY <1>10, <1>11 DEF at, first

LEMMA ClearOneIs ==
  ASSUME NEW q \in Queue, NEW dir, NEW s \in Clears, NEW r, r = ClearOne(q, dir, s)
  PROVE  /\ s.i >= q.len => r = s
         /\ s.i < q.len /\ IsPersistent(s.buf[s.i], dir) =>
              /\ r.i = s.i + MacLen(s.buf[s.i], dir)
              /\ r.buf = s.buf /\ r.numDeleted = s.numDeleted
         /\ s.i < q.len /\ ~IsPersistent(s.buf[s.i], dir) =>
              /\ r.i = s.i + MacLen(s.buf[s.i], dir)
              /\ r.numDeleted = s.numDeleted + MacLen(s.buf[s.i], dir)
              /\ \A k \in 0 .. s.i - 1 : r.buf[k] = s.buf[k]
              /\ \A k \in r.i .. q.len - 1 : r.buf[k] = 0
<1> DEFINE f == MacLen(s.buf[s.i], dir)
           tail == q.len - s.i - f
           buf == [k \in Index |-> CASE s.i + f <= k /\ k < q.len -> 0
                                     [] s.i <= k /\ k < s.i + tail /\ k < s.i + f -> s.buf[k + f]
                                     [] OTHER -> s.buf[k]]
<1>1. f \in 1 .. 6
  BY MacLenIs
<1>2. /\ s.buf \in [Index -> Bytes] /\ s.i \in Nat /\ s.numDeleted \in Nat
      /\ s = [buf |-> s.buf, i |-> s.i, numDeleted |-> s.numDeleted]
  BY DEF Clears
<1>3. q.len \in 0 .. FOptsMax /\ FOptsMax \in Nat
  BY QueueIs, Numbers
<1>4. r = IF s.i >= q.len THEN s
          ELSE IF IsPersistent(s.buf[s.i], dir) THEN [s EXCEPT !.i = @ + f]
          ELSE [buf |-> buf, i |-> s.i + f, numDeleted |-> s.numDeleted + f]
  BY DEF ClearOne
<1> HIDE DEF f
<1>5. ASSUME s.i < q.len, NEW k \in 0 .. s.i - 1 PROVE buf[k] = s.buf[k]
  <2>1. k \in Index /\ k \in Nat /\ k < s.i
    BY <1>2, <1>3, <1>5 DEF Index
  <2>2. ~ (s.i + f <= k /\ k < q.len) /\ ~ (s.i <= k /\ k < s.i + tail /\ k < s.i + f)
    <3> HIDE DEF tail
    <3> QED
      BY <2>1, <1>1, <1>2
  <2>3. QED
    BY <2>1, <2>2
<1>6. ASSUME NEW k \in s.i + f .. q.len - 1 PROVE buf[k] = 0
  <2>1. k \in Index /\ s.i + f <= k /\ k < q.len
    BY <1>1, <1>2, <1>3, <1>6 DEF Index
  <2>2. ~ (s.i <= k /\ k < s.i + tail /\ k < s.i + f)
    <3> HIDE DEF tail
    <3> QED
      BY <2>1, <1>1, <1>2, <1>3 DEF Index
  <2>3. QED
    BY <2>1, <2>2
<1> HIDE DEF buf
<1>7. s.i >= q.len => r = s
  BY <1>4
<1>8. ASSUME s.i < q.len, IsPersistent(s.buf[s.i], dir)
      PROVE  r.i = s.i + f /\ r.buf = s.buf /\ r.numDeleted = s.numDeleted
  BY <1>2, <1>3, <1>4, <1>8
<1>9. ASSUME s.i < q.len, ~IsPersistent(s.buf[s.i], dir)
      PROVE  /\ r.i = s.i + f /\ r.numDeleted = s.numDeleted + f
             /\ \A k \in 0 .. s.i - 1 : r.buf[k] = s.buf[k]
             /\ \A k \in r.i .. q.len - 1 : r.buf[k] = 0
  <2>1. r = [buf |-> buf, i |-> s.i + f, numDeleted |-> s.numDeleted + f]
    BY <1>2, <1>3, <1>4, <1>9
  <2>2. r.i = s.i + f /\ r.buf = buf /\ r.numDeleted = s.numDeleted + f
    BY <2>1
  <2>3. QED
    BY <2>2, <1>5, <1>6, <1>9
<1>10. QED
  BY <1>7, <1>8, <1>9 DEF f

(* The state of the loop: until a command is deleted it walks over offsets of *)
(* the queue; from then on it meets zero bytes only.                          *)
Persist(q, dir, m) == \A p \in Offsets(q, dir) : p < m => IsPersistent(q.buf[p], dir)

Walking(q, dir, s) ==
  /\ s.buf = q.buf /\ s.numDeleted = 0
  /\ s.i \in Offsets(q, dir) /\ Persist(q, dir, s.i)

Cut(q, dir, s, first) ==
  /\ first \in Offsets(q, dir) /\ first < s.i /\ s.i <= q.len
  /\ Persist(q, dir, first) /\ ~IsPersistent(q.buf[first], dir)
  /\ s.numDeleted = s.i - first
  /\ \A k \in 0 .. first - 1 : s.buf[k] = q.buf[k]
  /\ \A k \in s.i .. q.len - 1 : s.buf[k] = 0

LEMMA WalkingOn ==
  ASSUME NEW q \in Queue, NEW dir, q.len \in Offsets(q, dir),
         NEW s \in Clears, Walking(q, dir, s), s.i < q.len,
         NEW r, r = ClearOne(q, dir, s)
  PROVE  Walking(q, dir, r) \/ Cut(q, dir, r, s.i)
<1> DEFINE f == MacLen(q.buf[s.i], dir)
<1>1. f \in 1 .. 6 /\ s.i \in Offsets(q, dir) /\ s.buf = q.buf /\ s.i \in Nat /\ s.numDeleted = 0
  BY MacLenIs DEF Walking, Clears
<1>2. q.len \in 0 .. FOptsMax
  BY QueueIs
<1>3. s.i + f \in Offsets(q, dir) /\ s.i + f <= q.len
  BY <1>1, <1>2, OffsetsClosed, WholeBound
<1>4. \A p \in Offsets(q, dir) : p \in Nat
  BY <1>2, OffsetsClosed
<1>5. \A p \in Offsets(q, dir) : p < s.i + f => p <= s.i
  <2>1. SUFFICES ASSUME NEW p \in Offsets(q, dir), s.i < p PROVE s.i + f <= p
    BY <1>1, <1>4
  <2>2. QED
    BY <1>1, <1>2, <2>1, OffsetsApart
<1> HIDE DEF f
<1>6. CASE IsPersistent(q.buf[s.i], dir)
  <2>1. r.i = s.i + f /\ r.buf = q.buf /\ r.numDeleted = 0
    BY <1>1, <1>6, ClearOneIs DEF f
  <2>2. ASSUME NEW p \in Offsets(q, dir), p < s.i + f PROVE IsPersistent(q.buf[p], dir)
    <3>1. p = s.i \/ p < s.i
      BY <2>2, <1>1, <1>4, <1>5
    <3>2. CASE p < s.i
      BY <3>2 DEF Walking, Persist
    <3>3. QED
      BY <3>1, <3>2, <1>6
  <2>3. QED
    BY <2>1, <2>2, <1>3 DEF Walking, Persist
<1>7. CASE ~IsPersistent(q.buf[s.i], dir)
  <2>1. /\ r.i = s.i + f /\ r.numDeleted = f
        /\ \A k \in 0 .. s.i - 1 : r.buf[k] = q.buf[k]
        /\ \A k \in r.i .. q.len - 1 : r.buf[k] = 0
    <3>1. /\ r.i = s.i + f /\ r.numDeleted = s.numDeleted + f
          /\ \A k \in 0 .. s.i - 1 : r.buf[k] = s.buf[k]
          /\ \A k \in r.i .. q.len - 1 : r.buf[k] = 0
      BY <1>1, <1>7, ClearOneIs DEF f
    <3>2. QED
      BY <3>1, <1>1
  <2>2. Persist(q, dir, s.i)
    BY DEF Walking
  <2>3. r.numDeleted = r.i - s.i /\ s.i < r.i /\ r.i <= q.len
    BY <2>1, <1>1, <1>3
  <2>4. QED
    BY <2>1, <2>2, <2>3, <1>1, <1>7 DEF Cut
<1>8. QED
  BY <1>6, <1>7

LEMMA CutOn ==
  ASSUME NEW q \in Queue, NEW dir, q.len \in Offsets(q, dir),
         NEW s \in Clears, NEW first, Cut(q, dir, s, first), s.i < q.len,
         NEW r, r = ClearOne(q, dir, s)
  PROVE  Cut(q, dir, r, first) /\ r.i = s.i + 1
<1>1. s.i \in Nat /\ s.numDeleted \in Nat
  BY DEF Clears
<1>2. q.len \in Nat /\ first \in Nat
  BY QueueIs, OffsetsClosed DEF Cut
<1>3. s.buf[s.i] = 0
  BY <1>1, <1>2 DEF Cut
<1>4. MacLen(0, dir) = 1 /\ ~IsPersistent(0, dir)
  BY MacLenIs, UserCidsAre, CidsAre
<1>5. /\ r.i = s.i + 1 /\ r.numDeleted = s.numDeleted + 1
      /\ \A k \in 0 .. s.i - 1 : r.buf[k] = s.buf[k]
      /\ \A k \in r.i .. q.len - 1 : r.buf[k] = 0
  BY <1>3, <1>4, ClearOneIs
<1>6. first < s.i /\ s.numDeleted = s.i - first
  BY DEF Cut
<1>7. first < r.i /\ r.i <= q.len /\ r.numDeleted = r.i - first
  BY <1>1, <1>2, <1>5, <1>6
<1>8. ASSUME NEW k \in 0 .. first - 1 PROVE r.buf[k] = q.buf[k]
  <2>1. k \in 0 .. s.i - 1
    BY <1>1, <1>2, <1>6
  <2>2. QED
    BY <2>1, <1>5 DEF Cut
<1>9. QED
  BY <1>5, <1>7, <1>8 DEF Cut

LoopOK(q, dir, s) ==
  /\ s \in Clears
  /\ Walking(q, dir, s) \/ \E first \in Nat : Cut(q, dir, s, first)

LEMMA LoopOKOn ==
  ASSUME NEW q \in Queue, NEW dir, q.len \in Offsets(q, dir),
         NEW s, LoopOK(q, dir, s), s.i < q.len
  PROVE  LoopOK(q, dir, ClearOne(q, dir, s)) /\ ClearOne(q, dir, s).i >= s.i + 1
<1> USE DEF LoopOK
<1> DEFINE t == ClearOne(q, dir, s)
<1>1. t \in Clears /\ s.i \in Nat /\ t.i \in Nat
  <2>1. t \in Clears
    BY ClearOneType
  <2>2. QED
    BY <2>1 DEF Clears
<1>2. t.i >= s.i + 1
  <2>1. t.i = s.i + MacLen(s.buf[s.i], dir)
    BY ClearOneIs
  <2>2. QED
    BY <2>1, <1>1, MacLenIs
<1>3. CASE Walking(q, dir, s)
  <2>1. Walking(q, dir, t) \/ Cut(q, dir, t, s.i)
    BY <1>3, WalkingOn
  <2>2. QED
    BY <2>1, <1>1, <1>2
<1>4. CASE \E first \in Nat : Cut(q, dir, s, first)
  <2>1. PICK first \in Nat : Cut(q, dir, s, first)
    BY <1>4
  <2>2. Cut(q, dir, t, first)
    BY <2>1, CutOn
  <2>3. QED
    BY <2>2, <1>1, <1>2
<1>5. QED
  BY <1>3, <1>4

LEMMA ClearingOK ==
  ASSUME NEW q \in Queue, NEW dir, q.len \in Offsets(q, dir)
  PROVE  \A n \in 0 .. FOptsMax :
           LET s == Clearing(q, dir)[n] IN LoopOK(q, dir, s) /\ (s.i >= q.len \/ s.i >= n)
<1> USE Numbers
<1> DEFINE at == Clearing(q, dir)
           T == {n \in 0 .. FOptsMax : LoopOK(q, dir, at[n]) /\ (at[n].i >= q.len \/ at[n].i >= n)}
<1>1. /\ at[0] = [buf |-> q.buf, i |-> 0, numDeleted |-> 0]
      /\ \A n \in 1 .. FOptsMax : at[n] = ClearOne(q, dir, at[n - 1])
  BY ClearingIs
<1>2. q.len \in 0 .. FOptsMax /\ q.len \in Nat /\ q.buf \in [Index -> Bytes]
  BY QueueIs
<1>3. \A p \in Offsets(q, dir) : p \in Nat
  BY <1>2, OffsetsClosed
<1> HIDE DEF at
<1>4. 0 \in T
  <2>1. at[0] \in Clears /\ at[0].i = 0 /\ at[0].buf = q.buf /\ at[0].numDeleted = 0
    BY <1>1, <1>2 DEF Clears
  <2>2. Walking(q, dir, at[0])
    BY <2>1, <1>2, <1>3, OffsetsClosed DEF Walking, Persist
  <2>3. QED
    BY <2>1, <2>2 DEF LoopOK
<1>5. ASSUME NEW n \in 0 .. FOptsMax - 1, n \in T PROVE n + 1 \in T
  <2>1. at[n + 1] = ClearOne(q, dir, at[n]) /\ LoopOK(q, dir, at[n]) /\ at[n].i \in Nat
    <3>1. n + 1 \in 1 .. FOptsMax /\ n + 1 - 1 = n
      OBVIOUS
    <3>2. LoopOK(q, dir, at[n])
      BY <1>5
    <3>3. QED
      BY <3>1, <3>2, <1>1 DEF LoopOK, Clears
  <2>2. CASE at[n].i < q.len
    <3>1. LoopOK(q, dir, at[n + 1]) /\ at[n + 1].i >= at[n].i + 1
      BY <2>1, <2>2, LoopOKOn
    <3>2. at[n].i >= n
      BY <2>1, <2>2, <1>2, <1>5
    <3>3. at[n + 1].i \in Nat
      BY <3>1 DEF LoopOK, Clears
    <3>4. QED
      BY <2>1, <3>1, <3>2, <3>3
  <2>3. CASE at[n].i >= q.len
    <3>1. at[n + 1] = at[n]
      BY <2>1, <2>3, ClearOneIs DEF LoopOK
    <3>2. QED
      BY <2>1, <2>3, <3>1
  <2>4. QED
    BY <2>1, <2>2, <2>3, <1>2
<1>6. 0 .. FOptsMax \subseteq T
  <2> HIDE DEF T
  <2>1. QED
    BY <1>4, <1>5, Induction
<1>7. QED
  BY <1>6 DEF at

(* No command that the loop steps over or deletes reaches past the end: what  *)
(* is left for memmove is not negative.                                       *)
ClearStaysInside(q, dir) ==
  \A n \in 0 .. FOptsMax :
    LET s == Clearing(q, dir)[n] IN s.i < q.len => s.i + MacLen(s.buf[s.i], dir) <= q.len

LEMMA ClearInside ==
  ASSUME NEW q \in Queue, NEW dir, q.len \in Offsets(q, dir)
  PROVE  ClearStaysInside(q, dir)
<1>1. SUFFICES ASSUME NEW s, LoopOK(q, dir, s), s.i < q.len
               PROVE  s.i + MacLen(s.buf[s.i], dir) <= q.len
  BY ClearingOK DEF ClearStaysInside
<1> DEFINE t == ClearOne(q, dir, s)
<1>2. t.i = s.i + MacLen(s.buf[s.i], dir)
  BY <1>1, ClearOneIs DEF LoopOK
<1>3. LoopOK(q, dir, t)
  BY <1>1, LoopOKOn
<1> HIDE DEF t
<1>4. t.i <= q.len
  <2>1. CASE Walking(q, dir, t)
    BY <2>1, QueueIs, WholeBound DEF Walking
  <2>2. CASE \E first \in Nat : Cut(q, dir, t, first)
    BY <2>2 DEF Cut
  <2>3. QED
    BY <1>3, <2>1, <2>2 DEF LoopOK
<1>5. QED
  BY <1>2, <1>4

(* clearMacCommands leaves the commands ahead of the first one that does not  *)
(* persist, as they stood.                                                    *)
LEMMA ClearIs ==
  ASSUME NEW q \in Queue, NEW dir, q.len \in Offsets(q, dir),
         NEW r, r = ClearMacCommands(q, dir)
  PROVE  /\ r \in Queue
         /\ r.len \in Offsets(q, dir) /\ r.len <= q.len
         /\ Persist(q, dir, r.len)
         /\ r.len < q.len => ~IsPersistent(q.buf[r.len], dir)
         /\ \A k \in 0 .. r.len - 1 : r.buf[k] = q.buf[k]
<1> USE Numbers
<1> DEFINE end == Clearing(q, dir)[FOptsMax]
<1>1. q.len \in 0 .. FOptsMax /\ q.len \in Nat /\ q.buf \in [Index -> Bytes]
  BY QueueIs
<1>2. LoopOK(q, dir, end) /\ end.i >= q.len
  <2>1. FOptsMax \in 0 .. FOptsMax
    OBVIOUS
  <2>2. LoopOK(q, dir, end) /\ (end.i >= q.len \/ end.i >= FOptsMax)
    BY <2>1, ClearingOK
  <2> HIDE DEF end
  <2>3. end.i \in Nat
    BY <2>2 DEF LoopOK, Clears
  <2>4. QED
    BY <2>2, <2>3, <1>1
<1>3. r = [buf |-> end.buf, len |-> q.len - end.numDeleted]
  BY DEF ClearMacCommands
<1> HIDE DEF end
<1>4. end.buf \in [Index -> Bytes] /\ end.i \in Nat /\ end.numDeleted \in Nat
  BY <1>2 DEF LoopOK, Clears
<1>5. CASE Walking(q, dir, end)
  <2>1. end.i = q.len /\ Persist(q, dir, q.len) /\ end.buf = q.buf /\ end.numDeleted = 0
    <3>1. end.i \in Offsets(q, dir)
      BY <1>5 DEF Walking
    <3>2. end.i = q.len
      BY <3>1, <1>1, <1>2, <1>4, WholeBound
    <3>3. QED
      BY <3>2, <1>5 DEF Walking
  <2>2. r.buf = q.buf /\ r.len = q.len /\ r = [buf |-> r.buf, len |-> r.len]
    BY <2>1, <1>1, <1>3
  <2>3. QED
    BY <2>1, <2>2, <1>1 DEF Queue
<1>6. CASE \E first \in Nat : Cut(q, dir, end, first)
  <2>1. PICK first \in Nat : Cut(q, dir, end, first)
    BY <1>6
  <2>2. end.i = q.len /\ first < q.len /\ end.numDeleted = q.len - first
    BY <2>1, <1>1, <1>2, <1>4 DEF Cut
  <2>3. r.buf = end.buf /\ r.len = first /\ r = [buf |-> r.buf, len |-> r.len]
    BY <2>2, <1>1, <1>3
  <2>4. r \in Queue
    BY <2>2, <2>3, <1>1, <1>4 DEF Queue
  <2>5. QED
    BY <2>1, <2>2, <2>3, <2>4, <1>1 DEF Cut
<1>7. QED
  BY <1>2, <1>5, <1>6 DEF LoopOK

LEMMA OffsetsOfClear ==
  ASSUME NEW q \in Queue, NEW dir, q.len \in Offsets(q, dir),
         NEW r, r = ClearMacCommands(q, dir)
  PROVE  /\ r.len \in Offsets(r, dir)
         /\ Offsets(r, dir) = {p \in Offsets(q, dir) : p <= r.len}
<1>1. /\ r \in Queue /\ r.len \in Offsets(q, dir) /\ r.len <= q.len
      /\ \A k \in 0 .. r.len - 1 : r.buf[k] = q.buf[k]
  BY ClearIs
<1>2. q.len \in 0 .. FOptsMax /\ r.len \in 0 .. FOptsMax /\ r.len \in Nat /\ r.len <= r.len
  BY <1>1, QueueIs
<1>3. \A p \in Offsets(q, dir) : p <= r.len => p \in Offsets(r, dir)
  <2>1. \A k \in 0 .. r.len - 1 : q.buf[k] = r.buf[k]
    BY <1>1
  <2>2. QED
    BY <2>1, <1>1, <1>2, OffsetsAgree
<1>4. \A p \in Offsets(r, dir) : p <= r.len => p \in Offsets(q, dir)
  BY <1>1, <1>2, OffsetsAgree
<1>5. r.len \in Offsets(r, dir)
  BY <1>1, <1>2, <1>3
<1>6. \A p \in Offsets(r, dir) : p <= r.len
  BY <1>2, <1>5, WholeBound
<1>7. QED
  BY <1>3, <1>4, <1>5, <1>6

LEMMA MinIs ==
  ASSUME NEW T, T \subseteq Nat, NEW m \in T, \A y \in T : m <= y
  PROVE  Min(T) = m
<1>1. \A x \in T : (\A y \in T : x <= y) => x = m
  OBVIOUS
<1>2. Min(T) = CHOOSE x \in T : \A y \in T : x <= y
  BY DEF Min
<1>3. Min(T) \in T /\ \A y \in T : Min(T) <= y
  BY <1>2, Zenon
<1>4. QED
  BY <1>1, <1>3

LEMMA ClearedLength ==
  ASSUME NEW q \in Queue, NEW dir, q.len \in Offsets(q, dir)
  PROVE  ClearMacCommands(q, dir).len = FirstTransient(q, dir)
<1> DEFINE r == ClearMacCommands(q, dir)
           T == {q.len} \union {p \in Offsets(q, dir) : p < q.len /\ ~IsPersistent(q.buf[p], dir)}
<1>1. /\ r.len \in Offsets(q, dir) /\ r.len <= q.len
      /\ Persist(q, dir, r.len)
      /\ r.len < q.len => ~IsPersistent(q.buf[r.len], dir)
  BY ClearIs
<1>2. q.len \in Nat /\ Offsets(q, dir) \subseteq Nat
  BY QueueIs, OffsetsClosed
<1> HIDE DEF r
<1>3. T \subseteq Nat /\ r.len \in T
  BY <1>1, <1>2
<1>4. ASSUME NEW y \in T PROVE r.len <= y
  BY <1>1, <1>2 DEF Persist
<1> HIDE DEF T
<1>5. Min(T) = r.len
  BY <1>3, <1>4, MinIs
<1>6. QED
  BY <1>5 DEF T, r, FirstTransient

-----------------------------------------------------------------------------
(* Whole queues of commands *)

(* A scan of q ends at its end.                                               *)
Whole(q, dir) == q \in Queue /\ q.len \in Offsets(q, dir)

(* Only commands stand where a scan of q does.                                *)
Carries(q, dir) == \A p \in Offsets(q, dir) : p < q.len => q.buf[p] \in Cids

(* Where cid stands in q.                                                     *)
Places(q, cid, dir) == {p \in Offsets(q, dir) : p < q.len /\ q.buf[p] = cid}

LEMMA EmptyWhole ==
  ASSUME NEW dir
  PROVE  /\ Whole(Empty, dir) /\ Carries(Empty, dir) /\ Empty.len = 0
         /\ Offsets(Empty, dir) = {0}
         /\ \A cid : Places(Empty, cid, dir) = {}
<1>1. Empty \in Queue /\ Empty.len = 0
  BY Numbers DEF Empty, Queue, Bytes
<1>2. 0 \in Offsets(Empty, dir)
  BY <1>1, OffsetsClosed, Numbers
<1>3. \A p \in Offsets(Empty, dir) : p \in 0 .. 0
  BY <1>1, <1>2, WholeBound, Numbers
<1>4. Offsets(Empty, dir) = {0}
  BY <1>2, <1>3
<1>5. QED
  BY <1>1, <1>4 DEF Whole, Carries, Places

(* Zero bytes are stepped over one by one, so a queue of them is whole.       *)
LEMMA ZerosWhole ==
  ASSUME NEW q \in Queue, NEW dir, \A k \in 0 .. q.len - 1 : q.buf[k] = 0
  PROVE  Whole(q, dir)
<1> DEFINE T == {p \in 0 .. q.len : p \in Offsets(q, dir)}
<1>1. q.len \in 0 .. FOptsMax /\ q.len \in Nat
  BY QueueIs
<1>2. 0 \in T
  BY <1>1, OffsetsClosed
<1>3. ASSUME NEW p \in 0 .. q.len - 1, p \in T PROVE p + 1 \in T
  <2>1. p + MacLen(q.buf[p], dir) \in Offsets(q, dir)
    BY <1>1, <1>3, OffsetsClosed
  <2>2. MacLen(q.buf[p], dir) = 1
    BY MacLenIs, CidsAre
  <2>3. QED
    BY <1>1, <2>1, <2>2
<1>4. 0 .. q.len \subseteq T
  <2> HIDE DEF T
  <2>1. QED
    BY <1>1, <1>2, <1>3, Induction
<1>5. q.len \in T
  BY <1>1, <1>4
<1>6. QED
  BY <1>5 DEF Whole

LEMMA PushWhole ==
  ASSUME NEW q, NEW dir, Whole(q, dir), NEW cid \in Cids, NEW r, r = Push(q, cid, dir)
  PROVE  /\ Whole(r, dir)
         /\ Carries(q, dir) => Carries(r, dir)
         /\ \A c : c # cid => Places(r, c, dir) = Places(q, c, dir)
         /\ Places(r, cid, dir) \subseteq Places(q, cid, dir) \union {q.len}
<1>1. CASE ~Fits(q, cid, dir)
  BY <1>1 DEF Push
<1>2. CASE Fits(q, cid, dir)
  <2> DEFINE n == MacLen(cid, dir)
  <2>1. q \in Queue /\ q.len \in Offsets(q, dir) /\ q.len \in Nat /\ n \in 1 .. 6
    BY QueueIs, MacLenIs DEF Whole
  <2>2. /\ r \in Queue /\ r.len = q.len + n /\ r.buf[q.len] = cid
        /\ \A k \in 0 .. q.len - 1 : r.buf[k] = q.buf[k]
    BY <1>2, <2>1, PushIs
  <2>3. Offsets(r, dir) = Offsets(q, dir) \union {q.len + n}
    BY <1>2, <2>1, OffsetsOfPush
  <2> HIDE DEF n
  <2>4. \A p \in Offsets(q, dir) : p \in 0 .. q.len
    BY <2>1, QueueIs, WholeBound
  <2>5. \A p \in Offsets(r, dir) : p < r.len => p \in Offsets(q, dir)
    BY <2>1, <2>2, <2>3
  <2>6. ASSUME NEW p \in Offsets(q, dir)
        PROVE  p < r.len /\ (p = q.len \/ (p < q.len /\ r.buf[p] = q.buf[p]))
    <3>1. p \in 0 .. q.len
      BY <2>4
    <3>2. p < q.len => p \in 0 .. q.len - 1
      BY <2>1, <3>1
    <3>3. QED
      BY <2>1, <2>2, <3>1, <3>2
  <2>7. Whole(r, dir)
    BY <2>2, <2>3 DEF Whole
  <2>8. Carries(q, dir) => Carries(r, dir)
    BY <2>2, <2>5, <2>6 DEF Carries
  <2>9. ~ (q.len < q.len)
    BY <2>1
  <2>10. ASSUME NEW c, c # cid PROVE Places(r, c, dir) = Places(q, c, dir)
    <3>1. ASSUME NEW p \in Places(r, c, dir) PROVE p \in Places(q, c, dir)
      BY <2>2, <2>5, <2>6, <2>10, <3>1 DEF Places
    <3>2. ASSUME NEW p \in Places(q, c, dir) PROVE p \in Places(r, c, dir)
      BY <2>3, <2>6, <2>9, <3>2 DEF Places
    <3>3. QED
      BY <3>1, <3>2
  <2>11. ASSUME NEW p \in Places(r, cid, dir) PROVE p \in Places(q, cid, dir) \union {q.len}
    BY <2>5, <2>6, <2>11 DEF Places
  <2>12. QED
    BY <2>7, <2>8, <2>10, <2>11
<1>3. QED
  BY <1>1, <1>2

LEMMA ClearWhole ==
  ASSUME NEW q, NEW dir, Whole(q, dir), NEW r, r = ClearMacCommands(q, dir)
  PROVE  /\ Whole(r, dir)
         /\ Carries(q, dir) => Carries(r, dir)
         /\ \A c : Places(r, c, dir) \subseteq Places(q, c, dir)
<1>1. q \in Queue /\ q.len \in Offsets(q, dir) /\ q.len \in Nat
  BY QueueIs DEF Whole
<1>2. /\ r \in Queue /\ r.len <= q.len
      /\ \A k \in 0 .. r.len - 1 : r.buf[k] = q.buf[k]
  BY <1>1, ClearIs
<1>3. /\ r.len \in Offsets(r, dir)
      /\ Offsets(r, dir) = {p \in Offsets(q, dir) : p <= r.len}
  BY <1>1, OffsetsOfClear
<1>4. ASSUME NEW p \in Offsets(r, dir), p < r.len
      PROVE  p \in Offsets(q, dir) /\ p < q.len /\ r.buf[p] = q.buf[p]
  <2>1. p \in Offsets(q, dir) /\ p \in Nat /\ r.len \in Nat
    BY <1>1, <1>2, <1>3, QueueIs, OffsetsClosed
  <2>2. p < q.len /\ p \in 0 .. r.len - 1
    BY <1>1, <1>2, <1>4, <2>1
  <2>3. QED
    BY <1>2, <2>1, <2>2
<1>5. QED
  BY <1>2, <1>3, <1>4 DEF Whole, Carries, Places

(* In a whole queue of commands none hides another.                           *)
LEMMA FoundIs ==
  ASSUME NEW q, NEW dir, Whole(q, dir), Carries(q, dir), NEW cid
  PROVE  Found(q, cid, dir) <=> Places(q, cid, dir) # {}
<1>1. q \in Queue /\ q.len \in Offsets(q, dir) /\ q.len \in 0 .. FOptsMax /\ q.len \in Nat
  BY QueueIs DEF Whole
<1>2. ASSUME NEW p \in Offsets(q, dir), p < q.len, NEW s \in Offsets(q, dir), s <= p
      PROVE  q.buf[s] \in Cids /\ s + MacLen(q.buf[s], dir) <= q.len
  <2>1. p \in Nat /\ s \in Nat /\ s < q.len
    BY <1>1, <1>2, OffsetsClosed
  <2>2. s + MacLen(q.buf[s], dir) \in Offsets(q, dir)
    BY <1>1, <2>1, OffsetsClosed
  <2>3. s + MacLen(q.buf[s], dir) <= q.len
    BY <1>1, <2>2, WholeBound
  <2>4. QED
    BY <2>1, <2>3 DEF Carries
<1>3. QED
  BY <1>2 DEF Found, Places

LEMMA AtMostOne ==
  ASSUME NEW T, \A x, y \in T : x = y
  PROVE  Cardinality(T) <= 1
<1>1. CASE T = {}
  BY <1>1, FS_EmptySet
<1>2. CASE T # {}
  <2>1. PICK x \in T : TRUE
    BY <1>2
  <2>2. T = {x}
    OBVIOUS
  <2>3. Cardinality({x}) = 1
    BY FS_Singleton
  <2>4. QED
    BY <2>2, <2>3
<1>3. QED
  BY <1>1, <1>2

-----------------------------------------------------------------------------
(* What parseDownlink puts into the queues *)

LEMMA FillingIs ==
  ASSUME NEW d \in Seq(Cids), NEW dir
  PROVE  /\ Filling(d, dir)[0] = Empty
         /\ \A n \in 1 .. Len(d) :
              Filling(d, dir)[n] = IF Enters(d[n], dir)
                                   THEN Push(Filling(d, dir)[n - 1], d[n], dir)
                                   ELSE Filling(d, dir)[n - 1]
<1> DEFINE m == Len(d)
           F(n, q) == IF Enters(d[n], dir) THEN Push(q, d[n], dir) ELSE q
           step == [n \in 1 .. m |-> [q \in Queue |-> F(n, q)]]
           P(f) == f = [n \in 0 .. m |->
                          IF n = 0 THEN Empty
                          ELSE IF Enters(d[n], dir) THEN Push(f[n - 1], d[n], dir) ELSE f[n - 1]]
<1>1. m \in Nat /\ \A n \in 1 .. m : d[n] \in Cids
  OBVIOUS
<1>2. Empty \in Queue
  BY EmptyWhole DEF Whole
<1>3. P(Filling(d, dir)) <=> P(CHOOSE f : P(f))
  BY DEF Filling
<1> HIDE DEF m
<1>4. ASSUME NEW n \in 1 .. m, NEW q \in Queue PROVE F(n, q) \in Queue
  BY <1>1, PushKeeps
<1>5. step \in [1 .. m -> [Queue -> Queue]]
  BY <1>4
<1>6. PICK g \in [0 .. m -> Queue] : Rounds(g, m, Empty, step)
  <2> HIDE DEF step
  <2> QED
    BY <1>1, <1>2, <1>5, RoundsExist
<1>7. ASSUME NEW n \in 0 .. m
      PROVE  g[n] = IF n = 0 THEN Empty ELSE F(n, g[n - 1])
  <2> HIDE DEF F
  <2>1. CASE n = 0
    BY <1>6, <2>1 DEF Rounds
  <2>2. CASE n # 0
    <3>1. n \in 1 .. m /\ g[n - 1] \in Queue
      BY <1>1, <2>2
    <3>2. g[n] = step[n][g[n - 1]]
      BY <3>1, <1>6 DEF Rounds
    <3>3. QED
      BY <2>2, <3>1, <3>2
  <2>3. QED
    BY <2>1, <2>2
<1>8. P(g)
  BY <1>7
<1> HIDE DEF P
<1>9. P(CHOOSE f : P(f))
  BY <1>8, Zenon
<1>10. P(Filling(d, dir))
  BY <1>3, <1>9
<1> DEFINE at == Filling(d, dir)
<1> HIDE DEF at
<1>11. at = [n \in 0 .. m |->
               IF n = 0 THEN Empty
               ELSE IF Enters(d[n], dir) THEN Push(at[n - 1], d[n], dir) ELSE at[n - 1]]
  BY <1>10 DEF P, at
<1>12. at[0] = Empty
  BY <1>1, <1>11
<1>13. ASSUME NEW n \in 1 .. m
       PROVE  at[n] = IF Enters(d[n], dir) THEN Push(at[n - 1], d[n], dir) ELSE at[n - 1]
  BY <1>1, <1>11
<1>14. QED
  BY <1>12, <1>13 DEF at, m

(* Neither queue is hurt, and no answer of the node is a user's command.      *)
LEMMA FilledWhole ==
  ASSUME NEW d \in Seq(Cids), NEW dir
  PROVE  /\ Whole(Filled(d, dir), dir) /\ Carries(Filled(d, dir), dir)
         /\ dir = "up" => \A c : Row(c)[5] => Places(Filled(d, dir), c, dir) = {}
         /\ \A n \in 0 .. Len(d) :
              Whole(Filling(d, dir)[n], dir) /\ Carries(Filling(d, dir)[n], dir)
<1> DEFINE at == Filling(d, dir)
           m == Len(d)
           Fine(q) == /\ Whole(q, dir) /\ Carries(q, dir)
                      /\ dir = "up" => \A c : Row(c)[5] => Places(q, c, dir) = {}
           T == {n \in 0 .. m : Fine(at[n])}
<1>1. /\ at[0] = Empty
      /\ \A n \in 1 .. m :
           at[n] = IF Enters(d[n], dir) THEN Push(at[n - 1], d[n], dir) ELSE at[n - 1]
  BY FillingIs
<1>2. m \in Nat /\ \A n \in 1 .. m : d[n] \in Cids
  OBVIOUS
<1>3. Filled(d, dir) = at[m] \/ Filled(d, dir) = Empty
  BY DEF Filled
<1> HIDE DEF at, m
<1>4. Fine(Empty)
  BY EmptyWhole
<1>5. ASSUME NEW q, Fine(q), NEW cid \in Cids, Enters(cid, dir)
      PROVE  Fine(Push(q, cid, dir))
  <2>1. /\ Whole(Push(q, cid, dir), dir) /\ Carries(Push(q, cid, dir), dir)
        /\ \A c : c # cid => Places(Push(q, cid, dir), c, dir) = Places(q, c, dir)
    BY <1>5, PushWhole
  <2>2. ASSUME dir = "up", NEW c, Row(c)[5] PROVE Places(Push(q, cid, dir), c, dir) = {}
    <3>1. c \in {2, 13, 128} /\ Answered(cid)
      BY <1>5, <2>2, UserCidsAre DEF Enters
    <3>2. c # cid
      BY <3>1 DEF Answered
    <3>3. QED
      BY <3>2, <2>1, <2>2, <1>5
  <2>3. QED
    BY <2>1, <2>2
<1> HIDE DEF Fine
<1>6. 0 \in T
  BY <1>1, <1>2, <1>4
<1>7. ASSUME NEW n \in 0 .. m - 1, n \in T PROVE n + 1 \in T
  <2>1. n + 1 \in 1 .. m /\ n + 1 - 1 = n
    BY <1>2
  <2>2. at[n + 1] = IF Enters(d[n + 1], dir) THEN Push(at[n], d[n + 1], dir) ELSE at[n]
    BY <1>1, <2>1
  <2>3. d[n + 1] \in Cids /\ Fine(at[n])
    BY <1>2, <1>7, <2>1
  <2>4. Fine(at[n + 1])
    BY <1>5, <2>2, <2>3
  <2>5. QED
    BY <2>1, <2>4, <1>2
<1>8. 0 .. m \subseteq T
  <2> HIDE DEF T
  <2>1. QED
    BY <1>2, <1>6, <1>7, Induction
<1>9. \A n \in 0 .. m : Fine(at[n])
  BY <1>8
<1>10. Fine(at[m])
  BY <1>2, <1>9
<1>11. Fine(Filled(d, dir))
  BY <1>3, <1>4, <1>10
<1>12. QED
  BY <1>9, <1>11 DEF Fine, at, m

(* The commands of a downlink stand in fOptsDown in their order.              *)
LEMMA FilledInOrder ==
  ASSUME NEW d \in Downlinks
  PROVE  LET at == Filling(d, "down") IN
           \A n \in 0 .. Len(d) :
             /\ Whole(at[n], "down") /\ Carries(at[n], "down")
             /\ Offsets(at[n], "down") = {at[j].len : j \in 0 .. n}
             /\ \A j \in 1 .. n : /\ at[n].buf[at[j - 1].len] = d[j]
                                  /\ at[j - 1].len < at[j].len /\ at[j].len <= at[n].len
<1> DEFINE at == Filling(d, "down")
           m == Len(d)
           InOrder(n) == /\ Offsets(at[n], "down") = {at[j].len : j \in 0 .. n}
                         /\ \A j \in 1 .. n : /\ at[n].buf[at[j - 1].len] = d[j]
                                              /\ at[j - 1].len < at[j].len
                                              /\ at[j].len <= at[n].len
           T == {n \in 0 .. m : InOrder(n)}
<1>1. d \in Seq(Cids)
  BY QueueAssumption
<1>2. /\ at[0] = Empty
      /\ \A n \in 1 .. m :
           at[n] = IF Enters(d[n], "down") THEN Push(at[n - 1], d[n], "down") ELSE at[n - 1]
  BY <1>1, FillingIs
<1>3. \A n \in 0 .. m : Whole(at[n], "down") /\ Carries(at[n], "down")
  BY <1>1, FilledWhole
<1>4. m \in Nat /\ \A n \in 1 .. m : d[n] \in Cids /\ Fits(at[n - 1], d[n], "down")
  <2>1. DOMAIN d = 1 .. m /\ m \in Nat
    BY <1>1
  <2>2. \A n \in 1 .. m : Fits(Filling(d, "down")[n - 1], d[n], "down")
    BY <2>1, DownlinkAssumption DEF AllFit, Enters
  <2>3. QED
    BY <2>1, <2>2, <1>1
<1> HIDE DEF at, m
<1>5. 0 \in T
  <2>1. Offsets(at[0], "down") = {0} /\ at[0].len = 0
    BY <1>2, EmptyWhole
  <2>2. {at[j].len : j \in 0 .. 0} = {0}
    BY <2>1
  <2>3. QED
    BY <2>1, <2>2, <1>4
<1>6. ASSUME NEW n \in 0 .. m - 1, n \in T PROVE n + 1 \in T
  <2> DEFINE q == at[n]
             r == at[n + 1]
             cid == d[n + 1]
             l == MacLen(cid, "down")
  <2>1. n + 1 \in 1 .. m /\ n + 1 - 1 = n /\ n \in 0 .. m
    BY <1>4
  <2>2. cid \in Cids /\ Fits(q, cid, "down") /\ q \in Queue /\ q.len \in Offsets(q, "down")
    BY <2>1, <1>3, <1>4 DEF Whole
  <2>3. r = Push(q, cid, "down")
    BY <2>1, <1>2 DEF Enters
  <2>4. /\ r.len = q.len + l /\ r.buf[q.len] = cid
        /\ \A k \in 0 .. q.len - 1 : r.buf[k] = q.buf[k]
    BY <2>2, <2>3, PushIs
  <2>5. Offsets(r, "down") = Offsets(q, "down") \union {r.len}
    BY <2>2, <2>3, <2>4, OffsetsOfPush
  <2>6. q.len \in Nat /\ l \in 1 .. 6 /\ q.len < r.len
    <3>1. q.len \in Nat /\ l \in 1 .. 6
      BY <2>2, QueueIs, MacLenIs
    <3> HIDE DEF l
    <3>2. QED
      BY <3>1, <2>4
  <2>7. \A j \in 0 .. n : at[j].len \in Nat
    <3>1. ASSUME NEW j \in 0 .. n PROVE at[j].len \in Nat
      <4>1. j \in 0 .. m
        BY <1>4
      <4>2. QED
        BY <4>1, <1>3, QueueIs DEF Whole
    <3>2. QED
      BY <3>1
  <2>8. /\ Offsets(q, "down") = {at[j].len : j \in 0 .. n}
        /\ \A j \in 1 .. n : /\ q.buf[at[j - 1].len] = d[j]
                             /\ at[j - 1].len < at[j].len /\ at[j].len <= q.len
    BY <1>6
  <2>9. Offsets(r, "down") = {at[j].len : j \in 0 .. n + 1}
    <3>1. 0 .. n + 1 = (0 .. n) \union {n + 1}
      BY <1>4
    <3>2. QED
      BY <3>1, <2>5, <2>8
  <2>10. ASSUME NEW j \in 1 .. n + 1
         PROVE  r.buf[at[j - 1].len] = d[j] /\ at[j - 1].len < at[j].len /\ at[j].len <= r.len
    <3>1. CASE j = n + 1
      <4>1. r.len \in Nat
        BY <2>2, <2>3, <2>4, <2>6
      <4> HIDE DEF l
      <4>2. QED
        BY <3>1, <4>1, <2>1, <2>4, <2>6
    <3>2. CASE j # n + 1
      <4>1. j \in 1 .. n /\ j \in 0 .. n /\ j - 1 \in 0 .. n
        BY <3>2, <1>4
      <4>2. q.buf[at[j - 1].len] = d[j] /\ at[j - 1].len < at[j].len /\ at[j].len <= q.len
        BY <4>1, <2>8
      <4>3. at[j - 1].len \in 0 .. q.len - 1 /\ at[j].len \in Nat /\ r.len \in Nat
        <5>1. at[j - 1].len \in Nat /\ at[j].len \in Nat
          BY <4>1, <2>7
        <5>2. r.len \in Nat
          <6> HIDE DEF l
          <6>1. QED
            BY <2>4, <2>6
        <5>3. QED
          BY <5>1, <5>2, <4>2, <2>6
      <4>4. r.buf[at[j - 1].len] = d[j]
        BY <4>2, <4>3, <2>4
      <4>5. at[j].len <= r.len
        BY <4>2, <4>3, <2>6
      <4>6. QED
        BY <4>2, <4>4, <4>5
    <3>3. QED
      BY <3>1, <3>2
  <2>11. InOrder(n + 1)
    BY <2>9, <2>10
  <2>12. n + 1 \in 0 .. m
    BY <1>4
  <2>13. QED
    BY <2>11, <2>12
<1>7. 0 .. m \subseteq T
  <2> HIDE DEF T
  <2>1. QED
    BY <1>4, <1>5, <1>6, Induction
<1>8. QED
  BY <1>3, <1>7 DEF at, m

LEMMA LeadingKept ==
  ASSUME NEW d \in Downlinks, NEW k \in DOMAIN d, \A j \in 1 .. k : Row(d[j])[5]
  PROVE  Found(ClearMacCommands(Filled(d, "down"), "down"), d[k], "down")
<1> DEFINE at == Filling(d, "down")
           m == Len(d)
           q == at[m]
           r == ClearMacCommands(q, "down")
<1>1. d \in Seq(Cids) /\ m \in Nat /\ k \in 1 .. m
  BY QueueAssumption
<1>2. /\ Whole(q, "down") /\ Carries(q, "down")
      /\ Offsets(q, "down") = {at[j].len : j \in 0 .. m}
      /\ \A j \in 1 .. m : q.buf[at[j - 1].len] = d[j]
  <2>1. m \in 0 .. m
    BY <1>1
  <2>2. \A n \in 0 .. m :
          /\ Whole(at[n], "down") /\ Carries(at[n], "down")
          /\ Offsets(at[n], "down") = {at[j].len : j \in 0 .. n}
          /\ \A j \in 1 .. n : at[n].buf[at[j - 1].len] = d[j]
    BY FilledInOrder
  <2> HIDE DEF at, m
  <2>3. QED
    BY <2>1, <2>2
<1>3. \A n \in 0 .. m : /\ at[n].len \in Nat
                        /\ \A j \in 1 .. n : at[j - 1].len < at[j].len /\ at[j].len <= at[n].len
  <2>1. ASSUME NEW n \in 0 .. m PROVE at[n].len \in Nat
    BY <1>1, FilledInOrder, QueueIs DEF Whole
  <2>2. QED
    BY <2>1, FilledInOrder
<1>4. Filled(d, "down") = q
  BY DownlinkAssumption DEF Filled
<1> HIDE DEF at, m
<1>5. q \in Queue /\ q.len \in Offsets(q, "down")
  BY <1>2 DEF Whole
<1>6. /\ r.len \in Offsets(q, "down") /\ r.len <= q.len
      /\ r.len < q.len => ~IsPersistent(q.buf[r.len], "down")
      /\ \A p \in 0 .. r.len - 1 : r.buf[p] = q.buf[p]
      /\ r.len \in Nat /\ Whole(r, "down") /\ Carries(r, "down")
      /\ Offsets(r, "down") = {p \in Offsets(q, "down") : p <= r.len}
  <2>1. r \in Queue
    BY <1>5, ClearIs
  <2>2. QED
    BY <2>1, <1>2, <1>5, ClearIs, ClearWhole, OffsetsOfClear, QueueIs
<1> HIDE DEF q, r
<1>7. ASSUME NEW j \in 0 .. k - 1 PROVE at[j].len # r.len
  <2>1. j + 1 \in 1 .. m /\ j + 1 \in 1 .. k /\ j + 1 - 1 = j /\ m \in 0 .. m
    BY <1>1
  <2>2. q.buf[at[j].len] = d[j + 1] /\ at[j].len < at[j + 1].len /\ at[j + 1].len <= at[m].len
    BY <2>1, <1>2, <1>3
  <2>3. Row(d[j + 1])[5]
    BY <2>1
  <2>4. IsPersistent(q.buf[at[j].len], "down")
    BY <2>2, <2>3 DEF IsPersistent
  <2>5. at[j].len < q.len
    <3>1. at[j].len \in Nat /\ at[j + 1].len \in Nat /\ at[m].len \in Nat
      BY <1>1, <1>3, <2>1
    <3>2. QED
      BY <2>2, <3>1 DEF q
  <2>6. QED
    BY <2>4, <2>5, <1>6
<1>8. PICK n \in 0 .. m : at[n].len = r.len
  BY <1>2, <1>6
<1>9. n \in k .. m
  BY <1>1, <1>7, <1>8
<1>10. at[k - 1].len < at[k].len /\ at[k].len <= r.len
  BY <1>1, <1>3, <1>8, <1>9
<1>11. at[k - 1].len \in Nat /\ at[k].len \in Nat /\ k - 1 \in 0 .. m
  BY <1>1, <1>3
<1>12. at[k - 1].len \in 0 .. r.len - 1 /\ at[k - 1].len < r.len
  BY <1>6, <1>10, <1>11
<1>13. at[k - 1].len \in Offsets(r, "down") /\ r.buf[at[k - 1].len] = d[k]
  <2>1. at[k - 1].len \in Offsets(q, "down")
    BY <1>2, <1>11
  <2>2. q.buf[at[k - 1].len] = d[k]
    BY <1>1, <1>2
  <2>3. r.buf[at[k - 1].len] = q.buf[at[k - 1].len]
    BY <1>6, <1>12
  <2>4. at[k - 1].len <= r.len
    BY <1>6, <1>11, <1>12
  <2>5. QED
    BY <2>1, <2>2, <2>3, <2>4, <1>6
<1>14. at[k - 1].len \in Places(r, d[k], "down")
  BY <1>12, <1>13 DEF Places
<1>15. Found(r, d[k], "down")
  BY <1>6, <1>14, FoundIs
<1>16. QED
  BY <1>4, <1>15 DEF r

-----------------------------------------------------------------------------
(* The inductive invariant *)

Once(q) == \A cid \in UserCids : \A p, r \in Places(q, cid, "up") : p = r

Leading(q, d) ==
  \A k \in DOMAIN d : (\A j \in 1 .. k : Row(d[j])[5]) => Found(q, d[k], "down")

UpFine(q, zeroed) == /\ Whole(q, "up")
                     /\ ~zeroed => Carries(q, "up") /\ Once(q)

DownFine(q, zeroed, d) == /\ Whole(q, "down")
                          /\ ~zeroed => Carries(q, "down")
                          /\ Leading(q, d)

(* The downlink whose leading answers must be in fOptsDown: none after an     *)
(* uplink of its own.                                                         *)
Kept(d, own) == IF own THEN <<>> ELSE d

QueueInv ==
  /\ isMACPayload \in BOOLEAN /\ active \in BOOLEAN
  /\ cleared \in BOOLEAN /\ apart \in BOOLEAN
  /\ lastDown \in Downlinks \union {<<>>}
  /\ UpFine(fOptsUp, cleared)
  /\ DownFine(fOptsDown, cleared, Kept(lastDown, apart))

LEMMA EmptyFine ==
  /\ \A zeroed : UpFine(Empty, zeroed)
  /\ \A zeroed : DownFine(Empty, zeroed, <<>>)
<1>1. Leading(Empty, <<>>)
  BY DEF Leading
<1>2. Once(Empty)
  BY EmptyWhole DEF Once
<1>3. QED
  BY <1>1, <1>2, EmptyWhole DEF UpFine, DownFine

(* A command that is not the user's, or one that is not in the queue.         *)
LEMMA PushFine ==
  ASSUME NEW q, NEW zeroed \in BOOLEAN, UpFine(q, zeroed), NEW cid \in Cids,
         ~Row(cid)[5] \/ ~Found(q, cid, "up")
  PROVE  UpFine(Push(q, cid, "up"), zeroed)
<1> DEFINE r == Push(q, cid, "up")
<1>1. /\ Whole(r, "up")
      /\ Carries(q, "up") => Carries(r, "up")
      /\ \A c : c # cid => Places(r, c, "up") = Places(q, c, "up")
      /\ Places(r, cid, "up") \subseteq Places(q, cid, "up") \union {q.len}
  BY PushWhole DEF UpFine
<1> HIDE DEF r
<1>2. ASSUME ~zeroed, NEW c \in UserCids, NEW x \in Places(r, c, "up"), NEW y \in Places(r, c, "up")
      PROVE  x = y
  <2>1. Carries(q, "up") /\ Once(q) /\ Whole(q, "up")
    BY <1>2 DEF UpFine
  <2>2. CASE c = cid
    <3>1. ~Found(q, cid, "up")
      BY <2>2, QueueAssumption
    <3>2. Places(q, cid, "up") = {}
      BY <2>1, <3>1, FoundIs
    <3>3. QED
      BY <2>2, <3>2, <1>1, <1>2
  <2>3. CASE c # cid
    BY <2>1, <2>3, <1>1, <1>2 DEF Once
  <2>4. QED
    BY <2>2, <2>3
<1>3. QED
  BY <1>1, <1>2 DEF UpFine, Once, r

LEMMA ClearFine ==
  ASSUME NEW q, NEW zeroed \in BOOLEAN, UpFine(q, zeroed)
  PROVE  UpFine(ClearMacCommands(q, "up"), zeroed)
<1> DEFINE r == ClearMacCommands(q, "up")
<1>1. /\ Whole(r, "up")
      /\ Carries(q, "up") => Carries(r, "up")
      /\ \A c : Places(r, c, "up") \subseteq Places(q, c, "up")
  BY ClearWhole DEF UpFine
<1> HIDE DEF r
<1>2. Once(q) => Once(r)
  BY <1>1 DEF Once
<1>3. QED
  BY <1>1, <1>2 DEF UpFine, r

LEMMA HeardFine ==
  ASSUME NEW d \in Downlinks, NEW zeroed
  PROVE  /\ UpFine(Filled(d, "up"), zeroed)
         /\ DownFine(ClearMacCommands(Filled(d, "down"), "down"), zeroed, d)
<1>1. d \in Seq(Cids)
  BY QueueAssumption
<1>2. /\ Whole(Filled(d, "up"), "up") /\ Carries(Filled(d, "up"), "up")
      /\ \A c : Row(c)[5] => Places(Filled(d, "up"), c, "up") = {}
  BY <1>1, FilledWhole
<1>3. Once(Filled(d, "up"))
  BY <1>2, QueueAssumption DEF Once
<1>4. /\ Whole(Filled(d, "down"), "down") /\ Carries(Filled(d, "down"), "down")
  BY <1>1, FilledWhole
<1> DEFINE r == ClearMacCommands(Filled(d, "down"), "down")
<1>5. Whole(r, "down") /\ Carries(r, "down")
  BY <1>4, ClearWhole
<1>6. Leading(r, d)
  BY LeadingKept DEF Leading
<1> HIDE DEF r
<1>7. QED
  BY <1>2, <1>3, <1>5, <1>6 DEF UpFine, DownFine, r

LEMMA ZeroedFine ==
  ASSUME NEW q \in Queue, NEW r, r = [q EXCEPT !.buf = Empty.buf],
         NEW zeroed \in BOOLEAN, q.len > 0 => zeroed
  PROVE  UpFine(r, zeroed) /\ DownFine(r, zeroed, <<>>)
<1>1. r \in Queue /\ r.len = q.len /\ r.buf = Empty.buf
  BY EmptyWhole DEF Queue, Whole
<1>2. q.len \in Nat
  BY QueueIs
<1>3. \A k \in 0 .. r.len - 1 : r.buf[k] = 0
  <2>1. ASSUME NEW k \in 0 .. r.len - 1 PROVE Empty.buf[k] = 0
    <3>1. k \in Index
      BY <1>1, QueueIs
    <3>2. QED
      BY <3>1 DEF Empty
  <2>2. QED
    BY <2>1, <1>1
<1>4. \A dir : Whole(r, dir)
  BY <1>1, <1>3, ZerosWhole
<1>5. ASSUME ~zeroed, NEW dir
      PROVE  Carries(r, dir) /\ \A c : Places(r, c, dir) = {}
  <2>1. r.len = 0
    BY <1>1, <1>2, <1>5
  <2>2. \A p \in Offsets(r, dir) : ~ (p < r.len)
    BY <1>1, <2>1, QueueIs, OffsetsClosed
  <2>3. QED
    BY <2>2 DEF Carries, Places
<1>6. Leading(r, <<>>)
  BY DEF Leading
<1>7. QED
  BY <1>4, <1>5, <1>6 DEF UpFine, DownFine, Once

LEMMA QueueInvInit == Init => QueueInv
  BY EmptyFine DEF Init, QueueInv, Kept

LEMMA QueueInvNext == QueueInv /\ [Next]_vars => QueueInv'
<1> SUFFICES ASSUME QueueInv, [Next]_vars PROVE QueueInv'
  OBVIOUS
<1> USE DEF QueueInv
<1>1. ASSUME NEW cid \in {REKEY, RESET}, Activate(cid) PROVE QueueInv'
  <2>1. cid \in Cids /\ ~Row(cid)[5]
    BY CidsAre, UserCidsAre DEF REKEY, RESET
  <2>2. UpFine(fOptsUp', cleared)
    BY <1>1, <2>1, PushFine DEF Activate
  <2>3. QED
    BY <1>1, <2>2 DEF Activate
<1>2. ASSUME NEW cid \in UserCids, sendMacCommandReq(cid) PROVE QueueInv'
  <2>1. cid \in Cids
    BY QueueAssumption, UserCidsAre
  <2>2. UpFine(fOptsUp', cleared)
    BY <1>2, <2>1, PushFine DEF sendMacCommandReq
  <2>3. QED
    BY <1>2, <2>2 DEF sendMacCommandReq
<1>3. CASE setClass
  <2>1. DEVICE_MODE \in Cids /\ ~Row(DEVICE_MODE)[5]
    BY CidsAre, UserCidsAre DEF DEVICE_MODE
  <2>2. UpFine(fOptsUp', cleared)
    BY <1>3, <2>1, PushFine DEF setClass
  <2>3. QED
    BY <1>3, <2>2 DEF setClass
<1>4. CASE clearSession
  <2>1. fOptsUp \in Queue /\ fOptsDown \in Queue
    BY DEF UpFine, DownFine, Whole
  <2>2. cleared' \in BOOLEAN /\ (fOptsUp.len > 0 => cleared') /\ (fOptsDown.len > 0 => cleared')
    BY <1>4 DEF clearSession
  <2>3. UpFine(fOptsUp', cleared') /\ DownFine(fOptsDown', cleared', <<>>)
    BY <1>4, <2>1, <2>2, ZeroedFine DEF clearSession
  <2>4. Kept(lastDown', apart') = <<>>
    BY <1>4 DEF clearSession, Kept
  <2>5. QED
    BY <1>4, <2>2, <2>3, <2>4 DEF clearSession
<1>5. ASSUME NEW frame \in Frames
      PROVE  /\ UpFine(Queued(frame), cleared)
             /\ MacOnly(frame) \in BOOLEAN /\ Flagged(frame) \in BOOLEAN
  BY EmptyFine DEF Queued, MacOnly, Flagged
<1>6. ASSUME NEW frame \in Frames, SendFails(frame) PROVE QueueInv'
  <2>1. Kept(lastDown', apart') = <<>>
    BY <1>6 DEF SendFails, Kept
  <2>2. QED
    BY <1>5, <1>6, <2>1, EmptyFine DEF SendFails
<1>7. ASSUME NEW frame \in Frames, SendUnheard(frame) PROVE QueueInv'
  <2>1. Kept(lastDown', apart') = <<>>
    BY <1>7 DEF SendUnheard, Kept
  <2>2. QED
    BY <1>5, <1>7, <2>1, EmptyFine, ClearFine DEF SendUnheard
<1>8. ASSUME NEW frame \in Frames, NEW d \in Downlinks, SendHeard(frame, d) PROVE QueueInv'
  <2> DEFINE own == d # <<>> /\ (Flagged(frame) \/ ~AllFit(d, "up"))
  <2>1. /\ fOptsUp' = IF own THEN Empty ELSE Filled(d, "up")
        /\ fOptsDown' = IF own THEN Empty ELSE ClearMacCommands(Filled(d, "down"), "down")
        /\ isMACPayload' = IF own THEN Answering(d) ELSE Flagged(frame)
        /\ lastDown' = d /\ apart' = own
        /\ UNCHANGED <<active, cleared>>
    BY <1>8 DEF SendHeard
  <2>2. own \in BOOLEAN /\ isMACPayload' \in BOOLEAN
    <3>1. own \in BOOLEAN
      OBVIOUS
    <3>2. Answering(d) \in BOOLEAN
      BY DEF Answering
    <3>3. QED
      BY <3>1, <3>2, <2>1, <1>5
  <2> HIDE DEF own
  <2>3. UpFine(fOptsUp', cleared)
    BY <2>1, EmptyFine, HeardFine
  <2>4. DownFine(fOptsDown', cleared, Kept(d, own))
    <3>1. CASE own
      BY <3>1, <2>1, EmptyFine DEF Kept
    <3>2. CASE ~own
      BY <3>2, <2>1, HeardFine DEF Kept
    <3>3. QED
      BY <3>1, <3>2
  <2>5. QED
    BY <2>1, <2>2, <2>3, <2>4
<1>9. CASE UNCHANGED vars
  BY <1>9 DEF vars
<1>10. QED
  BY <1>1, <1>2, <1>3, <1>4, <1>6, <1>7, <1>8, <1>9 DEF Next

(* The inductive invariant behind the theorems: both queues are whole at all  *)
(* times, and as long as clearSession has not zeroed one that held something, *)
(* they carry commands only, each request of the user at one place.           *)
THEOREM QueuesAreFine == Spec => []QueueInv
  BY QueueInvInit, QueueInvNext, PTL DEF Spec

-----------------------------------------------------------------------------
(* The properties *)

(* Every byte of a queue is a CID or zero, and no length exceeds the room     *)
(* of the buffer, for every FOptsMax (pushMacCommand, clearMacCommands).      *)
THEOREM QueuesTyped == Spec => []TypeOK
<1>1. QueueInv => TypeOK
  BY DEF QueueInv, TypeOK, UpFine, DownFine, Whole
<1>2. QED
  BY <1>1, QueuesAreFine, PTL

(* The loop of clearMacCommands never steps over the end of a queue, so the   *)
(* lengths it computes for memmove and memset are not negative; and without a *)
(* clearSession of a queue in use a scan meets commands only.                 *)
THEOREM QueuesAreWhole == Spec => []QueuesWhole
<1>1. QueueInv => QueuesWhole
  BY DEF QueueInv, QueuesWhole, UpFine, DownFine, Whole, Carries
<1>2. QED
  BY <1>1, QueuesAreFine, PTL

(* What clearMacCommands hands to memmove and memset is never negative, in    *)
(* either queue, not even in one that clearSession zeroed.                    *)
THEOREM ClearsStayInside ==
  Spec => [](/\ ClearStaysInside(fOptsUp, "up")
             /\ \A d \in Downlinks : ClearStaysInside(Filled(d, "down"), "down"))
<1>1. QueueInv => ClearStaysInside(fOptsUp, "up")
  BY ClearInside DEF QueueInv, UpFine, Whole
<1>2. \A d \in Downlinks : ClearStaysInside(Filled(d, "down"), "down")
  <2>1. ASSUME NEW d \in Downlinks PROVE Whole(Filled(d, "down"), "down")
    BY FilledWhole, QueueAssumption
  <2>2. QED
    BY <2>1, ClearInside DEF Whole
<1>3. QED
  BY <1>1, <1>2, QueuesAreFine, PTL

(* sendMacCommandReq never queues a request twice.                            *)
THEOREM RequestsStandOnce == Spec => []RequestedOnce
<1>1. QueueInv => RequestedOnce
  <2>1. SUFFICES ASSUME QueueInv, ~cleared, NEW cid \in UserCids
                 PROVE  Cardinality(Places(fOptsUp, cid, "up")) <= 1
    BY DEF RequestedOnce, Places
  <2>2. \A p, r \in Places(fOptsUp, cid, "up") : p = r
    BY <2>1 DEF QueueInv, UpFine, Once
  <2>3. QED
    BY <2>2, AtMostOne
<1>2. QED
  BY <1>1, QueuesAreFine, PTL

(* getMacPayload finds the answers that lead a downlink of any length, unless *)
(* parseDownlink answered that downlink by an uplink of its own.              *)
THEOREM LeadingAnswersKept == Spec => []LeadingAnswersAvailable
<1>1. QueueInv => LeadingAnswersAvailable
  BY DEF QueueInv, LeadingAnswersAvailable, DownFine, Leading, Kept
<1>2. QED
  BY <1>1, QueuesAreFine, PTL

(* An uplink that no downlink answered leaves only commands that persist, and *)
(* keeps those ahead of the first one that does not, byte for byte            *)
(* (sendReceive, clearMacCommands).                                           *)
THEOREM LeadIsKept == Spec => UnansweredKeepsLead
<1>1. ASSUME QueueInv, NEW frame \in Frames, SendUnheard(frame), ~MacOnly(frame)
      PROVE  /\ fOptsUp'.len >= FirstTransient(fOptsUp, "up")
             /\ \A k \in 0 .. FirstTransient(fOptsUp, "up") - 1 : fOptsUp'.buf[k] = fOptsUp.buf[k]
             /\ \A p \in Offsets(fOptsUp', "up") :
                   p < fOptsUp'.len => IsPersistent(fOptsUp'.buf[p], "up")
  <2> DEFINE q == fOptsUp
             r == ClearMacCommands(q, "up")
  <2>1. q \in Queue /\ q.len \in Offsets(q, "up")
    BY <1>1 DEF QueueInv, UpFine, Whole
  <2>2. fOptsUp' = r
    BY <1>1 DEF SendUnheard, Queued
  <2>3. r.len = FirstTransient(q, "up")
    BY <2>1, ClearedLength
  <2>4. /\ r \in Queue /\ r.len \in Nat
        /\ \A k \in 0 .. r.len - 1 : r.buf[k] = q.buf[k]
        /\ Persist(q, "up", r.len)
    BY <2>1, ClearIs, QueueIs
  <2>5. Offsets(r, "up") = {p \in Offsets(q, "up") : p <= r.len} /\ Offsets(q, "up") \subseteq Nat
    BY <2>1, OffsetsOfClear, QueueIs, OffsetsClosed
  <2> HIDE DEF r
  <2>6. ASSUME NEW p \in Offsets(r, "up"), p < r.len PROVE IsPersistent(r.buf[p], "up")
    <3>1. p \in Offsets(q, "up") /\ p \in 0 .. r.len - 1
      BY <2>4, <2>5, <2>6
    <3>2. r.buf[p] = q.buf[p] /\ IsPersistent(q.buf[p], "up")
      BY <2>4, <2>6, <3>1 DEF Persist
    <3>3. QED
      BY <3>2
  <2>7. QED
    BY <2>2, <2>3, <2>4, <2>6
<1>2. QueueInv /\ [Next]_vars =>
        [\A frame \in Frames : SendUnheard(frame) /\ ~MacOnly(frame) =>
           /\ fOptsUp'.len >= FirstTransient(fOptsUp, "up")
           /\ \A k \in 0 .. FirstTransient(fOptsUp, "up") - 1 : fOptsUp'.buf[k] = fOptsUp.buf[k]
           /\ \A p \in Offsets(fOptsUp', "up") :
                 p < fOptsUp'.len => IsPersistent(fOptsUp'.buf[p], "up")]_vars
  BY <1>1
<1>3. QED
  BY <1>2, QueuesAreFine, PTL DEF Spec, UnansweredKeepsLead

=============================================================================
